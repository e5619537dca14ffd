-------------------------- MODULE CopySpoolProofs --------------------------
(***************************************************************************)
(* What holds of the spool files for any number of runs, tasks, databases, *)
(* attempts and faults; and what holds only while the runs of one task     *)
(* publish to one database.                                                *)
(***************************************************************************)
EXTENDS CopySpool, TLAPS

-----------------------------------------------------------------------------
(* The inductive invariant.                                                *)

\* A run that owns its lock has never lost it; a live one that does not own it did.
Sessions ==
    \A r \in Runs :
        /\ Owns(r) => lostAt[r] = "idle" /\ pc[r] \in Active \cup {"dead"}
        /\ pc[r] \in Active => Owns(r) \/ lostAt[r] # "idle"
        /\ pc[r] = "idle" => lostAt[r] = "idle"
        /\ pc[r] = "listing" => Owns(r) \/ lostAt[r] = "listing"

\* The spools a run has still to create.
ToCome(r, s) ==
    \/ pc[r] \in {"idle", "listing", "examine", "tables", "ready"}
    \/ pc[r] = "unlink" /\ goal[r] = "tables"
    \/ pc[r] = "create" /\ (stage[r] = "neutral" \/ s = "copytext")
    \/ pc[r] \in {"header", "assign", "write"} /\ stage[r] = "neutral" /\ s = "copytext"

Own(r) == {<<r, s>> : s \in Stages}

\* Which paths a run holds, and when.
Held ==
    \A r \in Runs :
        /\ known[r] \subseteq Own(r)
        /\ pc[r] # "examine" => listing[r] = {}
        /\ pc[r] \notin {"examine", "unlink"} => job[r] = {}
        /\ pc[r] = "unlink" /\ goal[r] # "tables" => job[r] \subseteq Own(r)

\* A path is listed and marked for removal by a run of its task only, its own run
\* excepted when its header is complete, and not before it exists.
Listings ==
    \A q \in Runs : \A s \in Stages :
        /\ ToCome(q, s) => <<q, s>> \notin known[q]
        /\ pc[q] = "header" /\ s = stage[q] => file[<<q, s>>] = "bare"
        /\ \A r \in Runs :
             /\ ToCome(q, s) => <<q, s>> \notin listing[r] \cup job[r]
             /\ <<q, s>> \in job[r] =>
                  TaskOf[q] = TaskOf[r] /\ (q = r \/ file[<<q, s>>] # "bare")

NotYet == \A r \in Runs : \A s \in Stages : ToCome(r, s) => file[<<r, s>>] = "none"

\* Where the spools of a run are accounted for.
Accounted ==
    \A r \in Runs : \A s \in Stages :
        file[<<r, s>>] # "none" =>
            /\ pc[r] \in {"create", "header", "assign", "write", "return", "load"} =>
                  \/ <<r, s>> \in known[r]
                  \/ pc[r] \in {"header", "assign"} /\ s = stage[r]
            /\ pc[r] = "unlink" /\ goal[r] = "return" => <<r, s>> \in known[r]
            /\ pc[r] = "unlink" /\ goal[r] = "commit" => <<r, s>> \in job[r] \cup kept[r]
            /\ pc[r] # "commit"
            /\ r \notin committed

Committed == \A r \in committed : pc[r] \in {"ending", "done", "dead"}

\* Without an interrupt or a file that stays, a run that fails removes all it wrote.
Removed ==
    \A r \in Runs :
        /\ kept[r] # {} => "unlink" \in report[r]
        /\ report[r] \cap {"interrupt", "unlink"} = {} =>
             \A s \in Stages : file[<<r, s>>] # "none" =>
                 /\ pc[r] \notin {"ending", "done"}
                 /\ pc[r] = "unlink" /\ goal[r] = "ending" => <<r, s>> \in job[r]

SInv == TypeOK /\ Sessions /\ Held /\ Listings /\ NotYet /\ Accounted /\ Committed /\ Removed

-----------------------------------------------------------------------------
(* What depends on the database: a run finds its predecessors by the task  *)
(* in the header, and is kept apart from them by the lock of its database. *)

OneDatabasePerTask ==
    \A r, q \in Runs : TaskOf[r] = TaskOf[q] => DatabaseOf[r] = DatabaseOf[q]

\* No run of the same lock lists the files of the owner, unless it was at it when it
\* lost the lock.
OwnerUnlisted ==
    \A r, q \in Runs :
        r # q /\ Owns(r) /\ Lock(q) = Lock(r) /\ lostAt[q] # "listing" =>
            \A s \in Stages : <<r, s>> \notin listing[q] \cup job[q]

Undisturbed(r) ==
    /\ Owns(r) /\ pc[r] \in Active
    /\ \A q \in Runs : Lock(q) = Lock(r) => lostAt[q] # "listing"

OwnerIntact ==
    \A r \in Runs : Undisturbed(r) =>
        /\ \A p \in known[r] : file[p] = "marked"
        /\ pc[r] = "assign" => file[Here(r)] = "marked"

\* How far the owner has come with the spools of its predecessors.
PredecessorsSeen ==
    \A r, q \in Runs : \A s \in Stages :
        /\ Owns(r) /\ q # r /\ TaskOf[q] = TaskOf[r] /\ lostAt[q] = "idle"
        /\ file[<<q, s>>] = "marked"
        => \/ pc[r] \in {"listing", "ending", "dead"}
           \/ pc[r] = "examine" /\ <<q, s>> \in listing[r] \cup job[r]
           \/ pc[r] = "unlink" /\ goal[r] = "tables" /\ <<q, s>> \in job[r] \cup kept[r]
           \/ pc[r] = "unlink" /\ goal[r] = "ending"

DInv == SInv /\ OwnerUnlisted /\ OwnerIntact /\ PredecessorsSeen

-----------------------------------------------------------------------------
\* The paths of the runs, and the two paths one run writes.
LEMMA PathFacts ==
    /\ \A r \in Runs : \A s \in Stages : <<r, s>> \in Paths
    /\ \A r \in Runs : Own(r) \subseteq Paths
    /\ \A p \in Paths : p[1] \in Runs /\ p[2] \in Stages /\ p = <<p[1], p[2]>>
  BY DEF Paths, Own

\* The path a run writes at is one of its own.
LEMMA HereIsOwn ==
    ASSUME TypeOK, NEW r \in Runs
    PROVE  Here(r) \in Own(r) /\ Here(r) \in Paths /\ \E s \in Stages : Here(r) = <<r, s>>
  BY DEF TypeOK, Here, Own, Paths

\* The except blocks remove what they know, or what was just created too.
LEMMA HandledPaths ==
    ASSUME NEW r \in Runs, pc[r] \in {"create", "header", "write", "load", "commit"}
    PROVE  Handles(r) = IF pc[r] = "header" THEN known[r] \cup {Here(r)} ELSE known[r]
  BY DEF Handles

\* The path a loop takes next is one of those it has left.
LEMMA CurrentIsLeft == \A r \in Runs : job[r] # {} => Current(r) \in job[r]
  BY DEF Current

\* Who owns its lock after the owner of one has changed.
LEMMA NewOwner ==
    ASSUME TypeOK, NEW r \in Runs, NEW v \in Runs \cup {NoRun},
           owner' = [owner EXCEPT ![Lock(r)] = v]
    PROVE  /\ owner' \in [Locks -> Runs \cup {NoRun}]
           /\ \A q \in Runs : Owns(q)' <=> IF Lock(q) = Lock(r) THEN v = q ELSE Owns(q)
<1>1. \A q \in Runs : Lock(q) \in Locks
  BY DEF Lock, Locks
<1>2. QED
  BY <1>1 DEF TypeOK, Owns, Lock


\* Every step keeps the types.
LEMMA TypeStep == TypeOK /\ [Next]_vars => TypeOK'
<1> SUFFICES ASSUME TypeOK, [Next]_vars PROVE TypeOK'
  OBVIOUS
<1> USE SpoolAssumption DEF PC, Active, Step, Goto, host, work, tidy, log, vars, TypeOK,
        Stages, CleansUp, Raises, Fault, Forgets
<1>1. ASSUME NEW r \in Runs, Acquire(r) PROVE TypeOK'
  <2>1. owner' \in [Locks -> Runs \cup {NoRun}]
    BY <1>1, NewOwner DEF Acquire
  <2>2. QED
    BY <1>1, <2>1 DEF Acquire
<1>2. ASSUME NEW r \in Runs, List(r) PROVE TypeOK'
  BY <1>2 DEF List
<1>3. ASSUME NEW r \in Runs, Examine(r) PROVE TypeOK'
  <2>1. PICK p \in listing[r] :
           /\ listing' = [listing EXCEPT ![r] = @ \ {p}]
           /\ job' = [job EXCEPT ![r] = IF PositivelyOwned(r, p) THEN @ \cup {p} ELSE @]
    BY <1>3 DEF Examine
  <2>2. QED
    BY <1>3, <2>1 DEF Examine
<1>4. ASSUME NEW r \in Runs, Examined(r) PROVE TypeOK'
  BY <1>4 DEF Examined
<1>5. ASSUME NEW r \in Runs, ScanTables(r) PROVE TypeOK'
  BY <1>5 DEF ScanTables, Owns
<1>6. ASSUME NEW r \in Runs, Unlink(r) PROVE TypeOK'
  <2>1. Current(r) \in Paths
    BY <1>6, CurrentIsLeft DEF Unlink
  <2>2. QED
    BY <1>6, <2>1 DEF Unlink
<1>7. ASSUME NEW r \in Runs, UnlinkFails(r) PROVE TypeOK'
  <2>1. Current(r) \in Paths
    BY <1>7, CurrentIsLeft DEF UnlinkFails
  <2>2. tries' \in [Runs -> 0..(Attempts - 1)]
    BY <1>7 DEF UnlinkFails, LastAttempt
  <2>3. QED
    BY <1>7, <2>1, <2>2 DEF UnlinkFails
<1>8. ASSUME NEW r \in Runs, CleanedUp(r) PROVE TypeOK'
  BY <1>8 DEF CleanedUp
<1>9. ASSUME NEW r \in Runs, Publish(r) PROVE TypeOK'
  BY <1>9 DEF Publish
<1>10. ASSUME NEW r \in Runs, Create(r) PROVE TypeOK'
  <2>1. Here(r) \in Paths
    BY HereIsOwn
  <2>2. QED
    BY <1>10, <2>1 DEF Create
<1>11. ASSUME NEW r \in Runs, WriteHeader(r) PROVE TypeOK'
  <2>1. Here(r) \in Paths
    BY HereIsOwn
  <2>2. QED
    BY <1>11, <2>1 DEF WriteHeader
<1>12. ASSUME NEW r \in Runs, Assign(r) PROVE TypeOK'
  <2>1. Here(r) \in Paths
    BY HereIsOwn
  <2>2. QED
    BY <1>12, <2>1 DEF Assign
<1>13. ASSUME NEW r \in Runs, WriteNeutral(r) PROVE TypeOK'
  BY <1>13 DEF WriteNeutral
<1>14. ASSUME NEW r \in Runs, WriteCopytext(r) PROVE TypeOK'
  BY <1>14, SMTT(20) DEF WriteCopytext
<1>15. ASSUME NEW r \in Runs, Return(r) PROVE TypeOK'
  BY <1>15 DEF Return
<1>16. ASSUME NEW r \in Runs, Load(r) PROVE TypeOK'
  BY <1>16, SMTT(20) DEF Load
<1>17. ASSUME NEW r \in Runs, Commit(r) PROVE TypeOK'
  BY <1>17 DEF Commit
<1>18. ASSUME NEW r \in Runs, End(r) PROVE TypeOK'
  <2>1. owner' \in [Locks -> Runs \cup {NoRun}]
    BY <1>18, NewOwner DEF End
  <2>2. QED
    BY <1>18, <2>1 DEF End
<1>19. ASSUME NEW r \in Runs, Raise(r) PROVE TypeOK'
  <2>1. Handles(r) \subseteq Paths
    BY <1>19, HandledPaths, HereIsOwn DEF Raise
  <2>2. QED
    BY <1>19, <2>1 DEF Raise
<1>20. ASSUME NEW r \in Runs, Interrupt(r) PROVE TypeOK'
  BY <1>20 DEF Interrupt, Handles
<1>21. ASSUME NEW r \in Runs, Crash(r) PROVE TypeOK'
  BY <1>21 DEF Crash
<1>22. ASSUME NEW r \in Runs, SessionEnds(r) PROVE TypeOK'
  <2>1. owner' \in [Locks -> Runs \cup {NoRun}]
    BY <1>22, NewOwner DEF SessionEnds
  <2>2. QED
    BY <1>22, <2>1 DEF SessionEnds
<1>23. CASE UNCHANGED vars  BY <1>23 DEF host, work, tidy, log, vars
<1>24. QED
  BY <1>1, <1>2, <1>3, <1>4, <1>5, <1>6, <1>7, <1>8, <1>9, <1>10, <1>11, <1>12, <1>13,
     <1>14, <1>15, <1>16, <1>17, <1>18, <1>19, <1>20, <1>21, <1>22, <1>23 DEF Next

\* Locks are lost and released, and never come back.
LEMMA SessionsStep == TypeOK /\ Sessions /\ [Next]_vars => Sessions'
<1> SUFFICES ASSUME TypeOK, Sessions, [Next]_vars PROVE Sessions'
  OBVIOUS
<1> USE DEF PC, Active, Step, Goto, host, work, tidy, log, vars, TypeOK, CleansUp,
        Raises, Fault, Forgets, Sessions
<1>1. ASSUME NEW r \in Runs, Acquire(r) PROVE Sessions'
  <2>1. \A q \in Runs : Owns(q)' <=> IF Lock(q) = Lock(r) THEN r = q ELSE Owns(q)
    BY <1>1, NewOwner, SpoolAssumption DEF Acquire
  <2>2. QED
    BY <1>1, <2>1, SpoolAssumption DEF Acquire, Owns
<1>2. ASSUME NEW r \in Runs, List(r) PROVE Sessions'
  BY <1>2 DEF List, Owns
<1>3. ASSUME NEW r \in Runs, Examine(r) PROVE Sessions'
  BY <1>3 DEF Examine, Owns
<1>4. ASSUME NEW r \in Runs, Examined(r) PROVE Sessions'
  BY <1>4 DEF Examined, Owns
<1>5. ASSUME NEW r \in Runs, ScanTables(r) PROVE Sessions'
  BY <1>5 DEF ScanTables, Owns
<1>6. ASSUME NEW r \in Runs, Unlink(r) PROVE Sessions'
  BY <1>6 DEF Unlink, Owns
<1>7. ASSUME NEW r \in Runs, UnlinkFails(r) PROVE Sessions'
  BY <1>7 DEF UnlinkFails, Owns
<1>8. ASSUME NEW r \in Runs, CleanedUp(r) PROVE Sessions'
  BY <1>8 DEF CleanedUp, Owns
<1>9. ASSUME NEW r \in Runs, Publish(r) PROVE Sessions'
  BY <1>9 DEF Publish, Owns
<1>10. ASSUME NEW r \in Runs, Create(r) PROVE Sessions'
  BY <1>10 DEF Create, Owns
<1>11. ASSUME NEW r \in Runs, WriteHeader(r) PROVE Sessions'
  BY <1>11 DEF WriteHeader, Owns
<1>12. ASSUME NEW r \in Runs, Assign(r) PROVE Sessions'
  BY <1>12 DEF Assign, Owns
<1>13. ASSUME NEW r \in Runs, WriteNeutral(r) PROVE Sessions'
  BY <1>13 DEF WriteNeutral, Owns
<1>14. ASSUME NEW r \in Runs, WriteCopytext(r) PROVE Sessions'
  BY <1>14 DEF WriteCopytext, Owns
<1>15. ASSUME NEW r \in Runs, Return(r) PROVE Sessions'
  BY <1>15 DEF Return, Owns
<1>16. ASSUME NEW r \in Runs, Load(r) PROVE Sessions'
  BY <1>16 DEF Load, Owns
<1>17. ASSUME NEW r \in Runs, Commit(r) PROVE Sessions'
  BY <1>17 DEF Commit, Owns
<1>18. ASSUME NEW r \in Runs, End(r) PROVE Sessions'
  <2>1. CASE Owns(r)
    <3>1. \A q \in Runs : Owns(q)' <=> IF Lock(q) = Lock(r) THEN NoRun = q ELSE Owns(q)
      BY <1>18, <2>1, NewOwner DEF End
    <3>2. QED
      BY <1>18, <2>1, <3>1, SpoolAssumption DEF End, Owns
  <2>2. CASE ~Owns(r)
    BY <1>18, <2>2 DEF End, Owns
  <2>3. QED
    BY <2>1, <2>2
<1>19. ASSUME NEW r \in Runs, Raise(r) PROVE Sessions'
  BY <1>19 DEF Raise, Owns
<1>20. ASSUME NEW r \in Runs, Interrupt(r) PROVE Sessions'
  BY <1>20 DEF Interrupt, Owns, Handles
<1>21. ASSUME NEW r \in Runs, Crash(r) PROVE Sessions'
  BY <1>21 DEF Crash, Owns
<1>22. ASSUME NEW r \in Runs, SessionEnds(r) PROVE Sessions'
  <2>1. \A q \in Runs : Owns(q)' <=> IF Lock(q) = Lock(r) THEN NoRun = q ELSE Owns(q)
    BY <1>22, NewOwner, SpoolAssumption DEF SessionEnds
  <2>2. ~Owns(r)' /\ \A q \in Runs : Lock(q) = Lock(r) => ~Owns(q)'
    BY <2>1, SpoolAssumption
  <2>3. \A q \in Runs \ {r} : Owns(q)' => Owns(q)
    BY <2>1, <2>2
  <2>4. \A q \in Runs \ {r} : Owns(q) => Owns(q)'
    BY <1>22, <2>1 DEF SessionEnds, Owns
  <2>5. CASE pc[r] = "dead" /\ lostAt' = lostAt
    BY <1>22, <2>2, <2>3, <2>4, <2>5 DEF SessionEnds
  <2>6. CASE pc[r] \in Active /\ lostAt' = [lostAt EXCEPT ![r] = pc[r]]
    BY <1>22, <2>2, <2>3, <2>4, <2>6 DEF SessionEnds
  <2>7. QED
    BY <1>22, <2>5, <2>6 DEF SessionEnds
<1>23. CASE UNCHANGED vars  BY <1>23 DEF host, work, tidy, log, vars, Owns
<1>24. QED
  BY <1>1, <1>2, <1>3, <1>4, <1>5, <1>6, <1>7, <1>8, <1>9, <1>10, <1>11, <1>12, <1>13,
     <1>14, <1>15, <1>16, <1>17, <1>18, <1>19, <1>20, <1>21, <1>22, <1>23 DEF Next

\* What a step may do to a file: its own run creates it and completes its header, and a
\* run that has the path in its list removes it.
RemovedBy(p) ==
    \E r \in Runs : /\ pc[r] = "unlink" /\ p \in job[r]
                    /\ job' = [job EXCEPT ![r] = @ \ {p}]
                    /\ known' = [known EXCEPT ![r] = @ \ {p}]

FileStep ==
    \A q \in Runs : \A s \in Stages :
        \/ file'[<<q, s>>] = file[<<q, s>>]
        \/ file'[<<q, s>>] = "none" /\ RemovedBy(<<q, s>>)
        \/ /\ s = stage[q] /\ stage' = stage
           /\ \/ file'[<<q, s>>] = "bare" /\ pc[q] = "create" /\ pc'[q] = "header"
              \/ file'[<<q, s>>] = "marked" /\ pc[q] = "header" /\ pc'[q] = "assign"
\* No step does anything else to a file.
LEMMA FilesChange == TypeOK /\ [Next]_vars => FileStep
<1> SUFFICES ASSUME TypeOK, [Next]_vars PROVE FileStep
  OBVIOUS
<1> USE DEF PC, Active, Step, Goto, host, work, tidy, log, vars, TypeOK, CleansUp,
        Raises, Fault, Forgets, FileStep
<1>1. ASSUME NEW r \in Runs, Acquire(r) PROVE FileStep
  BY <1>1 DEF Acquire
<1>2. ASSUME NEW r \in Runs, List(r) PROVE FileStep
  BY <1>2 DEF List
<1>3. ASSUME NEW r \in Runs, Examine(r) PROVE FileStep
  BY <1>3 DEF Examine
<1>4. ASSUME NEW r \in Runs, Examined(r) PROVE FileStep
  BY <1>4 DEF Examined
<1>5. ASSUME NEW r \in Runs, ScanTables(r) PROVE FileStep
  BY <1>5 DEF ScanTables
<1>6. ASSUME NEW r \in Runs, Unlink(r) PROVE FileStep
  <2>1. /\ file' = [file EXCEPT ![Current(r)] = "none"] /\ pc[r] = "unlink"
        /\ job' = [job EXCEPT ![r] = @ \ {Current(r)}]
        /\ known' = [known EXCEPT ![r] = @ \ {Current(r)}]
        /\ Current(r) \in job[r]
    BY <1>6, CurrentIsLeft DEF Unlink
  <2>2. \A p \in Paths : p # Current(r) => file'[p] = file[p]
    BY <2>1
  <2>3. Current(r) \in Paths /\ file'[Current(r)] = "none"
    BY <2>1
  <2>4. RemovedBy(Current(r))
    BY <2>1 DEF RemovedBy
  <2>5. QED
    BY <2>2, <2>3, <2>4, PathFacts
<1>7. ASSUME NEW r \in Runs, UnlinkFails(r) PROVE FileStep
  BY <1>7 DEF UnlinkFails
<1>8. ASSUME NEW r \in Runs, CleanedUp(r) PROVE FileStep
  BY <1>8 DEF CleanedUp
<1>9. ASSUME NEW r \in Runs, Publish(r) PROVE FileStep
  BY <1>9 DEF Publish
<1>10. ASSUME NEW r \in Runs, Create(r) PROVE FileStep
  <2>1. /\ file' = [file EXCEPT ![Here(r)] = "bare"] /\ pc[r] = "create"
        /\ pc'[r] = "header" /\ stage' = stage
    BY <1>10 DEF Create
  <2>2. \A p \in Paths : p # Here(r) => file'[p] = file[p]
    BY <2>1
  <2>3. file'[Here(r)] = "bare"
    BY <2>1, HereIsOwn
  <2>4. QED
    BY <2>1, <2>2, <2>3, PathFacts DEF Here
<1>11. ASSUME NEW r \in Runs, WriteHeader(r) PROVE FileStep
  <2>1. /\ file' = [file EXCEPT ![Here(r)] = "marked"] /\ pc[r] = "header"
        /\ pc'[r] = "assign" /\ stage' = stage
    BY <1>11 DEF WriteHeader
  <2>2. \A p \in Paths : p # Here(r) => file'[p] = file[p]
    BY <2>1
  <2>3. file'[Here(r)] = "marked"
    BY <2>1, HereIsOwn
  <2>4. QED
    BY <2>1, <2>2, <2>3, PathFacts DEF Here
<1>12. ASSUME NEW r \in Runs, Assign(r) PROVE FileStep
  BY <1>12 DEF Assign
<1>13. ASSUME NEW r \in Runs, WriteNeutral(r) PROVE FileStep
  BY <1>13 DEF WriteNeutral
<1>14. ASSUME NEW r \in Runs, WriteCopytext(r) PROVE FileStep
  BY <1>14 DEF WriteCopytext
<1>15. ASSUME NEW r \in Runs, Return(r) PROVE FileStep
  BY <1>15 DEF Return
<1>16. ASSUME NEW r \in Runs, Load(r) PROVE FileStep
  BY <1>16 DEF Load
<1>17. ASSUME NEW r \in Runs, Commit(r) PROVE FileStep
  BY <1>17 DEF Commit
<1>18. ASSUME NEW r \in Runs, End(r) PROVE FileStep
  BY <1>18 DEF End
<1>19. ASSUME NEW r \in Runs, Raise(r) PROVE FileStep
  BY <1>19 DEF Raise
<1>20. ASSUME NEW r \in Runs, Interrupt(r) PROVE FileStep
  BY <1>20 DEF Interrupt
<1>21. ASSUME NEW r \in Runs, Crash(r) PROVE FileStep
  BY <1>21 DEF Crash
<1>22. ASSUME NEW r \in Runs, SessionEnds(r) PROVE FileStep
  BY <1>22 DEF SessionEnds
<1>23. CASE UNCHANGED vars  BY <1>23 DEF host, work, tidy, log, vars
<1>24. QED
  BY <1>1, <1>2, <1>3, <1>4, <1>5, <1>6, <1>7, <1>8, <1>9, <1>10, <1>11, <1>12, <1>13,
     <1>14, <1>15, <1>16, <1>17, <1>18, <1>19, <1>20, <1>21, <1>22, <1>23 DEF Next

\* What a run has created stays created.
Shrinks == \A q \in Runs : \A s \in Stages : ToCome(q, s)' => ToCome(q, s)
\* No step takes a run back before a file it has created.
LEMMA ToComeShrinks == TypeOK /\ [Next]_vars => Shrinks
<1> SUFFICES ASSUME TypeOK, [Next]_vars PROVE Shrinks
  OBVIOUS
<1> USE DEF PC, Active, Step, Goto, host, work, tidy, log, vars, TypeOK, CleansUp,
        Raises, Fault, Forgets, Shrinks, ToCome, Stages
<1>1. ASSUME NEW r \in Runs, Acquire(r) PROVE Shrinks
  BY <1>1 DEF Acquire
<1>2. ASSUME NEW r \in Runs, List(r) PROVE Shrinks
  BY <1>2 DEF List
<1>3. ASSUME NEW r \in Runs, Examine(r) PROVE Shrinks
  BY <1>3 DEF Examine
<1>4. ASSUME NEW r \in Runs, Examined(r) PROVE Shrinks
  BY <1>4 DEF Examined
<1>5. ASSUME NEW r \in Runs, ScanTables(r) PROVE Shrinks
  BY <1>5 DEF ScanTables, Owns
<1>6. ASSUME NEW r \in Runs, Unlink(r) PROVE Shrinks
  BY <1>6 DEF Unlink
<1>7. ASSUME NEW r \in Runs, UnlinkFails(r) PROVE Shrinks
  BY <1>7 DEF UnlinkFails
<1>8. ASSUME NEW r \in Runs, CleanedUp(r) PROVE Shrinks
  BY <1>8 DEF CleanedUp
<1>9. ASSUME NEW r \in Runs, Publish(r) PROVE Shrinks
  BY <1>9 DEF Publish, Stages
<1>10. ASSUME NEW r \in Runs, Create(r) PROVE Shrinks
  BY <1>10 DEF Create
<1>11. ASSUME NEW r \in Runs, WriteHeader(r) PROVE Shrinks
  BY <1>11 DEF WriteHeader
<1>12. ASSUME NEW r \in Runs, Assign(r) PROVE Shrinks
  BY <1>12 DEF Assign
<1>13. ASSUME NEW r \in Runs, WriteNeutral(r) PROVE Shrinks
  BY <1>13 DEF WriteNeutral
<1>14. ASSUME NEW r \in Runs, WriteCopytext(r) PROVE Shrinks
  BY <1>14 DEF WriteCopytext
<1>15. ASSUME NEW r \in Runs, Return(r) PROVE Shrinks
  BY <1>15 DEF Return
<1>16. ASSUME NEW r \in Runs, Load(r) PROVE Shrinks
  BY <1>16 DEF Load
<1>17. ASSUME NEW r \in Runs, Commit(r) PROVE Shrinks
  BY <1>17 DEF Commit
<1>18. ASSUME NEW r \in Runs, End(r) PROVE Shrinks
  BY <1>18 DEF End
<1>19. ASSUME NEW r \in Runs, Raise(r) PROVE Shrinks
  BY <1>19 DEF Raise
<1>20. ASSUME NEW r \in Runs, Interrupt(r) PROVE Shrinks
  BY <1>20 DEF Interrupt, Owns
<1>21. ASSUME NEW r \in Runs, Crash(r) PROVE Shrinks
  BY <1>21 DEF Crash
<1>22. ASSUME NEW r \in Runs, SessionEnds(r) PROVE Shrinks
  BY <1>22 DEF SessionEnds
<1>23. CASE UNCHANGED vars  BY <1>23 DEF host, work, tidy, log, vars
<1>24. QED
  BY <1>1, <1>2, <1>3, <1>4, <1>5, <1>6, <1>7, <1>8, <1>9, <1>10, <1>11, <1>12, <1>13,
     <1>14, <1>15, <1>16, <1>17, <1>18, <1>19, <1>20, <1>21, <1>22, <1>23 DEF Next

\* How a path gets into a list: from the directory, from there into the paths to be
\* removed if it is positively owned, or from its own run.
ListStep ==
    \A r \in Runs : \A p \in Paths :
        /\ p \in listing'[r] => p \in listing[r] \/ (pc[r] = "listing" /\ file[p] # "none")
        /\ p \in job'[r] =>
             \/ p \in job[r]
             \/ p \in listing[r] /\ PositivelyOwned(r, p)
             \/ p \in known[r]
             \/ pc[r] = "header" /\ p = Here(r)
        /\ p \in known'[r] => p \in known[r] \/ (pc[r] = "assign" /\ p = Here(r))
\* No path gets into a list in another way.
LEMMA ListsChange == TypeOK /\ [Next]_vars => ListStep
<1> SUFFICES ASSUME TypeOK, [Next]_vars PROVE ListStep
  OBVIOUS
<1> USE DEF PC, Active, Step, Goto, host, work, tidy, log, vars, TypeOK, CleansUp,
        Raises, Fault, Forgets, ListStep
<1>1. ASSUME NEW r \in Runs, Acquire(r) PROVE ListStep
  BY <1>1 DEF Acquire
<1>2. ASSUME NEW r \in Runs, List(r) PROVE ListStep
  BY <1>2 DEF List
<1>3. ASSUME NEW r \in Runs, Examine(r) PROVE ListStep
  <2>1. PICK p \in listing[r] :
           /\ listing' = [listing EXCEPT ![r] = @ \ {p}]
           /\ job' = [job EXCEPT ![r] = IF PositivelyOwned(r, p) THEN @ \cup {p} ELSE @]
    BY <1>3 DEF Examine
  <2>2. QED
    BY <1>3, <2>1 DEF Examine
<1>4. ASSUME NEW r \in Runs, Examined(r) PROVE ListStep
  BY <1>4 DEF Examined
<1>5. ASSUME NEW r \in Runs, ScanTables(r) PROVE ListStep
  BY <1>5 DEF ScanTables
<1>6. ASSUME NEW r \in Runs, Unlink(r) PROVE ListStep
  BY <1>6 DEF Unlink
<1>7. ASSUME NEW r \in Runs, UnlinkFails(r) PROVE ListStep
  BY <1>7 DEF UnlinkFails
<1>8. ASSUME NEW r \in Runs, CleanedUp(r) PROVE ListStep
  BY <1>8 DEF CleanedUp
<1>9. ASSUME NEW r \in Runs, Publish(r) PROVE ListStep
  BY <1>9 DEF Publish
<1>10. ASSUME NEW r \in Runs, Create(r) PROVE ListStep
  BY <1>10 DEF Create
<1>11. ASSUME NEW r \in Runs, WriteHeader(r) PROVE ListStep
  BY <1>11 DEF WriteHeader
<1>12. ASSUME NEW r \in Runs, Assign(r) PROVE ListStep
  BY <1>12 DEF Assign
<1>13. ASSUME NEW r \in Runs, WriteNeutral(r) PROVE ListStep
  BY <1>13 DEF WriteNeutral
<1>14. ASSUME NEW r \in Runs, WriteCopytext(r) PROVE ListStep
  BY <1>14 DEF WriteCopytext
<1>15. ASSUME NEW r \in Runs, Return(r) PROVE ListStep
  BY <1>15 DEF Return
<1>16. ASSUME NEW r \in Runs, Load(r) PROVE ListStep
  BY <1>16 DEF Load
<1>17. ASSUME NEW r \in Runs, Commit(r) PROVE ListStep
  BY <1>17 DEF Commit
<1>18. ASSUME NEW r \in Runs, End(r) PROVE ListStep
  BY <1>18 DEF End
<1>19. ASSUME NEW r \in Runs, Raise(r) PROVE ListStep
  <2>1. Handles(r) \subseteq known[r] \cup {Here(r)}
    BY <1>19, HandledPaths DEF Raise
  <2>2. Handles(r) \subseteq known[r] \/ pc[r] = "header"
    BY <1>19, HandledPaths DEF Raise
  <2>3. \A s \in Stages : <<r, s>> = Here(r) => s = stage[r]
    BY DEF Here
  <2>4. QED
    BY <1>19, <2>1, <2>2, <2>3, HereIsOwn DEF Raise
<1>20. ASSUME NEW r \in Runs, Interrupt(r) PROVE ListStep
  BY <1>20 DEF Interrupt
<1>21. ASSUME NEW r \in Runs, Crash(r) PROVE ListStep
  BY <1>21 DEF Crash
<1>22. ASSUME NEW r \in Runs, SessionEnds(r) PROVE ListStep
  BY <1>22 DEF SessionEnds
<1>23. CASE UNCHANGED vars  BY <1>23 DEF host, work, tidy, log, vars
<1>24. QED
  BY <1>1, <1>2, <1>3, <1>4, <1>5, <1>6, <1>7, <1>8, <1>9, <1>10, <1>11, <1>12, <1>13,
     <1>14, <1>15, <1>16, <1>17, <1>18, <1>19, <1>20, <1>21, <1>22, <1>23 DEF Next

\* A run holds paths of its own, but for those it removes after its predecessors.
LEMMA HeldStep == TypeOK /\ Held /\ [Next]_vars => Held'
<1> SUFFICES ASSUME TypeOK, Held, [Next]_vars PROVE Held'
  OBVIOUS
<1> USE DEF PC, Active, Step, Goto, host, work, tidy, log, vars, TypeOK, CleansUp,
        Raises, Fault, Forgets, Held
<1>1. ASSUME NEW r \in Runs, Acquire(r) PROVE Held'
  BY <1>1 DEF Acquire
<1>2. ASSUME NEW r \in Runs, List(r) PROVE Held'
  BY <1>2 DEF List
<1>3. ASSUME NEW r \in Runs, Examine(r) PROVE Held'
  <2>1. PICK p \in listing[r] :
           /\ listing' = [listing EXCEPT ![r] = @ \ {p}]
           /\ job' = [job EXCEPT ![r] = IF PositivelyOwned(r, p) THEN @ \cup {p} ELSE @]
    BY <1>3 DEF Examine
  <2>2. QED
    BY <1>3, <2>1 DEF Examine
<1>4. ASSUME NEW r \in Runs, Examined(r) PROVE Held'
  BY <1>4 DEF Examined
<1>5. ASSUME NEW r \in Runs, ScanTables(r) PROVE Held'
  BY <1>5 DEF ScanTables
<1>6. ASSUME NEW r \in Runs, Unlink(r) PROVE Held'
  BY <1>6 DEF Unlink
<1>7. ASSUME NEW r \in Runs, UnlinkFails(r) PROVE Held'
  BY <1>7 DEF UnlinkFails
<1>8. ASSUME NEW r \in Runs, CleanedUp(r) PROVE Held'
  BY <1>8 DEF CleanedUp
<1>9. ASSUME NEW r \in Runs, Publish(r) PROVE Held'
  BY <1>9 DEF Publish
<1>10. ASSUME NEW r \in Runs, Create(r) PROVE Held'
  BY <1>10 DEF Create
<1>11. ASSUME NEW r \in Runs, WriteHeader(r) PROVE Held'
  BY <1>11 DEF WriteHeader
<1>12. ASSUME NEW r \in Runs, Assign(r) PROVE Held'
  <2>1. Here(r) \in Own(r)
    BY HereIsOwn
  <2>2. QED
    BY <1>12, <2>1 DEF Assign
<1>13. ASSUME NEW r \in Runs, WriteNeutral(r) PROVE Held'
  BY <1>13 DEF WriteNeutral
<1>14. ASSUME NEW r \in Runs, WriteCopytext(r) PROVE Held'
  BY <1>14 DEF WriteCopytext
<1>15. ASSUME NEW r \in Runs, Return(r) PROVE Held'
  BY <1>15 DEF Return
<1>16. ASSUME NEW r \in Runs, Load(r) PROVE Held'
  BY <1>16 DEF Load
<1>17. ASSUME NEW r \in Runs, Commit(r) PROVE Held'
  BY <1>17 DEF Commit
<1>18. ASSUME NEW r \in Runs, End(r) PROVE Held'
  BY <1>18 DEF End
<1>19. ASSUME NEW r \in Runs, Raise(r) PROVE Held'
  <2>1. Handles(r) \subseteq Own(r)
    BY <1>19, HandledPaths, HereIsOwn DEF Raise
  <2>2. QED
    BY <1>19, <2>1 DEF Raise
<1>20. ASSUME NEW r \in Runs, Interrupt(r) PROVE Held'
  BY <1>20 DEF Interrupt
<1>21. ASSUME NEW r \in Runs, Crash(r) PROVE Held'
  BY <1>21 DEF Crash
<1>22. ASSUME NEW r \in Runs, SessionEnds(r) PROVE Held'
  BY <1>22 DEF SessionEnds
<1>23. CASE UNCHANGED vars  BY <1>23 DEF host, work, tidy, log, vars
<1>24. QED
  BY <1>1, <1>2, <1>3, <1>4, <1>5, <1>6, <1>7, <1>8, <1>9, <1>10, <1>11, <1>12, <1>13,
     <1>14, <1>15, <1>16, <1>17, <1>18, <1>19, <1>20, <1>21, <1>22, <1>23 DEF Next

\* A header is begun by the step that creates the file.
HeaderStep ==
    \A q \in Runs : pc'[q] = "header" =>
        Create(q) \/ (pc[q] = "header" /\ stage'[q] = stage[q])
\* No other step leads there.
LEMMA HeaderComes == TypeOK /\ [Next]_vars => HeaderStep
<1> SUFFICES ASSUME TypeOK, [Next]_vars PROVE HeaderStep
  OBVIOUS
<1> USE DEF PC, Active, Step, Goto, host, work, tidy, log, vars, TypeOK, CleansUp,
        Raises, Fault, Forgets, HeaderStep
<1>1. ASSUME NEW r \in Runs, Acquire(r) PROVE HeaderStep
  BY <1>1 DEF Acquire
<1>2. ASSUME NEW r \in Runs, List(r) PROVE HeaderStep
  BY <1>2 DEF List
<1>3. ASSUME NEW r \in Runs, Examine(r) PROVE HeaderStep
  BY <1>3 DEF Examine
<1>4. ASSUME NEW r \in Runs, Examined(r) PROVE HeaderStep
  BY <1>4 DEF Examined
<1>5. ASSUME NEW r \in Runs, ScanTables(r) PROVE HeaderStep
  BY <1>5 DEF ScanTables
<1>6. ASSUME NEW r \in Runs, Unlink(r) PROVE HeaderStep
  BY <1>6 DEF Unlink
<1>7. ASSUME NEW r \in Runs, UnlinkFails(r) PROVE HeaderStep
  BY <1>7 DEF UnlinkFails
<1>8. ASSUME NEW r \in Runs, CleanedUp(r) PROVE HeaderStep
  BY <1>8 DEF CleanedUp
<1>9. ASSUME NEW r \in Runs, Publish(r) PROVE HeaderStep
  BY <1>9 DEF Publish
<1>10. ASSUME NEW r \in Runs, Create(r) PROVE HeaderStep
  BY <1>10 DEF Create
<1>11. ASSUME NEW r \in Runs, WriteHeader(r) PROVE HeaderStep
  BY <1>11 DEF WriteHeader
<1>12. ASSUME NEW r \in Runs, Assign(r) PROVE HeaderStep
  BY <1>12 DEF Assign
<1>13. ASSUME NEW r \in Runs, WriteNeutral(r) PROVE HeaderStep
  BY <1>13 DEF WriteNeutral
<1>14. ASSUME NEW r \in Runs, WriteCopytext(r) PROVE HeaderStep
  BY <1>14 DEF WriteCopytext
<1>15. ASSUME NEW r \in Runs, Return(r) PROVE HeaderStep
  BY <1>15 DEF Return
<1>16. ASSUME NEW r \in Runs, Load(r) PROVE HeaderStep
  BY <1>16 DEF Load
<1>17. ASSUME NEW r \in Runs, Commit(r) PROVE HeaderStep
  BY <1>17 DEF Commit
<1>18. ASSUME NEW r \in Runs, End(r) PROVE HeaderStep
  BY <1>18 DEF End
<1>19. ASSUME NEW r \in Runs, Raise(r) PROVE HeaderStep
  BY <1>19 DEF Raise
<1>20. ASSUME NEW r \in Runs, Interrupt(r) PROVE HeaderStep
  BY <1>20 DEF Interrupt
<1>21. ASSUME NEW r \in Runs, Crash(r) PROVE HeaderStep
  BY <1>21 DEF Crash
<1>22. ASSUME NEW r \in Runs, SessionEnds(r) PROVE HeaderStep
  BY <1>22 DEF SessionEnds
<1>23. CASE UNCHANGED vars  BY <1>23 DEF host, work, tidy, log, vars
<1>24. QED
  BY <1>1, <1>2, <1>3, <1>4, <1>5, <1>6, <1>7, <1>8, <1>9, <1>10, <1>11, <1>12, <1>13,
     <1>14, <1>15, <1>16, <1>17, <1>18, <1>19, <1>20, <1>21, <1>22, <1>23 DEF Next

\* A file is there only after it was created.
LEMMA NotYetStep == TypeOK /\ NotYet /\ [Next]_vars => NotYet'
<1> SUFFICES ASSUME TypeOK, NotYet, [Next]_vars,
                    NEW q \in Runs, NEW s \in Stages, ToCome(q, s)'
             PROVE  file'[<<q, s>>] = "none"
  BY DEF NotYet
<1>1. ToCome(q, s) /\ file[<<q, s>>] = "none"
  BY ToComeShrinks DEF Shrinks, NotYet
<1>2. CASE s = stage[q] /\ stage' = stage /\ pc[q] = "create" /\ pc'[q] = "header"
  BY <1>2 DEF ToCome
<1>3. CASE s = stage[q] /\ pc[q] = "header"
  BY <1>1, <1>3 DEF ToCome
<1>4. QED
  BY <1>1, <1>2, <1>3, FilesChange DEF FileStep

\* Nothing that is still to come is in a list, and a predecessor's spool gets into one
\* with a complete header.
LEMMA ListingsStep == TypeOK /\ Held /\ Listings /\ NotYet /\ [Next]_vars => Listings'
<1> SUFFICES ASSUME TypeOK, Held, Listings, NotYet, [Next]_vars,
                    NEW q \in Runs, NEW s \in Stages
             PROVE  /\ ToCome(q, s)' => <<q, s>> \notin known'[q]
                    /\ pc'[q] = "header" /\ s = stage'[q] => file'[<<q, s>>] = "bare"
                    /\ \A r \in Runs :
                         /\ ToCome(q, s)' => <<q, s>> \notin listing'[r] \cup job'[r]
                         /\ <<q, s>> \in job'[r] =>
                              /\ TaskOf[q] = TaskOf[r]
                              /\ q = r \/ file'[<<q, s>>] # "bare"
  BY DEF Listings
<1>1. <<q, s>> \in Paths
  BY PathFacts
<1>2. \A r \in Runs : <<q, s>> = Here(r) => r = q /\ s = stage[q]
  BY DEF Here
<1>3. \A r \in Runs : <<q, s>> \in known[r] => r = q
  BY DEF Held, Own
<1>4. ASSUME ToCome(q, s)'
      PROVE  /\ <<q, s>> \notin known'[q]
             /\ \A r \in Runs : <<q, s>> \notin listing'[r] \cup job'[r]
  <2>1. ToCome(q, s) /\ file[<<q, s>>] = "none"
    BY <1>4, ToComeShrinks DEF Shrinks, NotYet
  <2>2. /\ <<q, s>> \notin known[q]
        /\ \A r \in Runs : <<q, s>> \notin listing[r] \cup job[r]
    BY <2>1 DEF Listings
  <2>3. pc[q] \in {"header", "assign"} => s # stage[q]
    BY <2>1 DEF ToCome
  <2>4. QED
    BY <1>1, <1>2, <1>3, <2>1, <2>2, <2>3, ListsChange DEF ListStep
<1>5. ASSUME pc'[q] = "header", s = stage'[q] PROVE file'[<<q, s>>] = "bare"
  <2>1. CASE pc[q] = "header" /\ stage'[q] = stage[q]
    <3>1. file[<<q, s>>] = "bare"
      BY <1>5, <2>1 DEF Listings
    <3>2. \A r \in Runs : ~ (pc[r] = "unlink" /\ <<q, s>> \in job[r])
      BY <2>1, <3>1 DEF Listings
    <3>3. ~ RemovedBy(<<q, s>>)
      BY <3>2 DEF RemovedBy
    <3>4. QED
      BY <1>5, <3>1, <3>3, FilesChange DEF FileStep
  <2>2. CASE Create(q)
    BY <1>5, <2>2, HereIsOwn DEF Create, Step, Goto, Here, TypeOK, work
  <2>3. (pc[q] = "header" /\ stage'[q] = stage[q]) \/ Create(q)
    BY <1>5, HeaderComes DEF HeaderStep
  <2>4. QED
    BY <2>1, <2>2, <2>3
<1>6. ASSUME NEW r \in Runs, <<q, s>> \in job'[r]
      PROVE  TaskOf[q] = TaskOf[r] /\ (q = r \/ file'[<<q, s>>] # "bare")
  <2>1. \/ <<q, s>> \in job[r]
        \/ <<q, s>> \in listing[r] /\ file[<<q, s>>] = "marked" /\ TaskOf[q] = TaskOf[r]
        \/ q = r
    BY <1>1, <1>2, <1>3, <1>6, ListsChange DEF ListStep, PositivelyOwned
  <2>2. TaskOf[q] = TaskOf[r] /\ (q = r \/ file[<<q, s>>] # "bare")
    BY <2>1 DEF Listings
  <2>3. q # r => ~ ToCome(q, s)
    BY <2>1 DEF Listings
  <2>4. pc[q] = "create" /\ s = stage[q] => ToCome(q, s)
    BY DEF ToCome, TypeOK, Stages
  <2>5. QED
    BY <2>2, <2>3, <2>4, FilesChange DEF FileStep
<1>7. QED
  BY <1>4, <1>5, <1>6

\* A run that has committed has nothing left to do but end.
LEMMA CommittedStep == TypeOK /\ Committed /\ [Next]_vars => Committed'
<1> SUFFICES ASSUME TypeOK, Committed, [Next]_vars PROVE Committed'
  OBVIOUS
<1> USE DEF PC, Active, Step, Goto, host, work, tidy, log, vars, TypeOK, CleansUp,
        Raises, Fault, Forgets, Committed
<1>1. ASSUME NEW r \in Runs, Acquire(r) PROVE Committed'
  BY <1>1 DEF Acquire
<1>2. ASSUME NEW r \in Runs, List(r) PROVE Committed'
  BY <1>2 DEF List
<1>3. ASSUME NEW r \in Runs, Examine(r) PROVE Committed'
  BY <1>3 DEF Examine
<1>4. ASSUME NEW r \in Runs, Examined(r) PROVE Committed'
  BY <1>4 DEF Examined
<1>5. ASSUME NEW r \in Runs, ScanTables(r) PROVE Committed'
  BY <1>5 DEF ScanTables
<1>6. ASSUME NEW r \in Runs, Unlink(r) PROVE Committed'
  BY <1>6 DEF Unlink
<1>7. ASSUME NEW r \in Runs, UnlinkFails(r) PROVE Committed'
  BY <1>7 DEF UnlinkFails
<1>8. ASSUME NEW r \in Runs, CleanedUp(r) PROVE Committed'
  BY <1>8 DEF CleanedUp
<1>9. ASSUME NEW r \in Runs, Publish(r) PROVE Committed'
  BY <1>9 DEF Publish
<1>10. ASSUME NEW r \in Runs, Create(r) PROVE Committed'
  BY <1>10 DEF Create
<1>11. ASSUME NEW r \in Runs, WriteHeader(r) PROVE Committed'
  BY <1>11 DEF WriteHeader
<1>12. ASSUME NEW r \in Runs, Assign(r) PROVE Committed'
  BY <1>12 DEF Assign
<1>13. ASSUME NEW r \in Runs, WriteNeutral(r) PROVE Committed'
  BY <1>13 DEF WriteNeutral
<1>14. ASSUME NEW r \in Runs, WriteCopytext(r) PROVE Committed'
  BY <1>14 DEF WriteCopytext
<1>15. ASSUME NEW r \in Runs, Return(r) PROVE Committed'
  BY <1>15 DEF Return
<1>16. ASSUME NEW r \in Runs, Load(r) PROVE Committed'
  BY <1>16 DEF Load
<1>17. ASSUME NEW r \in Runs, Commit(r) PROVE Committed'
  BY <1>17 DEF Commit
<1>18. ASSUME NEW r \in Runs, End(r) PROVE Committed'
  BY <1>18 DEF End
<1>19. ASSUME NEW r \in Runs, Raise(r) PROVE Committed'
  BY <1>19 DEF Raise
<1>20. ASSUME NEW r \in Runs, Interrupt(r) PROVE Committed'
  BY <1>20 DEF Interrupt
<1>21. ASSUME NEW r \in Runs, Crash(r) PROVE Committed'
  BY <1>21 DEF Crash
<1>22. ASSUME NEW r \in Runs, SessionEnds(r) PROVE Committed'
  BY <1>22 DEF SessionEnds
<1>23. CASE UNCHANGED vars  BY <1>23 DEF host, work, tidy, log, vars
<1>24. QED
  BY <1>1, <1>2, <1>3, <1>4, <1>5, <1>6, <1>7, <1>8, <1>9, <1>10, <1>11, <1>12, <1>13,
     <1>14, <1>15, <1>16, <1>17, <1>18, <1>19, <1>20, <1>21, <1>22, <1>23 DEF Next

\* A run that fails hands all it wrote to its clean-up.
LEMMA RemovedStep ==
    TypeOK /\ Held /\ Listings /\ NotYet /\ Accounted /\ Removed
    /\ [Next]_vars => Removed'
<1> SUFFICES ASSUME TypeOK, Held, Listings, NotYet, Accounted, Removed, [Next]_vars
             PROVE Removed'
  OBVIOUS
<1> USE DEF PC, Active, Step, Goto, host, work, tidy, log, vars, TypeOK, CleansUp,
        Raises, Fault, Forgets, Removed
<1>1. ASSUME NEW r \in Runs, Acquire(r) PROVE Removed'
  BY <1>1 DEF Acquire
<1>2. ASSUME NEW r \in Runs, List(r) PROVE Removed'
  BY <1>2 DEF List
<1>3. ASSUME NEW r \in Runs, Examine(r) PROVE Removed'
  BY <1>3 DEF Examine
<1>4. ASSUME NEW r \in Runs, Examined(r) PROVE Removed'
  BY <1>4 DEF Examined
<1>5. ASSUME NEW r \in Runs, ScanTables(r) PROVE Removed'
  BY <1>5 DEF ScanTables, NotYet, ToCome
<1>6. ASSUME NEW r \in Runs, Unlink(r) PROVE Removed'
  BY <1>6 DEF Unlink
<1>7. ASSUME NEW r \in Runs, UnlinkFails(r) PROVE Removed'
  BY <1>7 DEF UnlinkFails
<1>8. ASSUME NEW r \in Runs, CleanedUp(r) PROVE Removed'
  BY <1>8 DEF CleanedUp
<1>9. ASSUME NEW r \in Runs, Publish(r) PROVE Removed'
  BY <1>9 DEF Publish, NotYet, ToCome
<1>10. ASSUME NEW r \in Runs, Create(r) PROVE Removed'
  <2>1. \A q \in Runs : \A s \in Stages :
           q # r \/ s # stage[r] => file'[<<q, s>>] = file[<<q, s>>]
    BY <1>10, PathFacts DEF Create, Here
  <2>2. pc' = [pc EXCEPT ![r] = "header"] /\ kept' = kept /\ report' = report /\ job' = job
        /\ goal' = goal
    BY <1>10 DEF Create
  <2>3. QED
    BY <2>1, <2>2
<1>11. ASSUME NEW r \in Runs, WriteHeader(r) PROVE Removed'
  <2>1. \A q \in Runs : \A s \in Stages :
           q # r \/ s # stage[r] => file'[<<q, s>>] = file[<<q, s>>]
    BY <1>11, PathFacts DEF WriteHeader, Here
  <2>2. pc' = [pc EXCEPT ![r] = "assign"] /\ kept' = kept /\ report' = report /\ job' = job
        /\ goal' = goal
    BY <1>11 DEF WriteHeader
  <2>3. QED
    BY <2>1, <2>2
<1>12. ASSUME NEW r \in Runs, Assign(r) PROVE Removed'
  BY <1>12 DEF Assign
<1>13. ASSUME NEW r \in Runs, WriteNeutral(r) PROVE Removed'
  BY <1>13 DEF WriteNeutral
<1>14. ASSUME NEW r \in Runs, WriteCopytext(r) PROVE Removed'
  <2>1. /\ pc[r] = "write"
        /\ \A s \in Stages : file[<<r, s>>] # "none" => <<r, s>> \in known[r]
    BY <1>14 DEF WriteCopytext, Accounted
  <2>2. QED
    BY <1>14, <2>1 DEF WriteCopytext
<1>15. ASSUME NEW r \in Runs, Return(r) PROVE Removed'
  BY <1>15 DEF Return
<1>16. ASSUME NEW r \in Runs, Load(r) PROVE Removed'
  <2>1. \A s \in Stages : file[<<r, s>>] # "none" => <<r, s>> \in known[r]
    BY <1>16 DEF Load, Accounted
  <2>2. QED
    BY <1>16, <2>1 DEF Load
<1>17. ASSUME NEW r \in Runs, Commit(r) PROVE Removed'
  <2>1. \A s \in Stages : file[<<r, s>>] = "none"
    BY <1>17 DEF Commit, Accounted
  <2>2. QED
    BY <1>17, <2>1 DEF Commit
<1>18. ASSUME NEW r \in Runs, End(r) PROVE Removed'
  BY <1>18 DEF End
<1>19. ASSUME NEW r \in Runs, Raise(r) PROVE Removed'
  <2>1. \A s \in Stages : file[<<r, s>>] # "none" => <<r, s>> \in Handles(r)
    BY <1>19, HandledPaths DEF Raise, Accounted, Here
  <2>2. QED
    BY <1>19, <2>1 DEF Raise
<1>20. ASSUME NEW r \in Runs, Interrupt(r) PROVE Removed'
  BY <1>20 DEF Interrupt
<1>21. ASSUME NEW r \in Runs, Crash(r) PROVE Removed'
  BY <1>21 DEF Crash
<1>22. ASSUME NEW r \in Runs, SessionEnds(r) PROVE Removed'
  BY <1>22 DEF SessionEnds
<1>23. CASE UNCHANGED vars  BY <1>23 DEF host, work, tidy, log, vars
<1>24. QED
  BY <1>1, <1>2, <1>3, <1>4, <1>5, <1>6, <1>7, <1>8, <1>9, <1>10, <1>11, <1>12, <1>13,
     <1>14, <1>15, <1>16, <1>17, <1>18, <1>19, <1>20, <1>21, <1>22, <1>23 DEF Next

\* A run knows the spools it has written.
LEMMA AccountedStep ==
    TypeOK /\ Held /\ Listings /\ NotYet /\ Accounted /\ Committed
    /\ [Next]_vars => Accounted'
<1> SUFFICES ASSUME TypeOK, Held, Listings, NotYet, Accounted, Committed, [Next]_vars
             PROVE Accounted'
  OBVIOUS
<1> USE DEF PC, Active, Step, Goto, host, work, tidy, log, vars, TypeOK, CleansUp,
        Raises, Fault, Forgets, Accounted
<1>1. ASSUME NEW r \in Runs, Acquire(r) PROVE Accounted'
  BY <1>1 DEF Acquire
<1>2. ASSUME NEW r \in Runs, List(r) PROVE Accounted'
  BY <1>2 DEF List
<1>3. ASSUME NEW r \in Runs, Examine(r) PROVE Accounted'
  BY <1>3 DEF Examine
<1>4. ASSUME NEW r \in Runs, Examined(r) PROVE Accounted'
  BY <1>4 DEF Examined
<1>5. ASSUME NEW r \in Runs, ScanTables(r) PROVE Accounted'
  BY <1>5 DEF ScanTables
<1>6. ASSUME NEW r \in Runs, Unlink(r) PROVE Accounted'
  BY <1>6 DEF Unlink
<1>7. ASSUME NEW r \in Runs, UnlinkFails(r) PROVE Accounted'
  BY <1>7 DEF UnlinkFails
<1>8. ASSUME NEW r \in Runs, CleanedUp(r) PROVE Accounted'
  BY <1>8 DEF CleanedUp
<1>9. ASSUME NEW r \in Runs, Publish(r) PROVE Accounted'
  BY <1>9 DEF Publish, NotYet, ToCome
<1>10. ASSUME NEW r \in Runs, Create(r) PROVE Accounted'
  <2>1. \A q \in Runs : \A s \in Stages :
           q # r \/ s # stage[r] => file'[<<q, s>>] = file[<<q, s>>]
    BY <1>10, PathFacts DEF Create, Here
  <2>2. pc' = [pc EXCEPT ![r] = "header"] /\ kept' = kept /\ known' = known /\ job' = job
        /\ goal' = goal /\ stage' = stage /\ committed' = committed
        /\ pc[r] = "create"
    BY <1>10 DEF Create
  <2>3. r \notin committed
    BY <2>2 DEF Committed
  <2>4. QED
    BY <2>1, <2>2, <2>3
<1>11. ASSUME NEW r \in Runs, WriteHeader(r) PROVE Accounted'
  <2>1. \A q \in Runs : \A s \in Stages :
           q # r \/ s # stage[r] => file'[<<q, s>>] = file[<<q, s>>]
    BY <1>11, PathFacts DEF WriteHeader, Here
  <2>2. pc' = [pc EXCEPT ![r] = "assign"] /\ kept' = kept /\ known' = known /\ job' = job
        /\ goal' = goal /\ stage' = stage /\ committed' = committed
        /\ pc[r] = "header"
    BY <1>11 DEF WriteHeader
  <2>3. r \notin committed
    BY <2>2 DEF Committed
  <2>4. QED
    BY <2>1, <2>2, <2>3
<1>12. ASSUME NEW r \in Runs, Assign(r) PROVE Accounted'
  <2>1. known' = [known EXCEPT ![r] = @ \cup {<<r, stage[r]>>}]
    BY <1>12 DEF Assign, Here
  <2>2. pc' = [pc EXCEPT ![r] = "write"] /\ kept' = kept /\ job' = job /\ file' = file
        /\ goal' = goal /\ stage' = stage /\ committed' = committed /\ pc[r] = "assign"
    BY <1>12 DEF Assign
  <2>3. \A s \in Stages : file[<<r, s>>] # "none" => <<r, s>> \in known'[r]
    BY <2>1, <2>2
  <2>4. QED
    BY <2>1, <2>2, <2>3
<1>13. ASSUME NEW r \in Runs, WriteNeutral(r) PROVE Accounted'
  BY <1>13 DEF WriteNeutral
<1>14. ASSUME NEW r \in Runs, WriteCopytext(r) PROVE Accounted'
  BY <1>14 DEF WriteCopytext
<1>15. ASSUME NEW r \in Runs, Return(r) PROVE Accounted'
  BY <1>15 DEF Return
<1>16. ASSUME NEW r \in Runs, Load(r) PROVE Accounted'
  BY <1>16 DEF Load
<1>17. ASSUME NEW r \in Runs, Commit(r) PROVE Accounted'
  BY <1>17 DEF Commit
<1>18. ASSUME NEW r \in Runs, End(r) PROVE Accounted'
  BY <1>18 DEF End
<1>19. ASSUME NEW r \in Runs, Raise(r) PROVE Accounted'
  BY <1>19 DEF Raise
<1>20. ASSUME NEW r \in Runs, Interrupt(r) PROVE Accounted'
  BY <1>20 DEF Interrupt
<1>21. ASSUME NEW r \in Runs, Crash(r) PROVE Accounted'
  BY <1>21 DEF Crash
<1>22. ASSUME NEW r \in Runs, SessionEnds(r) PROVE Accounted'
  BY <1>22 DEF SessionEnds
<1>23. CASE UNCHANGED vars  BY <1>23 DEF host, work, tidy, log, vars
<1>24. QED
  BY <1>1, <1>2, <1>3, <1>4, <1>5, <1>6, <1>7, <1>8, <1>9, <1>10, <1>11, <1>12, <1>13,
     <1>14, <1>15, <1>16, <1>17, <1>18, <1>19, <1>20, <1>21, <1>22, <1>23 DEF Next

-----------------------------------------------------------------------------
(* The lemmas about one database per task.                                 *)


\* How ownership, the point of loss and the phase of a run change.
OwnerStep ==
    \A r \in Runs :
        /\ Owns(r)' => Owns(r) \/ Acquire(r)
        /\ lostAt'[r] = lostAt[r] \/ (Owns(r) /\ ~Owns(r)' /\ pc[r] \in Active \cup {"dead"})
        /\ pc[r] \in {"done", "dead"} => pc'[r] = pc[r]
        /\ pc'[r] \in Active => pc[r] \in Active \/ Acquire(r)
\* No step changes them in another way.
LEMMA OwnersChange == TypeOK /\ [Next]_vars => OwnerStep
<1> SUFFICES ASSUME TypeOK, [Next]_vars PROVE OwnerStep
  OBVIOUS
<1> USE DEF PC, Active, Step, Goto, host, work, tidy, log, vars, TypeOK, CleansUp,
        Raises, Fault, Forgets, OwnerStep
<1>1. ASSUME NEW r \in Runs, Acquire(r) PROVE OwnerStep
  <2>1. \A q \in Runs : Owns(q)' <=> IF Lock(q) = Lock(r) THEN r = q ELSE Owns(q)
    BY <1>1, NewOwner, SpoolAssumption DEF Acquire
  <2>2. \A q \in Runs : Owns(q)' => Owns(q) \/ q = r
    BY <2>1
  <2>3. QED
    BY <1>1, <2>2 DEF Acquire
<1>2. ASSUME NEW r \in Runs, List(r) PROVE OwnerStep
  BY <1>2 DEF List, Owns
<1>3. ASSUME NEW r \in Runs, Examine(r) PROVE OwnerStep
  BY <1>3 DEF Examine, Owns
<1>4. ASSUME NEW r \in Runs, Examined(r) PROVE OwnerStep
  BY <1>4 DEF Examined, Owns
<1>5. ASSUME NEW r \in Runs, ScanTables(r) PROVE OwnerStep
  BY <1>5 DEF ScanTables, Owns
<1>6. ASSUME NEW r \in Runs, Unlink(r) PROVE OwnerStep
  BY <1>6 DEF Unlink, Owns
<1>7. ASSUME NEW r \in Runs, UnlinkFails(r) PROVE OwnerStep
  BY <1>7 DEF UnlinkFails, Owns
<1>8. ASSUME NEW r \in Runs, CleanedUp(r) PROVE OwnerStep
  BY <1>8 DEF CleanedUp, Owns
<1>9. ASSUME NEW r \in Runs, Publish(r) PROVE OwnerStep
  BY <1>9 DEF Publish, Owns
<1>10. ASSUME NEW r \in Runs, Create(r) PROVE OwnerStep
  BY <1>10 DEF Create, Owns
<1>11. ASSUME NEW r \in Runs, WriteHeader(r) PROVE OwnerStep
  BY <1>11 DEF WriteHeader, Owns
<1>12. ASSUME NEW r \in Runs, Assign(r) PROVE OwnerStep
  BY <1>12 DEF Assign, Owns
<1>13. ASSUME NEW r \in Runs, WriteNeutral(r) PROVE OwnerStep
  BY <1>13 DEF WriteNeutral, Owns
<1>14. ASSUME NEW r \in Runs, WriteCopytext(r) PROVE OwnerStep
  BY <1>14 DEF WriteCopytext, Owns
<1>15. ASSUME NEW r \in Runs, Return(r) PROVE OwnerStep
  BY <1>15 DEF Return, Owns
<1>16. ASSUME NEW r \in Runs, Load(r) PROVE OwnerStep
  BY <1>16 DEF Load, Owns
<1>17. ASSUME NEW r \in Runs, Commit(r) PROVE OwnerStep
  BY <1>17 DEF Commit, Owns
<1>18. ASSUME NEW r \in Runs, End(r) PROVE OwnerStep
  <2>1. \A q \in Runs : Owns(q)' => Owns(q)
    <3>1. CASE Owns(r)
      <4>1. \A q \in Runs : Owns(q)' <=> IF Lock(q) = Lock(r) THEN NoRun = q ELSE Owns(q)
        BY <1>18, <3>1, NewOwner DEF End
      <4>2. QED
        BY <4>1, SpoolAssumption
    <3>2. CASE ~Owns(r)
      BY <1>18, <3>2 DEF End, Owns
    <3>3. QED
      BY <3>1, <3>2
  <2>2. QED
    BY <1>18, <2>1 DEF End
<1>19. ASSUME NEW r \in Runs, Raise(r) PROVE OwnerStep
  BY <1>19 DEF Raise, Owns
<1>20. ASSUME NEW r \in Runs, Interrupt(r) PROVE OwnerStep
  BY <1>20 DEF Interrupt, Owns, Handles
<1>21. ASSUME NEW r \in Runs, Crash(r) PROVE OwnerStep
  BY <1>21 DEF Crash, Owns
<1>22. ASSUME NEW r \in Runs, SessionEnds(r) PROVE OwnerStep
  <2>1. \A q \in Runs : Owns(q)' <=> IF Lock(q) = Lock(r) THEN NoRun = q ELSE Owns(q)
    BY <1>22, NewOwner, SpoolAssumption DEF SessionEnds
  <2>2. Owns(r) /\ ~Owns(r)' /\ \A q \in Runs : Owns(q)' => Owns(q)
    BY <1>22, <2>1, SpoolAssumption DEF SessionEnds
  <2>3. \A q \in Runs \ {r} : lostAt'[q] = lostAt[q]
    BY <1>22 DEF SessionEnds
  <2>4. pc' = pc /\ (lostAt'[r] = lostAt[r] \/ pc[r] \in Active)
    BY <1>22 DEF SessionEnds
  <2>5. QED
    BY <2>2, <2>3, <2>4
<1>23. CASE UNCHANGED vars  BY <1>23 DEF host, work, tidy, log, vars, Owns
<1>24. QED
  BY <1>1, <1>2, <1>3, <1>4, <1>5, <1>6, <1>7, <1>8, <1>9, <1>10, <1>11, <1>12, <1>13,
     <1>14, <1>15, <1>16, <1>17, <1>18, <1>19, <1>20, <1>21, <1>22, <1>23 DEF Next

\* A path comes to be assigned by the step that completes its header.
AssignStep ==
    \A q \in Runs : pc'[q] = "assign" =>
        WriteHeader(q) \/ (pc[q] = "assign" /\ stage'[q] = stage[q])
\* No other step leads there.
LEMMA AssignComes == TypeOK /\ [Next]_vars => AssignStep
<1> SUFFICES ASSUME TypeOK, [Next]_vars PROVE AssignStep
  OBVIOUS
<1> USE DEF PC, Active, Step, Goto, host, work, tidy, log, vars, TypeOK, CleansUp,
        Raises, Fault, Forgets, AssignStep
<1>1. ASSUME NEW r \in Runs, Acquire(r) PROVE AssignStep
  BY <1>1 DEF Acquire
<1>2. ASSUME NEW r \in Runs, List(r) PROVE AssignStep
  BY <1>2 DEF List
<1>3. ASSUME NEW r \in Runs, Examine(r) PROVE AssignStep
  BY <1>3 DEF Examine
<1>4. ASSUME NEW r \in Runs, Examined(r) PROVE AssignStep
  BY <1>4 DEF Examined
<1>5. ASSUME NEW r \in Runs, ScanTables(r) PROVE AssignStep
  BY <1>5 DEF ScanTables
<1>6. ASSUME NEW r \in Runs, Unlink(r) PROVE AssignStep
  BY <1>6 DEF Unlink
<1>7. ASSUME NEW r \in Runs, UnlinkFails(r) PROVE AssignStep
  BY <1>7 DEF UnlinkFails
<1>8. ASSUME NEW r \in Runs, CleanedUp(r) PROVE AssignStep
  BY <1>8 DEF CleanedUp
<1>9. ASSUME NEW r \in Runs, Publish(r) PROVE AssignStep
  BY <1>9 DEF Publish
<1>10. ASSUME NEW r \in Runs, Create(r) PROVE AssignStep
  BY <1>10 DEF Create
<1>11. ASSUME NEW r \in Runs, WriteHeader(r) PROVE AssignStep
  BY <1>11 DEF WriteHeader
<1>12. ASSUME NEW r \in Runs, Assign(r) PROVE AssignStep
  BY <1>12 DEF Assign
<1>13. ASSUME NEW r \in Runs, WriteNeutral(r) PROVE AssignStep
  BY <1>13 DEF WriteNeutral
<1>14. ASSUME NEW r \in Runs, WriteCopytext(r) PROVE AssignStep
  BY <1>14 DEF WriteCopytext
<1>15. ASSUME NEW r \in Runs, Return(r) PROVE AssignStep
  BY <1>15 DEF Return
<1>16. ASSUME NEW r \in Runs, Load(r) PROVE AssignStep
  BY <1>16 DEF Load
<1>17. ASSUME NEW r \in Runs, Commit(r) PROVE AssignStep
  BY <1>17 DEF Commit
<1>18. ASSUME NEW r \in Runs, End(r) PROVE AssignStep
  BY <1>18 DEF End
<1>19. ASSUME NEW r \in Runs, Raise(r) PROVE AssignStep
  BY <1>19 DEF Raise
<1>20. ASSUME NEW r \in Runs, Interrupt(r) PROVE AssignStep
  BY <1>20 DEF Interrupt
<1>21. ASSUME NEW r \in Runs, Crash(r) PROVE AssignStep
  BY <1>21 DEF Crash
<1>22. ASSUME NEW r \in Runs, SessionEnds(r) PROVE AssignStep
  BY <1>22 DEF SessionEnds
<1>23. CASE UNCHANGED vars  BY <1>23 DEF host, work, tidy, log, vars
<1>24. QED
  BY <1>1, <1>2, <1>3, <1>4, <1>5, <1>6, <1>7, <1>8, <1>9, <1>10, <1>11, <1>12, <1>13,
     <1>14, <1>15, <1>16, <1>17, <1>18, <1>19, <1>20, <1>21, <1>22, <1>23 DEF Next

\* Only one of the runs of a lock owns it, and a run acquires it only when nobody does.
LEMMA OneOwner ==
    ASSUME NEW r \in Runs, NEW q \in Runs, Lock(q) = Lock(r), q # r
    PROVE  ~ (Owns(r) /\ Owns(q)) /\ ~ (Owns(r) /\ Acquire(q))
  BY SpoolAssumption DEF Owns, Acquire

\* A run that does not own the lock lists nothing any more, unless it was about to when
\* it lost it.
LEMMA OwnerUnlistedStep ==
    TypeOK /\ Sessions /\ Held /\ Listings /\ OwnerUnlisted /\ [Next]_vars => OwnerUnlisted'
<1> SUFFICES ASSUME TypeOK, Sessions, Held, Listings, OwnerUnlisted, [Next]_vars,
                    NEW r \in Runs, NEW q \in Runs, NEW s \in Stages,
                    r # q, Owns(r)', Lock(q) = Lock(r), lostAt'[q] # "listing"
             PROVE  <<r, s>> \notin listing'[q] \cup job'[q]
  BY DEF OwnerUnlisted, Lock
<1>1. <<r, s>> \in Paths /\ <<r, s>> \notin known[q] /\ <<r, s>> # Here(q)
  BY PathFacts DEF Held, Own, Here
<1>2. CASE Acquire(r)
  <2>1. ToCome(r, s)
    BY <1>2 DEF Acquire, Step, ToCome
  <2>2. <<r, s>> \notin listing[q] \cup job[q]
    BY <2>1 DEF Listings
  <2>3. listing' = listing /\ job' = job
    BY <1>2 DEF Acquire, work, tidy
  <2>4. QED
    BY <2>2, <2>3
<1>3. CASE Owns(r)
  <2>1. ~Owns(q) /\ ~Acquire(q)
    BY <1>3, OneOwner
  <2>2. lostAt'[q] = lostAt[q]
    BY <2>1, OwnersChange DEF OwnerStep
  <2>3. pc[q] # "listing"
    BY <2>1, <2>2 DEF Sessions
  <2>4. <<r, s>> \notin listing[q] \cup job[q]
    BY <1>3, <2>2 DEF OwnerUnlisted
  <2>5. QED
    BY <1>1, <2>3, <2>4, ListsChange DEF ListStep
<1>4. QED
  BY <1>2, <1>3, OwnersChange DEF OwnerStep

\* Nobody else removes a file of an undisturbed owner.
LEMMA OwnerIntactStep ==
    ASSUME OneDatabasePerTask
    PROVE  TypeOK /\ Sessions /\ Held /\ Listings /\ OwnerUnlisted /\ OwnerIntact
              /\ [Next]_vars => OwnerIntact'
<1> SUFFICES ASSUME TypeOK, Sessions, Held, Listings, OwnerUnlisted, OwnerIntact,
                    [Next]_vars,
                    NEW r \in Runs, Undisturbed(r)'
             PROVE  /\ \A p \in known'[r] : file'[p] = "marked"
                    /\ pc'[r] = "assign" => file'[Here(r)'] = "marked"
  BY DEF OwnerIntact
<1>1. \A q \in Runs : Lock(q) = Lock(r) => lostAt[q] # "listing"
  BY OwnersChange DEF OwnerStep, Undisturbed, Sessions, Lock
<1>2. CASE Acquire(r)
  <2>1. known'[r] = {} /\ pc'[r] = "listing"
    <3>1. known[r] = {}
      BY <1>2 DEF Acquire, Step, ToCome, Listings, Held, Own
    <3>2. QED
      BY <1>2, <3>1 DEF Acquire, Step, Goto, work, TypeOK
  <2>2. QED
    BY <2>1
<1>3. CASE Owns(r) /\ pc[r] \in Active
  <2>1. Undisturbed(r)
    BY <1>1, <1>3 DEF Undisturbed
  <2>2. \A q \in Runs \ {r} : \A s \in Stages : <<r, s>> \notin job[q]
    BY <1>1, <1>3 DEF OwnerUnlisted, OneDatabasePerTask, Listings, Lock
  <2>3. ASSUME NEW s \in Stages, <<r, s>> \in known'[r] PROVE file'[<<r, s>>] = "marked"
    <3>1. \/ <<r, s>> \in known[r]
          \/ pc[r] = "assign" /\ s = stage[r]
      BY <2>3, PathFacts, ListsChange DEF ListStep, Here
    <3>2. file[<<r, s>>] = "marked"
      BY <2>1, <3>1 DEF OwnerIntact, Here
    <3>3. ~ RemovedBy(<<r, s>>)
      BY <2>2, <2>3 DEF RemovedBy, TypeOK
    <3>4. pc[r] = "create" => s # stage[r]
      BY <3>1 DEF Listings, ToCome, TypeOK, Stages
    <3>5. QED
      BY <3>2, <3>3, <3>4, FilesChange DEF FileStep
  <2>4. ASSUME pc'[r] = "assign" PROVE file'[Here(r)'] = "marked"
    <3>1. CASE WriteHeader(r)
      BY <3>1, HereIsOwn DEF WriteHeader, work, Here, TypeOK
    <3>2. CASE pc[r] = "assign" /\ stage'[r] = stage[r]
      <4>1. file[Here(r)] = "marked" /\ Here(r)' = Here(r)
        BY <2>1, <3>2 DEF OwnerIntact, Here
      <4>2. PICK s \in Stages : Here(r) = <<r, s>> /\ s = stage[r]
        BY HereIsOwn DEF Here
      <4>3. ~ RemovedBy(<<r, s>>) /\ pc[r] # "create"
        BY <2>2, <3>2 DEF RemovedBy, Held
      <4>4. QED
        BY <4>1, <4>2, <4>3, FilesChange DEF FileStep
    <3>3. QED
      BY <2>4, <3>1, <3>2, AssignComes DEF AssignStep
  <2>5. known'[r] \subseteq Own(r)
    BY HeldStep DEF Held, Own
  <2>6. QED
    BY <2>3, <2>4, <2>5 DEF Own
<1>4. QED
  BY <1>2, <1>3, OwnersChange DEF OwnerStep, Undisturbed

\* The way of a path from the directory listing to its removal, as its run comes along.
PurgeStep ==
    \A r \in Runs : \A p \in Paths :
        /\ pc[r] = "listing" /\ file[p] # "none" =>
             \/ pc'[r] \in {"listing", "dead"}
             \/ pc'[r] = "examine" /\ p \in listing'[r]
        /\ pc[r] = "examine" /\ p \in listing[r] \cup job[r] /\ PositivelyOwned(r, p) =>
             \/ pc'[r] = "dead"
             \/ pc'[r] = "examine" /\ p \in listing'[r] \cup job'[r]
             \/ pc'[r] = "unlink" /\ goal'[r] = "tables" /\ p \in job'[r]
        /\ pc[r] = "unlink" /\ goal[r] = "tables" /\ p \in job[r] \cup kept[r] =>
             \/ pc'[r] = "dead" \/ file'[p] = "none"
             \/ pc'[r] = "unlink" /\ goal'[r] = "tables" /\ p \in job'[r] \cup kept'[r]
             \/ pc'[r] = "unlink" /\ goal'[r] = "ending"
        /\ pc[r] = "unlink" /\ goal[r] = "ending" =>
             \/ pc'[r] \in {"ending", "dead"}
             \/ pc'[r] = "unlink" /\ goal'[r] = "ending"
        /\ pc[r] \in {"ending", "dead"} => pc'[r] \in {"ending", "dead", "done"}
\* No step loses a path on the way.
LEMMA PurgeOrder == TypeOK /\ [Next]_vars => PurgeStep
<1> SUFFICES ASSUME TypeOK, [Next]_vars PROVE PurgeStep
  OBVIOUS
<1> USE DEF PC, Active, Step, Goto, host, work, tidy, log, vars, TypeOK, CleansUp,
        Raises, Fault, Forgets, PurgeStep
<1>1. ASSUME NEW r \in Runs, Acquire(r) PROVE PurgeStep
  BY <1>1 DEF Acquire
<1>2. ASSUME NEW r \in Runs, List(r) PROVE PurgeStep
  BY <1>2 DEF List
<1>3. ASSUME NEW r \in Runs, Examine(r) PROVE PurgeStep
  <2>1. PICK p \in listing[r] :
           /\ listing' = [listing EXCEPT ![r] = @ \ {p}]
           /\ job' = [job EXCEPT ![r] = IF PositivelyOwned(r, p) THEN @ \cup {p} ELSE @]
    BY <1>3 DEF Examine
  <2>2. QED
    BY <1>3, <2>1 DEF Examine
<1>4. ASSUME NEW r \in Runs, Examined(r) PROVE PurgeStep
  BY <1>4 DEF Examined
<1>5. ASSUME NEW r \in Runs, ScanTables(r) PROVE PurgeStep
  BY <1>5 DEF ScanTables
<1>6. ASSUME NEW r \in Runs, Unlink(r) PROVE PurgeStep
  <2>1. /\ file' = [file EXCEPT ![Current(r)] = "none"] /\ pc[r] = "unlink"
        /\ job' = [job EXCEPT ![r] = @ \ {Current(r)}] /\ kept' = kept /\ goal' = goal
        /\ pc' = pc /\ listing' = listing
    BY <1>6 DEF Unlink
  <2>2. \A p \in job[r] : p \in job'[r] \/ file'[p] = "none"
    BY <2>1
  <2>3. \A q \in Runs \ {r} : job'[q] = job[q]
    BY <2>1
  <2>4. QED
    BY <2>1, <2>2, <2>3
<1>7. ASSUME NEW r \in Runs, UnlinkFails(r) PROVE PurgeStep
  BY <1>7 DEF UnlinkFails
<1>8. ASSUME NEW r \in Runs, CleanedUp(r) PROVE PurgeStep
  BY <1>8 DEF CleanedUp
<1>9. ASSUME NEW r \in Runs, Publish(r) PROVE PurgeStep
  BY <1>9 DEF Publish
<1>10. ASSUME NEW r \in Runs, Create(r) PROVE PurgeStep
  BY <1>10 DEF Create
<1>11. ASSUME NEW r \in Runs, WriteHeader(r) PROVE PurgeStep
  BY <1>11 DEF WriteHeader
<1>12. ASSUME NEW r \in Runs, Assign(r) PROVE PurgeStep
  BY <1>12 DEF Assign
<1>13. ASSUME NEW r \in Runs, WriteNeutral(r) PROVE PurgeStep
  BY <1>13 DEF WriteNeutral
<1>14. ASSUME NEW r \in Runs, WriteCopytext(r) PROVE PurgeStep
  BY <1>14 DEF WriteCopytext
<1>15. ASSUME NEW r \in Runs, Return(r) PROVE PurgeStep
  BY <1>15 DEF Return
<1>16. ASSUME NEW r \in Runs, Load(r) PROVE PurgeStep
  BY <1>16 DEF Load
<1>17. ASSUME NEW r \in Runs, Commit(r) PROVE PurgeStep
  BY <1>17 DEF Commit
<1>18. ASSUME NEW r \in Runs, End(r) PROVE PurgeStep
  BY <1>18 DEF End
<1>19. ASSUME NEW r \in Runs, Raise(r) PROVE PurgeStep
  BY <1>19 DEF Raise
<1>20. ASSUME NEW r \in Runs, Interrupt(r) PROVE PurgeStep
  BY <1>20 DEF Interrupt
<1>21. ASSUME NEW r \in Runs, Crash(r) PROVE PurgeStep
  BY <1>21 DEF Crash
<1>22. ASSUME NEW r \in Runs, SessionEnds(r) PROVE PurgeStep
  BY <1>22 DEF SessionEnds
<1>23. CASE UNCHANGED vars  BY <1>23 DEF host, work, tidy, log, vars
<1>24. QED
  BY <1>1, <1>2, <1>3, <1>4, <1>5, <1>6, <1>7, <1>8, <1>9, <1>10, <1>11, <1>12, <1>13,
     <1>14, <1>15, <1>16, <1>17, <1>18, <1>19, <1>20, <1>21, <1>22, <1>23 DEF Next

\* When its clean-up is over, the owner has seen off every recognisable spool of the runs
\* that ended before it.
LEMMA PredecessorsSeenStep ==
    ASSUME OneDatabasePerTask
    PROVE  TypeOK /\ Sessions /\ PredecessorsSeen /\ [Next]_vars => PredecessorsSeen'
<1> SUFFICES ASSUME TypeOK, Sessions, PredecessorsSeen, [Next]_vars,
                    NEW r \in Runs, NEW q \in Runs, NEW s \in Stages,
                    Owns(r)', q # r, TaskOf[q] = TaskOf[r], lostAt'[q] = "idle",
                    file'[<<q, s>>] = "marked"
             PROVE  \/ pc'[r] \in {"listing", "ending", "dead"}
                    \/ pc'[r] = "examine" /\ <<q, s>> \in listing'[r] \cup job'[r]
                    \/ /\ pc'[r] = "unlink" /\ goal'[r] = "tables"
                       /\ <<q, s>> \in job'[r] \cup kept'[r]
                    \/ pc'[r] = "unlink" /\ goal'[r] = "ending"
  BY DEF PredecessorsSeen
<1>1. <<q, s>> \in Paths /\ Lock(q) = Lock(r)
  BY PathFacts DEF OneDatabasePerTask, Lock
<1>2. Sessions' /\ ~Owns(q)'
  BY <1>1, SessionsStep DEF Owns, Lock
<1>3. lostAt[q] = "idle"
  BY OwnersChange DEF OwnerStep, Sessions
<1>4. pc'[q] \notin Active
  BY <1>2 DEF Sessions
<1>5. file[<<q, s>>] = "marked"
  BY <1>4, FilesChange DEF FileStep, Active, PC
<1>6. CASE Acquire(r)
  BY <1>6 DEF Acquire, Step, Goto, TypeOK
<1>7. CASE Owns(r)
  <2>1. \/ pc[r] \in {"listing", "ending", "dead"}
        \/ pc[r] = "examine" /\ <<q, s>> \in listing[r] \cup job[r]
        \/ pc[r] = "unlink" /\ goal[r] = "tables" /\ <<q, s>> \in job[r] \cup kept[r]
        \/ pc[r] = "unlink" /\ goal[r] = "ending"
    BY <1>3, <1>5, <1>7 DEF PredecessorsSeen
  <2>2. pc'[r] # "done"
    BY <1>2 DEF Sessions, Active, PC
  <2>3. PositivelyOwned(r, <<q, s>>)
    BY <1>5 DEF PositivelyOwned
  <2>4. QED
    BY <1>1, <1>5, <2>1, <2>2, <2>3, PurgeOrder DEF PurgeStep
<1>8. QED
  BY <1>6, <1>7, OwnersChange DEF OwnerStep

-----------------------------------------------------------------------------
(* The theorems.                                                           *)

\* The initial states.
LEMMA InitSInv == Init => SInv /\ OwnerUnlisted /\ OwnerIntact /\ PredecessorsSeen
<1> SUFFICES ASSUME Init PROVE SInv /\ OwnerUnlisted /\ OwnerIntact /\ PredecessorsSeen
  OBVIOUS
<1> USE SpoolAssumption DEF Init
<1>1. TypeOK
  BY DEF TypeOK, PC, Stages, Paths
<1>2. \A r \in Runs : /\ ~Owns(r) /\ known[r] = {} /\ listing[r] = {} /\ job[r] = {}
                      /\ kept[r] = {} /\ lostAt[r] = "idle" /\ pc[r] \in {"idle", "dead"}
  BY DEF Owns, Locks, Lock
<1>3. Sessions /\ Held /\ Committed
  BY <1>2 DEF Sessions, Held, Committed, Active, PC
<1>4. \A r \in Runs : \A s \in Stages : ToCome(r, s) => file[<<r, s>>] = "none"
  BY PathFacts DEF ToCome
<1>5. Listings /\ NotYet
  BY <1>2, <1>4 DEF Listings, NotYet
<1>6. Accounted /\ Removed
  BY <1>2 DEF Accounted, Removed
<1>7. OwnerUnlisted /\ OwnerIntact /\ PredecessorsSeen
  BY <1>2 DEF OwnerUnlisted, OwnerIntact, PredecessorsSeen, Undisturbed
<1>8. QED
  BY <1>1, <1>3, <1>5, <1>6, <1>7 DEF SInv

\* The part of the invariant that holds for any tasks and databases.
THEOREM Inductive == Spec => []SInv
<1>1. Init => SInv
  BY InitSInv
<1>2. SInv /\ [Next]_vars => SInv'
  BY TypeStep, SessionsStep, HeldStep, ListingsStep, NotYetStep, AccountedStep,
     CommittedStep, RemovedStep DEF SInv
<1>3. QED
  BY <1>1, <1>2, PTL DEF Spec

\* The variables keep their types.
THEOREM TypeCorrect == Spec => []TypeOK
<1>1. SInv => TypeOK
  BY DEF SInv
<1>2. QED
  BY <1>1, Inductive, PTL

\* A staging table is committed only when its rows are in no file of the host.
THEOREM NothingSpooledAtCommit == Spec => []NoSpoolAtCommit
<1>1. SInv => NoSpoolAtCommit
  BY DEF SInv, Accounted, NoSpoolAtCommit, TypeOK
<1>2. QED
  BY <1>1, Inductive, PTL

\* A run that ends by itself has removed its spools, unless an interrupt hit it where no
\* handler knows the path, or a file refused to be removed.
THEOREM RunsCleanUp == Spec => []NothingLeftBehind
<1>1. SInv => NothingLeftBehind
  BY DEF SInv, Removed, NothingLeftBehind
<1>2. QED
  BY <1>1, Inductive, PTL

\* A spool is removed by runs of its task only, and by its own run only as long as its
\* header is not complete.
THEOREM ForeignSpoolsStay == Spec => ForeignSpoolsKept
<1>1. ASSUME SInv, [Next]_vars, NEW p \in Paths, file[p] # "none", file'[p] = "none"
      PROVE  \E r \in Runs :
                /\ p \in job[r] \ job'[r]
                /\ TaskOf[r] = TaskOf[p[1]]
                /\ file[p] = "bare" => r = p[1]
  <2>1. TypeOK /\ Listings
    BY <1>1 DEF SInv
  <2>2. PICK q \in Runs, s \in Stages : p = <<q, s>>
    BY PathFacts
  <2>3. RemovedBy(<<q, s>>)
    BY <1>1, <2>1, <2>2, FilesChange DEF FileStep
  <2>4. PICK r \in Runs : p \in job[r] /\ job' = [job EXCEPT ![r] = @ \ {p}]
    BY <2>2, <2>3 DEF RemovedBy
  <2>5. p \notin job'[r]
    BY <2>1, <2>4 DEF TypeOK
  <2>6. QED
    BY <2>1, <2>2, <2>4, <2>5 DEF Listings
<1>2. SInv /\ [Next]_vars =>
         [\A p \in Paths : file[p] # "none" /\ file'[p] = "none" =>
             \E r \in Runs :
                 /\ p \in job[r] \ job'[r]
                 /\ TaskOf[r] = TaskOf[p[1]]
                 /\ file[p] = "bare" => r = p[1]]_vars
  BY <1>1
<1>3. QED
  BY <1>2, Inductive, PTL DEF Spec, ForeignSpoolsKept

\* While the runs of a task publish to one database, its lock keeps them apart.
THEOREM InductivePerDatabase == ASSUME OneDatabasePerTask PROVE Spec => []DInv
<1>1. Init => DInv
  BY InitSInv DEF DInv
<1>2. DInv /\ [Next]_vars => DInv'
  <2> SUFFICES ASSUME DInv, [Next]_vars PROVE DInv'
    OBVIOUS
  <2>1. SInv'
    BY TypeStep, SessionsStep, HeldStep, ListingsStep, NotYetStep, AccountedStep,
       CommittedStep, RemovedStep DEF SInv, DInv
  <2>2. OwnerUnlisted'
    BY OwnerUnlistedStep DEF DInv, SInv
  <2>3. OwnerIntact'
    BY OwnerIntactStep DEF DInv, SInv
  <2>4. PredecessorsSeen'
    BY PredecessorsSeenStep DEF DInv, SInv
  <2>5. QED
    BY <2>1, <2>2, <2>3, <2>4 DEF DInv
<1>3. QED
  BY <1>1, <1>2, PTL DEF Spec

\* The owner of the lock keeps its spools until it removes them itself, unless a run
\* that had lost the lock before it listed the directory removes them.
THEOREM OwnerKeeps == ASSUME OneDatabasePerTask PROVE Spec => []OwnerKeepsSpools
<1>1. DInv => OwnerKeepsSpools
  BY DEF DInv, OwnerIntact, Undisturbed, OwnerKeepsSpools
<1>2. QED
  BY <1>1, InductivePerDatabase, PTL

\* A run past its clean-up shares the directory with no recognisable spool of a run of
\* its task, but for those that lost their sessions.
THEOREM OwnerFindsClean == ASSUME OneDatabasePerTask PROVE Spec => []DirectoryIsClean
<1>1. DInv => DirectoryIsClean
  BY DEF DInv, PredecessorsSeen, DirectoryIsClean, Active, PC
<1>2. QED
  BY <1>1, InductivePerDatabase, PTL
=============================================================================
