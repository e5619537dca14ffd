----------------------------- MODULE CopySpool -----------------------------
(***************************************************************************)
(* The spool files of the COPY loader: the runs of one host write them to  *)
(* one directory, remove them before their staging table is committed, and *)
(* remove what dead predecessors of their task left, which they recognise  *)
(* by the ownership header.  Any statement may raise, an interrupt may     *)
(* arrive between two of them, a file may refuse to be unlinked, the       *)
(* process may be killed, and the server may end the session of a run      *)
(* whose process lives on.                                                 *)
(***************************************************************************)
EXTENDS Naturals

CONSTANTS
    Runs,         \* executions of tasks on one host
    Departed,     \* those killed while they wrote the header of their second spool
    NoRun,
    TaskOf,       \* the task a run executes
    DatabaseOf,   \* the database it publishes to
    Attempts,     \* attempts=3 of cleanup_spool_paths()
    MaxFaults     \* bound: faults considered in a behaviour

ASSUME SpoolAssumption ==
    /\ NoRun \notin Runs /\ Departed \subseteq Runs
    /\ DOMAIN TaskOf = Runs /\ DOMAIN DatabaseOf = Runs
    /\ Attempts \in Nat \ {0}
    /\ MaxFaults \in Nat

VARIABLES
    file,       \* none, bare (created, no complete header yet), marked
    owner,      \* of the advisory lock, by database and task
    committed,  \* runs whose staging table is committed
    pc,
    stage,      \* the spool being written
    known,      \* paths held by a variable an except block cleans up
    listing,    \* directory entries still to be examined
    job,        \* paths still to be unlinked
    kept,       \* paths that could not be
    tries,      \* failed attempts to unlink the current one
    goal,       \* where a successful clean-up leads
    lostAt,     \* where a run was when the server ended its session
    faults,     \* faults so far
    report      \* what went wrong in each run

host == <<file, owner, committed>>
work == <<stage, known, listing>>
tidy == <<job, kept, tries, goal>>
log  == <<lostAt, faults, report>>
vars == <<pc, host, work, tidy, log>>

Stages == {"neutral", "copytext"}
Paths  == Runs \X Stages

Locks   == {<<DatabaseOf[r], TaskOf[r]>> : r \in Runs}
Lock(r) == <<DatabaseOf[r], TaskOf[r]>>
Owns(r) == owner[Lock(r)] = r
Here(r) == <<r, stage[r]>>

PC == {"idle", "listing", "examine", "unlink", "tables", "ready", "create",
       "header", "assign", "write", "return", "load", "commit", "ending", "done", "dead"}
Active == PC \ {"idle", "done", "dead"}

TypeOK ==
    /\ file \in [Paths -> {"none", "bare", "marked"}]
    /\ owner \in [Locks -> Runs \cup {NoRun}]
    /\ committed \subseteq Runs
    /\ pc \in [Runs -> PC]
    /\ stage \in [Runs -> Stages]
    /\ known \in [Runs -> SUBSET Paths]
    /\ listing \in [Runs -> SUBSET Paths]
    /\ job \in [Runs -> SUBSET Paths]
    /\ kept \in [Runs -> SUBSET Paths]
    /\ tries \in [Runs -> 0..(Attempts - 1)]
    /\ goal \in [Runs -> {"tables", "return", "commit", "ending"}]
    /\ lostAt \in [Runs -> PC]
    /\ faults \in 0..MaxFaults
    /\ report \in [Runs -> SUBSET {"raise", "interrupt", "unlink", "crash", "session"}]

Init ==
    /\ file = [p \in Paths |-> IF p[1] \notin Departed THEN "none"
                              ELSE IF p[2] = "neutral" THEN "marked" ELSE "bare"]
    /\ owner = [k \in Locks |-> NoRun]
    /\ committed = {}
    /\ pc = [r \in Runs |-> IF r \in Departed THEN "dead" ELSE "idle"]
    /\ stage = [r \in Runs |-> "neutral"]
    /\ known = [r \in Runs |-> {}] /\ listing = [r \in Runs |-> {}]
    /\ job = [r \in Runs |-> {}] /\ kept = [r \in Runs |-> {}]
    /\ tries = [r \in Runs |-> 0] /\ goal = [r \in Runs |-> "ending"]
    /\ lostAt = [r \in Runs |-> "idle"]
    /\ faults = 0
    /\ report = [r \in Runs |-> {}]

Goto(r, next) == pc' = [pc EXCEPT ![r] = next]

Step(r, here, next) == pc[r] = here /\ Goto(r, next)

Fault(r, kind) ==
    /\ faults < MaxFaults
    /\ faults' = faults + 1
    /\ report' = [report EXCEPT ![r] = @ \cup {kind}]

\* cleanup_spool_paths(paths), on the way to next.
CleansUp(r, paths, next) ==
    /\ Goto(r, "unlink")
    /\ job' = [job EXCEPT ![r] = paths]
    /\ kept' = [kept EXCEPT ![r] = {}]
    /\ goal' = [goal EXCEPT ![r] = next]
    /\ UNCHANGED tries

\* An exception in publish() or below: the except blocks clean up what they know.
Raises(r, paths) == CleansUp(r, paths, "ending")

-----------------------------------------------------------------------------
(* begin_run().                                                            *)

\* Mutant: the answer of pg_try_advisory_lock is not looked at.
IgnoresAnswer(r) ==
    /\ Step(r, "idle", "listing")
    /\ owner' = [owner EXCEPT ![Lock(r)] = r]
    /\ UNCHANGED <<file, committed, work, tidy, log>>

\* try_acquire_task_lock(); a run that finds the lock taken is skipped.
Acquire(r) ==
    /\ owner[Lock(r)] = NoRun
    /\ Step(r, "idle", "listing")
    /\ owner' = [owner EXCEPT ![Lock(r)] = r]
    /\ UNCHANGED <<file, committed, work, tidy, log>>

\* The directory listing of cleanup_predecessor_spools().
List(r) ==
    /\ Step(r, "listing", "examine")
    /\ listing' = [listing EXCEPT ![r] = {p \in Paths : file[p] # "none"}]
    /\ UNCHANGED <<host, stage, known, tidy, log>>

\* Mutant: any spool with a valid header is a predecessor's.
AnyTask(r, p) == file[p] = "marked"

\* The header is complete and names the task.
PositivelyOwned(r, p) == file[p] = "marked" /\ TaskOf[p[1]] = TaskOf[r]

\* One entry after the other, in a fixed order: kept unless positively identified.
Examine(r) ==
    /\ pc[r] = "examine" /\ listing[r] # {}
    /\ LET p == CHOOSE q \in listing[r] : TRUE IN
          /\ listing' = [listing EXCEPT ![r] = @ \ {p}]
          /\ job' = [job EXCEPT ![r] = IF PositivelyOwned(r, p) THEN @ \cup {p} ELSE @]
    /\ UNCHANGED <<pc, host, stage, known, kept, tries, goal, log>>

Examined(r) ==
    /\ pc[r] = "examine" /\ listing[r] = {}
    /\ CleansUp(r, job[r], "tables")
    /\ UNCHANGED <<host, work, log>>

\* cleanup_predecessor_artifacts(): the first statement after the files.
ScanTables(r) ==
    /\ \/ Owns(r) /\ Step(r, "tables", "ready")
       \/ ~Owns(r) /\ Step(r, "tables", "ending")
    /\ UNCHANGED <<host, work, tidy, log>>

-----------------------------------------------------------------------------
(* cleanup_spool_paths().                                                  *)

Current(r) == CHOOSE p \in job[r] : TRUE

Unlink(r) ==
    /\ pc[r] = "unlink" /\ job[r] # {}
    /\ file' = [file EXCEPT ![Current(r)] = "none"]
    /\ known' = [known EXCEPT ![r] = @ \ {Current(r)}]
    /\ job' = [job EXCEPT ![r] = @ \ {Current(r)}]
    /\ tries' = [tries EXCEPT ![r] = 0]
    /\ UNCHANGED <<pc, owner, committed, stage, listing, kept, goal, log>>

LastAttempt(r) == tries[r] + 1 = Attempts

\* OSError: another attempt, or the path is given up.  A path that is gone counts
\* as removed.
UnlinkFails(r) ==
    /\ pc[r] = "unlink" /\ job[r] # {}
    /\ file[Current(r)] # "none"
    /\ Fault(r, "unlink")
    /\ IF LastAttempt(r)
       THEN /\ job' = [job EXCEPT ![r] = @ \ {Current(r)}]
            /\ kept' = [kept EXCEPT ![r] = @ \cup {Current(r)}]
            /\ tries' = [tries EXCEPT ![r] = 0]
       ELSE /\ tries' = [tries EXCEPT ![r] = @ + 1]
            /\ UNCHANGED <<job, kept>>
    /\ UNCHANGED <<pc, host, work, goal, lostAt>>

\* Mutant: a failed clean-up of a finished spool is only logged.
GoesOn(r) ==
    /\ pc[r] = "unlink" /\ job[r] = {}
    /\ Goto(r, IF goal[r] = "tables" /\ kept[r] # {} THEN "ending" ELSE goal[r])
    /\ UNCHANGED <<host, work, tidy, log>>

\* Mutant: a predecessor's spool that stays is only logged.
ToleratesResidue(r) ==
    /\ pc[r] = "unlink" /\ job[r] = {}
    /\ IF kept[r] = {} \/ goal[r] \in {"tables", "ending"}
       THEN Goto(r, goal[r]) /\ UNCHANGED tidy
       ELSE Raises(r, known[r])
    /\ UNCHANGED <<host, work, log>>

\* A path that could not be removed is fatal: DbPublishError, whose handlers try
\* the paths of this run once more.
CleanedUp(r) ==
    /\ pc[r] = "unlink" /\ job[r] = {}
    /\ IF kept[r] = {} \/ goal[r] = "ending"
       THEN Goto(r, goal[r]) /\ UNCHANGED tidy
       ELSE Raises(r, known[r])
    /\ UNCHANGED <<host, work, log>>

-----------------------------------------------------------------------------
(* publish() of a COPY payload.                                            *)

\* An inferred schema needs the neutral spool first, a declared one does not.
Publish(r) ==
    /\ Step(r, "ready", "create")
    /\ \E s \in Stages : stage' = [stage EXCEPT ![r] = s]
    /\ UNCHANGED <<host, known, listing, tidy, log>>

\* open_spool_for_write(): O_CREAT | O_EXCL under a name of this run only.
Create(r) ==
    /\ Step(r, "create", "header")
    /\ file' = [file EXCEPT ![Here(r)] = "bare"]
    /\ UNCHANGED <<owner, committed, work, tidy, log>>

WriteHeader(r) ==
    /\ Step(r, "header", "assign")
    /\ file' = [file EXCEPT ![Here(r)] = "marked"]
    /\ UNCHANGED <<owner, committed, work, tidy, log>>

\* The caller assigns the returned path; from here its handler knows it.
Assign(r) ==
    /\ Step(r, "assign", "write")
    /\ known' = [known EXCEPT ![r] = @ \cup {Here(r)}]
    /\ UNCHANGED <<host, stage, listing, tidy, log>>

\* The first pass is complete.
WriteNeutral(r) ==
    /\ stage[r] = "neutral"
    /\ Step(r, "write", "create")
    /\ stage' = [stage EXCEPT ![r] = "copytext"]
    /\ UNCHANGED <<host, known, listing, tidy, log>>

\* The second pass reads the neutral spool, if there is one, and removes it.
WriteCopytext(r) ==
    LET neutral == <<r, "neutral">> IN
    /\ pc[r] = "write" /\ stage[r] = "copytext"
    /\ IF neutral \in known[r] /\ file[neutral] = "none"
       THEN Raises(r, known[r])
       ELSE CleansUp(r, known[r] \cap {neutral}, "return")
    /\ UNCHANGED <<host, work, log>>

\* prepare_copy_source() returns and publish() assigns prepared_copy.
Return(r) ==
    /\ Step(r, "return", "load")
    /\ UNCHANGED <<host, work, tidy, log>>

\* CREATE TABLE and COPY in a transaction; the spool is removed before its end.
Load(r) ==
    /\ pc[r] = "load"
    /\ IF Owns(r) /\ file[<<r, "copytext">>] # "none"
       THEN CleansUp(r, known[r], "commit")
       ELSE Raises(r, known[r])
    /\ UNCHANGED <<host, work, log>>

\* The staging table is verified, commented and committed.
Commit(r) ==
    /\ Step(r, "commit", "ending")
    /\ committed' = IF Owns(r) THEN committed \cup {r} ELSE committed
    /\ UNCHANGED <<file, owner, work, tidy, log>>

\* The variables of a run that is over.
Forgets(r) ==
    /\ stage' = [stage EXCEPT ![r] = "neutral"]
    /\ known' = [known EXCEPT ![r] = {}]
    /\ listing' = [listing EXCEPT ![r] = {}]
    /\ job' = [job EXCEPT ![r] = {}]
    /\ kept' = [kept EXCEPT ![r] = {}]
    /\ tries' = [tries EXCEPT ![r] = 0]
    /\ goal' = [goal EXCEPT ![r] = "ending"]

\* close(): the lock goes with the session.
End(r) ==
    /\ Step(r, "ending", "done")
    /\ owner' = IF Owns(r) THEN [owner EXCEPT ![Lock(r)] = NoRun] ELSE owner
    /\ Forgets(r)
    /\ UNCHANGED <<file, committed, log>>

-----------------------------------------------------------------------------
(* Faults.                                                                 *)

\* Mutant: the handler of the second pass removes its own spool only.
HandlesOwn(r) ==
    CASE pc[r] = "header" -> {Here(r)}
      [] pc[r] \in {"create", "write", "load", "commit"} -> known[r] \cap {Here(r)}

\* What the except blocks around each statement remove.
Handles(r) ==
    CASE pc[r] = "header" -> known[r] \cup {Here(r)}
      [] pc[r] \in {"create", "write", "load", "commit"} -> known[r]

\* The row source, a file operation, a statement or an interrupt raises.
Raise(r) ==
    /\ pc[r] \in {"create", "header", "write", "load", "commit"}
    /\ Fault(r, "raise")
    /\ Raises(r, Handles(r))
    /\ UNCHANGED <<host, work, lostAt>>

\* An interrupt arrives where no variable holds the path yet: after os.open(),
\* or before the caller has assigned what was returned.
Interrupt(r) ==
    /\ pc[r] \in {"header", "assign", "return"}
    /\ Fault(r, "interrupt")
    /\ Raises(r, IF pc[r] = "return" THEN {} ELSE known[r])
    /\ UNCHANGED <<host, work, lostAt>>

\* The process is killed.
Crash(r) ==
    /\ pc[r] \in Active
    /\ Fault(r, "crash")
    /\ Goto(r, "dead")
    /\ Forgets(r)
    /\ UNCHANGED <<host, lostAt>>

\* The server ends the session, of a dead process or of a living one that is
\* busy and will find out with its next statement.
SessionEnds(r) ==
    /\ Owns(r)
    /\ owner' = [owner EXCEPT ![Lock(r)] = NoRun]
    /\ \/ pc[r] = "dead" /\ UNCHANGED log
       \/ /\ pc[r] \in Active
          /\ Fault(r, "session")
          /\ lostAt' = [lostAt EXCEPT ![r] = pc[r]]
    /\ UNCHANGED <<pc, file, committed, work, tidy>>

Next ==
    \E r \in Runs :
        \/ Acquire(r) \/ List(r) \/ Examine(r) \/ Examined(r) \/ ScanTables(r)
        \/ Unlink(r) \/ UnlinkFails(r) \/ CleanedUp(r)
        \/ Publish(r) \/ Create(r) \/ WriteHeader(r) \/ Assign(r)
        \/ WriteNeutral(r) \/ WriteCopytext(r) \/ Return(r) \/ Load(r)
        \/ Commit(r) \/ End(r)
        \/ Raise(r) \/ Interrupt(r) \/ Crash(r) \/ SessionEnds(r)

Spec == Init /\ [][Next]_vars

-----------------------------------------------------------------------------
(* Properties.                                                             *)

\* A spool is removed by a run of its task only, and one whose header is not
\* complete by its own run only: "unknown" is never somebody's to delete.
ForeignSpoolsKept ==
    [][\A p \in Paths : file[p] # "none" /\ file'[p] = "none" =>
          \E r \in Runs :
              /\ p \in job[r] \ job'[r]
              /\ TaskOf[r] = TaskOf[p[1]]
              /\ file[p] = "bare" => r = p[1]]_vars

\* The spools of the run that owns the lock stay until it removes them itself,
\* whatever its predecessors, its successors and the runs of other tasks do; the
\* one exception is a run that had lost its own lock before it listed the files.
OwnerKeepsSpools ==
    \A r \in Runs :
        /\ Owns(r) /\ pc[r] \in Active
        /\ \A s \in Runs : Lock(s) = Lock(r) => lostAt[s] # "listing"
        => \A p \in known[r] : file[p] = "marked"

\* When a staging table is committed the rows are nowhere on the disk.
NoSpoolAtCommit ==
    \A r \in committed : \A s \in Stages : file[<<r, s>>] = "none"

\* A run that has claimed its task shares the directory with no recognisable
\* spool of an earlier run of the task; only a run whose session was lost, and
\* which is writing on, can add one.
DirectoryIsClean ==
    \A r, q \in Runs :
        /\ Owns(r) /\ pc[r] \in Active \ {"listing", "examine", "unlink", "ending"}
        /\ q # r /\ TaskOf[q] = TaskOf[r] /\ lostAt[q] = "idle"
        => \A s \in Stages : file[<<q, s>>] # "marked"

\* A run that ends by itself leaves a spool behind only if an interrupt hit one
\* of the unguarded moments or a file refused to be removed.
NothingLeftBehind ==
    \A r \in Runs :
        pc[r] = "done" /\ report[r] \cap {"interrupt", "unlink"} = {} =>
            \A s \in Stages : file[<<r, s>>] = "none"

\* What publish.py and spool_io.py say of the clean-up: holding the lock "proves
\* that no live run of this task can own" a spool it removes.
LiveSpoolsKept ==
    \A r \in Runs : pc[r] \in Active => \A p \in known[r] : file[p] = "marked"

=============================================================================
