---------------------------- MODULE AtomicOutput ----------------------------
(***************************************************************************)
(* What a task_core publication promises a reader of its tables, with no   *)
(* mention of staging tables, locks, sessions or processes: the tables of  *)
(* a task and its stored source fingerprint change together, in one step,  *)
(* from the complete output of one run to the complete output of another,  *)
(* and the stored fingerprint neither goes backwards nor runs ahead of     *)
(* the data it vouches for.  StagedPublication implements this.            *)
(***************************************************************************)
EXTENDS Naturals

CONSTANTS
    Runs,       \* run tokens
    Targets,    \* the tables one task publishes
    NoRun,      \* the author of a table no run has published yet
    MaxVersion  \* bound on the source versions considered

VARIABLES
    version,    \* the version of the sources now
    stored,     \* the fingerprint row of the task; 0 before the first run
    live        \* per target, the run that wrote it and the version it read

vars == <<version, stored, live>>

Init ==
    /\ version = 1
    /\ stored = 0
    /\ live = [t \in Targets |-> [run |-> NoRun, version |-> 0]]

SourceChanges ==
    /\ version < MaxVersion
    /\ version' = version + 1
    /\ UNCHANGED <<stored, live>>

\* Run r replaces every table at once.  Its fingerprint f was collected no
\* earlier than the one in place, and each table holds data at least as new
\* as f and no newer than the sources are.
Publish(r) ==
    \E f \in stored..version :
       \E read \in [Targets -> f..version] :
          /\ live' = [t \in Targets |-> [run |-> r, version |-> read[t]]]
          /\ stored' = f
          /\ UNCHANGED version

Next == SourceChanges \/ \E r \in Runs : Publish(r)

Spec == Init /\ [][Next]_vars
=============================================================================
