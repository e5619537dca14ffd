---------------------------- MODULE SourceFiles ----------------------------
(***************************************************************************)
(* Successive runs of one task over a directory that others change: which  *)
(* resources a run wires, which files they select, what is fingerprinted   *)
(* and compared with the stored state, what the pipelines then read, and   *)
(* what is stored when they are published.                                 *)
(*                                                                         *)
(* A version of a file is a number that stands for its size, modification  *)
(* time and content.  That a change of content changes size or time, and   *)
(* that times do not go back, is assumed of the file system.  A table of   *)
(* another database that a query reads is a file as well: its version is   *)
(* what the tracked query says of it, and it is gone when it is dropped.   *)
(***************************************************************************)
EXTENDS CsvTable, Naturals, Sequences, FiniteSets, SequencesExt

CONSTANTS
    Keys,         \* RESOURCES
    Pipelines,    \* as numbers, in the order of run_sequence
    Names,        \* files, as numbers in the order of their paths
    MaxVersion,   \* bound: versions of a file
    MaxChanges,   \* bound: changes of the directory
    Layouts,      \* a task's declarations and what its files contain
    None

Versions == 1..MaxVersion
Kinds    == {"fixed", "latest", "set", "query"}

SelectedFiles == [name : Names, version : Versions]

ASSUME FilesAssumption ==
    /\ Pipelines \subseteq Nat /\ Names \subseteq Nat /\ IsFiniteSet(Names)
    /\ None \notin Keys \cup SelectedFiles /\ None \notin Seq(SelectedFiles)
    /\ MaxVersion \in Nat \ {0} /\ MaxChanges \in Nat
    /\ \A l \in Layouts :
         /\ l.kind \in [Keys -> Kinds]
         /\ l.path \in [Keys -> Names]
         /\ l.tracked \subseteq Keys /\ l.workbooks \subseteq Keys
         /\ l.filtered \subseteq Names /\ l.hidden \subseteq Names
         /\ l.uses \in [Pipelines -> SUBSET Keys]
         /\ l.remote \in BOOLEAN
         /\ l.contents \in [Names -> [Versions -> Seq(Seq(STRING))]]
         /\ l.options \in CsvReadOptions(Seq(STRING))
         /\ \A k \in Keys : l.kind[k] = "query" => k \in l.tracked \ l.workbooks

VARIABLES
    layout,    \* chosen once
    \* the directory
    dir,       \* version of each file, 0 if it is not there
    newest,    \* its last version
    changes,   \* how often the directory changed
    \* the source-state table and the live tables
    stored,    \* signatures by key
    storedFor, \* the pipelines of the run that stored them
    published, \* what each pipeline's live table was read from
    \* the run
    pc,
    active,    \* run_sequence
    force_run,
    loading,   \* resource whose loader is running
    listing,   \* names still to be looked at
    infos,     \* files selected so far
    chosen,    \* resources in the cache, as the files they selected
    held,      \* workbooks that are open, by key
    read,      \* what each pipeline has read
    \* auxiliary
    calm,      \* nothing changed since this run began
    quiet      \* nothing changed since the run that stored the state began

files == <<dir, newest, changes>>
store == <<stored, storedFor, published>>
task  == <<active, force_run>>
cache == <<loading, listing, infos, chosen, held>>
vars  == <<layout, files, store, pc, task, cache, read, calm, quiet>>

-----------------------------------------------------------------------------

File(n, v) == [name |-> n, version |-> v]
NoFiles    == [k \in Keys |-> None]
NothingRead == [p \in Pipelines |-> [k \in Keys |-> <<>>]]

Init ==
    /\ layout \in Layouts
    /\ dir = [n \in Names |-> 1] /\ newest = [n \in Names |-> 1] /\ changes = 0
    /\ stored = NoFiles /\ storedFor = {} /\ published = NothingRead
    /\ pc = "idle" /\ active = {} /\ force_run = FALSE
    /\ loading = None /\ listing = <<>> /\ infos = {}
    /\ chosen = NoFiles /\ held = NoFiles
    /\ read = NothingRead
    /\ calm = TRUE /\ quiet = FALSE

Queries == {k \in Keys : layout.kind[k] = "query"}

\* compute_resource_wiring(): the tracked resources that some active pipeline uses.  A
\* binding cannot say that a query is tracked; a task that has one lists its sources.
TrackedKeys(sequence) ==
    IF Queries # {} THEN layout.tracked
    ELSE layout.tracked \cap UNION {layout.uses[p] : p \in sequence}

-----------------------------------------------------------------------------
(* Others write, remove and bring back files.                              *)

Write(n) ==
    /\ newest[n] < MaxVersion
    /\ newest' = [newest EXCEPT ![n] = @ + 1]
    /\ dir' = [dir EXCEPT ![n] = newest'[n]]

Vanish(n) ==
    /\ dir[n] # 0
    /\ dir' = [dir EXCEPT ![n] = 0]
    /\ UNCHANGED newest

Restore(n) ==
    /\ dir[n] = 0
    /\ dir' = [dir EXCEPT ![n] = newest[n]]
    /\ UNCHANGED newest

Change(n) ==
    /\ changes < MaxChanges
    /\ Write(n) \/ Vanish(n) \/ Restore(n)
    /\ changes' = changes + 1
    /\ calm' = FALSE /\ quiet' = FALSE
    /\ UNCHANGED <<layout, store, pc, task, cache, read>>

-----------------------------------------------------------------------------
(* A run begins and ends.                                                  *)

Start(sequence, force) ==
    /\ pc = "idle" /\ sequence # {}
    /\ TrackedKeys(sequence) # {}
    /\ pc' = "track"
    /\ active' = sequence /\ force_run' = force
    /\ calm' = TRUE
    /\ UNCHANGED <<layout, files, store, cache, read, quiet>>

\* task_context.close(), and nothing of the run is kept.
Closes ==
    /\ pc' = "idle"
    /\ active' = {} /\ force_run' = FALSE
    /\ loading' = None /\ listing' = <<>> /\ infos' = {}
    /\ chosen' = NoFiles /\ held' = NoFiles
    /\ read' = NothingRead
    /\ UNCHANGED <<layout, files, calm>>

\* FileNotFoundError, NoMatchingFilesError, CsvReadError: the run fails.
Raises == Closes /\ UNCHANGED <<store, quiet>>

-----------------------------------------------------------------------------
(* get_resource(): the loader selects files, once.                         *)

\* The directory is listed in any order; a fixed path is looked at directly.
Loader(k) ==
    /\ loading = None /\ chosen[k] = None
    /\ loading' = k
    /\ \E order \in IF layout.kind[k] = "fixed" THEN {<<layout.path[k]>>}
                    ELSE SetToSeqs({n \in Names : dir[n] # 0}) :
          listing' = order
    /\ infos' = {}
    /\ UNCHANGED <<layout, files, store, pc, task, chosen, held, read, calm, quiet>>

TrackNext(k) == pc = "track" /\ k \in TrackedKeys(active) \ Queries /\ Loader(k)

\* The rows of a query, which every traversal executes again, each in a snapshot of
\* its own (READ COMMITTED).
get_table(k) == File(layout.path[k], dir[layout.path[k]])

\* _collect_db_query_fingerprint(): one statement, whose only row is the signature.
TrackQuery(k) ==
    /\ pc = "track" /\ k \in Queries
    /\ loading = None /\ chosen[k] = None
    /\ IF get_table(k).version = 0 THEN Raises
       ELSE /\ chosen' = [chosen EXCEPT ![k] = <<get_table(k)>>]
            /\ UNCHANGED <<layout, files, store, pc, task, loading, listing, infos, held,
                           read, calm, quiet>>

\* The pattern of a folder.
Matches(k, n) == layout.kind[k] = "fixed" \/ n \notin layout.filtered

\* Hidden, system and temporary files of a folder are left out.
Passes(k, n) == Matches(k, n) /\ (layout.kind[k] = "fixed" \/ n \notin layout.hidden)

\* A file gone since the listing is passed over locally, and an error over SMB.
SkipsMissing(k) == layout.kind[k] # "fixed" /\ ~layout.remote

Stat ==
    /\ loading # None /\ listing # <<>>
    /\ LET n == Head(listing)
       IN IF dir[n] = 0 /\ Matches(loading, n) /\ ~SkipsMissing(loading)
            THEN Raises
            ELSE /\ listing' = Tail(listing)
                 /\ infos' = IF dir[n] # 0 /\ Passes(loading, n)
                               THEN infos \cup {File(n, dir[n])} ELSE infos
                 /\ UNCHANGED <<layout, files, store, pc, task, loading, chosen, held,
                                read, calm, quiet>>

\* Sorted by relative path.
SortedFiles(selected) ==
    {s \in [1..Cardinality(selected) -> selected] :
        \A i, j \in DOMAIN s : i < j => s[i].name < s[j].name}

\* Mutant: the first of several equally recent files in the listing.
AnyLatest(selected) ==
    {<<f>> : f \in {g \in selected : \A h \in selected : h.version <= g.version}}

\* The greatest pair of modification time and path.
select_latest_file(selected) ==
    {<<f>> : f \in {g \in selected : \A h \in selected :
                      \/ h.version < g.version
                      \/ h.version = g.version /\ h.name <= g.name}}

Selected ==
    /\ loading # None /\ listing = <<>>
    /\ IF infos = {} THEN Raises
       ELSE /\ \E sequence \in IF layout.kind[loading] = "latest"
                                 THEN select_latest_file(infos) ELSE SortedFiles(infos) :
                  chosen' = [chosen EXCEPT ![loading] = sequence]
            /\ loading' = None /\ infos' = {}
            /\ UNCHANGED <<layout, files, store, pc, task, listing, held, read, calm, quiet>>

-----------------------------------------------------------------------------
(* collect_source_fingerprints() and sources_unchanged().                  *)

\* The signature is over the files selected, in their order.
Signature(k) == chosen[k]

Fingerprints == [k \in Keys |-> IF k \in TrackedKeys(active) THEN Signature(k) ELSE None]

\* Same keys and same signatures.
sources_unchanged == stored = Fingerprints

Tracked ==
    /\ pc = "track" /\ loading = None
    /\ \A k \in TrackedKeys(active) : chosen[k] # None
    /\ pc' = "compare"
    /\ UNCHANGED <<layout, files, store, task, cache, read, calm, quiet>>

Compare ==
    /\ pc = "compare"
    /\ IF sources_unchanged /\ ~force_run THEN Raises
       ELSE /\ pc' = "pipelines"
            /\ UNCHANGED <<layout, files, store, task, cache, read, calm, quiet>>

-----------------------------------------------------------------------------
(* The pipelines read what was selected, by path, when they come to it.    *)

ReadAll(p) ==
    \A k \in layout.uses[p] : chosen[k] # None /\ Len(read[p][k]) = Len(chosen[k])

Turn(p) ==
    /\ pc = "pipelines" /\ loading = None
    /\ p \in active /\ ~ReadAll(p)
    /\ \A q \in active : q < p => ReadAll(q)

\* All resources of a pipeline are made before it runs.
Inject(p, k) == Turn(p) /\ k \in layout.uses[p] /\ Loader(k)

Stream(file) == layout.contents[file.name][file.version]

\* Workbooks and queries are no CSV tables; other resources are read as one.
CsvKeys == Keys \ (layout.workbooks \cup Queries)

TableOf(k, sources) ==
    FoldLeft(LAMBDA table, file : AddMember(table, Stream(file), layout.options),
             NoTable, sources)

Wrong(k, sources) ==
    /\ k \in CsvKeys
    /\ LET table == TableOf(k, sources)
       IN table.error # "none" \/ (Len(sources) = Len(chosen[k]) /\ Finished(table).error # "none")

\* Mutant: a member that is gone is passed over.
NextFile(p, k) ==
    LET rest == SelectSeq(SubSeq(chosen[k], Len(read[p][k]) + 1, Len(chosen[k])),
                          LAMBDA f : dir[f.name] # 0)
    IN IF rest = <<>> THEN File(chosen[k][1].name, 0)
       ELSE File(Head(rest).name, dir[Head(rest).name])

\* open_binary() of the next member: what is at its path now.
NextMember(p, k) ==
    LET selected == chosen[k][Len(read[p][k]) + 1]
    IN IF k \in Queries THEN get_table(k) ELSE File(selected.name, dir[selected.name])

ReadMember(p, k) ==
    /\ Turn(p) /\ \A j \in layout.uses[p] : chosen[j] # None
    /\ k \in layout.uses[p] /\ Len(read[p][k]) < Len(chosen[k])
    /\ LET file == IF held[k] # None THEN held[k] ELSE NextMember(p, k)
           sofar == Append(read[p][k], file)
       IN IF file.version = 0 \/ Wrong(k, sofar) THEN Raises
          ELSE /\ read' = [read EXCEPT ![p][k] = sofar]
               /\ held' = IF k \in layout.workbooks /\ layout.kind[k] # "set"
                            THEN [held EXCEPT ![k] = file] ELSE held
               /\ UNCHANGED <<layout, files, store, pc, task, loading, listing, infos,
                              chosen, calm, quiet>>

-----------------------------------------------------------------------------
(* commit(): the tables, and upsert_state() in the same transaction.       *)

\* Mutant: the state is that of the directory when it is stored.
Refreshed ==
    [k \in Keys |-> IF Fingerprints[k] = None THEN None
                    ELSE [i \in DOMAIN chosen[k] |-> File(chosen[k][i].name, newest[chosen[k][i].name])]]

upsert_state == Fingerprints

Publish ==
    /\ pc = "pipelines" /\ loading = None
    /\ \A p \in active : ReadAll(p)
    /\ published' = [p \in Pipelines |-> IF p \in active THEN read[p] ELSE published[p]]
    /\ stored' = upsert_state
    /\ storedFor' = active
    /\ quiet' = calm
    /\ Closes

-----------------------------------------------------------------------------

Next ==
    \/ \E n \in Names : Change(n)
    \/ \E sequence \in SUBSET Pipelines, force \in BOOLEAN : Start(sequence, force)
    \/ \E k \in Keys : TrackNext(k) \/ TrackQuery(k)
    \/ Stat \/ Selected \/ Tracked \/ Compare
    \/ \E p \in Pipelines, k \in Keys : Inject(p, k) \/ ReadMember(p, k)
    \/ Publish

Spec == Init /\ [][Next]_vars

-----------------------------------------------------------------------------
(* Properties.                                                             *)

\* A run that is skipped has nothing to do: the live tables of the pipelines the state
\* was stored for were read from exactly the files that it would read now, however
\* often they changed while that run was selecting and reading them.
SkipIsJustified ==
    pc = "compare" /\ sources_unchanged =>
        \A p \in active \cap storedFor :
            \A k \in layout.uses[p] \cap layout.tracked : published[p][k] = chosen[k]

\* A run of the same resources over a directory nobody touched since the last one
\* began is skipped, in whatever order the directory is listed.
NoSpuriousRun ==
    pc = "compare" /\ quiet /\ calm /\ TrackedKeys(active) = TrackedKeys(storedFor)
      => sources_unchanged

\* Table and fingerprint describe the same files: a member that vanishes after its
\* selection fails the run, it does not make the table shorter.
SameFiles ==
    \A p \in storedFor : \A k \in layout.uses[p] \cap layout.tracked :
        stored[k] # None =>
            /\ Len(published[p][k]) = Len(stored[k])
            /\ \A i \in DOMAIN stored[k] :
                 /\ published[p][k][i].name = stored[k][i].name
                 /\ published[p][k][i].version >= stored[k][i].version

\* A published CSV table is what decisions/0015 says of the members it was read from,
\* and members a pipeline is given are refused only for a reason named there.
TablesAsDescribed ==
    \A p \in Pipelines : \A k \in layout.uses[p] \cap CsvKeys :
        /\ published[p][k] # <<>> =>
             LET streams == [i \in DOMAIN published[p][k] |-> Stream(published[p][k][i])]
             IN Describes(_iter_combined(streams, layout.options), streams, layout.options)
        /\ pc = "pipelines" /\ chosen[k] # None =>
             LET streams == [i \in DOMAIN chosen[k] |-> Stream(chosen[k][i])]
             IN Refused(_iter_combined(streams, layout.options), streams, layout.options)
=============================================================================
