-------------------------- MODULE SourceFilesProofs --------------------------
(***************************************************************************)
(* Successive runs over files that others change, for any number of files, *)
(* versions, changes, resources and pipelines: what a skipped run may      *)
(* rely on, when a run is skipped, and that a table and its stored         *)
(* signature are of the same files.                                        *)
(***************************************************************************)
EXTENDS SourceFiles, FiniteSetTheorems, SequenceTheorems, FunctionTheorems, WellFoundedInduction,
        TLAPS

-----------------------------------------------------------------------------
(* The inductive invariant.                                                *)

FileSeqs == Seq(SelectedFiles)

TypeOK ==
    /\ layout \in Layouts
    /\ dir \in [Names -> Versions \cup {0}] /\ newest \in [Names -> Versions]
    /\ stored \in [Keys -> FileSeqs \cup {None}]
    /\ storedFor \in SUBSET Pipelines
    /\ published \in [Pipelines -> [Keys -> FileSeqs]]
    /\ pc \in {"idle", "track", "compare", "pipelines"}
    /\ active \in SUBSET Pipelines
    /\ loading \in Keys \cup {None}
    /\ listing \in Seq(Names)
    /\ infos \in SUBSET SelectedFiles /\ IsFiniteSet(infos)
    /\ chosen \in [Keys -> FileSeqs \cup {None}]
    /\ held \in [Keys -> SelectedFiles \cup {None}]
    /\ read \in [Pipelines -> [Keys -> FileSeqs]]
    /\ calm \in BOOLEAN /\ quiet \in BOOLEAN

\* Between two runs nothing is kept; from the comparison on, all signatures are there.
Wired ==
    /\ pc = "idle" => loading = None /\ chosen = NoFiles /\ held = NoFiles /\ read = NothingRead
    /\ pc \in {"compare", "pipelines"} => \A k \in TrackedKeys(active) : chosen[k] # None
    /\ loading # None => loading \notin Queries /\ chosen[loading] = None

\* A resource that is no set of files is one file; a fixed path and a query have its name.
OneFile ==
    /\ \A k \in Keys : chosen[k] # None /\ layout.kind[k] # "set" => Len(chosen[k]) = 1
    /\ \A k \in Queries : chosen[k] # None => chosen[k][1].name = layout.path[k]
    /\ loading # None /\ layout.kind[loading] = "fixed" =>
          \/ listing = <<layout.path[loading]>> /\ infos = {}
          \/ listing = <<>> /\ \E v \in Versions : infos \subseteq {File(layout.path[loading], v)}

\* A version that was seen has been written, and the directory has the last one.
Seen(f) == f.version <= newest[f.name]

Written ==
    /\ \A n \in Names : dir[n] \in {0, newest[n]}
    /\ \A f \in infos : Seen(f)
    /\ \A k \in Keys : chosen[k] # None => \A i \in DOMAIN chosen[k] : Seen(chosen[k][i])
    /\ \A k \in Keys : held[k] # None => Seen(held[k])
    /\ \A p \in Pipelines, k \in Keys :
          /\ \A i \in DOMAIN read[p][k] : Seen(read[p][k][i])
          /\ \A i \in DOMAIN published[p][k] : Seen(published[p][k][i])

\* What a run selects is no older than what any live table was read from.
NotOlder(f) ==
    \A p \in Pipelines, k \in Keys : \A i \in DOMAIN published[p][k] :
        published[p][k][i].name = f.name => published[p][k][i].version <= f.version

SelectedLater ==
    /\ \A f \in infos : NotOlder(f)
    /\ \A k \in Keys : chosen[k] # None => \A i \in DOMAIN chosen[k] : NotOlder(chosen[k][i])

\* The pipelines read what was selected, in its order, as it is when they come to it.
SameOrLater(f, g) == f.name = g.name /\ g.version <= f.version

Follows(s, t) == Len(s) <= Len(t) /\ \A i \in DOMAIN s : SameOrLater(s[i], t[i])

ReadAsSelected ==
    /\ \A p \in Pipelines, k \in Keys :
          IF chosen[k] = None THEN read[p][k] = <<>> ELSE Follows(read[p][k], chosen[k])
    /\ \A k \in Keys : held[k] # None =>
          /\ chosen[k] # None /\ Len(chosen[k]) = 1
          /\ SameOrLater(held[k], chosen[k][1])

\* What a resource selects from the directory as it is.
Looks(k, n) == IF layout.kind[k] = "fixed" THEN n = layout.path[k] ELSE Passes(k, n)

There(k) == {File(n, dir[n]) : n \in {m \in Names : dir[m] # 0 /\ Looks(k, m)}}

Selection(k) ==
    IF k \in Queries THEN {<<get_table(k)>>}
    ELSE IF layout.kind[k] = "latest" THEN select_latest_file(There(k))
    ELSE SortedFiles(There(k))

\* As long as nothing changes, the run selects just that, and what is stored is that.
Calmly ==
    calm => \A k \in Keys :
        /\ chosen[k] # None => chosen[k] \in Selection(k)
        /\ loading = k =>
              /\ infos \subseteq There(k)
              /\ \A f \in There(k) :
                    f \in infos \/ \E i \in 1..Len(listing) : listing[i] = f.name

Quietly ==
    quiet => \A k \in Keys :
        IF k \in TrackedKeys(storedFor) THEN stored[k] \in Selection(k) ELSE stored[k] = None

IInv ==
    /\ TypeOK /\ Wired /\ OneFile /\ Written /\ SelectedLater /\ ReadAsSelected /\ SameFiles
    /\ Calmly /\ Quietly

-----------------------------------------------------------------------------
(* The parts of the actions, and facts about the parameters.               *)

\* Loader() of a resource that is no query.
Loads(k) ==
    /\ pc \in {"track", "pipelines"} /\ k \notin Queries
    /\ Loader(k)

\* TrackQuery() that gets its row.
QueryRead(k) ==
    /\ pc = "track" /\ k \in Queries /\ chosen[k] = None
    /\ get_table(k).version # 0
    /\ chosen' = [chosen EXCEPT ![k] = <<get_table(k)>>]
    /\ UNCHANGED <<layout, files, store, pc, task, loading, listing, infos, held, read,
                   calm, quiet>>

\* Stat() that goes on.
Looked ==
    /\ loading # None /\ listing # <<>>
    /\ listing' = Tail(listing)
    /\ infos' = IF dir[Head(listing)] # 0 /\ Passes(loading, Head(listing))
                  THEN infos \cup {File(Head(listing), dir[Head(listing)])} ELSE infos
    /\ UNCHANGED <<layout, files, store, pc, task, loading, chosen, held, read, calm, quiet>>

\* Selected() of some files.
Chose(sequence) ==
    /\ loading # None /\ listing = <<>> /\ infos # {}
    /\ sequence \in IF layout.kind[loading] = "latest"
                      THEN select_latest_file(infos) ELSE SortedFiles(infos)
    /\ chosen' = [chosen EXCEPT ![loading] = sequence]
    /\ loading' = None /\ infos' = {}
    /\ UNCHANGED <<layout, files, store, pc, task, listing, held, read, calm, quiet>>

\* Compare() that does not end the run.
Goes ==
    /\ pc = "compare" /\ pc' = "pipelines"
    /\ UNCHANGED <<layout, files, store, task, cache, read, calm, quiet>>

\* ReadMember() that gets its file.
MemberRead(p, k, file) ==
    /\ pc = "pipelines"
    /\ k \in layout.uses[p] /\ chosen[k] # None /\ Len(read[p][k]) < Len(chosen[k])
    /\ file = IF held[k] # None THEN held[k] ELSE NextMember(p, k)
    /\ read' = [read EXCEPT ![p][k] = Append(read[p][k], file)]
    /\ held' = IF k \in layout.workbooks /\ layout.kind[k] # "set"
                 THEN [held EXCEPT ![k] = file] ELSE held
    /\ UNCHANGED <<layout, files, store, pc, task, loading, listing, infos, chosen, calm,
                   quiet>>

\* What a task declares.
LEMMA LayoutFacts ==
    ASSUME TypeOK
    PROVE  /\ layout.kind \in [Keys -> Kinds] /\ layout.path \in [Keys -> Names]
           /\ layout.tracked \subseteq Keys /\ layout.uses \in [Pipelines -> SUBSET Keys]
           /\ Queries \subseteq layout.tracked /\ None \notin Queries
BY FilesAssumption DEF TypeOK, Queries

\* The listing of a finite directory is a sequence of names, and every file is in it.
LEMMA ListingIsSeq ==
    \A order \in SetToSeqs({n \in Names : dir[n] # 0}) : order \in Seq(Names)
<1>1. IsFiniteSet({n \in Names : dir[n] # 0})
  BY FilesAssumption, FS_Subset
<1>2. Cardinality({n \in Names : dir[n] # 0}) \in Nat
  BY <1>1, FS_CardinalityType
<1>3. QED
  BY <1>2 DEF SetToSeqs

\* Every file that is there is in the listing, in whatever order it comes.
LEMMA ListingHasAll ==
    ASSUME NEW order \in SetToSeqs({n \in Names : dir[n] # 0}), NEW n \in Names, dir[n] # 0
    PROVE  \E i \in 1..Len(order) : order[i] = n
<1> DEFINE S == {m \in Names : dir[m] # 0}
<1>1. IsFiniteSet(S)
  BY FilesAssumption, FS_Subset
<1>2. n \in S
  OBVIOUS
<1> HIDE DEF S
<1>3. Cardinality(S) \in Nat /\ IsFiniteSet(1..Cardinality(S))
        /\ Cardinality(1..Cardinality(S)) = Cardinality(S)
  BY <1>1, FS_CardinalityType, FS_Interval
<1>4. order \in [1..Cardinality(S) -> S]
        /\ \A i, j \in 1..Cardinality(S) : i # j => order[i] # order[j]
  BY DEF SetToSeqs, S
<1>5. order \in Injection(1..Cardinality(S), S)
  BY <1>4, Fun_IsInj
<1>6. order \in Surjection(1..Cardinality(S), S)
  BY <1>1, <1>3, <1>5, FS_Injection
<1>7. Len(order) = Cardinality(S)
  BY <1>3, <1>4
<1>8. QED
  BY <1>2, <1>6, <1>7, Fun_SurjectionProperties

\* A fixed path is its own listing.
LEMMA NewListing ==
    ASSUME NEW k, Loads(k)
    PROVE  IF layout.kind[k] = "fixed" THEN listing' = <<layout.path[k]>>
           ELSE listing' \in SetToSeqs({n \in Names : dir[n] # 0})
<1>1. \E order \in IF layout.kind[k] = "fixed" THEN {<<layout.path[k]>>}
                   ELSE SetToSeqs({n \in Names : dir[n] # 0}) : listing' = order
  BY DEF Loads, Loader
<1>2. QED
  BY <1>1

\* What is selected of some files is a sequence of them.
LEMMA SelectedFrom ==
    ASSUME NEW selected \in SUBSET SelectedFiles, IsFiniteSet(selected),
           NEW s \in select_latest_file(selected) \cup SortedFiles(selected)
    PROVE  s \in FileSeqs /\ \A i \in DOMAIN s : s[i] \in selected
<1>1. CASE s \in select_latest_file(selected)
  <2>1. PICK f \in selected : s = <<f>>
    BY <1>1 DEF select_latest_file
  <2>2. QED
    BY <2>1 DEF FileSeqs
<1>2. CASE s \in SortedFiles(selected)
  <2>1. Cardinality(selected) \in Nat
    BY FS_CardinalityType
  <2>2. s \in [1..Cardinality(selected) -> selected]
    BY <1>2 DEF SortedFiles
  <2>3. QED
    BY <2>1, <2>2 DEF FileSeqs
<1>3. QED
  BY <1>1, <1>2

\* A run begins with nothing, and ends so.
LEMMA NothingIsTyped ==
    /\ NoFiles \in [Keys -> FileSeqs \cup {None}] /\ NoFiles \in [Keys -> SelectedFiles \cup {None}]
    /\ NothingRead \in [Pipelines -> [Keys -> FileSeqs]]
<1>1. <<>> \in FileSeqs
  BY DEF FileSeqs
<1>2. QED
  BY <1>1 DEF NoFiles, NothingRead

\* The next member is the one that was selected, or a later version of it.
LEMMA MemberFollows ==
    ASSUME TypeOK, OneFile, Written, ReadAsSelected, NEW p \in Pipelines, NEW k \in Keys,
           k \in layout.uses[p], chosen[k] # None, Len(read[p][k]) < Len(chosen[k]),
           NEW file, file = IF held[k] # None THEN held[k] ELSE NextMember(p, k),
           file.version # 0
    PROVE  /\ file \in SelectedFiles /\ chosen[k] \in FileSeqs
           /\ Seen(file)
           /\ SameOrLater(file, chosen[k][Len(read[p][k]) + 1])
<1> DEFINE i == Len(read[p][k]) + 1
<1>1. chosen[k] \in FileSeqs /\ i \in DOMAIN chosen[k]
  BY DEF TypeOK, FileSeqs
<1>2. chosen[k][i] \in SelectedFiles /\ Seen(chosen[k][i])
  BY <1>1 DEF Written, FileSeqs
<1>3. CASE held[k] # None
  <2>1. Len(chosen[k]) = 1 /\ SameOrLater(held[k], chosen[k][1]) /\ Seen(held[k])
    BY <1>3 DEF ReadAsSelected, Written
  <2>2. i = 1
    BY <1>1, <2>1 DEF FileSeqs
  <2>3. QED
    BY <1>1, <1>3, <2>1, <2>2 DEF TypeOK
<1>4. CASE held[k] = None
  <2>1. file = File(chosen[k][i].name, dir[chosen[k][i].name])
    <3>1. CASE k \in Queries
      <4>1. Len(chosen[k]) = 1 /\ chosen[k][1].name = layout.path[k]
        BY <3>1 DEF OneFile, Queries
      <4>2. i = 1
        BY <1>1, <4>1 DEF FileSeqs
      <4>3. QED
        BY <1>4, <3>1, <4>1, <4>2 DEF NextMember, get_table
    <3>2. CASE k \notin Queries
      BY <1>4, <3>2 DEF NextMember
    <3>3. QED
      BY <3>1, <3>2
  <2>2. PICK m \in Names : chosen[k][i].name = m
    BY <1>2 DEF SelectedFiles
  <2>3. file = [name |-> m, version |-> dir[m]]
    BY ONLY <2>1, <2>2 DEF File
  <2>4. file.name = m /\ file.version = dir[m]
    BY ONLY <2>3
  <2>5. dir[m] = newest[m] /\ newest[m] \in Versions
    BY <2>4 DEF Written, TypeOK
  <2>6. file \in SelectedFiles
    BY ONLY <2>3, <2>5 DEF SelectedFiles
  <2>7. chosen[k][i].version <= newest[m]
    BY ONLY <1>2, <2>2 DEF Seen
  <2>8. newest[m] <= newest[m]
    BY ONLY <2>5, FilesAssumption DEF Versions
  <2>9. QED
    BY ONLY <1>1, <2>2, <2>4, <2>5, <2>6, <2>7, <2>8 DEF Seen, SameOrLater
<1>5. QED
  BY <1>3, <1>4

\* What is in the directory is no older than what was published.
LEMMA NewestNotOlder ==
    ASSUME TypeOK, Written, NEW n \in Names, dir[n] # 0
    PROVE  NotOlder(File(n, dir[n]))
BY DEF TypeOK, Written, NotOlder, Seen, File

\* What is in the directory has been written.
LEMMA NewestSeen ==
    ASSUME TypeOK, Written, NEW n \in Names, dir[n] # 0
    PROVE  Seen(File(n, dir[n]))
BY DEF TypeOK, Written, Seen, File, Versions

\* The row of a query is a version that its table has.
LEMMA QueryRow ==
    ASSUME TypeOK, NEW k \in Queries, get_table(k).version # 0
    PROVE  /\ \E n \in Names : dir[n] # 0 /\ get_table(k) = File(n, dir[n])
           /\ get_table(k) \in SelectedFiles /\ <<get_table(k)>> \in FileSeqs
<1>1. layout.path[k] \in Names /\ k \in Keys
  BY LayoutFacts DEF Queries
<1>2. get_table(k) = File(layout.path[k], dir[layout.path[k]]) /\ dir[layout.path[k]] # 0
  BY DEF get_table, File
<1>3. get_table(k) \in SelectedFiles
  BY <1>1, <1>2 DEF TypeOK, File, SelectedFiles
<1>4. QED
  BY <1>1, <1>2, <1>3 DEF FileSeqs

\* Selection depends on the directory only, and the tracked keys on the task.
LEMMA SameSelection ==
    ASSUME UNCHANGED <<layout, dir>>, NEW k \in Keys
    PROVE  There(k)' = There(k) /\ Selection(k)' = Selection(k)
<1>1. There(k)' = There(k)
  BY DEF There, Looks, Passes, Matches
<1>2. QED
  BY <1>1 DEF Selection, select_latest_file, SortedFiles, Queries, get_table

\* So do the keys of the stored state.
LEMMA SameTracked ==
    ASSUME UNCHANGED <<layout, storedFor>>
    PROVE  TrackedKeys(storedFor)' = TrackedKeys(storedFor)
BY DEF TrackedKeys, Queries

-----------------------------------------------------------------------------
(* Every step is a step of one of the parts.                               *)

Step ==
    \/ \E n \in Names : Change(n)
    \/ \E sequence \in SUBSET Pipelines, force \in BOOLEAN : Start(sequence, force)
    \/ \E k \in Keys : Loads(k) \/ QueryRead(k)
    \/ Looked
    \/ \E sequence \in FileSeqs : Chose(sequence)
    \/ Tracked \/ Goes
    \/ \E p \in Pipelines, k \in Keys, file \in SelectedFiles : MemberRead(p, k, file)
    \/ Raises \/ Publish
    \/ UNCHANGED vars

\* The guards of the actions, with the invariant, leave these parts.
LEMMA Moves ==
    ASSUME TypeOK, Wired, OneFile, Written, ReadAsSelected, [Next]_vars
    PROVE  Step
<1> USE DEF Step
<1>1. CASE Stat
  BY <1>1 DEF Stat, Looked
<1>2. CASE Selected
  <2>1. CASE Raises
    BY <2>1
  <2>2. CASE ~Raises
    <3>1. PICK sequence : Chose(sequence)
      BY <1>2, <2>2 DEF Selected, Chose
    <3>2. sequence \in FileSeqs
      BY <3>1, SelectedFrom DEF Chose, TypeOK
    <3>3. QED
      BY <3>1, <3>2
  <2>3. QED
    BY <2>1, <2>2
<1>3. CASE Compare
  BY <1>3 DEF Compare, Goes
<1>4. ASSUME NEW k \in Keys, TrackNext(k) \/ TrackQuery(k)
      PROVE  Loads(k) \/ QueryRead(k) \/ Raises
  BY <1>4 DEF TrackNext, TrackQuery, Loads, QueryRead
<1>5. ASSUME NEW p \in Pipelines, NEW k \in Keys, Inject(p, k) PROVE Loads(k)
  <2>1. pc = "pipelines" /\ chosen[k] = None /\ Loader(k)
    BY <1>5 DEF Inject, Turn, Loader
  <2>2. k \in Queries => k \in TrackedKeys(active)
    BY LayoutFacts DEF TrackedKeys
  <2>3. QED
    BY <2>1, <2>2 DEF Loads, Wired
<1>6. ASSUME NEW p \in Pipelines, NEW k \in Keys, ReadMember(p, k), ~Raises
      PROVE  \E file \in SelectedFiles : MemberRead(p, k, file)
  <2> DEFINE file == IF held[k] # None THEN held[k] ELSE NextMember(p, k)
  <2>1. /\ pc = "pipelines" /\ k \in layout.uses[p] /\ chosen[k] # None
        /\ Len(read[p][k]) < Len(chosen[k])
    BY <1>6 DEF ReadMember, Turn
  <2>2. file.version # 0
    BY <1>6 DEF ReadMember
  <2>3. file \in SelectedFiles
    BY <2>1, <2>2, MemberFollows
  <2>4. MemberRead(p, k, file)
    BY <1>6, <2>1 DEF ReadMember, MemberRead
  <2>5. QED
    BY <2>3, <2>4
<1>7. QED
  BY <1>1, <1>2, <1>3, <1>4, <1>5, <1>6 DEF Next

\* Every step keeps the types.
LEMMA TypeStep == TypeOK /\ Wired /\ OneFile /\ Step => TypeOK'
<1> SUFFICES ASSUME TypeOK, Wired, OneFile, Step PROVE TypeOK'
  OBVIOUS
<1> USE FilesAssumption DEF vars, files, store, task, cache, TypeOK
<1>1. ASSUME NEW n \in Names, Change(n) PROVE TypeOK'
  <2>1. newest' \in [Names -> Versions]
    BY <1>1 DEF Change, Write, Vanish, Restore, Versions
  <2>2. dir' \in [Names -> Versions \cup {0}]
    <3>1. CASE Write(n)
      BY <2>1, <3>1 DEF Write
    <3>2. CASE Vanish(n) \/ Restore(n)
      BY <3>2 DEF Vanish, Restore
    <3>3. QED
      BY <1>1, <3>1, <3>2 DEF Change
  <2>3. QED
    BY <1>1, <2>1, <2>2 DEF Change
<1>2. ASSUME NEW sequence \in SUBSET Pipelines, NEW force \in BOOLEAN, Start(sequence, force)
      PROVE  TypeOK'
  BY <1>2 DEF Start
<1>3. ASSUME NEW k \in Keys, Loads(k) PROVE TypeOK'
  <2>1. listing' \in Seq(Names)
    <3>1. CASE layout.kind[k] = "fixed"
      <4>1. listing' = <<layout.path[k]>> /\ layout.path[k] \in Names
        BY <1>3, <3>1, NewListing, LayoutFacts
      <4>2. QED
        BY <4>1
    <3>2. CASE layout.kind[k] # "fixed"
      BY <1>3, <3>2, NewListing, ListingIsSeq
    <3>3. QED
      BY <3>1, <3>2
  <2>2. QED
    BY <1>3, <2>1, FS_EmptySet DEF Loads, Loader
<1>4. ASSUME NEW k \in Keys, QueryRead(k) PROVE TypeOK'
  <2>2. <<get_table(k)>> \in FileSeqs
    BY <1>4, QueryRow DEF QueryRead
  <2>3. QED
    BY <1>4, <2>2 DEF QueryRead
<1>5. CASE Looked
  <2>1. Head(listing) \in Names /\ Tail(listing) \in Seq(Names)
    BY <1>5 DEF Looked
  <2>2. dir[Head(listing)] # 0 => File(Head(listing), dir[Head(listing)]) \in SelectedFiles
    BY <2>1 DEF File, SelectedFiles
  <2>3. infos' \in SUBSET SelectedFiles /\ IsFiniteSet(infos')
    <3>1. IsFiniteSet(infos \cup {File(Head(listing), dir[Head(listing)])})
      BY FS_AddElement
    <3>2. \/ infos' = infos
          \/ /\ dir[Head(listing)] # 0
             /\ infos' = infos \cup {File(Head(listing), dir[Head(listing)])}
      BY <1>5 DEF Looked
    <3>3. QED
      BY <2>2, <3>1, <3>2
  <2>4. QED
    BY <1>5, <2>1, <2>3 DEF Looked
<1>6. ASSUME NEW sequence \in FileSeqs, Chose(sequence) PROVE TypeOK'
  BY <1>6, FS_EmptySet DEF Chose
<1>7. CASE Tracked  BY <1>7 DEF Tracked
<1>8. CASE Goes  BY <1>8 DEF Goes
<1>9. ASSUME NEW p \in Pipelines, NEW k \in Keys, NEW file \in SelectedFiles, MemberRead(p, k, file)
      PROVE  TypeOK'
  <2>1. Append(read[p][k], file) \in FileSeqs
    <3>1. read[p][k] \in FileSeqs
      OBVIOUS
    <3>2. QED
      BY ONLY <3>1, file \in SelectedFiles, AppendProperties DEF FileSeqs
  <2>2. read' \in [Pipelines -> [Keys -> FileSeqs]]
    BY <1>9, <2>1 DEF MemberRead
  <2>3. held' \in [Keys -> SelectedFiles \cup {None}]
    BY <1>9 DEF MemberRead
  <2>4. QED
    BY <1>9, <2>2, <2>3 DEF MemberRead
<1>10. CASE Raises
  BY <1>10, NothingIsTyped, FS_EmptySet DEF Raises, Closes
<1>11. CASE Publish
  <2>1. stored' \in [Keys -> FileSeqs \cup {None}]
    BY <1>11 DEF Publish, upsert_state, Fingerprints, Signature
  <2>2. published' \in [Pipelines -> [Keys -> FileSeqs]]
    BY <1>11 DEF Publish
  <2>3. QED
    BY <1>11, <2>1, <2>2, NothingIsTyped, FS_EmptySet DEF Publish, Closes
<1>12. CASE UNCHANGED vars
  BY <1>12
<1> HIDE DEF vars, files, store, task, cache, TypeOK
<1>13. QED
  BY <1>1, <1>2, <1>3, <1>4, <1>5, <1>6, <1>7, <1>8, <1>9, <1>10, <1>11, <1>12 DEF Step

\* A run starts and ends with nothing; it goes on to compare when all is tracked.
LEMMA WiredStep == TypeOK /\ Wired /\ Step => Wired'
<1> SUFFICES ASSUME TypeOK, Wired, Step PROVE Wired'
  OBVIOUS
<1> USE FilesAssumption DEF vars, files, store, task, cache, Queries, TrackedKeys,
        TypeOK, Wired
<1>1. ASSUME NEW n \in Names, Change(n) PROVE Wired'
  BY <1>1 DEF Change, TrackedKeys, Queries
<1>2. ASSUME NEW sequence \in SUBSET Pipelines, NEW force \in BOOLEAN, Start(sequence, force)
      PROVE  Wired'
  BY <1>2 DEF Start, TrackedKeys, Queries
<1>3. ASSUME NEW k \in Keys, Loads(k) PROVE Wired'
  BY <1>3 DEF Loads, Loader, TrackedKeys, Queries
<1>4. ASSUME NEW k \in Keys, QueryRead(k) PROVE Wired'
  <2>1. \A j \in Keys : chosen[j] # None => chosen'[j] # None
    BY <1>4 DEF QueryRead
  <2>2. TrackedKeys(active)' = TrackedKeys(active) /\ Queries' = Queries
    BY <1>4 DEF QueryRead, TrackedKeys, Queries
  <2>3. loading # None => loading # k
    BY <1>4 DEF QueryRead
  <2>4. /\ UNCHANGED <<pc, loading>> /\ pc = "track"
        /\ \A j \in Keys : j # k => chosen'[j] = chosen[j]
    BY <1>4 DEF QueryRead
  <2>5. loading # None => loading \notin Queries' /\ chosen'[loading] = None
    BY <2>2, <2>3, <2>4
  <2>6. QED
    BY <2>4, <2>5
<1>5. CASE Looked
  <2>1. UNCHANGED <<layout, pc, active, loading, chosen, held, read>> /\ pc # "idle"
    BY <1>5 DEF Looked
  <2>2. TrackedKeys(active)' = TrackedKeys(active) /\ Queries' = Queries
    BY <2>1 DEF TrackedKeys, Queries
  <2>3. QED
    BY <2>1, <2>2
<1>6. ASSUME NEW sequence \in FileSeqs, Chose(sequence) PROVE Wired'
  <2>1. \A j \in Keys : chosen[j] # None => chosen'[j] # None
    BY <1>6 DEF Chose, FileSeqs
  <2>2. TrackedKeys(active)' = TrackedKeys(active)
    BY <1>6 DEF Chose, TrackedKeys, Queries
  <2>3. QED
    BY <1>6, <2>1, <2>2, LayoutFacts DEF Chose
<1>7. CASE Tracked
  BY <1>7 DEF Tracked, TrackedKeys, Queries
<1>8. CASE Goes
  BY <1>8 DEF Goes, TrackedKeys, Queries
<1>9. ASSUME NEW p \in Pipelines, NEW k \in Keys, NEW file \in SelectedFiles, MemberRead(p, k, file)
      PROVE  Wired'
  <2>1. UNCHANGED <<layout, pc, active, loading, chosen>> /\ pc = "pipelines"
    BY <1>9 DEF MemberRead
  <2>2. TrackedKeys(active)' = TrackedKeys(active) /\ Queries' = Queries
    BY <2>1 DEF TrackedKeys, Queries
  <2>3. QED
    BY <2>1, <2>2
<1>10. CASE Raises
  BY <1>10 DEF Raises, Closes
<1>11. CASE Publish
  BY <1>11 DEF Publish, Closes
<1>12. CASE UNCHANGED vars
  BY <1>12
<1> HIDE DEF vars, files, store, task, cache, TypeOK, Wired
<1>13. QED
  BY <1>1, <1>2, <1>3, <1>4, <1>5, <1>6, <1>7, <1>8, <1>9, <1>10, <1>11, <1>12 DEF Step

\* What is selected for a resource that is no set is one file.
LEMMA OneFileStep == TypeOK /\ Wired /\ OneFile /\ Step => OneFile'
<1> SUFFICES ASSUME TypeOK, Wired, OneFile, Step PROVE OneFile'
  OBVIOUS
<1> USE FilesAssumption DEF vars, files, store, task, cache, Queries, get_table,
        select_latest_file, SortedFiles, TypeOK, OneFile
<1>1. ASSUME NEW n \in Names, Change(n) PROVE OneFile'
  BY <1>1 DEF Change, Queries
<1>2. ASSUME NEW sequence \in SUBSET Pipelines, NEW force \in BOOLEAN, Start(sequence, force)
      PROVE  OneFile'
  BY <1>2 DEF Start, Queries
<1>3. ASSUME NEW k \in Keys, Loads(k) PROVE OneFile'
  BY <1>3 DEF Loads, Loader, Queries
<1>4. ASSUME NEW k \in Keys, QueryRead(k) PROVE OneFile'
  <2>1. chosen' = [chosen EXCEPT ![k] = <<get_table(k)>>]
    BY <1>4 DEF QueryRead
  <2>2. Len(<<get_table(k)>>) = 1 /\ <<get_table(k)>>[1].name = layout.path[k]
    BY DEF get_table, File
  <2>3. UNCHANGED <<layout, loading, listing, infos>>
    BY <1>4 DEF QueryRead
  <2>4. QED
    BY <2>1, <2>2, <2>3 DEF Queries
<1>5. CASE Looked
  <2>1. UNCHANGED <<layout, loading, chosen>>
    BY <1>5 DEF Looked
  <2>2. ASSUME layout.kind[loading] = "fixed"
        PROVE  listing' = <<>> /\ \E v \in Versions : infos' \subseteq {File(layout.path[loading], v)}
    <3>1. loading \in Keys /\ listing = <<layout.path[loading]>> /\ infos = {}
      BY <1>5, <2>2 DEF Looked
    <3>2. Head(listing) = layout.path[loading] /\ Tail(listing) = <<>>
      BY <3>1
    <3>3. layout.path[loading] \in Names
      BY <3>1, LayoutFacts
    <3>4. CASE dir[layout.path[loading]] = 0
      <4>1. infos' = {} /\ 1 \in Versions
        BY <1>5, <3>1, <3>2, <3>4 DEF Looked, Versions
      <4>2. QED
        BY <1>5, <3>2, <4>1 DEF Looked
    <3>5. CASE dir[layout.path[loading]] # 0
      BY <1>5, <3>1, <3>2, <3>3, <3>5 DEF Looked
    <3>6. QED
      BY <3>4, <3>5
  <2>3. QED
    BY <2>1, <2>2 DEF Queries
<1>6. ASSUME NEW sequence \in FileSeqs, Chose(sequence) PROVE OneFile'
  <2>1. chosen' = [chosen EXCEPT ![loading] = sequence] /\ loading \in Keys /\ loading \notin Queries
    BY <1>6 DEF Chose, Wired
  <2>2. loading' = None /\ UNCHANGED layout
    BY <1>6 DEF Chose
  <2>3. ASSUME layout.kind[loading] # "set" PROVE Len(sequence) = 1
    <3>1. CASE layout.kind[loading] = "latest"
      BY <1>6, <3>1 DEF Chose, select_latest_file
    <3>2. CASE layout.kind[loading] = "fixed"
      <4>1. PICK v \in Versions : infos \subseteq {File(layout.path[loading], v)}
        BY <1>6, <3>2 DEF Chose
      <4>2. infos = {File(layout.path[loading], v)}
        BY <1>6, <4>1 DEF Chose
      <4>3. Cardinality(infos) = 1
        BY <4>2, FS_Singleton
      <4>4. sequence \in [1..1 -> infos]
        BY <1>6, <3>2, <4>3 DEF Chose, SortedFiles
      <4>5. QED
        BY <4>4
    <3>3. layout.kind[loading] \in Kinds \ {"query"}
      BY <2>1, LayoutFacts DEF Queries
    <3>4. QED
      BY <2>3, <3>1, <3>2, <3>3 DEF Kinds
  <2>4. QED
    BY <2>1, <2>2, <2>3 DEF Queries
<1>7. CASE Tracked
  BY <1>7 DEF Tracked, Queries
<1>8. CASE Goes
  BY <1>8 DEF Goes, Queries
<1>9. ASSUME NEW p \in Pipelines, NEW k \in Keys, NEW file \in SelectedFiles, MemberRead(p, k, file)
      PROVE  OneFile'
  BY <1>9 DEF MemberRead, Queries
<1>10. CASE Raises
  BY <1>10 DEF Raises, Closes, NoFiles, Queries
<1>11. CASE Publish
  BY <1>11 DEF Publish, Closes, NoFiles, Queries
<1>12. CASE UNCHANGED vars
  BY <1>12
<1> HIDE DEF vars, files, store, task, cache, TypeOK, OneFile
<1>13. QED
  BY <1>1, <1>2, <1>3, <1>4, <1>5, <1>6, <1>7, <1>8, <1>9, <1>10, <1>11, <1>12 DEF Step

\* Versions are only written on, and every version that is taken is the last one.
LEMMA WrittenStep ==
    TypeOK /\ Wired /\ OneFile /\ ReadAsSelected /\ Written /\ Step => Written'
<1> SUFFICES ASSUME TypeOK, Wired, OneFile, ReadAsSelected, Written, Step PROVE Written'
  OBVIOUS
<1> USE FilesAssumption DEF vars, files, store, task, cache, Seen, TypeOK, Written
<1>1. ASSUME NEW n \in Names, Change(n) PROVE Written'
  <2>1. \A m \in Names : newest[m] \in Nat /\ newest'[m] \in Nat /\ newest[m] <= newest'[m]
    BY <1>1 DEF Change, Write, Vanish, Restore, Versions
  <2>2. \A m \in Names : dir'[m] \in {0, newest'[m]}
    <3>1. /\ dir \in [Names -> Versions \cup {0}] /\ newest \in [Names -> Versions]
          /\ \A m \in Names : dir[m] \in {0, newest[m]}
      OBVIOUS
    <3>2. CASE Write(n)
      BY ONLY <3>1, <3>2 DEF Write
    <3>3. CASE Vanish(n)
      BY ONLY <3>1, <3>3 DEF Vanish
    <3>4. CASE Restore(n)
      BY ONLY <3>1, <3>4 DEF Restore
    <3>5. QED
      BY <1>1, <3>2, <3>3, <3>4 DEF Change
  <2>3. ASSUME NEW f \in SelectedFiles, Seen(f) PROVE f.version <= newest'[f.name]
    <3>1. f.name \in Names /\ f.version \in Nat
      BY DEF SelectedFiles, Versions
    <3>2. /\ newest[f.name] \in Nat /\ newest'[f.name] \in Nat
          /\ newest[f.name] <= newest'[f.name]
      BY ONLY <2>1, <3>1
    <3>3. f.version <= newest[f.name]
      BY ONLY <2>3 DEF Seen
    <3>4. QED
      BY ONLY <3>1, <3>2, <3>3
  <2>4. UNCHANGED <<infos, chosen, held, read, published>>
    BY <1>1 DEF Change
  <2>5. \A q \in Pipelines, k \in Keys :
          /\ \A i \in DOMAIN read[q][k] : read[q][k][i] \in SelectedFiles
          /\ \A i \in DOMAIN published[q][k] : published[q][k][i] \in SelectedFiles
    <3>1. \A q \in Pipelines, k \in Keys : read[q][k] \in FileSeqs /\ published[q][k] \in FileSeqs
      OBVIOUS
    <3>2. QED
      BY ONLY <3>1 DEF FileSeqs
  <2>6. \A k \in Keys : chosen[k] # None => \A i \in DOMAIN chosen[k] : chosen[k][i] \in SelectedFiles
    BY DEF FileSeqs
  <2>7. \A k \in Keys : held[k] # None => held[k] \in SelectedFiles
    OBVIOUS
  <2>8. infos \subseteq SelectedFiles
    OBVIOUS
  <2> DEFINE Later(f) == f.version <= newest'[f.name]
  <2>9. \A f \in SelectedFiles : Seen(f) => Later(f)
    BY <2>3
  <2>10. /\ \A f \in infos : Later(f)
         /\ \A k \in Keys : chosen[k] # None => \A i \in DOMAIN chosen[k] : Later(chosen[k][i])
         /\ \A k \in Keys : held[k] # None => Later(held[k])
         /\ \A q \in Pipelines, k \in Keys :
              /\ \A i \in DOMAIN read[q][k] : Later(read[q][k][i])
              /\ \A i \in DOMAIN published[q][k] : Later(published[q][k][i])
    <3> HIDE DEF Later, TypeOK
    <3> QED
      BY <2>5, <2>6, <2>7, <2>8, <2>9
  <2>11. QED
    BY <2>2, <2>4, <2>10 DEF Seen
<1>2. ASSUME NEW sequence \in SUBSET Pipelines, NEW force \in BOOLEAN, Start(sequence, force)
      PROVE  Written'
  BY <1>2 DEF Start, Seen
<1>3. ASSUME NEW k \in Keys, Loads(k) PROVE Written'
  BY <1>3 DEF Loads, Loader, Seen
<1>4. ASSUME NEW k \in Keys, QueryRead(k) PROVE Written'
  <2>1. Seen(get_table(k))
    <3>1. k \in Queries /\ get_table(k).version # 0
      BY <1>4 DEF QueryRead
    <3>2. PICK n \in Names : dir[n] # 0 /\ get_table(k) = File(n, dir[n])
      BY <3>1, QueryRow
    <3>3. Seen(File(n, dir[n]))
      BY <3>2, NewestSeen
    <3>4. QED
      BY <3>2, <3>3
  <2>2. chosen' = [chosen EXCEPT ![k] = <<get_table(k)>>]
    BY <1>4 DEF QueryRead
  <2>3. UNCHANGED <<dir, newest, infos, held, read, published>>
    BY <1>4 DEF QueryRead
  <2>4. QED
    BY <2>1, <2>2, <2>3 DEF Seen
<1>5. CASE Looked
  <2>1. Head(listing) \in Names
    BY <1>5 DEF Looked
  <2>2. \A f \in infos' : Seen(f)
    BY <1>5, <2>1, NewestSeen DEF Looked
  <2>3. UNCHANGED <<dir, newest, chosen, held, read, published>>
    BY <1>5 DEF Looked
  <2>4. QED
    BY <2>2, <2>3 DEF Seen
<1>6. ASSUME NEW sequence \in FileSeqs, Chose(sequence) PROVE Written'
  <2>1. \A i \in DOMAIN sequence : sequence[i] \in infos
    BY <1>6, SelectedFrom DEF Chose
  <2>2. chosen' = [chosen EXCEPT ![loading] = sequence] /\ infos' = {}
    BY <1>6 DEF Chose
  <2>3. UNCHANGED <<dir, newest, held, read, published>>
    BY <1>6 DEF Chose
  <2>4. QED
    BY <2>1, <2>2, <2>3 DEF Seen
<1>7. CASE Tracked
  BY <1>7 DEF Tracked, Seen
<1>8. CASE Goes
  BY <1>8 DEF Goes, Seen
<1>9. ASSUME NEW p \in Pipelines, NEW k \in Keys, NEW file \in SelectedFiles, MemberRead(p, k, file)
      PROVE  Written'
  <2>1. Seen(file)
    <3>1. file.version # 0
      BY DEF SelectedFiles, Versions
    <3>2. QED
      BY <1>9, <3>1, MemberFollows DEF MemberRead
  <2>2. \A q \in Pipelines, j \in Keys : \A i \in DOMAIN read'[q][j] : Seen(read'[q][j][i])
    <3>1. \A i \in DOMAIN Append(read[p][k], file) : Seen(Append(read[p][k], file)[i])
      BY <2>1 DEF FileSeqs
    <3>2. \A q \in Pipelines, j \in Keys :
            read'[q][j] = IF q = p /\ j = k THEN Append(read[p][k], file) ELSE read[q][j]
      BY <1>9 DEF MemberRead
    <3>3. \A q \in Pipelines, j \in Keys : \A i \in DOMAIN read[q][j] : Seen(read[q][j][i])
      OBVIOUS
    <3>4. ASSUME NEW q \in Pipelines, NEW j \in Keys
          PROVE  \A i \in DOMAIN read'[q][j] : Seen(read'[q][j][i])
      <4>1. CASE q = p /\ j = k
        <5>1. read'[q][j] = Append(read[p][k], file)
          BY <3>2, <4>1
        <5>2. QED
          BY ONLY <3>1, <5>1
      <4>2. CASE ~(q = p /\ j = k)
        <5>1. read'[q][j] = read[q][j]
          BY <3>2, <4>2
        <5>2. QED
          BY ONLY <3>3, <5>1
      <4>3. QED
        BY <4>1, <4>2
    <3>5. QED
      BY <3>4
  <2>3. \A j \in Keys : held'[j] # None => Seen(held'[j])
    BY <1>9, <2>1 DEF MemberRead
  <2>4. UNCHANGED <<dir, newest, infos, chosen, published>>
    BY <1>9 DEF MemberRead
  <2>5. QED
    BY <2>2, <2>3, <2>4 DEF Seen
<1>10. CASE Raises
  BY <1>10 DEF Raises, Closes, NoFiles, NothingRead, Seen
<1>11. CASE Publish
  <2>1. \A q \in Pipelines, j \in Keys : \A i \in DOMAIN published'[q][j] : Seen(published'[q][j][i])
    BY <1>11 DEF Publish
  <2>2. QED
    BY <1>11, <2>1 DEF Publish, Closes, NoFiles, NothingRead, Seen
<1>12. CASE UNCHANGED vars
  BY <1>12
<1> HIDE DEF vars, files, store, task, cache, TypeOK, Written
<1>13. QED
  BY <1>1, <1>2, <1>3, <1>4, <1>5, <1>6, <1>7, <1>8, <1>9, <1>10, <1>11, <1>12 DEF Step

\* What is selected is the last version, and what is published was a last version before.
LEMMA SelectedLaterStep == TypeOK /\ Written /\ SelectedLater /\ Step => SelectedLater'
<1> SUFFICES ASSUME TypeOK, Written, SelectedLater, Step PROVE SelectedLater'
  OBVIOUS
<1> USE FilesAssumption DEF vars, files, store, task, cache, NotOlder, TypeOK,
        SelectedLater
<1>1. ASSUME NEW n \in Names, Change(n) PROVE SelectedLater'
  BY <1>1 DEF Change, NotOlder
<1>2. ASSUME NEW sequence \in SUBSET Pipelines, NEW force \in BOOLEAN, Start(sequence, force)
      PROVE  SelectedLater'
  BY <1>2 DEF Start, NotOlder
<1>3. ASSUME NEW k \in Keys, Loads(k) PROVE SelectedLater'
  BY <1>3 DEF Loads, Loader, NotOlder
<1>4. ASSUME NEW k \in Keys, QueryRead(k) PROVE SelectedLater'
  <2>1. NotOlder(get_table(k))
    <3>1. k \in Queries /\ get_table(k).version # 0
      BY <1>4 DEF QueryRead
    <3>2. PICK n \in Names : dir[n] # 0 /\ get_table(k) = File(n, dir[n])
      BY <3>1, QueryRow
    <3>3. QED
      BY <3>2, NewestNotOlder
  <2>2. chosen' = [chosen EXCEPT ![k] = <<get_table(k)>>]
    BY <1>4 DEF QueryRead
  <2>3. UNCHANGED <<infos, published>>
    BY <1>4 DEF QueryRead
  <2>4. chosen \in [Keys -> FileSeqs \cup {None}]
    OBVIOUS
  <2>5. \A f : NotOlder(f)' <=> NotOlder(f)
    BY ONLY <2>3 DEF NotOlder
  <2> DEFINE row == <<get_table(k)>>
  <2>6. DOMAIN row = {1} /\ row[1] = get_table(k)
    OBVIOUS
  <2>7. ASSUME NEW j \in Keys, chosen'[j] # None, NEW i \in DOMAIN chosen'[j]
        PROVE  NotOlder(chosen'[j][i])
    <3> HIDE DEF row
    <3>1. CASE j = k
      <4>1. chosen'[j] = row
        BY ONLY <2>2, <2>4, <3>1, k \in Keys DEF row
      <4>2. QED
        BY ONLY <2>1, <2>6, <2>7, <4>1
    <3>2. CASE j # k
      <4>1. chosen'[j] = chosen[j]
        BY ONLY <2>2, <2>4, <3>2, j \in Keys
      <4>2. QED
        BY <2>7, <4>1
    <3>3. QED
      BY <3>1, <3>2
  <2>8. \A f \in infos' : NotOlder(f)
    BY <2>3
  <2> HIDE DEF NotOlder, row
  <2>9. QED
    BY ONLY <2>5, <2>7, <2>8 DEF SelectedLater
<1>5. CASE Looked
  <2>1. Head(listing) \in Names
    <3>1. listing \in Seq(Names) /\ listing # <<>>
      BY <1>5 DEF Looked
    <3>2. QED
      BY ONLY <3>1, HeadTailProperties
  <2>2. \A f \in infos' : NotOlder(f)
    BY <1>5, <2>1, NewestNotOlder DEF Looked
  <2>3. UNCHANGED <<chosen, published>>
    BY <1>5 DEF Looked
  <2>4. QED
    BY <2>2, <2>3 DEF NotOlder
<1>6. ASSUME NEW sequence \in FileSeqs, Chose(sequence) PROVE SelectedLater'
  <2>1. \A i \in DOMAIN sequence : sequence[i] \in infos
    BY <1>6, SelectedFrom DEF Chose
  <2>2. chosen' = [chosen EXCEPT ![loading] = sequence] /\ infos' = {}
    BY <1>6 DEF Chose
  <2>3. UNCHANGED published
    BY <1>6 DEF Chose
  <2>4. QED
    BY <2>1, <2>2, <2>3 DEF NotOlder
<1>7. CASE Tracked
  BY <1>7 DEF Tracked, NotOlder
<1>8. CASE Goes
  BY <1>8 DEF Goes, NotOlder
<1>9. ASSUME NEW p \in Pipelines, NEW k \in Keys, NEW file \in SelectedFiles, MemberRead(p, k, file)
      PROVE  SelectedLater'
  BY <1>9 DEF MemberRead, NotOlder
<1>10. CASE Raises
  BY <1>10 DEF Raises, Closes, NoFiles
<1>11. CASE Publish
  BY <1>11 DEF Publish, Closes, NoFiles
<1>12. CASE UNCHANGED vars
  BY <1>12
<1> HIDE DEF vars, files, store, task, cache, TypeOK, SelectedLater
<1>13. QED
  BY <1>1, <1>2, <1>3, <1>4, <1>5, <1>6, <1>7, <1>8, <1>9, <1>10, <1>11, <1>12 DEF Step

\* Each member is read after the one before it, at the path that was selected.
LEMMA ReadAsSelectedStep ==
    TypeOK /\ Wired /\ OneFile /\ Written /\ ReadAsSelected /\ Step => ReadAsSelected'
<1> SUFFICES ASSUME TypeOK, Wired, OneFile, Written, ReadAsSelected, Step
    PROVE  ReadAsSelected'
  OBVIOUS
<1> USE FilesAssumption DEF vars, files, store, task, cache, TypeOK, ReadAsSelected
<1>1. ASSUME NEW n \in Names, Change(n) PROVE ReadAsSelected'
  BY <1>1 DEF Change
<1>2. ASSUME NEW sequence \in SUBSET Pipelines, NEW force \in BOOLEAN, Start(sequence, force)
      PROVE  ReadAsSelected'
  BY <1>2 DEF Start
<1>3. ASSUME NEW k \in Keys, Loads(k) PROVE ReadAsSelected'
  BY <1>3 DEF Loads, Loader
<1>4. ASSUME NEW k \in Keys, QueryRead(k) PROVE ReadAsSelected'
  <2>1. \A p \in Pipelines : read[p][k] = <<>>
    BY <1>4 DEF QueryRead
  <2>2. \A s \in FileSeqs : Follows(<<>>, s)
    BY DEF Follows, FileSeqs
  <2>3. <<get_table(k)>> \in FileSeqs
    BY <1>4, QueryRow DEF QueryRead
  <2>4. held[k] = None
    BY <1>4 DEF QueryRead
  <2>5. UNCHANGED <<read, held>> /\ chosen' = [chosen EXCEPT ![k] = <<get_table(k)>>]
    BY <1>4 DEF QueryRead
  <2>6. QED
    BY <2>1, <2>2, <2>3, <2>4, <2>5
<1>5. CASE Looked  BY <1>5 DEF Looked
<1>6. ASSUME NEW sequence \in FileSeqs, Chose(sequence) PROVE ReadAsSelected'
  <2>1. loading \in Keys /\ chosen[loading] = None
    BY <1>6 DEF Chose, Wired
  <2>2. held[loading] = None /\ \A p \in Pipelines : read[p][loading] = <<>>
    BY <2>1
  <2>3. \A s \in FileSeqs : Follows(<<>>, s)
    BY DEF Follows, FileSeqs
  <2>4. UNCHANGED <<read, held>> /\ chosen' = [chosen EXCEPT ![loading] = sequence]
    BY <1>6 DEF Chose
  <2>5. QED
    BY <2>1, <2>2, <2>3, <2>4
<1>7. CASE Tracked  BY <1>7 DEF Tracked
<1>8. CASE Goes  BY <1>8 DEF Goes
<1>9. ASSUME NEW p \in Pipelines, NEW k \in Keys, NEW file \in SelectedFiles, MemberRead(p, k, file)
      PROVE  ReadAsSelected'
  <2>1. /\ chosen[k] # None /\ chosen[k] \in FileSeqs
        /\ SameOrLater(file, chosen[k][Len(read[p][k]) + 1])
    <3>1. file.version # 0
      BY DEF SelectedFiles, Versions
    <3>2. QED
      BY <1>9, <3>1, MemberFollows DEF MemberRead
  <2>2. Follows(Append(read[p][k], file), chosen[k])
    <3>1. Follows(read[p][k], chosen[k]) /\ Len(read[p][k]) < Len(chosen[k])
      BY <1>9, <2>1 DEF MemberRead
    <3>2. QED
      BY <2>1, <3>1 DEF Follows, FileSeqs
  <2>3. \A q \in Pipelines, j \in Keys :
          read'[q][j] = IF q = p /\ j = k THEN Append(read[p][k], file) ELSE read[q][j]
    BY <1>9 DEF MemberRead
  <2>4. ASSUME NEW j \in Keys, held'[j] # None
        PROVE  /\ chosen[j] # None /\ Len(chosen[j]) = 1
               /\ SameOrLater(held'[j], chosen[j][1])
    <3>1. CASE held'[j] = held[j]
      BY <2>4, <3>1
    <3>2. CASE held'[j] # held[j]
      <4>1. j = k /\ held'[k] = file /\ layout.kind[k] # "set"
        BY <1>9, <3>2 DEF MemberRead
      <4>2. Len(chosen[k]) = 1 /\ Len(read[p][k]) < Len(chosen[k]) /\ Len(read[p][k]) \in Nat
        BY <1>9, <2>1, <4>1 DEF MemberRead, OneFile, FileSeqs
      <4>3. Len(read[p][k]) + 1 = 1
        BY <4>2
      <4>4. QED
        BY <2>1, <4>1, <4>2, <4>3
    <3>3. QED
      BY <3>1, <3>2
  <2>5. UNCHANGED chosen
    BY <1>9 DEF MemberRead
  <2>6. QED
    BY <2>1, <2>2, <2>3, <2>4, <2>5
<1>10. CASE Raises
  BY <1>10 DEF Raises, Closes, NoFiles, NothingRead
<1>11. CASE Publish
  BY <1>11 DEF Publish, Closes, NoFiles, NothingRead
<1>12. CASE UNCHANGED vars
  BY <1>12
<1> HIDE DEF vars, files, store, task, cache, TypeOK, ReadAsSelected
<1>13. QED
  BY <1>1, <1>2, <1>3, <1>4, <1>5, <1>6, <1>7, <1>8, <1>9, <1>10, <1>11, <1>12 DEF Step

\* A pipeline that is published has read all of what was selected.
LEMMA SameFilesStep == TypeOK /\ ReadAsSelected /\ SameFiles /\ Step => SameFiles'
<1> SUFFICES ASSUME TypeOK, ReadAsSelected, SameFiles, Step PROVE SameFiles'
  OBVIOUS
<1> USE FilesAssumption DEF vars, files, store, task, cache, TypeOK, SameFiles
<1>1. ASSUME NEW n \in Names, Change(n) PROVE SameFiles'
  BY <1>1 DEF Change
<1>2. ASSUME NEW sequence \in SUBSET Pipelines, NEW force \in BOOLEAN, Start(sequence, force)
      PROVE  SameFiles'
  BY <1>2 DEF Start
<1>3. ASSUME NEW k \in Keys, Loads(k) PROVE SameFiles'
  BY <1>3 DEF Loads, Loader
<1>4. ASSUME NEW k \in Keys, QueryRead(k) PROVE SameFiles'
  BY <1>4 DEF QueryRead
<1>5. CASE Looked  BY <1>5 DEF Looked
<1>6. ASSUME NEW sequence \in FileSeqs, Chose(sequence) PROVE SameFiles'
  BY <1>6 DEF Chose
<1>7. CASE Tracked  BY <1>7 DEF Tracked
<1>8. CASE Goes  BY <1>8 DEF Goes
<1>9. ASSUME NEW p \in Pipelines, NEW k \in Keys, NEW file \in SelectedFiles, MemberRead(p, k, file)
      PROVE  SameFiles'
  BY <1>9 DEF MemberRead
<1>10. CASE Raises
  BY <1>10 DEF Raises, Closes
<1>11. CASE Publish
  <2>1. \A k \in Keys : stored'[k] \in {None, chosen[k]}
    BY <1>11 DEF Publish, upsert_state, Fingerprints, Signature
  <2>2. layout' = layout /\ storedFor' = active
    BY <1>11 DEF Publish, Closes
  <2>3. ASSUME NEW p \in active, NEW k \in layout.uses[p]
        PROVE  published'[p][k] = read[p][k] /\ chosen[k] # None
               /\ Len(read[p][k]) = Len(chosen[k]) /\ Follows(read[p][k], chosen[k])
    BY <1>11, LayoutFacts DEF Publish, ReadAll, ReadAsSelected
  <2>4. ASSUME NEW p \in active, NEW k \in layout.uses[p] \cap layout.tracked, stored'[k] # None
        PROVE  /\ Len(published'[p][k]) = Len(stored'[k])
               /\ \A i \in DOMAIN stored'[k] :
                    /\ published'[p][k][i].name = stored'[k][i].name
                    /\ published'[p][k][i].version >= stored'[k][i].version
    <3>1. k \in Keys /\ stored'[k] = chosen[k] /\ chosen[k] \in FileSeqs /\ read[p][k] \in FileSeqs
      BY <2>1, <2>4, LayoutFacts
    <3>2. DOMAIN chosen[k] = DOMAIN read[p][k]
      BY <2>3, <3>1 DEF FileSeqs
    <3>3. \A i \in DOMAIN chosen[k] : chosen[k][i] \in SelectedFiles /\ read[p][k][i] \in SelectedFiles
      BY <3>1, <3>2 DEF FileSeqs
    <3>4. QED
      BY <2>3, <3>1, <3>2, <3>3 DEF Follows, SameOrLater, SelectedFiles, Versions
  <2>5. QED
    BY <2>2, <2>4
<1>12. CASE UNCHANGED vars
  BY <1>12
<1> HIDE DEF vars, files, store, task, cache, TypeOK, SameFiles
<1>13. QED
  BY <1>1, <1>2, <1>3, <1>4, <1>5, <1>6, <1>7, <1>8, <1>9, <1>10, <1>11, <1>12 DEF Step

\* While nothing changes, the listing and the files taken from it are all that is there.
LEMMA CalmlyStep == TypeOK /\ Wired /\ OneFile /\ Calmly /\ Step => Calmly'
<1> SUFFICES ASSUME TypeOK, Wired, OneFile, Calmly, Step PROVE Calmly'
  OBVIOUS
<1>1. ASSUME NEW n \in Names, Change(n) PROVE Calmly'
  BY <1>1 DEF Change, Calmly
<1>2. ASSUME NEW sequence \in SUBSET Pipelines, NEW force \in BOOLEAN, Start(sequence, force)
      PROVE  Calmly'
  <2>1. loading' = None /\ \A k \in Keys : chosen'[k] = None
    BY <1>2 DEF Start, Wired, NoFiles, cache
  <2>2. None \notin Keys
    BY FilesAssumption
  <2>3. QED
    BY <2>1, <2>2 DEF Calmly
<1>3. ASSUME NEW k \in Keys, Loads(k) PROVE Calmly'
  <2>1. UNCHANGED <<layout, dir, chosen, calm>> /\ loading' = k /\ infos' = {}
    BY <1>3 DEF Loads, Loader, files, task
  <2>2. ASSUME NEW f \in There(k) PROVE \E i \in 1..Len(listing') : listing'[i] = f.name
    <3>1. f.name \in Names /\ dir[f.name] # 0 /\ Looks(k, f.name)
      BY DEF There, File
    <3>2. CASE layout.kind[k] = "fixed"
      <4>1. listing' = <<layout.path[k]>> /\ f.name = layout.path[k]
        BY <1>3, <3>1, <3>2, NewListing DEF Looks
      <4>2. QED
        BY <4>1
    <3>3. CASE layout.kind[k] # "fixed"
      BY <1>3, <3>1, <3>3, NewListing, ListingHasAll
    <3>4. QED
      BY <3>2, <3>3
  <2>3. There(k)' = There(k) /\ \A j \in Keys : Selection(j)' = Selection(j)
    BY <2>1, SameSelection
  <2>4. QED
    BY <2>1, <2>2, <2>3 DEF Calmly
<1>4. ASSUME NEW k \in Keys, QueryRead(k) PROVE Calmly'
  <2>1. UNCHANGED <<layout, dir, loading, listing, infos, calm>>
    BY <1>4 DEF QueryRead, files, task
  <2>2. \A j \in Keys : There(j)' = There(j) /\ Selection(j)' = Selection(j)
    BY <2>1, SameSelection
  <2>3. chosen' = [chosen EXCEPT ![k] = <<get_table(k)>>] /\ <<get_table(k)>> \in Selection(k)
    BY <1>4 DEF QueryRead, Selection
  <2>4. QED
    BY <2>1, <2>2, <2>3 DEF Calmly
<1>5. CASE Looked
  <2>1. UNCHANGED <<layout, dir, loading, chosen, calm>> /\ loading \in Keys
    BY <1>5 DEF Looked, files, task, TypeOK
  <2>2. \A j \in Keys : There(j)' = There(j) /\ Selection(j)' = Selection(j)
    BY <2>1, SameSelection
  <2> DEFINE n == Head(listing)
  <2>3. n \in Names /\ n = listing[1] /\ Len(listing) \in Nat \ {0}
    BY <1>5 DEF Looked, TypeOK
  <2>4. dir[n] # 0 /\ Passes(loading, n) => Looks(loading, n)
    <3>1. CASE layout.kind[loading] = "fixed"
      BY <1>5, <3>1 DEF Looked, OneFile, Looks
    <3>2. CASE layout.kind[loading] # "fixed"
      BY <3>2 DEF Looks
    <3>3. QED
      BY <3>1, <3>2
  <2>5. \A m \in Names : Looks(loading, m) => Passes(loading, m)
    BY DEF Looks, Passes, Matches
  <2>6. infos' = IF dir[n] # 0 /\ Passes(loading, n) THEN infos \cup {File(n, dir[n])} ELSE infos
    BY <1>5 DEF Looked
  <2>7. calm => infos' \subseteq There(loading)
    BY <1>5, <2>1, <2>3, <2>4, <2>6 DEF There, Looked, Calmly
  <2>8. ASSUME calm, NEW f \in There(loading)
        PROVE  f \in infos' \/ \E i \in 1..Len(listing') : listing'[i] = f.name
    <3>1. CASE f \in infos
      BY <2>6, <3>1
    <3>2. CASE \E i \in 1..Len(listing) : listing[i] = f.name
      <4>1. PICK i \in 1..Len(listing) : listing[i] = f.name
        BY <3>2
      <4>2. CASE i = 1
        <5>1. f = File(n, dir[n]) /\ dir[n] # 0 /\ Looks(loading, n)
          BY <2>3, <4>1, <4>2 DEF There, File
        <5>2. QED
          BY <2>3, <2>5, <2>6, <5>1
      <4>3. CASE i # 1
        <5>1. i - 1 \in 1..Len(Tail(listing)) /\ Tail(listing)[i - 1] = listing[i]
          BY <1>5, <2>3, <4>3 DEF Looked, TypeOK
        <5>2. QED
          BY <1>5, <4>1, <5>1 DEF Looked
      <4>4. QED
        BY <4>2, <4>3
    <3>3. QED
      BY <1>5, <2>1, <2>8, <3>1, <3>2 DEF Looked, Calmly
  <2>9. QED
    BY <2>1, <2>2, <2>7, <2>8 DEF Calmly
<1>6. ASSUME NEW sequence \in FileSeqs, Chose(sequence) PROVE Calmly'
  <2>1. UNCHANGED <<layout, dir, calm>> /\ loading \in Keys /\ loading' = None
    BY <1>6 DEF Chose, files, task, TypeOK
  <2>2. \A j \in Keys : Selection(j)' = Selection(j)
    BY <2>1, SameSelection
  <2>3. calm => infos = There(loading)
    <3>1. loading # None /\ listing = <<>>
      BY <1>6 DEF Chose
    <3>2. calm => /\ infos \subseteq There(loading)
                  /\ \A f \in There(loading) :
                        f \in infos \/ \E i \in 1..Len(listing) : listing[i] = f.name
      BY <2>1, <3>1 DEF Calmly
    <3>3. QED
      BY <3>1, <3>2
  <2>4. calm => sequence \in Selection(loading)
    <3>1. loading \notin Queries
      BY <1>6 DEF Chose, Wired
    <3>2. sequence \in IF layout.kind[loading] = "latest"
                         THEN select_latest_file(infos) ELSE SortedFiles(infos)
      BY <1>6 DEF Chose
    <3>3. QED
      BY <2>3, <3>1, <3>2 DEF Selection
  <2>5. chosen' = [chosen EXCEPT ![loading] = sequence]
    BY <1>6 DEF Chose
  <2>6. QED
    <3>1. None \notin Keys
      BY FilesAssumption
    <3>2. \A j \in Keys : chosen'[j] = IF j = loading THEN sequence ELSE chosen[j]
      BY <2>5 DEF TypeOK
    <3>3. \A j \in Keys : loading' # j
      BY <2>1, <3>1
    <3>4. calm => \A j \in Keys : chosen'[j] # None => chosen'[j] \in Selection(j)
      <4> HIDE DEF Selection
      <4> QED
        BY <2>4, <3>2 DEF Calmly
    <3>5. QED
      BY <2>1, <2>2, <3>3, <3>4 DEF Calmly
<1>7. CASE Tracked
  <2>1. UNCHANGED <<layout, dir, chosen, calm, loading, infos, listing>>
    BY <1>7 DEF Tracked, vars, files, store, task, cache
  <2>2. QED
    BY <2>1, SameSelection DEF Calmly
<1>8. CASE Goes
  <2>1. UNCHANGED <<layout, dir, chosen, calm, loading, infos, listing>>
    BY <1>8 DEF Goes, vars, files, store, task, cache
  <2>2. QED
    BY <2>1, SameSelection DEF Calmly
<1>9. ASSUME NEW p \in Pipelines, NEW k \in Keys, NEW file \in SelectedFiles, MemberRead(p, k, file)
      PROVE  Calmly'
  <2>1. UNCHANGED <<layout, dir, chosen, calm, loading, infos, listing>>
    BY <1>9 DEF MemberRead, vars, files, store, task, cache
  <2>2. QED
    BY <2>1, SameSelection DEF Calmly
<1>10. CASE Raises
  <2>1. loading' = None /\ \A k \in Keys : chosen'[k] = None
    BY <1>10 DEF Raises, Closes, NoFiles
  <2>2. None \notin Keys
    BY FilesAssumption
  <2>3. QED
    BY <2>1, <2>2 DEF Calmly
<1>11. CASE Publish
  <2>1. loading' = None /\ \A k \in Keys : chosen'[k] = None
    BY <1>11 DEF Publish, Closes, NoFiles
  <2>2. None \notin Keys
    BY FilesAssumption
  <2>3. QED
    BY <2>1, <2>2 DEF Calmly
<1>12. CASE UNCHANGED vars
  <2>1. UNCHANGED <<layout, dir, chosen, calm, loading, infos, listing, stored, storedFor, quiet>>
    BY <1>12 DEF vars, files, store, task, cache
  <2>2. QED
    BY <2>1, SameSelection, SameTracked DEF Calmly
<1>13. QED
  BY <1>1, <1>2, <1>3, <1>4, <1>5, <1>6, <1>7, <1>8, <1>9, <1>10, <1>11, <1>12 DEF Step

\* What is stored is what was selected, and nothing has changed since.
LEMMA QuietlyStep == TypeOK /\ Wired /\ Calmly /\ Quietly /\ Step => Quietly'
<1> SUFFICES ASSUME TypeOK, Wired, Calmly, Quietly, Step PROVE Quietly'
  OBVIOUS
<1>1. ASSUME NEW n \in Names, Change(n) PROVE Quietly'
  BY <1>1 DEF Change, Quietly
<1>2. ASSUME NEW sequence \in SUBSET Pipelines, NEW force \in BOOLEAN, Start(sequence, force)
      PROVE  Quietly'
  <2>1. UNCHANGED <<layout, dir, stored, storedFor, quiet>>
    BY <1>2 DEF Start, vars, files, store, task, cache
  <2>2. QED
    BY <2>1, SameSelection, SameTracked DEF Quietly
<1>3. ASSUME NEW k \in Keys, Loads(k) PROVE Quietly'
  <2>1. UNCHANGED <<layout, dir, stored, storedFor, quiet>>
    BY <1>3 DEF Loads, Loader, vars, files, store, task, cache
  <2>2. QED
    BY <2>1, SameSelection, SameTracked DEF Quietly
<1>4. ASSUME NEW k \in Keys, QueryRead(k) PROVE Quietly'
  <2>1. UNCHANGED <<layout, dir, stored, storedFor, quiet>>
    BY <1>4 DEF QueryRead, vars, files, store, task, cache
  <2>2. QED
    BY <2>1, SameSelection, SameTracked DEF Quietly
<1>5. CASE Looked
  <2>1. UNCHANGED <<layout, dir, stored, storedFor, quiet>>
    BY <1>5 DEF Looked, vars, files, store, task, cache
  <2>2. QED
    BY <2>1, SameSelection, SameTracked DEF Quietly
<1>6. ASSUME NEW sequence \in FileSeqs, Chose(sequence) PROVE Quietly'
  <2>1. UNCHANGED <<layout, dir, stored, storedFor, quiet>>
    BY <1>6 DEF Chose, vars, files, store, task, cache
  <2>2. QED
    BY <2>1, SameSelection, SameTracked DEF Quietly
<1>7. CASE Tracked
  <2>1. UNCHANGED <<layout, dir, stored, storedFor, quiet>>
    BY <1>7 DEF Tracked, vars, files, store, task, cache
  <2>2. QED
    BY <2>1, SameSelection, SameTracked DEF Quietly
<1>8. CASE Goes
  <2>1. UNCHANGED <<layout, dir, stored, storedFor, quiet>>
    BY <1>8 DEF Goes, vars, files, store, task, cache
  <2>2. QED
    BY <2>1, SameSelection, SameTracked DEF Quietly
<1>9. ASSUME NEW p \in Pipelines, NEW k \in Keys, NEW file \in SelectedFiles, MemberRead(p, k, file)
      PROVE  Quietly'
  <2>1. UNCHANGED <<layout, dir, stored, storedFor, quiet>>
    BY <1>9 DEF MemberRead, vars, files, store, task, cache
  <2>2. QED
    BY <2>1, SameSelection, SameTracked DEF Quietly
<1>10. CASE Raises
  <2>1. UNCHANGED <<layout, dir, stored, storedFor, quiet>>
    BY <1>10 DEF Raises, Closes, vars, files, store, task, cache
  <2>2. QED
    BY <2>1, SameSelection, SameTracked DEF Quietly
<1>11. CASE Publish
  <2>1. UNCHANGED <<layout, dir>> /\ quiet' = calm /\ storedFor' = active
    BY <1>11 DEF Publish, Closes, files
  <2>2. \A k \in Keys : Selection(k)' = Selection(k)
    BY <2>1, SameSelection
  <2>3. TrackedKeys(storedFor)' = TrackedKeys(active)
    BY <2>1 DEF TrackedKeys, Queries
  <2>4. \A k \in Keys : stored'[k] = IF k \in TrackedKeys(active) THEN chosen[k] ELSE None
    BY <1>11 DEF Publish, upsert_state, Fingerprints, Signature
  <2>5. \A k \in TrackedKeys(active) : chosen[k] # None
    BY <1>11 DEF Publish, Wired
  <2>6. QED
    BY <2>1, <2>2, <2>3, <2>4, <2>5 DEF Calmly, Quietly
<1>12. CASE UNCHANGED vars
  <2>1. UNCHANGED <<layout, dir, chosen, calm, loading, infos, listing, stored, storedFor, quiet>>
    BY <1>12 DEF vars, files, store, task, cache
  <2>2. QED
    BY <2>1, SameSelection, SameTracked DEF Quietly
<1>13. QED
  BY <1>1, <1>2, <1>3, <1>4, <1>5, <1>6, <1>7, <1>8, <1>9, <1>10, <1>11, <1>12 DEF Step

-----------------------------------------------------------------------------
(* What is selected of a directory is one sequence.                        *)

\* In ascending order each file has as many files up to it as its position says.
LEMMA Ranks ==
    ASSUME NEW S \in SUBSET SelectedFiles, IsFiniteSet(S), NEW s \in SortedFiles(S)
    PROVE  /\ \A f \in S : \E i \in 1..Cardinality(S) : s[i] = f
           /\ \A i \in 1..Cardinality(S) : Cardinality({g \in S : g.name <= s[i].name}) = i
<1> DEFINE n == Cardinality(S)
<1>1. n \in Nat /\ IsFiniteSet(1..n) /\ Cardinality(1..n) = n
  BY FS_CardinalityType, FS_Interval
<1>2. s \in [1..n -> S] /\ \A i, j \in 1..n : i < j => s[i].name < s[j].name
  BY DEF SortedFiles
<1> HIDE DEF n
<1>3. \A i \in 1..n : s[i] \in S /\ s[i].name \in Nat
  <2>1. Names \subseteq Nat
    BY FilesAssumption
  <2>2. \A f \in SelectedFiles : f.name \in Names
    BY DEF SelectedFiles
  <2>3. QED
    BY <1>2, <2>1, <2>2
<1>4. \A i, j \in 1..n : i # j => s[i] # s[j]
  <2>1. ASSUME NEW i \in 1..n, NEW j \in 1..n, i # j PROVE s[i] # s[j]
    <3>1. i < j \/ j < i
      BY <1>1, <2>1
    <3>2. s[i].name < s[j].name \/ s[j].name < s[i].name
      BY <1>2, <3>1
    <3>3. QED
      BY <1>3, <3>2
  <2>2. QED
    BY <2>1
<1>5. s \in Injection(1..n, S)
  BY <1>2, <1>4, Fun_IsInj
<1>6. s \in Surjection(1..n, S)
  BY <1>1, <1>5, FS_Injection DEF n
<1>7. \A f \in S : \E i \in 1..n : s[i] = f
  BY <1>6 DEF Surjection
<1>8. ASSUME NEW i \in 1..n PROVE Cardinality({g \in S : g.name <= s[i].name}) = i
  <2> DEFINE G == {g \in S : g.name <= s[i].name}
             r == [j \in 1..i |-> s[j]]
  <2>1. i \in Nat /\ 1..i \subseteq 1..n
    BY <1>1
  <2>2. \A j \in 1..n : j <= i <=> s[j].name <= s[i].name
    BY <1>1, <1>2, <1>3
  <2>3. r \in [1..i -> G] /\ \A j \in 1..i : r[j] = s[j]
    BY <1>3, <2>1, <2>2
  <2>4. \A j, k \in 1..i : j # k => r[j] # r[k]
    BY <1>4, <2>1, <2>3
  <2>5. \A g \in G : \E j \in 1..i : r[j] = g
    <3>1. ASSUME NEW g \in G PROVE \E j \in 1..i : r[j] = g
      <4>1. PICK j \in 1..n : s[j] = g
        BY <1>7
      <4>2. j <= i /\ j \in 1..i
        BY <1>1, <2>2, <4>1
      <4>3. QED
        BY <2>3, <4>1, <4>2
    <3>2. QED
      BY <3>1
  <2> HIDE DEF r, G
  <2>6. r \in Bijection(1..i, G)
    BY <2>3, <2>4, <2>5, Fun_IsBij
  <2>7. IsFiniteSet(1..i) /\ Cardinality(1..i) = i
    BY <2>1, FS_Interval
  <2>8. QED
    BY <2>6, <2>7, FS_Bijection DEF G, ExistsBijection
<1>9. QED
  BY <1>7, <1>8 DEF n

\* Hence one order of the files of a folder.
LEMMA OneOrder ==
    ASSUME NEW S \in SUBSET SelectedFiles, IsFiniteSet(S),
           NEW s \in SortedFiles(S), NEW t \in SortedFiles(S)
    PROVE  s = t
<1> DEFINE n == Cardinality(S)
<1>1. s \in [1..n -> S] /\ t \in [1..n -> S]
  BY DEF SortedFiles
<1>2. ASSUME NEW i \in 1..n PROVE s[i] = t[i]
  <2>1. s[i] \in S
    BY <1>1
  <2>2. PICK j \in 1..n : t[j] = s[i]
    BY <2>1, Ranks
  <2>3. Cardinality({g \in S : g.name <= s[i].name}) = i
    BY Ranks
  <2>4. Cardinality({g \in S : g.name <= t[j].name}) = j
    BY Ranks
  <2>5. QED
    BY <2>2, <2>3, <2>4
<1> HIDE DEF n
<1>3. s = [i \in 1..n |-> s[i]] /\ t = [i \in 1..n |-> t[i]]
  BY <1>1
<1>4. QED
  BY <1>2, <1>3

\* Paths and versions are compared as numbers.
LEMMA FileIsNumbers ==
    ASSUME NEW f \in SelectedFiles
    PROVE  f.name \in Nat /\ f.version \in Nat
<1>1. Names \subseteq Nat /\ MaxVersion \in Nat
  BY FilesAssumption
<1>2. f.name \in Names /\ f.version \in Versions
  BY DEF SelectedFiles
<1>3. \A v \in Versions : v \in Nat
  BY <1>1 DEF Versions
<1>4. QED
  BY <1>1, <1>2, <1>3

\* And one latest file, as two files of one time are told apart by their paths.
LEMMA OneLatest ==
    ASSUME NEW S \in SUBSET SelectedFiles,
           NEW s \in select_latest_file(S), NEW t \in select_latest_file(S)
    PROVE  s = t
<1> DEFINE NotAfter(h, f) == h.version < f.version \/ (h.version = f.version /\ h.name <= f.name)
<1>1. PICK f \in S : s = <<f>> /\ \A h \in S : NotAfter(h, f)
  BY DEF select_latest_file
<1>2. PICK g \in S : t = <<g>> /\ \A h \in S : NotAfter(h, g)
  BY DEF select_latest_file
<1>3. f \in SelectedFiles /\ g \in SelectedFiles
  OBVIOUS
<1>4. f.version \in Nat /\ g.version \in Nat /\ f.name \in Nat /\ g.name \in Nat
  BY <1>3, FileIsNumbers
<1>5. f.version = g.version /\ f.name = g.name
  BY <1>1, <1>2, <1>4
<1>6. f = g
  BY <1>3, <1>5 DEF SelectedFiles
<1>7. QED
  BY <1>1, <1>2, <1>6

\* The files that are there are finitely many, one for each name.
LEMMA ThereIsFinite ==
    ASSUME TypeOK, NEW k \in Keys
    PROVE  There(k) \in SUBSET SelectedFiles /\ IsFiniteSet(There(k))
<1>1. \A f \in There(k) : /\ f.name \in Names /\ f = File(f.name, dir[f.name])
                          /\ f \in SelectedFiles
  BY DEF There, File, TypeOK, SelectedFiles
<1> DEFINE name == [f \in There(k) |-> f.name]
<1>2. name \in [There(k) -> Names] /\ \A f, g \in There(k) : f # g => name[f] # name[g]
  <2> HIDE DEF There
  <2> QED
    BY <1>1
<1>3. name \in Injection(There(k), Names)
  <2> HIDE DEF There, name
  <2> QED
    BY <1>2, Fun_IsInj
<1>4. QED
  <2> HIDE DEF There, name
  <2> QED
    BY <1>1, <1>3, FS_Injection, FilesAssumption

\* A resource selects the same from the same directory.
LEMMA OneSelection ==
    ASSUME TypeOK, NEW k \in Keys, NEW s \in Selection(k), NEW t \in Selection(k)
    PROVE  s = t
<1>1. There(k) \in SUBSET SelectedFiles /\ IsFiniteSet(There(k))
  BY ThereIsFinite
<1>2. QED
  BY <1>1, OneOrder, OneLatest DEF Selection

-----------------------------------------------------------------------------
(* The theorems.                                                           *)

\* It holds at first, when all files have one version and nothing is stored.
LEMMA InitIInv == Init => IInv
<1> SUFFICES ASSUME Init PROVE IInv
  OBVIOUS
<1> USE FilesAssumption, NothingIsTyped DEF Init, files, store, task, cache, NoFiles,
        NothingRead
<1>1. TypeOK
  <2>1. 1 \in Versions
    BY DEF Versions
  <2>2. dir \in [Names -> Versions \cup {0}] /\ newest \in [Names -> Versions]
    BY <2>1
  <2>3. stored \in [Keys -> FileSeqs \cup {None}] /\ published \in [Pipelines -> [Keys -> FileSeqs]]
        /\ chosen \in [Keys -> FileSeqs \cup {None}] /\ read \in [Pipelines -> [Keys -> FileSeqs]]
        /\ held \in [Keys -> SelectedFiles \cup {None}]
    OBVIOUS
  <2>4. listing \in Seq(Names) /\ infos \in SUBSET SelectedFiles /\ IsFiniteSet(infos)
    BY FS_EmptySet
  <2>5. /\ layout \in Layouts /\ loading \in Keys \cup {None}
        /\ storedFor \in SUBSET Pipelines /\ active \in SUBSET Pipelines
    OBVIOUS
  <2>6. pc = "idle" /\ calm \in BOOLEAN /\ quiet \in BOOLEAN
    OBVIOUS
  <2> QED
    BY ONLY <2>2, <2>3, <2>4, <2>5, <2>6 DEF TypeOK
<1>2. Wired /\ OneFile /\ Written /\ SelectedLater
  BY DEF Wired, OneFile, Written, SelectedLater, Queries
<1>3. ReadAsSelected /\ SameFiles
  BY DEF ReadAsSelected, SameFiles
<1>4. Calmly /\ Quietly
  BY DEF Calmly, Quietly
<1>5. QED
  BY <1>1, <1>2, <1>3, <1>4 DEF IInv

\* Every step keeps it.
LEMMA StepIInv == IInv /\ [Next]_vars => IInv'
BY Moves, TypeStep, WiredStep, OneFileStep, WrittenStep, SelectedLaterStep,
   ReadAsSelectedStep, SameFilesStep, CalmlyStep, QuietlyStep DEF IInv

\* The names of a table are those of its signature, and its versions are no older; those
\* selected now are the signature, and no older than the versions of the table.
LEMMA SkippedIsJustified == IInv => SkipIsJustified
<1> SUFFICES ASSUME IInv, pc = "compare", stored = Fingerprints,
                    NEW p \in active \cap storedFor,
                    NEW k \in layout.uses[p] \cap layout.tracked
             PROVE  published[p][k] = chosen[k]
  BY DEF SkipIsJustified, sources_unchanged
<1>1. p \in Pipelines /\ k \in Keys
  BY LayoutFacts DEF IInv, TypeOK
<1>2. k \in TrackedKeys(active)
  BY <1>1 DEF TrackedKeys, IInv, TypeOK
<1>3. chosen[k] # None /\ stored[k] = chosen[k]
  BY <1>1, <1>2 DEF IInv, Wired, Fingerprints, Signature
<1> DEFINE s == published[p][k]
           t == chosen[k]
<1>4. s \in FileSeqs /\ t \in FileSeqs
  BY <1>1, <1>3 DEF IInv, TypeOK
<1>5. /\ Len(s) = Len(t)
      /\ \A i \in DOMAIN t : s[i].name = t[i].name /\ s[i].version >= t[i].version
  BY <1>3 DEF IInv, SameFiles
<1>6. \A i \in DOMAIN t : i \in DOMAIN s /\ s[i] \in SelectedFiles /\ t[i] \in SelectedFiles
  BY <1>4, <1>5 DEF FileSeqs
<1>7. \A i \in DOMAIN t : s[i].version <= t[i].version
  BY <1>1, <1>3, <1>5, <1>6 DEF IInv, SelectedLater, NotOlder
<1>8. \A i \in DOMAIN t : s[i] = t[i]
  <2> HIDE DEF s, t
  <2> QED
    BY <1>5, <1>6, <1>7 DEF SelectedFiles, Versions
<1>9. QED
  <2>1. \A i \in 1..Len(s) : s[i] = t[i]
    BY <1>4, <1>5, <1>8 DEF FileSeqs
  <2> HIDE DEF s, t
  <2>2. s = t
    BY <1>4, <1>5, <2>1, SeqEqual DEF FileSeqs
  <2>3. QED
    BY <2>2 DEF s, t

\* Nothing changed since the run that stored the state began, and each of the two selected
\* what is there.
LEMMA UntouchedIsSkipped == IInv => NoSpuriousRun
<1> SUFFICES ASSUME IInv, pc = "compare", quiet, calm,
                    TrackedKeys(active) = TrackedKeys(storedFor)
             PROVE  stored = Fingerprints
  BY DEF NoSpuriousRun, sources_unchanged
<1>1. ASSUME NEW k \in Keys PROVE stored[k] = Fingerprints[k]
  <2>1. CASE k \in TrackedKeys(active)
    <3>1. chosen[k] \in Selection(k) /\ stored[k] \in Selection(k)
      BY <2>1 DEF IInv, Wired, Calmly, Quietly
    <3>2. stored[k] = chosen[k]
      BY <3>1, OneSelection DEF IInv
    <3>3. QED
      BY <2>1, <3>2 DEF Fingerprints, Signature
  <2>2. CASE k \notin TrackedKeys(active)
    BY <2>2 DEF IInv, Quietly, Fingerprints
  <2>3. QED
    BY <2>1, <2>2
<1>2. QED
  BY <1>1 DEF IInv, TypeOK, Fingerprints

-----------------------------------------------------------------------------
(* Definitions by recursion. *)

\* A set with 0 and the successor of each of its numbers has all of them.
LEMMA SetInduction ==
    ASSUME NEW S, 0 \in S, \A n \in Nat : n \in S => n + 1 \in S
    PROVE  Nat \subseteq S
<1> DEFINE Missed == {0..n : n \in Nat \ S}
<1> SUFFICES ASSUME NEW k \in Nat, k \notin S PROVE FALSE
  OBVIOUS
<1>1. Missed \subseteq FiniteSubsetsOf(Nat)
  <2>1. ASSUME NEW n \in Nat PROVE IsFiniteSet(0..n) /\ 0..n \subseteq Nat
    BY FS_Interval
  <2>2. QED
    BY <2>1 DEF FiniteSubsetsOf
<1>2. IsWellFoundedOn(StrictSubsetOrdering(Nat), FiniteSubsetsOf(Nat))
  BY FS_StrictSubsetOrderingWellFounded
<1>3. Missed # {}
  OBVIOUS
<1>4. PICK U \in Missed : \A V \in Missed : <<V, U>> \notin StrictSubsetOrdering(Nat)
  <2> HIDE DEF Missed
  <2> QED
    BY <1>1, <1>2, <1>3, WFMin
<1>5. PICK m \in Nat \ S : U = 0..m
  OBVIOUS
<1>6. m # 0 /\ m - 1 \in Nat
  BY <1>5
<1>7. m - 1 \notin S
  BY <1>5, <1>6
<1>8. /\ 0..(m - 1) \in Missed /\ 0..(m - 1) \subseteq U /\ U \subseteq Nat
      /\ m \in U /\ m \notin 0..(m - 1)
  BY <1>5, <1>6, <1>7
<1>9. <<0..(m - 1), U>> \in StrictSubsetOrdering(Nat)
  BY <1>8 DEF StrictSubsetOrdering
<1> QED
  BY <1>4, <1>8, <1>9

\* The functions that a start and a step define on the numbers up to N.
Solutions(N, T, base, step) ==
    {f \in [0..N -> T] : f[0] = base /\ \A n \in 1..N : f[n] = step[<<f[n - 1], n>>]}

\* There is one.
LEMMA RecursionHasSolution ==
    ASSUME NEW N \in Nat, NEW T, NEW base \in T, NEW step \in [T \X (1..N) -> T]
    PROVE  Solutions(N, T, base, step) # {}
<1> DEFINE Solves(f, m) == f[0] = base /\ \A n \in 1..m : f[n] = step[<<f[n - 1], n>>]
           Solved == {m \in Nat : m <= N => \E f \in [0..m -> T] : Solves(f, m)}
<1>1. 0 \in Solved
  <2>1. [n \in 0..0 |-> base] \in [0..0 -> T] /\ Solves([n \in 0..0 |-> base], 0)
    OBVIOUS
  <2> QED
    BY <2>1
<1>2. ASSUME NEW m \in Nat, m \in Solved PROVE m + 1 \in Solved
  <2> SUFFICES ASSUME m + 1 <= N PROVE \E f \in [0..(m + 1) -> T] : Solves(f, m + 1)
    OBVIOUS
  <2>1. PICK f \in [0..m -> T] : Solves(f, m)
    BY <1>2
  <2> DEFINE g == [n \in 0..(m + 1) |-> IF n = m + 1 THEN step[<<f[m], m + 1>>] ELSE f[n]]
  <2>2. f[m] \in T /\ m + 1 \in 1..N /\ <<f[m], m + 1>> \in T \X (1..N)
    OBVIOUS
  <2>3. step[<<f[m], m + 1>>] \in T
    BY <2>2
  <2>4. g \in [0..(m + 1) -> T]
    BY <2>3
  <2>5. g[0] = base
    BY <2>1
  <2>6. ASSUME NEW n \in 1..(m + 1) PROVE g[n] = step[<<g[n - 1], n>>]
    <3>1. CASE n = m + 1
      <4>1. n - 1 = m /\ m \in 0..(m + 1) /\ m # m + 1 /\ n \in 0..(m + 1)
        BY <3>1
      <4>2. g[n] = step[<<f[m], m + 1>>] /\ g[n - 1] = f[m]
        BY <3>1, <4>1
      <4> QED
        BY <3>1, <4>2
    <3>2. CASE n # m + 1
      <4>1. n \in 1..m /\ n - 1 \in 0..m /\ n - 1 # m + 1
        BY <3>2
      <4>2. g[n] = f[n] /\ g[n - 1] = f[n - 1]
        BY <3>2, <4>1
      <4>3. QED
        BY <2>1, <4>1, <4>2
    <3> QED
      BY <3>1, <3>2
  <2>7. Solves(g, m + 1)
    BY <2>5, <2>6
  <2> QED
    BY <2>4, <2>7
<1>3. Nat \subseteq Solved
  <2> HIDE DEF Solved
  <2> QED
    BY <1>1, <1>2, SetInduction
<1>4. N \in Solved /\ N <= N
  <2> HIDE DEF Solved
  <2> QED
    BY <1>3
<1> QED
  BY <1>4 DEF Solutions

-----------------------------------------------------------------------------
(* The records of a stream. *)

Field   == STRING \cup {NoText}
Record  == Seq(Field)
Records == Seq(Record)
Options == CsvReadOptions(Record)

\* A stream, but for the blank line it may begin with.
Keep(records, record) == IF record = <<>> THEN records ELSE Append(records, record)

\* The records of the first n lines.
KeepLaw(f, stream) ==
    /\ f \in [0..Len(stream) -> Records] /\ f[0] = <<>>
    /\ \A n \in 1..Len(stream) : f[n] = Keep(f[n - 1], stream[n])

\* Every stream has them.
LEMMA KeepSolution ==
    ASSUME NEW stream \in Records
    PROVE  \E f : KeepLaw(f, stream)
<1> DEFINE N == Len(stream)
           step == [x \in Records \X (1..N) |-> Keep(x[1], stream[x[2]])]
<1>1. N \in Nat /\ \A n \in 1..N : stream[n] \in Record
  BY LenProperties, ElementOfSeq DEF Records
<1>2. ASSUME NEW s \in Records, NEW n \in 1..N PROVE Keep(s, stream[n]) \in Records
  <2>1. stream[n] \in Record
    BY <1>1
  <2>2. Append(s, stream[n]) \in Records
    BY <2>1, AppendProperties DEF Records
  <2> QED
    BY <2>2 DEF Keep
<1>3. step \in [Records \X (1..N) -> Records]
  <2> HIDE DEF N
  <2> QED
    BY <1>2
<1>4. <<>> \in Records
  BY DEF Records
<1>5. PICK f : f \in Solutions(N, Records, <<>>, step)
  <2> HIDE DEF step, N
  <2> QED
    BY <1>1, <1>3, <1>4, RecursionHasSolution
<1>6. /\ f \in [0..N -> Records] /\ f[0] = <<>>
      /\ \A n \in 1..N : f[n] = step[<<f[n - 1], n>>]
  <2> HIDE DEF step, N
  <2> QED
    BY <1>5 DEF Solutions
<1>7. ASSUME NEW n \in 1..N PROVE f[n] = Keep(f[n - 1], stream[n])
  <2>1. n - 1 \in 0..N
    BY <1>1
  <2>2. <<f[n - 1], n>> \in Records \X (1..N)
    BY <1>6, <2>1
  <2> QED
    BY <1>6, <2>2
<1> QED
  BY <1>6, <1>7 DEF KeepLaw

\* _iter_records() is what is kept of all lines.
LEMMA KeepEquation ==
    ASSUME NEW stream \in Records
    PROVE  \E f : KeepLaw(f, stream) /\ _iter_records(stream) = f[Len(stream)]
<1> DEFINE N == Len(stream)
           body(g) == [n \in 0..N |->
                         IF n = 0 THEN <<>>
                         ELSE IF stream[n] = <<>> THEN g[n - 1] ELSE Append(g[n - 1], stream[n])]
           kept == CHOOSE g : g = body(g)
<1>1. N \in Nat
  BY LenProperties DEF Records
<1>2. _iter_records(stream) = kept[N]
  BY DEF _iter_records
<1>3. PICK f : KeepLaw(f, stream)
  BY KeepSolution
<1>4. \A g : body(g) = [n \in 0..N |-> IF n = 0 THEN <<>> ELSE Keep(g[n - 1], stream[n])]
  BY DEF Keep
<1>5. f = body(f)
  <2>1. ASSUME NEW n \in 0..N PROVE f[n] = IF n = 0 THEN <<>> ELSE Keep(f[n - 1], stream[n])
    <3>1. CASE n = 0
      BY <1>3, <3>1 DEF KeepLaw
    <3>2. CASE n # 0
      <4>1. n \in 1..N
        BY <1>1, <3>2
      <4> QED
        BY <1>3, <3>2, <4>1 DEF KeepLaw
    <3> QED
      BY <3>1, <3>2
  <2>2. f = [n \in 0..N |-> f[n]]
    BY <1>3 DEF KeepLaw
  <2> HIDE DEF body, N
  <2> QED
    BY <1>4, <2>1, <2>2
<1> HIDE DEF body
<1>6. kept = body(kept)
  BY <1>5
<1> HIDE DEF kept, N
<1>7. kept = [n \in 0..N |-> IF n = 0 THEN <<>> ELSE Keep(kept[n - 1], stream[n])]
  BY <1>4, <1>6
<1>8. \A n \in 0..N : kept[n] = IF n = 0 THEN <<>> ELSE Keep(kept[n - 1], stream[n])
  BY <1>7
<1> DEFINE Same == {n \in Nat : n <= N => kept[n] = f[n]}
<1>9. 0 \in Same
  <2>1. 0 \in 0..N /\ f[0] = <<>>
    BY <1>1, <1>3 DEF KeepLaw
  <2> QED
    BY <1>8, <2>1
<1>10. ASSUME NEW n \in Nat, n \in Same PROVE n + 1 \in Same
  <2> SUFFICES ASSUME n + 1 <= N PROVE kept[n + 1] = f[n + 1]
    OBVIOUS
  <2>1. n + 1 \in 0..N /\ n + 1 \in 1..N /\ n + 1 # 0 /\ (n + 1) - 1 = n /\ kept[n] = f[n]
    BY <1>1, <1>10
  <2>2. kept[n + 1] = Keep(kept[n], stream[n + 1])
    BY <1>8, <2>1
  <2>3. f[n + 1] = Keep(f[n], stream[n + 1])
    BY <1>3, <2>1 DEF KeepLaw, N
  <2> QED
    BY <2>1, <2>2, <2>3
<1>11. Nat \subseteq Same
  <2> HIDE DEF Same
  <2> QED
    BY <1>9, <1>10, SetInduction
<1>12. kept[N] = f[N]
  BY <1>1, <1>11
<1> QED
  BY <1>2, <1>3, <1>12 DEF N

\* Blank records are dropped, so those that are left have fields.
LEMMA RecordsHaveFields ==
    ASSUME NEW stream \in Records
    PROVE  /\ _iter_records(stream) \in Records
           /\ \A i \in 1..Len(_iter_records(stream)) : _iter_records(stream)[i] # <<>>
<1> DEFINE N == Len(stream)
<1>1. PICK f : KeepLaw(f, stream) /\ _iter_records(stream) = f[N]
  BY KeepEquation
<1>2. N \in Nat /\ \A n \in 1..N : stream[n] \in Record
  BY LenProperties, ElementOfSeq DEF Records
<1> HIDE DEF N
<1> DEFINE Full(s) == \A i \in 1..Len(s) : s[i] # <<>>
           Fulls == {n \in Nat : n <= N => Full(f[n])}
<1>3. 0 \in Fulls
  BY <1>1 DEF KeepLaw
<1>4. ASSUME NEW n \in Nat, n \in Fulls PROVE n + 1 \in Fulls
  <2> SUFFICES ASSUME n + 1 <= N PROVE Full(f[n + 1])
    OBVIOUS
  <2>1. n + 1 \in 1..N /\ (n + 1) - 1 = n /\ n \in 0..N /\ Full(f[n])
    BY <1>2, <1>4
  <2>2. f[n + 1] = Keep(f[n], stream[n + 1]) /\ f[n] \in Records
    BY <1>1, <2>1 DEF KeepLaw, N
  <2>3. CASE stream[n + 1] = <<>>
    BY <2>1, <2>2, <2>3 DEF Keep
  <2>4. CASE stream[n + 1] # <<>>
    <3>1. f[n + 1] = Append(f[n], stream[n + 1]) /\ stream[n + 1] \in Record
      BY <1>2, <2>1, <2>2, <2>4 DEF Keep
    <3>2. /\ Len(f[n + 1]) = Len(f[n]) + 1 /\ Len(f[n]) \in Nat
          /\ \A i \in 1..Len(f[n]) : f[n + 1][i] = f[n][i]
          /\ f[n + 1][Len(f[n]) + 1] = stream[n + 1]
      BY <2>2, <3>1, AppendProperties, LenProperties DEF Records
    <3>3. ASSUME NEW i \in 1..Len(f[n + 1]) PROVE f[n + 1][i] # <<>>
      <4>1. CASE i = Len(f[n]) + 1
        BY <2>4, <3>2, <4>1
      <4>2. CASE i # Len(f[n]) + 1
        <5>1. i \in 1..Len(f[n])
          BY <3>2, <4>2
        <5> QED
          BY <2>1, <3>2, <5>1
      <4> QED
        BY <4>1, <4>2
    <3> QED
      BY <3>3
  <2> QED
    BY <2>3, <2>4
<1>5. Nat \subseteq Fulls
  <2> HIDE DEF Fulls
  <2> QED
    BY <1>3, <1>4, SetInduction
<1>6. f[N] \in Records /\ Full(f[N])
  BY <1>1, <1>2, <1>5 DEF KeepLaw, N
<1> QED
  BY <1>1, <1>6

-----------------------------------------------------------------------------
(* One member. *)

\* A row of a record: its fields, and only those added or dropped that may be.
RowFits(row, record, width, options) ==
    /\ Len(row) = width
    /\ \A f \in 1..width : row[f] = IF f <= Len(record) THEN record[f] ELSE NoText
    /\ Len(record) < width => options.row_width \in {"pad", "pad_or_truncate"}
    /\ Len(record) > width => \/ Explicit(options)
                              \/ options.row_width \in {"truncate", "pad_or_truncate"}

\* A row for each record.
Fits(rows, data, width, options) ==
    Len(rows) = Len(data) /\ \A r \in DOMAIN data : RowFits(rows[r], data[r], width, options)

\* _fit_row() makes a row of the record, or none.
LEMMA FittedRow ==
    ASSUME NEW record \in Record, NEW width \in Nat \ {0}, NEW options \in Options
    PROVE  LET row == _fit_row(record, width, options)
           IN row \in Record /\ (row # <<>> => RowFits(row, record, width, options))
<1> DEFINE row == _fit_row(record, width, options)
           padding == [i \in 1..(width - Len(record)) |-> NoText]
<1>1. Len(record) \in Nat /\ <<>> \in Record /\ width \in Nat
  BY LenProperties DEF Record
<1>2. CASE Len(record) = width
  <2>1. row = record
    BY <1>1, <1>2 DEF _fit_row
  <2> HIDE DEF row
  <2> QED
    BY <1>1, <1>2, <2>1 DEF RowFits, row
<1>3. CASE Len(record) > width
  <2> DEFINE cuts == Explicit(options) \/ options.row_width \in {"truncate", "pad_or_truncate"}
  <2>1. row = IF cuts THEN SubSeq(record, 1, width) ELSE <<>>
    BY <1>1, <1>3 DEF _fit_row
  <2>2. /\ SubSeq(record, 1, width) \in Record /\ Len(SubSeq(record, 1, width)) = width
        /\ \A f \in 1..width : SubSeq(record, 1, width)[f] = record[f]
    BY <1>1, <1>3 DEF Record
  <2>3. CASE cuts
    <3> HIDE DEF row
    <3>1. row = SubSeq(record, 1, width)
      BY <2>1, <2>3
    <3>2. \A f \in 1..width : row[f] = IF f <= Len(record) THEN record[f] ELSE NoText
      BY <1>1, <1>3, <2>2, <3>1
    <3> QED
      BY <1>1, <1>3, <2>2, <2>3, <3>1, <3>2 DEF RowFits, row
  <2>4. CASE ~cuts
    <3>1. row = <<>>
      BY <2>1, <2>4
    <3> QED
      BY <1>1, <3>1
  <2> QED
    BY <2>3, <2>4
<1>4. CASE Len(record) < width
  <2> DEFINE pads == options.row_width \in {"pad", "pad_or_truncate"}
  <2>1. row = IF pads THEN record \o padding ELSE <<>>
    BY <1>1, <1>4 DEF _fit_row
  <2>2. padding \in Record /\ Len(padding) = width - Len(record)
    <3>1. padding \in [1..(width - Len(record)) -> Field] /\ width - Len(record) \in Nat
      BY <1>1, <1>4 DEF Field
    <3> HIDE DEF padding
    <3> QED
      BY <3>1 DEF Record
  <2>3. /\ record \o padding \in Record /\ Len(record \o padding) = width
        /\ \A f \in 1..width :
             (record \o padding)[f] = IF f <= Len(record) THEN record[f]
                                      ELSE padding[f - Len(record)]
    <3> HIDE DEF padding
    <3> QED
      BY <1>1, <1>4, <2>2, ConcatProperties DEF Record
  <2>4. \A f \in 1..width : f > Len(record) => padding[f - Len(record)] = NoText
    BY <1>1
  <2>5. CASE pads
    <3>1. row = record \o padding
      BY <2>1, <2>5
    <3> HIDE DEF row, padding
    <3>2. \A f \in 1..width : row[f] = IF f <= Len(record) THEN record[f] ELSE NoText
      BY <1>1, <2>3, <2>4, <3>1
    <3> QED
      BY <1>1, <1>4, <2>3, <2>5, <3>1, <3>2 DEF RowFits, row
  <2>6. CASE ~pads
    <3>1. row = <<>>
      BY <2>1, <2>6
    <3> QED
      BY <1>1, <3>1
  <2> QED
    BY <2>5, <2>6
<1> QED
  BY <1>1, <1>2, <1>3, <1>4

Headers == Record \cup Seq(Nat)
Errors  == {"none", "header", "row", "cannot be inferred", "mismatch"}
Tables  == [header : Headers, rows : Records, error : Errors]

\* Whether a member has a header, and its records that are data.
Usable(stream, options) == Explicit(options) \/ _iter_records(stream) # <<>>

DataOf(stream, options) ==
    LET records == _iter_records(stream)
    IN IF options.header /\ records # <<>> THEN Tail(records) ELSE records

\* What _iter_parsed() returns.
ParsedLaw(member, stream, options) ==
    /\ member \in Tables /\ DataOf(stream, options) \in Records
    /\ member.error \in {"none", "header", "row", "cannot be inferred"}
    /\ member.error = "cannot be inferred" <=> ~Usable(stream, options)
    /\ ~Usable(stream, options) => DataOf(stream, options) = <<>>
    /\ Usable(stream, options) =>
         /\ member.error = "header" =>
              ~Explicit(options) /\ ~_validate_columns(HeaderOf(stream, options))
         /\ member.error # "header" =>
              member.header = HeaderOf(stream, options) /\ member.header # <<>>
    /\ member.error = "none" =>
         Fits(member.rows, DataOf(stream, options), Len(member.header), options)

\* A member is a table of its header and a row for each of its records that are data.
LEMMA ParsedMember ==
    ASSUME NEW stream \in Records, NEW options \in Options
    PROVE  ParsedLaw(_iter_parsed(stream, options), stream, options)
<1> DEFINE records == _iter_records(stream)
           data    == DataOf(stream, options)
           header  == HeaderOf(stream, options)
           rows    == [i \in DOMAIN data |-> _fit_row(data[i], Len(header), options)]
           member  == _iter_parsed(stream, options)
<1>1. records \in Records /\ \A i \in 1..Len(records) : records[i] # <<>>
  BY RecordsHaveFields
<1>2. options.header \in BOOLEAN /\ options.columns \in Record
  <2>1. <<>> \in Record
    BY DEF Record
  <2> QED
    BY <2>1 DEF Options, CsvReadOptions
<1>3. data = IF options.header /\ records # <<>> THEN Tail(records) ELSE records
  BY DEF DataOf
<1>4. header = IF Explicit(options) THEN options.columns
               ELSE IF options.header THEN Head(records)
               ELSE NumberedColumns(Len(Head(records)))
  BY DEF HeaderOf
<1>5. member = IF ~Explicit(options) /\ records = <<>>
                 THEN [header |-> <<>>, rows |-> <<>>, error |-> "cannot be inferred"]
               ELSE IF ~Explicit(options) /\ options.header /\ ~_validate_columns(header)
                 THEN [header |-> <<>>, rows |-> <<>>, error |-> "header"]
               ELSE [header |-> header, rows |-> rows,
                     error |-> IF \E i \in DOMAIN rows : rows[i] = <<>> THEN "row" ELSE "none"]
  BY DEF _iter_parsed, HeaderOf, DataOf
<1> HIDE DEF records, data, header, member
<1>6. data \in Records /\ (records = <<>> => data = <<>>)
  <2>1. records # <<>> => Tail(records) \in Records
    BY <1>1 DEF Records
  <2> QED
    BY <1>1, <1>3, <2>1
<1>7. Usable(stream, options) <=> Explicit(options) \/ records # <<>>
  BY DEF Usable, records
<1>8. CASE ~Usable(stream, options)
  <2>1. member = [header |-> <<>>, rows |-> <<>>, error |-> "cannot be inferred"] /\ data = <<>>
    BY <1>5, <1>6, <1>7, <1>8
  <2>2. <<>> \in Headers /\ <<>> \in Records
    BY DEF Headers, Record, Records
  <2>3. member \in Tables
    BY <2>1, <2>2 DEF Tables, Errors
  <2>4. member.error = "cannot be inferred"
    BY <2>1
  <2> QED
    BY <1>8, <2>1, <2>2, <2>3, <2>4 DEF ParsedLaw, member, data
<1>9. CASE Usable(stream, options)
  <2>1. header \in Headers /\ header # <<>>
    <3>1. CASE Explicit(options)
      BY <1>2, <1>4, <3>1 DEF Explicit, Headers
    <3>2. CASE ~Explicit(options)
      <4>1. Len(records) \in Nat /\ records # <<>>
        BY <1>1, <1>7, <1>9, <3>2 DEF Records
      <4>2. Head(records) \in Record /\ Head(records) # <<>>
        <5>1. 1 \in 1..Len(records) /\ Head(records) = records[1]
          BY <1>1, <4>1, EmptySeq DEF Records
        <5>2. records[1] \in Record
          BY <1>1, <5>1, ElementOfSeq DEF Records
        <5> QED
          BY <1>1, <5>1, <5>2
      <4>3. CASE options.header
        BY <1>4, <3>2, <4>2, <4>3 DEF Headers
      <4>4. CASE ~options.header
        <5>1. Len(Head(records)) \in Nat /\ Len(Head(records)) # 0
          BY <4>2, EmptySeq, LenProperties DEF Record
        <5>2. header = [i \in 1..Len(Head(records)) |-> i]
          BY <1>4, <3>2, <4>4 DEF NumberedColumns
        <5>3. header \in [1..Len(Head(records)) -> Nat]
          BY <5>1, <5>2
        <5>4. header \in Seq(Nat) /\ Len(header) = Len(Head(records))
          BY <5>1, <5>3
        <5>5. header # <<>>
          BY <5>1, <5>4
        <5> QED
          BY <5>4, <5>5 DEF Headers
      <4> QED
        BY <1>2, <4>3, <4>4
    <3> QED
      BY <3>1, <3>2
  <2>2. Len(header) \in Nat \ {0}
    <3>1. CASE header \in Record
      BY <2>1, <3>1, LenProperties, EmptySeq DEF Record
    <3>2. CASE header \in Seq(Nat)
      BY <2>1, <3>2, LenProperties, EmptySeq
    <3> QED
      BY <2>1, <3>1, <3>2 DEF Headers
  <2>3. /\ DOMAIN data = 1..Len(data) /\ Len(data) \in Nat
        /\ \A i \in 1..Len(data) : data[i] \in Record
    BY <1>6, LenProperties, ElementOfSeq DEF Records
  <2>4. ASSUME NEW i \in 1..Len(data)
        PROVE  /\ _fit_row(data[i], Len(header), options) \in Record
               /\ _fit_row(data[i], Len(header), options) # <<>> =>
                    RowFits(_fit_row(data[i], Len(header), options), data[i], Len(header), options)
    <3>1. data[i] \in Record
      BY <2>3
    <3> QED
      BY <2>2, <3>1, FittedRow
  <2>5. rows = [i \in 1..Len(data) |-> _fit_row(data[i], Len(header), options)]
    BY <2>3
  <2>6. rows \in [1..Len(data) -> Record]
    BY <2>4, <2>5
  <2>7. rows \in Records /\ Len(rows) = Len(data) /\ DOMAIN rows = 1..Len(data)
    <3> HIDE DEF rows
    <3> QED
      BY <2>3, <2>6 DEF Records
  <2>8. ASSUME \A i \in DOMAIN rows : rows[i] # <<>> PROVE Fits(rows, data, Len(header), options)
    <3>1. \A i \in 1..Len(data) : RowFits(rows[i], data[i], Len(header), options)
      BY <2>4, <2>5, <2>7, <2>8
    <3> HIDE DEF rows
    <3> QED
      BY <2>3, <2>7, <3>1 DEF Fits
  <2> HIDE DEF rows
  <2>9. CASE ~Explicit(options) /\ options.header /\ ~_validate_columns(header)
    <3>1. member = [header |-> <<>>, rows |-> <<>>, error |-> "header"]
      BY <1>5, <1>7, <1>9, <2>9
    <3>2. <<>> \in Headers /\ <<>> \in Records
      BY DEF Headers, Record, Records
    <3>3. member \in Tables
      BY <3>1, <3>2 DEF Tables, Errors
    <3> QED
      BY <1>6, <1>9, <2>9, <3>1, <3>3 DEF ParsedLaw, member, data, header
  <2>10. CASE ~(~Explicit(options) /\ options.header /\ ~_validate_columns(header))
    <3> DEFINE error == IF \E i \in DOMAIN rows : rows[i] = <<>> THEN "row" ELSE "none"
    <3>1. member = [header |-> header, rows |-> rows, error |-> error]
      BY <1>5, <1>7, <1>9, <2>10
    <3>2. error \in {"row", "none"} /\ (error = "none" => \A i \in DOMAIN rows : rows[i] # <<>>)
      OBVIOUS
    <3> HIDE DEF error
    <3>3. member \in Tables
      BY <2>1, <2>7, <3>1, <3>2 DEF Tables, Errors
    <3>4. member.error = error /\ member.header = header /\ member.rows = rows
      BY <3>1
    <3>5. member.error = "none" => Fits(member.rows, data, Len(member.header), options)
      BY <2>8, <3>2, <3>4
    <3> QED
      BY <1>6, <1>9, <2>1, <3>2, <3>3, <3>4, <3>5 DEF ParsedLaw, member, data, header
  <2> QED
    BY <2>9, <2>10
<1> QED
  BY <1>8, <1>9

-----------------------------------------------------------------------------
(* All members. *)

\* The first n of some sequences as one.
FlatLaw(f, seqs) ==
    /\ f \in [0..Len(seqs) -> Records] /\ f[0] = <<>>
    /\ \A n \in 1..Len(seqs) : f[n] = f[n - 1] \o seqs[n]

\* There is one.
LEMMA FlatSolution ==
    ASSUME NEW seqs \in Seq(Records)
    PROVE  \E f : FlatLaw(f, seqs)
<1> DEFINE N == Len(seqs)
           step == [x \in Records \X (1..N) |-> x[1] \o seqs[x[2]]]
<1>1. N \in Nat /\ \A n \in 1..N : seqs[n] \in Records
  BY LenProperties, ElementOfSeq
<1>2. ASSUME NEW s \in Records, NEW n \in 1..N PROVE s \o seqs[n] \in Records
  <2>1. seqs[n] \in Records
    BY <1>1
  <2> QED
    BY <2>1, ConcatProperties DEF Records
<1>3. step \in [Records \X (1..N) -> Records]
  <2> HIDE DEF N
  <2> QED
    BY <1>2
<1>4. <<>> \in Records
  BY DEF Records
<1>5. PICK f : f \in Solutions(N, Records, <<>>, step)
  <2> HIDE DEF step, N
  <2> QED
    BY <1>1, <1>3, <1>4, RecursionHasSolution
<1>6. /\ f \in [0..N -> Records] /\ f[0] = <<>>
      /\ \A n \in 1..N : f[n] = step[<<f[n - 1], n>>]
  <2> HIDE DEF step, N
  <2> QED
    BY <1>5 DEF Solutions
<1>7. ASSUME NEW n \in 1..N PROVE f[n] = f[n - 1] \o seqs[n]
  <2>1. n - 1 \in 0..N
    BY <1>1
  <2>2. <<f[n - 1], n>> \in Records \X (1..N)
    BY <1>6, <2>1
  <2> QED
    BY <1>6, <2>2
<1> QED
  BY <1>6, <1>7 DEF FlatLaw

\* FlattenSeq() is all of them as one.
LEMMA FlattenEquation ==
    ASSUME NEW seqs \in Seq(Records)
    PROVE  \E f : FlatLaw(f, seqs) /\ FlattenSeq(seqs) = f[Len(seqs)]
<1> DEFINE N == Len(seqs)
           body(g) == [i \in 1..N |-> IF i = 1 THEN seqs[i] ELSE g[i - 1] \o seqs[i]]
           flatten == CHOOSE g : g = body(g)
<1>1. N \in Nat /\ \A n \in 1..N : seqs[n] \in Records
  BY LenProperties, ElementOfSeq
<1>2. PICK f : FlatLaw(f, seqs)
  BY FlatSolution
<1>3. /\ f \in [0..N -> Records] /\ f[0] = <<>>
      /\ \A n \in 1..N : f[n] = f[n - 1] \o seqs[n]
  BY <1>2 DEF FlatLaw
<1>4. CASE N = 0
  <2>1. seqs = <<>>
    BY <1>4, EmptySeq
  <2>2. FlattenSeq(seqs) = seqs
    BY <1>4 DEF FlattenSeq
  <2> QED
    BY <1>2, <1>3, <1>4, <2>1, <2>2
<1>5. CASE N # 0
  <2>1. FlattenSeq(seqs) = flatten[N]
    BY <1>5 DEF FlattenSeq
  <2> DEFINE h == [i \in 1..N |-> f[i]]
  <2>2. h = body(h)
    <3>1. ASSUME NEW i \in 1..N
          PROVE  h[i] = IF i = 1 THEN seqs[i] ELSE h[i - 1] \o seqs[i]
      <4>1. h[i] = f[i - 1] \o seqs[i]
        BY <1>3
      <4>2. CASE i = 1
        <5>1. seqs[i] \in Records /\ f[i - 1] = <<>>
          BY <1>1, <1>3, <4>2
        <5>2. <<>> \o seqs[i] = seqs[i]
          BY <5>1, ConcatEmptySeq DEF Records
        <5> QED
          BY <4>1, <4>2, <5>1, <5>2
      <4>3. CASE i # 1
        <5>1. i - 1 \in 1..N
          BY <1>1, <4>3
        <5>2. h[i - 1] = f[i - 1]
          BY <5>1
        <5> QED
          BY <4>1, <4>3, <5>2
      <4> QED
        BY <4>2, <4>3
    <3>2. h = [i \in 1..N |-> h[i]]
      OBVIOUS
    <3> HIDE DEF h, N
    <3> QED
      BY <3>1, <3>2
  <2> HIDE DEF body
  <2>3. flatten = body(flatten)
    BY <2>2
  <2> HIDE DEF flatten, N
  <2>4. flatten = [i \in 1..N |-> IF i = 1 THEN seqs[i] ELSE flatten[i - 1] \o seqs[i]]
    BY <2>3 DEF body
  <2>5. \A i \in 1..N : flatten[i] = IF i = 1 THEN seqs[i] ELSE flatten[i - 1] \o seqs[i]
    BY <2>4
  <2> DEFINE Same == {n \in Nat : n \in 1..N => flatten[n] = f[n]}
  <2>6. 0 \in Same
    BY <1>1
  <2>7. ASSUME NEW n \in Nat, n \in Same PROVE n + 1 \in Same
    <3> SUFFICES ASSUME n + 1 \in 1..N PROVE flatten[n + 1] = f[n + 1]
      OBVIOUS
    <3>0. (n + 1) - 1 = n /\ seqs[n + 1] \in Records
      BY <1>1
    <3>1. (n + 1) - 1 = n /\ f[n + 1] = f[n] \o seqs[n + 1] /\ seqs[n + 1] \in Records
      BY <1>3, <3>0
    <3>2. CASE n = 0
      <4>1. flatten[n + 1] = seqs[n + 1]
        BY <2>5, <3>2
      <4>2. <<>> \o seqs[n + 1] = seqs[n + 1]
        BY <3>1, ConcatEmptySeq DEF Records
      <4> QED
        BY <1>3, <3>1, <3>2, <4>1, <4>2
    <3>3. CASE n # 0
      <4>1. n \in 1..N /\ n + 1 # 1
        BY <1>1, <3>3
      <4>2. flatten[n] = f[n]
        BY <2>7, <4>1
      <4>3. flatten[n + 1] = flatten[n] \o seqs[n + 1]
        BY <2>5, <3>1, <4>1
      <4> QED
        BY <3>1, <4>2, <4>3
    <3> QED
      BY <3>2, <3>3
  <2>8. Nat \subseteq Same
    <3> HIDE DEF Same
    <3> QED
      BY <2>6, <2>7, SetInduction
  <2>9. flatten[N] = f[N]
    BY <1>1, <1>5, <2>8
  <2> QED
    BY <1>2, <2>1, <2>9 DEF N
<1> QED
  BY <1>4, <1>5

\* A table and one member more is a table.
LEMMA AddMemberType ==
    ASSUME NEW table \in Tables, NEW stream \in Records, NEW options \in Options
    PROVE  AddMember(table, stream, options) \in Tables
<1> DEFINE member == _iter_parsed(stream, options)
<1>1. member \in Tables
  BY ParsedMember DEF ParsedLaw
<1>2. AddMember(table, stream, options) =
        IF table.error # "none" \/ member.error = "cannot be inferred" THEN table
        ELSE IF member.error = "header" THEN [table EXCEPT !.error = "header"]
        ELSE IF table.header = <<>> THEN member
        ELSE IF member.header # table.header THEN [table EXCEPT !.error = "mismatch"]
        ELSE [table EXCEPT !.rows = @ \o member.rows, !.error = member.error]
  BY DEF AddMember
<1> HIDE DEF member
<1>3. table.rows \o member.rows \in Records
  <2>1. table.rows \in Records /\ member.rows \in Records
    BY <1>1 DEF Tables
  <2> QED
    BY <2>1, ConcatProperties DEF Records
<1>4. /\ [table EXCEPT !.error = "header"] \in Tables
      /\ [table EXCEPT !.error = "mismatch"] \in Tables
  BY DEF Tables, Errors
<1>5. [table EXCEPT !.rows = @ \o member.rows, !.error = member.error] \in Tables
  BY <1>1, <1>3 DEF Tables
<1> QED
  BY <1>1, <1>2, <1>4, <1>5

\* The table of the first n members.
CombinedLaw(f, streams, options) ==
    /\ f \in [0..Len(streams) -> Tables] /\ f[0] = NoTable
    /\ \A n \in 1..Len(streams) : f[n] = AddMember(f[n - 1], streams[n], options)

\* There is one.
LEMMA CombinedSolution ==
    ASSUME NEW streams \in Seq(Records), NEW options \in Options
    PROVE  \E f : CombinedLaw(f, streams, options)
<1> DEFINE N == Len(streams)
           step == [x \in Tables \X (1..N) |-> AddMember(x[1], streams[x[2]], options)]
<1>1. N \in Nat /\ \A n \in 1..N : streams[n] \in Records
  BY LenProperties, ElementOfSeq
<1>2. ASSUME NEW t \in Tables, NEW n \in 1..N PROVE AddMember(t, streams[n], options) \in Tables
  <2>1. streams[n] \in Records
    BY <1>1
  <2> QED
    BY <2>1, AddMemberType
<1>3. step \in [Tables \X (1..N) -> Tables]
  <2> HIDE DEF N
  <2> QED
    BY <1>2
<1>4. NoTable \in Tables
  <2>1. <<>> \in Headers /\ <<>> \in Records
    BY DEF Headers, Record, Records
  <2> QED
    BY <2>1 DEF NoTable, Tables, Errors
<1>5. PICK f : f \in Solutions(N, Tables, NoTable, step)
  <2> HIDE DEF step, N
  <2> QED
    BY <1>1, <1>3, <1>4, RecursionHasSolution
<1>6. /\ f \in [0..N -> Tables] /\ f[0] = NoTable
      /\ \A n \in 1..N : f[n] = step[<<f[n - 1], n>>]
  <2> HIDE DEF step, N
  <2> QED
    BY <1>5 DEF Solutions
<1>7. ASSUME NEW n \in 1..N PROVE f[n] = AddMember(f[n - 1], streams[n], options)
  <2>1. n - 1 \in 0..N
    BY <1>1
  <2>2. <<f[n - 1], n>> \in Tables \X (1..N)
    BY <1>6, <2>1
  <2> QED
    BY <1>6, <2>2
<1> QED
  BY <1>6, <1>7 DEF CombinedLaw

\* _iter_combined() is the table of all members.
LEMMA CombinedEquation ==
    ASSUME NEW streams \in Seq(Records), NEW options \in Options
    PROVE  \E f : /\ CombinedLaw(f, streams, options)
                  /\ _iter_combined(streams, options) = Finished(f[Len(streams)])
<1> DEFINE N == Len(streams)
           body(g) == [n \in 0..N |-> IF n = 0 THEN NoTable
                                      ELSE AddMember(g[n - 1], streams[n], options)]
           combined == CHOOSE g : g = body(g)
<1>1. N \in Nat
  BY LenProperties
<1>2. _iter_combined(streams, options) = Finished(combined[N])
  BY DEF _iter_combined
<1>3. PICK f : CombinedLaw(f, streams, options)
  BY CombinedSolution
<1>4. /\ f \in [0..N -> Tables] /\ f[0] = NoTable
      /\ \A n \in 1..N : f[n] = AddMember(f[n - 1], streams[n], options)
  BY <1>3 DEF CombinedLaw
<1>5. f = body(f)
  <2>1. ASSUME NEW n \in 0..N
        PROVE  f[n] = IF n = 0 THEN NoTable ELSE AddMember(f[n - 1], streams[n], options)
    <3>1. CASE n = 0
      BY <1>4, <3>1
    <3>2. CASE n # 0
      <4>1. n \in 1..N
        BY <1>1, <3>2
      <4> QED
        BY <1>4, <3>2, <4>1
    <3> QED
      BY <3>1, <3>2
  <2>2. f = [n \in 0..N |-> f[n]]
    BY <1>4
  <2> HIDE DEF N
  <2> QED
    BY <2>1, <2>2
<1> HIDE DEF body
<1>6. combined = body(combined)
  BY <1>5
<1> HIDE DEF combined, N
<1>7. combined = [n \in 0..N |-> IF n = 0 THEN NoTable
                                 ELSE AddMember(combined[n - 1], streams[n], options)]
  BY <1>6 DEF body
<1>8. \A n \in 0..N : combined[n] = IF n = 0 THEN NoTable
                                   ELSE AddMember(combined[n - 1], streams[n], options)
  BY <1>7
<1> DEFINE Same == {n \in Nat : n <= N => combined[n] = f[n]}
<1>9. 0 \in Same
  <2>1. 0 \in 0..N
    BY <1>1
  <2> QED
    BY <1>4, <1>8, <2>1
<1>10. ASSUME NEW n \in Nat, n \in Same PROVE n + 1 \in Same
  <2> SUFFICES ASSUME n + 1 <= N PROVE combined[n + 1] = f[n + 1]
    OBVIOUS
  <2>1. n + 1 \in 0..N /\ n + 1 \in 1..N /\ n + 1 # 0 /\ (n + 1) - 1 = n /\ combined[n] = f[n]
    BY <1>1, <1>10
  <2>2. combined[n + 1] = AddMember(combined[n], streams[n + 1], options)
    BY <1>8, <2>1
  <2>3. f[n + 1] = AddMember(f[n], streams[n + 1], options)
    BY <1>4, <2>1
  <2> QED
    BY <2>1, <2>2, <2>3
<1>11. Nat \subseteq Same
  <2> HIDE DEF Same
  <2> QED
    BY <1>9, <1>10, SetInduction
<1>12. combined[N] = f[N]
  BY <1>1, <1>11
<1> QED
  BY <1>2, <1>3, <1>12 DEF N

\* Rows that fit their records still do when more are added on either side.
LEMMA FitsMore ==
    ASSUME NEW rows \in Records, NEW data \in Records, NEW more \in Records,
           NEW further \in Records, NEW width, NEW options,
           Fits(rows, data, width, options), Fits(more, further, width, options)
    PROVE  Fits(rows \o more, data \o further, width, options)
<1> DEFINE N == Len(data)
           M == Len(further)
<1>1. /\ N \in Nat /\ M \in Nat /\ Len(rows) = N /\ Len(more) = M
      /\ DOMAIN data = 1..N /\ DOMAIN further = 1..M
  BY LenProperties DEF Fits, Records
<1>2. /\ data \o further \in Records /\ Len(data \o further) = N + M
      /\ \A i \in 1..(N + M) : (data \o further)[i] = IF i <= N THEN data[i] ELSE further[i - N]
  BY ConcatProperties DEF Records
<1>3. /\ Len(rows \o more) = N + M
      /\ \A i \in 1..(N + M) : (rows \o more)[i] = IF i <= N THEN rows[i] ELSE more[i - N]
  <2> HIDE DEF N, M
  <2> QED
    BY <1>1, ConcatProperties DEF Records
<1>4. DOMAIN (data \o further) = 1..(N + M)
  BY <1>2, LenProperties DEF Records
<1>5. /\ \A i \in 1..N : RowFits(rows[i], data[i], width, options)
      /\ \A i \in 1..M : RowFits(more[i], further[i], width, options)
  BY <1>1 DEF Fits
<1> HIDE DEF N, M
<1>6. ASSUME NEW i \in 1..(N + M)
      PROVE  RowFits((rows \o more)[i], (data \o further)[i], width, options)
  <2>1. CASE i <= N
    <3>1. i \in 1..N /\ (rows \o more)[i] = rows[i] /\ (data \o further)[i] = data[i]
      BY <1>1, <1>2, <1>3, <2>1
    <3> QED
      BY <1>5, <3>1
  <2>2. CASE ~(i <= N)
    <3>1. /\ i - N \in 1..M
          /\ (rows \o more)[i] = more[i - N] /\ (data \o further)[i] = further[i - N]
      BY <1>1, <1>2, <1>3, <2>2
    <3> QED
      BY <1>5, <3>1
  <2> QED
    BY <2>1, <2>2
<1> QED
  BY <1>2, <1>3, <1>4, <1>6 DEF Fits

\* The usable ones of the first n members, and the reasons to refuse them.
UsableUpTo(streams, options, n) == {i \in 1..n : Usable(streams[i], options)}

Reason(streams, options, n) ==
    LET usable == UsableUpTo(streams, options, n)
    IN \/ \E i, j \in usable : HeaderOf(streams[i], options) # HeaderOf(streams[j], options)
       \/ \E i \in usable : ~Explicit(options) /\ ~_validate_columns(HeaderOf(streams[i], options))
       \/ \E i \in usable : _iter_parsed(streams[i], options).error = "row"

\* What the loop over the members has come to after n of them.
SoFar(table, data, streams, options, n) ==
    IF table.error = "none"
      THEN /\ Fits(table.rows, data, Len(table.header), options)
           /\ table.header = <<>> =>
                table.rows = <<>> /\ UsableUpTo(streams, options, n) = {}
           /\ table.header # <<>> =>
                /\ UsableUpTo(streams, options, n) # {}
                /\ \A i \in UsableUpTo(streams, options, n) :
                     HeaderOf(streams[i], options) = table.header
      ELSE Reason(streams, options, n)

\* A reason stays one.
LEMMA ReasonStays ==
    ASSUME NEW streams, NEW options, NEW n \in Nat, Reason(streams, options, n)
    PROVE  Reason(streams, options, n + 1)
<1>1. UsableUpTo(streams, options, n) \subseteq UsableUpTo(streams, options, n + 1)
  BY DEF UsableUpTo
<1> QED
  BY <1>1 DEF Reason

\* A usable member is one more.
LEMMA UsableOneMore ==
    ASSUME NEW streams, NEW options, NEW n \in Nat
    PROVE  UsableUpTo(streams, options, n + 1) =
             UsableUpTo(streams, options, n) \cup
               (IF Usable(streams[n + 1], options) THEN {n + 1} ELSE {})
<1>1. 1..(n + 1) = (1..n) \cup {n + 1}
  OBVIOUS
<1> QED
  BY <1>1 DEF UsableUpTo

\* The body of the loop.
LEMMA OneMemberMore ==
    ASSUME NEW streams, NEW options \in Options, NEW n \in Nat, NEW table \in Tables,
           NEW data \in Records, streams[n + 1] \in Records,
           SoFar(table, data, streams, options, n)
    PROVE  SoFar(AddMember(table, streams[n + 1], options),
                 data \o DataOf(streams[n + 1], options), streams, options, n + 1)
<1> DEFINE stream == streams[n + 1]
           member == _iter_parsed(stream, options)
           further == DataOf(stream, options)
           header == HeaderOf(stream, options)
           result == AddMember(table, stream, options)
<1> DEFINE before == UsableUpTo(streams, options, n)
           after  == UsableUpTo(streams, options, n + 1)
<1>1. ParsedLaw(member, stream, options)
  BY ParsedMember
<1>2. result =
        IF table.error # "none" \/ member.error = "cannot be inferred" THEN table
        ELSE IF member.error = "header" THEN [table EXCEPT !.error = "header"]
        ELSE IF table.header = <<>> THEN member
        ELSE IF member.header # table.header THEN [table EXCEPT !.error = "mismatch"]
        ELSE [table EXCEPT !.rows = @ \o member.rows, !.error = member.error]
  BY DEF AddMember
<1>3. after = before \cup (IF Usable(stream, options) THEN {n + 1} ELSE {})
  BY UsableOneMore
<1>4. /\ further \in Records /\ member \in Tables
      /\ DOMAIN table = {"header", "rows", "error"}
      /\ table.rows \in Records /\ member.rows \in Records
  BY <1>1 DEF ParsedLaw, Tables
<1> HIDE DEF stream, member, further, header, result, before, after
<1> USE DEF SoFar
<1>5. CASE table.error # "none"
  <2>1. Reason(streams, options, n) /\ result = table
    BY <1>2, <1>5
  <2> QED
    BY <1>5, <2>1, ReasonStays DEF result, stream
<1>6. CASE table.error = "none" /\ ~Usable(stream, options)
  <2>1. result = table /\ after = before /\ further = <<>>
    BY <1>1, <1>2, <1>3, <1>6 DEF ParsedLaw, further
  <2>2. data \o further = data
    BY <2>1, ConcatEmptySeq DEF Records
  <2>3. /\ Fits(table.rows, data, Len(table.header), options)
        /\ table.header = <<>> => table.rows = <<>> /\ before = {}
        /\ table.header # <<>> =>
             before # {} /\ \A i \in before : HeaderOf(streams[i], options) = table.header
    BY <1>6 DEF before
  <2>4. SoFar(table, data, streams, options, n + 1)
    BY <1>6, <2>1, <2>3 DEF after
  <2> QED
    BY <2>1, <2>2, <2>4 DEF result, stream, further
<1>7. CASE table.error = "none" /\ Usable(stream, options) /\ member.error = "header"
  <2>1. result.error = "header"
    BY <1>2, <1>4, <1>7
  <2>2. n + 1 \in after /\ ~Explicit(options) /\ ~_validate_columns(header)
    BY <1>1, <1>3, <1>7 DEF ParsedLaw, header
  <2>3. Reason(streams, options, n + 1)
    BY <2>2 DEF Reason, after, header, stream
  <2> QED
    BY <2>1, <2>3 DEF result, stream
<1>8. CASE table.error = "none" /\ Usable(stream, options) /\ member.error # "header"
  <2>1. /\ member.error \in {"none", "row"}
        /\ member.header = header /\ header # <<>>
        /\ member.error = "none" => Fits(member.rows, further, Len(header), options)
    BY <1>1, <1>8 DEF ParsedLaw, header, further
  <2>2. /\ Fits(table.rows, data, Len(table.header), options)
        /\ table.header = <<>> => table.rows = <<>> /\ before = {}
        /\ table.header # <<>> =>
             before # {} /\ \A i \in before : HeaderOf(streams[i], options) = table.header
    BY <1>8 DEF before
  <2>3. after = before \cup {n + 1} /\ n + 1 \in after
    BY <1>3, <1>8
  <2>4. member.error = "row" => Reason(streams, options, n + 1)
    BY <2>3 DEF Reason, after, member, stream
  <2>5. CASE table.header = <<>>
    <3>1. result = member
      BY <1>2, <1>8, <2>1, <2>5
    <3>2. CASE member.error = "row"
      BY <2>4, <3>1, <3>2 DEF result, stream
    <3>3. CASE member.error = "none"
      <4>1. data = <<>>
        <5>1. Len(data) = 0
          BY <2>2, <2>5 DEF Fits
        <5> QED
          BY <5>1, EmptySeq DEF Records
      <4>2. data \o further = further
        BY <1>4, <4>1, ConcatEmptySeq DEF Records
      <4>3. \A i \in after : HeaderOf(streams[i], options) = header
        BY <2>2, <2>3, <2>5 DEF header, stream
      <4>4. SoFar(member, further, streams, options, n + 1)
        BY <2>1, <2>3, <3>3, <4>3 DEF after
      <4> QED
        BY <3>1, <4>2, <4>4 DEF result, stream, further
    <3> QED
      BY <2>1, <3>2, <3>3
  <2>6. CASE table.header # <<>> /\ header # table.header
    <3>1. result.error = "mismatch"
      BY <1>2, <1>4, <1>8, <2>1, <2>6
    <3>2. PICK i \in before : HeaderOf(streams[i], options) = table.header
      BY <2>2, <2>6
    <3>3. i \in after /\ n + 1 \in after /\ HeaderOf(streams[i], options) # header
      BY <2>3, <2>6, <3>2
    <3>4. Reason(streams, options, n + 1)
      BY <3>3 DEF Reason, after, header, stream
    <3> QED
      BY <3>1, <3>4 DEF result, stream
  <2>7. CASE table.header # <<>> /\ header = table.header
    <3>1. result = [table EXCEPT !.rows = @ \o member.rows, !.error = member.error]
      BY <1>2, <1>8, <2>1, <2>7
    <3>2. /\ result.header = table.header /\ result.error = member.error
          /\ result.rows = table.rows \o member.rows
      BY <1>4, <3>1
    <3>3. CASE member.error = "row"
      BY <2>4, <3>2, <3>3 DEF result, stream
    <3>4. CASE member.error = "none"
      <4>1. Fits(table.rows \o member.rows, data \o further, Len(header), options)
        BY <1>4, <2>1, <2>2, <2>7, <3>4, FitsMore
      <4>2. \A i \in after : HeaderOf(streams[i], options) = header
        BY <2>2, <2>3, <2>7 DEF header, stream
      <4>3. SoFar(result, data \o further, streams, options, n + 1)
        BY <2>1, <2>3, <2>7, <3>2, <3>4, <4>1, <4>2 DEF after
      <4> QED
        BY <4>3 DEF result, stream, further
    <3> QED
      BY <2>1, <3>3, <3>4
  <2> QED
    BY <2>5, <2>6, <2>7
<1> QED
  BY <1>5, <1>6, <1>7, <1>8

\* The table that comes out is as decisions/0015 describes it, and no table comes out for
\* a reason it names only.
LEMMA CombinedAsDescribed ==
    ASSUME NEW streams \in Seq(Records), NEW options \in Options
    PROVE  /\ Describes(_iter_combined(streams, options), streams, options)
           /\ Refused(_iter_combined(streams, options), streams, options)
<1> DEFINE N == Len(streams)
           seqs == [i \in DOMAIN streams |-> DataOf(streams[i], options)]
           table == _iter_combined(streams, options)
           usable == UsableUpTo(streams, options, N)
<1>1. N \in Nat /\ DOMAIN streams = 1..N /\ \A n \in 1..N : streams[n] \in Records
  BY LenProperties, ElementOfSeq
<1>2. \A n \in 1..N : DataOf(streams[n], options) \in Records
  BY <1>1, ParsedMember DEF ParsedLaw
<1>3. seqs \in Seq(Records) /\ Len(seqs) = N /\ \A n \in 1..N : seqs[n] = DataOf(streams[n], options)
  <2> HIDE DEF N
  <2>1. seqs = [i \in 1..N |-> DataOf(streams[i], options)]
    BY <1>1
  <2> HIDE DEF seqs
  <2>2. seqs \in [1..N -> Records]
    BY <1>2, <2>1
  <2> QED
    BY <1>1, <2>1, <2>2
<1>4. PICK f : CombinedLaw(f, streams, options) /\ table = Finished(f[N])
  BY CombinedEquation
<1>5. PICK d : FlatLaw(d, seqs) /\ FlattenSeq(seqs) = d[N]
  <2> HIDE DEF seqs, N
  <2> QED
    BY <1>3, FlattenEquation
<1>6. DataRecords(streams, options) = d[N]
  BY <1>5 DEF DataRecords, DataOf
<1>7. UsableMembers(streams, options) = usable
  BY <1>1 DEF UsableMembers, UsableUpTo, Usable
<1> HIDE DEF seqs, N, table
<1>8. /\ f \in [0..N -> Tables] /\ f[0] = NoTable
      /\ \A n \in 1..N : f[n] = AddMember(f[n - 1], streams[n], options)
  BY <1>4 DEF CombinedLaw, N
<1>9. /\ d \in [0..N -> Records] /\ d[0] = <<>>
      /\ \A n \in 1..N : d[n] = d[n - 1] \o DataOf(streams[n], options)
  BY <1>3, <1>5 DEF FlatLaw
<1> DEFINE Good(n) == SoFar(f[n], d[n], streams, options, n)
           Goods == {n \in Nat : n <= N => Good(n)}
<1>10. 0 \in Goods
  <2>1. /\ NoTable.error = "none" /\ NoTable.rows = <<>> /\ NoTable.header = <<>>
        /\ UsableUpTo(streams, options, 0) = {}
    BY DEF NoTable, UsableUpTo
  <2>2. Fits(<<>>, <<>>, Len(NoTable.header), options)
    BY DEF Fits
  <2> QED
    BY <1>8, <1>9, <2>1, <2>2 DEF SoFar
<1>11. ASSUME NEW n \in Nat, n \in Goods PROVE n + 1 \in Goods
  <2> SUFFICES ASSUME n + 1 <= N PROVE Good(n + 1)
    OBVIOUS
  <2>1. n + 1 \in 1..N /\ (n + 1) - 1 = n /\ n \in 0..N
    BY <1>1
  <2>2. Good(n)
    BY <1>1, <1>11, <2>1
  <2>3. /\ f[n] \in Tables /\ d[n] \in Records /\ streams[n + 1] \in Records
        /\ f[n + 1] = AddMember(f[n], streams[n + 1], options)
        /\ d[n + 1] = d[n] \o DataOf(streams[n + 1], options)
    <3>1. f[n + 1] = AddMember(f[n], streams[n + 1], options)
      BY <1>8, <2>1
    <3>2. d[n + 1] = d[n] \o DataOf(streams[n + 1], options)
      BY <1>9, <2>1
    <3> QED
      BY <1>1, <1>8, <1>9, <2>1, <3>1, <3>2
  <2>4. SoFar(AddMember(f[n], streams[n + 1], options),
              d[n] \o DataOf(streams[n + 1], options), streams, options, n + 1)
    BY <2>2, <2>3, OneMemberMore
  <2> QED
    BY <2>3, <2>4
<1>12. Nat \subseteq Goods
  <2> HIDE DEF Goods
  <2> QED
    BY <1>10, <1>11, SetInduction
<1>13. Good(N) /\ f[N] \in Tables /\ d[N] \in Records
  BY <1>1, <1>8, <1>9, <1>12
<1> HIDE DEF Good, Goods
<1>14. CASE f[N].error # "none"
  <2>1. table = f[N]
    BY <1>4, <1>14 DEF Finished
  <2>2. Reason(streams, options, N)
    BY <1>13, <1>14 DEF Good, SoFar
  <2>3. Refused(table, streams, options)
    BY <1>7, <2>2 DEF Refused, Reason
  <2>4. Describes(table, streams, options)
    BY <1>14, <2>1 DEF Describes
  <2> QED
    BY <2>3, <2>4 DEF table
<1>15. CASE f[N].error = "none" /\ f[N].header = <<>>
  <2>1. table = [f[N] EXCEPT !.error = "cannot be inferred"]
    BY <1>4, <1>15 DEF Finished
  <2>2. table.error = "cannot be inferred"
    BY <1>13, <2>1 DEF Tables
  <2>3. usable = {}
    BY <1>13, <1>15 DEF Good, SoFar
  <2>4. Refused(table, streams, options)
    BY <1>7, <2>3 DEF Refused
  <2>5. Describes(table, streams, options)
    BY <2>2 DEF Describes
  <2> QED
    BY <2>4, <2>5 DEF table
<1>16. CASE f[N].error = "none" /\ f[N].header # <<>>
  <2>1. table = f[N]
    BY <1>4, <1>16 DEF Finished
  <2>2. /\ Fits(table.rows, d[N], Len(table.header), options)
        /\ usable # {} /\ \A i \in usable : HeaderOf(streams[i], options) = table.header
    BY <1>13, <1>16, <2>1 DEF Good, SoFar
  <2>3. Refused(table, streams, options)
    BY <1>16, <2>1 DEF Refused
  <2>4. Describes(table, streams, options)
    <3> HIDE DEF usable
    <3> QED
      BY <1>6, <1>7, <2>2 DEF Describes, Fits, RowFits
  <2> QED
    BY <2>3, <2>4 DEF table
<1> QED
  BY <1>14, <1>15, <1>16

-----------------------------------------------------------------------------
(* The tables of a task. *)

\* A task's files and options are of the kind that the lemmas above are about.
LEMMA StreamsOfFiles ==
    ASSUME TypeOK, NEW sources \in FileSeqs
    PROVE  /\ layout.options \in Options
           /\ [i \in DOMAIN sources |-> Stream(sources[i])] \in Seq(Records)
<1>1. Seq(STRING) \subseteq Record /\ <<>> \in Record /\ Seq(Seq(STRING)) \subseteq Records
  <2>1. STRING \subseteq Field
    BY DEF Field
  <2>2. Seq(STRING) \subseteq Record
    BY <2>1, SeqMonotonic DEF Record
  <2>3. Seq(Seq(STRING)) \subseteq Records
    BY <2>2, SeqMonotonic DEF Records
  <2> QED
    BY <2>2, <2>3 DEF Record
<1>2. /\ layout.options \in CsvReadOptions(Seq(STRING))
      /\ layout.contents \in [Names -> [Versions -> Seq(Seq(STRING))]]
  BY FilesAssumption DEF TypeOK
<1>3. layout.options \in Options
  BY <1>1, <1>2 DEF Options, CsvReadOptions
<1>4. /\ Len(sources) \in Nat /\ DOMAIN sources = 1..Len(sources)
      /\ \A i \in 1..Len(sources) : sources[i] \in SelectedFiles
  BY LenProperties, ElementOfSeq DEF FileSeqs
<1>5. ASSUME NEW i \in 1..Len(sources) PROVE Stream(sources[i]) \in Records
  <2>1. sources[i].name \in Names /\ sources[i].version \in Versions
    BY <1>4 DEF SelectedFiles
  <2>2. Stream(sources[i]) \in Seq(Seq(STRING))
    BY <1>2, <2>1 DEF Stream
  <2> QED
    BY <1>1, <2>2
<1> DEFINE streams == [i \in DOMAIN sources |-> Stream(sources[i])]
<1>6. streams \in [1..Len(sources) -> Records]
  BY <1>4, <1>5
<1>7. streams \in Seq(Records)
  <2> HIDE DEF streams
  <2> QED
    BY <1>4, <1>6
<1> QED
  BY <1>3, <1>7

\* What is read of the files is all that matters to a table.
LEMMA TypedTablesAsDescribed == TypeOK => TablesAsDescribed
<1> SUFFICES ASSUME TypeOK, NEW p \in Pipelines, NEW k \in layout.uses[p] \cap CsvKeys
             PROVE  /\ published[p][k] # <<>> =>
                         LET streams == [i \in DOMAIN published[p][k] |-> Stream(published[p][k][i])]
                         IN Describes(_iter_combined(streams, layout.options), streams, layout.options)
                    /\ pc = "pipelines" /\ chosen[k] # None =>
                         LET streams == [i \in DOMAIN chosen[k] |-> Stream(chosen[k][i])]
                         IN Refused(_iter_combined(streams, layout.options), streams, layout.options)
  BY DEF TablesAsDescribed
<1>1. k \in Keys
  BY DEF CsvKeys
<1>2. published[p][k] \in FileSeqs /\ (chosen[k] # None => chosen[k] \in FileSeqs)
  BY <1>1 DEF TypeOK
<1> DEFINE StreamsOf(sources) == [i \in DOMAIN sources |-> Stream(sources[i])]
<1>3. ASSUME NEW sources \in FileSeqs
      PROVE  LET streams == StreamsOf(sources)
             IN /\ Describes(_iter_combined(streams, layout.options), streams, layout.options)
                /\ Refused(_iter_combined(streams, layout.options), streams, layout.options)
  <2>1. layout.options \in Options /\ StreamsOf(sources) \in Seq(Records)
    BY StreamsOfFiles
  <2> HIDE DEF StreamsOf
  <2> QED
    BY <2>1, CombinedAsDescribed
<1>4. Describes(_iter_combined(StreamsOf(published[p][k]), layout.options),
                StreamsOf(published[p][k]), layout.options)
  BY <1>2, <1>3
<1>5. chosen[k] # None =>
        Refused(_iter_combined(StreamsOf(chosen[k]), layout.options),
                StreamsOf(chosen[k]), layout.options)
  BY <1>2, <1>3
<1> QED
  BY <1>4, <1>5

-----------------------------------------------------------------------------
(* The theorems. *)

\* The parts of the invariant hold in every state.
THEOREM Inductive == Spec => []IInv
<1>1. Init => IInv
  BY InitIInv
<1>2. IInv /\ [Next]_vars => IInv'
  BY StepIInv
<1>3. QED
  BY <1>1, <1>2, PTL DEF Spec

\* A table and the signature stored with it are of the same files, in the same order: a
\* member that is gone when it is read fails the run.
THEOREM TableAndSignatureAgree == Spec => []SameFiles
<1>1. IInv => SameFiles
  BY DEF IInv
<1>2. QED
  BY <1>1, Inductive, PTL

\* When the comparison of sources_unchanged() ends a run, the live tables were read from
\* the very versions the run has selected.
THEOREM SkippedRunsHaveNothingToDo == Spec => []SkipIsJustified
BY SkippedIsJustified, Inductive, PTL

\* A run over a directory that nobody touched is skipped, whatever the order in which the
\* directory is listed to select_latest_file() and to the sort of a folder's files.
THEOREM UntouchedSourcesAreSkipped == Spec => []NoSpuriousRun
BY UntouchedIsSkipped, Inductive, PTL

\* A published CSV table has the header all its usable members agree on and one row for each
\* record of theirs that is data, changed only as the options allow; _iter_combined()
\* refuses a set only for the reasons of decisions/0015, whatever its members contain.
THEOREM TablesAreAsDescribed == Spec => []TablesAsDescribed
<1>1. IInv => TablesAsDescribed
  BY TypedTablesAsDescribed DEF IInv
<1>2. QED
  BY <1>1, Inductive, PTL
=============================================================================
