------------------------ MODULE SearchCoverageProofs ------------------------
(***************************************************************************)
(* What TLAPS proves about SearchCommit and SearchCoverage, for every      *)
(* number of threads, records, fields and texts, every size of a batch,    *)
(* and every bound.                                                        *)
(***************************************************************************)
EXTENDS SearchCoverage, FiniteSetTheorems, TLAPS

-----------------------------------------------------------------------------
(* SearchCommit: the backlog of uncommitted calls                          *)

\* Threads that have added documents and not counted them yet
Counting == {t \in Indexers : pc[t] = "count"}

CommitType ==
  /\ writer \in Threads \cup {Nobody}
  /\ pending \in Indexers \cup {Nobody}
  /\ count \in Nat /\ uncommitted \in Nat
  /\ pc \in [Threads -> {"idle", "count", "commit", "reset"}]

\* Who is inside maybe_commit or commit holds the lock that it takes first
LocksHeld ==
  \A t \in Threads :
    /\ pc[t] = "count" => t \in Indexers
    /\ pc[t] = "commit" <=> pending = t
    /\ pc[t] = "reset" => writer = t

\* Between two steps the writer is only held by a commit that has just made
\* everything durable.  The count is behind by the calls that are about to be
\* counted, and full only in the hands of the thread that will reset it.
Backlog ==
  /\ writer # Nobody => uncommitted = 0
  /\ IF pending = Nobody THEN count < BatchSize ELSE count <= BatchSize
  /\ uncommitted <= count + Cardinality(Counting)

CommitInv == CommitType /\ LocksHeld /\ Backlog

LEMMA NobodyIsNone == Nobody \notin Threads /\ Nobody \notin Indexers
  BY CommitAssumption DEF Threads

LEMMA CountingFinite ==
  ASSUME NEW S \in SUBSET Indexers
  PROVE  IsFiniteSet(S) /\ Cardinality(S) \in Nat
  BY CommitAssumption, FS_Subset, FS_CardinalityType

LEMMA CommitInit == Init => CommitInv
  <1> SUFFICES ASSUME Init PROVE CommitInv
    OBVIOUS
  <1>1. Cardinality(Counting) \in Nat
    BY CountingFinite DEF Counting
  <1> QED
    BY <1>1, CommitAssumption DEF Init, CommitInv, CommitType, LocksHeld, Backlog, Threads

LEMMA AddKeeps ==
  ASSUME CommitInv, NEW t \in Indexers, Add(t)
  PROVE  CommitInv'
  <1>1. t \in Threads /\ t # Nobody
    BY CommitAssumption DEF Threads
  <1>2. CommitType' /\ LocksHeld'
    BY <1>1 DEF CommitInv, CommitType, LocksHeld, Add, Goto
  <1>3. Counting' = Counting \cup {t} /\ t \notin Counting
    BY <1>1 DEF CommitInv, CommitType, Counting, Add, Goto
  <1>4. /\ Cardinality(Counting') = Cardinality(Counting) + 1
        /\ Cardinality(Counting) \in Nat
    BY <1>3, CountingFinite, FS_AddElement DEF Counting
  <1>5. Backlog'
    BY <1>4, CommitAssumption DEF CommitInv, CommitType, Backlog, Add
  <1> QED
    BY <1>2, <1>5 DEF CommitInv

LEMMA CountKeeps ==
  ASSUME CommitInv, NEW t \in Indexers, CountAndCommit(t) \/ CountOnly(t)
  PROVE  CommitInv'
  <1>1. t \in Threads /\ t # Nobody
    BY CommitAssumption DEF Threads
  <1>a. pc[t] = "count" /\ pending = Nobody /\ writer' = writer
    BY DEF CountAndCommit, CountOnly
  <1>b. \/ pc' = [pc EXCEPT ![t] = "commit"] /\ pending' = t
        \/ pc' = [pc EXCEPT ![t] = "idle"] /\ pending' = pending
    BY DEF CountAndCommit, CountOnly, Goto
  <1>c. count' = count + 1 /\ uncommitted' = uncommitted
    BY DEF CountAndCommit, CountOnly
  <1>2. CommitType' /\ LocksHeld'
    BY <1>1, <1>a, <1>b, <1>c, NobodyIsNone DEF CommitInv, CommitType, LocksHeld
  <1>3. Counting' = Counting \ {t} /\ t \in Counting
    BY <1>1, <1>a, <1>b DEF CommitInv, CommitType, Counting, Threads
  <1>4. /\ Cardinality(Counting') = Cardinality(Counting) - 1
        /\ Cardinality(Counting) \in Nat
    BY <1>3, CountingFinite, FS_RemoveElement DEF Counting
  <1>5. Backlog'
    BY <1>1, <1>4, CommitAssumption
    DEF CommitInv, CommitType, Backlog, CountAndCommit, CountOnly
  <1> QED
    BY <1>2, <1>5 DEF CommitInv

LEMMA CommitKeeps ==
  ASSUME CommitInv,
         \/ \E t \in Indexers : MaybeCommit(t)
         \/ \E t \in Committers : Commit(t) \/ ResetCount(t)
  PROVE  CommitInv'
  <1>1. PICK t \in Threads : MaybeCommit(t) \/ Commit(t) \/ ResetCount(t)
    BY DEF Threads
  <1>2. t # Nobody
    BY CommitAssumption DEF Threads
  <1>3. CommitType' /\ LocksHeld'
    <2>1. CASE MaybeCommit(t)
      BY <1>2, <2>1, NobodyIsNone DEF CommitInv, CommitType, LocksHeld, MaybeCommit, Goto
    <2>2. CASE Commit(t)
      BY <1>2, <2>2, NobodyIsNone DEF CommitInv, CommitType, LocksHeld, Commit, Goto
    <2>3. CASE ResetCount(t)
      BY <1>2, <2>3, NobodyIsNone DEF CommitInv, CommitType, LocksHeld, ResetCount, Goto
    <2> QED
      BY <1>1, <2>1, <2>2, <2>3
  <1>4. Counting' = Counting
    BY <1>1 DEF CommitInv, CommitType, Counting, MaybeCommit, Commit, ResetCount, Goto, Threads
  <1>5. Cardinality(Counting) \in Nat
    BY CountingFinite DEF Counting
  <1>6. Backlog'
    BY <1>1, <1>2, <1>4, <1>5, CommitAssumption
    DEF CommitInv, CommitType, LocksHeld, Backlog, MaybeCommit, Commit, ResetCount
  <1> QED
    BY <1>3, <1>6 DEF CommitInv

LEMMA CommitStep == CommitInv /\ [Next]_vars => CommitInv'
  <1> SUFFICES ASSUME CommitInv, [Next]_vars PROVE CommitInv'
    OBVIOUS
  <1>1. CASE \E t \in Indexers : IndexerStep(t)
    BY <1>1, AddKeeps, CountKeeps, CommitKeeps DEF IndexerStep
  <1>2. CASE \E t \in Committers : CommitterStep(t)
    BY <1>2, CommitKeeps DEF CommitterStep
  <1>3. CASE UNCHANGED vars
    BY <1>3 DEF vars, CommitInv, CommitType, LocksHeld, Backlog, Counting
  <1> QED
    BY <1>1, <1>2, <1>3 DEF Next

LEMMA CommitBound == CommitInv => UncommittedBounded
  <1> SUFFICES ASSUME CommitInv PROVE UncommittedBounded
    OBVIOUS
  <1>1. /\ Cardinality(Counting) \in Nat /\ Cardinality(Indexers) \in Nat
        /\ Cardinality(Counting) <= Cardinality(Indexers)
    BY CountingFinite, CommitAssumption, FS_Subset DEF Counting
  <1>2. CASE pending = Nobody
    BY <1>1, <1>2, CommitAssumption DEF CommitInv, CommitType, Backlog, UncommittedBounded
  <1>3. CASE pending # Nobody
    <2>1. pending \in Indexers \ Counting
      BY <1>3 DEF CommitInv, CommitType, LocksHeld, Counting, Threads
    <2>2. Cardinality(Counting) < Cardinality(Indexers)
      BY <1>1, <2>1, CommitAssumption, FS_Subset DEF Counting
    <2> QED
      BY <1>1, <2>2, CommitAssumption
      DEF CommitInv, CommitType, Backlog, UncommittedBounded
  <1> QED
    BY <1>2, <1>3

\* However commits, forced commits and resets of the count interleave, a crash
\* costs at most a batch, and one call per thread.
THEOREM BacklogBounded == Spec => []UncommittedBounded
  BY CommitInit, CommitStep, CommitBound, PTL DEF Spec

-----------------------------------------------------------------------------
(* SearchCoverage: its threads go through the steps of SearchCommit        *)

\* Every step is one of SearchCommit, or leaves its variables alone, or is a
\* restart
LEMMA CoverStepCommits == [CoverNext]_coverVars => [Next]_vars \/ \E env \in Environments : Restart(env)
  <1> SUFFICES ASSUME CoverNext PROVE [Next]_vars \/ \E env \in Environments : Restart(env)
    BY DEF coverVars
  <1>1. ASSUME NEW t \in Indexers, Indexing(t)
        PROVE  [Next]_vars
    BY <1>1 DEF Indexing, IndexNothing, DeleteRecord, CountCall, CommitBatch, IndexRecord,
               IndexUnchanged, Next, IndexerStep
  <1>2. ASSUME NEW w \in Writers, Writing(w)
        PROVE  [Next]_vars
    BY <1>2 DEF Writing, CopyConfig, Write, Delete, IndexUnchanged
  <1>3. ASSUME NEW c \in Clients, Updating(c)
        PROVE  [Next]_vars
    BY <1>3, CoverageAssumption
    DEF Updating, ReadOldFields, ChangeCopy, StoreConfig, SetConfig, Scan, CommitReindex,
        IndexUnchanged, Next, CommitterStep
  <1>4. ASSUME NEW t \in Committers, CommitFlush(t) \/ EndCommit(t)
        PROVE  [Next]_vars
    BY <1>4 DEF CommitFlush, EndCommit, Next, CommitterStep
  <1> QED
    BY <1>1, <1>2, <1>3, <1>4 DEF CoverNext

LEMMA CommitRestart ==
  ASSUME NEW env, Restart(env)
  PROVE  CommitInv'
  <1>1. Cardinality(Counting') \in Nat
    BY CountingFinite DEF Counting
  <1> QED
    BY <1>1, CommitAssumption DEF Restart, CommitInv, CommitType, LocksHeld, Backlog, Threads

\* The bound holds of the whole search index too, restarts included.
THEOREM BacklogBoundedHere == CoverSpec => []UncommittedBounded
  <1>1. CoverInit => CommitInv
    BY CommitInit DEF CoverInit
  <1>2. CommitInv /\ [CoverNext]_coverVars => CommitInv'
    BY CoverStepCommits, CommitStep, CommitRestart
  <1> QED
    BY <1>1, <1>2, CommitBound, PTL DEF CoverSpec

-----------------------------------------------------------------------------
(* SearchCoverage: what search knows of the store                          *)

Labels == {"idle", "ready", "delete", "copy", "store", "set", "scan", "reindex"}

Tasks == [at : Labels, fields : SUBSET Fields, list : Listing, old : SUBSET Fields]

CoverType ==
  /\ records \in Listing
  /\ memory \subseteq Fields /\ stored \subseteq Fields
  /\ task \in [Indexers -> Tasks]

LEMMA NoTaskType == NoTask \in Tasks /\ NoRecords \in Listing
  <1>1. NoRecords \in Listing
    BY DEF NoRecords, Listing
  <1> QED
    BY <1>1 DEF NoTask, Tasks, Labels

LEMMA DoType ==
  ASSUME CoverType, NEW t \in Indexers, NEW new \in Tasks, Do(t, new)
  PROVE  task' \in [Indexers -> Tasks]
  BY DEF CoverType, Do

LEMMA ChangedTask ==
  ASSUME NEW x \in Tasks
  PROVE  /\ \A at \in Labels : [x EXCEPT !.at = at] \in Tasks
         /\ \A list \in Listing : [x EXCEPT !.list = list] \in Tasks
         /\ \A at \in Labels, list \in Listing :
              [x EXCEPT !.at = at, !.list = list] \in Tasks
         /\ \A at \in Labels, fields \in SUBSET Fields :
              [x EXCEPT !.at = at, !.fields = fields] \in Tasks
         /\ \A at \in Labels, old \in SUBSET Fields :
              [x EXCEPT !.at = at, !.old = old] \in Tasks
  BY DEF Tasks

LEMMA CoverTypeStep == CoverType /\ [CoverNext]_coverVars => CoverType'
  <1> SUFFICES ASSUME CoverType, [CoverNext]_coverVars PROVE CoverType'
    OBVIOUS
  <1>0. /\ \A t \in Indexers : task[t] \in Tasks
        /\ records \in Listing /\ memory \in SUBSET Fields /\ stored \in SUBSET Fields
    BY DEF CoverType
  <1>1. ASSUME NEW t \in Indexers, Indexing(t)
        PROVE  CoverType'
    <2>1. CASE IndexNothing(t)
      <3>1. task' \in [Indexers -> Tasks]
        BY <1>0, <2>1, DoType, ChangedTask, NoTaskType DEF Labels, IndexNothing
      <3> QED
        BY <1>0, <2>1, <3>1 DEF IndexNothing, ConfigUnchanged, CoverType
    <2>2. CASE DeleteRecord(t)
      <3>1. task' \in [Indexers -> Tasks]
        BY <1>0, <2>2, DoType, ChangedTask, NoTaskType DEF Labels, DeleteRecord
      <3> QED
        BY <1>0, <2>2, <3>1 DEF DeleteRecord, ConfigUnchanged, CoverType
    <2>3. CASE \E u \in Uris : IndexRecord(t, u)
      <3>1. PICK u \in Uris : IndexRecord(t, u)
        BY <2>3
      <3>2. [task[t].list EXCEPT ![u] = NoText] \in Listing
        BY <1>0 DEF Tasks, Listing
      <3>3. [task[t] EXCEPT !.list[u] = NoText] = [task[t] EXCEPT !.list = [task[t].list EXCEPT ![u] = NoText]]
        BY <1>0 DEF Tasks
      <3>4. task' \in [Indexers -> Tasks]
        BY <1>0, <3>1, <3>2, <3>3, DoType, ChangedTask, NoTaskType DEF Labels, IndexRecord
      <3> QED
        BY <1>0, <3>1, <3>4 DEF IndexRecord, ConfigUnchanged, CoverType
    <2>4. CASE CountCall(t) \/ CommitBatch(t)
      BY <1>0, <2>4 DEF CountCall, CommitBatch, ConfigUnchanged, CoverType
    <2> QED
      BY <1>1, <2>1, <2>2, <2>3, <2>4 DEF Indexing
  <1>2. ASSUME NEW w \in Writers, Writing(w)
        PROVE  CoverType'
    <2>0. w \in Indexers
      BY CoverageAssumption
    <2>1. CASE CopyConfig(w)
      <3>1. [NoTask EXCEPT !.at = "ready", !.fields = memory] \in Tasks
        BY <1>0, ChangedTask, NoTaskType DEF Labels
      <3>2. task' \in [Indexers -> Tasks]
        BY <2>0, <2>1, <3>1, DoType DEF CopyConfig
      <3> QED
        BY <1>0, <2>1, <3>2 DEF CopyConfig, ConfigUnchanged, CoverType
    <2>2. CASE \E batch \in Listing \ {NoRecords} : Write(w, batch)
      <3>1. PICK batch \in Listing : Write(w, batch)
        BY <2>2
      <3>2. task' \in [Indexers -> Tasks]
        BY <1>0, <2>0, <3>1, DoType, ChangedTask, NoTaskType DEF Labels, Write
      <3>3. records' \in Listing
        BY <1>0, <3>1 DEF Write, Listing
      <3> QED
        BY <1>0, <3>1, <3>2, <3>3 DEF Write, ConfigUnchanged, CoverType
    <2>3. CASE \E u \in Uris : Delete(w, u)
      <3>1. PICK u \in Uris : Delete(w, u)
        BY <2>3
      <3>2. task' \in [Indexers -> Tasks]
        BY <1>0, <2>0, <3>1, DoType, ChangedTask, NoTaskType DEF Labels, Delete
      <3>3. records' \in Listing
        BY <1>0, <3>1 DEF Delete, Listing
      <3> QED
        BY <1>0, <3>1, <3>2, <3>3 DEF Delete, ConfigUnchanged, CoverType
    <2> QED
      BY <1>2, <2>1, <2>2, <2>3 DEF Writing
  <1>3. ASSUME NEW c \in Clients, Updating(c)
        PROVE  CoverType'
    <2>0. c \in Indexers
      BY CoverageAssumption
    <2>1. CASE ReadOldFields(c)
      <3>1. task' \in [Indexers -> Tasks]
        BY <1>0, <2>0, <2>1, DoType, ChangedTask, NoTaskType DEF Labels, ReadOldFields
      <3> QED
        BY <1>0, <2>1, <3>1 DEF ReadOldFields, ConfigUnchanged, CoverType
    <2>2. CASE \E new \in SUBSET Fields : ChangeCopy(c, new)
      <3>1. task' \in [Indexers -> Tasks]
        BY <1>0, <2>0, <2>2, DoType, ChangedTask, NoTaskType DEF Labels, ChangeCopy
      <3> QED
        BY <1>0, <2>2, <3>1 DEF ChangeCopy, ConfigUnchanged, CoverType
    <2>3. CASE StoreConfig(c)
      <3>1. task' \in [Indexers -> Tasks]
        BY <1>0, <2>0, <2>3, DoType, ChangedTask, NoTaskType DEF Labels, StoreConfig
      <3>2. stored' \subseteq Fields
        BY <1>0, <2>0, <2>3 DEF StoreConfig, Tasks
      <3> QED
        BY <1>0, <2>3, <3>1, <3>2 DEF StoreConfig, CoverType
    <2>4. CASE SetConfig(c)
      <3>1. NewFields(c) \in SUBSET Fields /\ task[c].fields \in SUBSET Fields
        BY <1>0, <2>0 DEF NewFields, Tasks
      <3>2. [NoTask EXCEPT !.at = "scan", !.fields = NewFields(c)] \in Tasks
        BY <3>1, ChangedTask, NoTaskType DEF Labels
      <3>3. task' \in [Indexers -> Tasks]
        BY <2>0, <2>4, <3>2, DoType, NoTaskType DEF Labels, SetConfig
      <3> QED
        BY <1>0, <2>4, <3>1, <3>3 DEF SetConfig, CoverType
    <2>5. CASE Scan(c)
      <3>1. task' \in [Indexers -> Tasks]
        BY <1>0, <2>0, <2>5, DoType, ChangedTask, NoTaskType DEF Labels, Scan
      <3> QED
        BY <1>0, <2>5, <3>1 DEF Scan, ConfigUnchanged, CoverType
    <2>6. CASE CommitReindex(c)
      <3>1. task' \in [Indexers -> Tasks]
        BY <2>0, <2>6, DoType, NoTaskType DEF Labels, CommitReindex
      <3> QED
        BY <1>0, <2>6, <3>1 DEF CommitReindex, ConfigUnchanged, CoverType
    <2> QED
      BY <1>3, <2>1, <2>2, <2>3, <2>4, <2>5, <2>6 DEF Updating
  <1>4. ASSUME NEW t \in Committers, CommitFlush(t) \/ EndCommit(t)
        PROVE  CoverType'
    BY <1>4 DEF CommitFlush, EndCommit, ConfigUnchanged, CoverType
  <1>5. ASSUME NEW env \in Environments, Restart(env)
        PROVE  CoverType'
    BY <1>5, NoTaskType, CoverageAssumption DEF Restart, Overridden, CoverType
  <1>6. CASE UNCHANGED coverVars
    BY <1>6 DEF coverVars, CoverType
  <1> QED
    BY <1>1, <1>2, <1>3, <1>4, <1>5, <1>6 DEF CoverNext

\* What a thread is going to do for record u and field f
Works(t, u, f) ==
  /\ f \in task[t].fields
  /\ \/ task[t].at \in {"ready", "reindex"} /\ task[t].list[u] = records[u]
     \/ task[t].at = "scan"

Covered(u, f) ==
  records[u] # NoText => Known(u, f) \/ <<u, f>> \in missed \/ \E t \in Indexers : Works(t, u, f)

LEMMA CoveredIsCovers == SearchCovers <=> \A u \in Uris, f \in memory : Covered(u, f)
  BY DEF SearchCovers, Covered, Underway, Works

\* A pair stays covered while its record, the documents and the exceptions
\* stay, and the one thread that steps had no work for it, has it still, or has
\* done it
LEMMA StaysCovered ==
  ASSUME NEW u \in Uris, NEW f, NEW t \in Indexers, Covered(u, f),
         records'[u] = records[u], docs \subseteq docs',
         <<u, f>> \in missed => <<u, f>> \in missed',
         \A s \in Indexers \ {t} : task'[s] = task[s],
         Works(t, u, f) => Works(t, u, f)' \/ Known(u, f)'
  PROVE  Covered(u, f)'
  <1>1. \A s \in Indexers \ {t} : Works(s, u, f) => Works(s, u, f)'
    BY DEF Works
  <1>2. Known(u, f) => Known(u, f)'
    BY DEF Known
  <1> QED
    BY <1>1, <1>2 DEF Covered

LEMMA IndexingCovers ==
  ASSUME CoverType, SearchCovers, NEW t \in Indexers, Indexing(t)
  PROVE  SearchCovers'
  <1> SUFFICES ASSUME NEW u \in Uris, NEW f \in memory' PROVE Covered(u, f)'
    BY CoveredIsCovers DEF SearchCovers, Covered, Underway, Works, Known
  <1>1. /\ records' = records /\ memory' = memory /\ missed' = missed
        /\ docs \subseteq docs'
        /\ \A s \in Indexers \ {t} : task'[s] = task[s]
    BY DEF CoverType, Indexing, IndexNothing, DeleteRecord, CountCall, CommitBatch, IndexRecord,
           IndexUnchanged, ConfigUnchanged, Do
  <1>2. Covered(u, f)
    BY <1>1, CoveredIsCovers
  <1>3. task[t] \in Tasks
    BY DEF CoverType
  <1>4. Works(t, u, f) /\ records[u] # NoText => Works(t, u, f)' \/ Known(u, f)'
    <2>1. CASE IndexNothing(t)
      BY <2>1 DEF IndexNothing, Works
    <2>2. CASE DeleteRecord(t)
      BY <2>2 DEF DeleteRecord, Works
    <2>3. CASE CountCall(t) \/ CommitBatch(t)
      BY <1>1, <2>3 DEF CountCall, CommitBatch, Works
    <2>4. ASSUME NEW v \in Uris, IndexRecord(t, v)
          PROVE  Works(t, u, f) => Works(t, u, f)' \/ Known(u, f)'
      <3>1. /\ task'[t] = [task[t] EXCEPT !.list[v] = NoText]
            /\ docs' = docs \cup Documents(t, v)
        BY <2>4 DEF CoverType, IndexRecord, Do
      <3>2. CASE u = v
        BY <1>1, <1>3, <3>1, <3>2 DEF Works, Known, Documents, Tasks
      <3>3. CASE u # v
        BY <1>1, <1>3, <3>1, <3>3 DEF Works, Tasks, Listing
      <3> QED
        BY <3>2, <3>3
    <2> QED
      BY <2>1, <2>2, <2>3, <2>4 DEF Indexing
  <1> QED
    BY <1>1, <1>2, <1>4, StaysCovered DEF Covered

LEMMA WritingCovers ==
  ASSUME CoverType, SearchCovers, NEW w \in Writers, Writing(w)
  PROVE  SearchCovers'
  <1> SUFFICES ASSUME NEW u \in Uris, NEW f \in memory' PROVE Covered(u, f)'
    BY CoveredIsCovers DEF SearchCovers, Covered, Underway, Works, Known
  <1>1. w \in Indexers /\ task[w] \in Tasks /\ records \in Listing
    BY CoverageAssumption DEF CoverType
  <1>2. /\ docs' = docs /\ memory' = memory /\ f \in Fields
        /\ \A s \in Indexers \ {w} : task'[s] = task[s]
    BY DEF CoverType, Writing, CopyConfig, Write, Delete, IndexUnchanged, ConfigUnchanged, Do
  <1>3. Covered(u, f)
    BY <1>2, CoveredIsCovers
  \* A writer between two writes has nothing left to index
  <1>4. Works(w, u, f) => records[u] = NoText
    BY <1>1 DEF Writing, CopyConfig, Write, Delete, At, Works, Listed, Listing
  <1>5. CASE CopyConfig(w)
    BY <1>1, <1>2, <1>3, <1>4, <1>5, StaysCovered DEF CopyConfig, Covered
  <1>6. ASSUME NEW batch \in Listing, Write(w, batch)
        PROVE  Covered(u, f)'
    <2> DEFINE written == {v \in Uris : batch[v] # NoText}
    <2>1. /\ records' = [v \in Uris |-> IF v \in written THEN batch[v] ELSE records[v]]
          /\ missed' = (missed \ Pairs(written, Fields))
                         \cup Pairs(written, memory \ task[w].fields)
          /\ task'[w] = [task[w] EXCEPT !.list = batch]
          /\ task[w].at = "ready"
      BY <1>1, <1>6 DEF Write, Do, At, CoverType
    <2>2. CASE u \in written
      <3>1. f \notin task[w].fields => <<u, f>> \in missed'
        BY <1>2, <2>1, <2>2 DEF Pairs
      <3>2. f \in task[w].fields => Works(w, u, f)'
        BY <1>1, <2>1, <2>2 DEF Works, Tasks
      <3> QED
        BY <1>1, <3>1, <3>2 DEF Covered
    <2>3. CASE u \notin written
      <3>1. records'[u] = records[u] /\ (<<u, f>> \in missed => <<u, f>> \in missed')
        BY <2>1, <2>3 DEF Pairs
      <3> QED
        BY <1>1, <1>2, <1>3, <1>4, <3>1, StaysCovered DEF Covered
    <2> QED
      BY <2>2, <2>3
  <1>7. ASSUME NEW v \in Uris, Delete(w, v)
        PROVE  Covered(u, f)'
    <2>1. /\ records' = [records EXCEPT ![v] = NoText]
          /\ missed' = missed \ Pairs({v}, Fields)
      BY <1>7 DEF Delete
    <2>2. CASE u = v
      BY <1>1, <2>1, <2>2 DEF Covered, Listing
    <2>3. CASE u # v
      <3>1. records'[u] = records[u] /\ (<<u, f>> \in missed => <<u, f>> \in missed')
        BY <1>1, <2>1, <2>3 DEF Pairs, Listing
      <3> QED
        BY <1>1, <1>2, <1>3, <1>4, <3>1, StaysCovered DEF Covered
    <2> QED
      BY <2>2, <2>3
  <1> QED
    BY <1>5, <1>6, <1>7 DEF Writing

LEMMA UpdatingCovers ==
  ASSUME CoverType, SearchCovers, NEW c \in Clients, Updating(c)
  PROVE  SearchCovers'
  <1> SUFFICES ASSUME NEW u \in Uris, NEW f \in memory' PROVE Covered(u, f)'
    BY CoveredIsCovers DEF SearchCovers, Covered, Underway, Works, Known
  <1>1. /\ c \in Indexers /\ task[c] \in Tasks /\ records \in Listing
        /\ task \in [Indexers -> Tasks]
    BY CoverageAssumption DEF CoverType
  <1>2. /\ records' = records /\ docs' = docs
        /\ \A s \in Indexers \ {c} : task'[s] = task[s]
    BY <1>1 DEF Updating, ReadOldFields, ChangeCopy, StoreConfig, SetConfig, Scan, CommitReindex,
                IndexUnchanged, Do
  <1>3. CASE SetConfig(c)
    <2>1. /\ memory' = task[c].fields
          /\ missed' = (missed \ Pairs(Uris, NewFields(c)))
                         \cup Pairs(Uris, task[c].fields \ (memory \cup NewFields(c)))
          /\ task[c].at = "set"
          /\ NewFields(c) # {} =>
               task'[c] = [NoTask EXCEPT !.at = "scan", !.fields = NewFields(c)]
      BY <1>1, <1>3 DEF SetConfig, Do, At
    <2>2. CASE f \in NewFields(c)
      <3>1. Works(c, u, f)'
        BY <1>1, <2>1, <2>2 DEF Works, NoTask
      <3> QED
        BY <1>1, <3>1 DEF Covered
    <2>3. CASE f \notin memory \cup NewFields(c)
      BY <2>1, <2>3 DEF Pairs, Covered
    <2>4. CASE f \in memory \ NewFields(c)
      <3>1. Covered(u, f) /\ (<<u, f>> \in missed => <<u, f>> \in missed')
        BY <2>1, <2>4, CoveredIsCovers DEF Pairs
      <3>2. ~Works(c, u, f)
        BY <2>1 DEF Works
      <3> QED
        BY <1>1, <1>2, <3>1, <3>2, StaysCovered
    <2> QED
      BY <2>2, <2>3, <2>4
  <1>4. CASE ~SetConfig(c)
    <2>1. missed' = missed /\ memory' = memory
      BY <1>4 DEF Updating, ReadOldFields, ChangeCopy, StoreConfig, Scan, CommitReindex,
                  ConfigUnchanged
    <2>2. Covered(u, f)
      BY <2>1, CoveredIsCovers
    <2>3. Works(c, u, f) /\ records[u] # NoText => Works(c, u, f)'
      <3>1. CASE Scan(c)
        BY <1>1, <1>2, <3>1 DEF Scan, Do, Works, Tasks, Listing
      <3>2. CASE CommitReindex(c)
        BY <3>2 DEF CommitReindex, Listed, Works
      <3>3. CASE ReadOldFields(c) \/ StoreConfig(c) \/ \E new \in SUBSET Fields : ChangeCopy(c, new)
        BY <3>3 DEF ReadOldFields, StoreConfig, ChangeCopy, At, Works
      <3> QED
        BY <1>4, <3>1, <3>2, <3>3 DEF Updating
    <2> QED
      BY <1>1, <1>2, <2>1, <2>2, <2>3, StaysCovered DEF Covered
  <1> QED
    BY <1>3, <1>4

\* A restart keeps what is committed, and excuses every other pair
LEMMA RestartCovers ==
  ASSUME NEW env, Restart(env)
  PROVE  SearchCovers'
  BY DEF Restart, SearchCovers, Known, Pairs

\* Whatever the order of writes, changes of the configuration and reindexing,
\* the text of every stored record is in the search index, or about to be, for
\* every field that search accepts, but for the named exceptions.
THEOREM SearchKeepsCovering == CoverSpec => []SearchCovers
  <1>1. CoverInit => CoverType /\ SearchCovers
    BY NoTaskType DEF CoverInit, CoverType, SearchCovers
  <1>2. CoverType /\ [CoverNext]_coverVars => CoverType'
    BY CoverTypeStep
  <1>3. CoverType /\ SearchCovers /\ [CoverNext]_coverVars => SearchCovers'
    <2> SUFFICES ASSUME CoverType, SearchCovers, [CoverNext]_coverVars PROVE SearchCovers'
      OBVIOUS
    <2>1. CASE \E t \in Committers : CommitFlush(t) \/ EndCommit(t)
      BY <2>1 DEF CommitFlush, EndCommit, ConfigUnchanged, SearchCovers, Known, Underway
    <2>2. CASE UNCHANGED coverVars
      BY <2>2 DEF coverVars, SearchCovers, Known, Underway
    <2> QED
      BY <2>1, <2>2, IndexingCovers, WritingCovers, UpdatingCovers, RestartCovers DEF CoverNext
  <1> QED
    BY <1>1, <1>2, <1>3, PTL DEF CoverSpec
=============================================================================
