--------------------------- MODULE SearchCoverage ---------------------------
(***************************************************************************)
(* What the search index knows of the store.  Records are written by the   *)
(* firehose and the sync tasks, each with a copy of the configuration it   *)
(* made earlier (src/src/server.rs, src/src/sync_worker.rs,                *)
(* src/src/sync.rs); the fields to search are changed over HTTP, which     *)
(* starts a thread that indexes what is stored (src/src/app.rs,            *)
(* src/src/search.rs); and a crash loses what is not committed.  The locks *)
(* and the batches of SearchIndex are those of SearchCommit.               *)
(*                                                                         *)
(* There is one collection.  Of a record only its text is kept, the same   *)
(* in every field; of the configuration, its search_fields.                *)
(***************************************************************************)
EXTENDS SearchCommit

CONSTANTS
  Writers,       \* the firehose thread and the sync tasks
  Clients,       \* HTTP requests, each with the thread it may start
  Uris,
  Texts,
  Fields,        \* the fields that may be searched
  Environments,  \* the values of ATPDB_SEARCH_FIELDS at a start, or Unset
  Unset,
  NoText,        \* "no such record"
  MaxWrites,     \* bound: how often the writers write or delete
  MaxUpdates,    \* bound: how many requests change the configuration
  MaxCrashes     \* bound: how often the process dies

ASSUME CoverageAssumption ==
  /\ Writers \cap Clients = {}
  /\ Indexers = Writers \cup Clients
  /\ Clients \subseteq Committers /\ Writers \cap Committers = {}
  /\ Environments \subseteq (SUBSET Fields) \cup {Unset}
  /\ NoText \notin Texts

VARIABLES
  records,     \* the store: the text of each record, or NoText
  docs,        \* documents <<uri, field, text>> added to the search index
  committed,   \* the documents of its last commit
  memory,      \* AppState.config
  stored,      \* the configuration in its keyspace
  task,        \* what each thread does between its calls of SearchIndex
  used,        \* how much of the bounds is used up
  missed       \* history: <<uri, field>> that the exceptions below left out

coverVars == <<vars, records, docs, committed, memory, stored, task, used, missed>>

Listing == [Uris -> Texts \cup {NoText}]

NoRecords == [u \in Uris |-> NoText]

\* fields: the copy of search_fields it works with; list: records it has yet
\* to index; old: the fields before a change
NoTask == [at |-> "idle", fields |-> {}, list |-> NoRecords, old |-> {}]

CoverInit ==
  /\ Init
  /\ records = NoRecords
  /\ docs = {} /\ committed = {}
  /\ memory = {} /\ stored = {}
  /\ task = [t \in Indexers |-> NoTask]
  /\ used = [writes |-> 0, updates |-> 0, crashes |-> 0]
  /\ missed = {}

At(t, label) == pc[t] = "idle" /\ task[t].at = label

Do(t, new) == task' = [task EXCEPT ![t] = new]

Count(bound, max) ==
  /\ used[bound] < max
  /\ used' = [used EXCEPT ![bound] = @ + 1]

IndexUnchanged == UNCHANGED <<vars, docs, committed>>

ConfigUnchanged == UNCHANGED <<memory, stored>>

-----------------------------------------------------------------------------
(* Calls of SearchIndex                                                    *)

Listed(t) == {u \in Uris : task[t].list[u] # NoText}

\* One document for each field of the copy
Documents(t, u) == {<<u, f, task[t].list[u]>> : f \in task[t].fields}

\* index_record without a field configured for the collection returns at once
IndexNothing(t) ==
  /\ pc[t] = "idle" /\ task[t].fields = {} /\ Listed(t) # {}
  /\ Do(t, [task[t] EXCEPT !.list = NoRecords])
  /\ UNCHANGED <<records, used, missed>> /\ IndexUnchanged /\ ConfigUnchanged

\* index_record, for one record of the batch or of the reindexing
IndexRecord(t, u) ==
  /\ task[t].fields # {} /\ u \in Listed(t)
  /\ Add(t)
  /\ docs' = docs \cup Documents(t, u)
  /\ Do(t, [task[t] EXCEPT !.list[u] = NoText])
  /\ UNCHANGED <<records, committed, used, missed>> /\ ConfigUnchanged

\* delete_record deletes by the uri field, which the schema does not index:
\* no document goes
DeleteRecord(t) ==
  /\ task[t].at = "delete"
  /\ Add(t)
  /\ Do(t, [task[t] EXCEPT !.at = "ready"])
  /\ UNCHANGED <<records, docs, committed, used, missed>> /\ ConfigUnchanged

CountCall(t) ==
  /\ CountAndCommit(t) \/ CountOnly(t)
  /\ UNCHANGED <<records, docs, committed, task, used, missed>> /\ ConfigUnchanged

CommitBatch(t) ==
  /\ MaybeCommit(t)
  /\ committed' = docs
  /\ UNCHANGED <<records, docs, task, used, missed>> /\ ConfigUnchanged

\* commit, at the end of a reindexing
CommitReindex(t) ==
  /\ task[t].at = "reindex" /\ Listed(t) = {}
  /\ Commit(t)
  /\ committed' = docs
  /\ Do(t, NoTask)
  /\ UNCHANGED <<records, docs, used, missed>> /\ ConfigUnchanged

\* commit, in AppState::flush at the shutdown
CommitFlush(t) ==
  /\ Commit(t)
  /\ committed' = docs
  /\ UNCHANGED <<records, docs, task, used, missed>> /\ ConfigUnchanged

EndCommit(t) ==
  /\ ResetCount(t)
  /\ UNCHANGED <<records, docs, committed, task, used, missed>> /\ ConfigUnchanged

-----------------------------------------------------------------------------
(* Writers                                                                 *)

Pairs(us, fs) == us \X fs

\* The firehose copies the configuration once per event, a sync once per sync
CopyConfig(w) ==
  /\ At(w, "idle") \/ At(w, "ready")
  /\ Listed(w) = {}
  /\ Do(w, [NoTask EXCEPT !.at = "ready", !.fields = memory])
  /\ UNCHANGED <<records, used, missed>> /\ IndexUnchanged /\ ConfigUnchanged

\* A batch, or a single record, is stored; its records are to be indexed.
\* A field configured after the copy was made is missed
Write(w, batch) ==
  /\ At(w, "ready") /\ Listed(w) = {}
  /\ Count("writes", MaxWrites)
  /\ LET written == {u \in Uris : batch[u] # NoText} IN
       /\ records' = [u \in Uris |-> IF u \in written THEN batch[u] ELSE records[u]]
       /\ missed' = (missed \ Pairs(written, Fields))
                      \cup Pairs(written, memory \ task[w].fields)
  /\ Do(w, [task[w] EXCEPT !.list = batch])
  /\ IndexUnchanged /\ ConfigUnchanged

\* delete_with_indexes, then delete_record
Delete(w, u) ==
  /\ At(w, "ready") /\ Listed(w) = {}
  /\ Count("writes", MaxWrites)
  /\ records' = [records EXCEPT ![u] = NoText]
  /\ missed' = missed \ Pairs({u}, Fields)
  /\ Do(w, [task[w] EXCEPT !.at = "delete"])
  /\ IndexUnchanged /\ ConfigUnchanged

-----------------------------------------------------------------------------
(* update_config                                                           *)

\* The fields before the change
ReadOldFields(c) ==
  /\ At(c, "idle")
  /\ Count("updates", MaxUpdates)
  /\ Do(c, [NoTask EXCEPT !.at = "copy", !.old = memory])
  /\ UNCHANGED <<records, missed>> /\ IndexUnchanged /\ ConfigUnchanged

\* A second copy, which config_update changes: it sets search_fields, or leaves
\* them (the request has none, or an unknown mode before them)
ChangeCopy(c, new) ==
  /\ At(c, "copy")
  /\ Do(c, [task[c] EXCEPT !.at = "store", !.fields = new])
  /\ UNCHANGED <<records, used, missed>> /\ IndexUnchanged /\ ConfigUnchanged

\* set_config inserts the configuration ...
StoreConfig(c) ==
  /\ At(c, "store")
  /\ stored' = task[c].fields
  /\ Do(c, [task[c] EXCEPT !.at = "set"])
  /\ UNCHANGED <<records, memory, used, missed>> /\ IndexUnchanged

NewFields(c) == task[c].fields \ task[c].old

\* ... and replaces the one in memory; new fields start a reindexing of what is
\* stored.  A field that another request took away since the first read comes
\* back without one
SetConfig(c) ==
  /\ At(c, "set")
  /\ memory' = task[c].fields
  /\ missed' = (missed \ Pairs(Uris, NewFields(c)))
                 \cup Pairs(Uris, task[c].fields \ (memory \cup NewFields(c)))
  /\ Do(c, IF NewFields(c) = {} THEN NoTask
           ELSE [NoTask EXCEPT !.at = "scan", !.fields = NewFields(c)])
  /\ UNCHANGED <<records, stored, used>> /\ IndexUnchanged

\* Fault: the reindexing reads one page of the collection
Scan_FirstPage(c) ==
  /\ At(c, "scan")
  /\ \E u \in Uris :
       Do(c, [task[c] EXCEPT !.at = "reindex", !.list[u] = records[u]])
  /\ UNCHANGED <<records, used, missed>> /\ IndexUnchanged /\ ConfigUnchanged

\* reindex_from_store reads the whole collection ...
Scan(c) ==
  /\ At(c, "scan")
  /\ Do(c, [task[c] EXCEPT !.at = "reindex", !.list = records])
  /\ UNCHANGED <<records, used, missed>> /\ IndexUnchanged /\ ConfigUnchanged

-----------------------------------------------------------------------------
(* The process dies and starts again: what is stored and committed is kept,
   the environment overrides what is stored, and nothing is reindexed         *)

Overridden(env) == IF env = Unset THEN stored ELSE env

Restart(env) ==
  /\ Count("crashes", MaxCrashes)
  /\ writer' = Nobody /\ pending' = Nobody
  /\ count' = 0 /\ uncommitted' = 0
  /\ pc' = [t \in Threads |-> "idle"]
  /\ docs' = committed
  /\ memory' = Overridden(env)
  /\ task' = [t \in Indexers |-> NoTask]
  /\ missed' = {p \in Pairs(Uris, memory') :
                  records[p[1]] # NoText
                    /\ <<p[1], p[2], records[p[1]]>> \notin committed}
  /\ UNCHANGED <<records, committed, stored>>

-----------------------------------------------------------------------------
Indexing(t) ==
  \/ IndexNothing(t) \/ DeleteRecord(t) \/ CountCall(t) \/ CommitBatch(t)
  \/ \E u \in Uris : IndexRecord(t, u)

Writing(w) ==
  \/ CopyConfig(w)
  \/ \E batch \in Listing \ {NoRecords} : Write(w, batch)
  \/ \E u \in Uris : Delete(w, u)

Updating(c) ==
  \/ ReadOldFields(c)
  \/ \E new \in SUBSET Fields : ChangeCopy(c, new)
  \/ StoreConfig(c) \/ SetConfig(c) \/ Scan(c) \/ CommitReindex(c)

CoverNext ==
  \/ \E t \in Indexers : Indexing(t)
  \/ \E w \in Writers : Writing(w)
  \/ \E c \in Clients : Updating(c)
  \/ \E t \in Committers \ Clients : CommitFlush(t)
  \/ \E t \in Committers : EndCommit(t)
  \/ \E env \in Environments : Restart(env)

CoverSpec == CoverInit /\ [][CoverNext]_coverVars

-----------------------------------------------------------------------------
(* Properties                                                              *)

Known(u, f) == <<u, f, records[u]>> \in docs

\* Some thread is going to index the record as it is stored
Underway(u, f) ==
  \E t \in Indexers :
    /\ f \in task[t].fields
    /\ \/ task[t].at \in {"ready", "reindex"} /\ task[t].list[u] = records[u]
       \/ task[t].at = "scan"

\* Whatever the order of writes, changes of the configuration and reindexing,
\* the text of every stored record is in the search index, or about to be, for
\* every field that search accepts.  The exceptions, all in `missed`: a
\* document that a crash lost, a field that a start took from the environment,
\* a record written with a copy of the configuration older than the field, a
\* field that two overlapping requests took away and brought back.
SearchCovers ==
  \A u \in Uris, f \in memory :
    records[u] # NoText => Known(u, f) \/ Underway(u, f) \/ <<u, f>> \in missed
=============================================================================
