---------------------------- MODULE RecordStore ----------------------------
(***************************************************************************)
(* The record store (src/src/storage.rs): the records of one collection,   *)
(* the two kinds of index entries that are written beside them, and the    *)
(* two kinds of counters.                                                  *)
(*                                                                         *)
(*   main      {collection}\0{did}\0{rkey}        the record               *)
(*   ts        idx:{a,d}:__ts__:...               by indexed_at            *)
(*   rev       rev:{collection}:{field}\0{value}  by value of an AtUri     *)
(*                                                field; ordered indexes   *)
(*                                                are kept the same way    *)
(*   count     __count__:{collection}             how many records         *)
(*   revcount  __revcount__:...                   how many per value       *)
(*                                                                         *)
(* put_with_indexes and delete_with_indexes touch these keys one after     *)
(* the other, without a lock; counter_lock covers the read and the write   *)
(* of one counter.  put_batch_with_indexes collects everything, reads the  *)
(* counters under counter_lock, releases it, and commits atomically.       *)
(*                                                                         *)
(* The configuration may name the index on the field or not: the shell     *)
(* changes that, and the environment of a start does.  A process that      *)
(* starts (src/src/app.rs) builds an index that has no entry at all; the   *)
(* shell's commands .index and .count (src/src/main.rs) build entries and  *)
(* counters on demand.                                                     *)
(*                                                                         *)
(* Of a record only its value in the indexed field and indexed_at are      *)
(* kept.  A batch holds a record once, and the collection is one that      *)
(* config.collections names.                                               *)
(***************************************************************************)
EXTENDS Naturals, FiniteSets

CONSTANTS
  Uris,          \* the records of the collection
  Values,        \* values of the indexed field
  NoValue,       \* "the record lacks the field"
  NoRecord,      \* "no record under this key"
  NoUri,         \* "no call in progress"
  Times,         \* values of indexed_at
  Callers,       \* threads in put_with_indexes or delete_with_indexes
  Batchers,      \* threads in put_batch_with_indexes
  MaxCalls,      \* bound: how many calls are made, commands of the shell included
  MaxCommands,   \* bound: how many of these are commands
  MaxCrashes     \* bound: how often the process dies

Record == [value : Values \cup {NoValue}, indexed_at : Times]

ASSUME RecordStoreAssumption ==
  /\ IsFiniteSet(Uris)
  /\ NoValue \notin Values
  /\ NoRecord \notin Record
  /\ NoUri \notin Uris
  /\ Callers \cap Batchers = {}
  /\ MaxCalls \in Nat /\ MaxCommands \in Nat /\ MaxCrashes \in Nat

VARIABLES
  main, ts, rev, count, revcount,
  call,     \* where each caller is in its put or delete
  batch,    \* the batch each batcher has put together, with its counters
  indexed,  \* is the index on the field in config.indexes?
  process,  \* "up", "down", or "starting"
  shell,    \* the command of the shell that is at work
  calls, commands, crashes,
  drifted,  \* history: the kinds of counters that something made wrong
  missed    \* history: <<uri, index>> that one of the steps below left out

env == <<indexed, process, shell, commands, crashes>>

vars == <<main, ts, rev, count, revcount, call, batch, env, calls, drifted, missed>>

Keys == <<main, ts, rev, count, revcount>>

NoCall  == [pc |-> "idle", uri |-> NoUri, record |-> NoRecord, existed |-> FALSE,
            indexed |-> FALSE]
NoBatch == [pc |-> "idle", records |-> << >>, read |-> << >>]

NoCommand == [pc |-> "idle", read |-> << >>, since |-> 0]

Init ==
  /\ main = [u \in Uris |-> NoRecord]
  /\ ts = {} /\ rev = {}
  /\ count = 0
  /\ revcount = [v \in Values |-> 0]
  /\ call = [t \in Callers |-> NoCall]
  /\ batch = [b \in Batchers |-> NoBatch]
  /\ indexed \in BOOLEAN
  /\ process = "up"
  /\ shell = NoCommand
  /\ calls = 0 /\ commands = 0 /\ crashes = 0
  /\ drifted = {}
  /\ missed = {}

HasRecord(u) == main[u] # NoRecord

\* No call that works on u is in progress
Quiet(u) ==
  /\ \A t \in Callers : call[t].uri # u
  /\ \A b \in Batchers : u \notin DOMAIN batch[b].records

AllQuiet == \A u \in Uris : Quiet(u)

Counters == {"count", "revcount"}

\* A call on the records us; another one may be at work on one of them
Call(us, drift) ==
  /\ process = "up"
  /\ calls < MaxCalls
  /\ calls' = calls + 1
  /\ drifted' = IF drift \/ \E u \in us : ~Quiet(u) THEN Counters ELSE drifted

Begin(t, pc, u, record) ==
  /\ call[t].pc = "idle"
  /\ Call({u}, FALSE)
  /\ call' = [call EXCEPT ![t] = [pc |-> pc, uri |-> u, record |-> record,
                                  existed |-> HasRecord(u), indexed |-> indexed]]
  /\ UNCHANGED <<Keys, batch, env, missed>>

At(t, pc, next) == call[t].pc = pc /\ call' = [call EXCEPT ![t].pc = next]

Last(t, pc) == call[t].pc = pc /\ call' = [call EXCEPT ![t] = NoCall]

\* Index entries of a record; a record without the field has no second one
TsEntry(u, record) == <<record.indexed_at, u>>
RevEntries(u, record) ==
  IF record.value = NoValue THEN {} ELSE {<<record.value, u>>}

\* The records us are written with a configuration that names the index, or not
Written(us, named) ==
  missed' = (missed \ (us \X {"ts", "rev"})) \cup (IF named THEN {} ELSE us \X {"rev"})

Uncounted(named) == IF named THEN {} ELSE {"revcount"}

Pred(n) == IF n > 0 THEN n - 1 ELSE 0

-----------------------------------------------------------------------------
(* put_with_indexes                                                        *)

PutGet(t, u, record) == Begin(t, "putMain", u, record)

PutMain(t) ==
  /\ At(t, "putMain", "putTs")
  /\ main' = [main EXCEPT ![call[t].uri] = call[t].record]
  /\ Written({call[t].uri}, call[t].indexed)
  /\ drifted' = drifted \cup Uncounted(call[t].indexed)
  /\ UNCHANGED <<ts, rev, count, revcount, batch, env, calls>>

PutTs(t) ==
  /\ At(t, "putTs", "putRev")
  /\ ts' = ts \cup {TsEntry(call[t].uri, call[t].record)}
  /\ UNCHANGED <<main, rev, count, revcount, batch, env, calls, drifted, missed>>

\* Fault: a record that was there keeps the entries it has
PutRev_OnlyNew(t) ==
  /\ At(t, "putRev", "incRev")
  /\ rev' = rev \cup IF call[t].indexed /\ ~call[t].existed
                    THEN RevEntries(call[t].uri, call[t].record) ELSE {}
  /\ UNCHANGED <<main, ts, count, revcount, batch, env, calls, drifted, missed>>

PutRev(t) ==
  /\ At(t, "putRev", "incRev")
  /\ rev' = rev \cup IF call[t].indexed THEN RevEntries(call[t].uri, call[t].record)
                    ELSE {}
  /\ UNCHANGED <<main, ts, count, revcount, batch, env, calls, drifted, missed>>

\* Fault: the counter of the value counts new records only
IncRev_OnlyNew(t) ==
  /\ At(t, "incRev", "incCount")
  /\ revcount' = [v \in Values |->
       IF call[t].indexed /\ v = call[t].record.value /\ ~call[t].existed
       THEN revcount[v] + 1
       ELSE revcount[v]]
  /\ UNCHANGED <<main, ts, rev, count, batch, env, calls, drifted, missed>>

IncRev(t) ==
  /\ At(t, "incRev", "incCount")
  /\ revcount' = [v \in Values |->
       IF call[t].indexed /\ v = call[t].record.value THEN revcount[v] + 1
       ELSE revcount[v]]
  /\ UNCHANGED <<main, ts, rev, count, batch, env, calls, drifted, missed>>

\* Only a record that was not there at the get is counted
IncCount(t) ==
  /\ Last(t, "incCount")
  /\ count' = IF call[t].existed THEN count ELSE count + 1
  /\ UNCHANGED <<main, ts, rev, revcount, batch, env, calls, drifted, missed>>

-----------------------------------------------------------------------------
(* delete_with_indexes: index entries first, then the record               *)

DeleteGet(t, u) ==
  Begin(t, IF main[u] = NoRecord THEN "delMain" ELSE "delTs", u, main[u])

DeleteTs(t) ==
  /\ At(t, "delTs", "delRev")
  /\ ts' = ts \ {TsEntry(call[t].uri, call[t].record)}
  /\ UNCHANGED <<main, rev, count, revcount, batch, env, calls, drifted, missed>>

DeleteRev(t) ==
  /\ At(t, "delRev", "decRev")
  /\ rev' = rev \ IF call[t].indexed THEN RevEntries(call[t].uri, call[t].record)
                   ELSE {}
  /\ UNCHANGED <<main, ts, count, revcount, batch, env, calls, drifted, missed>>

DecRev(t) ==
  /\ At(t, "decRev", "delMain")
  /\ revcount' = [v \in Values |->
       IF call[t].indexed /\ v = call[t].record.value THEN Pred(revcount[v])
       ELSE revcount[v]]
  /\ UNCHANGED <<main, ts, rev, count, batch, env, calls, drifted, missed>>

DeleteMain(t) ==
  /\ At(t, "delMain", "decCount")
  /\ main' = [main EXCEPT ![call[t].uri] = NoRecord]
  /\ UNCHANGED <<ts, rev, count, revcount, batch, env, calls, drifted, missed>>

\* Fault: the counter goes down whether or not there was a record
DecCount_Always(t) ==
  /\ Last(t, "decCount")
  /\ count' = Pred(count)
  /\ UNCHANGED <<main, ts, rev, revcount, batch, env, calls, drifted, missed>>

DecCount(t) ==
  /\ Last(t, "decCount")
  /\ count' = IF call[t].existed THEN Pred(count) ELSE count
  /\ UNCHANGED <<main, ts, rev, revcount, batch, env, calls, drifted, missed>>

-----------------------------------------------------------------------------
(* put_batch_with_indexes                                                  *)

ValuesOf(records) ==
  {records[u].value : u \in {w \in DOMAIN records : indexed}} \cap Values

WithValue(records, v) == {u \in DOMAIN records : records[u].value = v}

\* The counters that the batch will change
CountersOf(records) ==
  [count |-> count, revcount |-> [v \in ValuesOf(records) |-> revcount[v]]]

\* The entries are collected, and the counters read under counter_lock, which
\* is then released
BatchCount(b, records) ==
  /\ batch[b].pc = "idle" /\ shell.pc = "idle"
  /\ Call(DOMAIN records, \E u \in DOMAIN records : HasRecord(u))
  /\ batch' = [batch EXCEPT ![b] =
       [pc |-> "commit", records |-> records, read |-> CountersOf(records)]]
  /\ UNCHANGED <<Keys, call, env, missed>>

\* Everything in the batch becomes visible at once; if a counter has changed
\* since it was read, the change is lost
BatchCommit(b) ==
  LET records == batch[b].records
      new     == DOMAIN records
  IN  /\ batch[b].pc = "commit"
      /\ main' = [u \in Uris |-> IF u \in new THEN records[u] ELSE main[u]]
      /\ ts' = ts \cup {TsEntry(u, records[u]) : u \in new}
      /\ rev' = rev \cup UNION {{e \in RevEntries(u, records[u]) : indexed} : u \in new}
      /\ count' = batch[b].read.count + Cardinality(new)
      /\ revcount' = [v \in Values |->
           IF v \in ValuesOf(records)
           THEN batch[b].read.revcount[v] + Cardinality(WithValue(records, v))
           ELSE revcount[v]]
      /\ batch' = [batch EXCEPT ![b] = NoBatch]
      /\ Written(new, indexed)
      /\ drifted' = drifted \cup Uncounted(indexed)
           \cup (IF batch[b].read = CountersOf(records) THEN {} ELSE Counters)
      /\ UNCHANGED <<call, env, calls>>

-----------------------------------------------------------------------------
(* Commands of the shell, which imports and takes commands in one thread,  *)
(* while its stream calls put_with_indexes and delete_with_indexes         *)

\* The thread is free to take a command
Ask ==
  /\ process = "up" /\ shell.pc = "idle"
  /\ \A b \in Batchers : batch[b].pc = "idle"
  /\ Call({}, FALSE)
  /\ commands < MaxCommands
  /\ commands' = commands + 1

\* A command reads what is stored, and writes afterwards; since: the number of
\* calls when it began, if no other was at work
Command(pc, read) ==
  /\ Ask
  /\ shell' = [pc |-> pc, read |-> read, since |-> IF AllQuiet THEN calls' ELSE 0]
  /\ UNCHANGED <<Keys, call, batch, indexed, process, crashes, missed>>

\* `.config indexes`: nothing is built
Configure(named) ==
  /\ Ask
  /\ indexed' = named
  /\ UNCHANGED <<Keys, call, batch, process, shell, crashes, missed>>

Present == {u \in Uris : HasRecord(u)}

\* rebuild_index, rebuild_indexed_at: the records of a snapshot, one by one
RebuildScan(index) == Command(index, [u \in Present |-> main[u]])

Remaining(u) == [w \in DOMAIN shell.read \ {u} |-> shell.read[w]]

Rebuilt(u, index) ==
  /\ shell.pc = index /\ u \in DOMAIN shell.read
  /\ shell' = IF DOMAIN shell.read = {u} THEN NoCommand
              ELSE [shell EXCEPT !.read = Remaining(u)]
  /\ missed' = IF main[u] = shell.read[u] THEN missed \ {<<u, index>>} ELSE missed
  /\ UNCHANGED <<main, count, call, batch, indexed, process, calls, commands, crashes, drifted>>

\* write_index_entry: counts the entry, whether it was there or not
RebuildIndex(u) ==
  /\ Rebuilt(u, "rev")
  /\ rev' = rev \cup RevEntries(u, shell.read[u])
  /\ revcount' = [v \in Values |->
       IF v = shell.read[u].value THEN revcount[v] + 1 ELSE revcount[v]]
  /\ UNCHANGED ts

RebuildTs(u) ==
  /\ Rebuilt(u, "ts")
  /\ ts' = ts \cup {TsEntry(u, shell.read[u])}
  /\ UNCHANGED <<rev, revcount>>

\* Entries of an earlier version of a record, or of one that is gone
StaleTs == {e \in ts : ~HasRecord(e[2]) \/ e # TsEntry(e[2], main[e[2]])}

Recounted(pc, kind, right) ==
  /\ shell.pc = pc
  /\ shell' = NoCommand
  /\ drifted' = IF shell.since = calls /\ right THEN drifted \ {kind}
                ELSE drifted \cup {kind}
  /\ UNCHANGED <<main, ts, rev, call, batch, indexed, process, calls, commands, crashes, missed>>

\* rebuild_count: the number of timestamp entries, without counter_lock
RecountRead == Command("recount", Cardinality(ts))

RecountWrite ==
  /\ Recounted("recount", "count", StaleTs = {} /\ missed \cap (Present \X {"ts"}) = {})
  /\ count' = shell.read
  /\ UNCHANGED revcount

\* rebuild_reverse_counts: a value without entries keeps its counter
EntriesOf(v) == {e \in rev : e[1] = v}

RecountReverseRead == Command("recountRev", [v \in Values |-> Cardinality(EntriesOf(v))])

RecountReverseWrite ==
  /\ Recounted("recountRev", "revcount", missed \cap (Present \X {"rev"}) = {})
  /\ revcount' = [v \in Values |-> IF shell.read[v] > 0 THEN shell.read[v] ELSE revcount[v]]
  /\ UNCHANGED count

-----------------------------------------------------------------------------
(* The process dies and starts again                                       *)

\* A record in a call is left half written; a batch is written or not
Crash ==
  /\ process = "up" /\ crashes < MaxCrashes
  /\ crashes' = crashes + 1
  /\ process' = "down"
  /\ LET torn == {call[t].uri : t \in Callers} \ {NoUri} IN
       /\ missed' = missed \cup (torn \X {"ts", "rev"})
       /\ drifted' = IF torn = {} THEN drifted ELSE Counters
  /\ call' = [t \in Callers |-> NoCall]
  /\ batch' = [b \in Batchers |-> NoBatch]
  /\ shell' = NoCommand
  /\ UNCHANGED <<Keys, indexed, calls, commands>>

\* The index is built for the records us; the process dies if it does not come
\* to the end
Built(us, index, next) ==
  /\ us \subseteq Present
  /\ missed' = (missed \ (us \X {index})) \cup ((Present \ us) \X {index})
  /\ IF us = Present THEN process' = next /\ UNCHANGED crashes
     ELSE crashes < MaxCrashes /\ crashes' = crashes + 1 /\ process' = "down"

\* The index on the field is built if it is configured and has no entry
StartIndex(named, us) ==
  /\ process = "down"
  /\ indexed' = named
  /\ IF named /\ rev = {}
     THEN /\ Built(us, "rev", "starting")
          /\ rev' = UNION {RevEntries(u, main[u]) : u \in us}
          /\ revcount' = [v \in Values |->
               revcount[v] + Cardinality({u \in us : main[u].value = v})]
          /\ drifted' = IF us = Present THEN drifted \ {"revcount"}
                        ELSE drifted \cup {"revcount"}
     ELSE /\ us = {} /\ process' = "starting"
          /\ UNCHANGED <<rev, revcount, drifted, missed, crashes>>
  /\ UNCHANGED <<main, ts, count, call, batch, shell, calls, commands>>

\* So are the timestamp entries
StartTs(us) ==
  /\ process = "starting"
  /\ IF ts = {}
     THEN Built(us, "ts", "up") /\ ts' = {TsEntry(u, main[u]) : u \in us}
     ELSE us = {} /\ process' = "up" /\ UNCHANGED <<ts, missed, crashes>>
  /\ UNCHANGED <<main, rev, count, revcount, call, batch, indexed, shell, calls, commands, drifted>>

-----------------------------------------------------------------------------
PutStep(t) ==
  \/ \E u \in Uris, record \in Record : PutGet(t, u, record)
  \/ PutMain(t) \/ PutTs(t) \/ PutRev(t) \/ IncRev(t) \/ IncCount(t)

DeleteStep(t) ==
  \/ \E u \in Uris : DeleteGet(t, u)
  \/ DeleteTs(t) \/ DeleteRev(t) \/ DecRev(t) \/ DeleteMain(t) \/ DecCount(t)

BatchStep(b) ==
  \/ \E us \in (SUBSET Uris) \ {{}} : \E records \in [us -> Record] : BatchCount(b, records)
  \/ BatchCommit(b)

ShellStep ==
  \/ \E named \in BOOLEAN : Configure(named)
  \/ \E index \in {"ts", "rev"} : Present # {} /\ RebuildScan(index)
  \/ \E u \in Uris : RebuildIndex(u) \/ RebuildTs(u)
  \/ RecountRead \/ RecountWrite \/ RecountReverseRead \/ RecountReverseWrite

Start ==
  \E us \in SUBSET Uris : StartTs(us) \/ \E named \in BOOLEAN : StartIndex(named, us)

Next ==
  \/ \E t \in Callers : PutStep(t) \/ DeleteStep(t)
  \/ \E b \in Batchers : BatchStep(b)
  \/ ShellStep
  \/ Crash \/ Start

Spec == Init /\ [][Next]_vars

-----------------------------------------------------------------------------
(* What a reader sees                                                      *)

\* count_collection
CountCollection == count

\* count_by_field_value: a zero counter falls back on the index entries
CountByFieldValue(v) ==
  IF revcount[v] > 0 THEN revcount[v] ELSE Cardinality({e \in rev : e[1] = v})

HoldsValue(v) == {u \in Uris : HasRecord(u) /\ main[u].value = v}

-----------------------------------------------------------------------------
(* Properties                                                              *)

\* Every record that nobody is writing can be found through both indexes
\* under its own timestamp and value, even if threads put and deleted it at
\* the same time, an index was rebuilt meanwhile, or the process died:
\* delete_with_indexes removes the entries before the record,
\* put_with_indexes writes them after it.  The exceptions, all in `missed`: a
\* record that was half written at a crash, one that was written while the
\* configuration did not name the index, one that a build at the start did not
\* come to; a build that reaches the record ends the exception.
RecordsIndexed ==
  \A u \in Uris : Quiet(u) /\ HasRecord(u) =>
    /\ TsEntry(u, main[u]) \in ts \/ <<u, "ts">> \in missed
    /\ RevEntries(u, main[u]) \subseteq rev \/ <<u, "rev">> \in missed

\* "Lock to ensure atomic counter updates": when no call is in progress, the
\* counter of the collection is the number of its records.  It drifts when two
\* calls work on one record at once, a batch holds records that exist, a counter
\* changes between its read and its write by a batch or by rebuild_count, and
\* when the process dies in a call; and it is right again after a rebuild_count
\* that nothing disturbed, if all timestamp entries are current.
CountExact ==
  AllQuiet /\ "count" \notin drifted =>
    CountCollection = Cardinality({u \in Uris : HasRecord(u)})

\* A lookup by value never reports fewer records than there are: updates and
\* rebuild_index leave too much behind, but none is missed, with the same
\* exceptions, and until the index is built again if a record was written while
\* the configuration did not name it.
FieldCountCovers ==
  AllQuiet /\ "revcount" \notin drifted =>
    \A v \in Values : CountByFieldValue(v) >= Cardinality(HoldsValue(v))
=============================================================================
