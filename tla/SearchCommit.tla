---------------------------- MODULE SearchCommit ----------------------------
(***************************************************************************)
(* How SearchIndex (src/src/search.rs) commits what its callers add.  The  *)
(* tantivy writer and pending_count, the number of calls since the last    *)
(* commit, have a lock each, shared by the firehose, the sync workers, the *)
(* reindexing thread and the shutdown.  last_commit has a third one, which *)
(* no thread holds while it waits for another, so it is left out; that     *)
(* COMMIT_INTERVAL has passed is a choice.                                 *)
(***************************************************************************)
EXTENDS Naturals, FiniteSets

CONSTANTS
  Indexers,    \* threads that call index_record or delete_record
  Committers,  \* threads that call commit: the shutdown, the end of a reindexing
  BatchSize,   \* COMMIT_BATCH_SIZE
  Nobody       \* "the lock is free"

ASSUME CommitAssumption ==
  /\ IsFiniteSet(Indexers)
  /\ BatchSize \in Nat \ {0}
  /\ Nobody \notin Indexers \cup Committers

Threads == Indexers \cup Committers

VARIABLES
  writer,        \* who holds the lock of the writer
  pending,       \* who holds the lock of pending_count
  count,         \* pending_count
  uncommitted,   \* calls whose documents are added and not committed
  pc

vars == <<writer, pending, count, uncommitted, pc>>

Init ==
  /\ writer = Nobody
  /\ pending = Nobody
  /\ count = 0
  /\ uncommitted = 0
  /\ pc = [t \in Threads |-> "idle"]

Goto(t, label) == pc' = [pc EXCEPT ![t] = label]

-----------------------------------------------------------------------------
(* index_record and delete_record                                          *)

\* The documents are added (or the delete is queued) under the writer lock
Add(t) ==
  /\ pc[t] = "idle"
  /\ writer = Nobody
  /\ uncommitted' = uncommitted + 1
  /\ Goto(t, "count")
  /\ UNCHANGED <<writer, pending, count>>

\* maybe_commit takes the lock of pending_count and counts; the batch is full
\* or old enough: it keeps the lock and goes on to the writer
CountAndCommit(t) ==
  /\ pc[t] = "count"
  /\ pending = Nobody
  /\ count' = count + 1
  /\ pending' = t
  /\ Goto(t, "commit")
  /\ UNCHANGED <<writer, uncommitted>>

\* Fault: only the interval makes it commit
CountOnly_AnyBatch(t) ==
  /\ pc[t] = "count"
  /\ pending = Nobody
  /\ count' = count + 1
  /\ Goto(t, "idle")
  /\ UNCHANGED <<writer, pending, uncommitted>>

\* ... or neither
CountOnly(t) ==
  /\ pc[t] = "count"
  /\ pending = Nobody
  /\ count + 1 < BatchSize
  /\ count' = count + 1
  /\ Goto(t, "idle")
  /\ UNCHANGED <<writer, pending, uncommitted>>

MaybeCommit(t) ==
  /\ pc[t] = "commit"
  /\ writer = Nobody
  /\ uncommitted' = 0
  /\ count' = 0
  /\ pending' = Nobody
  /\ Goto(t, "idle")
  /\ UNCHANGED writer

-----------------------------------------------------------------------------
(* commit                                                                  *)

\* It commits under the writer lock, and keeps it ...
Commit(t) ==
  /\ pc[t] = "idle"
  /\ writer = Nobody
  /\ uncommitted' = 0
  /\ writer' = t
  /\ Goto(t, "reset")
  /\ UNCHANGED <<pending, count>>

\* ... while it waits for the lock of pending_count
ResetCount(t) ==
  /\ pc[t] = "reset"
  /\ pending = Nobody
  /\ count' = 0
  /\ writer' = Nobody
  /\ Goto(t, "idle")
  /\ UNCHANGED <<pending, uncommitted>>

-----------------------------------------------------------------------------
IndexerStep(t) == Add(t) \/ CountAndCommit(t) \/ CountOnly(t) \/ MaybeCommit(t)

CommitterStep(t) == Commit(t) \/ ResetCount(t)

Next ==
  \/ \E t \in Indexers : IndexerStep(t)
  \/ \E t \in Committers : CommitterStep(t)

Spec == Init /\ [][Next]_vars

\* A thread in a call keeps running, and gets a lock that is free again and
\* again; nobody has to make a call
FairSpec ==
  /\ Spec
  /\ \A t \in Indexers :
       /\ SF_vars(CountAndCommit(t) \/ CountOnly(t))
       /\ SF_vars(MaybeCommit(t))
  /\ \A t \in Committers : SF_vars(ResetCount(t))

-----------------------------------------------------------------------------
(* Properties                                                              *)

\* A crash costs the search index at most a batch, and one call per thread
\* that has added its documents but not counted them: however commits, forced
\* commits and resets of the count interleave, the count never falls behind.
UncommittedBounded == uncommitted < BatchSize + Cardinality(Indexers)

\* Every index_record, delete_record and commit returns ("Force a commit
\* (useful for shutdown)").
EveryCallReturns == \A t \in Threads : pc[t] # "idle" ~> pc[t] = "idle"
=============================================================================
