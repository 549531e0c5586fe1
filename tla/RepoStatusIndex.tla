-------------------------- MODULE RepoStatusIndex --------------------------
(***************************************************************************)
(* RepoStore (src/src/repos.rs), key by key.  A RepoState is kept under    *)
(* "r:{did}", and an empty entry "s:{status}:{did}" lets list_by_status    *)
(* find the repositories of a status.  put and delete touch the two keys   *)
(* with separate calls, without a lock and without a batch, so threads     *)
(* interleave between any two of them and a crash keeps a prefix.          *)
(***************************************************************************)
EXTENDS Naturals

CONSTANTS
  Dids,         \* the repositories
  Statuses,     \* the values of RepoStatus in use
  Writers,      \* threads in put or delete
  MaxCrashes,   \* bound: how often the process may crash
  NoStatus,     \* "nothing stored under r:{did}"
  NoDid         \* "no call in progress"

ASSUME StatusIndexAssumption ==
  /\ NoStatus \notin Statuses
  /\ NoDid \notin Dids
  /\ MaxCrashes \in Nat

VARIABLES
  main,     \* r:{did}: the stored status of each DID, or NoStatus
  index,    \* s:{status}:{did}: the pairs that have an entry
  writer,   \* the put or delete each writer is in
  crashes,
  torn      \* history: DIDs that a crash caught in a put or delete, until their
            \* main key is written again

vars == <<main, index, writer, crashes, torn>>

IdleWriter == [pc |-> "idle", did |-> NoDid, old |-> NoStatus, new |-> NoStatus]

Init ==
  /\ main = [d \in Dids |-> NoStatus]
  /\ index = {}
  /\ writer = [t \in Writers |-> IdleWriter]
  /\ crashes = 0
  /\ torn = {}

\* No put or delete of d is in progress
Quiet(d) == \A t \in Writers : writer[t].did # d

Begin(t, pc, d, new) ==
  /\ writer[t].pc = "idle"
  /\ writer' = [writer EXCEPT ![t] = [pc |-> pc, did |-> d, old |-> main[d], new |-> new]]
  /\ UNCHANGED <<main, index, crashes, torn>>

Continue(t, pc) == writer' = [writer EXCEPT ![t].pc = pc]

Return(t) == writer' = [writer EXCEPT ![t] = IdleWriter]

-----------------------------------------------------------------------------
(* put                                                                     *)

\* The old state is read; its entry goes only if the status changes
PutGet(t, d, s) ==
  Begin(t, IF main[d] \notin {NoStatus, s} THEN "unindexOld" ELSE "insertMain", d, s)

PutUnindexOld(t) ==
  /\ writer[t].pc = "unindexOld"
  /\ index' = index \ {<<writer[t].old, writer[t].did>>}
  /\ Continue(t, "insertMain")
  /\ UNCHANGED <<main, crashes, torn>>

PutMain(t) ==
  /\ writer[t].pc = "insertMain"
  /\ main' = [main EXCEPT ![writer[t].did] = writer[t].new]
  /\ torn' = torn \ {writer[t].did}
  /\ Continue(t, "insertIndex")
  /\ UNCHANGED <<index, crashes>>

\* Fault: the entry is added only for a status that changed
PutIndex_OnlyIfChanged(t) ==
  /\ writer[t].pc = "insertIndex"
  /\ index' = IF writer[t].old = writer[t].new THEN index
              ELSE index \cup {<<writer[t].new, writer[t].did>>}
  /\ Return(t)
  /\ UNCHANGED <<main, crashes, torn>>

PutIndex(t) ==
  /\ writer[t].pc = "insertIndex"
  /\ index' = index \cup {<<writer[t].new, writer[t].did>>}
  /\ Return(t)
  /\ UNCHANGED <<main, crashes, torn>>

-----------------------------------------------------------------------------
(* delete                                                                  *)

DeleteGet(t, d) ==
  Begin(t, IF main[d] # NoStatus THEN "unindex" ELSE "removeMain", d, NoStatus)

DeleteIndex(t) ==
  /\ writer[t].pc = "unindex"
  /\ index' = index \ {<<writer[t].old, writer[t].did>>}
  /\ Continue(t, "removeMain")
  /\ UNCHANGED <<main, crashes, torn>>

DeleteMain(t) ==
  /\ writer[t].pc = "removeMain"
  /\ main' = [main EXCEPT ![writer[t].did] = NoStatus]
  /\ torn' = torn \ {writer[t].did}
  /\ Return(t)
  /\ UNCHANGED <<index, crashes>>

\* The process dies and comes back with what was written
Crash ==
  /\ crashes < MaxCrashes
  /\ crashes' = crashes + 1
  /\ writer' = [t \in Writers |-> IdleWriter]
  /\ torn' = torn \cup {d \in Dids : ~Quiet(d)}
  /\ UNCHANGED <<main, index>>

WriterStep(t) ==
  \/ \E d \in Dids, s \in Statuses : PutGet(t, d, s)
  \/ PutUnindexOld(t) \/ PutMain(t) \/ PutIndex(t)
  \/ \E d \in Dids : DeleteGet(t, d)
  \/ DeleteIndex(t) \/ DeleteMain(t)

Next ==
  \/ \E t \in Writers : WriterStep(t)
  \/ Crash

Spec == Init /\ [][Next]_vars

-----------------------------------------------------------------------------
(* Properties                                                              *)

TypeOK ==
  /\ main \in [Dids -> Statuses \cup {NoStatus}]
  /\ index \subseteq Statuses \X Dids
  /\ writer \in [Writers ->
       [pc : {"idle", "unindexOld", "insertMain", "insertIndex", "unindex", "removeMain"},
        did : Dids \cup {NoDid},
        old : Statuses \cup {NoStatus}, new : Statuses \cup {NoStatus}]]
  /\ crashes \in 0 .. MaxCrashes
  /\ torn \subseteq Dids
  /\ \A t \in Writers :
       /\ writer[t].pc # "idle" => writer[t].did \in Dids
       /\ writer[t].pc \in {"unindexOld", "insertMain", "insertIndex"}
            => writer[t].new \in Statuses

\* list_by_status: the DIDs with an entry whose main key still exists; the
\* status of the state it fetches is not looked at
ListByStatus(s) == {d \in Dids : <<s, d>> \in index /\ main[d] # NoStatus}

Listed(d) == Quiet(d) /\ main[d] # NoStatus => d \in ListByStatus(main[d])

\* A repository that nobody is writing can be found under its status, however
\* many threads put and deleted it at once before: list_by_status misses no
\* repository, so the retry loop and the resume task ("Re-queue any repos that
\* were pending or syncing from a previous run") miss none.  A crash costs the
\* entries of those repositories only that were being written, and the next
\* put or delete repairs them.
IndexComplete == \A d \in Dids \ torn : Listed(d)
=============================================================================
