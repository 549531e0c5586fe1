------------------------------- MODULE Import -------------------------------
(***************************************************************************)
(* Where the records of one repository come from: the downloads of a sync  *)
(* (src/src/sync.rs), started by the sync worker, POST /sync or the        *)
(* shell's ?sync; the firehose of the server; and the stream of the        *)
(* interactive shell (src/src/main.rs), which buffers the commits of a     *)
(* repository that is syncing (src/src/resync_buffer.rs) until the next    *)
(* sync drains them (src/src/sync_worker.rs).  The server and the shell    *)
(* are processes that run one after the other on one data directory.       *)
(*                                                                         *)
(* The version of an item is the number of the event that made it, 0 if    *)
(* there is none.  The handle of the repository is an item too: it is      *)
(* resolved before a download and written after it, and identity events    *)
(* change it.  RepoState is read and written in one step here              *)
(* (RepoLifecycle takes these apart), a record is written in one step      *)
(* (RecordStore), and an event is stored when it is delivered              *)
(* (FirehosePipeline has the buffer and the cursor); records are those     *)
(* that match config.collections, in manual mode.                          *)
(***************************************************************************)
EXTENDS Naturals, Sequences, FiniteSets, FiniteSetsExt

CONSTANTS
  Uris,         \* the records of the repository
  Handle,       \* its handle
  Workers,      \* tasks of the sync worker
  Callers,      \* POST /sync, or ?sync in the shell
  MaxEvents,    \* bound: commits and identity events of the relay
  MaxRequests,  \* bound: requests and shell commands
  MaxFailures,  \* bound: downloads, imports, and writes of any kind that fail
  MaxRestarts   \* bound: starts of a process, and connections without a cursor

Tasks == Workers \cup Callers

Items == Uris \cup {Handle}

ASSUME ImportAssumption ==
  /\ Handle \notin Uris
  /\ Workers \cap Callers = {}
  /\ IsFiniteSet(Tasks)

VARIABLES
  log,       \* external: the events of the repository, as the relay sends them
  process,   \* "server" or "shell"
  status,    \* RepoState.status, or "untracked" without a RepoState
  queued,    \* is the DID in the channel, or due for a retry?
  seen,      \* where the stream stands: the events before are not sent again
  store,     \* the version of each item that is stored
  buffer,    \* ResyncBuffer: events it holds
  task,      \* the syncs
  used,      \* how much of the bounds is used up
  excused    \* history: items that one of the steps below left behind

vars == <<log, process, status, queued, seen, store, buffer, task, used, excused>>

NoTask == [at |-> "idle", doc |-> 0, rev |-> 0, todo |-> {}, hand |-> {}]

Init ==
  /\ log = << >>
  /\ process = "server"
  /\ status = "untracked" /\ queued = FALSE
  /\ seen = 0
  /\ store = [i \in Items |-> 0]
  /\ buffer = {}
  /\ task = [t \in Tasks |-> NoTask]
  /\ used = [requests |-> 0, failures |-> 0, restarts |-> 0]
  /\ excused = {}

Count(bound, max) ==
  /\ used[bound] < max
  /\ used' = [used EXCEPT ![bound] = @ + 1]

-----------------------------------------------------------------------------
(* Versions                                                                *)

\* The last of the first n events that is about the item
Last(i, n) == Max({0} \cup {k \in 1 .. n : log[k].item = i})

Newest(i) == Last(i, Len(log))

\* The version of the item after n events
Version(i, n) ==
  LET k == Last(i, n) IN IF k = 0 THEN 0 ELSE IF log[k].gone THEN 0 ELSE k

Hands == UNION {task[t].hand : t \in Tasks}

\* The item as it was after n events is about to be written, but a later event
\* about it has been delivered already and is not waiting to be replayed
Overtaken(i, n) ==
  LET k == Last(i, seen) IN k > n /\ k \notin buffer \cup Hands

\* Written: items as they were after n events
Write(is, n) ==
  /\ store' = [i \in Items |-> IF i \in is THEN Version(i, n) ELSE store[i]]
  /\ excused' = (excused \ is) \cup {i \in is : Overtaken(i, n)}

\* The items of a set that are not stored as they were after n events
Unwritten(is, n) == {i \in is : store[i] # Version(i, n)}

\* Items whose events are given up, for good
Forget(is) == excused' = excused \cup Unwritten(is, Len(log))

-----------------------------------------------------------------------------
(* External: the account, whose events the relay sends in this order       *)

Publish(i, gone) ==
  /\ Len(log) < MaxEvents
  /\ gone => i \in Uris /\ Version(i, Len(log)) # 0
  /\ log' = Append(log, [item |-> i, gone |-> gone])
  /\ UNCHANGED <<process, status, queued, seen, store, buffer, task, used, excused>>

-----------------------------------------------------------------------------
(* The stream delivers the next event                                      *)

Deliver(p) ==
  /\ process = p /\ seen < Len(log)
  /\ seen' = seen + 1
  /\ UNCHANGED <<log, process, status, queued, task>>

\* The event that comes next, and the item it is about
Event == log[seen + 1]

\* A connection without a cursor, of the server or of the shell, begins with what
\* the relay sends from now on.  There is no cursor until one was saved for the
\* relay: at the 1000th commit, at an error or at the end of a stream.
ConnectLive ==
  /\ seen < Len(log)
  /\ Count("restarts", MaxRestarts)
  /\ seen' = Len(log)
  /\ Forget({log[k].item : k \in seen + 1 .. Len(log)})
  /\ UNCHANGED <<log, process, status, queued, store, buffer, task>>

Apply ==
  /\ store' = [store EXCEPT ![Event.item] = Version(Event.item, seen + 1)]
  /\ excused' = excused \ {Event.item}

\* start_firehose: commits of tracked repositories, and every identity event
FirehoseApplies ==
  /\ Deliver("server")
  /\ status # "untracked" \/ Event.item = Handle
  /\ Apply
  /\ UNCHANGED <<buffer, used>>

\* A commit of a repository that is not tracked is passed over
FirehosePasses ==
  /\ Deliver("server")
  /\ status = "untracked" /\ Event.item # Handle
  /\ excused' = excused \cup {Event.item}
  /\ UNCHANGED <<store, buffer, used>>

\* Fault: the shell's stream passes over what happens during a sync
StreamBuffers_Passes ==
  /\ Deliver("shell")
  /\ status = "syncing" /\ Event.item # Handle
  /\ UNCHANGED <<store, buffer, used, excused>>

\* start_streaming buffers the commits of a repository that is syncing ...
StreamBuffers ==
  /\ Deliver("shell")
  /\ status = "syncing" /\ Event.item # Handle
  /\ buffer' = buffer \cup {seen + 1}
  /\ UNCHANGED <<store, used, excused>>

\* ... and applies the others, of tracked repositories or not
StreamApplies ==
  /\ Deliver("shell")
  /\ status # "syncing" \/ Event.item = Handle
  /\ Apply
  /\ UNCHANGED <<buffer, used>>

\* What is to be stored or buffered cannot be: logged, and the stream goes on
StreamLoses(p) ==
  /\ Deliver(p)
  /\ Count("failures", MaxFailures)
  /\ Forget({Event.item})
  /\ UNCHANGED <<store, buffer>>

-----------------------------------------------------------------------------
(* Requests and shell commands                                             *)

\* The shell takes no command while ?sync runs
CanAsk == process = "shell" => \A c \in Callers : task[c].at = "idle"

\* repos_add and repos_resync, `.repos add` and `.repos resync`: the shell puts
\* the state and has nothing to queue it in
Track ==
  /\ CanAsk
  /\ Count("requests", MaxRequests)
  /\ status' = "pending"
  /\ queued' = (process = "server")
  /\ UNCHANGED <<log, process, seen, store, buffer, task, excused>>

\* repos_remove and `.repos remove`: the records stay
Untrack ==
  /\ CanAsk /\ status # "untracked"
  /\ Count("requests", MaxRequests)
  /\ status' = "untracked"
  /\ UNCHANGED <<log, process, queued, seen, store, buffer, task, excused>>

-----------------------------------------------------------------------------
(* A sync                                                                  *)

At(t, label) == task[t].at = label

Do(t, new) == task' = [task EXCEPT ![t] = new]

Outside == <<log, process, seen>>

\* sync_one_repo marks a tracked repository
StartWorker(w) ==
  /\ At(w, "idle") /\ process = "server" /\ queued
  /\ queued' = FALSE
  /\ status' = IF status = "untracked" THEN status ELSE "syncing"
  /\ Do(w, [NoTask EXCEPT !.at = "resolve"])
  /\ UNCHANGED <<store, buffer, used, excused>> /\ UNCHANGED Outside

\* sync_handler, or ?sync
StartCall(c) ==
  /\ At(c, "idle") /\ CanAsk
  /\ Count("requests", MaxRequests)
  /\ Do(c, [NoTask EXCEPT !.at = "resolve"])
  /\ UNCHANGED <<status, queued, store, buffer, excused>> /\ UNCHANGED Outside

\* resolve_did: the version of the handle in the DID document
Resolve(t) ==
  /\ At(t, "resolve")
  /\ Do(t, [task[t] EXCEPT !.at = "fetch", !.doc = Newest(Handle)])
  /\ UNCHANGED <<status, queued, store, buffer, used, excused>> /\ UNCHANGED Outside

\* getRepo: the records as of now.  From here on the import owes them
Fetch(t) ==
  /\ At(t, "fetch")
  /\ LET todo == {u \in Uris : Version(u, Len(log)) # 0} IN
       /\ Do(t, [task[t] EXCEPT !.at = "import", !.rev = Len(log), !.todo = todo])
       /\ excused' = excused \ todo
  /\ UNCHANGED <<status, queued, store, buffer, used>> /\ UNCHANGED Outside

\* process_car: a batch of a fresh sync, or a record of a resync
ImportSome(t, us) ==
  /\ At(t, "import") /\ us \subseteq task[t].todo
  /\ Write(us, task[t].rev)
  /\ Do(t, [task[t] EXCEPT !.todo = @ \ us])
  /\ UNCHANGED <<status, queued, buffer, used>> /\ UNCHANGED Outside

\* A write fails, or a record does not decode: a warning, and the import goes on
ImportSkips(t, us) ==
  /\ At(t, "import") /\ us \subseteq task[t].todo
  /\ Count("failures", MaxFailures)
  /\ excused' = excused \cup Unwritten(us, task[t].rev)
  /\ Do(t, [task[t] EXCEPT !.todo = @ \ us])
  /\ UNCHANGED <<status, queued, store, buffer>> /\ UNCHANGED Outside

\* The last step of a call, or of a worker whose repository was removed
Leave(t) == Do(t, NoTask)

\* Resolution, download or import fails, the PDS limits the rate or is left
\* alone because it did: the worker schedules a retry
Fail(t) ==
  /\ At(t, "resolve") \/ At(t, "fetch") \/ At(t, "import")
  /\ Count("failures", MaxFailures)
  /\ excused' = excused \cup Unwritten(task[t].todo, task[t].rev)
  /\ IF t \in Workers /\ status # "untracked"
     THEN status' \in {"error", "pending"} /\ queued' = TRUE
     ELSE UNCHANGED <<status, queued>>
  /\ Leave(t)
  /\ UNCHANGED <<store, buffer>> /\ UNCHANGED Outside

\* The handle is stored, or there is none in the DID document, or it cannot be:
\* the event that made it was delivered or will be, and nobody relies on this
StoreHandle(t) == Write({Handle}, task[t].doc) \/ UNCHANGED <<store, excused>>

\* Success of a call
FinishCall(c) ==
  /\ At(c, "import") /\ task[c].todo = {}
  /\ StoreHandle(c)
  /\ Leave(c)
  /\ UNCHANGED <<status, queued, buffer, used>> /\ UNCHANGED Outside

\* Success of a worker: the buffer is emptied into the hands of the task before
\* any of it is replayed
Finish(w) ==
  /\ At(w, "import") /\ task[w].todo = {} /\ status # "untracked"
  /\ StoreHandle(w)
  /\ Do(w, [NoTask EXCEPT !.at = "replay", !.hand = buffer])
  /\ buffer' = {}
  /\ UNCHANGED <<status, queued, used>> /\ UNCHANGED Outside

\* The repository was removed during the sync
FinishRemoved(w) ==
  /\ At(w, "import") /\ task[w].todo = {} /\ status = "untracked"
  /\ Leave(w)
  /\ UNCHANGED <<status, queued, store, buffer, used, excused>> /\ UNCHANGED Outside

\* drain_resync_buffer: the buffered commits in the order of their seq
Replay(w) ==
  /\ At(w, "replay") /\ task[w].hand # {}
  /\ LET k == Min(task[w].hand) IN
       /\ Write({log[k].item}, k)
       /\ Do(w, [task[w] EXCEPT !.hand = @ \ {k}])
  /\ UNCHANGED <<status, queued, buffer, used>> /\ UNCHANGED Outside

\* The write fails: a warning, and the replay goes on with the next one
ReplayFails(w) ==
  /\ At(w, "replay") /\ task[w].hand # {}
  /\ Count("failures", MaxFailures)
  /\ LET k == Min(task[w].hand) IN
       /\ Forget({log[k].item})
       /\ Do(w, [task[w] EXCEPT !.hand = @ \ {k}])
  /\ UNCHANGED <<status, queued, store, buffer>> /\ UNCHANGED Outside

\* The state that was read before the drain is put as synced
Verdict(w) ==
  /\ At(w, "replay") /\ task[w].hand = {}
  /\ status' = "synced"
  /\ Leave(w)
  /\ UNCHANGED <<queued, store, buffer, used, excused>> /\ UNCHANGED Outside

-----------------------------------------------------------------------------
(* The process ends, in any state, and the server or the shell starts       *)

\* Fault: only what is pending is resumed
Incomplete_Pending == status \in {"pending", "error"}

\* What resume_incomplete_syncs queues and the retry loop retries
Incomplete == status \in {"pending", "syncing", "error"}

\* The stream resumes where the cursor was saved; without one ConnectLive follows
Restart(p, k) ==
  /\ Count("restarts", MaxRestarts)
  /\ process' = p
  /\ queued' = (p = "server" /\ Incomplete)
  /\ seen' = k
  /\ excused' = excused
       \cup (UNION {Unwritten(task[t].todo, task[t].rev) : t \in Tasks})
       \cup {log[h].item : h \in Hands}
  /\ task' = [t \in Tasks |-> NoTask]
  /\ UNCHANGED <<log, status, store, buffer>>

-----------------------------------------------------------------------------
StreamStep ==
  \/ FirehoseApplies \/ FirehosePasses \/ StreamBuffers \/ StreamApplies
  \/ \E p \in {"server", "shell"} : StreamLoses(p)

TaskStep(t) ==
  \/ Resolve(t) \/ Fetch(t) \/ Fail(t)
  \/ \E us \in (SUBSET Uris) \ {{}} : ImportSome(t, us) \/ ImportSkips(t, us)

WorkerStep(w) ==
  StartWorker(w) \/ Finish(w) \/ FinishRemoved(w) \/ Replay(w) \/ ReplayFails(w) \/ Verdict(w)

Next ==
  \/ \E i \in Items, gone \in BOOLEAN : Publish(i, gone)
  \/ ConnectLive \/ StreamStep
  \/ Track \/ Untrack
  \/ \E t \in Tasks : TaskStep(t)
  \/ \E w \in Workers : WorkerStep(w)
  \/ \E c \in Callers : StartCall(c) \/ FinishCall(c)
  \/ \E p \in {"server", "shell"}, k \in 0 .. seen : Restart(p, k)

Spec == Init /\ [][Next]_vars

-----------------------------------------------------------------------------
(* Properties                                                              *)

Current(i) == store[i] = Version(i, Len(log))

\* Its newest event is still to come, or to be replayed, or in a download
Owed(i) ==
  \/ Newest(i) > seen
  \/ Newest(i) \in buffer \cup Hands
  \/ \E t \in Tasks : i \in task[t].todo /\ task[t].rev >= Newest(i)

\* However syncs, streams, requests and restarts interleave, what is stored is
\* what the account has, or will be made so by something that is under way.
\* What can leave an item behind is in `excused`: an import, a handle or a replay
\* that writes over a newer event, a commit passed over while the repository was
\* not tracked, events before a connection without a cursor, a record that was
\* skipped, a write of the stream or of a replay that failed, an import or a drain
\* that was cut off.
KeepsUp == \A i \in Items : Current(i) \/ Owed(i) \/ i \in excused

\* Commits that the shell buffered are not forgotten: in a server that tracks
\* the repository, a sync that will drain them is queued or under way.
BufferIsOwed ==
  buffer # {} /\ process = "server" /\ status # "untracked" =>
    queued \/ \E w \in Workers : task[w].at \in {"resolve", "fetch", "import"}
=============================================================================
