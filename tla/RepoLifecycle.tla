--------------------------- MODULE RepoLifecycle ---------------------------
(***************************************************************************)
(* The life of a tracked repository in the atpdb server: the durable       *)
(* RepoState records (src/src/repos.rs), the bounded channel of DIDs and   *)
(* the workers that sync them (src/src/sync_worker.rs), and every thread   *)
(* that writes RepoState: HTTP requests and the firehose                   *)
(* (src/src/server.rs), the crawler (src/src/crawler.rs), the retry loop   *)
(* and the resume task (src/src/sync_worker.rs).                           *)
(*                                                                         *)
(* No thread takes a lock around its get and its put of a RepoState, so    *)
(* each read-modify-write is two actions here and everything that another  *)
(* thread may do between them is an interleaving.  RepoStore::put and      *)
(* delete are single steps (RepoStatusIndex opens them up).                *)
(*                                                                         *)
(* Of a RepoState only what decides who works on it is kept: its status    *)
(* and whether next_retry is Some (last_sync decides how records are       *)
(* written, which is not in this module).  The passage of time is the      *)
(* choice of which next_retry instants have passed.                        *)
(***************************************************************************)
EXTENDS Naturals, Sequences

CONSTANTS
  Dids,         \* the repositories
  Workers,      \* the permits of the semaphore: config.sync_parallelism many
  Clients,      \* HTTP requests that can be in flight together
  Impatient,    \* the clients that may disconnect while their handler waits
  Crawlers,     \* the crawler thread, or {} in manual mode
  Firehoses,    \* the firehose thread, or {} if the server has no relay
  QueueCap,     \* capacity of the channel (1000 in the source)
  MaxRequests,  \* bound: how many requests the clients make
  MaxFailures,  \* bound: how many syncs fail or are rate limited
  MaxCrashes,   \* bound: how often the process may crash and be restarted
  NoRepo,       \* "no RepoState under this key"
  NoDid         \* "no DID in hand"

Producers == Clients \cup Crawlers \cup Firehoses

Status == {"pending", "syncing", "synced", "error"}

RepoState == [status : Status, next_retry : BOOLEAN]

ASSUME LifecycleAssumption ==
  /\ Impatient \subseteq Clients
  /\ Clients \cap Crawlers = {}
  /\ Clients \cap Firehoses = {}
  /\ Crawlers \cap Firehoses = {}
  /\ QueueCap \in Nat \ {0}
  /\ MaxRequests \in Nat /\ MaxFailures \in Nat /\ MaxCrashes \in Nat
  /\ NoRepo \notin RepoState
  /\ NoDid \notin Dids

VARIABLES
  repos,    \* durable: the RepoState stored for each DID, or NoRepo
  up,       \* is the process running?
  used,     \* how much of the bounds is used up
  queue,    \* the channel of DIDs
  abandoned, \* history: DIDs that a step below gave up, until they are sent again
  hand,     \* the DID SyncWorker::run holds while it waits for a permit
  worker,   \* the spawned sync_one_repo tasks
  proc,     \* HTTP handlers, crawler and firehose
  retry,    \* the retry loop
  resume    \* the task that re-queues incomplete syncs at start

vars == <<repos, up, used, queue, abandoned, hand, worker, proc, retry, resume>>

-----------------------------------------------------------------------------
(* RepoState values                                                        *)

\* RepoState::new
NewRepo == [status |-> "pending", next_retry |-> FALSE]

\* RepoStore::list_by_status, as the set of DIDs it returns
ListByStatus(s) == {d \in Dids : repos[d] # NoRepo /\ repos[d].status = s}

\* Fault: the retry loop looks at errors only (rate-limited repos wait forever)
Scheduled_ErrorsOnly(s) ==
  {d \in ListByStatus(s) : s = "error" /\ repos[d].next_retry}

\* Repositories whose next_retry is set; `next_retry <= now` may hold of any
Scheduled(s) == {d \in ListByStatus(s) : repos[d].next_retry}

Put(d, state) == repos' = [repos EXCEPT ![d] = state]

\* Fault: an unbounded channel
Send_Unbounded(d) == queue' = Append(queue, d) /\ abandoned' = abandoned \ {d}

\* SyncHandle::queue / queue_blocking: waits while the channel is full
Send(d) ==
  /\ Len(queue) < QueueCap
  /\ queue' = Append(queue, d)
  /\ abandoned' = abandoned \ {d}

-----------------------------------------------------------------------------
(* Threads                                                                 *)

IdleWorker == [pc |-> "idle", did |-> NoDid, seen |-> NoRepo,
               result |-> "none"]
IdleProc   == [pc |-> "idle", did |-> NoDid, seen |-> NoRepo]
NothingListed == [d \in Dids |-> NoRepo]
Asleep     == [pc |-> "sleep", list |-> NothingListed, did |-> NoDid]
ResumeDone == [pc |-> "done", todo |-> {}]

Init ==
  /\ repos = [d \in Dids |-> NoRepo]
  /\ up = TRUE
  /\ used = [requests |-> 0, failures |-> 0, crashes |-> 0]
  /\ queue = << >>
  /\ abandoned = {}
  /\ hand = NoDid
  /\ worker = [w \in Workers |-> IdleWorker]
  /\ proc = [p \in Producers |-> IdleProc]
  /\ retry = Asleep
  /\ resume = [pc |-> "listSyncing", todo |-> {}]

-----------------------------------------------------------------------------
(* HTTP handlers, crawler and firehose                                     *)

Idle(p) == up /\ proc[p].pc = "idle"

Goto(p, pc, d, seen) ==
  proc' = [proc EXCEPT ![p] = [pc |-> pc, did |-> d, seen |-> seen]]

Others == <<up, hand, worker, retry, resume>>

\* An idle client sends a request
Request(c) ==
  /\ Idle(c)
  /\ used.requests < MaxRequests
  /\ used' = [used EXCEPT !.requests = @ + 1]

\* repos_add: the state is overwritten whether or not the DID is tracked
ReposAdd(c, d) ==
  /\ Request(c)
  /\ Put(d, NewRepo)
  /\ Goto(c, "queue", d, NoRepo)
  /\ UNCHANGED <<queue, abandoned, Others>>

\* repos_remove: contains, then delete; the records of the DID stay
ReposRemove(c, d) ==
  /\ Request(c)
  /\ repos[d] # NoRepo
  /\ Put(d, NoRepo)
  /\ UNCHANGED <<queue, abandoned, proc, Others>>

\* repos_resync reads the state ...
ReposResync(c, d) ==
  /\ Request(c)
  /\ repos[d] # NoRepo
  /\ Goto(c, "resync", d, repos[d])
  /\ UNCHANGED <<repos, queue, abandoned, Others>>

\* ... and puts it back as pending, with next_retry untouched
ReposResyncPut(c) ==
  /\ up /\ proc[c].pc = "resync"
  /\ Put(proc[c].did, [proc[c].seen EXCEPT !.status = "pending"])
  /\ Goto(c, "queue", proc[c].did, NoRepo)
  /\ UNCHANGED <<queue, abandoned, used, Others>>

\* A client that disconnects while its handler awaits a full channel: the
\* handler's future is dropped and the DID is never sent
ClientLeaves(c) ==
  /\ up /\ proc[c].pc = "queue"
  /\ Len(queue) = QueueCap
  /\ proc' = [proc EXCEPT ![c] = IdleProc]
  /\ abandoned' = abandoned \cup {proc[c].did}
  /\ UNCHANGED <<repos, queue, used, Others>>

\* Crawler and firehose: `if !contains(did)` ...
Discover(p, d) ==
  /\ Idle(p)
  /\ repos[d] = NoRepo
  /\ Goto(p, "discovered", d, NoRepo)
  /\ UNCHANGED <<repos, queue, abandoned, used, Others>>

\* ... `put(RepoState::new)`
DiscoverPut(p) ==
  /\ up /\ proc[p].pc = "discovered"
  /\ Put(proc[p].did, NewRepo)
  /\ Goto(p, "queue", proc[p].did, NoRepo)
  /\ UNCHANGED <<queue, abandoned, used, Others>>

\* ... `queue(did)`: the last step of add, resync and discovery
Enqueue(p) ==
  /\ up /\ proc[p].pc = "queue"
  /\ Send(proc[p].did)
  /\ proc' = [proc EXCEPT ![p] = IdleProc]
  /\ UNCHANGED <<repos, used, Others>>

\* The firehose updates the rev of a tracked repo for every commit: get ...
FirehoseCommit(f, d) ==
  /\ Idle(f)
  /\ repos[d] # NoRepo
  /\ Goto(f, "rev", d, repos[d])
  /\ UNCHANGED <<repos, queue, abandoned, used, Others>>

\* ... put: if the state has changed since, the change is undone
FirehosePutRev(f) ==
  /\ up /\ proc[f].pc = "rev"
  /\ Put(proc[f].did, proc[f].seen)
  /\ abandoned' = IF repos[proc[f].did] = proc[f].seen THEN abandoned
                  ELSE abandoned \cup {proc[f].did}
  /\ proc' = [proc EXCEPT ![f] = IdleProc]
  /\ UNCHANGED <<queue, used, Others>>

-----------------------------------------------------------------------------
(* SyncWorker::run                                                         *)

\* queue_rx.recv(): nothing else is received until a permit is acquired
Recv ==
  /\ up /\ hand = NoDid /\ queue # << >>
  /\ hand' = Head(queue)
  /\ queue' = Tail(queue)
  /\ UNCHANGED <<repos, up, used, abandoned, worker, proc, retry, resume>>

\* acquire_owned() gives a permit; the task is spawned
Spawn(w) ==
  /\ up /\ hand # NoDid /\ worker[w].pc = "idle"
  /\ worker' = [worker EXCEPT ![w] = [IdleWorker EXCEPT !.pc = "open", !.did = hand]]
  /\ hand' = NoDid
  /\ UNCHANGED <<repos, up, used, queue, abandoned, proc, retry, resume>>

-----------------------------------------------------------------------------
(* sync_one_repo                                                           *)

At(w, pc) == up /\ worker[w].pc = pc

RepoOf(w) == repos[worker[w].did]

RestOfServer == <<up, queue, abandoned, hand, proc, retry, resume>>

\* The state is read; without one the sync runs all the same
ReadState(w) ==
  /\ At(w, "open")
  /\ worker' = [worker EXCEPT
       ![w].pc = IF RepoOf(w) = NoRepo THEN "fetch" ELSE "mark",
       ![w].seen = RepoOf(w)]
  /\ UNCHANGED <<repos, used, RestOfServer>>

MarkSyncing(w) ==
  /\ At(w, "mark")
  /\ Put(worker[w].did, [worker[w].seen EXCEPT !.status = "syncing"])
  /\ worker' = [worker EXCEPT ![w].pc = "fetch", ![w].seen = NoRepo]
  /\ UNCHANGED <<used, RestOfServer>>

\* sync_repo returns; a panic counts as an error
SyncReturns(w, result) ==
  /\ At(w, "fetch")
  /\ \/ result = "ok" /\ UNCHANGED used
     \/ /\ result # "ok" /\ used.failures < MaxFailures
        /\ used' = [used EXCEPT !.failures = @ + 1]
  /\ worker' = [worker EXCEPT ![w].pc = "returned", ![w].result = result]
  /\ UNCHANGED <<repos, RestOfServer>>

\* The get after the sync; a repo removed meanwhile ends the task
ReadForVerdict(w) ==
  /\ At(w, "returned")
  /\ worker' = [worker EXCEPT ![w] =
       IF RepoOf(w) = NoRepo THEN IdleWorker
       ELSE [@ EXCEPT !.pc = "verdict", !.seen = RepoOf(w)]]
  /\ UNCHANGED <<repos, used, RestOfServer>>

\* Fault: a rate-limited repo goes back to pending without a next_retry
Verdict_NoRetry(seen, result) ==
  CASE result = "ok" ->
         [seen EXCEPT !.status = "synced", !.next_retry = FALSE]
    [] result = "rate_limited" -> [seen EXCEPT !.status = "pending"]
    [] result = "error" ->
         [seen EXCEPT !.status = "error", !.next_retry = TRUE]

\* The match on the result, applied to the state that was read
Verdict(seen, result) ==
  CASE result = "ok" ->
         [seen EXCEPT !.status = "synced", !.next_retry = FALSE]
    [] result = "rate_limited" ->
         [seen EXCEPT !.status = "pending", !.next_retry = TRUE]
    [] result = "error" ->
         [seen EXCEPT !.status = "error", !.next_retry = TRUE]

\* Fault: the permit is not dropped after the put
PutVerdict_KeepsPermit(w) ==
  /\ At(w, "verdict")
  /\ Put(worker[w].did, Verdict(worker[w].seen, worker[w].result))
  /\ worker' = [worker EXCEPT ![w].pc = "kept"]
  /\ UNCHANGED <<used, RestOfServer>>

\* The put, and the permit is dropped
PutVerdict(w) ==
  /\ At(w, "verdict")
  /\ Put(worker[w].did, Verdict(worker[w].seen, worker[w].result))
  /\ worker' = [worker EXCEPT ![w] = IdleWorker]
  /\ UNCHANGED <<used, RestOfServer>>

-----------------------------------------------------------------------------
(* retry_loop                                                              *)

RetryAt(pc) == up /\ retry.pc = pc /\ retry.did = NoDid

NotRetry == <<up, used, hand, worker, proc, resume>>

Listing(due) == [d \in Dids |-> IF d \in due THEN repos[d] ELSE NoRepo]

\* A tick: snapshot the Error repos that are due
RetryListErrors(due) ==
  /\ RetryAt("sleep")
  /\ due \subseteq Scheduled("error")
  /\ retry' = [pc |-> "errors", list |-> Listing(due), did |-> NoDid]
  /\ UNCHANGED <<repos, queue, abandoned, NotRetry>>

\* After the last of them: snapshot the rate-limited Pending repos
RetryListPending(due) ==
  /\ RetryAt("errors") /\ retry.list = NothingListed
  /\ due \subseteq Scheduled("pending")
  /\ retry' = [pc |-> "limited", list |-> Listing(due), did |-> NoDid]
  /\ UNCHANGED <<repos, queue, abandoned, NotRetry>>

RetrySleep ==
  /\ RetryAt("limited") /\ retry.list = NothingListed
  /\ retry' = Asleep
  /\ UNCHANGED <<repos, queue, abandoned, NotRetry>>

\* Fault: the retried state keeps its error status
RetryPut_StillError(d) ==
  /\ up /\ retry.did = NoDid /\ retry.list[d] # NoRepo
  /\ Put(d, [retry.list[d] EXCEPT !.next_retry = FALSE])
  /\ retry' = [retry EXCEPT !.list[d] = NoRepo, !.did = d]
  /\ UNCHANGED <<queue, abandoned, NotRetry>>

\* The listed state, not the current one, is written back
RetryPut(d) ==
  /\ up /\ retry.did = NoDid /\ retry.list[d] # NoRepo
  /\ Put(d, IF retry.pc = "errors"
            THEN [retry.list[d] EXCEPT !.status = "pending", !.next_retry = FALSE]
            ELSE [retry.list[d] EXCEPT !.next_retry = FALSE])
  /\ retry' = [retry EXCEPT !.list[d] = NoRepo, !.did = d]
  /\ UNCHANGED <<queue, abandoned, NotRetry>>

RetryQueue ==
  /\ up /\ retry.did # NoDid
  /\ Send(retry.did)
  /\ retry' = [retry EXCEPT !.did = NoDid]
  /\ UNCHANGED <<repos, NotRetry>>

-----------------------------------------------------------------------------
(* resume_incomplete_syncs                                                 *)

NotResume == <<repos, up, used, hand, worker, proc, retry>>

ResumeListSyncing ==
  /\ up /\ resume.pc = "listSyncing"
  /\ resume' = [pc |-> "queueSyncing", todo |-> ListByStatus("syncing")]
  /\ UNCHANGED <<queue, abandoned, NotResume>>

\* Fault: only the repos that were syncing are resumed
ResumeListPending_Skipped ==
  /\ up /\ resume.pc = "queueSyncing" /\ resume.todo = {}
  /\ resume' = [pc |-> "queuePending", todo |-> {}]
  /\ UNCHANGED <<queue, abandoned, NotResume>>

ResumeListPending ==
  /\ up /\ resume.pc = "queueSyncing" /\ resume.todo = {}
  /\ resume' = [pc |-> "queuePending", todo |-> ListByStatus("pending")]
  /\ UNCHANGED <<queue, abandoned, NotResume>>

ResumeQueue(d) ==
  /\ up /\ d \in resume.todo
  /\ Send(d)
  /\ resume' = [resume EXCEPT !.todo = @ \ {d}]
  /\ UNCHANGED NotResume

ResumeEnd ==
  /\ up /\ resume.pc = "queuePending" /\ resume.todo = {}
  /\ resume' = ResumeDone
  /\ UNCHANGED <<queue, abandoned, NotResume>>

-----------------------------------------------------------------------------
(* The process                                                             *)

\* The process dies, or is shut down and exits, between any two steps: the
\* channel and every thread are gone, what was put is kept
Crash ==
  /\ up /\ used.crashes < MaxCrashes
  /\ up' = FALSE
  /\ used' = [used EXCEPT !.crashes = @ + 1]
  /\ queue' = << >>
  /\ abandoned' = {}
  /\ hand' = NoDid
  /\ worker' = [w \in Workers |-> IdleWorker]
  /\ proc' = [p \in Producers |-> IdleProc]
  /\ retry' = Asleep
  /\ resume' = ResumeDone
  /\ UNCHANGED repos

\* start_sync_worker spawns the workers, the retry loop and the resume task
Restart ==
  /\ ~up
  /\ up' = TRUE
  /\ resume' = [pc |-> "listSyncing", todo |-> {}]
  /\ UNCHANGED <<repos, used, queue, abandoned, hand, worker, proc, retry>>

-----------------------------------------------------------------------------
Results == {"ok", "rate_limited", "error"}

ClientStep(c) ==
  \/ \E d \in Dids : ReposAdd(c, d) \/ ReposRemove(c, d) \/ ReposResync(c, d)
  \/ ReposResyncPut(c)

DiscoveryStep(p) == DiscoverPut(p) \/ \E d \in Dids : Discover(p, d)

FirehoseStep(f) == FirehosePutRev(f) \/ \E d \in Dids : FirehoseCommit(f, d)

WorkerStep(w) ==
  \/ ReadState(w) \/ MarkSyncing(w)
  \/ ReadForVerdict(w) \/ PutVerdict(w)

RetryStep ==
  \/ \E due \in SUBSET Dids : RetryListErrors(due) \/ RetryListPending(due)
  \/ \E d \in Dids : RetryPut(d)
  \/ RetrySleep \/ RetryQueue

ResumeStep ==
  \/ ResumeListSyncing \/ ResumeListPending \/ ResumeEnd
  \/ \E d \in Dids : ResumeQueue(d)

Next ==
  \/ \E c \in Clients : ClientStep(c)
  \/ \E c \in Impatient : ClientLeaves(c)
  \/ \E p \in Crawlers \cup Firehoses : DiscoveryStep(p)
  \/ \E p \in Producers : Enqueue(p)
  \/ \E f \in Firehoses : FirehoseStep(f)
  \/ Recv
  \/ \E w \in Workers : Spawn(w) \/ WorkerStep(w)
  \/ \E w \in Workers, r \in Results : SyncReturns(w, r)
  \/ RetryStep
  \/ ResumeStep
  \/ Crash
  \/ Restart

Spec == Init /\ [][Next]_vars

(***************************************************************************)
(* Fairness.  The tokio and OS threads keep running, an HTTP request to a  *)
(* PDS ends (REPO_FETCH_TIMEOUT), and a crashed server is restarted: weak  *)
(* fairness.  tokio's bounded channel serves waiting senders in turn and   *)
(* every next_retry instant passes: strong fairness per sender and per     *)
(* repository.  That a PDS asked again and again answers at last is an     *)
(* assumption about the network.                                           *)
(***************************************************************************)
RetryTick ==
  \/ \E due \in SUBSET Dids : RetryListErrors(due) \/ RetryListPending(due)
  \/ \E d \in Dids : RetryPut(d)
  \/ RetrySleep

ThreadFairness ==
  /\ WF_vars(Recv)
  /\ WF_vars(\E w \in Workers : Spawn(w))
  /\ \A w \in Workers :
       WF_vars(WorkerStep(w) \/ \E r \in Results : SyncReturns(w, r))
  /\ \A p \in Producers :
       SF_vars(Enqueue(p) \/ ReposResyncPut(p) \/ DiscoverPut(p) \/ FirehosePutRev(p))
  /\ WF_vars(RetryTick) /\ SF_vars(RetryQueue)
  /\ WF_vars(ResumeListSyncing \/ ResumeListPending \/ ResumeEnd)
  /\ SF_vars(\E d \in Dids : ResumeQueue(d))
  /\ WF_vars(Restart)

TimeFairness ==
  \A d \in Dids :
    /\ SF_vars(\E due \in SUBSET Dids : d \in due /\ RetryListErrors(due))
    /\ SF_vars(\E due \in SUBSET Dids : d \in due /\ RetryListPending(due))

NetworkFairness ==
  \A d \in Dids :
    SF_vars(\E w \in Workers : worker[w].did = d /\ SyncReturns(w, "ok"))

FairSpec == Spec /\ ThreadFairness /\ TimeFairness /\ NetworkFairness

-----------------------------------------------------------------------------
(* Properties                                                              *)

MaybeRepo == RepoState \cup {NoRepo}
MaybeDid  == Dids \cup {NoDid}

WorkerState ==
  [pc : {"idle", "open", "mark", "fetch", "returned", "verdict"},
   did : MaybeDid, seen : MaybeRepo, result : Results \cup {"none"}]

ProcState ==
  [pc : {"idle", "resync", "discovered", "rev", "queue"},
   did : MaybeDid, seen : MaybeRepo]

\* The shape of every record; a thread has a DID exactly while it is busy, a
\* state exactly while it is between its get and its put, and a stopped
\* process has no threads.
TypeOK ==
  /\ repos \in [Dids -> MaybeRepo]
  /\ up \in BOOLEAN
  /\ used \in [requests : 0 .. MaxRequests, failures : 0 .. MaxFailures,
               crashes : 0 .. MaxCrashes]
  /\ queue \in Seq(Dids) /\ Len(queue) <= QueueCap
  /\ abandoned \subseteq Dids
  /\ hand \in MaybeDid
  /\ worker \in [Workers -> WorkerState]
  /\ proc \in [Producers -> ProcState]
  /\ retry \in [pc : {"sleep", "errors", "limited"},
                list : [Dids -> MaybeRepo], did : MaybeDid]
  /\ resume \in [pc : {"listSyncing", "queueSyncing", "queuePending", "done"},
                 todo : SUBSET Dids]
  /\ \A w \in Workers :
       /\ worker[w].pc = "idle" <=> worker[w].did = NoDid
       /\ worker[w].pc \in {"mark", "verdict"} <=> worker[w].seen # NoRepo
       /\ worker[w].pc \in {"returned", "verdict"} <=> worker[w].result # "none"
  /\ \A p \in Producers :
       /\ proc[p].pc = "idle" <=> proc[p].did = NoDid
       /\ proc[p].pc \in {"resync", "rev"} <=> proc[p].seen # NoRepo

\* Work is owed on d: its status says it is queued or being synced, and no
\* next_retry will make the retry loop look at it.
Owed(d) ==
  /\ repos[d] # NoRepo
  /\ \/ repos[d].status = "syncing"
     \/ repos[d].status = "pending" /\ ~repos[d].next_retry

\* The resume task has d on its list, or will have it on the next one
ResumeCovers(d) ==
  \/ d \in resume.todo
  \/ resume.pc = "listSyncing"
  \/ resume.pc = "queueSyncing" /\ repos[d].status = "pending"

InChannel(d) == \E i \in 1 .. Len(queue) : queue[i] = d

\* Some thread or the channel still has d and will see to it
Held(d) ==
  \/ InChannel(d)
  \/ hand = d
  \/ \E w \in Workers : worker[w].did = d
  \/ \E p \in Producers : proc[p].pc = "queue" /\ proc[p].did = d
  \/ retry.did = d
  \/ ResumeCovers(d)

\* No repository is lost: while the server runs, every repository that is
\* pending without a next_retry, or syncing, is in the channel or in the
\* hands of a thread, whatever requests, retries, rate limits, duplicate
\* queueing, crashes and restarts came before.  Otherwise only a restart
\* would sync it.  Two steps of the code give a repository up, until it is
\* queued again: a handler that is dropped while it waits to send, and the
\* firehose when it puts back a state that has changed since its get.
NoLostRepo ==
  up => \A d \in Dids : Owed(d) => Held(d) \/ d \in abandoned

\* sync_worker.rs: "Resume repos stuck in "syncing" (were in-progress when we
\* crashed)".  Without a crash no repository is stuck in syncing.
SyncingIsHeld ==
  up => \A d \in Dids : repos[d] # NoRepo /\ repos[d].status = "syncing" => Held(d)

\* A state that the threads may have to act upon is never half a verdict:
\* synced only without a retry pending, error only with a
\* next_retry (the retry loop passes over errors without one).
Coherent(state) ==
  /\ state.status = "synced" => ~state.next_retry
  /\ state.status = "error" => state.next_retry

\* Every stored RepoState is coherent, although every writer puts back a
\* whole state that it read earlier and that others have overwritten since.
StatesCoherent == \A d \in Dids : repos[d] # NoRepo => Coherent(repos[d])

\* Every tracked repository is synced again and again, or removed, or given up
\* by one of those two steps: errors, rate limits, lost races, a full channel
\* and crashes only delay it.
EventuallySynced ==
  \A d \in Dids :
    []<>(repos[d] = NoRepo \/ repos[d].status = "synced" \/ d \in abandoned)

\* Backpressure is temporary: a full channel, with handlers, the retry loop
\* and the resume task all waiting on it, gets room again.
ChannelDrains == []<>(Len(queue) < QueueCap)
=============================================================================
