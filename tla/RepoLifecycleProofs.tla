------------------------ MODULE RepoLifecycleProofs ------------------------
(***************************************************************************)
(* What TLAPS proves about RepoLifecycle, for every set of repositories,   *)
(* workers and producers, every channel capacity and every bound.          *)
(***************************************************************************)
EXTENDS RepoLifecycle, TLAPS

\* The types of the values the threads write
LEMMA NewRepoType == NewRepo \in RepoState
  BY DEF NewRepo, RepoState, Status

LEMMA VerdictType ==
  ASSUME NEW seen \in RepoState, NEW r \in Results
  PROVE  Verdict(seen, r) \in RepoState
  BY DEF Verdict, Results, RepoState, Status

LEMMA NoRepoType == NoRepo \in MaybeRepo /\ NoRepo \notin RepoState
  BY LifecycleAssumption DEF MaybeRepo

LEMMA NoDidType == NoDid \in MaybeDid /\ NoDid \notin Dids
  BY LifecycleAssumption DEF MaybeDid

\* Sending a DID that fits keeps the channel well-typed and within capacity
LEMMA SendType ==
  ASSUME queue \in Seq(Dids), NEW d \in Dids, Send(d)
  PROVE  queue' \in Seq(Dids) /\ Len(queue') <= QueueCap /\ abandoned' = abandoned \ {d}
  BY LifecycleAssumption DEF Send

-----------------------------------------------------------------------------
LEMMA InitTypeOK == Init => TypeOK
  <1> SUFFICES ASSUME Init PROVE TypeOK
    OBVIOUS
  <1>1. IdleWorker \in WorkerState /\ IdleProc \in ProcState
    BY NoRepoType, NoDidType DEF IdleWorker, IdleProc, WorkerState, ProcState
  <1>2. Asleep \in [pc : {"sleep", "errors", "limited"},
                    list : [Dids -> MaybeRepo], did : MaybeDid]
    BY NoRepoType, NoDidType DEF Asleep, NothingListed
  <1>3. used \in [requests : 0 .. MaxRequests, failures : 0 .. MaxFailures,
                  crashes : 0 .. MaxCrashes]
    BY LifecycleAssumption DEF Init
  <1>4. /\ queue \in Seq(Dids) /\ Len(queue) <= QueueCap
        /\ repos \in [Dids -> MaybeRepo]
    BY LifecycleAssumption, NoRepoType DEF Init
  <1> QED
    BY <1>1, <1>2, <1>3, <1>4, NoDidType
    DEF Init, TypeOK, IdleWorker, IdleProc, MaybeDid

LEMMA ClientTypeOK ==
  ASSUME TypeOK, NEW c \in Clients, NEW d \in Dids,
         ReposAdd(c, d) \/ ReposRemove(c, d) \/ ReposResync(c, d)
  PROVE  TypeOK'
  <1>1. c \in Producers
    BY DEF Producers
  <1>2. used' \in [requests : 0 .. MaxRequests, failures : 0 .. MaxFailures,
                   crashes : 0 .. MaxCrashes]
    BY LifecycleAssumption DEF TypeOK, ReposAdd, ReposRemove, ReposResync, Request
  <1>3. CASE ReposAdd(c, d)
    BY <1>1, <1>2, <1>3, NewRepoType, NoRepoType, NoDidType
    DEF TypeOK, ReposAdd, Put, Goto, Others, MaybeRepo, MaybeDid, ProcState
  <1>4. CASE ReposRemove(c, d)
    BY <1>1, <1>2, <1>4, NoRepoType DEF TypeOK, ReposRemove, Put, Others
  <1>5. CASE ReposResync(c, d)
    BY <1>1, <1>2, <1>5, NoRepoType, NoDidType
    DEF TypeOK, ReposResync, Goto, Others, MaybeRepo, MaybeDid, ProcState
  <1> QED
    BY <1>3, <1>4, <1>5

LEMMA ProducerTypeOK ==
  ASSUME TypeOK, NEW p \in Producers,
         \/ ReposResyncPut(p) \/ DiscoverPut(p) \/ Enqueue(p) \/ FirehosePutRev(p)
         \/ p \in Clients /\ ClientLeaves(p)
         \/ \E d \in Dids : Discover(p, d) \/ FirehoseCommit(p, d)
  PROVE  TypeOK'
  <1>1. CASE ReposResyncPut(p)
    <2>1. proc[p].seen \in RepoState /\ proc[p].did \in Dids
      BY <1>1, NoDidType DEF TypeOK, ReposResyncPut, ProcState, MaybeRepo, MaybeDid
    <2>2. [proc[p].seen EXCEPT !.status = "pending"] \in RepoState
      BY <2>1 DEF RepoState, Status
    <2> QED
      BY <1>1, <2>1, <2>2, NoDidType, NoRepoType
      DEF TypeOK, ReposResyncPut, Put, Goto, Others, ProcState, MaybeRepo, MaybeDid
  <1>2. CASE DiscoverPut(p)
    BY <1>2, NoDidType, NoRepoType, NewRepoType
    DEF TypeOK, DiscoverPut, Put, Goto, Others, ProcState, MaybeRepo, MaybeDid
  <1>3. CASE Enqueue(p)
    <2>1. proc[p].did \in Dids
      BY <1>3, NoDidType DEF TypeOK, Enqueue, ProcState, MaybeDid
    <2>2. queue' \in Seq(Dids) /\ Len(queue') <= QueueCap /\ abandoned' \subseteq Dids
      BY <1>3, <2>1, SendType DEF TypeOK, Enqueue
    <2> QED
      BY <1>3, <2>1, <2>2, NoDidType, NoRepoType
      DEF TypeOK, Enqueue, Others, IdleProc, ProcState, MaybeRepo, MaybeDid
  <1>4. CASE FirehosePutRev(p)
    <2>1. proc[p].seen \in MaybeRepo /\ proc[p].did \in Dids
      BY <1>4, NoDidType DEF TypeOK, FirehosePutRev, ProcState, MaybeDid
    <2> QED
      BY <1>4, <2>1, NoDidType, NoRepoType
      DEF TypeOK, FirehosePutRev, Put, Others, IdleProc, ProcState, MaybeDid
  <1>5. CASE p \in Clients /\ ClientLeaves(p)
    BY <1>5, NoDidType, NoRepoType
    DEF TypeOK, ClientLeaves, Others, IdleProc, ProcState, MaybeRepo, MaybeDid
  <1>6. CASE \E d \in Dids : Discover(p, d) \/ FirehoseCommit(p, d)
    <2>1. PICK d \in Dids : Discover(p, d) \/ FirehoseCommit(p, d)
      BY <1>6
    <2>2. CASE Discover(p, d)
      BY <2>2, NoDidType, NoRepoType
      DEF TypeOK, Discover, Goto, Others, ProcState, MaybeRepo, MaybeDid
    <2>3. CASE FirehoseCommit(p, d)
      BY <2>3, NoDidType, NoRepoType
      DEF TypeOK, FirehoseCommit, Goto, Others, ProcState, MaybeRepo, MaybeDid
    <2> QED
      BY <2>1, <2>2, <2>3
  <1> QED
    BY <1>1, <1>2, <1>3, <1>4, <1>5, <1>6

LEMMA WorkerTypeOK ==
  ASSUME TypeOK, NEW w \in Workers,
         \/ Spawn(w) \/ WorkerStep(w) \/ \E r \in Results : SyncReturns(w, r)
  PROVE  TypeOK'
  <1>0. worker[w] \in WorkerState
    BY DEF TypeOK
  <1>1. CASE Spawn(w)
    BY <1>1, NoDidType, NoRepoType
    DEF TypeOK, Spawn, IdleWorker, WorkerState, MaybeDid, MaybeRepo
  <1>3. CASE ReadState(w)
    <2>1. worker[w].did \in Dids
      BY <1>0, <1>3, NoDidType DEF TypeOK, ReadState, At, WorkerState, MaybeDid
    <2>2. RepoOf(w) \in MaybeRepo
      BY <2>1 DEF TypeOK, RepoOf
    <2> QED
      BY <1>0, <1>3, <2>2 DEF TypeOK, ReadState, At, RestOfServer, WorkerState
  <1>4. CASE MarkSyncing(w)
    <2>1. worker[w].did \in Dids /\ worker[w].seen \in RepoState
      BY <1>0, <1>4, NoDidType DEF TypeOK, MarkSyncing, At, WorkerState, MaybeDid, MaybeRepo
    <2>2. [worker[w].seen EXCEPT !.status = "syncing"] \in RepoState
      BY <2>1 DEF RepoState, Status
    <2> QED
      BY <1>0, <1>4, <2>1, <2>2, NoRepoType
      DEF TypeOK, MarkSyncing, At, Put, RestOfServer, WorkerState, MaybeRepo
  <1>5. CASE \E r \in Results : SyncReturns(w, r)
    <2>1. PICK r \in Results : SyncReturns(w, r)
      BY <1>5
    <2>2. used' \in [requests : 0 .. MaxRequests, failures : 0 .. MaxFailures,
                     crashes : 0 .. MaxCrashes]
      <3>1. CASE UNCHANGED used
        BY <3>1 DEF TypeOK
      <3>2. CASE /\ used.failures < MaxFailures
                 /\ used' = [used EXCEPT !.failures = @ + 1]
        BY <3>2, LifecycleAssumption DEF TypeOK
      <3> QED
        BY <2>1, <3>1, <3>2 DEF SyncReturns
    <2>3. r # "none"
      BY DEF Results
    <2> QED
      BY <1>0, <2>1, <2>2, <2>3 DEF TypeOK, SyncReturns, At, RestOfServer, WorkerState
  <1>6. CASE ReadForVerdict(w)
    <2>1. worker[w].did \in Dids
      BY <1>0, <1>6, NoDidType DEF TypeOK, ReadForVerdict, At, WorkerState, MaybeDid
    <2>2. RepoOf(w) \in MaybeRepo
      BY <2>1 DEF TypeOK, RepoOf
    <2>3. worker'[w] \in WorkerState
      BY <1>0, <1>6, <2>2, NoRepoType, NoDidType
      DEF TypeOK, ReadForVerdict, WorkerState, IdleWorker
    <2>4. /\ worker'[w].pc = "idle" <=> worker'[w].did = NoDid
          /\ worker'[w].pc \in {"mark", "verdict"} <=> worker'[w].seen # NoRepo
          /\ worker'[w].pc \in {"returned", "verdict"} <=> worker'[w].result # "none"
      BY <1>0, <1>6, <2>1, NoRepoType, NoDidType
      DEF TypeOK, ReadForVerdict, At, WorkerState, IdleWorker
    <2>5. /\ worker' \in [Workers -> WorkerState]
          /\ \A v \in Workers \ {w} : worker'[v] = worker[v]
      BY <1>6, <2>3 DEF TypeOK, ReadForVerdict
    <2> QED
      BY <1>6, <2>4, <2>5 DEF TypeOK, ReadForVerdict, RestOfServer
  <1>7. CASE PutVerdict(w)
    <2>1. /\ worker[w].did \in Dids /\ worker[w].seen \in RepoState
          /\ worker[w].result \in Results
      BY <1>0, <1>7, NoDidType DEF TypeOK, PutVerdict, At, WorkerState, MaybeDid, MaybeRepo
    <2>2. Verdict(worker[w].seen, worker[w].result) \in RepoState
      BY <2>1, VerdictType
    <2> QED
      BY <1>0, <1>7, <2>1, <2>2, NoRepoType, NoDidType
      DEF TypeOK, PutVerdict, At, Put, RestOfServer, WorkerState, MaybeRepo, IdleWorker
  <1> QED
    BY <1>1, <1>3, <1>4, <1>5, <1>6, <1>7 DEF WorkerStep

LEMMA RetryTypeOK ==
  ASSUME TypeOK, RetryStep
  PROVE  TypeOK'
  <1> DEFINE RetryState == [pc : {"sleep", "errors", "limited"},
                            list : [Dids -> MaybeRepo], did : MaybeDid]
  <1>1. CASE \E due \in SUBSET Dids : RetryListErrors(due) \/ RetryListPending(due)
    <2>1. PICK due \in SUBSET Dids : RetryListErrors(due) \/ RetryListPending(due)
      BY <1>1
    <2>2. Listing(due) \in [Dids -> MaybeRepo]
      BY NoRepoType DEF TypeOK, Listing
    <2>3. retry' \in RetryState
      BY <2>1, <2>2, NoDidType DEF RetryListErrors, RetryListPending
    <2> QED
      BY <2>1, <2>3 DEF TypeOK, RetryListErrors, RetryListPending, NotRetry
  <1>2. CASE \E d \in Dids : RetryPut(d)
    <2>1. PICK d \in Dids : RetryPut(d)
      BY <1>2
    <2>2. retry.list[d] \in RepoState
      BY <2>1 DEF TypeOK, RetryPut, MaybeRepo
    <2>3. /\ [retry.list[d] EXCEPT !.status = "pending", !.next_retry = FALSE] \in RepoState
          /\ [retry.list[d] EXCEPT !.next_retry = FALSE] \in RepoState
      BY <2>2 DEF RepoState, Status
    <2>4. repos' \in [Dids -> MaybeRepo]
      BY <2>1, <2>3 DEF TypeOK, RetryPut, Put, MaybeRepo
    <2>5. retry' \in RetryState
      BY <2>1, NoRepoType DEF TypeOK, RetryPut, MaybeDid
    <2> QED
      BY <2>1, <2>4, <2>5 DEF TypeOK, RetryPut, NotRetry
  <1>3. CASE RetrySleep
    <2>1. retry' \in RetryState
      BY <1>3, NoRepoType, NoDidType DEF RetrySleep, Asleep, NothingListed
    <2> QED
      BY <1>3, <2>1 DEF TypeOK, RetrySleep, NotRetry
  <1>4. CASE RetryQueue
    <2>1. retry.did \in Dids
      BY <1>4 DEF TypeOK, RetryQueue, MaybeDid
    <2>2. queue' \in Seq(Dids) /\ Len(queue') <= QueueCap /\ abandoned' \subseteq Dids
      BY <1>4, <2>1, SendType DEF TypeOK, RetryQueue
    <2>3. retry' \in RetryState
      BY <1>4, NoDidType DEF TypeOK, RetryQueue
    <2> QED
      BY <1>4, <2>2, <2>3 DEF TypeOK, RetryQueue, NotRetry
  <1> QED
    BY <1>1, <1>2, <1>3, <1>4 DEF RetryStep

LEMMA ResumeTypeOK ==
  ASSUME TypeOK, ResumeStep
  PROVE  TypeOK'
  <1>1. CASE ResumeListSyncing \/ ResumeListPending \/ ResumeEnd
    <2>1. \A s : ListByStatus(s) \subseteq Dids
      BY DEF ListByStatus
    <2> QED
      BY <1>1, <2>1
      DEF TypeOK, ResumeListSyncing, ResumeListPending, ResumeEnd, ResumeDone, NotResume
  <1>2. CASE \E d \in Dids : ResumeQueue(d)
    <2>1. PICK d \in Dids : ResumeQueue(d)
      BY <1>2
    <2>2. queue' \in Seq(Dids) /\ Len(queue') <= QueueCap /\ abandoned' \subseteq Dids
      BY <2>1, SendType DEF TypeOK, ResumeQueue
    <2> QED
      BY <2>1, <2>2 DEF TypeOK, ResumeQueue, NotResume
  <1> QED
    BY <1>1, <1>2 DEF ResumeStep

LEMMA ProcessTypeOK ==
  ASSUME TypeOK, Recv \/ Crash \/ Restart
  PROVE  TypeOK'
  <1>1. CASE Recv
    <2>1. Head(queue) \in Dids /\ Tail(queue) \in Seq(Dids) /\ Len(Tail(queue)) <= QueueCap
      BY <1>1, LifecycleAssumption DEF TypeOK, Recv
    <2> QED
      BY <1>1, <2>1 DEF TypeOK, Recv, MaybeDid
  <1>2. CASE Crash
    <2>1. IdleWorker \in WorkerState /\ IdleProc \in ProcState
      BY NoRepoType, NoDidType DEF IdleWorker, IdleProc, WorkerState, ProcState
    <2>2. Asleep \in [pc : {"sleep", "errors", "limited"},
                      list : [Dids -> MaybeRepo], did : MaybeDid]
      BY NoRepoType, NoDidType DEF Asleep, NothingListed
    <2>3. used' \in [requests : 0 .. MaxRequests, failures : 0 .. MaxFailures,
                     crashes : 0 .. MaxCrashes]
      <3>1. used \in [requests : 0 .. MaxRequests, failures : 0 .. MaxFailures,
                      crashes : 0 .. MaxCrashes]
        BY DEF TypeOK
      <3>2. used.crashes < MaxCrashes /\ used' = [used EXCEPT !.crashes = @ + 1]
        BY <1>2 DEF Crash
      <3> QED
        BY <3>1, <3>2, LifecycleAssumption
    <2>4. /\ queue' \in Seq(Dids) /\ Len(queue') <= QueueCap
          /\ abandoned' \subseteq Dids
          /\ repos' \in [Dids -> MaybeRepo] /\ up' \in BOOLEAN /\ hand' \in MaybeDid
      <3>1. /\ queue' = << >> /\ abandoned' = {} /\ up' = FALSE /\ hand' = NoDid
            /\ repos' = repos
        BY <1>2 DEF Crash
      <3>2. up' \in BOOLEAN /\ repos' \in [Dids -> MaybeRepo] /\ abandoned' \subseteq Dids
        BY <3>1 DEF TypeOK
      <3>3. queue' \in Seq(Dids) /\ Len(queue') <= QueueCap
        BY <3>1, LifecycleAssumption
      <3> QED
        BY <3>1, <3>2, <3>3, NoDidType
    <2>5. /\ worker' \in [Workers -> WorkerState]
          /\ \A w \in Workers : worker'[w] = IdleWorker
      BY <1>2, <2>1 DEF Crash
    <2>6. /\ proc' \in [Producers -> ProcState]
          /\ \A p \in Producers : proc'[p] = IdleProc
      BY <1>2, <2>1 DEF Crash
    <2>7. /\ retry' \in [pc : {"sleep", "errors", "limited"},
                         list : [Dids -> MaybeRepo], did : MaybeDid]
          /\ resume' \in [pc : {"listSyncing", "queueSyncing", "queuePending", "done"},
                          todo : SUBSET Dids]
      BY <1>2, <2>2 DEF Crash, ResumeDone
    <2> QED
      BY <2>3, <2>4, <2>5, <2>6, <2>7 DEF TypeOK, IdleWorker, IdleProc
  <1>3. CASE Restart
    BY <1>3 DEF TypeOK, Restart
  <1> QED
    BY <1>1, <1>2, <1>3

\* Every reachable state of the server is well-typed, and the channel never
\* holds more than its capacity.
THEOREM TypeInvariant == Spec => []TypeOK
  <1>1. Init => TypeOK
    BY InitTypeOK
  <1>2. TypeOK /\ [Next]_vars => TypeOK'
    <2> SUFFICES ASSUME TypeOK, [Next]_vars PROVE TypeOK'
      OBVIOUS
    <2>1. CASE \E c \in Clients : ClientStep(c)
      BY <2>1, ClientTypeOK, ProducerTypeOK DEF ClientStep, Producers
    <2>2. CASE \E c \in Impatient : ClientLeaves(c)
      BY <2>2, ProducerTypeOK, LifecycleAssumption DEF Producers
    <2>3. CASE \E p \in Crawlers \cup Firehoses : DiscoveryStep(p)
      BY <2>3, ProducerTypeOK DEF DiscoveryStep, Producers
    <2>4. CASE \E p \in Producers : Enqueue(p)
      BY <2>4, ProducerTypeOK
    <2>5. CASE \E f \in Firehoses : FirehoseStep(f)
      BY <2>5, ProducerTypeOK DEF FirehoseStep, Producers
    <2>6. CASE \E w \in Workers : Spawn(w) \/ WorkerStep(w)
      BY <2>6, WorkerTypeOK
    <2>7. CASE \E w \in Workers, r \in Results : SyncReturns(w, r)
      BY <2>7, WorkerTypeOK
    <2>8. CASE RetryStep
      BY <2>8, RetryTypeOK
    <2>9. CASE ResumeStep
      BY <2>9, ResumeTypeOK
    <2>10. CASE Recv \/ Crash \/ Restart
      BY <2>10, ProcessTypeOK
    <2>11. CASE UNCHANGED vars
      BY <2>11 DEF TypeOK, vars
    <2> QED
      BY <2>1, <2>2, <2>3, <2>4, <2>5, <2>6, <2>7, <2>8, <2>9, <2>10, <2>11 DEF Next
  <1> QED
    BY <1>1, <1>2, PTL DEF Spec

-----------------------------------------------------------------------------
(* NoLostRepo.  It is inductive together with TypeOK: every put that leaves *)
(* a repository owing work is made by a thread that goes on to send it, or  *)
(* by a worker that will put a verdict, and a verdict owes nothing.         *)

\* A sent DID is in the channel, and what was there stays
LEMMA SendKeepsChannel ==
  ASSUME queue \in Seq(Dids), NEW d \in Dids, Send(d)
  PROVE  /\ InChannel(d)' /\ \A e \in Dids : InChannel(e) => InChannel(e)'
         /\ abandoned' = abandoned \ {d}
  <1>1. /\ Len(queue') = Len(queue) + 1
        /\ queue'[Len(queue) + 1] = d
        /\ \A i \in 1 .. Len(queue) : queue'[i] = queue[i]
    BY DEF Send
  <1> QED
    BY <1>1 DEF InChannel, Send

\* Receiving takes one DID out of the channel, the one that comes to hand
LEMMA RecvKeepsChannel ==
  ASSUME queue \in Seq(Dids), Recv
  PROVE  \A e \in Dids : InChannel(e) => InChannel(e)' \/ hand' = e
  <1> SUFFICES ASSUME NEW e \in Dids, InChannel(e), hand' # e
               PROVE  InChannel(e)'
    OBVIOUS
  <1>1. PICK i \in 1 .. Len(queue) : queue[i] = e
    BY DEF InChannel
  <1>2. i # 1
    BY <1>1 DEF Recv
  <1>3. i - 1 \in 1 .. Len(queue') /\ queue'[i - 1] = e
    BY <1>1, <1>2 DEF Recv
  <1> QED
    BY <1>3 DEF InChannel

\* What a verdict leaves behind is no longer owed
LEMMA VerdictOwesNothing ==
  ASSUME NEW seen \in RepoState, NEW r \in Results
  PROVE  LET v == Verdict(seen, r) IN
           v.status # "syncing" /\ (v.status = "pending" => v.next_retry)
  BY DEF Verdict, Results, RepoState

LEMMA ProducerKeepsRepos ==
  ASSUME TypeOK, NoLostRepo, NEW p \in Producers,
         \/ \E d \in Dids : \/ ReposAdd(p, d) \/ ReposRemove(p, d) \/ ReposResync(p, d)
                            \/ Discover(p, d) \/ FirehoseCommit(p, d)
         \/ ReposResyncPut(p) \/ DiscoverPut(p) \/ Enqueue(p)
         \/ FirehosePutRev(p) \/ ClientLeaves(p)
  PROVE  NoLostRepo'
  <1> SUFFICES ASSUME NEW e \in Dids, up, Owed(e)', e \notin abandoned'
               PROVE  Held(e)'
    BY DEF NoLostRepo, ReposAdd, ReposRemove, ReposResync, Discover, FirehoseCommit,
           ReposResyncPut, DiscoverPut, Enqueue, FirehosePutRev, ClientLeaves, Others
  <1>1. CASE \E d \in Dids : ReposAdd(p, d) \/ ReposRemove(p, d)
    <2>1. PICK d \in Dids : ReposAdd(p, d) \/ ReposRemove(p, d)
      BY <1>1
    <2>2. CASE d = e
      BY <2>1, <2>2
      DEF TypeOK, ReposAdd, ReposRemove, Put, Goto, Held, Owed, ProcState
    <2>3. CASE d # e
      <3>1. repos'[e] = repos[e] /\ abandoned' = abandoned
        BY <2>1, <2>3 DEF TypeOK, ReposAdd, ReposRemove, Put
      <3>2. Held(e)
        BY <3>1 DEF NoLostRepo, Owed
      <3>3. \A q \in Producers : proc[q].pc = "queue" => proc'[q] = proc[q]
        BY <2>1 DEF TypeOK, ReposAdd, ReposRemove, Request, Idle, Goto
      <3> QED
        BY <2>1, <3>1, <3>2, <3>3
        DEF ReposAdd, ReposRemove, Others, Held, InChannel, ResumeCovers
    <2> QED
      BY <2>2, <2>3
  <1>2. CASE \E d \in Dids : ReposResync(p, d) \/ Discover(p, d) \/ FirehoseCommit(p, d)
    <2>1. PICK d \in Dids : ReposResync(p, d) \/ Discover(p, d) \/ FirehoseCommit(p, d)
      BY <1>2
    <2>2. \A q \in Producers : proc[q].pc = "queue" => proc'[q] = proc[q]
      BY <2>1 DEF TypeOK, ReposResync, Discover, FirehoseCommit, Request, Idle, Goto
    <2>3. Held(e)
      BY <2>1 DEF ReposResync, Discover, FirehoseCommit, NoLostRepo, Owed
    <2> QED
      BY <2>1, <2>2, <2>3
      DEF ReposResync, Discover, FirehoseCommit, Others, Held, InChannel, ResumeCovers
  <1>3. CASE ReposResyncPut(p) \/ DiscoverPut(p)
    <2>1. proc'[p].pc = "queue" /\ proc'[p].did = proc[p].did
      BY <1>3 DEF TypeOK, ReposResyncPut, DiscoverPut, Goto
    <2>2. CASE proc[p].did = e
      BY <2>1, <2>2 DEF Held
    <2>3. CASE proc[p].did # e
      <3>1. repos'[e] = repos[e] /\ abandoned' = abandoned
        BY <1>3, <2>3 DEF TypeOK, ReposResyncPut, DiscoverPut, Put
      <3>2. Held(e)
        BY <3>1 DEF NoLostRepo, Owed
      <3>3. \A q \in Producers : proc[q].pc = "queue" => proc'[q] = proc[q]
        BY <1>3 DEF TypeOK, ReposResyncPut, DiscoverPut, Goto
      <3> QED
        BY <1>3, <3>1, <3>2, <3>3
        DEF ReposResyncPut, DiscoverPut, Others, Held, InChannel, ResumeCovers
    <2> QED
      BY <2>2, <2>3
  <1>4. CASE Enqueue(p)
    <2>1. proc[p].did \in Dids
      BY <1>4, NoDidType DEF TypeOK, Enqueue, ProcState, MaybeDid
    <2>2. /\ queue \in Seq(Dids) /\ Send(proc[p].did)
          /\ \A q \in Producers \ {p} : proc'[q] = proc[q]
          /\ repos' = repos /\ hand' = hand /\ worker' = worker
          /\ retry' = retry /\ resume' = resume
      BY <1>4 DEF TypeOK, Enqueue, Others
    <2>3. \E d \in Dids : /\ proc[p].did = d /\ InChannel(d)'
                          /\ \A f \in Dids : InChannel(f) => InChannel(f)'
                          /\ abandoned' = abandoned \ {d}
      BY <2>1, <2>2, SendKeepsChannel
    <2>4. Held(e) \/ proc[p].did = e
      BY <2>2, <2>3 DEF NoLostRepo, Owed
    <2> QED
      BY <2>2, <2>3, <2>4 DEF Held, ResumeCovers
  <1>5. CASE FirehosePutRev(p)
    <2>1. /\ repos'[e] = repos[e] /\ e \notin abandoned
          /\ \A q \in Producers : proc[q].pc = "queue" => proc'[q] = proc[q]
      BY <1>5 DEF TypeOK, FirehosePutRev, Put
    <2>2. Held(e)
      BY <2>1 DEF NoLostRepo, Owed
    <2> QED
      BY <1>5, <2>1, <2>2 DEF FirehosePutRev, Others, Held, InChannel, ResumeCovers
  <1>6. CASE ClientLeaves(p)
    <2>1. /\ repos' = repos /\ e \notin abandoned /\ proc[p].did # e
          /\ \A q \in Producers \ {p} : proc'[q] = proc[q]
      BY <1>6 DEF TypeOK, ClientLeaves
    <2>2. Held(e)
      BY <2>1 DEF NoLostRepo, Owed
    <2> QED
      BY <1>6, <2>1, <2>2 DEF ClientLeaves, Others, Held, InChannel, ResumeCovers
  <1> QED
    BY <1>1, <1>2, <1>3, <1>4, <1>5, <1>6

LEMMA WorkerKeepsRepos ==
  ASSUME TypeOK, NoLostRepo, NEW w \in Workers,
         \/ Spawn(w) \/ WorkerStep(w) \/ \E r \in Results : SyncReturns(w, r)
  PROVE  NoLostRepo'
  <1> SUFFICES ASSUME NEW e \in Dids, up, Owed(e)', e \notin abandoned'
               PROVE  Held(e)'
    BY DEF NoLostRepo, WorkerStep, Spawn, ReadState, MarkSyncing,
           SyncReturns, ReadForVerdict, PutVerdict, RestOfServer
  <1>0. worker[w] \in WorkerState /\ e \notin abandoned
    BY DEF TypeOK, WorkerStep, Spawn, ReadState, MarkSyncing,
           SyncReturns, ReadForVerdict, PutVerdict, RestOfServer
  <1>1. CASE Spawn(w)
    <2>1. worker'[w].did = hand
      BY <1>1 DEF TypeOK, Spawn
    <2>2. \A v \in Workers : worker[v].did \in Dids => worker'[v] = worker[v]
      <3>1. worker[w].did = NoDid
        BY <1>1 DEF TypeOK, Spawn
      <3>2. \A v \in Workers \ {w} : worker'[v] = worker[v]
        BY <1>1 DEF TypeOK, Spawn
      <3> QED
        BY <3>1, <3>2, NoDidType
    <2>3. Held(e)
      BY <1>0, <1>1 DEF Spawn, NoLostRepo, Owed
    <2> QED
      BY <1>1, <2>1, <2>2, <2>3 DEF Spawn, Held, InChannel, ResumeCovers
  <1>2. CASE ReadState(w) \/ \E r \in Results : SyncReturns(w, r)
    <2>1. \A v \in Workers : worker'[v].did = worker[v].did
      <3>2. CASE ReadState(w)
        <4>1. worker'[w].did = worker[w].did
          BY <1>0, <3>2 DEF TypeOK, ReadState, WorkerState
        <4>2. \A v \in Workers \ {w} : worker'[v] = worker[v]
          BY <3>2 DEF TypeOK, ReadState
        <4> QED
          BY <4>1, <4>2
      <3>3. CASE \E r \in Results : SyncReturns(w, r)
        <4>0. PICK r \in Results :
                worker' = [worker EXCEPT ![w].pc = "returned", ![w].result = r]
          BY <3>3 DEF SyncReturns
        <4>1. worker'[w].did = worker[w].did
          BY <1>0, <4>0 DEF TypeOK, WorkerState
        <4>2. \A v \in Workers \ {w} : worker'[v] = worker[v]
          BY <4>0 DEF TypeOK
        <4> QED
          BY <4>1, <4>2
      <3> QED
        BY <1>2, <3>2, <3>3
    <2>2. Held(e)
      BY <1>0, <1>2 DEF ReadState, SyncReturns, NoLostRepo, Owed
    <2> QED
      BY <1>2, <2>1, <2>2
      DEF ReadState, SyncReturns, RestOfServer, Held, InChannel, ResumeCovers
  <1>3. CASE MarkSyncing(w)
    <2>1. \A v \in Workers : worker'[v].did = worker[v].did
      BY <1>3 DEF TypeOK, MarkSyncing, WorkerState
    <2>2. CASE worker[w].did = e
      BY <2>1, <2>2 DEF Held
    <2>3. CASE worker[w].did # e
      <3>1. repos'[e] = repos[e]
        BY <1>3, <2>3 DEF TypeOK, MarkSyncing, Put
      <3>2. Held(e)
        BY <1>0, <3>1 DEF NoLostRepo, Owed
      <3> QED
        BY <1>3, <2>1, <3>1, <3>2
        DEF MarkSyncing, RestOfServer, Held, InChannel, ResumeCovers
    <2> QED
      BY <2>2, <2>3
  <1>4. CASE ReadForVerdict(w)
    <2>1. Held(e) /\ repos[e] # NoRepo
      BY <1>0, <1>4 DEF ReadForVerdict, NoLostRepo, Owed
    <2>2. \A v \in Workers : worker[v].did = e => worker'[v].did = e
      BY <1>4, <2>1 DEF TypeOK, ReadForVerdict, RepoOf, WorkerState
    <2> QED
      BY <1>4, <2>1, <2>2 DEF ReadForVerdict, RestOfServer, Held, InChannel, ResumeCovers
  <1>5. CASE PutVerdict(w)
    <2>1. /\ worker[w].did \in Dids /\ worker[w].seen \in RepoState
          /\ worker[w].result \in Results
      BY <1>0, <1>5, NoDidType DEF TypeOK, PutVerdict, At, WorkerState, MaybeDid, MaybeRepo
    <2>2. worker[w].did # e
      BY <1>5, <2>1, VerdictOwesNothing DEF TypeOK, PutVerdict, Put, Owed
    <2>3. repos'[e] = repos[e]
      BY <1>5, <2>2 DEF TypeOK, PutVerdict, Put
    <2>4. Held(e)
      BY <1>0, <2>3 DEF NoLostRepo, Owed
    <2>5. \A v \in Workers \ {w} : worker'[v] = worker[v]
      BY <1>5 DEF TypeOK, PutVerdict
    <2> QED
      BY <1>5, <2>2, <2>3, <2>4, <2>5
      DEF PutVerdict, RestOfServer, Held, InChannel, ResumeCovers
  <1> QED
    BY <1>1, <1>2, <1>3, <1>4, <1>5 DEF WorkerStep

LEMMA RetryKeepsRepos ==
  ASSUME TypeOK, NoLostRepo, RetryStep
  PROVE  NoLostRepo'
  <1> SUFFICES ASSUME NEW e \in Dids, up, Owed(e)', e \notin abandoned'
               PROVE  Held(e)'
    BY DEF NoLostRepo, RetryStep, RetryListErrors, RetryListPending, RetryPut,
           RetrySleep, RetryQueue, NotRetry
  <1>1. CASE (\E due \in SUBSET Dids : RetryListErrors(due) \/ RetryListPending(due))
             \/ RetrySleep
    <2>1. /\ repos' = repos /\ queue' = queue /\ abandoned' = abandoned
          /\ hand' = hand /\ worker' = worker /\ proc' = proc /\ resume' = resume
          /\ retry.did = NoDid
      BY <1>1 DEF RetryListErrors, RetryListPending, RetrySleep, RetryAt, NotRetry
    <2>2. Held(e)
      BY <2>1 DEF NoLostRepo, Owed
    <2> QED
      BY <2>1, <2>2, NoDidType DEF Held, InChannel, ResumeCovers
  <1>2. CASE \E d \in Dids : RetryPut(d)
    <2>1. PICK d \in Dids : RetryPut(d)
      BY <1>2
    <2>2. /\ retry.did = NoDid /\ retry'.did = d
          /\ queue' = queue /\ abandoned' = abandoned /\ hand' = hand
          /\ worker' = worker /\ proc' = proc /\ resume' = resume
      BY <2>1 DEF TypeOK, RetryPut, NotRetry
    <2>3. CASE d = e
      BY <2>2, <2>3 DEF Held
    <2>4. CASE d # e
      <3>1. repos'[e] = repos[e]
        BY <2>1, <2>4 DEF TypeOK, RetryPut, Put
      <3>2. Held(e)
        BY <2>2, <3>1 DEF NoLostRepo, Owed
      <3> QED
        BY <2>2, <3>1, <3>2, NoDidType DEF Held, InChannel, ResumeCovers
    <2> QED
      BY <2>3, <2>4
  <1>3. CASE RetryQueue
    <2>1. /\ retry.did \in Dids /\ queue \in Seq(Dids) /\ Send(retry.did)
          /\ repos' = repos /\ hand' = hand /\ worker' = worker
          /\ proc' = proc /\ resume' = resume
      BY <1>3 DEF TypeOK, RetryQueue, NotRetry, MaybeDid
    <2>2. \E d \in Dids : /\ retry.did = d /\ InChannel(d)'
                          /\ \A f \in Dids : InChannel(f) => InChannel(f)'
                          /\ abandoned' = abandoned \ {d}
      BY <2>1, SendKeepsChannel
    <2>3. Held(e) \/ retry.did = e
      BY <2>1, <2>2 DEF NoLostRepo, Owed
    <2> QED
      BY <2>1, <2>2, <2>3 DEF Held, ResumeCovers
  <1> QED
    BY <1>1, <1>2, <1>3 DEF RetryStep

LEMMA ResumeKeepsRepos ==
  ASSUME TypeOK, NoLostRepo, ResumeStep
  PROVE  NoLostRepo'
  <1> SUFFICES ASSUME NEW e \in Dids, up, Owed(e)', e \notin abandoned'
               PROVE  Held(e)'
    BY DEF NoLostRepo, ResumeStep, ResumeListSyncing, ResumeListPending, ResumeEnd,
           ResumeQueue, NotResume
  <1>1. /\ repos' = repos /\ hand' = hand /\ worker' = worker
        /\ proc' = proc /\ retry' = retry
    BY DEF ResumeStep, ResumeListSyncing, ResumeListPending, ResumeEnd, ResumeQueue,
           NotResume
  <1>2. /\ repos[e] # NoRepo /\ repos[e].status \in {"pending", "syncing"}
        /\ Held(e) \/ e \in abandoned
    BY <1>1 DEF NoLostRepo, Owed
  <1>3. CASE ResumeListSyncing
    <2>1. ResumeCovers(e)'
      BY <1>1, <1>2, <1>3 DEF ResumeListSyncing, ListByStatus, ResumeCovers
    <2> QED
      BY <2>1 DEF Held
  <1>4. CASE ResumeListPending
    <2>1. ResumeCovers(e) => ResumeCovers(e)'
      BY <1>1, <1>2, <1>4 DEF ResumeListPending, ListByStatus, ResumeCovers
    <2> QED
      BY <1>1, <1>2, <1>4, <2>1 DEF ResumeListPending, Held, InChannel
  <1>5. CASE ResumeEnd
    <2>1. ~ResumeCovers(e)
      BY <1>5 DEF ResumeEnd, ResumeCovers
    <2> QED
      BY <1>1, <1>2, <1>5, <2>1 DEF ResumeEnd, Held, InChannel
  <1>6. CASE \E d \in Dids : ResumeQueue(d)
    <2>1. PICK d \in Dids : ResumeQueue(d)
      BY <1>6
    <2>2. /\ InChannel(d)' /\ (InChannel(e) => InChannel(e)')
          /\ abandoned' = abandoned \ {d}
      BY <2>1, SendKeepsChannel DEF TypeOK, ResumeQueue
    <2>3. ResumeCovers(e) => ResumeCovers(e)' \/ d = e
      BY <1>1, <2>1 DEF TypeOK, ResumeQueue, ResumeCovers
    <2> QED
      BY <1>1, <1>2, <2>2, <2>3 DEF Held
  <1> QED
    BY <1>3, <1>4, <1>5, <1>6 DEF ResumeStep

LEMMA ProcessKeepsRepos ==
  ASSUME TypeOK, NoLostRepo, Recv \/ Crash \/ Restart
  PROVE  NoLostRepo'
  <1>1. CASE Recv
    <2> SUFFICES ASSUME NEW e \in Dids, up, Owed(e)', e \notin abandoned'
                 PROVE  Held(e)'
      BY <1>1 DEF NoLostRepo, Recv
    <2>1. /\ repos' = repos /\ worker' = worker /\ proc' = proc
          /\ retry' = retry /\ resume' = resume /\ hand = NoDid
          /\ abandoned' = abandoned
      BY <1>1 DEF Recv
    <2>2. Held(e)
      BY <2>1 DEF NoLostRepo, Owed
    <2>3. InChannel(e) => InChannel(e)' \/ hand' = e
      BY <1>1, RecvKeepsChannel DEF TypeOK
    <2> QED
      BY <2>1, <2>2, <2>3, NoDidType DEF Held, ResumeCovers
  <1>2. CASE Crash
    BY <1>2 DEF Crash, NoLostRepo
  <1>3. CASE Restart
    BY <1>3 DEF Restart, NoLostRepo, Held, ResumeCovers
  <1> QED
    BY <1>1, <1>2, <1>3

\* No repository is lost: whatever is pending without a retry date, or
\* syncing, is on its way to a worker or with one, unless a dropped handler or
\* a stale write of the firehose gave it up.
THEOREM NoRepoIsLost == Spec => []NoLostRepo
  <1>1. Init => NoLostRepo
    BY DEF Init, NoLostRepo, Owed
  <1>2. TypeOK /\ NoLostRepo /\ [Next]_vars => NoLostRepo'
    <2> SUFFICES ASSUME TypeOK, NoLostRepo, [Next]_vars PROVE NoLostRepo'
      OBVIOUS
    <2>1. CASE \E c \in Clients : ClientStep(c)
      BY <2>1, ProducerKeepsRepos DEF ClientStep, Producers
    <2>2. CASE \E c \in Impatient : ClientLeaves(c)
      BY <2>2, ProducerKeepsRepos, LifecycleAssumption DEF Producers
    <2>3. CASE \E p \in Crawlers \cup Firehoses : DiscoveryStep(p)
      BY <2>3, ProducerKeepsRepos DEF DiscoveryStep, Producers
    <2>4. CASE \E p \in Producers : Enqueue(p)
      BY <2>4, ProducerKeepsRepos
    <2>5. CASE \E f \in Firehoses : FirehoseStep(f)
      BY <2>5, ProducerKeepsRepos DEF FirehoseStep, Producers
    <2>6. CASE \E w \in Workers : Spawn(w) \/ WorkerStep(w)
      BY <2>6, WorkerKeepsRepos
    <2>7. CASE \E w \in Workers, r \in Results : SyncReturns(w, r)
      BY <2>7, WorkerKeepsRepos
    <2>8. CASE RetryStep
      BY <2>8, RetryKeepsRepos
    <2>9. CASE ResumeStep
      BY <2>9, ResumeKeepsRepos
    <2>10. CASE Recv \/ Crash \/ Restart
      BY <2>10, ProcessKeepsRepos
    <2>11. CASE UNCHANGED vars
      BY <2>11 DEF vars, NoLostRepo, Owed, Held, InChannel, ResumeCovers
    <2> QED
      BY <2>1, <2>2, <2>3, <2>4, <2>5, <2>6, <2>7, <2>8, <2>9, <2>10, <2>11 DEF Next
  <1> QED
    BY <1>1, <1>2, TypeInvariant, PTL DEF Spec

-----------------------------------------------------------------------------
(* StatesCoherent.  What is stored comes from what threads read before, so  *)
(* the inductive invariant speaks of every copy in flight as well.          *)

CoherentCopy(state) == state # NoRepo => Coherent(state)

\* The copies held by workers, by producers and on the list of the retry
\* loop; that list has only pending states once the errors are done
CopiesCoherent ==
  /\ \A d \in Dids : CoherentCopy(repos[d])
  /\ \A w \in Workers : CoherentCopy(worker[w].seen)
  /\ \A p \in Producers : CoherentCopy(proc[p].seen)
  /\ \A d \in Dids :
       retry.list[d] # NoRepo =>
         /\ Coherent(retry.list[d])
         /\ retry.pc = "errors" \/ retry.list[d].status = "pending"

LEMMA VerdictCoherent ==
  ASSUME NEW seen \in RepoState, NEW r \in Results
  PROVE  Coherent(Verdict(seen, r))
  BY DEF Verdict, Results, RepoState, Coherent

LEMMA ProducerCoherent ==
  ASSUME TypeOK, CopiesCoherent, NEW p \in Producers,
         \/ \E d \in Dids : \/ ReposAdd(p, d) \/ ReposRemove(p, d) \/ ReposResync(p, d)
                            \/ Discover(p, d) \/ FirehoseCommit(p, d)
         \/ ReposResyncPut(p) \/ DiscoverPut(p) \/ Enqueue(p)
         \/ FirehosePutRev(p) \/ ClientLeaves(p)
  PROVE  CopiesCoherent'
  <1>0. /\ proc[p] \in ProcState /\ CoherentCopy(proc[p].seen)
        /\ worker' = worker /\ retry' = retry
    BY DEF TypeOK, CopiesCoherent, ReposAdd, ReposRemove, ReposResync, Discover,
           FirehoseCommit, ReposResyncPut, DiscoverPut, Enqueue, FirehosePutRev,
           ClientLeaves, Others
  <1>1. \A d \in Dids : CoherentCopy(repos'[d])
    <2>1. CASE ReposResyncPut(p)
      <3>1. proc[p].seen \in RepoState
        BY <1>0, <2>1 DEF TypeOK, ReposResyncPut, ProcState, MaybeRepo
      <3>2. Coherent([proc[p].seen EXCEPT !.status = "pending"])
        BY <3>1 DEF Coherent, RepoState
      <3> QED
        BY <2>1, <3>2 DEF TypeOK, CopiesCoherent, ReposResyncPut, Put, CoherentCopy
    <2>2. CASE FirehosePutRev(p)
      BY <1>0, <2>2 DEF TypeOK, CopiesCoherent, FirehosePutRev, Put
    <2>3. CASE DiscoverPut(p) \/ \E d \in Dids : ReposAdd(p, d)
      <3>1. CoherentCopy(NewRepo)
        BY DEF CoherentCopy, Coherent, NewRepo
      <3> QED
        BY <2>3, <3>1 DEF TypeOK, CopiesCoherent, DiscoverPut, ReposAdd, Put
    <2>4. CASE \E d \in Dids : ReposRemove(p, d)
      BY <2>4 DEF TypeOK, CopiesCoherent, ReposRemove, Put, CoherentCopy
    <2>5. CASE repos' = repos
      BY <2>5 DEF CopiesCoherent
    <2> QED
      BY <2>1, <2>2, <2>3, <2>4, <2>5
      DEF ReposResync, Discover, FirehoseCommit, Enqueue, ClientLeaves
  <1>2. \A q \in Producers : CoherentCopy(proc'[q].seen)
    <2>1. CASE \E d \in Dids : ReposResync(p, d) \/ FirehoseCommit(p, d)
      BY <2>1 DEF TypeOK, CopiesCoherent, ReposResync, FirehoseCommit, Goto
    <2>2. CASE \/ \E d \in Dids : ReposAdd(p, d) \/ Discover(p, d)
               \/ ReposResyncPut(p) \/ DiscoverPut(p)
      BY <2>2 DEF TypeOK, CopiesCoherent, ReposAdd, Discover, ReposResyncPut,
                  DiscoverPut, Goto, CoherentCopy
    <2>3. CASE Enqueue(p) \/ FirehosePutRev(p) \/ ClientLeaves(p)
      BY <2>3 DEF TypeOK, CopiesCoherent, Enqueue, FirehosePutRev, ClientLeaves,
                  IdleProc, CoherentCopy
    <2>4. CASE \E d \in Dids : ReposRemove(p, d)
      BY <2>4 DEF CopiesCoherent, ReposRemove
    <2> QED
      BY <2>1, <2>2, <2>3, <2>4
  <1> QED
    BY <1>0, <1>1, <1>2 DEF CopiesCoherent, CoherentCopy

LEMMA WorkerCoherent ==
  ASSUME TypeOK, CopiesCoherent, NEW w \in Workers,
         \/ Spawn(w) \/ WorkerStep(w) \/ \E r \in Results : SyncReturns(w, r)
  PROVE  CopiesCoherent'
  <1>0. /\ worker[w] \in WorkerState /\ CoherentCopy(worker[w].seen)
        /\ proc' = proc /\ retry' = retry
    BY DEF TypeOK, CopiesCoherent, Spawn, WorkerStep, ReadState,
           MarkSyncing, SyncReturns, ReadForVerdict, PutVerdict, RestOfServer
  <1>1. \A d \in Dids : CoherentCopy(repos'[d])
    <2>1. CASE MarkSyncing(w)
      <3>1. worker[w].seen \in RepoState
        BY <1>0, <2>1 DEF TypeOK, MarkSyncing, At, WorkerState, MaybeRepo
      <3>2. Coherent([worker[w].seen EXCEPT !.status = "syncing"])
        BY <3>1 DEF Coherent, RepoState
      <3> QED
        BY <2>1, <3>2 DEF TypeOK, CopiesCoherent, MarkSyncing, Put, CoherentCopy
    <2>2. CASE PutVerdict(w)
      <3>1. worker[w].seen \in RepoState /\ worker[w].result \in Results
        BY <1>0, <2>2 DEF TypeOK, PutVerdict, At, WorkerState, MaybeRepo
      <3>2. Coherent(Verdict(worker[w].seen, worker[w].result))
        BY <3>1, VerdictCoherent
      <3> QED
        BY <2>2, <3>2 DEF TypeOK, CopiesCoherent, PutVerdict, Put, CoherentCopy
    <2>3. CASE repos' = repos
      BY <2>3 DEF CopiesCoherent
    <2> QED
      BY <2>1, <2>2, <2>3
      DEF Spawn, WorkerStep, ReadState, SyncReturns, ReadForVerdict
  <1>2. CoherentCopy(worker'[w].seen)
    <2>1. CASE ReadState(w) \/ ReadForVerdict(w)
      <3>1. worker[w].did \in Dids
        BY <1>0, <2>1, NoDidType
        DEF TypeOK, ReadState, ReadForVerdict, At, WorkerState, MaybeDid
      <3>2. CoherentCopy(RepoOf(w))
        BY <3>1 DEF CopiesCoherent, RepoOf
      <3>3. worker'[w].seen \in {RepoOf(w), NoRepo}
        <4>1. CASE ReadState(w)
          BY <1>0, <4>1 DEF TypeOK, ReadState, WorkerState
        <4>2. CASE ReadForVerdict(w)
          BY <1>0, <4>2 DEF TypeOK, ReadForVerdict, WorkerState, IdleWorker
        <4> QED
          BY <2>1, <4>1, <4>2
      <3> QED
        BY <3>2, <3>3 DEF CoherentCopy
    <2>2. CASE Spawn(w) \/ MarkSyncing(w) \/ PutVerdict(w)
      <3>1. worker'[w].seen = NoRepo
        <4>1. CASE Spawn(w)
          BY <4>1 DEF TypeOK, Spawn, IdleWorker
        <4>2. CASE MarkSyncing(w)
          BY <1>0, <4>2 DEF TypeOK, MarkSyncing, WorkerState
        <4>3. CASE PutVerdict(w)
          BY <4>3 DEF TypeOK, PutVerdict, IdleWorker
        <4> QED
          BY <2>2, <4>1, <4>2, <4>3
      <3> QED
        BY <3>1 DEF CoherentCopy
    <2>4. CASE \E r \in Results : SyncReturns(w, r)
      <3>1. PICK r \in Results :
              worker' = [worker EXCEPT ![w].pc = "returned", ![w].result = r]
        BY <2>4 DEF SyncReturns
      <3>2. worker'[w].seen = worker[w].seen
        BY <1>0, <3>1 DEF TypeOK, WorkerState
      <3> QED
        BY <1>0, <3>2
    <2> QED
      BY <2>1, <2>2, <2>4 DEF WorkerStep
  <1>3. \A v \in Workers \ {w} : worker'[v] = worker[v]
    BY DEF TypeOK, Spawn, WorkerStep, ReadState, MarkSyncing,
           SyncReturns, ReadForVerdict, PutVerdict
  <1> QED
    BY <1>0, <1>1, <1>2, <1>3 DEF CopiesCoherent, CoherentCopy

LEMMA RetryCoherent ==
  ASSUME TypeOK, CopiesCoherent, RetryStep
  PROVE  CopiesCoherent'
  <1>0. proc' = proc /\ worker' = worker
    BY DEF RetryStep, RetryListErrors, RetryListPending, RetryPut, RetrySleep,
           RetryQueue, NotRetry
  <1>1. CASE \E due \in SUBSET Dids : RetryListErrors(due) \/ RetryListPending(due)
    <2>1. PICK due \in SUBSET Dids : RetryListErrors(due) \/ RetryListPending(due)
      BY <1>1
    <2>2. /\ repos' = repos /\ retry'.list = Listing(due)
          /\ retry'.pc = "errors" \/ due \subseteq Scheduled("pending")
      BY <2>1 DEF RetryListErrors, RetryListPending
    <2>3. \A d \in Dids : retry'.list[d] # NoRepo =>
            retry'.list[d] = repos[d] /\ d \in due
      BY <2>2 DEF Listing
    <2> QED
      BY <1>0, <2>2, <2>3
      DEF CopiesCoherent, CoherentCopy, Scheduled, ListByStatus
  <1>2. CASE \E d \in Dids : RetryPut(d)
    <2>1. PICK d \in Dids : RetryPut(d)
      BY <1>2
    <2>2. /\ retry.list[d] \in RepoState /\ Coherent(retry.list[d])
          /\ retry.pc = "errors" \/ retry.list[d].status = "pending"
      BY <2>1 DEF TypeOK, CopiesCoherent, RetryPut, MaybeRepo
    <2>3. /\ Coherent([retry.list[d] EXCEPT !.status = "pending", !.next_retry = FALSE])
          /\ retry.list[d].status = "pending" =>
               Coherent([retry.list[d] EXCEPT !.next_retry = FALSE])
      BY <2>2 DEF RepoState, Coherent
    <2>4. \A e \in Dids : CoherentCopy(repos'[e])
      BY <2>1, <2>2, <2>3 DEF TypeOK, CopiesCoherent, RetryPut, Put, CoherentCopy
    <2>5. /\ retry'.pc = retry.pc
          /\ \A e \in Dids : retry'.list[e] # NoRepo => retry'.list[e] = retry.list[e]
      BY <2>1 DEF TypeOK, RetryPut
    <2> QED
      BY <1>0, <2>4, <2>5 DEF CopiesCoherent
  <1>3. CASE RetrySleep
    BY <1>0, <1>3 DEF CopiesCoherent, RetrySleep, Asleep, NothingListed
  <1>4. CASE RetryQueue
    <2>1. repos' = repos /\ retry'.list = retry.list /\ retry'.pc = retry.pc
      BY <1>4 DEF TypeOK, RetryQueue
    <2> QED
      BY <1>0, <2>1 DEF CopiesCoherent
  <1> QED
    BY <1>1, <1>2, <1>3, <1>4 DEF RetryStep

\* Of every server, firehose and disconnecting clients included: although
\* every writer puts back a whole RepoState that it read some time ago, what
\* is stored is always a state that some verdict or request meant.
THEOREM StatesStayCoherent == Spec => []StatesCoherent
  <1>1. Init => CopiesCoherent
    BY DEF Init, CopiesCoherent, CoherentCopy, IdleWorker, IdleProc, Asleep, NothingListed
  <1>2. TypeOK /\ CopiesCoherent /\ [Next]_vars => CopiesCoherent'
    <2> SUFFICES ASSUME TypeOK, CopiesCoherent, [Next]_vars PROVE CopiesCoherent'
      OBVIOUS
    <2>1. CASE \E c \in Clients : ClientStep(c)
      BY <2>1, ProducerCoherent DEF ClientStep, Producers
    <2>2. CASE \E c \in Impatient : ClientLeaves(c)
      BY <2>2, ProducerCoherent, LifecycleAssumption DEF Producers
    <2>3. CASE \E p \in Crawlers \cup Firehoses : DiscoveryStep(p)
      BY <2>3, ProducerCoherent DEF DiscoveryStep, Producers
    <2>4. CASE \E p \in Producers : Enqueue(p)
      BY <2>4, ProducerCoherent
    <2>5. CASE \E f \in Firehoses : FirehoseStep(f)
      BY <2>5, ProducerCoherent DEF FirehoseStep, Producers
    <2>6. CASE \E w \in Workers : Spawn(w) \/ WorkerStep(w)
      BY <2>6, WorkerCoherent
    <2>7. CASE \E w \in Workers, r \in Results : SyncReturns(w, r)
      BY <2>7, WorkerCoherent
    <2>8. CASE RetryStep
      BY <2>8, RetryCoherent
    <2>9. CASE ResumeStep \/ Recv \/ Restart \/ UNCHANGED vars
      <3>1. /\ repos' = repos /\ worker' = worker
            /\ proc' = proc /\ retry' = retry
        BY <2>9 DEF ResumeStep, ResumeListSyncing, ResumeListPending, ResumeEnd,
                    ResumeQueue, NotResume, Recv, Restart, vars
      <3> QED
        BY <3>1 DEF CopiesCoherent
    <2>10. CASE Crash
      BY <2>10 DEF CopiesCoherent, Crash, CoherentCopy, IdleWorker, IdleProc,
                   Asleep, NothingListed
    <2> QED
      BY <2>1, <2>2, <2>3, <2>4, <2>5, <2>6, <2>7, <2>8, <2>9, <2>10 DEF Next
  <1>3. CopiesCoherent => StatesCoherent
    BY DEF CopiesCoherent, CoherentCopy, StatesCoherent
  <1> QED
    BY <1>1, <1>2, <1>3, TypeInvariant, PTL DEF Spec
=============================================================================
