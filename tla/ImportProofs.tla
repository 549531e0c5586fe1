---------------------------- MODULE ImportProofs ----------------------------
(***************************************************************************)
(* What TLAPS proves about Import, for every number of records, syncs,     *)
(* requests, failures and restarts: what is stored is what the account     *)
(* has, or will be made so, or is left behind for one of the reasons that  *)
(* `excused` names; and commits that the shell buffered are not forgotten. *)
(***************************************************************************)
EXTENDS Import, Maxima, SequenceTheorems

-----------------------------------------------------------------------------
(* Types                                                                   *)

Labels == {"idle", "resolve", "fetch", "import", "replay"}

EventType == [item : Items, gone : BOOLEAN]

TaskType == [at : Labels, doc : Nat, rev : Nat, todo : SUBSET Uris, hand : SUBSET Nat]

\* A sync knows no more of the account than there is, has something in hand only
\* while it replays, and owes records only while it imports
TaskOK(t) ==
  /\ task[t].doc <= Len(log) /\ task[t].rev <= Len(log)
  /\ task[t].hand \subseteq 1 .. Len(log)
  /\ task[t].at # "replay" => task[t].hand = {}
  /\ task[t].at # "import" => task[t].todo = {}

ImportType ==
  /\ log \in Seq(EventType)
  /\ process \in {"server", "shell"} /\ queued \in BOOLEAN
  /\ status \in {"untracked", "pending", "syncing", "error", "synced"}
  /\ seen \in 0 .. Len(log)
  /\ DOMAIN store = Items
  /\ buffer \subseteq 1 .. Len(log)
  /\ task \in [Tasks -> TaskType]
  /\ \A t \in Tasks : TaskOK(t)

LEMMA TypeFacts ==
  ASSUME ImportType
  PROVE  /\ Len(log) \in Nat /\ seen \in Nat /\ seen <= Len(log)
         /\ \A k \in 1 .. Len(log) : log[k].item \in Items
         /\ \A t \in Tasks :
              /\ task[t] \in TaskType /\ task[t].at \in Labels
              /\ task[t].doc \in 0 .. Len(log) /\ task[t].rev \in 0 .. Len(log)
              /\ task[t].todo \subseteq Uris /\ task[t].hand \subseteq 1 .. Len(log)
  <1>1. \A k \in 1 .. Len(log) : log[k] \in EventType
    BY ElementOfSeq DEF ImportType
  <1> QED
    BY <1>1, LenProperties DEF ImportType, TaskOK, TaskType, EventType

LEMMA NoTaskType == NoTask \in TaskType
  BY DEF NoTask, TaskType, Labels

LEMMA ImportTypeInit == Init => ImportType
  <1> SUFFICES ASSUME Init PROVE ImportType
    OBVIOUS
  <1>1. << >> \in Seq(EventType) /\ Len(<< >>) = 0
    BY EmptySeq
  <1>2. NoTask.doc = 0 /\ NoTask.rev = 0 /\ NoTask.hand = {} /\ NoTask.todo = {}
    BY DEF NoTask
  <1>3. \A t \in Tasks : task[t] = NoTask
    BY DEF Init
  <1>4. \A t \in Tasks : TaskOK(t)
    BY <1>1, <1>2, <1>3 DEF Init, TaskOK
  <1>5. task \in [Tasks -> TaskType]
    BY NoTaskType DEF Init
  <1>6. seen = 0 /\ Len(log) = 0 /\ buffer = {} /\ DOMAIN store = Items /\ log \in Seq(EventType)
    BY <1>1 DEF Init
  <1>7. process \in {"server", "shell"} /\ queued \in BOOLEAN /\ status = "untracked"
    BY DEF Init
  <1> QED
    BY <1>4, <1>5, <1>6, <1>7 DEF ImportType

\* The last of the first n events about an item
LEMMA LastIsLast ==
  ASSUME NEW i, NEW n \in Nat
  PROVE  /\ Last(i, n) \in 0 .. n
         /\ Last(i, n) # 0 => log[Last(i, n)].item = i
         /\ \A k \in 1 .. n : log[k].item = i => k <= Last(i, n)
  <1> DEFINE S == {0} \cup {k \in 1 .. n : log[k].item = i}
  <1>1. S \subseteq 0 .. n /\ S # {} /\ Last(i, n) = Max(S)
    BY DEF Last
  <1>2. Max(S) \in S /\ \A y \in S : y <= Max(S)
    BY <1>1, MaxIsMax
  <1> QED
    BY <1>1, <1>2

\* What a step of a task changes: nobody else's task, and of its own only this
Tasked(t, at, doc, rev, todo, hand) ==
  /\ \A s \in Tasks \ {t} : task'[s] = task[s]
  /\ task'[t].at = at /\ task'[t].doc = doc /\ task'[t].rev = rev
  /\ task'[t].todo = todo /\ task'[t].hand = hand
  /\ task' \in [Tasks -> TaskType]

LEMMA DoTask ==
  ASSUME ImportType, NEW t \in Tasks, NEW new \in TaskType, Do(t, new)
  PROVE  Tasked(t, new.at, new.doc, new.rev, new.todo, new.hand)
  BY DEF ImportType, Do, Tasked

LEMMA TaskSteps ==
  ASSUME ImportType, NEW t \in Tasks
  PROVE  /\ Leave(t) => Tasked(t, "idle", 0, 0, {}, {})
         /\ Resolve(t) => Tasked(t, "fetch", Newest(Handle), task[t].rev, task[t].todo, task[t].hand)
         /\ Fetch(t) => Tasked(t, "import", task[t].doc, Len(log),
                               {u \in Uris : Version(u, Len(log)) # 0}, task[t].hand)
         /\ \A us \in SUBSET Uris : ImportSome(t, us) \/ ImportSkips(t, us) =>
              Tasked(t, "import", task[t].doc, task[t].rev, task[t].todo \ us, task[t].hand)
         /\ Finish(t) => Tasked(t, "replay", 0, 0, {}, buffer)
         /\ Replay(t) \/ ReplayFails(t) =>
              Tasked(t, "replay", task[t].doc, task[t].rev, task[t].todo,
                     task[t].hand \ {Min(task[t].hand)})
  <1>0. /\ task \in [Tasks -> TaskType] /\ task[t] \in TaskType /\ Len(log) \in Nat
        /\ task[t].todo \in SUBSET Uris /\ task[t].hand \in SUBSET Nat /\ buffer \in SUBSET Nat
        /\ Newest(Handle) \in Nat
    BY TypeFacts, LastIsLast DEF ImportType, Newest
  <1>1. Leave(t) => Tasked(t, "idle", 0, 0, {}, {})
    BY <1>0, NoTaskType DEF Leave, Do, Tasked, NoTask
  <1>2. ASSUME Resolve(t)
        PROVE  Tasked(t, "fetch", Newest(Handle), task[t].rev, task[t].todo, task[t].hand)
    <2> DEFINE new == [task[t] EXCEPT !.at = "fetch", !.doc = Newest(Handle)]
    <2>1. /\ new \in TaskType /\ new.at = "fetch" /\ new.doc = Newest(Handle)
          /\ new.rev = task[t].rev /\ new.todo = task[t].todo /\ new.hand = task[t].hand
      BY <1>0 DEF TaskType, Labels
    <2>2. Do(t, new)
      BY <1>2 DEF Resolve
    <2> HIDE DEF new
    <2>3. Tasked(t, new.at, new.doc, new.rev, new.todo, new.hand)
      BY <2>1, <2>2, DoTask
    <2> QED
      BY <2>1, <2>3
  <1>3. ASSUME Fetch(t)
        PROVE  Tasked(t, "import", task[t].doc, Len(log),
                      {u \in Uris : Version(u, Len(log)) # 0}, task[t].hand)
    <2> DEFINE todo == {u \in Uris : Version(u, Len(log)) # 0}
               new  == [task[t] EXCEPT !.at = "import", !.rev = Len(log), !.todo = todo]
    <2>1. /\ new \in TaskType /\ new.at = "import" /\ new.rev = Len(log) /\ new.todo = todo
          /\ new.doc = task[t].doc /\ new.hand = task[t].hand
      <3>1. todo \in SUBSET Uris
        OBVIOUS
      <3> HIDE DEF todo
      <3> QED
        BY <1>0, <3>1 DEF TaskType, Labels
    <2>2. Do(t, new)
      BY <1>3 DEF Fetch
    <2> HIDE DEF new
    <2>3. Tasked(t, new.at, new.doc, new.rev, new.todo, new.hand)
      BY <2>1, <2>2, DoTask
    <2> QED
      BY <2>1, <2>3
  <1>4. ASSUME NEW us \in SUBSET Uris, ImportSome(t, us) \/ ImportSkips(t, us)
        PROVE  Tasked(t, "import", task[t].doc, task[t].rev, task[t].todo \ us, task[t].hand)
    <2> DEFINE new == [task[t] EXCEPT !.todo = task[t].todo \ us]
    <2>1. /\ new \in TaskType /\ new.at = task[t].at /\ new.todo = task[t].todo \ us
          /\ new.doc = task[t].doc /\ new.rev = task[t].rev /\ new.hand = task[t].hand
      <3>1. task[t].todo \ us \in SUBSET Uris
        BY <1>0
      <3> QED
        BY <1>0, <3>1 DEF TaskType, Labels
    <2>2. Do(t, new) /\ task[t].at = "import"
      BY <1>4 DEF ImportSome, ImportSkips, At
    <2> HIDE DEF new
    <2>3. Tasked(t, new.at, new.doc, new.rev, new.todo, new.hand)
      BY <2>1, <2>2, DoTask
    <2> QED
      BY <2>1, <2>2, <2>3
  <1>5. ASSUME Finish(t)
        PROVE  Tasked(t, "replay", 0, 0, {}, buffer)
    <2> DEFINE new == [NoTask EXCEPT !.at = "replay", !.hand = buffer]
    <2>1. /\ new \in TaskType /\ new.at = "replay" /\ new.hand = buffer
          /\ new.doc = 0 /\ new.rev = 0 /\ new.todo = {}
      BY <1>0 DEF NoTask, TaskType, Labels
    <2>2. Do(t, new)
      BY <1>5 DEF Finish
    <2> HIDE DEF new
    <2>3. Tasked(t, new.at, new.doc, new.rev, new.todo, new.hand)
      BY <2>1, <2>2, DoTask
    <2> QED
      BY <2>1, <2>3
  <1>6. ASSUME Replay(t) \/ ReplayFails(t)
        PROVE  Tasked(t, "replay", task[t].doc, task[t].rev, task[t].todo,
                      task[t].hand \ {Min(task[t].hand)})
    <2> DEFINE k   == Min(task[t].hand)
               new == [task[t] EXCEPT !.hand = task[t].hand \ {k}]
    <2>1. /\ new \in TaskType /\ new.at = task[t].at /\ new.hand = task[t].hand \ {k}
          /\ new.doc = task[t].doc /\ new.rev = task[t].rev /\ new.todo = task[t].todo
      <3>1. task[t].hand \ {k} \in SUBSET Nat
        BY <1>0
      <3> HIDE DEF k
      <3> QED
        BY <1>0, <3>1 DEF TaskType, Labels
    <2>2. Do(t, new) /\ task[t].at = "replay"
      BY <1>6 DEF Replay, ReplayFails, At
    <2> HIDE DEF new
    <2>3. Tasked(t, new.at, new.doc, new.rev, new.todo, new.hand)
      BY <2>1, <2>2, DoTask
    <2> QED
      BY <2>1, <2>2, <2>3
  <1> QED
    BY <1>1, <1>2, <1>3, <1>4, <1>5, <1>6

\* The other labels that a task comes to
LEMMA StartSteps ==
  ASSUME ImportType, NEW t \in Tasks
  PROVE  /\ StartWorker(t) \/ StartCall(t) => Tasked(t, "resolve", 0, 0, {}, {})
         /\ Fail(t) \/ FinishCall(t) \/ FinishRemoved(t) \/ Verdict(t) =>
              Tasked(t, "idle", 0, 0, {}, {})
  <1>1. /\ [NoTask EXCEPT !.at = "resolve"] = [at |-> "resolve", doc |-> 0, rev |-> 0,
                                              todo |-> {}, hand |-> {}]
        /\ [at |-> "resolve", doc |-> 0, rev |-> 0, todo |-> {}, hand |-> {}] \in TaskType
    BY DEF NoTask, TaskType, Labels
  <1>2. StartWorker(t) \/ StartCall(t) => Tasked(t, "resolve", 0, 0, {}, {})
    BY <1>1, DoTask DEF StartWorker, StartCall
  <1>3. Fail(t) \/ FinishCall(t) \/ FinishRemoved(t) \/ Verdict(t) => Leave(t)
    BY DEF Fail, FinishCall, FinishRemoved, Verdict
  <1> QED
    BY <1>2, <1>3, TaskSteps

\* A step of a task that keeps to what there is keeps the types
LEMMA TaskedType ==
  ASSUME ImportType, NEW t \in Tasks,
         NEW at, NEW doc \in 0 .. Len(log), NEW rev \in 0 .. Len(log), NEW todo,
         NEW hand \in SUBSET (1 .. Len(log)), Tasked(t, at, doc, rev, todo, hand),
         at # "replay" => hand = {}, at # "import" => todo = {},
         UNCHANGED <<log, process, seen>>,
         queued' \in BOOLEAN, buffer' \subseteq buffer, DOMAIN store' = Items,
         status' \in {"untracked", "pending", "syncing", "error", "synced"}
  PROVE  ImportType'
  <1>1. ASSUME NEW s \in Tasks
        PROVE  TaskOK(s)'
    <2>1. CASE s = t
      <3>1. task'[t].doc = doc /\ task'[t].rev = rev /\ task'[t].hand = hand /\ task'[t].at = at
            /\ task'[t].todo = todo
        BY DEF Tasked
      <3>2. doc <= Len(log) /\ rev <= Len(log) /\ log' = log
        BY TypeFacts
      <3> QED
        BY <2>1, <3>1, <3>2 DEF TaskOK
    <2>2. CASE s # t
      BY <2>2 DEF Tasked, TaskOK, ImportType
    <2> QED
      BY <2>1, <2>2
  <1> QED
    BY <1>1 DEF ImportType, Tasked

LEMMA ImportTypeStep == ImportType /\ [Next]_vars => ImportType'
  <1> SUFFICES ASSUME ImportType, [Next]_vars PROVE ImportType'
    OBVIOUS
  <1>0. /\ Len(log) \in Nat /\ seen \in Nat /\ seen <= Len(log)
        /\ \A t \in Tasks :
             /\ task[t].doc \in 0 .. Len(log) /\ task[t].rev \in 0 .. Len(log)
             /\ task[t].hand \in SUBSET (1 .. Len(log))
             /\ task[t].at # "replay" => task[t].hand = {}
             /\ task[t].at # "import" => task[t].todo = {}
    BY TypeFacts DEF ImportType, TaskOK
  <1>1. ASSUME NEW i \in Items, NEW gone \in BOOLEAN, Publish(i, gone)
        PROVE  ImportType'
    <2>1. [item |-> i, gone |-> gone] \in EventType
      BY DEF EventType
    <2>2. log' \in Seq(EventType) /\ Len(log') = Len(log) + 1
      BY <1>1, <2>1, AppendProperties DEF Publish, ImportType
    <2>3. \A t \in Tasks : TaskOK(t)'
      BY <1>0, <1>1, <2>2 DEF Publish, TaskOK
    <2>4. UNCHANGED <<process, status, queued, seen, store, buffer, task>>
      BY <1>1 DEF Publish
    <2> QED
      BY <1>0, <2>2, <2>3, <2>4 DEF ImportType
  <1>2. CASE StreamStep
    <2>1. /\ seen' = seen + 1 /\ seen < Len(log) /\ UNCHANGED <<log, process, status, queued, task>>
          /\ buffer' \subseteq buffer \cup {seen + 1} /\ DOMAIN store' = DOMAIN store
      BY <1>2 DEF StreamStep, FirehoseApplies, FirehosePasses, StreamBuffers, StreamApplies,
                  StreamLoses, Deliver, Apply
    <2> QED
      BY <1>0, <2>1 DEF ImportType, TaskOK
  <1>3. CASE Track \/ Untrack \/ UNCHANGED vars
    <2>1. /\ UNCHANGED <<log, process, seen, store, buffer, task>> /\ queued' \in BOOLEAN
          /\ status' \in {"untracked", "pending", "syncing", "error", "synced"}
      BY <1>3 DEF Track, Untrack, vars, ImportType
    <2> QED
      BY <2>1 DEF ImportType, TaskOK
  <1>4. ASSUME NEW t \in Tasks, TaskStep(t)
        PROVE  ImportType'
    <2>1. /\ UNCHANGED <<log, process, seen>> /\ queued' \in BOOLEAN /\ buffer' \subseteq buffer
          /\ DOMAIN store' = Items
          /\ status' \in {"untracked", "pending", "syncing", "error", "synced"}
      BY <1>4 DEF TaskStep, Resolve, Fetch, Fail, ImportSome, ImportSkips, Write, Outside, ImportType
    <2>2. CASE Resolve(t)
      <3>1. Tasked(t, "fetch", Newest(Handle), task[t].rev, task[t].todo, task[t].hand)
        BY <2>2, TaskSteps
      <3>2. task[t].hand = {} /\ task[t].todo = {} /\ Newest(Handle) \in 0 .. Len(log)
        BY <1>0, <2>2, LastIsLast DEF Resolve, At, Newest
      <3> QED
        BY <1>0, <2>1, <3>1, <3>2, TaskedType
    <2>3. CASE Fetch(t)
      <3> DEFINE todo == {u \in Uris : Version(u, Len(log)) # 0}
      <3>1. Tasked(t, "import", task[t].doc, Len(log), todo, task[t].hand)
        BY <2>3, TaskSteps
      <3>2. task[t].hand = {} /\ Len(log) \in 0 .. Len(log)
        BY <1>0, <2>3 DEF Fetch, At
      <3> HIDE DEF todo
      <3> QED
        BY <1>0, <2>1, <3>1, <3>2, TaskedType
    <2>4. CASE Fail(t)
      <3>1. Tasked(t, "idle", 0, 0, {}, {})
        BY <2>4, StartSteps
      <3>2. 0 \in 0 .. Len(log) /\ {} \in SUBSET (1 .. Len(log))
        BY <1>0
      <3> QED
        BY <2>1, <3>1, <3>2, TaskedType
    <2>5. ASSUME NEW us \in (SUBSET Uris) \ {{}}, ImportSome(t, us) \/ ImportSkips(t, us)
          PROVE  ImportType'
      <3>1. Tasked(t, "import", task[t].doc, task[t].rev, task[t].todo \ us, task[t].hand)
        BY <2>5, TaskSteps
      <3>2. task[t].hand = {}
        BY <1>0, <2>5 DEF ImportSome, ImportSkips, At
      <3> QED
        BY <1>0, <2>1, <3>1, <3>2, TaskedType
    <2> QED
      BY <1>4, <2>2, <2>3, <2>4, <2>5 DEF TaskStep
  <1>5. ASSUME NEW t \in Tasks, WorkerStep(t) \/ StartCall(t) \/ FinishCall(t)
        PROVE  ImportType'
    <2>1. /\ UNCHANGED <<log, process, seen>> /\ queued' \in BOOLEAN /\ buffer' \subseteq buffer
          /\ DOMAIN store' = Items
          /\ status' \in {"untracked", "pending", "syncing", "error", "synced"}
      BY <1>5 DEF WorkerStep, StartWorker, Finish, FinishRemoved, Replay, ReplayFails, Verdict,
                  StartCall, FinishCall, StoreHandle, Write, Outside, ImportType
    <2>2. CASE StartWorker(t) \/ StartCall(t) \/ FinishCall(t) \/ FinishRemoved(t) \/ Verdict(t)
      <3>1. PICK at \in {"resolve", "idle"} : Tasked(t, at, 0, 0, {}, {})
        BY <2>2, StartSteps
      <3>2. 0 \in 0 .. Len(log) /\ {} \in SUBSET (1 .. Len(log))
        BY <1>0
      <3> QED
        BY <2>1, <3>1, <3>2, TaskedType
    <2>3. CASE Finish(t)
      <3>1. Tasked(t, "replay", 0, 0, {}, buffer)
        BY <2>3, TaskSteps
      <3>2. buffer \in SUBSET (1 .. Len(log)) /\ 0 \in 0 .. Len(log)
        BY <1>0, <2>3 DEF ImportType
      <3> QED
        BY <1>0, <2>1, <3>1, <3>2, TaskedType
    <2>4. CASE Replay(t) \/ ReplayFails(t)
      <3> DEFINE k == Min(task[t].hand)
      <3>1. Tasked(t, "replay", task[t].doc, task[t].rev, task[t].todo, task[t].hand \ {k})
        BY <2>4, TaskSteps
      <3> HIDE DEF k
      <3>2. task[t].hand \ {k} \in SUBSET (1 .. Len(log)) /\ task[t].todo = {}
        BY <1>0, <2>4 DEF Replay, ReplayFails, At
      <3> QED
        BY <1>0, <2>1, <3>1, <3>2, TaskedType
    <2> QED
      BY <1>5, <2>2, <2>3, <2>4 DEF WorkerStep
  <1>6. ASSUME NEW p \in {"server", "shell"}, NEW k \in 0 .. seen, Restart(p, k)
        PROVE  ImportType'
    <2>1. /\ UNCHANGED <<log, status, store, buffer>> /\ process' = p /\ seen' = k
          /\ queued' \in BOOLEAN /\ task' = [t \in Tasks |-> NoTask]
      BY <1>6 DEF Restart, Incomplete
    <2>2. NoTask.doc = 0 /\ NoTask.rev = 0 /\ NoTask.hand = {} /\ NoTask.todo = {}
      BY DEF NoTask
    <2>3. \A t \in Tasks : TaskOK(t)'
      BY <1>0, <2>1, <2>2 DEF TaskOK
    <2>4. k \in 0 .. Len(log) /\ task' \in [Tasks -> TaskType]
      BY <1>0, <2>1, NoTaskType
    <2> QED
      BY <2>1, <2>3, <2>4 DEF ImportType
  <1>7. CASE ConnectLive
    <2>1. seen' = Len(log) /\ UNCHANGED <<log, process, status, queued, store, buffer, task>>
      BY <1>7 DEF ConnectLive
    <2> QED
      BY <1>0, <2>1 DEF ImportType, TaskOK
  <1> QED
    BY <1>1, <1>2, <1>3, <1>4, <1>5, <1>6, <1>7 DEF Next, Tasks

-----------------------------------------------------------------------------
(* The buffer of the shell                                                 *)

\* Syncs of the worker run only in the server.  While anything is buffered no
\* sync has finished since: none is replaying, and the status says so
BufferSafe ==
  /\ BufferIsOwed
  /\ \A w \in Workers : task[w].at # "idle" => process = "server"
  /\ buffer # {} => status # "synced" /\ \A w \in Workers : task[w].at # "replay"

LEMMA BufferSafeStep == ImportType /\ BufferSafe /\ [Next]_vars => BufferSafe'
  <1> SUFFICES ASSUME ImportType, BufferSafe, [Next]_vars PROVE BufferSafe'
    OBVIOUS
  <1>0. /\ task \in [Tasks -> TaskType] /\ process \in {"server", "shell"} /\ Workers \subseteq Tasks
        /\ status \in {"untracked", "pending", "syncing", "error", "synced"}
        /\ Workers \cap Callers = {}
    BY ImportAssumption DEF ImportType, Tasks
  <1>1. ASSUME NEW i \in Items, NEW gone \in BOOLEAN, Publish(i, gone)
        PROVE  BufferSafe'
    BY <1>1 DEF Publish, BufferSafe, BufferIsOwed
  <1>2. CASE StreamStep
    <2>1. CASE StreamBuffers
      <3>1. /\ process = "shell" /\ status = "syncing"
            /\ UNCHANGED <<process, status, queued, task>>
        BY <2>1 DEF StreamBuffers, Deliver
      <3> QED
        BY <3>1 DEF BufferSafe, BufferIsOwed
    <2>2. CASE UNCHANGED <<process, status, queued, task, buffer>>
      BY <2>2 DEF BufferSafe, BufferIsOwed
    <2> QED
      BY <1>2, <2>1, <2>2 DEF StreamStep, FirehoseApplies, FirehosePasses, StreamApplies,
                              StreamLoses, Deliver
  <1>3. CASE Track
    BY <1>0, <1>3 DEF Track, BufferSafe, BufferIsOwed
  <1>4. CASE Untrack \/ ConnectLive \/ UNCHANGED vars
    BY <1>4 DEF Untrack, ConnectLive, vars, BufferSafe, BufferIsOwed
  <1>5. ASSUME NEW t \in Tasks, NEW at, NEW doc, NEW rev, NEW todo, NEW hand,
               Tasked(t, at, doc, rev, todo, hand), at \in {"resolve", "fetch", "import"},
               task[t].at = "idle" => process = "server" \/ t \in Callers,
               queued => queued' \/ t \in Workers,
               UNCHANGED <<process, buffer>>, status' \in {status, "syncing"},
               status = "untracked" => status' = "untracked"
        PROVE  BufferSafe'
    <2>1. task'[t].at = at /\ \A s \in Tasks \ {t} : task'[s].at = task[s].at
      BY <1>5 DEF Tasked
    <2>2. ASSUME NEW w \in Workers
          PROVE  /\ task'[w].at # "idle" => process = "server"
                 /\ task'[w].at = "replay" => task[w].at = "replay"
                 /\ task[w].at \in {"resolve", "fetch", "import"} =>
                      task'[w].at \in {"resolve", "fetch", "import"}
      BY <1>0, <1>5, <2>1 DEF BufferSafe
    <2>3. BufferIsOwed'
      BY <1>0, <1>5, <2>1, <2>2 DEF BufferSafe, BufferIsOwed
    <2>4. buffer' # {} => status' # "synced" /\ \A w \in Workers : task'[w].at # "replay"
      BY <1>5, <2>2 DEF BufferSafe
    <2> QED
      BY <1>5, <2>2, <2>3, <2>4 DEF BufferSafe
  <1>6. ASSUME NEW t \in Tasks, TaskStep(t), ~ Fail(t)
        PROVE  BufferSafe'
    <2>1. task[t].at # "idle" /\ UNCHANGED <<process, status, queued, buffer>>
      BY <1>6 DEF TaskStep, Resolve, Fetch, ImportSome, ImportSkips, At, Outside
    <2>2. CASE Resolve(t)
      <3>1. Tasked(t, "fetch", Newest(Handle), task[t].rev, task[t].todo, task[t].hand)
        BY <2>2, TaskSteps
      <3> QED
        BY <1>5, <2>1, <3>1
    <2>3. CASE Fetch(t)
      <3> DEFINE todo == {u \in Uris : Version(u, Len(log)) # 0}
      <3>1. Tasked(t, "import", task[t].doc, Len(log), todo, task[t].hand)
        BY <2>3, TaskSteps
      <3> HIDE DEF todo
      <3> QED
        BY <1>5, <2>1, <3>1
    <2>4. ASSUME NEW us \in SUBSET Uris, ImportSome(t, us) \/ ImportSkips(t, us)
          PROVE  BufferSafe'
      <3>1. Tasked(t, "import", task[t].doc, task[t].rev, task[t].todo \ us, task[t].hand)
        BY <2>4, TaskSteps
      <3> QED
        BY <1>5, <2>1, <3>1
    <2> QED
      BY <1>6, <2>2, <2>3, <2>4 DEF TaskStep
  <1>7. ASSUME NEW t \in Tasks, t \in Workers => StartWorker(t), t \notin Workers => StartCall(t)
        PROVE  BufferSafe'
    <2>1. Tasked(t, "resolve", 0, 0, {}, {})
      BY <1>7, StartSteps
    <2>2. /\ t \in Callers \/ process = "server"
          /\ UNCHANGED <<process, buffer>> /\ status' \in {status, "syncing"}
          /\ status = "untracked" => status' = "untracked"
          /\ queued => queued' \/ t \in Workers
      BY <1>7 DEF StartWorker, StartCall, Outside, Tasks
    <2> QED
      BY <1>5, <2>1, <2>2
  <1>8. ASSUME NEW t \in Tasks, Tasked(t, "idle", 0, 0, {}, {}), UNCHANGED process,
               \/ UNCHANGED <<status, queued, buffer>> /\ (t \in Callers \/ status = "untracked")
               \/ queued' = TRUE /\ status' # "synced" /\ UNCHANGED buffer
               \/ UNCHANGED buffer /\ buffer = {}
        PROVE  BufferSafe'
    <2>1. task'[t].at = "idle" /\ \A s \in Tasks \ {t} : task'[s].at = task[s].at
      BY <1>8 DEF Tasked
    <2>2. ASSUME NEW w \in Workers
          PROVE  /\ task'[w].at # "idle" => process = "server"
                 /\ task'[w].at = "replay" => task[w].at = "replay"
                 /\ t \in Callers => task'[w].at = task[w].at
      BY <1>0, <2>1 DEF BufferSafe
    <2>3. BufferIsOwed'
      BY <1>0, <1>8, <2>1, <2>2 DEF BufferSafe, BufferIsOwed
    <2>4. buffer' # {} => status' # "synced" /\ \A w \in Workers : task'[w].at # "replay"
      BY <1>8, <2>2 DEF BufferSafe
    <2> QED
      BY <1>8, <2>2, <2>3, <2>4 DEF BufferSafe
  <1>9. ASSUME NEW t \in Tasks, Fail(t)
        PROVE  BufferSafe'
    <2>1. Tasked(t, "idle", 0, 0, {}, {})
      BY <1>9, StartSteps
    <2>2. /\ UNCHANGED <<process, buffer>>
          /\ \/ queued' = TRUE /\ status' \in {"error", "pending"}
             \/ UNCHANGED <<status, queued>> /\ (t \in Callers \/ status = "untracked")
      BY <1>9 DEF Fail, Outside, Tasks
    <2> QED
      BY <1>8, <2>1, <2>2
  <1>10. ASSUME NEW w \in Workers, FinishRemoved(w) \/ Verdict(w)
         PROVE  BufferSafe'
    <2>1. Tasked(w, "idle", 0, 0, {}, {})
      BY <1>0, <1>10, StartSteps
    <2>2. \/ UNCHANGED <<process, status, queued, buffer>> /\ status = "untracked"
          \/ UNCHANGED <<process, buffer>> /\ buffer = {}
      BY <1>10 DEF FinishRemoved, Verdict, Outside, At, BufferSafe
    <2> QED
      BY <1>0, <1>8, <2>1, <2>2
  <1>11. ASSUME NEW c \in Callers, FinishCall(c)
         PROVE  BufferSafe'
    <2>1. Tasked(c, "idle", 0, 0, {}, {}) /\ c \in Tasks
      BY <1>11, StartSteps DEF Tasks
    <2>2. UNCHANGED <<process, status, queued, buffer>>
      BY <1>11 DEF FinishCall, Outside
    <2> QED
      BY <1>8, <1>11, <2>1, <2>2
  <1>12. ASSUME NEW w \in Workers, Finish(w)
         PROVE  BufferSafe'
    <2>1. Tasked(w, "replay", 0, 0, {}, buffer)
      BY <1>0, <1>12, TaskSteps
    <2>2. buffer' = {} /\ UNCHANGED process /\ task[w].at # "idle"
      BY <1>12 DEF Finish, Outside, At
    <2>3. \A s \in Tasks \ {w} : task'[s] = task[s]
      BY <2>1 DEF Tasked
    <2> QED
      BY <1>0, <2>2, <2>3 DEF BufferSafe, BufferIsOwed
  <1>13. ASSUME NEW w \in Workers, Replay(w) \/ ReplayFails(w)
         PROVE  BufferSafe'
    <2>1. /\ task'[w].at = "replay" /\ task[w].at = "replay"
          /\ \A s \in Tasks \ {w} : task'[s] = task[s]
      BY <1>0, <1>13, TaskSteps DEF Tasked, Replay, ReplayFails, At
    <2>2. UNCHANGED <<process, status, queued, buffer>>
      BY <1>13 DEF Replay, ReplayFails, Outside
    <2>3. \A v \in Workers : task'[v].at = task[v].at
      BY <1>0, <2>1
    <2> QED
      BY <2>2, <2>3 DEF BufferSafe, BufferIsOwed
  <1>14. ASSUME NEW p \in {"server", "shell"}, NEW k \in 0 .. seen, Restart(p, k)
         PROVE  BufferSafe'
    <2>1. /\ UNCHANGED <<status, buffer>> /\ process' = p
          /\ queued' = (p = "server" /\ status \in {"pending", "syncing", "error"})
          /\ \A t \in Tasks : task'[t].at = "idle"
      BY <1>14 DEF Restart, Incomplete, NoTask
    <2> QED
      BY <1>0, <2>1 DEF BufferSafe, BufferIsOwed
  <1>15. ASSUME NEW t \in Tasks, TaskStep(t)
         PROVE  BufferSafe'
    BY <1>6, <1>9, <1>15
  <1>16. ASSUME NEW w \in Workers, WorkerStep(w)
         PROVE  BufferSafe'
    <2>1. CASE StartWorker(w)
      <3>1. w \in Tasks
        BY <1>0
      <3> QED
        BY <1>7, <2>1, <3>1
    <2> QED
      BY <1>10, <1>12, <1>13, <1>16, <2>1 DEF WorkerStep
  <1>17. ASSUME NEW c \in Callers, StartCall(c) \/ FinishCall(c)
         PROVE  BufferSafe'
    BY <1>0, <1>7, <1>11, <1>17 DEF Tasks
  <1> QED
    BY <1>1, <1>2, <1>3, <1>4, <1>14, <1>15, <1>16, <1>17 DEF Next

\* Commits that the shell buffered while a repository was syncing (resync_buffer.rs)
\* are not forgotten: whenever the server tracks the repository, a sync that will
\* drain them is queued or has not finished (sync_worker.rs, main.rs).
THEOREM BufferStaysOwed == Spec => []BufferIsOwed
  <1>1. Init => ImportType /\ BufferSafe
    BY ImportTypeInit DEF Init, BufferSafe, BufferIsOwed, NoTask, Tasks
  <1>2. ImportType /\ BufferSafe /\ [Next]_vars => ImportType' /\ BufferSafe'
    BY ImportTypeStep, BufferSafeStep
  <1>3. BufferSafe => BufferIsOwed
    BY DEF BufferSafe
  <1> QED
    BY <1>1, <1>2, <1>3, PTL DEF Spec

-----------------------------------------------------------------------------
(* What is stored                                                          *)

\* Nothing happened to the item between two counts of events if the last event
\* about it is among the fewer
LEMMA SameVersion ==
  ASSUME NEW i, NEW n \in Nat, NEW m \in Nat, n <= m, Last(i, m) <= n
  PROVE  Last(i, n) = Last(i, m) /\ Version(i, n) = Version(i, m)
  <1>1. /\ Last(i, n) \in 0 .. n /\ Last(i, m) \in 0 .. m
        /\ Last(i, n) # 0 => log[Last(i, n)].item = i
        /\ Last(i, m) # 0 => log[Last(i, m)].item = i
        /\ \A k \in 1 .. n : log[k].item = i => k <= Last(i, n)
        /\ \A k \in 1 .. m : log[k].item = i => k <= Last(i, m)
    BY LastIsLast
  <1>2. Last(i, n) <= Last(i, m)
    BY <1>1
  <1>3. Last(i, m) <= Last(i, n)
    BY <1>1
  <1>4. Last(i, n) = Last(i, m)
    BY <1>1, <1>2, <1>3
  <1> QED
    BY <1>4 DEF Version

LEMMA SameLog ==
  ASSUME log' = log, NEW i, NEW n
  PROVE  /\ Last(i, n)' = Last(i, n) /\ Version(i, n)' = Version(i, n)
         /\ Newest(i)' = Newest(i)
  BY DEF Last, Version, Newest

Kept(i) == Current(i) \/ Owed(i) \/ i \in excused

\* What is owed stays owed when a task steps, if the task goes on to owe it
LEMMA OwedStays ==
  ASSUME NEW i, NEW t \in Tasks, NEW at, NEW doc, NEW rev, NEW todo, NEW hand,
         Tasked(t, at, doc, rev, todo, hand), log' = log, seen' = seen, Owed(i),
         Newest(i) \in buffer \cup task[t].hand => Newest(i) \in buffer' \cup hand,
         i \in task[t].todo /\ task[t].rev >= Newest(i) => i \in todo /\ rev = task[t].rev
  PROVE  Owed(i)'
  <1>1. Newest(i)' = Newest(i)
    BY SameLog
  <1>2. /\ \A s \in Tasks \ {t} : task'[s] = task[s]
        /\ task'[t].rev = rev /\ task'[t].todo = todo /\ task'[t].hand = hand
    BY DEF Tasked
  <1>3. CASE Newest(i) > seen
    BY <1>1, <1>3 DEF Owed
  <1>4. CASE Newest(i) \in buffer \cup Hands
    <2>1. Newest(i) \in buffer' \cup Hands'
      BY <1>2, <1>4 DEF Hands
    <2> QED
      BY <1>1, <2>1 DEF Owed
  <1>5. ASSUME NEW s \in Tasks, i \in task[s].todo, task[s].rev >= Newest(i)
        PROVE  Owed(i)'
    <2>1. i \in task'[s].todo /\ task'[s].rev >= Newest(i)
      BY <1>2, <1>5
    <2> QED
      BY <1>1, <2>1 DEF Owed
  <1> QED
    BY <1>3, <1>4, <1>5 DEF Owed

\* Nothing changes for an item that is not written and goes on to be owed
LEMMA KeptStays ==
  ASSUME NEW i, Kept(i), log' = log, store'[i] = store[i], Owed(i) => Owed(i)',
         i \in excused => Kept(i)'
  PROVE  Kept(i)'
  <1>1. Current(i) => Current(i)'
    BY SameLog DEF Current
  <1> QED
    BY <1>1 DEF Kept

\* An item that is written as it was after n events is current, or a later event
\* is to come or in some buffer, or it is excused
LEMMA WriteKeeps ==
  ASSUME ImportType, NEW is, NEW i \in Items, i \in is, NEW n \in 0 .. Len(log), Write(is, n),
         log' = log, seen' = seen, buffer \cup Hands \subseteq buffer' \cup Hands' \cup {n}
  PROVE  Kept(i)'
  <1>1. Len(log) \in Nat /\ n \in Nat /\ n <= Len(log) /\ seen \in Nat /\ seen <= Len(log)
    BY TypeFacts
  <1>2. /\ store'[i] = Version(i, n) /\ Version(i, Len(log))' = Version(i, Len(log))
        /\ Newest(i)' = Newest(i) /\ Newest(i) \in Nat /\ Newest(i) = Last(i, Len(log))
        /\ Overtaken(i, n) => i \in excused'
    BY <1>1, SameLog, LastIsLast DEF Write, Newest
  <1>3. CASE Newest(i) <= n
    <2>1. Version(i, n) = Version(i, Len(log))
      BY <1>1, <1>2, <1>3, SameVersion
    <2> QED
      BY <1>2, <2>1 DEF Kept, Current
  <1>4. CASE Newest(i) > seen
    BY <1>2, <1>4 DEF Kept, Owed
  <1>5. CASE Newest(i) > n /\ Newest(i) <= seen
    <2>1. Last(i, seen) = Newest(i)
      BY <1>1, <1>2, <1>5, SameVersion
    <2>2. CASE Newest(i) \in buffer \cup Hands
      <3>1. Newest(i) \in buffer' \cup Hands'
        BY <1>1, <1>2, <1>5, <2>2
      <3> QED
        BY <1>2, <3>1 DEF Kept, Owed
    <2>3. CASE Newest(i) \notin buffer \cup Hands
      BY <1>2, <1>5, <2>1, <2>3 DEF Overtaken, Kept
    <2> QED
      BY <2>2, <2>3
  <1> QED
    BY <1>1, <1>2, <1>3, <1>4, <1>5

\* A record that an import gives up is excused if it is not as it would have been
LEMMA DropKeeps ==
  ASSUME ImportType, NEW i, NEW t \in Tasks, i \in task[t].todo, task[t].rev >= Newest(i),
         UNCHANGED <<log, store>>,
         i \in Unwritten(task[t].todo, task[t].rev) => i \in excused'
  PROVE  Kept(i)'
  <1>1. Len(log) \in Nat /\ task[t].rev \in 0 .. Len(log)
    BY TypeFacts
  <1>2. Newest(i) \in Nat /\ Newest(i) = Last(i, Len(log))
    BY <1>1, LastIsLast DEF Newest
  <1>3. Version(i, task[t].rev) = Version(i, Len(log))
    BY <1>1, <1>2, SameVersion
  <1>4. store'[i] = store[i] /\ Version(i, Len(log))' = Version(i, Len(log))
    BY SameLog
  <1> QED
    BY <1>3, <1>4 DEF Unwritten, Kept, Current

\* An item whose event is given up is current or excused
LEMMA ForgetKeeps ==
  ASSUME NEW i, NEW is, i \in is, Forget(is), UNCHANGED <<log, store>>
  PROVE  Kept(i)'
  <1>1. Version(i, Len(log))' = Version(i, Len(log)) /\ store'[i] = store[i]
    BY SameLog
  <1>2. i \in excused' \/ store[i] = Version(i, Len(log))
    BY DEF Forget, Unwritten
  <1> QED
    BY <1>1, <1>2 DEF Kept, Current

\* A new event is still to come; nothing changes for the other items
LEMMA PublishKeeps ==
  ASSUME ImportType, NEW i \in Items, NEW j \in Items, NEW gone, Publish(j, gone), Kept(i)
  PROVE  Kept(i)'
  <1> DEFINE n == Len(log)
             e == [item |-> j, gone |-> gone]
  <1>1. /\ n \in Nat /\ log' = Append(log, e) /\ e.item = j
        /\ UNCHANGED <<seen, store, buffer, task, excused>> /\ seen <= n /\ seen \in Nat
    BY TypeFacts DEF Publish
  <1>2. /\ Len(log') = n + 1 /\ log'[n + 1] = e
        /\ \A k \in 1 .. n : log'[k] = log[k]
    BY <1>1, AppendProperties DEF ImportType
  <1> HIDE DEF e, n
  <1>3. CASE i = j
    <2> DEFINE S == {0} \cup {k \in 1 .. n + 1 : log'[k].item = i}
    <2>1. S \subseteq 0 .. n + 1 /\ n + 1 \in S /\ n + 1 \in Nat
      BY <1>1, <1>2, <1>3
    <2>2. Max(S) \in S /\ n + 1 <= Max(S)
      BY <2>1, MaxIsMax
    <2>3. Newest(i)' = Max(S)
      BY <1>2 DEF Newest, Last
    <2> HIDE DEF S
    <2>4. Max(S) \in 0 .. n + 1
      BY <2>1, <2>2
    <2>5. Max(S) > seen /\ seen' = seen
      BY <1>1, <2>2, <2>4
    <2> QED
      BY <2>3, <2>5 DEF Kept, Owed
  <1>4. CASE i # j
    <2>1. {k \in 1 .. n + 1 : log'[k].item = i} = {k \in 1 .. n : log[k].item = i}
      BY <1>1, <1>2, <1>4
    <2>2. Newest(i)' = Newest(i) /\ Last(i, Len(log))' = Last(i, Len(log))
      BY <1>2, <2>1 DEF Newest, Last, n
    <2>3. Last(i, n) \in 0 .. n
      BY <1>1, LastIsLast
    <2>4. Version(i, Len(log))' = Version(i, Len(log))
      <3>1. Last(i, n) # 0 => log'[Last(i, n)] = log[Last(i, n)]
        BY <1>1, <1>2, <2>3
      <3> QED
        BY <2>2, <3>1 DEF Version, n
    <2> QED
      BY <1>1, <2>2, <2>4 DEF Kept, Current, Owed, Hands
  <1> QED
    BY <1>3, <1>4

\* What a connection without a cursor leaves out is excused, and nothing else
LEMMA ConnectKeeps ==
  ASSUME ImportType, NEW i \in Items, ConnectLive, Kept(i)
  PROVE  Kept(i)'
  <1> DEFINE out == {log[k].item : k \in seen + 1 .. Len(log)}
  <1>1. /\ UNCHANGED <<log, store, buffer, task>> /\ seen' = Len(log) /\ Forget(out)
        /\ seen \in Nat /\ Len(log) \in Nat
    BY TypeFacts DEF ConnectLive
  <1>2. /\ Newest(i)' = Newest(i) /\ Newest(i) \in 0 .. Len(log)
        /\ Newest(i) # 0 => log[Newest(i)].item = i
    BY <1>1, SameLog, LastIsLast DEF Newest
  <1>3. CASE Newest(i) > seen
    <2>1. Newest(i) \in seen + 1 .. Len(log) /\ log[Newest(i)].item = i
      BY <1>1, <1>2, <1>3
    <2>2. i \in out
      BY <2>1
    <2> HIDE DEF out
    <2> QED
      BY <1>1, <2>2, ForgetKeeps
  <1>4. CASE ~ (Newest(i) > seen)
    <2>1. Owed(i) => Owed(i)'
      BY <1>1, <1>2, <1>4 DEF Owed, Hands
    <2>2. i \in excused => i \in excused'
      BY <1>1 DEF Forget
    <2> QED
      BY <1>1, <2>1, <2>2, KeptStays DEF Kept
  <1> QED
    BY <1>3, <1>4

\* An event that is delivered is stored, buffered or excused
LEMMA StreamKeeps ==
  ASSUME ImportType, NEW i \in Items, StreamStep, Kept(i)
  PROVE  Kept(i)'
  <1>1. /\ seen' = seen + 1 /\ seen < Len(log) /\ UNCHANGED <<log, task>>
        /\ seen \in Nat /\ Len(log) \in Nat
    BY TypeFacts DEF StreamStep, FirehoseApplies, FirehosePasses, StreamBuffers, StreamApplies,
                     StreamLoses, Deliver
  <1>2. /\ Newest(i)' = Newest(i) /\ Version(i, Len(log))' = Version(i, Len(log))
        /\ Newest(i) \in Nat /\ Newest(i) = Last(i, Len(log))
        /\ Newest(i) # 0 => log[Newest(i)].item = i
    BY <1>1, SameLog, LastIsLast DEF Newest
  <1>3. buffer \subseteq buffer' /\ Hands' = Hands
    BY <1>1 DEF StreamStep, FirehoseApplies, FirehosePasses, StreamBuffers, StreamApplies,
                StreamLoses, Hands
  <1>4. Owed(i) /\ Newest(i) # seen + 1 => Owed(i)'
    BY <1>1, <1>2, <1>3 DEF Owed
  <1>5. CASE i # Event.item
    <2>1. Newest(i) # seen + 1
      BY <1>1, <1>2, <1>5 DEF Event
    <2>2. store'[i] = store[i] /\ (i \in excused => i \in excused')
      BY <1>5 DEF StreamStep, FirehoseApplies, FirehosePasses, StreamBuffers, StreamApplies,
                  StreamLoses, Forget, Apply, ImportType
    <2> QED
      BY <1>1, <1>4, <2>1, <2>2, KeptStays DEF Kept
  <1>6. CASE i = Event.item /\ Apply
    <2>1. store'[i] = Version(i, seen + 1)
      BY <1>6 DEF Apply, ImportType
    <2>2. CASE Newest(i) <= seen + 1
      <3>1. Version(i, seen + 1) = Version(i, Len(log))
        BY <1>1, <1>2, <2>2, SameVersion
      <3> QED
        BY <1>2, <2>1, <3>1 DEF Kept, Current
    <2>3. CASE Newest(i) > seen + 1
      BY <1>1, <1>2, <2>3 DEF Kept, Owed
    <2> QED
      BY <1>1, <1>2, <2>2, <2>3
  <1>7. CASE i = Event.item /\ FirehosePasses
    BY <1>7 DEF FirehosePasses, Kept
  <1>8. CASE i = Event.item /\ StreamBuffers
    <2>1. UNCHANGED <<store, excused>> /\ seen + 1 \in buffer'
      BY <1>8 DEF StreamBuffers
    <2>2. Newest(i) = seen + 1 => Owed(i)'
      BY <1>2, <2>1 DEF Owed
    <2> QED
      BY <1>1, <1>4, <2>1, <2>2, KeptStays DEF Kept
  <1>9. ASSUME NEW p, i = Event.item, StreamLoses(p)
        PROVE  Kept(i)'
    <2>1. UNCHANGED <<log, store>> /\ Forget({i})
      BY <1>1, <1>9 DEF StreamLoses
    <2> QED
      BY <2>1, ForgetKeeps
  <1> QED
    BY <1>5, <1>6, <1>7, <1>8, <1>9 DEF StreamStep, FirehoseApplies, StreamApplies

\* A sync that starts, resolves or fetches
LEMMA FetchKeeps ==
  ASSUME ImportType, NEW i \in Items, NEW t \in Tasks, Kept(i),
         StartWorker(t) \/ StartCall(t) \/ Resolve(t) \/ Fetch(t)
  PROVE  Kept(i)'
  <1>1. /\ UNCHANGED <<log, seen, store, buffer>> /\ task[t].at \in {"idle", "resolve", "fetch"}
    BY DEF StartWorker, StartCall, Resolve, Fetch, At, Outside
  <1>2. task[t].hand = {} /\ task[t].todo = {}
    BY <1>1 DEF ImportType, TaskOK
  <1>3. Owed(i) => Owed(i)'
    <2>1. PICK at, doc, rev, todo, hand : Tasked(t, at, doc, rev, todo, hand)
      BY TaskSteps, StartSteps
    <2> QED
      BY <1>1, <1>2, <2>1, OwedStays
  <1>4. CASE excused' = excused
    BY <1>1, <1>3, <1>4, KeptStays DEF Kept
  <1>5. CASE Fetch(t)
    <2> DEFINE todo == {u \in Uris : Version(u, Len(log)) # 0}
    <2>1. Tasked(t, "import", task[t].doc, Len(log), todo, task[t].hand)
      BY <1>5, TaskSteps
    <2>2. excused' = excused \ todo
      BY <1>5 DEF Fetch
    <2> HIDE DEF todo
    <2>3. task'[t].todo = todo /\ task'[t].rev = Len(log)
      BY <2>1 DEF Tasked
    <2>4. Newest(i)' = Newest(i) /\ Newest(i) \in Nat /\ Newest(i) <= Len(log) /\ Len(log) \in Nat
      BY <1>1, SameLog, LastIsLast, TypeFacts DEF Newest
    <2>5. i \in todo => Owed(i)'
      BY <2>3, <2>4 DEF Owed
    <2> QED
      BY <1>1, <1>3, <2>2, <2>5, KeptStays DEF Kept
  <1> QED
    BY <1>4, <1>5 DEF StartWorker, StartCall, Resolve

\* A sync that imports, gives records up, or fails
LEMMA ImportKeeps ==
  ASSUME ImportType, NEW i \in Items, NEW t \in Tasks, Kept(i)
  PROVE  /\ \A us \in SUBSET Uris : ImportSome(t, us) \/ ImportSkips(t, us) => Kept(i)'
         /\ Fail(t) => Kept(i)'
  <1>1. ASSUME NEW us \in SUBSET Uris, ImportSome(t, us) \/ ImportSkips(t, us)
        PROVE  /\ Tasked(t, "import", task[t].doc, task[t].rev, task[t].todo \ us, task[t].hand)
               /\ UNCHANGED <<log, seen, buffer>> /\ us \subseteq task[t].todo
               /\ i \notin us /\ Owed(i) => Owed(i)'
    <2>1. Tasked(t, "import", task[t].doc, task[t].rev, task[t].todo \ us, task[t].hand)
      BY <1>1, TaskSteps
    <2>2. UNCHANGED <<log, seen, buffer>> /\ us \subseteq task[t].todo
      BY <1>1 DEF ImportSome, ImportSkips, Outside
    <2> QED
      BY <2>1, <2>2, OwedStays
  <1>2. ASSUME NEW us \in SUBSET Uris, ImportSome(t, us)
        PROVE  Kept(i)'
    <2>1. Write(us, task[t].rev)
      BY <1>2 DEF ImportSome
    <2>2. CASE i \in us
      <3>1. task[t].rev \in 0 .. Len(log)
        BY TypeFacts
      <3>2. buffer \cup Hands \subseteq buffer' \cup Hands'
        BY <1>1, <1>2 DEF Hands, Tasked
      <3> QED
        BY <1>1, <1>2, <2>1, <2>2, <3>1, <3>2, WriteKeeps
    <2>3. CASE i \notin us
      <3>1. store'[i] = store[i] /\ (i \in excused => i \in excused')
        BY <2>1, <2>3 DEF Write
      <3> QED
        BY <1>1, <1>2, <2>3, <3>1, KeptStays DEF Kept
    <2> QED
      BY <2>2, <2>3
  <1>3. ASSUME NEW us \in SUBSET Uris, ImportSkips(t, us)
        PROVE  Kept(i)'
    <2>1. UNCHANGED store /\ excused' = excused \cup Unwritten(us, task[t].rev)
      BY <1>3 DEF ImportSkips
    <2>2. CASE i \in us /\ task[t].rev >= Newest(i)
      <3>1. i \in Unwritten(task[t].todo, task[t].rev) => i \in excused'
        BY <2>1, <2>2 DEF Unwritten
      <3> QED
        BY <1>1, <1>3, <2>1, <2>2, <3>1, DropKeeps
    <2>3. CASE ~ (i \in us /\ task[t].rev >= Newest(i))
      <3>1. Owed(i) => Owed(i)'
        BY <1>1, <1>3, <2>3, OwedStays
      <3> QED
        BY <1>1, <1>3, <2>1, <3>1, KeptStays DEF Kept
    <2> QED
      BY <2>2, <2>3
  <1>4. ASSUME Fail(t)
        PROVE  Kept(i)'
    <2>1. /\ UNCHANGED <<log, seen, store, buffer>> /\ task[t].at # "replay"
          /\ excused' = excused \cup Unwritten(task[t].todo, task[t].rev)
      BY <1>4 DEF Fail, Outside, At
    <2>2. Tasked(t, "idle", 0, 0, {}, {}) /\ task[t].hand = {}
      BY <1>4, <2>1, StartSteps DEF ImportType, TaskOK
    <2>3. CASE i \in task[t].todo /\ task[t].rev >= Newest(i)
      BY <2>1, <2>3, DropKeeps
    <2>4. CASE ~ (i \in task[t].todo /\ task[t].rev >= Newest(i))
      <3>1. Owed(i) => Owed(i)'
        BY <2>1, <2>2, <2>4, OwedStays
      <3> QED
        BY <2>1, <3>1, KeptStays DEF Kept
    <2> QED
      BY <2>3, <2>4
  <1> QED
    BY <1>2, <1>3, <1>4

\* A sync that ends well, and the replay of what the shell buffered
LEMMA FinishKeeps ==
  ASSUME ImportType, NEW i \in Items, NEW t \in Tasks, Kept(i),
         FinishCall(t) \/ Finish(t) \/ FinishRemoved(t) \/ Verdict(t)
  PROVE  Kept(i)'
  <1>1. UNCHANGED <<log, seen>> /\ task[t].todo = {}
    BY DEF FinishCall, Finish, FinishRemoved, Verdict, At, Outside, ImportType, TaskOK
  <1>2. \A h \in buffer \cup Hands : h \in buffer' \cup Hands'
    <2>1. CASE Finish(t)
      <3>1. buffer \subseteq task'[t].hand /\ \A s \in Tasks \ {t} : task'[s] = task[s]
        BY <2>1, TaskSteps DEF Tasked
      <3>2. task[t].hand = {}
        BY <2>1 DEF Finish, At, ImportType, TaskOK
      <3> QED
        BY <3>1, <3>2 DEF Hands
    <2>2. CASE FinishCall(t) \/ FinishRemoved(t) \/ Verdict(t)
      <3>1. buffer' = buffer /\ \A s \in Tasks \ {t} : task'[s] = task[s]
        BY <2>2, StartSteps DEF Tasked, FinishCall, FinishRemoved, Verdict
      <3>2. task[t].hand = {}
        BY <2>2 DEF FinishCall, FinishRemoved, Verdict, At, ImportType, TaskOK
      <3> QED
        BY <3>1, <3>2 DEF Hands
    <2> QED
      BY <2>1, <2>2
  <1>3. Owed(i) => Owed(i)'
    <2>1. \A s \in Tasks \ {t} : task'[s] = task[s]
      BY TaskSteps, StartSteps DEF Tasked
    <2>2. Newest(i)' = Newest(i)
      BY <1>1, SameLog
    <2> QED
      BY <1>1, <1>2, <2>1, <2>2 DEF Owed
  <1>4. CASE UNCHANGED <<store, excused>>
    BY <1>1, <1>3, <1>4, KeptStays DEF Kept
  <1>5. CASE Write({Handle}, task[t].doc)
    <2>1. CASE i = Handle
      <3>1. task[t].doc \in 0 .. Len(log)
        BY TypeFacts
      <3> QED
        BY <1>1, <1>2, <1>5, <2>1, <3>1, WriteKeeps
    <2>2. CASE i # Handle
      <3>1. store'[i] = store[i] /\ (i \in excused => i \in excused')
        BY <1>5, <2>2 DEF Write
      <3> QED
        BY <1>1, <1>3, <3>1, KeptStays DEF Kept
    <2> QED
      BY <2>1, <2>2
  <1> QED
    BY <1>4, <1>5 DEF FinishCall, Finish, FinishRemoved, Verdict, StoreHandle

\* A commit in hand is written, or its item excused
LEMMA ReplayKeeps ==
  ASSUME ImportType, NEW i \in Items, NEW t \in Tasks, Kept(i), Replay(t) \/ ReplayFails(t)
  PROVE  Kept(i)'
  <1> DEFINE k == Min(task[t].hand)
  <1>1. /\ UNCHANGED <<log, seen, buffer>>
        /\ \/ Write({log[k].item}, k)
           \/ Forget({log[k].item}) /\ UNCHANGED store
        /\ task[t].hand # {} /\ task[t].hand \subseteq 1 .. Len(log) /\ Len(log) \in Nat
    BY TypeFacts DEF Replay, ReplayFails, Outside
  <1>2. k \in task[t].hand /\ k \in 1 .. Len(log)
    BY <1>1, MinIsMin
  <1>3. Tasked(t, "replay", task[t].doc, task[t].rev, task[t].todo, task[t].hand \ {k})
    BY TaskSteps
  <1> HIDE DEF k
  <1>4. CASE i = log[k].item
    <2>1. \A h \in buffer \cup Hands : h \in buffer' \cup Hands' \cup {k}
      BY <1>1, <1>3 DEF Hands, Tasked
    <2>2. k \in 0 .. Len(log)
      BY <1>1, <1>2
    <2>3. CASE Write({log[k].item}, k)
      BY <1>1, <1>4, <2>1, <2>2, <2>3, WriteKeeps
    <2>4. CASE Forget({log[k].item}) /\ UNCHANGED store
      BY <1>1, <1>4, <2>4, ForgetKeeps
    <2> QED
      BY <1>1, <2>3, <2>4
  <1>5. CASE i # log[k].item
    <2>1. Newest(i) # k
      BY <1>1, <1>2, <1>5, LastIsLast DEF Newest
    <2>2. Owed(i) => Owed(i)'
      BY <1>1, <1>3, <2>1, OwedStays
    <2>3. store'[i] = store[i] /\ (i \in excused => i \in excused')
      BY <1>1, <1>5 DEF Write, Forget
    <2> QED
      BY <1>1, <2>2, <2>3, KeptStays DEF Kept
  <1> QED
    BY <1>4, <1>5

\* The process ends: what is in a hand or in a download is lost, and excused
LEMMA RestartKeeps ==
  ASSUME ImportType, NEW i \in Items, Kept(i), NEW p, NEW k \in 0 .. seen, Restart(p, k)
  PROVE  Kept(i)'
  <1>1. /\ UNCHANGED <<log, store, buffer>> /\ seen' = k /\ k <= seen
        /\ k \in Nat /\ seen \in Nat /\ Len(log) \in Nat
    BY TypeFacts DEF Restart
  <1> DEFINE lost == UNION {Unwritten(task[t].todo, task[t].rev) : t \in Tasks}
             cut  == {log[h].item : h \in Hands}
  <1>2. excused' = excused \cup lost \cup cut
    BY DEF Restart
  <1>3. \A t \in Tasks : i \in Unwritten(task[t].todo, task[t].rev) => i \in lost
    OBVIOUS
  <1> HIDE DEF lost, cut
  <1>4. /\ Newest(i)' = Newest(i) /\ Newest(i) \in Nat
        /\ Newest(i) # 0 => log[Newest(i)].item = i
    BY <1>1, SameLog, LastIsLast DEF Newest
  <1>5. CASE Newest(i) > seen
    BY <1>1, <1>4, <1>5 DEF Kept, Owed
  <1>6. CASE Newest(i) \in buffer
    BY <1>1, <1>4, <1>6 DEF Kept, Owed
  <1>7. CASE Newest(i) \in Hands
    <2>1. Newest(i) # 0
      BY <1>7, TypeFacts DEF Hands
    <2>2. i \in cut
      BY <1>4, <1>7, <2>1 DEF cut
    <2>3. i \in excused'
      BY <1>2, <2>2
    <2> QED
      BY <2>3 DEF Kept
  <1>8. ASSUME NEW t \in Tasks, i \in task[t].todo, task[t].rev >= Newest(i)
        PROVE  Kept(i)'
    <2>1. i \in Unwritten(task[t].todo, task[t].rev) => i \in excused'
      BY <1>2, <1>3
    <2> QED
      BY <1>1, <1>8, <2>1, DropKeeps
  <1>9. CASE Current(i) \/ i \in excused
    BY <1>1, <1>2, <1>9, SameLog DEF Kept, Current
  <1> QED
    BY <1>5, <1>6, <1>7, <1>8, <1>9 DEF Kept, Owed

LEMMA KeepsUpStep == ImportType /\ KeepsUp /\ [Next]_vars => KeepsUp'
  <1> SUFFICES ASSUME ImportType, [Next]_vars, NEW i \in Items, Kept(i)
               PROVE  Kept(i)'
    BY DEF KeepsUp, Kept
  <1>1. CASE Track \/ Untrack \/ UNCHANGED vars
    <2>1. UNCHANGED <<log, seen, store, buffer, task, excused>>
      BY <1>1 DEF Track, Untrack, vars
    <2>2. Newest(i)' = Newest(i)
      BY <2>1, SameLog
    <2> QED
      BY <2>1, <2>2, KeptStays DEF Owed, Hands, Kept
  <1>2. ASSUME NEW t \in Tasks, TaskStep(t)
        PROVE  Kept(i)'
    <2>1. ASSUME NEW us \in (SUBSET Uris) \ {{}}, ImportSome(t, us) \/ ImportSkips(t, us)
          PROVE  Kept(i)'
      BY <2>1, ImportKeeps
    <2> QED
      BY <1>2, <2>1, FetchKeeps, ImportKeeps DEF TaskStep
  <1>3. ASSUME NEW w \in Workers, WorkerStep(w)
        PROVE  Kept(i)'
    <2>1. w \in Tasks
      BY DEF Tasks
    <2> QED
      BY <1>3, <2>1, FetchKeeps, FinishKeeps, ReplayKeeps DEF WorkerStep
  <1>4. ASSUME NEW c \in Callers, StartCall(c) \/ FinishCall(c)
        PROVE  Kept(i)'
    <2>1. c \in Tasks
      BY DEF Tasks
    <2> QED
      BY <1>4, <2>1, FetchKeeps, FinishKeeps
  <1> QED
    BY <1>1, <1>2, <1>3, <1>4, PublishKeeps, ConnectKeeps, StreamKeeps, RestartKeeps DEF Next

\* However syncs (sync.rs, sync_worker.rs), the stream and the firehose (main.rs,
\* server.rs), requests and restarts interleave, what is stored of an item is what
\* the account has, or its newest event is to come, buffered or in a download, or
\* one of the steps that `excused` names left it behind: among them connections
\* without a cursor, failed writes, and imports and drains that are cut off.
THEOREM ImportKeepsUp == Spec => []KeepsUp
  <1>1. Init => KeepsUp
    <2> SUFFICES ASSUME Init, NEW i \in Items
                 PROVE  Current(i)
      BY DEF KeepsUp
    <2>1. Len(log) = 0 /\ store[i] = 0
      BY EmptySeq DEF Init
    <2>2. Last(i, 0) = 0
      BY LastIsLast
    <2> QED
      BY <2>1, <2>2 DEF Current, Version
  <1>2. ImportType /\ KeepsUp /\ [Next]_vars => ImportType' /\ KeepsUp'
    BY ImportTypeStep, KeepsUpStep
  <1> QED
    BY <1>1, <1>2, ImportTypeInit, PTL DEF Spec
=============================================================================
