-------------------------- MODULE FirehosePipeline --------------------------
(***************************************************************************)
(* The firehose thread of the server and its write buffer                  *)
(* (start_firehose, FirehoseWriteBuffer in src/src/server.rs).  The relay  *)
(* numbers the events of all repositories; the thread reads them in order, *)
(* puts created and updated records into a buffer that is written in       *)
(* batches, deletes at once, and saves now and then the number of the last *)
(* event as the cursor at which the next connection resumes.               *)
(*                                                                         *)
(* The version of a record is the number of the event that wrote it.  An   *)
(* event is one operation on one record.                                   *)
(***************************************************************************)
EXTENDS Naturals, Sequences, FiniteSets, FiniteSetsExt

CONSTANTS
  Uris,        \* the records
  NoUri,       \* the event is about none of them
  MaxEvents,   \* bound: how many events the relay sends
  BatchSize,   \* FIREHOSE_BATCH_SIZE (500)
  SaveEvery,   \* the cursor is saved every so many commits (1000)
  MaxErrors,   \* bound: how often the connection breaks
  MaxDrops,    \* bound: how many batches fail FIREHOSE_MAX_RETRIES times
  MaxStops,    \* bound: how often the server is shut down
  MaxCrashes   \* bound: how often the process dies

ASSUME PipelineAssumption ==
  /\ BatchSize \in Nat \ {0} /\ SaveEvery \in Nat \ {0}
  /\ MaxEvents \in Nat /\ MaxErrors \in Nat /\ MaxDrops \in Nat
  /\ MaxStops \in Nat /\ MaxCrashes \in Nat
  /\ NoUri \notin Uris

\* Commits that create or update, and that delete
RecordKinds == {"put", "delete"}

\* Commits that are filtered out (by mode or collection), identity events,
\* messages of another type, and events that decode_message fails on
OtherKinds == {"filtered", "identity", "unknown", "garbled"}

VARIABLES
  log,      \* the relay: event i is log[i]
  cursor,   \* durable: the saved cursor, 0 if there is none
  stored,   \* durable: the version of each record, 0 if there is none
  running,  \* the flag that a shutdown clears
  thread,   \* the firehose thread
  buffer,   \* FirehoseWriteBuffer.records, by event number
  used,     \* how much of the bounds is used up
  base,     \* history: where the last connection without a cursor started
  lost      \* history: what was in memory at a crash, or in a dropped batch

vars == <<log, cursor, stored, running, thread, buffer, used, base, lost>>

Fresh == [pc |-> "down", pos |-> 0, last_seq |-> 0, event_count |-> 0]

Init ==
  /\ log = << >>
  /\ cursor = 0
  /\ stored = [u \in Uris |-> 0]
  /\ running = TRUE
  /\ thread = Fresh
  /\ buffer = << >>
  /\ used = [errors |-> 0, drops |-> 0, stops |-> 0, crashes |-> 0]
  /\ base = 0
  /\ lost = {}

Goto(pc) == thread' = [thread EXCEPT !.pc = pc]

-----------------------------------------------------------------------------
(* The relay                                                               *)

Emit(u, kind) ==
  /\ Len(log) < MaxEvents
  /\ log' = Append(log, [uri |-> u, kind |-> kind])
  /\ UNCHANGED <<cursor, stored, running, thread, buffer, used, base, lost>>

-----------------------------------------------------------------------------
(* FirehoseWriteBuffer                                                     *)

Buffered == {buffer[i] : i \in 1 .. Len(buffer)}

\* put_batch_with_indexes: the last entry for a record wins
WriteBatch ==
  /\ stored' = [u \in Uris |->
       LET versions == {i \in Buffered : log[i].uri = u}
       IN  IF versions = {} THEN stored[u] ELSE Max(versions)]
  /\ UNCHANGED <<used, lost>>

\* The last retry failed: the records are dropped
DropBatch ==
  /\ used.drops < MaxDrops
  /\ used' = [used EXCEPT !.drops = @ + 1]
  /\ lost' = lost \cup Buffered
  /\ UNCHANGED stored

\* flush
Flush ==
  /\ IF buffer = << >> THEN UNCHANGED <<stored, used, lost>>
                       ELSE WriteBatch \/ DropBatch
  /\ buffer' = << >>

-----------------------------------------------------------------------------
(* start_firehose                                                          *)

\* A connection without a cursor starts with the next event
Connect ==
  /\ thread.pc = "down" /\ running
  /\ LET pos == IF cursor = 0 THEN Len(log) ELSE cursor
     IN  /\ thread' = [pc |-> "loop", pos |-> pos, last_seq |-> cursor, event_count |-> 0]
         /\ base' = IF cursor = 0 THEN pos ELSE base
  /\ UNCHANGED <<log, cursor, stored, running, buffer, used, lost>>

\* Fault: a batch is written only when it is full
FlushDue_OnlyFull ==
  /\ thread.pc = "loop" /\ running /\ Len(buffer) >= BatchSize
  /\ Flush
  /\ UNCHANGED <<log, cursor, running, thread, base>>

\* FIREHOSE_FLUSH_INTERVAL_MS have passed at the head of the loop
FlushDue ==
  /\ thread.pc = "loop" /\ running /\ buffer # << >>
  /\ Flush
  /\ UNCHANGED <<log, cursor, running, thread, base>>

Next_event(kinds) ==
  /\ thread.pc = "loop" /\ running
  /\ thread.pos < Len(log)
  /\ log[thread.pos + 1].kind \in kinds

\* A commit arrives; every SaveEvery-th saves the cursor before it is applied
Commit ==
  LET seq   == thread.pos + 1
      count == thread.event_count + 1
  IN  /\ Next_event(RecordKinds \cup {"filtered"})
      /\ thread' = [pc |-> log[seq].kind, pos |-> seq, last_seq |-> seq,
                    event_count |-> count]
      /\ cursor' = IF count % SaveEvery = 0 THEN seq ELSE cursor
      /\ UNCHANGED <<log, stored, running, buffer, used, base, lost>>

Identity ==
  /\ Next_event({"identity"})
  /\ thread' = [thread EXCEPT !.pos = @ + 1, !.last_seq = thread.pos + 1]
  /\ UNCHANGED <<log, cursor, stored, running, buffer, used, base, lost>>

\* Event::Unknown comes without its number
Unknown ==
  /\ Next_event({"unknown"})
  /\ thread' = [thread EXCEPT !.pos = @ + 1]
  /\ UNCHANGED <<log, cursor, stored, running, buffer, used, base, lost>>

\* Not processed, or in no configured collection
Skip ==
  /\ thread.pc = "filtered"
  /\ Goto("loop")
  /\ UNCHANGED <<log, cursor, stored, running, buffer, used, base, lost>>

\* Operation::Create and Operation::Update
Push ==
  /\ thread.pc = "put"
  /\ buffer' = Append(buffer, thread.last_seq)
  /\ Goto(IF Len(buffer') >= BatchSize THEN "full" ELSE "loop")
  /\ UNCHANGED <<log, cursor, stored, running, used, base, lost>>

FlushFull ==
  /\ thread.pc = "full"
  /\ Flush
  /\ Goto("loop")
  /\ UNCHANGED <<log, cursor, running, base>>

\* Operation::Delete: written at once, past the buffer
Delete ==
  /\ thread.pc = "delete"
  /\ stored' = [stored EXCEPT ![log[thread.last_seq].uri] = 0]
  /\ Goto("loop")
  /\ UNCHANGED <<log, cursor, running, buffer, used, base, lost>>

SaveCursor == cursor' = IF thread.last_seq > 0 THEN thread.last_seq ELSE cursor

\* next_event fails: the cursor is saved, then the loop left
StreamError ==
  /\ thread.pc = "loop" /\ running
  /\ used.errors < MaxErrors
  /\ used' = [used EXCEPT !.errors = @ + 1]
  /\ SaveCursor
  /\ Goto("closing")
  /\ UNCHANGED <<log, stored, running, buffer, base, lost>>

\* next_event fails on what it read, and goes the same way: the cursor stays
\* before that event
Undecodable ==
  /\ Next_event({"garbled"})
  /\ SaveCursor
  /\ Goto("closing")
  /\ UNCHANGED <<log, stored, running, buffer, used, base, lost>>

\* The loop ends because the flag was cleared
LeaveLoop ==
  /\ thread.pc = "loop" /\ ~running
  /\ Goto("closing")
  /\ UNCHANGED <<log, cursor, stored, running, buffer, used, base, lost>>

\* Fault: the buffer goes with the connection
FlushRest_Skipped ==
  /\ thread.pc = "closing"
  /\ buffer' = << >>
  /\ Goto("closed")
  /\ UNCHANGED <<log, cursor, stored, running, used, base, lost>>

\* "Flush any remaining buffered writes before disconnect"
FlushRest ==
  /\ thread.pc = "closing"
  /\ Flush
  /\ Goto("closed")
  /\ UNCHANGED <<log, cursor, running, base>>

\* "Save final cursor on disconnect"
SaveFinal ==
  /\ thread.pc = "closed"
  /\ SaveCursor
  /\ Goto("down")
  /\ UNCHANGED <<log, stored, running, buffer, used, base, lost>>

-----------------------------------------------------------------------------
(* The process                                                             *)

\* The shutdown signal
Stop ==
  /\ running /\ used.stops < MaxStops
  /\ running' = FALSE
  /\ used' = [used EXCEPT !.stops = @ + 1]
  /\ UNCHANGED <<log, cursor, stored, thread, buffer, base, lost>>

\* The thread saw the flag and ended; the server is started again
RestartAfterStop ==
  /\ ~running /\ thread.pc = "down"
  /\ running' = TRUE
  /\ thread' = Fresh
  /\ UNCHANGED <<log, cursor, stored, buffer, used, base, lost>>

InHand == IF thread.pc = "put" THEN {thread.last_seq} ELSE {}

\* The process dies, or is shut down and exits before the thread has ended
\* (nobody joins it); it is started again
Crash ==
  /\ used.crashes < MaxCrashes
  /\ used' = [used EXCEPT !.crashes = @ + 1]
  /\ running' = TRUE
  /\ thread' = Fresh
  /\ buffer' = << >>
  /\ lost' = lost \cup Buffered \cup InHand
  /\ UNCHANGED <<log, cursor, stored, base>>

-----------------------------------------------------------------------------
ThreadStep ==
  \/ Connect \/ Commit \/ Identity \/ Unknown \/ Undecodable
  \/ Skip \/ Push \/ FlushFull \/ Delete \/ LeaveLoop \/ FlushRest \/ SaveFinal

Next ==
  \/ \E u \in Uris, kind \in RecordKinds : Emit(u, kind)
  \/ \E kind \in OtherKinds : Emit(NoUri, kind)
  \/ ThreadStep \/ FlushDue
  \/ StreamError
  \/ Stop \/ RestartAfterStop \/ Crash

Spec == Init /\ [][Next]_vars

\* The thread keeps running, connecting succeeds at last, 100 ms pass, and a
\* stopped server is started again
FairSpec ==
  /\ Spec
  /\ WF_vars(ThreadStep) /\ WF_vars(FlushDue) /\ WF_vars(RestartAfterStop)

-----------------------------------------------------------------------------
(* Properties                                                              *)

\* The events on u, since the last connection that began without a cursor,
\* that the relay has sent up to event n
EventsOn(u, n) ==
  {i \in base + 1 .. n : log[i].uri = u}

\* Event n is the last one on u up to there, and of that kind
LatestIs(kind, u, i, n) ==
  LET on == EventsOn(u, n)
  IN  on # {} /\ i = Max(on) /\ log[i].kind = kind

\* The store has version i of u, or what came after it
Reached(u, i) ==
  \/ stored[u] >= i
  \/ stored[u] = 0 /\ \E j \in i + 1 .. Len(log) : log[j].uri = u /\ log[j].kind = "delete"

\* The only records that the firehose loses are those in a batch whose write
\* failed three times and those that were in memory when the process died:
\* reconnecting, shutting down in good order and resuming from the cursor
\* lose none.
LossesAccounted ==
  \A u \in Uris, i \in 1 .. thread.pos :
    LatestIs("put", u, i, thread.pos) =>
      Reached(u, i) \/ i \in Buffered \cup InHand \cup lost

\* storage.rs: "Delete record with indexes".  With everything received and
\* nothing in the buffer, a record whose last event is a delete is gone.
DeletedRecordsGone ==
  thread.pc = "loop" /\ buffer = << >> =>
    \A u \in Uris, i \in 1 .. thread.pos :
      LatestIs("delete", u, i, thread.pos) => stored[u] = 0

\* An event that does not decode is in front of event i, since the last
\* connection that began without a cursor
Obstructed(i) == \E j \in base + 1 .. i : log[j].kind = "garbled"

\* Every created or updated record is stored in its latest version in the
\* end, although the buffer is not full, the connection breaks and the server
\* is restarted; only what is lost is not, and what comes after an event that
\* does not decode: every connection resumes before that event and ends at it.
EventuallyStored ==
  <>[](\A u \in Uris, i \in 1 .. MaxEvents :
         i <= Len(log) /\ LatestIs("put", u, i, Len(log)) =>
           stored[u] = i \/ i \in lost \/ Obstructed(i))
=============================================================================
