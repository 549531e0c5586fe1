----------------------- MODULE FirehosePipelineProofs -----------------------
(***************************************************************************)
(* What TLAPS proves about FirehosePipeline, for every number of records   *)
(* and events, every size of the batches and every bound: what the         *)
(* firehose loses is what was dropped or what was in memory at a crash.    *)
(***************************************************************************)
EXTENDS FirehosePipeline, Maxima, SequenceTheorems

-----------------------------------------------------------------------------
(* Types, and where the thread stands                                      *)

Labels == {"down", "loop", "put", "delete", "filtered", "full", "closing", "closed"}

EventType == [uri : Uris \cup {NoUri}, kind : RecordKinds \cup OtherKinds]

PipeType ==
  /\ log \in Seq(EventType)
  /\ cursor \in Nat /\ base \in Nat
  /\ stored \in [Uris -> Nat]
  /\ thread \in [pc : Labels, pos : Nat, last_seq : Nat, event_count : Nat]
  /\ buffer \in Seq(Nat)

IsPut(i) == log[i].kind = "put"

\* Nobody is ahead of the relay, nor the saved cursor of a thread that is
\* connected ahead of that thread; the event that is being applied is the last
\* one; and what is in the buffer has arrived
Positions ==
  /\ cursor <= Len(log) /\ base <= Len(log)
  /\ thread.last_seq <= thread.pos /\ thread.pos <= Len(log)
  /\ thread.pc # "down" => cursor <= thread.pos
  /\ thread.pc \in {"put", "delete", "filtered"} =>
       thread.last_seq = thread.pos /\ thread.pos > 0 /\ log[thread.pos].kind = thread.pc
  /\ thread.pc \in {"down", "closed"} => buffer = << >>
  /\ \A b \in Buffered : b \in 1 .. thread.pos /\ IsPut(b)

\* What arrived after something in the buffer is in there too, or about to be:
\* the buffer is written as a whole
InOrder ==
  \A b \in Buffered : \A i \in b .. thread.pos :
    IsPut(i) => i \in Buffered \cup InHand

\* The created and updated versions of u that the relay has sent
Puts(u) == {i \in 1 .. Len(log) : log[i].uri = u /\ IsPut(i)}

\* What has arrived, or need not arrive again
Seen == {i \in base + 1 .. Len(log) : i <= thread.pos \/ i <= cursor}

Safe(u, i) == Reached(u, i) \/ i \in Buffered \cup InHand \cup lost

\* The strengthening of LossesAccounted: it is so of every version and not of
\* the last one only, and in front of the cursor even while nothing is connected
Kept == \A u \in Uris : \A i \in Puts(u) \cap Seen : Safe(u, i)

-----------------------------------------------------------------------------
(* The write buffer                                                        *)

LEMMA BufferedIs ==
  /\ buffer = << >> => Buffered = {}
  /\ buffer \in Seq(Nat) =>
       \A n \in Nat : {Append(buffer, n)[i] : i \in 1 .. Len(Append(buffer, n))}
                       = Buffered \cup {n}
  <1>1. buffer = << >> => Buffered = {}
    BY EmptySeq DEF Buffered
  <1>2. ASSUME buffer \in Seq(Nat), NEW n \in Nat
        PROVE  {Append(buffer, n)[i] : i \in 1 .. Len(Append(buffer, n))} = Buffered \cup {n}
    <2>1. /\ Len(buffer) \in Nat /\ Len(Append(buffer, n)) = Len(buffer) + 1
          /\ \A i \in 1 .. Len(buffer) : Append(buffer, n)[i] = buffer[i]
          /\ Append(buffer, n)[Len(buffer) + 1] = n
      BY <1>2, AppendProperties, LenProperties
    <2> QED
      BY <2>1 DEF Buffered
  <1> QED
    BY <1>1, <1>2

\* The versions of u that are in the buffer
Versions(u) == {i \in Buffered : log[i].uri = u}

\* A flush either drops the buffer, or stores the last version of each record
\* that has one in there
LEMMA FlushEffect ==
  ASSUME PipeType, Positions, Flush
  PROVE  /\ buffer' = << >> /\ stored' \in [Uris -> Nat]
         /\ \/ stored' = stored /\ lost' = lost \cup Buffered
            \/ /\ lost' = lost
               /\ \A u \in Uris :
                    \/ Versions(u) = {} /\ stored'[u] = stored[u]
                    \/ /\ stored'[u] \in Versions(u)
                       /\ \A i \in Versions(u) : i <= stored'[u]
  <1>0. stored \in [Uris -> Nat] /\ thread.pos \in Nat /\ Buffered \subseteq 0 .. thread.pos
    BY DEF PipeType, Positions
  <1>1. CASE buffer = << >>
    BY <1>0, <1>1, BufferedIs DEF Flush, Versions
  <1>2. CASE buffer # << >> /\ DropBatch
    BY <1>0, <1>2 DEF Flush, DropBatch
  <1>3. CASE buffer # << >> /\ WriteBatch
    <2>1. ASSUME NEW u \in Uris
          PROVE  \/ Versions(u) = {} /\ stored'[u] = stored[u]
                 \/ /\ stored'[u] \in Versions(u) /\ stored'[u] \in Nat
                    /\ \A i \in Versions(u) : i <= stored'[u]
      <3>1. stored'[u] = IF Versions(u) = {} THEN stored[u] ELSE Max(Versions(u))
        BY <1>3 DEF WriteBatch, Versions
      <3>2. Versions(u) \subseteq 0 .. thread.pos
        BY <1>0 DEF Versions
      <3> QED
        BY <1>0, <3>1, <3>2, MaxIsMax
    <2>2. stored' \in [Uris -> Nat]
      <3>1. \A u \in Uris : stored'[u] \in Nat
        BY <1>0, <2>1
      <3>2. stored' = [u \in Uris |-> stored'[u]]
        BY <1>3 DEF WriteBatch
      <3> QED
        BY <3>1, <3>2
    <2> QED
      BY <1>3, <2>1, <2>2 DEF Flush, WriteBatch
  <1> QED
    BY <1>1, <1>2, <1>3 DEF Flush

\* What is not in the buffer is not overwritten with something older, since what
\* is in there came later; what is in there is stored or dropped
LEMMA FlushKeeps ==
  ASSUME PipeType, Positions, InOrder, Flush, InHand = {}, log' = log,
         NEW u \in Uris, NEW i \in Puts(u), i <= thread.pos, Safe(u, i)
  PROVE  Reached(u, i)' \/ i \in lost'
  <1>1. CASE stored' = stored /\ lost' = lost \cup Buffered
    BY <1>1 DEF Safe, Reached
  <1>2. CASE i \in lost
    BY <1>2, FlushEffect
  <1>3. CASE i \notin lost /\ lost' = lost /\ Versions(u) = {} /\ stored'[u] = stored[u]
    BY <1>3 DEF Safe, Reached, Versions, Puts
  <1>4. CASE /\ stored'[u] \in Versions(u)
             /\ \A j \in Versions(u) : j <= stored'[u]
    <2>1. stored'[u] >= i
      <3>1. CASE i \in Buffered
        <4>1. i \in Versions(u)
          BY <3>1 DEF Versions, Puts
        <4> QED
          BY <1>4, <4>1
      <3>2. CASE i \notin Buffered
        <4>1. stored'[u] \in Buffered /\ stored'[u] \in Nat /\ thread.pos \in Nat /\ i \in Nat
          BY <1>4, FlushEffect DEF Versions, PipeType, Puts
        <4>2. ~(stored'[u] <= i)
          BY <3>2, <4>1 DEF InOrder, Puts
        <4> QED
          BY <4>1, <4>2
      <3> QED
        BY <3>1, <3>2
    <2> QED
      BY <2>1 DEF Reached
  <1> QED
    BY <1>1, <1>2, <1>3, <1>4, FlushEffect

-----------------------------------------------------------------------------
(* The inductive invariant                                                 *)

PipeInv == PipeType /\ Positions /\ InOrder /\ Kept

LEMMA PipeInit == Init => PipeInv
  <1> SUFFICES ASSUME Init PROVE PipeInv
    OBVIOUS
  <1>1. << >> \in Seq(EventType) /\ << >> \in Seq(Nat) /\ Len(<< >>) = 0
    BY EmptySeq
  <1>2. Buffered = {}
    BY BufferedIs DEF Init
  <1>3. PipeType /\ Positions
    BY <1>1, <1>2 DEF Init, Fresh, PipeType, Positions, Labels
  <1>4. InOrder /\ Kept
    BY <1>1, <1>2 DEF Init, InOrder, Kept, Puts
  <1> QED
    BY <1>3, <1>4 DEF PipeInv

\* The relay sends one more event; the others stay what they are
LEMMA EmitKeeps ==
  ASSUME PipeInv, NEW u \in Uris \cup {NoUri}, NEW kind \in RecordKinds \cup OtherKinds,
         Emit(u, kind)
  PROVE  PipeInv'
  <1>0. PipeType /\ Positions /\ InOrder /\ Kept
    BY DEF PipeInv
  <1>1. /\ log' \in Seq(EventType) /\ Len(log') = Len(log) + 1 /\ Len(log) \in Nat
        /\ \A i \in 1 .. Len(log) : log'[i] = log[i]
        /\ UNCHANGED <<cursor, stored, thread, buffer, base, lost>>
        /\ thread.pos \in Nat /\ cursor \in Nat /\ base \in Nat /\ thread.last_seq \in Nat
    <2>1. [uri |-> u, kind |-> kind] \in EventType
      BY DEF EventType
    <2> QED
      BY <1>0, <2>1, AppendProperties, LenProperties DEF Emit, PipeType
  <1>2. PipeType'
    BY <1>0, <1>1 DEF PipeType
  <1>3. \A i \in 1 .. thread.pos : i \in 1 .. Len(log) /\ (IsPut(i)' <=> IsPut(i))
    BY <1>0, <1>1 DEF IsPut, Positions
  <1>4. Buffered' = Buffered /\ InHand' = InHand /\ \A b \in Buffered : b \in 1 .. thread.pos
    BY <1>0, <1>1 DEF Buffered, InHand, Positions
  <1>5. Positions' /\ InOrder'
    <2>1. thread.pc \in {"put", "delete", "filtered"} => log'[thread.pos] = log[thread.pos]
      BY <1>0, <1>1 DEF Positions
    <2>2. \A b \in Buffered' : b \in 1 .. thread'.pos /\ log'[b].kind = "put"
      BY <1>0, <1>1, <1>3, <1>4 DEF Positions, IsPut
    <2>3. Positions'
      BY <1>0, <1>1, <2>1, <2>2 DEF Positions, IsPut
    <2>4. ASSUME NEW b \in Buffered, NEW i \in b .. thread.pos, log'[i].kind = "put"
          PROVE  i \in Buffered \cup InHand
      BY <1>0, <1>1, <1>3, <1>4, <2>4 DEF InOrder, IsPut
    <2> QED
      BY <1>1, <1>4, <2>3, <2>4 DEF InOrder, IsPut
  <1>6. ASSUME NEW v \in Uris, NEW i \in (Puts(v) \cap Seen)'
        PROVE  Safe(v, i)'
    <2>1. i \in Puts(v) \cap Seen
      BY <1>0, <1>1, <1>6 DEF Puts, Seen, IsPut, Positions
    <2>2. Safe(v, i)
      BY <1>0, <2>1 DEF Kept
    <2>3. Reached(v, i) => Reached(v, i)'
      BY <1>1, <2>1 DEF Reached, Puts
    <2> QED
      BY <1>1, <2>2, <2>3 DEF Safe, Buffered, InHand
  <1> QED
    BY <1>2, <1>5, <1>6 DEF PipeInv, Kept

\* A step that leaves the relay, the store and the base as they are, and under
\* which nothing disappears from memory that is not lost
LEMMA MemoryStays ==
  ASSUME PipeInv, UNCHANGED <<log, stored, base>>,
         Buffered \cup InHand \cup lost \subseteq (Buffered \cup InHand \cup lost)',
         \A i \in Seen' : i \in Seen \/ (IsPut(i) => i \in InHand')
  PROVE  Kept'
  <1>1. ASSUME NEW u \in Uris, NEW i \in (Puts(u) \cap Seen)'
        PROVE  Safe(u, i)'
    <2>1. i \in Puts(u) /\ IsPut(i)
      BY <1>1 DEF Puts, IsPut
    <2>2. i \in Seen => Safe(u, i)
      BY <2>1 DEF PipeInv, Kept
    <2>3. Reached(u, i)' <=> Reached(u, i)
      BY DEF Reached
    <2> QED
      BY <1>1, <2>1, <2>2, <2>3 DEF Safe
  <1> QED
    BY <1>1 DEF Kept

LEMMA InvFacts ==
  ASSUME PipeInv
  PROVE  /\ PipeType /\ Positions /\ InOrder /\ Kept
         /\ log \in Seq(EventType) /\ Len(log) \in Nat
         /\ cursor \in Nat /\ base \in Nat /\ stored \in [Uris -> Nat]
         /\ thread \in [pc : Labels, pos : Nat, last_seq : Nat, event_count : Nat]
         /\ thread.pos \in Nat /\ thread.last_seq \in Nat /\ thread.event_count \in Nat
         /\ thread.pc \in Labels
  BY LenProperties DEF PipeInv, PipeType

\* With a cursor the thread goes back to it; without one, everything up to here
\* is none of its business any more
LEMMA ConnectKeeps ==
  ASSUME PipeInv, Connect
  PROVE  PipeInv'
  <1>0. /\ thread.pc = "down" /\ buffer = << >> /\ Buffered = {}
        /\ UNCHANGED <<log, cursor, stored, buffer, lost>>
    BY BufferedIs, InvFacts DEF Connect, Positions
  <1>1. /\ thread'.pc = "loop" /\ thread'.last_seq = cursor
        /\ thread' \in [pc : Labels, pos : Nat, last_seq : Nat, event_count : Nat]
        /\ \/ cursor # 0 /\ thread'.pos = cursor /\ base' = base
           \/ cursor = 0 /\ thread'.pos = Len(log) /\ base' = Len(log)
    BY InvFacts DEF Connect, Labels
  <1>2. Buffered' = {} /\ InHand = {} /\ InHand' = {}
    BY <1>0, <1>1 DEF Buffered, InHand
  <1>3. PipeType'
    BY <1>0, <1>1, InvFacts DEF PipeType
  <1>4. Positions'
    BY <1>0, <1>1, <1>2, InvFacts DEF Positions
  <1>5. InOrder'
    BY <1>2 DEF InOrder
  <1>6. Kept'
    <2>1. CASE base' = base
      <3>1. Seen' \subseteq Seen
        BY <1>0, <1>1, <2>1, InvFacts DEF Seen
      <3> QED
        BY <1>0, <1>2, <2>1, <3>1, MemoryStays
    <2>2. CASE base' = Len(log)
      <3>1. Seen' = {}
        BY <1>0, <2>2, InvFacts DEF Seen
      <3> QED
        BY <3>1 DEF Kept
    <2> QED
      BY <1>1, <2>1, <2>2
  <1> QED
    BY <1>3, <1>4, <1>5, <1>6 DEF PipeInv

\* The buffer is written
LEMMA FlushesKeep ==
  ASSUME PipeInv, FlushDue \/ FlushFull \/ FlushRest
  PROVE  PipeInv'
  <1>0. /\ Flush /\ UNCHANGED <<log, cursor, base>>
        /\ thread.pc \in {"loop", "full", "closing"} /\ InHand = {}
    BY DEF FlushDue, FlushFull, FlushRest, InHand
  <1>1. /\ thread'.pos = thread.pos /\ thread'.last_seq = thread.last_seq
        /\ thread'.pc \in {"loop", "closed"}
        /\ thread' \in [pc : Labels, pos : Nat, last_seq : Nat, event_count : Nat]
    BY InvFacts DEF FlushDue, FlushFull, FlushRest, Goto, Labels
  <1>2. buffer' = << >> /\ stored' \in [Uris -> Nat] /\ Buffered' = {} /\ InHand' = {}
    BY <1>0, <1>1, InvFacts, FlushEffect, EmptySeq DEF Buffered, InHand
  <1>3. PipeType'
    BY <1>0, <1>1, <1>2, InvFacts, EmptySeq DEF PipeType
  <1>4. Positions'
    BY <1>0, <1>1, <1>2, InvFacts DEF Positions
  <1>5. InOrder'
    BY <1>2 DEF InOrder
  <1>6. Kept'
    <2>1. ASSUME NEW u \in Uris, NEW i \in (Puts(u) \cap Seen)'
          PROVE  Safe(u, i)'
      <3>1. i \in Puts(u) /\ i \in Seen /\ i <= thread.pos
        BY <1>0, <1>1, <2>1, InvFacts DEF Puts, Seen, IsPut, Positions
      <3>2. Safe(u, i)
        BY <3>1, InvFacts DEF Kept
      <3>3. Reached(u, i)' \/ i \in lost'
        BY <1>0, <3>1, <3>2, InvFacts, FlushKeeps
      <3> QED
        BY <3>3 DEF Safe
    <2> QED
      BY <2>1 DEF Kept
  <1> QED
    BY <1>3, <1>4, <1>5, <1>6 DEF PipeInv

\* An event arrives.  A created or updated record is in hand now, everything else
\* has nothing to do with the buffer.
LEMMA ArrivalKeeps ==
  ASSUME PipeInv, Commit \/ Identity \/ Unknown
  PROVE  PipeInv'
  <1>0. /\ thread.pc = "loop" /\ thread.pos < Len(log) /\ InHand = {}
        /\ UNCHANGED <<log, stored, buffer, base, lost>>
    BY DEF Commit, Identity, Unknown, Next_event, InHand
  <1>1. /\ thread'.pos = thread.pos + 1
        /\ thread' \in [pc : Labels, pos : Nat, last_seq : Nat, event_count : Nat]
        /\ thread'.last_seq \in {thread.last_seq, thread.pos + 1}
        /\ cursor' \in {cursor, thread.pos + 1}
        /\ \/ thread'.pc = "loop" /\ ~IsPut(thread.pos + 1)
           \/ /\ thread'.last_seq = thread.pos + 1
              /\ thread'.pc \in {"put", "delete", "filtered"}
              /\ log[thread.pos + 1].kind = thread'.pc
    <2>1. CASE Commit
      <3>1. log[thread.pos + 1].kind \in {"put", "delete", "filtered"}
        BY <2>1 DEF Commit, Next_event, RecordKinds
      <3> QED
        BY <2>1, <3>1, InvFacts DEF Commit, Labels, IsPut
    <2>2. CASE Identity
      <3>1. /\ thread' = [thread EXCEPT !.pos = thread.pos + 1, !.last_seq = thread.pos + 1]
            /\ log[thread.pos + 1].kind = "identity" /\ cursor' = cursor
        BY <2>2, InvFacts DEF Identity, Next_event
      <3>2. /\ thread' \in [pc : Labels, pos : Nat, last_seq : Nat, event_count : Nat]
            /\ thread'.pos = thread.pos + 1 /\ thread'.last_seq = thread.pos + 1
            /\ thread'.pc = thread.pc
        <4>1. \A th \in [pc : Labels, pos : Nat, last_seq : Nat, event_count : Nat], n \in Nat :
                LET next == [th EXCEPT !.pos = n, !.last_seq = n]
                IN  /\ next \in [pc : Labels, pos : Nat, last_seq : Nat, event_count : Nat]
                    /\ next.pos = n /\ next.last_seq = n /\ next.pc = th.pc
          OBVIOUS
        <4>2. /\ thread \in [pc : Labels, pos : Nat, last_seq : Nat, event_count : Nat]
              /\ thread.pos + 1 \in Nat
          BY InvFacts
        <4> QED
          BY <3>1, <4>1, <4>2
      <3> QED
        BY <1>0, <3>1, <3>2 DEF IsPut
    <2>3. CASE Unknown
      <3>1. /\ thread' = [thread EXCEPT !.pos = thread.pos + 1]
            /\ log[thread.pos + 1].kind = "unknown" /\ cursor' = cursor
        BY <2>3, InvFacts DEF Unknown, Next_event
      <3> QED
        BY <1>0, <3>1, InvFacts DEF Labels, IsPut
    <2> QED
      BY <2>1, <2>2, <2>3
  <1>2. Buffered' = Buffered /\ (IsPut(thread.pos + 1) => InHand' = {thread.pos + 1})
    BY <1>0, <1>1 DEF Buffered, InHand, IsPut
  <1>3. PipeType'
    BY <1>0, <1>1, InvFacts DEF PipeType
  <1>4. Positions'
    <2>1. thread'.pc \in {"put", "delete", "filtered"} =>
            thread'.last_seq = thread'.pos /\ log'[thread'.pos].kind = thread'.pc
      BY <1>0, <1>1
    <2>2. \A b \in Buffered' : b \in 1 .. thread'.pos /\ log'[b].kind = "put"
      BY <1>0, <1>1, <1>2, InvFacts DEF Positions, IsPut
    <2>3. /\ cursor' <= thread'.pos /\ thread'.pos <= Len(log) /\ cursor' <= Len(log)
          /\ thread'.last_seq <= thread'.pos /\ thread'.pos > 0
      BY <1>0, <1>1, InvFacts DEF Positions
    <2> QED
      BY <1>0, <1>1, <2>1, <2>2, <2>3, InvFacts DEF Positions, IsPut
  <1>5. InOrder'
    <2>1. ASSUME NEW b \in Buffered, NEW i \in b .. thread.pos + 1, IsPut(i)
          PROVE  i \in Buffered \cup InHand'
      <3>1. b \in 1 .. thread.pos
        BY InvFacts DEF Positions
      <3>2. CASE i = thread.pos + 1
        BY <1>2, <2>1, <3>2
      <3>3. CASE i \in b .. thread.pos
        BY <1>0, <2>1, <3>3, InvFacts DEF InOrder
      <3> QED
        BY <3>1, <3>2, <3>3, InvFacts
    <2> QED
      BY <1>0, <1>1, <1>2, <2>1 DEF InOrder, IsPut
  <1>6. Kept'
    <2>1. \A i \in Seen' : i \in Seen \/ i = thread.pos + 1
      BY <1>0, <1>1, InvFacts DEF Seen
    <2> QED
      BY <1>0, <1>2, <2>1, MemoryStays
  <1> QED
    BY <1>3, <1>4, <1>5, <1>6 DEF PipeInv

LEMMA PushKeeps ==
  ASSUME PipeInv, Push
  PROVE  PipeInv'
  <1>0. /\ thread.pc = "put" /\ UNCHANGED <<log, cursor, stored, base, lost>>
        /\ buffer' = Append(buffer, thread.last_seq) /\ InHand = {thread.pos}
        /\ thread.last_seq = thread.pos /\ thread.pos > 0 /\ IsPut(thread.pos)
    BY InvFacts DEF Push, Positions, InHand, IsPut
  <1>1. /\ thread'.pos = thread.pos /\ thread'.last_seq = thread.last_seq
        /\ thread'.pc \in {"full", "loop"}
        /\ thread' \in [pc : Labels, pos : Nat, last_seq : Nat, event_count : Nat]
    <2>1. \E label \in {"full", "loop"} : thread' = [thread EXCEPT !.pc = label]
      BY DEF Push, Goto
    <2> QED
      BY <2>1, InvFacts DEF Labels
  <1>2. /\ Buffered' = Buffered \cup {thread.pos} /\ InHand' = {}
        /\ buffer' \in Seq(Nat)
    <2>1. buffer \in Seq(Nat)
      BY InvFacts DEF PipeType
    <2>2. buffer' \in Seq(Nat)
      BY <1>0, <2>1, InvFacts, AppendProperties
    <2>3. Buffered' = {Append(buffer, thread.pos)[i] : i \in 1 .. Len(Append(buffer, thread.pos))}
      BY <1>0 DEF Buffered
    <2> QED
      BY <1>1, <2>1, <2>2, <2>3, InvFacts, BufferedIs DEF InHand
  <1>3. PipeType'
    BY <1>0, <1>1, <1>2, InvFacts DEF PipeType
  <1>4. Positions'
    <2>1. \A b \in Buffered' : b \in 1 .. thread'.pos /\ log'[b].kind = "put"
      BY <1>0, <1>1, <1>2, InvFacts DEF Positions, IsPut
    <2> QED
      BY <1>0, <1>1, <2>1, InvFacts DEF Positions, IsPut
  <1>5. InOrder'
    <2>1. ASSUME NEW b \in Buffered \cup {thread.pos}, NEW i \in b .. thread.pos, IsPut(i)
          PROVE  i \in Buffered \cup {thread.pos}
      BY <1>0, <2>1, InvFacts DEF InOrder
    <2> QED
      BY <1>0, <1>1, <1>2, <2>1 DEF InOrder, IsPut
  <1>6. Kept'
    <2>1. Seen' = Seen
      BY <1>0, <1>1 DEF Seen
    <2> QED
      BY <1>0, <1>2, <2>1, MemoryStays
  <1> QED
    BY <1>3, <1>4, <1>5, <1>6 DEF PipeInv

\* A delete takes the stored version away, and is itself what came after it
LEMMA DeleteKeeps ==
  ASSUME PipeInv, Delete
  PROVE  PipeInv'
  <1>0. /\ thread.pc = "delete" /\ UNCHANGED <<log, cursor, buffer, base, lost>>
        /\ stored' = [stored EXCEPT ![log[thread.pos].uri] = 0]
        /\ thread.last_seq = thread.pos /\ thread.pos > 0 /\ InHand = {}
        /\ log[thread.pos].kind = "delete"
    BY InvFacts DEF Delete, Positions, InHand
  <1>1. /\ thread'.pos = thread.pos /\ thread'.last_seq = thread.last_seq
        /\ thread'.pc = "loop"
        /\ thread' \in [pc : Labels, pos : Nat, last_seq : Nat, event_count : Nat]
    BY InvFacts DEF Delete, Goto, Labels
  <1>2. Buffered' = Buffered /\ InHand' = {} /\ stored' \in [Uris -> Nat]
    BY <1>0, <1>1, InvFacts DEF Buffered, InHand
  <1>3. PipeType'
    BY <1>0, <1>1, <1>2, InvFacts DEF PipeType
  <1>4. Positions' /\ InOrder'
    BY <1>0, <1>1, <1>2, InvFacts DEF Positions, InOrder, IsPut
  <1>5. Kept'
    <2>1. ASSUME NEW u \in Uris, NEW i \in (Puts(u) \cap Seen)'
          PROVE  Safe(u, i)'
      <3>1. i \in Puts(u) /\ i \in Seen /\ i <= thread.pos
        BY <1>0, <1>1, <2>1, InvFacts DEF Puts, Seen, IsPut, Positions
      <3>2. Safe(u, i)
        BY <3>1, InvFacts DEF Kept
      <3>3. CASE log[thread.pos].uri = u
        <4>1. i # thread.pos /\ i \in Nat
          BY <1>0, <3>1 DEF Puts, IsPut
        <4>2. thread.pos \in i + 1 .. Len(log) /\ stored'[u] = 0
          BY <1>0, <3>1, <3>3, <4>1, InvFacts DEF Positions
        <4> QED
          BY <1>0, <3>3, <4>2 DEF Safe, Reached
      <3>4. CASE log[thread.pos].uri # u
        <4>1. stored'[u] = stored[u]
          BY <1>0, <3>4, InvFacts
        <4> QED
          BY <1>0, <1>2, <3>2, <4>1 DEF Safe, Reached
      <3> QED
        BY <3>3, <3>4
    <2> QED
      BY <2>1 DEF Kept
  <1> QED
    BY <1>3, <1>4, <1>5 DEF PipeInv

\* The thread goes somewhere else with what it has, and may save the cursor
LEMMA MovesKeep ==
  ASSUME PipeInv, Skip \/ StreamError \/ Undecodable \/ LeaveLoop \/ SaveFinal
  PROVE  PipeInv'
  <1>0. /\ UNCHANGED <<log, stored, buffer, base, lost>>
        /\ thread.pc \in {"filtered", "loop", "closed"}
        /\ \E label \in {"loop", "closing", "down"} :
             /\ thread' = [thread EXCEPT !.pc = label]
             /\ label = "down" => buffer = << >>
        /\ cursor' \in {cursor, thread.last_seq}
    BY InvFacts DEF Skip, StreamError, Undecodable, LeaveLoop, SaveFinal, Next_event, Goto,
                    SaveCursor, Positions
  <1>1. /\ thread'.pos = thread.pos /\ thread'.last_seq = thread.last_seq
        /\ thread'.pc \in {"loop", "closing", "down"}
        /\ thread' \in [pc : Labels, pos : Nat, last_seq : Nat, event_count : Nat]
        /\ thread'.pc = "down" => buffer = << >>
    BY <1>0, InvFacts DEF Labels
  <1>2. Buffered' = Buffered /\ InHand' = {} /\ InHand = {}
    BY <1>0, <1>1 DEF Buffered, InHand
  <1>3. PipeType'
    BY <1>0, <1>1, InvFacts DEF PipeType
  <1>4. cursor' <= Len(log) /\ cursor' <= thread.pos
    BY <1>0, InvFacts DEF Positions
  <1>5. Positions' /\ InOrder'
    BY <1>0, <1>1, <1>2, <1>4, InvFacts DEF Positions, InOrder, IsPut
  <1>6. Kept'
    <2>1. Seen' \subseteq Seen
      BY <1>0, <1>1, <1>4, InvFacts DEF Seen
    <2> QED
      BY <1>0, <1>2, <2>1, MemoryStays
  <1> QED
    BY <1>3, <1>5, <1>6 DEF PipeInv

\* A new process remembers nothing; what is in front of the cursor was stored, or
\* in memory, and that counts as lost now
LEMMA RestartsKeep ==
  ASSUME PipeInv, RestartAfterStop \/ Crash
  PROVE  PipeInv'
  <1>0. /\ UNCHANGED <<log, cursor, stored, base>> /\ thread' = Fresh
        /\ buffer' = << >> /\ Buffered \cup InHand \cup lost \subseteq lost'
    <2>1. CASE Crash
      BY <2>1 DEF Crash
    <2>2. CASE RestartAfterStop
      <3>1. buffer = << >> /\ InHand = {}
        BY <2>2, InvFacts DEF RestartAfterStop, Positions, InHand
      <3> QED
        BY <2>2, <3>1, BufferedIs DEF RestartAfterStop
    <2> QED
      BY <2>1, <2>2
  <1>1. Buffered' = {} /\ InHand' = {}
    BY <1>0, EmptySeq DEF Buffered, InHand, Fresh
  <1>2. PipeType' /\ Positions' /\ InOrder'
    BY <1>0, <1>1, InvFacts, EmptySeq DEF PipeType, Positions, InOrder, Fresh, Labels
  <1>3. Kept'
    <2>1. Seen' \subseteq Seen
      BY <1>0, InvFacts DEF Seen, Fresh
    <2> QED
      BY <1>0, <2>1, MemoryStays
  <1> QED
    BY <1>2, <1>3 DEF PipeInv

\* The only records that the firehose loses are those in a batch whose write
\* failed three times and those that were in memory when the process died.
THEOREM FirehoseAccountsForLosses == Spec => []LossesAccounted
  <1>1. Init => PipeInv
    BY PipeInit
  <1>2. PipeInv /\ [Next]_vars => PipeInv'
    <2> SUFFICES ASSUME PipeInv, [Next]_vars PROVE PipeInv'
      OBVIOUS
    <2>1. CASE \/ \E u \in Uris, kind \in RecordKinds : Emit(u, kind)
               \/ \E kind \in OtherKinds : Emit(NoUri, kind)
      BY <2>1, EmitKeeps
    <2>2. CASE Connect
      BY <2>2, ConnectKeeps
    <2>3. CASE FlushDue \/ FlushFull \/ FlushRest
      BY <2>3, FlushesKeep
    <2>4. CASE Commit \/ Identity \/ Unknown
      BY <2>4, ArrivalKeeps
    <2>5. CASE Push
      BY <2>5, PushKeeps
    <2>6. CASE Delete
      BY <2>6, DeleteKeeps
    <2>7. CASE Skip \/ StreamError \/ Undecodable \/ LeaveLoop \/ SaveFinal
      BY <2>7, MovesKeep
    <2>8. CASE RestartAfterStop \/ Crash
      BY <2>8, RestartsKeep
    <2>9. CASE Stop \/ UNCHANGED vars
      <3>1. UNCHANGED <<log, cursor, stored, thread, buffer, base, lost>>
        BY <2>9 DEF Stop, vars
      <3> QED
        BY <3>1 DEF PipeInv, PipeType, Positions, InOrder, Kept, Seen, Puts, Safe, Reached,
                    Buffered, InHand, IsPut
    <2> QED
      BY <2>1, <2>2, <2>3, <2>4, <2>5, <2>6, <2>7, <2>8, <2>9 DEF Next, ThreadStep
  <1>3. PipeInv => LossesAccounted
    <2> SUFFICES ASSUME PipeInv, NEW u \in Uris, NEW i \in 1 .. thread.pos,
                        LatestIs("put", u, i, thread.pos)
                 PROVE  Safe(u, i)
      BY DEF LossesAccounted, Safe
    <2>1. i \in EventsOn(u, thread.pos) /\ log[i].kind = "put"
      <3>1. EventsOn(u, thread.pos) \subseteq 0 .. thread.pos
        BY InvFacts DEF EventsOn
      <3> QED
        BY <3>1, InvFacts, MaxIsMax DEF LatestIs
    <2>2. i \in Puts(u) \cap Seen
      BY <2>1, InvFacts DEF EventsOn, Puts, Seen, IsPut, Positions
    <2> QED
      BY <2>2, InvFacts DEF Kept
  <1> QED
    BY <1>1, <1>2, <1>3, PTL DEF Spec
=============================================================================
