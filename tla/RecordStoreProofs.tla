------------------------- MODULE RecordStoreProofs -------------------------
(***************************************************************************)
(* What TLAPS proves about RecordStore, for every number of records,       *)
(* values, threads, commands and crashes.                                  *)
(*                                                                         *)
(* RecordsStayIndexed: a record is missing from an index only while a call *)
(* is at work on it, or for one of the reasons that `missed` names.        *)
(*                                                                         *)
(* CountStaysExact, FieldCountStaysCovered: when nothing is at work, the   *)
(* counter of the collection is the number of its records, and no lookup   *)
(* by value reports too few, but for the ways to drift that `drifted`      *)
(* names.  As long as one kind of counter has not drifted, no two calls    *)
(* are at work on one record, so each call and each batch can be counted   *)
(* on its own.                                                             *)
(***************************************************************************)
EXTENDS RecordStore, FiniteSetTheorems, FunctionTheorems, TLAPS

-----------------------------------------------------------------------------
(* Types                                                                   *)

PutLabels == {"putMain", "putTs", "putRev", "incRev", "incCount"}
DeleteLabels == {"delTs", "delRev", "decRev", "delMain", "decCount"}

Maybe == Record \cup {NoRecord}

CallType == [pc : {"idle"} \cup PutLabels \cup DeleteLabels, uri : Uris \cup {NoUri},
             record : Maybe, existed : BOOLEAN, indexed : BOOLEAN]

\* A call that is not idle is at work on one of the records
StoreType ==
  /\ main \in [Uris -> Maybe]
  /\ call \in [Callers -> CallType]
  /\ \A t \in Callers : call[t].pc # "idle" => call[t].uri \in Uris
  /\ \A t \in Callers : call[t].pc \in PutLabels => call[t].record \in Record
  /\ DOMAIN batch = Batchers
  /\ \A b \in Batchers : batch[b].pc = "commit" =>
       \A u \in DOMAIN batch[b].records : u \in Uris /\ batch[b].records[u] \in Record
  /\ indexed \in BOOLEAN

-----------------------------------------------------------------------------
(* The strengthening of RecordsIndexed                                     *)

\* Some call is about to write the timestamp entry of u, or to remove u
TsOnItsWay(u) ==
  \E t \in Callers :
    /\ call[t].uri = u
    /\ \/ call[t].pc = "putTs" /\ call[t].record = main[u]
       \/ call[t].pc \in {"delRev", "decRev", "delMain"}

\* Some call is about to write the entry of u under its value, or to remove u
RevOnItsWay(u) ==
  \E t \in Callers :
    /\ call[t].uri = u
    /\ \/ /\ call[t].pc \in {"putTs", "putRev"}
          /\ call[t].record = main[u] /\ call[t].indexed
       \/ call[t].pc \in {"decRev", "delMain"}

TsFound(u) ==
  HasRecord(u) =>
    TsEntry(u, main[u]) \in ts \/ <<u, "ts">> \in missed \/ TsOnItsWay(u)

RevFound(u) ==
  HasRecord(u) =>
    RevEntries(u, main[u]) \subseteq rev \/ <<u, "rev">> \in missed \/ RevOnItsWay(u)

AllFound == \A u \in Uris : TsFound(u) /\ RevFound(u)

LEMMA AtStep ==
  ASSUME StoreType, NEW t \in Callers, NEW next \in PutLabels \cup DeleteLabels,
         NEW pc \in PutLabels \cup DeleteLabels, At(t, pc, next)
  PROVE  /\ call[t].pc = pc /\ call'[t].pc = next
         /\ call[t].uri \in Uris /\ call'[t].uri = call[t].uri
         /\ call'[t].record = call[t].record /\ call'[t].indexed = call[t].indexed
         /\ call'[t].existed = call[t].existed
         /\ \A w \in Callers \ {t} : call'[w] = call[w]
         /\ call' \in [Callers -> CallType]
  <1>1. /\ call \in [Callers -> CallType] /\ call[t].pc = pc /\ call[t].uri \in Uris
        /\ call' = [call EXCEPT ![t] = [call[t] EXCEPT !.pc = next]]
    BY DEF StoreType, At, PutLabels, DeleteLabels
  <1>2. call[t] \in CallType
    BY <1>1
  <1>3. /\ [call[t] EXCEPT !.pc = next] \in CallType
        /\ [call[t] EXCEPT !.pc = next].pc = next
        /\ [call[t] EXCEPT !.pc = next].uri = call[t].uri
        /\ [call[t] EXCEPT !.pc = next].record = call[t].record
        /\ [call[t] EXCEPT !.pc = next].existed = call[t].existed
        /\ [call[t] EXCEPT !.pc = next].indexed = call[t].indexed
    BY <1>2 DEF CallType
  <1> QED
    BY <1>1, <1>3

LEMMA BeginStep ==
  ASSUME StoreType, NEW t \in Callers, NEW u \in Uris, NEW record \in Maybe,
         NEW pc \in PutLabels \cup DeleteLabels, Begin(t, pc, u, record)
  PROVE  /\ call[t].pc = "idle"
         /\ call'[t].pc = pc /\ call'[t].uri = u /\ call'[t].record = record
         /\ call'[t].existed <=> HasRecord(u)
         /\ \A w \in Callers \ {t} : call'[w] = call[w]
         /\ call' \in [Callers -> CallType]
         /\ UNCHANGED <<main, ts, rev, count, revcount, batch, indexed, missed>>
  <1>1. PICK existed \in BOOLEAN : existed = HasRecord(u)
    BY DEF HasRecord
  <1>2. [pc |-> pc, uri |-> u, record |-> record, existed |-> existed, indexed |-> indexed]
          \in CallType
    BY DEF CallType, StoreType
  <1>3. /\ call[t].pc = "idle"
        /\ call' = [call EXCEPT ![t] = [pc |-> pc, uri |-> u, record |-> record,
                                        existed |-> existed, indexed |-> indexed]]
        /\ UNCHANGED <<main, ts, rev, count, revcount, batch, indexed, missed>>
    BY <1>1 DEF Begin, Keys, env
  <1> QED
    BY <1>1, <1>2, <1>3 DEF StoreType

LEMMA LastStep ==
  ASSUME StoreType, NEW t \in Callers, NEW pc \in PutLabels \cup DeleteLabels, Last(t, pc)
  PROVE  /\ call[t].pc = pc /\ call'[t] = NoCall
         /\ \A w \in Callers \ {t} : call'[w] = call[w]
         /\ call' \in [Callers -> CallType]
  <1>1. NoCall \in CallType
    BY DEF NoCall, CallType, Maybe
  <1> QED
    BY <1>1 DEF Last, StoreType

LEMMA StoreTypeInit == Init => StoreType
  <1>1. NoCall \in CallType /\ NoCall.pc = "idle" /\ NoBatch.pc = "idle"
    BY DEF NoCall, NoBatch, CallType, Maybe
  <1> QED
    BY <1>1 DEF Init, StoreType, Maybe, PutLabels

LEMMA StoreTypeStep == StoreType /\ [Next]_vars => StoreType'
  <1> SUFFICES ASSUME StoreType, [Next]_vars PROVE StoreType'
    OBVIOUS
  <1>0. /\ main \in [Uris -> Maybe] /\ call \in [Callers -> CallType]
        /\ \A t \in Callers : call[t] \in CallType
    BY DEF StoreType
  <1>1. ASSUME NEW t \in Callers, NEW u \in Uris, NEW record \in Record, PutGet(t, u, record)
        PROVE  StoreType'
    <2>1. record \in Maybe /\ "putMain" \in PutLabels \cup DeleteLabels
      BY DEF Maybe, PutLabels
    <2>2. Begin(t, "putMain", u, record)
      BY <1>1 DEF PutGet
    <2>3. /\ call'[t].pc = "putMain" /\ call'[t].uri = u /\ call'[t].record = record
          /\ \A w \in Callers \ {t} : call'[w] = call[w]
          /\ call' \in [Callers -> CallType]
          /\ UNCHANGED <<main, ts, rev, count, revcount, batch, indexed, missed>>
      BY <2>1, <2>2, BeginStep
    <2> QED
      BY <2>3 DEF StoreType
  <1>2. ASSUME NEW t \in Callers, NEW u \in Uris, DeleteGet(t, u)
        PROVE  StoreType'
    <2>1. main[u] \in Maybe
      BY <1>0
    <2>2. PICK pc \in {"delTs", "delMain"} : Begin(t, pc, u, main[u])
      BY <1>2 DEF DeleteGet
    <2>3. pc \in PutLabels \cup DeleteLabels /\ pc \notin PutLabels
      BY DEF DeleteLabels, PutLabels
    <2>4. /\ call'[t].pc = pc /\ call'[t].uri = u
          /\ \A w \in Callers \ {t} : call'[w] = call[w]
          /\ call' \in [Callers -> CallType]
          /\ UNCHANGED <<main, ts, rev, count, revcount, batch, indexed, missed>>
      BY <2>1, <2>2, <2>3, BeginStep
    <2> QED
      BY <2>3, <2>4 DEF StoreType
  \* A step of a call goes on to the next step of that call ...
  <1>3. ASSUME NEW t \in Callers,
               NEW pc \in PutLabels \cup DeleteLabels, NEW next \in PutLabels \cup DeleteLabels,
               At(t, pc, next), next \in PutLabels => pc \in PutLabels,
               main' \in [Uris -> Maybe], UNCHANGED <<batch, indexed>>
        PROVE  StoreType'
    BY <1>3, AtStep DEF StoreType
  \* ... or ends it
  <1>4. ASSUME NEW t \in Callers, IncCount(t) \/ DecCount(t)
        PROVE  StoreType'
    <2>1. /\ Last(t, "incCount") \/ Last(t, "decCount")
          /\ UNCHANGED <<main, batch, indexed>>
      BY <1>4 DEF IncCount, DecCount, env
    <2>2. NoCall.pc = "idle" /\ "idle" \notin PutLabels
          /\ {"incCount", "decCount"} \subseteq PutLabels \cup DeleteLabels
      BY DEF NoCall, PutLabels, DeleteLabels
    <2> QED
      BY <2>1, <2>2, LastStep DEF StoreType
  <1>5. ASSUME NEW t \in Callers, PutMain(t)
        PROVE  StoreType'
    <2>1. call[t].pc \in PutLabels /\ call[t].record \in Maybe
      BY <1>5 DEF PutMain, At, PutLabels, StoreType, Maybe
    <2>2. main' \in [Uris -> Maybe] /\ UNCHANGED <<batch, indexed>>
      BY <1>0, <1>5, <2>1 DEF PutMain, env
    <2> QED
      BY <1>3, <1>5, <2>2 DEF PutMain, PutLabels, DeleteLabels
  <1>6. ASSUME NEW t \in Callers, PutTs(t) \/ PutRev(t) \/ IncRev(t)
        PROVE  StoreType'
    BY <1>0, <1>3, <1>6 DEF PutTs, PutRev, IncRev, PutLabels, DeleteLabels, env
  <1>7. ASSUME NEW t \in Callers, DeleteTs(t) \/ DeleteRev(t) \/ DecRev(t)
        PROVE  StoreType'
    BY <1>0, <1>3, <1>7 DEF DeleteTs, DeleteRev, DecRev, PutLabels, DeleteLabels, env
  <1>8. ASSUME NEW t \in Callers, DeleteMain(t)
        PROVE  StoreType'
    <2>1. main' \in [Uris -> Maybe] /\ UNCHANGED <<batch, indexed>>
      BY <1>0, <1>8 DEF DeleteMain, Maybe, env
    <2> QED
      BY <1>3, <1>8, <2>1 DEF DeleteMain, PutLabels, DeleteLabels
  <1>9. ASSUME NEW b \in Batchers, NEW us \in (SUBSET Uris) \ {{}}, NEW records \in [us -> Record],
               BatchCount(b, records)
        PROVE  StoreType'
    <2>1. \A u \in DOMAIN records : u \in Uris /\ records[u] \in Record
      OBVIOUS
    <2> QED
      BY <1>9, <2>1 DEF BatchCount, StoreType, Keys, env
  <1>10. ASSUME NEW b \in Batchers, BatchCommit(b)
         PROVE  StoreType'
    <2>1. main' = [u \in Uris |-> IF u \in DOMAIN batch[b].records THEN batch[b].records[u] ELSE main[u]]
      BY <1>10 DEF BatchCommit
    <2>2. \A u \in DOMAIN batch[b].records : batch[b].records[u] \in Record
      BY <1>10 DEF BatchCommit, StoreType
    <2>3. main' \in [Uris -> Maybe]
      BY <1>0, <2>1, <2>2 DEF Maybe
    <2>4. NoBatch.pc = "idle"
      BY DEF NoBatch
    <2> QED
      BY <1>10, <2>3, <2>4 DEF BatchCommit, StoreType, env
  <1>11. CASE Crash
    <2>1. NoCall \in CallType /\ NoCall.pc = "idle" /\ NoBatch.pc = "idle" /\ "idle" \notin PutLabels
      BY DEF NoCall, NoBatch, CallType, Maybe, PutLabels
    <2>2. /\ call' = [t \in Callers |-> NoCall] /\ batch' = [b \in Batchers |-> NoBatch]
          /\ UNCHANGED <<main, indexed>>
      BY <1>11 DEF Crash, Keys
    <2> QED
      BY <2>1, <2>2 DEF StoreType
  <1>12. CASE ShellStep \/ Start \/ UNCHANGED vars
    <2>1. UNCHANGED <<main, call, batch>> /\ indexed' \in BOOLEAN
      <3>1. CASE ShellStep
        BY <3>1 DEF ShellStep, Configure, RebuildScan, RebuildIndex, RebuildTs, Rebuilt, RecountRead,
                    RecountWrite, RecountReverseRead, RecountReverseWrite, Recounted, Command, Keys,
                    StoreType
      <3>2. CASE Start \/ UNCHANGED vars
        BY <3>2 DEF Start, StartIndex, StartTs, vars, env, StoreType
      <3> QED
        BY <1>12, <3>1, <3>2
    <2> QED
      BY <2>1 DEF StoreType
  <1> QED
    BY <1>1, <1>2, <1>4, <1>5, <1>6, <1>7, <1>8, <1>9, <1>10, <1>11, <1>12
    DEF Next, PutStep, DeleteStep, BatchStep

\* What a step does to the call t it belongs to, and to no other
Steps(t, pc, next) ==
  /\ call[t].pc = pc /\ call'[t].pc = next
  /\ call[t].uri \in Uris /\ call'[t].uri = call[t].uri
  /\ call'[t].record = call[t].record /\ call'[t].indexed = call[t].indexed
  /\ call'[t].existed = call[t].existed
  /\ \A w \in Callers \ {t} : call'[w] = call[w]

LEMMA CallSteps ==
  ASSUME StoreType, NEW t \in Callers
  PROVE  /\ PutMain(t) => Steps(t, "putMain", "putTs")
         /\ PutTs(t) => Steps(t, "putTs", "putRev")
         /\ PutRev(t) => Steps(t, "putRev", "incRev")
         /\ IncRev(t) => Steps(t, "incRev", "incCount")
         /\ DeleteTs(t) => Steps(t, "delTs", "delRev")
         /\ DeleteRev(t) => Steps(t, "delRev", "decRev")
         /\ DecRev(t) => Steps(t, "decRev", "delMain")
         /\ DeleteMain(t) => Steps(t, "delMain", "decCount")
  <1>1. ASSUME NEW pc \in PutLabels \cup DeleteLabels, NEW next \in PutLabels \cup DeleteLabels,
               At(t, pc, next)
        PROVE  Steps(t, pc, next)
    BY <1>1, AtStep DEF Steps
  <1>2. {"putMain", "putTs", "putRev", "incRev", "incCount", "delTs", "delRev", "decRev",
         "delMain", "decCount"} = PutLabels \cup DeleteLabels
    BY DEF PutLabels, DeleteLabels
  <1> QED
    BY <1>1, <1>2 DEF PutMain, PutTs, PutRev, IncRev, DeleteTs, DeleteRev, DecRev, DeleteMain

\* The steps of a put: once the record is written its entries are on their way,
\* those of any other version are not
LEMMA PutFinds ==
  ASSUME StoreType, AllFound, NEW t \in Callers, NEW u \in Uris,
         PutMain(t) \/ PutTs(t) \/ PutRev(t) \/ IncRev(t)
  PROVE  TsFound(u)' /\ RevFound(u)'
  <1>0. TsFound(u) /\ RevFound(u)
    BY DEF AllFound
  <1>1. CASE PutMain(t)
    <2>1. /\ Steps(t, "putMain", "putTs") /\ ts' = ts /\ rev' = rev
          /\ main' = [main EXCEPT ![call[t].uri] = call[t].record]
          /\ missed' = (missed \ ({call[t].uri} \X {"ts", "rev"})) \cup
                          (IF call[t].indexed THEN {} ELSE {call[t].uri} \X {"rev"})
          /\ main \in [Uris -> Maybe]
      BY <1>1, CallSteps DEF PutMain, Written, StoreType
    <2>2. CASE u = call[t].uri
      <3>1. main'[u] = call'[t].record /\ call'[t].pc = "putTs" /\ call'[t].uri = u
        BY <2>1, <2>2 DEF Steps
      <3>2. call'[t].indexed \/ <<u, "rev">> \in missed'
        BY <2>1, <2>2 DEF Steps
      <3> QED
        BY <3>1, <3>2 DEF TsFound, RevFound, TsOnItsWay, RevOnItsWay
    <2>3. CASE u # call[t].uri
      <3>1. /\ main'[u] = main[u] /\ \A index : <<u, index>> \in missed => <<u, index>> \in missed'
            /\ \A w \in Callers : call[w].uri = u => call'[w] = call[w]
        BY <2>1, <2>3 DEF Steps
      <3> QED
        BY <1>0, <2>1, <3>1 DEF TsFound, RevFound, TsOnItsWay, RevOnItsWay, HasRecord
    <2> QED
      BY <2>2, <2>3
  <1>2. CASE PutTs(t)
    <2>1. /\ Steps(t, "putTs", "putRev") /\ UNCHANGED <<main, rev, missed>>
          /\ ts' = ts \cup {TsEntry(call[t].uri, call[t].record)}
      BY <1>2, CallSteps DEF PutTs
    <2>2. TsOnItsWay(u) => TsOnItsWay(u)' \/ TsEntry(u, main[u]) \in ts'
      BY <2>1 DEF Steps, TsOnItsWay
    <2>3. RevOnItsWay(u) => RevOnItsWay(u)'
      BY <2>1 DEF Steps, RevOnItsWay
    <2> QED
      BY <1>0, <2>1, <2>2, <2>3 DEF TsFound, RevFound, HasRecord
  <1>3. CASE PutRev(t)
    <2>1. /\ Steps(t, "putRev", "incRev") /\ UNCHANGED <<main, ts, missed>>
          /\ rev' = rev \cup IF call[t].indexed THEN RevEntries(call[t].uri, call[t].record) ELSE {}
      BY <1>3, CallSteps DEF PutRev
    <2>2. TsOnItsWay(u) => TsOnItsWay(u)'
      BY <2>1 DEF Steps, TsOnItsWay
    <2>3. RevOnItsWay(u) => RevOnItsWay(u)' \/ RevEntries(u, main[u]) \subseteq rev'
      BY <2>1 DEF Steps, RevOnItsWay
    <2> QED
      BY <1>0, <2>1, <2>2, <2>3 DEF TsFound, RevFound, HasRecord
  <1>4. CASE IncRev(t)
    <2>1. Steps(t, "incRev", "incCount") /\ UNCHANGED <<main, ts, rev, missed>>
      BY <1>4, CallSteps DEF IncRev
    <2>2. (TsOnItsWay(u) => TsOnItsWay(u)') /\ (RevOnItsWay(u) => RevOnItsWay(u)')
      BY <2>1 DEF Steps, TsOnItsWay, RevOnItsWay
    <2> QED
      BY <1>0, <2>1, <2>2 DEF TsFound, RevFound, HasRecord
  <1> QED
    BY <1>1, <1>2, <1>3, <1>4

\* The steps of a delete: from the first entry that it removes until the record
\* goes, the record is on its way out
LEMMA DeleteFinds ==
  ASSUME StoreType, AllFound, NEW t \in Callers, NEW u \in Uris,
         DeleteTs(t) \/ DeleteRev(t) \/ DecRev(t) \/ DeleteMain(t)
  PROVE  TsFound(u)' /\ RevFound(u)'
  <1>0. TsFound(u) /\ RevFound(u)
    BY DEF AllFound
  <1>1. CASE DeleteTs(t)
    <2>1. /\ Steps(t, "delTs", "delRev") /\ UNCHANGED <<main, rev, missed>>
          /\ ts' = ts \ {TsEntry(call[t].uri, call[t].record)}
      BY <1>1, CallSteps DEF DeleteTs
    <2>2. TsOnItsWay(u) => TsOnItsWay(u)'
      BY <2>1 DEF Steps, TsOnItsWay
    <2>3. RevOnItsWay(u) => RevOnItsWay(u)'
      BY <2>1 DEF Steps, RevOnItsWay
    <2>4. TsEntry(u, main[u]) \in ts => TsOnItsWay(u)' \/ TsEntry(u, main[u]) \in ts'
      BY <2>1 DEF Steps, TsOnItsWay, TsEntry
    <2> QED
      BY <1>0, <2>1, <2>2, <2>3, <2>4 DEF TsFound, RevFound, HasRecord
  <1>2. CASE DeleteRev(t)
    <2>1. /\ Steps(t, "delRev", "decRev") /\ UNCHANGED <<main, ts, missed>>
          /\ rev' = rev \ IF call[t].indexed THEN RevEntries(call[t].uri, call[t].record) ELSE {}
      BY <1>2, CallSteps DEF DeleteRev
    <2>2. TsOnItsWay(u) => TsOnItsWay(u)'
      BY <2>1 DEF Steps, TsOnItsWay
    <2>3. RevOnItsWay(u) => RevOnItsWay(u)'
      BY <2>1 DEF Steps, RevOnItsWay
    <2>4. RevEntries(u, main[u]) \subseteq rev
            => RevOnItsWay(u)' \/ RevEntries(u, main[u]) \subseteq rev'
      BY <2>1 DEF Steps, RevOnItsWay, RevEntries
    <2> QED
      BY <1>0, <2>1, <2>2, <2>3, <2>4 DEF TsFound, RevFound, HasRecord
  <1>3. CASE DecRev(t)
    <2>1. Steps(t, "decRev", "delMain") /\ UNCHANGED <<main, ts, rev, missed>>
      BY <1>3, CallSteps DEF DecRev
    <2>2. (TsOnItsWay(u) => TsOnItsWay(u)') /\ (RevOnItsWay(u) => RevOnItsWay(u)')
      BY <2>1 DEF Steps, TsOnItsWay, RevOnItsWay
    <2> QED
      BY <1>0, <2>1, <2>2 DEF TsFound, RevFound, HasRecord
  <1>4. CASE DeleteMain(t)
    <2>1. /\ Steps(t, "delMain", "decCount") /\ UNCHANGED <<ts, rev, missed>>
          /\ main' = [main EXCEPT ![call[t].uri] = NoRecord] /\ main \in [Uris -> Maybe]
      BY <1>4, CallSteps DEF DeleteMain, StoreType
    <2>2. CASE u = call[t].uri
      BY <2>1, <2>2 DEF TsFound, RevFound, HasRecord
    <2>3. CASE u # call[t].uri
      <3>1. main'[u] = main[u] /\ \A w \in Callers : call[w].uri = u => call'[w] = call[w]
        BY <2>1, <2>3 DEF Steps
      <3> QED
        BY <1>0, <2>1, <3>1 DEF TsFound, RevFound, TsOnItsWay, RevOnItsWay, HasRecord
    <2> QED
      BY <2>2, <2>3
  <1> QED
    BY <1>1, <1>2, <1>3, <1>4

\* Beginning and ending a call, and collecting a batch, changes nothing
LEMMA CallsFind ==
  ASSUME StoreType, AllFound, NEW t \in Callers, NEW u \in Uris,
         \/ \E v \in Uris, record \in Record : PutGet(t, v, record)
         \/ \E v \in Uris : DeleteGet(t, v)
         \/ IncCount(t) \/ DecCount(t)
  PROVE  TsFound(u)' /\ RevFound(u)'
  <1>1. /\ call[t].pc \in {"idle", "incCount", "decCount"}
        /\ \A w \in Callers \ {t} : call'[w] = call[w]
        /\ UNCHANGED <<main, ts, rev, missed>>
    BY DEF PutGet, DeleteGet, Begin, Keys, IncCount, DecCount, Last, StoreType
  <1>2. (TsOnItsWay(u) => TsOnItsWay(u)') /\ (RevOnItsWay(u) => RevOnItsWay(u)')
    BY <1>1 DEF TsOnItsWay, RevOnItsWay
  <1> QED
    BY <1>1, <1>2 DEF AllFound, TsFound, RevFound, HasRecord

\* A batch writes a record together with its entries
LEMMA BatchFinds ==
  ASSUME StoreType, AllFound, NEW b \in Batchers, NEW u \in Uris, BatchCommit(b)
  PROVE  TsFound(u)' /\ RevFound(u)'
  <1> DEFINE records == batch[b].records
             new     == DOMAIN records
  <1>1. /\ main' = [v \in Uris |-> IF v \in new THEN records[v] ELSE main[v]]
        /\ ts' = ts \cup {TsEntry(v, records[v]) : v \in new}
        /\ rev' = rev \cup UNION {{e \in RevEntries(v, records[v]) : indexed} : v \in new}
        /\ missed' = (missed \ (new \X {"ts", "rev"})) \cup
                        (IF indexed THEN {} ELSE new \X {"rev"})
        /\ call' = call
    BY DEF BatchCommit, Written
  <1> HIDE DEF records, new
  <1>2. CASE u \in new
    <2>1. main'[u] = records[u]
      BY <1>1, <1>2
    <2>2. TsEntry(u, main'[u]) \in ts'
      BY <1>1, <1>2, <2>1
    <2>3. RevEntries(u, main'[u]) \subseteq rev' \/ <<u, "rev">> \in missed'
      BY <1>1, <1>2, <2>1
    <2> QED
      BY <2>2, <2>3 DEF TsFound, RevFound, TsEntry, RevEntries
  <1>3. CASE u \notin new
    <2>1. /\ main'[u] = main[u] /\ ts \subseteq ts' /\ rev \subseteq rev'
          /\ \A index : <<u, index>> \in missed => <<u, index>> \in missed'
      BY <1>1, <1>3
    <2> QED
      BY <1>1, <2>1 DEF AllFound, TsFound, RevFound, TsOnItsWay, RevOnItsWay, HasRecord,
                        TsEntry, RevEntries
  <1> QED
    BY <1>2, <1>3

\* What a command has written of a record that it took away from the missed ones
\* is the entry of the record as it is stored
LEMMA CommandsFind ==
  ASSUME StoreType, AllFound, NEW u \in Uris, ShellStep
  PROVE  TsFound(u)' /\ RevFound(u)'
  <1>0. TsFound(u) /\ RevFound(u)
    BY DEF AllFound
  <1>1. ASSUME UNCHANGED <<main, ts, rev, call, missed>>
        PROVE  TsFound(u)' /\ RevFound(u)'
    BY <1>0, <1>1 DEF TsFound, RevFound, TsOnItsWay, RevOnItsWay, HasRecord
  <1>2. ASSUME NEW v \in Uris, RebuildIndex(v)
        PROVE  TsFound(u)' /\ RevFound(u)'
    <2>1. /\ UNCHANGED <<main, ts, call>> /\ rev' = rev \cup RevEntries(v, shell.read[v])
          /\ missed' = IF main[v] = shell.read[v] THEN missed \ {<<v, "rev">>} ELSE missed
      BY <1>2 DEF RebuildIndex, Rebuilt
    <2>2. <<u, "ts">> \in missed => <<u, "ts">> \in missed'
      BY <2>1
    <2>3. <<u, "rev">> \in missed => <<u, "rev">> \in missed' \/ RevEntries(u, main[u]) \subseteq rev'
      BY <2>1
    <2> QED
      BY <1>0, <2>1, <2>2, <2>3 DEF TsFound, RevFound, TsOnItsWay, RevOnItsWay, HasRecord
  <1>3. ASSUME NEW v \in Uris, RebuildTs(v)
        PROVE  TsFound(u)' /\ RevFound(u)'
    <2>1. /\ UNCHANGED <<main, rev, call>> /\ ts' = ts \cup {TsEntry(v, shell.read[v])}
          /\ missed' = IF main[v] = shell.read[v] THEN missed \ {<<v, "ts">>} ELSE missed
      BY <1>3 DEF RebuildTs, Rebuilt
    <2>2. <<u, "rev">> \in missed => <<u, "rev">> \in missed'
      BY <2>1
    <2>3. <<u, "ts">> \in missed => <<u, "ts">> \in missed' \/ TsEntry(u, main[u]) \in ts'
      BY <2>1
    <2> QED
      BY <1>0, <2>1, <2>2, <2>3 DEF TsFound, RevFound, TsOnItsWay, RevOnItsWay, HasRecord
  <1> QED
    BY <1>1, <1>2, <1>3 DEF ShellStep, Configure, RebuildScan, RecountRead, RecountReverseRead,
                            Command, Keys, RecountWrite, RecountReverseWrite, Recounted

\* What a crash left half written is missed, and so is what a build at the start
\* does not come to
LEMMA RestartFinds ==
  ASSUME StoreType, AllFound, NEW u \in Uris, Crash \/ Start
  PROVE  TsFound(u)' /\ RevFound(u)'
  <1>0. TsFound(u) /\ RevFound(u)
    BY DEF AllFound
  <1>1. CASE Crash
    <2>1. /\ UNCHANGED <<main, ts, rev>>
          /\ missed' = missed \cup (({call[t].uri : t \in Callers} \ {NoUri}) \X {"ts", "rev"})
      BY <1>1 DEF Crash, Keys
    <2>2. TsOnItsWay(u) \/ RevOnItsWay(u) => u \in {call[t].uri : t \in Callers} \ {NoUri}
      BY RecordStoreAssumption DEF TsOnItsWay, RevOnItsWay
    <2>3. TsOnItsWay(u) \/ RevOnItsWay(u) => <<u, "ts">> \in missed' /\ <<u, "rev">> \in missed'
      BY <2>1, <2>2
    <2> QED
      BY <1>0, <2>1, <2>3 DEF TsFound, RevFound, HasRecord
  <1>2. ASSUME NEW us \in SUBSET Uris, StartTs(us)
        PROVE  TsFound(u)' /\ RevFound(u)'
    <2>1. UNCHANGED <<main, rev, call>>
      BY <1>2 DEF StartTs
    <2>2. CASE ts = {}
      <3>1. /\ ts' = {TsEntry(v, main[v]) : v \in us}
            /\ missed' = (missed \ (us \X {"ts"})) \cup ((Present \ us) \X {"ts"})
        BY <1>2, <2>2 DEF StartTs, Built
      <3>2. HasRecord(u) => TsEntry(u, main[u]) \in ts' \/ <<u, "ts">> \in missed'
        BY <3>1 DEF Present
      <3>3. <<u, "rev">> \in missed => <<u, "rev">> \in missed'
        BY <3>1
      <3> QED
        BY <1>0, <2>1, <3>2, <3>3 DEF TsFound, RevFound, RevOnItsWay, HasRecord
    <2>3. CASE ts # {}
      BY <1>0, <1>2, <2>1, <2>3
      DEF StartTs, TsFound, RevFound, TsOnItsWay, RevOnItsWay, HasRecord
    <2> QED
      BY <2>2, <2>3
  <1>3. ASSUME NEW us \in SUBSET Uris, NEW named \in BOOLEAN, StartIndex(named, us)
        PROVE  TsFound(u)' /\ RevFound(u)'
    <2>1. UNCHANGED <<main, ts, call>>
      BY <1>3 DEF StartIndex
    <2>2. CASE named /\ rev = {}
      <3>1. /\ rev' = UNION {RevEntries(v, main[v]) : v \in us}
            /\ missed' = (missed \ (us \X {"rev"})) \cup ((Present \ us) \X {"rev"})
        BY <1>3, <2>2 DEF StartIndex, Built
      <3>2. HasRecord(u) => RevEntries(u, main[u]) \subseteq rev' \/ <<u, "rev">> \in missed'
        BY <3>1 DEF Present
      <3>3. <<u, "ts">> \in missed => <<u, "ts">> \in missed'
        BY <3>1
      <3> QED
        BY <1>0, <2>1, <3>2, <3>3 DEF TsFound, RevFound, TsOnItsWay, HasRecord
    <2>3. CASE ~(named /\ rev = {})
      BY <1>0, <1>3, <2>1, <2>3
      DEF StartIndex, TsFound, RevFound, TsOnItsWay, RevOnItsWay, HasRecord
    <2> QED
      BY <2>2, <2>3
  <1> QED
    BY <1>1, <1>2, <1>3 DEF Start

LEMMA FoundStep == StoreType /\ AllFound /\ [Next]_vars => AllFound'
  <1> SUFFICES ASSUME StoreType, AllFound, [Next]_vars, NEW u \in Uris
               PROVE  TsFound(u)' /\ RevFound(u)'
    BY DEF AllFound
  <1>1. ASSUME NEW t \in Callers, PutStep(t) \/ DeleteStep(t)
        PROVE  TsFound(u)' /\ RevFound(u)'
    BY <1>1, CallsFind, PutFinds, DeleteFinds DEF PutStep, DeleteStep
  <1>2. CASE \/ UNCHANGED vars
             \/ \E b \in Batchers, us \in (SUBSET Uris) \ {{}} :
                  \E records \in [us -> Record] : BatchCount(b, records)
    <2>1. UNCHANGED <<main, ts, rev, call, missed>>
      BY <1>2 DEF BatchCount, Keys, vars
    <2> QED
      BY <2>1 DEF AllFound, TsFound, RevFound, TsOnItsWay, RevOnItsWay, HasRecord
  <1> QED
    BY <1>1, <1>2, BatchFinds, CommandsFind, RestartFinds DEF Next, BatchStep

\* A record that nobody is writing can be found through both indexes, unless it
\* was half written at a crash, written while the configuration did not name the
\* index, or not come to by a build at the start.
THEOREM RecordsStayIndexed == Spec => []RecordsIndexed
  <1>1. Init => StoreType /\ AllFound
    BY StoreTypeInit DEF Init, AllFound, TsFound, RevFound, HasRecord
  <1>2. StoreType /\ AllFound /\ [Next]_vars => (StoreType /\ AllFound)'
    BY StoreTypeStep, FoundStep
  <1>3. StoreType /\ AllFound => RecordsIndexed
    BY DEF AllFound, TsFound, RevFound, TsOnItsWay, RevOnItsWay, RecordsIndexed, Quiet
  <1> QED
    BY <1>1, <1>2, <1>3, PTL DEF Spec

-----------------------------------------------------------------------------
(* The counters: the strengthening of CountExact and FieldCountCovers      *)

Busy(t) == call[t].pc # "idle"

Committing(b) == batch[b].pc = "commit"

\* Nobody else is at work on a record that a call or a batch is at work on, and
\* what a call or a batch saw of its record is still so
Alone ==
  /\ \A t, w \in Callers : t # w /\ Busy(t) /\ Busy(w) => call[t].uri # call[w].uri
  /\ \A t \in Callers, b \in Batchers :
       Busy(t) /\ Committing(b) => call[t].uri \notin DOMAIN batch[b].records
  /\ \A b, c \in Batchers : b # c /\ Committing(b) /\ Committing(c) =>
       DOMAIN batch[b].records \cap DOMAIN batch[c].records = {}
  /\ \A b \in Batchers : Committing(b) =>
       \A u \in DOMAIN batch[b].records : ~ HasRecord(u)

Putting == {"putTs", "putRev", "incRev", "incCount"}
Deleting == {"delTs", "delRev", "decRev"}

Knows(t) ==
  /\ call[t].pc \in {"putMain", "delMain"} => (call[t].existed <=> HasRecord(call[t].uri))
  /\ call[t].pc \in Putting => main[call[t].uri] = call[t].record
  /\ call[t].pc \in Deleting =>
       call[t].existed /\ HasRecord(call[t].uri) /\ main[call[t].uri] = call[t].record
  /\ call[t].pc = "decCount" => ~ HasRecord(call[t].uri)

\* This holds as long as one of the counters is right
Apart == ~ (Counters \subseteq drifted) => Alone /\ \A t \in Callers : Knows(t)

\* What the counter of the collection counts: a record that a put has written is
\* counted at the end of the call, and so is one that a delete has removed
IsAdded(u) == \E t \in Callers :
  call[t].uri = u /\ call[t].pc \in Putting /\ ~ call[t].existed
IsRemoved(u) == \E t \in Callers :
  call[t].uri = u /\ call[t].pc = "decCount" /\ call[t].existed

Counted == {u \in Uris : (HasRecord(u) /\ ~ IsAdded(u)) \/ IsRemoved(u)}

CountsAll == "count" \notin drifted => count = Cardinality(Counted)

\* What the counter of a value counts at least: the records with the value, but
\* for those whose put has not counted them yet and whose delete no longer does
Uncertain(u) == \E t \in Callers :
  call[t].uri = u /\ call[t].pc \in {"putTs", "putRev", "incRev", "delMain"}

CountedBy(v) == {u \in HoldsValue(v) : ~ Uncertain(u)}

Enough(v) == revcount[v] >= Cardinality(CountedBy(v))

\* The puts that have yet to count a value will do so
WillCount == \A t \in Callers :
  call[t].pc \in {"putTs", "putRev", "incRev"} => call[t].indexed

CountsValues ==
  "revcount" \notin drifted => WillCount /\ \A v \in Values : Enough(v)

\* The shell's command: no batch is put together meanwhile, and if no call was
\* made since it began then none is at work and what it has read is still so
ShellKnows ==
  /\ DOMAIN shell = {"pc", "read", "since"}
  /\ calls \in Nat /\ shell.since \in Nat /\ shell.since <= calls
  /\ shell.pc # "idle" => process = "up" /\ \A b \in Batchers : ~ Committing(b)
  /\ process # "up" =>
       (\A t \in Callers : ~ Busy(t)) /\ (\A b \in Batchers : ~ Committing(b))
  /\ shell.pc \in {"recount", "recountRev"} /\ shell.since = calls => calls > 0 /\ AllQuiet
  /\ shell.pc = "recount" /\ shell.since = calls => shell.read = Cardinality(ts)
  /\ shell.pc = "recountRev" /\ shell.since = calls =>
       shell.read = [v \in Values |-> Cardinality(EntriesOf(v))]

\* The entries are about records, and so is what a command rebuilds
EntriesType ==
  /\ \A e \in ts : e[2] \in Uris
  /\ rev \subseteq Values \X Uris
  /\ shell.pc \in {"ts", "rev"} => \A u \in DOMAIN shell.read : shell.read[u] \in Record

\* A command of the shell does not change the configuration under a batch
CountersType ==
  /\ revcount \in [Values -> Nat]
  /\ \A b \in Batchers : Committing(b) => \A u \in DOMAIN batch[b].records :
       indexed /\ batch[b].records[u].value \in Values =>
         batch[b].read.revcount[batch[b].records[u].value] \in Nat
  /\ shell.pc = "recountRev" => shell.read \in [Values -> Nat]

-----------------------------------------------------------------------------
(* What the steps of a call change                                         *)

\* Call t, which is at work on the record d, goes from one step to another or ends
Moves(t, d, pc, next) ==
  /\ call[t].pc = pc /\ pc # "idle" /\ call[t].uri = d /\ d \in Uris
  /\ call'[t].pc = next
  /\ next # "idle" =>
       /\ call'[t].uri = d /\ call'[t].record = call[t].record
       /\ call'[t].existed = call[t].existed /\ call'[t].indexed = call[t].indexed
  /\ \A w \in Callers \ {t} : call'[w] = call[w]

LEMMA CallMoves ==
  ASSUME StoreType, NEW t \in Callers, NEW d, d = call[t].uri
  PROVE  /\ PutMain(t) => Moves(t, d, "putMain", "putTs")
         /\ PutTs(t) => Moves(t, d, "putTs", "putRev")
         /\ PutRev(t) => Moves(t, d, "putRev", "incRev")
         /\ IncRev(t) => Moves(t, d, "incRev", "incCount")
         /\ IncCount(t) => Moves(t, d, "incCount", "idle")
         /\ DeleteTs(t) => Moves(t, d, "delTs", "delRev")
         /\ DeleteRev(t) => Moves(t, d, "delRev", "decRev")
         /\ DecRev(t) => Moves(t, d, "decRev", "delMain")
         /\ DeleteMain(t) => Moves(t, d, "delMain", "decCount")
         /\ DecCount(t) => Moves(t, d, "decCount", "idle")
  <1>1. ASSUME NEW pc, NEW next, pc # "idle", Steps(t, pc, next)
        PROVE  Moves(t, d, pc, next)
    BY <1>1 DEF Steps, Moves
  <1>2. ASSUME NEW pc \in {"incCount", "decCount"}, Last(t, pc)
        PROVE  Moves(t, d, pc, "idle")
    <2>1. pc \in PutLabels \cup DeleteLabels /\ pc # "idle"
      BY DEF PutLabels, DeleteLabels
    <2>2. /\ call[t].pc = pc /\ call'[t] = NoCall
          /\ \A w \in Callers \ {t} : call'[w] = call[w]
      BY <1>2, <2>1, LastStep
    <2>3. call[t].uri \in Uris
      BY <2>1, <2>2 DEF StoreType
    <2> QED
      BY <2>1, <2>2, <2>3 DEF Moves, NoCall
  <1> QED
    BY <1>1, <1>2, CallSteps DEF IncCount, DecCount

\* A step of a call that is under way
CallStep(t) ==
  \/ PutMain(t) \/ PutTs(t) \/ PutRev(t) \/ IncRev(t) \/ IncCount(t)
  \/ DeleteTs(t) \/ DeleteRev(t) \/ DecRev(t) \/ DeleteMain(t) \/ DecCount(t)

LEMMA CallStepFrame ==
  ASSUME StoreType, NEW t \in Callers, CallStep(t)
  PROVE  /\ UNCHANGED <<batch, indexed, process, shell, calls>>
         /\ Busy(t) /\ call[t].uri \in Uris /\ drifted \subseteq drifted'
         /\ \A w \in Callers \ {t} : call'[w] = call[w]
         /\ \E pc, next : Moves(t, call[t].uri, pc, next)
  <1>1. /\ UNCHANGED <<batch, indexed, process, shell, calls>> /\ drifted \subseteq drifted'
    BY DEF CallStep, PutMain, PutTs, PutRev, IncRev, IncCount, DeleteTs, DeleteRev, DecRev,
           DeleteMain, DecCount, env
  <1>2. \E pc, next : Moves(t, call[t].uri, pc, next)
    BY CallMoves DEF CallStep
  <1> QED
    BY <1>1, <1>2 DEF Moves, Busy

\* A call begins: it is at work on a record u, and nothing else changes
Begins(t, u, pc, record) ==
  /\ call[t].pc = "idle" /\ u \in Uris
  /\ pc \in {"putMain", "delTs", "delMain"}
  /\ pc # "putMain" => record = main[u] /\ (HasRecord(u) <=> pc = "delTs")
  /\ call'[t].pc = pc /\ call'[t].uri = u /\ call'[t].record = record
  /\ call'[t].existed <=> HasRecord(u)
  /\ \A w \in Callers \ {t} : call'[w] = call[w]
  /\ UNCHANGED <<main, ts, rev, count, revcount, batch, indexed, missed, process, shell>>
  /\ Call({u}, FALSE)

LEMMA CallBegins ==
  ASSUME StoreType, NEW t \in Callers, NEW u \in Uris
  PROVE  /\ \A record \in Record : PutGet(t, u, record) => Begins(t, u, "putMain", record)
         /\ DeleteGet(t, u) => \E pc \in {"delTs", "delMain"} : Begins(t, u, pc, main[u])
  <1>1. ASSUME NEW record \in Maybe, NEW pc \in {"putMain", "delTs", "delMain"},
               pc # "putMain" => record = main[u] /\ (HasRecord(u) <=> pc = "delTs"),
               Begin(t, pc, u, record)
        PROVE  Begins(t, u, pc, record)
    <2>1. pc \in PutLabels \cup DeleteLabels
      BY DEF PutLabels, DeleteLabels
    <2>2. UNCHANGED <<process, shell>> /\ Call({u}, FALSE)
      BY <1>1 DEF Begin, env
    <2> QED
      BY <1>1, <2>1, <2>2, BeginStep DEF Begins
  <1>2. Record \subseteq Maybe /\ main[u] \in Maybe
    BY DEF Maybe, StoreType
  <1>3. ASSUME NEW record \in Record, PutGet(t, u, record)
        PROVE  Begins(t, u, "putMain", record)
    BY <1>1, <1>2, <1>3 DEF PutGet
  <1>4. ASSUME DeleteGet(t, u)
        PROVE  \E pc \in {"delTs", "delMain"} : Begins(t, u, pc, main[u])
    <2>1. CASE HasRecord(u)
      <3>1. Begin(t, "delTs", u, main[u])
        BY <1>4, <2>1 DEF DeleteGet, HasRecord
      <3>2. Begins(t, u, "delTs", main[u])
        BY <1>1, <1>2, <2>1, <3>1
      <3> QED
        BY <3>2
    <2>2. CASE ~ HasRecord(u)
      <3>1. Begin(t, "delMain", u, main[u])
        BY <1>4, <2>2 DEF DeleteGet, HasRecord
      <3>2. Begins(t, u, "delMain", main[u])
        BY <1>1, <1>2, <2>2, <3>1
      <3> QED
        BY <3>2
    <2> QED
      BY <2>1, <2>2
  <1> QED
    BY <1>3, <1>4

\* The steps, sorted by what they do to the calls
LEMMA StepKinds ==
  ASSUME StoreType, Next
  PROVE  \/ \E t \in Callers : CallStep(t)
         \/ \E t \in Callers, u \in Uris : \E pc, record : Begins(t, u, pc, record)
         \/ \E b \in Batchers : BatchCommit(b)
         \/ \E b \in Batchers, us \in (SUBSET Uris) \ {{}} :
               \E records \in [us -> Record] : BatchCount(b, records)
         \/ ShellStep \/ Crash \/ Start
  <1>1. ASSUME NEW t \in Callers, PutStep(t) \/ DeleteStep(t)
        PROVE  CallStep(t) \/ \E u \in Uris : \E pc, record : Begins(t, u, pc, record)
    BY <1>1, CallBegins DEF PutStep, DeleteStep, CallStep
  <1> QED
    BY <1>1 DEF Next, BatchStep

-----------------------------------------------------------------------------
(* What a command of the shell knows                                       *)

LEMMA BusyIsLoud ==
  ASSUME StoreType, AllQuiet, NEW t \in Callers
  PROVE  ~ Busy(t)
  BY DEF StoreType, AllQuiet, Quiet, Busy

LEMMA CommandKnows ==
  ASSUME StoreType, ShellKnows, NEW pc, NEW read, Command(pc, read),
         pc = "recount" => read = Cardinality(ts),
         pc = "recountRev" => read = [v \in Values |-> Cardinality(EntriesOf(v))]
  PROVE  ShellKnows'
  <1>1. /\ process = "up" /\ \A b \in Batchers : batch[b].pc = "idle"
        /\ calls' = calls + 1 /\ calls \in Nat
        /\ shell' = [pc |-> pc, read |-> read, since |-> IF AllQuiet THEN calls' ELSE 0]
        /\ UNCHANGED <<ts, rev, call, batch, process>>
    BY DEF Command, Ask, Call, Keys, ShellKnows
  <1>2. /\ DOMAIN shell' = {"pc", "read", "since"} /\ shell'.pc = pc /\ shell'.read = read
        /\ shell'.since = IF AllQuiet THEN calls' ELSE 0
    BY <1>1
  <1>3. AllQuiet' <=> AllQuiet
    BY <1>1 DEF AllQuiet, Quiet
  <1>4. \A v \in Values : EntriesOf(v)' = EntriesOf(v)
    BY <1>1 DEF EntriesOf
  <1>5. shell'.since \in Nat /\ shell'.since <= calls' /\ calls' \in Nat /\ calls' > 0
    BY <1>1, <1>2
  <1>6. shell'.since = calls' => AllQuiet
    BY <1>1, <1>2
  <1>7. \A b \in Batchers : ~ Committing(b)'
    BY <1>1 DEF Committing
  <1>8. pc = "recountRev" => read = [v \in Values |-> Cardinality(EntriesOf(v)')]
    BY <1>4
  <1> QED
    BY <1>1, <1>2, <1>3, <1>5, <1>6, <1>7, <1>8 DEF ShellKnows

LEMMA ShellKnowsStep == StoreType /\ ShellKnows /\ [Next]_vars => ShellKnows'
  <1> SUFFICES ASSUME StoreType, ShellKnows, [Next]_vars PROVE ShellKnows'
    OBVIOUS
  <1>0. /\ calls \in Nat /\ shell.since \in Nat /\ shell.since <= calls
        /\ DOMAIN batch = Batchers /\ NoBatch.pc = "idle"
        /\ NoCommand.pc = "idle" /\ NoCommand.since = 0
        /\ DOMAIN NoCommand = {"pc", "read", "since"}
    BY DEF ShellKnows, StoreType, NoBatch, NoCommand
  <1>1. ASSUME NEW t \in Callers, CallStep(t)
        PROVE  ShellKnows'
    <2>1. /\ UNCHANGED <<batch, process, shell, calls>> /\ Busy(t)
      BY <1>1, CallStepFrame
    <2>2. process = "up" /\ ~ (shell.pc \in {"recount", "recountRev"} /\ shell.since = calls)
      BY <2>1, BusyIsLoud DEF ShellKnows
    <2> QED
      BY <2>1, <2>2 DEF ShellKnows, Committing
  <1>2. ASSUME NEW t \in Callers, NEW u \in Uris, NEW pc, NEW record, Begins(t, u, pc, record)
        PROVE  ShellKnows'
    <2>1. /\ UNCHANGED <<batch, process, shell>> /\ process = "up" /\ calls' = calls + 1
      BY <1>2 DEF Begins, Call
    <2> QED
      BY <1>0, <2>1 DEF ShellKnows, Committing
  <1>3. ASSUME NEW b \in Batchers, BatchCommit(b)
        PROVE  ShellKnows'
    <2>1. /\ UNCHANGED <<call, process, shell, calls>> /\ Committing(b)
          /\ \A c \in Batchers : Committing(c)' => Committing(c)
      BY <1>0, <1>3 DEF BatchCommit, env, Committing
    <2>2. shell.pc = "idle" /\ process = "up"
      BY <2>1 DEF ShellKnows
    <2> QED
      BY <2>1, <2>2 DEF ShellKnows
  <1>4. ASSUME NEW b \in Batchers, NEW us \in (SUBSET Uris) \ {{}}, NEW records \in [us -> Record],
               BatchCount(b, records)
        PROVE  ShellKnows'
    <2>1. /\ UNCHANGED <<process, shell>> /\ process = "up" /\ shell.pc = "idle"
          /\ calls' = calls + 1
      BY <1>4 DEF BatchCount, env, Call
    <2> QED
      BY <1>0, <2>1 DEF ShellKnows
  <1>5. CASE ShellStep
    <2>1. ASSUME NEW named \in BOOLEAN, Configure(named)
          PROVE  ShellKnows'
      <3>1. /\ UNCHANGED <<batch, process, shell>> /\ process = "up" /\ shell.pc = "idle"
            /\ calls' = calls + 1
        BY <2>1 DEF Configure, Ask, Call, Keys
      <3> QED
        BY <1>0, <3>1 DEF ShellKnows
    <2>2. ASSUME NEW index \in {"ts", "rev"}, RebuildScan(index)
          PROVE  ShellKnows'
      BY <2>2, CommandKnows DEF RebuildScan
    <2>3. ASSUME NEW u \in Uris, NEW index \in {"ts", "rev"}, Rebuilt(u, index)
          PROVE  ShellKnows'
      <3>1. /\ shell.pc = index /\ UNCHANGED <<call, batch, process, calls>>
            /\ shell' \in {NoCommand, [shell EXCEPT !.read = Remaining(u)]}
        BY <2>3 DEF Rebuilt
      <3>2. /\ DOMAIN shell' = {"pc", "read", "since"} /\ shell'.pc \in {"idle", "ts", "rev"}
            /\ shell'.since \in {0, shell.since}
        BY <1>0, <3>1 DEF ShellKnows
      <3>3. process = "up" /\ \A b \in Batchers : ~ Committing(b)
        BY <3>1 DEF ShellKnows
      <3> QED
        BY <1>0, <3>1, <3>2, <3>3 DEF ShellKnows, Committing
    <2>4. CASE RecountRead \/ RecountReverseRead
      BY <2>4, CommandKnows DEF RecountRead, RecountReverseRead
    <2>5. CASE RecountWrite \/ RecountReverseWrite
      <3>1. shell' = NoCommand /\ UNCHANGED <<call, batch, process, calls>>
        BY <2>5 DEF RecountWrite, RecountReverseWrite, Recounted
      <3> QED
        BY <1>0, <3>1 DEF ShellKnows, Busy, Committing
    <2> QED
      BY <1>5, <2>1, <2>2, <2>3, <2>4, <2>5 DEF ShellStep, RebuildIndex, RebuildTs
  <1>6. CASE Crash
    <2>1. /\ shell' = NoCommand /\ calls' = calls /\ process' = "down"
          /\ call' = [t \in Callers |-> NoCall] /\ batch' = [b \in Batchers |-> NoBatch]
      BY <1>6 DEF Crash
    <2> QED
      BY <1>0, <2>1 DEF ShellKnows, Busy, Committing, NoCall
  <1>7. CASE Start
    <2>1. process # "up" /\ UNCHANGED <<call, batch, shell, calls>>
      BY <1>7 DEF Start, StartTs, StartIndex
    <2>2. shell.pc = "idle"
      BY <2>1 DEF ShellKnows
    <2> QED
      BY <2>1, <2>2 DEF ShellKnows, Busy, Committing
  <1>8. CASE UNCHANGED vars
    <2>1. UNCHANGED <<ts, rev, call, batch, process, shell, calls>>
      BY <1>8 DEF vars, env
    <2> QED
      BY <2>1 DEF ShellKnows, Busy, Committing, AllQuiet, Quiet, EntriesOf
  <1> QED
    BY <1>1, <1>2, <1>3, <1>4, <1>5, <1>6, <1>7, <1>8, StepKinds

LEMMA PresentRecords ==
  ASSUME StoreType, NEW u \in Present
  PROVE  u \in Uris /\ main[u] \in Record
  BY DEF Present, HasRecord, StoreType, Maybe

\* The command of the shell, and what it has read, after a step
LEMMA CommandReads ==
  ASSUME StoreType, ShellKnows, ShellStep \/ Crash
  PROVE  \/ shell' = shell \/ shell' = NoCommand
         \/ /\ shell'.pc \in {"ts", "rev"} /\ shell'.read = [u \in Present |-> main[u]]
         \/ /\ shell'.pc = shell.pc /\ shell.pc \in {"ts", "rev"}
            /\ \E u \in Uris : shell'.read = Remaining(u)
         \/ shell'.pc = "recount"
         \/ shell'.pc = "recountRev" /\ shell'.read = [v \in Values |-> Cardinality(EntriesOf(v))]
  <1>1. ASSUME NEW pc, NEW read, Command(pc, read)
        PROVE  shell'.pc = pc /\ shell'.read = read
    BY <1>1 DEF Command
  <1>2. ASSUME NEW index \in {"ts", "rev"}, RebuildScan(index)
        PROVE  shell'.pc \in {"ts", "rev"} /\ shell'.read = [u \in Present |-> main[u]]
    BY <1>1, <1>2 DEF RebuildScan
  <1>3. CASE RecountRead
    BY <1>1, <1>3 DEF RecountRead
  <1>4. CASE RecountReverseRead
    BY <1>1, <1>4 DEF RecountReverseRead
  <1>5. ASSUME NEW u \in Uris, NEW index \in {"ts", "rev"}, Rebuilt(u, index), shell' # NoCommand
        PROVE  shell'.pc = shell.pc /\ shell.pc \in {"ts", "rev"} /\ shell'.read = Remaining(u)
    <2>1. shell.pc = index /\ shell' = [shell EXCEPT !.read = Remaining(u)]
      BY <1>5 DEF Rebuilt
    <2> QED
      BY <2>1 DEF ShellKnows
  <1>6. ASSUME Crash \/ RecountWrite \/ RecountReverseWrite
        PROVE  shell' = NoCommand
    BY <1>6 DEF Crash, RecountWrite, RecountReverseWrite, Recounted
  <1>7. ASSUME NEW named, Configure(named)
        PROVE  shell' = shell
    BY <1>7 DEF Configure
  <1> QED
    BY <1>2, <1>3, <1>4, <1>5, <1>6, <1>7 DEF ShellStep, RebuildIndex, RebuildTs

LEMMA EntriesTypeStep == StoreType /\ ShellKnows /\ EntriesType /\ [Next]_vars => EntriesType'
  <1> SUFFICES ASSUME StoreType, ShellKnows, EntriesType, [Next]_vars PROVE EntriesType'
    OBVIOUS
  <1> DEFINE EntriesOK == /\ \A e \in ts' : e[2] \in Uris
                          /\ rev' \subseteq Values \X Uris
  <1>0. \A u \in Uris, record \in Record :
          /\ TsEntry(u, record)[2] \in Uris /\ RevEntries(u, record) \subseteq Values \X Uris
    BY DEF TsEntry, RevEntries, Record
  <1>1. ASSUME NEW t \in Callers, CallStep(t)
        PROVE  EntriesOK /\ shell' = shell
    <2>1. CASE PutTs(t) \/ PutRev(t)
      <3>1. call[t].uri \in Uris /\ call[t].record \in Record
        BY <2>1 DEF PutTs, PutRev, At, StoreType, PutLabels
      <3>2. /\ ts' \subseteq ts \cup {TsEntry(call[t].uri, call[t].record)}
            /\ rev' \subseteq rev \cup RevEntries(call[t].uri, call[t].record)
        BY <2>1 DEF PutTs, PutRev
      <3> QED
        BY <1>0, <1>1, <3>1, <3>2, CallStepFrame DEF EntriesType
    <2>2. CASE ~ (PutTs(t) \/ PutRev(t))
      <3>1. ts' \subseteq ts /\ rev' \subseteq rev
        BY <1>1, <2>2 DEF CallStep, PutMain, IncRev, IncCount, DeleteTs, DeleteRev, DecRev,
                          DeleteMain, DecCount
      <3> QED
        BY <1>1, <3>1, CallStepFrame DEF EntriesType
    <2> QED
      BY <2>1, <2>2
  <1>2. ASSUME NEW b \in Batchers, BatchCommit(b)
        PROVE  EntriesOK /\ shell' = shell
    <2> DEFINE records == batch[b].records
               new     == DOMAIN records
    <2>1. /\ ts' = ts \cup {TsEntry(u, records[u]) : u \in new}
          /\ rev' = rev \cup UNION {{e \in RevEntries(u, records[u]) : indexed} : u \in new}
          /\ shell' = shell
      BY <1>2 DEF BatchCommit, env
    <2>2. \A u \in new : u \in Uris /\ records[u] \in Record
      BY <1>2 DEF BatchCommit, StoreType
    <2> HIDE DEF records, new
    <2>3. \A u \in new : /\ TsEntry(u, records[u])[2] \in Uris
                         /\ RevEntries(u, records[u]) \subseteq Values \X Uris
      BY <1>0, <2>2
    <2> QED
      BY <2>1, <2>3 DEF EntriesType
  <1>3. CASE ShellStep \/ Crash
    <2>1. ASSUME NEW u \in Uris, RebuildIndex(u)
          PROVE  EntriesOK
      <3>1. shell.read[u] \in Record
        BY <2>1 DEF RebuildIndex, Rebuilt, EntriesType
      <3> QED
        BY <1>0, <2>1, <3>1 DEF RebuildIndex, EntriesType
    <2>2. ASSUME NEW u \in Uris, RebuildTs(u)
          PROVE  EntriesOK
      <3>1. shell.read[u] \in Record
        BY <2>2 DEF RebuildTs, Rebuilt, EntriesType
      <3> QED
        BY <1>0, <2>2, <3>1 DEF RebuildTs, EntriesType
    <2>3. ASSUME UNCHANGED <<ts, rev>>
          PROVE  EntriesOK
      BY <2>3 DEF EntriesType
    <2>4. EntriesOK
      BY <1>3, <2>1, <2>2, <2>3
      DEF ShellStep, Crash, Configure, RebuildScan, RecountRead, RecountReverseRead, Command, Keys,
          RecountWrite, RecountReverseWrite, Recounted
    <2>5. shell'.pc \in {"ts", "rev"} => \A u \in DOMAIN shell'.read : shell'.read[u] \in Record
      <3>1. CASE shell' = shell \/ shell' = NoCommand
        BY <3>1 DEF EntriesType, NoCommand
      <3>2. CASE shell'.read = [u \in Present |-> main[u]]
        BY <3>2, PresentRecords
      <3>3. ASSUME NEW u \in Uris, shell'.read = Remaining(u), shell.pc \in {"ts", "rev"}
            PROVE  \A w \in DOMAIN shell'.read : shell'.read[w] \in Record
        BY <3>3 DEF Remaining, EntriesType
      <3> QED
        BY <1>3, <3>1, <3>2, <3>3, CommandReads
    <2> QED
      BY <2>4, <2>5 DEF EntriesType
  <1>4. CASE Start
    <2>1. shell' = shell
      BY <1>4 DEF Start, StartTs, StartIndex
    <2>2. ASSUME NEW us \in SUBSET Uris, StartTs(us)
          PROVE  EntriesOK
      BY <2>2 DEF StartTs, TsEntry, EntriesType
    <2>3. ASSUME NEW us \in SUBSET Uris, NEW named, StartIndex(named, us)
          PROVE  EntriesOK
      <3>1. ts' = ts /\ (rev' = rev \/ (us \subseteq Present /\ rev' = UNION {RevEntries(u, main[u]) : u \in us}))
        BY <2>3 DEF StartIndex, Built
      <3>2. us \subseteq Present => \A u \in us : RevEntries(u, main[u]) \subseteq Values \X Uris
        BY <1>0, PresentRecords
      <3> QED
        BY <3>1, <3>2 DEF EntriesType
    <2> QED
      BY <1>4, <2>1, <2>2, <2>3 DEF Start, EntriesType
  <1>5. CASE UNCHANGED vars
    BY <1>5 DEF vars, env, EntriesType
  <1>6. ASSUME NEW t \in Callers, NEW u \in Uris, NEW pc, NEW record, Begins(t, u, pc, record)
        PROVE  EntriesOK /\ shell' = shell
    BY <1>6 DEF Begins, EntriesType
  <1>7. ASSUME NEW b \in Batchers, NEW records, BatchCount(b, records)
        PROVE  EntriesOK /\ shell' = shell
    BY <1>7 DEF BatchCount, Keys, env, EntriesType
  <1>8. EntriesOK /\ shell' = shell => EntriesType'
    BY DEF EntriesType
  <1> HIDE DEF EntriesOK
  <1> QED
    BY <1>1, <1>2, <1>3, <1>4, <1>5, <1>6, <1>7, <1>8, StepKinds

LEMMA FiniteParts ==
  ASSUME EntriesType, NEW us \in SUBSET Uris, NEW v
  PROVE  /\ IsFiniteSet(us) /\ Cardinality(us) \in Nat
         /\ IsFiniteSet(EntriesOf(v)) /\ Cardinality(EntriesOf(v)) \in Nat
  <1>1. IsFiniteSet(us) /\ IsFiniteSet({v} \X Uris)
    BY RecordStoreAssumption, FS_Subset, FS_Product, FS_Singleton
  <1>2. EntriesOf(v) \in SUBSET ({v} \X Uris)
    BY DEF EntriesOf, EntriesType
  <1>3. IsFiniteSet(EntriesOf(v))
    BY <1>1, <1>2, FS_Subset
  <1> QED
    BY <1>1, <1>3, FS_CardinalityType

LEMMA ValuesOfThese ==
  ASSUME NEW records, NEW v \in Values
  PROVE  v \in ValuesOf(records) <=> indexed /\ \E u \in DOMAIN records : records[u].value = v
  BY DEF ValuesOf

LEMMA CountersTypeStep ==
  StoreType /\ ShellKnows /\ EntriesType /\ CountersType /\ [Next]_vars => CountersType'
  <1> SUFFICES ASSUME StoreType, ShellKnows, EntriesType, CountersType, [Next]_vars
               PROVE  CountersType'
    OBVIOUS
  <1>0. /\ revcount \in [Values -> Nat] /\ DOMAIN batch = Batchers /\ NoBatch.pc = "idle"
        /\ NoCommand.pc = "idle"
    BY DEF CountersType, StoreType, NoBatch, NoCommand
  <1>1. ASSUME NEW t \in Callers, CallStep(t)
        PROVE  CountersType'
    <2>1. revcount' \in [Values -> Nat]
      <3>1. CASE IncRev(t) \/ DecRev(t)
        BY <1>0, <3>1 DEF IncRev, DecRev, Pred
      <3>2. CASE ~ (IncRev(t) \/ DecRev(t))
        BY <1>0, <1>1, <3>2 DEF CallStep, PutMain, PutTs, PutRev, IncCount, DeleteTs, DeleteRev,
                                DeleteMain, DecCount
      <3> QED
        BY <3>1, <3>2
    <2>2. UNCHANGED <<batch, indexed, shell>>
      BY <1>1, CallStepFrame
    <2> QED
      BY <2>1, <2>2 DEF CountersType, Committing
  <1>2. ASSUME NEW t \in Callers, NEW u \in Uris, NEW pc, NEW record, Begins(t, u, pc, record)
        PROVE  CountersType'
    BY <1>2 DEF Begins, CountersType, Committing
  <1>3. ASSUME NEW b \in Batchers, BatchCommit(b)
        PROVE  CountersType'
    <2> DEFINE records == batch[b].records
    <2>1. /\ records = batch[b].records /\ Committing(b) /\ UNCHANGED <<indexed, shell>>
          /\ revcount' = [v \in Values |->
               IF v \in ValuesOf(records)
               THEN batch[b].read.revcount[v] + Cardinality(WithValue(records, v))
               ELSE revcount[v]]
          /\ batch' = [batch EXCEPT ![b] = NoBatch]
      BY <1>3 DEF BatchCommit, Committing, env
    <2> HIDE DEF records
    <2>2. \A v \in Values : Cardinality(WithValue(records, v)) \in Nat
      <3>1. \A v \in Values : WithValue(records, v) \in SUBSET Uris
        BY <2>1 DEF WithValue, Committing, StoreType
      <3> QED
        BY <3>1, FiniteParts
    <2>3. \A v \in ValuesOf(records) \cap Values : batch[b].read.revcount[v] \in Nat
      BY <2>1, ValuesOfThese DEF CountersType
    <2>4. revcount' \in [Values -> Nat]
      BY <1>0, <2>1, <2>2, <2>3
    <2>5. \A c \in Batchers : Committing(c)' => Committing(c) /\ batch'[c] = batch[c]
      BY <1>0, <2>1 DEF Committing
    <2> QED
      BY <2>1, <2>4, <2>5 DEF CountersType
  <1>4. ASSUME NEW b \in Batchers, NEW us \in (SUBSET Uris) \ {{}}, NEW records \in [us -> Record],
               BatchCount(b, records)
        PROVE  CountersType'
    <2>1. /\ batch' = [batch EXCEPT ![b] =
               [pc |-> "commit", records |-> records, read |-> CountersOf(records)]]
          /\ UNCHANGED <<revcount, indexed, shell>>
      BY <1>4 DEF BatchCount, Keys, env
    <2>2. /\ batch'[b].records = records /\ batch'[b].read.revcount = [v \in ValuesOf(records) |-> revcount[v]]
          /\ \A c \in Batchers \ {b} : batch'[c] = batch[c]
      BY <1>0, <2>1 DEF CountersOf
    <2>3. \A u \in DOMAIN records : indexed /\ records[u].value \in Values =>
            batch'[b].read.revcount[records[u].value] \in Nat
      BY <1>0, <2>2, ValuesOfThese
    <2>4. \A c \in Batchers \ {b} : Committing(c)' => Committing(c)
      BY <2>2 DEF Committing
    <2> QED
      BY <2>1, <2>2, <2>3, <2>4 DEF CountersType
  <1>5. CASE ShellStep \/ Crash
    <2>1. revcount' \in [Values -> Nat]
      <3>1. ASSUME NEW u \in Uris, RebuildIndex(u)
            PROVE  revcount' \in [Values -> Nat]
        BY <1>0, <3>1 DEF RebuildIndex
      <3>2. CASE RecountReverseWrite
        BY <1>0, <3>2 DEF RecountReverseWrite, Recounted, CountersType
      <3> QED
        BY <1>0, <1>5, <3>1, <3>2
        DEF ShellStep, Crash, Configure, RebuildScan, RecountRead, RecountReverseRead, Command, Keys,
            RecountWrite, RebuildTs
    <2>2. \A b \in Batchers : Committing(b)' => Committing(b) /\ UNCHANGED <<batch, indexed>>
      <3>1. CASE Crash
        BY <3>1 DEF Crash, NoBatch, Committing
      <3>2. ASSUME NEW named, Configure(named), NEW b \in Batchers
            PROVE  ~ Committing(b)'
        BY <3>2 DEF Configure, Ask, Committing
      <3>3. CASE UNCHANGED <<batch, indexed>>
        BY <3>3 DEF Committing
      <3> QED
        BY <1>5, <3>1, <3>2, <3>3
        DEF ShellStep, RebuildScan, RebuildIndex, RebuildTs, RecountRead, RecountReverseRead, Command,
            Rebuilt, RecountWrite, RecountReverseWrite, Recounted
    <2>3. shell'.pc = "recountRev" => shell'.read \in [Values -> Nat]
      <3>1. [v \in Values |-> Cardinality(EntriesOf(v))] \in [Values -> Nat]
        BY FiniteParts
      <3> QED
        BY <1>0, <1>5, <3>1, CommandReads DEF CountersType
    <2> QED
      BY <2>1, <2>2, <2>3 DEF CountersType
  <1>6. CASE Start
    <2>1. process # "up" /\ UNCHANGED <<batch, shell>>
      BY <1>6 DEF Start, StartTs, StartIndex
    <2>2. shell.pc = "idle" /\ \A b \in Batchers : ~ Committing(b) /\ ~ Committing(b)'
      BY <2>1 DEF ShellKnows, Committing
    <2>3. ASSUME NEW us \in SUBSET Uris, NEW named, StartIndex(named, us)
          PROVE  revcount' \in [Values -> Nat]
      <3> DEFINE found(v) == Cardinality({u \in us : main[u].value = v})
      <3>1. \A v \in Values : found(v) \in Nat
        <4>1. \A v \in Values : {u \in us : main[u].value = v} \in SUBSET Uris
          OBVIOUS
        <4> QED
          BY <4>1, FiniteParts
      <3>2. revcount' = revcount \/ revcount' = [v \in Values |-> revcount[v] + found(v)]
        BY <2>3 DEF StartIndex
      <3> HIDE DEF found
      <3> QED
        BY <1>0, <3>1, <3>2
    <2>4. revcount' \in [Values -> Nat]
      BY <1>0, <1>6, <2>3 DEF Start, StartTs
    <2> QED
      BY <2>1, <2>2, <2>4 DEF CountersType
  <1>7. CASE UNCHANGED vars
    BY <1>7 DEF vars, env, CountersType, Committing
  <1> QED
    BY <1>1, <1>2, <1>3, <1>4, <1>5, <1>6, <1>7, StepKinds

-----------------------------------------------------------------------------
(* Calls that work on different records                                    *)

\* As long as one of the counters is right, nobody else is at work on the record
\* of a call
LEMMA ApartCall ==
  ASSUME StoreType, Alone, \A w \in Callers : Knows(w),
         NEW t \in Callers, NEW d, NEW pc, NEW next, Moves(t, d, pc, next), batch' = batch,
         \A u \in Uris \ {d} : main'[u] = main[u], Knows(t)'
  PROVE  Alone' /\ \A w \in Callers : Knows(w)'
  <1>1. /\ call[t].uri = d /\ d \in Uris /\ Busy(t) /\ (Busy(t)' => call'[t].uri = d)
        /\ \A w \in Callers \ {t} : call'[w] = call[w]
        /\ \A w \in Callers \ {t} : Busy(w) => call[w].uri \in Uris \ {d}
        /\ \A b \in Batchers : Committing(b) =>
             \A u \in DOMAIN batch[b].records : u \in Uris \ {d}
    BY DEF Moves, Busy, Alone, StoreType, Committing
  <1>2. \A w, v \in Callers : w # v /\ Busy(w)' /\ Busy(v)' => call'[w].uri # call'[v].uri
    BY <1>1 DEF Alone, Busy
  <1>3. \A w \in Callers, b \in Batchers :
          Busy(w)' /\ Committing(b) => call'[w].uri \notin DOMAIN batch[b].records
    BY <1>1 DEF Alone, Busy
  <1>4. \A b \in Batchers : Committing(b) =>
          \A u \in DOMAIN batch[b].records : main'[u] = NoRecord
    BY <1>1 DEF Alone, HasRecord
  <1>5. Alone'
    BY <1>2, <1>3, <1>4 DEF Alone, Committing, HasRecord
  <1>6. ASSUME NEW w \in Callers \ {t}
        PROVE  Knows(w)'
    <2>1. CASE Busy(w)
      <3>1. call'[w] = call[w] /\ main'[call[w].uri] = main[call[w].uri] /\ Knows(w)
        BY <1>1, <2>1
      <3> QED
        BY <3>1 DEF Knows, HasRecord
    <2>2. CASE ~ Busy(w)
      BY <1>1, <2>2 DEF Busy, Knows, Putting, Deleting
    <2> QED
      BY <2>1, <2>2
  <1> QED
    BY <1>5, <1>6

LEMMA CallStepApart ==
  ASSUME StoreType, Alone, \A w \in Callers : Knows(w), NEW t \in Callers, CallStep(t)
  PROVE  Alone' /\ \A w \in Callers : Knows(w)'
  <1>0. /\ batch' = batch /\ Knows(t) /\ main \in [Uris -> Maybe]
    BY CallStepFrame DEF StoreType
  <1>1. PICK e : e = call[t].uri
    OBVIOUS
  <1>2. ASSUME UNCHANGED main,
               \/ PutTs(t) \/ PutRev(t) \/ IncRev(t) \/ IncCount(t)
               \/ DeleteTs(t) \/ DeleteRev(t) \/ DecRev(t) \/ DecCount(t)
        PROVE  Knows(t)'
    <2>1. CASE PutTs(t) \/ PutRev(t) \/ IncRev(t)
      BY <1>0, <1>1, <1>2, <2>1, CallMoves DEF Moves, Knows, Putting, Deleting
    <2>2. CASE DeleteTs(t) \/ DeleteRev(t) \/ DecRev(t)
      BY <1>0, <1>1, <1>2, <2>2, CallMoves DEF Moves, Knows, Putting, Deleting, HasRecord
    <2>3. CASE IncCount(t) \/ DecCount(t)
      BY <1>1, <2>3, CallMoves DEF Moves, Knows, Putting, Deleting
    <2> QED
      BY <1>2, <2>1, <2>2, <2>3
  <1>3. CASE PutMain(t)
    <2>1. Moves(t, e, "putMain", "putTs") /\ main' = [main EXCEPT ![e] = call[t].record]
      BY <1>1, <1>3, CallMoves DEF PutMain
    <2>2. Knows(t)' /\ \A u \in Uris \ {e} : main'[u] = main[u]
      BY <1>0, <1>1, <2>1 DEF Moves, Knows, Putting, Deleting
    <2> QED
      BY <1>0, <2>1, <2>2, ApartCall
  <1>4. CASE DeleteMain(t)
    <2>1. Moves(t, e, "delMain", "decCount") /\ main' = [main EXCEPT ![e] = NoRecord]
      BY <1>1, <1>4, CallMoves DEF DeleteMain
    <2>2. Knows(t)' /\ \A u \in Uris \ {e} : main'[u] = main[u]
      BY <1>0, <1>1, <2>1 DEF Moves, Knows, Putting, Deleting, HasRecord
    <2> QED
      BY <1>0, <2>1, <2>2, ApartCall
  <1>5. CASE ~ (PutMain(t) \/ DeleteMain(t))
    <2>1. UNCHANGED main
      BY <1>5 DEF CallStep, PutTs, PutRev, IncRev, IncCount, DeleteTs, DeleteRev, DecRev, DecCount
    <2>2. Knows(t)'
      BY <1>2, <1>5, <2>1 DEF CallStep
    <2>3. PICK pc, next : Moves(t, e, pc, next)
      BY <1>1, CallStepFrame
    <2> QED
      BY <1>0, <2>1, <2>2, <2>3, ApartCall
  <1> QED
    BY <1>3, <1>4, <1>5

LEMMA BeginApart ==
  ASSUME StoreType, Alone, \A w \in Callers : Knows(w), NEW t \in Callers,
         NEW u \in Uris, NEW pc, NEW record, Begins(t, u, pc, record), Quiet(u)
  PROVE  Alone' /\ \A w \in Callers : Knows(w)'
  <1>1. /\ call'[t].pc = pc /\ call'[t].uri = u /\ call'[t].record = record
        /\ (call'[t].existed <=> HasRecord(u)) /\ pc \in {"putMain", "delTs", "delMain"}
        /\ pc # "putMain" => record = main[u] /\ (HasRecord(u) <=> pc = "delTs")
        /\ \A w \in Callers \ {t} : call'[w] = call[w] /\ call[w].uri # u
        /\ \A b \in Batchers : u \notin DOMAIN batch[b].records
        /\ main' = main /\ batch' = batch
    BY DEF Begins, Quiet
  <1>2. Alone'
    BY <1>1 DEF Alone, Busy, Committing, HasRecord
  <1>3. Knows(t)'
    BY <1>1 DEF Knows, Putting, Deleting, HasRecord
  <1>4. \A w \in Callers \ {t} : Knows(w)'
    BY <1>1 DEF Knows, HasRecord
  <1> QED
    BY <1>2, <1>3, <1>4

LEMMA BatchApart ==
  ASSUME StoreType, Alone, \A w \in Callers : Knows(w), NEW b \in Batchers
  PROVE  /\ BatchCommit(b) => Alone' /\ \A w \in Callers : Knows(w)'
         /\ \A us \in (SUBSET Uris) \ {{}} : \A records \in [us -> Record] :
              BatchCount(b, records) /\ (\A u \in us : Quiet(u) /\ ~ HasRecord(u)) =>
                Alone' /\ \A w \in Callers : Knows(w)'
  <1>0. DOMAIN batch = Batchers
    BY DEF StoreType
  <1>1. ASSUME BatchCommit(b)
        PROVE  Alone' /\ \A w \in Callers : Knows(w)'
    <2> DEFINE new == DOMAIN batch[b].records
    <2>1. /\ Committing(b) /\ call' = call
          /\ \A u \in Uris \ new : main'[u] = main[u]
          /\ ~ Committing(b)' /\ \A c \in Batchers \ {b} : batch'[c] = batch[c]
      BY <1>0, <1>1 DEF BatchCommit, Committing, NoBatch
    <2>2. \A w \in Callers : Busy(w) => call[w].uri \in Uris \ new
      BY <2>1 DEF Alone, StoreType, Busy
    <2>3. \A c \in Batchers \ {b} : Committing(c) =>
            \A u \in DOMAIN batch[c].records : u \in Uris \ new
      BY <2>1 DEF Alone, StoreType, Committing
    <2> HIDE DEF new
    <2>4. Alone'
      BY <2>1, <2>3 DEF Alone, Busy, Committing, HasRecord
    <2>5. ASSUME NEW w \in Callers
          PROVE  Knows(w)'
      <3>1. CASE Busy(w)
        BY <2>1, <2>2, <3>1 DEF Knows, HasRecord
      <3>2. CASE ~ Busy(w)
        BY <2>1, <3>2 DEF Knows, Busy, Putting, Deleting
      <3> QED
        BY <3>1, <3>2
    <2> QED
      BY <2>4, <2>5
  <1>2. ASSUME NEW us \in (SUBSET Uris) \ {{}}, NEW records \in [us -> Record],
               BatchCount(b, records), \A u \in us : Quiet(u) /\ ~ HasRecord(u)
        PROVE  Alone' /\ \A w \in Callers : Knows(w)'
    <2>1. /\ main' = main /\ call' = call /\ batch'[b].records = records /\ DOMAIN records = us
          /\ \A c \in Batchers \ {b} : batch'[c] = batch[c]
      BY <1>0, <1>2 DEF BatchCount, Keys
    <2>2. /\ \A w \in Callers : call[w].uri \notin us
          /\ \A c \in Batchers : DOMAIN batch[c].records \cap us = {}
      BY <1>2 DEF Quiet
    <2>3. Alone'
      BY <1>2, <2>1, <2>2 DEF Alone, Busy, Committing, HasRecord
    <2> QED
      BY <2>1, <2>3 DEF Knows, HasRecord
  <1> QED
    BY <1>1, <1>2

\* Nothing is at work: then nothing is at work on one record twice
LEMMA IdleApart ==
  ASSUME \A t \in Callers : ~ Busy(t), \A b \in Batchers : ~ Committing(b)
  PROVE  Alone /\ \A t \in Callers : Knows(t)
  BY DEF Alone, Knows, Busy, Putting, Deleting

LEMMA ApartStep == StoreType /\ ShellKnows /\ Apart /\ [Next]_vars => Apart'
  <1> SUFFICES ASSUME StoreType, ShellKnows, Apart, [Next]_vars, ~ (Counters \subseteq drifted')
               PROVE  Alone' /\ \A t \in Callers : Knows(t)'
    BY DEF Apart
  <1>1. ASSUME drifted \subseteq drifted'
        PROVE  Alone /\ \A t \in Callers : Knows(t)
    BY <1>1 DEF Apart
  <1>2. ASSUME UNCHANGED <<main, call, batch>>, drifted \subseteq drifted'
        PROVE  Alone' /\ \A t \in Callers : Knows(t)'
    BY <1>1, <1>2 DEF Alone, Knows, Busy, Committing, HasRecord
  <1>3. ASSUME UNCHANGED <<call, batch>>, \A t \in Callers : ~ Busy(t),
               \A b \in Batchers : ~ Committing(b)
        PROVE  Alone' /\ \A t \in Callers : Knows(t)'
    BY <1>3 DEF Alone, Knows, Busy, Committing, Putting, Deleting
  <1>4. ASSUME NEW t \in Callers, CallStep(t)
        PROVE  Alone' /\ \A w \in Callers : Knows(w)'
    BY <1>1, <1>4, CallStepFrame, CallStepApart
  <1>5. ASSUME NEW t \in Callers, NEW u \in Uris, NEW pc, NEW record, Begins(t, u, pc, record)
        PROVE  Alone' /\ \A w \in Callers : Knows(w)'
    <2>1. Quiet(u) /\ drifted' = drifted
      BY <1>5 DEF Begins, Call
    <2> QED
      BY <1>1, <1>5, <2>1, BeginApart
  <1>6. ASSUME NEW b \in Batchers, BatchCommit(b)
        PROVE  Alone' /\ \A w \in Callers : Knows(w)'
    <2>1. drifted \subseteq drifted'
      BY <1>6 DEF BatchCommit
    <2> QED
      BY <1>1, <1>6, <2>1, BatchApart
  <1>7. ASSUME NEW b \in Batchers, NEW us \in (SUBSET Uris) \ {{}}, NEW records \in [us -> Record],
               BatchCount(b, records)
        PROVE  Alone' /\ \A w \in Callers : Knows(w)'
    <2>1. drifted' = drifted /\ \A u \in us : Quiet(u) /\ ~ HasRecord(u)
      BY <1>7 DEF BatchCount, Call
    <2> QED
      BY <1>1, <1>7, <2>1, BatchApart
  <1>8. CASE ShellStep
    <2>1. CASE RecountWrite \/ RecountReverseWrite
      <3>1. UNCHANGED <<main, call, batch>> /\ shell.pc \in {"recount", "recountRev"}
        BY <2>1 DEF RecountWrite, RecountReverseWrite, Recounted
      <3>2. CASE shell.since = calls
        <4>1. AllQuiet /\ \A b \in Batchers : ~ Committing(b)
          BY <3>1, <3>2 DEF ShellKnows
        <4> QED
          BY <1>3, <3>1, <4>1, BusyIsLoud
      <3>3. CASE shell.since # calls
        <4>1. drifted \subseteq drifted'
          BY <2>1, <3>3 DEF RecountWrite, RecountReverseWrite, Recounted
        <4> QED
          BY <1>2, <3>1, <4>1
      <3> QED
        BY <3>2, <3>3
    <2>2. CASE ~ (RecountWrite \/ RecountReverseWrite)
      <3>1. /\ UNCHANGED <<main, call, batch>> /\ drifted' \in {drifted, Counters}
        BY <1>8, <2>2 DEF ShellStep, Configure, RebuildScan, RecountRead, RecountReverseRead, Command,
                         Ask, Call, Keys, RebuildIndex, RebuildTs, Rebuilt
      <3> QED
        BY <1>2, <3>1
    <2> QED
      BY <2>1, <2>2
  <1>9. CASE Crash
    <2>1. /\ call' = [t \in Callers |-> NoCall] /\ batch' = [b \in Batchers |-> NoBatch]
      BY <1>9 DEF Crash
    <2> QED
      BY <2>1 DEF Alone, Knows, Busy, Committing, Putting, Deleting, NoCall, NoBatch
  <1>10. CASE Start
    <2>1. process # "up" /\ UNCHANGED <<call, batch>>
      BY <1>10 DEF Start, StartTs, StartIndex
    <2> QED
      BY <1>3, <2>1 DEF ShellKnows
  <1>11. CASE UNCHANGED vars
    BY <1>2, <1>11 DEF vars
  <1> QED
    BY <1>4, <1>5, <1>6, <1>7, <1>8, <1>9, <1>10, <1>11, StepKinds

-----------------------------------------------------------------------------
(* The counter of the collection                                           *)

\* While the calls are apart, the record of a call is counted or not according to
\* where that call is; nothing changes for the other records
LEMMA WhereItIs ==
  ASSUME StoreType, Alone, NEW t \in Callers, NEW d, NEW pc, NEW next, Moves(t, d, pc, next)
  PROVE  /\ IsAdded(d) <=> pc \in Putting /\ ~ call[t].existed
         /\ IsAdded(d)' <=> next \in Putting /\ ~ call[t].existed
         /\ IsRemoved(d) <=> pc = "decCount" /\ call[t].existed
         /\ IsRemoved(d)' <=> next = "decCount" /\ call[t].existed
         /\ Uncertain(d) <=> pc \in {"putTs", "putRev", "incRev", "delMain"}
         /\ Uncertain(d)' <=> next \in {"putTs", "putRev", "incRev", "delMain"}
         /\ \A u \in Uris \ {d} : IsAdded(u)' <=> IsAdded(u)
         /\ \A u \in Uris \ {d} : IsRemoved(u)' <=> IsRemoved(u)
         /\ \A u \in Uris \ {d} : Uncertain(u)' <=> Uncertain(u)
  <1>1. /\ call[t].pc = pc /\ Busy(t) /\ call[t].uri = d /\ call'[t].pc = next
        /\ next # "idle" => call'[t].uri = d /\ call'[t].existed = call[t].existed
        /\ \A w \in Callers \ {t} : call'[w] = call[w]
        /\ \A w \in Callers \ {t} : call[w].pc # "idle" => call[w].uri # d
    BY DEF Moves, Alone, Busy
  <1>2. "idle" \notin Putting
    BY DEF Putting
  <1>3. /\ IsAdded(d) <=> pc \in Putting /\ ~ call[t].existed
        /\ IsAdded(d)' <=> next \in Putting /\ ~ call[t].existed
    BY <1>1, <1>2 DEF IsAdded
  <1>4. /\ IsRemoved(d) <=> pc = "decCount" /\ call[t].existed
        /\ IsRemoved(d)' <=> next = "decCount" /\ call[t].existed
    BY <1>1 DEF IsRemoved
  <1>5. /\ Uncertain(d) <=> pc \in {"putTs", "putRev", "incRev", "delMain"}
        /\ Uncertain(d)' <=> next \in {"putTs", "putRev", "incRev", "delMain"}
    BY <1>1 DEF Uncertain
  <1>6. ASSUME NEW u \in Uris \ {d}
        PROVE  /\ IsAdded(u)' <=> IsAdded(u)
               /\ IsRemoved(u)' <=> IsRemoved(u)
               /\ Uncertain(u)' <=> Uncertain(u)
    BY <1>1, <1>2 DEF IsAdded, IsRemoved, Uncertain
  <1> QED
    BY <1>3, <1>4, <1>5, <1>6

LEMMA CallCounts ==
  ASSUME StoreType, Alone, \A w \in Callers : Knows(w), count = Cardinality(Counted),
         NEW t \in Callers, CallStep(t)
  PROVE  count' = Cardinality(Counted')
  <1>0. PICK d : d = call[t].uri
    OBVIOUS
  <1>1. d \in Uris /\ Knows(t) /\ main \in [Uris -> Maybe] /\ NoRecord \notin Record
    BY <1>0, CallStepFrame, RecordStoreAssumption DEF StoreType
  <1>2. Counted \in SUBSET Uris /\ IsFiniteSet(Counted) /\ Cardinality(Counted) \in Nat
    <2>1. Counted \in SUBSET Uris
      BY DEF Counted
    <2> QED
      BY <2>1, RecordStoreAssumption, FS_Subset, FS_CardinalityType
  <1>3. CASE PutMain(t)
    <2>1. /\ Moves(t, d, "putMain", "putTs") /\ count' = count
          /\ main' = [main EXCEPT ![d] = call[t].record] /\ call[t].record \in Record
      BY <1>0, <1>3, CallMoves DEF PutMain, At, StoreType, PutLabels
    <2>2. HasRecord(d)' /\ \A u \in Uris \ {d} : HasRecord(u)' <=> HasRecord(u)
      BY <1>1, <2>1 DEF HasRecord
    <2>3. HasRecord(d) <=> call[t].existed
      BY <1>0, <1>1, <2>1 DEF Moves, Knows
    <2>4. Counted' = Counted
      BY <2>1, <2>2, <2>3, WhereItIs DEF Counted, Putting
    <2> QED
      BY <2>1, <2>4
  <1>4. CASE PutTs(t) \/ PutRev(t) \/ IncRev(t) \/ DeleteTs(t) \/ DeleteRev(t) \/ DecRev(t)
    <2>1. UNCHANGED <<main, count>>
      BY <1>4 DEF PutTs, PutRev, IncRev, DeleteTs, DeleteRev, DecRev
    <2>2. PICK pc \in Putting \cup Deleting, next \in Putting \cup Deleting \cup {"delMain"} :
            Moves(t, d, pc, next) /\ (pc \in Putting <=> next \in Putting)
      BY <1>0, <1>4, CallMoves DEF Putting, Deleting
    <2>3. pc # "decCount" /\ next # "decCount"
      BY DEF Putting, Deleting
    <2>4. Counted' = Counted
      BY <2>1, <2>2, <2>3, WhereItIs DEF Counted, HasRecord
    <2> QED
      BY <2>1, <2>4
  <1>5. CASE IncCount(t)
    <2>1. /\ Moves(t, d, "incCount", "idle") /\ main' = main
          /\ count' = IF call[t].existed THEN count ELSE count + 1
      BY <1>0, <1>5, CallMoves DEF IncCount
    <2>2. HasRecord(d) /\ \A u \in Uris : HasRecord(u)' <=> HasRecord(u)
      <3>1. main[d] = call[t].record /\ call[t].record \in Record
        BY <1>0, <1>1, <2>1 DEF Moves, Knows, Putting, StoreType, PutLabels
      <3> QED
        BY <1>1, <2>1, <3>1 DEF HasRecord
    <2>3. CASE call[t].existed
      <3>1. Counted' = Counted
        BY <2>1, <2>2, <2>3, WhereItIs DEF Counted, Putting
      <3> QED
        BY <2>1, <2>3, <3>1
    <2>4. CASE ~ call[t].existed
      <3>1. Counted' = Counted \cup {d} /\ d \notin Counted
        BY <1>1, <2>1, <2>2, <2>4, WhereItIs DEF Counted, Putting
      <3> QED
        BY <1>2, <2>1, <2>4, <3>1, FS_AddElement
    <2> QED
      BY <2>3, <2>4
  <1>6. CASE DeleteMain(t)
    <2>1. /\ Moves(t, d, "delMain", "decCount") /\ count' = count
          /\ main' = [main EXCEPT ![d] = NoRecord]
      BY <1>0, <1>6, CallMoves DEF DeleteMain
    <2>2. ~ HasRecord(d)' /\ \A u \in Uris \ {d} : HasRecord(u)' <=> HasRecord(u)
      BY <1>1, <2>1 DEF HasRecord
    <2>3. HasRecord(d) <=> call[t].existed
      BY <1>0, <1>1, <2>1 DEF Moves, Knows
    <2>4. Counted' = Counted
      BY <2>1, <2>2, <2>3, WhereItIs DEF Counted, Putting
    <2> QED
      BY <2>1, <2>4
  <1>7. CASE DecCount(t)
    <2>1. /\ Moves(t, d, "decCount", "idle") /\ main' = main
          /\ count' = IF call[t].existed THEN Pred(count) ELSE count
      BY <1>0, <1>7, CallMoves DEF DecCount
    <2>2. ~ HasRecord(d) /\ \A u \in Uris : HasRecord(u)' <=> HasRecord(u)
      BY <1>0, <1>1, <2>1 DEF Moves, Knows, HasRecord
    <2>3. CASE ~ call[t].existed
      <3>1. Counted' = Counted
        BY <2>1, <2>2, <2>3, WhereItIs DEF Counted, Putting
      <3> QED
        BY <2>1, <2>3, <3>1
    <2>4. CASE call[t].existed
      <3>1. Counted' = Counted \ {d} /\ d \in Counted
        BY <1>1, <2>1, <2>2, <2>4, WhereItIs DEF Counted, Putting
      <3>2. Cardinality(Counted') = Cardinality(Counted) - 1 /\ Cardinality(Counted') \in Nat
        BY <1>2, <3>1, FS_RemoveElement, FS_CardinalityType
      <3> QED
        BY <1>2, <2>1, <2>4, <3>2 DEF Pred
    <2> QED
      BY <2>3, <2>4
  <1> QED
    BY <1>3, <1>4, <1>5, <1>6, <1>7 DEF CallStep

LEMMA BatchCounts ==
  ASSUME StoreType, Alone, count = Cardinality(Counted), NEW b \in Batchers, BatchCommit(b),
         "count" \notin drifted'
  PROVE  count' = Cardinality(Counted')
  <1> DEFINE records == batch[b].records
             new     == DOMAIN records
  <1>1. /\ Committing(b) /\ call' = call
        /\ main' = [u \in Uris |-> IF u \in new THEN records[u] ELSE main[u]]
        /\ count' = batch[b].read.count + Cardinality(new)
        /\ batch[b].read = CountersOf(records)
    BY DEF BatchCommit, Committing, Counters
  <1>2. batch[b].read.count = count
    BY <1>1 DEF CountersOf
  <1>3. /\ \A u \in new : u \in Uris /\ records[u] \in Record /\ ~ HasRecord(u)
        /\ \A t \in Callers : Busy(t) => call[t].uri \notin new
    BY <1>1 DEF StoreType, Alone, Committing
  <1> HIDE DEF records, new
  <1>4. /\ \A u \in new : HasRecord(u)' /\ ~ IsAdded(u) /\ ~ IsRemoved(u)
        /\ \A u \in Uris \ new : HasRecord(u)' <=> HasRecord(u)
        /\ \A u \in Uris : (IsAdded(u)' <=> IsAdded(u)) /\ (IsRemoved(u)' <=> IsRemoved(u))
    BY <1>1, <1>3, RecordStoreAssumption DEF HasRecord, IsAdded, IsRemoved, Busy, Putting
  <1>5. Counted' = Counted \cup new /\ Counted \cap new = {}
    BY <1>3, <1>4 DEF Counted
  <1>6. /\ Counted \in SUBSET Uris /\ new \in SUBSET Uris
    BY <1>3 DEF Counted
  <1>7. /\ IsFiniteSet(Counted) /\ IsFiniteSet(new)
        /\ Cardinality(Counted) \in Nat /\ Cardinality(new) \in Nat
    BY <1>6, RecordStoreAssumption, FS_Subset, FS_CardinalityType
  <1>8. Cardinality(Counted') = Cardinality(Counted) + Cardinality(new)
    <2>1. /\ Cardinality(Counted \cup new)
               = Cardinality(Counted) + Cardinality(new) - Cardinality(Counted \cap new)
          /\ Cardinality({}) = 0
      BY <1>7, FS_Union, FS_EmptySet
    <2>2. Cardinality(Counted \cap new) = 0
      BY <1>5, <2>1
    <2> QED
      BY <1>5, <1>7, <2>1, <2>2
  <1> QED
    BY <1>1, <1>2, <1>7, <1>8

\* When nothing is at work the counter counts the records
LEMMA QuietCounted ==
  ASSUME AllQuiet
  PROVE  Counted = Present
  BY DEF AllQuiet, Quiet, Counted, Present, IsAdded, IsRemoved

\* When nothing is at work, no timestamp entry is stale and none is missed, there
\* are as many of them as there are records
LEMMA OneEntryEach ==
  ASSUME AllQuiet, AllFound, EntriesType, StaleTs = {}, missed \cap (Present \X {"ts"}) = {}
  PROVE  Cardinality(ts) = Cardinality(Present)
  <1> DEFINE f == [u \in Present |-> TsEntry(u, main[u])]
  <1>1. IsFiniteSet(Present)
    BY RecordStoreAssumption, FS_Subset DEF Present
  <1>2. ASSUME NEW u \in Present
        PROVE  TsEntry(u, main[u]) \in ts
    <2>1. u \in Uris /\ HasRecord(u) /\ TsFound(u) /\ Quiet(u) /\ <<u, "ts">> \notin missed
      BY DEF AllFound, AllQuiet, Present
    <2> QED
      BY <2>1 DEF TsFound, TsOnItsWay, Quiet
  <1>3. f \in [Present -> ts] /\ \A u, w \in Present : f[u] = f[w] => u = w
    BY <1>2 DEF TsEntry
  <1>4. \A e \in ts : \E u \in Present : f[u] = e
    <2> SUFFICES ASSUME NEW e \in ts PROVE e[2] \in Present /\ e = TsEntry(e[2], main[e[2]])
      OBVIOUS
    <2> QED
      BY DEF StaleTs, EntriesType, Present
  <1> HIDE DEF f
  <1>5. f \in Bijection(Present, ts)
    BY <1>3, <1>4, Fun_IsBij
  <1> QED
    BY <1>1, <1>5, FS_Bijection DEF ExistsBijection

LEMMA CountsAllStep ==
  StoreType /\ AllFound /\ ShellKnows /\ EntriesType /\ Apart /\ CountsAll /\ [Next]_vars
    => CountsAll'
  <1> SUFFICES ASSUME StoreType, AllFound, ShellKnows, EntriesType, Apart, CountsAll, [Next]_vars,
                      "count" \notin drifted'
               PROVE  count' = Cardinality(Counted')
    BY DEF CountsAll
  <1>1. ASSUME "count" \notin drifted
        PROVE  /\ count = Cardinality(Counted)
               /\ Alone /\ \A t \in Callers : Knows(t)
    BY <1>1 DEF CountsAll, Apart, Counters
  <1>2. ASSUME UNCHANGED <<main, call, count>>, "count" \notin drifted
        PROVE  count' = Cardinality(Counted')
    <2>1. Counted' = Counted
      BY <1>2 DEF Counted, HasRecord, IsAdded, IsRemoved
    <2> QED
      BY <1>1, <1>2, <2>1
  <1>3. ASSUME NEW t \in Callers, CallStep(t)
        PROVE  count' = Cardinality(Counted')
    <2>1. "count" \notin drifted
      BY <1>3, CallStepFrame
    <2> QED
      BY <1>1, <1>3, <2>1, CallCounts
  <1>4. ASSUME NEW t \in Callers, NEW u \in Uris, NEW pc, NEW record, Begins(t, u, pc, record)
        PROVE  count' = Cardinality(Counted')
    <2>1. drifted' = drifted /\ UNCHANGED <<main, count>>
      BY <1>4 DEF Begins, Call, Counters
    <2>2. \A w \in Uris : (IsAdded(w)' <=> IsAdded(w)) /\ (IsRemoved(w)' <=> IsRemoved(w))
      BY <1>4 DEF Begins, IsAdded, IsRemoved, Putting
    <2>3. Counted' = Counted
      BY <2>1, <2>2 DEF Counted, HasRecord
    <2> QED
      BY <1>1, <2>1, <2>3
  <1>5. ASSUME NEW b \in Batchers, BatchCommit(b)
        PROVE  count' = Cardinality(Counted')
    <2>1. "count" \notin drifted
      BY <1>5 DEF BatchCommit
    <2> QED
      BY <1>1, <1>5, <2>1, BatchCounts
  <1>6. ASSUME NEW b \in Batchers, NEW records, BatchCount(b, records)
        PROVE  count' = Cardinality(Counted')
    <2>1. UNCHANGED <<main, call, count>> /\ drifted' \in {drifted, Counters}
      BY <1>6 DEF BatchCount, Call, Keys
    <2> QED
      BY <1>2, <2>1 DEF Counters
  <1>7. CASE ShellStep
    <2>1. CASE RecountWrite
      <3>1. /\ UNCHANGED <<main, call>> /\ count' = shell.read /\ shell.pc = "recount"
            /\ shell.since = calls /\ StaleTs = {} /\ missed \cap (Present \X {"ts"}) = {}
        BY <2>1 DEF RecountWrite, Recounted
      <3>2. AllQuiet /\ shell.read = Cardinality(ts)
        BY <3>1 DEF ShellKnows
      <3>3. Cardinality(ts) = Cardinality(Counted)
        BY <3>1, <3>2, OneEntryEach, QuietCounted
      <3>4. Counted' = Counted
        BY <3>1 DEF Counted, HasRecord, IsAdded, IsRemoved
      <3> QED
        BY <3>1, <3>2, <3>3, <3>4
    <2>2. CASE ~ RecountWrite
      <3>1. UNCHANGED <<main, call, count>> /\ "count" \notin drifted
        BY <1>7, <2>2 DEF ShellStep, Configure, RebuildScan, RecountRead, RecountReverseRead, Command,
                         Ask, Call, Keys, RebuildIndex, RebuildTs, Rebuilt, RecountReverseWrite,
                         Recounted
      <3> QED
        BY <1>2, <3>1
    <2> QED
      BY <2>1, <2>2
  <1>8. CASE Crash
    <2> DEFINE torn == {call[t].uri : t \in Callers} \ {NoUri}
    <2>1. /\ UNCHANGED <<main, count>> /\ call' = [t \in Callers |-> NoCall]
          /\ drifted' = IF torn = {} THEN drifted ELSE Counters
      BY <1>8 DEF Crash, Keys
    <2>2. torn = {}
      BY <2>1 DEF Counters
    <2>3. \A t \in Callers : ~ Busy(t)
      BY <2>2, RecordStoreAssumption DEF StoreType, Busy
    <2>4. Counted' = Counted
      BY <2>1, <2>3 DEF Counted, HasRecord, IsAdded, IsRemoved, Putting, Busy, NoCall
    <2> QED
      BY <1>1, <2>1, <2>2, <2>4
  <1>9. CASE Start
    <2>1. UNCHANGED <<main, call, count>> /\ "count" \notin drifted
      BY <1>9 DEF Start, StartTs, StartIndex
    <2> QED
      BY <1>2, <2>1
  <1>10. CASE UNCHANGED vars
    BY <1>2, <1>10 DEF vars
  <1> QED
    BY <1>3, <1>4, <1>5, <1>6, <1>7, <1>8, <1>9, <1>10, StepKinds

\* What the proofs about the counters need in every state
Inv ==
  /\ StoreType
  /\ AllFound
  /\ ShellKnows
  /\ EntriesType
  /\ CountersType
  /\ Apart

LEMMA InvInit == Init => Inv
  <1> SUFFICES ASSUME Init PROVE Inv
    OBVIOUS
  <1>1. StoreType /\ AllFound
    BY StoreTypeInit DEF Init, AllFound, TsFound, RevFound, HasRecord
  <1>2. (\A t \in Callers : ~ Busy(t)) /\ (\A b \in Batchers : ~ Committing(b))
    BY DEF Init, Busy, Committing, NoCall, NoBatch
  <1>3. Apart
    BY <1>2, IdleApart DEF Apart
  <1>4. ShellKnows /\ EntriesType /\ CountersType
    BY <1>2 DEF Init, ShellKnows, EntriesType, CountersType, NoCommand
  <1> QED
    BY <1>1, <1>3, <1>4 DEF Inv

LEMMA InvStep == Inv /\ [Next]_vars => Inv'
  BY StoreTypeStep, FoundStep, ShellKnowsStep, EntriesTypeStep, CountersTypeStep, ApartStep DEF Inv

\* The counter of a collection on which nobody is at work is the number of its
\* records, but for the ways to drift that `drifted` names.
THEOREM CountStaysExact == Spec => []CountExact
  <1>1. Init => CountsAll
    <2> SUFFICES ASSUME Init PROVE count = Cardinality(Counted)
      BY DEF CountsAll
    <2>1. Counted = {}
      BY DEF Init, Counted, HasRecord, IsRemoved, NoCall
    <2> QED
      BY <2>1, FS_EmptySet DEF Init
  <1>2. Inv /\ CountsAll /\ [Next]_vars => CountsAll'
    BY CountsAllStep DEF Inv
  <1>3. CountsAll => CountExact
    <2> SUFFICES ASSUME CountsAll, AllQuiet, "count" \notin drifted
                 PROVE  CountCollection = Cardinality({u \in Uris : HasRecord(u)})
      BY DEF CountExact
    <2> QED
      BY QuietCounted DEF CountsAll, CountCollection, Present
  <1> QED
    BY <1>1, <1>2, <1>3, InvInit, InvStep, PTL DEF Spec

-----------------------------------------------------------------------------
(* The counters of the values                                              *)

LEMMA Sizes ==
  ASSUME EntriesType, CountersType, NEW v \in Values
  PROVE  /\ CountedBy(v) \in SUBSET HoldsValue(v) /\ HoldsValue(v) \in SUBSET Uris
         /\ Cardinality(CountedBy(v)) \in Nat /\ Cardinality(HoldsValue(v)) \in Nat
         /\ IsFiniteSet(CountedBy(v)) /\ IsFiniteSet(HoldsValue(v))
         /\ Cardinality(CountedBy(v)) <= Cardinality(HoldsValue(v))
         /\ revcount[v] \in Nat
  <1>1. CountedBy(v) \in SUBSET HoldsValue(v) /\ HoldsValue(v) \in SUBSET Uris
    BY DEF CountedBy, HoldsValue
  <1>2. CountedBy(v) \in SUBSET Uris
    BY <1>1
  <1>3. /\ IsFiniteSet(CountedBy(v)) /\ Cardinality(CountedBy(v)) \in Nat
        /\ IsFiniteSet(HoldsValue(v)) /\ Cardinality(HoldsValue(v)) \in Nat
    BY <1>1, <1>2, FiniteParts
  <1> QED
    BY <1>1, <1>3, FS_Subset DEF CountersType

\* A counter that does not fall is enough for what was counted before
LEMMA StaysEnough ==
  ASSUME EntriesType, CountersType, CountersType', NEW v \in Values, Enough(v),
         revcount'[v] >= revcount[v], CountedBy(v)' \subseteq CountedBy(v)
  PROVE  Enough(v)'
  <1>1. Cardinality(CountedBy(v)') <= Cardinality(CountedBy(v))
    BY Sizes, FS_Subset
  <1>2. IsFiniteSet(CountedBy(v)') /\ Cardinality(CountedBy(v)') \in Nat
    BY Sizes, FS_Subset, FS_CardinalityType
  <1> QED
    BY <1>1, <1>2, Sizes DEF Enough, CountersType

LEMMA CallCountsValues ==
  ASSUME StoreType, EntriesType, CountersType, CountersType', Alone, \A w \in Callers : Knows(w),
         WillCount, NEW t \in Callers, CallStep(t), "revcount" \notin drifted'
  PROVE  WillCount' /\ \A v \in Values : Enough(v) => Enough(v)'
  <1>0. PICK d : d = call[t].uri
    OBVIOUS
  <1>1. d \in Uris /\ Knows(t) /\ main \in [Uris -> Maybe] /\ revcount \in [Values -> Nat]
    BY <1>0, CallStepFrame DEF StoreType, CountersType
  <1>2. WillCount'
    <2>1. PICK pc, next : Moves(t, d, pc, next)
      BY <1>0, CallStepFrame
    <2>2. next \in {"putTs", "putRev", "incRev"} => call[t].indexed
      <3>1. CASE PutMain(t)
        BY <3>1 DEF PutMain, Uncounted
      <3>2. CASE ~ PutMain(t)
        BY <1>0, <2>1, <3>2, CallMoves DEF CallStep, Moves, WillCount
      <3> QED
        BY <3>1, <3>2
    <2> QED
      BY <2>1, <2>2 DEF WillCount, Moves
  <1>3. SUFFICES ASSUME NEW v \in Values, Enough(v) PROVE Enough(v)'
    BY <1>2
  <1>4. CASE PutMain(t) \/ DeleteMain(t)
    <2>1. PICK next \in {"putTs", "decCount"} : \E pc : Moves(t, d, pc, next)
      BY <1>0, <1>4, CallMoves
    <2>2. revcount' = revcount /\ \A u \in Uris \ {d} : main'[u] = main[u]
      BY <1>0, <1>1, <1>4 DEF PutMain, DeleteMain
    <2>3. Uncertain(d)' \/ ~ HasRecord(d)'
      <3>1. CASE PutMain(t)
        BY <1>0, <3>1, CallMoves, WhereItIs
      <3>2. CASE DeleteMain(t)
        BY <1>0, <1>1, <3>2 DEF DeleteMain, HasRecord
      <3> QED
        BY <1>4, <3>1, <3>2
    <2>4. CountedBy(v)' \subseteq CountedBy(v)
      BY <2>1, <2>2, <2>3, WhereItIs DEF CountedBy, HoldsValue, HasRecord
    <2> QED
      BY <1>1, <1>3, <2>2, <2>4, StaysEnough
  <1>5. CASE PutTs(t) \/ PutRev(t) \/ IncCount(t) \/ DeleteTs(t) \/ DeleteRev(t) \/ DecCount(t)
    <2>1. UNCHANGED <<main, revcount>>
      BY <1>5 DEF PutTs, PutRev, IncCount, DeleteTs, DeleteRev, DecCount
    <2>2. PICK pc, next : /\ Moves(t, d, pc, next) /\ pc # "delMain" /\ pc # "incRev"
                          /\ pc \in {"putTs", "putRev"} <=> next \in {"putRev", "incRev"}
                          /\ next \notin {"putTs", "delMain"}
      BY <1>0, <1>5, CallMoves
    <2>3. \A u \in Uris : Uncertain(u)' <=> Uncertain(u)
      BY <2>2, WhereItIs
    <2>4. CountedBy(v)' \subseteq CountedBy(v)
      BY <2>1, <2>3 DEF CountedBy, HoldsValue, HasRecord
    <2> QED
      BY <1>1, <1>3, <2>1, <2>4, StaysEnough
  <1>6. CASE IncRev(t)
    <2>1. /\ Moves(t, d, "incRev", "incCount") /\ main' = main
          /\ revcount'[v] = IF call[t].indexed /\ v = call[t].record.value THEN revcount[v] + 1
                            ELSE revcount[v]
      BY <1>0, <1>6, CallMoves DEF IncRev
    <2>2. call[t].indexed /\ main[d] = call[t].record
      BY <1>0, <1>1, <2>1 DEF Moves, Knows, Putting, WillCount
    <2>3. CASE v = call[t].record.value
      <3>1. CountedBy(v)' \subseteq CountedBy(v) \cup {d}
        BY <2>1, WhereItIs DEF CountedBy, HoldsValue, HasRecord
      <3>2. /\ IsFiniteSet(CountedBy(v) \cup {d})
            /\ Cardinality(CountedBy(v) \cup {d}) <= Cardinality(CountedBy(v)) + 1
        <4> DEFINE S == CountedBy(v)
        <4>1. IsFiniteSet(S) /\ Cardinality(S) \in Nat
          BY Sizes
        <4> HIDE DEF S
        <4>2. /\ IsFiniteSet(S \cup {d})
              /\ Cardinality(S \cup {d}) = IF d \in S THEN Cardinality(S) ELSE Cardinality(S) + 1
          BY <4>1, FS_AddElement
        <4>3. Cardinality(S \cup {d}) <= Cardinality(S) + 1
          BY <4>1, <4>2
        <4> QED
          BY <4>2, <4>3 DEF S
      <3>3. IsFiniteSet(CountedBy(v)') /\ Cardinality(CountedBy(v)') <= Cardinality(CountedBy(v) \cup {d})
        BY <3>1, <3>2, FS_Subset
      <3>4. Cardinality(CountedBy(v)') \in Nat /\ Cardinality(CountedBy(v) \cup {d}) \in Nat
        BY <3>2, <3>3, FS_CardinalityType
      <3> QED
        BY <1>3, <2>1, <2>2, <2>3, <3>2, <3>3, <3>4, Sizes DEF Enough
    <2>4. CASE v # call[t].record.value
      <3>1. CountedBy(v)' \subseteq CountedBy(v)
        BY <2>1, <2>2, <2>4, WhereItIs DEF CountedBy, HoldsValue, HasRecord
      <3> QED
        BY <1>1, <1>3, <2>1, <2>4, <3>1, StaysEnough
    <2> QED
      BY <2>3, <2>4
  <1>7. CASE DecRev(t)
    <2>1. /\ Moves(t, d, "decRev", "delMain") /\ main' = main
          /\ revcount'[v] = IF call[t].indexed /\ v = call[t].record.value THEN Pred(revcount[v])
                            ELSE revcount[v]
      BY <1>0, <1>7, CallMoves DEF DecRev
    <2>2. HasRecord(d) /\ main[d] = call[t].record
      BY <1>0, <1>1, <2>1 DEF Moves, Knows, Deleting
    <2>3. CASE call[t].indexed /\ v = call[t].record.value
      <3>1. CountedBy(v)' = CountedBy(v) \ {d} /\ d \in CountedBy(v)
        BY <1>1, <2>1, <2>2, <2>3, WhereItIs DEF CountedBy, HoldsValue, HasRecord
      <3>2. Cardinality(CountedBy(v)') = Cardinality(CountedBy(v)) - 1 /\ Cardinality(CountedBy(v)') \in Nat
        BY <3>1, Sizes, FS_RemoveElement, FS_CardinalityType
      <3> QED
        BY <1>3, <2>1, <2>3, <3>2, Sizes DEF Enough, Pred
    <2>4. CASE ~ (call[t].indexed /\ v = call[t].record.value)
      <3>1. CountedBy(v)' \subseteq CountedBy(v)
        BY <2>1, WhereItIs DEF CountedBy, HoldsValue, HasRecord
      <3> QED
        BY <1>1, <1>3, <2>1, <2>4, <3>1, StaysEnough
    <2> QED
      BY <2>3, <2>4
  <1> QED
    BY <1>4, <1>5, <1>6, <1>7 DEF CallStep

LEMMA BatchCountsValues ==
  ASSUME StoreType, EntriesType, CountersType, Alone, WillCount, NEW b \in Batchers,
         BatchCommit(b), "revcount" \notin drifted', NEW v \in Values, Enough(v)
  PROVE  WillCount' /\ Enough(v)'
  <1> DEFINE records == batch[b].records
             new     == DOMAIN records
             more    == WithValue(records, v)
  <1>1. /\ Committing(b) /\ call' = call /\ indexed
        /\ main' = [u \in Uris |-> IF u \in new THEN records[u] ELSE main[u]]
        /\ revcount' = [w \in Values |->
             IF w \in ValuesOf(records)
             THEN batch[b].read.revcount[w] + Cardinality(WithValue(records, w))
             ELSE revcount[w]]
        /\ batch[b].read = CountersOf(records)
    BY DEF BatchCommit, Committing, Counters, Uncounted
  <1>2. \A u \in new : u \in Uris
    BY <1>1 DEF StoreType, Committing
  <1>3. more = {u \in new : records[u].value = v} /\ more \in SUBSET Uris
    BY <1>2 DEF WithValue
  <1>4. IsFiniteSet(more) /\ Cardinality(more) \in Nat
    BY <1>3, FiniteParts
  <1> HIDE DEF records, new, more
  <1>5. revcount'[v] = revcount[v] + Cardinality(more)
    <2>1. CASE v \in ValuesOf(records)
      BY <1>1, <2>1 DEF CountersOf, more
    <2>2. CASE v \notin ValuesOf(records)
      <3>1. more = {}
        BY <1>1, <1>3, <2>2, ValuesOfThese DEF new
      <3>2. Cardinality(more) = 0
        BY <3>1, FS_EmptySet
      <3> QED
        BY <1>1, <2>2, <3>2, Sizes
    <2> QED
      BY <2>1, <2>2
  <1>6. CountedBy(v)' \subseteq CountedBy(v) \cup more
    BY <1>1, <1>3 DEF CountedBy, HoldsValue, HasRecord, Uncertain
  <1>7. Cardinality(CountedBy(v)') <= Cardinality(CountedBy(v)) + Cardinality(more)
    <2> DEFINE S == CountedBy(v)
               T == CountedBy(v)'
    <2>1. IsFiniteSet(S) /\ Cardinality(S) \in Nat
      BY Sizes
    <2>2. T \subseteq S \cup more
      BY <1>6
    <2> HIDE DEF S, T
    <2>3. /\ IsFiniteSet(S \cup more) /\ Cardinality(S \cap more) \in Nat
          /\ Cardinality(S \cup more)
               = Cardinality(S) + Cardinality(more) - Cardinality(S \cap more)
      BY <1>4, <2>1, FS_Union, FS_Intersection, FS_CardinalityType
    <2>4. Cardinality(T) <= Cardinality(S \cup more) /\ Cardinality(T) \in Nat
      BY <2>2, <2>3, FS_Subset, FS_CardinalityType
    <2>5. Cardinality(T) <= Cardinality(S) + Cardinality(more)
      BY <1>4, <2>1, <2>3, <2>4
    <2> QED
      BY <2>5 DEF S, T
  <1>8. Cardinality(CountedBy(v)') \in Nat
    <2>1. CountedBy(v)' \in SUBSET Uris
      BY DEF CountedBy, HoldsValue
    <2> QED
      BY <2>1, FiniteParts
  <1>9. Enough(v)'
    BY <1>4, <1>5, <1>7, <1>8, Sizes DEF Enough
  <1> QED
    BY <1>1, <1>9 DEF WillCount

\* When nothing is at work and no entry is missed, the records with a value are no
\* more than its entries
LEMMA EntriesCover ==
  ASSUME AllQuiet, AllFound, EntriesType, missed \cap (Present \X {"rev"}) = {}, NEW v \in Values
  PROVE  Cardinality(HoldsValue(v)) <= Cardinality(EntriesOf(v))
  <1> DEFINE f == [u \in HoldsValue(v) |-> <<v, u>>]
  <1>1. ASSUME NEW u \in HoldsValue(v)
        PROVE  <<v, u>> \in EntriesOf(v)
    <2>1. /\ u \in Present /\ RevFound(u) /\ Quiet(u) /\ main[u].value = v /\ v # NoValue
      BY RecordStoreAssumption DEF AllFound, AllQuiet, HoldsValue, Present
    <2>2. <<u, "rev">> \notin missed
      BY <2>1
    <2>3. RevEntries(u, main[u]) = {<<v, u>>}
      BY <2>1 DEF RevEntries
    <2>4. RevEntries(u, main[u]) \subseteq rev
      BY <2>1, <2>2 DEF RevFound, RevOnItsWay, Quiet, Present
    <2> QED
      BY <2>3, <2>4 DEF EntriesOf
  <1>2. f \in [HoldsValue(v) -> EntriesOf(v)] /\ \A u, w \in HoldsValue(v) : f[u] = f[w] => u = w
    BY <1>1
  <1> HIDE DEF f
  <1>3. f \in Injection(HoldsValue(v), EntriesOf(v))
    BY <1>2, Fun_IsInj
  <1>4. IsFiniteSet(EntriesOf(v))
    <2>1. {} \in SUBSET Uris
      OBVIOUS
    <2> QED
      BY <2>1, FiniteParts
  <1> QED
    BY <1>3, <1>4, FS_Injection

LEMMA CountsValuesStep ==
  Inv /\ Inv' /\ CountsValues /\ [Next]_vars => CountsValues'
  <1> SUFFICES ASSUME Inv, Inv', CountsValues, [Next]_vars, "revcount" \notin drifted'
               PROVE  WillCount' /\ \A v \in Values : Enough(v)'
    BY DEF CountsValues
  <1>0. /\ StoreType /\ AllFound /\ ShellKnows /\ EntriesType /\ CountersType /\ CountersType'
        /\ revcount \in [Values -> Nat]
    BY DEF Inv, CountersType
  <1>1. ASSUME "revcount" \notin drifted
        PROVE  /\ WillCount /\ \A v \in Values : Enough(v)
               /\ Alone /\ \A t \in Callers : Knows(t)
    BY <1>1 DEF CountsValues, Inv, Apart, Counters
  <1>2. ASSUME UNCHANGED <<main, call>>, "revcount" \notin drifted,
               \A v \in Values : revcount'[v] >= revcount[v]
        PROVE  WillCount' /\ \A v \in Values : Enough(v)'
    <2>1. \A v \in Values : CountedBy(v)' \subseteq CountedBy(v)
      BY <1>2 DEF CountedBy, HoldsValue, HasRecord, Uncertain
    <2>2. WillCount'
      BY <1>1, <1>2 DEF WillCount
    <2> QED
      BY <1>0, <1>1, <1>2, <2>1, <2>2, StaysEnough
  <1>3. ASSUME UNCHANGED <<main, call, revcount>>, "revcount" \notin drifted
        PROVE  WillCount' /\ \A v \in Values : Enough(v)'
    BY <1>0, <1>2, <1>3
  <1>4. ASSUME NEW t \in Callers, CallStep(t)
        PROVE  WillCount' /\ \A v \in Values : Enough(v)'
    <2>1. "revcount" \notin drifted
      BY <1>0, <1>4, CallStepFrame
    <2> QED
      BY <1>0, <1>1, <1>4, <2>1, CallCountsValues
  <1>5. ASSUME NEW t \in Callers, NEW u \in Uris, NEW pc, NEW record, Begins(t, u, pc, record)
        PROVE  WillCount' /\ \A v \in Values : Enough(v)'
    <2>1. "revcount" \notin drifted /\ UNCHANGED <<main, revcount>>
      BY <1>5 DEF Begins, Call, Counters
    <2>2. WillCount'
      BY <1>1, <1>5, <2>1 DEF WillCount, Begins
    <2>3. \A w \in Uris : Uncertain(w) => Uncertain(w)'
      BY <1>5 DEF Begins, Uncertain
    <2>4. \A v \in Values : CountedBy(v)' \subseteq CountedBy(v)
      BY <2>1, <2>3 DEF CountedBy, HoldsValue, HasRecord
    <2>5. \A v \in Values : revcount'[v] >= revcount[v]
      BY <1>0, <2>1
    <2> QED
      BY <1>0, <1>1, <2>1, <2>2, <2>4, <2>5, StaysEnough
  <1>6. ASSUME NEW b \in Batchers, BatchCommit(b)
        PROVE  WillCount' /\ \A v \in Values : Enough(v)'
    <2>1. "revcount" \notin drifted /\ call' = call
      BY <1>6 DEF BatchCommit
    <2>2. WillCount'
      BY <1>1, <2>1 DEF WillCount
    <2> QED
      BY <1>0, <1>1, <1>6, <2>1, <2>2, BatchCountsValues
  <1>7. ASSUME NEW b \in Batchers, NEW records, BatchCount(b, records)
        PROVE  WillCount' /\ \A v \in Values : Enough(v)'
    <2>1. UNCHANGED <<main, call, revcount>> /\ "revcount" \notin drifted
      BY <1>7 DEF BatchCount, Call, Keys, Counters
    <2> QED
      BY <1>3, <2>1
  <1>8. CASE ShellStep
    <2>1. CASE RecountReverseWrite
      <3>1. /\ UNCHANGED <<main, call>> /\ shell.pc = "recountRev" /\ shell.since = calls
            /\ missed \cap (Present \X {"rev"}) = {}
            /\ revcount' = [v \in Values |-> IF shell.read[v] > 0 THEN shell.read[v] ELSE revcount[v]]
        BY <2>1 DEF RecountReverseWrite, Recounted
      <3>2. AllQuiet /\ shell.read = [v \in Values |-> Cardinality(EntriesOf(v))]
        BY <1>0, <3>1 DEF ShellKnows
      <3>3. WillCount'
        BY <1>0, <3>1, <3>2, BusyIsLoud DEF WillCount, Busy
      <3>4. ASSUME NEW v \in Values
            PROVE  Enough(v)'
        <4> DEFINE entries == Cardinality(EntriesOf(v))
                   holds   == Cardinality(HoldsValue(v))
        <4>1. CountedBy(v)' = CountedBy(v)
          BY <3>1 DEF CountedBy, HoldsValue, HasRecord, Uncertain
        <4>2. holds <= entries
          BY <1>0, <3>1, <3>2, EntriesCover
        <4>3. entries \in Nat
          BY <1>0, FiniteParts
        <4>4. revcount'[v] = IF entries > 0 THEN entries ELSE revcount[v]
          BY <3>1, <3>2
        <4>5. /\ Cardinality(CountedBy(v)) <= holds /\ Cardinality(CountedBy(v)) \in Nat
              /\ holds \in Nat /\ revcount[v] \in Nat
          BY <1>0, Sizes
        <4> HIDE DEF entries, holds
        <4>6. revcount'[v] >= Cardinality(CountedBy(v))
          BY <4>2, <4>3, <4>4, <4>5
        <4> QED
          BY <4>1, <4>6 DEF Enough
      <3> QED
        BY <3>3, <3>4
    <2>2. ASSUME NEW u \in Uris, RebuildIndex(u)
          PROVE  WillCount' /\ \A v \in Values : Enough(v)'
      <3>1. /\ UNCHANGED <<main, call>> /\ "revcount" \notin drifted
            /\ \A v \in Values : revcount'[v] \in {revcount[v], revcount[v] + 1}
        BY <2>2 DEF RebuildIndex, Rebuilt
      <3> QED
        BY <1>0, <1>2, <3>1
    <2>3. ASSUME ~ RecountReverseWrite, ~ \E u \in Uris : RebuildIndex(u)
          PROVE  WillCount' /\ \A v \in Values : Enough(v)'
      <3>1. UNCHANGED <<main, call, revcount>> /\ "revcount" \notin drifted
        BY <1>8, <2>3 DEF ShellStep, Configure, RebuildScan, RecountRead, RecountReverseRead, Command,
                         Ask, Call, Keys, RebuildTs, Rebuilt, RecountWrite, Recounted, Counters
      <3> QED
        BY <1>3, <3>1
    <2> QED
      BY <2>1, <2>2, <2>3
  <1>9. CASE Crash
    <2> DEFINE torn == {call[t].uri : t \in Callers} \ {NoUri}
    <2>1. /\ UNCHANGED <<main, revcount>> /\ call' = [t \in Callers |-> NoCall]
          /\ drifted' = IF torn = {} THEN drifted ELSE Counters
      BY <1>9 DEF Crash, Keys
    <2>2. torn = {}
      BY <2>1 DEF Counters
    <2>3. \A t \in Callers : ~ Busy(t)
      BY <1>0, <2>2, RecordStoreAssumption DEF StoreType, Busy
    <2>4. \A v \in Values : CountedBy(v)' \subseteq CountedBy(v)
      BY <2>1, <2>3 DEF CountedBy, HoldsValue, HasRecord, Uncertain, Busy
    <2>5. WillCount'
      BY <2>1 DEF WillCount, NoCall
    <2>6. \A v \in Values : revcount'[v] >= revcount[v]
      BY <1>0, <2>1
    <2> QED
      BY <1>0, <1>1, <2>1, <2>2, <2>4, <2>5, <2>6, StaysEnough
  <1>10. CASE Start
    <2>1. process # "up" /\ UNCHANGED <<main, call>>
      BY <1>10 DEF Start, StartTs, StartIndex
    <2>2. \A t \in Callers : ~ Busy(t)
      BY <1>0, <2>1 DEF ShellKnows
    <2>3. CASE UNCHANGED <<revcount, drifted>>
      BY <1>3, <2>1, <2>3
    <2>4. ASSUME NEW us, NEW named, StartIndex(named, us), us = Present, named, rev = {}
          PROVE  WillCount' /\ \A v \in Values : Enough(v)'
      <3>1. WillCount'
        BY <2>1, <2>2 DEF WillCount, Busy
      <3>2. ASSUME NEW v \in Values
            PROVE  Enough(v)'
        <4>1. {u \in us : main[u].value = v} = HoldsValue(v)
          BY <2>4 DEF Present, HoldsValue
        <4>2. revcount'[v] = revcount[v] + Cardinality({u \in us : main[u].value = v})
          BY <2>4 DEF StartIndex
        <4>3. CountedBy(v)' = CountedBy(v)
          BY <2>1 DEF CountedBy, HoldsValue, HasRecord, Uncertain
        <4> QED
          BY <1>0, <4>1, <4>2, <4>3, Sizes DEF Enough
      <3> QED
        BY <3>1, <3>2
    <2>5. ASSUME NEW us, NEW named, StartIndex(named, us)
          PROVE  UNCHANGED <<revcount, drifted>> \/ (us = Present /\ named /\ rev = {})
      <3>1. CASE named /\ rev = {}
        BY <2>5, <3>1 DEF StartIndex
      <3>2. CASE ~ (named /\ rev = {})
        BY <2>5, <3>2 DEF StartIndex
      <3> QED
        BY <3>1, <3>2
    <2>6. ASSUME NEW us, StartTs(us)
          PROVE  UNCHANGED <<revcount, drifted>>
      BY <2>6 DEF StartTs
    <2> QED
      BY <1>10, <2>3, <2>4, <2>5, <2>6 DEF Start
  <1>11. CASE UNCHANGED vars
    BY <1>3, <1>11 DEF vars
  <1> QED
    BY <1>0, <1>4, <1>5, <1>6, <1>7, <1>8, <1>9, <1>10, <1>11, StepKinds

\* A lookup by value in a collection on which nobody is at work never reports fewer
\* records than there are, but for the ways to drift that `drifted` names.
THEOREM FieldCountStaysCovered == Spec => []FieldCountCovers
  <1>1. Init => CountsValues
    <2> SUFFICES ASSUME Init PROVE WillCount /\ \A v \in Values : Enough(v)
      BY DEF CountsValues
    <2>1. WillCount
      BY DEF Init, WillCount, NoCall
    <2>2. ASSUME NEW v \in Values
          PROVE  Enough(v)
      <3>1. CountedBy(v) = {}
        BY DEF Init, CountedBy, HoldsValue, HasRecord
      <3> QED
        BY <3>1, FS_EmptySet DEF Init, Enough
    <2> QED
      BY <2>1, <2>2
  <1>2. Inv /\ Inv' /\ CountsValues /\ [Next]_vars => CountsValues'
    BY CountsValuesStep
  <1>3. Inv /\ CountsValues => FieldCountCovers
    <2> SUFFICES ASSUME Inv, CountsValues, AllQuiet, "revcount" \notin drifted, NEW v \in Values
                 PROVE  CountByFieldValue(v) >= Cardinality(HoldsValue(v))
      BY DEF FieldCountCovers
    <2>1. CountedBy(v) = HoldsValue(v)
      BY DEF CountedBy, HoldsValue, AllQuiet, Quiet, Uncertain
    <2>2. EntriesType /\ CountersType /\ Enough(v)
      BY DEF Inv, CountsValues
    <2>3. /\ revcount[v] >= Cardinality(HoldsValue(v)) /\ revcount[v] \in Nat
          /\ Cardinality(HoldsValue(v)) \in Nat
      BY <2>1, <2>2, Sizes DEF Enough
    <2>4. Cardinality({e \in rev : e[1] = v}) \in Nat
      BY <2>2, FiniteParts DEF EntriesOf
    <2>5. ASSUME NEW entries \in Nat, CountByFieldValue(v) = IF revcount[v] > 0 THEN revcount[v] ELSE entries
          PROVE  CountByFieldValue(v) >= Cardinality(HoldsValue(v))
      BY <2>3, <2>5
    <2> QED
      BY <2>4, <2>5 DEF CountByFieldValue
  <1> QED
    BY <1>1, <1>2, <1>3, InvInit, InvStep, PTL DEF Spec
=============================================================================
