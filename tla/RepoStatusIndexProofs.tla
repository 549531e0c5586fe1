----------------------- MODULE RepoStatusIndexProofs -----------------------
(***************************************************************************)
(* What TLAPS proves about RepoStatusIndex: for every number of threads in *)
(* put and delete, and of crashes, the status index misses only what a     *)
(* crash cut off.                                                          *)
(***************************************************************************)
EXTENDS RepoStatusIndex, TLAPS

LEMMA TypeStep == TypeOK /\ [Next]_vars => TypeOK'
  <1> SUFFICES ASSUME TypeOK, [Next]_vars PROVE TypeOK'
    OBVIOUS
  <1> USE StatusIndexAssumption
  <1>1. ASSUME NEW t \in Writers, NEW d \in Dids, NEW s \in Statuses, PutGet(t, d, s)
        PROVE  TypeOK'
    <2>1. main[d] \in Statuses \cup {NoStatus}
      BY DEF TypeOK
    <2> QED
      BY <1>1, <2>1 DEF TypeOK, PutGet, Begin
  <1>2. ASSUME NEW t \in Writers, NEW d \in Dids, DeleteGet(t, d)
        PROVE  TypeOK'
    <2>1. main[d] \in Statuses \cup {NoStatus}
      BY DEF TypeOK
    <2> QED
      BY <1>2, <2>1 DEF TypeOK, DeleteGet, Begin
  <1>3. ASSUME NEW t \in Writers, PutUnindexOld(t)
        PROVE  TypeOK'
    BY <1>3 DEF TypeOK, PutUnindexOld, Continue
  <1>4. ASSUME NEW t \in Writers, PutMain(t)
        PROVE  TypeOK'
    BY <1>4 DEF TypeOK, PutMain, Continue
  <1>5. ASSUME NEW t \in Writers, PutIndex(t)
        PROVE  TypeOK'
    BY <1>5 DEF TypeOK, PutIndex, Return, IdleWriter
  <1>6. ASSUME NEW t \in Writers, DeleteIndex(t)
        PROVE  TypeOK'
    BY <1>6 DEF TypeOK, DeleteIndex, Continue
  <1>7. ASSUME NEW t \in Writers, DeleteMain(t)
        PROVE  TypeOK'
    BY <1>7 DEF TypeOK, DeleteMain, Return, IdleWriter
  <1>8. CASE Crash
    BY <1>8 DEF TypeOK, Crash, IdleWriter
  <1>9. CASE UNCHANGED vars
    BY <1>9 DEF TypeOK, vars
  <1> QED
    BY <1>1, <1>2, <1>3, <1>4, <1>5, <1>6, <1>7, <1>8, <1>9 DEF Next, WriterStep

-----------------------------------------------------------------------------
\* Some writer is bound to repair the entry of d: it will insert the entry of
\* the stored status, or will store a status of its own choice first
Repairing(d) ==
  \E t \in Writers :
    /\ writer[t].did = d
    /\ \/ writer[t].pc \in {"insertMain", "removeMain"}
       \/ writer[t].pc = "insertIndex" /\ writer[t].new = main[d]

\* The strengthening of IndexComplete: an entry may only be missing while
\* somebody is at work on it
Indexed(d) == main[d] = NoStatus \/ <<main[d], d>> \in index \/ Repairing(d)

AllIndexed == \A d \in Dids \ torn : Indexed(d)

LEMMA WriterKeepsIndex ==
  ASSUME TypeOK, AllIndexed, NEW t \in Writers, WriterStep(t)
  PROVE  AllIndexed'
  <1> SUFFICES ASSUME NEW d \in Dids, d \notin torn'
               PROVE  Indexed(d)'
    BY DEF AllIndexed
  <1>a. d \notin torn => Indexed(d)
    BY DEF AllIndexed
  <1>0. writer[t].pc # "idle" => writer[t].did \in Dids
    BY DEF TypeOK
  <1>1. CASE \/ \E e \in Dids, s \in Statuses : PutGet(t, e, s)
             \/ \E e \in Dids : DeleteGet(t, e)
    <2>1. /\ main' = main /\ index' = index /\ writer[t].pc = "idle" /\ torn' = torn
          /\ \A u \in Writers \ {t} : writer'[u] = writer[u]
      BY <1>1 DEF TypeOK, PutGet, DeleteGet, Begin
    <2> QED
      BY <1>a, <2>1 DEF Indexed, Repairing
  <1>2. CASE PutUnindexOld(t) \/ DeleteIndex(t)
    <2>1. /\ main' = main /\ torn' = torn
          /\ index' = index \ {<<writer[t].old, writer[t].did>>}
          /\ writer'[t].did = writer[t].did
          /\ writer'[t].pc \in {"insertMain", "removeMain"}
          /\ \A u \in Writers \ {t} : writer'[u] = writer[u]
      BY <1>2 DEF TypeOK, PutUnindexOld, DeleteIndex, Continue
    <2>2. CASE writer[t].did = d
      BY <2>1, <2>2 DEF Indexed, Repairing
    <2>3. CASE writer[t].did # d
      BY <1>a, <2>1, <2>3 DEF Indexed, Repairing
    <2> QED
      BY <2>2, <2>3
  <1>3. CASE PutMain(t)
    <2>1. /\ main' = [main EXCEPT ![writer[t].did] = writer[t].new]
          /\ index' = index /\ torn' = torn \ {writer[t].did}
          /\ writer'[t].did = writer[t].did /\ writer'[t].new = writer[t].new
          /\ writer'[t].pc = "insertIndex"
          /\ \A u \in Writers \ {t} : writer'[u] = writer[u]
      BY <1>3 DEF TypeOK, PutMain, Continue
    <2>2. CASE writer[t].did = d
      BY <2>1, <2>2 DEF TypeOK, Indexed, Repairing
    <2>3. CASE writer[t].did # d
      BY <1>a, <2>1, <2>3 DEF TypeOK, Indexed, Repairing
    <2> QED
      BY <2>2, <2>3
  <1>4. CASE PutIndex(t)
    <2>1. /\ main' = main /\ writer[t].pc = "insertIndex" /\ torn' = torn
          /\ index' = index \cup {<<writer[t].new, writer[t].did>>}
          /\ \A u \in Writers \ {t} : writer'[u] = writer[u]
      BY <1>4 DEF TypeOK, PutIndex, Return
    <2> QED
      BY <1>a, <2>1 DEF Indexed, Repairing
  <1>5. CASE DeleteMain(t)
    <2>1. /\ main' = [main EXCEPT ![writer[t].did] = NoStatus]
          /\ index' = index /\ torn' = torn \ {writer[t].did}
          /\ \A u \in Writers \ {t} : writer'[u] = writer[u]
      BY <1>5 DEF TypeOK, DeleteMain, Return
    <2>2. CASE writer[t].did = d
      BY <2>1, <2>2 DEF TypeOK, Indexed
    <2>3. CASE writer[t].did # d
      BY <1>a, <2>1, <2>3 DEF TypeOK, Indexed, Repairing
    <2> QED
      BY <2>2, <2>3
  <1> QED
    BY <1>1, <1>2, <1>3, <1>4, <1>5 DEF WriterStep

\* Every repository that no thread is writing is listed under its status,
\* whatever puts and deletes ran side by side, unless a crash caught one of them
\* at work on it.
THEOREM IndexStaysComplete == Spec => []IndexComplete
  <1>1. Init => TypeOK /\ AllIndexed
    BY StatusIndexAssumption DEF Init, TypeOK, AllIndexed, Indexed, IdleWriter
  <1>2. TypeOK /\ [Next]_vars => TypeOK'
    BY TypeStep
  <1>3. TypeOK /\ AllIndexed /\ [Next]_vars => AllIndexed'
    <2> SUFFICES ASSUME TypeOK, AllIndexed, [Next]_vars PROVE AllIndexed'
      OBVIOUS
    <2>1. CASE \E t \in Writers : WriterStep(t)
      BY <2>1, WriterKeepsIndex
    <2>2. CASE Crash
      <3>1. /\ main' = main /\ index' = index
            /\ torn' = torn \cup {d \in Dids : ~Quiet(d)}
        BY <2>2 DEF Crash
      <3> QED
        BY <3>1 DEF AllIndexed, Indexed, Repairing, Quiet
    <2>3. CASE UNCHANGED vars
      BY <2>3 DEF vars, AllIndexed, Indexed, Repairing
    <2> QED
      BY <2>1, <2>2, <2>3 DEF Next
  <1>4. TypeOK /\ AllIndexed => IndexComplete
    BY DEF TypeOK, AllIndexed, Indexed, Repairing, IndexComplete, Listed, ListByStatus, Quiet
  <1> QED
    BY <1>1, <1>2, <1>3, <1>4, PTL DEF Spec
=============================================================================
