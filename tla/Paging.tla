------------------------------- MODULE Paging -------------------------------
(***************************************************************************)
(* Pages of a query: query_handler and execute_unsorted_query              *)
(* (src/src/server.rs), execute_paginated (src/src/query.rs) and the scans *)
(* of Store (src/src/storage.rs).  A client asks for a page, and for the   *)
(* next one with the cursor it got, while records are written.             *)
(*                                                                         *)
(* All keys are in one ordered keyspace.  A key is <<sort, uri>>: sort     *)
(* says where in its range the key stands (nothing for a record, the       *)
(* timestamp or the value for an index entry), and records are numbered in *)
(* the order of their keys.  A put or delete is one step here (RecordStore *)
(* opens it up), and so is a page: fjall iterates over a snapshot.  The    *)
(* scans of an index and of one DID's records in a collection have no upper *)
(* bound: a record of another collection or DID ends them, or a key        *)
(* without a record.                                                       *)
(***************************************************************************)
EXTENDS Integers, FiniteSets, FiniteSetsExt

CONSTANTS
  Uris,        \* the records of one collection and DID, by number
  Values,      \* values of the indexed field
  LowNumbers,  \* negative values: in decimal they sort before all encoded ones
  UriRank,     \* how many rkeys sort before the string "at://..."
  Kinds,       \* the queries that clients make
  Limits,      \* page sizes
  MaxWrites,   \* bound: how many records are written or deleted
  NoRecord, NoCursor

ASSUME PagingAssumption ==
  /\ Uris \subseteq Nat \ {0} /\ Values \subseteq Nat \ {0} /\ LowNumbers \subseteq Values
  /\ \A l \in LowNumbers, n \in Values \ LowNumbers : l < n
  /\ Limits \subseteq Nat \ {0}
  /\ UriRank \in Nat /\ MaxWrites \in Nat
  /\ Kinds \subseteq {"collection", "all", "did", "indexedAt", "field"}

VARIABLES
  main,     \* the stored records
  ts,       \* the timestamp entries, in both orders
  idx,      \* the entries of the ordered index on the field, with copies
  now,      \* indexed_at of the next write
  config,   \* the ordered indexes of the collection, and what stands behind
  request,  \* what the client asks for
  cursor,   \* where it is to continue
  open,     \* does it have a cursor, or has not asked yet?
  answer,   \* the records it got so far
  turn,     \* history: flips with every page, so that the same page again is a step
  writes,
  touched,  \* history: the records written since the first page
  spoiled   \* history: was a page taken that the scan is not made for?

store == <<main, ts, idx, now>>
vars == <<store, config, request, cursor, open, answer, turn, writes, touched, spoiled>>

Present == {u \in Uris : main[u] # NoRecord}

TsEntries(record, u)  == {<<record[u].indexed_at, u>>}
ValEntries(record, u) == {<<record[u].value, u>>}

\* Records that were there before differ in both sort keys
Older == {[value |-> n, indexed_at |-> n] : n \in Values}

\* `ordered` is how many indexes on fields the collection has, in the direction
\* that is asked for (for a DID in any): without one a query for a field has no
\* answer.  `next` is what stands behind what the scan is made for, if not a stop.
\* The records of collections that sort behind "idx:" stand behind all descending
\* indexes; the ascending ones end at the timestamp entries.  Behind the records of a DID, if
\* it is the last of its collection, there may be an entry without a record.
Configs(kind, asc) ==
  CASE kind = "collection" ->
         [ordered : {0}, asc : {asc}, integer : {FALSE}, next : {"stop", "entry"}]
    [] kind = "did" ->
         [ordered : 0 .. 2, asc : {asc}, integer : {FALSE}, next : {"stop", "records"}]
    [] kind = "field" ->
         [ordered : {1, 2}, asc : {asc}, integer : BOOLEAN,
          next : {"stop"} \cup (IF asc THEN {} ELSE {"records"})]
    [] OTHER ->
         [ordered : {0}, asc : {asc}, integer : {FALSE}, next : {"stop"}]

Init ==
  /\ main \in [Uris -> Older \cup {NoRecord}]
  /\ ts  = UNION {TsEntries(main, u) : u \in Present}
  /\ idx = UNION {ValEntries(main, u) : u \in Present}
  /\ now = Max(Values)
  /\ request \in [kind : Kinds, asc : BOOLEAN, limit : Limits]
  /\ config \in Configs(request.kind, request.asc)
  /\ cursor = NoCursor
  /\ open = TRUE
  /\ answer = {}
  /\ turn = FALSE
  /\ writes = 0
  /\ touched = {}
  /\ spoiled = FALSE

-----------------------------------------------------------------------------
(* Writers                                                                 *)

\* Bound: only writes between two pages
Write(u) ==
  /\ cursor # NoCursor /\ ~spoiled
  /\ writes < MaxWrites
  /\ writes' = writes + 1
  /\ touched' = touched \cup {u}
  /\ UNCHANGED <<config, request, cursor, open, answer, turn, spoiled>>

\* put_with_indexes: entries of the version before stay
Put(u, value, time) ==
  /\ Write(u)
  /\ main' = [main EXCEPT ![u] = [value |-> value, indexed_at |-> time]]
  /\ now' = time
  /\ ts'  = ts \cup TsEntries(main', u)
  /\ idx' = idx \cup ValEntries(main', u)

\* delete_with_indexes: the entries of the current version go
Delete(u) ==
  /\ u \in Present
  /\ Write(u)
  /\ main' = [main EXCEPT ![u] = NoRecord]
  /\ ts'  = ts \ TsEntries(main, u)
  /\ idx' = idx \ ValEntries(main, u)
  /\ UNCHANGED now

-----------------------------------------------------------------------------
(* Keys                                                                    *)

\* Below and above every sort value in use
Top == Max(Values) + MaxWrites + 3

Before(j, k) == j[1] < k[1] \/ (j[1] = k[1] /\ j[2] < k[2])

First(n, keys) == {k \in keys : Cardinality({j \in keys : Before(j, k)}) < n}

Least(keys) == CHOOSE k \in keys : \A j \in keys : j = k \/ Before(k, j)

\* index_key_asc, index_key_desc and the like: descending keys are inverted
Sorted(asc, n) == IF asc THEN n ELSE -n

\* The records themselves, before or behind the indexes
MainKeys == {<<IF config.next = "records" THEN Top + 1 ELSE -Top, u>> : u \in Present}

\* The first ordered index, and the second, which begins where it ends; every
\* record has one value there
IndexKeys ==
  (IF config.ordered >= 1 THEN {<<Sorted(config.asc, e[1]), e[2]>> : e \in idx} ELSE {})
  \cup (IF config.ordered = 2 THEN {<<Top, u>> : u \in Present} ELSE {})

\* What the scan of each query walks over.  scan_did_paginated walks over the
\* whole keyspace and takes what reads as a record: the copies too.  scan_index
\* goes on until a key holds no record, or one of another collection: over the
\* next index of the collection, and over its records if they stand there.
Keys ==
  CASE request.kind \in {"collection", "all"} -> MainKeys
    [] request.kind = "did"       -> MainKeys \cup IndexKeys
    [] request.kind = "indexedAt" -> {<<Sorted(request.asc, e[1]), e[2]>> : e \in ts}
    [] request.kind = "field"     ->
         IndexKeys \cup (IF config.next = "records" THEN MainKeys ELSE {})


From(keys, start) == {k \in keys : ~Before(k, start)}

\* Fault: the cursor record is returned again
SkipFirst_Keeps(keys) == keys

SkipFirst(keys) == IF keys = {} THEN {} ELSE keys \ {Least(keys)}

\* scan_index: where the key made from the cursor stands.  Integers are
\* encoded in keys and not in cursors: their key is before or behind all others.
FieldStart ==
  LET low == Sorted(config.asc, cursor.sort) \in LowNumbers
  IN  IF ~config.integer THEN <<cursor.sort, cursor.uri>>
      ELSE IF config.asc = low THEN <<-Top, 0>>
      ELSE <<Top, 0>>

\* Fault: the cursor points behind all records of its sort value
IndexedAtStart_NoUri == <<cursor.sort + 1, 0>>

IndexedAtStart == <<cursor.sort, cursor.uri>>

\* scan_all_collection_paginated, scan_did_paginated: behind the first key of
\* the cursor record
AfterRecord(keys) ==
  LET found == {k \in keys : k[2] = cursor.uri}
  IN  IF found = {} THEN {} ELSE {k \in keys : Before(Least(found), k)}

\* The keys that are left behind the cursor.  execute_unsorted_query hands out
\* the URI of the last record; scan_collection_paginated takes it for an rkey.
Rest ==
  IF cursor = NoCursor THEN Keys
  ELSE CASE request.kind = "collection" -> SkipFirst(From(Keys, <<-Top, UriRank + 1>>))
         [] request.kind \in {"all", "did"} -> AfterRecord(Keys)
         [] request.kind = "indexedAt"  -> SkipFirst(From(Keys, IndexedAtStart))
         [] request.kind = "field"      -> SkipFirst(From(Keys, FieldStart))

-----------------------------------------------------------------------------
(* query_handler                                                           *)

\* The sort value of the cursor comes from the record that was returned
SortValue(k) ==
  CASE request.kind = "indexedAt" -> Sorted(request.asc, main[k[2]].indexed_at)
    [] request.kind = "field" /\ k[1] >= Top -> Sorted(config.asc, main[k[2]].value)
    [] OTHER -> k[1]

\* Entries of an earlier version of a record, or of one that is gone
Stale ==
  CASE request.kind = "indexedAt" ->
         {e \in ts : e[2] \in Present /\ e \notin TsEntries(main, e[2])}
    [] request.kind = "field" ->
         {e \in idx : e[2] \notin Present \/ e \notin ValEntries(main, e[2])}
    [] OTHER -> {}

\* What the scans rely on: one index in the range of the scan and a stop behind
\* it, entries that are current, and a cursor record that is still where it was
MadeFor ==
  /\ request.kind = "collection" => cursor = NoCursor
  /\ request.kind = "did" => config.ordered = 0
  /\ request.kind = "field" =>
       config.ordered = 1 /\ config.next = "stop" /\ (cursor = NoCursor \/ ~config.integer)
  /\ Stale = {}
  /\ cursor # NoCursor =>
       CASE request.kind \in {"all", "did"} -> cursor.uri \in Present
         [] request.kind \in {"indexedAt", "field"} -> <<cursor.sort, cursor.uri>> \in Keys
         [] OTHER -> TRUE

\* scan_collection_paginated reads a record before it looks whose it is: at a
\* key without one, the query fails
RunsIntoEntry ==
  request.kind = "collection" /\ config.next = "entry" /\ Cardinality(Rest) <= request.limit

\* The timestamp entries hold no copy: the record is looked up
Found == {k \in Rest : request.kind = "indexedAt" => k[2] \in Present}

\* One more than the limit is scanned to see whether there is a next page
Page ==
  /\ open /\ ~RunsIntoEntry
  /\ \E found \in {Found} : \E page \in {First(request.limit, found)} :
       LET more == Cardinality(found) > request.limit
           last == CHOOSE k \in page : \A j \in page : j = k \/ Before(j, k)
       IN  /\ answer' = answer \cup {k[2] : k \in page}
           /\ cursor' = IF more THEN [sort |-> SortValue(last), uri |-> last[2]] ELSE NoCursor
           /\ open' = more
  /\ turn' = ~turn
  /\ spoiled' = (spoiled \/ ~MadeFor)
  /\ UNCHANGED <<store, config, request, writes, touched>>

\* The page is a server error, and the client gives up
PageFails ==
  /\ open /\ RunsIntoEntry
  /\ cursor' = NoCursor
  /\ open' = FALSE
  /\ spoiled' = TRUE
  /\ UNCHANGED <<store, config, request, answer, turn, writes, touched>>

Next ==
  \/ Page \/ PageFails
  \/ \E u \in Uris, value \in Values, time \in now .. now + 1 : Put(u, value, time)
  \/ \E u \in Uris : Delete(u)

Spec == Init /\ [][Next]_vars

\* The client goes on asking while it has a cursor
FairSpec == Spec /\ WF_vars(Page \/ PageFails)

-----------------------------------------------------------------------------
(* Properties                                                              *)

Promise == INSTANCE PagePromise WITH
  present <- Present, matching <- Present, excused <- spoiled

\* Pages lose and repeat nothing that nobody writes meanwhile, although each
\* page is found anew from the last record of the one before, in a keyspace
\* that has changed since: unless a page was taken that the scan is not made
\* for (MadeFor).
KeepsPromise == Promise!Spec

\* A client that follows the cursors comes to an end: no cursor leads back to
\* a page that was taken before.
PagingEnds == <>(~open \/ spoiled)


\* query.rs: "For collection query, cursor is just the rkey".  The pages of the
\* records of one DID in a collection hold all of them.
CollectionComplete ==
  request.kind = "collection" /\ config.next = "stop" /\ ~open /\ touched = {} =>
    Present \subseteq answer
=============================================================================
