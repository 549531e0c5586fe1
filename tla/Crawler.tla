------------------------------ MODULE Crawler ------------------------------
(***************************************************************************)
(* The crawler thread (src/src/crawler.rs): every five minutes it asks the *)
(* relay, page after page, for the repositories it knows, begins to track  *)
(* those that are not tracked, and saves the cursor of the next page.      *)
(*                                                                         *)
(* The crawler is one of the writers of RepoStatusIndex, whose variables   *)
(* and steps this module shares; requests and sync tasks are the others.   *)
(* What is queued for a sync is in RepoLifecycle.                          *)
(***************************************************************************)
EXTENDS RepoStatusIndex, Sequences, Functions

CONSTANTS
  Pending,      \* the status of a new repository
  Order,        \* the order in which the relay learns of the repositories
  Me,           \* the crawler
  PageSize,     \* `limit=1000`
  MaxCalls      \* bound: how many other puts and deletes are made

ASSUME CrawlerAssumption ==
  /\ Pending \in Statuses
  /\ Order \in Seq(Dids)
  /\ Me \in Writers
  /\ PageSize \in Nat \ {0}
  /\ MaxCalls \in Nat

VARIABLES
  relay,     \* the repositories the relay lists, in its order
  inactive,  \* those of them that it says are not active
  mode,      \* config.mode: which of the two listings is calls
  cursor,    \* durable: how far the listing was seen, 0 for no or an empty cursor
  crawl,     \* the crawler thread
  calls,
  removed,   \* history: repositories that somebody deleted
  skipped    \* history: repositories that were inactive on their page

crawlVars == <<vars, relay, inactive, mode, cursor, crawl, calls, removed, skipped>>

NoPage   == [todo |-> << >>, next |-> 0, last |-> FALSE]
Sleeping == [pc |-> "sleep", pos |-> 0, page |-> NoPage]

CrawlInit ==
  /\ Init
  /\ relay = << >>
  /\ mode \in {"signal", "full-network"}
  /\ inactive \in IF mode = "signal" THEN {{}} ELSE SUBSET Dids
  /\ cursor = 0
  /\ crawl = Sleeping
  /\ calls = 0
  /\ removed = {}
  /\ skipped = {}

-----------------------------------------------------------------------------
(* The relay                                                               *)

RelayLearns ==
  /\ Len(relay) < Len(Order)
  /\ relay' = SubSeq(Order, 1, Len(relay) + 1)
  /\ UNCHANGED <<vars, inactive, mode, cursor, crawl, calls, removed, skipped>>

\* A deactivated account comes back
Activate(d) ==
  /\ inactive' = inactive \ {d} /\ d \in inactive
  /\ UNCHANGED <<vars, relay, mode, cursor, crawl, calls, removed, skipped>>

\* After the last page the relay gives no cursor, the same kind of cursor as
\* ever, or an empty one
Answers(pos) ==
  LET end  == IF pos + PageSize < Len(relay) THEN pos + PageSize ELSE Len(relay)
      todo == SubSeq(relay, pos + 1, end)
  IN  IF end < Len(relay) THEN {[todo |-> todo, next |-> end, last |-> FALSE]}
      ELSE {[todo |-> todo, next |-> n, last |-> FALSE] : n \in {0, end}}
           \cup {[todo |-> todo, next |-> 0, last |-> TRUE]}

-----------------------------------------------------------------------------
(* run_based_on_mode, enumerate_all ("full-network") and                   *)
(* enumerate_by_collection ("signal")                                      *)

Crawls(pc) == crawl.pc = pc /\ UNCHANGED <<relay, inactive, mode, removed>>

\* The interval has passed; the saved cursor is read
Wake ==
  /\ Crawls("sleep")
  /\ crawl' = [pc |-> "ask", pos |-> cursor, page |-> NoPage]
  /\ UNCHANGED <<vars, cursor, calls, skipped>>

Ask ==
  /\ Crawls("ask")
  /\ \E answer \in Answers(crawl.pos) :
       crawl' = [crawl EXCEPT !.pc = "page", !.page = answer]
  /\ UNCHANGED <<vars, cursor, calls, skipped>>

\* Fault: an error ends the thread
AskFails_Ends ==
  /\ Crawls("ask")
  /\ crawl' = [Sleeping EXCEPT !.pc = "ended"]
  /\ UNCHANGED <<vars, cursor, calls, skipped>>

\* An error ends the run
AskFails ==
  /\ Crawls("ask")
  /\ crawl' = Sleeping
  /\ UNCHANGED <<vars, cursor, calls, skipped>>

ToDo == crawl.page.todo
Next_repo == [crawl EXCEPT !.pc = "page", !.page.todo = Tail(ToDo)]

\* "Skip inactive repos": by enumerate_all only
Skip ==
  /\ Crawls("page") /\ ToDo # << >>
  /\ mode = "full-network" /\ Head(ToDo) \in inactive
  /\ skipped' = skipped \cup {Head(ToDo)}
  /\ crawl' = Next_repo
  /\ UNCHANGED <<vars, cursor, calls>>

\* `contains`: a repository that is tracked is passed over
Contains ==
  /\ Crawls("page") /\ ToDo # << >>
  /\ mode = "signal" \/ Head(ToDo) \notin inactive
  /\ crawl' = IF main[Head(ToDo)] # NoStatus THEN Next_repo
              ELSE [crawl EXCEPT !.pc = "put"]
  /\ UNCHANGED <<vars, cursor, calls, skipped>>

\* `put(RepoState::new)`, the first of its steps ...
PutNew ==
  /\ Crawls("put")
  /\ PutGet(Me, Head(ToDo), Pending)
  /\ crawl' = [crawl EXCEPT !.pc = "putting"]
  /\ UNCHANGED <<cursor, calls, skipped>>

\* ... the others ...
PutStep ==
  /\ Crawls("putting") /\ writer[Me].pc # "idle"
  /\ PutUnindexOld(Me) \/ PutMain(Me) \/ PutIndex(Me)
  /\ UNCHANGED <<crawl, cursor, calls, skipped>>

\* ... and its return
Queued ==
  /\ Crawls("putting") /\ writer[Me].pc = "idle"
  /\ crawl' = Next_repo
  /\ UNCHANGED <<vars, cursor, calls, skipped>>

\* Fault: the cursor is saved before the page is worked through
EndPage_Early ==
  /\ Crawls("page")
  /\ IF crawl.page.last \/ (mode = "signal" /\ crawl.page.next = 0)
     THEN ToDo = << >> /\ crawl' = Sleeping /\ UNCHANGED cursor
     ELSE IF cursor # crawl.page.next
     THEN cursor' = crawl.page.next /\ UNCHANGED crawl
     ELSE ToDo = << >> /\ UNCHANGED cursor
          /\ crawl' = [pc |-> "ask", pos |-> crawl.page.next, page |-> NoPage]
  /\ UNCHANGED <<vars, calls, skipped>>

\* "Save cursor for resumability (keep it even when done ...)".  An empty
\* cursor ends enumerate_by_collection; enumerate_all saves it and begins
\* again.
EndPage ==
  /\ Crawls("page") /\ ToDo = << >>
  /\ IF crawl.page.last \/ (mode = "signal" /\ crawl.page.next = 0)
     THEN crawl' = Sleeping /\ UNCHANGED cursor
     ELSE /\ cursor' = crawl.page.next
          /\ crawl' = [pc |-> "ask", pos |-> crawl.page.next, page |-> NoPage]
  /\ UNCHANGED <<vars, calls, skipped>>

CrawlerStep ==
  \/ Wake \/ Ask \/ Skip \/ Contains \/ PutNew \/ PutStep \/ Queued \/ EndPage

-----------------------------------------------------------------------------
\* A request or a sync task begins a put or a delete ...
OtherCall(t) ==
  /\ calls < MaxCalls
  /\ calls' = calls + 1
  /\ \E d \in Dids : DeleteGet(t, d) \/ \E s \in Statuses : PutGet(t, d, s)
  /\ UNCHANGED <<relay, inactive, mode, cursor, crawl, removed, skipped>>

\* ... and goes on with it
OtherStep(t) ==
  /\ writer[t].pc # "idle"
  /\ WriterStep(t)
  /\ removed' = IF writer[t].pc = "removeMain" THEN removed \cup {writer[t].did}
                ELSE removed
  /\ UNCHANGED <<relay, inactive, mode, cursor, crawl, calls, skipped>>

\* The process dies, or is shut down: between two pages at the earliest, if
\* it ends in good order
ProcessDies ==
  /\ Crash
  /\ crawl' = Sleeping
  /\ UNCHANGED <<relay, inactive, mode, cursor, calls, removed, skipped>>

CrawlNext ==
  \/ RelayLearns \/ \E d \in Dids : Activate(d)
  \/ CrawlerStep \/ AskFails
  \/ \E t \in Writers \ {Me} : OtherCall(t) \/ OtherStep(t)
  \/ ProcessDies

CrawlSpec == CrawlInit /\ [][CrawlNext]_crawlVars

\* Five minutes pass, the thread keeps running, and a relay that is asked again
\* and again answers at last
FairSpec == CrawlSpec /\ WF_crawlVars(CrawlerStep) /\ SF_crawlVars(Ask)

-----------------------------------------------------------------------------
(* Properties                                                              *)

Tracked(d) == main[d] # NoStatus

\* The cursor is never ahead of what was done: every repository before it is
\* tracked, however often the process died or the relay failed, unless it was
\* removed since or was inactive when the crawler came by.
CursorCovers ==
  \A i \in 1 .. cursor :
    Tracked(relay[i]) \/ relay[i] \in removed \cup skipped

\* Every repository that the relay lists is tracked in the end, with the same
\* exceptions, although the crawler never goes back behind its cursor.
EventuallyDiscovered ==
  \A d \in Dids :
    d \in Range(relay) ~> Tracked(d) \/ d \in removed \cup skipped
=============================================================================
