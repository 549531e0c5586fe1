--------------------------- MODULE CrawlerProofs ---------------------------
(***************************************************************************)
(* What TLAPS proves about Crawler, for every number of repositories and   *)
(* writers, every size of a page and every bound: the crawler is one of    *)
(* the writers of RepoStatusIndex, and its cursor never gets ahead of what *)
(* it has done.                                                            *)
(***************************************************************************)
EXTENDS Crawler, RepoStatusIndexProofs, SequenceTheorems

-----------------------------------------------------------------------------
(* Types                                                                   *)

CrawlLabels == {"sleep", "ask", "page", "put", "putting"}

PageType == [todo : Seq(Dids), next : Nat, last : BOOLEAN]

\* The relay has told a prefix of what it will tell, and neither the cursor nor
\* the position of the crawler is beyond it
CrawlType ==
  /\ relay \in Seq(Dids) /\ Len(relay) <= Len(Order)
  /\ \A i \in 1 .. Len(relay) : relay[i] = Order[i]
  /\ cursor \in 0 .. Len(relay)
  /\ crawl \in [pc : CrawlLabels, pos : Nat, page : PageType]
  /\ crawl.pos <= Len(relay) /\ crawl.page.next <= Len(relay)
  /\ crawl.pc \in {"put", "putting"} => ToDo # << >>

LEMMA AnswerType ==
  ASSUME CrawlType, NEW pos \in 0 .. Len(relay), NEW answer \in Answers(pos)
  PROVE  /\ answer \in PageType
         /\ answer.next <= Len(relay)
         \* what is behind pos, up to the next position, is in the page
         /\ \A i \in pos + 1 .. answer.next :
              \E j \in 1 .. Len(answer.todo) : answer.todo[j] = relay[i]
  <1> DEFINE end  == IF pos + PageSize < Len(relay) THEN pos + PageSize ELSE Len(relay)
             todo == SubSeq(relay, pos + 1, end)
  <1>1. /\ Len(relay) \in Nat /\ pos \in Nat /\ PageSize \in Nat \ {0}
        /\ end \in Nat /\ pos <= end /\ end <= Len(relay)
        /\ relay \in Seq(Dids)
    BY CrawlerAssumption, LenProperties DEF CrawlType
  <1> HIDE DEF end
  <1>2. /\ todo \in Seq(Dids) /\ Len(todo) = end - pos
        /\ \A j \in 1 .. Len(todo) : todo[j] = relay[pos + j]
    BY <1>1, SubSeqProperties
  <1> HIDE DEF todo
  <1>3. answer.todo = todo /\ answer.next \in {0, end} /\ answer.last \in BOOLEAN
        /\ answer = [todo |-> todo, next |-> answer.next, last |-> answer.last]
    <2>1. \E n \in {0, end}, last \in BOOLEAN : answer = [todo |-> todo, next |-> n, last |-> last]
      BY DEF Answers, end, todo
    <2> QED
      BY <2>1
  <1>4. ASSUME NEW i \in pos + 1 .. answer.next
        PROVE  \E j \in 1 .. Len(answer.todo) : answer.todo[j] = relay[i]
    <2>1. i - pos \in 1 .. Len(todo) /\ i = pos + (i - pos)
      BY <1>1, <1>2, <1>3
    <2> QED
      BY <1>2, <1>3, <2>1
  <1>5. answer \in PageType /\ answer.next <= Len(relay)
    BY <1>1, <1>2, <1>3 DEF PageType
  <1> QED
    BY <1>4, <1>5

LEMMA NextRepoType ==
  ASSUME CrawlType, ToDo # << >>
  PROVE  /\ Next_repo \in [pc : CrawlLabels, pos : Nat, page : PageType]
         /\ Next_repo.pc = "page" /\ Next_repo.pos = crawl.pos
         /\ Next_repo.page.todo = Tail(ToDo) /\ Next_repo.page.next = crawl.page.next
         /\ Head(ToDo) \in Dids
         /\ \A j \in 1 .. Len(ToDo) :
              \/ ToDo[j] = Head(ToDo)
              \/ \E k \in 1 .. Len(Tail(ToDo)) : Tail(ToDo)[k] = ToDo[j]
  <1>1. ToDo \in Seq(Dids) /\ crawl \in [pc : CrawlLabels, pos : Nat, page : PageType]
    BY DEF CrawlType, ToDo, PageType
  <1>2. /\ Head(ToDo) \in Dids /\ Head(ToDo) = ToDo[1]
        /\ Tail(ToDo) \in Seq(Dids) /\ Len(Tail(ToDo)) = Len(ToDo) - 1 /\ Len(ToDo) \in Nat
        /\ \A k \in 1 .. Len(Tail(ToDo)) : Tail(ToDo)[k] = ToDo[k + 1]
    BY <1>1, HeadTailProperties, LenProperties
  <1>3. [crawl.page EXCEPT !.todo = Tail(ToDo)] \in PageType
    BY <1>1, <1>2 DEF PageType
  <1>4. Next_repo = [crawl EXCEPT !.pc = "page", !.page = [crawl.page EXCEPT !.todo = Tail(ToDo)]]
    BY <1>1 DEF Next_repo, PageType
  <1>6. /\ Next_repo \in [pc : CrawlLabels, pos : Nat, page : PageType]
        /\ Next_repo.pc = "page" /\ Next_repo.pos = crawl.pos
        /\ Next_repo.page.todo = Tail(ToDo) /\ Next_repo.page.next = crawl.page.next
    BY <1>1, <1>3, <1>4 DEF CrawlLabels, PageType
  <1>5. ASSUME NEW j \in 1 .. Len(ToDo), j # 1
        PROVE  \E k \in 1 .. Len(Tail(ToDo)) : Tail(ToDo)[k] = ToDo[j]
    <2>1. j - 1 \in 1 .. Len(Tail(ToDo)) /\ j = (j - 1) + 1
      BY <1>2, <1>5
    <2> QED
      BY <1>2, <2>1
  <1> QED
    BY <1>2, <1>5, <1>6

LEMMA CrawlTypeStep == CrawlType /\ [CrawlNext]_crawlVars => CrawlType'
  <1> SUFFICES ASSUME CrawlType, [CrawlNext]_crawlVars PROVE CrawlType'
    OBVIOUS
  <1>0. /\ crawl \in [pc : CrawlLabels, pos : Nat, page : PageType]
        /\ crawl.page \in PageType /\ cursor \in 0 .. Len(relay)
        /\ crawl.pos <= Len(relay) /\ crawl.page.next <= Len(relay) /\ Len(relay) \in Nat
        /\ relay \in Seq(Dids) /\ Len(relay) <= Len(Order)
        /\ \A i \in 1 .. Len(relay) : relay[i] = Order[i]
    BY LenProperties DEF CrawlType
  <1>a. /\ << >> \in Seq(Dids)
        /\ NoPage \in PageType /\ NoPage.next = 0
    BY EmptySeq DEF NoPage, PageType
  <1>1. CASE RelayLearns
    <2>1. /\ relay' \in Seq(Dids) /\ Len(relay') = Len(relay) + 1
          /\ \A i \in 1 .. Len(relay') : relay'[i] = Order[i]
      BY <1>0, <1>1, CrawlerAssumption, SubSeqProperties, LenProperties DEF RelayLearns
    <2>2. Len(relay') <= Len(Order)
      BY <1>0, <1>1, <2>1, CrawlerAssumption, LenProperties DEF RelayLearns
    <2>3. UNCHANGED <<cursor, crawl>> /\ Len(relay) <= Len(relay') /\ Len(relay') \in Nat
      BY <1>0, <1>1, <2>1 DEF RelayLearns
    <2>4. /\ cursor' \in 0 .. Len(relay') /\ crawl'.pos <= Len(relay')
          /\ crawl'.page.next <= Len(relay')
      BY <1>0, <2>1, <2>3 DEF PageType
    <2>5. /\ crawl' \in [pc : CrawlLabels, pos : Nat, page : PageType]
          /\ crawl'.pc \in {"put", "putting"} => ToDo' # << >>
      BY <2>3 DEF CrawlType, ToDo
    <2> QED
      BY <2>1, <2>2, <2>4, <2>5 DEF CrawlType
  <1>2. CASE \/ \E d \in Dids : Activate(d)
             \/ \E t \in Writers \ {Me} : OtherCall(t) \/ OtherStep(t)
             \/ PutStep \/ UNCHANGED crawlVars
    <2>1. UNCHANGED <<relay, cursor, crawl>>
      BY <1>2 DEF Activate, OtherCall, OtherStep, PutStep, Crawls, crawlVars
    <2> QED
      BY <2>1 DEF CrawlType, ToDo
  <1>3. CASE AskFails \/ ProcessDies
    BY <1>0, <1>3, <1>a DEF AskFails, ProcessDies, Crawls, Sleeping, CrawlLabels, CrawlType, ToDo
  <1>4. CASE Wake
    BY <1>0, <1>4, <1>a DEF Wake, Crawls, CrawlLabels, CrawlType, ToDo
  <1>5. CASE Ask
    <2>1. PICK answer \in Answers(crawl.pos) :
            crawl' = [crawl EXCEPT !.pc = "page", !.page = answer]
      BY <1>5 DEF Ask
    <2>2. answer \in PageType /\ answer.next <= Len(relay)
      BY <1>0, AnswerType
    <2> QED
      BY <1>0, <1>5, <2>1, <2>2 DEF Ask, Crawls, CrawlLabels, CrawlType, ToDo
  <1>6. CASE Skip \/ Queued \/ (Contains /\ crawl' = Next_repo)
    <2>1. ToDo # << >> /\ crawl' = Next_repo /\ UNCHANGED <<relay, cursor>>
      BY <1>6 DEF Skip, Queued, Contains, Crawls, CrawlType, ToDo
    <2> QED
      BY <1>0, <2>1, NextRepoType DEF CrawlLabels, CrawlType, ToDo
  <1>7. CASE (Contains /\ crawl' = [crawl EXCEPT !.pc = "put"]) \/ PutNew
    <2>1. /\ ToDo # << >> /\ UNCHANGED <<relay, cursor>>
          /\ \E label \in CrawlLabels : crawl' = [crawl EXCEPT !.pc = label]
      BY <1>7 DEF Contains, PutNew, Crawls, CrawlType, CrawlLabels, ToDo
    <2> QED
      BY <1>0, <2>1 DEF CrawlLabels, CrawlType, ToDo
  <1>8. CASE EndPage
    BY <1>0, <1>8, <1>a
    DEF EndPage, Crawls, Sleeping, CrawlLabels, CrawlType, ToDo, PageType
  <1> QED
    BY <1>1, <1>2, <1>3, <1>4, <1>5, <1>6, <1>7, <1>8 DEF CrawlNext, CrawlerStep, Contains

-----------------------------------------------------------------------------
(* The crawler is a writer of RepoStatusIndex                              *)

LEMMA CrawlStepIsStep == CrawlType /\ [CrawlNext]_crawlVars => [Next]_vars
  <1> SUFFICES ASSUME CrawlType, [CrawlNext]_crawlVars PROVE [Next]_vars
    OBVIOUS
  <1>1. CASE PutNew
    <2>1. Head(ToDo) \in Dids
      BY <1>1, NextRepoType DEF PutNew, Crawls, CrawlType
    <2> QED
      BY <1>1, <2>1, CrawlerAssumption DEF PutNew, Next, WriterStep
  <1>2. CASE PutStep
    BY <1>2, CrawlerAssumption DEF PutStep, Next, WriterStep
  <1>3. CASE \E t \in Writers \ {Me} : OtherCall(t) \/ OtherStep(t)
    BY <1>3 DEF OtherCall, OtherStep, Next, WriterStep
  <1>4. CASE ProcessDies
    BY <1>4 DEF ProcessDies, Next
  <1>5. CASE \/ RelayLearns \/ \E d \in Dids : Activate(d)
             \/ Wake \/ Ask \/ AskFails \/ Skip \/ Contains \/ Queued \/ EndPage
             \/ UNCHANGED crawlVars
    BY <1>5 DEF RelayLearns, Activate, Wake, Ask, AskFails, Skip, Contains, Queued, EndPage, crawlVars
  <1> QED
    BY <1>1, <1>2, <1>3, <1>4, <1>5 DEF CrawlNext, CrawlerStep

LEMMA CrawlTypeInit == CrawlInit => CrawlType
  BY EmptySeq, CrawlerAssumption, LenProperties
  DEF CrawlInit, CrawlType, Sleeping, NoPage, PageType, CrawlLabels, ToDo

\* Every behaviour of the crawler is one of RepoStatusIndex.
THEOREM CrawlerImplementsIndex == CrawlSpec => Spec
  <1>1. CrawlInit => Init /\ CrawlType
    BY CrawlTypeInit DEF CrawlInit
  <1> QED
    BY <1>1, CrawlTypeStep, CrawlStepIsStep, PTL DEF CrawlSpec, Spec

\* So with the crawler among the writers the status index stays complete.
THEOREM CrawlerKeepsIndex == CrawlSpec => []IndexComplete
  BY CrawlerImplementsIndex, IndexStaysComplete, PTL

-----------------------------------------------------------------------------
(* The cursor                                                              *)

\* Tracked, or one of the exceptions
Done(d) == Tracked(d) \/ d \in removed \cup skipped

\* The repositories on the first n places of the listing
Before(n) == {relay[i] : i \in 1 .. n}

InPage(d) == \E j \in 1 .. Len(ToDo) : ToDo[j] = d

\* The crawler is on its way with d: the main key is not written, or was
Putting(d) ==
  \/ writer[Me].pc \in {"unindexOld", "insertMain"} /\ writer[Me].did = d
  \/ writer[Me].pc \in {"idle", "insertIndex"} /\ Done(d)

\* Where the next page will begin everything is done; while a page is worked
\* through, what is before the next one is done or in the rest of the page; and
\* a put of the crawler is on its way to the main key, or past it
CrawlCovers ==
  /\ crawl.pc = "ask" => \A d \in Before(crawl.pos) : Done(d)
  /\ crawl.pc \in {"page", "put", "putting"} =>
       \A d \in Before(crawl.page.next) : Done(d) \/ InPage(d)
  /\ crawl.pc = "putting" => \A d \in Dids : d = Head(ToDo) => Putting(d)

LEMMA BeforeCursor == CursorCovers <=> \A d \in Before(cursor) : Done(d)
  BY DEF CursorCovers, Before, Done

LEMMA BeforeListed ==
  ASSUME CrawlType, NEW n \in Nat, n <= Len(relay)
  PROVE  Before(n) \subseteq Dids
  BY ElementOfSeq, LenProperties DEF CrawlType, Before

\* The writers only take a repository from the tracked to the removed ones
LEMMA DoneStays ==
  ASSUME TypeOK, [CrawlNext]_crawlVars, NEW d \in Dids, Done(d)
  PROVE  Done(d)'
  <1>1. ASSUME NEW t \in Writers, WriterStep(t),
               writer[t].pc = "removeMain" => removed' = removed \cup {writer[t].did},
               removed \subseteq removed', skipped' = skipped
        PROVE  Done(d)'
    <2>1. CASE PutMain(t)
      <3>1. writer[t].new \in Statuses /\ main' = [main EXCEPT ![writer[t].did] = writer[t].new]
        BY <2>1 DEF TypeOK, PutMain
      <3> QED
        BY <1>1, <3>1, StatusIndexAssumption DEF TypeOK, Done, Tracked
    <2>2. CASE DeleteMain(t)
      BY <1>1, <2>2 DEF TypeOK, DeleteMain, Done, Tracked
    <2>3. CASE ~PutMain(t) /\ ~DeleteMain(t)
      <3>1. main' = main
        BY <1>1, <2>3 DEF WriterStep, PutGet, DeleteGet, Begin, PutUnindexOld, PutIndex, DeleteIndex
      <3> QED
        BY <1>1, <3>1 DEF Done, Tracked
    <2> QED
      BY <2>1, <2>2, <2>3
  <1>2. CASE PutStep
    <2>1. WriterStep(Me) /\ writer[Me].pc # "removeMain" /\ UNCHANGED <<removed, skipped>>
      BY <1>2 DEF PutStep, Crawls, WriterStep, PutUnindexOld, PutMain, PutIndex
    <2> QED
      BY <1>1, <2>1, CrawlerAssumption
  <1>3. ASSUME NEW t \in Writers \ {Me}, OtherStep(t)
        PROVE  Done(d)'
    BY <1>1, <1>3 DEF OtherStep
  <1>4. CASE ~PutStep /\ ~\E t \in Writers \ {Me} : OtherStep(t)
    <2>1. main' = main /\ removed \subseteq removed' /\ skipped \subseteq skipped'
      <3>1. CASE PutNew \/ ProcessDies \/ \E t \in Writers \ {Me} : OtherCall(t)
        BY <3>1 DEF PutNew, Crawls, ProcessDies, OtherCall, PutGet, DeleteGet, Begin, Crash
      <3>2. CASE \/ RelayLearns \/ \E e \in Dids : Activate(e)
                 \/ Wake \/ Ask \/ AskFails \/ Skip \/ Contains \/ Queued \/ EndPage
                 \/ UNCHANGED crawlVars
        BY <3>2 DEF RelayLearns, Activate, Wake, Ask, AskFails, Skip, Contains, Queued, EndPage,
                    Crawls, crawlVars, vars
      <3> QED
        BY <1>4, <3>1, <3>2 DEF CrawlNext, CrawlerStep
    <2> QED
      BY <2>1 DEF Done, Tracked
  <1> QED
    BY <1>2, <1>3, <1>4

\* In a page that goes on with the next repository, what was covered is covered
\* still, if the repository it goes on from is done
LEMMA NextRepoCovers ==
  ASSUME CrawlType, ToDo # << >>, crawl' = Next_repo, relay' = relay,
         \A d \in Dids : d = Head(ToDo) => Done(d)',
         \A d \in Before(crawl.page.next) : Done(d)' \/ InPage(d)
  PROVE  CrawlCovers'
  <1>1. /\ crawl'.pc = "page" /\ crawl'.page.next = crawl.page.next
        /\ ToDo' = Tail(ToDo) /\ Head(ToDo) \in Dids
    BY NextRepoType DEF ToDo
  <1>2. ASSUME NEW d \in Before(crawl.page.next), ~Done(d)'
        PROVE  InPage(d)'
    <2>1. PICK j \in 1 .. Len(ToDo) : ToDo[j] = d
      BY <1>2 DEF InPage
    <2>2. d # Head(ToDo)
      BY <1>1, <1>2
    <2>3. PICK k \in 1 .. Len(Tail(ToDo)) : Tail(ToDo)[k] = d
      BY <2>1, <2>2, NextRepoType
    <2> QED
      BY <1>1, <2>3 DEF InPage
  <1>3. Before(crawl.page.next)' = Before(crawl.page.next)
    BY <1>1 DEF Before
  <1> QED
    BY <1>1, <1>2, <1>3 DEF CrawlCovers

\* The steps of a put of the crawler: its main key is written, or was
LEMMA PutStepCovers ==
  ASSUME TypeOK, CrawlType, CrawlCovers, PutStep, NEW d \in Dids, d = Head(ToDo)
  PROVE  Putting(d)'
  <1>0. /\ Me \in Writers /\ crawl.pc = "putting" /\ UNCHANGED <<removed, skipped>>
        /\ Putting(d)
    BY CrawlerAssumption DEF PutStep, Crawls, CrawlCovers
  <1>1. CASE PutUnindexOld(Me)
    BY <1>0, <1>1 DEF TypeOK, PutUnindexOld, Continue, Putting
  <1>2. CASE PutMain(Me)
    <2>1. writer[Me].did = d /\ writer[Me].new \in Statuses
      BY <1>0, <1>2 DEF TypeOK, PutMain, Putting
    <2>2. main'[d] = writer[Me].new /\ writer'[Me].pc = "insertIndex"
      BY <1>0, <1>2, <2>1 DEF TypeOK, PutMain, Continue
    <2> QED
      BY <2>1, <2>2, StatusIndexAssumption DEF Putting, Done, Tracked
  <1>3. CASE PutIndex(Me)
    <2>1. Done(d) /\ main' = main /\ writer'[Me].pc = "idle"
      BY <1>0, <1>3 DEF TypeOK, PutIndex, Return, IdleWriter, Putting
    <2> QED
      BY <1>0, <2>1 DEF Putting, Done, Tracked
  <1> QED
    BY <1>1, <1>2, <1>3 DEF PutStep

\* Nobody but the crawler has a hand in its put
LEMMA OthersLeaveMe ==
  ASSUME TypeOK, NEW t \in Writers \ {Me}, WriterStep(t)
  PROVE  writer'[Me] = writer[Me]
  BY CrawlerAssumption
  DEF TypeOK, WriterStep, PutGet, DeleteGet, Begin, PutUnindexOld, PutMain, PutIndex,
      DeleteIndex, DeleteMain, Continue, Return

LEMMA CoverStep ==
  ASSUME TypeOK, CrawlType, CursorCovers, CrawlCovers, [CrawlNext]_crawlVars
  PROVE  CursorCovers' /\ CrawlCovers'
  <1>0. /\ relay \in Seq(Dids) /\ Len(relay) \in Nat /\ cursor \in 0 .. Len(relay)
        /\ crawl \in [pc : CrawlLabels, pos : Nat, page : PageType]
        /\ crawl.pos <= Len(relay) /\ crawl.page.next <= Len(relay)
        /\ cursor \in Nat /\ crawl.pos \in Nat /\ crawl.page.next \in Nat
    BY LenProperties DEF CrawlType, PageType
  <1>1. \A d \in Dids : Done(d) => Done(d)'
    BY DoneStays
  <1>2. \A d \in Before(cursor) : Done(d)'
    BY <1>0, <1>1, BeforeCursor, BeforeListed
  <1>3. crawl.pc \in {"page", "put", "putting"} =>
          \A d \in Before(crawl.page.next) : Done(d)' \/ InPage(d)
    BY <1>0, <1>1, BeforeListed DEF CrawlCovers
  <1>4. crawl.pc = "ask" => \A d \in Before(crawl.pos) : Done(d)'
    BY <1>0, <1>1, BeforeListed DEF CrawlCovers
  <1>5. ASSUME relay' = relay, cursor' = cursor
        PROVE  CursorCovers'
    <2>1. Before(cursor)' = Before(cursor)
      BY <1>5 DEF Before
    <2>2. \A d \in Before(cursor)' : Done(d)'
      BY <1>2, <2>1
    <2> QED
      BY <2>2 DEF CursorCovers, Before, Done
  \* The relay only ever adds to its listing
  <1>6. CASE RelayLearns
    <2>1. /\ \A i \in 1 .. Len(relay) : relay'[i] = relay[i]
          /\ UNCHANGED <<vars, cursor, crawl, removed, skipped>>
      <3>1. \A i \in 1 .. Len(relay) + 1 : relay'[i] = Order[i]
        BY <1>0, <1>6, CrawlerAssumption, SubSeqProperties, LenProperties DEF RelayLearns
      <3> QED
        BY <1>0, <1>6, <3>1 DEF RelayLearns, CrawlType
    <2>2. CursorCovers'
      BY <1>0, <2>1 DEF CursorCovers, Tracked, vars
    <2>3. /\ Before(crawl.pos)' = Before(crawl.pos)
          /\ Before(crawl.page.next)' = Before(crawl.page.next)
      BY <1>0, <2>1 DEF Before
    <2>4. CrawlCovers'
      BY <2>1, <2>3 DEF CrawlCovers, Putting, Done, InPage, ToDo, Tracked, vars
    <2> QED
      BY <2>2, <2>4
  \* Others leave the crawler's put alone
  <1>7. CASE \/ \E d \in Dids : Activate(d)
             \/ \E t \in Writers \ {Me} : OtherCall(t) \/ OtherStep(t)
             \/ UNCHANGED crawlVars
    <2>1. UNCHANGED <<relay, cursor, crawl>> /\ writer'[Me] = writer[Me]
      BY <1>7, OthersLeaveMe
      DEF Activate, OtherCall, OtherStep, WriterStep, crawlVars, vars
    <2>2. \A d \in Dids : Putting(d) => Putting(d)'
      BY <1>1, <2>1 DEF Putting
    <2>3. /\ Before(crawl.pos)' = Before(crawl.pos)
          /\ Before(crawl.page.next)' = Before(crawl.page.next)
          /\ ToDo' = ToDo /\ \A d : InPage(d)' <=> InPage(d)
      BY <2>1 DEF Before, InPage, ToDo
    <2>4. crawl.pc = "putting" => \A d \in Dids : d = Head(ToDo) => Putting(d)'
      BY <2>2 DEF CrawlCovers
    <2>5. CrawlCovers'
      BY <1>3, <1>4, <2>1, <2>3, <2>4 DEF CrawlCovers
    <2> QED
      BY <1>5, <2>1, <2>5
  <1>8. CASE AskFails \/ ProcessDies
    BY <1>5, <1>8 DEF AskFails, ProcessDies, Crawls, Sleeping, CrawlCovers
  <1>9. CASE Wake
    <2>1. crawl' = [pc |-> "ask", pos |-> cursor, page |-> NoPage] /\ UNCHANGED <<relay, cursor>>
      BY <1>9 DEF Wake, Crawls
    <2>2. Before(crawl.pos)' = Before(cursor)
      BY <2>1 DEF Before
    <2>3. CrawlCovers'
      BY <1>2, <2>1, <2>2 DEF CrawlCovers
    <2> QED
      BY <1>5, <2>1, <2>3
  \* What is before the answer is done, what is in front of the next one is in it
  <1>10. CASE Ask
    <2>1. PICK answer \in Answers(crawl.pos) :
            crawl' = [crawl EXCEPT !.pc = "page", !.page = answer]
      BY <1>10 DEF Ask
    <2>2. /\ answer \in PageType /\ answer.next \in Nat
          /\ \A i \in crawl.pos + 1 .. answer.next :
               \E j \in 1 .. Len(answer.todo) : answer.todo[j] = relay[i]
      <3>1. crawl.pos \in 0 .. Len(relay)
        BY <1>0
      <3>2. /\ answer \in PageType
            /\ \A i \in crawl.pos + 1 .. answer.next :
                 \E j \in 1 .. Len(answer.todo) : answer.todo[j] = relay[i]
        BY <3>1, AnswerType
      <3> QED
        BY <3>2 DEF PageType
    <2>3. crawl.pc = "ask" /\ UNCHANGED <<relay, cursor>>
      BY <1>10 DEF Ask, Crawls
    <2>4. crawl'.pc = "page" /\ crawl'.page = answer
      BY <1>0, <2>1
    <2>5. ASSUME NEW d \in Before(crawl.page.next)'
          PROVE  Done(d)' \/ InPage(d)'
      <3>1. PICK i \in 1 .. answer.next : d = relay[i]
        BY <2>3, <2>4, <2>5 DEF Before
      <3>2. CASE i <= crawl.pos
        <4>1. d \in Before(crawl.pos)
          BY <1>0, <3>1, <3>2 DEF Before
        <4> QED
          BY <1>4, <2>3, <4>1
      <3>3. CASE i > crawl.pos
        <4>1. PICK j \in 1 .. Len(answer.todo) : answer.todo[j] = d
          BY <1>0, <2>2, <3>1, <3>3
        <4> QED
          BY <2>4, <4>1 DEF InPage, ToDo
      <3> QED
        BY <1>0, <2>2, <3>2, <3>3
    <2>6. CrawlCovers'
      BY <2>4, <2>5 DEF CrawlCovers
    <2> QED
      BY <1>5, <2>3, <2>6
  <1>11. CASE Skip \/ Queued \/ (Contains /\ main[Head(ToDo)] # NoStatus)
    <2>1. /\ crawl.pc \in {"page", "putting"} /\ ToDo # << >> /\ crawl' = Next_repo
          /\ UNCHANGED <<relay, cursor, main, removed>> /\ skipped \subseteq skipped'
      BY <1>11 DEF Skip, Queued, Contains, Crawls, CrawlType, vars
    <2>2. ASSUME NEW d \in Dids, d = Head(ToDo)
          PROVE  Done(d)'
      <3>1. Tracked(d) \/ d \in removed \cup skipped'
        BY <1>11, <2>1, <2>2 DEF Skip, Queued, Contains, Crawls, CrawlCovers, Putting, Done, Tracked
      <3> QED
        BY <2>1, <3>1 DEF Done, Tracked
    <2>3. CrawlCovers'
      BY <1>3, <2>1, <2>2, NextRepoCovers
    <2> QED
      BY <1>5, <2>1, <2>3
  <1>12. CASE (Contains /\ main[Head(ToDo)] = NoStatus) \/ PutNew
    <2>1. /\ crawl.pc \in {"page", "put"} /\ UNCHANGED <<relay, cursor>>
          /\ \E label \in {"put", "putting"} : crawl' = [crawl EXCEPT !.pc = label]
      BY <1>12 DEF Contains, PutNew, Crawls
    <2>2. /\ crawl'.page = crawl.page /\ crawl'.pc \in {"put", "putting"}
          /\ ToDo' = ToDo /\ \A d : InPage(d)' <=> InPage(d)
      BY <1>0, <2>1 DEF InPage, ToDo
    <2>3. Before(crawl.page.next)' = Before(crawl.page.next)
      BY <2>1, <2>2 DEF Before
    <2>4. ASSUME crawl'.pc = "putting", NEW d \in Dids, d = Head(ToDo)
          PROVE  Putting(d)'
      <3>1. PutGet(Me, Head(ToDo), Pending)
        BY <1>0, <1>12, <2>4 DEF Contains, PutNew, Crawls
      <3>2. writer'[Me].pc \in {"unindexOld", "insertMain"} /\ writer'[Me].did = d
        BY <2>4, <3>1, CrawlerAssumption DEF PutGet, Begin, TypeOK
      <3> QED
        BY <3>2 DEF Putting
    <2>5. CrawlCovers'
      BY <1>3, <2>1, <2>2, <2>3, <2>4 DEF CrawlCovers
    <2> QED
      BY <1>5, <2>1, <2>5
  <1>13. CASE PutStep
    <2>1. UNCHANGED <<relay, cursor, crawl>> /\ crawl.pc = "putting"
      BY <1>13 DEF PutStep, Crawls
    <2>2. /\ Before(crawl.page.next)' = Before(crawl.page.next)
          /\ ToDo' = ToDo /\ \A d : InPage(d)' <=> InPage(d)
      BY <2>1 DEF Before, InPage, ToDo
    <2>3. CrawlCovers'
      BY <1>3, <1>13, <2>1, <2>2, PutStepCovers DEF CrawlCovers
    <2> QED
      BY <1>5, <2>1, <2>3
  \* The page is empty, so everything before the next one is done
  <1>14. CASE EndPage
    <2>1. crawl.pc = "page" /\ ToDo = << >> /\ relay' = relay
      BY <1>14 DEF EndPage, Crawls
    <2>2. \A d \in Before(crawl.page.next) : Done(d)'
      BY <1>3, <2>1, EmptySeq DEF InPage
    <2>3. CASE crawl' = Sleeping /\ cursor' = cursor
      BY <1>5, <2>1, <2>3 DEF Sleeping, CrawlCovers
    <2>4. CASE /\ cursor' = crawl.page.next
               /\ crawl' = [pc |-> "ask", pos |-> crawl.page.next, page |-> NoPage]
      <3>1. /\ Before(cursor)' = Before(crawl.page.next)
            /\ Before(crawl.pos)' = Before(crawl.page.next)
        BY <2>1, <2>4 DEF Before
      <3>2. \A d \in Before(cursor)' : Done(d)'
        BY <2>2, <3>1
      <3>3. CursorCovers'
        BY <3>2 DEF CursorCovers, Before, Done
      <3> QED
        BY <2>2, <2>4, <3>1, <3>3 DEF CrawlCovers
    <2> QED
      BY <1>14, <2>3, <2>4 DEF EndPage
  <1> QED
    BY <1>6, <1>7, <1>8, <1>9, <1>10, <1>11, <1>12, <1>13, <1>14 DEF CrawlNext, CrawlerStep

\* The saved cursor is never ahead of what was done: every repository before it
\* is tracked, unless it was removed since or was inactive on its page.
THEOREM CursorStaysCovered == CrawlSpec => []CursorCovers
  <1> DEFINE IInv == TypeOK /\ CrawlType /\ CursorCovers /\ CrawlCovers
  <1>1. CrawlInit => IInv
    <2> SUFFICES ASSUME CrawlInit PROVE IInv
      OBVIOUS
    <2>1. TypeOK
      BY StatusIndexAssumption DEF CrawlInit, Init, TypeOK, IdleWriter
    <2>2. CursorCovers /\ CrawlCovers
      BY DEF CrawlInit, Sleeping, CursorCovers, CrawlCovers
    <2> QED
      BY <2>1, <2>2, CrawlTypeInit
  <1>2. IInv /\ [CrawlNext]_crawlVars => IInv'
    BY CoverStep, CrawlTypeStep, CrawlStepIsStep, TypeStep
  <1>3. IInv => CursorCovers
    OBVIOUS
  <1> QED
    BY <1>1, <1>2, <1>3, PTL DEF CrawlSpec
=============================================================================
