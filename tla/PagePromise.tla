---------------------------- MODULE PagePromise ----------------------------
(***************************************************************************)
(* What a client that pages through a query may count on while others      *)
(* write: the pages together hold every record that matched when the first *)
(* was asked for and that nobody has written since, and none of these      *)
(* twice.  Records that are written meanwhile may be missing, or come      *)
(* twice.  An excused listing promises nothing any more.                   *)
(***************************************************************************)
EXTENDS FiniteSets

CONSTANT Uris

VARIABLES
  present,   \* the records that are stored
  matching,  \* those that the query asks for
  touched,   \* those written since the first page was asked for
  answer,    \* what the pages returned so far
  open,      \* are there more pages to ask for?
  excused

vars == <<present, matching, touched, answer, open, excused>>

Steady == matching \ touched

Init ==
  /\ present \subseteq Uris /\ matching \subseteq present
  /\ touched = {} /\ answer = {} /\ open = TRUE /\ excused = FALSE

\* A record is created, changed or deleted between two pages
Write(u) ==
  /\ open
  /\ present' \in {present \cup {u}, present \ {u}}
  /\ matching' \in {matching \cup {u}, matching \ {u}} /\ matching' \subseteq present'
  /\ touched' = touched \cup {u}
  /\ UNCHANGED <<answer, open, excused>>

Page(page) ==
  /\ open
  /\ page \subseteq present
  /\ page \cap answer \cap Steady = {}
  /\ answer' = answer \cup page
  /\ open' \/ Steady \subseteq answer'
  /\ UNCHANGED <<present, matching, touched, excused>>

\* The listing is excused with this page
Excuse ==
  /\ open
  /\ excused'
  /\ UNCHANGED <<present, matching, touched>>

Next ==
  \/ \E u \in Uris : Write(u)
  \/ ~excused /\ \E page \in SUBSET Uris : Page(page)
  \/ Excuse

Spec == Init /\ [][Next]_vars
=============================================================================
