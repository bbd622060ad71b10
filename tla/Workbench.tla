------------------------------ MODULE Workbench ------------------------------
(***************************************************************************)
(* The pages of the workbench on top of RecordStore: tables of records in  *)
(* browser tabs, the dialogs that move a record along its graph, and the   *)
(* calls they make.                                                        *)
(*                                                                         *)
(* A tab shows the rows of its last answered load, however old.  A dialog  *)
(* keeps the row object it was opened on, and confirming it sends that     *)
(* row's version as expectedVersion.  Nothing cancels a call: a tab may    *)
(* have several loads and transitions under way, their answers come in any *)
(* order, and a call the browser gave up may still reach the server.       *)
(*                                                                         *)
(*   confirm --> sent --> answered 200 --> follow-up load --> dialog shut  *)
(*                 \---> error, dialog stays                               *)
(***************************************************************************)
EXTENDS Naturals, FiniteSets, StatusGraphs, AccessControl

CONSTANTS
  Records, GraphOf, InitialStatusOf, Users, RoleOf, Content, SeedStatus, None,
              \* as in RecordStore
  Kind,       \* the page the tabs are on, and the table it shows
  Tabs,
  UserOf,     \* the user signed in at each tab
  Clicks,     \* the requests confirmed in dialogs
  Calls,      \* requests of other clients
  Refreshes   \* loads from the toolbar, or of a page entered anew

ASSUME WorkbenchAssumption ==
  /\ UserOf \in [Tabs -> Users] /\ RoleOf \in [Users -> Roles]
  /\ Clicks \cap (Calls \cup Refreshes) = {}
  /\ None \notin Tabs \cup Records \cup Clicks \cup Calls \cup Users \cup Content

\* The tabs show records of one table, which the server moves along its graph.
ASSUME TableAssumption ==
  /\ \/ Kind = "bridgeAsset" /\ \A d \in Records : GraphOf[d] = BridgeAssetTransitions
     \/ Kind = "inspectionRound" /\ \A d \in Records : GraphOf[d] = InspectionRoundTransitions
     \/ Kind = "defectFinding" /\ \A d \in Records : GraphOf[d] = DefectFindingTransitions
  /\ \A d \in Records :
       /\ InitialStatusOf[d] \in DOMAIN GraphOf[d]
       /\ SeedStatus[d] \in {"none"} \cup DOMAIN GraphOf[d]

VARIABLES
  rows, audits, req,  \* the server's side: RecordStore
  page,    \* per tab, the rows on screen
  dialog,  \* per tab, the dialog that is open
  busy,    \* per tab, store.loading
  asked,   \* per click, what was sent, from where, and whether it is awaited
  load     \* the loads: of the toolbar, and one that follows each click

server == <<rows, audits, req>>

vars == <<rows, audits, req, page, dialog, busy, asked, load>>

Backend == INSTANCE RecordStore WITH Requests <- Clicks \cup Calls, Ahead <- 0

-----------------------------------------------------------------------------
(* Rows on screen, dialogs, calls *)

NoRow == Backend!NoRow

NoPage == [d \in Records |-> NoRow]

NoDialog == [id |-> None, row |-> NoRow, target |-> "none"]

NotAsked == [st |-> "none", tab |-> None, dialog |-> NoDialog]

NoLoad == [st |-> "none", tab |-> None, seen |-> NoPage]

Init ==
  /\ Backend!Init
  /\ page = [t \in Tabs |-> rows]  \* each tab has loaded the seeds
  /\ dialog = [t \in Tabs |-> NoDialog]
  /\ busy = [t \in Tabs |-> FALSE]
  /\ asked = [r \in Clicks |-> NotAsked]
  /\ load = [x \in Clicks \cup Refreshes |-> NoLoad]

-----------------------------------------------------------------------------
(* Loading *)

\* Both toolbar buttons; a dialog is modal.
Refresh(t, x) ==
  /\ load[x].st = "none" /\ dialog[t] = NoDialog
  /\ busy' = [busy EXCEPT ![t] = TRUE]
  /\ load' = [load EXCEPT ![x] = [NoLoad EXCEPT !.st = "sent", !.tab = t]]
  /\ UNCHANGED <<server, page, dialog, asked>>

\* The server's SELECT.  A search, or the first page, leaves records out.
ServeList(x) ==
  /\ load[x].st = "sent"
  /\ \E found \in SUBSET {d \in Records : Backend!Live(d)} :
       load' = [load EXCEPT ![x].st = "served",
                            ![x].seen = [d \in Records |-> IF d \in found THEN rows[d] ELSE NoRow]]
  /\ UNCHANGED <<server, page, dialog, busy, asked>>

\* The end of the load that follows a click shuts whatever dialog is open.
Shut(x) ==
  dialog' = IF x \in Clicks THEN [dialog EXCEPT ![asked[x].tab] = NoDialog] ELSE dialog

\* Mutant: the indicator is switched off only if the load succeeds.
Idle_OnSuccess(x, shown) == IF shown = page THEN busy ELSE [busy EXCEPT ![load[x].tab] = FALSE]

\* The "finally" of a load.
Idle(x, shown) == [busy EXCEPT ![load[x].tab] = FALSE]

EndLoad(x, shown) ==
  /\ page' = shown
  /\ busy' = Idle(x, shown)
  /\ load' = [load EXCEPT ![x] = [NoLoad EXCEPT !.st = "over"]]
  /\ Shut(x)
  /\ UNCHANGED <<server, asked>>

LoadAnswered(x) ==
  /\ load[x].st = "served"
  /\ EndLoad(x, [page EXCEPT ![load[x].tab] = load[x].seen])

\* The error is shown and the page stays; a click that waits for this load
\* counts as done all the same.
LoadFails(x) ==
  /\ load[x].st \in {"sent", "served"}
  /\ EndLoad(x, page)

-----------------------------------------------------------------------------
(* Dialogs *)

\* The pages' own copy of the transition graphs.
Transitions ==
  [bridgeAsset |->
     [active |-> {"restricted", "closed"}, restricted |-> {"closed", "retired", "active"},
      closed |-> {"retired", "restricted"}, retired |-> {"closed"}],
   inspectionRound |->
     [planned |-> {"running", "review"}, running |-> {"review", "completed", "planned"},
      review |-> {"completed", "running"}, completed |-> {"review"}],
   defectFinding |->
     [new |-> {"verified", "monitoring"}, verified |-> {"monitoring", "mitigated", "new"},
      monitoring |-> {"mitigated", "closed", "verified"}, mitigated |-> {"closed", "monitoring"},
      closed |-> {"mitigated"}]]

\* Mutant: any other status of the page.
AllowedTargets_Any(kind, current) == DOMAIN Transitions[kind] \ {current}

AllowedTargets(kind, current) == Transitions[kind][current]

CanWrite(t) == HasMinimumRole(RoleOf[UserOf[t]], "operator")

TargetsFor(t, d) ==
  IF CanWrite(t) THEN AllowedTargets(Kind, page[t][d].status) ELSE {}

\* The mask over a loading table does not stop the keyboard.
OpenTransition(t) ==
  /\ dialog[t] = NoDialog
  /\ \E d \in {d \in Records : page[t][d] # NoRow} : \E target \in TargetsFor(t, d) :
       dialog' = [dialog EXCEPT ![t] = [id |-> d, row |-> page[t][d], target |-> target]]
  /\ UNCHANGED <<server, page, busy, asked, load>>

Cancel(t) ==
  /\ dialog[t] # NoDialog
  /\ dialog' = [dialog EXCEPT ![t] = NoDialog]
  /\ UNCHANGED <<server, page, busy, asked, load>>

\* The dialog stays open until the answer: it can be confirmed twice.
Confirm(t, r) ==
  /\ dialog[t] # NoDialog /\ asked[r] = NotAsked
  /\ asked' = [asked EXCEPT ![r] = [st |-> "sent", tab |-> t, dialog |-> dialog[t]]]
  /\ busy' = [busy EXCEPT ![t] = TRUE]
  /\ UNCHANGED <<server, page, dialog, load>>

\* The answer is 200: a load follows.
ClickSucceeds(r) ==
  /\ asked[r].st = "sent" /\ req[r].code = 200
  /\ asked' = [asked EXCEPT ![r].st = "over"]
  /\ busy' = [busy EXCEPT ![asked[r].tab] = TRUE]
  /\ load' = [load EXCEPT ![r] = [NoLoad EXCEPT !.st = "sent", !.tab = asked[r].tab]]
  /\ UNCHANGED <<server, page, dialog>>

\* The answer is an error, or none comes; the request may arrive yet.
ClickFails(r) ==
  /\ asked[r].st = "sent"
  /\ asked' = [asked EXCEPT ![r].st = "over"]
  /\ busy' = [busy EXCEPT ![asked[r].tab] = FALSE]
  /\ UNCHANGED <<server, page, dialog, load>>

-----------------------------------------------------------------------------
(* The server *)

\* Mutant: the version the row will have.
SentVersion_Next(row) == row.version + 1

SentVersion(row) == row.version

\* RecordStore's Transition, with what the click sent.
Arrive(r) ==
  /\ asked[r] # NotAsked /\ req[r].pc = "idle"
  /\ LET u       == UserOf[asked[r].tab]
         sent    == asked[r].dialog
         d       == sent.id
         refusal == Backend!TransitionRefusal(u, d, sent.target)
         call    == [Backend!Call("transition", u, d) EXCEPT
                       !.expected = IF refusal = 0 THEN SentVersion(sent.row) ELSE 0,
                       !.content = rows[d].content,
                       !.before = rows[d].status, !.status = sent.target]
     IN  req' = [req EXCEPT ![r] = Backend!Proceed(call, refusal)]
  /\ UNCHANGED <<rows, audits, page, dialog, busy, asked, load>>

\* Once arrived, a request goes its way or fails whatever the browser does.
Serve(r) ==
  /\ r \in Clicks => asked[r] # NotAsked
  /\ Backend!Continue(r) \/ Backend!Fail(r)
  /\ UNCHANGED <<page, dialog, busy, asked, load>>

\* Other clients edit and delete, which the pages do not.
OtherCall(r) ==
  /\ Backend!Update(r) \/ Backend!Delete(r)
  /\ UNCHANGED <<page, dialog, busy, asked, load>>

-----------------------------------------------------------------------------

Loading ==
  \/ \E t \in Tabs, x \in Refreshes : Refresh(t, x)
  \/ \E x \in Clicks \cup Refreshes : ServeList(x) \/ LoadAnswered(x) \/ LoadFails(x)

Deciding == \E t \in Tabs :
  \/ OpenTransition(t) \/ Cancel(t)
  \/ \E r \in Clicks : Confirm(t, r)

Clicked == \E r \in Clicks : ClickSucceeds(r) \/ ClickFails(r) \/ Arrive(r)

Serving ==
  \/ \E r \in Clicks \cup Calls : Serve(r)
  \/ \E r \in Calls : OtherCall(r)

Next == Loading \/ Deciding \/ Clicked \/ Serving

Spec == Init /\ [][Next]_vars

-----------------------------------------------------------------------------
(* Properties *)

\* The pages are clients that never send a version they were not shown, however
\* late or out of order their loads are answered: what is proved and checked of
\* RecordStore with Ahead = 0 holds behind them.  This is Backend!Spec, written so
\* that a step of the browser alone is seen to be a stutter first.
ImplementsInformed == Backend!Init /\ [][server' # server => Backend!Next]_server

\* A transition is applied to the very row its user saw in the dialog, not to
\* one that meanwhile changed status, content or version, although the page may
\* have been stale for long and the request late (expectedVersion: item.version).
ConfirmedRowMoved ==
  [][\A r \in Clicks :
       req[r].pc = "write" /\ req'[r] # req[r] /\ rows' # rows =>
         rows[req[r].id] = asked[r].dialog.row]_vars

\* "Backend routes stay consistent with frontend guards, navigation and buttons"
\* (README): a transition a page offers is refused for the role or the graph
\* only if the row changed since it was shown.
OfferedIsAccepted ==
  \A r \in Clicks :
    req[r].code \in {403, 422} =>
      \/ rows[req[r].id].state = "deleted"
      \/ rows[req[r].id].version > asked[r].dialog.row.version

\* The indicator never stays on with nothing to wait for, however the calls of
\* a tab overlap and fail.
BusyHasCause ==
  \A t \in Tabs : busy[t] =>
    \/ \E r \in Clicks : asked[r].st = "sent" /\ asked[r].tab = t
    \/ \E x \in Clicks \cup Refreshes : load[x].st \in {"sent", "served"} /\ load[x].tab = t

=============================================================================
