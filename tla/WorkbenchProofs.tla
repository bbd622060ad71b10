---------------------------- MODULE WorkbenchProofs ----------------------------
(***************************************************************************)
(* Theorems about Workbench, for any tabs, users, records, clicks, loads   *)
(* and other clients.  The server's side is taken from the lemmas about    *)
(* RecordStore.                                                            *)
(***************************************************************************)
EXTENDS Workbench, TLAPS

\* The lemmas about RecordStore, for the clicks of the pages and the calls of others,
\* all with versions they were shown.
Store == INSTANCE RecordStoreProofs WITH Requests <- Clicks \cup Calls, Ahead <- 0

-----------------------------------------------------------------------------
(* The server behind the pages *)

\* The assumptions that the lemmas about RecordStore rest on.
LEMMA StoreAssumption ==
  /\ None \notin Records \cup (Clicks \cup Calls) \cup Users \cup Content
  /\ RoleOf \in [Users -> Store!Roles]
  /\ \A d \in Records :
       /\ InitialStatusOf[d] \in DOMAIN GraphOf[d]
       /\ SeedStatus[d] \in {"none"} \cup DOMAIN GraphOf[d]
       /\ "none" \notin DOMAIN GraphOf[d]
       /\ \A s \in DOMAIN GraphOf[d] : GraphOf[d][s] \subseteq DOMAIN GraphOf[d]
  /\ 0 \in Nat
<1>1. Roles = Store!Roles
  BY DEF Roles, Store!Roles, RoleRank, Store!RoleRank
<1>2. ASSUME NEW d \in Records
      PROVE  /\ "none" \notin DOMAIN GraphOf[d]
             /\ \A s \in DOMAIN GraphOf[d] : GraphOf[d][s] \subseteq DOMAIN GraphOf[d]
  BY TableAssumption
  DEF BridgeAssetTransitions, InspectionRoundTransitions, DefectFindingTransitions
<1> QED BY <1>1, <1>2, WorkbenchAssumption, TableAssumption

\* The server of Workbench is that of the lemmas.
LEMMA SameServer ==
  /\ Backend!Next <=> Store!Next
  /\ Backend!Init <=> Store!Init
  /\ \A r : Backend!Continue(r) <=> Store!Continue(r)
  /\ \A r : Backend!Fail(r) <=> Store!Fail(r)
  /\ Store!vars = server
<1>1. /\ \A r : Backend!Arrive(r) <=> Store!Arrive(r)
      /\ \A r : Backend!Continue(r) <=> Store!Continue(r)
      /\ \A r : Backend!Fail(r) <=> Store!Fail(r)
  BY DEF
      Store!Arrive, Backend!Arrive, Store!Continue, Backend!Continue, Store!Fail,
      Backend!Fail, Store!Create, Backend!Create, Store!Update, Backend!Update,
      Store!Transition, Backend!Transition, Store!Delete, Backend!Delete, Store!Read,
      Backend!Read, Store!Write, Backend!Write, Store!AppendAudit, Backend!AppendAudit,
      Store!Reread, Backend!Reread, Store!AuditFails, Backend!AuditFails,
      Store!DatabaseError, Backend!DatabaseError, Store!Crash, Backend!Crash,
      Store!CommitCreate, Backend!CommitCreate, Store!CodeTaken, Backend!CodeTaken,
      Store!CommitUpdate, Backend!CommitUpdate, Store!Conflict, Backend!Conflict,
      Store!CommitDelete, Backend!CommitDelete, Store!DeleteMissed, Backend!DeleteMissed,
      Store!Applied, Backend!Applied, Store!NewRow, Backend!NewRow, Store!Overwritten,
      Backend!Overwritten, Store!Matches, Backend!Matches, Store!AuditEntry,
      Backend!AuditEntry, Store!Audited, Backend!Audited, Store!AuditFailed,
      Backend!AuditFailed, Store!Fetched, Backend!Fetched, Store!Answer, Backend!Answer,
      Store!Refused, Backend!Refused, Store!Proceed, Backend!Proceed, Store!Call,
      Backend!Call, Store!ExpectedVersions, Backend!ExpectedVersions, Store!CreateRefusal,
      Backend!CreateRefusal, Store!UpdateRefusal, Backend!UpdateRefusal,
      Store!TransitionRefusal, Backend!TransitionRefusal, Store!DeleteRefusal,
      Backend!DeleteRefusal, Store!Live, Backend!Live, Store!StatusesOf, Backend!StatusesOf,
      Store!Idle, Backend!Idle, Store!NoRow, Backend!NoRow, Store!InFlight,
      Backend!InFlight, Store!HasMinimumRole, Backend!HasMinimumRole, Store!HasOneOf,
      Backend!HasOneOf, Store!RoleRank, Backend!RoleRank, Store!CanTransition,
      Backend!CanTransition
<1>2. Backend!Init <=> Store!Init
  BY DEF Backend!Init, Store!Init, Backend!SeedRow, Store!SeedRow, Backend!NoRow, Store!NoRow,
         Backend!Idle, Store!Idle
<1>3. Store!vars = server
  BY DEF Store!vars, server
<1> QED BY <1>1, <1>2, <1>3 DEF Backend!Next, Store!Next

-----------------------------------------------------------------------------
(* The inductive invariant *)

\* The rows a tab shows.
Page == [Records -> Store!Row \cup {NoRow}]

\* The confirmation dialog: the record, the row it shows and the status it offers.
Dialog == [id : Records \cup {None}, row : Store!Row \cup {NoRow},
           target : Store!Statuses \cup {"none"}]

\* A click, as its tab follows it.
Ask == [st : {"none", "sent", "over"}, tab : Tabs \cup {None}, dialog : Dialog]

\* A load, as its tab follows it, and the rows it was answered.
Load == [st : {"none", "sent", "served", "over"}, tab : Tabs \cup {None}, seen : Page]

\* The types of the browser's variables.
Typed ==
  /\ page \in [Tabs -> Page]
  /\ dialog \in [Tabs -> Dialog]
  /\ busy \in [Tabs -> BOOLEAN]
  /\ asked \in [Clicks -> Ask]
  /\ load \in [Clicks \cup Refreshes -> Load]

\* The row was stored as it is, and the stored row now is this one or a newer.
Past(row, now) ==
  /\ row \in Store!Row /\ now \in Store!Row
  /\ row.state = "live" /\ row.version <= now.version
  /\ row.version = now.version => row.status = now.status /\ row.content = now.content

\* This row can be shown of record d.
Shown(tables, d, row) == row # NoRow => Past(row, tables[d]) /\ row.status \in DOMAIN GraphOf[d]

\* Tab t can offer what this dialog says.
Offered(tables, t, dlg) ==
  /\ t \in Tabs /\ dlg.id \in Records
  /\ dlg.row # NoRow /\ Shown(tables, dlg.id, dlg.row)
  /\ CanWrite(t) /\ dlg.target \in AllowedTargets(Kind, dlg.row.status)

\* Whatever a tab shows, has loaded, offers or has sent is a past of the tables.
Screens ==
  /\ \A t \in Tabs, d \in Records : Shown(rows, d, page[t][d])
  /\ \A t \in Tabs : dialog[t] # NoDialog => Offered(rows, t, dialog[t])
  /\ \A r \in Clicks :
       asked[r] # NotAsked => asked[r].st # "none" /\ Offered(rows, asked[r].tab, asked[r].dialog)
  /\ \A x \in Clicks \cup Refreshes, d \in Records : Shown(rows, d, load[x].seen[d])

\* A request from a page is about what its dialog showed.
Meant(tables, call, ask) ==
  /\ ask = NotAsked => call.pc = "idle"
  /\ call.pc = "write" =>
       /\ call.op = "transition" /\ call.id = ask.dialog.id
       /\ call.expected = ask.dialog.row.version
  /\ call.code \in {403, 422} =>
       /\ call.id = ask.dialog.id
       /\ \/ tables[ask.dialog.id].state = "deleted"
          \/ tables[ask.dialog.id].version > ask.dialog.row.version

\* What holds always of pages and server.
Inv ==
  /\ Store!TypeOK /\ Typed /\ Screens
  /\ \A r \in Clicks : Meant(rows, req[r], asked[r])

\* The pages' copies of the graphs are those of the server.
LEMMA SameGraph ==
  ASSUME NEW d \in Records, NEW s \in DOMAIN GraphOf[d]
  PROVE  /\ AllowedTargets(Kind, s) = GraphOf[d][s]
         /\ AllowedTargets(Kind, s) \subseteq DOMAIN GraphOf[d]
<1>1. GraphOf[d] = Transitions[Kind]
  <2>1. Transitions["bridgeAsset"] = BridgeAssetTransitions
    BY DEF Transitions, BridgeAssetTransitions
  <2>2. Transitions["inspectionRound"] = InspectionRoundTransitions
    BY DEF Transitions, InspectionRoundTransitions
  <2>3. Transitions["defectFinding"] = DefectFindingTransitions
    BY DEF Transitions, DefectFindingTransitions
  <2> QED BY <2>1, <2>2, <2>3, TableAssumption
<1>2. \A u \in DOMAIN GraphOf[d] : GraphOf[d][u] \subseteq DOMAIN GraphOf[d]
  BY StoreAssumption
<1> QED BY <1>1, <1>2 DEF AllowedTargets

\* A live row can be shown.
LEMMA LiveShown ==
  ASSUME Store!TypeOK, NEW d \in Records, rows[d].state = "live"
  PROVE  Shown(rows, d, rows[d])
<1>1. rows[d] \in Store!Row
  BY DEF Store!TypeOK, Store!NoRow
<1>2. rows[d].version \in Nat /\ rows[d].status \in Store!Statuses
  BY <1>1 DEF Store!Row
<1>3. "none" \notin Store!Statuses
  BY StoreAssumption DEF Store!Statuses, Store!StatusesOf
<1>4. rows[d].status \in DOMAIN GraphOf[d]
  BY <1>2, <1>3 DEF Store!TypeOK, Store!StatusesOf
<1> QED BY <1>1, <1>2, <1>4 DEF Shown, Past

\* A past of the tables stays one, and no table loses a row or brings one back.
LEMMA PastKept ==
  ASSUME Store!TypeOK, [Store!Next]_(Store!vars)
  PROVE  /\ Store!TypeOK'
         /\ \A d \in Records : \A row : Shown(rows, d, row) => Shown(rows', d, row)
         /\ \A d \in Records : rows[d] \in Store!Row =>
              /\ rows'[d] \in Store!Row /\ rows'[d].version >= rows[d].version
              /\ rows[d].state = "deleted" => rows'[d].state = "deleted"
<1>1. Store!TypeOK'
  BY StoreAssumption, Store!NextType
<1>2. \A d \in Records : rows[d] \in Store!Row =>
        /\ rows'[d] \in Store!Row
        /\ rows[d].state = "deleted" => rows'[d].state = "deleted"
        /\ \/ rows'[d].version = rows[d].version + 1
           \/ /\ rows'[d].version = rows[d].version
              /\ rows'[d].status = rows[d].status
              /\ rows'[d].content = rows[d].content
  BY StoreAssumption, Store!RowsAdvance
<1>3. \A row \in Store!Row : row.version \in Nat
  BY DEF Store!Row
<1>4. \A d \in Records : \A row : Past(row, rows[d]) => Past(row, rows'[d])
  BY <1>2, <1>3 DEF Past
<1>5. \A d \in Records : rows[d] \in Store!Row =>
        rows'[d] \in Store!Row /\ rows'[d].version >= rows[d].version
  BY <1>2, <1>3
<1>6. \A d \in Records : \A row : Shown(rows, d, row) => Shown(rows', d, row)
  BY <1>4 DEF Shown
<1> QED BY <1>1, <1>2, <1>5, <1>6

-----------------------------------------------------------------------------
(* What reaches the server *)

\* A click arrives as a transition to a status of the table, by a writer, of the
\* version on screen.
LEMMA ClickArrives ==
  ASSUME Inv, NEW r \in Clicks, Arrive(r)
  PROVE  /\ Offered(rows, asked[r].tab, asked[r].dialog)
         /\ req[r].pc = "idle" /\ UNCHANGED rows
         /\ Backend!Transition(r)
<1> DEFINE u == UserOf[asked[r].tab]
           sent == asked[r].dialog
           d == sent.id
           v == IF Backend!TransitionRefusal(u, d, sent.target) = 0
                THEN SentVersion(sent.row) ELSE 0
<1>1. Offered(rows, asked[r].tab, sent) /\ req[r].pc = "idle"
  BY DEF Inv, Screens, Arrive
<1>2. u \in Users /\ d \in Records /\ sent.target \in Backend!StatusesOf(d)
  BY <1>1, WorkbenchAssumption, SameGraph DEF Offered, Shown, Backend!StatusesOf
<1>3. v \in IF Backend!TransitionRefusal(u, d, sent.target) = 0
            THEN Backend!ExpectedVersions(d) ELSE {0}
  <2>1. /\ sent.row.version \in Nat \ {0} /\ rows[d].version \in Nat
        /\ sent.row.version <= rows[d].version
    BY <1>1 DEF Offered, Shown, Past, Store!Row
  <2>2. sent.row.version \in Backend!ExpectedVersions(d)
    BY <2>1 DEF Backend!ExpectedVersions
  <2> QED BY <2>2 DEF SentVersion
<1>4. /\ req' = [req EXCEPT ![r] = Backend!Proceed(
                   [Backend!Call("transition", u, d) EXCEPT
                      !.expected = v, !.content = rows[d].content,
                      !.before = rows[d].status, !.status = sent.target],
                   Backend!TransitionRefusal(u, d, sent.target))]
      /\ UNCHANGED <<rows, audits>>
  BY DEF Arrive
<1> HIDE DEF v, u
<1>5. Backend!Transition(r)
  BY <1>1, <1>2, <1>3, <1>4, ZenonT(30) DEF Backend!Transition
<1> QED BY <1>1, <1>4, <1>5

\* The pages and the other clients are clients of the tables that name versions
\* they were shown.
LEMMA ServerStep ==
  ASSUME Inv, [Next]_vars
  PROVE  [Store!Next]_(Store!vars)
<1>1. ASSUME NEW r \in Clicks, Arrive(r)
      PROVE  Backend!Next
  BY <1>1, ClickArrives DEF Backend!Next, Backend!Arrive
<1>2. ASSUME NEW r \in Clicks \cup Calls, Serve(r)
      PROVE  Backend!Next
  BY <1>2 DEF Serve, Backend!Next
<1>3. ASSUME NEW r \in Calls, OtherCall(r)
      PROVE  Backend!Next
  BY <1>3 DEF OtherCall, Backend!Next, Backend!Arrive
<1>4. UNCHANGED vars => UNCHANGED server
  BY DEF vars, server
<1>5. ASSUME NEW t \in Tabs, NEW x, Refresh(t, x) \/ OpenTransition(t) \/ Cancel(t) \/ Confirm(t, x)
      PROVE  UNCHANGED server
  BY <1>5 DEF Refresh, OpenTransition, Cancel, Confirm
<1>6. ASSUME NEW x, ServeList(x) \/ LoadAnswered(x) \/ LoadFails(x)
      PROVE  UNCHANGED server
  BY <1>6 DEF ServeList, LoadAnswered, LoadFails, EndLoad
<1>7. ASSUME NEW r, ClickSucceeds(r) \/ ClickFails(r)
      PROVE  UNCHANGED server
  BY <1>7 DEF ClickSucceeds, ClickFails
<1>8. Backend!Next \/ UNCHANGED server
  BY <1>1, <1>2, <1>3, <1>4, <1>5, <1>6, <1>7
  DEF Next, Loading, Deciding, Clicked, Serving, vars, server
<1> QED BY <1>8, SameServer DEF Store!vars, server

-----------------------------------------------------------------------------
(* What a step does to the browser *)

\* What is blank is typed and shows nothing.
LEMMA Blanks ==
  /\ NoRow = Store!NoRow
  /\ NoPage \in Page /\ \A d \in Records : NoPage[d] = NoRow
  /\ NoDialog \in Dialog /\ NoDialog.row = NoRow
  /\ NotAsked \in Ask /\ NotAsked.st = "none" /\ NotAsked.dialog = NoDialog
  /\ NoLoad \in Load /\ NoLoad.st = "none" /\ NoLoad.seen = NoPage
<1>1. NoRow = Store!NoRow
  BY DEF NoRow, Backend!NoRow, Store!NoRow
<1>2. NoPage \in Page /\ \A d \in Records : NoPage[d] = NoRow
  BY DEF NoPage, Page
<1>3. NoDialog \in Dialog /\ NoDialog.row = NoRow
  BY DEF NoDialog, Dialog
<1>4. NotAsked \in Ask /\ NotAsked.st = "none" /\ NotAsked.dialog = NoDialog
  BY <1>3 DEF NotAsked, Ask
<1>5. NoLoad \in Load /\ NoLoad.st = "none" /\ NoLoad.seen = NoPage
  BY <1>2 DEF NoLoad, Load
<1> QED BY <1>1, <1>2, <1>3, <1>4, <1>5

\* The states that a call and a load go through.
LEMMA CallForms ==
  /\ \A a \in Ask : LET b == [a EXCEPT !.st = "over"]
                    IN  b \in Ask /\ b.st = "over" /\ b.tab = a.tab /\ b.dialog = a.dialog
  /\ \A t \in Tabs, g \in Dialog :
       LET b == [st |-> "sent", tab |-> t, dialog |-> g]
       IN  b \in Ask /\ b.st = "sent" /\ b.tab = t /\ b.dialog = g
  /\ \A t \in Tabs : LET k == [NoLoad EXCEPT !.st = "sent", !.tab = t]
                    IN  k \in Load /\ k.st = "sent" /\ k.tab = t /\ k.seen = NoPage
  /\ LET k == [NoLoad EXCEPT !.st = "over"]
     IN  k \in Load /\ k.st = "over" /\ k.seen = NoPage
  /\ \A l \in Load, seen \in Page :
       LET k == [l EXCEPT !.st = "served", !.seen = seen]
       IN  k \in Load /\ k.st = "served" /\ k.tab = l.tab /\ k.seen = seen
<1>1. \A a \in Ask : LET b == [a EXCEPT !.st = "over"]
                    IN  b \in Ask /\ b.st = "over" /\ b.tab = a.tab /\ b.dialog = a.dialog
  BY DEF Ask
<1>2. \A t \in Tabs, g \in Dialog :
       LET b == [st |-> "sent", tab |-> t, dialog |-> g]
       IN  b \in Ask /\ b.st = "sent" /\ b.tab = t /\ b.dialog = g
  BY DEF Ask
<1>3. \A l \in Load, t \in Tabs :
       LET k == [l EXCEPT !.st = "sent", !.tab = t]
       IN  k \in Load /\ k.st = "sent" /\ k.tab = t /\ k.seen = l.seen
  BY DEF Load
<1>4. \A l \in Load :
       LET k == [l EXCEPT !.st = "over"]
       IN  k \in Load /\ k.st = "over" /\ k.seen = l.seen
  BY DEF Load
<1>5. \A l \in Load, seen \in Page :
       LET k == [l EXCEPT !.st = "served", !.seen = seen]
       IN  k \in Load /\ k.st = "served" /\ k.tab = l.tab /\ k.seen = seen
  BY DEF Load
<1>6. NoLoad \in Load /\ NoLoad.seen = NoPage
  BY Blanks
<1>7. \A t \in Tabs : LET k == [NoLoad EXCEPT !.st = "sent", !.tab = t]
                    IN  k \in Load /\ k.st = "sent" /\ k.tab = t /\ k.seen = NoPage
  BY <1>3, <1>6
<1>8. LET k == [NoLoad EXCEPT !.st = "over"]
      IN  k \in Load /\ k.st = "over" /\ k.seen = NoPage
  BY <1>4, <1>6
<1> QED BY <1>1, <1>2, <1>5, <1>7, <1>8

\* What the loads do.
LEMMA LoadsDo ==
  ASSUME Store!TypeOK, Typed, NEW x \in Clicks \cup Refreshes
  PROVE  /\ \A t \in Tabs : Refresh(t, x) =>
              /\ load[x].st = "none" /\ busy' = [busy EXCEPT ![t] = TRUE]
              /\ UNCHANGED <<server, page, dialog, asked>>
              /\ \E k \in Load : /\ load' = [load EXCEPT ![x] = k]
                                /\ k.st = "sent" /\ k.tab = t /\ k.seen = NoPage
         /\ ServeList(x) =>
              /\ load[x].st = "sent" /\ UNCHANGED <<server, page, dialog, busy, asked>>
              /\ \E k \in Load : /\ load' = [load EXCEPT ![x] = k]
                                /\ k.st = "served" /\ k.tab = load[x].tab
                                /\ \A d \in Records :
                                     k.seen[d] # NoRow =>
                                       k.seen[d] = rows[d] /\ rows[d].state = "live"
         /\ LoadAnswered(x) \/ LoadFails(x) =>
              /\ load[x].st \in {"sent", "served"}
              /\ busy' = [busy EXCEPT ![load[x].tab] = FALSE]
              /\ UNCHANGED <<server, asked>>
              /\ page' = page \/ page' = [page EXCEPT ![load[x].tab] = load[x].seen]
              /\ dialog' = dialog \/ \E t : dialog' = [dialog EXCEPT ![t] = NoDialog]
              /\ \E k \in Load : /\ load' = [load EXCEPT ![x] = k]
                                /\ k.st = "over" /\ k.seen = NoPage
<1>1. load \in [Clicks \cup Refreshes -> Load] /\ load[x] \in Load
  BY DEF Typed
<1>2. ASSUME NEW t \in Tabs, Refresh(t, x)
      PROVE  /\ load[x].st = "none" /\ busy' = [busy EXCEPT ![t] = TRUE]
             /\ UNCHANGED <<server, page, dialog, asked>>
             /\ \E k \in Load : /\ load' = [load EXCEPT ![x] = k]
                               /\ k.st = "sent" /\ k.tab = t /\ k.seen = NoPage
  <2> DEFINE k == [NoLoad EXCEPT !.st = "sent", !.tab = t]
  <2>1. k \in Load /\ k.st = "sent" /\ k.tab = t /\ k.seen = NoPage
    BY CallForms
  <2>2. load' = [load EXCEPT ![x] = k]
    BY <1>2 DEF Refresh
  <2> HIDE DEF k
  <2> QED BY <1>2, <2>1, <2>2 DEF Refresh
<1>3. ASSUME ServeList(x)
      PROVE  /\ load[x].st = "sent" /\ UNCHANGED <<server, page, dialog, busy, asked>>
             /\ \E k \in Load : /\ load' = [load EXCEPT ![x] = k]
                               /\ k.st = "served" /\ k.tab = load[x].tab
                               /\ \A d \in Records :
                                    k.seen[d] # NoRow =>
                                      k.seen[d] = rows[d] /\ rows[d].state = "live"
  <2>1. PICK found \in SUBSET {d \in Records : Backend!Live(d)} :
          load' = [load EXCEPT ![x].st = "served",
                     ![x].seen = [d \in Records |-> IF d \in found THEN rows[d] ELSE NoRow]]
    BY <1>3 DEF ServeList
  <2> DEFINE seen == [d \in Records |-> IF d \in found THEN rows[d] ELSE NoRow]
             k == [load[x] EXCEPT !.st = "served", !.seen = seen]
  <2>2. seen \in Page
    BY Blanks DEF Page, Store!TypeOK
  <2>3. \A d \in Records : seen[d] # NoRow => seen[d] = rows[d] /\ rows[d].state = "live"
    BY DEF Backend!Live
  <2>4. load' = [load EXCEPT ![x] = k]
    BY <2>1
  <2> HIDE DEF seen
  <2>5. k \in Load /\ k.st = "served" /\ k.tab = load[x].tab /\ k.seen = seen
    BY <1>1, <2>2 DEF Load
  <2> HIDE DEF k
  <2>6. \A d \in Records : k.seen[d] # NoRow => k.seen[d] = rows[d] /\ rows[d].state = "live"
    BY <2>3, <2>5
  <2> QED BY <1>3, <2>4, <2>5, <2>6 DEF ServeList
<1>4. ASSUME LoadAnswered(x) \/ LoadFails(x)
      PROVE  /\ load[x].st \in {"sent", "served"}
             /\ busy' = [busy EXCEPT ![load[x].tab] = FALSE]
             /\ UNCHANGED <<server, asked>>
             /\ page' = page \/ page' = [page EXCEPT ![load[x].tab] = load[x].seen]
             /\ dialog' = dialog \/ \E t : dialog' = [dialog EXCEPT ![t] = NoDialog]
             /\ \E k \in Load : /\ load' = [load EXCEPT ![x] = k]
                               /\ k.st = "over" /\ k.seen = NoPage
  <2> DEFINE k == [NoLoad EXCEPT !.st = "over"]
  <2>1. k \in Load /\ k.st = "over" /\ k.seen = NoPage
    BY CallForms
  <2>2. load' = [load EXCEPT ![x] = k] /\ Shut(x)
    BY <1>4 DEF LoadAnswered, LoadFails, EndLoad
  <2> HIDE DEF k
  <2>3. dialog' = dialog \/ \E t : dialog' = [dialog EXCEPT ![t] = NoDialog]
    BY <2>2 DEF Shut
  <2> QED BY <1>4, <2>1, <2>2, <2>3 DEF LoadAnswered, LoadFails, EndLoad, Idle
<1> QED BY <1>2, <1>3, <1>4

\* What the clicks do.
LEMMA ClicksDo ==
  ASSUME Typed, NEW r \in Clicks
  PROVE  /\ \A t \in Tabs : Confirm(t, r) =>
              /\ dialog[t] # NoDialog /\ asked[r] = NotAsked
              /\ busy' = [busy EXCEPT ![t] = TRUE]
              /\ UNCHANGED <<server, page, dialog, load>>
              /\ \E a \in Ask : /\ asked' = [asked EXCEPT ![r] = a]
                               /\ a.st = "sent" /\ a.tab = t /\ a.dialog = dialog[t]
         /\ ClickSucceeds(r) \/ ClickFails(r) =>
              /\ asked[r].st = "sent" /\ UNCHANGED <<server, page, dialog>>
              /\ \E a \in Ask : /\ asked' = [asked EXCEPT ![r] = a] /\ a.st = "over"
                               /\ a.tab = asked[r].tab /\ a.dialog = asked[r].dialog
         /\ ClickSucceeds(r) /\ asked[r].tab \in Tabs =>
              /\ busy' = [busy EXCEPT ![asked[r].tab] = TRUE]
              /\ \E k \in Load : /\ load' = [load EXCEPT ![r] = k] /\ k.st = "sent"
                                /\ k.tab = asked[r].tab /\ k.seen = NoPage
         /\ ClickFails(r) => load' = load /\ busy' = [busy EXCEPT ![asked[r].tab] = FALSE]
<1>1. asked \in [Clicks -> Ask] /\ asked[r] \in Ask
  BY DEF Typed
<1>2. ASSUME NEW t \in Tabs, Confirm(t, r)
      PROVE  \E a \in Ask : /\ asked' = [asked EXCEPT ![r] = a]
                          /\ a.st = "sent" /\ a.tab = t /\ a.dialog = dialog[t]
  <2> DEFINE a == [st |-> "sent", tab |-> t, dialog |-> dialog[t]]
  <2>1. a \in Ask /\ a.st = "sent" /\ a.tab = t /\ a.dialog = dialog[t]
    BY DEF Ask, Typed
  <2>2. asked' = [asked EXCEPT ![r] = a]
    BY <1>2 DEF Confirm
  <2> HIDE DEF a
  <2> QED BY <2>1, <2>2
<1>3. ASSUME ClickSucceeds(r) \/ ClickFails(r)
      PROVE  \E a \in Ask : /\ asked' = [asked EXCEPT ![r] = a] /\ a.st = "over"
                          /\ a.tab = asked[r].tab /\ a.dialog = asked[r].dialog
  <2> DEFINE a == [asked[r] EXCEPT !.st = "over"]
  <2>1. a \in Ask /\ a.st = "over" /\ a.tab = asked[r].tab /\ a.dialog = asked[r].dialog
    BY <1>1, CallForms
  <2>2. asked' = [asked EXCEPT ![r] = a]
    BY <1>3 DEF ClickSucceeds, ClickFails
  <2> HIDE DEF a
  <2> QED BY <2>1, <2>2
<1>4. ASSUME ClickSucceeds(r), asked[r].tab \in Tabs
      PROVE  \E k \in Load : /\ load' = [load EXCEPT ![r] = k] /\ k.st = "sent"
                           /\ k.tab = asked[r].tab /\ k.seen = NoPage
  <2> DEFINE k == [NoLoad EXCEPT !.st = "sent", !.tab = asked[r].tab]
  <2>1. k \in Load /\ k.st = "sent" /\ k.tab = asked[r].tab /\ k.seen = NoPage
    BY <1>4, CallForms
  <2>2. load' = [load EXCEPT ![r] = k]
    BY <1>4 DEF ClickSucceeds
  <2> HIDE DEF k
  <2> QED BY <2>1, <2>2
<1> QED BY <1>2, <1>3, <1>4 DEF Confirm, ClickSucceeds, ClickFails

\* A dialog opens on a row of the page and a target of its status.
LEMMA DialogsDo ==
  ASSUME Typed, Screens, NEW t \in Tabs
  PROVE  /\ OpenTransition(t) =>
              /\ UNCHANGED <<server, page, busy, asked, load>>
              /\ \E g \in Dialog : dialog' = [dialog EXCEPT ![t] = g] /\ Offered(rows, t, g)
         /\ Cancel(t) =>
              /\ UNCHANGED <<server, page, busy, asked, load>>
              /\ dialog' = [dialog EXCEPT ![t] = NoDialog]
<1>1. ASSUME OpenTransition(t)
      PROVE  \E g \in Dialog : dialog' = [dialog EXCEPT ![t] = g] /\ Offered(rows, t, g)
  <2>0. PICK d \in {d \in Records : page[t][d] # NoRow} : \E target \in TargetsFor(t, d) :
          dialog' = [dialog EXCEPT ![t] = [id |-> d, row |-> page[t][d], target |-> target]]
    BY <1>1 DEF OpenTransition
  <2>1. PICK target \in TargetsFor(t, d) :
          dialog' = [dialog EXCEPT ![t] = [id |-> d, row |-> page[t][d], target |-> target]]
    BY <2>0
  <2>2. /\ d \in Records /\ page[t][d] # NoRow
        /\ page[t][d] \in Store!Row \cup {NoRow}
        /\ Shown(rows, d, page[t][d])
    BY DEF Typed, Page, Screens
  <2>3. CanWrite(t) /\ target \in AllowedTargets(Kind, page[t][d].status)
    BY <2>1 DEF TargetsFor
  <2>4. /\ page[t][d].status \in DOMAIN GraphOf[d]
        /\ target \in DOMAIN GraphOf[d]
    BY <2>1, <2>2, <2>3, SameGraph DEF Shown
  <2>5. target \in Store!Statuses
    BY <2>4 DEF Store!Statuses, Store!StatusesOf
  <2> DEFINE g == [id |-> d, row |-> page[t][d], target |-> target]
  <2>6. g \in Dialog /\ g.id = d /\ g.row = page[t][d] /\ g.target = target
    BY <2>2, <2>5 DEF Dialog
  <2> HIDE DEF g
  <2>7. Offered(rows, t, g)
    BY <2>1, <2>2, <2>3, <2>6 DEF Offered
  <2> QED BY <2>1, <2>6, <2>7 DEF g
<1> QED BY <1>1 DEF OpenTransition, Cancel

\* A server's step leaves the browser alone.
LEMMA ServerAlone ==
  ASSUME NEW r, Arrive(r) \/ Serve(r) \/ OtherCall(r)
  PROVE  UNCHANGED <<page, dialog, busy, asked, load>>
  BY DEF Arrive, Serve, OtherCall

\* How each variable of the browser changes.
LEMMA BrowserChanges ==
  ASSUME Inv, [Next]_vars
  PROVE  /\ \/ page' = page
            \/ \E x \in Clicks \cup Refreshes :
                 page' = [page EXCEPT ![load[x].tab] = load[x].seen]
         /\ \/ dialog' = dialog
            \/ \E t : dialog' = [dialog EXCEPT ![t] = NoDialog]
            \/ \E t \in Tabs, g \in Dialog :
                 dialog' = [dialog EXCEPT ![t] = g] /\ Offered(rows, t, g)
         /\ busy' = busy \/ \E t : \E b \in BOOLEAN : busy' = [busy EXCEPT ![t] = b]
         /\ \/ asked' = asked
            \/ \E r \in Clicks, a \in Ask :
                 /\ asked' = [asked EXCEPT ![r] = a] /\ a.st # "none"
                 /\ \/ /\ asked[r] # NotAsked
                       /\ a.tab = asked[r].tab /\ a.dialog = asked[r].dialog
                    \/ /\ asked[r] = NotAsked /\ a.tab \in Tabs
                       /\ dialog[a.tab] # NoDialog /\ a.dialog = dialog[a.tab]
         /\ \/ load' = load
            \/ \E x \in Clicks \cup Refreshes, k \in Load :
                 /\ load' = [load EXCEPT ![x] = k]
                 /\ \A d \in Records :
                      k.seen[d] # NoRow =>
                        k.seen[d] = rows[d] /\ rows[d].state = "live"
<1>0. Store!TypeOK /\ Typed /\ Screens
  BY DEF Inv
<1> DEFINE
      Pages == \/ page' = page
               \/ \E x \in Clicks \cup Refreshes :
                    page' = [page EXCEPT ![load[x].tab] = load[x].seen]
      Dialogs == \/ dialog' = dialog
                 \/ \E t : dialog' = [dialog EXCEPT ![t] = NoDialog]
                 \/ \E t \in Tabs, g \in Dialog :
                      dialog' = [dialog EXCEPT ![t] = g] /\ Offered(rows, t, g)
      Lights == busy' = busy \/ \E t : \E b \in BOOLEAN : busy' = [busy EXCEPT ![t] = b]
      Asks == \/ asked' = asked
              \/ \E r \in Clicks, a \in Ask :
                   /\ asked' = [asked EXCEPT ![r] = a] /\ a.st # "none"
                   /\ \/ /\ asked[r] # NotAsked
                         /\ a.tab = asked[r].tab /\ a.dialog = asked[r].dialog
                      \/ /\ asked[r] = NotAsked /\ a.tab \in Tabs
                         /\ dialog[a.tab] # NoDialog /\ a.dialog = dialog[a.tab]
      Loads == \/ load' = load
               \/ \E x \in Clicks \cup Refreshes, k \in Load :
                    /\ load' = [load EXCEPT ![x] = k]
                    /\ \A d \in Records :
                         k.seen[d] # NoRow =>
                           k.seen[d] = rows[d] /\ rows[d].state = "live"
<1>1. ASSUME NEW x \in Clicks \cup Refreshes,
             (\E t \in Tabs : Refresh(t, x)) \/ ServeList(x) \/ LoadAnswered(x) \/ LoadFails(x)
      PROVE  Pages /\ Dialogs /\ Lights /\ Asks /\ Loads
  <2>1. Pages /\ asked' = asked
    BY <1>0, <1>1, LoadsDo
  <2>2. Dialogs
    BY <1>0, <1>1, LoadsDo
  <2>3. Lights
    BY <1>0, <1>1, LoadsDo
  <2>4. Loads
    BY <1>0, <1>1, LoadsDo, Blanks
  <2> QED BY <2>1, <2>2, <2>3, <2>4
<1>2. ASSUME NEW t \in Tabs, OpenTransition(t) \/ Cancel(t)
      PROVE  Pages /\ Dialogs /\ Lights /\ Asks /\ Loads
  BY <1>0, <1>2, DialogsDo
<1>3. ASSUME NEW t \in Tabs, NEW r \in Clicks, Confirm(t, r)
      PROVE  Pages /\ Dialogs /\ Lights /\ Asks /\ Loads
  <2>1. PICK a \in Ask : /\ asked' = [asked EXCEPT ![r] = a]
                         /\ a.st = "sent" /\ a.tab = t /\ a.dialog = dialog[t]
    BY <1>0, <1>3, ClicksDo
  <2>2. /\ dialog[t] # NoDialog /\ asked[r] = NotAsked
        /\ busy' = [busy EXCEPT ![t] = TRUE]
        /\ UNCHANGED <<page, dialog, load>>
    BY <1>0, <1>3, ClicksDo
  <2>3. Asks
    BY <2>1, <2>2
  <2>4. Pages /\ Dialogs /\ Lights /\ Loads
    BY <2>2
  <2> QED BY <2>3, <2>4
<1>4. ASSUME NEW r \in Clicks, ClickSucceeds(r) \/ ClickFails(r)
      PROVE  Pages /\ Dialogs /\ Lights /\ Asks /\ Loads
  <2>1. asked[r] # NotAsked /\ asked[r].tab \in Tabs
    BY <1>0, <1>4, ClicksDo, Blanks DEF Screens, Offered
  <2>2. Pages /\ Dialogs /\ Asks
    BY <1>0, <1>4, <2>1, ClicksDo
  <2>3. Loads
    BY <1>0, <1>4, <2>1, ClicksDo, Blanks
  <2>4. Lights
    BY <1>0, <1>4, <2>1, ClicksDo
  <2> QED BY <2>2, <2>3, <2>4
<1>5. ASSUME UNCHANGED <<page, dialog, busy, asked, load>>
      PROVE  Pages /\ Dialogs /\ Lights /\ Asks /\ Loads
  BY <1>5
<1> SUFFICES Pages /\ Dialogs /\ Lights /\ Asks /\ Loads
  OBVIOUS
<1> HIDE DEF Pages, Dialogs, Lights, Asks, Loads
<1>6. CASE Loading
  BY <1>1, <1>6 DEF Loading
<1>7. CASE Deciding
  BY <1>2, <1>3, <1>7 DEF Deciding
<1>8. CASE Clicked
  BY <1>4, <1>5, <1>8, ServerAlone DEF Clicked
<1>9. CASE Serving
  BY <1>5, <1>9, ServerAlone DEF Serving
<1>10. CASE UNCHANGED vars
  BY <1>5, <1>10 DEF vars
<1> QED BY <1>6, <1>7, <1>8, <1>9, <1>10 DEF Next

\* Every variable of the browser keeps its type.
LEMMA TypedStep ==
  ASSUME Inv, [Next]_vars
  PROVE  Typed'
<1>0. /\ page \in [Tabs -> Page] /\ dialog \in [Tabs -> Dialog]
      /\ busy \in [Tabs -> BOOLEAN] /\ asked \in [Clicks -> Ask]
      /\ load \in [Clicks \cup Refreshes -> Load]
  BY DEF Inv, Typed
<1>1. page' \in [Tabs -> Page]
  <2>1. \A x \in Clicks \cup Refreshes : load[x].seen \in Page
    BY <1>0 DEF Load
  <2>2. \/ page' = page
        \/ \E x \in Clicks \cup Refreshes : page' = [page EXCEPT ![load[x].tab] = load[x].seen]
    BY BrowserChanges
  <2> QED BY <1>0, <2>1, <2>2
<1>2. dialog' \in [Tabs -> Dialog]
  <2>1. dialog' = dialog \/ \E t : \E g \in Dialog : dialog' = [dialog EXCEPT ![t] = g]
    BY SMTT(60), BrowserChanges, Blanks
  <2> QED BY <1>0, <2>1
<1>3. busy' \in [Tabs -> BOOLEAN]
  <2>1. busy' = busy \/ \E t : \E b \in BOOLEAN : busy' = [busy EXCEPT ![t] = b]
    BY BrowserChanges
  <2> QED BY <1>0, <2>1
<1>4. asked' \in [Clicks -> Ask]
  <2>1. asked' = asked \/ \E r \in Clicks, a \in Ask : asked' = [asked EXCEPT ![r] = a]
    BY BrowserChanges
  <2> QED BY <1>0, <2>1
<1>5. load' \in [Clicks \cup Refreshes -> Load]
  <2>1. load' = load \/ \E x \in Clicks \cup Refreshes, k \in Load : load' = [load EXCEPT ![x] = k]
    BY BrowserChanges
  <2> QED BY <1>0, <2>1
<1> QED BY <1>1, <1>2, <1>3, <1>4, <1>5 DEF Typed

\* What the pages show goes on being a past of the tables.
LEMMA ScreensStep ==
  ASSUME Inv, [Next]_vars
  PROVE  Screens'
<1>0. /\ Store!TypeOK /\ Typed /\ Screens
      /\ page \in [Tabs -> Page] /\ dialog \in [Tabs -> Dialog]
      /\ asked \in [Clicks -> Ask] /\ load \in [Clicks \cup Refreshes -> Load]
  BY DEF Inv, Typed
<1>1. /\ \A d \in Records : \A row : Shown(rows, d, row) => Shown(rows', d, row)
      /\ \A t, g : Offered(rows, t, g) => Offered(rows', t, g)
  <2>1. \A d \in Records : \A row : Shown(rows, d, row) => Shown(rows', d, row)
    BY <1>0, ServerStep, PastKept
  <2> QED BY <2>1 DEF Offered
<1>2. \A t \in Tabs, d \in Records : Shown(rows, d, page'[t][d])
  <2>1. \/ page' = page
        \/ \E x \in Clicks \cup Refreshes : page' = [page EXCEPT ![load[x].tab] = load[x].seen]
    BY BrowserChanges
  <2> QED BY <1>0, <2>1 DEF Screens
<1>3. \A t \in Tabs : dialog'[t] # NoDialog => Offered(rows, t, dialog'[t])
  <2>1. \/ dialog' = dialog
        \/ \E t : dialog' = [dialog EXCEPT ![t] = NoDialog]
        \/ \E t \in Tabs, g \in Dialog :
             dialog' = [dialog EXCEPT ![t] = g] /\ Offered(rows, t, g)
    BY BrowserChanges
  <2> QED BY <1>0, <2>1 DEF Screens
<1>4. \A r \in Clicks : asked'[r] # NotAsked =>
        asked'[r].st # "none" /\ Offered(rows, asked'[r].tab, asked'[r].dialog)
  <2>1. CASE asked' = asked
    BY <1>0, <2>1 DEF Screens
  <2>2. CASE asked' # asked
    <3>1. PICK r \in Clicks, a \in Ask :
            /\ asked' = [asked EXCEPT ![r] = a] /\ a.st # "none"
            /\ \/ /\ asked[r] # NotAsked
                  /\ a.tab = asked[r].tab /\ a.dialog = asked[r].dialog
               \/ /\ asked[r] = NotAsked /\ a.tab \in Tabs
                  /\ dialog[a.tab] # NoDialog /\ a.dialog = dialog[a.tab]
      BY <2>2, BrowserChanges
    <3>2. Offered(rows, a.tab, a.dialog)
      BY <1>0, <3>1 DEF Screens
    <3> QED BY <1>0, <3>1, <3>2 DEF Screens
  <2> QED BY <2>1, <2>2
<1>5. \A x \in Clicks \cup Refreshes, d \in Records : Shown(rows, d, load'[x].seen[d])
  <2>1. CASE load' = load
    BY <1>0, <2>1 DEF Screens
  <2>2. CASE load' # load
    <3>1. PICK x \in Clicks \cup Refreshes, k \in Load :
            /\ load' = [load EXCEPT ![x] = k]
            /\ \A d \in Records :
                 k.seen[d] # NoRow =>
                   k.seen[d] = rows[d] /\ rows[d].state = "live"
      BY <2>2, BrowserChanges
    <3>2. \A d \in Records : rows[d].state = "live" => Shown(rows, d, rows[d])
      BY <1>0, LiveShown
    <3>3. \A d \in Records : Shown(rows, d, k.seen[d])
      BY <3>1, <3>2 DEF Shown
    <3> QED BY <1>0, <3>1, <3>3 DEF Screens
  <2> QED BY <2>1, <2>2
<1> QED BY <1>1, <1>2, <1>3, <1>4, <1>5 DEF Screens

-----------------------------------------------------------------------------
(* What a step does to a request of a page *)

\* The checks find fault with a request from a page only if its row has changed.
LEMMA ClickMeant ==
  ASSUME Inv, NEW r \in Clicks, Arrive(r)
  PROVE  /\ \A q \in Clicks \ {r} : req'[q] = req[q]
         /\ Meant(rows, req'[r], asked[r])
<1> DEFINE u == UserOf[asked[r].tab]
           sent == asked[r].dialog
           d == sent.id
           refusal == Backend!TransitionRefusal(u, d, sent.target)
           v == IF refusal = 0 THEN SentVersion(sent.row) ELSE 0
           call == [Backend!Call("transition", u, d) EXCEPT
                      !.expected = v, !.content = rows[d].content,
                      !.before = rows[d].status, !.status = sent.target]
<1>1. Offered(rows, asked[r].tab, sent) /\ req[r].pc = "idle" /\ asked[r] # NotAsked
  BY DEF Inv, Screens, Arrive
<1>2. req' = [req EXCEPT ![r] = Backend!Proceed(call, refusal)]
  BY DEF Arrive
<1>3. /\ call.pc = "idle" /\ call.op = "transition" /\ call.id = d /\ call.expected = v
      /\ call.code = 0
  BY SMTT(60) DEF Backend!Call, Backend!Idle
<1>4. /\ refusal \in {0, 404, 422}
      /\ refusal = 422 => ~CanTransition(GraphOf[d], rows[d].status, sent.target)
  <2>1. Backend!HasMinimumRole(RoleOf[u], "operator")
    BY <1>1
    DEF Offered, CanWrite, HasMinimumRole, RoleRank, Backend!HasMinimumRole, Backend!RoleRank
  <2> HIDE DEF u, sent, d, v, call
  <2> QED BY <2>1 DEF Backend!TransitionRefusal, Backend!CanTransition, CanTransition
<1>5. refusal = 422 => rows[d].version > sent.row.version
  <2>1. /\ d \in Records /\ Past(sent.row, rows[d]) /\ sent.row.status \in DOMAIN GraphOf[d]
        /\ sent.target \in AllowedTargets(Kind, sent.row.status)
    BY <1>1 DEF Offered, Shown
  <2>2. sent.target \in GraphOf[d][sent.row.status]
    BY <2>1, SameGraph
  <2>3. sent.row.version # rows[d].version => sent.row.version < rows[d].version
    BY <2>1 DEF Past, Store!Row
  <2> QED BY <1>4, <2>1, <2>2, <2>3 DEF Past, CanTransition
<1>6. req \in [Clicks \cup Calls -> Store!Request]
  BY DEF Inv, Store!TypeOK
<1> HIDE DEF v, refusal
<1>7. CASE refusal = 0
  <2>1. Backend!Proceed(call, refusal) = [call EXCEPT !.pc = "write"]
    BY <1>7 DEF Backend!Proceed
  <2> DEFINE next == [call EXCEPT !.pc = "write"]
  <2>2. /\ next.pc = "write" /\ next.op = "transition" /\ next.id = d /\ next.expected = v
        /\ next.code = 0
    BY DEF Backend!Call, Backend!Idle
  <2>3. v = sent.row.version
    BY <1>7 DEF v, SentVersion
  <2> HIDE DEF next, call
  <2> QED BY <1>1, <1>2, <1>6, <2>1, <2>2, <2>3 DEF Meant, next
<1>8. CASE refusal # 0
  <2>1. Backend!Proceed(call, refusal) = Backend!Refused(call, refusal)
    BY <1>8 DEF Backend!Proceed
  <2> DEFINE next == Backend!Refused(call, refusal)
  <2>2. next.pc = "done" /\ next.id = d /\ next.code = refusal
    BY DEF Backend!Refused, Backend!Answer, Backend!Call, Backend!Idle
  <2> HIDE DEF next, call
  <2> QED BY <1>1, <1>2, <1>4, <1>5, <1>6, <2>1, <2>2 DEF Meant, next
<1> QED BY <1>7, <1>8

\* Only the steps of a click and of its handler change its request.
LEMMA ClickMoves ==
  ASSUME Inv, [Next]_vars, NEW q \in Clicks
  PROVE  \/ req'[q] = req[q]
         \/ Arrive(q)
         \/ Serve(q) /\ asked[q] # NotAsked /\ UNCHANGED asked
<1>0. req \in [Clicks \cup Calls -> Store!Request] /\ Store!TypeOK
  BY DEF Inv, Store!TypeOK
<1>1. CASE Loading \/ Deciding \/ UNCHANGED vars
  <2>1. req' = req
    BY <1>1 DEF Loading, Refresh, ServeList, LoadAnswered, LoadFails, EndLoad, Deciding,
                OpenTransition, Cancel, Confirm, server, vars
  <2> QED BY SMTT(60), <2>1
<1>2. CASE Clicked
  <2>1. PICK r \in Clicks : ClickSucceeds(r) \/ ClickFails(r) \/ Arrive(r)
    BY <1>2 DEF Clicked
  <2>2. CASE Arrive(r)
    BY <2>2, ClickMeant
  <2> QED BY <2>1, <2>2 DEF ClickSucceeds, ClickFails, server
<1>3. ASSUME NEW r \in Clicks \cup Calls, Serve(r)
      PROVE  req'[q] # req[q] => Serve(q) /\ asked[q] # NotAsked /\ UNCHANGED asked
  <2>1. Store!Continue(r) \/ Store!Fail(r)
    BY <1>3, SameServer DEF Serve
  <2>2. req' = [req EXCEPT ![r] = req'[r]]
    BY <1>0, <2>1, StoreAssumption, Store!CallGoesOn
  <2>3. CASE r = q
    BY <1>3, <2>3 DEF Serve
  <2>4. CASE r # q
    BY <1>0, <2>2, <2>4
  <2> QED BY <2>3, <2>4
<1>4. ASSUME NEW r \in Calls, OtherCall(r)
      PROVE  req'[q] = req[q]
  <2>1. \E call : req' = [req EXCEPT ![r] = call]
    BY <1>4 DEF OtherCall, Backend!Update, Backend!Delete
  <2>2. r # q
    BY WorkbenchAssumption
  <2> QED BY <1>0, <2>1, <2>2
<1>5. CASE Serving
  BY <1>3, <1>4, <1>5 DEF Serving
<1> QED BY <1>1, <1>2, <1>5 DEF Next

\* It stays about what the dialog showed, since versions only grow.
LEMMA MeantStep ==
  ASSUME Inv, [Next]_vars, NEW q \in Clicks
  PROVE  Meant(rows', req'[q], asked'[q])
<1>0. /\ Store!TypeOK /\ Typed /\ Meant(rows, req[q], asked[q])
      /\ asked \in [Clicks -> Ask]
      /\ asked[q] # NotAsked => Offered(rows, asked[q].tab, asked[q].dialog)
  BY DEF Inv, Typed, Screens
<1>1. ASSUME asked[q] # NotAsked
      PROVE  /\ rows[asked[q].dialog.id].state = "deleted" =>
                  rows'[asked[q].dialog.id].state = "deleted"
             /\ rows[asked[q].dialog.id].version > asked[q].dialog.row.version =>
                  rows'[asked[q].dialog.id].version > asked[q].dialog.row.version
  <2> DEFINE d == asked[q].dialog.id
  <2>1. /\ d \in Records /\ rows[d] \in Store!Row /\ asked[q].dialog.row \in Store!Row
    BY <1>0, <1>1 DEF Offered, Shown, Past
  <2>2. /\ rows'[d] \in Store!Row /\ rows'[d].version >= rows[d].version
        /\ rows[d].state = "deleted" => rows'[d].state = "deleted"
    BY <1>0, <2>1, ServerStep, PastKept
  <2> QED BY <2>1, <2>2 DEF Store!Row
<1>2. ASSUME asked[q] = NotAsked
      PROVE  req[q].pc = "idle" /\ req[q].code = 0
  BY <1>0, <1>2 DEF Meant, Store!TypeOK, Store!LocalsOK, Store!Idle
<1>3. CASE req'[q] = req[q]
  <2>1. \/ asked'[q] = asked[q]
        \/ asked[q] # NotAsked /\ asked'[q].dialog = asked[q].dialog /\ asked'[q] # NotAsked
        \/ asked[q] = NotAsked /\ asked'[q] # NotAsked
    BY <1>0, BrowserChanges, Blanks
  <2>2. CASE asked[q] = NotAsked
    BY <1>2, <1>3, <2>2 DEF Meant
  <2>3. CASE asked[q] # NotAsked
    BY <1>0, <1>1, <1>3, <2>1, <2>3 DEF Meant
  <2> QED BY <2>2, <2>3
<1>4. CASE Arrive(q)
  <2>1. Meant(rows, req'[q], asked[q]) /\ UNCHANGED <<rows, asked>>
    BY <1>4, ClickMeant DEF Arrive
  <2> QED BY SMTT(60), <2>1
<1>5. CASE Serve(q) /\ asked[q] # NotAsked /\ UNCHANGED asked
  <2>1. Store!Continue(q) \/ Store!Fail(q)
    BY <1>5, SameServer DEF Serve
  <2>2. /\ req'[q].pc \notin {"idle", "write"} /\ req'[q].id = req[q].id
        /\ req'[q].code \in {403, 422} => req[q].code = req'[q].code
    BY <1>0, <2>1, StoreAssumption, Store!CallGoesOn
  <2> QED BY <1>0, <1>1, <1>5, <2>2 DEF Meant
<1> QED BY <1>3, <1>4, <1>5, ClickMoves

-----------------------------------------------------------------------------
(* What the pages can rely on *)

\* At first every tab shows the seeds.
LEMMA InitInv == Init => Inv
<1> SUFFICES ASSUME Init PROVE Inv
  OBVIOUS
<1>1. Store!Init
  BY SameServer DEF Init
<1>2. Store!TypeOK
  BY <1>1, StoreAssumption, Store!InitType
<1>3. rows \in Page
  BY <1>2, Blanks DEF Store!TypeOK, Page
<1>4. Typed
  BY <1>3, Blanks DEF Init, Typed
<1>5. \A d \in Records : Shown(rows, d, rows[d])
  <2> SUFFICES ASSUME NEW d \in Records, rows[d] # NoRow PROVE Shown(rows, d, rows[d])
    BY DEF Shown
  <2>1. rows[d].state = "live"
    BY <1>1, Blanks DEF Store!Init, Store!SeedRow
  <2> QED BY <1>2, <2>1, LiveShown
<1>6. Screens
  <2>1. \A x \in Clicks \cup Refreshes, d \in Records : load[x].seen[d] = NoRow
    BY Blanks DEF Init
  <2>2. \A t \in Tabs : page[t] = rows /\ dialog[t] = NoDialog
    BY DEF Init
  <2>3. \A r \in Clicks : asked[r] = NotAsked
    BY DEF Init
  <2> QED BY <1>5, <2>1, <2>2, <2>3 DEF Screens, Shown
<1>7. \A r \in Clicks : Meant(rows, req[r], asked[r])
  <2>1. \A r \in Clicks : req[r].pc = "idle" /\ req[r].code = 0
    BY <1>1 DEF Store!Init, Store!Idle
  <2> QED BY <2>1 DEF Meant
<1> QED BY <1>2, <1>4, <1>6, <1>7 DEF Inv

\* Every step keeps the invariant.
LEMMA NextInv == Inv /\ [Next]_vars => Inv'
<1> SUFFICES ASSUME Inv, [Next]_vars PROVE Inv'
  OBVIOUS
<1>1. Store!TypeOK'
  BY ServerStep, PastKept DEF Inv
<1> QED BY <1>1, TypedStep, ScreensStep, MeantStep DEF Inv

\* It always holds.
LEMMA Always == Spec => []Inv
  BY InitInv, NextInv, PTL DEF Spec

\* Behind the pages the tables behave as for clients that name versions they were
\* shown, for any number of tabs and clicks and answers in any order: every theorem
\* about RecordStore with Ahead = 0 holds behind them.
THEOREM InformedImplemented == Spec => ImplementsInformed
<1>1. Init => Backend!Init
  BY DEF Init
<1>2. Inv /\ [Next]_vars => [server' # server => Backend!Next]_server
  BY ServerStep, SameServer DEF Store!vars, server
<1> QED BY <1>1, <1>2, Always, PTL DEF Spec, ImplementsInformed

\* A transition sent from a page is applied to the very row its dialog showed, or
\* to none, however late it arrives and whatever became of the row and the page.
THEOREM ShownRowMoved == Spec => ConfirmedRowMoved
<1>1. ASSUME Inv, [Next]_vars, NEW r \in Clicks,
             req[r].pc = "write", req'[r] # req[r], rows' # rows
      PROVE  rows[req[r].id] = asked[r].dialog.row
  <2>1. Serve(r) /\ asked[r] # NotAsked
    BY <1>1, ClickMoves DEF Arrive
  <2>2. /\ req[r].op = "transition" /\ req[r].id = asked[r].dialog.id
        /\ req[r].expected = asked[r].dialog.row.version
    BY <1>1 DEF Inv, Meant
  <2> DEFINE d == asked[r].dialog.id
             row == asked[r].dialog.row
  <2>3. Past(row, rows[d])
    BY <1>1, <2>1 DEF Inv, Screens, Offered, Shown
  <2>4. Store!Continue(r) \/ Store!Fail(r)
    BY <2>1, SameServer DEF Serve
  <2>5. rows[d] \in Store!Row /\ rows[d].state = "live" /\ rows[d].version = row.version
    BY <1>1, <2>2, <2>4, StoreAssumption, Store!CallGoesOn DEF Inv
  <2>6. rows[d] = row
    BY <2>3, <2>5 DEF Past, Store!Row
  <2> QED BY SMTT(60), <2>2, <2>6
<1>2. Inv /\ [Next]_vars =>
        [\A r \in Clicks : req[r].pc = "write" /\ req'[r] # req[r] /\ rows' # rows =>
           rows[req[r].id] = asked[r].dialog.row]_vars
  BY <1>1
<1> QED BY <1>2, Always, PTL DEF Spec, ConfirmedRowMoved

\* What a page offers is refused for the role or the graph only if the row has
\* changed: guards, graphs and buttons of the pages agree with the server's.
THEOREM OffersAccepted == Spec => []OfferedIsAccepted
<1>1. Inv => OfferedIsAccepted
  BY DEF Inv, Meant, OfferedIsAccepted
<1> QED BY <1>1, Always, PTL

-----------------------------------------------------------------------------
(* The loading indicator *)

\* The load that follows a click is not begun before the click is over.
Following == \A r \in Clicks : asked[r].st # "over" => load[r].st = "none"

\* Some call of the tab is under way.
Waiting(asks, loads, t) ==
  \/ \E r \in Clicks : asks[r].st = "sent" /\ asks[r].tab = t
  \/ \E x \in Clicks \cup Refreshes : loads[x].st \in {"sent", "served"} /\ loads[x].tab = t

\* Each call switches the indicator on, and none but the last can leave it on.
LEMMA BusyStep ==
  ASSUME Inv, Following, BusyHasCause, [Next]_vars
  PROVE  Following' /\ BusyHasCause'
<1>0. /\ Store!TypeOK /\ Typed /\ Screens
      /\ busy \in [Tabs -> BOOLEAN] /\ asked \in [Clicks -> Ask]
      /\ load \in [Clicks \cup Refreshes -> Load]
  BY DEF Inv, Typed
<1>1. \A t \in Tabs : busy[t] => Waiting(asked, load, t)
  BY DEF BusyHasCause, Waiting
<1>2. SUFFICES Following' /\ \A t \in Tabs : busy'[t] => Waiting(asked', load', t)
  BY DEF BusyHasCause, Waiting
<1>3. ASSUME NEW t \in Tabs, NEW x \in Refreshes, Refresh(t, x)
      PROVE  Following' /\ \A u \in Tabs : busy'[u] => Waiting(asked', load', u)
  <2>1. PICK k \in Load : load' = [load EXCEPT ![x] = k] /\ k.st = "sent" /\ k.tab = t
    BY <1>0, <1>3, LoadsDo
  <2>2. load[x].st = "none" /\ busy' = [busy EXCEPT ![t] = TRUE] /\ asked' = asked
    BY <1>0, <1>3, LoadsDo
  <2>3. x \notin Clicks
    BY WorkbenchAssumption
  <2>4. Following'
    BY <1>0, <2>1, <2>2, <2>3 DEF Following
  <2>5. Waiting(asked', load', t)
    BY <1>0, <2>1 DEF Waiting
  <2>6. ASSUME NEW u \in Tabs, Waiting(asked, load, u) PROVE Waiting(asked', load', u)
    BY <1>0, <2>1, <2>2, <2>6 DEF Waiting
  <2> QED BY <1>0, <1>1, <2>2, <2>4, <2>5, <2>6
<1>4. ASSUME NEW x \in Clicks \cup Refreshes, ServeList(x)
      PROVE  Following' /\ \A u \in Tabs : busy'[u] => Waiting(asked', load', u)
  <2>1. PICK k \in Load : load' = [load EXCEPT ![x] = k] /\ k.st = "served" /\ k.tab = load[x].tab
    BY <1>0, <1>4, LoadsDo
  <2>2. load[x].st = "sent" /\ UNCHANGED <<busy, asked>>
    BY <1>0, <1>4, LoadsDo
  <2>3. Following'
    BY <1>0, <2>1, <2>2 DEF Following
  <2>4. ASSUME NEW u \in Tabs, Waiting(asked, load, u) PROVE Waiting(asked', load', u)
    BY <1>0, <2>1, <2>2, <2>4 DEF Waiting
  <2> QED BY <1>1, <2>2, <2>3, <2>4
<1>5. ASSUME NEW x \in Clicks \cup Refreshes, LoadAnswered(x) \/ LoadFails(x)
      PROVE  Following' /\ \A u \in Tabs : busy'[u] => Waiting(asked', load', u)
  <2>1. PICK k \in Load : load' = [load EXCEPT ![x] = k] /\ k.st = "over"
    BY <1>0, <1>5, LoadsDo
  <2>2. /\ load[x].st \in {"sent", "served"} /\ asked' = asked
        /\ busy' = [busy EXCEPT ![load[x].tab] = FALSE]
    BY <1>0, <1>5, LoadsDo
  <2>3. Following'
    BY <1>0, <2>1, <2>2 DEF Following
  <2>4. ASSUME NEW u \in Tabs, u # load[x].tab, Waiting(asked, load, u)
        PROVE  Waiting(asked', load', u)
    BY <1>0, <2>1, <2>2, <2>4 DEF Waiting
  <2> QED BY <1>0, <1>1, <2>2, <2>3, <2>4
<1>6. ASSUME NEW t \in Tabs, NEW r \in Clicks, Confirm(t, r)
      PROVE  Following' /\ \A u \in Tabs : busy'[u] => Waiting(asked', load', u)
  <2>1. PICK a \in Ask : asked' = [asked EXCEPT ![r] = a] /\ a.st = "sent" /\ a.tab = t
    BY <1>0, <1>6, ClicksDo
  <2>2. asked[r].st = "none" /\ busy' = [busy EXCEPT ![t] = TRUE] /\ load' = load
    BY <1>0, <1>6, ClicksDo, Blanks
  <2>3. Following'
    BY <1>0, <2>1, <2>2 DEF Following
  <2>4. Waiting(asked', load', t)
    BY <1>0, <2>1 DEF Waiting
  <2>5. ASSUME NEW u \in Tabs, Waiting(asked, load, u) PROVE Waiting(asked', load', u)
    BY <1>0, <2>1, <2>2, <2>5 DEF Waiting
  <2> QED BY <1>0, <1>1, <2>2, <2>3, <2>4, <2>5
<1>7. ASSUME NEW r \in Clicks, ClickSucceeds(r) \/ ClickFails(r)
      PROVE  Following' /\ \A u \in Tabs : busy'[u] => Waiting(asked', load', u)
  <2>1. PICK a \in Ask : asked' = [asked EXCEPT ![r] = a] /\ a.st = "over" /\ a.tab = asked[r].tab
    BY <1>0, <1>7, ClicksDo
  <2>2. /\ asked[r].st = "sent" /\ asked[r].tab \in Tabs
        /\ load[r].st = "none"
    BY <1>0, <1>7, ClicksDo, Blanks DEF Screens, Offered, Following
  <2>3. CASE ClickSucceeds(r)
    <3>1. PICK k \in Load : load' = [load EXCEPT ![r] = k] /\ k.st = "sent" /\ k.tab = asked[r].tab
      BY <1>0, <2>2, <2>3, ClicksDo
    <3>2. busy' = [busy EXCEPT ![asked[r].tab] = TRUE]
      BY <1>0, <2>2, <2>3, ClicksDo
    <3>3. Following'
      BY <1>0, <2>1, <3>1 DEF Following
    <3>4. Waiting(asked', load', asked[r].tab)
      BY <1>0, <3>1 DEF Waiting
    <3>5. ASSUME NEW u \in Tabs, u # asked[r].tab, Waiting(asked, load, u)
          PROVE  Waiting(asked', load', u)
      BY <1>0, <2>1, <2>2, <3>1, <3>5 DEF Waiting
    <3> QED BY <1>0, <1>1, <3>2, <3>3, <3>4, <3>5
  <2>4. CASE ClickFails(r)
    <3>1. load' = load /\ busy' = [busy EXCEPT ![asked[r].tab] = FALSE]
      BY <1>0, <2>4, ClicksDo
    <3>2. Following'
      BY <1>0, <2>1, <3>1 DEF Following
    <3>3. ASSUME NEW u \in Tabs, u # asked[r].tab, Waiting(asked, load, u)
          PROVE  Waiting(asked', load', u)
      BY <1>0, <2>1, <3>1, <3>3 DEF Waiting
    <3> QED BY <1>0, <1>1, <2>2, <3>1, <3>2, <3>3
  <2> QED BY <1>7, <2>3, <2>4
<1>8. ASSUME UNCHANGED <<busy, asked, load>>
      PROVE  Following' /\ \A u \in Tabs : busy'[u] => Waiting(asked', load', u)
  BY <1>1, <1>8 DEF Following
<1>9. CASE Loading
  BY <1>3, <1>4, <1>5, <1>9 DEF Loading
<1>10. CASE Deciding
  BY <1>6, <1>8, <1>10 DEF Deciding, OpenTransition, Cancel
<1>11. CASE Clicked
  BY <1>7, <1>8, <1>11, ServerAlone DEF Clicked
<1>12. CASE Serving \/ UNCHANGED vars
  BY <1>8, <1>12, ServerAlone DEF Serving, vars
<1> QED BY <1>9, <1>10, <1>11, <1>12 DEF Next

\* However the calls of a tab overlap and fail, its loading indicator is on only
\* while one of them is under way.
THEOREM BusyCaused == Spec => []BusyHasCause
<1>1. Init => Following /\ BusyHasCause
  BY Blanks DEF Init, Following, BusyHasCause
<1>2. Inv /\ Following /\ BusyHasCause /\ [Next]_vars => Following' /\ BusyHasCause'
  BY BusyStep
<1> QED BY <1>1, <1>2, Always, PTL DEF Spec

=============================================================================
