--------------------------- MODULE RecordRegister ---------------------------
(***************************************************************************)
(* What the tables of bridges, inspection rounds and defect findings       *)
(* promise, with no requests, no versions and no database: a record is     *)
(* opened once, its content is edited without moving it, it is moved along *)
(* its kind's graph without editing it, and once removed it stays so.      *)
(***************************************************************************)
EXTENDS StatusGraphs

CONSTANTS Records, GraphOf, InitialStatusOf, Content, SeedStatus, None

VARIABLE register

Entry(state, status, content) ==
  [state |-> state, status |-> status, content |-> content]

SeedEntry(d, c) ==
  IF SeedStatus[d] = "none" THEN Entry("absent", "none", None)
  ELSE Entry("live", SeedStatus[d], c)

Init == \E c \in Content : register = [d \in Records |-> SeedEntry(d, c)]

Put(d, entry) == register' = [register EXCEPT ![d] = entry]

Open(d, c) ==
  /\ register[d].state = "absent"
  /\ Put(d, Entry("live", InitialStatusOf[d], c))

Edit(d, c) ==
  /\ register[d].state = "live"
  /\ Put(d, [register[d] EXCEPT !.content = c])

Move(d, target) ==
  /\ register[d].state = "live"
  /\ CanTransition(GraphOf[d], register[d].status, target)
  /\ Put(d, [register[d] EXCEPT !.status = target])

Remove(d) ==
  /\ register[d].state = "live"
  /\ Put(d, [register[d] EXCEPT !.state = "removed"])

Step ==
  \E d \in Records :
    \/ \E c \in Content : Open(d, c) \/ Edit(d, c)
    \/ \E target \in DOMAIN GraphOf[d] : Move(d, target)
    \/ Remove(d)

\* An edit may leave everything as it was; without it TLC is spared the search
\* on a stutter.
Next == register' # register /\ Step

Spec == Init /\ [][Next]_register

=============================================================================
