------------------------------ MODULE MCReports ------------------------------
(***************************************************************************)
(* Small instances of Reports: seeds that are all open, writers of one     *)
(* user, and an audit log that is empty or holds an entry of another type  *)
(* and user.                                                               *)
(***************************************************************************)
EXTENDS Reports, TLC

CONSTANTS w1, w2, u1, u2

MCActorOf == [w \in Writers |-> u1]

MCEntry(id, action, at) ==
  [id |-> id, action |-> action, entity |-> "other", actor |-> u2, at |-> at]

MCEarlierLogs == { {}, {MCEntry(1, "transition", 0)} }

MCSeedStatus == [d \in Seeded |-> "open"]

Symmetry == Permutations(Writers)

=============================================================================
