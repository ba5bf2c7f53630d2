------------------------------ MODULE MCPtzHead ------------------------------
(***************************************************************************)
(* A small instance of PtzCamera: one axis group, a panel that refreshes   *)
(* its holds and a SKAARHOJ-like client that latches them; and beside it,  *)
(* one of PtzQueue: two moves of one axis group, a write and a poll.  The  *)
(* two share no state (PtzCamera has a queue's order of its own, without   *)
(* its timing), so one works while the other is in its initial state,      *)
(* where nothing of it is bound to happen.                                 *)
(***************************************************************************)
EXTENDS PtzCamera, PtzQueue

CONSTANTS panTilt, zoom, fast, t1, t2, t3,
          move1, move2, write, poll

MCOne    == {panTilt}
MCSpeed  == {fast}
Panel    == [src |-> "panel", latch |-> FALSE]
Skaarhoj == [src |-> "skaarhoj", latch |-> TRUE]
MCClient == {Panel, Skaarhoj}
MCToken2 == {t1, t2}
MCToken3 == {t1, t2, t3}

MCMotion  == {move1, move2}
MCWrite   == {write}
MCCommand == MCMotion \cup {write, poll}
MCKeyOf   == [j \in MCCommand |-> IF j \in MCMotion THEN "move:zoom" ELSE NoKey]

ASSUME QueueIsSane == QueueAssumption

MCInit == CamInit /\ QueueInit

MCNext ==
  \/ CamNext /\ QueueInit /\ UNCHANGED queueVars
  \/ CamInit /\ QueueNext /\ UNCHANGED camVars

MCSpec == MCInit /\ [][MCNext]_<<camVars, queueVars>> /\ CamFairness /\ Fairness
=============================================================================
