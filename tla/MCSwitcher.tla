----------------------------- MODULE MCSwitcher -----------------------------
(***************************************************************************)
(* What comes from the switcher, checked in one run: its tally, and the    *)
(* writes its camera control turns into; and the writes of an encoder of   *)
(* a SKAARHOJ panel.  The three share no state, so in each behaviour one   *)
(* works while the others rest in an initial state, where nothing of them  *)
(* is bound to happen.                                                     *)
(***************************************************************************)
EXTENDS AtemTally

CONSTANTS Key, Value

VARIABLES
  waiting, timer, drain, stopped, wanted, landed, failed,
  target, writing, queued, setting, known, turned, refused,
  turn     \* which of the three works in this behaviour

wheel == <<waiting, timer, drain, stopped, wanted, landed, failed>>
knob  == <<target, writing, queued, setting, known, turned, refused>>

Wheel == INSTANCE WriteCoalescer WITH pending <- waiting
Knob  == INSTANCE PanelEncoder WITH
  Top <- 2, pending <- queued, landed <- setting, mirror <- known, failed <- refused

ASSUME WritesAreSane == Wheel!CoalescerAssumption /\ Knob!EncoderAssumption

MCInit ==
  /\ Init /\ Wheel!Init /\ Knob!Init /\ turn \in {"tally", "wheel", "knob"}
  /\ turn # "tally" => ~on /\ address = "known"

MCNext ==
  \/ turn = "tally" /\ Next /\ UNCHANGED <<wheel, knob, turn>>
  \/ turn = "wheel" /\ Wheel!Next /\ UNCHANGED <<vars, knob, turn>>
  \/ turn = "knob"  /\ Knob!Next /\ UNCHANGED <<vars, wheel, turn>>

MCSpec == MCInit /\ [][MCNext]_<<vars, wheel, knob, turn>>
            /\ Fairness /\ Wheel!Fairness /\ Knob!Fairness

(* Where a wheel or an encoder comes to rest is where the camera ends up,  *)
(* as WriteCoalescer and PanelEncoder state it.                            *)
LatestLands == Wheel!LatestLands /\ Knob!LatestLands
=============================================================================
