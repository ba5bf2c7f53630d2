------------------------------ MODULE MCMirror ------------------------------
(***************************************************************************)
(* What an operator's panel shows and holds, checked in one run: the       *)
(* mirror of a Sony camera that recording is read from, a SKAARHOJ panel,  *)
(* and the roles of that panel's controls.  The three share no state, so   *)
(* in each behaviour one works and the others rest as they began.          *)
(***************************************************************************)
EXTENDS RecordMirror, PanelController

VARIABLES
  described,  \* the roles' panel
  turn        \* which of the three works in this behaviour

(* Two cameras, both in the panel's group at first, on one camera button.  *)
MCLane    == {"panTilt"}
MCControl == {"panTilt", "keys"}
MCOrder   == <<"c1", "c2">>
MCGroup   == {"g"}

Plain(in, label, disp, row) ==
  [in |-> in, label |-> label, disp |-> disp, vec |-> FALSE, round |-> TRUE, row |-> row, yang |-> 0]

(* Controls of a panel: a stick's axes, a twist, a roller, an encoder with *)
(* a display, a fader, buttons with and without a label.                   *)
MCKind ==
  {[Plain("ih", "", FALSE, 1) EXCEPT !.yang = 1], Plain("iv", "", FALSE, 1), Plain("ir", "", FALSE, 1),
   [Plain("p", "", FALSE, 1) EXCEPT !.round = FALSE], Plain("p", "", TRUE, 1), Plain("a", "zoom", FALSE, 1),
   Plain("b", "", TRUE, 1), Plain("b", "", TRUE, 2), Plain("b", "next", TRUE, 1)}

Guesses == INSTANCE PanelRoles WITH
  Kind <- MCKind, Places <- 4, Pins <- {<<>>, [zoom |-> 2], [store |-> 1]},
  Count <- {1, 4}, Caps <- {0}

ASSUME RolesAreSane == Guesses!RolesAssumption

MCInit ==
  /\ Init /\ PanelInit /\ Guesses!Init
  /\ turn \in {"mirror", "surface", "roles"}
  /\ turn # "mirror" => hostKey = "pinned"

MCNext ==
  \/ turn = "mirror"  /\ Next /\ UNCHANGED <<panelVars, described, turn>>
  \/ turn = "surface" /\ PanelNext /\ UNCHANGED <<vars, described, turn>>
  \/ turn = "roles"   /\ Guesses!Next /\ UNCHANGED <<vars, panelVars, turn>>

MCSpec == MCInit /\ [][MCNext]_<<vars, panelVars, described, turn>>

(* As PanelRoles states it. *)
RolesAreSound == Guesses!RolesAreSound
=============================================================================
