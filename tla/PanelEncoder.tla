---------------------------- MODULE PanelEncoder ----------------------------
(***************************************************************************)
(* An encoder of a SKAARHOJ panel and the setting of a camera it turns:    *)
(* #encoder, #current and #write of cambridge/src/skaarhoj/mapping.js.  A  *)
(* turn steps from where the encoder is heading while that is fresh, and   *)
(* from the camera's value otherwise; one write is under way at a time,    *)
(* and turns made meanwhile collapse into the last.                        *)
(*                                                                         *)
(* Abstractions.  One setting of one camera.  A write reaches the camera   *)
(* before its call ends.                                                   *)
(***************************************************************************)
EXTENDS Naturals

CONSTANTS Top,      \* the setting ranges over 0..Top
          None

EncoderAssumption == Top \in Nat /\ None \notin 0..Top

VARIABLES
  target,    \* where the encoder is heading, None when forgotten or too old
  writing,   \* the value of the write under way, or None
  pending,   \* a turn made meanwhile, or None
  landed,    \* the camera's value
  mirror,    \* what CamBridge knows of it
  turned,    \* history: where the last turn led, None before or after other changes
  failed     \* history: a write of that value failed

vars == <<target, writing, pending, landed, mirror, turned, failed>>

Init ==
  /\ target = None /\ writing = None /\ pending = None
  /\ landed = 0 /\ mirror = 0 /\ turned = None /\ failed = FALSE

Current == IF target # None THEN target ELSE mirror

(* Mutant: a turn made while a write is under way is only shown. *)
MutWrite(v) ==
  IF writing = None THEN writing' = v /\ UNCHANGED pending ELSE UNCHANGED <<writing, pending>>

Write(v) ==
  IF writing = None THEN writing' = v /\ UNCHANGED pending
  ELSE pending' = v /\ UNCHANGED writing

Turn(v) ==
  /\ v # Current
  /\ target' = v /\ turned' = v /\ failed' = (failed /\ turned = v)
  /\ Write(v)
  /\ UNCHANGED <<landed, mirror>>

(* The write under way ends; a refused one forgets where the encoder was   *)
(* heading.  What was turned meanwhile is written next.                    *)
Written ==
  /\ writing # None
  /\ \/ landed' = writing /\ UNCHANGED <<target, failed>>
     \/ target' = None /\ failed' = (failed \/ writing = turned) /\ UNCHANGED landed
  /\ writing' = pending /\ pending' = None
  /\ UNCHANGED <<mirror, turned>>

(* A second and a half passes, or another camera is selected. *)
Forget ==
  /\ target # None /\ target' = None
  /\ UNCHANGED <<writing, pending, landed, mirror, turned, failed>>

(* The camera's value reaches CamBridge; somebody else changes it. *)
Sync == mirror # landed /\ mirror' = landed /\ UNCHANGED <<target, writing, pending, landed, turned, failed>>

Other ==
  /\ \E v \in 0..Top : landed' = v
  /\ turned' = None
  /\ UNCHANGED <<target, writing, pending, mirror, failed>>

Next == (\E v \in 0..Top : Turn(v)) \/ Written \/ Forget \/ Sync \/ Other

Fairness == WF_vars(Written)

(* Where the encoder comes to rest is where the camera ends up: the last   *)
(* turn is written, however slow the write under way, unless it was        *)
(* refused or somebody else changed the setting since.                     *)
LatestLands ==
  \A v \in 0..Top : (turned = v) ~> (landed = v \/ turned # v \/ failed)
=============================================================================
