-------------------------------- MODULE MCRig --------------------------------
(***************************************************************************)
(* A small instance of Rig with two poses.  They may be exchanged: Rig     *)
(* names none, and of two there is one other (OtherSlot).                  *)
(***************************************************************************)
EXTENDS Rig, TLC

CONSTANTS s1, s2

MCSlot == {s1, s2}
Sym    == Permutations(MCSlot)
=============================================================================
