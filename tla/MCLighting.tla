------------------------------ MODULE MCLighting ------------------------------
EXTENDS Lighting

MCBodies == {[intensity |-> 2], [intensity |-> 1, cct |-> 3]}
=============================================================================
