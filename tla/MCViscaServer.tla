---------------------------- MODULE MCViscaServer ----------------------------
EXTENDS ViscaServer
CONSTANTS c1, c2
MCSeat == {[tcp |-> TRUE, port |-> None], [tcp |-> FALSE, port |-> None],
           [tcp |-> TRUE, port |-> c1]}
=============================================================================
