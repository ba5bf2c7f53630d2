---------------------------- MODULE MCCamdWorker -----------------------------
(***************************************************************************)
(* CamdWorker with two host keys: a pinned one and a stranger's.           *)
(***************************************************************************)
EXTENDS CamdWorker

CONSTANTS key1, key2

MCKey == {key1, key2}
=============================================================================
