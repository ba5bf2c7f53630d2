----------------------------- MODULE MCPtzMotion -----------------------------
(***************************************************************************)
(* Small instances of PtzMotion: a panel that refreshes its holds and a    *)
(* SKAARHOJ-like client that latches them.                                 *)
(***************************************************************************)
EXTENDS PtzMotion, TLC

CONSTANTS panTilt, zoom, fast, t1, t2, t3

MCGroup  == {panTilt, zoom}
MCSpeed  == {fast}
Panel    == [src |-> "panel", latch |-> FALSE]
Skaarhoj == [src |-> "skaarhoj", latch |-> TRUE]
MCClient == {Panel, Skaarhoj}
MCToken3 == {t1, t2, t3}

Sym == Permutations(MCToken3)
=============================================================================
