--------------------------- MODULE WriteCoalescer ---------------------------
(***************************************************************************)
(* A wheel of the switcher's panel turns into many writes to a camera: the *)
(* WriteCoalescer of cambridge/src/atem-cc.js keeps the newest value of    *)
(* each property and writes what has gathered, one write after another.    *)
(*                                                                         *)
(* Abstractions.  A key is a camera and a property.  A write that reaches  *)
(* the camera reaches it before its call ends (camd runs the writes of a   *)
(* camera in the order it was given them).                                 *)
(***************************************************************************)
EXTENDS Naturals, Sequences, SequencesExt

CONSTANTS Key, Value, None

CoalescerAssumption == None \notin Value

VARIABLES
  pending,   \* <<key, value>> pairs waiting, one of a key, in the order of submission
  timer,     \* a flush is due
  drain,     \* what the flush under way has still to write; the first is being written
  stopped,   \* stop() has been called
  wanted,    \* key -> value submitted last, None before
  landed,    \* key -> value the camera took last, None before
  failed     \* history: keys for which a write of the wanted value failed

vars == <<pending, timer, drain, stopped, wanted, landed, failed>>

Write == Key \X Value

TypeOK ==
  /\ pending \in Seq(Write) /\ drain \in Seq(Write)
  /\ timer \in BOOLEAN /\ stopped \in BOOLEAN
  /\ wanted \in [Key -> Value \cup {None}] /\ landed \in [Key -> Value \cup {None}]
  /\ failed \subseteq Key

Init ==
  /\ pending = <<>> /\ drain = <<>> /\ timer = FALSE /\ stopped = FALSE
  /\ wanted = [k \in Key |-> None] /\ landed = [k \in Key |-> None]
  /\ failed = {}

flushing == drain # <<>>

(* submit: a key changed again moves to the end; the timer runs unless a   *)
(* flush is under way.                                                     *)
Submit(k, v) ==
  /\ ~stopped
  /\ pending' = Append(SelectSeq(pending, LAMBDA w : w[1] # k), <<k, v>>)
  /\ timer' = (timer \/ ~flushing)
  /\ wanted' = [wanted EXCEPT ![k] = v]
  /\ failed' = IF v = wanted[k] THEN failed ELSE failed \ {k}
  /\ UNCHANGED <<drain, stopped, landed>>

Flush ==
  /\ timer
  /\ timer' = FALSE
  /\ drain' = pending
  /\ pending' = <<>>
  /\ UNCHANGED <<stopped, wanted, landed, failed>>

(* The camera took the value, or the write failed. *)
Outcome(k, v) ==
  \/ landed' = [landed EXCEPT ![k] = v] /\ UNCHANGED failed
  \/ failed' = (IF v = wanted[k] THEN failed \cup {k} ELSE failed) /\ UNCHANGED landed

(* Mutant: the end of a flush leaves what gathered meanwhile to the next   *)
(* submission.                                                             *)
MutWritten ==
  /\ flushing
  /\ Outcome(Head(drain)[1], Head(drain)[2])
  /\ drain' = IF stopped THEN <<>> ELSE Tail(drain)
  /\ UNCHANGED <<pending, timer, stopped, wanted>>

(* The write under way ends.  The rest of the batch is dropped after a     *)
(* stop; the last write lets the timer run again.                          *)
Written ==
  /\ flushing
  /\ Outcome(Head(drain)[1], Head(drain)[2])
  /\ drain' = IF stopped THEN <<>> ELSE Tail(drain)
  /\ timer' = (Tail(drain) = <<>> /\ ~stopped /\ pending # <<>>)
  /\ UNCHANGED <<pending, stopped, wanted>>

Stop ==
  /\ ~stopped /\ stopped' = TRUE
  /\ timer' = FALSE /\ pending' = <<>>
  /\ UNCHANGED <<drain, wanted, landed, failed>>

Next == (\E k \in Key, v \in Value : Submit(k, v)) \/ Flush \/ Written \/ Stop

Spec == Init /\ [][Next]_vars

(* The timer fires and a write ends, or times out. *)
Fairness == WF_vars(Flush) /\ WF_vars(Written)

FairSpec == Spec /\ Fairness

(* Where the wheel comes to rest is where the camera ends up: the value    *)
(* submitted last is the one the camera takes last, unless writing it      *)
(* failed, however the wheel turned while a slow write was under way.      *)
LatestLands ==
  \A k \in Key, v \in Value :
    (wanted[k] = v /\ ~stopped) ~> (landed[k] = v \/ wanted[k] # v \/ k \in failed \/ stopped)
=============================================================================
