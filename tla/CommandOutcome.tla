--------------------------- MODULE CommandOutcome ---------------------------
(***************************************************************************)
(* What CameraWorker::runJob promises its caller (camd/include/camd/       *)
(* registry.h:38-44): a command that is answered notExecuted is withdrawn  *)
(* and will never run, one that is answered completed has run, and one     *)
(* whose caller stopped waiting in between is answered unknown and no      *)
(* better.  A command runs at most once.                                   *)
(***************************************************************************)
CONSTANTS Job,   \* the commands asked for
          None   \* no answer yet

VARIABLES fate,    \* job -> what became of it
          answer   \* job -> what the caller was told

fates == <<fate, answer>>

Fate   == {"asked", "started", "finished", "withdrawn"}
Answer == {"completed", "notExecuted", "unknown"}

FatesOK == fate \in [Job -> Fate] /\ answer \in [Job -> Answer \cup {None}]

FatesInit == fate = [j \in Job |-> "asked"] /\ answer = [j \in Job |-> None]

Begin(j) ==
  /\ fate[j] = "asked" /\ fate' = [fate EXCEPT ![j] = "started"]
  /\ UNCHANGED answer

End(j) ==
  /\ fate[j] = "started" /\ fate' = [fate EXCEPT ![j] = "finished"]
  /\ UNCHANGED answer

(* Commands still waiting are withdrawn, several at once when a record     *)
(* stop overtakes record starts.                                           *)
WithdrawAll(J) ==
  /\ \A j \in J : fate[j] = "asked"
  /\ fate' = [j \in Job |-> IF j \in J THEN "withdrawn" ELSE fate[j]]
  /\ UNCHANGED answer

(* The caller gives up: a command still waiting is withdrawn with it; of   *)
(* one that was taken, by whomever, it is told nothing.                    *)
GiveUp(j) ==
  /\ answer[j] = None
  /\ \/ /\ fate[j] = "asked"
        /\ fate' = [fate EXCEPT ![j] = "withdrawn"]
        /\ answer' = [answer EXCEPT ![j] = "notExecuted"]
     \/ /\ fate[j] \in {"started", "withdrawn"}
        /\ answer' = [answer EXCEPT ![j] = "unknown"] /\ UNCHANGED fate

Tell(j) ==
  /\ answer[j] = None /\ UNCHANGED fate
  /\ \/ fate[j] = "finished"  /\ answer' = [answer EXCEPT ![j] = "completed"]
     \/ fate[j] = "withdrawn" /\ answer' = [answer EXCEPT ![j] = "notExecuted"]

(* A worker that does not run serves the caller on the spot. *)
Refuse(j) ==
  /\ answer[j] = None /\ fate[j] = "asked"
  /\ fate' = [fate EXCEPT ![j] = "finished"]
  /\ answer' = [answer EXCEPT ![j] = "completed"]

FatesNext ==
  \/ \E j \in Job : Begin(j) \/ End(j) \/ GiveUp(j) \/ Tell(j) \/ Refuse(j)
  \/ \E J \in SUBSET Job : WithdrawAll(J)

FatesSpec == FatesInit /\ [][FatesNext]_fates
=============================================================================
