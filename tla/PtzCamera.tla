------------------------------ MODULE PtzCamera ------------------------------
(***************************************************************************)
(* One PTZ camera's connection (cambridge/src/ptz/lifecycle.js) around the *)
(* motion control of PtzMotion: connect, identify, first read, drop,       *)
(* backoff and reconnect, stopping and re-addressing (ptz/source.js), and  *)
(* what a drop does to a head that moves.  Every motion step here is the   *)
(* PtzMotion step; this module adds the connection they happen in.         *)
(*                                                                         *)
(* Abstractions.  A camera object that has been stopped leaves nothing     *)
(* behind that acts, so its unfinished attempt ends with it.  Clocks are   *)
(* left out: the heartbeat may find the link dead at any tick, the backoff *)
(* may end, and stop() may lose patience, at any time.  What a caller of   *)
(* stopAll() is answered is left out.                                      *)
(***************************************************************************)
EXTENDS PtzMotion

CONSTANTS MaxRetries,  \* bound: reconnectAttempts is counted up to this
          MaxLate      \* bound: jobs of closed queues still on the wire

ASSUME CameraAssumption == MaxRetries \in Nat /\ MaxRetries >= 1 /\ MaxLate \in Nat

VARIABLES
  phase,         \* "new" | "up" | "stopping" | "gone": start() and stop()
  state,         \* the announced connection state
  attempt,       \* "none" | "identify" | "firstRead": where #attempt waits
  reconnectTimer,
  retries,       \* reconnectAttempts
  ticking,       \* the 50 ms tick interval runs
  movingAtDrop,
  late           \* motion jobs of closed queues, still on the wire

link    == <<phase, state, attempt, reconnectTimer, retries, ticking, movingAtDrop>>
camVars == <<vars, link, late>>

CamInit ==
  /\ Init
  /\ phase = "new" /\ state = "connecting" /\ attempt = "none"
  /\ reconnectTimer = FALSE /\ retries = 0 /\ ticking = FALSE
  /\ movingAtDrop = FALSE /\ late = {}

Connected == state = "connected"
Stopped   == phase # "up"

-----------------------------------------------------------------------------
(* #teardown: forget() and queue.close().  The job in flight is neither    *)
(* recalled nor waited for.                                                *)
Teardown ==
  /\ held' = [g \in Group |-> None] /\ sent' = [g \in Group |-> None]
  /\ unconfirmed' = [k \in Key |-> None]
  /\ waiting' = [k \in Key |-> None] /\ order' = <<>> /\ running' = None
  /\ armed' = FALSE /\ ticking' = FALSE
  /\ running # None => Cardinality(late) < MaxLate
  /\ late' = late \cup ({running} \ {None})
  /\ UNCHANGED <<loop, head>>

(* Mutant: whether the camera was stopped is not looked at. *)
MutSchedule(r) ==
  IF reconnectTimer
  THEN reconnectTimer' = reconnectTimer /\ retries' = r
  ELSE reconnectTimer' = TRUE /\ retries' = IF r < MaxRetries THEN r + 1 ELSE r

(* #scheduleReconnect after r attempts. *)
Schedule(r) ==
  IF Stopped \/ reconnectTimer
  THEN reconnectTimer' = reconnectTimer /\ retries' = r
  ELSE reconnectTimer' = TRUE /\ retries' = IF r < MaxRetries THEN r + 1 ELSE r

(* #connect, and #attempt as far as identify(). *)
Connect(r) ==
  /\ Teardown
  /\ attempt' = "identify"
  /\ state' = IF r > 0 THEN "reconnecting" ELSE "connecting"
  /\ retries' = r

(* Mutant: whether the head moves is asked after the teardown. *)
MutDrop ==
  /\ Connected
  /\ Teardown
  /\ movingAtDrop' = (movingAtDrop \/ \E k \in Key : unconfirmed'[k] # None)
  /\ state' = "reconnecting"
  /\ Schedule(1)
  /\ UNCHANGED excused

(* #drop. *)
Drop ==
  /\ Connected
  /\ movingAtDrop' = (movingAtDrop \/ Moving)
  /\ Teardown
  /\ state' = "reconnecting"
  /\ Schedule(1)
  /\ UNCHANGED excused

-----------------------------------------------------------------------------
Start ==
  /\ phase = "new" /\ phase' = "up"
  /\ Connect(retries)
  /\ UNCHANGED <<reconnectTimer, movingAtDrop, excused>>

ReconnectTimer ==
  /\ reconnectTimer /\ reconnectTimer' = FALSE
  /\ Connect(retries)
  /\ UNCHANGED <<phase, movingAtDrop, excused>>

(* Mutant: the backoff timer is left running. *)
MutReconnect ==
  /\ ~Stopped /\ ~Connected /\ attempt = "none"
  /\ Connect(0)
  /\ UNCHANGED <<reconnectTimer, phase, movingAtDrop, excused>>

(* reconnect(): the operator does not wait for the backoff. *)
Reconnect ==
  /\ ~Stopped /\ ~Connected /\ attempt = "none"
  /\ reconnectTimer' = FALSE
  /\ Connect(0)
  /\ UNCHANGED <<phase, movingAtDrop, excused>>

IdentifyFails ==
  /\ attempt = "identify" /\ ~Stopped /\ attempt' = "none"
  /\ state' \in {"unauthorized", IF retries > 0 THEN "reconnecting" ELSE "offline"}
  /\ Schedule(retries)
  /\ UNCHANGED <<vars, phase, ticking, movingAtDrop, late>>

(* Mutant: the new connection does not stop what the old one left moving. *)
MutIdentified ==
  /\ attempt = "identify" /\ ~Stopped /\ attempt' = "firstRead"
  /\ UNCHANGED vars
  /\ movingAtDrop' = FALSE
  /\ retries' = 0 /\ state' = "connected"
  /\ UNCHANGED <<phase, reconnectTimer, ticking, late>>

(* identify() answered: a move or an unconfirmed stop that the last drop   *)
(* left behind is stopped first.                                           *)
Identified ==
  /\ attempt = "identify" /\ ~Stopped /\ attempt' = "firstRead"
  /\ IF movingAtDrop THEN StopAll ELSE UNCHANGED vars
  /\ movingAtDrop' = FALSE
  /\ retries' = 0 /\ state' = "connected"
  /\ UNCHANGED <<phase, reconnectTimer, ticking, late>>

FirstReadDone ==
  /\ attempt = "firstRead" /\ ~Stopped
  /\ attempt' = "none" /\ ticking' = TRUE
  /\ UNCHANGED <<vars, phase, state, reconnectTimer, retries, movingAtDrop, late>>

FirstReadFails ==
  /\ attempt = "firstRead" /\ ~Stopped
  /\ Drop
  /\ attempt' = "none"
  /\ UNCHANGED phase

(* An attempt that finds stop() was called stands down. *)
StaleAttempt ==
  /\ attempt # "none" /\ Stopped
  /\ attempt' = "none"
  /\ UNCHANGED <<vars, phase, state, reconnectTimer, retries, ticking, movingAtDrop, late>>

(* #tick: nothing answered for heartbeatTimeoutMs. *)
TickDrops ==
  /\ ticking
  /\ Drop
  /\ UNCHANGED <<phase, attempt>>

-----------------------------------------------------------------------------
(* move() *)
Move ==
  /\ phase = "up" /\ Connected
  /\ \/ \E g \in Group, v \in Speed, c \in Client : Drive(g, v, c)
     \/ \E g \in Group : DriveZero(g)
  /\ UNCHANGED <<link, late>>

SourceGone ==
  /\ \E c \in Client : ReleaseSource(c.src)
  /\ UNCHANGED <<link, late>>

(* stopMotion(): refused, and remembered, while nothing can be sent. *)
StopMotion ==
  /\ phase # "gone"
  /\ \/ /\ Connected /\ StopAll
        /\ UNCHANGED movingAtDrop
     \/ /\ ~Connected /\ movingAtDrop' = TRUE
        /\ UNCHANGED vars
  /\ UNCHANGED <<phase, state, attempt, reconnectTimer, retries, ticking, late>>

(* stop() up to its wait for the stop. *)
StopCamera ==
  /\ phase = "up" /\ phase' = "stopping"
  /\ reconnectTimer' = FALSE
  /\ IF Moving /\ Connected THEN StopAll ELSE UNCHANGED vars
  /\ UNCHANGED <<state, attempt, retries, ticking, movingAtDrop, late>>

(* stop() after its wait: the stop landed, failed, or took too long. *)
StopFinished ==
  /\ phase = "stopping" /\ phase' = "gone"
  /\ Teardown
  /\ state' = "offline" /\ attempt' = "none"
  /\ UNCHANGED <<reconnectTimer, retries, movingAtDrop, excused>>

(* update(): the entry's camera is made anew and started.  It knows nothing *)
(* of what the old one left moving.                                        *)
Replace ==
  /\ phase = "gone" /\ phase' = "up"
  /\ Connect(0)
  /\ movingAtDrop' = FALSE
  /\ excused' = excused \cup {g \in Group : head[g] # Zero}
  /\ UNCHANGED reconnectTimer

-----------------------------------------------------------------------------
(* The stop loop's attempt is on the wire of a closed queue. *)
StillOut(t) == \E job \in late : job.by = t

Elsewhere == UNCHANGED <<link, late>>

(* The queue, the deadman and the stop loops of PtzMotion. *)
MotionStep ==
  /\ \/ \E g \in Group : Expire(g)
     \/ Check
     \/ StartJob
     \/ MoveTaken
     \/ StopTaken
     \/ JobFails
     \/ \E t \in Token : ~StillOut(t) /\ (StandDown(t) \/ Retry(t))
  /\ Elsewhere

(* A job of a closed queue arrives after all, and the stop loop that sent  *)
(* it ends, no longer owning its key; or it never does.                    *)
LateJobArrives ==
  \E job \in late :
    /\ late' = late \ {job}
    /\ head' = [g \in Group |-> IF job.key \in {g, All} THEN job.v ELSE head[g]]
    /\ excused' = excused \cup {g \in Group : head'[g] # Zero
                    /\ (Suppressed(g, Zero) \/ ~(Owned(g) \/ movingAtDrop))}
    /\ loop' = [t \in Token |-> IF t = job.by THEN None ELSE loop[t]]
    /\ UNCHANGED <<control, unconfirmed, lane, link>>

LateJobLost ==
  \E job \in late :
    /\ late' = late \ {job}
    /\ UNCHANGED <<vars, link>>

-----------------------------------------------------------------------------
Connection == Start \/ ReconnectTimer \/ IdentifyFails \/ Identified \/ FirstReadDone
              \/ FirstReadFails \/ StaleAttempt \/ TickDrops \/ StopFinished

CamOperator == Move \/ SourceGone \/ StopMotion \/ Reconnect \/ StopCamera \/ Replace

CamNext == Connection \/ CamOperator \/ MotionStep
           \/ LateJobArrives \/ LateJobLost

CamSpec == CamInit /\ [][CamNext]_camVars

(* Time passes, timers fire, the queue is pumped, a head that is asked to  *)
(* stop again and again obeys in the end, and an attempt to connect        *)
(* succeeds in the end.                                                    *)
CamFairness ==
  /\ \A g \in Group : WF_camVars(Expire(g) /\ Elsewhere)
  /\ WF_camVars(Check /\ Elsewhere)
  /\ WF_camVars(StartJob /\ Elsewhere)
  /\ WF_camVars((JobFails \/ MoveTaken \/ StopTaken) /\ Elsewhere)
  /\ SF_camVars(StopTaken /\ Elsewhere)
  /\ \A t \in Token : WF_camVars(~StillOut(t) /\ (StandDown(t) \/ Retry(t)) /\ Elsewhere)
  /\ WF_camVars(LateJobArrives \/ LateJobLost)
  /\ WF_camVars(ReconnectTimer)
  /\ WF_camVars(IdentifyFails \/ Identified) /\ SF_camVars(Identified)

FairCamSpec == CamSpec /\ CamFairness

-----------------------------------------------------------------------------
(* A head that moves is answered for across drops and reconnects: it is    *)
(* held, a stop for it is outstanding, or the next connection stops it     *)
(* (movingAtDrop).  Besides the two ways of PtzMotion, "excused" names     *)
(* those the connection adds: a camera made anew after a re-address        *)
(* (Replace), and a move of a dropped connection that the head obeys only  *)
(* when nothing, or a stop believed done, would stop it (LateJobArrives).  *)
HeadIsAnsweredFor ==
  phase = "up" => \A g \in Group :
    head[g] # Zero => Owned(g) \/ movingAtDrop \/ g \in excused

(* A started camera is connected and watched, or an attempt is under way,  *)
(* or one is due; never two of these at once, which would tear each other  *)
(* down (lifecycle.js:142-143).  After stop() nothing of it acts any more: *)
(* no timer, no deadman, nothing queued, no stop loop that would send.     *)
OneWayToConnect ==
  /\ phase = "up" =>
       /\ attempt = "none" => (Connected /\ ticking) # reconnectTimer
       /\ attempt # "none" => ~ticking /\ ~reconnectTimer
       /\ Connected <=> attempt = "firstRead" \/ ticking
  /\ phase = "gone" =>
       /\ ~reconnectTimer /\ ~ticking /\ ~armed /\ ~Moving
       /\ running = None /\ \A k \in Key : waiting[k] = None

(* Once nobody asks for anything any more and the link holds whenever it   *)
(* is made, the camera connects and its head comes to rest, whatever the   *)
(* earlier drops left moving, except a latched hold or an excused group.   *)
Disturbed == CamOperator \/ FirstReadFails \/ TickDrops

QuietCameraRests ==
  <>[][~Disturbed]_camVars =>
    <>[](phase = "up" => \A g \in Group :
           head[g] # Zero => (IsHeld(g) /\ held[g].by.latch) \/ g \in excused)
=============================================================================
