----------------------------- MODULE CamdWorker -----------------------------
(***************************************************************************)
(* The connection of one camd CameraWorker (camd/src/registry.cpp): the    *)
(* worker thread's state machine, the flags that SDK callbacks, HTTP       *)
(* threads and the discovery thread set for it, the pinned host key and    *)
(* its deliberate replacement by repin(), and the connection events.       *)
(*                                                                         *)
(* Abstractions.  The command queue drained between two steps is CamdJobs. *)
(* A camera is the host key it presents.  Clocks are flags: the backoff is *)
(* over, the last heartbeat is too old; a heartbeat is due whenever the    *)
(* last one is too old (the interval is less than the timeout).  A changed *)
(* property counts from when the refresh floor lets it be acted on.  The   *)
(* attempt count only sets the backoff's length.  haveTarget_ is never     *)
(* cleared, so stepConnecting always finds a target. The worker is not    *)
(* shut down here (CamdJobs stops one).                                    *)
(***************************************************************************)
EXTENDS Naturals

CONSTANTS Key,   \* host keys
          NoKey   \* no key: nothing pinned, nothing observed, a camera without one

NoSession == "none"

ASSUME WorkerAssumption == NoKey \notin Key /\ NoSession \notin Key \cup {NoKey}

States == {"offline", "connecting", "connected", "reconnecting", "unauthorized", "identityChanged"}

VARIABLES
  stage,        \* worker thread: "step", "opening", "opened", "wait"
  state,     \* state_
  session,   \* "none", or the key the session's camera presented
  usedPin,   \* the pin the attempt under way was given, else NoKey
  pinned, observed,     \* under pinMu_
  reconnectRequested, sdkDisconnected, propertyDirty, reappeared,
  haveTarget, targetVisible,  \* haveTarget_, targetVisible_
  backoffOver, silent,
  repinning, \* an HTTP thread in repin() that has pinned a key
  camera,    \* [key, reachable, accepts]: the body at the far end
  alive      \* the link of the session works

flags  == <<reconnectRequested, sdkDisconnected, propertyDirty, reappeared>>
pin    == <<usedPin, pinned, observed>>
sight == <<haveTarget, targetVisible>>
clocks == <<backoffOver, silent>>
world  == <<camera, alive>>
workerVars   == <<stage, state, session, pin, flags, sight, clocks, repinning, world>>

Camera == [key : Key \cup {NoKey}, reachable : BOOLEAN, accepts : BOOLEAN]

WorkerTypeOK ==
  /\ stage \in {"step", "opening", "opened", "wait"}
  /\ state \in States
  /\ session \in Key \cup {NoKey, NoSession}
  /\ usedPin \in Key \cup {NoKey} /\ pinned \in Key \cup {NoKey} /\ observed \in Key \cup {NoKey}
  /\ reconnectRequested \in BOOLEAN /\ sdkDisconnected \in BOOLEAN
  /\ propertyDirty \in BOOLEAN /\ reappeared \in BOOLEAN
  /\ haveTarget \in BOOLEAN /\ targetVisible \in BOOLEAN
  /\ backoffOver \in BOOLEAN /\ silent \in BOOLEAN
  /\ repinning \in BOOLEAN
  /\ camera \in Camera /\ alive \in BOOLEAN

WorkerInit ==
  /\ stage = "step" /\ state = "offline"
  /\ session = NoSession /\ usedPin = NoKey
  /\ pinned \in Key \cup {NoKey} /\ observed = NoKey
  /\ reconnectRequested = FALSE /\ sdkDisconnected = FALSE
  /\ propertyDirty = FALSE /\ reappeared = FALSE
  /\ haveTarget = FALSE /\ targetVisible = FALSE
  /\ backoffOver = TRUE /\ silent = FALSE
  /\ repinning = FALSE
  /\ camera \in Camera /\ alive = FALSE

(* session_->disconnect() and reset(); the SDK may call back meanwhile.    *)
Teardown(told) ==
  /\ session' = NoSession /\ alive' = FALSE
  /\ sdkDisconnected' \in {told, TRUE}

BackOff == state' = "reconnecting" /\ backoffOver' = FALSE

-----------------------------------------------------------------------------
StepOffline ==
  /\ stage = "step" /\ state = "offline" /\ stage' = "wait"
  /\ IF haveTarget THEN state' = "connecting" ELSE UNCHANGED state
  /\ UNCHANGED <<session, pin, flags, sight, clocks, repinning, world>>

(* stepConnecting: the pin is read under pinMu_, then open() blocks. *)
BeginConnect ==
  /\ stage = "step" /\ state = "connecting" /\ haveTarget
  /\ stage' = "opening" /\ usedPin' = pinned
  /\ UNCHANGED <<state, session, pinned, observed, flags, sight, clocks, repinning, world>>

(* Mutant: a camera that presents no key is taken for the pinned one. *)
MutMatches == usedPin = NoKey \/ camera.key = NoKey \/ camera.key = usedPin

(* decideHostKey: nothing is pinned, or the very key that is. *)
Matches == usedPin \in {NoKey, camera.key}

OpenFails ==
  /\ stage = "opening" /\ stage' = "wait" /\ usedPin' = NoKey
  /\ \/ ~camera.reachable /\ state' = "reconnecting"
     \/ camera.reachable /\ Matches /\ ~camera.accepts /\ state' = "unauthorized"
  /\ backoffOver' = FALSE
  /\ UNCHANGED <<session, pinned, observed, flags, sight, silent, repinning, world>>

(* The camera presents another key than the one pinned, or none: nothing   *)
(* is sent to it, and the worker parks.                                    *)
IdentityRefused ==
  /\ stage = "opening" /\ camera.reachable /\ ~Matches
  /\ stage' = "wait" /\ usedPin' = NoKey /\ observed' = camera.key
  /\ state' = "identityChanged"
  /\ UNCHANGED <<session, pinned, flags, sight, clocks, repinning, world>>

(* open() returns a session; the first key ever seen is pinned. *)
Opens ==
  /\ stage = "opening" /\ camera.reachable /\ camera.accepts /\ Matches
  /\ stage' = "opened" /\ usedPin' = NoKey
  /\ session' = camera.key /\ alive' = TRUE
  /\ pinned' = IF pinned = NoKey THEN camera.key ELSE pinned
  /\ UNCHANGED <<state, observed, flags, sight, clocks, repinning, camera>>

(* The rest of stepConnecting. *)
BecomeConnected ==
  /\ stage = "opened" /\ stage' = "wait"
  /\ sdkDisconnected' = FALSE /\ propertyDirty' = FALSE /\ silent' = FALSE
  /\ state' = "connected"
  /\ UNCHANGED <<session, pin, reconnectRequested, reappeared, sight, backoffOver,
                 repinning, world>>

(* stepConnected *)
HonourReconnect ==
  /\ stage = "step" /\ state = "connected" /\ reconnectRequested
  /\ stage' = "wait" /\ reconnectRequested' = FALSE
  /\ Teardown(sdkDisconnected) /\ state' = "connecting"
  /\ UNCHANGED <<pin, propertyDirty, reappeared, sight, clocks, repinning, camera>>

HonourDisconnect ==
  /\ stage = "step" /\ state = "connected" /\ ~reconnectRequested /\ sdkDisconnected
  /\ stage' = "wait"
  /\ Teardown(FALSE) /\ BackOff
  /\ UNCHANGED <<pin, reconnectRequested, propertyDirty, reappeared, sight, silent,
                 repinning, camera>>

(* Mutant: the timeout is judged before the ping that is due. *)
MutHeartbeat ==
  /\ stage = "step" /\ state = "connected" /\ ~reconnectRequested /\ ~sdkDisconnected
  /\ stage' = "wait"
  /\ propertyDirty' = FALSE
  /\ silent' = (silent /\ ~alive)
  /\ UNCHANGED <<session, alive, sdkDisconnected, state, backoffOver>>
  /\ UNCHANGED <<pin, reconnectRequested, reappeared, sight, repinning, camera>>

(* A refresh when one is due, the heartbeat, and its timeout. *)
Heartbeat ==
  /\ stage = "step" /\ state = "connected" /\ ~reconnectRequested /\ ~sdkDisconnected
  /\ stage' = "wait"
  /\ propertyDirty' = FALSE
  /\ silent' = (silent /\ ~alive)
  /\ IF silent' THEN Teardown(FALSE) /\ BackOff
     ELSE UNCHANGED <<session, alive, sdkDisconnected, state, backoffOver>>
  /\ UNCHANGED <<pin, reconnectRequested, reappeared, sight, repinning, camera>>

(* stepReconnecting: a request, or the camera seen again, ends the backoff. *)
StepReconnecting ==
  /\ stage = "step" /\ state = "reconnecting" /\ stage' = "wait"
  /\ reconnectRequested' = FALSE /\ reappeared' = FALSE
  /\ backoffOver' = (backoffOver \/ reconnectRequested \/ reappeared)
  /\ IF backoffOver' THEN state' = "connecting" ELSE UNCHANGED state
  /\ UNCHANGED <<session, pin, sdkDisconnected, propertyDirty, sight, silent,
                 repinning, world>>

(* Parked: left only when asked to. *)
StepIdentityChanged ==
  /\ stage = "step" /\ state = "identityChanged" /\ stage' = "wait"
  /\ reconnectRequested' = FALSE
  /\ IF reconnectRequested THEN state' = "connecting" ELSE UNCHANGED state
  /\ UNCHANGED <<session, pin, sdkDisconnected, propertyDirty, reappeared, sight, clocks,
                 repinning, world>>

(* Mutant: a wrong password is final. *)
MutStepUnauthorized ==
  /\ stage = "step" /\ state = "unauthorized" /\ stage' = "wait"
  /\ UNCHANGED <<state, session, pin, flags, sight, clocks, repinning, world>>

(* Retried when the backoff is over: the password may be put right. *)
StepUnauthorized ==
  /\ stage = "step" /\ state = "unauthorized" /\ stage' = "wait"
  /\ IF backoffOver THEN state' = "connecting" ELSE UNCHANGED state
  /\ UNCHANGED <<session, pin, flags, sight, clocks, repinning, world>>

(* wait_for ends early for a flag, and after 200 ms at the latest. *)
EndWait ==
  /\ stage = "wait" /\ stage' = "step"
  /\ UNCHANGED <<state, session, pin, flags, sight, clocks, repinning, world>>

-----------------------------------------------------------------------------
(* The discovery thread. *)
OfferDiscovery ==
  /\ reappeared' = (reappeared \/ ~targetVisible)
  /\ targetVisible' = TRUE /\ haveTarget' = TRUE
  /\ camera.reachable
  /\ UNCHANGED <<stage, state, session, pin, reconnectRequested, sdkDisconnected, propertyDirty,
                 clocks, repinning, world>>

OfferMissing ==
  /\ targetVisible /\ targetVisible' = FALSE
  /\ UNCHANGED <<stage, state, session, pin, flags, haveTarget, clocks, repinning, world>>

(* HTTP threads. *)
RequestReconnect ==
  /\ reconnectRequested' = TRUE
  /\ UNCHANGED <<stage, state, session, pin, sdkDisconnected, propertyDirty, reappeared, sight,
                 clocks, repinning, world>>

(* repin() under pinMu_, with what the camera presented: a key, or the     *)
(* empty fingerprint of a camera that asks for no authentication.  A       *)
(* refusal changes nothing.  Then, outside pinMu_, the reconnect.          *)
Repin ==
  /\ repinning' = TRUE
  /\ state = "identityChanged"
  /\ pinned' = observed /\ observed' = NoKey
  /\ UNCHANGED <<stage, state, session, usedPin, flags, sight, clocks, world>>

RepinReconnects ==
  /\ repinning /\ repinning' = FALSE
  /\ reconnectRequested' = TRUE
  /\ UNCHANGED <<stage, state, session, pin, sdkDisconnected, propertyDirty, reappeared, sight,
                 clocks, world>>

-----------------------------------------------------------------------------
(* The SDK, the clock and the camera. *)
OnPropertyChanged ==
  /\ session # NoSession /\ alive /\ propertyDirty' = TRUE
  /\ UNCHANGED <<stage, state, session, pin, reconnectRequested, sdkDisconnected, reappeared, sight,
                 clocks, repinning, world>>

OnDisconnected ==
  /\ session # NoSession /\ ~alive /\ sdkDisconnected' = TRUE
  /\ UNCHANGED <<stage, state, session, pin, reconnectRequested, propertyDirty, reappeared, sight,
                 clocks, repinning, world>>

BackoffEnds ==
  /\ ~backoffOver /\ backoffOver' = TRUE
  /\ UNCHANGED <<stage, state, session, pin, flags, sight, silent, repinning, world>>

HeartbeatAges ==
  /\ state = "connected" /\ ~silent /\ silent' = TRUE
  /\ UNCHANGED <<stage, state, session, pin, flags, sight, backoffOver, repinning, world>>

(* The camera is unplugged, comes back, is swapped while it is away, its   *)
(* password changes.                                                       *)
CameraChanges ==
  /\ \E c \in Camera \ {camera} :
       /\ c.reachable => ~camera.reachable
       /\ camera' = c /\ alive' = FALSE
  /\ UNCHANGED <<stage, state, session, pin, flags, sight, clocks, repinning>>

-----------------------------------------------------------------------------
Open == OpenFails \/ IdentityRefused \/ Opens

WorkerStep ==
  \/ StepOffline \/ BeginConnect \/ Open \/ BecomeConnected
  \/ HonourReconnect \/ HonourDisconnect \/ Heartbeat
  \/ StepReconnecting \/ StepIdentityChanged \/ StepUnauthorized

Others ==
  \/ OfferDiscovery \/ OfferMissing
  \/ RequestReconnect \/ Repin \/ RepinReconnects
  \/ OnPropertyChanged \/ OnDisconnected \/ CameraChanges

Clock == BackoffEnds \/ HeartbeatAges

WorkerNext == WorkerStep \/ EndWait \/ Others \/ Clock

WorkerSpec == WorkerInit /\ [][WorkerNext]_workerVars

(* The worker thread runs, open() returns, HTTP threads finish what they   *)
(* began, and heartbeats age.  Nothing is promised of the backoff here: a  *)
(* property that needs it to end says so.                                  *)
WorkerFairSpec ==
  /\ WorkerSpec
  /\ WF_workerVars(WorkerStep) /\ WF_workerVars(EndWait) /\ WF_workerVars(HeartbeatAges)
  /\ WF_workerVars(RepinReconnects)

-----------------------------------------------------------------------------
(* Whatever the operator and the camera do, a session is only ever held    *)
(* with the camera whose key is pinned, or with one that has no key while  *)
(* nothing is pinned.                                                      *)
SessionIsPinned == session # NoSession => session = pinned

(* A link that dies is noticed, by the SDK's callback or the heartbeat;    *)
(* and a camera that can be reached and accepts is connected again once    *)
(* the backoff is over, unless its identity has changed.                   *)
Reachable == haveTarget /\ camera.reachable /\ camera.accepts
LinkIsKept ==
  /\ state = "connected" /\ ~alive ~> state # "connected"
  /\ WF_workerVars(BackoffEnds) /\ <>[]Reachable => []<>(state \in {"connected", "identityChanged"})
=============================================================================
