------------------------------ MODULE PtzQueue ------------------------------
(***************************************************************************)
(* The command queue of one PTZ camera (cambridge/src/ptz/queue.js): one   *)
(* command at a time, most important first, a lane of its own for motion,  *)
(* a minimum gap between starts, and a guard on commands that never        *)
(* settle.                                                                 *)
(*                                                                         *)
(* A step is one run of JavaScript: a call, a timer, the settling of a     *)
(* command's promise, or the microtask that pumps.  Time passes in ticks;  *)
(* timers fire in the tick they are due.  Each job is asked for once.      *)
(***************************************************************************)
EXTENDS Integers, FiniteSets

CONSTANTS Command,    \* the commands
          Motion,     \* those of PRIORITY.MOTION
          Write,      \* those of PRIORITY.WRITE; the rest are polls
          KeyOf,      \* job -> its key, or NoKey
          NoKey,      \* no key
          Gap,        \* minIntervalMs
          Guard       \* jobTimeoutMs

QueueAssumption ==
  /\ Motion \subseteq Command /\ Write \subseteq Command /\ Motion \cap Write = {}
  /\ DOMAIN KeyOf = Command
  /\ Gap \in Nat /\ Guard \in Nat \ {0}

VARIABLES
  st,        \* job -> where its promise is, see QueueTypeOK
  pending,   \* the jobs that wait
  seq,       \* job -> its place in the order of arrival
  arrivals,  \* seq of the last arrival
  laneRunning, motionRunning,   \* the two flags
  timer,     \* the gap timer is set
  pump,      \* a microtask that pumps is queued
  closed,
  gapLeft,   \* ticks until the camera may be sent the next command
  guardLeft, \* job -> ticks until its guard fires
  busy,      \* jobs whose fn() has not settled
  waited     \* history: motion job -> ticks it has waited so far

queued  == <<pending, seq, arrivals>>
lanes   == <<laneRunning, motionRunning>>
clocks  == <<gapLeft, guardLeft, waited>>
queueVars == <<st, queued, lanes, timer, pump, closed, busy, clocks>>

Answer == {"settled", "superseded", "abandoned", "refused"}

QueueTypeOK ==
  /\ st \in [Command -> {"new", "pending", "running"} \cup Answer]
  /\ pending \subseteq Command /\ pending = {j \in Command : st[j] = "pending"}
  /\ seq \in [Command -> Nat] /\ arrivals \in Nat
  /\ laneRunning \in BOOLEAN /\ motionRunning \in BOOLEAN
  /\ timer \in BOOLEAN /\ pump \in BOOLEAN /\ closed \in BOOLEAN
  /\ gapLeft \in 0 .. Gap
  /\ guardLeft \in [Command -> 0 .. Guard]
  /\ busy \subseteq Command
  /\ waited \in [Command -> Nat]

QueueInit ==
  /\ st = [j \in Command |-> "new"]
  /\ pending = {} /\ seq = [j \in Command |-> 0] /\ arrivals = 0
  /\ laneRunning = FALSE /\ motionRunning = FALSE
  /\ timer = FALSE /\ pump = FALSE /\ closed = FALSE
  /\ gapLeft = 0 /\ guardLeft = [j \in Command |-> 0]
  /\ busy = {}
  /\ waited = [j \in Command |-> 0]

Rank(j) == IF j \in Motion THEN 0 ELSE IF j \in Write THEN 1 ELSE 2

(* Stable by priority, then arrival. *)
FirstOf(P, order) ==
  {j \in P : \A k \in P : Rank(j) < Rank(k) \/ (Rank(j) = Rank(k) /\ order[j] <= order[k])}

(* Mutant: one lane for everything. *)
MutStartable(P, order) ==
  IF ~laneRunning /\ ~motionRunning THEN FirstOf(P, order) ELSE {}

(* #next: motion whenever no other motion runs, anything else only when    *)
(* nothing runs.                                                           *)
Startable(P, order) ==
  IF ~motionRunning /\ P \cap Motion # {} THEN FirstOf(P \cap Motion, order)
  ELSE IF ~laneRunning /\ ~motionRunning THEN FirstOf(P, order)
  ELSE {}

(* #pump with the jobs P queued in this order, their promises being s.    *)
Pump(P, order, s, timerSet, pumpQueued) ==
  \/ /\ timerSet \/ closed \/ Startable(P, order) = {}
     /\ pending' = P /\ st' = s /\ timer' = timerSet /\ pump' = pumpQueued
     /\ UNCHANGED <<lanes, busy, gapLeft, guardLeft>>
  \/ /\ ~timerSet /\ ~closed /\ Startable(P, order) # {} /\ gapLeft > 0
     /\ timer' = TRUE
     /\ pending' = P /\ st' = s /\ pump' = pumpQueued
     /\ UNCHANGED <<lanes, busy, gapLeft, guardLeft>>
  \/ /\ ~timerSet /\ ~closed /\ gapLeft = 0
     /\ \E j \in Startable(P, order) :
          /\ pending' = P \ {j} /\ st' = [s EXCEPT ![j] = "running"]
          /\ IF j \in Motion THEN motionRunning' = TRUE /\ UNCHANGED laneRunning
                             ELSE laneRunning' = TRUE /\ UNCHANGED motionRunning
          /\ busy' = busy \cup {j}
          /\ gapLeft' = Gap /\ guardLeft' = [guardLeft EXCEPT ![j] = Guard]
     /\ timer' = FALSE /\ pump' = TRUE

-----------------------------------------------------------------------------
(* Mutant: the replaced job's caller is not told. *)
MutRun(j) ==
  LET old == {k \in pending : KeyOf[k] = KeyOf[j] /\ KeyOf[j] # NoKey}
  IN  /\ st[j] = "new"
      /\ IF closed
         THEN /\ st' = [st EXCEPT ![j] = "refused"]
              /\ UNCHANGED <<queued, lanes, timer, pump, busy, gapLeft, guardLeft>>
         ELSE /\ arrivals' = arrivals + 1 /\ seq' = [seq EXCEPT ![j] = arrivals']
              /\ Pump((pending \ old) \cup {j}, seq', [st EXCEPT ![j] = "pending"], timer, pump)
      /\ UNCHANGED <<closed, waited>>

(* run(): a queued job with the same key is replaced by this one. *)
Run(j) ==
  LET old == {k \in pending : KeyOf[k] = KeyOf[j] /\ KeyOf[j] # NoKey}
  IN  /\ st[j] = "new"
      /\ IF closed
         THEN /\ st' = [st EXCEPT ![j] = "refused"]
              /\ UNCHANGED <<queued, lanes, timer, pump, busy, gapLeft, guardLeft>>
         ELSE /\ arrivals' = arrivals + 1 /\ seq' = [seq EXCEPT ![j] = arrivals']
              /\ Pump((pending \ old) \cup {j}, seq',
                      [k \in Command |-> IF k = j THEN "pending"
                                     ELSE IF k \in old THEN "superseded" ELSE st[k]],
                      timer, pump)
      /\ UNCHANGED <<closed, waited>>

(* A stop overtakes the moves that wait. *)
Supersede ==
  /\ pending \cap Motion # {}
  /\ pending' = pending \ Motion
  /\ st' = [j \in Command |-> IF j \in pending \cap Motion THEN "superseded" ELSE st[j]]
  /\ UNCHANGED <<seq, arrivals, lanes, timer, pump, closed, busy, clocks>>

Close ==
  /\ ~closed /\ closed' = TRUE
  /\ timer' = FALSE
  /\ pending' = {} /\ st' = [j \in Command |-> IF j \in pending THEN "refused" ELSE st[j]]
  /\ UNCHANGED <<seq, arrivals, lanes, pump, busy, clocks>>

TimerFires ==
  /\ timer /\ gapLeft = 0
  /\ Pump(pending, seq, st, FALSE, pump)
  /\ UNCHANGED <<seq, arrivals, closed, waited>>

Microtask ==
  /\ pump
  /\ Pump(pending, seq, st, timer, FALSE)
  /\ UNCHANGED <<seq, arrivals, closed, waited>>

LowerFlag(j) ==
  IF j \in Motion THEN motionRunning' = FALSE /\ UNCHANGED laneRunning
                  ELSE laneRunning' = FALSE /\ UNCHANGED motionRunning

(* fn()'s promise settles; finish() ignores a job already abandoned. *)
Settle(j) ==
  /\ j \in busy /\ busy' = busy \ {j}
  /\ IF st[j] = "running"
     THEN LowerFlag(j) /\ pump' = TRUE /\ st' = [st EXCEPT ![j] = "settled"]
     ELSE UNCHANGED <<lanes, pump, st>>
  /\ UNCHANGED <<queued, timer, closed, clocks>>

(* The guard: a driver promise that never settles must not freeze the      *)
(* camera forever.                                                         *)
Abandon(j) ==
  /\ st[j] = "running" /\ guardLeft[j] = 0
  /\ LowerFlag(j) /\ pump' = TRUE
  /\ st' = [st EXCEPT ![j] = "abandoned"]
  /\ UNCHANGED <<queued, timer, closed, busy, clocks>>

Down(n) == IF n = 0 THEN 0 ELSE n - 1

Tick ==
  /\ ~pump /\ ~(timer /\ gapLeft = 0)
  /\ \A j \in Command : st[j] = "running" => guardLeft[j] > 0
  /\ gapLeft > 0 \/ \E j \in Command : st[j] = "running"   \* nothing else waits for time
  /\ gapLeft' = Down(gapLeft)
  /\ guardLeft' = [j \in Command |-> Down(guardLeft[j])]
  /\ waited' = [j \in Command |-> IF j \in pending \cap Motion THEN waited[j] + 1 ELSE 0]
  /\ UNCHANGED <<st, queued, lanes, timer, pump, closed, busy>>

-----------------------------------------------------------------------------
QueueNext ==
  \/ \E j \in Command : Run(j) \/ Settle(j) \/ Abandon(j)
  \/ Supersede \/ Close \/ TimerFires \/ Microtask \/ Tick

QueueSpec == QueueInit /\ [][QueueNext]_queueVars

(* Node runs its microtasks and its timers, and time passes.  A driver's   *)
(* promise may never settle.                                               *)
Fairness ==
  /\ WF_queueVars(TimerFires) /\ WF_queueVars(Microtask) /\ WF_queueVars(Tick)
  /\ \A j \in Command : WF_queueVars(Abandon(j))

FairSpec == QueueSpec /\ Fairness

-----------------------------------------------------------------------------
(* "A stop never waits behind a read": a motion job waits for the gap and  *)
(* for motion jobs asked for before it, whatever else runs or never ends.  *)
MotionIsPrompt ==
  \A m \in Motion \cap pending :
    LET ahead == {k \in Motion : st[k] # "new" /\ seq[k] < seq[m]}
        turn  == IF Guard > Gap THEN Guard ELSE Gap
    IN  waited[m] <= Gap + turn * Cardinality(ahead)

(* Every command asked for is answered, one way or another: sent and       *)
(* settled, replaced, abandoned, or refused when the camera goes.          *)
EveryCallIsAnswered ==
  \A j \in Command : st[j] \in {"pending", "running"} ~> st[j] \in Answer
=============================================================================
