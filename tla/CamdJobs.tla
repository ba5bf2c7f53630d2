------------------------------ MODULE CamdJobs ------------------------------
(***************************************************************************)
(* The command queue of one camd CameraWorker (camd/src/registry.cpp):     *)
(* HTTP threads hand commands to the worker thread with runJob(), each     *)
(* waiting for its own promise up to a deadline; the worker drains the     *)
(* queue; a record stop jumps the queue and withdraws record starts; and   *)
(* stop() ends the worker and releases whoever still waits.                *)
(*                                                                         *)
(* One step is what one thread does between two points where another can   *)
(* interfere: a critical section of jobMu_, one atomic operation on a      *)
(* job's phase, one promise.  A command's own effect is left out but for   *)
(* the order in which the commands run.                                    *)
(***************************************************************************)
EXTENDS Integers, Sequences, SequencesExt

CONSTANTS Job,       \* the commands, each asked for once by one HTTP thread
          Start,     \* the record starts among them
          Stop,      \* the record stops
          None       \* no outcome, no current job

ASSUME JobsAssumption ==
  /\ Start \subseteq Job /\ Stop \subseteq Job /\ Start \cap Stop = {}
  /\ None \notin Job /\ None \notin {"completed", "notExecuted", "unknown"}

VARIABLES
  pc,        \* caller: "idle", "checked", "pushed", "waiting", "timedOut", "answered"
  outcome,   \* job -> what runJob returned, or None
  phase,     \* job -> "pending" | "running" | "done" | "cancelled"
  signals,   \* job -> how often its promise was set
  late,      \* jobs whose deadline has passed
  withdrawn, \* job -> the jobs its push took out, whose promises it has yet to set
  queued,    \* the jobs in the deque jobs_
  place,     \* job -> its place in the deque: the least is its front
  ends,      \* the places given out so far, [first, last]
  worker,    \* "check", "drain", "popped", "running", "done", "dropped", "exited"
  current,   \* the job the worker holds, or None
  running,   \* running_
  stopper,   \* "no", "joining", "drained": stop()
  leftover,  \* jobs stop() took over, not yet released
  ran,       \* history: the jobs in the order they ran on the worker
  before     \* history: record stop -> record starts asked for before it

callers == <<pc, outcome, withdrawn>>
deque == <<queued, place, ends>>
theWorker == <<worker, current, ran>>
theStop == <<running, stopper, leftover>>
vars == <<callers, phase, signals, late, deque, theWorker, theStop, before>>

HasRun == ToSet(ran)

TypeOK ==
  /\ pc \in [Job -> {"idle", "checked", "pushed", "waiting", "timedOut", "answered"}]
  /\ outcome \in [Job -> {"completed", "notExecuted", "unknown", None}]
  /\ phase \in [Job -> {"pending", "running", "done", "cancelled"}]
  /\ signals \in [Job -> Nat]
  /\ late \subseteq Job
  /\ withdrawn \in [Job -> SUBSET Job]
  /\ queued \subseteq Job
  /\ place \in [Job -> Int]
  /\ ends \in [first : Int, last : Int]
  /\ worker \in {"check", "drain", "popped", "running", "done", "dropped", "exited"}
  /\ current \in Job \cup {None}
  /\ running \in BOOLEAN
  /\ stopper \in {"no", "joining", "drained"}
  /\ leftover \subseteq Job
  /\ ran \in Seq(Job)
  /\ before \in [Stop -> SUBSET Start]

Init ==
  /\ pc = [j \in Job |-> "idle"]
  /\ outcome = [j \in Job |-> None]
  /\ phase = [j \in Job |-> "pending"]
  /\ signals = [j \in Job |-> 0]
  /\ late = {}
  /\ withdrawn = [j \in Job |-> {}]
  /\ queued = {}
  /\ place = [j \in Job |-> 0]
  /\ ends = [first |-> 0, last |-> 0]
  /\ worker = "check" /\ current = None
  /\ running = TRUE /\ stopper = "no" /\ leftover = {}
  /\ ran = <<>>
  /\ before = [t \in Stop |-> {}]

Return(j, o) ==
  /\ pc' = [pc EXCEPT ![j] = "answered"]
  /\ outcome' = [outcome EXCEPT ![j] = o]

PushFront(j) ==
  /\ ends' = [ends EXCEPT !.first = @ - 1]
  /\ place' = [place EXCEPT ![j] = ends'.first]

PushBack(j) ==
  /\ ends' = [ends EXCEPT !.last = @ + 1]
  /\ place' = [place EXCEPT ![j] = ends'.last]

IsFront(j) == j \in queued /\ \A k \in queued : place[j] <= place[k]

(* The record starts that a record stop finds waiting. *)
Overtaken == {s \in Start \cap queued : phase[s] = "pending"}

AskedFor == {s \in Start : pc[s] \notin {"idle", "checked"}}

Signal(J) == signals' = [j \in Job |-> IF j \in J THEN signals[j] + 1 ELSE signals[j]]

-----------------------------------------------------------------------------
(* runJob: a worker that does not run is not asked; its caller runs the    *)
(* command itself, without a session.                                      *)
Call(j) ==
  /\ pc[j] = "idle"
  /\ IF running
     THEN pc' = [pc EXCEPT ![j] = "checked"] /\ UNCHANGED <<outcome, phase>>
     ELSE Return(j, "completed") /\ phase' = [phase EXCEPT ![j] = "done"]
  /\ UNCHANGED <<withdrawn, signals, late, deque, theWorker, theStop, before>>

(* Mutant: the record starts that wait are not withdrawn. *)
MutPushFront(j) ==
  /\ pc[j] = "checked" /\ pc' = [pc EXCEPT ![j] = "pushed"]
  /\ queued' = queued \cup {j}
  /\ IF j \in Stop
     THEN PushFront(j) /\ before' = [before EXCEPT ![j] = AskedFor]
     ELSE PushBack(j) /\ UNCHANGED before
  /\ UNCHANGED <<outcome, withdrawn, phase, signals, late, theWorker, theStop>>

(* Under jobMu_: a record stop withdraws the record starts that wait and   *)
(* goes to the front.                                                      *)
Push(j) ==
  /\ pc[j] = "checked" /\ pc' = [pc EXCEPT ![j] = "pushed"]
  /\ IF j \in Stop
     THEN /\ PushFront(j) /\ queued' = (queued \ Overtaken) \cup {j}
          /\ phase' = [s \in Job |-> IF s \in Overtaken THEN "cancelled" ELSE phase[s]]
          /\ withdrawn' = [withdrawn EXCEPT ![j] = Overtaken]
          /\ before' = [before EXCEPT ![j] = AskedFor]
     ELSE PushBack(j) /\ queued' = queued \cup {j} /\ UNCHANGED <<phase, withdrawn, before>>
  /\ UNCHANGED <<outcome, signals, late, theWorker, theStop>>

(* The callers of the withdrawn starts are told. *)
Release(j) ==
  /\ pc[j] = "pushed" /\ pc' = [pc EXCEPT ![j] = "waiting"]
  /\ Signal(withdrawn[j])
  /\ withdrawn' = [withdrawn EXCEPT ![j] = {}]
  /\ UNCHANGED <<outcome, phase, late, deque, theWorker, theStop, before>>

Deadline(j) ==
  /\ pc[j] \in {"checked", "pushed", "waiting"} /\ j \notin late
  /\ late' = late \cup {j}
  /\ UNCHANGED <<callers, phase, signals, deque, theWorker, theStop, before>>

(* wait_for: the promise was set. *)
Told(j) ==
  /\ pc[j] = "waiting" /\ signals[j] > 0
  /\ Return(j, IF phase[j] = "done" THEN "completed" ELSE "notExecuted")
  /\ UNCHANGED <<withdrawn, phase, signals, late, deque, theWorker, theStop, before>>

(* wait_for: time is up. *)
TimesOut(j) ==
  /\ pc[j] = "waiting" /\ signals[j] = 0 /\ j \in late
  /\ pc' = [pc EXCEPT ![j] = "timedOut"]
  /\ UNCHANGED <<outcome, withdrawn, phase, signals, late, deque, theWorker, theStop, before>>

(* The caller that timed out withdraws its command.  It is told "unknown"  *)
(* whenever that fails and the command is not done.                        *)
Withdraw(j) ==
  /\ pc[j] = "timedOut"
  /\ phase' = IF phase[j] = "pending" THEN [phase EXCEPT ![j] = "cancelled"] ELSE phase
  /\ Return(j, CASE phase[j] = "pending" -> "notExecuted"
                 [] phase[j] = "done"    -> "completed"
                 [] OTHER                -> "unknown")
  /\ UNCHANGED <<withdrawn, signals, late, deque, theWorker, theStop, before>>

-----------------------------------------------------------------------------
(* threadMain: what the worker does for its camera between two drains is   *)
(* in CamdWorker.                                                          *)
Check ==
  /\ worker = "check"
  /\ worker' = IF running THEN "drain" ELSE "exited"
  /\ UNCHANGED <<callers, phase, signals, late, deque, current, ran, theStop, before>>

(* drainJobs *)
Pop ==
  /\ worker = "drain"
  /\ \/ queued = {} /\ worker' = "check" /\ UNCHANGED <<queued, current>>
     \/ \E j \in queued : /\ IsFront(j) /\ current' = j
                           /\ queued' = queued \ {j} /\ worker' = "popped"
  /\ UNCHANGED <<callers, phase, signals, late, place, ends, ran, theStop, before>>

(* Mutant: the command is taken without looking at its phase. *)
MutClaim ==
  /\ worker = "popped"
  /\ \/ /\ current \in late
        /\ phase' = [phase EXCEPT ![current] = "cancelled"] /\ worker' = "dropped"
     \/ phase' = [phase EXCEPT ![current] = "running"] /\ worker' = "running"
  /\ UNCHANGED <<callers, signals, late, deque, current, ran, theStop, before>>

(* A command that expired in the queue is withdrawn; otherwise it is       *)
(* claimed, though its deadline may pass before the claim, and the claim   *)
(* fails if its caller withdrew it.                                        *)
Claim ==
  /\ worker = "popped"
  /\ \/ /\ phase[current] = "pending" /\ current \in late
        /\ phase' = [phase EXCEPT ![current] = "cancelled"] /\ worker' = "dropped"
     \/ /\ phase[current] = "pending"
        /\ phase' = [phase EXCEPT ![current] = "running"] /\ worker' = "running"
     \/ /\ phase[current] # "pending"
        /\ worker' = "dropped" /\ UNCHANGED phase
  /\ UNCHANGED <<callers, signals, late, deque, current, ran, theStop, before>>

Run ==
  /\ worker = "running" /\ worker' = "done"
  /\ ran' = Append(ran, current)
  /\ phase' = [phase EXCEPT ![current] = "done"]
  /\ UNCHANGED <<callers, signals, late, deque, current, theStop, before>>

SignalDone ==
  /\ worker \in {"done", "dropped"} /\ worker' = "drain"
  /\ Signal({current}) /\ current' = None
  /\ UNCHANGED <<callers, phase, late, deque, ran, theStop, before>>

-----------------------------------------------------------------------------
(* stop() *)
StopBegins ==
  /\ running /\ running' = FALSE /\ stopper' = "joining"
  /\ UNCHANGED <<callers, phase, signals, late, deque, theWorker, leftover, before>>

(* Mutant: what is still queued is thrown away. *)
MutStopDrains ==
  /\ stopper = "joining" /\ worker = "exited"
  /\ stopper' = "drained" /\ queued' = {}
  /\ UNCHANGED <<callers, phase, signals, late, place, ends, theWorker, running, leftover, before>>

StopDrains ==
  /\ stopper = "joining" /\ worker = "exited"
  /\ stopper' = "drained" /\ leftover' = queued /\ queued' = {}
  /\ UNCHANGED <<callers, phase, signals, late, place, ends, theWorker, running, before>>

StopReleases(j) ==
  /\ j \in leftover /\ leftover' = leftover \ {j}
  /\ phase' = [phase EXCEPT ![j] = "cancelled"]
  /\ Signal({j})
  /\ UNCHANGED <<callers, late, deque, theWorker, running, stopper, before>>

-----------------------------------------------------------------------------
Caller(j) == Call(j) \/ Push(j) \/ Release(j) \/ Told(j) \/ TimesOut(j) \/ Withdraw(j)
Worker    == Check \/ Pop \/ Claim \/ Run \/ SignalDone

Next ==
  \/ \E j \in Job : Caller(j) \/ Deadline(j) \/ StopReleases(j)
  \/ Worker
  \/ StopBegins \/ StopDrains

Spec == Init /\ [][Next]_vars

-----------------------------------------------------------------------------
(* What a caller is told is what happened, and stays so: a command answered *)
(* notExecuted has not run and never will, one answered completed is done, *)
(* and none runs twice (registry.h:38-43).                                 *)
AnswerIsTrue ==
  /\ \A j \in Job :
       /\ outcome[j] = "notExecuted" => phase[j] = "cancelled" /\ j \notin HasRun
       /\ outcome[j] = "completed"   => phase[j] = "done"
       /\ outcome[j] = "unknown"     => phase[j] # "pending"
  /\ IsInjective(ran)

(* The promise of a command is set at most once, whoever does it: the      *)
(* worker, the record stop that withdrew it, or stop().  A second set      *)
(* throws in the thread that does it.                                      *)
PromiseSetOnce == \A j \in Job : signals[j] <= 1

(* A record start asked for before a record stop never runs after it.      *)
StopOutranksStart ==
  \A a, b \in DOMAIN ran :
    (ran[a] \in Stop /\ ran[b] \in before[ran[a]]) => b < a

(* After stop() the callers it found waiting have been released; only one  *)
(* that was between its look at running_ and the queue is left to time out. *)
ShutdownReleases ==
  (stopper = "drained" /\ leftover = {}) =>
    \A j \in Job : (pc[j] = "waiting" /\ signals[j] = 0)
      => j \in queued \/ \E t \in Stop : j \in withdrawn[t]

(* The queue keeps the promise of CommandOutcome. *)
fateOf == [j \in Job |-> CASE phase[j] = "pending"   -> "asked"
                          [] phase[j] = "running"   -> "started"
                          [] phase[j] = "done"      -> "finished"
                          [] phase[j] = "cancelled" -> "withdrawn"]

Promise == INSTANCE CommandOutcome WITH fate <- fateOf, answer <- outcome

KeepsPromise == Promise!FatesSpec
=============================================================================
