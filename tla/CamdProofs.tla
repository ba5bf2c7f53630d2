------------------------------ MODULE CamdProofs ------------------------------
(***************************************************************************)
(* Theorems of camd's command queue (CamdJobs), of its discovery loop      *)
(* (CamdDiscovery) and of its workers' connections (CamdWorker).           *)
(*                                                                         *)
(* The queue, for any number of commands: the answers callers get are      *)
(* true, every promise is set at most once, and a record stop outranks the *)
(* record starts asked for before it.  They follow from one inductive      *)
(* invariant, JobsInv, that says where a command can be (in the deque,     *)
(* with the worker, with stop(), or with the record stop that withdrew     *)
(* it), that it is in one of these only, and that its promise is unset     *)
(* exactly there.                                                          *)
(*                                                                         *)
(* Discovery, for any bodies and entries: DiscoveryInv follows a sweep     *)
(* entry by entry and pass by pass.  A body given away has an entry that   *)
(* pins it or is one that nobody pins, and once the entries that pin it    *)
(* have had their pass it is with one of them; so when the passes are over *)
(* the strongest claim has it.                                             *)
(*                                                                         *)
(* The connection of a worker (CamdWorker), for any host keys: it only     *)
(* ever holds a session with the camera it has pinned, whatever cameras    *)
(* are swapped and whoever replaces the pin.                               *)
(***************************************************************************)
EXTENDS CamdJobs, CamdDiscovery, CamdWorker, TLAPS

Asked(j) == pc[j] \notin {"idle", "checked"}

(* A command that was not pushed is nowhere. *)
Untouched ==
  \A j \in Job : ~Asked(j) =>
    /\ phase[j] = "pending" /\ signals[j] = 0
    /\ j \notin queued /\ j \notin leftover /\ j # current
    /\ \A t \in Job : j \notin withdrawn[t]

AnswerPhase ==
  \A j \in Job : outcome[j] # None <=> pc[j] = "answered"

(* A command is in one place, and its promise unset while it is there. *)
OnePromise ==
  /\ \A j \in Job : signals[j] <= 1
  /\ \A j \in queued : signals[j] = 0 /\ j \notin leftover /\ j # current
                       /\ \A t \in Job : j \notin withdrawn[t]
  /\ \A j \in leftover : signals[j] = 0 /\ j # current /\ \A t \in Job : j \notin withdrawn[t]
  /\ current # None => signals[current] = 0 /\ \A t \in Job : current \notin withdrawn[t]
  /\ \A t \in Job : \A j \in withdrawn[t] :
       signals[j] = 0 /\ phase[j] = "cancelled" /\ \A u \in Job \ {t} : j \notin withdrawn[u]
  /\ \A t \in Job : withdrawn[t] # {} => pc[t] = "pushed"

WorkerPhase ==
  /\ worker \in {"popped", "running", "done", "dropped"} <=> current # None
  /\ worker = "popped"  => phase[current] \in {"pending", "cancelled"}
  /\ worker = "running" => phase[current] = "running"
  /\ worker = "done"    => phase[current] = "done"
  /\ worker = "dropped" => phase[current] = "cancelled"
  /\ \A j \in Job : phase[j] = "running" => worker = "running" /\ current = j
  /\ \A j \in queued \cup leftover : phase[j] \in {"pending", "cancelled"}

(* stop() takes the deque over when the worker is gone. *)
StopPhase ==
  /\ stopper # "drained" => leftover = {}
  /\ stopper = "drained" => worker = "exited"
  /\ running <=> stopper = "no"

SignalledIsOver ==
  \A j \in Job : signals[j] > 0 => phase[j] \in {"done", "cancelled"}

PendingWaits ==
  \A j \in Job : Asked(j) /\ phase[j] = "pending" =>
    j \in queued \/ j \in leftover \/ (worker = "popped" /\ current = j)

RanIsDone == \A i \in DOMAIN ran : phase[ran[i]] = "done"

(* Of the starts a record stop found, only one that the worker or stop()    *)
(* had already taken out may still be waiting.                             *)
OvertakenIsOver ==
  \A t \in Stop : \A s \in before[t] :
    phase[s] = "pending" => s \in leftover \/ (worker = "popped" /\ current = s)

RanIsOver ==
  \A i \in DOMAIN ran : ran[i] \in Stop =>
    \A s \in before[ran[i]] : phase[s] \in {"done", "cancelled"}

TruthTold ==
  \A j \in Job :
    /\ outcome[j] = "notExecuted" => phase[j] = "cancelled"
    /\ outcome[j] = "completed"   => phase[j] = "done"
    /\ outcome[j] = "unknown"     => phase[j] # "pending"

IsInjectiveRan == \A a, b \in DOMAIN ran : ran[a] = ran[b] => a = b

JobsInv ==
  /\ TypeOK
  /\ Untouched
  /\ AnswerPhase
  /\ OnePromise
  /\ WorkerPhase
  /\ StopPhase
  /\ SignalledIsOver
  /\ PendingWaits
  /\ RanIsDone
  /\ OvertakenIsOver
  /\ RanIsOver
  /\ TruthTold
  /\ IsInjectiveRan
  /\ StopOutranksStart

LEMMA AppendIs ==
  ASSUME NEW S, NEW s \in Seq(S), NEW e \in S
  PROVE  /\ Len(s) \in Nat /\ DOMAIN s = 1 .. Len(s)
         /\ DOMAIN Append(s, e) = 1 .. Len(s) + 1
         /\ Append(s, e)[Len(s) + 1] = e
         /\ \A i \in DOMAIN s : Append(s, e)[i] = s[i]
  OBVIOUS

LEMMA InitInv == Init => JobsInv
  BY JobsAssumption DEF Init, JobsInv, TypeOK, Untouched, Asked, AnswerPhase,
     OnePromise, WorkerPhase, StopPhase, SignalledIsOver, PendingWaits,
     RanIsDone, OvertakenIsOver, RanIsOver, TruthTold, IsInjectiveRan,
     StopOutranksStart

LEMMA CallInv == ASSUME NEW j \in Job, JobsInv, Call(j) PROVE JobsInv'
<1> USE JobsAssumption DEF JobsInv, TypeOK, Call, Return, callers, theWorker,
      theStop, deque
<1>1. phase[j] = "pending" /\ \A t \in Job : j \notin withdrawn[t]
  BY DEF Untouched, Asked
<1>2. TypeOK'
  BY DEF WorkerPhase
<1>3. Untouched'
  BY DEF Untouched, Asked
<1>4. AnswerPhase'
  BY DEF AnswerPhase
<1>5. OnePromise'
  <2>1. \A t \in Job : withdrawn[t] # {} => t # j
    BY DEF OnePromise
  <2>2. \A t \in Job : t # j => pc'[t] = pc[t]
    OBVIOUS
  <2>3. \A k \in Job : k # j => phase'[k] = phase[k]
    OBVIOUS
  <2> QED
    BY <1>1, <2>1, <2>2, <2>3 DEF OnePromise
<1>6. WorkerPhase'
  <2>1. j \notin queued \cup leftover /\ j # current
    BY DEF Untouched, Asked
  <2>2. /\ UNCHANGED <<worker, current, queued, leftover>>
        /\ \A k \in Job : k # j => phase'[k] = phase[k]
        /\ phase'[j] \in {"pending", "done"}
    BY <1>1
  <2>3. current \in Job \cup {None} /\ queued \subseteq Job /\ leftover \subseteq Job /\ None \notin Job
    OBVIOUS
  <2>4. WorkerPhase
    OBVIOUS
  <2> HIDE DEF JobsInv, TypeOK, Call
  <2> QED
    BY <2>1, <2>2, <2>3, <2>4 DEF WorkerPhase
<1>7. SignalledIsOver'
  BY DEF SignalledIsOver, OnePromise, WorkerPhase, Untouched, Asked
<1>8. PendingWaits'
  BY DEF PendingWaits, Asked, WorkerPhase, StopPhase
<1>9. RanIsDone'
  BY DEF RanIsDone, WorkerPhase, Untouched, Asked
<1>10. OvertakenIsOver'
  BY DEF OvertakenIsOver, WorkerPhase, StopPhase, PendingWaits, AskedFor,
     Untouched, Asked
<1>11. RanIsOver'
  BY DEF RanIsOver, StopPhase, WorkerPhase, RanIsDone, OvertakenIsOver,
     OnePromise, Untouched, Asked
<1>12. TruthTold'
  BY DEF TruthTold, AnswerPhase, SignalledIsOver, WorkerPhase, Untouched,
     Asked
<1>13. UNCHANGED <<before, leftover, ran, running, stopper, worker>>
  OBVIOUS
<1>14. QED
  BY <1>2, <1>3, <1>4, <1>5, <1>6, <1>7, <1>8, <1>9, <1>10, <1>11,
     <1>12, <1>13
  DEF StopPhase, IsInjectiveRan, StopOutranksStart

LEMMA PushInv == ASSUME NEW j \in Job, JobsInv, Push(j) PROVE JobsInv'
<1> USE JobsAssumption DEF JobsInv, TypeOK, Push, PushFront, PushBack,
      Overtaken, AskedFor, callers, theWorker, theStop, deque
<1>1. /\ phase[j] = "pending" /\ signals[j] = 0 /\ j # current
     /\ j \notin queued /\ j \notin leftover /\ \A t \in Job : j \notin withdrawn[t]
  BY DEF Untouched, Asked
<1>2. \A s \in Overtaken : s \in queued /\ s \in Job /\ phase[s] = "pending" /\ s # j
  BY <1>1
<1>3. withdrawn[j] = {}
  BY DEF OnePromise
<1>4. \A i \in DOMAIN ran : ran[i] # j
  BY <1>1 DEF RanIsDone
<1>5. /\ phase' \in [Job -> {"pending", "running", "done", "cancelled"}]
     /\ \A k \in Job : phase'[k] # phase[k] => phase[k] = "pending" /\ phase'[k] = "cancelled"
  BY <1>2
<1>6. j \in Stop =>
        /\ \A t \in Job : withdrawn'[t] = IF t = j THEN Overtaken ELSE withdrawn[t]
        /\ \A k \in Job : phase'[k] = IF k \in Overtaken THEN "cancelled" ELSE phase[k]
        /\ queued' = (queued \ Overtaken) \cup {j}
  OBVIOUS
<1>7. j \notin Stop => queued' = queued \cup {j} /\ UNCHANGED <<withdrawn, phase, before>>
  OBVIOUS
<1>8. /\ pc'[j] = "pushed" /\ \A t \in Job : t # j => pc'[t] = pc[t]
     /\ UNCHANGED <<outcome, signals, late, worker, current, ran, leftover>>
  OBVIOUS
<1>9. TypeOK'
  <2>1. CASE j \in Stop
    <3>1. ends' \in [first : Int, last : Int] /\ place' \in [Job -> Int]
      BY <2>1
    <3>2. Overtaken \in SUBSET Job /\ AskedFor \in SUBSET Start
      OBVIOUS
    <3>3. /\ withdrawn' = [withdrawn EXCEPT ![j] = Overtaken]
          /\ before' = [before EXCEPT ![j] = AskedFor]
      BY <2>1
    <3> HIDE DEF Overtaken, AskedFor
    <3>4. withdrawn' \in [Job -> SUBSET Job] /\ before' \in [Stop -> SUBSET Start]
      BY <2>1, <3>2, <3>3
    <3> QED
      BY <1>2, <1>5, <2>1, <3>1, <3>4
  <2>2. CASE j \notin Stop
    BY <2>2
  <2> QED
    BY <2>1, <2>2
<1>10. Untouched'
  <2> SUFFICES ASSUME NEW k \in Job, ~Asked(k)'
               PROVE  /\ phase'[k] = "pending" /\ signals'[k] = 0
                      /\ k \notin queued' /\ k \notin leftover' /\ k # current'
                      /\ \A t \in Job : k \notin withdrawn'[t]
    BY DEF Untouched
  <2>1. k # j /\ ~Asked(k)
    BY DEF Asked
  <2>2. /\ phase[k] = "pending" /\ signals[k] = 0
        /\ k \notin queued /\ k \notin leftover /\ k # current
        /\ \A t \in Job : k \notin withdrawn[t]
    BY <2>1 DEF Untouched
  <2>3. k \notin Overtaken
    BY <1>2, <2>2
  <2> HIDE DEF JobsInv, Push, Overtaken
  <2> QED
    BY <1>6, <1>7, <1>8, <2>1, <2>2, <2>3
<1>11. AnswerPhase'
  BY DEF AnswerPhase
<1>12. OnePromise'
  <2>1. \A s \in Overtaken : /\ signals[s] = 0 /\ s # current /\ s \notin leftover
                             /\ \A t \in Job : s \notin withdrawn[t]
    BY <1>2 DEF OnePromise
  <2>2. OnePromise /\ withdrawn \in [Job -> SUBSET Job]
    OBVIOUS
  <2> HIDE DEF JobsInv, Push, Overtaken
  <2>3. CASE j \in Stop
    <3> USE DEF OnePromise
    <3>1. \A k \in Job : signals'[k] <= 1
      BY <1>8, <2>2
    <3>2. ASSUME NEW k \in queued'
          PROVE  signals'[k] = 0 /\ k \notin leftover' /\ k # current'
                 /\ \A t \in Job : k \notin withdrawn'[t]
      BY <1>1, <1>2, <1>6, <1>8, <2>2, <2>3
    <3>3. ASSUME NEW k \in leftover'
          PROVE  signals'[k] = 0 /\ k # current' /\ \A t \in Job : k \notin withdrawn'[t]
      BY <1>6, <1>8, <2>1, <2>2, <2>3
    <3>4. current' # None => /\ signals'[current'] = 0
                             /\ \A t \in Job : current' \notin withdrawn'[t]
      BY <1>6, <1>8, <2>1, <2>2, <2>3
    <3>5. ASSUME NEW t \in Job, NEW k \in withdrawn'[t]
          PROVE  /\ signals'[k] = 0 /\ phase'[k] = "cancelled"
                 /\ \A u \in Job \ {t} : k \notin withdrawn'[u]
      <4>1. CASE t = j
        BY <1>2, <1>6, <1>8, <2>1, <2>3, <4>1
      <4>2. CASE t # j
        <5>1. k \in Job /\ k \in withdrawn[t] /\ phase[k] = "cancelled" /\ k \notin Overtaken
          BY <1>2, <1>6, <2>2, <2>3, <4>2
        <5> QED
          BY <1>6, <1>8, <2>2, <2>3, <4>2, <5>1
      <4> QED
        BY <4>1, <4>2
    <3>6. ASSUME NEW t \in Job, withdrawn'[t] # {}
          PROVE  pc'[t] = "pushed"
      BY <1>6, <1>8, <2>2, <2>3, <3>6
    <3> QED
      BY <3>1, <3>2, <3>3, <3>4, <3>5, <3>6
  <2>4. CASE j \notin Stop
    BY <1>1, <1>3, <1>7, <1>8, <2>2, <2>4 DEF OnePromise
  <2> QED
    BY <2>3, <2>4
<1>13. WorkerPhase'
  BY DEF WorkerPhase, StopPhase, OnePromise, Untouched, Asked
<1>14. SignalledIsOver'
  BY DEF SignalledIsOver, OnePromise, WorkerPhase, Untouched, Asked
<1>15. PendingWaits'
  BY DEF PendingWaits, Asked, WorkerPhase, StopPhase
<1>16. RanIsDone'
  BY DEF RanIsDone, WorkerPhase, Untouched, Asked
<1>17. OvertakenIsOver'
  <2> SUFFICES ASSUME NEW t \in Stop, NEW s \in before'[t], phase'[s] = "pending"
               PROVE  s \in leftover \/ (worker = "popped" /\ current = s)
    BY DEF OvertakenIsOver
  <2>1. s \in Job
    BY <1>9
  <2>2. phase[s] = "pending" /\ (j \in Stop => s \notin Overtaken)
    BY <1>5, <1>6, <2>1
  <2>3. CASE t = j
    <3>1. s \in Start /\ Asked(s)
      BY <2>3 DEF Asked
    <3>2. s \notin queued
      BY <2>2, <2>3, <3>1
    <3> QED
      BY <2>1, <2>2, <3>1, <3>2 DEF PendingWaits
  <2>4. CASE t # j
    BY <2>2, <2>4 DEF OvertakenIsOver
  <2> QED
    BY <2>3, <2>4
<1>18. RanIsOver'
  <2> SUFFICES ASSUME NEW i \in DOMAIN ran, ran[i] \in Stop, NEW s \in before'[ran[i]]
               PROVE  phase'[s] \in {"done", "cancelled"}
    BY DEF RanIsOver
  <2>1. s \in before[ran[i]] /\ s \in Job
    BY <1>4
  <2> QED
    BY <1>5, <2>1 DEF RanIsOver
<1>19. TruthTold'
  <2> SUFFICES ASSUME NEW k \in Job
               PROVE  /\ outcome'[k] = "notExecuted" => phase'[k] = "cancelled"
                      /\ outcome'[k] = "completed"   => phase'[k] = "done"
                      /\ outcome'[k] = "unknown"     => phase'[k] # "pending"
    BY DEF TruthTold
  <2>1. /\ outcome'[k] = outcome[k]
        /\ phase'[k] # phase[k] => phase[k] = "pending" /\ phase'[k] = "cancelled"
    BY <1>5, <1>8
  <2>2. /\ outcome[k] = "notExecuted" => phase[k] = "cancelled"
        /\ outcome[k] = "completed"   => phase[k] = "done"
        /\ outcome[k] = "unknown"     => phase[k] # "pending"
    BY DEF TruthTold
  <2> HIDE DEF JobsInv, TypeOK, Push
  <2> QED
    BY <2>1, <2>2
<1>20. StopOutranksStart'
  BY <1>4 DEF StopOutranksStart
<1>21. UNCHANGED <<leftover, ran, running, stopper, worker>>
  OBVIOUS
<1>22. QED
  BY <1>9, <1>10, <1>11, <1>12, <1>13, <1>14, <1>15, <1>16, <1>17,
     <1>18, <1>19, <1>20, <1>21
  DEF StopPhase, IsInjectiveRan

LEMMA ReleaseInv == ASSUME NEW j \in Job, JobsInv, Release(j) PROVE JobsInv'
<1> USE JobsAssumption DEF JobsInv, TypeOK, Release, Signal, callers,
      theWorker, theStop, deque
<1>1. TypeOK'
  BY DEF WorkerPhase
<1>2. Untouched'
  BY DEF Untouched, Asked
<1>3. AnswerPhase'
  BY DEF AnswerPhase
<1>4. OnePromise'
  BY DEF OnePromise, Untouched, Asked
<1>5. SignalledIsOver'
  BY DEF SignalledIsOver, OnePromise, WorkerPhase, Untouched, Asked
<1>6. PendingWaits'
  BY DEF PendingWaits, Asked, WorkerPhase, StopPhase
<1>7. UNCHANGED <<before, current, leftover, outcome, phase, queued, ran,
        running, stopper, worker>>
  OBVIOUS
<1>8. QED
  BY <1>1, <1>2, <1>3, <1>4, <1>5, <1>6, <1>7
  DEF WorkerPhase, StopPhase, RanIsDone, OvertakenIsOver, RanIsOver,
     TruthTold, IsInjectiveRan, StopOutranksStart

LEMMA DeadlineInv == ASSUME NEW j \in Job, JobsInv, Deadline(j) PROVE JobsInv'
<1> USE JobsAssumption DEF JobsInv, TypeOK, Deadline, callers, theWorker,
      theStop, deque
<1>1. TypeOK'
  BY DEF WorkerPhase
<1>2. UNCHANGED <<before, current, leftover, outcome, pc, phase, queued, ran,
        running, signals, stopper, withdrawn, worker>>
  OBVIOUS
<1>3. QED
  BY <1>1, <1>2
  DEF Untouched, Asked, AnswerPhase, OnePromise, WorkerPhase, StopPhase,
     SignalledIsOver, PendingWaits, RanIsDone, OvertakenIsOver, RanIsOver,
     TruthTold, IsInjectiveRan, StopOutranksStart

LEMMA ToldInv == ASSUME NEW j \in Job, JobsInv, Told(j) PROVE JobsInv'
<1> USE JobsAssumption DEF JobsInv, TypeOK, Told, Return, callers, theWorker,
      theStop, deque
<1>1. TypeOK'
  BY DEF WorkerPhase
<1>2. Untouched'
  BY DEF Untouched, Asked
<1>3. AnswerPhase'
  BY DEF AnswerPhase
<1>4. OnePromise'
  BY DEF OnePromise, Untouched, Asked
<1>5. PendingWaits'
  BY DEF PendingWaits, Asked, WorkerPhase, StopPhase
<1>6. TruthTold'
  BY DEF TruthTold, AnswerPhase, SignalledIsOver, WorkerPhase, Untouched,
     Asked
<1>7. UNCHANGED <<before, current, leftover, phase, queued, ran, running,
        signals, stopper, worker>>
  OBVIOUS
<1>8. QED
  BY <1>1, <1>2, <1>3, <1>4, <1>5, <1>6, <1>7
  DEF WorkerPhase, StopPhase, SignalledIsOver, RanIsDone, OvertakenIsOver,
     RanIsOver, IsInjectiveRan, StopOutranksStart

LEMMA TimesOutInv == ASSUME NEW j \in Job, JobsInv, TimesOut(j) PROVE JobsInv'
<1> USE JobsAssumption DEF JobsInv, TypeOK, TimesOut, callers, theWorker,
      theStop, deque
<1>1. TypeOK'
  BY DEF WorkerPhase
<1>2. Untouched'
  BY DEF Untouched, Asked
<1>3. AnswerPhase'
  BY DEF AnswerPhase
<1>4. OnePromise'
  BY DEF OnePromise, Untouched, Asked
<1>5. PendingWaits'
  BY DEF PendingWaits, Asked, WorkerPhase, StopPhase
<1>6. UNCHANGED <<before, current, leftover, outcome, phase, queued, ran,
        running, signals, stopper, worker>>
  OBVIOUS
<1>7. QED
  BY <1>1, <1>2, <1>3, <1>4, <1>5, <1>6
  DEF WorkerPhase, StopPhase, SignalledIsOver, RanIsDone, OvertakenIsOver,
     RanIsOver, TruthTold, IsInjectiveRan, StopOutranksStart

LEMMA WithdrawInv == ASSUME NEW j \in Job, JobsInv, Withdraw(j) PROVE JobsInv'
<1> USE JobsAssumption DEF JobsInv, TypeOK, Withdraw, Return, callers,
      theWorker, theStop, deque
<1>1. TypeOK'
  BY DEF WorkerPhase
<1>2. Untouched'
  BY DEF Untouched, Asked
<1>3. AnswerPhase'
  BY DEF AnswerPhase
<1>4. OnePromise'
  BY DEF OnePromise, Untouched, Asked
<1>5. WorkerPhase'
  BY DEF WorkerPhase, StopPhase, OnePromise, Untouched, Asked
<1>6. SignalledIsOver'
  BY DEF SignalledIsOver, OnePromise, WorkerPhase, Untouched, Asked
<1>7. PendingWaits'
  BY DEF PendingWaits, Asked, WorkerPhase, StopPhase
<1>8. RanIsDone'
  BY DEF RanIsDone, WorkerPhase, Untouched, Asked
<1>9. OvertakenIsOver'
  BY DEF OvertakenIsOver, WorkerPhase, StopPhase, PendingWaits, AskedFor,
     Untouched, Asked
<1>10. RanIsOver'
  BY DEF RanIsOver, StopPhase, WorkerPhase, RanIsDone, OvertakenIsOver,
     OnePromise, Untouched, Asked
<1>11. TruthTold'
  BY DEF TruthTold, AnswerPhase, SignalledIsOver, WorkerPhase, Untouched,
     Asked
<1>12. UNCHANGED <<before, leftover, ran, running, stopper, worker>>
  OBVIOUS
<1>13. QED
  BY <1>1, <1>2, <1>3, <1>4, <1>5, <1>6, <1>7, <1>8, <1>9, <1>10,
     <1>11, <1>12
  DEF StopPhase, IsInjectiveRan, StopOutranksStart

LEMMA CheckInv == ASSUME JobsInv, Check PROVE JobsInv'
<1> USE JobsAssumption DEF JobsInv, TypeOK, Check, callers, theWorker,
      theStop, deque
<1>1. TypeOK'
  BY DEF WorkerPhase
<1>2. WorkerPhase'
  BY DEF WorkerPhase, StopPhase, OnePromise, Untouched, Asked
<1>3. StopPhase'
  BY DEF StopPhase
<1>4. PendingWaits'
  BY DEF PendingWaits, Asked, WorkerPhase, StopPhase
<1>5. OvertakenIsOver'
  BY DEF OvertakenIsOver, WorkerPhase, StopPhase, PendingWaits, AskedFor,
     Untouched, Asked
<1>6. UNCHANGED <<before, current, leftover, outcome, pc, phase, queued, ran,
        signals, withdrawn>>
  OBVIOUS
<1>7. QED
  BY <1>1, <1>2, <1>3, <1>4, <1>5, <1>6
  DEF Untouched, Asked, AnswerPhase, OnePromise, SignalledIsOver, RanIsDone,
     RanIsOver, TruthTold, IsInjectiveRan, StopOutranksStart

LEMMA PopInv == ASSUME JobsInv, Pop PROVE JobsInv'
<1> USE JobsAssumption DEF JobsInv, TypeOK, Pop, IsFront, callers, theWorker,
      theStop, deque
<1>1. TypeOK'
  BY DEF WorkerPhase
<1>2. Untouched'
  BY DEF Untouched, Asked
<1>3. OnePromise'
  BY DEF OnePromise, Untouched, Asked
<1>4. WorkerPhase'
  BY DEF WorkerPhase, StopPhase, OnePromise, Untouched, Asked
<1>5. StopPhase'
  BY DEF StopPhase
<1>6. PendingWaits'
  BY DEF PendingWaits, Asked, WorkerPhase, StopPhase
<1>7. OvertakenIsOver'
  BY DEF OvertakenIsOver, WorkerPhase, StopPhase, PendingWaits, AskedFor,
     Untouched, Asked
<1>8. UNCHANGED <<before, outcome, pc, phase, ran, signals>>
  OBVIOUS
<1>9. QED
  BY <1>1, <1>2, <1>3, <1>4, <1>5, <1>6, <1>7, <1>8
  DEF AnswerPhase, SignalledIsOver, RanIsDone, RanIsOver, TruthTold,
     IsInjectiveRan, StopOutranksStart

LEMMA ClaimInv == ASSUME JobsInv, Claim PROVE JobsInv'
<1> USE JobsAssumption DEF JobsInv, TypeOK, Claim, callers, theWorker,
      theStop, deque
<1>1. TypeOK'
  BY DEF WorkerPhase
<1>2. Untouched'
  BY DEF Untouched, Asked
<1>3. OnePromise'
  BY DEF OnePromise, Untouched, Asked
<1>4. WorkerPhase'
  BY DEF WorkerPhase, StopPhase, OnePromise, Untouched, Asked
<1>5. StopPhase'
  BY DEF StopPhase
<1>6. SignalledIsOver'
  BY DEF SignalledIsOver, OnePromise, WorkerPhase, Untouched, Asked
<1>7. PendingWaits'
  BY DEF PendingWaits, Asked, WorkerPhase, StopPhase
<1>8. RanIsDone'
  BY DEF RanIsDone, WorkerPhase, Untouched, Asked
<1>9. OvertakenIsOver'
  BY DEF OvertakenIsOver, WorkerPhase, StopPhase, PendingWaits, AskedFor,
     Untouched, Asked
<1>10. RanIsOver'
  <2>1. \A k \in Job : phase'[k] # phase[k] => phase[k] = "pending"
    OBVIOUS
  <2> QED
    BY <2>1 DEF RanIsOver
<1>11. TruthTold'
  BY DEF TruthTold, AnswerPhase, SignalledIsOver, WorkerPhase, Untouched,
     Asked
<1>12. UNCHANGED <<before, outcome, pc, ran>>
  OBVIOUS
<1>13. QED
  BY <1>1, <1>2, <1>3, <1>4, <1>5, <1>6, <1>7, <1>8, <1>9, <1>10,
     <1>11, <1>12
  DEF AnswerPhase, IsInjectiveRan, StopOutranksStart

LEMMA RunInv == ASSUME JobsInv, Run PROVE JobsInv'
<1> USE JobsAssumption DEF JobsInv, TypeOK, Run, callers, theWorker, theStop,
      deque
<1>1. current \in Job /\ phase[current] = "running"
  BY DEF WorkerPhase
<1>2. /\ Len(ran) \in Nat /\ DOMAIN ran = 1 .. Len(ran) /\ DOMAIN ran' = 1 .. Len(ran) + 1
     /\ ran'[Len(ran) + 1] = current /\ \A i \in DOMAIN ran : ran'[i] = ran[i]
  BY <1>1, AppendIs
<1>3. \A s \in Start : current \in Stop /\ s \in before[current] => phase[s] \in {"done", "cancelled"}
  BY DEF OvertakenIsOver, WorkerPhase, StopPhase
<1>4. \A k \in Job : k # current => phase'[k] = phase[k]
  OBVIOUS
<1>5. TypeOK'
  BY DEF WorkerPhase
<1>6. Untouched'
  BY DEF Untouched, Asked
<1>7. OnePromise'
  BY DEF OnePromise, Untouched, Asked
<1>8. WorkerPhase'
  BY DEF WorkerPhase, StopPhase, OnePromise, Untouched, Asked
<1>9. StopPhase'
  BY DEF StopPhase
<1>10. SignalledIsOver'
  BY DEF SignalledIsOver, OnePromise, WorkerPhase, Untouched, Asked
<1>11. PendingWaits'
  BY DEF PendingWaits, Asked, WorkerPhase, StopPhase
<1>12. RanIsDone'
  BY DEF RanIsDone, WorkerPhase, Untouched, Asked
<1>13. OvertakenIsOver'
  BY DEF OvertakenIsOver, WorkerPhase, StopPhase, PendingWaits, AskedFor,
     Untouched, Asked
<1>14. RanIsOver'
  <2> SUFFICES ASSUME NEW i \in DOMAIN ran', ran'[i] \in Stop, NEW s \in before[ran'[i]]
               PROVE  phase'[s] \in {"done", "cancelled"}
    BY DEF RanIsOver
  <2>1. s \in Start /\ s \in Job
    OBVIOUS
  <2>2. phase[s] \in {"done", "cancelled"}
    BY <1>2, <1>3, <2>1 DEF RanIsOver
  <2> QED
    BY <1>1, <1>4, <2>1, <2>2
<1>15. TruthTold'
  BY DEF TruthTold, AnswerPhase, SignalledIsOver, WorkerPhase, Untouched,
     Asked
<1>16. IsInjectiveRan'
  BY SMTT(40) DEF IsInjectiveRan, RanIsDone, WorkerPhase
<1>17. StopOutranksStart'
  <2> SUFFICES ASSUME NEW a \in DOMAIN ran', NEW b \in DOMAIN ran',
                      ran'[a] \in Stop, ran'[b] \in before[ran'[a]]
               PROVE  b < a
    BY DEF StopOutranksStart
  <2>1. CASE a = Len(ran) + 1
    <3>1. b # a
      BY <1>2, <2>1
    <3> QED
      BY <1>2, <2>1, <3>1
  <2>2. CASE a # Len(ran) + 1
    <3>1. a \in DOMAIN ran /\ ran'[a] = ran[a]
      BY <1>2, <2>2, SMTT(30)
    <3>2. phase[ran'[b]] \in {"done", "cancelled"}
      BY <3>1 DEF RanIsOver
    <3>3. b # Len(ran) + 1
      <4> SUFFICES ASSUME b = Len(ran) + 1  PROVE FALSE
        OBVIOUS
      <4>1. ran'[b] = current
        BY <1>2
      <4> QED
        BY <1>1, <3>2, <4>1
    <3>4. b \in DOMAIN ran /\ ran'[b] = ran[b]
      BY <1>2, <3>3
    <3> QED
      BY <3>1, <3>4 DEF StopOutranksStart
  <2> QED
    BY <2>1, <2>2
<1>18. UNCHANGED <<outcome, pc>>
  OBVIOUS
<1>19. QED
  BY <1>5, <1>6, <1>7, <1>8, <1>9, <1>10, <1>11, <1>12, <1>13,
     <1>14, <1>15, <1>16, <1>17, <1>18
  DEF AnswerPhase

LEMMA SignalDoneInv == ASSUME JobsInv, SignalDone PROVE JobsInv'
<1> USE JobsAssumption DEF JobsInv, TypeOK, SignalDone, Signal, callers,
      theWorker, theStop, deque
<1>1. TypeOK'
  BY DEF WorkerPhase
<1>2. Untouched'
  BY DEF Untouched, Asked
<1>3. OnePromise'
  BY DEF OnePromise, Untouched, Asked
<1>4. WorkerPhase'
  BY DEF WorkerPhase, StopPhase, OnePromise, Untouched, Asked
<1>5. StopPhase'
  BY DEF StopPhase
<1>6. SignalledIsOver'
  BY DEF SignalledIsOver, OnePromise, WorkerPhase, Untouched, Asked
<1>7. PendingWaits'
  BY DEF PendingWaits, Asked, WorkerPhase, StopPhase
<1>8. OvertakenIsOver'
  BY DEF OvertakenIsOver, WorkerPhase, StopPhase, PendingWaits, AskedFor,
     Untouched, Asked
<1>9. UNCHANGED <<before, outcome, pc, phase, ran>>
  OBVIOUS
<1>10. QED
  BY <1>1, <1>2, <1>3, <1>4, <1>5, <1>6, <1>7, <1>8, <1>9
  DEF AnswerPhase, RanIsDone, RanIsOver, TruthTold, IsInjectiveRan,
     StopOutranksStart

LEMMA StopBeginsInv == ASSUME JobsInv, StopBegins PROVE JobsInv'
<1> USE JobsAssumption DEF JobsInv, TypeOK, StopBegins, callers, theWorker,
      theStop, deque
<1>1. TypeOK'
  BY DEF WorkerPhase
<1>2. StopPhase'
  BY DEF StopPhase
<1>3. UNCHANGED <<before, current, leftover, outcome, pc, phase, queued, ran,
        signals, withdrawn, worker>>
  OBVIOUS
<1>4. QED
  BY <1>1, <1>2, <1>3
  DEF Untouched, Asked, AnswerPhase, OnePromise, WorkerPhase, SignalledIsOver,
     PendingWaits, RanIsDone, OvertakenIsOver, RanIsOver, TruthTold,
     IsInjectiveRan, StopOutranksStart

LEMMA StopDrainsInv == ASSUME JobsInv, StopDrains PROVE JobsInv'
<1> USE JobsAssumption DEF JobsInv, TypeOK, StopDrains, callers, theWorker,
      theStop, deque
<1>1. TypeOK'
  BY DEF WorkerPhase
<1>2. Untouched'
  BY DEF Untouched, Asked
<1>3. OnePromise'
  BY DEF OnePromise, Untouched, Asked
<1>4. WorkerPhase'
  BY DEF WorkerPhase, StopPhase, OnePromise, Untouched, Asked
<1>5. StopPhase'
  BY DEF StopPhase
<1>6. PendingWaits'
  <2>1. leftover = {} /\ leftover' = queued
    BY DEF StopPhase
  <2> QED
    BY <2>1 DEF PendingWaits, Asked
<1>7. OvertakenIsOver'
  BY DEF OvertakenIsOver, WorkerPhase, StopPhase, PendingWaits, AskedFor,
     Untouched, Asked
<1>8. UNCHANGED <<before, outcome, pc, phase, ran, signals>>
  OBVIOUS
<1>9. QED
  BY <1>1, <1>2, <1>3, <1>4, <1>5, <1>6, <1>7, <1>8
  DEF AnswerPhase, SignalledIsOver, RanIsDone, RanIsOver, TruthTold,
     IsInjectiveRan, StopOutranksStart

LEMMA StopReleasesInv == ASSUME NEW j \in Job, JobsInv, StopReleases(j) PROVE JobsInv'
<1> USE JobsAssumption DEF JobsInv, TypeOK, StopReleases, Signal, callers,
      theWorker, theStop, deque
<1>1. TypeOK'
  BY DEF WorkerPhase
<1>2. Untouched'
  BY DEF Untouched, Asked
<1>3. OnePromise'
  BY DEF OnePromise, Untouched, Asked
<1>4. WorkerPhase'
  BY DEF WorkerPhase, StopPhase, OnePromise, Untouched, Asked
<1>5. StopPhase'
  BY DEF StopPhase
<1>6. SignalledIsOver'
  BY DEF SignalledIsOver, OnePromise, WorkerPhase, Untouched, Asked
<1>7. PendingWaits'
  BY DEF PendingWaits, Asked, WorkerPhase, StopPhase
<1>8. RanIsDone'
  <2>1. \A i \in DOMAIN ran : ran[i] # j
    BY DEF RanIsDone, WorkerPhase
  <2> QED
    BY <2>1 DEF RanIsDone
<1>9. OvertakenIsOver'
  BY DEF OvertakenIsOver, WorkerPhase, StopPhase, PendingWaits, AskedFor,
     Untouched, Asked
<1>10. RanIsOver'
  BY DEF RanIsOver, StopPhase, WorkerPhase, RanIsDone, OvertakenIsOver,
     OnePromise, Untouched, Asked
<1>11. TruthTold'
  BY DEF TruthTold, AnswerPhase, SignalledIsOver, WorkerPhase, Untouched,
     Asked
<1>12. UNCHANGED <<before, outcome, pc, ran>>
  OBVIOUS
<1>13. QED
  BY <1>1, <1>2, <1>3, <1>4, <1>5, <1>6, <1>7, <1>8, <1>9, <1>10,
     <1>11, <1>12
  DEF AnswerPhase, IsInjectiveRan, StopOutranksStart

LEMMA StutterInv == ASSUME JobsInv, UNCHANGED vars PROVE JobsInv'
  BY DEF JobsInv, vars, callers, deque, theWorker, theStop, TypeOK, Untouched, Asked, AnswerPhase,
     OnePromise, WorkerPhase, StopPhase, SignalledIsOver, PendingWaits, RanIsDone,
     OvertakenIsOver, RanIsOver, TruthTold, IsInjectiveRan, StopOutranksStart

(* The invariant holds in every behaviour of the command queue. *)
THEOREM Inductive == Spec => []JobsInv
<1>1. JobsInv /\ [Next]_vars => JobsInv'
  <2> SUFFICES ASSUME JobsInv, [Next]_vars PROVE JobsInv'
    OBVIOUS
  <2>1. ASSUME NEW j \in Job, Caller(j) PROVE JobsInv'
    BY <2>1, CallInv, PushInv, ReleaseInv, ToldInv, TimesOutInv, WithdrawInv DEF Caller
  <2>2. ASSUME NEW j \in Job, Deadline(j) PROVE JobsInv'
    BY <2>2, DeadlineInv
  <2>3. ASSUME NEW j \in Job, StopReleases(j) PROVE JobsInv'
    BY <2>3, StopReleasesInv
  <2>4. CASE Worker
    BY <2>4, CheckInv, PopInv, ClaimInv, RunInv, SignalDoneInv DEF Worker
  <2>5. CASE StopBegins \/ StopDrains
    BY <2>5, StopBeginsInv, StopDrainsInv
  <2>6. CASE UNCHANGED vars
    BY <2>6, StutterInv
  <2> QED
    BY <2>1, <2>2, <2>3, <2>4, <2>5, <2>6 DEF Next
<1> QED
  BY InitInv, <1>1, PTL DEF Spec

(* The state of the queue and of its callers keeps its types. *)
THEOREM TypeCorrect == Spec => []TypeOK
<1>1. JobsInv => TypeOK
  BY DEF JobsInv
<1> QED
  BY Inductive, <1>1, PTL

(* No caller is told that a command was not executed when it was, or that  *)
(* it completed when it did not, and no command runs twice.                *)
THEOREM AnswersAreTrue == Spec => []AnswerIsTrue
<1>1. JobsInv => AnswerIsTrue
  <2> SUFFICES ASSUME JobsInv PROVE AnswerIsTrue
    OBVIOUS
  <2>1. ASSUME NEW j \in Job, phase[j] = "cancelled" PROVE j \notin HasRun
    BY <2>1 DEF JobsInv, RanIsDone, HasRun, ToSet
  <2>2. IsInjective(ran)
    BY DEF JobsInv, IsInjectiveRan, IsInjective
  <2> QED
    BY <2>1, <2>2 DEF JobsInv, TruthTold, AnswerIsTrue
<1> QED
  BY Inductive, <1>1, PTL

(* The worker, a record stop and stop() never set one promise twice. *)
THEOREM PromisesSetOnce == Spec => []PromiseSetOnce
<1>1. JobsInv => PromiseSetOnce
  BY DEF JobsInv, OnePromise, PromiseSetOnce
<1> QED
  BY Inductive, <1>1, PTL

(* However many record starts wait or are in flight, none asked for before *)
(* a record stop runs after it.                                            *)
THEOREM StopsOutrankStarts == Spec => []StopOutranksStart
<1>1. JobsInv => StopOutranksStart
  BY DEF JobsInv
<1> QED
  BY Inductive, <1>1, PTL

LEMMA FatesMap ==
  ASSUME TypeOK
  PROVE  /\ fateOf \in [Job -> {"asked", "started", "finished", "withdrawn"}]
         /\ \A k \in Job : /\ phase[k] = "pending"   => fateOf[k] = "asked"
                           /\ phase[k] = "running"   => fateOf[k] = "started"
                           /\ phase[k] = "done"      => fateOf[k] = "finished"
                           /\ phase[k] = "cancelled" => fateOf[k] = "withdrawn"
<1>1. \A k \in Job : phase[k] \in {"pending", "running", "done", "cancelled"}
  BY DEF TypeOK
<1>2. \A k \in Job : fateOf[k] = CASE phase[k] = "pending"   -> "asked"
                                   [] phase[k] = "running"   -> "started"
                                   [] phase[k] = "done"      -> "finished"
                                   [] phase[k] = "cancelled" -> "withdrawn"
  BY DEF fateOf
<1> QED
  BY <1>1, <1>2 DEF fateOf

LEMMA SameFates == ASSUME phase' = phase PROVE fateOf' = fateOf
  BY DEF fateOf

(* The deque, the worker and stop() together keep the contract of runJob:  *)
(* a command has one fate, and its caller's answer agrees with it.         *)
THEOREM QueueKeepsPromise == Spec => KeepsPromise
<1>1. Init => Promise!FatesInit
  BY DEF Init, fateOf, Promise!FatesInit
<1>2. JobsInv /\ JobsInv' /\ [Next]_vars => [Promise!FatesNext]_(Promise!fates)
  <2> SUFFICES ASSUME JobsInv, JobsInv', [Next]_vars
               PROVE  Promise!FatesNext \/ UNCHANGED <<fateOf, outcome>>
    BY DEF Promise!fates
  <2> USE DEF Promise!FatesNext
  <2>1. TypeOK /\ TypeOK'
    BY DEF JobsInv
  <2>2. /\ fateOf \in [Job -> {"asked", "started", "finished", "withdrawn"}]
        /\ \A k \in Job : /\ phase[k] = "pending"   => fateOf[k] = "asked"
                          /\ phase[k] = "running"   => fateOf[k] = "started"
                          /\ phase[k] = "done"      => fateOf[k] = "finished"
                          /\ phase[k] = "cancelled" => fateOf[k] = "withdrawn"
    BY <2>1, FatesMap
  <2>3. /\ fateOf' \in [Job -> {"asked", "started", "finished", "withdrawn"}]
        /\ \A k \in Job : /\ phase'[k] = "pending"   => fateOf'[k] = "asked"
                          /\ phase'[k] = "running"   => fateOf'[k] = "started"
                          /\ phase'[k] = "done"      => fateOf'[k] = "finished"
                          /\ phase'[k] = "cancelled" => fateOf'[k] = "withdrawn"
                          /\ phase'[k] = phase[k]    => fateOf'[k] = fateOf[k]
    <3>1. \A k \in Job : /\ phase[k] \in {"pending", "running", "done", "cancelled"}
                         /\ phase'[k] \in {"pending", "running", "done", "cancelled"}
      BY <2>1 DEF TypeOK
    <3>2. \A k \in Job : fateOf'[k] = CASE phase'[k] = "pending"   -> "asked"
                                        [] phase'[k] = "running"   -> "started"
                                        [] phase'[k] = "done"      -> "finished"
                                        [] phase'[k] = "cancelled" -> "withdrawn"
      BY DEF fateOf
    <3> QED
      BY <2>2, <3>1, <3>2 DEF fateOf
  <2>4. ASSUME NEW j \in Job, Caller(j)
        PROVE  Promise!FatesNext \/ UNCHANGED <<fateOf, outcome>>
    <3>1. CASE Call(j)
      <4>1. CASE running
        BY <3>1, <4>1, SameFates DEF Call
      <4>2. CASE ~running
        <5>1. phase[j] = "pending" /\ outcome[j] = None
          BY <3>1 DEF Call, JobsInv, Untouched, Asked, AnswerPhase
        <5>2. outcome' = [outcome EXCEPT ![j] = "completed"] /\ phase' = [phase EXCEPT ![j] = "done"]
          BY <3>1, <4>2 DEF Call, Return
        <5>3. phase'[j] = "done" /\ \A k \in Job : k # j => phase'[k] = phase[k]
          BY <2>1, <5>2 DEF TypeOK
        <5>4. fateOf' = [fateOf EXCEPT ![j] = "finished"]
          BY <2>2, <2>3, <5>3
        <5>5. Promise!Refuse(j)
          BY <2>2, <5>1, <5>2, <5>4 DEF Promise!Refuse
        <5> QED
          BY <5>5
      <4> QED
        BY <4>1, <4>2
    <3>2. CASE Push(j)
      <4>1. CASE j \in Stop
        <5>1. \A k \in Overtaken : k \in Job /\ phase[k] = "pending"
          BY <2>1 DEF Overtaken, TypeOK
        <5>2. \A k \in Job : phase'[k] = IF k \in Overtaken THEN "cancelled" ELSE phase[k]
          BY <3>2, <4>1 DEF Push
        <5>3. fateOf' = [k \in Job |-> IF k \in Overtaken THEN "withdrawn" ELSE fateOf[k]]
          BY <2>2, <2>3, <5>1, <5>2
        <5>4. Promise!WithdrawAll(Overtaken) /\ Overtaken \in SUBSET Job
          BY <2>2, <3>2, <5>1, <5>3 DEF Promise!WithdrawAll, Push
        <5> QED
          BY <5>4
      <4>2. CASE j \notin Stop
        BY <3>2, <4>2, SameFates DEF Push
      <4> QED
        BY <4>1, <4>2
    <3>3. CASE Release(j) \/ TimesOut(j)
      BY <3>3, SameFates DEF Release, TimesOut, callers
    <3>4. CASE Told(j)
      <4>1. outcome[j] = None /\ phase[j] \in {"done", "cancelled"}
        BY <3>4 DEF Told, JobsInv, AnswerPhase, SignalledIsOver
      <4>2. /\ outcome' = [outcome EXCEPT ![j] = IF phase[j] = "done" THEN "completed"
                                                                     ELSE "notExecuted"]
            /\ fateOf' = fateOf
        BY <3>4, SameFates DEF Told, Return
      <4>3. Promise!Tell(j)
        BY <2>2, <4>1, <4>2 DEF Promise!Tell
      <4> QED
        BY <4>3
    <3>5. CASE Withdraw(j)
      <4>1. outcome[j] = None
        BY <3>5 DEF Withdraw, JobsInv, AnswerPhase
      <4>2. CASE phase[j] = "pending"
        <5>1. phase'[j] = "cancelled" /\ \A k \in Job : k # j => phase'[k] = phase[k]
          BY <2>1, <3>5, <4>2 DEF Withdraw, TypeOK
        <5>2. fateOf' = [fateOf EXCEPT ![j] = "withdrawn"]
          BY <2>2, <2>3, <5>1
        <5>3. outcome' = [outcome EXCEPT ![j] = "notExecuted"]
          BY <3>5, <4>2 DEF Withdraw, Return
        <5>4. Promise!GiveUp(j)
          BY <2>2, <4>1, <4>2, <5>2, <5>3 DEF Promise!GiveUp
        <5> QED
          BY <5>4
      <4>3. CASE phase[j] = "done"
        <5>1. outcome' = [outcome EXCEPT ![j] = "completed"] /\ fateOf' = fateOf
          BY <3>5, <4>3, SameFates DEF Withdraw, Return
        <5>2. Promise!Tell(j)
          BY <2>2, <4>1, <4>3, <5>1 DEF Promise!Tell
        <5> QED
          BY <5>2
      <4>4. CASE phase[j] \in {"running", "cancelled"}
        <5>1. outcome' = [outcome EXCEPT ![j] = "unknown"] /\ fateOf' = fateOf
          BY <3>5, <4>4, SameFates DEF Withdraw, Return
        <5>2. Promise!GiveUp(j)
          BY <2>2, <4>1, <4>4, <5>1 DEF Promise!GiveUp
        <5> QED
          BY <5>2
      <4> QED
        BY <2>1, <4>2, <4>3, <4>4 DEF TypeOK
    <3> QED
      BY <2>4, <3>1, <3>2, <3>3, <3>4, <3>5 DEF Caller
  <2>5. ASSUME NEW j \in Job, Deadline(j)
        PROVE  UNCHANGED <<fateOf, outcome>>
    BY <2>5, SameFates DEF Deadline, callers
  <2>6. ASSUME NEW j \in Job, StopReleases(j)
        PROVE  Promise!FatesNext \/ UNCHANGED <<fateOf, outcome>>
    <3>1. phase[j] \in {"pending", "cancelled"} /\ outcome' = outcome
      BY <2>6 DEF StopReleases, callers, JobsInv, WorkerPhase
    <3>2. phase'[j] = "cancelled" /\ \A k \in Job : k # j => phase'[k] = phase[k]
      BY <2>1, <2>6 DEF StopReleases, TypeOK
    <3>3. fateOf' = [k \in Job |-> IF k \in {j} THEN "withdrawn" ELSE fateOf[k]]
      BY <2>2, <2>3, <3>2
    <3>4. CASE phase[j] = "pending"
      <4>1. Promise!WithdrawAll({j})
        BY <2>2, <3>1, <3>3, <3>4 DEF Promise!WithdrawAll
      <4> QED
        BY <4>1
    <3>5. CASE phase[j] = "cancelled"
      BY <2>2, <3>1, <3>3, <3>5
    <3> QED
      BY <3>1, <3>4, <3>5
  <2>7. CASE Claim
    <3>1. current \in Job /\ outcome' = outcome
      BY <2>7 DEF Claim, callers, JobsInv, TypeOK, WorkerPhase
    <3>2. CASE phase[current] = "pending" /\ phase' = [phase EXCEPT ![current] = "cancelled"]
      <4>1. phase'[current] = "cancelled" /\ \A k \in Job : k # current => phase'[k] = phase[k]
        BY <2>1, <3>1, <3>2 DEF TypeOK
      <4>2. fateOf' = [k \in Job |-> IF k \in {current} THEN "withdrawn" ELSE fateOf[k]]
        BY <2>2, <2>3, <4>1
      <4>3. Promise!WithdrawAll({current}) /\ {current} \in SUBSET Job
        BY <2>2, <3>1, <3>2, <4>2 DEF Promise!WithdrawAll
      <4> QED
        BY <4>3
    <3>3. CASE phase[current] = "pending" /\ phase' = [phase EXCEPT ![current] = "running"]
      <4>1. phase'[current] = "running" /\ \A k \in Job : k # current => phase'[k] = phase[k]
        BY <2>1, <3>1, <3>3 DEF TypeOK
      <4>2. fateOf' = [fateOf EXCEPT ![current] = "started"]
        BY <2>2, <2>3, <4>1
      <4>3. Promise!Begin(current)
        BY <2>2, <3>1, <3>3, <4>2 DEF Promise!Begin
      <4> QED
        BY <3>1, <4>3
    <3>4. CASE phase' = phase
      BY <3>1, <3>4, SameFates
    <3> QED
      BY <2>7, <3>2, <3>3, <3>4 DEF Claim
  <2>8. CASE Run
    <3>1. current \in Job /\ phase[current] = "running" /\ outcome' = outcome
      BY <2>8 DEF Run, callers, JobsInv, TypeOK, WorkerPhase
    <3>2. phase'[current] = "done" /\ \A k \in Job : k # current => phase'[k] = phase[k]
      BY <2>1, <2>8, <3>1 DEF Run, TypeOK
    <3>3. fateOf' = [fateOf EXCEPT ![current] = "finished"]
      BY <2>2, <2>3, <3>2
    <3>4. Promise!End(current)
      BY <2>2, <3>1, <3>3 DEF Promise!End
    <3> QED
      BY <3>1, <3>4
  <2>9. CASE Check \/ Pop \/ SignalDone \/ StopBegins \/ StopDrains \/ UNCHANGED vars
    BY <2>9, SameFates DEF Check, Pop, SignalDone, StopBegins, StopDrains, vars, callers
  <2> QED
    BY <2>4, <2>5, <2>6, <2>7, <2>8, <2>9 DEF Next, Worker
<1> QED
  BY <1>1, <1>2, Inductive, PTL DEF Spec, KeepsPromise, Promise!FatesSpec

-----------------------------------------------------------------------------
(* A command whose promise is still unset is somewhere: in the deque, with  *)
(* the worker, with stop(), or with the record stop that withdrew it.  No  *)
(* step loses one.                                                         *)
SignalOwed ==
  \A j \in Job : Asked(j) /\ pc[j] # "answered" /\ signals[j] = 0 =>
    j \in queued \/ j \in leftover \/ j = current \/ \E t \in Stop : j \in withdrawn[t]

LEMMA CallerOwes ==
  ASSUME NEW j \in Job, JobsInv, SignalOwed, Caller(j)
  PROVE  SignalOwed'
<1> USE DEF SignalOwed, Asked
<1>1. CASE Call(j)
  BY <1>1, SMTT(40) DEF Call, Return, theWorker, theStop, deque, JobsInv, TypeOK
<1>2. CASE Push(j)
  <2>1. /\ UNCHANGED <<signals, leftover, current>>
        /\ j \in queued' /\ pc' = [pc EXCEPT ![j] = "pushed"]
    BY <1>2 DEF Push, theWorker, theStop
  <2>2. CASE j \in Stop
    <3>1. /\ queued' = (queued \ Overtaken) \cup {j}
          /\ withdrawn' = [withdrawn EXCEPT ![j] = Overtaken]
      BY <1>2, <2>2 DEF Push
    <3>2. withdrawn[j] = {}
      BY <1>2 DEF Push, JobsInv, OnePromise
    <3> QED
      BY <2>1, <2>2, <3>1, <3>2, JobsAssumption DEF JobsInv, TypeOK
  <2>3. CASE j \notin Stop
    BY <1>2, <2>1, <2>3 DEF Push, JobsInv, TypeOK
  <2> QED
    BY <2>2, <2>3
<1>3. CASE Release(j)
  <2>1. /\ UNCHANGED <<queued, leftover, current>>
        /\ pc' = [pc EXCEPT ![j] = "waiting"] /\ pc[j] = "pushed"
        /\ withdrawn' = [withdrawn EXCEPT ![j] = {}]
        /\ \A k \in Job : signals'[k] = IF k \in withdrawn[j] THEN signals[k] + 1 ELSE signals[k]
    BY <1>3 DEF Release, Signal, theWorker, theStop, deque
  <2>2. \A k \in Job : signals[k] \in Nat /\ (signals'[k] = 0 =>
          k \notin withdrawn[j] /\ signals[k] = 0)
    BY <2>1 DEF JobsInv, TypeOK
  <2>3. \A t \in Job : \A k \in Job \ withdrawn[j] :
          k \in withdrawn[t] => k \in withdrawn'[t]
    BY <2>1 DEF JobsInv, TypeOK
  <2>4. \A k \in Job : Asked(k)' /\ pc'[k] # "answered" => Asked(k) /\ pc[k] # "answered"
    BY <2>1 DEF JobsInv, TypeOK
  <2>5. Stop \subseteq Job
    BY JobsAssumption
  <2> QED
    BY <2>1, <2>2, <2>3, <2>4, <2>5
<1>4. CASE Told(j) \/ TimesOut(j) \/ Withdraw(j)
  <2>1. UNCHANGED <<queued, leftover, current, withdrawn, signals>>
    BY <1>4 DEF Told, TimesOut, Withdraw, theWorker, theStop, deque
  <2>2. \A k \in Job : Asked(k)' /\ pc'[k] # "answered" => Asked(k) /\ pc[k] # "answered"
    BY <1>4 DEF Told, TimesOut, Withdraw, Return, JobsInv, TypeOK
  <2> QED
    BY <2>1, <2>2
<1> QED
  BY <1>1, <1>2, <1>3, <1>4 DEF Caller

LEMMA OthersOwe ==
  ASSUME JobsInv, SignalOwed,
         \/ \E j \in Job : Deadline(j) \/ StopReleases(j)
         \/ Worker \/ StopBegins \/ StopDrains \/ UNCHANGED vars
  PROVE  SignalOwed'
<1> USE DEF SignalOwed, Asked, callers
<1>1. ASSUME NEW j \in Job, StopReleases(j) PROVE SignalOwed'
  <2>1. /\ UNCHANGED <<pc, withdrawn, queued, current>> /\ leftover' = leftover \ {j}
        /\ \A k \in Job : signals'[k] = IF k = j THEN signals[k] + 1 ELSE signals[k]
    BY <1>1 DEF StopReleases, Signal, theWorker, deque
  <2>2. \A k \in Job : signals[k] \in Nat
    BY DEF JobsInv, TypeOK
  <2> QED
    BY <2>1, <2>2
<1>2. CASE Pop
  <2>1. UNCHANGED <<pc, signals, withdrawn, leftover>>
    BY <1>2 DEF Pop, theStop
  <2>2. current = None
    BY <1>2 DEF Pop, JobsInv, WorkerPhase
  <2>3. \A j \in queued : j \in queued' \/ j = current'
    BY <1>2 DEF Pop
  <2> QED
    BY <2>1, <2>2, <2>3, JobsAssumption
<1>3. CASE SignalDone
  <2>1. /\ UNCHANGED <<pc, withdrawn, queued, leftover>>
        /\ \A k \in Job : signals'[k] = IF k = current THEN signals[k] + 1 ELSE signals[k]
    BY <1>3 DEF SignalDone, Signal, theStop, deque
  <2>2. \A k \in Job : signals[k] \in Nat
    BY DEF JobsInv, TypeOK
  <2> QED
    BY <2>1, <2>2
<1>4. CASE StopDrains
  BY <1>4 DEF StopDrains, theWorker, JobsInv, StopPhase
<1>5. CASE Check \/ Claim \/ Run \/ StopBegins \/ UNCHANGED vars
           \/ \E j \in Job : Deadline(j)
  BY <1>5 DEF Check, Claim, Run, StopBegins, Deadline, vars, theWorker, theStop, deque
<1> QED
  BY <1>1, <1>2, <1>3, <1>4, <1>5 DEF Worker

(* stop() strands nobody: once it has gone through the deque, a caller that *)
(* still waits unanswered either pushed after it, or is owed its answer by  *)
(* the record stop that withdrew its command.                              *)
THEOREM ShutdownFreesCallers == Spec => []ShutdownReleases
<1>1. Init => SignalOwed
  BY DEF Init, SignalOwed, Asked
<1>2. JobsInv /\ SignalOwed /\ [Next]_vars => SignalOwed'
  BY CallerOwes, OthersOwe DEF Next
<1>3. JobsInv /\ SignalOwed => ShutdownReleases
  <2> SUFFICES ASSUME JobsInv, SignalOwed, stopper = "drained", leftover = {},
                      NEW j \in Job, pc[j] = "waiting", signals[j] = 0
               PROVE  j \in queued \/ \E t \in Stop : j \in withdrawn[t]
    BY DEF ShutdownReleases
  <2>1. current = None
    BY DEF JobsInv, StopPhase, WorkerPhase
  <2> QED
    BY <2>1, JobsAssumption DEF SignalOwed, Asked
<1> QED
  BY Inductive, <1>1, <1>2, <1>3, PTL DEF Spec

-----------------------------------------------------------------------------
(* Discovery.                                                               *)
Entries  == Range(sweep.entries)
Matching == sweep.pass # 0 /\ sweep.at > 0

(* An entry that goes by its address or model has a body nobody pins.       *)
Unpinned(e, b) == ~Says(e, "dev") /\ ~Says(e, "mac") /\ \A f \in Entries : ~Pinned(f, b)

(* Nothing is given away before the matching, and it is at an entry.        *)
SweepShape ==
  /\ sweep.pass = 0 \/ sweep.at = 0 => \A b \in Body : claimed[b] = Unset
  /\ sweep.pass # 0 /\ sweep.at = 0 => sweep.pass = 1
  /\ Matching => \/ sweep.at \in DOMAIN sweep.entries
                 \/ sweep.entries = <<>> /\ sweep.pass = 1 /\ sweep.at = 1 /\ \A b \in Body : claimed[b] = Unset

(* A body given away was found, its entry pins it or nobody does, and its   *)
(* worker, unless gone, has it.                                             *)
ClaimsHold ==
  \A b \in Body : claimed[b] # Unset =>
    /\ b \in discovered /\ claimed[b] \in Entries
    /\ Pinned(claimed[b], b) \/ Unpinned(claimed[b], b)
    /\ claimed[b] \notin sweep.gone => visible[claimed[b]] /\ target[claimed[b]] = b

OneBody == \A b, d \in Body : claimed[b] # Unset /\ claimed[b] = claimed[d] => b = d

(* Entry i has had pass k. *)
Had(k, i) == k < sweep.pass \/ (k = sweep.pass /\ i < sweep.at)

(* Once an entry that pins a body has had its pass, the body is with an     *)
(* entry that pins it.                                                      *)
PinsDone ==
  Matching => \A k \in {1, 2}, i \in DOMAIN sweep.entries, b \in discovered :
    Had(k, i) /\ Uses(sweep.entries[i], Passes[k]) /\ Fits(sweep.entries[i], Passes[k], b) =>
      claimed[b] # Unset /\ Pinned(claimed[b], b)

ToldMissing ==
  sweep.pass = Missing => \A i \in DOMAIN sweep.entries :
    LET e == sweep.entries[i] IN
    i < sweep.at /\ e \notin sweep.gone /\ visible[e] => Assigned(e) \/ Pinned(e, target[e])

(* Between sweeps. *)
Settled ==
  Between =>
    /\ \A e \in Swept, b \in discovered : Pinned(e, b) =>
         (visible[e] /\ target[e] = b) \/ \E f \in Entries \ {e} : Pinned(f, b)
    /\ \A e, f \in Swept : e # f /\ visible[e] /\ visible[f] /\ target[e] = target[f] => Pinned(e, target[e])
    /\ \A e \in Swept : visible[e] =>
         Pinned(e, target[e]) \/ Unpinned(e, target[e])

DiscoveryInv ==
  DiscoveryTypeOK /\ SweepShape /\ ClaimsHold /\ OneBody /\ PinsDone /\ ToldMissing /\ Settled

-----------------------------------------------------------------------------
(* An entry pins one body: no two bodies have the same device identity or   *)
(* the same MAC.                                                            *)
LEMMA PinUnique ==
  ASSUME NEW e \in Entry, NEW b \in Body, NEW d \in Body, Pinned(e, b), Pinned(e, d)
  PROVE  b = d
BY DiscoveryAssumption, Zenon DEF Pinned, Uses, Fits, Says

(* The first two passes are the ones that pin, and the others are for the   *)
(* entries that name neither a device identity nor a MAC.                   *)
LEMMA PassesPin ==
  ASSUME NEW e \in Entry, NEW b \in Body
  PROVE  /\ \A k \in {1, 2} : Uses(e, Passes[k]) /\ Fits(e, Passes[k], b) => Pinned(e, b)
         /\ Pinned(e, b) => \E k \in {1, 2} : Uses(e, Passes[k]) /\ Fits(e, Passes[k], b)
         /\ \A k \in {3, 4} : Uses(e, Passes[k]) => ~Says(e, "dev") /\ ~Says(e, "mac")
         /\ Pinned(e, b) => Says(e, "dev") \/ Says(e, "mac")
<1>1. Passes[1] = "dev" /\ Passes[2] = "mac" /\ Passes[3] = "ip" /\ Passes[4] = "model"
  BY DEF Passes
<1>2. \A k \in {1, 2} : Uses(e, Passes[k]) /\ Fits(e, Passes[k], b) => Pinned(e, b)
  BY <1>1, Zenon DEF Pinned
<1>3. Pinned(e, b) => \E k \in {1, 2} : Uses(e, Passes[k]) /\ Fits(e, Passes[k], b)
  BY <1>1, Zenon DEF Pinned
<1>4. \A k \in {3, 4} : Uses(e, Passes[k]) => ~Says(e, "dev") /\ ~Says(e, "mac")
  BY <1>1, SMT DEF Uses
<1>5. Pinned(e, b) => Says(e, "dev") \/ Says(e, "mac")
  BY Zenon DEF Pinned, Fits
<1> QED BY <1>2, <1>3, <1>4, <1>5, Zenon

SweepType == [entries : Seq(Entry), pass : 0..Missing, at : Nat, gone : SUBSET Entry, changes : 0..MaxMeanwhile]

(* On to the next entry, to the next pass, or over. *)
LEMMA StepGoesOn ==
  ASSUME DiscoveryTypeOK, sweep.pass \in 1..Missing, sweep.at \in DOMAIN sweep.entries, Step
  PROVE  /\ sweep' \in SweepType /\ sweep'.entries = sweep.entries /\ sweep'.gone = sweep.gone
         /\ \/ sweep'.pass = sweep.pass /\ sweep'.at = sweep.at + 1 /\ sweep'.at \in DOMAIN sweep.entries
               /\ sweep.at < Len(sweep.entries)
            \/ sweep'.pass = sweep.pass + 1 /\ sweep'.at = 1 /\ 1 \in DOMAIN sweep.entries
               /\ sweep.at = Len(sweep.entries) /\ sweep.pass # Missing
            \/ sweep.pass = Missing /\ sweep'.pass = 0 /\ sweep'.at = 1 /\ sweep.at = Len(sweep.entries)
<1>1. sweep \in SweepType /\ sweep.entries \in Seq(Entry)
  BY DEF DiscoveryTypeOK, SweepType
<1>2. DOMAIN sweep.entries = 1..Len(sweep.entries) /\ Len(sweep.entries) \in Nat
  BY <1>1
<1>3. CASE sweep.at < Len(sweep.entries)
  <2>1. sweep' = [sweep EXCEPT !.at = @ + 1]  BY <1>3 DEF Step
  <2>2. sweep' \in SweepType /\ sweep'.entries = sweep.entries /\ sweep'.gone = sweep.gone
        /\ sweep'.pass = sweep.pass /\ sweep'.at = sweep.at + 1
    BY <1>1, <2>1 DEF SweepType
  <2> QED BY <1>1, <1>2, <1>3, <2>2
<1>4. CASE ~(sweep.at < Len(sweep.entries))
  <2>1. sweep' = [sweep EXCEPT !.pass = IF @ = Missing THEN 0 ELSE @ + 1, !.at = 1,
                               !.changes = IF sweep.pass = Missing THEN 0 ELSE @]
    BY <1>4 DEF Step
  <2>2. sweep'.entries = sweep.entries /\ sweep'.gone = sweep.gone /\ sweep'.at = 1
        /\ sweep'.pass = (IF sweep.pass = Missing THEN 0 ELSE sweep.pass + 1)
    BY <1>1, <2>1 DEF SweepType
  <2>3. sweep' \in SweepType
    <3> DEFINE p == IF sweep.pass = Missing THEN 0 ELSE sweep.pass + 1
               c == IF sweep.pass = Missing THEN 0 ELSE sweep.changes
    <3>1. p \in 0..Missing /\ c \in 0..MaxMeanwhile
      BY <1>1, DiscoveryAssumption DEF SweepType, Missing
    <3>2. sweep' = [sweep EXCEPT !.pass = p, !.at = 1, !.changes = c]
      BY <1>1, <2>1 DEF SweepType
    <3> HIDE DEF p, c
    <3> QED BY <1>1, <3>1, <3>2 DEF SweepType
  <2>4. sweep.at = Len(sweep.entries) /\ 1 \in DOMAIN sweep.entries
    BY <1>1, <1>2, <1>4 DEF SweepType
  <2> QED BY <2>2, <2>3, <2>4
<1> QED BY <1>3, <1>4

LEMMA DiscoveryInitInv == DiscoveryInit => DiscoveryInv
<1> SUFFICES ASSUME DiscoveryInit PROVE DiscoveryInv
  OBVIOUS
<1> USE DEF DiscoveryInit
<1>1. sweep.entries = <<>> /\ sweep.pass = 0 /\ sweep.at = 1 /\ sweep.gone = {}
  OBVIOUS
<1>2. Entries = {} /\ Swept = {}
  BY <1>1 DEF Entries, Swept, Range
<1>3. DiscoveryTypeOK
  <2>1. sweep \in SweepType
    BY DiscoveryAssumption DEF Missing, SweepType
  <2>2. roster \in Seq(Entry) /\ adding \in Entry \cup {Unset} /\ claimed \in [Body -> Entry \cup {Unset}]
        /\ target \in [Entry -> Body \cup {Unset}]
    BY DiscoveryAssumption
  <2>3. started \in BOOLEAN /\ visible \in [Entry -> BOOLEAN] /\ present \subseteq Body /\ discovered \subseteq Body
    OBVIOUS
  <2> QED BY <2>1, <2>2, <2>3 DEF DiscoveryTypeOK, SweepType
<1>4. SweepShape
  BY <1>1, DiscoveryAssumption DEF SweepShape, Matching
<1>5. ClaimsHold /\ OneBody
  BY DEF ClaimsHold, OneBody
<1>6. PinsDone /\ ToldMissing
  BY <1>1 DEF PinsDone, Matching, ToldMissing, Missing
<1>7. Settled
  BY <1>2 DEF Settled
<1> QED BY <1>3, <1>4, <1>5, <1>6, <1>7 DEF DiscoveryInv

(* What the invariant says is kept while bodies and entries come and go.    *)
LEMMA ComesAndGoes ==
  ASSUME DiscoveryInv, UNCHANGED <<discovered, claimed>>,
         sweep'.entries = sweep.entries, sweep'.pass = sweep.pass, sweep'.at = sweep.at,
         sweep.gone \subseteq sweep'.gone,
         \A e \in Entry : e \notin sweep'.gone => target'[e] = target[e] /\ visible'[e] = visible[e]
  PROVE  SweepShape' /\ ClaimsHold' /\ OneBody' /\ PinsDone' /\ ToldMissing' /\ Settled'
<1> USE DEF DiscoveryInv
<1>1. Entries' = Entries /\ Swept' \subseteq Swept /\ Entries \subseteq Entry /\ Swept \subseteq Entries
      /\ \A e \in Swept' : e \in Entry /\ e \notin sweep'.gone
  <2>1. Entries' = Entries /\ Swept' \subseteq Swept /\ Swept' = Entries \ sweep'.gone /\ Swept = Entries \ sweep.gone
    BY DEF Entries, Swept
  <2>2. Entries \subseteq Entry
    BY DEF DiscoveryTypeOK, Entries, Range
  <2> QED BY <2>1, <2>2
<1>2. \A e, b : Unpinned(e, b)' <=> Unpinned(e, b)
  BY <1>1 DEF Unpinned
<1>3. \A e : Assigned(e)' <=> Assigned(e)
  BY DEF Assigned
<1>4. SweepShape' /\ OneBody'
  BY DEF SweepShape, Matching, OneBody
<1>5. ClaimsHold'
  <2> SUFFICES ASSUME NEW b \in Body, claimed[b] # Unset
               PROVE  /\ b \in discovered /\ claimed[b] \in Entries
                      /\ Pinned(claimed[b], b) \/ Unpinned(claimed[b], b)
                      /\ claimed[b] \notin sweep'.gone => visible'[claimed[b]] /\ target'[claimed[b]] = b
    BY <1>1, <1>2, Zenon DEF ClaimsHold
  <2>1. /\ b \in discovered /\ claimed[b] \in Entries
        /\ Pinned(claimed[b], b) \/ Unpinned(claimed[b], b)
        /\ claimed[b] \notin sweep.gone => visible[claimed[b]] /\ target[claimed[b]] = b
    BY Zenon DEF ClaimsHold
  <2>2. claimed[b] \in Entry  BY <1>1, <2>1
  <2> QED BY <2>1, <2>2, Zenon
<1>6. PinsDone'
  BY Zenon DEF PinsDone, Had, Matching
<1>7. ToldMissing'
  <2> SUFFICES ASSUME sweep.pass = Missing, NEW i \in DOMAIN sweep.entries, i < sweep.at,
                      sweep.entries[i] \notin sweep'.gone, visible'[sweep.entries[i]]
               PROVE  Assigned(sweep.entries[i]) \/ Pinned(sweep.entries[i], target'[sweep.entries[i]])
    BY <1>3, Zenon DEF ToldMissing
  <2>1. sweep.entries[i] \in Entry
    BY DEF DiscoveryTypeOK
  <2>2. visible[sweep.entries[i]] /\ target'[sweep.entries[i]] = target[sweep.entries[i]]
        /\ sweep.entries[i] \notin sweep.gone
    BY <2>1, Zenon
  <2> QED BY <2>2, Zenon DEF ToldMissing
<1>8. Settled'
  <2> SUFFICES ASSUME Between
               PROVE  Settled'
    BY DEF Settled, Between
  <2>1. \A e \in Swept' : e \in Swept /\ target'[e] = target[e] /\ (visible'[e] <=> visible[e])
    BY <1>1
  <2> DEFINE ShownOrRival(e, v, t) == \A b \in discovered : Pinned(e, b) =>
               (v /\ t = b) \/ \E f \in Entries \ {e} : Pinned(f, b)
             Fair(e, v, t) == v => Pinned(e, t) \/ Unpinned(e, t)
  <2>2. \A e \in Swept' : ShownOrRival(e, visible'[e], target'[e])
    <3>1. \A e \in Swept : ShownOrRival(e, visible[e], target[e])
      BY Zenon DEF Settled
    <3> TAKE e \in Swept'
    <3> QED BY <2>1, <3>1, Zenon
  <2>3. \A e, f \in Swept' : e # f /\ visible'[e] /\ visible'[f] /\ target'[e] = target'[f] => Pinned(e, target'[e])
    <3> SUFFICES ASSUME NEW e \in Swept', NEW f \in Swept', e # f, visible'[e], visible'[f], target'[e] = target'[f]
                 PROVE  Pinned(e, target'[e])
      OBVIOUS
    <3>1. visible[e] /\ visible[f] /\ target[e] = target[f] /\ e \in Swept /\ f \in Swept
      BY <2>1, Zenon
    <3>2. Pinned(e, target[e])  BY <3>1, Zenon DEF Settled
    <3> QED BY <2>1, <3>2, Zenon
  <2>4. \A e \in Swept' : Fair(e, visible'[e], target'[e])
    <3>1. \A e \in Swept : Fair(e, visible[e], target[e])
      BY Zenon DEF Settled
    <3> TAKE e \in Swept'
    <3> QED BY <2>1, <3>1, Zenon
  <2> QED BY <1>1, <1>2, <2>2, <2>3, <2>4, Zenon DEF Settled
<1> QED BY <1>4, <1>5, <1>6, <1>7, <1>8

LEMMA BodiesInv ==
  ASSUME DiscoveryInv, UNCHANGED <<roster, adding, discovered, sweep, claimed, target, visible>>,
         started' \in BOOLEAN, present' \subseteq Body
  PROVE  DiscoveryInv'
<1>1. SweepShape' /\ ClaimsHold' /\ OneBody' /\ PinsDone' /\ ToldMissing' /\ Settled'
  BY ComesAndGoes, Zenon
<1>2. DiscoveryTypeOK'
  BY Zenon DEF DiscoveryInv, DiscoveryTypeOK
<1> QED BY <1>1, <1>2 DEF DiscoveryInv

LEMMA MeanwhileIs ==
  ASSUME DiscoveryTypeOK, NEW G \in SUBSET Entry, Meanwhile(G)
  PROVE  /\ sweep' \in SweepType /\ sweep'.entries = sweep.entries /\ sweep'.pass = sweep.pass
         /\ sweep'.at = sweep.at /\ sweep'.gone = sweep.gone \cup G
<1>1. sweep \in SweepType  BY DEF DiscoveryTypeOK, SweepType
<1>2. CASE sweep.pass = 0
  <2>1. sweep' = [sweep EXCEPT !.gone = @ \cup G]  BY <1>2 DEF Meanwhile
  <2> QED BY <1>1, <2>1 DEF SweepType
<1>3. CASE sweep.pass # 0
  <2>1. sweep.changes < MaxMeanwhile /\ sweep' = [sweep EXCEPT !.gone = @ \cup G, !.changes = @ + 1]
    BY <1>3 DEF Meanwhile
  <2>2. sweep.changes + 1 \in 0..MaxMeanwhile
    BY <1>1, <2>1, DiscoveryAssumption DEF SweepType
  <2> QED BY <1>1, <2>1, <2>2 DEF SweepType
<1> QED BY <1>2, <1>3

LEMMA AddCameraInv ==
  ASSUME DiscoveryInv, NEW e \in Entry, AddCamera(e) PROVE DiscoveryInv'
<1>1. DiscoveryTypeOK /\ Meanwhile({})
  BY DEF DiscoveryInv, AddCamera
<1>2. /\ sweep' \in SweepType /\ sweep'.entries = sweep.entries /\ sweep'.pass = sweep.pass
      /\ sweep'.at = sweep.at /\ sweep'.gone = sweep.gone \cup {}
  BY <1>1, MeanwhileIs
<1>3. SweepShape' /\ ClaimsHold' /\ OneBody' /\ PinsDone' /\ ToldMissing' /\ Settled'
  BY <1>2, ComesAndGoes DEF AddCamera
<1>4. roster' \in Seq(Entry) /\ adding' \in Entry \cup {Unset}
  BY <1>1 DEF DiscoveryTypeOK, AddCamera
<1>5. DiscoveryTypeOK'
  BY <1>1, <1>2, <1>4, Zenon DEF DiscoveryTypeOK, SweepType, AddCamera
<1> QED BY <1>3, <1>5 DEF DiscoveryInv

LEMMA RemoveCameraInv ==
  ASSUME DiscoveryInv, NEW e \in Entry, RemoveCamera(e) PROVE DiscoveryInv'
<1>1. DiscoveryTypeOK /\ Meanwhile({e})
  BY DEF DiscoveryInv, RemoveCamera
<1>2. /\ sweep' \in SweepType /\ sweep'.entries = sweep.entries /\ sweep'.pass = sweep.pass
      /\ sweep'.at = sweep.at /\ sweep'.gone = sweep.gone \cup {e}
  BY <1>1, MeanwhileIs
<1>3. target' = [target EXCEPT ![e] = Unset] /\ visible' = [visible EXCEPT ![e] = FALSE]
      /\ UNCHANGED <<started, present, adding, discovered, claimed>>
  BY DEF RemoveCamera
<1>4. /\ target \in [Entry -> Body \cup {Unset}] /\ visible \in [Entry -> BOOLEAN]
  BY <1>1 DEF DiscoveryTypeOK
<1>5. \A f \in Entry : f \notin sweep'.gone => target'[f] = target[f] /\ visible'[f] = visible[f]
  BY <1>2, <1>3, <1>4
<1>6. SweepShape' /\ ClaimsHold' /\ OneBody' /\ PinsDone' /\ ToldMissing' /\ Settled'
  BY <1>2, <1>3, <1>5, ComesAndGoes
<1>7. roster' \in Seq(Entry)
  <2>1. roster \in Seq(Entry)  BY <1>1 DEF DiscoveryTypeOK
  <2>2. PICK i \in DOMAIN roster : roster' = RemoveAt(roster, i)
    BY DEF RemoveCamera
  <2>3. roster' = SubSeq(roster, 1, i - 1) \o SubSeq(roster, i + 1, Len(roster))
    BY <2>2 DEF RemoveAt
  <2>4. SubSeq(roster, 1, i - 1) \in Seq(Entry) /\ SubSeq(roster, i + 1, Len(roster)) \in Seq(Entry)
    BY <2>1
  <2> QED BY <2>3, <2>4
<1>8. target' \in [Entry -> Body \cup {Unset}] /\ visible' \in [Entry -> BOOLEAN]
  BY <1>3, <1>4
<1>9. DiscoveryTypeOK'
  BY <1>1, <1>2, <1>3, <1>7, <1>8, Zenon DEF DiscoveryTypeOK, SweepType
<1> QED BY <1>6, <1>9 DEF DiscoveryInv

(* The body offered to a new entry is one it pins: no entry of the sweep    *)
(* that goes by its address has it.                                         *)
LEMMA AddedInv == ASSUME DiscoveryInv, Added PROVE DiscoveryInv'
<1> DEFINE a == adding
<1>1. a \in Entry /\ adding' = Unset /\ UNCHANGED <<started, present, roster, discovered, sweep, claimed>>
  BY DEF Added, DiscoveryInv, DiscoveryTypeOK
<1>2. CASE ~(\E b \in discovered : Pinned(a, b))
  <2>1. UNCHANGED <<target, visible>>
    BY <1>2, Zenon DEF Added
  <2>2. SweepShape' /\ ClaimsHold' /\ OneBody' /\ PinsDone' /\ ToldMissing' /\ Settled'
    BY <1>1, <2>1, ComesAndGoes, Zenon
  <2>3. DiscoveryTypeOK'
    BY <1>1, <2>1, SMT DEF DiscoveryInv, DiscoveryTypeOK
  <2> QED BY <2>2, <2>3 DEF DiscoveryInv
<1>3. CASE \E b \in discovered : Pinned(a, b)
  <2> DEFINE b == CHOOSE d \in discovered : Pinned(a, d)
  <2>1. b \in discovered /\ Pinned(a, b)
    BY <1>3, Zenon
  <2>2. target' = [target EXCEPT ![a] = b] /\ visible' = [visible EXCEPT ![a] = TRUE]
    BY <1>3, Zenon DEF Added, Offer
  <2> HIDE DEF a, b
  <2>3. b \in Body /\ target \in [Entry -> Body \cup {Unset}] /\ visible \in [Entry -> BOOLEAN]
        /\ discovered \subseteq Body /\ Entries \subseteq Entry /\ Swept \subseteq Entries
    BY <2>1 DEF DiscoveryInv, DiscoveryTypeOK, Entries, Swept, Range
  <2>4. /\ target'[a] = b /\ visible'[a]
        /\ \A e \in Entry : e # a => target'[e] = target[e] /\ visible'[e] = visible[e]
    BY <1>1, <2>2, <2>3
  <2>5. Says(a, "dev") \/ Says(a, "mac")
    BY <1>1, <2>1, <2>3, PassesPin
  <2>6. Entries' = Entries /\ Swept' = Swept /\ (\A e, d : Unpinned(e, d)' <=> Unpinned(e, d))
        /\ \A e : Assigned(e)' <=> Assigned(e)
    BY <1>1, Zenon DEF Entries, Swept, Unpinned, Assigned
  <2>7. DiscoveryTypeOK'
    <3>1. target' \in [Entry -> Body \cup {Unset}] /\ visible' \in [Entry -> BOOLEAN]
      BY <2>2, <2>3
    <3>2. adding' \in Entry \cup {Unset}  BY <1>1
    <3> QED BY <1>1, <3>1, <3>2, Zenon DEF DiscoveryInv, DiscoveryTypeOK
  <2>8. SweepShape' /\ OneBody' /\ PinsDone'
    <3>1. SweepShape'  BY <1>1, Zenon DEF DiscoveryInv, SweepShape, Matching
    <3>2. OneBody'     BY <1>1, Zenon DEF DiscoveryInv, OneBody
    <3>3. PinsDone'    BY <1>1, Zenon DEF DiscoveryInv, PinsDone, Matching, Had
    <3> QED BY <3>1, <3>2, <3>3
  <2>9. ClaimsHold'
    <3> SUFFICES ASSUME NEW d \in Body, claimed[d] # Unset
                 PROVE  /\ d \in discovered /\ claimed[d] \in Entries
                        /\ Pinned(claimed[d], d) \/ Unpinned(claimed[d], d)
                        /\ claimed[d] \notin sweep.gone => visible'[claimed[d]] /\ target'[claimed[d]] = d
      BY <1>1, <2>6, Zenon DEF ClaimsHold
    <3>1. /\ d \in discovered /\ claimed[d] \in Entries
          /\ Pinned(claimed[d], d) \/ Unpinned(claimed[d], d)
          /\ claimed[d] \notin sweep.gone => visible[claimed[d]] /\ target[claimed[d]] = d
      BY Zenon DEF DiscoveryInv, ClaimsHold
    <3>2. claimed[d] = a => d = b
      <4>1. SUFFICES ASSUME claimed[d] = a PROVE d = b  OBVIOUS
      <4>2. Pinned(a, d)  BY <2>5, <3>1, <4>1, Zenon DEF Unpinned
      <4> QED BY <1>1, <2>1, <2>3, <4>2, PinUnique
    <3>3. claimed[d] \in Entry  BY <2>3, <3>1
    <3> QED BY <2>4, <3>1, <3>2, <3>3, Zenon
  <2>10. ToldMissing'
    <3> SUFFICES ASSUME sweep.pass = Missing, NEW i \in DOMAIN sweep.entries, i < sweep.at,
                        sweep.entries[i] \notin sweep.gone, visible'[sweep.entries[i]]
                 PROVE  Assigned(sweep.entries[i]) \/ Pinned(sweep.entries[i], target'[sweep.entries[i]])
      BY <1>1, <2>6, Zenon DEF ToldMissing
    <3>1. CASE sweep.entries[i] = a
      BY <2>1, <2>4, <3>1, Zenon
    <3>2. CASE sweep.entries[i] # a
      <4>1. sweep.entries[i] \in Entry
        BY DEF DiscoveryInv, DiscoveryTypeOK
      <4>2. visible[sweep.entries[i]] /\ target'[sweep.entries[i]] = target[sweep.entries[i]]
        BY <2>4, <3>2, <4>1, Zenon
      <4> QED BY <4>2, Zenon DEF DiscoveryInv, ToldMissing
    <3> QED BY <3>1, <3>2
  <2>11. Settled'
    <3> SUFFICES ASSUME Between PROVE Settled'
      BY <1>1 DEF Settled, Between
    <3>1. a \in Swept => Pinned(a, b) /\ \A e : ~Unpinned(e, b)
      BY <2>1, <2>3, Zenon DEF Unpinned
    <3>2. /\ \A e \in Swept, d \in discovered : Pinned(e, d) =>
               (visible[e] /\ target[e] = d) \/ \E f \in Entries \ {e} : Pinned(f, d)
          /\ \A e, f \in Swept : e # f /\ visible[e] /\ visible[f] /\ target[e] = target[f] => Pinned(e, target[e])
          /\ \A e \in Swept : visible[e] =>
               Pinned(e, target[e]) \/ Unpinned(e, target[e])
      BY Zenon DEF DiscoveryInv, Settled
    <3>3. \A e \in Swept : e \in Entry  BY <2>3
    <3>4. \A e \in Swept, d \in discovered : Pinned(e, d) =>
            (visible'[e] /\ target'[e] = d) \/ \E f \in Entries \ {e} : Pinned(f, d)
      <4> SUFFICES ASSUME NEW e \in Swept, NEW d \in discovered, Pinned(e, d)
                   PROVE  (visible'[e] /\ target'[e] = d) \/ \E f \in Entries \ {e} : Pinned(f, d)
        OBVIOUS
      <4>1. CASE e = a
        <5>1. d = b  BY <1>1, <2>1, <2>3, <4>1, PinUnique
        <5> QED BY <2>4, <4>1, <5>1
      <4>2. CASE e # a
        <5>1. target'[e] = target[e] /\ visible'[e] = visible[e]
          BY <2>4, <3>3, <4>2, Zenon
        <5> QED BY <3>2, <5>1, Zenon
      <4> QED BY <4>1, <4>2
    <3>5. \A e \in Swept : visible'[e] =>
            Pinned(e, target'[e]) \/ Unpinned(e, target'[e])
      <4> TAKE e \in Swept
      <4>1. CASE e = a  BY <2>1, <2>3, <2>4, <4>1, Zenon
      <4>2. CASE e # a
        <5>1. target'[e] = target[e] /\ visible'[e] = visible[e]
          BY <2>4, <3>3, <4>2, Zenon
        <5> QED BY <3>2, <5>1, Zenon
      <4> QED BY <4>1, <4>2
    <3>6. \A e, f \in Swept : e # f /\ visible'[e] /\ visible'[f] /\ target'[e] = target'[f] => Pinned(e, target'[e])
      <4> SUFFICES ASSUME NEW e \in Swept, NEW f \in Swept, e # f, visible'[e], visible'[f], target'[e] = target'[f]
                   PROVE  Pinned(e, target'[e])
        OBVIOUS
      <4>1. CASE e = a  BY <2>1, <2>4, <4>1, Zenon
      <4>2. CASE f = a
        <5>1. target'[e] = b  BY <2>4, <4>2, Zenon
        <5>2. ~Unpinned(e, b)  BY <3>1, <4>2, Zenon
        <5> QED BY <3>5, <5>1, <5>2, Zenon
      <4>3. CASE e # a /\ f # a
        <5>1. target'[e] = target[e] /\ visible'[e] = visible[e] /\ target'[f] = target[f] /\ visible'[f] = visible[f]
          BY <2>4, <3>3, <4>3, Zenon
        <5>2. Pinned(e, target[e])  BY <3>2, <5>1, Zenon
        <5> QED BY <5>1, <5>2, Zenon
      <4> QED BY <4>1, <4>2, <4>3
    <3> QED BY <1>1, <2>6, <3>4, <3>5, <3>6, Zenon DEF Settled
  <2> QED BY <2>7, <2>8, <2>9, <2>10, <2>11 DEF DiscoveryInv
<1> QED BY <1>2, <1>3

LEMMA DiscoverInv == ASSUME DiscoveryInv, Discover PROVE DiscoveryInv'
<1>1. /\ sweep.pass = 0 /\ sweep' = [sweep EXCEPT !.pass = 1, !.at = 0] /\ discovered' = present
      /\ UNCHANGED <<started, present, roster, adding, claimed, target, visible>>
  BY DEF Discover, Between
<1>2. sweep \in SweepType /\ DiscoveryTypeOK /\ \A b \in Body : claimed[b] = Unset
  BY <1>1 DEF DiscoveryInv, DiscoveryTypeOK, SweepType, SweepShape
<1>3. sweep' \in SweepType /\ sweep'.pass = 1 /\ sweep'.at = 0
  <2>1. 1 \in 0..Missing /\ 0 \in Nat  BY DEF Missing
  <2>2. sweep' \in SweepType  BY <1>1, <1>2, <2>1 DEF SweepType
  <2>3. sweep'.pass = 1 /\ sweep'.at = 0  BY <1>1, <1>2 DEF SweepType
  <2> QED BY <2>2, <2>3
<1>4. DiscoveryTypeOK'
  BY <1>1, <1>2, <1>3, Zenon DEF DiscoveryTypeOK, SweepType
<1>5. SweepShape' /\ ClaimsHold' /\ OneBody'
  BY <1>1, <1>2, <1>3 DEF SweepShape, Matching, ClaimsHold, OneBody
<1>6. PinsDone' /\ ToldMissing' /\ Settled'
  BY <1>3 DEF PinsDone, Matching, ToldMissing, Missing, Settled, Between
<1> QED BY <1>4, <1>5, <1>6 DEF DiscoveryInv

LEMMA SnapshotInv == ASSUME DiscoveryInv, Snapshot PROVE DiscoveryInv'
<1>1. /\ sweep.pass = 1 /\ sweep.at = 0 /\ sweep' = [sweep EXCEPT !.entries = roster, !.at = 1, !.gone = {}]
      /\ UNCHANGED <<started, present, roster, adding, discovered, claimed, target, visible>>
  BY DEF Snapshot
<1>2. sweep \in SweepType /\ DiscoveryTypeOK /\ \A b \in Body : claimed[b] = Unset
  BY <1>1 DEF DiscoveryInv, DiscoveryTypeOK, SweepType, SweepShape
<1>3. sweep' \in SweepType /\ sweep'.pass = 1 /\ sweep'.at = 1 /\ sweep'.entries = roster
  BY <1>1, <1>2 DEF SweepType, DiscoveryTypeOK
<1>4. DiscoveryTypeOK'
  BY <1>1, <1>2, <1>3, Zenon DEF DiscoveryTypeOK, SweepType
<1>5. SweepShape'
  <2>1. roster \in Seq(Entry)  BY <1>2 DEF DiscoveryTypeOK
  <2>2. 1 \in DOMAIN roster \/ roster = <<>>  BY <2>1
  <2> QED BY <1>1, <1>2, <1>3, <2>2 DEF SweepShape, Matching
<1>6. ClaimsHold' /\ OneBody'
  BY <1>1, <1>2 DEF ClaimsHold, OneBody
<1>7. PinsDone'
  <2>1. \A k \in {1, 2}, i \in DOMAIN sweep'.entries : ~Had(k, i)'
    BY <1>2, <1>3 DEF Had, DiscoveryTypeOK
  <2> QED BY <2>1, Zenon DEF PinsDone
<1>8. ToldMissing' /\ Settled'
  BY <1>3 DEF ToldMissing, Missing, Settled, Between
<1> QED BY <1>4, <1>5, <1>6, <1>7, <1>8 DEF DiscoveryInv

LEMMA NothingToDoInv == ASSUME DiscoveryInv, NothingToDo PROVE DiscoveryInv'
<1>1. /\ sweep.pass = 1 /\ sweep.at = 1 /\ sweep.entries = <<>> /\ sweep' = [sweep EXCEPT !.pass = 0, !.changes = 0]
      /\ UNCHANGED <<started, present, roster, adding, discovered, claimed, target, visible>>
  BY DEF NothingToDo
<1>2. sweep \in SweepType /\ DiscoveryTypeOK
  BY DEF DiscoveryInv, DiscoveryTypeOK, SweepType
<1>3. sweep' \in SweepType /\ sweep'.pass = 0 /\ sweep'.entries = <<>>
  <2>1. 0 \in 0..MaxMeanwhile /\ 0 \in 0..Missing  BY DiscoveryAssumption DEF Missing
  <2>2. sweep' \in SweepType  BY <1>1, <1>2, <2>1 DEF SweepType
  <2>3. sweep'.pass = 0 /\ sweep'.entries = <<>>  BY <1>1, <1>2 DEF SweepType
  <2> QED BY <2>2, <2>3
<1>4. DiscoveryTypeOK'
  BY <1>1, <1>2, <1>3, Zenon DEF DiscoveryTypeOK, SweepType
<1>5. \A b \in Body : claimed[b] = Unset
  BY <1>1 DEF DiscoveryInv, SweepShape, Matching
<1>6. SweepShape' /\ ClaimsHold' /\ OneBody'
  BY <1>1, <1>3, <1>5 DEF SweepShape, Matching, ClaimsHold, OneBody
<1>7. Swept' = {}
  BY <1>3 DEF Swept, Range
<1>8. PinsDone' /\ ToldMissing' /\ Settled'
  BY <1>3, <1>7 DEF PinsDone, Matching, ToldMissing, Missing, Settled
<1> QED BY <1>4, <1>6, <1>8 DEF DiscoveryInv

(* What a body is given by: the entry pins it, or goes by its address or    *)
(* model when the entries that pin it have had their passes.                *)
LEMMA CandidateIs ==
  ASSUME DiscoveryInv, sweep.pass \in 1..4, sweep.at \in DOMAIN sweep.entries,
         NEW b \in Candidates(sweep.entries[sweep.at])
  PROVE  /\ b \in discovered /\ b \in Body /\ claimed[b] = Unset
         /\ Pinned(sweep.entries[sweep.at], b) \/ Unpinned(sweep.entries[sweep.at], b)
<1> DEFINE e == sweep.entries[sweep.at]
<1>1. e \in Entry /\ discovered \subseteq Body /\ Entries \subseteq Entry /\ sweep.entries \in Seq(Entry)
      /\ sweep.at \in Nat
  BY DEF DiscoveryInv, DiscoveryTypeOK, Entries, Range
<1>2. b \in Free /\ Uses(e, Passes[sweep.pass]) /\ Fits(e, Passes[sweep.pass], b)
  BY Zenon DEF Candidates
<1>3. b \in discovered /\ b \in Body /\ claimed[b] = Unset
  BY <1>1, <1>2 DEF Free
<1> HIDE DEF e
<1>4. CASE sweep.pass \in {1, 2}
  <2>1. Pinned(e, b)  BY <1>1, <1>2, <1>3, <1>4, PassesPin, Zenon
  <2> QED BY <1>3, <2>1 DEF e
<1>5. CASE sweep.pass \in {3, 4}
  <2>1. ~Says(e, "dev") /\ ~Says(e, "mac")  BY <1>1, <1>2, <1>3, <1>5, PassesPin, Zenon
  <2>2. ASSUME NEW f \in Entries, Pinned(f, b) PROVE FALSE
    <3>1. PICK i \in DOMAIN sweep.entries : f = sweep.entries[i]
      BY DEF Entries, Range
    <3>2. PICK k \in {1, 2} : Uses(f, Passes[k]) /\ Fits(f, Passes[k], b)
      BY <1>1, <1>3, <2>2, PassesPin, Zenon
    <3>3. Had(k, i)  BY <1>5 DEF Had
    <3>4. Matching  BY <1>1, <1>5 DEF Matching
    <3>5. claimed[b] # Unset  BY <1>3, <3>1, <3>2, <3>3, <3>4, Zenon DEF DiscoveryInv, PinsDone
    <3> QED BY <1>3, <3>5
  <2>3. Unpinned(e, b)  BY <2>1, <2>2, Zenon DEF Unpinned
  <2> QED BY <1>3, <2>3 DEF e
<1>6. sweep.pass \in {1, 2} \/ sweep.pass \in {3, 4}
  OBVIOUS
<1> QED BY <1>4, <1>5, <1>6

LEMMA MatchInv == ASSUME DiscoveryInv, Match PROVE DiscoveryInv'
<1> DEFINE e == sweep.entries[sweep.at]
           Gives(b) == /\ b \in Candidates(e) /\ ~Assigned(e)
                       /\ claimed' = [claimed EXCEPT ![b] = e]
                       /\ IF e \in sweep.gone THEN UNCHANGED <<target, visible>> ELSE Offer(e, b)
<1>1. /\ sweep.pass \in 1..4 /\ sweep.at \in DOMAIN sweep.entries /\ Step
      /\ UNCHANGED <<started, present, roster, adding, discovered>>
  BY DEF Match
<1>2. \/ UNCHANGED <<claimed, target, visible>> /\ (Assigned(e) \/ Candidates(e) = {})
      \/ \E b \in Candidates(e) : Gives(b)
  BY Zenon DEF Match
<1>3. /\ sweep' \in SweepType /\ sweep'.entries = sweep.entries /\ sweep'.gone = sweep.gone
      /\ \/ sweep'.pass = sweep.pass /\ sweep'.at = sweep.at + 1 /\ sweep'.at \in DOMAIN sweep.entries
            /\ sweep.at < Len(sweep.entries)
         \/ sweep'.pass = sweep.pass + 1 /\ sweep'.at = 1 /\ 1 \in DOMAIN sweep.entries
            /\ sweep.at = Len(sweep.entries)
  <2>1. sweep.pass \in 1..Missing /\ sweep.pass # Missing  BY <1>1 DEF Missing
  <2> QED BY <1>1, <2>1, StepGoesOn DEF DiscoveryInv
<1>4. /\ sweep.entries \in Seq(Entry) /\ sweep.at \in Nat /\ sweep.at > 0 /\ sweep.pass \in Nat /\ e \in Entry /\ e \in Entries
      /\ discovered \subseteq Body /\ Entries \subseteq Entry
      /\ claimed \in [Body -> Entry \cup {Unset}] /\ target \in [Entry -> Body \cup {Unset}] /\ visible \in [Entry -> BOOLEAN]
      /\ Unset \notin Entry /\ Unset \notin Body
  BY <1>1, DiscoveryAssumption DEF DiscoveryInv, DiscoveryTypeOK, Entries, Range
<1>5. sweep'.pass \in 1..Missing /\ sweep'.at \in DOMAIN sweep.entries /\ sweep'.at > 0
  BY <1>1, <1>3, <1>4 DEF Missing
<1> HIDE DEF e
<1>6. SweepShape' /\ Settled'
  BY <1>3, <1>5 DEF SweepShape, Matching, Settled, Between, Missing
<1>7. ToldMissing'
  <2>1. sweep'.pass = Missing => \A i \in DOMAIN sweep'.entries : ~(i < sweep'.at)
    BY <1>1, <1>3, <1>4 DEF Missing
  <2> QED BY <2>1, Zenon DEF ToldMissing
<1>8. ASSUME NEW b \in Candidates(e), Gives(b)
      PROVE  /\ b \in discovered /\ b \in Body /\ claimed[b] = Unset /\ (Pinned(e, b) \/ Unpinned(e, b))
             /\ claimed'[b] = e /\ \A d \in Body : d # b => claimed'[d] = claimed[d] /\ claimed[d] # e
             /\ \A f \in Entry : f # e => target'[f] = target[f] /\ visible'[f] = visible[f]
             /\ e \notin sweep.gone => target'[e] = b /\ visible'[e]
             /\ claimed' \in [Body -> Entry \cup {Unset}] /\ target' \in [Entry -> Body \cup {Unset}] /\ visible' \in [Entry -> BOOLEAN]
  <2>1. b \in discovered /\ b \in Body /\ claimed[b] = Unset /\ (Pinned(e, b) \/ Unpinned(e, b))
    BY <1>1, CandidateIs, Zenon DEF e
  <2>2. claimed' = [claimed EXCEPT ![b] = e]  BY <1>8
  <2>3. \A d \in Body : claimed[d] # e  BY <1>8, Zenon DEF Assigned
  <2>4. claimed'[b] = e /\ \A d \in Body : d # b => claimed'[d] = claimed[d] /\ claimed[d] # e
    BY <1>4, <2>1, <2>2, <2>3
  <2>5. claimed' \in [Body -> Entry \cup {Unset}]  BY <1>4, <2>2
  <2>6. CASE e \in sweep.gone
    <3>1. target' = target /\ visible' = visible  BY <1>8, <2>6, Zenon
    <3> QED BY <1>4, <2>1, <2>4, <2>5, <2>6, <3>1
  <2>7. CASE e \notin sweep.gone
    <3>1. target' = [target EXCEPT ![e] = b] /\ visible' = [visible EXCEPT ![e] = TRUE]
      BY <1>8, <2>7, Zenon DEF Offer
    <3>2. target' \in [Entry -> Body \cup {Unset}] /\ visible' \in [Entry -> BOOLEAN]
      BY <1>4, <2>1, <3>1
    <3>3. target'[e] = b /\ visible'[e] /\ \A f \in Entry : f # e => target'[f] = target[f] /\ visible'[f] = visible[f]
      BY <1>4, <2>1, <3>1
    <3> QED BY <2>1, <2>4, <2>5, <3>2, <3>3, Zenon
  <2> QED BY <2>6, <2>7
<1>9. DiscoveryTypeOK'
  <2>1. /\ claimed' \in [Body -> Entry \cup {Unset}] /\ target' \in [Entry -> Body \cup {Unset}] /\ visible' \in [Entry -> BOOLEAN]
    BY <1>2, <1>4, <1>8, Zenon
  <2> QED BY <1>1, <1>3, <2>1, Zenon DEF DiscoveryInv, DiscoveryTypeOK, SweepType
<1>10. Entries' = Entries /\ \A f, d : Unpinned(f, d)' <=> Unpinned(f, d)
  BY <1>3, Zenon DEF Entries, Unpinned
<1>11. ClaimsHold'
  <2> SUFFICES ASSUME NEW d \in Body, claimed'[d] # Unset
               PROVE  /\ d \in discovered /\ claimed'[d] \in Entries
                      /\ Pinned(claimed'[d], d) \/ Unpinned(claimed'[d], d)
                      /\ claimed'[d] \notin sweep.gone => visible'[claimed'[d]] /\ target'[claimed'[d]] = d
    BY <1>1, <1>3, <1>10, Zenon DEF ClaimsHold
  <2>1. claimed[d] # Unset => /\ d \in discovered /\ claimed[d] \in Entries
                              /\ Pinned(claimed[d], d) \/ Unpinned(claimed[d], d)
                              /\ claimed[d] \notin sweep.gone => visible[claimed[d]] /\ target[claimed[d]] = d
    BY Zenon DEF DiscoveryInv, ClaimsHold
  <2>2. CASE UNCHANGED <<claimed, target, visible>>
    <3>1. claimed' = claimed /\ target' = target /\ visible' = visible  BY <2>2
    <3> QED BY <2>1, <3>1, Zenon
  <2>3. ASSUME NEW b \in Candidates(e), Gives(b)
        PROVE  /\ d \in discovered /\ claimed'[d] \in Entries
               /\ Pinned(claimed'[d], d) \/ Unpinned(claimed'[d], d)
               /\ claimed'[d] \notin sweep.gone => visible'[claimed'[d]] /\ target'[claimed'[d]] = d
    <3>1. CASE d = b
      BY <1>4, <1>8, <2>3, <3>1, Zenon
    <3>2. CASE d # b
      <4>1. claimed'[d] = claimed[d] /\ claimed[d] # e  BY <1>8, <2>3, <3>2, Zenon
      <4>2. claimed[d] \in Entries /\ claimed[d] \in Entry  BY <1>4, <2>1, <4>1
      <4>3. target'[claimed[d]] = target[claimed[d]] /\ visible'[claimed[d]] = visible[claimed[d]]
        BY <1>8, <2>3, <4>1, <4>2, Zenon
      <4> QED BY <2>1, <4>1, <4>3, Zenon
    <3> QED BY <3>1, <3>2
  <2> QED BY <1>2, <2>2, <2>3, Zenon
<1>12. OneBody'
  <2> SUFFICES ASSUME NEW c \in Body, NEW d \in Body, claimed'[c] # Unset, claimed'[c] = claimed'[d]
               PROVE  c = d
    BY Zenon DEF OneBody
  <2>1. CASE UNCHANGED <<claimed, target, visible>>
    <3>1. claimed' = claimed  BY <2>1
    <3> QED BY <3>1, Zenon DEF DiscoveryInv, OneBody
  <2>2. ASSUME NEW b \in Candidates(e), Gives(b) PROVE c = d
    <3>1. claimed'[b] = e /\ \A x \in Body : x # b => claimed'[x] = claimed[x] /\ claimed[x] # e
      BY <1>8, <2>2, Zenon
    <3>2. CASE c # b /\ d # b
      <4>1. claimed'[c] = claimed[c] /\ claimed'[d] = claimed[d]  BY <3>1, <3>2, Zenon
      <4> QED BY <4>1, Zenon DEF DiscoveryInv, OneBody
    <3>3. CASE c = b \/ d = b
      BY <3>1, <3>3, Zenon
    <3> QED BY <3>2, <3>3
  <2> QED BY <1>2, <2>1, <2>2, Zenon
<1>13. PinsDone'
  <2> SUFFICES ASSUME NEW k \in {1, 2}, NEW i \in DOMAIN sweep.entries, NEW d \in discovered, Had(k, i)',
                      Uses(sweep.entries[i], Passes[k]), Fits(sweep.entries[i], Passes[k], d)
               PROVE  claimed'[d] # Unset /\ Pinned(claimed'[d], d)
    BY <1>1, <1>3, Zenon DEF PinsDone
  <2>1. Had(k, i) \/ (k = sweep.pass /\ i = sweep.at)
    <3>1. i \in Nat /\ i <= Len(sweep.entries)  BY <1>4
    <3> QED BY <1>1, <1>3, <1>4, <3>1 DEF Had
  <2>2. d \in Body /\ Matching  BY <1>1, <1>4 DEF Matching
  <2>3. claimed[d] # Unset => claimed'[d] = claimed[d]
    BY <1>2, <1>8, <2>2, Zenon
  <2>4. CASE Had(k, i)
    <3>1. claimed[d] # Unset /\ Pinned(claimed[d], d)
      BY <2>2, <2>4, Zenon DEF DiscoveryInv, PinsDone
    <3> QED BY <2>3, <3>1, Zenon
  <2>5. CASE k = sweep.pass /\ i = sweep.at
    <3>1. Uses(e, Passes[k]) /\ Fits(e, Passes[k], d)  BY <2>5 DEF e
    <3>2. Pinned(e, d)  BY <1>4, <2>2, <3>1, PassesPin, Zenon
    <3>3. claimed[d] # Unset => Pinned(claimed[d], d)
      BY <1>4, <2>2, <3>2, Zenon DEF DiscoveryInv, ClaimsHold, Unpinned
    <3>4. CASE claimed[d] # Unset  BY <2>3, <3>3, <3>4, Zenon
    <3>5. CASE claimed[d] = Unset /\ UNCHANGED <<claimed, target, visible>> /\ Assigned(e)
      <4>1. PICK b \in Body : claimed[b] = e  BY <3>5, Zenon DEF Assigned
      <4>2. Pinned(e, b)
        <5>1. Pinned(e, b) \/ Unpinned(e, b)
          BY <1>4, <4>1, Zenon DEF DiscoveryInv, ClaimsHold
        <5>2. Says(e, "dev") \/ Says(e, "mac")  BY <1>4, <2>2, <3>2, PassesPin, Zenon
        <5> QED BY <5>1, <5>2, Zenon DEF Unpinned
      <4>3. b = d  BY <1>4, <2>2, <3>2, <4>2, PinUnique, Zenon
      <4> QED BY <1>4, <3>5, <4>1, <4>3, Zenon
    <3>6. CASE claimed[d] = Unset /\ Candidates(e) = {}
      <4>1. d \in Free  BY <2>2, <3>6 DEF Free
      <4>2. Passes[sweep.pass] # "model"  BY <2>5 DEF Passes
      <4>3. d \in Candidates(e)  BY <2>5, <3>1, <4>1, <4>2, Zenon DEF Candidates
      <4> QED BY <3>6, <4>3, Zenon
    <3>7. ASSUME NEW b \in Candidates(e), Gives(b), claimed[d] = Unset
          PROVE  claimed'[d] # Unset /\ Pinned(claimed'[d], d)
      <4>1. Uses(e, Passes[sweep.pass]) /\ Fits(e, Passes[sweep.pass], b) /\ b \in Body
        BY <1>8, <3>7, Zenon DEF Candidates
      <4>2. Pinned(e, b)  BY <1>4, <2>5, <4>1, PassesPin, Zenon
      <4>3. b = d  BY <1>4, <2>2, <3>2, <4>1, <4>2, PinUnique, Zenon
      <4> QED BY <1>4, <1>8, <3>2, <3>7, <4>3, Zenon
    <3> QED BY <1>2, <3>4, <3>5, <3>6, <3>7, Zenon
  <2> QED BY <2>1, <2>4, <2>5
<1> QED BY <1>6, <1>7, <1>9, <1>11, <1>12, <1>13 DEF DiscoveryInv

(* The sweep that ends here leaves every entry with a body that is its own, *)
(* or told.                                                                 *)
LEMMA TellMissingInv == ASSUME DiscoveryInv, TellMissing PROVE DiscoveryInv'
<1> DEFINE e == sweep.entries[sweep.at]
<1>1. /\ sweep.pass = Missing /\ sweep.at \in DOMAIN sweep.entries /\ Step
      /\ visible' = [visible EXCEPT ![e] = @ /\ (Assigned(e) \/ e \in sweep.gone)]
      /\ claimed' = IF sweep.at = Len(sweep.entries) THEN [b \in Body |-> Unset] ELSE claimed
      /\ UNCHANGED <<started, present, roster, adding, discovered, target>>
  BY Zenon DEF TellMissing
<1>2. /\ sweep.entries \in Seq(Entry) /\ sweep.at \in Nat /\ sweep.at > 0 /\ e \in Entry /\ e \in Entries
      /\ discovered \subseteq Body /\ Entries \subseteq Entry /\ Swept \subseteq Entries
      /\ claimed \in [Body -> Entry \cup {Unset}] /\ target \in [Entry -> Body \cup {Unset}] /\ visible \in [Entry -> BOOLEAN]
      /\ Unset \notin Entry /\ Unset \notin Body
  BY <1>1, DiscoveryAssumption DEF DiscoveryInv, DiscoveryTypeOK, Entries, Range, Swept
<1>3. /\ sweep' \in SweepType /\ sweep'.entries = sweep.entries /\ sweep'.gone = sweep.gone
      /\ \/ sweep'.pass = Missing /\ sweep'.at = sweep.at + 1 /\ sweep'.at \in DOMAIN sweep.entries
            /\ sweep.at < Len(sweep.entries)
         \/ sweep'.pass = 0 /\ sweep'.at = 1 /\ sweep.at = Len(sweep.entries)
  <2>1. sweep.pass \in 1..Missing  BY <1>1 DEF Missing
  <2> QED BY <1>1, <2>1, StepGoesOn DEF DiscoveryInv
<1> HIDE DEF e
<1>4. visible' \in [Entry -> BOOLEAN]
  <2> DEFINE v == visible[e] /\ (Assigned(e) \/ e \in sweep.gone)
  <2>1. v \in BOOLEAN  OBVIOUS
  <2>2. visible' = [visible EXCEPT ![e] = v]  BY <1>1, Zenon
  <2> HIDE DEF v
  <2> QED BY <1>2, <2>1, <2>2
<1>5. /\ \A f \in Entry : visible'[f] => visible[f]
      /\ \A f \in Entry : visible[f] /\ (f # e \/ Assigned(f) \/ f \in sweep.gone) => visible'[f]
      /\ visible'[e] => Assigned(e) \/ e \in sweep.gone
  <2>1. visible'[e] <=> visible[e] /\ (Assigned(e) \/ e \in sweep.gone)  BY <1>1, <1>2, Zenon
  <2>2. \A f \in Entry : f # e => visible'[f] = visible[f]  BY <1>1, <1>2
  <2> QED BY <1>2, <2>1, <2>2, Zenon
<1>6. DiscoveryTypeOK'
  <2>1. claimed' \in [Body -> Entry \cup {Unset}]  BY <1>1, <1>2
  <2> QED BY <1>1, <1>3, <1>4, <2>1, Zenon DEF DiscoveryInv, DiscoveryTypeOK, SweepType
<1>7. Entries' = Entries /\ Swept' = Swept /\ (\A f, d : Unpinned(f, d)' <=> Unpinned(f, d))
  BY <1>3, Zenon DEF Entries, Swept, Unpinned
<1>8. \A b \in Body : claimed[b] # Unset =>
        /\ b \in discovered /\ claimed[b] \in Entries
        /\ Pinned(claimed[b], b) \/ Unpinned(claimed[b], b)
        /\ claimed[b] \notin sweep.gone => visible[claimed[b]] /\ target[claimed[b]] = b
  BY Zenon DEF DiscoveryInv, ClaimsHold
<1>9. \A i \in DOMAIN sweep.entries : i <= sweep.at /\ sweep.entries[i] \notin sweep.gone /\ visible'[sweep.entries[i]] =>
        Assigned(sweep.entries[i]) \/ Pinned(sweep.entries[i], target[sweep.entries[i]])
  <2> TAKE i \in DOMAIN sweep.entries
  <2>1. sweep.entries[i] \in Entry /\ i \in Nat  BY <1>2
  <2>2. CASE i = sweep.at  BY <1>5, <2>2, Zenon DEF e
  <2>3. CASE i < sweep.at
    BY <1>1, <1>5, <2>1, <2>3, Zenon DEF DiscoveryInv, ToldMissing
  <2> QED BY <1>2, <2>1, <2>2, <2>3
<1>10. CASE sweep.at < Len(sweep.entries)
  <2>1. /\ sweep'.pass = Missing /\ sweep'.at = sweep.at + 1 /\ sweep'.at \in DOMAIN sweep.entries /\ claimed' = claimed
    BY <1>1, <1>2, <1>3, <1>10
  <2>2. SweepShape' /\ Settled'
    BY <1>2, <1>3, <2>1 DEF SweepShape, Matching, Settled, Between, Missing
  <2>3. ClaimsHold'
    <3> SUFFICES ASSUME NEW b \in Body, claimed[b] # Unset
                 PROVE  /\ b \in discovered /\ claimed[b] \in Entries
                        /\ Pinned(claimed[b], b) \/ Unpinned(claimed[b], b)
                        /\ claimed[b] \notin sweep.gone => visible'[claimed[b]] /\ target[claimed[b]] = b
      BY <1>1, <1>3, <1>7, <2>1, Zenon DEF ClaimsHold
    <3>1. claimed[b] \in Entry /\ Assigned(claimed[b])  BY <1>2, <1>8, Zenon DEF Assigned
    <3> QED BY <1>5, <1>8, <3>1, Zenon
  <2>4. OneBody'  BY <2>1, Zenon DEF DiscoveryInv, OneBody
  <2>5. PinsDone'
    <3> SUFFICES ASSUME NEW k \in {1, 2}, NEW i \in DOMAIN sweep.entries, NEW d \in discovered,
                        Uses(sweep.entries[i], Passes[k]), Fits(sweep.entries[i], Passes[k], d)
                 PROVE  claimed[d] # Unset /\ Pinned(claimed[d], d)
      BY <1>1, <1>3, <2>1, Zenon DEF PinsDone
    <3>1. Had(k, i) /\ Matching  BY <1>1, <1>2 DEF Had, Matching, Missing
    <3> QED BY <3>1, Zenon DEF DiscoveryInv, PinsDone
  <2>6. ToldMissing'
    <3> SUFFICES ASSUME NEW i \in DOMAIN sweep.entries, i < sweep.at + 1, sweep.entries[i] \notin sweep.gone,
                        visible'[sweep.entries[i]]
                 PROVE  Assigned(sweep.entries[i]) \/ Pinned(sweep.entries[i], target[sweep.entries[i]])
      BY <1>1, <1>3, <2>1, Zenon DEF ToldMissing, Assigned
    <3>1. i <= sweep.at  BY <1>2
    <3> QED BY <1>9, <3>1, Zenon
  <2> QED BY <1>6, <2>2, <2>3, <2>4, <2>5, <2>6 DEF DiscoveryInv
<1>11. CASE sweep.at = Len(sweep.entries)
  <2>1. sweep'.pass = 0 /\ sweep'.at = 1 /\ \A b \in Body : claimed'[b] = Unset
    BY <1>1, <1>2, <1>3, <1>11
  <2>2. SweepShape' /\ ClaimsHold' /\ OneBody' /\ PinsDone' /\ ToldMissing'
    BY <2>1 DEF SweepShape, Matching, ClaimsHold, OneBody, PinsDone, ToldMissing, Missing
  <2>3. \A f \in Swept : f \in Entry /\ f \in Entries /\ f \notin sweep.gone
                        /\ \E i \in DOMAIN sweep.entries : f = sweep.entries[i] /\ i <= sweep.at
    BY <1>2, <1>11 DEF Swept, Entries, Range
  <2>4. ASSUME NEW f \in Swept, visible'[f]
        PROVE  \/ Pinned(f, target[f])
               \/ \E b \in Body : claimed[b] = f /\ target[f] = b /\ (Pinned(f, b) \/ Unpinned(f, b))
    <3>1. Assigned(f) \/ Pinned(f, target[f])  BY <1>9, <2>3, <2>4, Zenon
    <3>2. CASE Assigned(f)
      <4>1. PICK b \in Body : claimed[b] = f  BY <3>2, Zenon DEF Assigned
      <4>2. claimed[b] # Unset  BY <1>2, <2>3, <4>1
      <4> QED BY <1>8, <2>3, <4>1, <4>2, Zenon
    <3> QED BY <3>1, <3>2
  <2>5. ASSUME NEW f \in Swept, visible'[f]
        PROVE  Pinned(f, target[f]) \/ Unpinned(f, target[f])
    BY <2>4, <2>5, Zenon
  <2>6. ASSUME NEW f \in Swept, NEW g \in Swept, f # g, visible'[f], visible'[g], target[f] = target[g]
        PROVE  Pinned(f, target[f])
    <3>1. CASE Pinned(g, target[g])
      <4>1. ~Unpinned(f, target[f])  BY <2>3, <2>6, <3>1, Zenon DEF Unpinned
      <4> QED BY <2>5, <2>6, <4>1, Zenon
    <3>2. CASE ~Pinned(g, target[g]) /\ ~Pinned(f, target[f])
      <4>1. PICK b \in Body : claimed[b] = f /\ target[f] = b  BY <2>4, <2>6, <3>2, Zenon
      <4>2. PICK d \in Body : claimed[d] = g /\ target[g] = d  BY <2>4, <2>6, <3>2, Zenon
      <4> QED BY <2>6, <4>1, <4>2
    <3> QED BY <3>1, <3>2
  <2>7. ASSUME NEW f \in Swept, NEW b \in discovered, Pinned(f, b)
        PROVE  (visible'[f] /\ target[f] = b) \/ \E g \in Entries \ {f} : Pinned(g, b)
    <3>1. b \in Body  BY <1>2
    <3>2. PICK i \in DOMAIN sweep.entries : f = sweep.entries[i]  BY <2>3, Zenon
    <3>3. PICK k \in {1, 2} : Uses(f, Passes[k]) /\ Fits(f, Passes[k], b)  BY <2>3, <2>7, <3>1, PassesPin, Zenon
    <3>4. Had(k, i) /\ Matching  BY <1>1, <1>2 DEF Had, Matching, Missing
    <3>5. claimed[b] # Unset /\ Pinned(claimed[b], b)
      BY <3>2, <3>3, <3>4, Zenon DEF DiscoveryInv, PinsDone
    <3>6. claimed[b] \in Entries  BY <1>8, <3>1, <3>5, Zenon
    <3>7. CASE claimed[b] # f  BY <3>5, <3>6, <3>7, Zenon
    <3>8. CASE claimed[b] = f
      <4>1. visible[f] /\ target[f] = b  BY <1>8, <2>3, <3>1, <3>5, <3>8, Zenon
      <4>2. Assigned(f)  BY <3>1, <3>8, Zenon DEF Assigned
      <4> QED BY <1>5, <2>3, <4>1, <4>2, Zenon
    <3> QED BY <3>7, <3>8
  <2>8. Settled'
    <3>1. target' = target /\ discovered' = discovered  BY <1>1
    <3> QED BY <1>7, <2>5, <2>6, <2>7, <3>1, Zenon DEF Settled
  <2> QED BY <1>6, <2>2, <2>8 DEF DiscoveryInv
<1> QED BY <1>3, <1>10, <1>11

LEMMA DiscoveryNextInv == ASSUME DiscoveryInv, [DiscoveryNext]_discoveryVars PROVE DiscoveryInv'
<1>1. started \in BOOLEAN /\ present \subseteq Body  BY DEF DiscoveryInv, DiscoveryTypeOK
<1>2. CASE \E b \in Body : Appears(b) \/ Vanishes(b)
  BY <1>1, <1>2, BodiesInv DEF Appears, Vanishes
<1>3. CASE \E e \in Entry : AddCamera(e) \/ RemoveCamera(e)
  BY <1>3, AddCameraInv, RemoveCameraInv, Zenon
<1>4. CASE Added        BY <1>4, AddedInv
<1>5. CASE Begin        BY <1>1, <1>5, BodiesInv DEF Begin
<1>6. CASE Discover     BY <1>6, DiscoverInv
<1>7. CASE Snapshot     BY <1>7, SnapshotInv
<1>8. CASE Match        BY <1>8, MatchInv
<1>9. CASE TellMissing  BY <1>9, TellMissingInv
<1>10. CASE NothingToDo BY <1>10, NothingToDoInv
<1>11. CASE UNCHANGED discoveryVars
  BY <1>1, <1>11, BodiesInv, Zenon DEF discoveryVars
<1> QED BY <1>2, <1>3, <1>4, <1>5, <1>6, <1>7, <1>8, <1>9, <1>10, <1>11, Zenon DEF DiscoveryNext

(* The sweep of the discovery loop and the entries added and removed beside *)
(* it keep the invariant.                                                   *)
THEOREM DiscoveryInductive == DiscoverySpec => []DiscoveryInv
BY DiscoveryInitInv, DiscoveryNextInv, PTL DEF DiscoverySpec

(* When a sweep of the discovery loop is over, the strongest claim to a     *)
(* body has it, for any bodies, entries and order of them.                  *)
THEOREM StrongestWins == DiscoverySpec => []StrongestMatchWins
<1>1. DiscoveryInv => StrongestMatchWins
  <2> SUFFICES ASSUME DiscoveryInv, Between PROVE StrongestMatchWins
    BY Zenon DEF StrongestMatchWins
  <2>1. Swept \subseteq Entries  BY DEF Swept, Entries
  <2>2. \A e, f \in Swept : e # f /\ visible[e] /\ visible[f] /\ target[e] = target[f] =>
          Pinned(e, target[e]) /\ Pinned(f, target[e])
    <3> SUFFICES ASSUME NEW e \in Swept, NEW f \in Swept, e # f, visible[e], visible[f], target[e] = target[f]
                 PROVE  Pinned(e, target[e]) /\ Pinned(f, target[e])
      OBVIOUS
    <3>1. Pinned(e, target[e])  BY Zenon DEF DiscoveryInv, Settled
    <3>2. Pinned(f, target[f])  BY Zenon DEF DiscoveryInv, Settled
    <3> QED BY <3>1, <3>2, Zenon
  <2>3. \A e \in Swept, b \in discovered : Pinned(e, b) => (visible[e] /\ target[e] = b) \/ Rival(e, b)
    <3> SUFFICES ASSUME NEW e \in Swept, NEW b \in discovered, Pinned(e, b), ~(visible[e] /\ target[e] = b)
                 PROVE  Rival(e, b)
      OBVIOUS
    <3>1. PICK f \in Entries \ {e} : Pinned(f, b)  BY Zenon DEF DiscoveryInv, Settled
    <3> QED BY <3>1, Zenon DEF Rival, Entries
  <2>4. \A e \in Swept : visible[e] =>
          \/ Pinned(e, target[e])
          \/ ~Says(e, "dev") /\ ~Says(e, "mac") /\ \A f \in Swept : ~Pinned(f, target[e])
    <3> SUFFICES ASSUME NEW e \in Swept, visible[e], ~Pinned(e, target[e])
                 PROVE  ~Says(e, "dev") /\ ~Says(e, "mac") /\ \A f \in Swept : ~Pinned(f, target[e])
      OBVIOUS
    <3>1. Unpinned(e, target[e])  BY Zenon DEF DiscoveryInv, Settled
    <3> QED BY <2>1, <3>1, Zenon DEF Unpinned
  <2> QED BY <2>2, <2>3, <2>4, Zenon DEF StrongestMatchWins
<1> QED BY <1>1, DiscoveryInductive, PTL

-----------------------------------------------------------------------------
(* The worker and the key it pins. *)

(* The pin an attempt to connect is judged by (read under pinMu_ before    *)
(* open() blocks) is still the pin when it ends: repin() replaces one only *)
(* while the worker is parked.                                             *)
PinHolds == stage = "opening" => usedPin = pinned

(* There is a session while the worker is connected or about to say so,    *)
(* and an attempt to connect is made in no other state than connecting.    *)
SessionFits ==
  /\ session # NoSession <=> state = "connected" \/ stage = "opened"
  /\ stage \in {"opening", "opened"} => state = "connecting"

WorkerInv == WorkerTypeOK /\ SessionFits /\ PinHolds /\ SessionIsPinned

-----------------------------------------------------------------------------
LEMMA WorkerInitInv == WorkerInit => WorkerInv
BY WorkerAssumption DEF WorkerInit, WorkerInv, WorkerTypeOK, SessionFits, PinHolds, SessionIsPinned, States,
   Camera

(* The parts of the type invariant, each kept by every step. *)
StateType ==
  /\ stage \in {"step", "opening", "opened", "wait"}
  /\ state \in States
  /\ camera \in Camera

PinType ==
  /\ session \in Key \cup {NoKey, NoSession}
  /\ usedPin \in Key \cup {NoKey} /\ pinned \in Key \cup {NoKey} /\ observed \in Key \cup {NoKey}

FlagType ==
  /\ reconnectRequested \in BOOLEAN /\ sdkDisconnected \in BOOLEAN
  /\ propertyDirty \in BOOLEAN /\ reappeared \in BOOLEAN
  /\ haveTarget \in BOOLEAN /\ targetVisible \in BOOLEAN
  /\ backoffOver \in BOOLEAN /\ silent \in BOOLEAN
  /\ repinning \in BOOLEAN /\ alive \in BOOLEAN

LEMMA TypeParts == WorkerTypeOK <=> StateType /\ PinType /\ FlagType
BY DEF WorkerTypeOK, StateType, PinType, FlagType

LEMMA StateTypeKept ==
  ASSUME StateType, WorkerNext
  PROVE  StateType'
<1> USE DEF StateType, States
<1>1. CASE StepOffline \/ BeginConnect \/ BecomeConnected \/ EndWait
  BY <1>1 DEF StepOffline, BeginConnect, BecomeConnected, EndWait, world
<1>2. CASE Open
  BY <1>2 DEF Open, OpenFails, IdentityRefused, Opens, world
<1>3. CASE HonourReconnect \/ HonourDisconnect \/ Heartbeat
  BY <1>3 DEF HonourReconnect, HonourDisconnect, Heartbeat, BackOff
<1>4. CASE StepReconnecting \/ StepIdentityChanged \/ StepUnauthorized
  BY <1>4 DEF StepReconnecting, StepIdentityChanged, StepUnauthorized, world
<1>5. CASE Others
  BY <1>5 DEF Others, OfferDiscovery, OfferMissing, RequestReconnect, Repin, RepinReconnects,
     OnPropertyChanged, OnDisconnected, CameraChanges, world
<1>6. CASE Clock
  BY <1>6 DEF Clock, BackoffEnds, HeartbeatAges, world
<1>7. QED
  BY <1>1, <1>2, <1>3, <1>4, <1>5, <1>6 DEF WorkerNext, WorkerStep

LEMMA PinTypeKept ==
  ASSUME StateType, PinType, WorkerNext
  PROVE  PinType'
<1> USE DEF PinType, pin
<1>1. CASE StepOffline \/ BeginConnect \/ BecomeConnected \/ EndWait
  BY <1>1 DEF StepOffline, BeginConnect, BecomeConnected, EndWait
<1>2. CASE Open
  BY <1>2 DEF Open, OpenFails, IdentityRefused, Opens, StateType, Camera
<1>3. CASE HonourReconnect \/ HonourDisconnect \/ Heartbeat
  BY <1>3 DEF HonourReconnect, HonourDisconnect, Heartbeat, Teardown
<1>4. CASE StepReconnecting \/ StepIdentityChanged \/ StepUnauthorized
  BY <1>4 DEF StepReconnecting, StepIdentityChanged, StepUnauthorized
<1>5. CASE Others
  BY <1>5 DEF Others, OfferDiscovery, OfferMissing, RequestReconnect, Repin, RepinReconnects,
     OnPropertyChanged, OnDisconnected, CameraChanges
<1>6. CASE Clock
  BY <1>6 DEF Clock, BackoffEnds, HeartbeatAges
<1>7. QED
  BY <1>1, <1>2, <1>3, <1>4, <1>5, <1>6 DEF WorkerNext, WorkerStep

LEMMA FlagTypeKept ==
  ASSUME FlagType, WorkerNext
  PROVE  FlagType'
<1> USE DEF FlagType, flags, sight, clocks, world
<1>1. CASE StepOffline \/ BeginConnect \/ BecomeConnected \/ EndWait
  <2>1. CASE StepOffline
    BY <2>1, ZenonT(40) DEF StepOffline
  <2>2. CASE BeginConnect
    BY <2>2, ZenonT(40) DEF BeginConnect
  <2>3. CASE BecomeConnected
    BY <2>3, ZenonT(40) DEF BecomeConnected
  <2>4. CASE EndWait
    BY <2>4, ZenonT(40) DEF EndWait
  <2> QED
    BY <1>1, <2>1, <2>2, <2>3, <2>4
<1>2. CASE Open
  <2>1. CASE OpenFails
    BY <2>1, ZenonT(40) DEF OpenFails
  <2>2. CASE IdentityRefused
    BY <2>2, ZenonT(40) DEF IdentityRefused
  <2>3. CASE Opens
    BY <2>3, ZenonT(40) DEF Opens
  <2> QED
    BY <1>2, <2>1, <2>2, <2>3 DEF Open
<1>3. CASE HonourReconnect \/ HonourDisconnect
  BY <1>3 DEF HonourReconnect, HonourDisconnect, BackOff, Teardown
<1>4. CASE Heartbeat
  BY <1>4 DEF Heartbeat, BackOff, Teardown
<1>5. CASE StepReconnecting \/ StepIdentityChanged \/ StepUnauthorized
  <2>1. CASE StepReconnecting
    BY <2>1, ZenonT(40) DEF StepReconnecting
  <2>2. CASE StepIdentityChanged
    BY <2>2, ZenonT(40) DEF StepIdentityChanged
  <2>3. CASE StepUnauthorized
    BY <2>3, ZenonT(40) DEF StepUnauthorized
  <2> QED
    BY <1>5, <2>1, <2>2, <2>3
<1>6. CASE OfferDiscovery \/ OfferMissing \/ RequestReconnect \/ Repin \/ RepinReconnects
  <2>1. CASE OfferDiscovery
    BY <2>1, ZenonT(40) DEF OfferDiscovery
  <2>2. CASE OfferMissing
    BY <2>2, ZenonT(40) DEF OfferMissing
  <2>3. CASE RequestReconnect
    BY <2>3, ZenonT(40) DEF RequestReconnect
  <2>4. CASE Repin
    BY <2>4, ZenonT(40) DEF Repin
  <2>5. CASE RepinReconnects
    BY <2>5, ZenonT(40) DEF RepinReconnects
  <2> QED
    BY <1>6, <2>1, <2>2, <2>3, <2>4, <2>5
<1>7. CASE OnPropertyChanged \/ OnDisconnected \/ CameraChanges \/ Clock
  <2>1. CASE OnPropertyChanged
    BY <2>1, ZenonT(40) DEF OnPropertyChanged
  <2>2. CASE OnDisconnected
    BY <2>2, ZenonT(40) DEF OnDisconnected
  <2>3. CASE CameraChanges
    BY <2>3, ZenonT(40) DEF CameraChanges
  <2>4. CASE Clock
    BY <2>4, ZenonT(40) DEF Clock, BackoffEnds, HeartbeatAges
  <2> QED
    BY <1>7, <2>1, <2>2, <2>3, <2>4
<1>8. QED
  BY <1>1, <1>2, <1>3, <1>4, <1>5, <1>6, <1>7 DEF WorkerNext, WorkerStep, Others

LEMMA NextType == WorkerTypeOK /\ [WorkerNext]_workerVars => WorkerTypeOK'
<1> SUFFICES ASSUME WorkerTypeOK, [WorkerNext]_workerVars PROVE WorkerTypeOK'
  OBVIOUS
<1>1. StateType /\ PinType /\ FlagType
  BY TypeParts
<1>2. CASE UNCHANGED workerVars
  BY <1>2 DEF workerVars, WorkerTypeOK, flags, pin, sight, clocks, world
<1>3. ASSUME WorkerNext PROVE WorkerTypeOK'
  <2>1. StateType' /\ PinType' /\ FlagType'
    BY <1>1, <1>3, StateTypeKept, PinTypeKept, FlagTypeKept
  <2>2. QED
    BY <2>1 DEF WorkerTypeOK, StateType, PinType, FlagType
<1>4. QED
  BY <1>2, <1>3

(* The pin is read, the camera judged by it, and the first key ever seen   *)
(* pinned.                                                                 *)
LEMMA ConnectInv ==
  ASSUME WorkerInv, WorkerTypeOK', BeginConnect \/ Open \/ BecomeConnected
  PROVE  WorkerInv'
<1> USE WorkerAssumption DEF SessionFits, PinHolds, SessionIsPinned, WorkerInv
<1>1. CASE BeginConnect
  BY <1>1 DEF BeginConnect
<1>2. CASE OpenFails
  BY <1>2 DEF OpenFails
<1>3. CASE IdentityRefused
  BY <1>3 DEF IdentityRefused
<1>4. CASE Opens
  <2>1. session' = pinned' /\ session' # NoSession
    BY <1>4 DEF Opens, Matches, WorkerTypeOK, Camera
  <2>2. QED
    BY <1>4, <2>1 DEF Opens
<1>5. CASE BecomeConnected
  BY <1>5 DEF BecomeConnected, pin
<1>6. QED
  BY <1>1, <1>2, <1>3, <1>4, <1>5 DEF Open

(* The other steps of the worker thread end a session, or keep it with the *)
(* pin it had.                                                             *)
LEMMA StepInv ==
  ASSUME WorkerInv, WorkerTypeOK',
         \/ StepOffline \/ HonourReconnect \/ HonourDisconnect \/ Heartbeat
         \/ StepReconnecting \/ StepIdentityChanged \/ StepUnauthorized \/ EndWait
  PROVE  WorkerInv'
<1> USE DEF SessionFits, PinHolds, SessionIsPinned, WorkerInv, pin
<1>1. CASE StepOffline
  BY <1>1 DEF StepOffline
<1>2. CASE HonourReconnect
  BY <1>2 DEF HonourReconnect, Teardown
<1>3. CASE HonourDisconnect
  BY <1>3 DEF HonourDisconnect, Teardown, BackOff
<1>4. CASE Heartbeat
  BY <1>4 DEF Heartbeat, Teardown, BackOff
<1>5. CASE StepReconnecting
  BY <1>5 DEF StepReconnecting
<1>6. CASE StepIdentityChanged \/ StepUnauthorized
  BY <1>6 DEF StepIdentityChanged, StepUnauthorized
<1>7. CASE EndWait
  BY <1>7 DEF EndWait
<1>8. QED
  BY <1>1, <1>2, <1>3, <1>4, <1>5, <1>6, <1>7

(* Of the other threads only repin() touches the pin, and there is no      *)
(* session then that could be left with another camera.                    *)
LEMMA OthersInv ==
  ASSUME WorkerInv, WorkerTypeOK', Others \/ Clock
  PROVE  WorkerInv'
<1> USE DEF SessionFits, PinHolds, SessionIsPinned, WorkerInv, pin
<1>1. CASE OfferDiscovery \/ OfferMissing
  BY <1>1 DEF OfferDiscovery, OfferMissing
<1>2. CASE RequestReconnect \/ RepinReconnects
  BY <1>2 DEF RequestReconnect, RepinReconnects
<1>3. CASE Repin
  <2>1. session = NoSession /\ session' = NoSession /\ stage' = stage /\ state' = state
        /\ stage \notin {"opening", "opened"}
    BY <1>3 DEF Repin
  <2>2. QED
    BY <2>1
<1>4. CASE OnPropertyChanged \/ OnDisconnected \/ CameraChanges
  BY <1>4 DEF OnPropertyChanged, OnDisconnected, CameraChanges
<1>5. CASE BackoffEnds \/ HeartbeatAges
  BY <1>5 DEF BackoffEnds, HeartbeatAges
<1>6. QED
  BY <1>1, <1>2, <1>3, <1>4, <1>5 DEF Others, Clock

LEMMA NextInv == WorkerInv /\ [WorkerNext]_workerVars => WorkerInv'
<1> SUFFICES ASSUME WorkerInv, [WorkerNext]_workerVars PROVE WorkerInv'
  OBVIOUS
<1>1. CASE UNCHANGED workerVars
  BY <1>1, NextType DEF WorkerInv, SessionFits, PinHolds, SessionIsPinned, workerVars, pin
<1>2. ASSUME WorkerNext PROVE WorkerInv'
  <2>1. WorkerTypeOK'
    BY <1>2, NextType DEF WorkerInv
  <2>2. QED
    BY <1>2, <2>1, ConnectInv, StepInv, OthersInv DEF WorkerNext, WorkerStep
<1>3. QED
  BY <1>1, <1>2

LEMMA SpecInv == WorkerSpec => []WorkerInv
BY WorkerInitInv, NextInv, PTL DEF WorkerSpec

(* The worker's fields keep their types.                                   *)
THEOREM WorkerTyped == WorkerSpec => []WorkerTypeOK
BY SpecInv, PTL DEF WorkerInv

(* A session is only ever held with the camera whose key is pinned, or     *)
(* with one that has no key while nothing is pinned.                       *)
THEOREM SessionPinned == WorkerSpec => []SessionIsPinned
BY SpecInv, PTL DEF WorkerInv

(* The pin changes only when the first key is recorded or when a worker    *)
(* parked for a changed identity is told to accept it, and never under a   *)
(* session.                                                                *)
THEOREM PinIsKept ==
  WorkerSpec => [][pinned' # pinned =>
               /\ session = NoSession
               /\ pinned = NoKey \/ state = "identityChanged"]_workerVars
<1>1. WorkerInv /\ [WorkerNext]_workerVars =>
        [pinned' # pinned => /\ session = NoSession
                             /\ pinned = NoKey \/ state = "identityChanged"]_workerVars
  <2> SUFFICES ASSUME WorkerInv, WorkerNext, pinned' # pinned
               PROVE  session = NoSession /\ (pinned = NoKey \/ state = "identityChanged")
    BY DEF workerVars, pin
  <2>1. CASE Opens
    BY <2>1 DEF Opens, WorkerInv, SessionFits
  <2>2. CASE Repin
    BY <2>2 DEF Repin, WorkerInv, SessionFits
  <2>3. Opens \/ Repin
    BY DEF WorkerNext, WorkerStep, Open, Others, Clock, StepOffline, BeginConnect, OpenFails, IdentityRefused,
       BecomeConnected, HonourReconnect, HonourDisconnect, Heartbeat, StepReconnecting,
       StepIdentityChanged, StepUnauthorized, EndWait, OfferDiscovery, OfferMissing,
       RequestReconnect, RepinReconnects, OnPropertyChanged, OnDisconnected, CameraChanges,
       BackoffEnds, HeartbeatAges, pin
  <2>4. QED
    BY <2>1, <2>2, <2>3
<1>2. QED
  BY <1>1, SpecInv, PTL DEF WorkerSpec
=============================================================================
