---------------------------- MODULE PtzHeadProofs ----------------------------
(***************************************************************************)
(* Proofs about a PTZ head.  First PtzMotion and PtzCamera, which          *)
(* surrounds it, for any groups, speeds, clients, stop loops and bounds.   *)
(* The controller alone: type correctness, and that a moving group is      *)
(* always answered for (MotionIsOwned), with the invariant it rests on.    *)
(* Then the camera: there is exactly one way to the next connection, a     *)
(* camera that was stopped does nothing more, and a moving head is         *)
(* answered for across drops, reconnects and re-addressing.                *)
(*                                                                         *)
(* The camera's argument splits on whether it is connected.  While it is,  *)
(* PtzMotion's own invariant holds and no earlier drop is owed a stop, so  *)
(* the motion steps need no second proof (NextInv).  While it is not, the  *)
(* controller is blank (Blank), and whatever still moves is remembered.    *)
(*                                                                         *)
(* Then PtzQueue, for any jobs, keys, gap and guard: one motion job runs   *)
(* at a time, and a motion job waits no longer than the gap and the motion *)
(* jobs asked for before it take.  The second is a bound on elapsed time,  *)
(* so the invariant counts: what a job has waited so far, and what may     *)
(* still be ahead of it, never exceed the bound together.                  *)
(***************************************************************************)
EXTENDS PtzCamera, PtzQueue, FiniteSetTheorems, WellFoundedInduction, TLAPS

(* The stop-all job never carries a speed. *)
AllOnlyStops ==
  /\ waiting[All] # None => waiting[All].v = Zero
  /\ (running # None /\ running.key = All) => running.v = Zero

(* While a stop for a group is outstanding no zero vector is on record. *)
OutstandingUnrecorded == \A g \in Group : Outstanding(g) => sent[g] # Zero

(* A queued move belongs to a hold. *)
WaitingIsHeld == \A g \in Group : MoveWaiting(g) => IsHeld(g) \/ g \in excused

(* MotionIsOwned, looking one command ahead. *)
MotionStaysOwned ==
  \A g \in Group : (head[g] # Zero \/ MoveRunning(g)) => Owned(g) \/ g \in excused

MotionInv ==
  /\ TypeOK
  /\ AllOnlyStops
  /\ OutstandingUnrecorded
  /\ WaitingIsHeld
  /\ MotionStaysOwned
  /\ SwallowedStopIsDone

-----------------------------------------------------------------------------
(* A record of jobs for the keys K, queued under those keys. *)
LEMMA EnqueueType ==
  ASSUME NEW K \in SUBSET Key, NEW job, \A k \in K : job[k] \in Job,
         waiting \in [Key -> Job \cup {None}], Enqueue(K, job)
  PROVE  /\ waiting' \in [Key -> Job \cup {None}]
         /\ \A k \in Key : waiting'[k] = IF k \in K THEN job[k] ELSE waiting[k]
BY DEF Enqueue

(* What beginning a stop for the keys K does. *)
LEMMA BeginStopsEffect ==
  ASSUME NEW K \in SUBSET Key, TypeOK, BeginStops(K)
  PROVE  /\ unconfirmed' \in [Key -> Token \cup {None}]
         /\ loop' \in [Token -> Key \cup {None}]
         /\ waiting' \in [Key -> Job \cup {None}]
         /\ \A k \in K : unconfirmed'[k] # None /\ waiting'[k] # None /\ waiting'[k].v = Zero
         /\ \A k \in Key \ K : unconfirmed'[k] = unconfirmed[k] /\ waiting'[k] = waiting[k]
<1>1. PICK tok \in [K -> {t \in Token : Idle(t)}] :
        /\ unconfirmed' = [k \in Key |-> IF k \in K THEN tok[k] ELSE unconfirmed[k]]
        /\ loop' = [t \in Token |-> IF \E k \in K : tok[k] = t
                                    THEN CHOOSE k \in K : tok[k] = t ELSE loop[t]]
        /\ Enqueue(K, [k \in K |-> [v |-> Zero, by |-> tok[k]]])
  BY DEF BeginStops
<1>2. \A k \in K : tok[k] \in Token
  BY <1>1
<1>3. DEFINE job == [k \in K |-> [v |-> Zero, by |-> tok[k]]]
<1>4. \A k \in K : job[k] \in Job /\ job[k].v = Zero /\ job[k] # None
  BY <1>2, MotionAssumption DEF Job, Vector
<1>5. /\ waiting' \in [Key -> Job \cup {None}]
      /\ \A k \in Key : waiting'[k] = IF k \in K THEN job[k] ELSE waiting[k]
  <2>1. waiting \in [Key -> Job \cup {None}]
    BY DEF TypeOK
  <2>2. Enqueue(K, job)
    BY <1>1
  <2>3. QED
    BY <1>4, <2>1, <2>2, EnqueueType
<1>6. unconfirmed' \in [Key -> Token \cup {None}]
  BY <1>1, <1>2 DEF TypeOK
<1>7. loop' \in [Token -> Key \cup {None}]
  BY <1>1 DEF TypeOK
<1>8. \A k \in K : unconfirmed'[k] # None
  BY <1>1, <1>2, MotionAssumption
<1>9. \A k \in Key \ K : unconfirmed'[k] = unconfirmed[k]
  BY <1>1
<1>10. QED
  BY <1>4, <1>5, <1>6, <1>7, <1>8, <1>9

-----------------------------------------------------------------------------
(* Letting groups go keeps the invariant: each was stopped, or its stop    *)
(* was swallowed because the head had obeyed one.                          *)
LEMMA LetGoInv ==
  ASSUME NEW G \in SUBSET Group, MotionInv, LetGo(G), armed' \in BOOLEAN
  PROVE  MotionInv'
<1> DEFINE T == {g \in G : ~Suppressed(g, Zero)}
<1> USE MotionAssumption
<1>1. /\ held' = [g \in Group |-> IF g \in G THEN None ELSE held[g]]
      /\ sent' = [g \in Group |-> IF g \in T THEN None ELSE sent[g]]
      /\ BeginStops(T)
      /\ UNCHANGED <<running, head, excused>>
  BY DEF LetGo
<1>2. T \in SUBSET Key /\ T \subseteq Group /\ All \notin T
  BY DEF Key
<1> HIDE DEF T
<1>3. TypeOK
  BY DEF MotionInv
<1>4. /\ unconfirmed' \in [Key -> Token \cup {None}]
      /\ loop' \in [Token -> Key \cup {None}]
      /\ waiting' \in [Key -> Job \cup {None}]
      /\ \A k \in T : unconfirmed'[k] # None /\ waiting'[k] # None /\ waiting'[k].v = Zero
      /\ \A k \in Key \ T : unconfirmed'[k] = unconfirmed[k] /\ waiting'[k] = waiting[k]
  BY <1>1, <1>2, <1>3, BeginStopsEffect
<1>5. TypeOK'
  BY <1>1, <1>3, <1>4 DEF TypeOK
<1>6. AllOnlyStops'
  BY <1>1, <1>2, <1>4 DEF AllOnlyStops, MotionInv, Key
<1>7. OutstandingUnrecorded'
  BY <1>1, <1>2, <1>4 DEF OutstandingUnrecorded, MotionInv, Outstanding, Key, TypeOK, Vector
<1>8. WaitingIsHeld'
  <2> SUFFICES ASSUME NEW g \in Group, MoveWaiting(g)'
               PROVE  (IsHeld(g) \/ g \in excused)'
    BY DEF WaitingIsHeld
  <2>1. g \notin T /\ MoveWaiting(g)
    BY <1>2, <1>4 DEF MoveWaiting, Key
  <2>2. CASE g \in G
    BY <1>1, <2>1, <2>2 DEF T, MotionInv, SwallowedStopIsDone, MoveInLane
  <2>3. CASE g \notin G
    BY <1>1, <2>1, <2>3 DEF MotionInv, WaitingIsHeld, IsHeld
  <2>4. QED
    BY <2>2, <2>3
<1>9. MotionStaysOwned'
  <2> SUFFICES ASSUME NEW g \in Group, (head[g] # Zero \/ MoveRunning(g))'
               PROVE  (Owned(g) \/ g \in excused)'
    BY DEF MotionStaysOwned
  <2>1. head[g] # Zero \/ MoveRunning(g)
    BY <1>1 DEF MoveRunning
  <2>2. Owned(g) \/ g \in excused
    BY <2>1 DEF MotionInv, MotionStaysOwned
  <2>3. CASE g \in T
    BY <1>4, <2>3 DEF Owned, Outstanding
  <2>4. CASE g \in G \ T
    BY <1>1, <2>1, <2>4 DEF T, MotionInv, SwallowedStopIsDone, MoveInLane
  <2>5. CASE g \notin G
    <3>1. Outstanding(g)' = Outstanding(g) /\ Outstanding(All)' = Outstanding(All)
      BY <1>2, <1>4, <2>5 DEF Outstanding, Key, T
    <3>2. IsHeld(g)' = IsHeld(g)
      BY <1>1, <2>5 DEF IsHeld
    <3>3. QED
      BY <1>1, <2>2, <3>1, <3>2 DEF Owned
  <2>6. QED
    BY <2>3, <2>4, <2>5
<1>10. SwallowedStopIsDone'
  <2> SUFFICES ASSUME NEW g \in Group, Suppressed(g, Zero)'
               PROVE  ((head[g] = Zero /\ ~MoveInLane(g)) \/ g \in excused)'
    BY DEF SwallowedStopIsDone
  <2>1. g \notin T
    BY <1>1 DEF Suppressed, Vector
  <2>2. Suppressed(g, Zero)
    BY <1>1, <1>4, <2>1 DEF Suppressed, Outstanding, Key
  <2>3. waiting'[g] = waiting[g]
    BY <1>4, <2>1 DEF Key
  <2>4. QED
    BY <1>1, <2>2, <2>3 DEF MotionInv, SwallowedStopIsDone, MoveInLane, MoveWaiting, MoveRunning
<1>11. QED
  BY <1>5, <1>6, <1>7, <1>8, <1>9, <1>10 DEF MotionInv

-----------------------------------------------------------------------------
LEMMA DriveInv ==
  ASSUME NEW g \in Group, NEW v \in Speed, NEW c \in Client, MotionInv, Drive(g, v, c)
  PROVE  MotionInv'
<1> USE MotionAssumption
<1>1. TypeOK /\ v \in Vector /\ v # Zero /\ g \in Key /\ g # All
  BY DEF MotionInv, Vector, Key
<1>2. held' \in [Group -> Hold \cup {None}] /\ held'[g] # None
  <2> DEFINE entry == [v |-> v, by |-> c, fresh |-> TRUE]
  <2>1. entry \in Hold /\ entry # None
    <3>1. entry \in Hold
      BY DEF Hold
    <3>2. None \notin Hold
      BY DEF MotionAssumption
    <3>3. QED
      BY <3>1, <3>2, Zenon
  <2> HIDE DEF entry
  <2>2. held' = [held EXCEPT ![g] = entry]
    BY DEF Drive, entry
  <2>3. QED
    BY <1>1, <2>1, <2>2 DEF TypeOK
<1>3. armed' \in BOOLEAN
  BY <1>1 DEF Drive, TypeOK, NeedsDeadman
<1>4. \A h \in Group \ {g} : held'[h] = held[h]
  BY <1>1 DEF Drive, TypeOK
<1>5. CASE Suppressed(g, v)
  <2>1. UNCHANGED <<sent, waiting, order, excused, stops, running, head>>
    BY <1>5 DEF Drive
  <2>2. TypeOK'
    BY <1>1, <1>2, <1>3, <2>1 DEF TypeOK, stops
  <2>3. AllOnlyStops' /\ OutstandingUnrecorded' /\ SwallowedStopIsDone'
    BY <2>1 DEF MotionInv, AllOnlyStops, OutstandingUnrecorded, SwallowedStopIsDone,
                Suppressed, Outstanding, MoveInLane, MoveWaiting, MoveRunning, stops
  <2>4. WaitingIsHeld' /\ MotionStaysOwned'
    BY <1>2, <1>4, <2>1 DEF MotionInv, WaitingIsHeld, MotionStaysOwned, Owned, IsHeld,
                Outstanding, MoveWaiting, MoveRunning, stops
  <2>5. QED
    BY <2>2, <2>3, <2>4 DEF MotionInv
<1>6. CASE ~Suppressed(g, v)
  <2> DEFINE job == [k \in {g} |-> [v |-> v, by |-> None]]
  <2>1. /\ sent' = [sent EXCEPT ![g] = v]
        /\ Enqueue({g}, job)
        /\ excused' = excused \ {g}
        /\ UNCHANGED <<stops, running, head>>
    BY <1>6 DEF Drive
  <2>2. \A k \in {g} : job[k] \in Job
    BY <1>1 DEF Job
  <2> HIDE DEF job
  <2>3. /\ waiting' \in [Key -> Job \cup {None}]
        /\ \A k \in Key \ {g} : waiting'[k] = waiting[k]
    <3>1. {g} \in SUBSET Key /\ waiting \in [Key -> Job \cup {None}]
      BY <1>1 DEF TypeOK
    <3>2. QED
      BY <2>1, <2>2, <3>1, EnqueueType
  <2>4. TypeOK'
    BY <1>1, <1>2, <1>3, <2>1, <2>3 DEF TypeOK, stops
  <2>5. AllOnlyStops'
    BY <1>1, <2>1, <2>3 DEF MotionInv, AllOnlyStops, Key
  <2>6. OutstandingUnrecorded'
    BY <1>1, <2>1 DEF MotionInv, OutstandingUnrecorded, Outstanding, TypeOK, stops
  <2>7. WaitingIsHeld' /\ MotionStaysOwned'
    BY <1>2, <1>4, <2>1, <2>3 DEF MotionInv, WaitingIsHeld, MotionStaysOwned, Owned, IsHeld,
                Outstanding, MoveWaiting, MoveRunning, stops, Key
  <2>8. SwallowedStopIsDone'
    BY <1>1, <2>1, <2>3 DEF MotionInv, SwallowedStopIsDone, Suppressed, Outstanding, TypeOK,
                MoveInLane, MoveWaiting, MoveRunning, stops, Key
  <2>9. QED
    BY <2>4, <2>5, <2>6, <2>7, <2>8 DEF MotionInv
<1>7. QED
  BY <1>5, <1>6

LEMMA ExpireInv ==
  ASSUME NEW g \in Group, MotionInv, Expire(g)
  PROVE  MotionInv'
<1> USE MotionAssumption
<1>1. held' \in [Group -> Hold \cup {None}] /\ \A h \in Group : IsHeld(h)' = IsHeld(h)
  BY DEF MotionInv, TypeOK, Expire, Hold, IsHeld
<1>2. UNCHANGED <<armed, sent, stops, lane, head, excused>>
  BY DEF Expire
<1>3. TypeOK'
  BY <1>1, <1>2 DEF MotionInv, TypeOK, stops, lane
<1>4. QED
  BY <1>1, <1>2, <1>3 DEF MotionInv, AllOnlyStops, OutstandingUnrecorded, WaitingIsHeld,
     MotionStaysOwned, SwallowedStopIsDone, Owned, Suppressed, Outstanding, MoveInLane,
     MoveWaiting, MoveRunning, stops, lane

LEMMA StopAllInv ==
  ASSUME MotionInv, StopAll
  PROVE  MotionInv'
<1> USE MotionAssumption
<1>1. PICK t \in Token :
        /\ unconfirmed' = [unconfirmed EXCEPT ![All] = t]
        /\ loop' = [loop EXCEPT ![t] = All]
        /\ waiting' = [k \in Key |-> IF k = All THEN [v |-> Zero, by |-> t] ELSE None]
  BY DEF StopAll
<1>2. /\ held' = [g \in Group |-> None]
      /\ armed' = FALSE
      /\ UNCHANGED <<sent, running, head, excused>>
  BY DEF StopAll
<1>3. All \in Key /\ unconfirmed'[All] = t
  BY <1>1 DEF Key, MotionInv, TypeOK
<1>4. TypeOK'
  BY <1>1, <1>2 DEF MotionInv, TypeOK, Job, Vector, Key
<1>5. AllOnlyStops' /\ OutstandingUnrecorded' /\ WaitingIsHeld'
  BY <1>1, <1>2 DEF MotionInv, AllOnlyStops, OutstandingUnrecorded, WaitingIsHeld, TypeOK,
     Outstanding, MoveWaiting, Key
<1>6. MotionStaysOwned'
  BY <1>3 DEF MotionStaysOwned, Owned, Outstanding
<1>7. SwallowedStopIsDone'
  BY <1>1, <1>2 DEF MotionInv, SwallowedStopIsDone, Suppressed, Outstanding, TypeOK,
     MoveInLane, MoveWaiting, MoveRunning, Key
<1>8. QED
  BY <1>4, <1>5, <1>6, <1>7 DEF MotionInv

LEMMA StartJobInv ==
  ASSUME MotionInv, StartJob
  PROVE  MotionInv'
<1> USE MotionAssumption
<1>1. PICK k \in Key :
        /\ waiting[k] # None
        /\ running' = [key |-> k, v |-> waiting[k].v, by |-> waiting[k].by]
        /\ waiting' = [waiting EXCEPT ![k] = None]
  BY DEF StartJob
<1>2. running = None /\ UNCHANGED <<control, stops, head, excused>>
  BY DEF StartJob
<1>3. waiting[k] \in Job /\ running' \in Flight /\ running' # None
  BY <1>1 DEF MotionInv, TypeOK, Job, Flight
<1>4. TypeOK'
  BY <1>1, <1>2, <1>3 DEF MotionInv, TypeOK, control, stops
<1>5. \A g \in Group : MoveWaiting(g)' => MoveWaiting(g)
  BY <1>1 DEF MoveWaiting, MotionInv, TypeOK
<1>6. \A g \in Group : MoveRunning(g)' => MoveWaiting(g)
  BY <1>1, <1>3 DEF MoveRunning, MoveWaiting
<1>7. AllOnlyStops'
  BY <1>1 DEF MotionInv, AllOnlyStops, TypeOK
<1>8. OutstandingUnrecorded' /\ WaitingIsHeld' /\ MotionStaysOwned'
  BY <1>2, <1>5, <1>6 DEF MotionInv, OutstandingUnrecorded, WaitingIsHeld, MotionStaysOwned,
     Owned, IsHeld, Outstanding, control, stops
<1>9. SwallowedStopIsDone'
  BY <1>2, <1>5, <1>6 DEF MotionInv, SwallowedStopIsDone, Suppressed, Outstanding,
     MoveInLane, control, stops
<1>10. QED
  BY <1>4, <1>7, <1>8, <1>9 DEF MotionInv

LEMMA MoveTakenInv ==
  ASSUME MotionInv, MoveTaken
  PROVE  MotionInv'
<1> USE MotionAssumption
<1>1. /\ running # None /\ running.v # Zero
      /\ head' = Obeyed(Reach)
      /\ running' = None
      /\ UNCHANGED <<control, stops, waiting, order, excused>>
  BY DEF MoveTaken
<1>2. running.key # All /\ Reach = {running.key} /\ running.v \in Vector
  BY <1>1 DEF MotionInv, AllOnlyStops, Reach, TypeOK, Flight
<1>3. TypeOK'
  BY <1>1, <1>2 DEF MotionInv, TypeOK, Obeyed, control, stops
<1>4. \A g \in Group : head'[g] # head[g] => MoveRunning(g)
  BY <1>1, <1>2 DEF Obeyed, MoveRunning, MotionInv, TypeOK
<1>5. AllOnlyStops' /\ OutstandingUnrecorded' /\ WaitingIsHeld'
  BY <1>1 DEF MotionInv, AllOnlyStops, OutstandingUnrecorded, WaitingIsHeld,
     IsHeld, Outstanding, MoveWaiting, control, stops
<1>6. MotionStaysOwned'
  BY <1>1, <1>4 DEF MotionInv, MotionStaysOwned, Owned, IsHeld, Outstanding,
     MoveRunning, control, stops
<1>7. SwallowedStopIsDone'
  BY <1>1, <1>4 DEF MotionInv, SwallowedStopIsDone, Suppressed, Outstanding,
     MoveInLane, MoveWaiting, MoveRunning, control, stops
<1>8. QED
  BY <1>3, <1>5, <1>6, <1>7 DEF MotionInv

(* A confirmed stop: the groups it reaches rest; the others keep whoever   *)
(* answered for them, since only the confirmed key is released.            *)
LEMMA StopTakenInv ==
  ASSUME MotionInv, StopTaken
  PROVE  MotionInv'
<1> USE MotionAssumption
<1> DEFINE k == running.key
<1> DEFINE owns == unconfirmed[k] = running.by
<1>1. /\ running # None /\ running.v = Zero
      /\ loop' = [loop EXCEPT ![running.by] = None]
      /\ unconfirmed' = IF owns THEN [unconfirmed EXCEPT ![k] = None] ELSE unconfirmed
      /\ sent' = IF owns /\ k # All THEN [sent EXCEPT ![k] = Zero] ELSE sent
      /\ excused' = {g \in excused \cup (IF owns THEN {k} \cap Group ELSE {}) :
                       g \in Reach => MoveWaiting(g)}
      /\ head' = Obeyed(Reach)
      /\ running' = None
      /\ UNCHANGED <<held, armed, waiting, order>>
  BY DEF StopTaken
<1>2. TypeOK /\ k \in Key /\ Zero \in Vector
  BY <1>1 DEF MotionInv, TypeOK, Flight, Vector
<1>3. Reach = IF k = All THEN Group ELSE {k}
  BY DEF Reach
<1> HIDE DEF k, owns
<1>4. excused' \subseteq Group
  BY <1>1, <1>2 DEF TypeOK
<1>5. TypeOK'
  BY <1>1, <1>2, <1>4 DEF TypeOK, Obeyed, Key
<1>6. \A g \in Group : IF g \in Reach THEN head'[g] = Zero ELSE head'[g] = head[g]
  BY <1>1 DEF Obeyed
<1>7. \A g \in Group : g \notin Reach => /\ k # All /\ k # g
                                         /\ Outstanding(g)' = Outstanding(g)
                                         /\ Outstanding(All)' = Outstanding(All)
                                         /\ sent'[g] = sent[g]
                                         /\ g \in excused => g \in excused'
  BY <1>1, <1>2, <1>3 DEF Outstanding, TypeOK
<1>8. \A g \in Group : ~MoveRunning(g)' /\ ~MoveRunning(g) /\ MoveWaiting(g)' = MoveWaiting(g)
  BY <1>1 DEF MoveRunning, MoveWaiting
<1>9. AllOnlyStops'
  BY <1>1 DEF MotionInv, AllOnlyStops
<1>10. OutstandingUnrecorded'
  <2> SUFFICES ASSUME NEW g \in Group, Outstanding(g)'
               PROVE  (sent[g] # Zero)'
    BY DEF OutstandingUnrecorded
  <2>1. Outstanding(g) /\ ~(owns /\ k = g)
    BY <1>1, <1>2 DEF Outstanding, TypeOK
  <2>2. sent'[g] = sent[g]
    BY <1>1, <1>2, <2>1 DEF TypeOK
  <2>3. QED
    BY <2>1, <2>2 DEF MotionInv, OutstandingUnrecorded
<1>11. WaitingIsHeld'
  BY <1>1, <1>7, <1>8 DEF MotionInv, WaitingIsHeld, IsHeld
<1>12. MotionStaysOwned'
  BY <1>1, <1>6, <1>7, <1>8 DEF MotionInv, MotionStaysOwned, Owned, IsHeld
<1>13. SwallowedStopIsDone'
  <2> SUFFICES ASSUME NEW g \in Group, Suppressed(g, Zero)'
               PROVE  ((head[g] = Zero /\ ~MoveInLane(g)) \/ g \in excused)'
    BY DEF SwallowedStopIsDone
  <2>1. CASE g \in Reach
    <3>1. MoveWaiting(g) => (owns /\ k = g) \/ g \in excused
      <4> SUFFICES ASSUME MoveWaiting(g), ~(owns /\ k = g)
                   PROVE  g \in excused
        OBVIOUS
      <4>1. sent'[g] = sent[g] /\ (Outstanding(g)' = Outstanding(g))
        BY <1>1, <1>2 DEF Outstanding, TypeOK
      <4>2. Suppressed(g, Zero) /\ MoveInLane(g)
        BY <4>1 DEF Suppressed, MoveInLane
      <4>3. QED
        BY <4>2 DEF MotionInv, SwallowedStopIsDone
    <3>2. MoveWaiting(g) => g \in excused'
      BY <1>1, <3>1
    <3>3. QED
      BY <1>6, <1>8, <2>1, <3>2 DEF MoveInLane
  <2>2. CASE g \notin Reach
    <3>1. Suppressed(g, Zero)
      BY <1>7, <2>2 DEF Suppressed
    <3>2. QED
      BY <1>6, <1>7, <1>8, <2>2, <3>1 DEF MotionInv, SwallowedStopIsDone, MoveInLane
  <2>3. QED
    BY <2>1, <2>2
<1>14. QED
  BY <1>5, <1>9, <1>10, <1>11, <1>12, <1>13 DEF MotionInv

LEMMA JobFailsInv ==
  ASSUME MotionInv, JobFails
  PROVE  MotionInv'
<1> USE MotionAssumption
<1>1. PICK G \in SUBSET Reach : head' = Obeyed(G)
  BY DEF JobFails
<1>2. /\ running # None
      /\ sent' = IF running.v = Zero THEN sent ELSE [sent EXCEPT ![running.key] = None]
      /\ running' = None
      /\ UNCHANGED <<held, armed, stops, waiting, order, excused>>
  BY DEF JobFails
<1>3. TypeOK /\ running.key \in Key /\ running.v \in Vector
  BY <1>2 DEF MotionInv, TypeOK, Flight
<1>4. TypeOK'
  BY <1>1, <1>2, <1>3 DEF TypeOK, Obeyed, stops
<1>5. \A g \in Group : head'[g] # Zero => head[g] # Zero \/ MoveRunning(g)
  BY <1>1, <1>2, <1>3 DEF Obeyed, MoveRunning, Reach, MotionInv, AllOnlyStops
<1>6. \A g \in Group : sent'[g] = Zero => sent[g] = Zero
  BY <1>2, <1>3 DEF TypeOK, Vector
<1>7. AllOnlyStops' /\ OutstandingUnrecorded' /\ WaitingIsHeld'
  BY <1>2, <1>6 DEF MotionInv, AllOnlyStops, OutstandingUnrecorded, WaitingIsHeld, IsHeld,
     Outstanding, MoveWaiting, stops
<1>8. MotionStaysOwned'
  BY <1>2, <1>5 DEF MotionInv, MotionStaysOwned, Owned, IsHeld, Outstanding, MoveRunning, stops
<1>9. SwallowedStopIsDone'
  BY <1>2, <1>5, <1>6 DEF MotionInv, SwallowedStopIsDone, Suppressed, Outstanding,
     MoveInLane, MoveWaiting, MoveRunning, stops
<1>10. QED
  BY <1>4, <1>7, <1>8, <1>9 DEF MotionInv

(* Standing down releases the key for whoever holds the group; a group a   *)
(* stop-all abandons is excused.                                           *)
LEMMA StandDownInv ==
  ASSUME NEW t \in Token, MotionInv, StandDown(t)
  PROVE  MotionInv'
<1> USE MotionAssumption
<1> DEFINE k == loop[t]
<1>1. /\ ~Idle(t)
      /\ unconfirmed[k] # t \/ ~StillWanted(k)
      /\ loop' = [loop EXCEPT ![t] = None]
      /\ unconfirmed' = IF unconfirmed[k] = t THEN [unconfirmed EXCEPT ![k] = None] ELSE unconfirmed
      /\ excused' = IF unconfirmed[k] = t
                    THEN excused \cup {g \in Group : ~IsHeld(g) /\ ~Outstanding(g)
                                                     /\ (head[g] # Zero \/ MoveInLane(g))}
                    ELSE excused
      /\ UNCHANGED <<control, lane, head>>
  BY DEF StandDown
<1>2. TypeOK /\ k \in Key
  BY <1>1 DEF MotionInv, TypeOK, Idle
<1> HIDE DEF k
<1>3. TypeOK'
  BY <1>1, <1>2 DEF TypeOK, control, lane
<1>4. excused \subseteq excused'
  BY <1>1
<1>5. \A g \in Group : /\ IsHeld(g)' = IsHeld(g)
                       /\ MoveRunning(g)' = MoveRunning(g)
                       /\ MoveWaiting(g)' = MoveWaiting(g)
  BY <1>1 DEF IsHeld, MoveRunning, MoveWaiting, control, lane
<1>6. \A g \in Group : Outstanding(g)' => Outstanding(g)
  BY <1>1, <1>2 DEF Outstanding, TypeOK
<1>7. AllOnlyStops' /\ OutstandingUnrecorded' /\ WaitingIsHeld'
  BY <1>1, <1>4, <1>5, <1>6 DEF MotionInv, AllOnlyStops, OutstandingUnrecorded, WaitingIsHeld,
     control, lane
<1>8. MotionStaysOwned'
  <2> SUFFICES ASSUME NEW g \in Group, (head[g] # Zero \/ MoveRunning(g))'
               PROVE  (Owned(g) \/ g \in excused)'
    BY DEF MotionStaysOwned
  <2>1. head[g] # Zero \/ MoveRunning(g)
    BY <1>1, <1>5
  <2>2. Owned(g) \/ g \in excused
    BY <2>1 DEF MotionInv, MotionStaysOwned
  <2>3. CASE unconfirmed[k] # t
    BY <1>1, <1>5, <2>2, <2>3 DEF Owned, Outstanding
  <2>4. CASE unconfirmed[k] = t /\ k = All
    <3>1. Outstanding(g)' = Outstanding(g)
      BY <1>1, <2>4 DEF Outstanding, TypeOK, Key
    <3>2. IsHeld(g) \/ Outstanding(g) \/ g \in excused'
      BY <1>1, <2>1, <2>4 DEF MoveInLane
    <3>3. QED
      BY <1>5, <3>1, <3>2 DEF Owned
  <2>5. CASE unconfirmed[k] = t /\ k # All
    <3>1. IsHeld(k)
      BY <1>1, <2>5 DEF StillWanted
    <3>2. /\ Outstanding(All)' = Outstanding(All)
          /\ k # g => Outstanding(g)' = Outstanding(g)
      BY <1>1, <1>2, <2>5 DEF Outstanding, TypeOK, Key
    <3>3. QED
      BY <1>4, <1>5, <2>2, <3>1, <3>2 DEF Owned
  <2>6. QED
    BY <2>3, <2>4, <2>5
<1>9. SwallowedStopIsDone'
  <2> SUFFICES ASSUME NEW g \in Group, Suppressed(g, Zero)'
               PROVE  ((head[g] = Zero /\ ~MoveInLane(g)) \/ g \in excused)'
    BY DEF SwallowedStopIsDone
  <2>1. Suppressed(g, Zero)
    BY <1>1 DEF Suppressed, MotionInv, OutstandingUnrecorded, control
  <2>2. QED
    BY <1>1, <1>4, <1>5, <2>1 DEF MotionInv, SwallowedStopIsDone, MoveInLane
<1>10. QED
  BY <1>3, <1>7, <1>8, <1>9 DEF MotionInv

LEMMA RetryInv ==
  ASSUME NEW t \in Token, MotionInv, Retry(t)
  PROVE  MotionInv'
<1> USE MotionAssumption
<1> DEFINE k == loop[t]
<1> DEFINE job == [x \in {k} |-> [v |-> Zero, by |-> t]]
<1>1. ~Idle(t) /\ Enqueue({k}, job) /\ UNCHANGED <<control, stops, running, head, excused>>
  BY DEF Retry
<1>2. TypeOK /\ k \in Key
  BY <1>1 DEF MotionInv, TypeOK, Idle
<1> HIDE DEF k
<1>3. \A x \in {k} : job[x] \in Job /\ job[x].v = Zero
  BY DEF Job, Vector
<1> HIDE DEF job
<1>4. {k} \in SUBSET Key /\ waiting \in [Key -> Job \cup {None}]
  BY <1>2 DEF TypeOK
<1>5. /\ waiting' \in [Key -> Job \cup {None}]
      /\ \A x \in Key : waiting'[x] = IF x \in {k} THEN job[x] ELSE waiting[x]
  BY <1>1, <1>3, <1>4, EnqueueType
<1>6. TypeOK'
  BY <1>1, <1>2, <1>5 DEF TypeOK, control, stops
<1>7. \A g \in Group : MoveWaiting(g)' => MoveWaiting(g)
  BY <1>3, <1>5 DEF MoveWaiting, Key
<1>8. AllOnlyStops'
  BY <1>1, <1>3, <1>5 DEF MotionInv, AllOnlyStops, Key
<1>9. QED
  BY <1>1, <1>6, <1>7, <1>8 DEF MotionInv, OutstandingUnrecorded, WaitingIsHeld,
     MotionStaysOwned, SwallowedStopIsDone, Owned, IsHeld, Suppressed, Outstanding,
     MoveInLane, MoveRunning, control, stops

-----------------------------------------------------------------------------
LEMMA InitInv == Init => MotionInv
BY MotionAssumption DEF Init, MotionInv, TypeOK, AllOnlyStops, OutstandingUnrecorded,
   WaitingIsHeld, MotionStaysOwned, SwallowedStopIsDone, Outstanding, Suppressed,
   MoveInLane, MoveWaiting, MoveRunning, Vector, Key

LEMMA NextInv == MotionInv /\ [Next]_vars => MotionInv'
<1> SUFFICES ASSUME MotionInv, [Next]_vars
             PROVE  MotionInv'
  OBVIOUS
<1>1. armed \in BOOLEAN
  BY DEF MotionInv, TypeOK
<1>2. ASSUME NEW g \in Group, DriveZero(g)
      PROVE  MotionInv'
  <2>1. armed' \in BOOLEAN
    BY <1>1, <1>2 DEF DriveZero, NeedsDeadman
  <2>2. LetGo({g}) /\ {g} \in SUBSET Group
    BY <1>2 DEF DriveZero
  <2>3. QED
    BY <2>1, <2>2, LetGoInv
<1>3. ASSUME NEW src, ReleaseSource(src)
      PROVE  MotionInv'
  <2> DEFINE G == {g \in Group : IsHeld(g) /\ held[g].by.src = src}
  <2>1. LetGo(G) /\ G \in SUBSET Group /\ armed' \in BOOLEAN
    BY <1>1, <1>3 DEF ReleaseSource
  <2> HIDE DEF G
  <2>2. QED
    BY <2>1, LetGoInv
<1>4. ASSUME Check
      PROVE  MotionInv'
  <2> DEFINE G == {g \in Group : IsHeld(g) /\ ~held[g].fresh}
  <2>1. LetGo(G) /\ G \in SUBSET Group
    BY <1>4 DEF Check
  <2>2. armed' \in BOOLEAN
    BY <1>4 DEF Check, NeedsDeadman
  <2> HIDE DEF G
  <2>3. QED
    BY <2>1, <2>2, LetGoInv
<1>5. CASE UNCHANGED vars
  BY <1>5 DEF MotionInv, TypeOK, AllOnlyStops, OutstandingUnrecorded, WaitingIsHeld,
     MotionStaysOwned, SwallowedStopIsDone, Owned, IsHeld, Suppressed, Outstanding,
     MoveInLane, MoveWaiting, MoveRunning, vars, control, stops, lane
<1>6. CASE Operator
  BY <1>2, <1>3, <1>6, DriveInv, StopAllInv DEF Operator
<1>7. QED
  BY <1>4, <1>5, <1>6, ExpireInv, StartJobInv, MoveTakenInv, StopTakenInv, JobFailsInv,
     StandDownInv, RetryInv DEF Next

(* The invariant holds of every behaviour of the controller. *)
LEMMA SpecInv == Spec => []MotionInv
BY InitInv, NextInv, PTL DEF Spec

(* The variables of motion.js and the motion lane keep their types.        *)
THEOREM TypeCorrect == Spec => []TypeOK
BY SpecInv, PTL DEF MotionInv

(* A moving group is answered for by a hold or by a stop still being       *)
(* re-sent, for any groups, speeds, clients and number of stop loops,      *)
(* except when it was lost in one of the two excused ways.                 *)
THEOREM MotionOwned == Spec => []MotionIsOwned
<1>1. MotionInv => MotionIsOwned
  BY DEF MotionInv, MotionStaysOwned, MotionIsOwned
<1>2. QED
  BY <1>1, SpecInv, PTL

(* A stop is swallowed as a duplicate only when the head has obeyed one    *)
(* and no move of the group is on its way, or the group is excused.        *)
THEOREM SwallowedStopDone == Spec => []SwallowedStopIsDone
BY SpecInv, PTL DEF MotionInv

(* A hold that can time out is always watched by a running deadman timer.  *)
THEOREM DeadmanArmed == Spec => []DeadmanWatches
<1> USE MotionAssumption
<1>1. Init => DeadmanWatches
  BY DEF Init, DeadmanWatches, NeedsDeadman
<1>2. TypeOK /\ DeadmanWatches /\ [Next]_vars => DeadmanWatches'
  <2> SUFFICES ASSUME TypeOK, DeadmanWatches, [Next]_vars, NeedsDeadman(held)'
               PROVE  armed'
    BY DEF DeadmanWatches
  <2>1. ASSUME NEW G \in SUBSET Group, LetGo(G)
        PROVE  NeedsDeadman(held)
    BY <2>1 DEF LetGo, NeedsDeadman
  <2>2. CASE UNCHANGED <<held, armed>>
    BY <2>2 DEF DeadmanWatches, NeedsDeadman
  <2>3. ASSUME NEW g \in Group, NEW v \in Speed, NEW c \in Client, Drive(g, v, c)
        PROVE  armed'
    BY <2>3 DEF Drive, NeedsDeadman
  <2>4. ASSUME NEW g \in Group, DriveZero(g)
        PROVE  armed'
    BY <2>4 DEF DriveZero, NeedsDeadman
  <2>5. ASSUME NEW src, ReleaseSource(src)
        PROVE  armed'
    BY <2>1, <2>5 DEF ReleaseSource, DeadmanWatches
  <2>6. CASE StopAll
    BY <2>6 DEF StopAll, NeedsDeadman
  <2>7. ASSUME NEW g \in Group, Expire(g)
        PROVE  armed'
    <3>1. held' = [held EXCEPT ![g] = [held[g] EXCEPT !.fresh = FALSE]] /\ armed' = armed
      BY <2>7 DEF Expire
    <3>2. \A h \in Group : held'[h] # None => held[h] # None /\ held'[h].by = held[h].by
      BY <2>7, <3>1 DEF Expire, IsHeld, TypeOK, Hold
    <3>3. QED
      BY <3>1, <3>2 DEF NeedsDeadman, DeadmanWatches
  <2>8. CASE Check
    BY <2>8 DEF Check, NeedsDeadman
  <2>9. CASE StartJob \/ MoveTaken \/ StopTaken \/ JobFails \/ \E t \in Token : StandDown(t) \/ Retry(t)
    BY <2>2, <2>9 DEF StartJob, MoveTaken, StopTaken, JobFails, StandDown, Retry, control
  <2>10. QED
    BY <2>2, <2>3, <2>4, <2>5, <2>6, <2>7, <2>8, <2>9 DEF Next, Operator, vars, control
<1>3. QED
  BY <1>1, <1>2, TypeCorrect, PTL DEF Spec

-----------------------------------------------------------------------------

LinkType ==
  /\ phase \in {"new", "up", "stopping", "gone"}
  /\ state \in {"connecting", "connected", "reconnecting", "offline", "unauthorized"}
  /\ attempt \in {"none", "identify", "firstRead"}
  /\ reconnectTimer \in BOOLEAN /\ ticking \in BOOLEAN /\ movingAtDrop \in BOOLEAN
  /\ late \subseteq Flight

(* A controller that was just made, or that #teardown has cleared. *)
Blank ==
  /\ \A g \in Group : held[g] = None /\ sent[g] = None
  /\ \A k \in Key : unconfirmed[k] = None /\ waiting[k] = None
  /\ running = None /\ armed = FALSE

(* What moves while there is no connection will be stopped by the next. *)
Remembered == \A g \in Group : head[g] # Zero => movingAtDrop \/ g \in excused

(* Where the connection stands in each phase of the camera's life. *)
Link ==
  /\ phase = "new" => state = "connecting" /\ attempt = "none"
  /\ phase \in {"new", "stopping", "gone"} => ~reconnectTimer
  /\ phase \in {"new", "gone"} => ~ticking
  /\ phase = "gone" => state = "offline" /\ attempt = "none"
  /\ attempt = "identify" => ~Connected
  /\ phase = "up" =>
       /\ attempt = "none" => (Connected /\ ticking) # reconnectTimer
       /\ attempt # "none" => ~ticking /\ ~reconnectTimer
       /\ Connected <=> attempt = "firstRead" \/ ticking

CamInv ==
  /\ TypeOK /\ LinkType /\ Link
  /\ Connected => MotionInv /\ ~movingAtDrop
  /\ ~Connected => Blank
  /\ (~Connected /\ phase # "gone") => Remembered

-----------------------------------------------------------------------------
(* A blank controller satisfies the motion invariant once nothing moves    *)
(* unanswered for, and knows of nothing that moves.                        *)
LEMMA BlankIsSound ==
  ASSUME TypeOK, Blank, \A g \in Group : head[g] # Zero => g \in excused
  PROVE  MotionInv
BY MotionAssumption DEF Blank, MotionInv, AllOnlyStops, OutstandingUnrecorded, WaitingIsHeld,
   MotionStaysOwned, SwallowedStopIsDone, Suppressed, Outstanding, MoveWaiting, MoveRunning,
   Vector, Key

LEMMA SameVars ==
  ASSUME UNCHANGED vars
  PROVE  /\ TypeOK' = TypeOK /\ Blank' = Blank /\ MotionInv' = MotionInv
         /\ movingAtDrop' = movingAtDrop => Remembered' = Remembered
BY DEF vars, control, stops, lane, TypeOK, Blank, Remembered, MotionInv, AllOnlyStops,
   OutstandingUnrecorded, WaitingIsHeld, MotionStaysOwned, SwallowedStopIsDone, Suppressed,
   Owned, IsHeld, Outstanding, MoveInLane, MoveWaiting, MoveRunning

LEMMA BlankRests ==
  ASSUME Blank
  PROVE  ~Moving /\ \A g \in Group : ~Owned(g)
BY DEF Blank, Moving, Owned, IsHeld, Outstanding, Key

(* A stop of every axis makes a blank controller answer for what moves. *)
LEMMA StopAllFromBlank ==
  ASSUME TypeOK, Blank, StopAll
  PROVE  MotionInv'
<1> USE MotionAssumption
<1>1. PICK t \in Token :
        /\ unconfirmed' = [unconfirmed EXCEPT ![All] = t]
        /\ loop' = [loop EXCEPT ![t] = All]
        /\ waiting' = [k \in Key |-> IF k = All THEN [v |-> Zero, by |-> t] ELSE None]
  BY DEF StopAll
<1>2. /\ held' = [g \in Group |-> None] /\ armed' = FALSE
      /\ UNCHANGED <<sent, running, head, excused>>
  BY DEF StopAll
<1>3. All \in Key /\ unconfirmed'[All] = t
  BY <1>1 DEF Key, TypeOK
<1>4. TypeOK'
  BY <1>1, <1>2 DEF TypeOK, Job, Vector, Key
<1>5. AllOnlyStops' /\ OutstandingUnrecorded' /\ WaitingIsHeld' /\ SwallowedStopIsDone'
  BY <1>1, <1>2 DEF Blank, AllOnlyStops, OutstandingUnrecorded, WaitingIsHeld, TypeOK,
     SwallowedStopIsDone, Suppressed, Outstanding, MoveWaiting, Key, Vector
<1>6. MotionStaysOwned'
  BY <1>3 DEF MotionStaysOwned, Owned, Outstanding
<1>7. QED
  BY <1>4, <1>5, <1>6 DEF MotionInv

(* #teardown leaves a blank controller, and what was on the wire with late. *)
LEMMA TeardownBlanks ==
  ASSUME TypeOK, LinkType, Teardown, excused' \subseteq Group
  PROVE  TypeOK' /\ Blank' /\ ticking' = FALSE /\ late' \subseteq Flight /\ head' = head
<1>1. Blank' /\ ticking' = FALSE /\ head' = head
  BY DEF Teardown, Blank
<1>2. late' \subseteq Flight
  BY DEF Teardown, TypeOK, LinkType
<1>3. TypeOK'
  BY DEF Teardown, TypeOK
<1>4. QED
  BY <1>1, <1>2, <1>3

(* What moves when the connection drops is what the controller knew of. *)
LEMMA DropRemembers ==
  ASSUME CamInv, Drop
  PROVE  TypeOK' /\ Blank' /\ ticking' = FALSE /\ late' \subseteq Flight /\ Remembered'
         /\ ~Connected' /\ movingAtDrop' \in BOOLEAN
<1>1. MotionInv /\ TypeOK /\ LinkType
  BY DEF CamInv, Drop
<1>2. Teardown /\ UNCHANGED excused /\ movingAtDrop' = (movingAtDrop \/ Moving)
  BY DEF Drop
<1>3. TypeOK' /\ Blank' /\ ticking' = FALSE /\ late' \subseteq Flight /\ head' = head
  BY <1>1, <1>2, TeardownBlanks DEF TypeOK
<1>4. Remembered'
  BY <1>1, <1>2, <1>3 DEF Remembered, MotionInv, MotionStaysOwned, Owned, Moving, Key, Outstanding
<1>5. ~Connected' /\ movingAtDrop' \in BOOLEAN
  BY <1>1, <1>2 DEF Drop, Connected, LinkType, Moving
<1>6. QED
  BY <1>3, <1>4, <1>5

(* A new attempt starts blank; what moves is still remembered. *)
LEMMA ConnectInv ==
  ASSUME CamInv, NEW r, Connect(r), phase' = "up", reconnectTimer' = FALSE,
         movingAtDrop' \in BOOLEAN, excused' \subseteq Group,
         \A g \in Group : head[g] # Zero => movingAtDrop' \/ g \in excused'
  PROVE  CamInv'
<1>1. TypeOK' /\ Blank' /\ ticking' = FALSE /\ late' \subseteq Flight /\ head' = head
  BY TeardownBlanks DEF CamInv, Connect
<1>2. attempt' = "identify" /\ state' \in {"reconnecting", "connecting"}
  BY DEF Connect
<1>3. Remembered'
  BY <1>1 DEF Remembered
<1>4. LinkType'
  BY <1>1, <1>2 DEF CamInv, LinkType
<1>5. Link' /\ ~Connected'
  BY <1>1, <1>2 DEF Link, Connected
<1>6. QED
  BY <1>1, <1>3, <1>4, <1>5 DEF CamInv

-----------------------------------------------------------------------------
LEMMA StartInv ==
  ASSUME CamInv, Start
  PROVE  CamInv'
<1>1. ~Connected /\ phase = "new" /\ ~reconnectTimer /\ Remembered
  BY DEF CamInv, Start, Link, Connected
<1>2. QED
  BY <1>1, ConnectInv DEF Start, Remembered, CamInv, LinkType, TypeOK

LEMMA ReconnectTimerInv ==
  ASSUME CamInv, ReconnectTimer
  PROVE  CamInv'
<1>1. ~Connected /\ phase = "up" /\ Remembered
  BY DEF CamInv, ReconnectTimer, Link, LinkType
<1>2. QED
  BY <1>1, ConnectInv DEF ReconnectTimer, Remembered, CamInv, LinkType, TypeOK

LEMMA ReconnectInv ==
  ASSUME CamInv, Reconnect
  PROVE  CamInv'
<1>1. ~Connected /\ phase = "up" /\ Remembered
  BY DEF CamInv, Reconnect, Stopped
<1>2. QED
  BY <1>1, ConnectInv DEF Reconnect, Remembered, CamInv, LinkType, TypeOK

LEMMA ReplaceInv ==
  ASSUME CamInv, Replace
  PROVE  CamInv'
<1>1. reconnectTimer' = FALSE /\ excused' \subseteq Group
  BY DEF CamInv, Replace, Link, LinkType, TypeOK
<1>2. QED
  BY <1>1, ConnectInv DEF Replace

(* The link alone changes and the camera stays unconnected. *)
LEMMA IdentifyFailsInv ==
  ASSUME CamInv, IdentifyFails
  PROVE  CamInv'
<1>1. /\ attempt = "identify" /\ attempt' = "none"
      /\ state' \in {"unauthorized", "reconnecting", "offline"}
      /\ UNCHANGED <<vars, phase, ticking, movingAtDrop, late>>
  BY DEF IdentifyFails
<1>2. reconnectTimer' = IF Stopped \/ reconnectTimer THEN reconnectTimer ELSE TRUE
  BY DEF IdentifyFails, Schedule, CamInv, LinkType
<1>3. phase \notin {"new", "gone"} /\ ~Connected' /\ ~Connected
  BY <1>1 DEF CamInv, Link, Connected
<1>4. LinkType' /\ Link'
  BY <1>1, <1>2, <1>3 DEF CamInv, LinkType, Link, Stopped, Connected
<1>5. TypeOK' = TypeOK /\ Blank' = Blank /\ Remembered' = Remembered
  BY <1>1, SameVars
<1>6. QED
  BY <1>1, <1>3, <1>4, <1>5 DEF CamInv

(* The new connection stops what an earlier one left moving before it      *)
(* counts as connected.                                                    *)
LEMMA IdentifiedInv ==
  ASSUME CamInv, Identified
  PROVE  CamInv'
<1>1. /\ attempt = "identify" /\ attempt' = "firstRead" /\ state' = "connected"
      /\ movingAtDrop' = FALSE
      /\ UNCHANGED <<phase, reconnectTimer, ticking, late>>
  BY DEF Identified
<1>2. phase \notin {"new", "gone"} /\ ~Connected /\ Connected'
  BY <1>1 DEF CamInv, Link, Connected
<1>3. Blank /\ Remembered /\ TypeOK
  BY <1>2 DEF CamInv
<1>4. LinkType' /\ Link'
  BY <1>1, <1>2 DEF CamInv, LinkType, Link, Connected
<1>5. MotionInv'
  <2>1. CASE movingAtDrop
    <3>1. StopAll
      BY <2>1 DEF Identified
    <3>2. QED
      BY <1>3, <3>1, StopAllFromBlank
  <2>2. CASE ~movingAtDrop
    <3>1. UNCHANGED vars
      BY <2>2 DEF Identified
    <3>2. MotionInv
      BY <1>3, <2>2, BlankIsSound DEF Remembered
    <3>3. QED
      BY <3>1, <3>2, SameVars
  <2>3. QED
    BY <2>1, <2>2
<1>6. QED
  BY <1>1, <1>2, <1>4, <1>5 DEF CamInv, MotionInv

LEMMA FirstReadDoneInv ==
  ASSUME CamInv, FirstReadDone
  PROVE  CamInv'
<1>1. /\ attempt = "firstRead" /\ phase = "up" /\ attempt' = "none" /\ ticking' = TRUE
      /\ UNCHANGED <<vars, phase, state, reconnectTimer, movingAtDrop, late>>
  BY DEF FirstReadDone, Stopped
<1>2. Connected /\ Connected'
  BY <1>1 DEF CamInv, Link, Connected
<1>3. LinkType' /\ Link'
  BY <1>1, <1>2 DEF CamInv, LinkType, Link, Connected
<1>4. QED
  BY <1>1, <1>2, <1>3, SameVars DEF CamInv

LEMMA FirstReadFailsInv ==
  ASSUME CamInv, FirstReadFails
  PROVE  CamInv'
<1>1. attempt = "firstRead" /\ phase = "up" /\ Drop /\ attempt' = "none" /\ phase' = phase
  BY DEF FirstReadFails, Stopped
<1>2. /\ TypeOK' /\ Blank' /\ ticking' = FALSE /\ late' \subseteq Flight /\ Remembered'
      /\ ~Connected' /\ movingAtDrop' \in BOOLEAN
  BY <1>1, DropRemembers
<1>3. ~reconnectTimer /\ reconnectTimer' = TRUE /\ state' = "reconnecting"
  BY <1>1 DEF CamInv, Link, Drop, Schedule, Stopped
<1>4. LinkType' /\ Link'
  BY <1>1, <1>2, <1>3 DEF CamInv, LinkType, Link
<1>5. QED
  BY <1>2, <1>4 DEF CamInv

LEMMA TickDropsInv ==
  ASSUME CamInv, TickDrops
  PROVE  CamInv'
<1>1. ticking /\ Connected /\ Drop /\ UNCHANGED <<phase, attempt>> /\ state' = "reconnecting"
  BY DEF TickDrops, Drop
<1>2. /\ TypeOK' /\ Blank' /\ ticking' = FALSE /\ late' \subseteq Flight /\ Remembered'
      /\ ~Connected' /\ movingAtDrop' \in BOOLEAN
  BY <1>1, DropRemembers
<1>3. phase \notin {"new", "gone"}
  BY <1>1 DEF CamInv, Link
<1>4. reconnectTimer' = IF phase # "up" \/ reconnectTimer THEN reconnectTimer ELSE TRUE
  BY <1>1 DEF Drop, Schedule, Stopped, CamInv, LinkType
<1>5. LinkType' /\ Link'
  BY <1>1, <1>2, <1>3, <1>4 DEF CamInv, LinkType, Link
<1>6. QED
  BY <1>2, <1>5 DEF CamInv

LEMMA StaleAttemptInv ==
  ASSUME CamInv, StaleAttempt
  PROVE  CamInv'
<1>1. /\ attempt # "none" /\ phase # "up" /\ attempt' = "none"
      /\ UNCHANGED <<vars, phase, state, reconnectTimer, ticking, movingAtDrop, late>>
  BY DEF StaleAttempt, Stopped
<1>2. LinkType' /\ Link' /\ Connected' = Connected
  BY <1>1 DEF CamInv, LinkType, Link, Connected
<1>3. QED
  BY <1>1, <1>2, SameVars DEF CamInv

LEMMA StopFinishedInv ==
  ASSUME CamInv, StopFinished
  PROVE  CamInv'
<1>1. TypeOK' /\ Blank' /\ ticking' = FALSE /\ late' \subseteq Flight
  BY TeardownBlanks DEF CamInv, StopFinished, TypeOK
<1>2. /\ phase' = "gone" /\ state' = "offline" /\ attempt' = "none" /\ reconnectTimer' = FALSE
      /\ movingAtDrop' \in BOOLEAN
  BY DEF CamInv, StopFinished, Link, LinkType
<1>3. LinkType' /\ Link' /\ ~Connected'
  BY <1>1, <1>2 DEF LinkType, Link, Connected
<1>4. QED
  BY <1>1, <1>2, <1>3 DEF CamInv

-----------------------------------------------------------------------------
(* A motion step of a connected camera is a step of PtzMotion; one of a    *)
(* blank controller can only end a stop loop that owns nothing.            *)
LEMMA MotionInLink ==
  ASSUME CamInv, [Next]_vars, Elsewhere, TypeOK',
         Connected \/ UNCHANGED <<control, unconfirmed, waiting, running, head, excused>>
  PROVE  CamInv'
<1>1. /\ UNCHANGED <<phase, state, attempt, reconnectTimer, ticking, movingAtDrop, late>>
      /\ Connected' = Connected
  BY DEF Elsewhere, link, Connected
<1>2. LinkType' /\ Link'
  BY <1>1 DEF CamInv, LinkType, Link
<1>3. Connected => MotionInv' /\ ~movingAtDrop
  BY NextInv DEF CamInv
<1>4. ~Connected => Blank' = Blank /\ Remembered' = Remembered
  BY <1>1 DEF Blank, Remembered, control
<1>5. QED
  BY <1>1, <1>2, <1>3, <1>4 DEF CamInv

LEMMA MotionStepInv ==
  ASSUME CamInv, MotionStep
  PROVE  CamInv'
<1>1. Elsewhere /\ Next
  BY DEF MotionStep, Next
<1>2. CASE Connected
  <2>1. MotionInv'
    BY <1>1, <1>2, NextInv DEF CamInv
  <2>2. QED
    BY <1>1, <1>2, <2>1, MotionInLink DEF MotionInv
<1>3. CASE ~Connected
  <2>1. Blank /\ TypeOK
    BY <1>3 DEF CamInv
  <2>2. PICK t \in Token : StandDown(t)
    <3>1. \A g \in Group : ~Expire(g)
      BY <2>1 DEF Blank, Expire, IsHeld
    <3>2. ~Check /\ ~StartJob /\ ~MoveTaken /\ ~StopTaken /\ ~JobFails
      BY <2>1 DEF Blank, Check, StartJob, MoveTaken, StopTaken, JobFails
    <3>3. \A t \in Token : ~Retry(t)
      BY <2>1, MotionAssumption DEF Blank, Retry, Idle, TypeOK
    <3>4. QED
      BY <3>1, <3>2, <3>3 DEF MotionStep
  <2>3. UNCHANGED <<control, unconfirmed, waiting, running, head, excused>> /\ TypeOK'
    <3>1. loop[t] \in Key /\ unconfirmed[loop[t]] # t
      BY <2>1, <2>2, MotionAssumption DEF StandDown, Idle, Blank, TypeOK
    <3>2. UNCHANGED <<control, unconfirmed, lane, head, excused>>
          /\ loop' = [loop EXCEPT ![t] = None]
      BY <2>2, <3>1 DEF StandDown
    <3>3. QED
      BY <2>1, <3>2 DEF TypeOK, control, lane
  <2>4. QED
    BY <1>1, <2>3, MotionInLink
<1>4. QED
  BY <1>2, <1>3

LEMMA MoveInv ==
  ASSUME CamInv, Move
  PROVE  CamInv'
<1>1. Connected /\ Operator /\ Elsewhere
  BY DEF Move, Operator, Elsewhere
<1>2. MotionInv'
  BY <1>1, NextInv DEF CamInv, Next
<1>3. QED
  BY <1>1, <1>2, MotionInLink DEF Next, MotionInv

(* With no hold there is nothing to release. *)
LEMMA SourceGoneInv ==
  ASSUME CamInv, SourceGone
  PROVE  CamInv'
<1>1. PICK c \in Client : ReleaseSource(c.src)
  BY DEF SourceGone
<1>2. Next /\ Elsewhere
  BY <1>1 DEF Next, Operator, SourceGone, Elsewhere
<1>3. CASE Connected
  <2>1. MotionInv'
    BY <1>2, <1>3, NextInv DEF CamInv
  <2>2. QED
    BY <1>2, <1>3, <2>1, MotionInLink DEF MotionInv
<1>4. CASE ~Connected
  <2>1. Blank /\ TypeOK
    BY <1>4 DEF CamInv
  <2>2. {g \in Group : IsHeld(g) /\ held[g].by.src = c.src} = {}
    BY <2>1 DEF Blank, IsHeld
  <2>3. LetGo({}) /\ UNCHANGED armed
    BY <1>1, <2>2 DEF ReleaseSource
  <2>4. UNCHANGED <<held, sent, running, head, excused>> /\ BeginStops({})
    BY <2>1, <2>3 DEF LetGo, TypeOK
  <2>5. UNCHANGED <<unconfirmed, loop, waiting>>
    BY <2>1, <2>4 DEF BeginStops, Enqueue, TypeOK
  <2>6. TypeOK'
    BY <2>1, <2>3, <2>4, <2>5 DEF TypeOK
  <2>7. QED
    BY <1>2, <2>3, <2>4, <2>5, <2>6, MotionInLink DEF control
<1>5. QED
  BY <1>3, <1>4

LEMMA StopMotionInv ==
  ASSUME CamInv, StopMotion
  PROVE  CamInv'
<1>1. /\ phase # "gone"
      /\ UNCHANGED <<phase, state, attempt, reconnectTimer, retries, ticking, late>>
  BY DEF StopMotion
<1>2. CASE Connected /\ StopAll /\ UNCHANGED movingAtDrop
  <2>1. MotionInv'
    BY <1>2, StopAllInv DEF CamInv
  <2>2. QED
    BY <1>1, <1>2, <2>1, MotionInLink DEF MotionInv, Next, Operator, Elsewhere, link
<1>3. CASE ~Connected /\ movingAtDrop' = TRUE /\ UNCHANGED vars
  <2>1. Remembered'
    BY <1>3 DEF Remembered
  <2>2. TypeOK' = TypeOK /\ Blank' = Blank
    BY <1>3, SameVars
  <2>3. LinkType' /\ Link' /\ Connected' = Connected
    BY <1>1, <1>3 DEF CamInv, LinkType, Link, Connected
  <2>4. QED
    BY <1>3, <2>1, <2>2, <2>3 DEF CamInv
<1>4. QED
  BY <1>2, <1>3 DEF StopMotion

LEMMA StopCameraInv ==
  ASSUME CamInv, StopCamera
  PROVE  CamInv'
<1>1. /\ phase = "up" /\ phase' = "stopping" /\ reconnectTimer' = FALSE
      /\ UNCHANGED <<state, attempt, retries, ticking, movingAtDrop, late>>
  BY DEF StopCamera
<1>2. Connected' = Connected
  BY <1>1 DEF Connected
<1>3. LinkType' /\ Link'
  BY <1>1, <1>2 DEF CamInv, LinkType, Link
<1>4. CASE Moving /\ Connected
  <2>1. StopAll
    BY <1>4 DEF StopCamera
  <2>2. MotionInv'
    BY <1>4, <2>1, StopAllInv DEF CamInv
  <2>3. QED
    BY <1>1, <1>2, <1>3, <1>4, <2>2 DEF CamInv, MotionInv
<1>5. CASE ~(Moving /\ Connected)
  <2>1. UNCHANGED vars
    BY <1>5 DEF StopCamera
  <2>2. QED
    BY <1>1, <1>2, <1>3, <2>1, SameVars DEF CamInv
<1>6. QED
  BY <1>4, <1>5

-----------------------------------------------------------------------------
(* A late job changes the head and ends its loop; a group it sets moving   *)
(* that nobody answers for is excused.                                     *)
LEMMA LateJobArrivesInv ==
  ASSUME CamInv, LateJobArrives
  PROVE  CamInv'
<1>1. PICK job \in late :
        /\ late' = late \ {job}
        /\ head' = [g \in Group |-> IF job.key \in {g, All} THEN job.v ELSE head[g]]
        /\ excused' = excused \cup {g \in Group : head'[g] # Zero
                        /\ (Suppressed(g, Zero) \/ ~(Owned(g) \/ movingAtDrop))}
        /\ loop' = [t \in Token |-> IF t = job.by THEN None ELSE loop[t]]
        /\ UNCHANGED <<control, unconfirmed, lane, link>>
  BY DEF LateJobArrives
<1>2. TypeOK /\ LinkType /\ job \in Flight
  BY DEF CamInv, LinkType
<1>3. TypeOK'
  BY <1>1, <1>2 DEF TypeOK, Flight, control, lane
<1>4. LinkType' /\ Link' /\ Connected' = Connected /\ UNCHANGED <<phase, movingAtDrop>>
  BY <1>1, <1>2 DEF CamInv, LinkType, Link, link, Connected
<1>5. excused \subseteq excused'
  BY <1>1
<1>6. \A g \in Group : /\ Owned(g)' = Owned(g) /\ Suppressed(g, Zero)' = Suppressed(g, Zero)
                       /\ MoveWaiting(g)' = MoveWaiting(g) /\ MoveRunning(g)' = MoveRunning(g)
                       /\ IsHeld(g)' = IsHeld(g)
  BY <1>1 DEF Owned, IsHeld, Suppressed, Outstanding, MoveWaiting, MoveRunning, control, lane
<1>7. CASE Connected
  <2>1. MotionInv /\ ~movingAtDrop
    BY <1>7 DEF CamInv
  <2>2. AllOnlyStops' /\ OutstandingUnrecorded' /\ WaitingIsHeld'
    BY <1>1, <1>5, <1>6, <2>1 DEF MotionInv, AllOnlyStops, OutstandingUnrecorded, WaitingIsHeld,
       Outstanding, control, lane
  <2>3. MotionStaysOwned'
    BY <1>1, <1>5, <1>6, <2>1 DEF MotionInv, MotionStaysOwned
  <2>4. SwallowedStopIsDone'
    BY <1>1, <1>5, <1>6, <2>1 DEF MotionInv, SwallowedStopIsDone, MoveInLane
  <2>5. QED
    BY <1>3, <1>4, <1>7, <2>1, <2>2, <2>3, <2>4 DEF CamInv, MotionInv
<1>8. CASE ~Connected
  <2>1. Blank'
    BY <1>1, <1>8 DEF CamInv, Blank, control, lane
  <2>2. Remembered'
    BY <1>1, <1>4, <1>8, BlankRests DEF CamInv, Remembered
  <2>3. QED
    BY <1>3, <1>4, <1>8, <2>1, <2>2 DEF CamInv
<1>9. QED
  BY <1>7, <1>8

LEMMA LateJobLostInv ==
  ASSUME CamInv, LateJobLost
  PROVE  CamInv'
<1>1. UNCHANGED vars /\ UNCHANGED link /\ late' \subseteq late
  BY DEF LateJobLost
<1>2. LinkType' /\ Link' /\ Connected' = Connected /\ UNCHANGED <<phase, movingAtDrop>>
  BY <1>1 DEF CamInv, LinkType, Link, link, Connected
<1>3. QED
  BY <1>1, <1>2, SameVars DEF CamInv

-----------------------------------------------------------------------------
LEMMA CamInitInv == CamInit => CamInv
<1> SUFFICES ASSUME CamInit PROVE CamInv
  OBVIOUS
<1>1. MotionInv
  BY InitInv DEF CamInit
<1>2. Blank /\ Remembered
  BY DEF CamInit, Init, Blank, Remembered
<1>3. LinkType /\ Link /\ ~Connected
  BY DEF CamInit, LinkType, Link, Connected
<1>4. QED
  BY <1>1, <1>2, <1>3 DEF CamInv, MotionInv

LEMMA CamNextInv == CamInv /\ [CamNext]_camVars => CamInv'
<1> SUFFICES ASSUME CamInv, [CamNext]_camVars PROVE CamInv'
  OBVIOUS
<1>1. CASE UNCHANGED camVars
  <2>1. UNCHANGED vars /\ UNCHANGED link /\ late' = late
    BY <1>1 DEF camVars
  <2>2. LinkType' /\ Link' /\ Connected' = Connected /\ UNCHANGED <<phase, movingAtDrop>>
    BY <2>1 DEF CamInv, LinkType, Link, link, Connected
  <2>3. QED
    BY <2>1, <2>2, SameVars DEF CamInv
<1>2. CASE Connection
  BY <1>2, StartInv, ReconnectTimerInv, IdentifyFailsInv, IdentifiedInv, FirstReadDoneInv,
     FirstReadFailsInv, StaleAttemptInv, TickDropsInv, StopFinishedInv DEF Connection
<1>3. CASE CamOperator
  BY <1>3, MoveInv, SourceGoneInv, StopMotionInv, ReconnectInv, StopCameraInv, ReplaceInv
     DEF CamOperator
<1>4. QED
  BY <1>1, <1>2, <1>3, MotionStepInv, LateJobArrivesInv, LateJobLostInv DEF CamNext

LEMMA CamSpecInv == CamSpec => []CamInv
BY CamInitInv, CamNextInv, PTL DEF CamSpec

(* A moving head is answered for whatever the connection does: it is held, *)
(* a stop for it is outstanding, or the next connection stops it, except   *)
(* for a group lost in one of the named ways.                              *)
THEOREM HeadAnswered == CamSpec => []HeadIsAnsweredFor
<1>1. CamInv => HeadIsAnsweredFor
  BY DEF CamInv, HeadIsAnsweredFor, MotionInv, MotionStaysOwned, Remembered
<1>2. QED
  BY <1>1, CamSpecInv, PTL

(* There is exactly one way to the next connection, and a camera that was  *)
(* stopped has no timer, deadman, queued job or unconfirmed stop left.     *)
THEOREM OneWay == CamSpec => []OneWayToConnect
<1>1. CamInv => OneWayToConnect
  BY BlankRests DEF CamInv, OneWayToConnect, Link, Connected, Blank
<1>2. QED
  BY <1>1, CamSpecInv, PTL

(* While the camera is connected, everything proved of PtzMotion alone     *)
(* holds of the whole: drops and late jobs do not disturb it.              *)
THEOREM MotionUndisturbed ==
  CamSpec => [](Connected => MotionIsOwned /\ SwallowedStopIsDone)
<1>1. CamInv => (Connected => MotionIsOwned /\ SwallowedStopIsDone)
  BY DEF CamInv, MotionInv, MotionStaysOwned, MotionIsOwned
<1>2. QED
  BY <1>1, CamSpecInv, PTL

-----------------------------------------------------------------------------
(* The command queue. *)
Turn == IF Guard > Gap THEN Guard ELSE Gap

(* The motion jobs asked for before m, and those of them that still wait,  *)
(* when the jobs are s and came in this order.                             *)
Ahead(m, came, s)  == {k \in Motion : s[k] # "new" /\ came[k] < came[m]}
Before(m, came, s) == {k \in Ahead(m, came, s) : s[k] = "pending"}
Bound(m, came, s)  == Gap + Turn * Cardinality(Ahead(m, came, s))
Rest(m, came, s)   == Turn * Cardinality(Before(m, came, s))

(* What m has waited, what is left of the gap or of the motion job that    *)
(* runs, and a turn for each that waits before m, stay within the bound.   *)
OnTime(P, came, s, gap, guard, w) ==
  \A m \in P \cap Motion :
    /\ w[m] + gap + Rest(m, came, s) <= Bound(m, came, s)
    /\ \A j \in Motion : s[j] = "running" =>
         w[m] + guard[j] + Rest(m, came, s) <= Bound(m, came, s)

(* The order of arrival tells the jobs apart, and finitely many came. *)
Arrived(P, came, s, n) ==
  /\ s \in [Command -> {"new", "pending", "running"} \cup Answer]
  /\ P = {j \in Command : s[j] = "pending"}
  /\ came \in [Command -> Nat] /\ n \in Nat
  /\ \A j \in Command : came[j] <= n /\ (s[j] \in {"pending", "running"} => came[j] > 0)
  /\ \A j, k \in Command : came[j] = came[k] /\ came[j] > 0 => j = k
  /\ IsFiniteSet({j \in Command : s[j] # "new"})

(* The flag of the motion lane is up for the one motion job that runs. *)
OneMotion(s, flag) ==
  /\ flag <=> \E j \in Motion : s[j] = "running"
  /\ \A j, k \in Motion : s[j] = "running" /\ s[k] = "running" => j = k

ClockType ==
  /\ motionRunning \in BOOLEAN /\ laneRunning \in BOOLEAN
  /\ timer \in BOOLEAN /\ pump \in BOOLEAN /\ closed \in BOOLEAN
  /\ gapLeft \in 0 .. Gap
  /\ guardLeft \in [Command -> 0 .. Guard]
  /\ waited \in [Command -> Nat]

(* Motion that could start is not left lying: a pump is coming. *)
Awake == pending \cap Motion # {} /\ motionRunning = FALSE => pump = TRUE \/ timer = TRUE

QueueInv ==
  /\ ClockType
  /\ busy \subseteq Command
  /\ Arrived(pending, seq, st, arrivals)
  /\ OneMotion(st, motionRunning)
  /\ OnTime(pending, seq, st, gapLeft, guardLeft, waited)
  /\ closed => pending = {}
  /\ \A j \in Command : st[j] = "new" => waited[j] = 0
  /\ Awake

-----------------------------------------------------------------------------
LEMMA TurnIs == QueueAssumption => Turn \in Nat /\ Turn >= Guard /\ Turn >= Gap
  BY DEF QueueAssumption, Turn

(* A nonempty set of naturals has a least element. *)
LEMMA Least ==
  ASSUME NEW S \in SUBSET Nat, S # {}
  PROVE  \E n \in S : \A k \in S : n <= k
<1> DEFINE R == OpToRel(<, Nat)
<1>1. IsWellFoundedOn(R, Nat)
  BY NatLessThanWellFounded
<1>2. \A x, y \in Nat : x < y => <<x, y>> \in R
  BY DEF OpToRel
<1> HIDE DEF R
<1>3. PICK n \in S : \A k \in S : <<k, n>> \notin R
  BY <1>1, WFMin
<1>4. \A k \in S : k \in Nat /\ n \in Nat
  OBVIOUS
<1>5. \A k \in S : ~(k < n)
  BY <1>2, <1>3, <1>4
<1> QED
  BY <1>3, <1>4, <1>5

(* Among motion jobs the first is the one that came first; there is one.   *)
LEMMA FirstMotion ==
  ASSUME NEW Q \in SUBSET Motion, NEW came \in [Command -> Nat], QueueAssumption
  PROVE  /\ \A j \in FirstOf(Q, came) : j \in Q /\ \A k \in Q : came[j] <= came[k]
         /\ Q # {} => FirstOf(Q, came) # {}
<1>1. \A j \in Q : j \in Motion /\ Rank(j) = 0 /\ came[j] \in Nat
  BY DEF QueueAssumption, Rank
<1>2. \A j \in Q : j \in FirstOf(Q, came) <=> \A k \in Q : came[j] <= came[k]
  BY <1>1 DEF FirstOf
<1>3. FirstOf(Q, came) \subseteq Q
  BY DEF FirstOf
<1>4. ASSUME Q # {} PROVE FirstOf(Q, came) # {}
  <2>1. {came[j] : j \in Q} \in SUBSET Nat /\ {came[j] : j \in Q} # {}
    BY <1>1, <1>4
  <2>2. PICK n \in {came[j] : j \in Q} : \A k \in {came[j] : j \in Q} : n <= k
    BY <2>1, Least
  <2>3. PICK j \in Q : came[j] = n
    BY <2>2
  <2>4. \A k \in Q : came[j] <= came[k]
    BY <2>2, <2>3
  <2> QED
    BY <1>2, <2>3, <2>4
<1> QED
  BY <1>2, <1>3, <1>4

LEMMA StartableIs ==
  ASSUME NEW P, NEW came, NEW s, NEW n, Arrived(P, came, s, n), QueueAssumption,
         motionRunning \in BOOLEAN, P \cap Motion # {}
  PROVE  /\ motionRunning => Startable(P, came) = {}
         /\ ~motionRunning =>
              /\ Startable(P, came) # {}
              /\ \A j \in Startable(P, came) :
                   j \in P \cap Motion /\ \A k \in P \cap Motion : came[j] <= came[k]
<1>1. P \cap Motion \in SUBSET Motion /\ came \in [Command -> Nat]
  BY DEF Arrived
<1>2. ~motionRunning => Startable(P, came) = FirstOf(P \cap Motion, came)
  BY DEF Startable
<1>3. motionRunning => Startable(P, came) = {}
  BY DEF Startable
<1> QED
  BY <1>1, <1>2, <1>3, FirstMotion

(* The sets the bound counts are finite. *)
LEMMA CountIs ==
  ASSUME NEW P, NEW came, NEW s, NEW n, Arrived(P, came, s, n), QueueAssumption, NEW m
  PROVE  /\ IsFiniteSet(Ahead(m, came, s)) /\ IsFiniteSet(Before(m, came, s))
         /\ Cardinality(Ahead(m, came, s)) \in Nat /\ Cardinality(Before(m, came, s)) \in Nat
         /\ Cardinality(Before(m, came, s)) <= Cardinality(Ahead(m, came, s))
<1>1. Ahead(m, came, s) \subseteq {j \in Command : s[j] # "new"}
  BY DEF Ahead, QueueAssumption
<1>2. IsFiniteSet({j \in Command : s[j] # "new"})
  BY DEF Arrived
<1>3. IsFiniteSet(Ahead(m, came, s))
  BY <1>1, <1>2, FS_Subset
<1>4. Before(m, came, s) \subseteq Ahead(m, came, s)
  BY DEF Before
<1> QED
  BY <1>3, <1>4, FS_Subset, FS_CardinalityType

LEMMA FewerBefore ==
  ASSUME NEW S, NEW T, T \subseteq S, IsFiniteSet(S)
  PROVE  /\ IsFiniteSet(T) /\ Cardinality(T) \in Nat /\ Cardinality(S) \in Nat
         /\ Cardinality(T) <= Cardinality(S)
         /\ \A x \in S : x \notin T => Cardinality(T) + 1 <= Cardinality(S)
<1>1. IsFiniteSet(T) /\ Cardinality(T) <= Cardinality(S)
  BY FS_Subset
<1>2. Cardinality(T) \in Nat /\ Cardinality(S) \in Nat
  BY <1>1, FS_CardinalityType
<1>3. ASSUME NEW x \in S, x \notin T PROVE Cardinality(T) + 1 <= Cardinality(S)
  <2>1. T \cup {x} \subseteq S
    BY <1>3
  <2>2. Cardinality(T \cup {x}) = Cardinality(T) + 1
    BY <1>1, <1>3, FS_AddElement
  <2>3. Cardinality(T \cup {x}) <= Cardinality(S)
    BY <2>1, FS_Subset
  <2> QED
    BY <2>2, <2>3
<1> QED
  BY <1>1, <1>2, <1>3

(* A turn less for each job less. *)
LEMMA TurnsAdd ==
  ASSUME NEW t \in Nat, NEW a \in Nat, NEW b \in Nat
  PROVE  /\ t * a \in Nat
         /\ a <= b => t * a <= t * b
         /\ a + 1 <= b => t * a + t <= t * b
<1>1. PICK c : c \in Int /\ c = b - a
  OBVIOUS
<1>2. b = a + c /\ t * b = t * a + t * c
  BY <1>1
<1>3. c >= 0 => t * c >= 0
  BY <1>1
<1>4. c >= 1 => t * c >= t
  BY <1>1
<1>5. t * a \in Nat /\ t * c \in Int
  BY <1>1
<1> QED
  BY <1>1, <1>2, <1>3, <1>4, <1>5

-----------------------------------------------------------------------------
(* A pump that starts nothing leaves the jobs alone, and leaves a pump to  *)
(* come for motion that waits.                                             *)
LEMMA PumpIdles ==
  ASSUME NEW P, NEW came, NEW s, NEW n, NEW t \in BOOLEAN, NEW q \in BOOLEAN,
         QueueAssumption, Arrived(P, came, s, n), motionRunning \in BOOLEAN,
         gapLeft \in 0 .. Gap, closed => P = {},
         Pump(P, came, s, t, q), st' = s
  PROVE  /\ pending' = P /\ UNCHANGED <<lanes, busy, gapLeft, guardLeft>>
         /\ timer' \in BOOLEAN /\ pump' \in BOOLEAN
         /\ P \cap Motion # {} /\ motionRunning = FALSE => timer' = TRUE
<1>1. ASSUME NEW j \in Startable(P, came), st' = [s EXCEPT ![j] = "running"]
      PROVE  FALSE
  <2>1. Startable(P, came) \subseteq P
    BY DEF Startable, FirstOf
  <2> QED
    BY <1>1, <2>1 DEF Arrived
<1>2. \/ /\ t = TRUE \/ closed \/ Startable(P, came) = {}
         /\ pending' = P /\ timer' = t /\ pump' = q
         /\ UNCHANGED <<lanes, busy, gapLeft, guardLeft>>
      \/ /\ timer' = TRUE /\ pending' = P /\ pump' = q
         /\ UNCHANGED <<lanes, busy, gapLeft, guardLeft>>
  BY <1>1 DEF Pump
<1>3. P \cap Motion # {} /\ motionRunning = FALSE => ~closed /\ Startable(P, came) # {}
  BY StartableIs
<1> QED
  BY <1>2, <1>3

Starts(j, P, came, s) ==
  /\ pending' = P \ {j} /\ st' = [s EXCEPT ![j] = "running"]
  /\ busy' = busy \cup {j} /\ guardLeft' = [guardLeft EXCEPT ![j] = Guard]
  /\ j \in Motion => motionRunning' = TRUE /\ UNCHANGED laneRunning
  /\ j \notin Motion => laneRunning' = TRUE /\ UNCHANGED motionRunning
  /\ P \cap Motion # {} => j \in Motion /\ \A k \in P \cap Motion : came[j] <= came[k]

(* A pump that starts a job: the first of the motion jobs if any waits.    *)
LEMMA PumpStarts ==
  ASSUME NEW P, NEW came, NEW s, NEW n, NEW t \in BOOLEAN, NEW q \in BOOLEAN,
         QueueAssumption, Arrived(P, came, s, n), motionRunning \in BOOLEAN,
         gapLeft \in 0 .. Gap,
         Pump(P, came, s, t, q), st' # s
  PROVE  /\ gapLeft = 0 /\ gapLeft' = Gap /\ pump' = TRUE /\ timer' = FALSE /\ closed = FALSE
         /\ motionRunning = FALSE
         /\ \E j \in P : Starts(j, P, came, s)
<1>1. /\ closed = FALSE /\ gapLeft = 0 /\ gapLeft' = Gap /\ timer' = FALSE /\ pump' = TRUE
      /\ \E j \in Startable(P, came) :
           /\ pending' = P \ {j} /\ st' = [s EXCEPT ![j] = "running"]
           /\ IF j \in Motion THEN motionRunning' = TRUE /\ UNCHANGED laneRunning
                              ELSE laneRunning' = TRUE /\ UNCHANGED motionRunning
           /\ busy' = busy \cup {j} /\ guardLeft' = [guardLeft EXCEPT ![j] = Guard]
  BY DEF Pump
<1>2. Startable(P, came) \subseteq P
  BY DEF Startable, FirstOf
<1>3. Startable(P, came) # {} => motionRunning = FALSE
  BY DEF Startable
<1>4. P \cap Motion # {} => \A j \in Startable(P, came) :
                              /\ j \in Motion
                              /\ \A k \in P \cap Motion : came[j] <= came[k]
  BY <1>3, StartableIs
<1> QED
  BY <1>1, <1>2, <1>3, <1>4 DEF Starts

(* Whatever a pump does, the queue is as sound after it as before.         *)
LEMMA PumpInv ==
  ASSUME NEW P, NEW came, NEW s, NEW n, NEW t \in BOOLEAN, NEW q \in BOOLEAN, NEW w,
         QueueAssumption, ClockType, w \in [Command -> Nat], busy \subseteq Command,
         Arrived(P, came, s, n), OneMotion(s, motionRunning),
         OnTime(P, came, s, gapLeft, guardLeft, w),
         closed => P = {}, \A j \in Command : s[j] = "new" => w[j] = 0,
         Pump(P, came, s, t, q), UNCHANGED <<closed, waited>>
  PROVE  /\ ClockType' /\ busy' \subseteq Command
         /\ Arrived(pending', came, st', n)
         /\ OneMotion(st', motionRunning')
         /\ OnTime(pending', came, st', gapLeft', guardLeft', w)
         /\ closed' => pending' = {}
         /\ \A j \in Command : st'[j] = "new" => w[j] = 0
         /\ Awake'
<1>1. motionRunning \in BOOLEAN /\ gapLeft \in 0 .. Gap /\ Gap \in Nat /\ Guard \in Nat
  BY DEF ClockType, QueueAssumption
<1>2. CASE st' = s
  <2>1. /\ pending' = P /\ UNCHANGED <<lanes, busy, gapLeft, guardLeft>>
        /\ timer' \in BOOLEAN /\ pump' \in BOOLEAN
        /\ P \cap Motion # {} /\ motionRunning = FALSE => timer' = TRUE
    BY <1>1, <1>2, PumpIdles
  <2> QED
    BY <1>2, <2>1 DEF ClockType, lanes, Awake
<1>3. CASE st' # s
  <2>1. /\ gapLeft = 0 /\ gapLeft' = Gap /\ pump' = TRUE /\ timer' = FALSE /\ closed = FALSE
        /\ motionRunning = FALSE
    BY <1>1, <1>3, PumpStarts
  <2>2. PICK j \in P : Starts(j, P, came, s)
    BY <1>1, <1>3, PumpStarts
  <2> USE DEF Starts
  <2>3. /\ j \in Command /\ s[j] = "pending" /\ st'[j] = "running"
        /\ \A k \in Command : k # j => st'[k] = s[k]
    BY <2>2 DEF Arrived
  <2>4. ClockType' /\ busy' \subseteq Command
    <3>1. motionRunning' \in BOOLEAN /\ laneRunning' \in BOOLEAN
      BY <2>2 DEF ClockType
    <3>2. guardLeft' \in [Command -> 0 .. Guard]
      <4>1. Guard \in 0 .. Guard /\ guardLeft \in [Command -> 0 .. Guard]
        BY <1>1 DEF ClockType
      <4> QED
        BY <2>2, <4>1
    <3>4. gapLeft' \in 0 .. Gap
      BY <1>1, <2>1
    <3>3. timer' \in BOOLEAN /\ pump' \in BOOLEAN /\ closed' \in BOOLEAN /\ waited' \in [Command -> Nat]
      BY <2>1 DEF ClockType
    <3> QED
      BY <2>2, <2>3, <3>1, <3>2, <3>3, <3>4 DEF ClockType
  <2>5. Arrived(pending', came, st', n)
    <3>1. {k \in Command : st'[k] # "new"} = {k \in Command : s[k] # "new"}
      BY <2>3
    <3>2. pending' = {k \in Command : st'[k] = "pending"}
      BY <2>2, <2>3 DEF Arrived
    <3>3. st' \in [Command -> {"new", "pending", "running"} \cup Answer]
      BY <2>2, <2>3 DEF Arrived
    <3> QED
      BY <2>3, <3>1, <3>2, <3>3 DEF Arrived
  <2>6. OneMotion(st', motionRunning')
    <3>1. \A k \in Motion : s[k] # "running"
      BY <2>1 DEF OneMotion
    <3>2. Motion \subseteq Command
      BY DEF QueueAssumption
    <3> QED
      BY <2>1, <2>2, <2>3, <3>1, <3>2 DEF OneMotion
  <2>7. OnTime(pending', came, st', gapLeft', guardLeft', w)
    <3> SUFFICES ASSUME NEW m \in pending' \cap Motion
                 PROVE  /\ w[m] + gapLeft' + Rest(m, came, st') <= Bound(m, came, st')
                        /\ \A k \in Motion : st'[k] = "running" =>
                             w[m] + guardLeft'[k] + Rest(m, came, st') <= Bound(m, came, st')
      BY DEF OnTime
    <3>1. m \in P \cap Motion /\ m \in Command /\ m # j /\ j \in Motion /\ came[j] <= came[m]
      BY <2>2, <2>3 DEF QueueAssumption
    <3>2. came[j] < came[m]
      BY <2>3, <3>1 DEF Arrived
    <3>3. Ahead(m, came, st') = Ahead(m, came, s)
      BY <2>3 DEF Ahead, QueueAssumption
    <3>4. j \in Before(m, came, s) /\ Before(m, came, st') \subseteq Before(m, came, s)
          /\ j \notin Before(m, came, st')
      BY <2>3, <3>1, <3>2, <3>3 DEF Before, Ahead, QueueAssumption
    <3>5. /\ Cardinality(Before(m, came, st')) \in Nat
          /\ Cardinality(Before(m, came, s)) \in Nat
          /\ Cardinality(Before(m, came, st')) + 1 <= Cardinality(Before(m, came, s))
          /\ Cardinality(Ahead(m, came, s)) \in Nat
      BY <3>4, CountIs, FewerBefore
    <3>6. Turn \in Nat /\ Turn >= Guard /\ Turn >= Gap
      BY TurnIs
    <3>7. /\ Rest(m, came, st') \in Nat /\ Rest(m, came, s) \in Nat
          /\ Rest(m, came, st') + Turn <= Rest(m, came, s)
      BY <3>5, <3>6, TurnsAdd DEF Rest
    <3>8. Bound(m, came, st') = Bound(m, came, s) /\ Bound(m, came, s) \in Nat
      BY <1>1, <3>3, <3>5, <3>6, TurnsAdd DEF Bound
    <3>9. w[m] \in Nat /\ w[m] + Rest(m, came, s) <= Bound(m, came, s)
      BY <2>1, <3>1, <3>7 DEF OnTime
    <3>10. w[m] + gapLeft' + Rest(m, came, st') <= Bound(m, came, st')
      BY <1>1, <2>1, <3>6, <3>7, <3>8, <3>9
    <3>11. ASSUME NEW k \in Motion, st'[k] = "running"
           PROVE  w[m] + guardLeft'[k] + Rest(m, came, st') <= Bound(m, came, st')
      <4>1. k = j
        BY <2>1, <2>3, <3>11 DEF OneMotion, QueueAssumption
      <4>2. guardLeft'[k] = Guard
        BY <2>2, <2>3, <4>1 DEF ClockType
      <4> QED
        BY <1>1, <3>6, <3>7, <3>8, <3>9, <4>2
    <3> QED
      BY <3>10, <3>11
  <2>8. Awake'
    BY <2>1 DEF Awake
  <2> QED
    BY <2>1, <2>3, <2>4, <2>5, <2>6, <2>7, <2>8
<1> QED
  BY <1>2, <1>3

-----------------------------------------------------------------------------
LEMMA QueueInitInv == ASSUME QueueAssumption, QueueInit PROVE QueueInv
<1> USE DEF QueueInit
<1>1. ClockType
  <2>1. 0 \in 0 .. Gap /\ 0 \in 0 .. Guard
    BY DEF QueueAssumption
  <2> QED
    BY <2>1 DEF ClockType
<1>2. Arrived(pending, seq, st, arrivals)
  <2>1. {j \in Command : st[j] # "new"} = {}
    OBVIOUS
  <2> QED
    BY <2>1, FS_EmptySet DEF Arrived
<1>3. OneMotion(st, motionRunning)
  BY DEF OneMotion, QueueAssumption
<1>4. OnTime(pending, seq, st, gapLeft, guardLeft, waited) /\ Awake
  BY DEF OnTime, Awake
<1> QED
  BY <1>1, <1>2, <1>3, <1>4 DEF QueueInv

(* A new job and those it replaces, before the pump. *)
Replaced(j) == {k \in pending : KeyOf[k] = KeyOf[j] /\ KeyOf[j] # NoKey}
WithNew(j)  == (pending \ Replaced(j)) \cup {j}
OrderOf(j)  == [seq EXCEPT ![j] = arrivals + 1]
StatesOf(j) == [k \in Command |-> IF k = j THEN "pending"
                               ELSE IF k \in Replaced(j) THEN "superseded" ELSE st[k]]

LEMMA RunArrives ==
  ASSUME QueueAssumption, QueueInv, NEW j \in Command, st[j] = "new"
  PROVE  /\ Arrived(WithNew(j), OrderOf(j), StatesOf(j), arrivals + 1)
         /\ OneMotion(StatesOf(j), motionRunning)
         /\ OnTime(WithNew(j), OrderOf(j), StatesOf(j), gapLeft, guardLeft, waited)
         /\ \A k \in Command : StatesOf(j)[k] = "new" => waited[k] = 0
<1> DEFINE old == Replaced(j)
           P == WithNew(j)
           came == OrderOf(j)
           s == StatesOf(j)
<1>0. /\ old \in SUBSET pending
      /\ P = (pending \ old) \cup {j}
      /\ came = [seq EXCEPT ![j] = arrivals + 1]
      /\ s = [k \in Command |-> IF k = j THEN "pending" ELSE IF k \in old THEN "superseded" ELSE st[k]]
  BY DEF Replaced, WithNew, OrderOf, StatesOf
<1> USE <1>0
<1> HIDE DEF old, P, came, s
<1>1. /\ pending = {k \in Command : st[k] = "pending"} /\ j \notin old
      /\ seq \in [Command -> Nat] /\ arrivals \in Nat
      /\ \A k \in Command : seq[k] <= arrivals /\ (st[k] \in {"pending", "running"} => seq[k] > 0)
      /\ st \in [Command -> {"new", "pending", "running"} \cup Answer]
  BY DEF QueueInv, Arrived
<1>2. /\ s[j] = "pending" /\ came[j] = arrivals + 1
      /\ \A k \in Command : k # j => /\ came[k] = seq[k]
                                     /\ s[k] = st[k] \/ (st[k] = "pending" /\ s[k] = "superseded")
  BY <1>1
<1>3. Arrived(P, came, s, arrivals + 1)
  <2>1. s \in [Command -> {"new", "pending", "running"} \cup Answer]
    BY <1>1 DEF Answer
  <2>2. P = {k \in Command : s[k] = "pending"}
    BY <1>1, <1>2
  <2>3. came \in [Command -> Nat] /\ arrivals + 1 \in Nat
    BY <1>1
  <2>4. \A k \in Command : came[k] <= arrivals + 1 /\ (s[k] \in {"pending", "running"} => came[k] > 0)
    BY <1>1, <1>2
  <2>5. \A k, l \in Command : came[k] = came[l] /\ came[k] > 0 => k = l
    <3>1. \A k \in Command : k # j => came[k] # came[j]
      BY <1>1, <1>2
    <3> QED
      BY <1>2, <3>1 DEF QueueInv, Arrived
  <2>6. IsFiniteSet({k \in Command : s[k] # "new"})
    <3>1. {k \in Command : s[k] # "new"} = {k \in Command : st[k] # "new"} \cup {j}
      BY <1>2
    <3>2. IsFiniteSet({k \in Command : st[k] # "new"} \cup {j})
      BY FS_AddElement DEF QueueInv, Arrived
    <3> QED
      BY <3>1, <3>2
  <2> QED
    BY <2>1, <2>2, <2>3, <2>4, <2>5, <2>6 DEF Arrived
<1>4. OneMotion(s, motionRunning)
  BY <1>1, <1>2 DEF QueueInv, OneMotion, QueueAssumption
<1>5. \A k \in Command : s[k] = "new" => waited[k] = 0
  BY <1>2 DEF QueueInv
<1>6. ASSUME NEW m \in P \cap Motion
      PROVE  /\ waited[m] + gapLeft + Rest(m, came, s) <= Bound(m, came, s)
             /\ \A k \in Motion : s[k] = "running" =>
                  waited[m] + guardLeft[k] + Rest(m, came, s) <= Bound(m, came, s)
  <2>1. /\ waited[m] \in Nat /\ gapLeft \in Nat /\ gapLeft <= Gap /\ Gap \in Nat /\ Guard \in Nat
        /\ \A k \in Motion : guardLeft[k] \in Nat /\ guardLeft[k] <= Guard
        /\ Motion \subseteq Command
    BY DEF QueueInv, ClockType, QueueAssumption
  <2>2. Turn \in Nat /\ Turn >= Guard /\ Turn >= Gap
    BY TurnIs
  <2>3. /\ Cardinality(Ahead(m, came, s)) \in Nat /\ Cardinality(Before(m, came, s)) \in Nat
        /\ Cardinality(Before(m, came, s)) <= Cardinality(Ahead(m, came, s))
        /\ IsFiniteSet(Ahead(m, came, s))
    BY <1>3, CountIs
  <2>4. /\ Rest(m, came, s) \in Nat /\ Bound(m, came, s) \in Nat
        /\ Gap + Rest(m, came, s) <= Bound(m, came, s)
    BY <2>1, <2>2, <2>3, TurnsAdd DEF Rest, Bound
  <2>5. CASE m = j
    <3>1. waited[m] = 0
      BY <2>5 DEF QueueInv
    <3>2. waited[m] + gapLeft + Rest(m, came, s) <= Bound(m, came, s)
      BY <2>1, <2>4, <3>1
    <3>3. ASSUME NEW k \in Motion, s[k] = "running"
          PROVE  waited[m] + guardLeft[k] + Rest(m, came, s) <= Bound(m, came, s)
      <4>1. k \in Ahead(m, came, s) /\ k \notin Before(m, came, s)
        BY <1>1, <1>2, <2>1, <2>5, <3>3 DEF Ahead, Before
      <4>2. Before(m, came, s) \subseteq Ahead(m, came, s)
        BY DEF Before
      <4>3. Cardinality(Before(m, came, s)) + 1 <= Cardinality(Ahead(m, came, s))
        BY <2>3, <4>1, <4>2, FewerBefore
      <4>4. Rest(m, came, s) + Turn <= Turn * Cardinality(Ahead(m, came, s))
        BY <2>2, <2>3, <4>3, TurnsAdd DEF Rest
      <4>5. Turn * Cardinality(Ahead(m, came, s)) \in Nat
        BY <2>2, <2>3, TurnsAdd
      <4> QED
        BY <2>1, <2>2, <2>4, <3>1, <4>4, <4>5 DEF Bound
    <3> QED
      BY <3>2, <3>3
  <2>6. CASE m # j
    <3>1. m \in pending \cap Motion
      BY <2>6
    <3>2. Ahead(m, came, s) = Ahead(m, seq, st)
      BY <1>1, <1>2, <2>1, <2>6, <3>1 DEF Ahead
    <3>3. Before(m, came, s) \subseteq Before(m, seq, st)
      BY <1>1, <1>2, <2>1, <2>6, <3>1, <3>2 DEF Before, Ahead
    <3>4. IsFiniteSet(Before(m, seq, st))
      BY CountIs DEF QueueInv
    <3>5. /\ Cardinality(Before(m, came, s)) <= Cardinality(Before(m, seq, st))
          /\ Cardinality(Before(m, seq, st)) \in Nat
      BY <3>3, <3>4, FewerBefore
    <3>6. Rest(m, came, s) <= Rest(m, seq, st) /\ Rest(m, seq, st) \in Nat
      BY <2>2, <2>3, <3>5, TurnsAdd DEF Rest
    <3>7. Bound(m, came, s) = Bound(m, seq, st)
      BY <3>2 DEF Bound
    <3>8. /\ waited[m] + gapLeft + Rest(m, seq, st) <= Bound(m, seq, st)
          /\ \A k \in Motion : st[k] = "running" =>
               waited[m] + guardLeft[k] + Rest(m, seq, st) <= Bound(m, seq, st)
      BY <3>1 DEF QueueInv, OnTime
    <3>9. \A k \in Motion : s[k] = "running" => st[k] = "running"
      BY <1>2, <2>1
    <3>10. waited[m] + gapLeft + Rest(m, came, s) <= Bound(m, came, s)
      BY <2>1, <2>4, <3>6, <3>7, <3>8
    <3>11. ASSUME NEW k \in Motion, s[k] = "running"
           PROVE  waited[m] + guardLeft[k] + Rest(m, came, s) <= Bound(m, came, s)
      <4>1. waited[m] + guardLeft[k] + Rest(m, seq, st) <= Bound(m, came, s)
        BY <3>7, <3>8, <3>9, <3>11
      <4> QED
        BY <2>1, <2>4, <3>6, <4>1
    <3> QED
      BY <3>10, <3>11
  <2> QED
    BY <2>5, <2>6
<1> QED
  BY <1>3, <1>4, <1>5, <1>6 DEF OnTime, P, came, s

LEMMA RunInv ==
  ASSUME QueueAssumption, QueueInv, NEW j \in Command, Run(j)
  PROVE  QueueInv'
<1>1. st[j] = "new" /\ UNCHANGED <<closed, waited>>
  BY DEF Run
<1>2. CASE closed
  <2>1. /\ st' = [st EXCEPT ![j] = "refused"]
        /\ UNCHANGED <<queued, lanes, timer, pump, busy, gapLeft, guardLeft>>
    BY <1>2 DEF Run
  <2>2. pending = {} /\ pending' = {}
    BY <1>2, <2>1 DEF QueueInv, queued
  <2>3. Arrived(pending', seq', st', arrivals')
    <3>1. {k \in Command : st'[k] # "new"} = {k \in Command : st[k] # "new"} \cup {j}
      BY <2>1 DEF QueueInv, Arrived
    <3>2. IsFiniteSet({k \in Command : st'[k] # "new"})
      <4>1. IsFiniteSet({k \in Command : st[k] # "new"})
        BY DEF QueueInv, Arrived
      <4> QED
        BY <3>1, <4>1, FS_AddElement
    <3>3. st' \in [Command -> {"new", "pending", "running"} \cup Answer]
      BY <2>1 DEF QueueInv, Arrived, Answer
    <3>4. \A k \in Command : st'[k] \in {"pending", "running"} => st[k] = st'[k]
      BY <2>1 DEF QueueInv, Arrived
    <3>5. pending' = {k \in Command : st'[k] = "pending"}
      BY <2>2, <3>4 DEF QueueInv, Arrived
    <3> QED
      BY <2>1, <3>2, <3>3, <3>4, <3>5 DEF QueueInv, Arrived, queued
  <2>4. OneMotion(st', motionRunning')
    BY <1>1, <2>1 DEF QueueInv, Arrived, OneMotion, lanes, QueueAssumption
  <2>5. ClockType' /\ busy' \subseteq Command
    BY <1>1, <2>1 DEF QueueInv, ClockType, lanes
  <2>6. \A k \in Command : st'[k] = "new" => waited'[k] = 0
    BY <1>1, <2>1 DEF QueueInv, Arrived
  <2> QED
    BY <2>2, <2>3, <2>4, <2>5, <2>6 DEF QueueInv, OnTime, Awake
<1>3. CASE ~closed
  <2>1. /\ arrivals' = arrivals + 1 /\ seq' = OrderOf(j)
        /\ Pump(WithNew(j), OrderOf(j), StatesOf(j), timer, pump)
    BY <1>3 DEF Run, Replaced, WithNew, OrderOf, StatesOf
  <2>2. /\ Arrived(WithNew(j), OrderOf(j), StatesOf(j), arrivals + 1)
        /\ OneMotion(StatesOf(j), motionRunning)
        /\ OnTime(WithNew(j), OrderOf(j), StatesOf(j), gapLeft, guardLeft, waited)
        /\ \A k \in Command : StatesOf(j)[k] = "new" => waited[k] = 0
    BY <1>1, RunArrives
  <2>3. ClockType /\ busy \subseteq Command /\ waited \in [Command -> Nat]
        /\ timer \in BOOLEAN /\ pump \in BOOLEAN
    BY DEF QueueInv, ClockType
  <2> QED
    BY <1>1, <1>3, <2>1, <2>2, <2>3, PumpInv DEF QueueInv
<1> QED
  BY <1>2, <1>3

LEMMA TimersInv ==
  ASSUME QueueAssumption, QueueInv, TimerFires \/ Microtask
  PROVE  QueueInv'
<1>1. ClockType /\ waited \in [Command -> Nat] /\ timer \in BOOLEAN /\ pump \in BOOLEAN
      /\ UNCHANGED <<closed, waited>> /\ UNCHANGED <<seq, arrivals>>
  BY DEF QueueInv, ClockType, TimerFires, Microtask
<1>0. /\ busy \subseteq Command
      /\ Arrived(pending, seq, st, arrivals) /\ OneMotion(st, motionRunning)
      /\ OnTime(pending, seq, st, gapLeft, guardLeft, waited)
      /\ closed => pending = {}
      /\ \A j \in Command : st[j] = "new" => waited[j] = 0
  BY DEF QueueInv
<1>2. \E t, q \in BOOLEAN : Pump(pending, seq, st, t, q)
  <2>1. CASE TimerFires
    <3>1. Pump(pending, seq, st, FALSE, pump)
      BY <2>1 DEF TimerFires
    <3> USE <1>1
    <3> WITNESS FALSE \in BOOLEAN, pump \in BOOLEAN
    <3> QED
      BY <3>1
  <2>2. CASE Microtask
    <3>1. Pump(pending, seq, st, timer, FALSE)
      BY <2>2 DEF Microtask
    <3> USE <1>1
    <3> WITNESS timer \in BOOLEAN, FALSE \in BOOLEAN
    <3> QED
      BY <3>1
  <2> QED
    BY <2>1, <2>2
<1>3. /\ ClockType' /\ busy' \subseteq Command
      /\ Arrived(pending', seq, st', arrivals)
      /\ OneMotion(st', motionRunning')
      /\ OnTime(pending', seq, st', gapLeft', guardLeft', waited)
      /\ closed' => pending' = {}
      /\ \A j \in Command : st'[j] = "new" => waited[j] = 0
      /\ Awake'
  <2>1. PICK t \in BOOLEAN, q \in BOOLEAN : Pump(pending, seq, st, t, q)
    BY <1>2
  <2> QED
    BY <1>0, <1>1, <2>1, PumpInv
<1> QED
  BY <1>1, <1>3 DEF QueueInv

(* A job that leaves the lane: its answer, or its guard. *)
LEMMA EndsInv ==
  ASSUME QueueAssumption, QueueInv, NEW j \in Command, Settle(j) \/ Abandon(j)
  PROVE  QueueInv'
<1>1. UNCHANGED <<queued, timer, closed, clocks>> /\ busy' \subseteq busy
  BY DEF Settle, Abandon
<1>2. CASE st[j] # "running"
  <2>1. UNCHANGED <<st, lanes, pump>>
    BY <1>2 DEF Settle, Abandon
  <2> QED
    BY <1>1, <2>1 DEF QueueInv, ClockType, Awake, queued, clocks, lanes
<1>3. CASE st[j] = "running"
  <2>1. /\ LowerFlag(j) /\ pump' = TRUE
        /\ st' = [st EXCEPT ![j] = "settled"] \/ st' = [st EXCEPT ![j] = "abandoned"]
    BY <1>3 DEF Settle, Abandon
  <2>2. /\ \A k \in Command : k # j => st'[k] = st[k]
        /\ st'[j] \in {"settled", "abandoned"}
        /\ st' \in [Command -> {"new", "pending", "running"} \cup Answer]
    BY <2>1 DEF QueueInv, Arrived, Answer
  <2>3. Arrived(pending', seq', st', arrivals')
    <3>1. {k \in Command : st'[k] # "new"} = {k \in Command : st[k] # "new"}
      BY <1>3, <2>2
    <3>2. {k \in Command : st'[k] = "pending"} = {k \in Command : st[k] = "pending"}
      BY <1>3, <2>2
    <3>3. \A k \in Command : st'[k] \in {"pending", "running"} => st[k] = st'[k]
      BY <2>2
    <3> QED
      BY <1>1, <2>2, <3>1, <3>2, <3>3 DEF QueueInv, Arrived, queued
  <2>4. OneMotion(st', motionRunning')
    <3>1. CASE j \in Motion
      BY <1>3, <2>1, <2>2, <3>1 DEF QueueInv, OneMotion, LowerFlag, QueueAssumption
    <3>2. CASE j \notin Motion
      <4>1. motionRunning' = motionRunning /\ \A k \in Motion : st'[k] = st[k]
        BY <2>1, <2>2, <3>2 DEF LowerFlag, QueueAssumption
      <4> QED
        BY <4>1 DEF QueueInv, OneMotion
    <3> QED
      BY <3>1, <3>2
  <2>5. ClockType'
    BY <1>1, <2>1 DEF QueueInv, ClockType, LowerFlag, clocks
  <2>6. OnTime(pending', seq', st', gapLeft', guardLeft', waited')
    <3>1. \A m : Ahead(m, seq, st') = Ahead(m, seq, st)
      BY <1>3, <2>2 DEF Ahead, QueueAssumption
    <3>2. \A m : Before(m, seq, st') = Before(m, seq, st)
      BY <1>3, <2>2, <3>1 DEF Before, Ahead, QueueAssumption
    <3>3. \A m : Rest(m, seq, st') = Rest(m, seq, st) /\ Bound(m, seq, st') = Bound(m, seq, st)
      BY <3>1, <3>2 DEF Rest, Bound
    <3>4. \A k \in Motion : st'[k] = "running" => st[k] = "running"
      BY <2>2 DEF QueueAssumption
    <3> QED
      BY <1>1, <3>3, <3>4 DEF QueueInv, OnTime, queued, clocks
  <2>7. \A k \in Command : st'[k] = "new" => waited'[k] = 0
    BY <1>1, <2>2 DEF QueueInv, clocks
  <2> QED
    BY <1>1, <2>1, <2>3, <2>4, <2>5, <2>6, <2>7 DEF QueueInv, Awake, queued
<1> QED
  BY <1>2, <1>3

(* Jobs that are dropped from the queue; no motion waits after it. *)
LEMMA DropsInv ==
  ASSUME QueueAssumption, QueueInv, Supersede \/ Close
  PROVE  QueueInv'
<1>1. UNCHANGED <<seq, arrivals, lanes, pump, busy, clocks>>
  BY DEF Supersede, Close
<1>2. /\ pending' \subseteq pending /\ pending' \cap Motion = {}
      /\ \A k \in Command : st'[k] = IF k \in pending \ pending' THEN st'[k] ELSE st[k]
      /\ \A k \in pending \ pending' : st'[k] \in {"superseded", "refused"}
      /\ st' \in [Command -> {"new", "pending", "running"} \cup Answer]
  BY DEF Supersede, Close, QueueInv, Arrived, Answer
<1>3. Arrived(pending', seq', st', arrivals')
  <2>1. {k \in Command : st'[k] # "new"} = {k \in Command : st[k] # "new"}
    BY <1>2 DEF QueueInv, Arrived
  <2>2. pending' = {k \in Command : st'[k] = "pending"}
    BY <1>2 DEF QueueInv, Arrived
  <2>3. \A k \in Command : st'[k] \in {"pending", "running"} => st[k] = st'[k]
    BY <1>2
  <2> QED
    BY <1>1, <1>2, <2>1, <2>2, <2>3 DEF QueueInv, Arrived
<1>4. OneMotion(st', motionRunning')
  <2>1. \A k \in Command : st'[k] = "running" <=> st[k] = "running"
    BY <1>2 DEF QueueInv, Arrived
  <2> QED
    BY <1>1, <2>1 DEF QueueInv, OneMotion, lanes, QueueAssumption
<1>5. ClockType' /\ busy' \subseteq Command
  <2>1. timer' \in BOOLEAN /\ closed' \in BOOLEAN
    BY DEF Supersede, Close, QueueInv, ClockType
  <2> QED
    BY <1>1, <2>1 DEF QueueInv, ClockType, lanes, clocks
<1>6. \A k \in Command : st'[k] = "new" => waited'[k] = 0
  BY <1>1, <1>2 DEF QueueInv, clocks
<1>7. closed' => pending' = {}
  BY <1>2 DEF QueueInv, Supersede, Close
<1> QED
  BY <1>2, <1>3, <1>4, <1>5, <1>6, <1>7 DEF QueueInv, OnTime, Awake

(* Time passes only while the gap or a motion job keeps every motion job   *)
(* queued.                                                                *)
LEMMA TickInv ==
  ASSUME QueueAssumption, QueueInv, Tick
  PROVE  QueueInv'
<1>1. /\ UNCHANGED <<st, queued, lanes, timer, pump, closed, busy>>
      /\ pump = FALSE /\ (timer = TRUE => gapLeft > 0)
      /\ \A j \in Command : st[j] = "running" => guardLeft[j] > 0
      /\ gapLeft' = Down(gapLeft)
      /\ guardLeft' = [j \in Command |-> Down(guardLeft[j])]
      /\ waited' = [j \in Command |-> IF j \in pending \cap Motion THEN waited[j] + 1 ELSE 0]
  BY DEF Tick, QueueInv, ClockType
<1>2. /\ gapLeft \in 0 .. Gap /\ guardLeft \in [Command -> 0 .. Guard] /\ waited \in [Command -> Nat]
      /\ Gap \in Nat /\ Guard \in Nat /\ Motion \subseteq Command
  BY DEF QueueInv, ClockType, QueueAssumption
<1>3. ClockType'
  <2>1. gapLeft' \in 0 .. Gap
    BY <1>1, <1>2 DEF Down
  <2>2. guardLeft' \in [Command -> 0 .. Guard]
    BY <1>1, <1>2 DEF Down
  <2>3. waited' \in [Command -> Nat]
    BY <1>1, <1>2
  <2> QED
    BY <1>1, <2>1, <2>2, <2>3 DEF QueueInv, ClockType, lanes
<1>4. OnTime(pending', seq', st', gapLeft', guardLeft', waited')
  <2> SUFFICES ASSUME NEW m \in pending \cap Motion
               PROVE  /\ waited'[m] + gapLeft' + Rest(m, seq, st) <= Bound(m, seq, st)
                      /\ \A j \in Motion : st[j] = "running" =>
                           waited'[m] + guardLeft'[j] + Rest(m, seq, st) <= Bound(m, seq, st)
    BY <1>1 DEF OnTime, queued
  <2>1. /\ waited[m] + gapLeft + Rest(m, seq, st) <= Bound(m, seq, st)
        /\ \A j \in Motion : st[j] = "running" =>
             waited[m] + guardLeft[j] + Rest(m, seq, st) <= Bound(m, seq, st)
    BY DEF QueueInv, OnTime
  <2>2. /\ Cardinality(Ahead(m, seq, st)) \in Nat /\ Cardinality(Before(m, seq, st)) \in Nat
    BY CountIs DEF QueueInv
  <2>3. Rest(m, seq, st) \in Nat /\ Bound(m, seq, st) \in Nat
    BY <1>2, <2>2, TurnIs, TurnsAdd DEF Rest, Bound
  <2>4. m \in Command /\ waited'[m] = waited[m] + 1 /\ waited[m] \in Nat
    BY <1>1, <1>2
  <2>5. ASSUME NEW j \in Motion, st[j] = "running"
        PROVE  waited'[m] + guardLeft'[j] + Rest(m, seq, st) <= Bound(m, seq, st)
    <3>1. guardLeft'[j] = guardLeft[j] - 1 /\ guardLeft[j] \in Nat /\ guardLeft[j] > 0
      BY <1>1, <1>2, <2>5 DEF Down
    <3>2. waited[m] + guardLeft[j] + Rest(m, seq, st) <= Bound(m, seq, st)
      BY <2>1, <2>5
    <3> QED
      BY <2>3, <2>4, <3>1, <3>2
  <2>6. waited'[m] + gapLeft' + Rest(m, seq, st) <= Bound(m, seq, st)
    <3>1. CASE gapLeft > 0
      <4>1. gapLeft' = gapLeft - 1 /\ gapLeft \in Nat
        BY <1>1, <1>2, <3>1 DEF Down
      <4> QED
        BY <2>1, <2>3, <2>4, <4>1
    <3>2. CASE ~(gapLeft > 0)
      <4>0. gapLeft = 0
        BY <1>2, <3>2
      <4>a. gapLeft' = 0
        BY <1>1, <4>0 DEF Down
      <4>b. timer # TRUE
        BY <1>1, <3>2
      <4>1. gapLeft' = 0 /\ timer # TRUE
        BY <4>a, <4>b
      <4>2. motionRunning = TRUE
        BY <1>1, <4>1 DEF QueueInv, Awake, ClockType
      <4>3. PICK j \in Motion : st[j] = "running"
        BY <4>2 DEF QueueInv, OneMotion
      <4>4. guardLeft[j] \in Nat /\ guardLeft[j] > 0
        BY <1>1, <1>2, <4>3
      <4>5. waited[m] + guardLeft[j] + Rest(m, seq, st) <= Bound(m, seq, st)
        BY <2>1, <4>3
      <4> QED
        BY <2>3, <2>4, <4>1, <4>4, <4>5
    <3> QED
      BY <3>1, <3>2
  <2> QED
    BY <2>5, <2>6
<1>5. \A j \in Command : st'[j] = "new" => waited'[j] = 0
  BY <1>1 DEF QueueInv, Arrived
<1>6. Arrived(pending', seq', st', arrivals') /\ OneMotion(st', motionRunning')
      /\ busy' \subseteq Command /\ (closed' => pending' = {}) /\ Awake'
  BY <1>1 DEF QueueInv, Awake, queued, lanes
<1> QED
  BY <1>3, <1>4, <1>5, <1>6 DEF QueueInv

LEMMA QueueNextInv == ASSUME QueueAssumption, QueueInv, [QueueNext]_queueVars PROVE QueueInv'
<1>1. CASE UNCHANGED queueVars
  BY <1>1 DEF QueueInv, ClockType, Awake, queueVars, queued, lanes, clocks
<1>2. ASSUME QueueNext PROVE QueueInv'
  BY <1>2, RunInv, EndsInv, DropsInv, TimersInv, TickInv DEF QueueNext
<1> QED
  BY <1>1, <1>2

(* One move or stop at a time is with the camera, as far as the queue      *)
(* knows, and the flag of its lane is up exactly then.                     *)
THEOREM OneMotionRuns ==
  ASSUME QueueAssumption
  PROVE  QueueSpec => [](OneMotion(st, motionRunning))
<1>1. QueueInit => QueueInv
  BY QueueInitInv
<1>2. QueueInv /\ [QueueNext]_queueVars => QueueInv'
  BY QueueNextInv
<1>3. QueueInv => OneMotion(st, motionRunning)
  BY DEF QueueInv
<1> QED
  BY <1>1, <1>2, <1>3, PTL DEF QueueSpec

(* A motion job waits at most the gap and one turn for each motion job     *)
(* asked for before it, whatever else is queued, runs or never ends.       *)
THEOREM MotionPrompt ==
  ASSUME QueueAssumption
  PROVE  QueueSpec => []MotionIsPrompt
<1>1. QueueInit => QueueInv
  BY QueueInitInv
<1>2. QueueInv /\ [QueueNext]_queueVars => QueueInv'
  BY QueueNextInv
<1>3. QueueInv => MotionIsPrompt
  <2> SUFFICES ASSUME QueueInv, NEW m \in Motion \cap pending
               PROVE  waited[m] <= Gap + Turn * Cardinality(Ahead(m, seq, st))
    BY DEF MotionIsPrompt, Turn, Ahead
  <2>1. waited[m] + gapLeft + Rest(m, seq, st) <= Bound(m, seq, st)
    BY DEF QueueInv, OnTime
  <2>2. waited[m] \in Nat /\ gapLeft \in Nat /\ Gap \in Nat
    BY DEF QueueInv, ClockType, QueueAssumption
  <2>3. Cardinality(Ahead(m, seq, st)) \in Nat /\ Cardinality(Before(m, seq, st)) \in Nat
    BY CountIs DEF QueueInv
  <2>4. /\ Rest(m, seq, st) \in Nat /\ Bound(m, seq, st) \in Nat
    BY <2>2, <2>3, TurnIs, TurnsAdd DEF Rest, Bound
  <2>5. waited[m] <= Bound(m, seq, st)
    BY <2>1, <2>2, <2>4
  <2> QED
    BY <2>5 DEF Bound
<1> QED
  BY <1>1, <1>2, <1>3, PTL DEF QueueSpec
=============================================================================
