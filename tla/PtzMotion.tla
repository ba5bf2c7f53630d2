------------------------------ MODULE PtzMotion ------------------------------
(***************************************************************************)
(* One PTZ head's velocity control: the MotionController of                *)
(* cambridge/src/ptz/motion.js, the motion lane of the CommandQueue it     *)
(* sends through (cambridge/src/ptz/queue.js), and the head at the far     *)
(* end.  A velocity stays true on the camera until something says stop, so *)
(* every hold has an owner that refreshes it, a deadman that stops it, and *)
(* a stop that is re-sent until the camera takes it.                       *)
(*                                                                         *)
(* Abstractions.  A group's vector is one value of Speed, or Zero; clamp,  *)
(* dead zone and the merge of axes not mentioned choose it.  One call of   *)
(* drive() that names several groups is a Drive step per group (the calls  *)
(* touch disjoint state and nothing runs between them).  Date.now() is     *)
(* replaced by the flag "fresh" of a hold.  The minimum gap between        *)
(* commands only delays StartJob.  A command that is rejected has either   *)
(* taken effect by then or never will.                                     *)
(***************************************************************************)
EXTENDS Naturals, FiniteSets, Sequences, SequencesExt

CONSTANTS Group,    \* the axis groups: panTilt, zoom, focus
          Speed,    \* the vectors that move a group
          Client,   \* who drives: records [src, latch]
          Token,    \* identities of stop loops (at most this many at once)
          None      \* no hold, no vector, no token, no job

Zero   == "zero"
All    == "move:all"

Key    == Group \cup {All}
Vector == Speed \cup {Zero}

Hold   == [v : Speed, by : Client, fresh : BOOLEAN]
Job    == [v : Vector, by : Token \cup {None}]
Flight == [key : Key, v : Vector, by : Token \cup {None}]

ASSUME MotionAssumption ==
  /\ All \notin Group /\ Zero \notin Speed
  /\ None \notin Vector /\ None \notin Token /\ None \notin Key
  /\ None \notin Hold /\ None \notin Job /\ None \notin Flight
  /\ \A c \in Client : c.latch \in BOOLEAN

VARIABLES
  held,         \* group -> the hold, or None
  armed,        \* the 50 ms deadman interval is running
  sent,         \* group -> last vector recorded as accepted, or None
  unconfirmed,  \* key -> token of the stop not yet confirmed, or None
  loop,         \* token -> key of the stop loop it identifies, or None
  waiting,      \* key -> the queued motion job with that key, or None
  order,        \* keys of the queued jobs, oldest first
  running,      \* the motion job in flight, or None
  head,         \* group -> what the camera is doing
  excused       \* history: groups whose stop was given up (see MotionIsOwned)

control == <<held, armed, sent>>
stops   == <<unconfirmed, loop>>
lane    == <<waiting, order, running>>
vars    == <<control, stops, lane, head, excused>>

TypeOK ==
  /\ held \in [Group -> Hold \cup {None}]
  /\ armed \in BOOLEAN
  /\ sent \in [Group -> Vector \cup {None}]
  /\ unconfirmed \in [Key -> Token \cup {None}]
  /\ loop \in [Token -> Key \cup {None}]
  /\ waiting \in [Key -> Job \cup {None}]
  /\ running \in Flight \cup {None}
  /\ head \in [Group -> Vector]
  /\ excused \subseteq Group

Init ==
  /\ held = [g \in Group |-> None]
  /\ armed = FALSE
  /\ sent = [g \in Group |-> None]
  /\ unconfirmed = [k \in Key |-> None]
  /\ loop = [t \in Token |-> None]
  /\ waiting = [k \in Key |-> None]
  /\ order = <<>>
  /\ running = None
  /\ head = [g \in Group |-> Zero]
  /\ excused = {}

-----------------------------------------------------------------------------
IsHeld(g)      == held[g] # None
Outstanding(k) == unconfirmed[k] # None
Idle(t)        == loop[t] = None

(* A loop whose job is neither queued nor in flight is between attempts. *)
InLane(t) == \/ \E k \in Key : waiting[k] # None /\ waiting[k].by = t
             \/ running # None /\ running.by = t

MoveWaiting(g) == waiting[g] # None /\ waiting[g].v # Zero
MoveRunning(g) == running # None /\ running.key = g /\ running.v # Zero
MoveInLane(g)  == MoveWaiting(g) \/ MoveRunning(g)

(* Someone answers for the group: a hold, or a stop not yet confirmed. *)
Owned(g) == IsHeld(g) \/ Outstanding(g) \/ Outstanding(All)

(* moving: held, or a stop not yet confirmed. *)
Moving == (\E g \in Group : IsHeld(g)) \/ (\E k \in Key : Outstanding(k))

(* #send returns without sending. *)
Suppressed(g, v) == sent[g] = v /\ ~(v = Zero /\ Outstanding(g))

StillWanted(k) == IF k = All THEN \A g \in Group : ~IsHeld(g) ELSE ~IsHeld(k)

(* #arm after held becomes h, #disarm at the end of #check. *)
NeedsDeadman(h) == \E g \in Group : h[g] # None /\ ~h[g].by.latch

(* queue.run for the keys K: a queued job with the same key is replaced.   *)
Enqueue(K, job) ==
  /\ waiting' = [k \in Key |-> IF k \in K THEN job[k] ELSE waiting[k]]
  /\ \E s \in SetToSeqs(K) :
       order' = SelectSeq(order, LAMBDA k : k \notin K) \o s

(* #stop(key, ...): a new token takes the key over and its first attempt   *)
(* is queued at once.                                                      *)
BeginStops(K) ==
  \E tok \in [K -> {t \in Token : Idle(t)}] :
    /\ IsInjective(tok)
    /\ unconfirmed' = [k \in Key |-> IF k \in K THEN tok[k] ELSE unconfirmed[k]]
    /\ loop' = [t \in Token |-> IF \E k \in K : tok[k] = t
                                THEN CHOOSE k \in K : tok[k] = t ELSE loop[t]]
    /\ Enqueue(K, [k \in K |-> [v |-> Zero, by |-> tok[k]]])

(* The groups G are let go: each is sent a zero vector.                    *)
LetGo(G) ==
  LET T == {g \in G : ~Suppressed(g, Zero)} IN
  /\ held' = [g \in Group |-> IF g \in G THEN None ELSE held[g]]
  /\ sent' = [g \in Group |-> IF g \in T THEN None ELSE sent[g]]
  /\ BeginStops(T)
  /\ UNCHANGED <<running, head, excused>>

-----------------------------------------------------------------------------
(* drive(v) with a vector that moves the group; also the refresh. *)
Drive(g, v, c) ==
  /\ held' = [held EXCEPT ![g] = [v |-> v, by |-> c, fresh |-> TRUE]]
  /\ armed' = (armed \/ NeedsDeadman(held'))
  /\ IF Suppressed(g, v)
     THEN UNCHANGED <<sent, waiting, order, excused>>
     ELSE /\ sent' = [sent EXCEPT ![g] = v]
          /\ Enqueue({g}, [k \in {g} |-> [v |-> v, by |-> None]])
          /\ excused' = excused \ {g}
  /\ UNCHANGED <<stops, running, head>>

(* drive(v) with the group's axes all zero. *)
DriveZero(g) ==
  /\ LetGo({g})
  /\ armed' = (armed \/ NeedsDeadman(held'))

(* releaseSource(source): its connection went away. *)
ReleaseSource(src) ==
  /\ LetGo({g \in Group : IsHeld(g) /\ held[g].by.src = src})
  /\ UNCHANGED armed

(* Time passes: a hold that may time out is not refreshed within holdMs. *)
Expire(g) ==
  /\ IsHeld(g) /\ ~held[g].by.latch /\ held[g].fresh
  /\ held' = [held EXCEPT ![g].fresh = FALSE]
  /\ UNCHANGED <<armed, sent, stops, lane, head, excused>>

(* #check, the deadman tick. *)
Check ==
  /\ armed
  /\ LetGo({g \in Group : IsHeld(g) /\ ~held[g].fresh})
  /\ armed' = NeedsDeadman(held')

(* stopAll(): holds are cleared, queued moves and stops superseded.        *)
StopAll ==
  /\ held' = [g \in Group |-> None]
  /\ armed' = FALSE
  /\ \E t \in Token :
       /\ Idle(t)
       /\ unconfirmed' = [unconfirmed EXCEPT ![All] = t]
       /\ loop' = [loop EXCEPT ![t] = All]
       /\ waiting' = [k \in Key |-> IF k = All THEN [v |-> Zero, by |-> t] ELSE None]
  /\ order' = <<All>>
  /\ UNCHANGED <<sent, running, head, excused>>

-----------------------------------------------------------------------------
(* #pump: the oldest motion job starts when no other motion job runs.      *)
StartJob ==
  /\ running = None /\ order # <<>>
  /\ \E k \in Key :
       /\ k = Head(order) /\ waiting[k] # None
       /\ running' = [key |-> k, v |-> waiting[k].v, by |-> waiting[k].by]
       /\ waiting' = [waiting EXCEPT ![k] = None]
  /\ order' = Tail(order)
  /\ UNCHANGED <<control, stops, head, excused>>

(* What the head does once the groups G have obeyed the job in flight. *)
Obeyed(G) == [g \in Group |-> IF g \in G THEN running.v ELSE head[g]]
Reach     == IF running.key = All THEN Group ELSE {running.key}

(* The camera took a move. *)
MoveTaken ==
  /\ running # None /\ running.v # Zero
  /\ head' = Obeyed(Reach)
  /\ running' = None
  /\ UNCHANGED <<control, stops, waiting, order, excused>>

(* Mutant: the confirmation is recorded in sent by any stop of the group.  *)
MutStopTaken ==
  /\ running # None /\ running.v = Zero
  /\ LET k == running.key
         t == running.by
         owns == unconfirmed[k] = t IN
     /\ loop' = [loop EXCEPT ![t] = None]
     /\ unconfirmed' = IF owns THEN [unconfirmed EXCEPT ![k] = None] ELSE unconfirmed
     /\ sent' = IF k # All THEN [sent EXCEPT ![k] = Zero] ELSE sent
     /\ excused' = {g \in excused \cup (IF owns THEN {k} \cap Group ELSE {}) :
                      g \in Reach => MoveWaiting(g)}
  /\ head' = Obeyed(Reach)
  /\ running' = None
  /\ UNCHANGED <<held, armed, waiting, order>>

(* The camera took a stop: the loop ends, and if the key is still its own  *)
(* the stop is confirmed.  A group stop is recorded in sent, whatever was  *)
(* queued for that group meanwhile.                                        *)
StopTaken ==
  /\ running # None /\ running.v = Zero
  /\ LET k == running.key
         t == running.by
         owns == unconfirmed[k] = t IN
     /\ loop' = [loop EXCEPT ![t] = None]
     /\ unconfirmed' = IF owns THEN [unconfirmed EXCEPT ![k] = None] ELSE unconfirmed
     /\ sent' = IF owns /\ k # All THEN [sent EXCEPT ![k] = Zero] ELSE sent
     /\ excused' = {g \in excused \cup (IF owns THEN {k} \cap Group ELSE {}) :
                      g \in Reach => MoveWaiting(g)}
  /\ head' = Obeyed(Reach)
  /\ running' = None
  /\ UNCHANGED <<held, armed, waiting, order>>

(* Mutant: a stop that fails is given up like a move. *)
MutJobFails ==
  /\ running # None
  /\ \E G \in SUBSET Reach : head' = Obeyed(G)
  /\ sent' = IF running.v = Zero THEN sent ELSE [sent EXCEPT ![running.key] = None]
  /\ IF running.v = Zero
     THEN /\ loop' = [loop EXCEPT ![running.by] = None]
          /\ unconfirmed' = IF unconfirmed[running.key] = running.by
                            THEN [unconfirmed EXCEPT ![running.key] = None] ELSE unconfirmed
     ELSE UNCHANGED stops
  /\ running' = None
  /\ UNCHANGED <<held, armed, waiting, order, excused>>

(* The command failed: it never arrived, or only its answer was lost, or a *)
(* stop() of several requests failed part way.                             *)
JobFails ==
  /\ running # None
  /\ \E G \in SUBSET Reach : head' = Obeyed(G)
  /\ sent' = IF running.v = Zero THEN sent ELSE [sent EXCEPT ![running.key] = None]
  /\ running' = None
  /\ UNCHANGED <<held, armed, stops, waiting, order, excused>>

(* A stop loop goes round again: after its pause, or because its queued    *)
(* job was superseded.                                                     *)
StandDown(t) ==
  LET k == loop[t] IN
  /\ ~Idle(t) /\ ~InLane(t)
  /\ unconfirmed[k] # t \/ ~StillWanted(k)
  /\ loop' = [loop EXCEPT ![t] = None]
  /\ unconfirmed' = IF unconfirmed[k] = t THEN [unconfirmed EXCEPT ![k] = None] ELSE unconfirmed
  /\ excused' = IF unconfirmed[k] = t
                THEN excused \cup {g \in Group : ~IsHeld(g) /\ ~Outstanding(g)
                                                 /\ (head[g] # Zero \/ MoveInLane(g))}
                ELSE excused
  /\ UNCHANGED <<control, lane, head>>

Retry(t) ==
  LET k == loop[t] IN
  /\ ~Idle(t) /\ ~InLane(t)
  /\ unconfirmed[k] = t /\ StillWanted(k)
  /\ Enqueue({k}, [x \in {k} |-> [v |-> Zero, by |-> t]])
  /\ UNCHANGED <<control, stops, running, head, excused>>

-----------------------------------------------------------------------------
Operator ==
  \/ \E g \in Group, v \in Speed, c \in Client : Drive(g, v, c)
  \/ \E g \in Group : DriveZero(g)
  \/ \E c \in Client : ReleaseSource(c.src)
  \/ StopAll

Next ==
  \/ Operator
  \/ \E g \in Group : Expire(g)
  \/ Check
  \/ StartJob
  \/ MoveTaken
  \/ StopTaken
  \/ JobFails
  \/ \E t \in Token : StandDown(t) \/ Retry(t)

Spec == Init /\ [][Next]_vars

-----------------------------------------------------------------------------
(* A group that moves is answered for: somebody holds it, or a stop for it *)
(* is outstanding and still being re-sent.  "excused" names the only two   *)
(* ways the code has of losing a moving group: a stop confirmed while a    *)
(* newer move of that group waits (StopTaken), and a stop-all given up     *)
(* because another group was driven (StandDown).                           *)
MotionIsOwned == \A g \in Group : head[g] # Zero => Owned(g) \/ g \in excused

(* A stop that #send swallows as a duplicate (motion.js:146) is one the    *)
(* head has obeyed and no move is on its way to undo, unless excused.      *)
SwallowedStopIsDone ==
  \A g \in Group : Suppressed(g, Zero) =>
    (head[g] = Zero /\ ~MoveInLane(g)) \/ g \in excused

(* Every hold that needs refreshing is watched: #arm, #disarm and the      *)
(* disarm at the end of #check never leave one without a running timer.    *)
DeadmanWatches == NeedsDeadman(held) => armed
=============================================================================
