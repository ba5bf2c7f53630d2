----------------------------- MODULE PtzSettings -----------------------------
(***************************************************************************)
(* The settings of one PTZ camera, from the body to the panel and back:    *)
(* reading and writing them over a connection that comes and goes          *)
(* (cambridge/src/ptz/lifecycle.js), the panel's copy of them (state.js)   *)
(* and the writes, recalls, undos and reverts operators make at the same   *)
(* time (server.js), which share one history and one switch that suspends  *)
(* it.  Each handler runs to its next await.                               *)
(*                                                                         *)
(* Abstractions.  Motion has a lane of its own (PtzQueue) and is left out; *)
(* so are heartbeat, position and status, which carry no settings.  A read *)
(* asks for one setting (readBatch 1).  Connection attempts that fail are  *)
(* one attempt that takes longer.  "None" is a value that is not known;    *)
(* "slips" is a history variable: what happened that the code does not     *)
(* guard its history against (see PROPERTIES).                             *)
(***************************************************************************)
EXTENDS UndoHistory

CONSTANTS Order,      \* the settings, in the order the driver lists them
          Value,
          Initially,  \* what the camera is set to at first: [Prop -> Value]
          Preset,     \* what the saved preset holds: [Prop -> Value]
          MaxEvents   \* bound: operators' requests, commands refused or
                      \* unanswered, connections lost and changes made
                      \* elsewhere, together

VARIABLES
  actual,       \* what the camera is set to
  phase,        \* "down" | "identify" | "first" | "up": the connection
  conn,         \* gen: which connection attempt this is
  pending,      \* the queue's waiting jobs, in arrival order
  running,      \* its running job, or None
  late,         \* the job a closed queue left on the wire, or None
  values,       \* the camera object's copy
  unavailable,  \* settings this camera turned out not to offer
  inflight,     \* a settings poll is marked as in flight
  cursor,       \* where the next settings poll goes on
  shown,        \* the panel's copy: properties of the state model
  history, suspended,  \* UndoHistory: entries and switch
  events, slips

link   == <<phase, conn>>
copies == <<values, unavailable, shown>>
poll   == <<inflight, cursor>>
undo   == <<history, suspended>>
vars   == <<actual, link, pending, running, late, copies, poll, undo, events, slips>>

Prop     == Range(Order)
Todo     == [prop : Prop, value : Value]
Nothing  == [p \in Prop |-> None]
Connected == phase \in {"first", "up"}
Open     == phase # "down"        \* this.queue takes jobs

Read(who, props) ==
  [kind |-> "read", who |-> who, prop |-> Head(props), rest |-> Tail(props),
   value |-> None, stage |-> "sent", of |-> conn]
Write(who, prop, value, before, rest) ==
  [kind |-> "write", who |-> who, prop |-> prop, rest |-> rest, value |-> value,
   before |-> before, was |-> Nothing, stage |-> "sent", of |-> conn]

Stage    == {"sent", "done", "refused", "lost"}
ReadJob  == [kind : {"read"}, who : {"first", "poll", "reread"}, prop : Prop, rest : Seq(Prop),
             value : Value \cup {None}, stage : Stage, of : Nat]
WriteJob == [kind : {"write"}, who : {"set", "recall", "undo", "revert"}, prop : Prop,
             rest : Seq(Todo), value : Value, before : Value \cup {None},
             was : [Prop -> Value \cup {None}], stage : Stage, of : Nat]
Job      == ReadJob \cup WriteJob
Entry    == [kind : {"write"}, prop : Prop, from : Value, to : Value,
             was : [Prop -> Value], of : Nat]
            \cup [kind : {"mark"}, was : [Prop -> Value]]

ASSUME SettingsAssumption ==
  /\ Order \in Seq(Prop) /\ Order # <<>> /\ IsInjective(Order)
  /\ Initially \in [Prop -> Value] /\ Preset \in [Prop -> Value]
  /\ None \notin Value /\ None \notin Job
  /\ Limit \in Nat \ {0} /\ MaxEvents \in Nat

Jobs      == ({running, late} \cup Range(pending)) \ {None}
OpenWrites == {j \in Jobs : j.kind = "write"}
Undoing   == {j \in OpenWrites : j.who \in {"undo", "revert"}}
Polled(j) == j.kind = "read" /\ j.who \in {"poll", "first"}   \* PRIORITY.POLL

Init ==
  /\ actual = Initially
  /\ phase = "down" /\ conn = 0
  /\ pending = <<>> /\ running = None /\ late = None
  /\ values = Nothing /\ unavailable = {} /\ shown = Nothing
  /\ inflight = FALSE /\ cursor = 1
  /\ history = <<>> /\ suspended = FALSE
  /\ events = 0 /\ slips = {}

(* Of the slips that leave the history without a promise, one is kept.     *)
Slip(which) ==
  LET grave(S) == S \ {"late", "lateRead"}
      kept     == which \ (IF grave(slips) # {} THEN grave(which) ELSE {})
  IN slips' = slips \cup kept
When(test, which) == IF test THEN {which} ELSE {}

-----------------------------------------------------------------------------
(* THE QUEUE AND THE WIRE *)

(* The next job: writes and the reads that follow them go first. *)
Foremost ==
  LET urgent == {i \in DOMAIN pending : ~Polled(pending[i])}
      ready  == IF urgent # {} THEN urgent ELSE DOMAIN pending
  IN CHOOSE i \in ready : \A j \in ready : i <= j

(* What a command can meet: the camera does it, refuses it, never hears    *)
(* it, or does it and is not heard.                                        *)
Outcomes(j) ==
  LET done == IF j.kind = "read" THEN actual ELSE [actual EXCEPT ![j.prop] = j.value]
      told(s) == IF j.kind = "read" THEN [j EXCEPT !.value = actual[j.prop], !.stage = s]
                                    ELSE [j EXCEPT !.was = actual, !.stage = s]
  IN {[job |-> told("done"), actual |-> done, fault |-> 0, slip |-> {}]} \cup
     {[job |-> told("refused"), actual |-> actual, fault |-> 1, slip |-> {}],
      [job |-> told("lost"), actual |-> actual, fault |-> 1, slip |-> {}],
      [job |-> told("lost"), actual |-> done, fault |-> 1,
       slip |-> When(done # actual, "unheard")]}

Meets(o) ==
  /\ events' = events + o.fault /\ events' <= MaxEvents
  /\ actual' = o.actual /\ Slip(o.slip)
  /\ UNCHANGED <<link, copies, poll, undo>>

(* The queue is idle: the next job starts, and the camera meets it. *)
Reach ==
  /\ running = None /\ pending # <<>>
  /\ \E o \in Outcomes(pending[Foremost]) : Meets(o) /\ running' = o.job
  /\ pending' = RemoveAt(pending, Foremost)
  /\ UNCHANGED late

ReachLate ==
  /\ late # None /\ late.stage = "sent"
  /\ \E o \in Outcomes(late) : Meets(o) /\ late' = o.job
  /\ UNCHANGED <<running, pending>>

-----------------------------------------------------------------------------
(* ANSWERS.  The handler of an answer does not look at whether the         *)
(* connection it belongs to is still there.                                *)


Enqueue(new) == IF Open THEN pending' = pending \o new ELSE pending' = pending

Gone(j) == (IF j = running THEN running' = None /\ UNCHANGED late
                           ELSE late' = None /\ UNCHANGED running)

(* Mutant: the history outlives the connection. *)
MutDrop ==
  /\ phase' = "down" /\ pending' = <<>> /\ inflight' = FALSE
  /\ shown' = Nothing /\ history' = history
  /\ suspended' = (suspended /\ \A i \in DOMAIN pending :
                                   pending[i] \in Undoing => late' = pending[i])

(* #drop() and #teardown(): the queue rejects what waits, and the panel's  *)
(* copy and the history are forgotten.  The running job stays on the wire. *)
Drop ==
  /\ phase' = "down" /\ pending' = <<>> /\ inflight' = FALSE
  /\ shown' = Nothing /\ history' = <<>>
  /\ suspended' = (suspended /\ \A i \in DOMAIN pending :
                                   pending[i] \in Undoing => late' = pending[i])

(* A read brings its value: #absorb announces only what differs from the   *)
(* camera object's copy.  A refused one is not asked for again.            *)
Absorb(j) ==
  /\ values' = IF j.stage = "done" THEN [values EXCEPT ![j.prop] = j.value] ELSE values
  /\ shown' = IF values' # values THEN [shown EXCEPT ![j.prop] = j.value] ELSE shown
  /\ unavailable' = IF j.stage = "refused" THEN unavailable \cup {j.prop} ELSE unavailable

(* #readEntries goes on with its next batch, on whatever queue is open.    *)
ReadGoesOn(j) ==
  /\ j.kind = "read" /\ j.stage \in {"done", "refused"} /\ j.rest # <<>> /\ Open
  /\ Gone(j) /\ Absorb(j)
  /\ pending' = Append(pending, [Read(j.who, j.rest) EXCEPT !.of = j.of])
  /\ UNCHANGED <<actual, link, poll, undo, events, slips>>

(* Mutant: the mark is only removed when the poll went well. *)
MutPollEnds(j) ==
  inflight' = (inflight /\ ~(j.who = "poll" /\ j.stage # "lost"))

(* The mark of a poll is removed however the poll ended. *)
PollEnds(j) == inflight' = (inflight /\ j.who # "poll")

(* The reader's last batch, or one that raised.  The first read makes the  *)
(* connection complete, unless another attempt has begun meanwhile.        *)
ReadEnds(j) ==
  /\ j.kind = "read" /\ (j.stage = "lost" \/ j.rest = <<>> \/ ~Open)
  /\ ~(j.who = "first" /\ j.stage = "lost" /\ phase = "first" /\ j.of = conn)
  /\ Gone(j) /\ Absorb(j) /\ PollEnds(j)
  /\ phase' = IF phase = "first" /\ j.who = "first" /\ j.of = conn THEN "up" ELSE phase
  /\ Slip(When(~Connected \/ j.of # conn, "lateRead"))
  /\ UNCHANGED <<actual, conn, pending, cursor, undo, events>>

FirstReadFails(j) ==
  /\ j.kind = "read" /\ j.who = "first" /\ j.stage = "lost" /\ phase = "first" /\ j.of = conn
  /\ Gone(j) /\ Drop
  /\ UNCHANGED <<actual, conn, values, unavailable, cursor, events, slips>>

(* The writes of a revert that the camera can be asked for. *)
Askable(todo) ==
  IF Connected THEN Sift(todo, {i \in DOMAIN todo : todo[i].prop \notin unavailable}) ELSE <<>>

Undoes(who, todo) ==
  LET left == Askable(todo) IN
  IF left = <<>> THEN <<>>
  ELSE <<Write(who, Head(left).prop, Head(left).value, shown[Head(left).prop], Tail(left))>>

Enters(j) == ~suspended /\ j.stage = "done"

(* refreshProperties, after a write that was taken, and once for a recall  *)
(* or a revert: here after any write of theirs, or after none.             *)
Refreshed(j) ==
  IF j.who \in {"recall", "revert"} THEN {shown, values}
  ELSE {IF j.stage = "done" THEN values ELSE shown}

(* A write is answered: it enters the history, with the value the panel    *)
(* had when it was asked for; the setting is read again; a revert goes on; *)
(* an undo's or a revert's end lets the history record again.              *)
WriteAnswered(j, soon) ==
  LET ok    == j.stage = "done"
      mine  == j.who \in {"undo", "revert"}
      next  == IF mine THEN Undoes(j.who, j.rest) ELSE <<>>
      entry == [kind |-> "write", prop |-> j.prop, from |-> j.before, to |-> j.value,
                was |-> j.was, of |-> j.of]
  IN
  /\ j.kind = "write" /\ j.stage # "sent"
  /\ Gone(j)
  /\ history' = IF Enters(j) THEN Record(history, entry, soon) ELSE history
  /\ suspended' = IF mine /\ next = <<>> THEN FALSE ELSE suspended
  /\ Enqueue((IF ok THEN <<Read("reread", <<j.prop>>)>> ELSE <<>>) \o next)
  /\ shown' \in Refreshed(j)
  /\ Slip(When(~Connected \/ j.of # conn, "late")
          \cup When(ok /\ j.before # j.was[j.prop], "lagged")
          \cup When(Enters(j) /\ Folds(history, entry, soon)
                      /\ \E k \in Writes(history) : k > Newest(Foldable(history, j.prop)),
                    "folded over")
          \cup When(ok /\ ~mine /\ suspended, "hushed")
          \cup When(mine /\ (~ok \/ Askable(j.rest) # j.rest), "unmade"))
  /\ UNCHANGED <<actual, link, values, unavailable, poll, events>>

Settle == \E j \in {running, late} \ {None} :
            \/ ReadGoesOn(j) \/ ReadEnds(j) \/ FirstReadFails(j)
            \/ \E soon \in BOOLEAN : WriteAnswered(j, soon)

-----------------------------------------------------------------------------
(* THE CONNECTION *)

(* Whether its running job has met the camera or not, it is still on the wire. *)
TickDrops ==
  LET out == IF running # None THEN {running}
             ELSE {None} \cup {pending[i] : i \in {k \in DOMAIN pending : k = Foremost}}
  IN
  /\ phase = "up" /\ late = None
  /\ events < MaxEvents /\ events' = events + 1
  /\ late' \in out /\ running' = None
  /\ Drop
  /\ UNCHANGED <<actual, conn, values, unavailable, cursor, slips>>

(* #attempt with a new queue and driver. *)
Connect ==
  /\ phase = "down" /\ phase' = "identify" /\ conn' = conn + 1
  /\ UNCHANGED <<actual, pending, running, late, copies, poll, undo, events, slips>>

(* The camera answered who it is: the copies start empty, all is read.     *)
Identified ==
  /\ phase = "identify" /\ phase' = "first"
  /\ values' = Nothing /\ unavailable' = {} /\ shown' = Nothing
  /\ pending' = Append(pending, Read("first", Order))
  /\ UNCHANGED <<actual, conn, running, late, poll, undo, events, slips>>

(* The tick's settings poll: one batch, and the cursor moves on.           *)
Poll ==
  LET list == Sift(Order, {i \in DOMAIN Order : Order[i] \notin unavailable})
      at   == IF cursor > Len(list) THEN 1 ELSE cursor
  IN
  /\ phase = "up" /\ ~inflight /\ list # <<>>
  /\ inflight' = TRUE /\ cursor' = at + 1
  /\ pending' = Append(pending, Read("poll", <<list[at]>>))
  /\ UNCHANGED <<actual, link, running, late, copies, undo, events, slips>>

(* Someone changes the camera elsewhere. *)
Turn(p, v) ==
  /\ events < MaxEvents /\ events' = events + 1
  /\ actual[p] # v /\ actual' = [actual EXCEPT ![p] = v]
  /\ Slip({"outside"})
  /\ UNCHANGED <<link, pending, running, late, copies, poll, undo>>

-----------------------------------------------------------------------------
(* WHAT OPERATORS ASK *)

Asks ==
  /\ events < MaxEvents /\ events' = events + 1
  /\ UNCHANGED <<actual, link, running, late, copies, poll>>

Crossing == When(OpenWrites # {}, "crossed")

(* A setting is set from any surface: "before" is what the panel shows.    *)
Set(p, v) ==
  /\ Asks /\ Connected /\ p \notin unavailable /\ v # shown[p]
  /\ pending' = Append(pending, Write("set", p, v, shown[p], <<>>))
  /\ UNCHANGED <<undo, slips>>

(* A preset is recalled: a mark first, connected or not, then all its      *)
(* writes at once, of the settings the panel has a value of.               *)
Recall ==
  LET known == Sift(Order, {i \in DOMAIN Order :
                              shown[Order[i]] # None /\ Order[i] \notin unavailable}) IN
  /\ Asks
  /\ history' = Push(history, [kind |-> "mark", was |-> actual])
  /\ pending' = IF ~Connected THEN pending ELSE
       pending \o [i \in DOMAIN known |->
                     Write("recall", known[i], Preset[known[i]], shown[known[i]], <<>>)]
  /\ Slip(Crossing) /\ UNCHANGED suspended

(* applyWithoutHistory: what is taken back leaves the history before the   *)
(* camera is asked, and nothing is recorded until it has answered.         *)
TakeBack(who, list, todo, more) ==
  LET first == Undoes(who, todo) IN
  /\ Asks
  /\ history' = list
  /\ Enqueue(first) /\ suspended' = (first # <<>>)
  /\ Slip(more \cup Crossing
          \cup When(Askable(todo) # todo, "unmade"))

Undo ==
  /\ Writes(history) # {}
  /\ LET p == PopLast(history) IN
     TakeBack("undo", p.list, <<[prop |-> p.entry.prop, value |-> p.entry.from]>>,
              When(\E m \in Marks(history) : m > Newest(Writes(history)), "stepped over"))

Revert ==
  /\ Marks(history) # {}
  /\ LET p == PopToMark(history)
         touched == Sift(Order, {i \in DOMAIN Order : Order[i] \in DOMAIN p.values})
     IN TakeBack("revert", p.list,
                 [i \in DOMAIN touched |-> [prop |-> touched[i], value |-> p.values[touched[i]]]], {})

AnAsk == (\E p \in Prop, v \in Value : Set(p, v)) \/ Recall \/ Undo \/ Revert

Next ==
  \/ Reach \/ ReachLate \/ Settle
  \/ TickDrops \/ Connect \/ Identified \/ Poll
  \/ \E p \in Prop, v \in Value : Turn(p, v)
  \/ AnAsk

Spec == Init /\ [][Next]_vars

(* Drivers time their requests out, timers go off: nothing waits for ever. *)
Fairness ==
  /\ WF_vars(Reach) /\ WF_vars(ReachLate) /\ WF_vars(Settle)
  /\ WF_vars(Connect) /\ WF_vars(Identified) /\ WF_vars(Poll)

FairSpec == Spec /\ Fairness

-----------------------------------------------------------------------------
(* PROPERTIES *)

TypeOK ==
  /\ pending \in Seq(Job) /\ running \in Job \cup {None} /\ late \in Job \cup {None}
  /\ history \in Seq(Entry) /\ Len(history) <= Limit
  /\ actual \in [Prop -> Value]
  /\ phase \in {"down", "identify", "first", "up"} /\ conn \in Nat
  /\ values \in [Prop -> Value \cup {None}] /\ shown \in [Prop -> Value \cup {None}]
  /\ unavailable \subseteq Prop /\ inflight \in BOOLEAN /\ cursor \in 1..(Len(Order) + 1)
  /\ suspended \in BOOLEAN /\ events \in 0..MaxEvents

(* What putting back every entry from place i on would make of the camera. *)
Rewound(i) ==
  LET put == Before(history, i) IN [p \in Prop |-> IF p \in DOMAIN put THEN put[p] ELSE actual[p]]

(* Whenever no write is open, taking the history back, as far as any entry *)
(* or mark, brings the camera to exactly what it was set to before that    *)
(* entry - over folded writes, recalls, undos and reverts - unless         *)
(*   outside: somebody set the camera elsewhere;                           *)
(*   lagged, unheard: the value before came from a panel that was behind,  *)
(*     or the answer of a write the camera made was lost;                  *)
(*   crossed: an undo, revert or recall was asked for while a write was    *)
(*     open;                                                               *)
(*   hushed: a write was answered while an undo or revert was open;        *)
(*   folded over: a write was folded into an entry older than the last, so *)
(*     that an undo takes back another setting than the one set last;      *)
(*   unmade, stepped over: the camera did not make what was taken back, or *)
(*     an undo went past the mark of a recall;                             *)
(*   late: the answer came over a connection already given up.             *)
HistoryLeadsBack ==
  (OpenWrites = {} /\ slips \subseteq {"lateRead"}) =>
     \A i \in DOMAIN history : Rewound(i) = history[i].was

(* An outage leaves neither values on the panel nor writes to undo, and no *)
(* later connection offers to undo a write of an earlier one - unless an   *)
(* answer came after its connection was given up.                          *)
OutageForgets ==
  /\ ~Connected => (shown = Nothing \/ slips \cap {"lateRead", "late"} # {})
  /\ "late" \notin slips => \A i \in Writes(history) : Connected /\ history[i].of = conn

(* When changes, requests and trouble have come to an end, the panel comes  *)
(* to show what the camera is set to, for good, in every setting the       *)
(* camera has not refused to tell.                                         *)
PanelFollows ==
  <>[](phase = "up" /\ \A p \in Prop \ unavailable : shown[p] = actual[p])
=============================================================================
