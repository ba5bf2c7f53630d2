---------------------------------- MODULE Rig ----------------------------------
(***************************************************************************)
(* The motion rig of the mobile app: app/rig_controller.dart over the SDK's  *)
(* device.dart and session.dart. The operator holds jog pads, recalls poses, *)
(* runs loops between two poses and stops everything; each of these is an    *)
(* asynchronous call, and the calls interleave at their awaits, where each   *)
(* waits for its turn to send one command to the device.                     *)
(*                                                                         *)
(* The two jog pads are the axis groups "head" and "slide". A run of reads   *)
(* is one command, "read". What a stop, a drive or an abort answers is the   *)
(* equipment's status. A command or its answer may be lost, the write of a   *)
(* command may fail, a move may outlast the minute that is waited for it,    *)
(* and the link may drop. Saving poses, scanning, point mode and the jib are left out.    *)
(***************************************************************************)
EXTENDS Integers, Sequences, FiniteSets, SequencesExt

CONSTANTS
    Slot,      \* poses stored in the device
    None,
    MaxAsks,   \* bound on what the operator asks
    MaxLost    \* bound on lost commands

ASSUME RigAssumption == None \notin Slot /\ MaxAsks \in Nat /\ MaxLost \in Nat

VARIABLES
    app,      \* the controller, the SDK's device and session, and the calls under way
    device,   \* the equipment: which groups drive, the planned move, the pose it stands at
    asks,     \* history: how often the operator asked for something
    lost,     \* history: how many commands, and links, were lost
    pads,     \* history: the pads held, since the last stop or failed drive
    wanted,   \* history: the operator asked for motion since STOP ALL
    slips     \* history: "overlapped", a pose was asked while another call was under way, or a
              \* pad was held while one stops the equipment; "left", motion was asked while
              \* disconnecting; "dropped", the link was lost; "unwatched", while the equipment
              \* makes a move that the app has given up waiting for

vars == <<app, device, asks, lost, pads, wanted, slips>>
told == <<asks, pads, wanted>>

Group == <<"head", "slide">>
Groups == {"head", "slide"}
Ask == 1..MaxAsks
Jog == 0            \* the jog's own call
Poll == -1          \* the status poll

-----------------------------------------------------------------------------
(* The queue of the session: one command at a time, in turn *)

Command(op, first) == [op |-> op, first |-> first, group |-> None, to |-> None]
On(op, g, first) == [Command(op, first) EXCEPT !.group = g]
Move(op, s) == [Command(op, FALSE) EXCEPT !.to = s]

(* sendUnlessCancelled: a planned move looks, when its turn comes, whether a stop came since *)
Overtaken(a, r) == r.cmd.op \in {"move", "loop"} /\ a.call[r.who].sdkStops # a.sdkStops

(* FifoLock: the lock passes straight to the next that waits; a stop's request goes ahead
   of everything that waits *)
Granted(a, r) == [a EXCEPT !.out = [who |-> r.who, cmd |-> r.cmd, stale |-> Overtaken(a, r)]]
Release(a) ==
    IF a.queue = <<>> THEN [a EXCEPT !.out = None] ELSE Granted([a EXCEPT !.queue = Tail(@)], Head(a.queue))

Acquire(a, r) ==
    IF a.out = None THEN Granted(a, r)
    ELSE [a EXCEPT !.queue = IF r.cmd.first THEN <<r>> \o @ ELSE Append(@, r)]

(* A call sends the first command of `todo` *)
Todo(a, k, phase, todo) ==
    Acquire([a EXCEPT !.call[k].phase = phase, !.call[k].todo = Tail(todo)], [who |-> k, cmd |-> Head(todo)])

For(S, Op(_)) == FlattenSeq([i \in 1..2 |-> IF Group[i] \in S THEN <<Op(Group[i])>> ELSE <<>>])

-----------------------------------------------------------------------------
(* The jog *)

(* _drive for what is held, as the commands it sends *)
Drive(a) ==
    LET released == a.driven \ a.held
        zero(g) == On("zero", g, a.held = {})
        drive(g) == On("drive", g, FALSE)
    IN  IF a.held # {} THEN For(released, zero) \o For(a.held, drive)
        ELSE IF released # {} THEN For(released, zero) \o <<Command("read", FALSE), Command("abort", FALSE)>>
        ELSE <<>>

JogEnds(a) == [a EXCEPT !.timer = FALSE, !.held = {}, !.busy = FALSE]

(* One turn of _jogTick's loop *)
JogTurn(a) ==
    LET b == [a EXCEPT !.busy = TRUE, !.dirty = FALSE, !.allZero = a.held = {}, !.driven = a.held]
    IN  IF Drive(a) = <<>> THEN JogEnds(b) ELSE Todo(b, Jog, "jog", Drive(a))

(* _jogTick *)
JogTick(a) == IF a.busy THEN [a EXCEPT !.dirty = TRUE] ELSE JogTurn(a)

(* The rest of the loop, when joystick() is done *)
MutJogDone(a) ==   \* a pad taken again is not noticed
    IF a.allZero THEN JogEnds(a) ELSE IF a.dirty THEN JogTurn(a) ELSE [a EXCEPT !.busy = FALSE]
JogDone(a) ==
    IF a.allZero /\ a.held # {} THEN JogTurn([a EXCEPT !.timer = TRUE])
    ELSE IF a.allZero THEN JogEnds(a)
    ELSE IF a.dirty THEN JogTurn(a)
    ELSE [a EXCEPT !.busy = FALSE]

(* A drive that could not be written ends the jog *)
JogFails(a) ==
    [a EXCEPT !.timer = FALSE, !.held = {}, !.busy = FALSE, !.loop = FALSE, !.generation = @ + 1, !.call[Jog].todo = <<>>]

StartJog(a) == JogTick([a EXCEPT !.timer = TRUE])

-----------------------------------------------------------------------------
(* Stopping *)

StopLocalMotion(a) ==
    [a EXCEPT !.timer = FALSE, !.held = {}, !.loop = FALSE, !.generation = @ + 1]

(* _stopDriving: zero what is driven, abort, zero the rest, abort again *)
StopDriving(a, k) ==
    LET front(g) == On("zero", g, TRUE)
        zero(g) == On("zero", g, FALSE)
        todo == For(a.driven, front)
                \o (IF a.driven = {} THEN <<>> ELSE <<Command("read", FALSE)>>)
                \o <<Command("abort", TRUE)>> \o For(Groups \ a.driven, zero) \o <<Command("abort", FALSE)>>
    IN  Todo([a EXCEPT !.sdkStops = @ + 1, !.driven = {}], k, "stop", todo)

(* waitUntilIdle: the status as the app has it, or a poll *)
WaitUntilIdle(a, k) ==
    IF a.seen THEN Todo(a, k, "idle", <<Command("status", FALSE)>>)
    ELSE Todo(a, k, "rest", <<Command("read", FALSE)>>)

Ended(a, k) == [a EXCEPT !.call[k].phase = "done"]

-----------------------------------------------------------------------------
(* Recalls and loops *)

(* _recall, moveTo *)
Recall(a, k, s) ==
    Todo([a EXCEPT !.moving = TRUE, !.call[k].to = s, !.call[k].sdkStops = a.sdkStops], k, "prepare", <<Command("read", FALSE)>>)

(* startLoop, after the stop *)
LoopBegins(a, k, s) ==
    Recall([a EXCEPT !.generation = @ + 1, !.loop = TRUE, !.call[k].generation = a.generation + 1], k, s)
Current(a, k) == a.loop /\ a.call[k].generation = a.generation

(* startMoveTo, of the device's own loop *)
DeviceLoop(a, k, s) ==
    Todo([a EXCEPT !.call[k].sdkStops = a.sdkStops, !.call[k].to = s], k, "prepareLoop", <<Command("read", FALSE)>>)

OtherSlot(s) == CHOOSE t \in Slot : t # s

(* A recall is over: _recall's finally, and what the loop does then *)
Recalled(a, k, success) ==
    LET b == [a EXCEPT !.moving = FALSE]
        c == b.call[k]
    IN  IF c.kind = "recall" \/ ~Current(b, k) THEN Ended(b, k)
        ELSE IF ~success THEN Ended([b EXCEPT !.loop = FALSE], k)
        ELSE IF c.kind = "deviceLoop" THEN DeviceLoop(b, k, OtherSlot(c.to))
        ELSE [b EXCEPT !.call[k].phase = "dwell"]

LoopSent(a, k, sent) ==
    Ended(IF a.call[k].generation # a.generation THEN a ELSE [a EXCEPT !.loop = @ /\ sent, !.moving = a.loop /\ sent], k)

(* The session is closed, or its link is gone: what waits for a turn or an answer fails. A
   recall that waits for its move to end goes on asking for up to a minute. *)
LinkGone(a) ==
    [StopLocalMotion(a) EXCEPT
        !.up = FALSE, !.out = None, !.queue = <<>>, !.busy = FALSE, !.dirty = FALSE, !.handing = FALSE,
        !.moving = \E k \in Ask : a.call[k].phase \in {"settle", "run"},
        !.call = [k \in DOMAIN a.call |->
                    [a.call[k] EXCEPT !.todo = <<>>, !.phase = IF @ \in {"settle", "run"} THEN "lingering" ELSE IF @ = "dwell" THEN @ ELSE "done"]]]

(* The guard of recall and startLoop after their stop *)
MutStillAsked(a, k) == TRUE   \* STOP ALL is not noticed
StillAsked(a, k) == a.call[k].stops = a.stops

(* A stop is over: stopAll, disconnect, _handOver, recall or startLoop go on *)
Stopped(a, k) ==
    LET c == a.call[k]
    IN  CASE c.kind = "stopAll" -> Ended([a EXCEPT !.moving = FALSE], k)
          [] c.kind = "disconnect" -> LinkGone(Ended(a, k))
          [] c.kind = "handOver" ->
               LET b == Ended([a EXCEPT !.moving = FALSE, !.handing = FALSE], k) IN IF b.held # {} THEN StartJog(b) ELSE b
          [] ~StillAsked(a, k) -> Ended(a, k)
          [] c.kind = "recall" -> Recall(a, k, c.to)
          [] OTHER -> LoopBegins(a, k, c.to)

-----------------------------------------------------------------------------
(* A command is over, and its call goes on *)

(* The outcomes of a call whose last command is done, `at` being where the device stands *)
Continued(a, k, at) ==
    IF k = Poll THEN {a} ELSE
    LET c == a.call[k]
    IN  CASE c.todo # <<>> -> {Todo(a, k, c.phase, c.todo)}
          [] k = Jog -> {JogDone(a)}
          [] c.phase = "stop" -> {WaitUntilIdle(a, k)}
          [] c.phase = "idle" -> {WaitUntilIdle(a, k), Todo(a, k, "rest", <<Command("read", FALSE)>>)}
          [] c.phase = "rest" -> {Stopped(a, k)}
          [] c.phase = "prepare" -> {Todo(a, k, "move", <<Move("move", c.to)>>)}
          [] c.phase = "move" -> {Todo(a, k, "settle", <<Command("status", FALSE)>>)}
          [] c.phase \in {"settle", "run"} ->
               IF a.seen THEN {Todo(a, k, "run", <<Command("status", FALSE)>>)}
               ELSE {Recalled(a, k, at = c.to)} \cup
                    (IF c.phase = "settle" THEN {Todo(a, k, "settle", <<Command("status", FALSE)>>)} ELSE {})
          [] c.phase = "prepareLoop" -> {Todo(a, k, "loopMove", <<Move("loop", c.to)>>)}
          [] c.phase = "loopMove" -> {LoopSent(a, k, TRUE)}

-----------------------------------------------------------------------------
(* The device, and the radio *)

InMotion(d) == d.driving # {} \/ d.planned # None

(* A device in motion does not start a planned move, and takes no drive during one *)
Executes(d, cmd) ==
    CASE cmd.op = "drive" -> IF d.planned = None THEN [d EXCEPT !.driving = @ \cup {cmd.group}, !.at = None] ELSE d
      [] cmd.op = "zero" -> [d EXCEPT !.driving = @ \ {cmd.group}]
      [] cmd.op = "abort" -> [d EXCEPT !.planned = None]
      [] cmd.op \in {"move", "loop"} -> IF InMotion(d) THEN d ELSE [d EXCEPT !.planned = [op |-> cmd.op, to |-> cmd.to], !.at = None]
      [] OTHER -> d
Reports(cmd) == cmd.op \in {"drive", "zero", "abort", "status"}

Settled == ~(app.out # None /\ app.out.stale)

(* What is planned once it ends is watched no more; `given` is what the app gives up *)
Watch(given) == slips' = IF device'.planned = None THEN slips \ {"unwatched"} ELSE slips \cup given

Answered ==
    /\ app.out # None /\ ~app.out.stale
    /\ LET cmd == app.out.cmd
           d == Executes(device, cmd)
           a == Release([app EXCEPT !.seen = IF Reports(cmd) THEN InMotion(d) ELSE @])
       IN  device' = d /\ app' \in Continued(a, app.out.who, d.at)
    /\ Watch({})
    /\ UNCHANGED <<lost, told>>

(* waitUntilIdle: a minute after the move was sent its answer is still that it moves *)
Outlasts ==
    /\ app.out # None /\ app.out.who \in Ask /\ app.call[app.out.who].phase = "run"
    /\ InMotion(device) /\ UNCHANGED device
    /\ app' = Recalled(Release([app EXCEPT !.seen = TRUE]), app.out.who, FALSE)
    /\ Watch({"unwatched"})
    /\ UNCHANGED <<lost, told>>

(* The command does not arrive, or its answer does not *)
Lost ==
    /\ app.out # None /\ ~app.out.stale /\ app.out.cmd.op \notin {"read", "status"}
    /\ lost < MaxLost /\ lost' = lost + 1
    /\ device' \in {device, Executes(device, app.out.cmd)}
    /\ app' \in Continued(Release(app), app.out.who, device'.at)
    /\ Watch({})
    /\ UNCHANGED told

(* The write of a command fails, perhaps after the device took it. That of a drive ends
   the jog, that of a planned move its recall or loop; a zero or an abort goes on. *)
WriteFails ==
    /\ app.out # None /\ ~app.out.stale /\ app.out.cmd.op \in {"drive", "move", "loop"}
    /\ lost < MaxLost /\ lost' = lost + 1
    /\ device' \in {device, Executes(device, app.out.cmd)}
    /\ LET a == Release(app)
           k == app.out.who
       IN  CASE app.out.cmd.op = "drive" -> app' = JogFails(a) /\ pads' = {} /\ Watch({})
             [] app.out.cmd.op = "move" -> app' = Recalled(a, k, FALSE) /\ pads' = pads /\ Watch({"unwatched"})
             [] app.out.cmd.op = "loop" -> app' = LoopSent(a, k, FALSE) /\ pads' = pads /\ Watch({"unwatched"})
    /\ UNCHANGED <<asks, wanted>>

(* A planned move that a stop overtook is not sent *)
Cancelled ==
    /\ app.out # None /\ app.out.stale
    /\ app' = (IF app.out.cmd.op = "move" THEN Recalled(Release(app), app.out.who, FALSE)
               ELSE LoopSent(Release(app), app.out.who, FALSE))
    /\ UNCHANGED <<device, lost, told, slips>>

Arrives ==
    /\ Settled /\ device.planned # None /\ device.planned.op = "move"
    /\ device' = [device EXCEPT !.planned = None, !.at = device.planned.to]
    /\ Watch({})
    /\ UNCHANGED <<app, lost, told>>

(* 1.5 s without a drive. A pad held and repeated does not let it come to that. *)
DriveExpires(g) ==
    /\ Settled /\ g \in device.driving /\ ~(app.timer /\ g \in app.held)
    /\ device' = [device EXCEPT !.driving = @ \ {g}]
    /\ UNCHANGED <<app, lost, told, slips>>

-----------------------------------------------------------------------------
(* The app's timers *)

JogTimer ==
    /\ Settled /\ app.timer /\ app' = JogTick(app)
    /\ UNCHANGED <<device, lost, told, slips>>

(* _poll: only while nobody else uses the queue *)
StatusPoll ==
    /\ app.up /\ app.out = None
    /\ app' = Acquire(app, [who |-> Poll, cmd |-> Command("status", FALSE)])
    /\ UNCHANGED <<device, lost, told, slips>>

DwellEnds(k) ==
    /\ Settled /\ app.call[k].phase = "dwell"
    /\ app' = (IF Current(app, k) THEN Recall(app, k, OtherSlot(app.call[k].to)) ELSE Ended(app, k))
    /\ UNCHANGED <<device, lost, told, slips>>

Stopping == \E k \in Ask : app.call[k].kind \in {"stopAll", "disconnect"} /\ app.call[k].phase # "done"

(* A recall of a link that is gone gives up *)
Lingers(k) ==
    /\ app.call[k].phase = "lingering" /\ app' = Recalled(app, k, FALSE)
    /\ UNCHANGED <<device, lost, told, slips>>

LinkDrops ==
    /\ Settled /\ app.up /\ lost < MaxLost /\ lost' = lost + 1
    /\ app' = LinkGone(app) /\ pads' = {} /\ slips' = slips \cup {"dropped"}
    /\ wanted' = (wanted \/ Stopping)
    /\ UNCHANGED <<device, asks>>

-----------------------------------------------------------------------------
(* The operator *)

(* connect, reconnect: a new device and session *)
Connect ==
    /\ ~app.up
    /\ app' = [app EXCEPT !.up = TRUE, !.driven = {}, !.sdkStops = 0, !.seen = InMotion(device)]
    /\ pads' = {} /\ UNCHANGED <<device, lost, asks, wanted, slips>>

Asks(motion) == Settled /\ app.up /\ asks < MaxAsks /\ asks' = asks + 1 /\ wanted' = motion /\ UNCHANGED <<device, lost>>
Called(a, kind, to) ==
    [a EXCEPT !.call[asks + 1] = [@ EXCEPT !.kind = kind, !.to = to, !.stops = a.stops]]

Slips(overlapped) ==
    slips' = slips \cup (IF overlapped THEN {"overlapped"} ELSE {})
                   \cup {"left" : k \in {k \in Ask : app.call[k].kind = "disconnect" /\ app.call[k].phase # "done"}}

(* hold: during a loop or a recall it takes over *)
MutTakesOver(a) == a.loop   \* only during a loop
TakesOver(a) == a.loop \/ a.moving
HandOver(a) ==
    StopDriving([a EXCEPT !.handing = TRUE, !.loop = FALSE, !.generation = @ + 1], asks + 1)
Hold(g) ==
    /\ Asks(TRUE) /\ pads' = pads \cup {g}
    /\ Slips(\E k \in Ask : app.call[k].kind # "handOver" /\ app.call[k].phase \in {"stop", "idle", "rest"})
    /\ LET a == [Called(app, "handOver", None) EXCEPT !.held = @ \cup {g}]
       IN  app' = (IF TakesOver(a) THEN (IF a.handing THEN a ELSE HandOver(a))
                   ELSE IF a.handing THEN a ELSE StartJog(a))

LetGo(g) ==
    /\ Settled /\ g \in pads /\ pads' = pads \ {g}
    /\ LET a == [app EXCEPT !.held = @ \ {g}] IN app' = (IF a.handing THEN a ELSE JogTick(a))
    /\ UNCHANGED <<device, lost, asks, wanted, slips>>

(* recall, startLoop: after _stopForAPoseCommand *)
Pose(kind, s) ==
    /\ Asks(TRUE) /\ Slips(\E k \in Ask : app.call[k].phase \notin {"done", "dwell"})
    /\ LET a == Called(app, kind, s)
           k == asks + 1
       IN  IF a.held # {} \/ a.loop \/ a.seen
           THEN app' = StopDriving(StopLocalMotion(a), k) /\ pads' = {}
           ELSE app' = (IF kind = "recall" THEN Recall(a, k, s) ELSE LoopBegins(a, k, s)) /\ UNCHANGED pads

(* stopAll, and stopLoop; disconnect stops everything first *)
StopAll(kind) ==
    /\ Asks(FALSE) /\ pads' = {} /\ UNCHANGED slips
    /\ LET a == Called(app, kind, None)
       IN  app' = StopDriving(StopLocalMotion([a EXCEPT !.stops = @ + 1]), asks + 1)

-----------------------------------------------------------------------------
NoCall == [kind |-> None, phase |-> "done", todo |-> <<>>, to |-> None, stops |-> 0, sdkStops |-> 0, generation |-> 0]
Init ==
    /\ app = [up |-> TRUE, held |-> {}, timer |-> FALSE, busy |-> FALSE, dirty |-> FALSE, allZero |-> FALSE,
              handing |-> FALSE, moving |-> FALSE, loop |-> FALSE, generation |-> 0, stops |-> 0,
              driven |-> {}, sdkStops |-> 0, seen |-> FALSE, out |-> None, queue |-> <<>>,
              call |-> [k \in 0..MaxAsks |-> NoCall]]
    /\ device = [driving |-> {}, planned |-> None, at |-> None]
    /\ asks = 0 /\ lost = 0 /\ pads = {} /\ wanted = FALSE /\ slips = {}

Next ==
    \/ Answered \/ Outlasts \/ Lost \/ WriteFails \/ Cancelled \/ Arrives \/ JogTimer \/ StatusPoll \/ LinkDrops \/ Connect
    \/ \E kind \in {"stopAll", "disconnect"} : StopAll(kind)
    \/ \E g \in Groups : DriveExpires(g) \/ Hold(g) \/ LetGo(g)
    \/ \E k \in Ask : DwellEnds(k) \/ Lingers(k)
    \/ \E kind \in {"recall", "deviceLoop", "appLoop"}, s \in Slot : (kind # "recall" => ~app.loop) /\ Pose(kind, s)

Spec == Init /\ [][Next]_vars
-----------------------------------------------------------------------------
(* Commands that move something and are sent, wait, or will be sent by a drive under way *)
Waiting == {app.queue[i].cmd : i \in DOMAIN app.queue} \cup Range(app.call[Jog].todo)
MovesLeft ==
    \E c \in Waiting \cup (IF app.out = None THEN {} ELSE {app.out.cmd}) : c.op \in {"drive", "move", "loop"}

(* STOP ALL and disconnect are final. Whatever was under way - a jog between two of its
   commands, a recall being prepared, waiting or moving, a loop, a hand-over, a stop of
   another call - once the stop is over no planned move runs, nothing that moves the
   equipment is left to send, and so it stays until the operator asks for motion again;
   even when one command is lost. *)
StopAllIsFinal ==
    ~wanted /\ ~Stopping /\ "left" \notin slips => device.planned = None /\ ~MovesLeft

(* A jog takes over from a loop or a recall only once it is stopped: no drive is sent
   while the device executes a planned move that the app still waits for (a move that
   outlasts its minute, or whose write failed, is not stopped first: "unwatched"). And a
   held pad is not forgotten meanwhile: it is being repeated, or the hand-over will start
   it, unless a drive could not be written, which the operator is told. *)
JogTakesOver ==
    /\ slips = {} /\ app.out # None /\ app.out.cmd.op = "drive" => device.planned = None
    /\ app.up /\ pads # {} => app.held = pads /\ (app.timer \/ app.handing)
=============================================================================
