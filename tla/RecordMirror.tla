---------------------------- MODULE RecordMirror ----------------------------
(***************************************************************************)
(* What the panel says of one Sony camera: is it connected, does it roll,  *)
(* and which takes are open.  The camera's worker in camd keeps a snapshot *)
(* (camd/src/registry.cpp) and publishes its changes through the event hub *)
(* (camd/src/ws.cpp, api.cpp); cambridge mirrors it (src/state.js) from    *)
(* three sources that overtake one another: the greeting, the events, and  *)
(* a REST reply (src/server.js).  The events overtake one another too: the *)
(* state of a camera whose host key was pinned on first use waits until    *)
(* the key is in the configuration (adopt.js), and nothing else waits.     *)
(*                                                                         *)
(* Abstractions.  A status is whether it says recording; the other fields  *)
(* of a status only make a heartbeat publish.  The body starts and stops    *)
(* whenever it likes, so a status that is read may say either.  A          *)
(* connection state is whether it is "connected".  Commands reach the worker as in CamdJobs,   *)
(* its connection comes and goes as in CamdWorker.  Of the takes only the  *)
(* open ones are kept, and not the alarm of a recording that dropped.  At  *)
(* most one GET /cameras is under way.  What else waits for the            *)
(* configuration is how long a state waits.                                *)
(***************************************************************************)
EXTENDS Naturals, Sequences, SequencesExt

CONSTANTS MaxQueued,  \* kMaxQueuedFrames: a client this far behind is cut off
          MaxOpen,    \* bound: open takes are counted up to this
          MaxAside,   \* bound: see Aside
          None,       \* no snapshot, no state, no reply
          Asked       \* the cameras were asked for

ASSUME MirrorAssumption ==
  /\ MaxQueued \in Nat /\ MaxQueued >= 1 /\ MaxOpen \in Nat /\ MaxOpen >= 2
  /\ MaxAside \in Nat
  /\ None # Asked
  /\ None \notin [kind : {"state"}, up : BOOLEAN, pin : BOOLEAN]
  /\ {None, Asked} \cap [up : BOOLEAN, rec : BOOLEAN] = {}

VARIABLES
  snap,     \* snap_: [up, rec]
  hostKey,  \* snap_.hostKey: "unknown", "first" (pinnedFirstUse), "pinned" (or mismatch)
  worker,   \* "idle", "read" (connected, status not read yet), "start", "stop": setRecording
  conn,     \* the socket's server side: "none", "built", "registered", "greeted"
  hello,    \* the greeting built for it
  pipe,     \* frames on their way to cambridge
  relabel,  \* setLabel: the event it will publish, or None
  opened,   \* camdConnected
  reply,    \* GET /cameras: None, Asked, or the snapshot in the reply
  waiting,  \* states taken off the socket, each behind a pinFingerprint
  mirror,   \* [up, rec] of the mirrored camera
  takes,    \* open takes
  stale,    \* history: what of the mirror was overtaken and not yet put right
  rebuilt   \* history: replaceAll has changed whether the camera records

camd  == <<snap, hostKey, worker>>
hub   == <<conn, hello, pipe>>
node  == <<opened, waiting, mirror, takes, rebuilt>>
vars  == <<camd, hub, relabel, reply, node, stale>>

Snapshot   == [up : BOOLEAN, rec : BOOLEAN]
StateEvent == [kind : {"state"}, up : BOOLEAN, pin : BOOLEAN]
Frame      == [kind : {"hello"}, up : BOOLEAN, rec : BOOLEAN]
                \cup StateEvent \cup [kind : {"status"}, rec : BOOLEAN]

TypeOK ==
  /\ snap \in Snapshot /\ worker \in {"idle", "read", "start", "stop"}
  /\ hostKey \in {"unknown", "first", "pinned"}
  /\ worker # "idle" => snap.up
  /\ conn \in {"none", "built", "registered", "greeted"}
  /\ hello \in Snapshot \cup {None}
  /\ pipe \in Seq(Frame) /\ Len(pipe) <= MaxQueued
  /\ relabel \in StateEvent \cup {None}
  /\ opened \in BOOLEAN
  /\ waiting \in Seq(StateEvent)
  /\ reply \in {None, Asked} \cup Snapshot
  /\ mirror \in Snapshot
  /\ takes \in 0 .. MaxOpen
  /\ stale \subseteq {"up", "rec"} /\ rebuilt \in BOOLEAN

Blank == [up |-> FALSE, rec |-> FALSE]

Init ==
  /\ snap = Blank /\ hostKey \in {"unknown", "pinned"} /\ worker = "idle"
  /\ conn = "none" /\ hello = None /\ pipe = <<>>
  /\ relabel = None /\ opened = FALSE /\ reply = None
  /\ waiting = <<>> /\ mirror = Blank /\ takes = 0
  /\ stale = {} /\ rebuilt = FALSE

-----------------------------------------------------------------------------
(* What a frame makes of the mirror: replaceAll, applyConnectionState (a   *)
(* camera that vanishes does not count as recording), applyStatus.         *)
Applied(m, f) ==
  CASE f.kind = "hello"  -> [up |-> f.up, rec |-> f.rec]
    [] f.kind = "state"  -> [up |-> f.up, rec |-> m.rec /\ ~(m.up /\ ~f.up)]
    [] f.kind = "status" -> [m EXCEPT !.rec = f.rec]

(* The mirror m once the frames p have arrived, each applied in its turn   *)
(* (ForecastEmpty, ForecastAppend and ForecastTail of MirrorPanelProofs),  *)
(* said without a fold: the last frame that says so decides whether the    *)
(* camera is up; it records if a frame says so and none after it takes     *)
(* that back.                                                              *)
UpAfter(m, p, k) ==
  \/ \E i \in 1..k : p[i].kind # "status" /\ p[i].up /\ \A j \in (i + 1)..k : p[j].kind = "status"
  \/ m.up /\ \A j \in 1..k : p[j].kind = "status"

KeptAfter(m, p, i) ==
  \A k \in (i + 1)..Len(p) : p[k].kind = "state" /\ (p[k].up \/ ~UpAfter(m, p, k - 1))

Forecast(m, p) ==
  [up  |-> UpAfter(m, p, Len(p)),
   rec |-> \/ \E i \in 1..Len(p) : p[i].kind # "state" /\ p[i].rec /\ KeptAfter(m, p, i)
           \/ m.rec /\ KeptAfter(m, p, 0)]

(* Where the mirror will then differ from the truth.  Of a camera that is  *)
(* not connected nothing is said about recording.                          *)
Behind(m, p, truth) ==
  LET shown == Forecast(m, p)
  IN  {f \in {"up", "rec"} : shown[f] # truth[f] /\ (f = "rec" => truth.up)}

(* What is on its way to the mirror: the states that wait, and behind them *)
(* what is still to be read.                                               *)
Coming == waiting \o pipe

(* What may yet overtake it: states that wait, a label being set, a reply. *)
Aside ==
  Len(waiting) + (IF relabel = None THEN 0 ELSE 1) + (IF reply = None THEN 0 ELSE 1)

Listening == conn \in {"registered", "greeted"}

(* The server side of the socket is gone; a client that had it open still  *)
(* gets what was sent.                                                     *)
Kill ==
  /\ conn' = "none" /\ hello' = None
  /\ pipe' = IF opened THEN pipe ELSE <<>>

(* Hub::enqueue: a client that does not read its events is disconnected.   *)
Enqueue(f) ==
  IF Len(pipe) < MaxQueued
  THEN pipe' = Append(pipe, f) /\ UNCHANGED <<conn, hello>>
  ELSE Kill

(* Hub::broadcast: a client that is not registered gets nothing.           *)
Publish(f) == IF Listening THEN Enqueue(f) ELSE UNCHANGED hub

StateFrame(up, key) == [kind |-> "state", up |-> up, pin |-> key = "first"]
StatusFrame(rec)    == [kind |-> "status", rec |-> rec]

-----------------------------------------------------------------------------
(* The key once the body is connected: if none is pinned the one it        *)
(* presents is, and it need not present one.                               *)
Keys == IF hostKey = "unknown" THEN {"unknown", "first"} ELSE {"pinned"}

(* setState(Connected) in stepConnecting. *)
Connects ==
  /\ ~snap.up
  /\ snap' = [snap EXCEPT !.up = TRUE] /\ worker' = "read"
  /\ hostKey' \in Keys
  /\ Publish(StateFrame(TRUE, hostKey'))
  /\ stale' = stale \ {"up"}
  /\ UNCHANGED <<relabel, reply, node>>

(* The rest of stepConnecting: the first status is published whatever it   *)
(* says.                                                                   *)
ReadsStatus(rec) ==
  /\ worker = "read" /\ worker' = "idle"
  /\ snap' = [snap EXCEPT !.rec = rec]
  /\ Publish(StatusFrame(rec))
  /\ stale' = stale \ {"rec"}
  /\ UNCHANGED <<hostKey, relabel, reply, node>>

(* getStatus() failed: a status that was never read is published, and the  *)
(* snapshot keeps the old one.                                             *)
ReadsNothing ==
  /\ worker = "read" /\ worker' = "idle"
  /\ Publish(StatusFrame(FALSE))
  /\ UNCHANGED <<snap, hostKey, relabel, reply, node>>
  /\ stale' = Behind(mirror, Coming', snap)

(* stepConnected: a status that differs from the last one, in whatever it  *)
(* is, is published; one that does not changes nothing.                    *)
Heartbeat(rec) ==
  /\ snap.up /\ worker = "idle"
  /\ snap' = [snap EXCEPT !.rec = rec]
  /\ Publish(StatusFrame(rec))
  /\ stale' = stale \ {"rec"}
  /\ UNCHANGED <<hostKey, worker, relabel, reply, node>>

(* The session is given up; snap_.status is kept. *)
Disconnects ==
  /\ snap.up /\ worker = "idle"
  /\ snap' = [snap EXCEPT !.up = FALSE]
  /\ hostKey' = hostKey
  /\ Publish(StateFrame(FALSE, hostKey'))
  /\ stale' = stale \ {"up", "rec"}
  /\ UNCHANGED <<worker, relabel, reply, node>>

(* Of a camera that is not connected every attempt, and its failure, is a  *)
(* state again; a body with another key is reported as a mismatch.         *)
Attempts ==
  /\ ~snap.up
  /\ hostKey' \in {hostKey} \cup (IF hostKey = "unknown" THEN {} ELSE {"pinned"})
  /\ Publish(StateFrame(FALSE, hostKey'))
  /\ stale' = stale \ {"up", "rec"}
  /\ UNCHANGED <<snap, worker, relabel, reply, node>>

(* setRecording: the button is pressed, unless the camera is in the state  *)
(* asked for.                                                              *)
PressRecord(want) ==
  /\ snap.up /\ worker = "idle"
  /\ worker' = want
  /\ UNCHANGED <<snap, hostKey, hub, relabel, reply, node, stale>>

(* Mutant: what the command found is kept, and not published. *)
MutConfirms ==
  /\ worker \in {"start", "stop"} /\ worker' = "idle"
  /\ snap' = [snap EXCEPT !.rec = worker = "start"]
  /\ UNCHANGED <<hostKey, hub, relabel, reply, node, stale>>

(* It was read to be in that state. *)
Confirms ==
  /\ worker \in {"start", "stop"} /\ worker' = "idle"
  /\ snap' = [snap EXCEPT !.rec = worker = "start"]
  /\ Publish(StatusFrame(worker = "start"))
  /\ stale' = stale \ {"rec"}
  /\ UNCHANGED <<hostKey, relabel, reply, node>>

(* Not in the state asked for within 2 s, or it cannot be read. *)
GivesUp ==
  /\ worker \in {"start", "stop"} /\ worker' = "idle"
  /\ UNCHANGED <<snap, hostKey, hub, relabel, reply, node, stale>>

(* setLabel, on an HTTP thread: the state is read, then published.  The    *)
(* worker writes the key of a connection before it says Connected.         *)
Relabel ==
  /\ relabel = None /\ Aside < MaxAside
  /\ \E key \in {hostKey} \cup (IF snap.up THEN {} ELSE Keys) :
       relabel' = StateFrame(snap.up, key)
  /\ UNCHANGED <<camd, hub, reply, node, stale>>

RelabelPublished ==
  /\ relabel # None /\ relabel' = None
  /\ Publish(relabel)
  /\ UNCHANGED <<camd, reply, node>>
  /\ stale' = Behind(mirror, Coming', snap)

-----------------------------------------------------------------------------
(* webSocket handler: the greeting is built, the client is registered, the *)
(* greeting is queued.  What is published before the second step is lost;  *)
(* what is published before the third arrives ahead of the greeting.       *)
BuildHello ==
  /\ conn = "none" /\ ~opened
  /\ conn' = "built" /\ hello' = snap
  /\ UNCHANGED <<camd, pipe, relabel, reply, node, stale>>

Register ==
  /\ conn = "built" /\ conn' = "registered"
  /\ UNCHANGED <<camd, hello, pipe, relabel, reply, node, stale>>

Greet ==
  /\ conn = "registered"
  /\ IF Len(pipe) < MaxQueued
     THEN /\ conn' = "greeted" /\ hello' = None
          /\ pipe' = Append(pipe, [kind |-> "hello", up |-> hello.up, rec |-> hello.rec])
     ELSE Kill
  /\ UNCHANGED <<camd, relabel, reply, node>>
  /\ stale' = Behind(mirror, Coming', snap)

(* The socket dies, or camd kills a client that does not read. *)
SocketDies ==
  /\ conn # "none" /\ Kill
  /\ UNCHANGED <<camd, relabel, reply, node, stale>>

(* camd is restarted: what it knew is gone. *)
Restarts ==
  /\ snap' = Blank /\ hostKey' \in {"unknown", "pinned"} /\ worker' = "idle"
  /\ Kill /\ relabel' = None
  /\ reply' = IF reply = Asked THEN None ELSE reply
  /\ UNCHANGED <<node, stale>>

-----------------------------------------------------------------------------
(* A take is opened, or the last one that is open is closed. *)
Open(n)  == IF n < MaxOpen THEN n + 1 ELSE n
Close(n) == IF n > 0 THEN n - 1 ELSE n

(* replaceAll: the mirror is rebuilt, the takes are not looked at. *)
ReplaceMirror(s) ==
  /\ mirror' = s
  /\ rebuilt' = (rebuilt \/ s.rec # mirror.rec)
  /\ UNCHANGED takes

(* Mutant: a take is left open when its camera vanishes. *)
MutApply(f) ==
  /\ mirror' = Applied(mirror, f)
  /\ takes' = IF mirror'.rec /\ ~mirror.rec THEN Open(takes)
              ELSE IF f.kind = "status" /\ mirror.rec /\ ~mirror'.rec THEN Close(takes) ELSE takes
  /\ UNCHANGED rebuilt

(* applyStatus opens and closes a take; applyConnectionState closes it     *)
(* with an unknown outcome when the camera vanishes.                       *)
Apply(f) ==
  /\ mirror' = Applied(mirror, f)
  /\ takes' = IF mirror'.rec /\ ~mirror.rec THEN Open(takes)
              ELSE IF mirror.rec /\ ~mirror'.rec THEN Close(takes) ELSE takes
  /\ UNCHANGED rebuilt

(* camd.on("event"): a state with a key pinned on first use is put behind  *)
(* whatever changes the configuration; anything else is applied at once,   *)
(* ahead of the states that wait.                                          *)
Waits(f) == f.kind = "state" /\ f.pin

Deliver ==
  /\ opened /\ pipe # <<>> /\ pipe' = Tail(pipe)
  /\ IF Waits(Head(pipe))
     THEN /\ Aside < MaxAside /\ waiting' = Append(waiting, Head(pipe))
          /\ UNCHANGED <<mirror, takes, rebuilt, stale>>
     ELSE /\ LET f == Head(pipe) IN
             IF f.kind = "hello" THEN ReplaceMirror([up |-> f.up, rec |-> f.rec]) ELSE Apply(f)
          /\ waiting' = waiting
          /\ stale' = IF waiting = <<>> THEN stale ELSE Behind(mirror', Coming', snap)
  /\ UNCHANGED <<camd, conn, hello, relabel, opened, reply>>

(* The key is stored, or was already, or cannot be: onConnectionState.     *)
Stored ==
  /\ waiting # <<>> /\ waiting' = Tail(waiting)
  /\ Apply(Head(waiting))
  /\ UNCHANGED <<camd, hub, relabel, opened, reply, stale>>

(* The configuration cannot be read: pinFingerprint throws, and the state  *)
(* it was for is never applied.                                            *)
PinThrows ==
  /\ waiting # <<>> /\ waiting' = Tail(waiting)
  /\ UNCHANGED <<camd, hub, relabel, opened, reply, mirror, takes, rebuilt>>
  /\ stale' = Behind(mirror, Coming', snap)

(* camdConnected: refreshEverything asks for the cameras. *)
Opened ==
  /\ conn # "none" /\ ~opened /\ opened' = TRUE
  /\ Aside < MaxAside
  /\ reply = None /\ reply' = Asked
  /\ UNCHANGED <<camd, hub, relabel, waiting, mirror, takes, rebuilt, stale>>

(* camdDisconnected: setCamdConnected(false). *)
Closed ==
  /\ conn = "none" /\ opened /\ opened' = FALSE
  /\ pipe' = <<>>
  /\ mirror' = Blank
  /\ takes' = IF mirror.rec THEN Close(takes) ELSE takes
  /\ UNCHANGED <<camd, conn, hello, relabel, reply, waiting, rebuilt, stale>>

(* GET /cameras answers, at its own pace on its own connection. *)
Answers ==
  /\ reply = Asked /\ reply' \in {None, snap}
  /\ UNCHANGED <<camd, hub, relabel, node, stale>>

Refreshed ==
  /\ reply \in Snapshot /\ reply' = None
  /\ ReplaceMirror(reply)
  /\ stale' = Behind(mirror', Coming, snap)
  /\ UNCHANGED <<camd, hub, relabel, opened, waiting>>

-----------------------------------------------------------------------------
Camd ==
  \/ Connects \/ ReadsNothing \/ Confirms \/ GivesUp
  \/ RelabelPublished \/ BuildHello \/ Register \/ Greet
  \/ \E rec \in BOOLEAN : ReadsStatus(rec) \/ Heartbeat(rec)

Cambridge == Deliver \/ Stored \/ PinThrows \/ Opened \/ Closed \/ Answers \/ Refreshed

World ==
  \/ Disconnects \/ Attempts \/ Relabel \/ SocketDies \/ Restarts
  \/ \E want \in {"start", "stop"} : PressRecord(want)

Next == Camd \/ Cambridge \/ World

Spec == Init /\ [][Next]_vars

-----------------------------------------------------------------------------
(* What the panel will show once everything on its way has arrived is what *)
(* camd knows, whatever raced: the greeting with the events, the REST      *)
(* reply with either, a state that waits for its key with what is applied  *)
(* meanwhile, a restart, a label being changed.  "stale" names the six     *)
(* steps that can leave the mirror behind (Greet, Refreshed,               *)
(* RelabelPublished, ReadsNothing, PinThrows, and a Deliver that overtakes *)
(* a state that waits), until an event of that kind puts it right.         *)
MirrorFollows ==
  conn = "greeted" => LET b == Behind(mirror, Coming, snap)
                      IN  /\ "up" \in b => "up" \in stale
                          /\ "rec" \in b => "rec" \in stale \/ worker = "read"

(* The take log agrees with the mirror: one take is open while the camera  *)
(* is seen to record, none otherwise, through drops of the camera, of camd *)
(* and of the socket, unless replaceAll has changed what was seen.         *)
TakesAreHonest == ~rebuilt => takes = (IF mirror.rec THEN 1 ELSE 0)
=============================================================================
