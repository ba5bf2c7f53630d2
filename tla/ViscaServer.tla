----------------------------- MODULE ViscaServer -----------------------------
(***************************************************************************)
(* Joysticks and controller panels on the VISCA port: the ViscaServer of   *)
(* cambridge/src/visca.js.  A controller is known by its address and port; *)
(* what it sends is cut into messages, which wait in one chain and run in  *)
(* order, one at a time.  A message means the camera its VISCA address has *)
(* in the camera order, unless the controller is moving a camera already:  *)
(* then the route remembered for that move decides, so that the stop finds *)
(* the camera the move went to.  A controller whose connection closes lets *)
(* go of everything; one that only falls silent is let go by the deadman.  *)
(*                                                                         *)
(* The heads are PtzMotion's, seen from outside: who holds which axis.     *)
(*                                                                         *)
(* Abstractions.  A message is a move or a stop of one axis, or any other  *)
(* command (a recall, home, a write), which waits for the camera; over TCP *)
(* it arrives in two pieces and chunks are cut anywhere.  Speeds, framing, *)
(* replies and inquiries are left out.                                     *)
(***************************************************************************)
EXTENDS Naturals, FiniteSets, Sequences, SequencesExt

CONSTANTS Camera,      \* the PTZ heads
          Address,     \* VISCA addresses, 1..n
          Axis,        \* what a stick moves
          Peer,        \* controllers
          Seat,        \* how one may be connected: [tcp, port], port a camera's own or None
          QueueLimit,  \* MAX_QUEUED of a TCP controller; a bound on a UDP one's queue
          MaxWire,     \* bound: messages a controller has on the wire
          MaxDown,     \* bound: heads not connected at one time
          None

Command == [what : {"move", "stop"}, addr : Address, axis : Axis]
             \cup [what : {"other"}, addr : Address]
Piece   == [m : Command, last : BOOLEAN]

ASSUME ViscaAssumption ==
  /\ IsFiniteSet(Camera) /\ Address = 1..Cardinality(Address)
  /\ Seat \subseteq [tcp : BOOLEAN, port : Camera \cup {None}]
  /\ None \notin Camera \cup Peer \cup Command
  /\ QueueLimit \in Nat \ {0} /\ MaxWire \in Nat \ {0} /\ MaxDown \in Nat

VARIABLES
  seat,     \* controller -> how it is connected, for good
  order,    \* the operator's order of the cameras
  status,   \* camera -> "gone" from the list, "offline" or "connected"
  held,     \* camera -> axis -> the controller that holds it moving, or None
  stick,    \* controller -> the <<address, axis>> pairs its sticks push
  wire,     \* controller -> pieces (TCP) or datagrams (UDP) on the way
  carry,    \* controller -> pieces of a message still arriving
  open,     \* controller -> its connection is up (always, over UDP)
  queue,    \* controller -> messages waiting in its chain
  busy,     \* controller -> the message waiting for the camera, or None
  routes,   \* controller -> address -> camera its move went to, or None
  moving    \* controller -> address -> axes it moves (motionByRoute)

cameras == <<order, status>>
reading == <<wire, carry, open, queue, busy>>
routing == <<routes, moving>>
vars    == <<seat, cameras, held, stick, reading, routing>>

TypeOK ==
  /\ seat \in [Peer -> Seat]
  /\ order \in Seq(Camera)
  /\ status \in [Camera -> {"gone", "offline", "connected"}]
  /\ held \in [Camera -> [Axis -> Peer \cup {None}]]
  /\ stick \in [Peer -> SUBSET (Address \X Axis)]
  /\ wire \in [Peer -> Seq(Piece)]
  /\ carry \in [Peer -> Seq(Piece)]
  /\ open \in [Peer -> BOOLEAN]
  /\ queue \in [Peer -> Seq(Command)]
  /\ busy \in [Peer -> Command \cup {None}]
  /\ routes \in [Peer -> [Address -> Camera \cup {None}]]
  /\ moving \in [Peer -> [Address -> SUBSET Axis]]

Init ==
  /\ seat \in [Peer -> Seat]
  /\ order \in SetToSeqs(Camera)
  /\ status = [c \in Camera |-> "connected"]
  /\ held = [c \in Camera |-> [x \in Axis |-> None]]
  /\ stick = [p \in Peer |-> {}]
  /\ wire = [p \in Peer |-> <<>>]
  /\ carry = [p \in Peer |-> <<>>]
  /\ open = [p \in Peer |-> TRUE]
  /\ queue = [p \in Peer |-> <<>>]
  /\ busy = [p \in Peer |-> None]
  /\ routes = [p \in Peer |-> [a \in Address |-> None]]
  /\ moving = [p \in Peer |-> [a \in Address |-> {}]]

-----------------------------------------------------------------------------
Own(p) == seat[p].port

(* cameraFor: addresses follow the order of the cameras in the list. *)
CameraFor(a) ==
  LET listed == {i \in DOMAIN order : status[order[i]] # "gone"}
      at     == {i \in listed : Cardinality({j \in listed : j <= i}) = a} IN
  IF at = {} THEN None ELSE order[CHOOSE i \in at : TRUE]

(* execute: a dedicated port, then the route of a move, then the order. *)
Target(p, a) ==
  CASE Own(p) # None      -> Own(p)
    [] Own(p) = None /\ routes[p][a] # None -> routes[p][a]
    [] OTHER               -> CameraFor(a)

(* releaseSource(id): everything these controllers hold stops. *)
Released(P) == [c \in Camera |-> [x \in Axis |-> IF held[c][x] \in P THEN None ELSE held[c][x]]]

(* splitMessages: whole messages in order, and the piece still waiting for *)
(* the bytes that finish it.                                               *)
Whole(b) == [i \in 1..(Len(b) \div 2) |-> b[2 * i].m]

(* Mutant: the incomplete message at the end is dropped. *)
MutRest(b) == <<>>

Rest(b) == IF Len(b) % 2 = 1 THEN <<Last(b)>> ELSE <<>>

(* A controller sends a message. *)
Sends(p, m) ==
  /\ open[p]
  /\ IF seat[p].tcp
     THEN /\ Len(wire[p]) + 2 <= 2 * MaxWire
          /\ wire' = [wire EXCEPT ![p] = @ \o <<[m |-> m, last |-> FALSE], [m |-> m, last |-> TRUE]>>]
     ELSE /\ Len(wire[p]) < MaxWire
          /\ wire' = [wire EXCEPT ![p] = Append(@, [m |-> m, last |-> TRUE])]
  /\ UNCHANGED <<seat, cameras, held, carry, open, queue, busy, routing>>

Push(p, a, x) ==
  /\ Sends(p, [what |-> "move", addr |-> a, axis |-> x])
  /\ stick' = [stick EXCEPT ![p] = @ \cup {<<a, x>>}]

LetGo(p, a, x) ==
  /\ <<a, x>> \in stick[p]
  /\ Sends(p, [what |-> "stop", addr |-> a, axis |-> x])
  /\ stick' = [stick EXCEPT ![p] = @ \ {<<a, x>>}]

Ask(p, a) ==
  /\ Sends(p, [what |-> "other", addr |-> a])
  /\ UNCHANGED stick

-----------------------------------------------------------------------------
(* The connection is gone: pulled, or destroyed because of what it sent.   *)
(* Its queue is left to the chain, which runs none of it.                  *)
Closes(p) ==
  /\ open' = [open EXCEPT ![p] = FALSE]
  /\ wire' = [wire EXCEPT ![p] = <<>>]
  /\ carry' = [carry EXCEPT ![p] = <<>>]
  /\ stick' = [stick EXCEPT ![p] = {}]
  /\ held' = Released({p})
  /\ UNCHANGED <<seat, cameras, queue, busy, routing>>

Close(p) == seat[p].tcp /\ open[p] /\ Closes(p)

(* A chunk arrives over TCP, cut anywhere.  More messages waiting than any *)
(* controller sends is not a controller.                                   *)
Data(p) ==
  \E n \in 1..Len(wire[p]) :
    LET bytes == carry[p] \o SubSeq(wire[p], 1, n)
        many  == Len(queue[p]) + Len(Whole(bytes)) > QueueLimit IN
    /\ seat[p].tcp /\ open[p]
    /\ many => Closes(p)
    /\ ~many => /\ wire' = [wire EXCEPT ![p] = SubSeq(@, n + 1, Len(@))]
                /\ carry' = [carry EXCEPT ![p] = Rest(bytes)]
                /\ queue' = [queue EXCEPT ![p] = @ \o Whole(bytes)]
                /\ UNCHANGED <<seat, cameras, held, stick, open, busy, routing>>

(* A datagram arrives, in whatever order, or is lost. *)
Datagram(p) ==
  \E i \in DOMAIN wire[p] :
    /\ ~seat[p].tcp /\ Len(queue[p]) < QueueLimit
    /\ wire' = [wire EXCEPT ![p] = RemoveAt(@, i)]
    /\ \/ queue' = [queue EXCEPT ![p] = Append(@, wire[p][i].m)]
       \/ UNCHANGED queue
    /\ UNCHANGED <<seat, cameras, held, stick, carry, open, busy, routing>>

-----------------------------------------------------------------------------
(* Mutant: the route goes with the first axis that stops. *)
MutMove(p, c, m) ==
  LET axes == IF m.what = "move" THEN moving[p][m.addr] \cup {m.axis} ELSE moving[p][m.addr] \ {m.axis} IN
  /\ moving' = [moving EXCEPT ![p][m.addr] = axes]
  /\ routes' = IF Own(p) # None /\ m.what = "move" THEN routes
               ELSE [routes EXCEPT ![p][m.addr] = IF m.what = "move" THEN c ELSE None]
  /\ held' = [held EXCEPT ![c][m.axis] = IF m.what = "move" THEN p ELSE None]

(* A move or a stop of one axis: the route is remembered while any axis    *)
(* moves; the head's drive() takes the axis over, or lets it go whoever    *)
(* holds it.                                                               *)
Move(p, c, m) ==
  LET axes == IF m.what = "move" THEN moving[p][m.addr] \cup {m.axis} ELSE moving[p][m.addr] \ {m.axis} IN
  /\ moving' = [moving EXCEPT ![p][m.addr] = axes]
  /\ routes' = IF Own(p) # None /\ axes # {} THEN routes
               ELSE [routes EXCEPT ![p][m.addr] = IF axes # {} THEN c ELSE None]
  /\ held' = [held EXCEPT ![c][m.axis] = IF m.what = "move" THEN p ELSE None]

(* execute: refused when the camera is unknown or not connected. *)
Execute(p, m) ==
  LET c == Target(p, m.addr) IN
  CASE c = None \/ (c # None /\ status[c] # "connected") -> UNCHANGED <<held, busy, routing>>
    [] c # None /\ status[c] = "connected" /\ m.what = "other" ->
         busy' = [busy EXCEPT ![p] = m] /\ UNCHANGED <<held, routing>>
    [] OTHER -> Move(p, c, m) /\ UNCHANGED busy

(* The chain's next message; one from a controller already gone is skipped. *)
Run(p) ==
  /\ queue[p] # <<>> /\ busy[p] = None
  /\ queue' = [queue EXCEPT ![p] = Tail(@)]
  /\ IF open[p] THEN Execute(p, Head(queue[p])) ELSE UNCHANGED <<held, busy, routing>>
  /\ UNCHANGED <<seat, cameras, stick, wire, carry, open>>

(* The camera answers; a controller that left meanwhile lets go again. *)
Answered(p) ==
  /\ busy[p] # None
  /\ busy' = [busy EXCEPT ![p] = None]
  /\ held' = IF open[p] THEN held ELSE Released({p})
  /\ UNCHANGED <<seat, cameras, stick, wire, carry, open, queue, routing>>

-----------------------------------------------------------------------------
(* The camera order changed: every routed move is let go, every route      *)
(* forgotten; what the controllers move is still remembered.                *)
OnCameraOrderChanged ==
  /\ order' \in SetToSeqs(Camera)
  /\ routes' = [p \in Peer |-> [a \in Address |-> None]]
  /\ held' = Released({p \in Peer : \E a \in Address : routes[p][a] # None})
  /\ UNCHANGED <<seat, status, stick, reading, moving>>

(* A head drops out, and what it was doing is forgotten; it returns, or is *)
(* taken off the list and put on it again.                                 *)
Drops(c) ==
  /\ status[c] = "connected"
  /\ Cardinality({d \in Camera : status[d] # "connected"}) < MaxDown
  /\ status' = [status EXCEPT ![c] = "offline"]
  /\ held' = [held EXCEPT ![c] = [x \in Axis |-> None]]
  /\ UNCHANGED <<seat, order, stick, reading, routing>>

Changes(c) ==
  /\ status[c] # "connected"
  /\ \E s \in {"gone", "offline", "connected"} \ {status[c]} : status' = [status EXCEPT ![c] = s]
  /\ UNCHANGED <<seat, order, held, stick, reading, routing>>

(* Another surface stops the axis or takes it over, or the deadman fires:  *)
(* no repeat for udpHoldMs or tcpHoldMs.                                   *)
Lapse(c, x) ==
  /\ held[c][x] # None
  /\ held' = [held EXCEPT ![c][x] = None]
  /\ UNCHANGED <<seat, cameras, stick, reading, routing>>

-----------------------------------------------------------------------------
Next ==
  \/ \E p \in Peer, a \in Address, x \in Axis : Push(p, a, x) \/ LetGo(p, a, x)
  \/ \E p \in Peer, a \in Address : Ask(p, a)
  \/ \E p \in Peer : Data(p) \/ Close(p) \/ Datagram(p) \/ Run(p) \/ Answered(p)
  \/ OnCameraOrderChanged
  \/ \E c \in Camera : Drops(c) \/ Changes(c)
  \/ \E c \in Camera, x \in Axis : Lapse(c, x)

Spec == Init /\ [][Next]_vars

SilentUdp(c, x) == held[c][x] # None /\ ~seat[held[c][x]].tcp /\ stick[held[c][x]] = {}

(* TCP delivers, the chain runs, a call to a camera ends, and the deadman  *)
(* of a silent UDP controller fires.  Nothing is assumed of the 60 s of a  *)
(* TCP controller, of the operators or of the heads.                       *)
Fairness ==
  /\ \A p \in Peer : WF_vars(Data(p)) /\ WF_vars(Run(p)) /\ WF_vars(Answered(p))
  /\ WF_vars(\E c \in Camera, x \in Axis : SilentUdp(c, x) /\ Lapse(c, x))

FairSpec == Spec /\ Fairness

-----------------------------------------------------------------------------
Holds(p) == \E c \in Camera, x \in Axis : held[c][x] = p

(* Whatever a controller holds moving it can stop: it is still there, and  *)
(* the camera is the one its stop will be sent to, whatever has become of  *)
(* the camera order since, because an address it moves that axis from is   *)
(* routed to it.                                                           *)
HoldsCanBeStopped ==
  \A c \in Camera, x \in Axis : held[c][x] \in Peer =>
    LET p == held[c][x] IN
    /\ open[p]
    /\ \/ Own(p) = c
       \/ \E a \in Address : x \in moving[p][a] /\ routes[p][a] = c

(* A stick let go moves nothing for long: however its bytes were cut and   *)
(* whatever slow command is ahead of it, the stop runs, before the minute  *)
(* a silent TCP controller is allowed.                                     *)
RestIsObeyed ==
  \A p \in Peer : (stick[p] = {}) ~> (stick[p] # {} \/ ~Holds(p))
=============================================================================
