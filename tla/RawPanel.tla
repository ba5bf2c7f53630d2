------------------------------ MODULE RawPanel ------------------------------
(***************************************************************************)
(* The link to a SKAARHOJ panel in Raw Panel Mode: the RawPanelClient of   *)
(* cambridge/src/skaarhoj/rawpanel.js.  It connects, asks the panel what   *)
(* it is, and trusts its controls only once it has said so; it notices a   *)
(* link that fell silent, and tries again until it is stopped.             *)
(*                                                                         *)
(* The panel is not in the repository: it is modelled as the code expects  *)
(* it.  Its lines arrive in order and are lost with the connection.        *)
(*                                                                         *)
(* Abstractions.  A topology and a map are the sets of controls they show. *)
(* The numbers the map gives to controls, the lengths of the backoff,      *)
(* pings and acks, and lines that only inform are left out.                *)
(***************************************************************************)
EXTENDS Naturals, Sequences, SequencesExt

CONSTANTS Control,     \* the panel's controls
          MaxWire,     \* bound: lines on the way before the operator's hands wait
          MaxFaults,   \* bound: outages, closed connections, changes of panel and cameras
          Null

VARIABLES
  panel,       \* "off", "ascii", "bare" (sends no topology) or "binary" (never answers)
  mode,        \* of a panel: "awake", "asleep" or "blocked"
  wire,        \* lines on the way to CamBridge: [k, ...]
  peer,        \* the panel's end of the connection exists
  faults,      \* faults so far
  stopped,     \* not driving a panel
  socket,      \* "none", "opening", "open"
  identified,  \* `connected`: the panel said what it is
  retry,       \* timers.reconnect runs
  init,        \* timers.init runs
  model,       \* info.model is known
  topology,    \* controls of the last topology, or Null
  map,         \* control -> what the map says of it: "unsaid", "on", "off"
  sleeping

device  == <<panel, mode, peer, faults>>
link    == <<stopped, socket, identified, retry, init>>
known   == <<model, topology, map, sleeping>>
rawvars == <<device, wire, link, known>>

RawTypeOK ==
  /\ panel \in {"off", "ascii", "bare", "binary"} /\ mode \in {"awake", "asleep", "blocked"}
  /\ faults \in 0..MaxFaults /\ socket \in {"none", "opening", "open"}
  /\ stopped \in BOOLEAN /\ identified \in BOOLEAN /\ retry \in BOOLEAN /\ init \in BOOLEAN
  /\ model \in BOOLEAN /\ sleeping \in BOOLEAN /\ peer \in BOOLEAN
  /\ topology \in {Null} \cup SUBSET Control
  /\ map \in [Control -> {"unsaid", "on", "off"}]

Unsaid == [c \in Control |-> "unsaid"]

(* A panel as it comes; it can be set to other modes. *)
RawInit ==
  /\ panel = "ascii" /\ mode = "awake" /\ peer = FALSE
  /\ wire = <<>> /\ faults = 0
  /\ stopped = TRUE /\ socket = "none" /\ identified = FALSE
  /\ retry = FALSE /\ init = FALSE
  /\ model = FALSE /\ topology = Null /\ map = Unsaid /\ sleeping = FALSE

(* available: a control the map has been silent about is not there, once  *)
(* there is a map.                                                         *)
Available(m) == {c \in Control : m = Unsaid \/ m[c] = "on"}

(* The entries of a map, one line each. *)
Entries(on) == LET cs == SetToSeq(Control) IN
  [i \in 1..Len(cs) |-> [k |-> "map", id |-> cs[i], on |-> cs[i] \in on]]

-----------------------------------------------------------------------------
(* What a new connection forgets of the panel. *)
ResetPanel == model' = FALSE /\ topology' = Null /\ map' = Unsaid /\ sleeping' = FALSE

OpenSocket == socket' = "opening" /\ retry' = FALSE /\ ResetPanel

Start ==
  /\ stopped /\ stopped' = FALSE
  /\ OpenSocket
  /\ UNCHANGED <<device, wire, identified, init>>

Reconnect ==
  /\ retry
  /\ OpenSocket
  /\ UNCHANGED <<device, wire, stopped, identified, init>>

(* #close: the socket is forgotten before it is closed, so that its own    *)
(* late events do nothing.                                                 *)
CloseSocket ==
  /\ socket' = "none" /\ identified' = FALSE /\ init' = FALSE
  /\ wire' = <<>> /\ peer' = FALSE

(* #fail and #scheduleReconnect: one reconnection at a time. *)
Fail == CloseSocket /\ retry' = TRUE

(* The panel takes the connection and answers list, PanelTopology? and map. *)
Connected ==
  /\ socket = "opening" /\ panel # "off"
  /\ socket' = "open" /\ init' = TRUE /\ peer' = TRUE
  /\ wire' = CASE panel = "ascii" -> <<[k |-> "model"], [k |-> "topology", on |-> Control]>>
                                     \o Entries(IF mode = "asleep" THEN {} ELSE Control)
               [] panel = "bare"  -> <<[k |-> "model"]>>
               [] OTHER           -> <<>>
  /\ UNCHANGED <<panel, mode, faults, stopped, identified, retry, known>>

Deaf == (socket = "opening" /\ panel = "off") \/ (socket = "open" /\ ~peer)

(* Mutant: what goes wrong before the panel is identified is not retried.  *)
MutGone ==
  /\ Deaf
  /\ CloseSocket /\ retry' = identified
  /\ UNCHANGED <<panel, mode, faults, stopped, known>>

(* No answer, a refused or a closed connection, no heartbeat: the panel is *)
(* not there.                                                              *)
Gone ==
  /\ Deaf
  /\ Fail
  /\ UNCHANGED <<panel, mode, faults, stopped, known>>

(* The panel, or the network, closes a connection. *)
LinkClosed ==
  /\ socket # "none" /\ faults < MaxFaults /\ faults' = faults + 1
  /\ Fail
  /\ UNCHANGED <<panel, mode, stopped, known>>

Ready == identified' = TRUE /\ init' = FALSE

(* #initTimedOut: a panel that answered but sent no topology is usable;    *)
(* one that never answered is not.  It may only have been slow.            *)
InitTimedOut ==
  /\ init
  /\ IF wire = <<>> THEN UNCHANGED faults ELSE faults < MaxFaults /\ faults' = faults + 1
  /\ \/ model /\ Ready /\ UNCHANGED <<wire, peer, socket, retry>>
     \/ ~model /\ Fail
  /\ UNCHANGED <<panel, mode, stopped, known>>

Stop ==
  /\ ~stopped /\ stopped' = TRUE
  /\ CloseSocket /\ retry' = FALSE
  /\ UNCHANGED <<panel, mode, faults, known>>

-----------------------------------------------------------------------------
Says(k) == socket = "open" /\ wire # <<>> /\ Head(wire).k = k

(* #line ends by asking whether the panel is identified now. *)
Identifies == ~identified /\ model' /\ topology' # Null

Take ==
  /\ wire' = Tail(wire)
  /\ IF Identifies THEN Ready ELSE UNCHANGED <<identified, init>>
  /\ UNCHANGED <<device, stopped, socket, retry>>

Model    == Says("model") /\ model' = TRUE /\ UNCHANGED <<topology, map, sleeping>> /\ Take
Topology == Says("topology") /\ topology' = Head(wire).on /\ UNCHANGED <<model, map, sleeping>> /\ Take

MapEntry ==
  /\ Says("map")
  /\ map' = [map EXCEPT ![Head(wire).id] = IF Head(wire).on THEN "on" ELSE "off"]
  /\ UNCHANGED <<model, topology, sleeping>>
  /\ Take

Sleep   == Says("sleep") /\ sleeping' = Head(wire).on /\ UNCHANGED <<model, topology, map>> /\ Take
Blocked == Says("blocked") /\ UNCHANGED known /\ Take
Input   == Says("input") /\ UNCHANGED known /\ Take

(* No ASCII support: closed, and tried again later. *)
Refused ==
  /\ Says("refusal")
  /\ Fail
  /\ UNCHANGED <<panel, mode, faults, stopped, known>>

-----------------------------------------------------------------------------
(* The panel: switched off and on, set to another mode, asleep, blocked,   *)
(* its topology pushed again.                                              *)
Tell(lines) == wire' = IF peer THEN wire \o lines ELSE wire

Fault == faults < MaxFaults /\ faults' = faults + 1

Power ==
  /\ Fault /\ panel' \in {"off", "ascii", "bare", "binary"} \ {panel}
  /\ \/ panel = "off" /\ mode' = "awake" /\ UNCHANGED <<wire, peer>>
     \/ panel # "off" /\ panel' = "off" /\ wire' = <<>> /\ peer' = FALSE /\ UNCHANGED mode
     \/ panel # "off" /\ panel' = "binary" /\ UNCHANGED <<mode, peer>> /\ Tell(<<[k |-> "refusal"]>>)
  /\ UNCHANGED <<link, known>>

Changes ==
  /\ Fault /\ panel = "ascii"
  /\ \/ /\ mode = "awake" /\ mode' = "asleep"
        /\ Tell(Append(Entries({}), [k |-> "sleep", on |-> TRUE]))
     \/ /\ mode = "asleep" /\ mode' = "awake"
        /\ Tell(<<[k |-> "sleep", on |-> FALSE]>> \o Entries(Control))
     \/ mode = "awake" /\ mode' = "blocked" /\ Tell(<<[k |-> "blocked"]>>)
     \/ mode = "blocked" /\ mode' = "awake" /\ UNCHANGED wire
     \/ /\ UNCHANGED mode
        /\ \E on \in SUBSET Control : Tell(<<[k |-> "topology", on |-> on]>>)
  /\ UNCHANGED <<panel, peer, link, known>>

(* A control is moved; the panel says so unless it sleeps or is blocked. *)
Hand(c, v) ==
  /\ Len(wire) < MaxWire
  /\ IF panel \in {"ascii", "bare"} /\ mode = "awake"
     THEN Tell(<<[k |-> "input", id |-> c, v |-> v]>>) ELSE UNCHANGED wire
  /\ UNCHANGED <<device, link, known>>
=============================================================================
