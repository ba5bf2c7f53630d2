------------------------------ MODULE AtemTally ------------------------------
(***************************************************************************)
(* Tally from the switcher: the AtemTally of cambridge/src/atem.js and the *)
(* handlers of server.js that bring it to the panel.  CamBridge asks       *)
(* with HELLO until the switcher answers; the switcher then sends its      *)
(* state and every change, over UDP, and repeats each packet until it is   *)
(* acknowledged.  CamBridge follows one session, acts on packets in rising *)
(* order only, and starts over when nothing has been heard for five        *)
(* seconds, with every light out.  A switcher given by name is listened to *)
(* only once a lookup has found its address.                               *)
(*                                                                         *)
(* The switcher and the network are not in the repository: they are        *)
(* modelled as the code expects them.  A packet may be delayed, overtaken, *)
(* repeated and lost (an unacknowledged one is sent again); each HELLO     *)
(* gets a new session, and an answer, which is sent once, may come late or *)
(* never.                                                                  *)
(*                                                                         *)
(* Abstractions.  One camera, program only.  A packet holds the camera's   *)
(* tally or something else.  Datagrams that are malformed or not from the  *)
(* switcher are dropped with no effect and left out.  The lamps on the     *)
(* heads, which follow the panel's tally except at a disconnect, are not   *)
(* modelled.                                                               *)
(***************************************************************************)
EXTENDS Naturals, FiniteSets

CONSTANTS Ids,          \* packet ids wrap here (2^15)
          First,        \* the ids a session may begin with
          Last,         \* bound: the id that no session comes to
          MaxPending,   \* bound: packets not yet acknowledged
          MaxFaults,    \* bound: outages and restarts of the switcher, sessions that overlap,
                        \* HELLOs beyond the one awaited, answers lost, errors of the socket
          None

ASSUME AtemAssumption ==
  /\ Ids \in Nat \ {0} /\ First \subseteq 0..(Ids - 1) /\ First # {} /\ Last \notin First
  /\ MaxPending \in Nat \ {0} /\ 4 * MaxPending < Ids /\ MaxFaults \in Nat

(* A session is named by its age: the switcher's present one, the one      *)
(* before it, or an earlier one.                                           *)
Session == 0..2
Packet  == [s : Session, id : 0..(Ids - 1), what : BOOLEAN \cup {None}, latest : BOOLEAN]

VARIABLES
  on,        \* the switcher is powered and reachable
  air,       \* what it says of the camera: on program
  serves,    \* it has a session with us (a restart forgets it)
  next,      \* id of its next packet, in its present session
  pending,   \* packets sent and not acknowledged
  answers,   \* how many answers to our HELLOs are on the way
  faults,    \* faults so far
  socket,    \* "none", "closed" (opened again in a second), "open"
  address,   \* peerAddress: "unknown" (null), "asked" (null, a lookup is under way), "known"
  connected, \* the handshake is done
  pinned,    \* pinnedSession, by its age
  last,      \* lastRemoteId
  tally,     \* the reader's tally of the camera, None after a reset
  listed,    \* the camera is in the state mirror
  panel,     \* the tally the panel shows of it, None for none
  missed     \* history: how the latest tally was lost on the way (see TallyFollows)

switcher == <<on, air, serves, next, pending, answers>>
reader   == <<socket, address, connected, pinned, last, tally>>
mirror   == <<listed, panel>>
vars     == <<switcher, faults, reader, mirror, missed>>

TypeOK ==
  /\ on \in BOOLEAN /\ air \in BOOLEAN /\ serves \in BOOLEAN
  /\ next \in 0..(Ids - 1)
  /\ pending \subseteq Packet /\ answers \in 0..(MaxFaults + 1) /\ faults \in 0..MaxFaults
  /\ socket \in {"none", "closed", "open"} /\ connected \in BOOLEAN
  /\ address \in {"unknown", "asked", "known"}
  /\ pinned \in Session \cup {None} /\ last \in 0..(Ids - 1) \cup {None}
  /\ tally \in BOOLEAN \cup {None} /\ panel \in BOOLEAN \cup {None}
  /\ listed \in BOOLEAN
  /\ missed \subseteq {"overtaken", "repeated", "joined"}

(* The switcher is configured by its address or by a name.                 *)
Init ==
  /\ on \in BOOLEAN /\ air = FALSE /\ serves = FALSE /\ next = 0
  /\ pending = {} /\ answers = 0 /\ faults = 0
  /\ socket = "none" /\ address \in {"unknown", "known"}
  /\ connected = FALSE /\ pinned = None /\ last = None
  /\ tally = None /\ panel = None
  /\ listed = TRUE /\ missed = {}

-----------------------------------------------------------------------------
(* The switcher.  A packet joins those it repeats until acknowledged; the  *)
(* newest with the tally is marked.                                        *)
Old(P) == {[p EXCEPT !.latest = FALSE] : p \in P}

(* It does not let a quarter of the id space go by while a packet is out. *)
Room ==
  /\ Cardinality(pending) < MaxPending /\ next # Last
  /\ \A p \in pending : p.s = 0 => 4 * ((next + Ids - p.id) % Ids) < Ids

Send(P, id, what) ==
  /\ pending' = (IF what = None THEN P ELSE Old(P))
                  \cup {[s |-> 0, id |-> id, what |-> what, latest |-> what # None]}
  /\ next' = (id + 1) % Ids

Fault == faults < MaxFaults /\ faults' = faults + 1

(* It goes, or comes back knowing nothing of us. *)
Power ==
  /\ Fault
  /\ on' = ~on /\ answers' = 0
  /\ pending' = {} /\ serves' = FALSE
  /\ air' \in BOOLEAN
  /\ UNCHANGED <<next, reader, mirror, missed>>

(* What is news makes what was lost of the old irrelevant. *)
News == missed' = missed \ {"overtaken", "repeated"}

(* A cut, or anything else the switcher tells, once somebody listens.      *)
Cut ==
  /\ on /\ air' = ~air
  /\ IF serves THEN Room /\ Send(pending, next, air') ELSE UNCHANGED <<pending, next>>
  /\ News
  /\ UNCHANGED <<on, serves, answers, faults, reader, mirror>>

Other ==
  /\ on /\ serves /\ Room
  /\ Send(pending, next, None)
  /\ UNCHANGED <<on, air, serves, answers, faults, reader, mirror, missed>>

(* A HELLO reaches it: it answers and dumps its state in a new session.    *)
(* What it had not got through in the old one, P, may still be on its way. *)
NewSession(P) ==
  /\ on /\ socket = "open"
  /\ serves' = TRUE
  /\ answers' = answers + 1
  /\ pinned' = IF pinned \in {0, 1} THEN pinned + 1 ELSE pinned
  /\ \E id \in First : Send({[p EXCEPT !.s = 1] : p \in P}, id, air)
  /\ News
  /\ UNCHANGED <<on, air, socket, address, connected, last, tally, mirror>>

Unfinished == {p \in pending : p.s = 0}

HelloReceived ==
  /\ ~connected /\ answers = 0
  /\ \/ NewSession({}) /\ UNCHANGED faults
     \/ Unfinished # {} /\ Fault /\ NewSession(Unfinished)

(* One repeated before the answer to the last was there reaches it too,    *)
(* perhaps when CamBridge has connected by the other's answer.             *)
HelloRepeated ==
  /\ connected \/ answers > 0
  /\ Fault
  /\ \E P \in {{}, Unfinished} : NewSession(P)

AnswerLost ==
  /\ answers > 0 /\ answers' = answers - 1
  /\ Fault
  /\ UNCHANGED <<on, air, serves, next, pending, reader, mirror, missed>>

-----------------------------------------------------------------------------
(* #open, at start() and a second after a reset; HELLO goes out now and    *)
(* every two seconds until it is answered.  A name is looked up here and   *)
(* nowhere else.                                                           *)
Open ==
  /\ socket' = "open"
  /\ address' = IF address = "known" THEN "known" ELSE "asked"
  /\ UNCHANGED <<switcher, faults, connected, pinned, last, tally, mirror, missed>>

Start  == socket = "none" /\ Open
Reopen == socket = "closed" /\ Open

(* The lookup finds the address, or fails, which is logged.  After a reset *)
(* the earlier lookup may still be under way: it finds what this one does. *)
LookedUp ==
  /\ address = "asked"
  /\ address' \in {"known", "unknown"}
  /\ UNCHANGED <<switcher, faults, socket, connected, pinned, last, tally, mirror, missed>>

(* #reset, and the handler of 'disconnected': the panel's tally is cleared.*)
(* An answer to the closed socket is lost; packets are repeated.           *)
Reset ==
  /\ connected' = FALSE /\ pinned' = None /\ last' = None /\ tally' = None
  /\ socket' = "closed" /\ answers' = 0
  /\ panel' = IF connected THEN None ELSE panel
  /\ missed' = missed \ {"joined"}
  /\ UNCHANGED <<on, air, serves, next, pending, address, listed>>

(* The watchdog: nothing accepted for five seconds, because the switcher   *)
(* is gone or speaks in another session or to nobody, or the network is out.*)
Deaf == ~on \/ ~serves \/ (pinned # None /\ pinned # 0)

Watchdog ==
  /\ socket = "open" /\ connected
  /\ IF Deaf THEN UNCHANGED faults ELSE Fault
  /\ Reset

SocketError == socket = "open" /\ Fault /\ Reset

(* receive: any HELLO begins a session, whatever was pinned; from an       *)
(* address not known to be the switcher's it is dropped.                   *)
HelloAnswered ==
  /\ answers > 0 /\ socket = "open"
  /\ answers' = answers - 1
  /\ IF address = "known"
     THEN connected' = TRUE /\ pinned' = None /\ last' = None
     ELSE UNCHANGED <<connected, pinned, last>>
  /\ UNCHANGED <<on, air, serves, next, pending, faults, socket, address, tally, mirror, missed>>

(* Mutant: ids are compared as numbers, as if they never wrapped. *)
MutBehind(id) == last # None /\ id <= last

(* An id at or behind the last one is a repeat. *)
Behind(id) == last # None /\ LET ahead == (id + Ids - last) % Ids IN ahead = 0 \/ 2 * ahead >= Ids

(* The switcher hears our acknowledgement, or not and repeats the packet. *)
Acked(p) == pending' \in {pending, pending \ {p}}

(* It comes before the latest tally, which was sent earlier. *)
Overtakes(q) ==
  \E p \in pending \ {q} : /\ p.latest /\ p.what # tally /\ p.s = q.s
                          /\ 2 * ((q.id + Ids - p.id) % Ids) < Ids

(* It is the repeat of an old tally, and the latest is not to be heard again. *)
Stale(p) == ~p.latest /\ \A q \in pending : ~q.latest

(* The packet is acted on: a tally that differs reaches the panel.         *)
Act(p) ==
  /\ last' = p.id
  /\ Acked(p)
  /\ IF p.what \in {None, tally}
     THEN /\ missed' = missed \cup (IF Overtakes(p) THEN {"overtaken"} ELSE {})
          /\ UNCHANGED <<tally, panel>>
     ELSE /\ tally' = p.what
          /\ panel' = IF listed THEN p.what ELSE panel
          /\ missed' = IF Stale(p) THEN {"repeated"} ELSE {}

(* A repeat is acknowledged again and not acted on. *)
Repeat(p) == Acked(p) /\ UNCHANGED <<last, tally, panel, missed>>

(* receive: before the handshake and from a foreign session a packet is    *)
(* dropped.                                                                *)
Receive(p) ==
  /\ p \in pending /\ socket = "open" /\ connected
  /\ pinned \in {None, p.s}
  /\ pinned' = p.s
  /\ IF Behind(p.id) THEN Repeat(p) ELSE Act(p)
  /\ UNCHANGED <<on, air, serves, next, answers, faults, socket, address, connected, listed>>

(* The camera leaves the mirror and comes back, without a tally: that of   *)
(* the switcher is applied again only when it changes.                     *)
Leaves == listed /\ listed' = FALSE /\ panel' = None /\ UNCHANGED <<switcher, faults, reader, missed>>

Joins ==
  /\ ~listed /\ listed' = TRUE
  /\ missed' = IF tally # None THEN missed \cup {"joined"} ELSE missed
  /\ UNCHANGED <<switcher, faults, reader, panel>>

-----------------------------------------------------------------------------
Next ==
  \/ Power \/ Cut \/ Other \/ HelloReceived \/ HelloRepeated \/ AnswerLost
  \/ Start \/ Reopen \/ LookedUp \/ Watchdog \/ SocketError \/ HelloAnswered
  \/ \E p \in pending : Receive(p)
  \/ Leaves \/ Joins

Spec == Init /\ [][Next]_vars

(* Timers fire, a lookup ends, HELLO is repeated while unanswered, packets *)
(* are repeated until acknowledged, and the watchdog fires when nothing    *)
(* can be heard.                                                           *)
Fairness ==
  /\ WF_vars(Reopen) /\ WF_vars(LookedUp) /\ WF_vars(Deaf /\ Watchdog)
  /\ WF_vars(HelloReceived) /\ WF_vars(HelloAnswered)
  /\ WF_vars(\E p \in pending : p.latest /\ Receive(p))

FairSpec == Spec /\ Fairness

-----------------------------------------------------------------------------
(* The name of the switcher was not found when it was looked up, and       *)
(* nothing has reset the socket since, which the code does only when it is *)
(* connected or the socket fails: HELLO goes on being sent, and every      *)
(* answer is dropped (atem.js:97-101, 183-185), against the comment there  *)
(* that a switcher is picked up without a restart.                         *)
Unresolved == socket = "open" /\ address = "unknown"

(* The panel follows the switcher: once started, whatever is lost, late or *)
(* repeated, what is on air and stays on air is shown, and nothing is      *)
(* shown of a switcher that is gone.  Four exceptions are named: the       *)
(* switcher's name is Unresolved; the packet with the latest tally was     *)
(* lost and one sent after it came through, so that its repeat was taken   *)
(* for old news (atem.js:204-214); a second HELLO was answered late, so that   *)
(* the repeat of an old packet was acted on (atem.js:191-197); and the     *)
(* camera came into the mirror after the tally did.                        *)
TallyFollows ==
  /\ \A v \in BOOLEAN : (socket # "none" /\ on /\ air = v)
                         ~> (panel = v \/ air # v \/ ~on \/ ~listed \/ missed # {} \/ Unresolved)
  /\ ~on ~> (on \/ panel = None)
=============================================================================
