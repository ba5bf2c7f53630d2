------------------------------- MODULE BleGateway -------------------------------
(***************************************************************************)
(* cambridge/src/ble/gateway.js with what it talks through and to: the      *)
(* Swift bridge (blebridge/Sources), which relays between a Unix socket and *)
(* the radio, and the phone's session (mobile/core BleSession.kt, its       *)
(* retries in BleTransport.kt). One paired phone, one central id.           *)
(*                                                                         *)
(* A gateway step is one run of JavaScript up to its next await. `up` and   *)
(* `down` are the lossless streams between phone and gateway; they are cut  *)
(* when the phone leaves, the bridge's link drops or its outbox overflows.  *)
(* A session is known by its index: its nonce, and so its keys, are its own.*)
(***************************************************************************)
EXTENDS Integers, Sequences, SequencesExt, FiniteSets

CONSTANTS
    Commands,     \* calls of the phone; the activation it sends on session s is call s
    MaxSessions,  \* sessions the gateway may open
    MaxFrames,    \* changes of the live state
    MaxFaults,    \* links cut, answers late, requests over the rate
    MaxTries,     \* MAX_AUTH_TRIES
    DedupeMax     \* DEDUPE_MAX

ASSUME BleAssumption ==
    /\ {MaxSessions, MaxFrames, MaxFaults, MaxTries, DedupeMax} \subseteq Nat /\ MaxTries > 1
    /\ Commands \subseteq Nat \ 0..MaxSessions

VARIABLES
    linked,   \* the bridge is connected to the gateway
    blocked,  \* the bridge refuses the phone's writes
    sess,     \* the session objects, in the order made
    cur,      \* this.sessions: the index of the central's session, or 0
    entry,    \* the objects of the dedupe table, in the order made
    table,    \* this.dedupe: indices of entry, oldest first
    device,   \* the phone in the registry: pending, active, expired, revoked
    latest,   \* the version of the live state
    up,       \* bridge and phone to gateway
    down,     \* gateway to phone
    phone,    \* the phone's BleSession
    call,     \* per call of the phone: copies sent, and its answer
    faults,   \* history: faults so far
    amiss     \* history: what happened that a property makes an exception for

gateway == <<sess, cur, entry, table>>
vars == <<linked, blocked, sess, cur, entry, table, device, latest, up, down, phone, call, faults, amiss>>

Activation(i) == i \in 1..MaxSessions
CallIds == Commands \cup 1..MaxSessions
Fault == faults < MaxFaults /\ faults' = faults + 1

(* BleSession: on while it lives, parts: the session whose HELLO it answered, key: the
   session it is ready on (channels), bad: messages that did not open, seq: lastSeq *)
NoPhone == [on |-> FALSE, parts |-> 0, key |-> 0, bad |-> 0, seq |-> 0, frame |-> 0]

Init ==
    /\ linked = TRUE /\ blocked = FALSE
    /\ sess = <<>> /\ cur = 0 /\ entry = <<>> /\ table = <<>>
    /\ device \in {"pending", "active"} /\ latest = 1
    /\ up = <<>> /\ down = <<>> /\ phone = NoPhone
    /\ call = [i \in CallIds |-> [copies |-> 0, answer |-> "none"]]
    /\ faults = 0 /\ amiss = {}

Plain(k, s) == [k |-> k, s |-> s, sealed |-> FALSE, a |-> 0, b |-> 0]
Sealed(k, s, a, b) == [k |-> k, s |-> s, sealed |-> TRUE, a |-> a, b |-> b]

-----------------------------------------------------------------------------
(* The gateway's operations: each maps a state [sess, cur, down, blocked] to the next *)

State == [sess |-> sess, cur |-> cur, down |-> down, blocked |-> blocked]
Becomes(g) == sess' = g.sess /\ cur' = g.cur /\ down' = g.down /\ blocked' = g.blocked

(* #send: only whether the central has some session is looked at, not which. The bridge
   passes on what is for a phone that is subscribed. *)
Send(g, m) == IF g.cur = 0 \/ ~linked \/ ~phone.on THEN g ELSE [g EXCEPT !.down = Append(@, m)]

(* #session: a session that is there is kept *)
Session(g) ==
    IF g.cur # 0 THEN g
    ELSE LET s == Len(g.sess) + 1
             new == [state |-> "hello", timer |-> TRUE, tries |-> 0, errors |-> 0,
                     pending |-> FALSE, fullSent |-> FALSE, seq |-> 0]
         IN  Send([g EXCEPT !.sess = Append(@, new), !.cur = s], Plain("hello", s))

(* #close: by the central's id *)
CloseSession(g, s) == [g EXCEPT !.sess[s].timer = FALSE, !.cur = 0, !.blocked = TRUE]

(* #refuse *)
Refuse(g, s) == IF g.cur = 0 THEN g ELSE CloseSession(Send(g, Plain("authFail", s)), s)

(* #sendFull *)
MutSendFull(g, s) ==   \* fullSent is never set
    LET n == g.sess[s].seq + 1
    IN  Send([g EXCEPT !.sess[s].seq = n], Sealed("full", s, n, latest))
SendFull(g, s) ==
    LET n == g.sess[s].seq + 1
    IN  Send([g EXCEPT !.sess[s].fullSent = TRUE, !.sess[s].seq = n], Sealed("full", s, n, latest))

(* #auth, of an AUTH that answers the HELLO of session m.s *)
Auth(g, s, m) ==
    LET fail == IF g.sess[s].tries + 1 >= MaxTries THEN Refuse([g EXCEPT !.sess[s].tries = @ + 1], s)
                ELSE Send([g EXCEPT !.sess[s].tries = @ + 1], Plain("authFail", s))
        open == Send([g EXCEPT !.sess[s].timer = FALSE, !.sess[s].state = "open",
                               !.sess[s].pending = (device = "pending")], Plain("authOk", s))
    IN  CASE m.k # "auth" -> Refuse(g, s)
          [] m.k = "auth" /\ (device \notin {"pending", "active"} \/ m.s # s) -> fail
          [] OTHER -> IF device = "pending" THEN open ELSE SendFull(open, s)

-----------------------------------------------------------------------------
(* Requests *)

(* The oldest entries go while the table is over its size, whether they are done or not *)
Swept == IF Len(table) > DedupeMax THEN SubSeq(table, Len(table) - DedupeMax + 1, Len(table)) ELSE table

(* A copy of call i may still reach the gateway *)
Awaited(i) == call[i].answer = "none" \/ \E n \in DOMAIN up : up[n].k = "request" /\ up[n].a = i

Response(s, i, answer) == Sealed("response", s, i, answer)

(* #request of call i on the open session s: up to the dispatch *)
MutRequest(s, i) ==   \* a repeat is recognised once it has been answered
    /\ table' = Append(Swept, Len(entry) + 1)
    /\ amiss' = amiss
    /\ LET seen == {e \in ToSet(Swept) : entry[e].i = i /\ entry[e].done}
       IN  IF seen # {}
           THEN Becomes(Send(State, Response(s, i, "ok"))) /\ UNCHANGED <<entry, faults>>
           ELSE /\ entry' = Append(entry, [i |-> i, by |-> s, ran |-> FALSE, done |-> FALSE, answer |-> "none", waiters |-> {s}])
                /\ UNCHANGED <<sess, cur, down, blocked, faults>>

Request(s, i) ==
    LET seen == {e \in ToSet(Swept) : entry[e].i = i}
        early == sess[s].pending /\ ~Activation(i)
        new == [i |-> i, by |-> s, ran |-> FALSE, done |-> early,
                answer |-> IF early THEN "early" ELSE "none", waiters |-> IF early THEN {} ELSE {s}]
    IN  /\ amiss' = IF \E e \in ToSet(table) \ ToSet(Swept) : Awaited(entry[e].i) THEN amiss \cup {"evicted"} ELSE amiss
        /\ IF seen # {}
           THEN LET e == CHOOSE e \in seen : TRUE
                IN  /\ table' = Swept /\ UNCHANGED faults
                    /\ IF entry[e].done
                       THEN Becomes(Send(State, Response(s, i, entry[e].answer))) /\ UNCHANGED entry
                       ELSE /\ entry' = [entry EXCEPT ![e].waiters = @ \cup {s}]
                            /\ UNCHANGED <<sess, cur, down, blocked>>
           ELSE \/ /\ Fault   \* #take: over the rate, 429
                   /\ table' = Swept /\ UNCHANGED entry
                   /\ Becomes(Send(State, Response(s, i, "limited")))
                \/ /\ entry' = Append(entry, new) /\ table' = Append(Swept, Len(entry) + 1)
                   /\ UNCHANGED faults
                   /\ IF early THEN Becomes(Send(State, Response(s, i, "early")))
                               ELSE UNCHANGED <<sess, cur, down, blocked>>

(* The route runs, some time after the dispatch *)
Runs(e) ==
    /\ ~entry[e].ran /\ entry[e].answer \in {"none", "late"}
    /\ Activation(entry[e].i) => device # "revoked"
    /\ entry' = [entry EXCEPT ![e].ran = TRUE]
    /\ device' = IF Activation(entry[e].i) THEN "active" ELSE device
    /\ UNCHANGED <<linked, blocked, sess, cur, table, latest, up, down, phone, call, faults, amiss>>

(* The dispatch settles: with the route's answer, or after 15 s without one. The
   session that asked may be gone, and another one have taken its place. *)
Settles(e, answer) ==
    LET s == entry[e].by
        activated == answer = "ok" /\ Activation(entry[e].i)
        g == IF activated /\ sess[s].pending /\ cur # 0 /\ sess[cur].state = "open"
             THEN [State EXCEPT !.sess[cur].pending = FALSE] ELSE State
        told == IF cur \in entry[e].waiters THEN Send(g, Response(cur, entry[e].i, answer)) ELSE g
    IN  /\ ~entry[e].done
        /\ CASE answer = "ok" -> entry[e].ran /\ UNCHANGED faults
              [] answer = "failed" -> Activation(entry[e].i) /\ device = "revoked" /\ ~entry[e].ran /\ UNCHANGED faults
              [] answer = "late" -> Fault
        /\ entry' = [entry EXCEPT ![e].done = TRUE, ![e].answer = answer, ![e].waiters = {}]
        /\ Becomes(IF activated THEN SendFull(told, s) ELSE told)
        /\ amiss' = IF activated /\ cur \notin {0, s} THEN amiss \cup {"elsewhere"} ELSE amiss
        /\ UNCHANGED <<linked, table, device, latest, up, phone, call>>

-----------------------------------------------------------------------------
(* What reaches the gateway *)

MutDisconnected ==   \* the timer of the session is left running
    Becomes([State EXCEPT !.cur = 0])
Disconnected ==
    Becomes(IF cur = 0 THEN State ELSE [State EXCEPT !.sess[cur].timer = FALSE, !.cur = 0])

(* #write on an open session: a message that opens, or one that does not *)
Opened(m) ==
    IF m.sealed /\ m.s = cur
    THEN CASE m.k = "request" -> Request(cur, m.a)
           [] m.k = "resync" -> /\ Becomes(IF sess[cur].pending THEN State ELSE SendFull(State, cur))
                                /\ UNCHANGED <<entry, table, amiss, faults>>
    ELSE LET g == [State EXCEPT !.sess[cur].errors = @ + 1]
         IN  /\ Becomes(IF sess[cur].errors + 1 >= 3 THEN Refuse(g, cur) ELSE g)
             /\ UNCHANGED <<entry, table, amiss, faults>>

(* #fromBridge *)
FromBridge ==
    /\ linked /\ up # <<>> /\ up' = Tail(up)
    /\ LET m == Head(up)
       IN  CASE m.k = "connect" -> Becomes(Session(State)) /\ UNCHANGED <<entry, table, amiss, faults>>
             [] m.k = "disconnect" -> Disconnected /\ UNCHANGED <<entry, table, amiss, faults>>
             [] OTHER -> IF cur # 0 /\ sess[cur].state = "open" THEN Opened(m)
                         ELSE LET g == Session(State)
                              IN  Becomes(Auth(g, g.cur, m)) /\ UNCHANGED <<entry, table, amiss, faults>>
    /\ UNCHANGED <<linked, device, latest, phone, call>>

(* The authentication timer of session s, which may be gone and another in its place *)
AuthTimer(s) ==
    /\ sess[s].timer
    /\ Becomes(Refuse([State EXCEPT !.sess[s].timer = FALSE], s))
    /\ amiss' = amiss \cup {IF s = cur THEN "slow" ELSE "stale"}
    /\ UNCHANGED <<linked, entry, table, device, latest, up, phone, call, faults>>

(* #revoked, from devices.revoke *)
MutRevoke ==   \* the registry forgets the phone, its session goes on
    /\ device' = "revoked" /\ UNCHANGED <<sess, cur, down, blocked>>
    /\ device # "revoked"
    /\ UNCHANGED <<linked, entry, table, latest, up, phone, call, faults, amiss>>
Revoke ==
    /\ device # "revoked" /\ device' = "revoked"
    /\ Becomes(IF cur # 0 /\ sess[cur].state = "open"
               THEN CloseSession(Send(State, Sealed("revoked", cur, 0, 0)), cur) ELSE State)
    /\ UNCHANGED <<linked, entry, table, latest, up, phone, call, faults, amiss>>

(* keyFor: the pairing code of a phone that never finished runs out *)
Expire ==
    /\ device = "pending" /\ device' = "expired"
    /\ UNCHANGED <<linked, blocked, gateway, latest, up, down, phone, call, faults, amiss>>

(* #onFrame: the live state changes *)
Frame ==
    /\ latest < MaxFrames /\ latest' = latest + 1
    /\ LET n == sess[cur].seq + 1
       IN  Becomes(IF cur # 0 /\ sess[cur].state = "open" /\ ~sess[cur].pending /\ sess[cur].fullSent
                   THEN Send([State EXCEPT !.sess[cur].seq = n], Sealed("patch", cur, n, latest + 1)) ELSE State)
    /\ UNCHANGED <<linked, entry, table, device, up, phone, call, faults, amiss>>

-----------------------------------------------------------------------------
(* The bridge *)

(* A GATT write of the phone. The bridge refuses it while the phone is blocked or the
   gateway away, and the phone's call fails. *)
Written(m) == up' = IF blocked \/ ~linked THEN up ELSE Append(up, m)
ToGateway(m) == up' = IF linked THEN Append(up, m) ELSE up

(* The phone's transport connects and subscribes: over the radio, which takes longer
   than the local socket does to deliver the end of its last session, and not while
   INFO says that CamBridge is away *)
PhoneComes ==
    /\ ~phone.on /\ linked /\ up = <<>> /\ Len(sess) < MaxSessions
    /\ phone' = [NoPhone EXCEPT !.on = TRUE]
    /\ down' = <<>> /\ ToGateway(Plain("connect", 0))
    /\ UNCHANGED <<linked, blocked, gateway, device, latest, call, faults, amiss>>

(* The phone's transport ends its session, or the radio loses it *)
Leaves == phone' = NoPhone /\ ToGateway(Plain("disconnect", 0))
PhoneGoes ==
    /\ phone.on /\ Fault /\ Leaves /\ down' = <<>>
    /\ UNCHANGED <<linked, blocked, gateway, device, latest, call, amiss>>

(* The link between bridge and gateway drops: the sessions go, their timers stay *)
LinkDrops ==
    /\ linked /\ Fault
    /\ linked' = FALSE /\ cur' = 0 /\ up' = <<>> /\ down' = <<>>
    /\ amiss' = amiss \cup {"drop"}
    /\ UNCHANGED <<blocked, sess, entry, table, device, latest, phone, call>>

(* gatewayUp: the phones that are subscribed are announced again *)
LinkReturns ==
    /\ ~linked /\ linked' = TRUE
    /\ up' = IF phone.on THEN <<Plain("connect", 0)>> ELSE <<>>
    /\ Len(sess) < MaxSessions
    /\ UNCHANGED <<blocked, gateway, device, latest, down, phone, call, faults, amiss>>

(* The bridge's outbox is full: it drops the phone's session, and the phone is not told *)
Overflow ==
    /\ linked /\ phone.on /\ down # <<>> /\ Fault
    /\ down' = <<>> /\ ToGateway(Plain("disconnect", 0))
    /\ amiss' = amiss \cup {"overflow"}
    /\ UNCHANGED <<linked, blocked, gateway, device, latest, phone, call>>

BlockEnds ==
    /\ blocked /\ blocked' = FALSE
    /\ UNCHANGED <<linked, gateway, device, latest, up, down, phone, call, faults, amiss>>

-----------------------------------------------------------------------------
(* The phone *)

Opens(m) == m.sealed /\ m.s = phone.key
Keeps == UNCHANGED <<phone, up>>

(* onChunk before the session is ready: handshake(). Anything unexpected ends it. *)
Handshake(m) ==
    /\ UNCHANGED call
    /\ CASE m.k = "hello" -> phone' = [phone EXCEPT !.parts = m.s] /\ Written(Plain("auth", m.s))
         [] m.k = "authOk" /\ m.s = phone.parts -> phone' = [phone EXCEPT !.key = m.s] /\ UNCHANGED up
         [] OTHER -> Leaves

(* onState *)
Applied(m) ==
    IF m.k = "full" \/ (phone.seq # 0 /\ m.a = phone.seq + 1)
    THEN phone' = [phone EXCEPT !.seq = m.a, !.frame = m.b] /\ UNCHANGED up
    ELSE phone' = [phone EXCEPT !.seq = 0] /\ Written(Sealed("resync", phone.key, 0, 0))

(* onChunk on a ready session *)
Received(m) ==
    /\ call' = IF Opens(m) /\ m.k = "response"
               THEN [call EXCEPT ![m.a].answer = IF @ = "none" THEN m.b ELSE @] ELSE call
    /\ CASE Opens(m) /\ m.k \in {"full", "patch"} -> Applied(m)
         [] Opens(m) /\ m.k = "revoked" -> Leaves
         [] Opens(m) /\ m.k = "response" -> Keeps
         [] ~Opens(m) -> IF phone.bad >= 2 THEN Leaves
                         ELSE phone' = [phone EXCEPT !.bad = @ + 1] /\ UNCHANGED up

PhoneReceives ==
    /\ phone.on /\ down # <<>>
    /\ IF phone.key = 0 THEN Handshake(Head(down)) ELSE Received(Head(down))
    /\ down' = IF phone'.on THEN Tail(down) ELSE <<>>
    /\ UNCHANGED <<linked, blocked, gateway, device, latest, faults, amiss>>

(* BleTransport.call: sent at most twice with one id, on whatever session is ready. The
   activation is sent once, on a session whose first request was told to activate. *)
PhoneCalls(i) ==
    /\ phone.key # 0 /\ call[i].answer = "none" /\ call[i].copies < 2
    /\ Activation(i) => i = phone.key /\ call[i].copies = 0 /\ sess[i].pending
    /\ call' = [call EXCEPT ![i].copies = @ + 1]
    /\ Written(Sealed("request", phone.key, i, 0))
    /\ UNCHANGED <<linked, blocked, gateway, device, latest, down, phone, faults, amiss>>

Next ==
    \/ FromBridge \/ Revoke \/ Expire \/ Frame
    \/ \E s \in DOMAIN sess : AuthTimer(s)
    \/ \E e \in DOMAIN entry : Runs(e) \/ \E a \in {"ok", "failed", "late"} : Settles(e, a)
    \/ PhoneComes \/ PhoneGoes \/ LinkDrops \/ LinkReturns \/ Overflow \/ BlockEnds
    \/ PhoneReceives \/ \E i \in CallIds : PhoneCalls(i)

Spec == Init /\ [][Next]_vars

-----------------------------------------------------------------------------
RunsOf(i) == {e \in DOMAIN entry : entry[e].i = i /\ entry[e].ran}

(* A command that the phone sends again after a dropped link or a missing answer, on
   the same session or another, is carried out once and its answer is true. The
   exception is a call whose entry the full table evicted before its answer. *)
AppliedOnce ==
    \A i \in CallIds :
        /\ "evicted" \notin amiss => Cardinality(RunsOf(i)) <= 1
        /\ call[i].answer = "ok" => RunsOf(i) # {}
        /\ call[i].answer \in {"limited", "early"} /\ call[i].copies = 1 => RunsOf(i) = {}

(* When everything sent has arrived, a phone whose session is open and paired shows
   the live state. The exception is an activation that another session asked for. *)
PhoneFollows ==
    /\ up = <<>> /\ down = <<>> /\ cur # 0 /\ cur = phone.key
    /\ sess[cur].state = "open" /\ ~sess[cur].pending /\ "elsewhere" \notin amiss
    => phone.frame = latest

(* A revoked phone gets nothing done any more: from then on no request of it is
   taken and no session of it opens, whatever was on its way. *)
RevokedIsOut ==
    [][device = "revoked" => /\ Len(entry') = Len(entry)
                             /\ cur' # 0 => sess'[cur'].state = "hello"]_vars

(* A phone that holds a good key is refused only if its session was slow to
   authenticate, or the bridge's link or outbox had been cut: never because of how
   its connections, its retries and the timers of its earlier sessions fell together. *)
RefusedForCause ==
    blocked => device \in {"expired", "revoked"} \/ amiss \cap {"slow", "drop", "overflow"} # {}
=============================================================================
