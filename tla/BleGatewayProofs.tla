---------------------------- MODULE BleGatewayProofs ----------------------------
(***************************************************************************)
(* Theorems about BleGateway, for any number of sessions, calls, faults and  *)
(* any size of the dedupe table: a command is carried out once, a good phone *)
(* is not shut out, a revoked one gets nothing done, and what a paired phone *)
(* shows is the live state.                                                  *)
(***************************************************************************)
EXTENDS BleGateway, SequenceTheorems, FiniteSetTheorems, TLAPS

Answers == {"none", "ok", "failed", "late", "early", "limited"}
UpMessage ==
    [k : {"connect", "disconnect", "auth"}, s : Nat, sealed : {FALSE}, a : {0}, b : {0}] \cup
    [k : {"request"}, s : Nat, sealed : {TRUE}, a : CallIds, b : {0}] \cup
    [k : {"resync"}, s : Nat, sealed : {TRUE}, a : {0}, b : {0}]
DownMessage ==
    [k : {"hello", "authOk", "authFail"}, s : Nat, sealed : {FALSE}, a : {0}, b : {0}] \cup
    [k : {"full", "patch", "revoked"}, s : Nat, sealed : {TRUE}, a : Nat, b : Nat] \cup
    [k : {"response"}, s : Nat, sealed : {TRUE}, a : CallIds, b : Answers]
SessionType ==
    [state : {"hello", "open"}, timer : BOOLEAN, tries : Nat, errors : Nat,
     pending : BOOLEAN, fullSent : BOOLEAN, seq : Nat]
EntryType ==
    [i : CallIds, by : Nat, ran : BOOLEAN, done : BOOLEAN, answer : Answers, waiters : SUBSET Nat]
Gateways == [sess : Seq(SessionType), cur : Nat, down : Seq(DownMessage), blocked : BOOLEAN]

TypeInv ==
    /\ linked \in BOOLEAN /\ blocked \in BOOLEAN
    /\ sess \in Seq(SessionType) /\ cur \in 0..Len(sess) /\ \A e \in 1..Len(entry) : entry[e].by \in 1..Len(sess)
    /\ entry \in Seq(EntryType) /\ table \in Seq(Nat) /\ \A n \in 1..Len(table) : table[n] \in 1..Len(entry)
    /\ device \in {"pending", "active", "expired", "revoked"} /\ latest \in Nat
    /\ up \in Seq(UpMessage) /\ down \in Seq(DownMessage)
    /\ phone \in [on : BOOLEAN, parts : Nat, key : Nat, bad : Nat, seq : Nat, frame : Nat]
    /\ call \in [CallIds -> [copies : Nat, answer : Answers]]

-----------------------------------------------------------------------------
(* A revoked phone's session, if it has one, is not open *)
RevokedInv == device = "revoked" /\ cur # 0 => sess[cur].state = "hello"

(* Nothing was slow, cut or revoked *)
Clean == amiss \cap {"slow", "drop", "overflow"} = {} /\ device # "revoked"

(* Then only the session there is has a timer; and the phone and the gateway take turns: what
   is on its way fits the state of the session, and comes in this order *)
Timers == \A s \in 1..Len(sess) : sess[s].timer = TRUE => s = cur
Greeted(m) == cur # 0 /\ m.s = cur /\ sess[cur].state = "hello" /\ sess[cur].tries = 0
Ready(m) == cur # 0 /\ m.s = cur /\ sess[cur].state = "open"
Absent ==
    phone.on = FALSE =>
        /\ down = <<>> /\ phone.key = 0
        /\ (Len(up) = 0 /\ cur = 0) \/ (Len(up) > 0 /\ up[Len(up)].k = "disconnect")
Present == phone.on = TRUE /\ phone.key # 0 => phone.key = cur /\ sess[cur].state = "open"
UpTurns ==
    \A n \in 1..Len(up) :
        /\ up[n].k = "disconnect" => n = Len(up) /\ phone.on = FALSE
        /\ up[n].k = "connect" =>
             n = 1 /\ cur = 0 /\ (phone.on = TRUE => Len(up) = 1 /\ phone.key = 0 /\ down = <<>>)
        /\ up[n].k = "auth" => n = 1 /\ Greeted(up[n])
        /\ up[n].sealed = TRUE => Ready(up[n])
DownTurns ==
    \A n \in 1..Len(down) :
        /\ down[n].k = "hello" => n = 1 /\ Len(up) = 0 /\ Greeted(down[n])
        /\ down[n].k = "authOk" => Ready(down[n])
Turns == linked = TRUE /\ blocked = FALSE /\ Timers /\ Absent /\ Present /\ UpTurns /\ DownTurns
TurnsInv == Clean => Turns

-----------------------------------------------------------------------------
(* The dedupe table: an entry's answer is true, and a call whose copies may still come has
   its one entry in the table *)
EntryOk(e) ==
    /\ sess[entry[e].by].state = "open"
    /\ entry[e].answer = "ok" => entry[e].ran = TRUE
    /\ entry[e].answer = "early" => entry[e].ran = FALSE
    /\ entry[e].answer # "limited"
    /\ entry[e].done = FALSE => entry[e].answer = "none"
EntryInv == \A e \in 1..Len(entry) : EntryOk(e)
TableInv ==
    "evicted" \notin amiss =>
        /\ \A e, f \in 1..Len(entry) : entry[e].i = entry[f].i => e = f
        /\ \A e \in 1..Len(entry) : e \in ToSet(table) \/ ~Awaited(entry[e].i)

(* The phone's calls: an answer is true, and the only copy of a call is on its way, or
   was taken or declined *)
Asks(n, i) == up[n].k = "request" /\ up[n].a = i
Tells(n, i) == down[n].k = "response" /\ down[n].a = i
Unrun == {"limited", "early"}
Unknown(i) == \A e \in 1..Len(entry) : entry[e].i # i
Early(i) == \A e \in 1..Len(entry) : entry[e].i = i => entry[e].answer = "early"
Carried(i) == \E e \in 1..Len(entry) : entry[e].i = i /\ entry[e].ran = TRUE
Untold(i) == \A n \in 1..Len(down) : ~Tells(n, i)

CallOk(i) ==
    /\ call[i].answer = "ok" => Carried(i)
    /\ \A n \in 1..Len(down) : Tells(n, i) /\ down[n].b = "ok" => Carried(i)
    /\ call[i].copies = 0 => Unknown(i) /\ call[i].answer = "none" /\ Untold(i) /\ \A n \in 1..Len(up) : ~Asks(n, i)
    /\ call[i].copies = 1 =>
         /\ \A n \in 1..Len(up) : Asks(n, i) =>
              Unknown(i) /\ call[i].answer = "none" /\ Untold(i) /\ \A m \in 1..Len(up) : Asks(m, i) => m = n
         /\ call[i].answer \in Unrun => Early(i)
         /\ \A n \in 1..Len(down) : Tells(n, i) /\ down[n].b \in Unrun => Early(i)
CallInv == \A i \in CallIds : CallOk(i)

-----------------------------------------------------------------------------
(* The live state on its way to the phone *)
Update == {"full", "patch"}
OnOpen == {"authOk", "full", "patch"}
Live == cur # 0 /\ sess[cur].state = "open"
Cut == \E n \in 1..Len(up) : up[n].k = "disconnect"
News(n) == down[n].k \in Update /\ down[n].s = cur
Following ==
    /\ Live /\ phone.on = TRUE /\ "elsewhere" \notin amiss
    /\ \/ phone.key = cur /\ ~Cut
       \/ phone.key = 0 /\ \E n \in 1..Len(down) : down[n].k = "authOk" /\ down[n].s = cur

SessionInv ==
    /\ linked = FALSE => cur = 0
    /\ phone.on = FALSE => phone.key = 0
    /\ phone.key = 0 => phone.seq = 0
    /\ phone.key # 0 => phone.key \in 1..Len(sess) /\ sess[phone.key].state = "open"
    /\ \A n \in 1..Len(down) : down[n].k \in OnOpen => down[n].s \in 1..Len(sess) /\ sess[down[n].s].state = "open"
    /\ \A s \in 1..Len(sess) : sess[s].state = "hello" => sess[s].seq = 0 /\ sess[s].fullSent = FALSE

(* Every change since what the phone shows is on its way, in order, and starts from a full state *)
Bounded ==
    /\ phone.seq <= sess[cur].seq
    /\ \A n \in 1..Len(down) : News(n) =>
         phone.seq < down[n].a /\ down[n].a <= sess[cur].seq /\ (down[n].a = 1 => down[n].k = "full")
Rising == \A n, m \in 1..Len(down) : News(n) /\ News(m) /\ n < m => down[n].a < down[m].a
Gapless == \A v \in 1..sess[cur].seq : phone.seq < v => \E n \in 1..Len(down) : News(n) /\ down[n].a = v
Current ==
    /\ sess[cur].pending = TRUE => sess[cur].seq = 0 /\ sess[cur].fullSent = FALSE
    /\ sess[cur].pending = FALSE =>
         /\ sess[cur].seq > 0 /\ sess[cur].fullSent = TRUE
         /\ phone.seq = sess[cur].seq => phone.frame = latest
         /\ \A n \in 1..Len(down) : News(n) /\ down[n].a = sess[cur].seq => down[n].b = latest
StreamInv == Following => Bounded /\ Rising /\ Gapless /\ Current

-----------------------------------------------------------------------------
(* The gateway's operations *)

Put(d, c, m) == IF c = 0 \/ ~linked \/ ~phone.on THEN d ELSE Append(d, m)
Others(q, r, s) == r \in Seq(SessionType) /\ Len(r) = Len(q) /\ \A t \in 1..Len(q) : t # s => r[t] = q[t]
FailMessage(s) == Plain("authFail", s)

LEMMA PlainIs ==
    ASSUME NEW k \in {"hello", "authOk", "authFail"}, NEW s \in Nat
    PROVE  /\ Plain(k, s) \in DownMessage
           /\ Plain(k, s).k = k /\ Plain(k, s).s = s /\ Plain(k, s).sealed = FALSE
BY DEF Plain, DownMessage

LEMMA SealedIs ==
    ASSUME NEW k \in {"full", "patch", "revoked"}, NEW s \in Nat, NEW a \in Nat, NEW b \in Nat
    PROVE  /\ Sealed(k, s, a, b) \in DownMessage
           /\ Sealed(k, s, a, b).k = k /\ Sealed(k, s, a, b).s = s
           /\ Sealed(k, s, a, b).a = a /\ Sealed(k, s, a, b).b = b /\ Sealed(k, s, a, b).sealed = TRUE
BY DEF Sealed, DownMessage

LEMMA ResponseIs ==
    ASSUME NEW s \in Nat, NEW i \in CallIds, NEW answer \in Answers
    PROVE  /\ Response(s, i, answer) \in DownMessage
           /\ Response(s, i, answer).k = "response" /\ Response(s, i, answer).s = s
           /\ Response(s, i, answer).a = i /\ Response(s, i, answer).b = answer /\ Response(s, i, answer).sealed = TRUE
BY DEF Response, Sealed, DownMessage

(* What a message appended to a stream leaves and adds. *)
LEMMA PutIs ==
    ASSUME NEW S, NEW d \in Seq(S), NEW c, NEW m \in S
    PROVE  /\ Put(d, c, m) \in Seq(S) /\ Len(Put(d, c, m)) \in {Len(d), Len(d) + 1}
           /\ \A n \in 1..Len(d) : Put(d, c, m)[n] = d[n]
           /\ \A n \in 1..Len(Put(d, c, m)) : n \in 1..Len(d) \/ (n = Len(d) + 1 /\ Put(d, c, m)[n] = m)
           /\ c # 0 /\ linked /\ phone.on => Put(d, c, m) = Append(d, m) /\ Len(Put(d, c, m)) = Len(d) + 1
           /\ ~(c # 0 /\ linked /\ phone.on) => Put(d, c, m) = d
BY DEF Put

LEMMA SendIs ==
    ASSUME NEW g \in Gateways, NEW m \in DownMessage
    PROVE  /\ Send(g, m) \in Gateways
           /\ Send(g, m).sess = g.sess /\ Send(g, m).cur = g.cur /\ Send(g, m).blocked = g.blocked
           /\ Send(g, m).down = Put(g.down, g.cur, m)
<1> DEFINE d == Append(g.down, m)
<1>1. d \in Seq(DownMessage)
  BY DEF Gateways
<1>2. Send(g, m) = IF g.cur = 0 \/ ~linked \/ ~phone.on THEN g ELSE [g EXCEPT !.down = d]
  BY DEF Send
<1> HIDE DEF d
<1>3. /\ [g EXCEPT !.down = d] \in Gateways
      /\ [g EXCEPT !.down = d].sess = g.sess /\ [g EXCEPT !.down = d].cur = g.cur
      /\ [g EXCEPT !.down = d].blocked = g.blocked /\ [g EXCEPT !.down = d].down = d
  BY <1>1 DEF Gateways
<1> QED
  BY <1>2, <1>3 DEF Put, d

LEMMA CloseIs ==
    ASSUME NEW g \in Gateways, NEW s \in 1..Len(g.sess)
    PROVE  LET h == CloseSession(g, s)
           IN  /\ h \in Gateways /\ h.cur = 0 /\ h.blocked = TRUE /\ h.down = g.down
               /\ Others(g.sess, h.sess, s)
               /\ h.sess[s] = [g.sess[s] EXCEPT !.timer = FALSE]
<1> DEFINE v == [g.sess[s] EXCEPT !.timer = FALSE]
           q == [g.sess EXCEPT ![s] = v]
<1>1. g.sess \in Seq(SessionType) /\ g.sess[s] \in SessionType
  BY DEF Gateways
<1>2. v \in SessionType
  BY <1>1 DEF SessionType
<1>3. CloseSession(g, s) = [g EXCEPT !.sess = q, !.cur = 0, !.blocked = TRUE]
  BY DEF CloseSession
<1> HIDE DEF v
<1>4. q \in Seq(SessionType) /\ Others(g.sess, q, s) /\ q[s] = v
  BY <1>1, <1>2, ExceptSeq DEF Others
<1> HIDE DEF q
<1> DEFINE h == [g EXCEPT !.sess = q, !.cur = 0, !.blocked = TRUE]
<1>5. h \in Gateways /\ h.cur = 0 /\ h.blocked = TRUE /\ h.down = g.down /\ h.sess = q
  BY <1>4 DEF Gateways
<1> HIDE DEF h
<1>6. Others(g.sess, h.sess, s) /\ h.sess[s] = v
  BY <1>4, <1>5
<1>7. CloseSession(g, s) = h
  BY <1>3 DEF h
<1> QED
  BY <1>5, <1>6, <1>7 DEF v

LEMMA RefuseIs ==
    ASSUME NEW g \in Gateways, NEW s \in 1..Len(g.sess), g.cur = s
    PROVE  LET h == Refuse(g, s)
           IN  /\ h \in Gateways /\ h.cur = 0 /\ h.blocked = TRUE
               /\ h.down = Put(g.down, s, FailMessage(s))
               /\ Others(g.sess, h.sess, s)
               /\ h.sess[s] = [g.sess[s] EXCEPT !.timer = FALSE]
<1> DEFINE m == Plain("authFail", s)
           j == Send(g, m)
<1>0. s \in Nat
  BY DEF Gateways
<1>1. m \in DownMessage
  BY <1>0, PlainIs
<1>2. j \in Gateways /\ j.sess = g.sess /\ j.down = Put(g.down, s, m)
  BY <1>1, SendIs
<1>3. Refuse(g, s) = CloseSession(j, s)
  BY DEF Refuse, Gateways
<1> HIDE DEF j, m
<1>4. s \in 1..Len(j.sess)
  BY <1>2
<1>5. LET h == CloseSession(j, s)
      IN  /\ h \in Gateways /\ h.cur = 0 /\ h.blocked = TRUE /\ h.down = j.down
          /\ Others(j.sess, h.sess, s)
          /\ h.sess[s] = [j.sess[s] EXCEPT !.timer = FALSE]
  BY <1>2, <1>4, CloseIs
<1> QED
  BY <1>2, <1>3, <1>5 DEF m, FailMessage

(* A new session's greeting, or the session there is. *)
NewSession == [state |-> "hello", timer |-> TRUE, tries |-> 0, errors |-> 0,
               pending |-> FALSE, fullSent |-> FALSE, seq |-> 0]

LEMMA SessionIs ==
    ASSUME NEW g \in Gateways, g.cur \in 0..Len(g.sess)
    PROVE  LET h == Session(g)
               n == Len(g.sess) + 1
           IN  /\ g.cur # 0 => h = g
               /\ g.cur = 0 =>
                    /\ h \in Gateways /\ h.cur = n /\ h.blocked = g.blocked
                    /\ h.sess = Append(g.sess, NewSession) /\ h.down = Put(g.down, n, Plain("hello", n))
<1> DEFINE n == Len(g.sess) + 1
           q == Append(g.sess, NewSession)
           j == [g EXCEPT !.sess = q, !.cur = n]
           m == Plain("hello", n)
<1>1. ASSUME g.cur # 0 PROVE Session(g) = g
  BY <1>1 DEF Session
<1>2. ASSUME g.cur = 0
      PROVE  /\ Session(g) \in Gateways /\ Session(g).cur = n /\ Session(g).blocked = g.blocked
             /\ Session(g).sess = q /\ Session(g).down = Put(g.down, n, m)
  <2>1. Session(g) = Send(j, m)
    BY <1>2 DEF Session, NewSession
  <2>2. q \in Seq(SessionType) /\ n \in Nat
    BY DEF Gateways, NewSession, SessionType
  <2> HIDE DEF q, n
  <2>3. j \in Gateways /\ j.cur = n /\ j.sess = q /\ j.blocked = g.blocked /\ j.down = g.down
    BY <2>2 DEF Gateways
  <2>4. m \in DownMessage
    BY <2>2, PlainIs
  <2> HIDE DEF j, m
  <2> QED
    BY <2>1, <2>3, <2>4, SendIs
<1> QED
  BY <1>1, <1>2

LEMMA SendFullIs ==
    ASSUME NEW g \in Gateways, NEW s \in 1..Len(g.sess), latest \in Nat
    PROVE  LET h == SendFull(g, s)
               n == g.sess[s].seq + 1
           IN  /\ h \in Gateways /\ h.cur = g.cur /\ h.blocked = g.blocked
               /\ Others(g.sess, h.sess, s)
               /\ h.sess[s] = [g.sess[s] EXCEPT !.fullSent = TRUE, !.seq = n]
               /\ h.down = Put(g.down, g.cur, Sealed("full", s, n, latest))
<1> DEFINE n == g.sess[s].seq + 1
           v == [g.sess[s] EXCEPT !.fullSent = TRUE, !.seq = n]
           q == [g.sess EXCEPT ![s] = v]
           j == [g EXCEPT !.sess = q]
           m == Sealed("full", s, n, latest)
<1>1. g.sess \in Seq(SessionType) /\ g.sess[s] \in SessionType
  BY DEF Gateways
<1>2. v \in SessionType /\ n \in Nat /\ s \in Nat
  <2>1. n \in Nat /\ s \in Nat
    BY <1>1 DEF SessionType, Gateways
  <2> HIDE DEF n
  <2>2. v \in SessionType
    BY <1>1, <2>1 DEF SessionType
  <2> QED
    BY <2>1, <2>2
<1>3. SendFull(g, s) = Send(j, m)
  <2>1. [g EXCEPT !.sess[s].fullSent = TRUE, !.sess[s].seq = n] = j
    BY <1>1 DEF Gateways, SessionType
  <2> QED
    BY <2>1 DEF SendFull
<1> HIDE DEF v
<1>4. q \in Seq(SessionType) /\ Others(g.sess, q, s) /\ q[s] = v
  BY <1>1, <1>2, ExceptSeq DEF Others
<1> HIDE DEF q, n
<1>5. j \in Gateways /\ j.cur = g.cur /\ j.sess = q /\ j.blocked = g.blocked /\ j.down = g.down
  BY <1>4 DEF Gateways
<1>6. m \in DownMessage
  BY <1>2, SealedIs
<1> HIDE DEF j, m, n
<1>7. Send(j, m) \in Gateways /\ Send(j, m).sess = q /\ Send(j, m).cur = g.cur
      /\ Send(j, m).blocked = g.blocked /\ Send(j, m).down = Put(g.down, g.cur, m)
  BY <1>5, <1>6, SendIs
<1> QED
  BY <1>3, <1>4, <1>7 DEF v, n, m

(* #auth refuses, fails, or opens the session, whose phone is told everything unless it is
   still to be activated. *)
Refused(g, h, s, m) ==
    /\ m.k # "auth" \/ g.sess[s].tries + 1 >= MaxTries
    /\ h.cur = 0 /\ h.blocked = TRUE /\ h.down = Put(g.down, s, FailMessage(s))
    /\ LET x == g.sess[s]
           y == h.sess[s]
       IN  y.timer = FALSE /\ y.state = x.state /\ y.seq = x.seq /\ y.fullSent = x.fullSent /\ y.pending = x.pending
Failed(g, h, s, m) ==
    /\ m.k = "auth" /\ h.cur = s /\ h.blocked = g.blocked /\ h.down = Put(g.down, s, FailMessage(s))
    /\ h.sess[s] = [g.sess[s] EXCEPT !.tries = g.sess[s].tries + 1]
OpenPending(x) == [x EXCEPT !.timer = FALSE, !.state = "open", !.pending = TRUE]
OpenFull(x) == [x EXCEPT !.timer = FALSE, !.state = "open", !.pending = FALSE, !.fullSent = TRUE, !.seq = x.seq + 1]
Opens2(g, h, s, m) ==
    /\ m.k = "auth" /\ m.s = s /\ device \in {"pending", "active"} /\ h.cur = s /\ h.blocked = g.blocked
    /\ device = "pending" => /\ h.sess[s] = OpenPending(g.sess[s])
                             /\ h.down = Put(g.down, s, Plain("authOk", s))
    /\ device # "pending" => /\ h.sess[s] = OpenFull(g.sess[s])
                             /\ h.down = Put(Put(g.down, s, Plain("authOk", s)), s, Sealed("full", s, g.sess[s].seq + 1, latest))

LEMMA AuthIs ==
    ASSUME NEW g \in Gateways, NEW s \in 1..Len(g.sess), g.cur = s, NEW m, latest \in Nat
    PROVE  LET h == Auth(g, s, m)
           IN  /\ h \in Gateways /\ Others(g.sess, h.sess, s)
               /\ Refused(g, h, s, m) \/ Failed(g, h, s, m) \/ Opens2(g, h, s, m)
<1> DEFINE x == g.sess[s]
           more == [x EXCEPT !.tries = x.tries + 1]
           open == [x EXCEPT !.timer = FALSE, !.state = "open", !.pending = (device = "pending")]
           gm == [g EXCEPT !.sess = [g.sess EXCEPT ![s] = more]]
           go == [g EXCEPT !.sess = [g.sess EXCEPT ![s] = open]]
           so == Send(go, Plain("authOk", s))
<1>0. s \in Nat /\ g.sess \in Seq(SessionType) /\ x \in SessionType /\ s # 0
  BY DEF Gateways
<1>1. ASSUME NEW v \in SessionType
      PROVE  LET j == [g EXCEPT !.sess = [g.sess EXCEPT ![s] = v]]
             IN  /\ j \in Gateways /\ j.cur = s /\ j.blocked = g.blocked /\ j.down = g.down
                 /\ Others(g.sess, j.sess, s) /\ j.sess[s] = v /\ s \in 1..Len(j.sess)
  <2> DEFINE q == [g.sess EXCEPT ![s] = v]
  <2>1. q \in Seq(SessionType) /\ Others(g.sess, q, s) /\ q[s] = v /\ s \in 1..Len(q)
    BY <1>0, <1>1, ExceptSeq DEF Others
  <2> HIDE DEF q
  <2> DEFINE j == [g EXCEPT !.sess = q]
  <2>2. j \in Gateways /\ j.cur = s /\ j.blocked = g.blocked /\ j.down = g.down /\ j.sess = q
    BY <2>1 DEF Gateways
  <2> HIDE DEF j
  <2>3. Others(g.sess, j.sess, s) /\ j.sess[s] = v /\ s \in 1..Len(j.sess)
    BY <2>1, <2>2
  <2> QED
    BY <2>2, <2>3 DEF j, q
<1>2. more \in SessionType /\ open \in SessionType
  <2>1. x.tries + 1 \in Nat
    BY <1>0 DEF SessionType
  <2>2. more \in SessionType
    BY <1>0, <2>1 DEF SessionType
  <2>3. open \in SessionType
    BY <1>0 DEF SessionType
  <2> QED
    BY <2>2, <2>3
<1>3. /\ gm \in Gateways /\ gm.cur = s /\ gm.blocked = g.blocked /\ gm.down = g.down
      /\ Others(g.sess, gm.sess, s) /\ gm.sess[s] = more /\ s \in 1..Len(gm.sess)
  BY <1>1, <1>2
<1>4. /\ go \in Gateways /\ go.cur = s /\ go.blocked = g.blocked /\ go.down = g.down
      /\ Others(g.sess, go.sess, s) /\ go.sess[s] = open /\ s \in 1..Len(go.sess)
  BY <1>1, <1>2
<1>5. /\ [g EXCEPT !.sess[s].tries = @ + 1] = gm
      /\ [g EXCEPT !.sess[s].timer = FALSE, !.sess[s].state = "open", !.sess[s].pending = (device = "pending")] = go
  <2>1. [g EXCEPT !.sess[s].tries = @ + 1] = gm
    BY <1>0 DEF Gateways, SessionType
  <2>2. [g EXCEPT !.sess[s].timer = FALSE, !.sess[s].state = "open", !.sess[s].pending = (device = "pending")] = go
    <3>1. ASSUME NEW P
          PROVE  [g EXCEPT !.sess[s].timer = FALSE, !.sess[s].state = "open", !.sess[s].pending = P]
                   = [g EXCEPT !.sess = [g.sess EXCEPT ![s] = [x EXCEPT !.timer = FALSE, !.state = "open", !.pending = P]]]
      <4>1. "sess" \in DOMAIN g /\ s \in DOMAIN g.sess
        BY <1>0 DEF Gateways
      <4>2. "pending" \in DOMAIN g.sess[s] /\ "state" \in DOMAIN g.sess[s] /\ "timer" \in DOMAIN g.sess[s]
        BY <1>0 DEF SessionType
      <4> QED
        BY <4>1, <4>2
    <3>2. CASE device = "pending"
      BY <3>1, <3>2
    <3>3. CASE device # "pending"
      BY <3>1, <3>3
    <3> QED
      BY <3>2, <3>3
  <2> QED
    BY <2>1, <2>2
<1>6. Auth(g, s, m) =
        CASE m.k # "auth" -> Refuse(g, s)
          [] m.k = "auth" /\ (device \notin {"pending", "active"} \/ m.s # s) ->
               IF x.tries + 1 >= MaxTries THEN Refuse(gm, s) ELSE Send(gm, Plain("authFail", s))
          [] OTHER -> IF device = "pending" THEN so ELSE SendFull(so, s)
  BY <1>5 DEF Auth
<1>7. /\ x.tries \in Nat /\ x.seq \in Nat
      /\ more.state = x.state /\ more.seq = x.seq /\ more.fullSent = x.fullSent /\ more.pending = x.pending
  BY <1>0 DEF SessionType
<1>8. device = "pending" => open = OpenPending(x)
  BY DEF OpenPending
<1> DEFINE full == [open EXCEPT !.fullSent = TRUE, !.seq = open.seq + 1]
<1>9. device # "pending" => full = OpenFull(x) /\ open.seq = x.seq
  BY <1>0 DEF OpenFull, SessionType
<1> HIDE DEF gm, go, so, more, open, full
<1>10. CASE m.k # "auth"
  <2>1. Auth(g, s, m) = Refuse(g, s)
    BY <1>6, <1>10
  <2>2. LET h == Refuse(g, s)
        IN  /\ h \in Gateways /\ h.cur = 0 /\ h.blocked = TRUE
            /\ h.down = Put(g.down, s, FailMessage(s))
            /\ Others(g.sess, h.sess, s)
            /\ h.sess[s] = [x EXCEPT !.timer = FALSE]
    BY RefuseIs
  <2> QED
    BY <2>1, <2>2, <1>0, <1>10 DEF Refused, SessionType
<1>11. CASE m.k = "auth" /\ (device \notin {"pending", "active"} \/ m.s # s)
  <2>1. CASE x.tries + 1 >= MaxTries
    <3>1. Auth(g, s, m) = Refuse(gm, s)
      BY <1>6, <1>11, <2>1
    <3>2. LET h == Refuse(gm, s)
          IN  /\ h \in Gateways /\ h.cur = 0 /\ h.blocked = TRUE
              /\ h.down = Put(gm.down, s, FailMessage(s))
              /\ Others(gm.sess, h.sess, s)
              /\ h.sess[s] = [gm.sess[s] EXCEPT !.timer = FALSE]
      BY <1>3, RefuseIs
    <3> DEFINE h == Refuse(gm, s)
    <3>3. h \in Gateways /\ h.cur = 0 /\ h.blocked = TRUE /\ h.down = Put(g.down, s, FailMessage(s))
      BY <3>2, <1>3
    <3>4. Others(g.sess, h.sess, s)
      BY <3>2, <1>3 DEF Others
    <3>5. h.sess[s] = [more EXCEPT !.timer = FALSE]
      BY <3>2, <1>3
    <3> HIDE DEF h
    <3>6. /\ h.sess[s].timer = FALSE /\ h.sess[s].state = x.state /\ h.sess[s].seq = x.seq
          /\ h.sess[s].fullSent = x.fullSent /\ h.sess[s].pending = x.pending
      BY <3>5, <1>2, <1>7 DEF SessionType
    <3> QED
      BY <3>1, <3>3, <3>4, <3>6, <2>1 DEF h, Refused
  <2>2. CASE ~(x.tries + 1 >= MaxTries)
    <3> DEFINE h == Send(gm, Plain("authFail", s))
    <3>1. Auth(g, s, m) = h
      BY <1>6, <1>11, <2>2
    <3>0. Plain("authFail", s) \in DownMessage
      BY <1>0, PlainIs
    <3>2. h \in Gateways /\ h.sess = gm.sess /\ h.cur = s /\ h.blocked = g.blocked /\ h.down = Put(g.down, s, FailMessage(s))
      BY <3>0, <1>3, SendIs DEF FailMessage
    <3> HIDE DEF h
    <3> QED
      BY <3>1, <3>2, <1>3, <1>11 DEF Failed, more
  <2> QED
    BY <2>1, <2>2
<1>12. CASE m.k = "auth" /\ device \in {"pending", "active"} /\ m.s = s
  <2>1. Auth(g, s, m) = IF device = "pending" THEN so ELSE SendFull(so, s)
    BY <1>6, <1>12
  <2>2. /\ so \in Gateways /\ so.sess = go.sess /\ so.cur = s /\ so.blocked = g.blocked
        /\ so.down = Put(g.down, s, Plain("authOk", s))
    <3>1. Plain("authOk", s) \in DownMessage
      BY <1>0, PlainIs
    <3> QED
      BY <3>1, <1>4, SendIs DEF so
  <2>3. CASE device = "pending"
    BY <2>1, <2>2, <2>3, <1>4, <1>8, <1>12 DEF Opens2
  <2>4. CASE device # "pending"
    <3> DEFINE h == SendFull(so, s)
    <3>1. Auth(g, s, m) = h
      BY <2>1, <2>4
    <3>2. s \in 1..Len(so.sess) /\ so.sess[s] = open
      BY <2>2, <1>4
    <3>3. /\ h \in Gateways /\ h.cur = so.cur /\ h.blocked = so.blocked
          /\ Others(so.sess, h.sess, s)
          /\ h.sess[s] = [so.sess[s] EXCEPT !.fullSent = TRUE, !.seq = so.sess[s].seq + 1]
          /\ h.down = Put(so.down, so.cur, Sealed("full", s, so.sess[s].seq + 1, latest))
      BY <2>2, <3>2, SendFullIs
    <3> HIDE DEF h
    <3>4. h.sess[s] = OpenFull(x) /\ h.down = Put(Put(g.down, s, Plain("authOk", s)), s, Sealed("full", s, x.seq + 1, latest))
      BY <2>2, <2>4, <3>2, <3>3, <1>9 DEF full
    <3>5. Others(g.sess, h.sess, s)
      BY <2>2, <3>3, <1>4 DEF Others
    <3> QED
      BY <3>1, <3>3, <3>4, <3>5, <2>2, <2>4, <1>12 DEF Opens2
  <2> QED
    BY <2>3, <2>4
<1> QED
  BY <1>10, <1>11, <1>12

-----------------------------------------------------------------------------
(* What a message from the bridge does, case by case *)

Same == UNCHANGED <<entry, table, amiss, faults>>
Stays == UNCHANGED <<sess, cur, down, blocked>>
Stopped(s) == Others(sess, sess', s) /\ sess'[s] = [sess[s] EXCEPT !.timer = FALSE]
Full(s) ==
    /\ cur' = cur /\ blocked' = blocked /\ Others(sess, sess', s)
    /\ sess'[s] = [sess[s] EXCEPT !.fullSent = TRUE, !.seq = sess[s].seq + 1]
    /\ down' = Put(down, cur, Sealed("full", s, sess[s].seq + 1, latest))

Connects(m) ==
    /\ m.k = "connect" /\ Same
    /\ cur # 0 => Stays
    /\ cur = 0 => /\ sess' = Append(sess, NewSession) /\ cur' = Len(sess) + 1 /\ blocked' = blocked
                  /\ down' = Put(down, Len(sess) + 1, Plain("hello", Len(sess) + 1))
Ends(m) ==
    /\ m.k = "disconnect" /\ Same /\ cur' = 0 /\ UNCHANGED <<down, blocked>>
    /\ cur = 0 => sess' = sess
    /\ cur # 0 => Stopped(cur)
Asked(m) == cur # 0 /\ sess[cur].state = "open" /\ m.k = "request" /\ m.s = cur /\ Request(cur, m.a)
Resyncs(m) ==
    /\ cur # 0 /\ sess[cur].state = "open" /\ m.k = "resync" /\ m.s = cur /\ Same
    /\ sess[cur].pending = TRUE => Stays
    /\ sess[cur].pending = FALSE => Full(cur)
Garbled(m) ==
    /\ m.k \notin {"connect", "disconnect"}
    /\ cur # 0 /\ sess[cur].state = "open" /\ ~(m.sealed = TRUE /\ m.s = cur) /\ Same
    /\ cur' \in {0, cur} /\ Others(sess, sess', cur)
    /\ LET x == sess[cur]
           y == sess'[cur]
       IN  y.state = x.state /\ y.seq = x.seq /\ y.fullSent = x.fullSent /\ y.pending = x.pending
    /\ down' \in {down, Put(down, cur, FailMessage(cur))}
    /\ blocked' = blocked \/ (blocked' = TRUE /\ cur' = 0)
Begins(m, g, h) ==
    /\ m.k \notin {"connect", "disconnect"}
    /\ cur # 0 => sess[cur].state = "hello"
    /\ Same
    /\ cur # 0 => g.cur = cur /\ g.sess = sess /\ g.down = down /\ g.blocked = blocked
    /\ cur = 0 => /\ g.cur = Len(sess) + 1 /\ g.sess = Append(sess, NewSession) /\ g.blocked = blocked
                  /\ g.down = Put(down, Len(sess) + 1, Plain("hello", Len(sess) + 1))
    /\ sess' = h.sess /\ cur' = h.cur /\ down' = h.down /\ blocked' = h.blocked
    /\ Others(g.sess, h.sess, g.cur)
    /\ Refused(g, h, g.cur, m) \/ Failed(g, h, g.cur, m) \/ Opens2(g, h, g.cur, m)

LEMMA StateIs ==
    ASSUME TypeInv
    PROVE  /\ State \in Gateways /\ State.sess = sess /\ State.cur = cur /\ State.down = down /\ State.blocked = blocked
           /\ State.cur \in 0..Len(State.sess)
BY DEF TypeInv, State, Gateways

LEMMA FromBridgeIs ==
    ASSUME TypeInv, FromBridge
    PROVE  /\ linked /\ Len(up) > 0 /\ up' = Tail(up) /\ UNCHANGED <<linked, device, latest, phone, call>>
           /\ Head(up) \in UpMessage /\ Head(up) = up[1]
           /\ LET m == Head(up)
              IN  \/ Connects(m) \/ Ends(m) \/ Asked(m) \/ Resyncs(m) \/ Garbled(m)
                  \/ \E g, h \in Gateways : Begins(m, g, h)
<1> DEFINE m == Head(up)
<1>1. linked /\ up # <<>> /\ up' = Tail(up) /\ UNCHANGED <<linked, device, latest, phone, call>>
  BY DEF FromBridge
<1>2. Len(up) > 0 /\ m \in UpMessage /\ m = up[1]
  <2>1. up \in Seq(UpMessage)
    BY DEF TypeInv
  <2>2. Len(up) \in Nat \ {0}
    BY <1>1, <2>1, EmptySeq
  <2> QED
    BY <2>1, <2>2
<1>3. latest \in Nat /\ sess \in Seq(SessionType) /\ cur \in 0..Len(sess)
  BY DEF TypeInv
<1>4. CASE m.k = "connect"
  <2>1. Becomes(Session(State)) /\ Same
    BY <1>4 DEF FromBridge, Same
  <2>2. /\ cur # 0 => Session(State) = State
        /\ cur = 0 => /\ Session(State).cur = Len(sess) + 1 /\ Session(State).blocked = blocked
                      /\ Session(State).sess = Append(sess, NewSession)
                      /\ Session(State).down = Put(down, Len(sess) + 1, Plain("hello", Len(sess) + 1))
    BY StateIs, SessionIs
  <2>3. Connects(m)
    BY <2>1, <2>2, <1>4, StateIs DEF Connects, Becomes, Stays
  <2> QED
    BY <1>1, <1>2, <2>3
<1>5. CASE m.k = "disconnect"
  <2>1. Disconnected /\ Same
    BY <1>5 DEF FromBridge, Same
  <2>2. CASE cur = 0
    <3>1. Stays
      BY <2>1, <2>2, StateIs DEF Disconnected, Becomes, Stays
    <3>2. Ends(m)
      BY <1>5, <2>1, <2>2, <3>1 DEF Ends, Stays
    <3> QED
      BY <1>1, <1>2, <3>2
  <2>3. CASE cur # 0
    <3> DEFINE v == [sess[cur] EXCEPT !.timer = FALSE]
               q == [sess EXCEPT ![cur] = v]
    <3>1. cur \in 1..Len(sess) /\ sess[cur] \in SessionType
      BY <1>3, <2>3
    <3>2. v \in SessionType
      BY <3>1 DEF SessionType
    <3>3. [State EXCEPT !.sess[cur].timer = FALSE, !.cur = 0] = [State EXCEPT !.sess = q, !.cur = 0]
      BY StateIs
    <3> HIDE DEF v
    <3>4. Others(sess, q, cur) /\ q[cur] = v
      BY <1>3, <3>1, <3>2, ExceptSeq DEF Others
    <3> HIDE DEF q
    <3>5. LET h == [State EXCEPT !.sess = q, !.cur = 0]
          IN  h.sess = q /\ h.cur = 0 /\ h.down = down /\ h.blocked = blocked
      BY StateIs DEF Gateways
    <3>6. sess' = q /\ cur' = 0 /\ down' = down /\ blocked' = blocked
      BY <2>1, <2>3, <3>3, <3>5 DEF Disconnected, Becomes
    <3>7. Ends(m)
      BY <1>5, <2>1, <2>3, <3>4, <3>6 DEF Ends, Stopped, v
    <3> QED
      BY <1>1, <1>2, <3>7
  <2> QED
    BY <2>2, <2>3
<1>6. CASE m.k \notin {"connect", "disconnect"} /\ cur # 0 /\ sess[cur].state = "open"
  <2>1. Opened(m)
    BY <1>6 DEF FromBridge
  <2>2. cur \in 1..Len(sess) /\ sess[cur] \in SessionType
    BY <1>3, <1>6
  <2>3. CASE m.sealed = TRUE /\ m.s = cur
    <3>1. m.k \in {"request", "resync"}
      BY <1>2, <2>3 DEF UpMessage
    <3>2. CASE m.k = "request"
      <4>1. Asked(m)
        BY <1>6, <2>1, <2>3, <3>2 DEF Opened, Asked
      <4> QED
        BY <1>1, <1>2, <4>1
    <3>3. CASE m.k = "resync"
      <4>1. Becomes(IF sess[cur].pending THEN State ELSE SendFull(State, cur)) /\ Same
        BY <2>1, <2>3, <3>3 DEF Opened, Same
      <4>2. LET h == SendFull(State, cur)
            IN  /\ h.cur = cur /\ h.blocked = blocked /\ Others(sess, h.sess, cur)
                /\ h.sess[cur] = [sess[cur] EXCEPT !.fullSent = TRUE, !.seq = sess[cur].seq + 1]
                /\ h.down = Put(down, cur, Sealed("full", cur, sess[cur].seq + 1, latest))
        <5>1. State \in Gateways /\ cur \in 1..Len(State.sess)
          BY <2>2, StateIs
        <5> HIDE DEF m
        <5>2. LET h == SendFull(State, cur)
              IN  /\ h.cur = State.cur /\ h.blocked = State.blocked /\ Others(State.sess, h.sess, cur)
                  /\ h.sess[cur] = [State.sess[cur] EXCEPT !.fullSent = TRUE, !.seq = State.sess[cur].seq + 1]
                  /\ h.down = Put(State.down, State.cur, Sealed("full", cur, State.sess[cur].seq + 1, latest))
          BY <1>3, <5>1, SendFullIs
        <5> QED
          BY <5>2, StateIs
      <4>3. sess[cur].pending \in BOOLEAN
        BY <2>2 DEF SessionType
      <4>4. sess[cur].pending = TRUE => Stays
        BY <4>1, StateIs DEF Becomes, Stays
      <4>5. sess[cur].pending = FALSE => Full(cur)
        BY <4>1, <4>2 DEF Becomes, Full
      <4>6. Resyncs(m)
        BY <1>6, <2>3, <3>3, <4>1, <4>4, <4>5 DEF Resyncs
      <4> QED
        BY <1>1, <1>2, <4>6
    <3> QED
      BY <3>1, <3>2, <3>3
  <2>4. CASE ~(m.sealed = TRUE /\ m.s = cur)
    <3> DEFINE v == [sess[cur] EXCEPT !.errors = @ + 1]
               q == [sess EXCEPT ![cur] = v]
               g == [State EXCEPT !.sess = q]
    <3>0. m.sealed \in BOOLEAN
      BY <1>2 DEF UpMessage
    <3>1. Becomes(IF sess[cur].errors + 1 >= 3 THEN Refuse(g, cur) ELSE g) /\ Same
      <4>1. [State EXCEPT !.sess[cur].errors = @ + 1] = g
        BY StateIs
      <4> QED
        BY <2>1, <2>4, <3>0, <4>1 DEF Opened, Same
    <3>2. v \in SessionType /\ v.state = sess[cur].state /\ v.seq = sess[cur].seq
          /\ v.fullSent = sess[cur].fullSent /\ v.pending = sess[cur].pending
      BY <2>2 DEF SessionType
    <3> HIDE DEF v
    <3>3. q \in Seq(SessionType) /\ Others(sess, q, cur) /\ q[cur] = v
      BY <1>3, <2>2, <3>2, ExceptSeq DEF Others
    <3> HIDE DEF q
    <3>4. g \in Gateways /\ g.sess = q /\ g.cur = cur /\ g.down = down /\ g.blocked = blocked
      BY <3>3, StateIs DEF Gateways
    <3> HIDE DEF g
    <3>5. CASE Becomes(g)
      <4>1. sess' = q /\ cur' = cur /\ down' = down /\ blocked' = blocked
        BY <3>4, <3>5 DEF Becomes
      <4>2. Garbled(m)
        BY <1>6, <2>4, <3>1, <3>2, <3>3, <4>1 DEF Garbled
      <4> QED
        BY <1>1, <1>2, <4>2
    <3>6. CASE Becomes(Refuse(g, cur))
      <4> DEFINE h == Refuse(g, cur)
      <4>1. cur \in 1..Len(g.sess)
        BY <2>2, <3>3, <3>4 DEF Others
      <4>2. /\ h \in Gateways /\ h.cur = 0 /\ h.blocked = TRUE
            /\ h.down = Put(g.down, cur, FailMessage(cur))
            /\ Others(g.sess, h.sess, cur) /\ h.sess[cur] = [g.sess[cur] EXCEPT !.timer = FALSE]
        BY <3>4, <4>1, RefuseIs
      <4>3. Others(sess, h.sess, cur)
        BY <3>3, <3>4, <4>2 DEF Others
      <4>4. h.sess[cur].state = v.state /\ h.sess[cur].seq = v.seq
            /\ h.sess[cur].fullSent = v.fullSent /\ h.sess[cur].pending = v.pending
        BY <3>2, <3>3, <3>4, <4>2 DEF SessionType
      <4> HIDE DEF h
      <4>5. sess' = h.sess /\ cur' = 0 /\ down' = h.down /\ blocked' = TRUE
        BY <3>6, <4>2 DEF Becomes, h
      <4>6. Garbled(m)
        BY <1>6, <2>4, <3>1, <3>2, <3>4, <4>2, <4>3, <4>4, <4>5 DEF Garbled
      <4> QED
        BY <1>1, <1>2, <4>6
    <3> QED
      BY <3>1, <3>5, <3>6
  <2> QED
    BY <2>3, <2>4
<1>7. CASE m.k \notin {"connect", "disconnect"} /\ ~(cur # 0 /\ sess[cur].state = "open")
  <2> DEFINE g == Session(State)
             h == Auth(g, g.cur, m)
  <2>1. Becomes(h) /\ Same
    BY <1>7 DEF FromBridge, Same
  <2>2. /\ cur # 0 => g = State
        /\ cur = 0 => /\ g \in Gateways /\ g.cur = Len(sess) + 1 /\ g.blocked = blocked
                      /\ g.sess = Append(sess, NewSession)
                      /\ g.down = Put(down, Len(sess) + 1, Plain("hello", Len(sess) + 1))
    BY StateIs, SessionIs
  <2>3. g \in Gateways /\ g.cur \in 1..Len(g.sess)
    BY <1>3, <2>2, StateIs
  <2> HIDE DEF g, m
  <2>4. /\ h \in Gateways /\ Others(g.sess, h.sess, g.cur)
        /\ Refused(g, h, g.cur, m) \/ Failed(g, h, g.cur, m) \/ Opens2(g, h, g.cur, m)
    BY <1>3, <2>3, AuthIs
  <2> HIDE DEF h
  <2>5. ASSUME cur # 0 PROVE sess[cur].state = "hello"
    <3>1. cur \in 1..Len(sess) /\ sess[cur] \in SessionType
      BY <1>3, <2>5
    <3>2. sess[cur].state \in {"hello", "open"}
      BY <3>1 DEF SessionType
    <3> QED
      BY <1>7, <2>5, <3>2
  <2>6. Begins(m, g, h)
    BY <1>7, <2>1, <2>2, <2>4, <2>5, StateIs DEF Begins, Becomes
  <2> QED
    BY <1>1, <1>2, <1>7, <2>3, <2>4, <2>6 DEF m
<1> QED
  BY <1>4, <1>5, <1>6, <1>7
-----------------------------------------------------------------------------
(* What the other operations do *)

Times(s) ==
    /\ sess[s].timer = TRUE /\ Stopped(s) /\ cur' = 0
    /\ cur = 0 => UNCHANGED <<down, blocked>>
    /\ cur # 0 => blocked' = TRUE /\ down' = Put(down, cur, FailMessage(s))
    /\ amiss' = amiss \cup {IF s = cur THEN "slow" ELSE "stale"}

LEMMA AuthTimerIs ==
    ASSUME TypeInv, NEW s \in DOMAIN sess, AuthTimer(s)
    PROVE  Times(s) /\ UNCHANGED <<linked, entry, table, device, latest, up, phone, call, faults>>
<1> DEFINE v == [sess[s] EXCEPT !.timer = FALSE]
           q == [sess EXCEPT ![s] = v]
           g == [State EXCEPT !.sess = q]
<1>1. sess \in Seq(SessionType) /\ s \in 1..Len(sess) /\ sess[s] \in SessionType /\ cur \in 0..Len(sess) /\ s \in Nat
  BY DEF TypeInv
<1>2. sess[s].timer = TRUE /\ Becomes(Refuse(g, s))
  <2>1. [State EXCEPT !.sess[s].timer = FALSE] = g
    BY StateIs
  <2> QED
    BY <2>1, <1>1 DEF AuthTimer, SessionType
<1>3. v \in SessionType /\ [v EXCEPT !.timer = FALSE] = v
  BY <1>1 DEF SessionType
<1> HIDE DEF v
<1>4. q \in Seq(SessionType) /\ Others(sess, q, s) /\ q[s] = v
  BY <1>1, <1>3, ExceptSeq DEF Others
<1> HIDE DEF q
<1>5. g \in Gateways /\ g.sess = q /\ g.cur = cur /\ g.down = down /\ g.blocked = blocked
  BY <1>4, StateIs DEF Gateways
<1> HIDE DEF g
<1>6. CASE cur = 0
  <2>1. Refuse(g, s) = g
    BY <1>5, <1>6 DEF Refuse
  <2> QED
    BY <1>2, <1>4, <1>5, <1>6, <2>1 DEF Becomes, Times, AuthTimer, Stopped, v
<1>7. CASE cur # 0
  <2> DEFINE m == Plain("authFail", s)
             j == Send(g, m)
             h == CloseSession(j, s)
  <2>1. m \in DownMessage
    BY <1>1, PlainIs
  <2>2. j \in Gateways /\ j.sess = q /\ j.down = Put(down, cur, m)
    BY <1>5, <2>1, SendIs
  <2>3. Refuse(g, s) = h
    BY <1>5, <1>7 DEF Refuse
  <2> HIDE DEF j, m
  <2>4. s \in 1..Len(j.sess)
    BY <1>1, <1>4, <2>2 DEF Others
  <2>5. h \in Gateways /\ h.cur = 0 /\ h.blocked = TRUE /\ h.down = j.down
        /\ Others(j.sess, h.sess, s) /\ h.sess[s] = [j.sess[s] EXCEPT !.timer = FALSE]
    BY <2>2, <2>4, CloseIs
  <2> HIDE DEF h
  <2>6. Others(sess, h.sess, s) /\ h.sess[s] = v
    BY <1>3, <1>4, <2>2, <2>5 DEF Others
  <2> QED
    BY <1>2, <1>7, <2>2, <2>3, <2>5, <2>6 DEF Becomes, Times, AuthTimer, Stopped, v, m, FailMessage
<1> QED
  BY <1>6, <1>7

Shuts ==
    /\ device # "revoked" /\ device' = "revoked"
    /\ IF cur # 0 /\ sess[cur].state = "open"
       THEN Stopped(cur) /\ cur' = 0 /\ blocked' = TRUE /\ down' = Put(down, cur, Sealed("revoked", cur, 0, 0))
       ELSE Stays

LEMMA RevokeIs ==
    ASSUME TypeInv, Revoke
    PROVE  Shuts /\ UNCHANGED <<linked, entry, table, latest, up, phone, call, faults, amiss>>
<1>1. sess \in Seq(SessionType) /\ cur \in 0..Len(sess) /\ cur \in Nat
  BY DEF TypeInv
<1>2. CASE cur # 0 /\ sess[cur].state = "open"
  <2> DEFINE m == Sealed("revoked", cur, 0, 0)
             j == Send(State, m)
             h == CloseSession(j, cur)
  <2>1. m \in DownMessage
    BY <1>1, SealedIs
  <2>2. j \in Gateways /\ j.sess = sess /\ j.down = Put(down, cur, m)
    BY <2>1, SendIs, StateIs
  <2>3. Becomes(h)
    BY <1>2 DEF Revoke
  <2> HIDE DEF j, m
  <2>4. cur \in 1..Len(j.sess)
    BY <1>1, <1>2, <2>2
  <2>5. h \in Gateways /\ h.cur = 0 /\ h.blocked = TRUE /\ h.down = j.down
        /\ Others(j.sess, h.sess, cur) /\ h.sess[cur] = [j.sess[cur] EXCEPT !.timer = FALSE]
    BY <2>2, <2>4, CloseIs
  <2> HIDE DEF h
  <2> QED
    BY <1>2, <2>2, <2>3, <2>5 DEF Becomes, Shuts, Revoke, Stopped, m
<1>3. CASE ~(cur # 0 /\ sess[cur].state = "open")
  <2>1. Becomes(State)
    BY <1>3 DEF Revoke
  <2> QED
    BY <1>3, <2>1, StateIs DEF Becomes, Shuts, Revoke, Stays
<1> QED
  BY <1>2, <1>3

Sendable == cur # 0 /\ sess[cur].state = "open" /\ sess[cur].pending = FALSE /\ sess[cur].fullSent = TRUE
Patches ==
    /\ latest' = latest + 1
    /\ IF Sendable
       THEN /\ cur' = cur /\ blocked' = blocked /\ Others(sess, sess', cur)
            /\ sess'[cur] = [sess[cur] EXCEPT !.seq = sess[cur].seq + 1]
            /\ down' = Put(down, cur, Sealed("patch", cur, sess[cur].seq + 1, latest + 1))
       ELSE Stays

LEMMA FrameIs ==
    ASSUME TypeInv, Frame
    PROVE  Patches /\ UNCHANGED <<linked, entry, table, device, up, phone, call, faults, amiss>>
<1>1. sess \in Seq(SessionType) /\ cur \in 0..Len(sess) /\ cur \in Nat /\ latest + 1 \in Nat
  BY DEF TypeInv
<1> DEFINE n == sess[cur].seq + 1
           v == [sess[cur] EXCEPT !.seq = n]
           q == [sess EXCEPT ![cur] = v]
           j == [State EXCEPT !.sess = q]
           m == Sealed("patch", cur, n, latest + 1)
<1>2. ASSUME cur # 0 PROVE sess[cur].pending \in BOOLEAN /\ sess[cur].fullSent \in BOOLEAN
  <2>1. sess[cur] \in SessionType
    BY <1>1, <1>2
  <2> QED
    BY <2>1 DEF SessionType
<1>3. CASE Sendable
  <2>1. cur \in 1..Len(sess) /\ sess[cur] \in SessionType
    BY <1>1, <1>3 DEF Sendable
  <2>2. n \in Nat /\ v \in SessionType
    <3>1. n \in Nat
      BY <2>1 DEF SessionType
    <3> HIDE DEF n
    <3>2. v \in SessionType
      BY <2>1, <3>1 DEF SessionType
    <3> QED
      BY <3>1, <3>2
  <2>3. [State EXCEPT !.sess[cur].seq = n] = j
    BY StateIs
  <2>4. Becomes(Send(j, m))
    BY <1>3, <2>3 DEF Frame, Sendable
  <2> HIDE DEF v
  <2>5. q \in Seq(SessionType) /\ Others(sess, q, cur) /\ q[cur] = v
    BY <1>1, <2>1, <2>2, ExceptSeq DEF Others
  <2> HIDE DEF q, n
  <2>6. j \in Gateways /\ j.sess = q /\ j.cur = cur /\ j.down = down /\ j.blocked = blocked
    BY <2>5, StateIs DEF Gateways
  <2>7. m \in DownMessage
    BY <1>1, <2>2, SealedIs
  <2> HIDE DEF j, m
  <2>8. Send(j, m).sess = q /\ Send(j, m).cur = cur /\ Send(j, m).blocked = blocked /\ Send(j, m).down = Put(down, cur, m)
    BY <2>6, <2>7, SendIs
  <2> QED
    BY <1>3, <2>4, <2>5, <2>8 DEF Becomes, Patches, Frame, v, n, m
<1>4. CASE ~Sendable
  <2>1. Becomes(State)
    BY <1>2, <1>4 DEF Frame, Sendable
  <2> QED
    BY <1>4, <2>1, StateIs DEF Becomes, Patches, Frame, Stays
<1> QED
  BY <1>3, <1>4

(* The patch a frame sends. *)
LEMMA PatchIs ==
    ASSUME TypeInv, Sendable
    PROVE  Sealed("patch", cur, sess[cur].seq + 1, latest + 1) \in DownMessage
<1>1. cur \in Nat /\ cur \in 0..Len(sess) /\ sess \in Seq(SessionType) /\ latest \in Nat
  BY DEF TypeInv
<1>2. sess[cur] \in SessionType
  BY <1>1 DEF Sendable
<1>3. sess[cur].seq \in Nat
  BY <1>2 DEF SessionType
<1>4. PICK n \in Nat : n = sess[cur].seq + 1
  BY <1>3
<1>5. PICK v \in Nat : v = latest + 1
  BY <1>1
<1>6. Sealed("patch", cur, n, v) \in DownMessage
  BY <1>1, SealedIs
<1> QED
  BY <1>4, <1>5, <1>6

(* What a request does to the table of entries, and what it is answered. *)
LEMMA SweptIs ==
    ASSUME TypeInv
    PROVE  Swept \in Seq(Nat) /\ \A n \in 1..Len(Swept) : Swept[n] \in 1..Len(entry)
<1>1. table \in Seq(Nat) /\ \A n \in 1..Len(table) : table[n] \in 1..Len(entry)
  BY DEF TypeInv
<1>2. DedupeMax \in Nat /\ Len(table) \in Nat
  BY <1>1, BleAssumption
<1> DEFINE a == Len(table) - DedupeMax + 1
<1>3. CASE Len(table) > DedupeMax
  <2>1. a \in Int /\ a > 1 /\ \A i \in a..Len(table) : table[i] \in Nat
    BY <1>1, <1>2, <1>3
  <2>2. /\ SubSeq(table, a, Len(table)) \in Seq(Nat)
        /\ Len(SubSeq(table, a, Len(table))) = IF a <= Len(table) THEN Len(table) - a + 1 ELSE 0
        /\ \A i \in 1..Len(table) - a + 1 : SubSeq(table, a, Len(table))[i] = table[a + i - 1]
    BY <1>2, <2>1, SubSeqProperties
  <2>3. Swept = SubSeq(table, a, Len(table))
    BY <1>3 DEF Swept
  <2> HIDE DEF a
  <2> QED
    BY <1>1, <1>2, <2>1, <2>2, <2>3
<1>4. CASE ~(Len(table) > DedupeMax)
  BY <1>1, <1>4 DEF Swept
<1> QED
  BY <1>3, <1>4

Fresh(i) == [i |-> i, by |-> cur, ran |-> FALSE, done |-> FALSE, answer |-> "none", waiters |-> {cur}]
Declined(i) == [i |-> i, by |-> cur, ran |-> FALSE, done |-> TRUE, answer |-> "early", waiters |-> {}]
Answered(i, answer) == down' = Put(down, cur, Response(cur, i, answer))
Repeats(i) ==
    \E e \in DOMAIN entry :
        /\ e \in ToSet(Swept) /\ entry[e].i = i /\ table' = Swept
        /\ entry[e].done = TRUE => entry' = entry /\ Answered(i, entry[e].answer)
        /\ entry[e].done = FALSE => entry' = [entry EXCEPT ![e].waiters = @ \cup {cur}] /\ down' = down
Limits(i) == table' = Swept /\ entry' = entry /\ Answered(i, "limited")
Takes(i) ==
    /\ table' = Append(Swept, Len(entry) + 1)
    /\ \/ entry' = Append(entry, Fresh(i)) /\ down' = down
       \/ entry' = Append(entry, Declined(i)) /\ sess[cur].pending = TRUE /\ ~Activation(i) /\ Answered(i, "early")
Asking(i) ==
    /\ UNCHANGED <<sess, cur, blocked>>
    /\ amiss' = IF \E e \in ToSet(table) \ ToSet(Swept) : Awaited(entry[e].i) THEN amiss \cup {"evicted"} ELSE amiss
    /\ \/ Repeats(i)
       \/ (\A e \in ToSet(Swept) : entry[e].i # i) /\ (Limits(i) \/ Takes(i))

LEMMA RequestIs ==
    ASSUME TypeInv, cur # 0, NEW i \in CallIds, Request(cur, i)
    PROVE  Asking(i)
<1> DEFINE seen == {e \in ToSet(Swept) : entry[e].i = i}
           early == sess[cur].pending /\ ~Activation(i)
           new == [i |-> i, by |-> cur, ran |-> FALSE, done |-> early,
                   answer |-> IF early THEN "early" ELSE "none", waiters |-> IF early THEN {} ELSE {cur}]
<1>1. /\ sess \in Seq(SessionType) /\ cur \in 1..Len(sess) /\ cur \in Nat /\ sess[cur] \in SessionType
      /\ entry \in Seq(EntryType)
  BY DEF TypeInv
<1>2. sess[cur].pending \in BOOLEAN
  BY <1>1 DEF SessionType
<1>3. amiss' = IF \E e \in ToSet(table) \ ToSet(Swept) : Awaited(entry[e].i) THEN amiss \cup {"evicted"} ELSE amiss
  BY DEF Request
<1>4. ASSUME NEW answer \in Answers, Becomes(Send(State, Response(cur, i, answer)))
      PROVE  UNCHANGED <<sess, cur, blocked>> /\ Answered(i, answer)
  <2>1. Response(cur, i, answer) \in DownMessage
    BY <1>1, ResponseIs
  <2> QED
    BY <1>4, <2>1, StateIs, SendIs DEF Becomes, Answered
<1>5. CASE seen # {}
  <2> DEFINE e == CHOOSE e \in seen : TRUE
  <2>1. e \in seen
    BY <1>5
  <2>2. /\ table' = Swept
        /\ IF entry[e].done
           THEN Becomes(Send(State, Response(cur, i, entry[e].answer))) /\ UNCHANGED entry
           ELSE /\ entry' = [entry EXCEPT ![e].waiters = @ \cup {cur}]
                /\ UNCHANGED <<sess, cur, down, blocked>>
    BY <1>5 DEF Request
  <2> HIDE DEF e
  <2>3. e \in 1..Len(entry) /\ e \in ToSet(Swept) /\ entry[e].i = i
    BY <2>1, SweptIs DEF ToSet
  <2>4. entry[e].done \in BOOLEAN /\ entry[e].answer \in Answers
    <3>1. entry[e] \in EntryType
      BY <1>1, <2>3
    <3> QED
      BY <3>1 DEF EntryType
  <2>5. CASE entry[e].done = TRUE
    <3>1. UNCHANGED <<sess, cur, blocked>> /\ Answered(i, entry[e].answer) /\ entry' = entry
      BY <1>4, <2>2, <2>4, <2>5
    <3> QED
      BY <1>1, <1>3, <2>2, <2>3, <2>5, <3>1 DEF Asking, Repeats
  <2>6. CASE entry[e].done = FALSE
    BY <1>1, <1>3, <2>2, <2>3, <2>6 DEF Asking, Repeats
  <2> QED
    BY <2>4, <2>5, <2>6
<1>6. CASE seen = {}
  <2>0. \A e \in ToSet(Swept) : entry[e].i # i
    BY <1>6
  <2>1. \/ table' = Swept /\ UNCHANGED entry /\ Becomes(Send(State, Response(cur, i, "limited")))
        \/ /\ entry' = Append(entry, new) /\ table' = Append(Swept, Len(entry) + 1)
           /\ IF early THEN Becomes(Send(State, Response(cur, i, "early")))
                       ELSE UNCHANGED <<sess, cur, down, blocked>>
    BY <1>6 DEF Request
  <2>2. CASE table' = Swept /\ UNCHANGED entry /\ Becomes(Send(State, Response(cur, i, "limited")))
    <3>1. UNCHANGED <<sess, cur, blocked>> /\ Answered(i, "limited")
      BY <1>4, <2>2 DEF Answers
    <3> QED
      BY <1>3, <2>0, <2>2, <3>1 DEF Asking, Limits
  <2>3. CASE /\ entry' = Append(entry, new) /\ table' = Append(Swept, Len(entry) + 1)
             /\ early /\ Becomes(Send(State, Response(cur, i, "early")))
    <3>1. UNCHANGED <<sess, cur, blocked>> /\ Answered(i, "early")
      BY <1>4, <2>3 DEF Answers
    <3>2. new = Declined(i) /\ sess[cur].pending = TRUE /\ ~Activation(i)
      BY <1>2, <2>3 DEF Declined
    <3> HIDE DEF new
    <3> QED
      BY <1>3, <2>0, <2>3, <3>1, <3>2 DEF Asking, Takes
  <2>4. CASE /\ entry' = Append(entry, new) /\ table' = Append(Swept, Len(entry) + 1)
             /\ ~early /\ UNCHANGED <<sess, cur, down, blocked>>
    <3>2. new = Fresh(i)
      BY <2>4 DEF Fresh
    <3> HIDE DEF new
    <3> QED
      BY <1>3, <2>0, <2>4, <3>2 DEF Asking, Takes
  <2> QED
    BY <2>1, <2>2, <2>3, <2>4
<1> QED
  BY <1>5, <1>6

(* What a settled dispatch does to the sessions, and tells the one there is. *)
Activates(e, answer) == answer = "ok" /\ Activation(entry[e].i)
Releases(e, answer) ==
    Activates(e, answer) /\ sess[entry[e].by].pending = TRUE /\ cur # 0 /\ sess[cur].state = "open"
ToldOf(e, answer) ==
    IF cur \in entry[e].waiters THEN Put(down, cur, Response(cur, entry[e].i, answer)) ELSE down
Settling(e, answer) ==
    LET s == entry[e].by
    IN  /\ cur' = cur /\ blocked' = blocked /\ sess' \in Seq(SessionType) /\ Len(sess') = Len(sess)
        /\ \A t \in 1..Len(sess) :
             /\ sess'[t].state = sess[t].state /\ sess'[t].timer = sess[t].timer /\ sess'[t].tries = sess[t].tries
             /\ Releases(e, answer) /\ t = cur => sess'[t].pending = FALSE
             /\ ~(Releases(e, answer) /\ t = cur) => sess'[t].pending = sess[t].pending
             /\ Activates(e, answer) /\ t = s => sess'[t].seq = sess[t].seq + 1 /\ sess'[t].fullSent = TRUE
             /\ ~(Activates(e, answer) /\ t = s) => sess'[t].seq = sess[t].seq /\ sess'[t].fullSent = sess[t].fullSent
        /\ Activates(e, answer) => down' = Put(ToldOf(e, answer), cur, Sealed("full", s, sess[s].seq + 1, latest))
        /\ ~Activates(e, answer) => down' = ToldOf(e, answer)
Record(e, answer) ==
    /\ entry[e].done = FALSE
    /\ answer = "ok" => entry[e].ran = TRUE
    /\ entry' = [entry EXCEPT ![e].done = TRUE, ![e].answer = answer, ![e].waiters = {}]
    /\ amiss' = IF Activates(e, answer) /\ cur \notin {0, entry[e].by} THEN amiss \cup {"elsewhere"} ELSE amiss

(* What the types say of an entry of the dedupe table and of the session that asked. *)
LEMMA EntryFacts ==
    ASSUME TypeInv, NEW e \in DOMAIN entry
    PROVE  /\ e \in 1..Len(entry) /\ entry \in Seq(EntryType) /\ entry[e] \in EntryType
           /\ entry[e].by \in 1..Len(sess) /\ entry[e].by \in Nat
           /\ sess \in Seq(SessionType) /\ sess[entry[e].by] \in SessionType
<1>1. entry \in Seq(EntryType) /\ sess \in Seq(SessionType)
  BY DEF TypeInv
<1>2. e \in 1..Len(entry)
  BY <1>1
<1>3. entry[e].by \in 1..Len(sess)
  BY <1>2 DEF TypeInv
<1>4. Len(sess) \in Nat
  BY <1>1
<1>5. entry[e].by \in Nat
  BY <1>3, <1>4
<1>6. entry[e] \in EntryType
  BY <1>1, <1>2
<1>7. sess[entry[e].by] \in SessionType
  BY <1>1, <1>3
<1> QED
  BY <1>1, <1>2, <1>3, <1>5, <1>6, <1>7

LEMMA SettlesIs ==
    ASSUME TypeInv, NEW e \in DOMAIN entry, NEW answer \in {"ok", "failed", "late"}, Settles(e, answer)
    PROVE  /\ Settling(e, answer) /\ Record(e, answer)
           /\ UNCHANGED <<linked, table, device, latest, up, phone, call>>
<1> DEFINE s == entry[e].by
           w == [sess[cur] EXCEPT !.pending = FALSE]
           q == [sess EXCEPT ![cur] = w]
           g == IF Releases(e, answer) THEN [State EXCEPT !.sess = q] ELSE State
           m == Response(cur, entry[e].i, answer)
           j == IF cur \in entry[e].waiters THEN Send(g, m) ELSE g
<1>1. /\ sess \in Seq(SessionType) /\ cur \in 0..Len(sess) /\ cur \in Nat /\ e \in 1..Len(entry)
      /\ s \in 1..Len(sess) /\ sess[s] \in SessionType /\ entry \in Seq(EntryType) /\ latest \in Nat
  <2>1. cur \in 0..Len(sess) /\ cur \in Nat /\ latest \in Nat
    BY DEF TypeInv
  <2> QED
    BY <2>1, EntryFacts
<1>2. entry[e].done \in BOOLEAN /\ entry[e].ran \in BOOLEAN /\ entry[e].i \in CallIds /\ sess[s].pending \in BOOLEAN
  <2>1. entry[e] \in EntryType
    BY <1>1
  <2>2. entry[e].done \in BOOLEAN /\ entry[e].ran \in BOOLEAN /\ entry[e].i \in CallIds
    BY <2>1 DEF EntryType
  <2>3. sess[s].pending \in BOOLEAN
    BY <1>1 DEF SessionType
  <2> QED
    BY <2>2, <2>3
<1>3. g = IF Activates(e, answer) /\ sess[s].pending /\ cur # 0 /\ sess[cur].state = "open"
          THEN [State EXCEPT !.sess[cur].pending = FALSE] ELSE State
  <2>1. [State EXCEPT !.sess[cur].pending = FALSE] = [State EXCEPT !.sess = q]
    BY StateIs
  <2> HIDE DEF q
  <2> QED
    BY <2>1, <1>2 DEF Releases
<1>4. Becomes(IF Activates(e, answer) THEN SendFull(j, s) ELSE j)
  <2>1. LET gg == IF Activates(e, answer) /\ sess[s].pending /\ cur # 0 /\ sess[cur].state = "open"
                  THEN [State EXCEPT !.sess[cur].pending = FALSE] ELSE State
            told == IF cur \in entry[e].waiters THEN Send(gg, m) ELSE gg
        IN  Becomes(IF Activates(e, answer) THEN SendFull(told, s) ELSE told)
    BY DEF Settles, Activates
  <2> HIDE DEF g
  <2> QED
    BY <2>1, <1>3
<1>5. /\ g \in Gateways /\ g.cur = cur /\ g.down = down /\ g.blocked = blocked /\ Len(g.sess) = Len(sess)
      /\ \A t \in 1..Len(sess) :
           /\ g.sess[t].state = sess[t].state /\ g.sess[t].timer = sess[t].timer /\ g.sess[t].tries = sess[t].tries
           /\ g.sess[t].seq = sess[t].seq /\ g.sess[t].fullSent = sess[t].fullSent
           /\ Releases(e, answer) /\ t = cur => g.sess[t].pending = FALSE
           /\ ~(Releases(e, answer) /\ t = cur) => g.sess[t].pending = sess[t].pending
  <2>1. CASE Releases(e, answer)
    <3>1. cur \in 1..Len(sess) /\ sess[cur] \in SessionType
      BY <1>1, <2>1 DEF Releases
    <3>2. /\ w \in SessionType /\ w.state = sess[cur].state /\ w.timer = sess[cur].timer
          /\ w.tries = sess[cur].tries /\ w.seq = sess[cur].seq /\ w.fullSent = sess[cur].fullSent /\ w.pending = FALSE
      BY <3>1 DEF SessionType
    <3> HIDE DEF w
    <3>3. q \in Seq(SessionType) /\ Others(sess, q, cur) /\ q[cur] = w
      BY <1>1, <3>1, <3>2, ExceptSeq DEF Others
    <3> HIDE DEF q
    <3>4. g \in Gateways /\ g.sess = q /\ g.cur = cur /\ g.down = down /\ g.blocked = blocked
      BY <2>1, <3>3, StateIs DEF Gateways
    <3> QED
      BY <2>1, <3>2, <3>3, <3>4 DEF Others
  <2>2. CASE ~Releases(e, answer)
    <3>1. g = State
      BY <2>2
    <3> QED
      BY <2>2, <3>1, StateIs
  <2> QED
    BY <2>1, <2>2
<1>6. m \in DownMessage
  <2> DEFINE i == entry[e].i
  <2>1. cur \in Nat /\ i \in CallIds
    BY <1>1, <1>2
  <2>2. answer \in Answers
    BY DEF Answers
  <2> HIDE DEF i
  <2>3. Response(cur, i, answer) \in DownMessage
    BY <2>1, <2>2, ResponseIs
  <2> QED
    BY <2>3 DEF i
<1> HIDE DEF g, m
<1>7. j \in Gateways /\ j.sess = g.sess /\ j.cur = cur /\ j.blocked = blocked /\ j.down = ToldOf(e, answer)
  <2>1. CASE cur \in entry[e].waiters
    <3>1. j = Send(g, m) /\ ToldOf(e, answer) = Put(down, cur, m)
      BY <2>1 DEF ToldOf, m
    <3> HIDE DEF j
    <3> QED
      BY <1>5, <1>6, <3>1, SendIs
  <2>2. CASE ~(cur \in entry[e].waiters)
    <3>1. j = g /\ ToldOf(e, answer) = down
      BY <2>2 DEF ToldOf
    <3> HIDE DEF j
    <3> QED
      BY <1>5, <3>1
  <2> QED
    BY <2>1, <2>2
<1> HIDE DEF j
<1>8. Record(e, answer) /\ UNCHANGED <<linked, table, device, latest, up, phone, call>>
  <2>1. entry[e].done = FALSE
    BY <1>2 DEF Settles
  <2>2. answer = "ok" => entry[e].ran = TRUE
    BY <1>2 DEF Settles
  <2> QED
    BY <2>1, <2>2 DEF Settles, Record, Activates
<1>9. CASE Activates(e, answer)
  <2> DEFINE h == SendFull(j, s)
  <2>1. s \in 1..Len(j.sess)
    BY <1>1, <1>5, <1>7
  <2>2. /\ h \in Gateways /\ h.cur = j.cur /\ h.blocked = j.blocked
        /\ Others(j.sess, h.sess, s)
        /\ h.sess[s] = [j.sess[s] EXCEPT !.fullSent = TRUE, !.seq = j.sess[s].seq + 1]
        /\ h.down = Put(j.down, j.cur, Sealed("full", s, j.sess[s].seq + 1, latest))
    BY <1>1, <1>7, <2>1, SendFullIs
  <2>3. Becomes(h)
    BY <1>4, <1>9
  <2>4. j.sess[s] \in SessionType
    BY <1>7, <2>1 DEF Gateways
  <2> HIDE DEF h
  <2>5. /\ h.sess[s].state = j.sess[s].state /\ h.sess[s].timer = j.sess[s].timer /\ h.sess[s].tries = j.sess[s].tries
        /\ h.sess[s].pending = j.sess[s].pending /\ h.sess[s].fullSent = TRUE /\ h.sess[s].seq = j.sess[s].seq + 1
    BY <2>2, <2>4 DEF SessionType
  <2>6. h.sess \in Seq(SessionType) /\ Len(h.sess) = Len(sess)
    BY <1>5, <1>7, <2>2 DEF Gateways, Others
  <2>7. ASSUME NEW t \in 1..Len(sess)
        PROVE  /\ h.sess[t].state = sess[t].state /\ h.sess[t].timer = sess[t].timer /\ h.sess[t].tries = sess[t].tries
               /\ Releases(e, answer) /\ t = cur => h.sess[t].pending = FALSE
               /\ ~(Releases(e, answer) /\ t = cur) => h.sess[t].pending = sess[t].pending
               /\ t = s => h.sess[t].seq = sess[t].seq + 1 /\ h.sess[t].fullSent = TRUE
               /\ t # s => h.sess[t].seq = sess[t].seq /\ h.sess[t].fullSent = sess[t].fullSent
    <3>1. CASE t = s
      BY <1>5, <1>7, <2>5, <3>1
    <3>2. CASE t # s
      <4>1. h.sess[t] = g.sess[t]
        BY <1>5, <1>7, <2>2, <3>2 DEF Others
      <4> QED
        BY <1>5, <3>2, <4>1
    <3> QED
      BY <3>1, <3>2
  <2>8. h.down = Put(ToldOf(e, answer), cur, Sealed("full", s, sess[s].seq + 1, latest))
    BY <1>1, <1>5, <1>7, <2>2
  <2>9. sess' = h.sess /\ cur' = cur /\ blocked' = blocked /\ down' = h.down
    BY <1>7, <2>2, <2>3 DEF Becomes
  <2>10. Settling(e, answer)
    BY <1>9, <2>6, <2>7, <2>8, <2>9 DEF Settling
  <2> QED
    BY <1>8, <2>10
<1>10. CASE ~Activates(e, answer)
  <2>1. sess' = j.sess /\ cur' = cur /\ blocked' = blocked /\ down' = ToldOf(e, answer)
    BY <1>4, <1>7, <1>10 DEF Becomes
  <2>2. j.sess \in Seq(SessionType)
    BY <1>7 DEF Gateways
  <2>3. Settling(e, answer)
    BY <1>5, <1>7, <1>10, <2>1, <2>2 DEF Settling
  <2> QED
    BY <1>8, <2>3
<1> QED
  BY <1>9, <1>10
-----------------------------------------------------------------------------
(* What the phone does with a message, case by case *)

LEMMA UpIs ==
    ASSUME NEW s \in Nat
    PROVE  /\ \A k \in {"connect", "disconnect", "auth"} :
                Plain(k, s) \in UpMessage /\ Plain(k, s).k = k /\ Plain(k, s).s = s /\ Plain(k, s).sealed = FALSE
           /\ \A i \in CallIds : LET m == Sealed("request", s, i, 0)
                                IN  m \in UpMessage /\ m.k = "request" /\ m.s = s /\ m.a = i /\ m.sealed = TRUE
           /\ LET m == Sealed("resync", s, 0, 0)
              IN  m \in UpMessage /\ m.k = "resync" /\ m.s = s /\ m.sealed = TRUE
BY DEF Plain, Sealed, UpMessage

Greets(m) ==
    /\ phone.key = 0 /\ m.k = "hello" /\ phone' = [phone EXCEPT !.parts = m.s]
    /\ Written(Plain("auth", m.s)) /\ down' = Tail(down) /\ call' = call
Readies(m) ==
    /\ phone.key = 0 /\ m.k = "authOk" /\ m.s = phone.parts /\ phone' = [phone EXCEPT !.key = m.s]
    /\ up' = up /\ down' = Tail(down) /\ call' = call
Follows(m) ==
    /\ phone.key # 0 /\ m.s = phone.key /\ m.k \in {"full", "patch"}
    /\ m.k = "patch" => phone.seq # 0 /\ m.a = phone.seq + 1
    /\ phone' = [phone EXCEPT !.seq = m.a, !.frame = m.b]
    /\ up' = up /\ down' = Tail(down) /\ call' = call
Resumes(m) ==
    /\ phone.key # 0 /\ m.s = phone.key /\ m.k = "patch" /\ ~(phone.seq # 0 /\ m.a = phone.seq + 1)
    /\ phone' = [phone EXCEPT !.seq = 0]
    /\ Written(Sealed("resync", phone.key, 0, 0)) /\ down' = Tail(down) /\ call' = call
Learns(m) ==
    /\ phone.key # 0 /\ m.s = phone.key /\ m.k = "response"
    /\ call' = [call EXCEPT ![m.a].answer = IF @ = "none" THEN m.b ELSE @]
    /\ UNCHANGED <<phone, up>> /\ down' = Tail(down)
Baffled(m) ==
    /\ phone.key # 0 /\ ~(m.sealed = TRUE /\ m.s = phone.key)
    /\ phone' = [phone EXCEPT !.bad = phone.bad + 1] /\ up' = up /\ down' = Tail(down) /\ call' = call
Quits == phone' = NoPhone /\ ToGateway(Plain("disconnect", 0)) /\ down' = <<>> /\ call' = call

LEMMA PhoneReceivesIs ==
    ASSUME TypeInv, PhoneReceives
    PROVE  /\ phone.on = TRUE /\ Len(down) > 0 /\ UNCHANGED <<linked, blocked, gateway, device, latest, faults, amiss>>
           /\ Head(down) \in DownMessage /\ Head(down) = down[1]
           /\ LET m == Head(down)
              IN  Greets(m) \/ Readies(m) \/ Follows(m) \/ Resumes(m) \/ Learns(m) \/ Baffled(m) \/ Quits
<1> DEFINE m == Head(down)
<1>1. /\ phone \in [on : BOOLEAN, parts : Nat, key : Nat, bad : Nat, seq : Nat, frame : Nat]
      /\ down \in Seq(DownMessage)
  BY DEF TypeInv
<1>2. /\ phone.on = TRUE /\ down # <<>> /\ UNCHANGED <<linked, blocked, gateway, device, latest, faults, amiss>>
      /\ IF phone.key = 0 THEN Handshake(m) ELSE Received(m)
      /\ down' = IF phone'.on THEN Tail(down) ELSE <<>>
  BY <1>1 DEF PhoneReceives
<1>3. Len(down) > 0 /\ m \in DownMessage /\ m = down[1]
  <2>1. Len(down) \in Nat \ {0}
    BY <1>1, <1>2, EmptySeq
  <2> QED
    BY <1>1, <2>1
<1> HIDE DEF m
<1>4. /\ \A v : [phone EXCEPT !.parts = v].on = TRUE /\ [phone EXCEPT !.key = v].on = TRUE
      /\ \A v : [phone EXCEPT !.seq = v].on = TRUE /\ [phone EXCEPT !.bad = v].on = TRUE
      /\ \A v, w : [phone EXCEPT !.seq = v, !.frame = w].on = TRUE
  BY <1>1, <1>2
<1>5. NoPhone.on = FALSE
  BY DEF NoPhone
<1>6. Leaves => phone' = NoPhone /\ ToGateway(Plain("disconnect", 0)) /\ down' = <<>>
  BY <1>2, <1>5 DEF Leaves
<1>7. CASE phone.key = 0
  <2>1. call' = call
    BY <1>2, <1>7 DEF Handshake
  <2>2. CASE m.k = "hello"
    <3>1. phone' = [phone EXCEPT !.parts = m.s] /\ Written(Plain("auth", m.s))
      BY <1>2, <1>7, <2>2 DEF Handshake
    <3>2. Greets(m)
      BY <1>2, <1>4, <1>7, <2>1, <2>2, <3>1 DEF Greets
    <3> QED
      BY <1>2, <1>3, <3>2 DEF m
  <2>3. CASE m.k = "authOk" /\ m.s = phone.parts
    <3>1. phone' = [phone EXCEPT !.key = m.s] /\ up' = up
      BY <1>2, <1>7, <2>3 DEF Handshake
    <3>2. Readies(m)
      BY <1>2, <1>4, <1>7, <2>1, <2>3, <3>1 DEF Readies
    <3> QED
      BY <1>2, <1>3, <3>2 DEF m
  <2>4. CASE m.k # "hello" /\ ~(m.k = "authOk" /\ m.s = phone.parts)
    <3>1. Leaves
      BY <1>2, <1>7, <2>4 DEF Handshake
    <3>2. Quits
      BY <1>6, <2>1, <3>1 DEF Quits
    <3> QED
      BY <1>2, <1>3, <3>2 DEF m
  <2> QED
    BY <2>2, <2>3, <2>4
<1>8. CASE phone.key # 0
  <2>1. Received(m)
    BY <1>2, <1>8
  <2>2. m.sealed \in BOOLEAN /\ (m.sealed = TRUE => m.k \in {"full", "patch", "revoked", "response"})
    BY <1>3 DEF DownMessage
  <2>3. CASE Opens(m) /\ m.k \in {"full", "patch"}
    <3>1. Applied(m) /\ call' = call /\ m.s = phone.key
      BY <2>1, <2>3 DEF Received, Opens
    <3>2. CASE m.k = "full" \/ (phone.seq # 0 /\ m.a = phone.seq + 1)
      <4>1. phone' = [phone EXCEPT !.seq = m.a, !.frame = m.b] /\ up' = up
        BY <3>1, <3>2 DEF Applied
      <4>2. down' = Tail(down)
        BY <1>2, <1>4, <4>1
      <4>3. Follows(m)
        BY <1>8, <2>3, <3>1, <3>2, <4>1, <4>2 DEF Follows
      <4> QED
        BY <1>2, <1>3, <4>3 DEF m
    <3>3. CASE ~(m.k = "full" \/ (phone.seq # 0 /\ m.a = phone.seq + 1))
      <4>1. phone' = [phone EXCEPT !.seq = 0] /\ Written(Sealed("resync", phone.key, 0, 0))
        BY <3>1, <3>3 DEF Applied
      <4>2. down' = Tail(down)
        BY <1>2, <1>4, <4>1
      <4>3. Resumes(m)
        BY <1>8, <2>3, <3>1, <3>3, <4>1, <4>2 DEF Resumes
      <4> QED
        BY <1>2, <1>3, <4>3 DEF m
    <3> QED
      BY <3>2, <3>3
  <2>4. CASE Opens(m) /\ m.k = "revoked"
    <3>1. Leaves /\ call' = call
      BY <2>1, <2>4 DEF Received
    <3>2. Quits
      BY <1>6, <3>1 DEF Quits
    <3> QED
      BY <1>2, <1>3, <3>2 DEF m
  <2>5. CASE Opens(m) /\ m.k = "response"
    <3>1. /\ UNCHANGED <<phone, up>> /\ m.s = phone.key
          /\ call' = [call EXCEPT ![m.a].answer = IF @ = "none" THEN m.b ELSE @]
      BY <2>1, <2>5 DEF Received, Keeps, Opens
    <3>2. down' = Tail(down)
      BY <1>2, <3>1
    <3>3. Learns(m)
      BY <1>8, <2>5, <3>1, <3>2 DEF Learns
    <3> QED
      BY <1>2, <1>3, <3>3 DEF m
  <2>6. CASE ~Opens(m)
    <3>1. call' = call
      BY <2>1, <2>6 DEF Received
    <3>2. CASE phone.bad >= 2
      <4>1. Leaves
        BY <2>1, <2>6, <3>2 DEF Received
      <4>2. Quits
        BY <1>6, <3>1, <4>1 DEF Quits
      <4> QED
        BY <1>2, <1>3, <4>2 DEF m
    <3>3. CASE ~(phone.bad >= 2)
      <4>1. phone' = [phone EXCEPT !.bad = phone.bad + 1] /\ up' = up
        BY <2>1, <2>6, <3>3 DEF Received
      <4>2. down' = Tail(down)
        BY <1>2, <1>4, <4>1
      <4>3. Baffled(m)
        BY <1>8, <2>2, <2>6, <3>1, <4>1, <4>2 DEF Baffled, Opens
      <4> QED
        BY <1>2, <1>3, <4>3 DEF m
    <3> QED
      BY <3>2, <3>3
  <2> QED
    BY <2>2, <2>3, <2>4, <2>5, <2>6 DEF Opens
<1> QED
  BY <1>7, <1>8
-----------------------------------------------------------------------------
(* Type correctness *)

SessionFields == sess' \in Seq(SessionType) /\ cur' \in 0..Len(sess') /\ Len(sess') >= Len(sess)
EntryFields ==
    /\ entry' \in Seq(EntryType) /\ Len(entry') >= Len(entry)
    /\ \A e \in 1..Len(entry') : entry'[e].by \in 1..Len(sess')
    /\ table' \in Seq(Nat) /\ \A n \in 1..Len(table') : table'[n] \in 1..Len(entry')

LEMMA EntriesKept ==
    ASSUME TypeInv, SessionFields, UNCHANGED <<entry, table>>
    PROVE  EntryFields
BY DEF TypeInv, SessionFields, EntryFields

LEMMA FullTyped ==
    ASSUME TypeInv, NEW s \in 1..Len(sess), Full(s)
    PROVE  SessionFields /\ down' \in Seq(DownMessage)
<1>1. sess \in Seq(SessionType) /\ sess[s] \in SessionType /\ s \in Nat /\ cur \in 0..Len(sess) /\ latest \in Nat
      /\ down \in Seq(DownMessage)
  BY DEF TypeInv
<1>2. sess[s].seq + 1 \in Nat
  BY <1>1 DEF SessionType
<1>3. Sealed("full", s, sess[s].seq + 1, latest) \in DownMessage
  BY <1>1, <1>2, SealedIs
<1>4. down' \in Seq(DownMessage)
  BY <1>1, <1>3, PutIs DEF Full
<1> QED
  BY <1>1, <1>4 DEF Full, Others, SessionFields

LEMMA BeginsTyped ==
    ASSUME TypeInv, NEW m, NEW g \in Gateways, NEW h \in Gateways, Begins(m, g, h)
    PROVE  SessionFields /\ down' \in Seq(DownMessage) /\ blocked' \in BOOLEAN
<1>1. cur \in 0..Len(sess) /\ sess \in Seq(SessionType)
  BY DEF TypeInv
<1>2. h.sess \in Seq(SessionType) /\ h.down \in Seq(DownMessage) /\ h.blocked \in BOOLEAN
  BY DEF Gateways
<1>3. g.cur \in 1..Len(g.sess) /\ Len(g.sess) >= Len(sess)
  BY <1>1 DEF Begins
<1>4. Len(h.sess) = Len(g.sess) /\ h.cur \in {0, g.cur}
  BY DEF Begins, Others, Refused, Failed, Opens2
<1> QED
  BY <1>1, <1>2, <1>3, <1>4 DEF Begins, SessionFields

LEMMA AskedTyped ==
    ASSUME TypeInv, cur # 0, NEW i \in CallIds, Asking(i)
    PROVE  SessionFields /\ EntryFields /\ down' \in Seq(DownMessage)
<1>1. /\ cur \in 1..Len(sess) /\ cur \in Nat /\ sess \in Seq(SessionType) /\ entry \in Seq(EntryType) /\ down \in Seq(DownMessage)
      /\ \A e \in 1..Len(entry) : entry[e].by \in 1..Len(sess)
  BY DEF TypeInv
<1>2. SessionFields /\ sess' = sess
  BY <1>1 DEF Asking, SessionFields
<1>3. Swept \in Seq(Nat) /\ \A n \in 1..Len(Swept) : Swept[n] \in 1..Len(entry)
  BY SweptIs
<1>4. ASSUME NEW answer \in Answers, Answered(i, answer)
      PROVE  down' \in Seq(DownMessage)
  <2>1. Response(cur, i, answer) \in DownMessage
    BY <1>1, <1>4, ResponseIs
  <2> QED
    BY <1>1, <1>4, <2>1, PutIs DEF Answered
<1>5. CASE Repeats(i)
  <2>1. PICK e \in 1..Len(entry) :
          /\ table' = Swept
          /\ entry[e].done = TRUE => entry' = entry /\ Answered(i, entry[e].answer)
          /\ entry[e].done = FALSE => entry' = [entry EXCEPT ![e].waiters = @ \cup {cur}] /\ down' = down
    BY <1>1, <1>5 DEF Repeats
  <2>2. entry[e] \in EntryType
    BY <1>1
  <2>3. entry[e].done \in BOOLEAN /\ entry[e].answer \in Answers
    BY <2>2 DEF EntryType
  <2>4. CASE entry[e].done = TRUE
    BY <1>1, <1>2, <1>3, <1>4, <2>1, <2>3, <2>4 DEF EntryFields
  <2>5. CASE entry[e].done = FALSE
    <3> DEFINE v == [entry[e] EXCEPT !.waiters = @ \cup {cur}]
    <3>1. v \in EntryType /\ v.by = entry[e].by
      BY <1>1, <2>2 DEF EntryType
    <3>2. entry' = [entry EXCEPT ![e] = v]
      BY <2>1, <2>5
    <3> HIDE DEF v
    <3>3. entry' \in Seq(EntryType) /\ Len(entry') = Len(entry) /\ \A f \in 1..Len(entry) : entry'[f].by = entry[f].by
      BY <1>1, <3>1, <3>2, ExceptSeq
    <3> QED
      BY <1>1, <1>2, <1>3, <2>1, <2>5, <3>3 DEF EntryFields
  <2> QED
    BY <2>3, <2>4, <2>5
<1>6. CASE Limits(i)
  BY <1>1, <1>2, <1>3, <1>4, <1>6 DEF Limits, EntryFields, Answers
<1>7. CASE Takes(i)
  <2>1. Fresh(i) \in EntryType /\ Declined(i) \in EntryType /\ Fresh(i).by = cur /\ Declined(i).by = cur
    BY <1>1 DEF Fresh, Declined, EntryType, Answers
  <2>2. PICK v \in EntryType : entry' = Append(entry, v) /\ v.by = cur
    BY <1>7, <2>1 DEF Takes
  <2>3. down' \in Seq(DownMessage)
    BY <1>1, <1>4, <1>7 DEF Takes, Answers
  <2>4. entry' \in Seq(EntryType) /\ Len(entry') = Len(entry) + 1 /\ \A e \in 1..Len(entry') : entry'[e].by \in 1..Len(sess)
    BY <1>1, <2>2
  <2>5. table' \in Seq(Nat) /\ \A n \in 1..Len(table') : table'[n] \in 1..Len(entry) + 1
    BY <1>1, <1>3, <1>7 DEF Takes
  <2> QED
    BY <1>1, <1>2, <2>3, <2>4, <2>5 DEF EntryFields
<1> QED
  BY <1>5, <1>6, <1>7 DEF Asking

LEMMA FromBridgeTyped ==
    ASSUME TypeInv, FromBridge
    PROVE  TypeInv'
<1> DEFINE m == Head(up)
<1>1. /\ up' = Tail(up) /\ Len(up) > 0 /\ UNCHANGED <<linked, device, latest, phone, call>> /\ m \in UpMessage
      /\ \/ Connects(m) \/ Ends(m) \/ Asked(m) \/ Resyncs(m) \/ Garbled(m)
         \/ \E g, h \in Gateways : Begins(m, g, h)
  BY FromBridgeIs
<1> HIDE DEF m
<1>2. /\ sess \in Seq(SessionType) /\ Len(sess) + 1 \in Nat /\ cur \in 0..Len(sess) /\ cur \in Nat
      /\ down \in Seq(DownMessage) /\ up \in Seq(UpMessage) /\ blocked \in BOOLEAN
  BY DEF TypeInv
<1>3. up' \in Seq(UpMessage)
  BY <1>1, <1>2
<1>4. SessionFields /\ EntryFields /\ down' \in Seq(DownMessage) /\ blocked' \in BOOLEAN
  <2>1. CASE Connects(m)
    <3>1. CASE cur # 0
      <4>1. SessionFields
        BY <1>2, <2>1, <3>1 DEF Connects, Stays, SessionFields
      <4> QED
        BY <1>2, <2>1, <3>1, <4>1, EntriesKept DEF Connects, Same, Stays
    <3>2. CASE cur = 0
      <4>1. NewSession \in SessionType
        BY DEF NewSession, SessionType
      <4>2. Plain("hello", Len(sess) + 1) \in DownMessage
        BY <1>2, PlainIs
      <4>3. SessionFields
        <5>1. sess' = Append(sess, NewSession) /\ cur' = Len(sess) + 1
          BY <2>1, <3>2 DEF Connects
        <5>2. sess' \in Seq(SessionType) /\ Len(sess') = Len(sess) + 1
          BY <1>2, <4>1, <5>1
        <5> QED
          BY <1>2, <5>1, <5>2 DEF SessionFields
      <4>4. down' \in Seq(DownMessage)
        BY <1>2, <2>1, <3>2, <4>2, PutIs DEF Connects
      <4> QED
        BY <1>2, <2>1, <3>2, <4>3, <4>4, EntriesKept DEF Connects, Same
    <3> QED
      BY <3>1, <3>2
  <2>2. CASE Ends(m)
    <3>1. SessionFields
      BY <1>2, <2>2 DEF Ends, Stopped, Others, SessionFields
    <3> QED
      BY <1>2, <2>2, <3>1, EntriesKept DEF Ends, Same
  <2>3. CASE Asked(m)
    <3>1. m.a \in CallIds
      BY <1>1, <2>3 DEF Asked, UpMessage
    <3>2. Asking(m.a) /\ cur # 0
      BY <2>3, <3>1, RequestIs DEF Asked
    <3> QED
      BY <1>2, <3>1, <3>2, AskedTyped DEF Asking
  <2>4. CASE Resyncs(m)
    <3>0. cur \in 1..Len(sess) /\ sess[cur] \in SessionType /\ UNCHANGED <<entry, table>>
      BY <1>2, <2>4 DEF Resyncs, Same
    <3>1. sess[cur].pending \in BOOLEAN
      BY <3>0 DEF SessionType
    <3>2. CASE Stays
      <4>1. SessionFields
        BY <1>2, <3>2 DEF Stays, SessionFields
      <4> QED
        BY <1>2, <3>0, <3>2, <4>1, EntriesKept DEF Stays
    <3>3. CASE Full(cur)
      <4>1. SessionFields /\ down' \in Seq(DownMessage)
        BY <3>0, <3>3, FullTyped
      <4> QED
        BY <1>2, <3>0, <3>3, <4>1, EntriesKept DEF Full
    <3> QED
      BY <2>4, <3>1, <3>2, <3>3 DEF Resyncs
  <2>5. CASE Garbled(m)
    <3>1. SessionFields
      BY <1>2, <2>5 DEF Garbled, Others, SessionFields
    <3>2. Plain("authFail", cur) \in DownMessage
      BY <1>2, PlainIs
    <3>3. down' \in Seq(DownMessage)
      BY <1>2, <2>5, <3>2, PutIs DEF Garbled, FailMessage
    <3> QED
      BY <1>2, <2>5, <3>1, <3>3, EntriesKept DEF Garbled, Same
  <2>6. CASE \E g, h \in Gateways : Begins(m, g, h)
    <3>1. PICK g \in Gateways, h \in Gateways : Begins(m, g, h)
      BY <2>6
    <3>2. SessionFields /\ down' \in Seq(DownMessage) /\ blocked' \in BOOLEAN
      BY <3>1, BeginsTyped
    <3> QED
      BY <3>1, <3>2, EntriesKept DEF Begins, Same
  <2> QED
    BY <1>1, <2>1, <2>2, <2>3, <2>4, <2>5, <2>6
<1> QED
  BY <1>1, <1>3, <1>4 DEF TypeInv, SessionFields, EntryFields

LEMMA AuthTimerTyped ==
    ASSUME TypeInv, NEW s \in DOMAIN sess, AuthTimer(s)
    PROVE  TypeInv'
<1>1. Times(s) /\ UNCHANGED <<linked, entry, table, device, latest, up, phone, call, faults>>
  BY AuthTimerIs
<1>2. /\ sess \in Seq(SessionType) /\ s \in Nat /\ down \in Seq(DownMessage) /\ blocked \in BOOLEAN
  BY DEF TypeInv
<1>3. SessionFields
  BY <1>1, <1>2 DEF Times, Stopped, Others, SessionFields
<1>4. EntryFields
  BY <1>1, <1>3, EntriesKept
<1>5. Plain("authFail", s) \in DownMessage
  BY <1>2, PlainIs
<1>6. Put(down, cur, FailMessage(s)) \in Seq(DownMessage)
  BY <1>2, <1>5, PutIs DEF FailMessage
<1>7. down' \in Seq(DownMessage) /\ blocked' \in BOOLEAN
  BY <1>1, <1>2, <1>6 DEF Times
<1> QED
  BY <1>1, <1>3, <1>4, <1>7 DEF TypeInv, SessionFields, EntryFields

LEMMA RevokeTyped ==
    ASSUME TypeInv, Revoke
    PROVE  TypeInv'
<1>1. Shuts /\ UNCHANGED <<linked, entry, table, latest, up, phone, call, faults, amiss>>
  BY RevokeIs
<1>2. /\ sess \in Seq(SessionType) /\ cur \in 0..Len(sess) /\ cur \in Nat /\ down \in Seq(DownMessage) /\ blocked \in BOOLEAN
  BY DEF TypeInv
<1>3. SessionFields
  BY <1>1, <1>2 DEF Shuts, Stays, Stopped, Others, SessionFields
<1>4. EntryFields
  BY <1>1, <1>3, EntriesKept
<1>5. Sealed("revoked", cur, 0, 0) \in DownMessage
  BY <1>2, SealedIs
<1>6. Put(down, cur, Sealed("revoked", cur, 0, 0)) \in Seq(DownMessage)
  BY <1>2, <1>5, PutIs
<1>7. down' \in Seq(DownMessage) /\ blocked' \in BOOLEAN /\ device' = "revoked"
  BY <1>1, <1>2, <1>6 DEF Shuts, Stays
<1> QED
  BY <1>1, <1>3, <1>4, <1>7 DEF TypeInv, SessionFields, EntryFields

LEMMA FrameTyped ==
    ASSUME TypeInv, Frame
    PROVE  TypeInv'
<1>1. Patches /\ UNCHANGED <<linked, entry, table, device, up, phone, call, faults, amiss>>
  BY FrameIs
<1>2. /\ sess \in Seq(SessionType) /\ cur \in 0..Len(sess) /\ cur \in Nat /\ down \in Seq(DownMessage) /\ blocked \in BOOLEAN
      /\ latest \in Nat /\ latest + 1 \in Nat
  BY DEF TypeInv
<1>3. SessionFields
  BY <1>1, <1>2 DEF Patches, Stays, Others, SessionFields
<1>4. EntryFields
  BY <1>1, <1>3, EntriesKept
<1>5. down' \in Seq(DownMessage) /\ blocked' \in BOOLEAN
  <2>1. CASE Sendable
    <3> DEFINE x == Sealed("patch", cur, sess[cur].seq + 1, latest + 1)
    <3>1. x \in DownMessage
      BY <2>1, PatchIs
    <3>2. down' = Put(down, cur, x) /\ blocked' = blocked
      BY <1>1, <2>1 DEF Patches
    <3> HIDE DEF x
    <3> QED
      BY <1>2, <3>1, <3>2, PutIs
  <2>2. CASE ~Sendable
    BY <1>1, <1>2, <2>2 DEF Patches, Stays
  <2> QED
    BY <2>1, <2>2
<1> QED
  BY <1>1, <1>2, <1>3, <1>4, <1>5 DEF TypeInv, SessionFields, EntryFields, Patches

LEMMA SettlesTyped ==
    ASSUME TypeInv, NEW e \in DOMAIN entry, NEW answer \in {"ok", "failed", "late"}, Settles(e, answer)
    PROVE  TypeInv'
<1>1. /\ Settling(e, answer) /\ Record(e, answer)
      /\ UNCHANGED <<linked, table, device, latest, up, phone, call>>
  BY SettlesIs
<1>2. /\ sess \in Seq(SessionType) /\ cur \in 0..Len(sess) /\ cur \in Nat /\ down \in Seq(DownMessage) /\ blocked \in BOOLEAN
      /\ latest \in Nat /\ entry \in Seq(EntryType) /\ e \in 1..Len(entry) /\ entry[e].by \in 1..Len(sess) /\ entry[e].by \in Nat
      /\ entry[e] \in EntryType
  <2>1. /\ cur \in 0..Len(sess) /\ cur \in Nat /\ down \in Seq(DownMessage) /\ blocked \in BOOLEAN /\ latest \in Nat
    BY DEF TypeInv
  <2> QED
    BY <2>1, EntryFacts
<1>3. SessionFields
  BY <1>1, <1>2 DEF Settling, SessionFields
<1>4. ToldOf(e, answer) \in Seq(DownMessage)
  <2>1. entry[e].i \in CallIds /\ answer \in Answers
    BY <1>2 DEF EntryType, Answers
  <2>2. Response(cur, entry[e].i, answer) \in DownMessage
    BY <1>2, <2>1, ResponseIs
  <2> QED
    BY <1>2, <2>2, PutIs DEF ToldOf
<1>5. down' \in Seq(DownMessage) /\ blocked' \in BOOLEAN
  <2>1. CASE Activates(e, answer)
    <3>1. sess[entry[e].by] \in SessionType
      BY <1>2
    <3>2. sess[entry[e].by].seq + 1 \in Nat
      BY <3>1 DEF SessionType
    <3>3. PICK n \in Nat, s \in Nat : n = sess[entry[e].by].seq + 1 /\ s = entry[e].by
      BY <1>2, <3>2
    <3>4. Sealed("full", s, n, latest) \in DownMessage
      BY <1>2, SealedIs
    <3>5. blocked' = blocked /\ down' = Put(ToldOf(e, answer), cur, Sealed("full", s, n, latest))
      BY <1>1, <2>1, <3>3 DEF Settling
    <3> QED
      BY <1>2, <1>4, <3>4, <3>5, PutIs
  <2>2. CASE ~Activates(e, answer)
    BY <1>1, <1>2, <1>4, <2>2 DEF Settling
  <2> QED
    BY <2>1, <2>2
<1>6. EntryFields
  <2> DEFINE v == [entry[e] EXCEPT !.done = TRUE, !.answer = answer, !.waiters = {}]
  <2>1. v \in EntryType /\ v.by = entry[e].by
    BY <1>2 DEF EntryType, Answers
  <2>2. entry' = [entry EXCEPT ![e] = v]
    BY <1>1, <1>2 DEF Record, EntryType
  <2> HIDE DEF v
  <2>3. entry' \in Seq(EntryType) /\ Len(entry') = Len(entry) /\ \A f \in 1..Len(entry) : entry'[f].by = entry[f].by
    BY <1>2, <2>1, <2>2, ExceptSeq
  <2>4. Len(sess') = Len(sess) /\ table' = table
    BY <1>1 DEF Settling
  <2> QED
    BY <2>3, <2>4 DEF TypeInv, EntryFields
<1> QED
  BY <1>1, <1>3, <1>5, <1>6 DEF TypeInv, SessionFields, EntryFields

LEMMA PhoneTyped ==
    ASSUME TypeInv, PhoneReceives
    PROVE  TypeInv'
<1> DEFINE m == Head(down)
<1>1. /\ phone.on = TRUE /\ Len(down) > 0 /\ UNCHANGED <<linked, blocked, gateway, device, latest, faults, amiss>>
      /\ m \in DownMessage /\ m = down[1]
      /\ Greets(m) \/ Readies(m) \/ Follows(m) \/ Resumes(m) \/ Learns(m) \/ Baffled(m) \/ Quits
  BY PhoneReceivesIs
<1> HIDE DEF m
<1>2. /\ phone \in [on : BOOLEAN, parts : Nat, key : Nat, bad : Nat, seq : Nat, frame : Nat]
      /\ down \in Seq(DownMessage) /\ up \in Seq(UpMessage)
      /\ call \in [CallIds -> [copies : Nat, answer : Answers]]
  BY DEF TypeInv
<1>3. Tail(down) \in Seq(DownMessage) /\ <<>> \in Seq(DownMessage)
  BY <1>1, <1>2
<1>4. /\ phone' \in [on : BOOLEAN, parts : Nat, key : Nat, bad : Nat, seq : Nat, frame : Nat]
      /\ down' \in Seq(DownMessage) /\ up' \in Seq(UpMessage)
      /\ call' \in [CallIds -> [copies : Nat, answer : Answers]]
  <2>1. m.s \in Nat /\ phone.key \in Nat
    BY <1>1, <1>2 DEF DownMessage
  <2>2. ASSUME NEW x \in UpMessage PROVE Append(up, x) \in Seq(UpMessage)
    BY <1>2, <2>2
  <2>3. CASE Greets(m)
    <3>1. Plain("auth", m.s) \in UpMessage
      BY <2>1, UpIs
    <3> QED
      BY <1>2, <1>3, <2>1, <2>2, <2>3, <3>1 DEF Greets, Written
  <2>4. CASE Readies(m)
    BY <1>2, <1>3, <2>1, <2>4 DEF Readies
  <2>5. CASE Follows(m)
    <3>1. m.a \in Nat /\ m.b \in Nat
      BY <1>1, <2>5 DEF Follows, DownMessage
    <3> QED
      BY <1>2, <1>3, <2>5, <3>1 DEF Follows
  <2>6. CASE Resumes(m)
    <3>1. Sealed("resync", phone.key, 0, 0) \in UpMessage
      BY <2>1, UpIs
    <3> QED
      BY <1>2, <1>3, <2>2, <2>6, <3>1 DEF Resumes, Written
  <2>7. CASE Learns(m)
    <3>1. m.a \in CallIds /\ m.b \in Answers
      BY <1>1, <2>7 DEF Learns, DownMessage
    <3> DEFINE w == IF call[m.a].answer = "none" THEN m.b ELSE call[m.a].answer
    <3>2. call[m.a] \in [copies : Nat, answer : Answers]
      BY <1>2, <3>1
    <3>3. w \in Answers
      BY <3>1, <3>2
    <3>4. call' = [call EXCEPT ![m.a].answer = w]
      BY <1>2, <2>7, <3>1 DEF Learns
    <3> HIDE DEF w
    <3>5. call' \in [CallIds -> [copies : Nat, answer : Answers]]
      BY <1>2, <3>1, <3>2, <3>3, <3>4
    <3>6. phone' = phone /\ up' = up /\ down' = Tail(down)
      BY <2>7 DEF Learns
    <3> QED
      BY <1>2, <1>3, <3>5, <3>6
  <2>8. CASE Baffled(m)
    <3>1. phone.bad + 1 \in Nat
      BY <1>2
    <3>2. phone' = [phone EXCEPT !.bad = phone.bad + 1] /\ up' = up /\ down' = Tail(down) /\ call' = call
      BY <2>8 DEF Baffled
    <3>3. phone' \in [on : BOOLEAN, parts : Nat, key : Nat, bad : Nat, seq : Nat, frame : Nat]
      BY <1>2, <3>1, <3>2
    <3> QED
      BY <1>2, <1>3, <3>2, <3>3
  <2>9. CASE Quits
    <3>1. NoPhone \in [on : BOOLEAN, parts : Nat, key : Nat, bad : Nat, seq : Nat, frame : Nat]
      BY DEF NoPhone
    <3>2. Plain("disconnect", 0) \in UpMessage
      BY UpIs
    <3> QED
      BY <1>2, <1>3, <2>2, <2>9, <3>1, <3>2 DEF Quits, ToGateway
  <2> QED
    BY <1>1, <2>3, <2>4, <2>5, <2>6, <2>7, <2>8, <2>9
<1> QED
  BY <1>1, <1>4 DEF TypeInv, gateway

LEMMA TypeStep ==
    ASSUME TypeInv, [Next]_vars
    PROVE  TypeInv'
<1>1. /\ phone \in [on : BOOLEAN, parts : Nat, key : Nat, bad : Nat, seq : Nat, frame : Nat]
      /\ up \in Seq(UpMessage) /\ down \in Seq(DownMessage) /\ blocked \in BOOLEAN
      /\ NoPhone \in [on : BOOLEAN, parts : Nat, key : Nat, bad : Nat, seq : Nat, frame : Nat]
  BY DEF TypeInv, NoPhone
<1>2. ASSUME NEW k \in {"connect", "disconnect"}
      PROVE  Append(up, Plain(k, 0)) \in Seq(UpMessage) /\ <<Plain(k, 0)>> \in Seq(UpMessage)
  <2>1. Plain(k, 0) \in UpMessage
    BY UpIs
  <2> QED
    BY <1>1, <2>1
<1>3. CASE FromBridge
  BY <1>3, FromBridgeTyped
<1>4. CASE Revoke
  BY <1>4, RevokeTyped
<1>5. CASE Expire
  BY <1>5 DEF Expire, TypeInv, gateway
<1>6. CASE Frame
  BY <1>6, FrameTyped
<1>7. ASSUME NEW s \in DOMAIN sess, AuthTimer(s) PROVE TypeInv'
  BY <1>7, AuthTimerTyped
<1>8. ASSUME NEW e \in DOMAIN entry, Runs(e) PROVE TypeInv'
  <2> DEFINE v == [entry[e] EXCEPT !.ran = TRUE]
  <2>1. entry \in Seq(EntryType) /\ e \in 1..Len(entry) /\ entry[e] \in EntryType
    BY DEF TypeInv
  <2>2. v \in EntryType /\ v.by = entry[e].by
    BY <2>1 DEF EntryType
  <2>3. entry' = [entry EXCEPT ![e] = v]
    BY <1>8 DEF Runs
  <2> HIDE DEF v
  <2>4. entry' \in Seq(EntryType) /\ Len(entry') = Len(entry) /\ \A f \in 1..Len(entry) : entry'[f].by = entry[f].by
    BY <2>1, <2>2, <2>3, ExceptSeq
  <2> QED
    BY <1>8, <2>4 DEF Runs, TypeInv
<1>9. ASSUME NEW e \in DOMAIN entry, NEW a \in {"ok", "failed", "late"}, Settles(e, a) PROVE TypeInv'
  BY <1>9, SettlesTyped
<1>10. CASE PhoneComes
  <2>1. [NoPhone EXCEPT !.on = TRUE] \in [on : BOOLEAN, parts : Nat, key : Nat, bad : Nat, seq : Nat, frame : Nat]
    BY DEF NoPhone
  <2>2. up' \in Seq(UpMessage) /\ down' \in Seq(DownMessage)
    BY <1>1, <1>2, <1>10 DEF PhoneComes, ToGateway
  <2> QED
    BY <1>10, <2>1, <2>2 DEF PhoneComes, TypeInv, gateway
<1>11. CASE PhoneGoes
  <2>2. up' \in Seq(UpMessage) /\ down' \in Seq(DownMessage)
    BY <1>1, <1>2, <1>11 DEF PhoneGoes, Leaves, ToGateway
  <2> QED
    BY <1>1, <1>11, <2>2 DEF PhoneGoes, Leaves, TypeInv, gateway
<1>12. CASE LinkDrops
  <2>1. up' \in Seq(UpMessage) /\ down' \in Seq(DownMessage)
    BY <1>12 DEF LinkDrops
  <2>2. 0 \in 0..Len(sess)
    BY DEF TypeInv
  <2> QED
    BY <1>12, <2>1, <2>2 DEF LinkDrops, TypeInv
<1>13. CASE LinkReturns
  <2>1. up' \in Seq(UpMessage)
    BY <1>1, <1>2, <1>13 DEF LinkReturns
  <2> QED
    BY <1>13, <2>1 DEF LinkReturns, TypeInv, gateway
<1>14. CASE Overflow
  <2>1. up' \in Seq(UpMessage) /\ down' \in Seq(DownMessage)
    BY <1>1, <1>2, <1>14 DEF Overflow, ToGateway
  <2> QED
    BY <1>14, <2>1 DEF Overflow, TypeInv, gateway
<1>15. CASE BlockEnds
  BY <1>15 DEF BlockEnds, TypeInv, gateway
<1>16. CASE PhoneReceives
  BY <1>16, PhoneTyped
<1>17. ASSUME NEW i \in CallIds, PhoneCalls(i) PROVE TypeInv'
  <2>1. phone.key \in Nat
    BY <1>1
  <2>2. Sealed("request", phone.key, i, 0) \in UpMessage
    BY <2>1, UpIs
  <2>3. up' \in Seq(UpMessage)
    BY <1>1, <1>17, <2>2 DEF PhoneCalls, Written
  <2>4. call' \in [CallIds -> [copies : Nat, answer : Answers]]
    <3>1. call \in [CallIds -> [copies : Nat, answer : Answers]]
      BY DEF TypeInv
    <3> QED
      BY <1>17, <3>1 DEF PhoneCalls
  <2> QED
    BY <1>17, <2>3, <2>4 DEF PhoneCalls, TypeInv, gateway
<1>18. CASE UNCHANGED vars
  BY <1>18 DEF vars, TypeInv
<1> QED
  BY <1>3, <1>4, <1>5, <1>6, <1>7, <1>8, <1>9, <1>10, <1>11, <1>12, <1>13, <1>14, <1>15, <1>16, <1>17, <1>18 DEF Next

LEMMA TypeInit ==
    ASSUME Init
    PROVE  TypeInv
<1>1. NoPhone \in [on : BOOLEAN, parts : Nat, key : Nat, bad : Nat, seq : Nat, frame : Nat]
  BY DEF NoPhone
<1>2. call \in [CallIds -> [copies : Nat, answer : Answers]]
  BY DEF Init, Answers
<1>3. /\ sess \in Seq(SessionType) /\ Len(sess) = 0 /\ entry \in Seq(EntryType) /\ Len(entry) = 0
      /\ table \in Seq(Nat) /\ Len(table) = 0 /\ up \in Seq(UpMessage) /\ down \in Seq(DownMessage)
  BY DEF Init
<1>4. linked = TRUE /\ blocked = FALSE /\ cur = 0 /\ device \in {"pending", "active"} /\ latest = 1 /\ phone = NoPhone
  BY DEF Init
<1>5. cur \in 0..Len(sess) /\ latest \in Nat /\ device \in {"pending", "active", "expired", "revoked"}
  BY <1>3, <1>4
<1>7. linked \in BOOLEAN /\ blocked \in BOOLEAN
  BY <1>4
<1>6. /\ \A e \in 1..Len(entry) : entry[e].by \in 1..Len(sess)
      /\ \A n \in 1..Len(table) : table[n] \in 1..Len(entry)
  BY <1>3
<1> QED
  BY <1>1, <1>2, <1>3, <1>4, <1>5, <1>6, <1>7 DEF TypeInv

(* The gateway's and the phone's variables keep their types. *)
THEOREM TypeCorrect == Spec => []TypeInv
<1>1. Init => TypeInv
  BY TypeInit
<1>2. TypeInv /\ [Next]_vars => TypeInv'
  BY TypeStep
<1> QED
  BY <1>1, <1>2, PTL DEF Spec

-----------------------------------------------------------------------------
(* A revoked phone *)

Out == Len(entry') = Len(entry) /\ (cur' # 0 => sess'[cur'].state = "hello")

LEMMA RevokedKept ==
    ASSUME TypeInv, RevokedInv, device = "revoked", [Next]_vars
    PROVE  device' = "revoked" /\ Out
<1>1. /\ cur \in 0..Len(sess) /\ sess \in Seq(SessionType) /\ entry \in Seq(EntryType)
      /\ cur # 0 => sess[cur].state = "hello"
  BY DEF TypeInv, RevokedInv
<1>2. UNCHANGED <<sess, cur>> /\ Len(entry') = Len(entry) => Out
  BY <1>1 DEF Out
<1>3. CASE FromBridge
  <2> DEFINE m == Head(up)
  <2>1. /\ device' = device
        /\ Connects(m) \/ Ends(m) \/ Asked(m) \/ Resyncs(m) \/ Garbled(m) \/ \E g, h \in Gateways : Begins(m, g, h)
    BY <1>3, FromBridgeIs
  <2> HIDE DEF m
  <2>2. CASE Connects(m)
    <3>1. CASE cur # 0
      BY <1>2, <2>1, <2>2, <3>1 DEF Connects, Same, Stays
    <3>2. CASE cur = 0
      <4>1. sess' = Append(sess, NewSession) /\ cur' = Len(sess) + 1 /\ entry' = entry
        BY <2>2, <3>2 DEF Connects, Same
      <4>2. sess'[cur'] = NewSession
        BY <1>1, <4>1
      <4> QED
        BY <2>1, <4>1, <4>2 DEF Out, NewSession
    <3> QED
      BY <3>1, <3>2
  <2>3. CASE Ends(m)
    BY <2>1, <2>3 DEF Ends, Same, Out
  <2>4. CASE Asked(m) \/ Resyncs(m) \/ Garbled(m)
    BY <1>1, <2>4 DEF Asked, Resyncs, Garbled
  <2>5. CASE \E g, h \in Gateways : Begins(m, g, h)
    <3>1. PICK g \in Gateways, h \in Gateways : Begins(m, g, h)
      BY <2>5
    <3>2. entry' = entry /\ cur' = h.cur /\ sess' = h.sess
      BY <3>1 DEF Begins, Same
    <3>3. CASE Refused(g, h, g.cur, m)
      BY <2>1, <3>2, <3>3 DEF Refused, Out
    <3>4. CASE Failed(g, h, g.cur, m)
      <4>1. g.cur \in 1..Len(g.sess) /\ g.sess[g.cur].state = "hello" /\ g.sess[g.cur] \in SessionType
        <5>1. CASE cur # 0
          BY <1>1, <3>1, <5>1 DEF Begins
        <5>2. CASE cur = 0
          <6>1. g.cur = Len(sess) + 1 /\ g.sess = Append(sess, NewSession)
            BY <3>1, <5>2 DEF Begins
          <6>2. NewSession \in SessionType /\ NewSession.state = "hello"
            BY DEF NewSession, SessionType
          <6> QED
            BY <1>1, <6>1, <6>2
        <5> QED
          BY <5>1, <5>2
      <4>2. h.sess[g.cur].state = "hello" /\ h.cur = g.cur
        BY <3>4, <4>1 DEF Failed, SessionType
      <4> QED
        BY <2>1, <3>2, <4>2 DEF Out
    <3>5. ~Opens2(g, h, g.cur, m)
      BY DEF Opens2
    <3> QED
      BY <3>1, <3>3, <3>4, <3>5 DEF Begins
  <2> QED
    BY <2>1, <2>2, <2>3, <2>4, <2>5
<1>4. CASE Frame
  <2>1. Patches /\ UNCHANGED <<entry, device>>
    BY <1>4, FrameIs
  <2>2. ~Sendable
    BY <1>1 DEF Sendable
  <2> QED
    BY <1>2, <2>1, <2>2 DEF Patches, Stays
<1>5. ASSUME NEW s \in DOMAIN sess, AuthTimer(s) PROVE device' = "revoked" /\ Out
  <2>1. Times(s) /\ UNCHANGED <<entry, device>>
    BY <1>5, AuthTimerIs
  <2> QED
    BY <2>1 DEF Times, Out
<1>6. ASSUME NEW e \in DOMAIN entry, Runs(e) PROVE device' = "revoked" /\ Out
  <2>1. UNCHANGED <<sess, cur, device>> /\ entry' = [entry EXCEPT ![e].ran = TRUE]
    BY <1>6 DEF Runs
  <2>2. Len(entry') = Len(entry)
    BY <1>1, <2>1
  <2> QED
    BY <1>2, <2>1, <2>2
<1>7. ASSUME NEW e \in DOMAIN entry, NEW a \in {"ok", "failed", "late"}, Settles(e, a) PROVE device' = "revoked" /\ Out
  <2>1. Settling(e, a) /\ Record(e, a) /\ device' = device
    BY <1>7, SettlesIs
  <2>2. Len(entry') = Len(entry)
    BY <1>1, <2>1 DEF Record
  <2>3. cur' = cur /\ \A t \in 1..Len(sess) : sess'[t].state = sess[t].state
    BY <2>1 DEF Settling
  <2> QED
    BY <1>1, <2>1, <2>2, <2>3 DEF Out
<1>8. CASE LinkDrops
  BY <1>8 DEF LinkDrops, Out
<1>9. CASE PhoneReceives
  BY <1>2, <1>9 DEF PhoneReceives, gateway
<1>10. CASE PhoneComes \/ PhoneGoes \/ LinkReturns \/ Overflow \/ BlockEnds \/ (\E i \in CallIds : PhoneCalls(i))
  BY <1>2, <1>10 DEF PhoneComes, PhoneGoes, LinkReturns, Overflow, BlockEnds, PhoneCalls, gateway
<1>11. ~Revoke /\ ~Expire
  BY DEF Revoke, Expire
<1>12. CASE UNCHANGED vars
  BY <1>2, <1>12 DEF vars
<1> QED
  BY <1>3, <1>4, <1>5, <1>6, <1>7, <1>8, <1>9, <1>10, <1>11, <1>12 DEF Next

LEMMA RevokedStep ==
    ASSUME TypeInv, RevokedInv, [Next]_vars
    PROVE  RevokedInv'
<1>1. CASE device = "revoked"
  BY <1>1, RevokedKept DEF Out, RevokedInv
<1>2. CASE Revoke
  <2>1. Shuts
    BY <1>2, RevokeIs
  <2>2. CASE cur # 0 /\ sess[cur].state = "open"
    BY <2>1, <2>2 DEF Shuts, RevokedInv
  <2>3. CASE ~(cur # 0 /\ sess[cur].state = "open")
    <3>1. UNCHANGED <<sess, cur>>
      BY <2>1, <2>3 DEF Shuts, Stays
    <3>2. ASSUME cur # 0 PROVE sess[cur].state = "hello"
      <4>1. sess[cur] \in SessionType
        BY <3>2 DEF TypeInv
      <4>2. sess[cur].state \in {"hello", "open"}
        BY <4>1 DEF SessionType
      <4> QED
        BY <2>3, <3>2, <4>2
    <3> QED
      BY <3>1, <3>2 DEF RevokedInv
  <2> QED
    BY <2>2, <2>3
<1>3. CASE device # "revoked" /\ ~Revoke
  <2>1. device' # "revoked"
    BY <1>3 DEF Next, vars, FromBridge, Expire, Frame, AuthTimer, Runs, Settles, PhoneComes, PhoneGoes, LinkDrops,
                LinkReturns, Overflow, BlockEnds, PhoneReceives, PhoneCalls
  <2> QED
    BY <2>1 DEF RevokedInv
<1> QED
  BY <1>1, <1>2, <1>3

(* A phone that is revoked has no open session from then on, whatever it sends, and
   nothing it asks is taken. *)
THEOREM RevokedIsShutOut == Spec => RevokedIsOut
<1>1. Init => TypeInv /\ RevokedInv
  BY TypeInit DEF Init, RevokedInv
<1>2. TypeInv /\ RevokedInv /\ [Next]_vars => TypeInv' /\ RevokedInv'
  BY TypeStep, RevokedStep
<1>3. TypeInv /\ RevokedInv /\ [Next]_vars
        => [device = "revoked" => /\ Len(entry') = Len(entry)
                                  /\ cur' # 0 => sess'[cur'].state = "hello"]_vars
  BY RevokedKept DEF Out
<1> QED
  BY <1>1, <1>2, <1>3, PTL DEF Spec, RevokedIsOut
-----------------------------------------------------------------------------
(* A phone with a good key *)

LEMMA CleanStays ==
    ASSUME TypeInv, [Next]_vars, Clean'
    PROVE  Clean
<1>1. amiss \subseteq amiss'
  <2>1. CASE FromBridge
    <3>1. ASSUME NEW s, NEW i, Request(s, i) PROVE amiss \subseteq amiss'
      BY <3>1 DEF Request
    <3>2. \E m : Asked(m) \/ amiss' = amiss
      BY <2>1, FromBridgeIs DEF Connects, Ends, Resyncs, Garbled, Begins, Same
    <3> QED
      BY <3>1, <3>2 DEF Asked
  <2>2. ASSUME NEW s \in DOMAIN sess, AuthTimer(s) PROVE amiss \subseteq amiss'
    BY <2>2 DEF AuthTimer
  <2>3. ASSUME NEW e \in DOMAIN entry, NEW a \in {"ok", "failed", "late"}, Settles(e, a) PROVE amiss \subseteq amiss'
    BY <2>3 DEF Settles
  <2>4. CASE LinkDrops \/ Overflow
    BY <2>4 DEF LinkDrops, Overflow
  <2>5. CASE Revoke \/ Expire \/ Frame \/ (\E e \in DOMAIN entry : Runs(e)) \/ PhoneComes \/ PhoneGoes \/ LinkReturns
               \/ BlockEnds \/ PhoneReceives \/ (\E i \in CallIds : PhoneCalls(i)) \/ UNCHANGED vars
    BY <2>5 DEF Revoke, Expire, Frame, Runs, PhoneComes, PhoneGoes, LinkReturns, BlockEnds, PhoneReceives, PhoneCalls, vars
  <2> QED
    BY <2>1, <2>2, <2>3, <2>4, <2>5 DEF Next
<1>2. device = "revoked" => device' = "revoked"
  BY DEF Next, vars, FromBridge, Revoke, Expire, Frame, AuthTimer, Runs, Settles, PhoneComes,
         PhoneGoes, LinkDrops, LinkReturns, Overflow, BlockEnds, PhoneReceives, PhoneCalls
<1> QED
  BY <1>1, <1>2 DEF Clean

(* A step that leaves the handshake and the phone alone *)
Quiet ==
    /\ UNCHANGED <<linked, blocked, cur, phone>> /\ Len(sess') = Len(sess)
    /\ \A s \in 1..Len(sess) :
         sess'[s].state = sess[s].state /\ sess'[s].timer = sess[s].timer /\ sess'[s].tries = sess[s].tries
    /\ phone.on = FALSE \/ cur = 0 => down' = down
    /\ \A n \in 1..Len(down') : (n \in 1..Len(down) /\ down'[n] = down[n]) \/ down'[n].k \notin {"hello", "authOk"}
    /\ up' = up \/ (up' = Tail(up) /\ Len(up) > 0 /\ up[1].sealed = TRUE)

LEMMA TurnsQuiet ==
    ASSUME TypeInv, Turns, Quiet
    PROVE  Turns'
<1>1. /\ sess \in Seq(SessionType) /\ cur \in 0..Len(sess) /\ up \in Seq(UpMessage) /\ down \in Seq(DownMessage)
      /\ phone.on \in BOOLEAN
  BY DEF TypeInv
<1>2. /\ linked' = linked /\ blocked' = blocked /\ cur' = cur /\ phone' = phone
      /\ cur # 0 => sess'[cur].state = sess[cur].state /\ sess'[cur].tries = sess[cur].tries
      /\ phone.on = FALSE \/ cur = 0 => down' = down
  BY <1>1 DEF Quiet
<1>3. Timers'
  BY <1>1, <1>2 DEF Quiet, Turns, Timers
<1>4. Present'
  BY <1>1, <1>2 DEF Turns, Present
<1>5. \A m : (Greeted(m) => Greeted(m)') /\ (Ready(m) => Ready(m)')
  BY <1>2 DEF Greeted, Ready
<1>6. CASE up' = up
  <2>1. Absent' /\ UpTurns'
    BY <1>1, <1>2, <1>5, <1>6 DEF Turns, Absent, UpTurns, Greeted, Ready
  <2>2. DownTurns'
    BY <1>1, <1>2, <1>5, <1>6 DEF Quiet, Turns, DownTurns, Greeted, Ready
  <2> QED
    BY <1>2, <1>3, <1>4, <2>1, <2>2 DEF Turns
<1>7. CASE up' = Tail(up) /\ Len(up) > 0 /\ up[1].sealed = TRUE
  <2>1. /\ Len(up') = Len(up) - 1 /\ \A n \in 1..Len(up') : up'[n] = up[n + 1]
        /\ up[1] \in UpMessage /\ 1 \in 1..Len(up)
    BY <1>1, <1>7
  <2>2. up[1].k # "disconnect"
    BY <1>7, <2>1 DEF UpMessage
  <2>3. Absent'
    BY <1>1, <1>2, <2>1, <2>2 DEF Turns, Absent
  <2>4. ASSUME NEW n \in 1..Len(up')
        PROVE  /\ up'[n].k = "disconnect" => n = Len(up') /\ phone.on = FALSE
               /\ up'[n].k \notin {"connect", "auth"}
               /\ up'[n].sealed = TRUE => cur # 0 /\ up'[n].s = cur /\ sess[cur].state = "open"
    <3>1. up'[n] = up[n + 1] /\ n + 1 \in 1..Len(up) /\ n + 1 # 1
      BY <1>1, <2>1
    <3> QED
      BY <1>1, <1>2, <2>1, <3>1 DEF Turns, UpTurns, Ready
  <2>5. UpTurns'
    BY <1>2, <2>1, <2>4 DEF UpTurns, Ready
  <2>6. DownTurns'
    BY <1>1, <1>2, <1>5, <1>7 DEF Quiet, Turns, DownTurns, Greeted, Ready
  <2> QED
    BY <1>2, <1>3, <1>4, <2>3, <2>5, <2>6 DEF Turns
<1> QED
  BY <1>6, <1>7 DEF Quiet

LEMMA PutQuiet ==
    ASSUME TypeInv, NEW d \in Seq(DownMessage), NEW m \in DownMessage, m.k \notin {"hello", "authOk"},
           \A n \in 1..Len(d) : (n \in 1..Len(down) /\ d[n] = down[n]) \/ d[n].k \notin {"hello", "authOk"},
           phone.on = FALSE \/ cur = 0 => d = down
    PROVE  /\ \A n \in 1..Len(Put(d, cur, m)) :
                (n \in 1..Len(down) /\ Put(d, cur, m)[n] = down[n]) \/ Put(d, cur, m)[n].k \notin {"hello", "authOk"}
           /\ phone.on = FALSE \/ cur = 0 => Put(d, cur, m) = down
<1> DEFINE r == Put(d, cur, m)
<1>1. /\ \A n \in 1..Len(d) : r[n] = d[n]
      /\ \A n \in 1..Len(r) : n \in 1..Len(d) \/ (n = Len(d) + 1 /\ r[n] = m)
      /\ ~(cur # 0 /\ linked /\ phone.on) => r = d
  BY PutIs
<1> HIDE DEF r
<1> QED
  BY <1>1 DEF r

LEMMA TurnsBridge ==
    ASSUME TypeInv, Turns, FromBridge
    PROVE  Turns'
<1> DEFINE m == Head(up)
<1>1. /\ up' = Tail(up) /\ Len(up) > 0 /\ UNCHANGED <<linked, phone>> /\ m \in UpMessage /\ m = up[1]
      /\ Connects(m) \/ Ends(m) \/ Asked(m) \/ Resyncs(m) \/ Garbled(m) \/ \E g, h \in Gateways : Begins(m, g, h)
  BY FromBridgeIs
<1> HIDE DEF m
<1>2. /\ sess \in Seq(SessionType) /\ cur \in 0..Len(sess) /\ cur \in Nat /\ up \in Seq(UpMessage) /\ down \in Seq(DownMessage)
      /\ phone.on \in BOOLEAN /\ latest \in Nat /\ linked = TRUE /\ blocked = FALSE
  BY DEF TypeInv, Turns
<1>3. /\ Len(up') = Len(up) - 1 /\ \A n \in 1..Len(up') : up'[n] = up[n + 1] /\ n + 1 \in 1..Len(up) /\ n + 1 # 1
      /\ 1 \in 1..Len(up)
  BY <1>1, <1>2
<1>4. \A n \in 1..Len(up') : up'[n].k \notin {"connect", "auth"}
  BY <1>3 DEF Turns, UpTurns
<1>5. CASE Connects(m)
  <2> DEFINE n == Len(sess) + 1
             hi == Plain("hello", n)
  <2>1. cur = 0 /\ (phone.on = TRUE => Len(up) = 1 /\ phone.key = 0 /\ down = <<>>)
    BY <1>1, <1>3, <1>5 DEF Turns, UpTurns, Connects
  <2>2. sess' = Append(sess, NewSession) /\ cur' = n /\ blocked' = blocked /\ down' = Put(down, n, hi)
    BY <1>5, <2>1 DEF Connects
  <2>0. n \in Nat /\ n # 0
    BY <1>2
  <2>3. n \in Nat /\ n # 0 /\ hi \in DownMessage /\ hi.k = "hello" /\ hi.s = n
    <3> HIDE DEF n
    <3> QED
      BY <2>0, PlainIs
  <2> HIDE DEF hi
  <2>4. /\ Len(sess') = n /\ sess'[n] = NewSession /\ \A s \in 1..Len(sess) : sess'[s] = sess[s]
    BY <1>2, <2>2
  <2>5. Timers'
    <3>1. ASSUME NEW s \in 1..n, s # n PROVE sess'[s].timer # TRUE
      <4>1. s \in 1..Len(sess) /\ s # 0
        BY <1>2, <3>1
      <4> QED
        BY <2>1, <2>4, <4>1 DEF Turns, Timers
    <3> QED
      BY <2>2, <2>4, <3>1 DEF Timers
  <2>6. CASE phone.on = TRUE
    <3>1. Len(up') = 0 /\ phone.key = 0
      BY <1>3, <2>1, <2>6
    <3>2. down' = Append(down, hi) /\ Len(down) = 0
      BY <1>2, <2>1, <2>2, <2>3, <2>6, PutIs
    <3>3. Len(down') = 1 /\ down'[1] = hi
      BY <1>2, <2>3, <3>2
    <3>4. sess'[cur'].state = "hello" /\ sess'[cur'].tries = 0
      BY <2>2, <2>4 DEF NewSession
    <3>5. DownTurns'
      BY <2>2, <2>3, <3>1, <3>3, <3>4 DEF DownTurns, Greeted
    <3> QED
      BY <1>1, <1>2, <2>2, <2>5, <2>6, <3>1, <3>5 DEF Turns, Absent, Present, UpTurns
  <2>7. CASE phone.on = FALSE
    <3>1. down' = down /\ down = <<>> /\ phone.key = 0 /\ up[Len(up)].k = "disconnect"
      BY <1>1, <1>2, <2>2, <2>3, <2>7, PutIs DEF Turns, Absent
    <3>2. Len(up) # 1 /\ Len(up') > 0 /\ up'[Len(up')].k = "disconnect"
      BY <1>1, <1>2, <1>3, <1>5, <3>1 DEF Connects
    <3>3. UpTurns'
      BY <1>1, <1>2, <1>3, <1>4, <2>1 DEF Turns, UpTurns, Ready
    <3> QED
      BY <1>1, <1>2, <2>2, <2>5, <2>7, <3>1, <3>2, <3>3 DEF Turns, Absent, Present, DownTurns
  <2> QED
    BY <1>2, <2>6, <2>7
<1>6. CASE Ends(m)
  <2>1. Len(up) = 1 /\ phone.on = FALSE /\ down = <<>> /\ phone.key = 0
    BY <1>1, <1>3, <1>6 DEF Turns, UpTurns, Absent, Ends
  <2>2. Len(up') = 0 /\ cur' = 0 /\ down' = down /\ blocked' = blocked
    BY <1>3, <1>6, <2>1 DEF Ends
  <2>3. Timers'
    <3>1. CASE cur = 0
      BY <1>2, <1>6, <2>2, <3>1 DEF Ends, Turns, Timers
    <3>2. CASE cur # 0
      <4>1. Others(sess, sess', cur) /\ sess'[cur] = [sess[cur] EXCEPT !.timer = FALSE] /\ sess[cur] \in SessionType
        BY <1>2, <1>6, <3>2 DEF Ends, Stopped
      <4>2. sess'[cur].timer = FALSE
        BY <4>1 DEF SessionType
      <4> QED
        BY <1>2, <4>1, <4>2 DEF Turns, Timers, Others
    <3> QED
      BY <3>1, <3>2
  <2> QED
    BY <1>1, <1>2, <2>1, <2>2, <2>3 DEF Turns, Absent, Present, UpTurns, DownTurns
<1>7. CASE Asked(m)
  <2>1. m.a \in CallIds /\ m.sealed = TRUE
    BY <1>1, <1>7 DEF Asked, UpMessage
  <2>2. Asking(m.a) /\ cur # 0
    BY <1>7, <2>1, RequestIs DEF Asked
  <2>3. ASSUME NEW answer \in Answers, Answered(m.a, answer) PROVE Quiet
    <3>0. cur \in Nat
      BY <1>2
    <3>1. Response(cur, m.a, answer) \in DownMessage
      BY <3>0, <2>1, ResponseIs
    <3>3. Response(cur, m.a, answer).k = "response"
      BY DEF Response, Sealed
    <3>2. /\ \A n \in 1..Len(down') : (n \in 1..Len(down) /\ down'[n] = down[n]) \/ down'[n].k \notin {"hello", "authOk"}
          /\ phone.on = FALSE \/ cur = 0 => down' = down
      BY <1>2, <2>3, <3>1, <3>3, PutQuiet DEF Answered
    <3> QED
      BY <1>1, <2>1, <2>2, <3>2 DEF Quiet, Asking
  <2>4. ASSUME down' = down PROVE Quiet
    BY <1>1, <2>1, <2>2, <2>4 DEF Quiet, Asking
  <2>5. (\E answer \in Answers : Answered(m.a, answer)) \/ down' = down
    <3>1. CASE Repeats(m.a)
      <4>1. PICK e \in 1..Len(entry) :
              /\ entry[e].done = TRUE => Answered(m.a, entry[e].answer)
              /\ entry[e].done = FALSE => down' = down
        <5>1. entry \in Seq(EntryType)
          BY DEF TypeInv
        <5> QED
          BY <3>1, <5>1 DEF Repeats
      <4>2. entry[e] \in EntryType
        BY DEF TypeInv
      <4>3. entry[e].done \in BOOLEAN /\ entry[e].answer \in Answers
        BY <4>2 DEF EntryType
      <4> QED
        BY <4>1, <4>3
    <3>2. CASE Limits(m.a) \/ Takes(m.a)
      BY <3>2 DEF Limits, Takes, Answers
    <3> QED
      BY <2>2, <3>1, <3>2 DEF Asking
  <2>6. Quiet
    BY <2>3, <2>4, <2>5
  <2> QED
    BY <2>6, TurnsQuiet
<1>8. CASE Resyncs(m)
  <2>0. m.k = "resync" /\ cur # 0
    BY <1>8 DEF Resyncs
  <2>1. m.sealed = TRUE /\ cur \in 1..Len(sess) /\ sess[cur] \in SessionType
    <3>1. m.sealed = TRUE
      BY <1>1, <2>0 DEF UpMessage
    <3> QED
      BY <1>2, <2>0, <3>1
  <2>2. sess[cur].pending \in BOOLEAN /\ sess[cur].seq + 1 \in Nat
    BY <2>1 DEF SessionType
  <2>3. CASE Stays
    <3>1. Quiet
      BY <1>1, <2>1, <2>3 DEF Quiet, Stays
    <3> QED
      BY <3>1, TurnsQuiet
  <2>4. CASE Full(cur)
    <3>0. cur \in Nat /\ latest \in Nat
      BY <1>2
    <3>1. Sealed("full", cur, sess[cur].seq + 1, latest) \in DownMessage
      BY <3>0, <2>2, SealedIs
    <3>5. Sealed("full", cur, sess[cur].seq + 1, latest).k = "full"
      BY DEF Sealed
    <3>2. /\ \A n \in 1..Len(down') : (n \in 1..Len(down) /\ down'[n] = down[n]) \/ down'[n].k \notin {"hello", "authOk"}
          /\ phone.on = FALSE \/ cur = 0 => down' = down
      BY <1>2, <2>4, <3>1, <3>5, PutQuiet DEF Full
    <3>3. /\ Len(sess') = Len(sess)
          /\ \A s \in 1..Len(sess) :
               sess'[s].state = sess[s].state /\ sess'[s].timer = sess[s].timer /\ sess'[s].tries = sess[s].tries
      BY <2>1, <2>4 DEF Full, Others, SessionType
    <3>4. Quiet
      BY <1>1, <2>1, <2>4, <3>2, <3>3 DEF Quiet, Full
    <3> QED
      BY <3>4, TurnsQuiet
  <2> QED
    BY <1>8, <2>2, <2>3, <2>4 DEF Resyncs
<1>9. ~Garbled(m)
  <2>1. m.sealed = TRUE => m.s = cur
    BY <1>1, <1>3 DEF Turns, UpTurns, Ready
  <2>2. m.k = "auth" => sess[cur].state = "hello"
    BY <1>1, <1>3 DEF Turns, UpTurns, Greeted
  <2>3. m.sealed = TRUE \/ m.k \in {"connect", "disconnect", "auth"}
    BY <1>1 DEF UpMessage
  <2> QED
    BY <2>1, <2>2, <2>3 DEF Garbled
<1>10. CASE \E g, h \in Gateways : Begins(m, g, h)
  <2>1. PICK g \in Gateways, h \in Gateways : Begins(m, g, h)
    BY <1>10
  <2>2. m.k = "auth" /\ m.s = cur /\ cur # 0 /\ sess[cur].state = "hello" /\ sess[cur].tries = 0
    <3>1. m.sealed = TRUE \/ m.k \in {"connect", "disconnect", "auth"}
      BY <1>1 DEF UpMessage
    <3>2. m.k = "auth"
      BY <1>1, <1>3, <2>1, <3>1 DEF Turns, UpTurns, Ready, Begins
    <3> QED
      BY <1>1, <1>3, <3>2 DEF Turns, UpTurns, Greeted
  <2>3. g.cur = cur /\ g.sess = sess /\ g.down = down /\ g.blocked = blocked
    BY <2>1, <2>2 DEF Begins
  <2>4. sess' = h.sess /\ cur' = h.cur /\ down' = h.down /\ blocked' = h.blocked /\ Others(sess, sess', cur)
    BY <2>1, <2>3 DEF Begins
  <2>5. ~Refused(g, h, cur, m)
    BY <2>2, <2>3, BleAssumption DEF Refused
  <2>6. cur \in 1..Len(sess) /\ sess[cur] \in SessionType
    BY <1>2, <2>2
  <2>7. /\ phone.on = TRUE => phone.key = 0
        /\ \A n \in 1..Len(down) : down[n].k \notin {"hello", "authOk"}
        /\ \A n \in 1..Len(up') :
             up'[n].k = "disconnect" /\ n = Len(up') /\ phone.on = FALSE /\ up'[n].sealed # TRUE
    <3>1. phone.on = TRUE => phone.key = 0
      BY <2>2 DEF Turns, Present
    <3>2. \A n \in 1..Len(down) : down[n].k \notin {"hello", "authOk"}
      BY <1>1, <1>2, <2>2 DEF Turns, DownTurns, Ready
    <3>3. ASSUME NEW n \in 1..Len(up')
          PROVE  up'[n].k = "disconnect" /\ n = Len(up') /\ phone.on = FALSE /\ up'[n].sealed # TRUE
      <4>1. up'[n] = up[n + 1] /\ n + 1 \in 1..Len(up) /\ up[n + 1] \in UpMessage
        BY <1>2, <1>3
      <4>2. up[n + 1].sealed # TRUE
        BY <2>2, <4>1 DEF Turns, UpTurns, Ready
      <4>3. up[n + 1].k = "disconnect"
        BY <1>4, <4>1, <4>2 DEF UpMessage
      <4>4. n + 1 = Len(up) /\ phone.on = FALSE
        BY <4>1, <4>3 DEF Turns, UpTurns
      <4>5. n = Len(up')
        BY <1>2, <1>3, <4>4
      <4>6. up'[n].k = "disconnect" /\ up'[n].sealed # TRUE
        BY <4>1, <4>2, <4>3
      <4> QED
        BY <4>4, <4>5, <4>6
    <3> QED
      BY <3>1, <3>2, <3>3
  <2>8. UpTurns'
    BY <1>1, <2>7 DEF UpTurns
  <2>9. ASSUME cur' = cur, blocked' = blocked, phone.on = FALSE => down' = down, DownTurns', Timers' PROVE Turns'
    <3>1. Absent'
      <4>1. m.k # "disconnect"
        BY <2>2
      <4>2. ASSUME phone.on = FALSE PROVE Len(up') > 0 /\ up'[Len(up')].k = "disconnect"
        BY <1>1, <1>2, <1>3, <2>7, <4>1, <4>2 DEF Turns, Absent
      <4> QED
        BY <1>1, <2>9, <4>2 DEF Turns, Absent
    <3>2. Present'
      BY <1>1, <2>7 DEF Present
    <3> QED
      BY <1>1, <1>2, <2>8, <2>9, <3>1, <3>2 DEF Turns
  <2>10. ASSUME sess'[cur].timer = TRUE => sess[cur].timer = TRUE, cur' = cur PROVE Timers'
    BY <1>2, <2>4, <2>10 DEF Turns, Timers, Others
  <2>11. CASE Failed(g, h, cur, m)
    <3>1. sess'[cur] = [sess[cur] EXCEPT !.tries = sess[cur].tries + 1] /\ cur' = cur /\ blocked' = blocked
          /\ down' = Put(down, cur, FailMessage(cur))
      BY <2>3, <2>4, <2>11 DEF Failed
    <3>2. sess'[cur].timer = sess[cur].timer
      BY <2>6, <3>1 DEF SessionType
    <3>3. Plain("authFail", cur) \in DownMessage /\ Plain("authFail", cur).k = "authFail"
      BY <1>2, PlainIs
    <3>4. /\ \A n \in 1..Len(down') : down'[n].k \notin {"hello", "authOk"}
          /\ phone.on = FALSE => down' = down
      BY <1>2, <2>7, <3>1, <3>3, PutQuiet DEF FailMessage
    <3>5. DownTurns'
      BY <3>4 DEF DownTurns
    <3>6. Timers'
      BY <2>10, <3>1, <3>2
    <3> QED
      BY <2>9, <3>1, <3>4, <3>5, <3>6
  <2>12. CASE Opens2(g, h, cur, m)
    <3>1. /\ sess'[cur] \in {OpenPending(sess[cur]), OpenFull(sess[cur])} /\ cur' = cur /\ blocked' = blocked
      BY <2>3, <2>4, <2>12 DEF Opens2
    <3>2. sess'[cur].timer = FALSE /\ sess'[cur].state = "open"
      BY <2>6, <3>1 DEF SessionType, OpenPending, OpenFull
    <3> DEFINE ok == Plain("authOk", cur)
               f == Sealed("full", cur, sess[cur].seq + 1, latest)
    <3>3. sess[cur].seq + 1 \in Nat
      BY <2>6 DEF SessionType
    <3>13. cur \in Nat /\ latest \in Nat
      BY <1>2
    <3>14. ok \in DownMessage /\ ok.k = "authOk" /\ ok.s = cur
      BY <3>13, PlainIs
    <3>15. f \in DownMessage
      BY <3>3, <3>13, SealedIs
    <3>16. f.k = "full"
      BY DEF Sealed
    <3>4. ok \in DownMessage /\ ok.k = "authOk" /\ ok.s = cur /\ f \in DownMessage /\ f.k = "full"
      BY <3>14, <3>15, <3>16
    <3>5. down' = Put(down, cur, ok) \/ down' = Put(Put(down, cur, ok), cur, f)
      BY <2>3, <2>4, <2>12 DEF Opens2
    <3> HIDE DEF ok, f
    <3> DEFINE d == Put(down, cur, ok)
    <3>6. /\ d \in Seq(DownMessage) /\ \A n \in 1..Len(d) : (n \in 1..Len(down) /\ d[n] = down[n]) \/ d[n] = ok
          /\ phone.on = FALSE => d = down
      BY <1>2, <3>4, PutIs
    <3>7. \A n \in 1..Len(d) : d[n].k # "hello" /\ (d[n].k = "authOk" => d[n].s = cur)
      BY <2>7, <3>4, <3>6
    <3> HIDE DEF d
    <3> DEFINE r == Put(d, cur, f)
    <3>8. /\ \A n \in 1..Len(r) : (n \in 1..Len(d) /\ r[n] = d[n]) \/ r[n] = f
          /\ phone.on = FALSE => r = d
      BY <3>4, <3>6, PutIs
    <3>9. \A n \in 1..Len(r) : r[n].k # "hello" /\ (r[n].k = "authOk" => r[n].s = cur)
      BY <3>4, <3>7, <3>8
    <3>10. down' = d \/ down' = r
      BY <3>5 DEF d
    <3> HIDE DEF r
    <3>11. DownTurns'
      BY <2>2, <3>1, <3>2, <3>7, <3>9, <3>10 DEF DownTurns, Ready
    <3>12. Timers'
      BY <2>10, <3>1, <3>2
    <3> QED
      BY <2>9, <3>1, <3>6, <3>8, <3>10, <3>11, <3>12
  <2> QED
    BY <2>1, <2>3, <2>5, <2>11, <2>12 DEF Begins
<1> QED
  BY <1>1, <1>5, <1>6, <1>7, <1>8, <1>9, <1>10

LEMMA TurnsLeft ==
    ASSUME TypeInv, Turns, phone.on = TRUE, UNCHANGED <<linked, blocked, sess, cur>>,
           phone' = NoPhone, ToGateway(Plain("disconnect", 0)), down' = <<>>
    PROVE  Turns'
<1> DEFINE x == Plain("disconnect", 0)
<1>1. cur \in 0..Len(sess) /\ up \in Seq(UpMessage) /\ linked = TRUE /\ blocked = FALSE
  BY DEF TypeInv, Turns
<1>2. x.k = "disconnect" /\ x.sealed = FALSE
  BY DEF Plain
<1>3. up' = Append(up, x)
  BY <1>1 DEF ToGateway
<1> HIDE DEF x
<1>4. /\ Len(up') = Len(up) + 1 /\ Len(up) + 1 > 0 /\ up'[Len(up) + 1] = x /\ \A n \in 1..Len(up) : up'[n] = up[n]
  BY <1>1, <1>3
<1>5. phone'.on = FALSE /\ phone'.key = 0
  BY DEF NoPhone
<1>6. Absent' /\ Present' /\ DownTurns'
  BY <1>1, <1>2, <1>4, <1>5 DEF Absent, Present, DownTurns
<1>7. UpTurns'
  <2>1. ASSUME NEW n \in 1..Len(up')
        PROVE  /\ up'[n].k = "connect" => n = 1 /\ cur = 0
               /\ up'[n].k = "disconnect" => n = Len(up')
               /\ up'[n].k = "auth" => n = 1 /\ cur # 0 /\ up'[n].s = cur /\ sess[cur].state = "hello" /\ sess[cur].tries = 0
               /\ up'[n].sealed = TRUE => cur # 0 /\ up'[n].s = cur /\ sess[cur].state = "open"
    <3>1. CASE n \in 1..Len(up)
      BY <1>4, <3>1 DEF Turns, UpTurns, Greeted, Ready
    <3>2. CASE n = Len(up) + 1
      BY <1>2, <1>4, <3>2
    <3>3. n \in 1..Len(up) \/ n = Len(up) + 1
      BY <1>1, <1>4
    <3> QED
      BY <3>1, <3>2, <3>3
  <2> QED
    BY <1>5, <2>1 DEF UpTurns, Greeted, Ready
<1>8. Timers'
  BY DEF Turns, Timers
<1> QED
  BY <1>1, <1>6, <1>7, <1>8 DEF Turns

LEMMA TurnsPhone ==
    ASSUME TypeInv, Turns, PhoneReceives
    PROVE  Turns'
<1> DEFINE m == Head(down)
<1>1. /\ phone.on = TRUE /\ Len(down) > 0 /\ UNCHANGED <<linked, blocked, sess, cur>>
      /\ m \in DownMessage /\ m = down[1]
      /\ Greets(m) \/ Readies(m) \/ Follows(m) \/ Resumes(m) \/ Learns(m) \/ Baffled(m) \/ Quits
  BY PhoneReceivesIs DEF gateway
<1> HIDE DEF m
<1>2. /\ sess \in Seq(SessionType) /\ cur \in 0..Len(sess) /\ cur \in Nat /\ up \in Seq(UpMessage) /\ down \in Seq(DownMessage)
      /\ phone \in [on : BOOLEAN, parts : Nat, key : Nat, bad : Nat, seq : Nat, frame : Nat]
      /\ linked = TRUE /\ blocked = FALSE
  BY DEF TypeInv, Turns
<1>3. /\ Tail(down) \in Seq(DownMessage) /\ 1 \in 1..Len(down)
      /\ \A n \in 1..Len(Tail(down)) : Tail(down)[n] = down[n + 1] /\ n + 1 \in 1..Len(down) /\ n + 1 # 1
  BY <1>1, <1>2
<1>4. Timers'
  BY <1>1 DEF Turns, Timers
<1>5. \A n \in 1..Len(up) : up[n].k \notin {"connect", "disconnect"}
  BY <1>1, <1>2 DEF Turns, UpTurns
<1>6. \A n \in 1..Len(Tail(down)) :
        Tail(down)[n].k # "hello" /\ (Tail(down)[n].k = "authOk" => Ready(Tail(down)[n]))
  BY <1>3 DEF Turns, DownTurns
<1>7. ASSUME down' = Tail(down) PROVE DownTurns'
  BY <1>1, <1>6, <1>7 DEF DownTurns, Ready
<1>8. ASSUME phone'.on = TRUE PROVE Absent'
  BY <1>8 DEF Absent
<1>9. ASSUME up' = up PROVE UpTurns'
  BY <1>1, <1>5, <1>9 DEF Turns, UpTurns, Greeted, Ready
<1>10. CASE Greets(m)
  <2> DEFINE x == Plain("auth", m.s)
  <2>1. Len(up) = 0 /\ Greeted(m)
    BY <1>1, <1>3, <1>10 DEF Greets, Turns, DownTurns
  <2>2. x.k = "auth" /\ x.s = m.s /\ x.sealed = FALSE
    BY DEF Plain
  <2>3. up' = Append(up, x) /\ phone'.on = TRUE /\ phone'.key = 0 /\ down' = Tail(down)
    BY <1>1, <1>2, <1>10 DEF Greets, Written
  <2> HIDE DEF x
  <2>4. Len(up') = 1 /\ up'[1] = x
    BY <1>2, <2>1, <2>3
  <2>5. UpTurns'
    BY <1>1, <2>1, <2>2, <2>4 DEF UpTurns, Greeted
  <2>6. Present'
    BY <2>3 DEF Present
  <2> QED
    BY <1>1, <1>2, <1>4, <1>7, <1>8, <2>3, <2>5, <2>6 DEF Turns
<1>11. CASE Readies(m)
  <2>1. phone'.on = TRUE /\ phone'.key = m.s /\ up' = up /\ down' = Tail(down)
    BY <1>1, <1>2, <1>11 DEF Readies
  <2>2. m.s = cur /\ sess[cur].state = "open"
    BY <1>1, <1>3, <1>11 DEF Readies, Turns, DownTurns, Ready
  <2>3. Present'
    BY <1>1, <2>1, <2>2 DEF Present
  <2> QED
    BY <1>1, <1>2, <1>4, <1>7, <1>8, <1>9, <2>1, <2>3 DEF Turns
<1>12. ASSUME phone'.on = TRUE, phone'.key = phone.key, phone.key # 0, down' = Tail(down),
              up' = up \/ up' = Append(up, Sealed("resync", phone.key, 0, 0))
       PROVE  Turns'
  <2>1. phone.key = cur /\ sess[cur].state = "open"
    BY <1>1, <1>12 DEF Turns, Present
  <2>2. Present'
    BY <1>1, <1>12, <2>1 DEF Present
  <2>3. CASE up' = up
    BY <1>1, <1>2, <1>4, <1>7, <1>8, <1>9, <1>12, <2>2, <2>3 DEF Turns
  <2>4. CASE up' = Append(up, Sealed("resync", phone.key, 0, 0))
    <3> DEFINE x == Sealed("resync", phone.key, 0, 0)
    <3>1. x.k = "resync" /\ x.s = phone.key /\ x.sealed = TRUE
      BY DEF Sealed
    <3> HIDE DEF x
    <3>2. /\ Len(up') = Len(up) + 1 /\ up'[Len(up) + 1] = x /\ \A n \in 1..Len(up) : up'[n] = up[n]
      BY <1>2, <2>4 DEF x
    <3>3. UpTurns'
      <4>1. ASSUME NEW n \in 1..Len(up')
            PROVE  /\ up'[n].k \notin {"connect", "disconnect"}
                   /\ up'[n].k = "auth" => n = 1 /\ cur # 0 /\ up'[n].s = cur /\ sess[cur].state = "hello" /\ sess[cur].tries = 0
                   /\ up'[n].sealed = TRUE => cur # 0 /\ up'[n].s = cur /\ sess[cur].state = "open"
        <5>1. CASE n \in 1..Len(up)
          BY <1>5, <3>2, <5>1 DEF Turns, UpTurns, Greeted, Ready
        <5>2. CASE n = Len(up) + 1
          BY <1>12, <2>1, <3>1, <3>2, <5>2
        <5>3. n \in 1..Len(up) \/ n = Len(up) + 1
          BY <1>2, <3>2
        <5> QED
          BY <5>1, <5>2, <5>3
      <4> QED
        BY <1>1, <4>1 DEF UpTurns, Greeted, Ready
    <3> QED
      BY <1>1, <1>2, <1>4, <1>7, <1>8, <1>12, <2>2, <3>3 DEF Turns
  <2> QED
    BY <1>12, <2>3, <2>4
<1>13. CASE Follows(m)
  <2>1. phone'.on = TRUE /\ phone'.key = phone.key
    BY <1>1, <1>2, <1>13 DEF Follows
  <2> QED
    BY <1>12, <1>13, <2>1 DEF Follows
<1>14. CASE Resumes(m)
  <2>1. phone'.on = TRUE /\ phone'.key = phone.key
    BY <1>1, <1>2, <1>14 DEF Resumes
  <2>2. up' = up \/ up' = Append(up, Sealed("resync", phone.key, 0, 0))
    BY <1>14 DEF Resumes, Written
  <2>3. phone.key # 0 /\ down' = Tail(down)
    BY <1>14 DEF Resumes
  <2> QED
    BY <1>12, <2>1, <2>2, <2>3
<1>15. CASE Learns(m)
  <2>1. phone' = phone /\ up' = up /\ down' = Tail(down) /\ phone.key # 0
    BY <1>15 DEF Learns
  <2> QED
    BY <1>1, <1>12, <2>1
<1>16. CASE Baffled(m)
  <2>1. phone'.on = TRUE /\ phone'.key = phone.key
    BY <1>1, <1>2, <1>16 DEF Baffled
  <2> QED
    BY <1>12, <1>16, <2>1 DEF Baffled
<1>17. CASE Quits
  BY <1>1, <1>17, TurnsLeft DEF Quits
<1> QED
  BY <1>1, <1>10, <1>11, <1>13, <1>14, <1>15, <1>16, <1>17 DEF Quits

LEMMA TurnsFrame ==
    ASSUME TypeInv, Turns, Frame
    PROVE  Turns'
<1>1. Patches /\ UNCHANGED <<linked, up, phone>>
  BY FrameIs
<1>2. /\ cur \in 0..Len(sess) /\ cur \in Nat /\ sess \in Seq(SessionType) /\ latest + 1 \in Nat /\ down \in Seq(DownMessage)
  BY DEF TypeInv
<1>3. CASE Sendable
  <2> DEFINE x == Sealed("patch", cur, sess[cur].seq + 1, latest + 1)
  <2>1. cur \in 1..Len(sess) /\ sess[cur] \in SessionType
    BY <1>2, <1>3 DEF Sendable
  <2>2. x \in DownMessage
    BY <1>3, PatchIs
  <2>4. x.k = "patch"
    BY DEF Sealed
  <2>5. down' = Put(down, cur, x)
    BY <1>1, <1>3 DEF Patches
  <2> HIDE DEF x
  <2>6. /\ \A n \in 1..Len(down') : (n \in 1..Len(down) /\ down'[n] = down[n]) \/ down'[n].k \notin {"hello", "authOk"}
        /\ phone.on = FALSE \/ cur = 0 => down' = down
    BY <1>2, <2>2, <2>4, <2>5, PutQuiet
  <2>7. /\ Len(sess') = Len(sess)
        /\ \A s \in 1..Len(sess) :
             sess'[s].state = sess[s].state /\ sess'[s].timer = sess[s].timer /\ sess'[s].tries = sess[s].tries
    <3>1. Others(sess, sess', cur) /\ sess'[cur] = [sess[cur] EXCEPT !.seq = sess[cur].seq + 1]
      BY <1>1, <1>3 DEF Patches
    <3>2. sess'[cur].state = sess[cur].state /\ sess'[cur].timer = sess[cur].timer /\ sess'[cur].tries = sess[cur].tries
      BY <2>1, <3>1 DEF SessionType
    <3>3. \A s \in 1..Len(sess) : s = cur \/ sess'[s] = sess[s]
      BY <3>1 DEF Others
    <3> QED
      BY <3>1, <3>2, <3>3 DEF Others
  <2>8. Quiet
    BY <1>1, <1>3, <2>6, <2>7 DEF Quiet, Patches
  <2> QED
    BY <2>8, TurnsQuiet
<1>4. CASE ~Sendable
  <2>1. Quiet
    BY <1>1, <1>4 DEF Quiet, Patches, Stays
  <2> QED
    BY <2>1, TurnsQuiet
<1> QED
  BY <1>3, <1>4

LEMMA TurnsSettles ==
    ASSUME TypeInv, Turns, NEW e \in DOMAIN entry, NEW answer \in {"ok", "failed", "late"}, Settles(e, answer)
    PROVE  Turns'
<1>1. Settling(e, answer) /\ UNCHANGED <<linked, up, phone>>
  BY SettlesIs
<1>2. /\ cur \in Nat /\ sess \in Seq(SessionType) /\ latest \in Nat /\ down \in Seq(DownMessage)
      /\ entry \in Seq(EntryType) /\ entry[e].by \in 1..Len(sess) /\ entry[e].by \in Nat /\ entry[e] \in EntryType
      /\ sess[entry[e].by] \in SessionType
  <2>1. cur \in Nat /\ latest \in Nat /\ down \in Seq(DownMessage)
    BY DEF TypeInv
  <2> QED
    BY <2>1, EntryFacts
<1> DEFINE x == Response(cur, entry[e].i, answer)
           f == Sealed("full", entry[e].by, sess[entry[e].by].seq + 1, latest)
           d == ToldOf(e, answer)
<1>3. entry[e].i \in CallIds /\ answer \in Answers /\ sess[entry[e].by].seq + 1 \in Nat
  <2>1. entry[e].i \in CallIds
    BY <1>2 DEF EntryType
  <2>2. sess[entry[e].by].seq \in Nat
    BY <1>2 DEF SessionType
  <2>3. sess[entry[e].by].seq + 1 \in Nat
    BY <2>2
  <2>4. answer \in Answers
    BY DEF Answers
  <2> QED
    BY <2>1, <2>3, <2>4
<1>4. x \in DownMessage
  BY <1>2, <1>3, ResponseIs
<1>5. f \in DownMessage
  BY <1>2, <1>3, SealedIs
<1>6. x.k = "response" /\ f.k = "full"
  BY DEF Response, Sealed
<1>7. d = down \/ d = Put(down, cur, x)
  BY DEF ToldOf
<1>8. down' = d \/ down' = Put(d, cur, f)
  BY <1>1 DEF Settling
<1> HIDE DEF x, f, d
<1>9. /\ \A n \in 1..Len(d) : (n \in 1..Len(down) /\ d[n] = down[n]) \/ d[n].k \notin {"hello", "authOk"}
      /\ phone.on = FALSE \/ cur = 0 => d = down
      /\ d \in Seq(DownMessage)
  <2>1. Put(down, cur, x) \in Seq(DownMessage)
    BY <1>2, <1>4, PutIs
  <2> QED
    BY <1>2, <1>4, <1>6, <1>7, <2>1, PutQuiet
<1>10. /\ \A n \in 1..Len(down') : (n \in 1..Len(down) /\ down'[n] = down[n]) \/ down'[n].k \notin {"hello", "authOk"}
       /\ phone.on = FALSE \/ cur = 0 => down' = down
  BY <1>5, <1>6, <1>8, <1>9, PutQuiet
<1>11. Quiet
  BY <1>1, <1>10 DEF Quiet, Settling
<1> QED
  BY <1>11, TurnsQuiet

LEMMA TurnsStep ==
    ASSUME TypeInv, TurnsInv, [Next]_vars
    PROVE  TurnsInv'
<1> SUFFICES ASSUME Clean' PROVE Turns'
  BY DEF TurnsInv
<1>1. Clean /\ Turns
  BY CleanStays DEF TurnsInv
<1>2. /\ cur \in 0..Len(sess) /\ sess \in Seq(SessionType) /\ up \in Seq(UpMessage) /\ linked = TRUE /\ blocked = FALSE
      /\ phone \in [on : BOOLEAN, parts : Nat, key : Nat, bad : Nat, seq : Nat, frame : Nat]
  BY <1>1 DEF TypeInv, Turns
<1>3. CASE FromBridge
  BY <1>1, <1>3, TurnsBridge
<1>4. CASE Frame
  BY <1>1, <1>4, TurnsFrame
<1>5. CASE PhoneReceives
  BY <1>1, <1>5, TurnsPhone
<1>6. ~Revoke /\ ~LinkDrops /\ ~Overflow /\ ~LinkReturns /\ ~BlockEnds
  BY <1>2 DEF Clean, Revoke, LinkDrops, Overflow, LinkReturns, BlockEnds
<1>7. ASSUME NEW s \in DOMAIN sess, AuthTimer(s) PROVE FALSE
  <2>1. sess[s].timer = TRUE /\ amiss' = amiss \cup {IF s = cur THEN "slow" ELSE "stale"}
    BY <1>7, AuthTimerIs DEF Times
  <2>2. s = cur
    BY <1>1, <1>2, <2>1 DEF Turns, Timers
  <2> QED
    BY <2>1, <2>2 DEF Clean
<1>8. ASSUME UNCHANGED <<linked, blocked, cur, phone, sess, down, up>> PROVE Turns'
  <2>1. Quiet
    BY <1>8 DEF Quiet, TypeInv
  <2> QED
    BY <1>1, <2>1, TurnsQuiet
<1>9. CASE Expire \/ (\E e \in DOMAIN entry : Runs(e)) \/ UNCHANGED vars
  BY <1>8, <1>9 DEF Expire, Runs, vars, gateway
<1>10. ASSUME NEW e \in DOMAIN entry, NEW a \in {"ok", "failed", "late"}, Settles(e, a) PROVE Turns'
  BY <1>1, <1>10, TurnsSettles
<1>11. CASE PhoneComes
  <2> DEFINE x == Plain("connect", 0)
  <2>1. x.k = "connect" /\ x.sealed = FALSE
    BY DEF Plain
  <2>2. phone.on = FALSE /\ Len(up) = 0 /\ UNCHANGED <<linked, blocked, sess, cur>> /\ up' = Append(up, x) /\ down' = <<>>
    BY <1>2, <1>11 DEF PhoneComes, gateway, ToGateway
  <2>3. phone'.on = TRUE /\ phone'.key = 0
    BY <1>11 DEF PhoneComes, NoPhone
  <2> HIDE DEF x
  <2>4. cur = 0
    BY <1>1, <2>2 DEF Turns, Absent
  <2>5. Len(up') = 1 /\ up'[1] = x
    BY <1>2, <2>2
  <2>6. UpTurns'
    BY <2>1, <2>2, <2>3, <2>4, <2>5 DEF UpTurns
  <2>7. Timers'
    BY <1>1, <2>2 DEF Turns, Timers
  <2> QED
    BY <1>2, <2>2, <2>3, <2>6, <2>7 DEF Turns, Absent, Present, DownTurns
<1>12. CASE PhoneGoes
  BY <1>1, <1>2, <1>12, TurnsLeft DEF PhoneGoes, Leaves, gateway
<1>13. ASSUME NEW i \in CallIds, PhoneCalls(i) PROVE Turns'
  <2> DEFINE x == Sealed("request", phone.key, i, 0)
  <2>1. x.k = "request" /\ x.s = phone.key /\ x.sealed = TRUE
    BY DEF Sealed
  <2>2. phone.key # 0 /\ UNCHANGED <<linked, blocked, sess, cur, down, phone>> /\ up' = Append(up, x)
    BY <1>2, <1>13 DEF PhoneCalls, gateway, Written
  <2> HIDE DEF x
  <2>3. phone.on = TRUE /\ phone.key = cur /\ sess[cur].state = "open"
    BY <1>1, <1>2, <2>2 DEF Turns, Absent, Present
  <2>4. /\ Len(up') = Len(up) + 1 /\ up'[Len(up) + 1] = x /\ \A n \in 1..Len(up) : up'[n] = up[n]
    BY <1>2, <2>2
  <2>5. UpTurns'
    <3>1. ASSUME NEW n \in 1..Len(up')
          PROVE  /\ up'[n].k \notin {"connect", "disconnect"}
                 /\ up'[n].k = "auth" => n = 1 /\ cur # 0 /\ up'[n].s = cur /\ sess[cur].state = "hello" /\ sess[cur].tries = 0
                 /\ up'[n].sealed = TRUE => cur # 0 /\ up'[n].s = cur /\ sess[cur].state = "open"
      <4>1. CASE n \in 1..Len(up)
        BY <1>1, <2>2, <2>3, <2>4, <4>1 DEF Turns, UpTurns, Greeted, Ready
      <4>2. CASE n = Len(up) + 1
        BY <2>1, <2>2, <2>3, <2>4, <4>2
      <4>3. n \in 1..Len(up) \/ n = Len(up) + 1
        BY <1>2, <2>4
      <4> QED
        BY <4>1, <4>2, <4>3
    <3> QED
      BY <2>2, <3>1 DEF UpTurns, Greeted, Ready
  <2>6. Absent' /\ Present' /\ Timers'
    BY <1>1, <2>2, <2>3 DEF Turns, Absent, Present, Timers
  <2>7. DownTurns'
    BY <1>1, <2>2, <2>3 DEF Turns, DownTurns, Greeted, Ready
  <2> QED
    BY <1>2, <2>2, <2>5, <2>6, <2>7 DEF Turns
<1> QED
  BY <1>3, <1>4, <1>5, <1>6, <1>7, <1>9, <1>10, <1>11, <1>12, <1>13 DEF Next

(* The bridge refuses the phone's writes only after its session was slow to authenticate, a
   link or an outbox was cut, or its pairing ended. *)
THEOREM RefusedOnlyForCause == Spec => []RefusedForCause
<1>1. Init => TypeInv /\ TurnsInv
  <2> SUFFICES ASSUME Init PROVE TypeInv /\ Turns
    BY DEF TurnsInv
  <2>1. sess = <<>> /\ up = <<>> /\ down = <<>> /\ cur = 0 /\ phone = NoPhone /\ linked = TRUE /\ blocked = FALSE
    BY DEF Init
  <2>2. NoPhone.on = FALSE /\ NoPhone.key = 0
    BY DEF NoPhone
  <2> QED
    BY <2>1, <2>2, TypeInit DEF Turns, Timers, Absent, Present, UpTurns, DownTurns
<1>2. TypeInv /\ TurnsInv /\ [Next]_vars => TypeInv' /\ TurnsInv'
  BY TypeStep, TurnsStep
<1>3. TypeInv /\ TurnsInv => RefusedForCause
  <2>1. CASE Clean
    BY <2>1 DEF TurnsInv, Turns, RefusedForCause
  <2>2. CASE ~Clean
    BY <2>2 DEF Clean, RefusedForCause
  <2> QED
    BY <2>1, <2>2
<1> QED
  BY <1>1, <1>2, <1>3, PTL DEF Spec
-----------------------------------------------------------------------------
(* Sessions that are open stay open, and only a request and its settling are answered *)

SessionsGrow ==
    Len(sess') >= Len(sess) /\ \A s \in 1..Len(sess) : sess[s].state = "open" => sess'[s].state = "open"
OldTells(d) == \A n \in 1..Len(d) : d[n].k = "response" => \E m \in 1..Len(down) : down[m] = d[n]

LEMMA PutOld ==
    ASSUME NEW d \in Seq(DownMessage), NEW c, NEW m \in DownMessage, m.k # "response", OldTells(d)
    PROVE  OldTells(Put(d, c, m))
<1> DEFINE r == Put(d, c, m)
<1>1. /\ \A n \in 1..Len(d) : r[n] = d[n]
      /\ \A n \in 1..Len(r) : n \in 1..Len(d) \/ (n = Len(d) + 1 /\ r[n] = m)
  BY PutIs
<1> HIDE DEF r
<1>2. OldTells(r)
  BY <1>1 DEF OldTells
<1> QED
  BY <1>2 DEF r

LEMMA DownOld ==
    ASSUME TypeInv
    PROVE  OldTells(down) /\ (Len(down) > 0 => OldTells(Tail(down))) /\ OldTells(<<>>)
<1>1. down \in Seq(DownMessage)
  BY DEF TypeInv
<1>2. OldTells(down) /\ OldTells(<<>>)
  BY <1>1 DEF OldTells
<1>3. ASSUME Len(down) > 0 PROVE OldTells(Tail(down))
  <2>1. \A n \in 1..Len(Tail(down)) : Tail(down)[n] = down[n + 1] /\ n + 1 \in 1..Len(down)
    BY <1>1, <1>3
  <2> QED
    BY <2>1 DEF OldTells
<1> QED
  BY <1>2, <1>3

LEMMA GrowIs ==
    ASSUME sess \in Seq(SessionType),
           \/ sess' = sess
           \/ \E s \in 1..Len(sess) : Others(sess, sess', s) /\ (sess[s].state = "open" => sess'[s].state = "open")
    PROVE  SessionsGrow
<1>1. CASE sess' = sess
  BY <1>1 DEF SessionsGrow
<1>2. ASSUME NEW s \in 1..Len(sess), Others(sess, sess', s), sess[s].state = "open" => sess'[s].state = "open"
      PROVE  SessionsGrow
  <2>1. Len(sess') = Len(sess) /\ \A t \in 1..Len(sess) : t # s => sess'[t] = sess[t]
    BY <1>2 DEF Others
  <2>2. ASSUME NEW t \in 1..Len(sess), sess[t].state = "open" PROVE sess'[t].state = "open"
    BY <1>2, <2>1, <2>2
  <2> QED
    BY <2>1, <2>2 DEF SessionsGrow
<1> QED
  BY <1>1, <1>2

LEMMA BridgeCalm ==
    ASSUME TypeInv, FromBridge, ~Asked(Head(up))
    PROVE  SessionsGrow /\ OldTells(down') /\ UNCHANGED <<entry, table, amiss, call>>
<1> DEFINE m == Head(up)
<1>1. /\ Connects(m) \/ Ends(m) \/ Resyncs(m) \/ Garbled(m) \/ \E g, h \in Gateways : Begins(m, g, h)
      /\ call' = call
  BY FromBridgeIs
<1> HIDE DEF m
<1>2. /\ sess \in Seq(SessionType) /\ cur \in 0..Len(sess) /\ cur \in Nat /\ down \in Seq(DownMessage) /\ latest \in Nat
      /\ Len(sess) + 1 \in Nat
  BY DEF TypeInv
<1>3. UNCHANGED <<entry, table, amiss>>
  BY <1>1 DEF Connects, Ends, Resyncs, Garbled, Begins, Same
<1>4. OldTells(down)
  BY DownOld
<1>5. CASE Stays
  BY <1>2, <1>3, <1>1, <1>4, <1>5 DEF Stays, SessionsGrow
<1>6. CASE Connects(m) /\ cur = 0
  <2>1. sess' = Append(sess, NewSession) /\ down' = Put(down, Len(sess) + 1, Plain("hello", Len(sess) + 1))
    BY <1>6 DEF Connects
  <2>2. Plain("hello", Len(sess) + 1) \in DownMessage
    BY <1>2, PlainIs
  <2>3. Plain("hello", Len(sess) + 1).k = "hello"
    BY DEF Plain
  <2>4. OldTells(down')
    BY <1>2, <1>4, <2>1, <2>2, <2>3, PutOld
  <2>5. SessionsGrow
    BY <1>2, <2>1 DEF SessionsGrow
  <2> QED
    BY <1>1, <1>3, <2>4, <2>5
<1>7. CASE Ends(m)
  <2>1. SessionsGrow
    <3>1. CASE cur = 0
      <4>1. sess' = sess
        BY <1>7, <3>1 DEF Ends
      <4>2. Len(sess) >= Len(sess)
        BY <1>2
      <4> QED
        BY <4>1, <4>2 DEF SessionsGrow
    <3>2. CASE cur # 0
      <4>1. sess[cur] \in SessionType /\ Others(sess, sess', cur) /\ sess'[cur] = [sess[cur] EXCEPT !.timer = FALSE]
        BY <1>2, <1>7, <3>2 DEF Ends, Stopped
      <4>2. sess'[cur].state = sess[cur].state
        BY <4>1 DEF SessionType
      <4> QED
        <5>1. cur \in 1..Len(sess)
          BY <1>2, <3>2
        <5> QED
          BY <1>2, <4>1, <4>2, <5>1, GrowIs
    <3> QED
      BY <3>1, <3>2
  <2> QED
    BY <1>1, <1>3, <1>4, <1>7, <2>1 DEF Ends
<1>8. CASE Full(cur) /\ cur # 0
  <2>1. sess[cur] \in SessionType
    BY <1>2, <1>8
  <2>2. sess[cur].seq + 1 \in Nat
    BY <2>1 DEF SessionType
  <2>3. Sealed("full", cur, sess[cur].seq + 1, latest) \in DownMessage
    BY <1>2, <2>2, SealedIs
  <2>4. Sealed("full", cur, sess[cur].seq + 1, latest).k = "full"
    BY DEF Sealed
  <2>5. OldTells(down')
    BY <1>2, <1>4, <1>8, <2>3, <2>4, PutOld DEF Full
  <2>6. sess'[cur].state = sess[cur].state
    BY <1>8, <2>1 DEF Full, SessionType
  <2>7. SessionsGrow
    <3>1. cur \in 1..Len(sess) /\ Others(sess, sess', cur)
      BY <1>2, <1>8 DEF Full
    <3> QED
      BY <1>2, <2>6, <3>1, GrowIs
  <2> QED
    BY <1>1, <1>3, <2>5, <2>7
<1>9. CASE Garbled(m)
  <2>1. SessionsGrow
    BY <1>2, <1>9, GrowIs DEF Garbled
  <2>2. Plain("authFail", cur) \in DownMessage
    BY <1>2, PlainIs
  <2>3. Plain("authFail", cur).k = "authFail"
    BY DEF Plain
  <2>4. OldTells(Put(down, cur, FailMessage(cur)))
    BY <1>2, <1>4, <2>2, <2>3, PutOld DEF FailMessage
  <2> QED
    BY <1>1, <1>3, <1>4, <1>9, <2>1, <2>4 DEF Garbled
<1>10. CASE \E g, h \in Gateways : Begins(m, g, h)
  <2>1. PICK g \in Gateways, h \in Gateways : Begins(m, g, h)
    BY <1>10
  <2>2. sess' = h.sess /\ down' = h.down /\ Others(g.sess, h.sess, g.cur)
    BY <2>1 DEF Begins
  <2>3. /\ g.cur \in 1..Len(g.sess) /\ g.cur \in Nat /\ g.sess[g.cur] \in SessionType /\ g.down \in Seq(DownMessage)
        /\ Len(g.sess) >= Len(sess) /\ \A s \in 1..Len(sess) : g.sess[s] = sess[s]
    <3>1. g.cur \in 1..Len(g.sess) /\ Len(g.sess) >= Len(sess) /\ \A s \in 1..Len(sess) : g.sess[s] = sess[s]
      BY <1>2, <2>1 DEF Begins
    <3>2. g.sess \in Seq(SessionType) /\ g.down \in Seq(DownMessage)
      BY DEF Gateways
    <3>3. Len(g.sess) \in Nat /\ g.sess[g.cur] \in SessionType /\ g.cur \in Nat
      BY <3>1, <3>2
    <3> QED
      BY <3>1, <3>2, <3>3
  <2>4. OldTells(g.down)
    <3>1. CASE cur # 0
      BY <1>4, <2>1, <3>1 DEF Begins
    <3>2. CASE cur = 0
      <4>1. g.down = Put(down, Len(sess) + 1, Plain("hello", Len(sess) + 1))
        BY <2>1, <3>2 DEF Begins
      <4>2. Plain("hello", Len(sess) + 1) \in DownMessage
        BY <1>2, PlainIs
      <4>3. Plain("hello", Len(sess) + 1).k = "hello"
        BY DEF Plain
      <4> QED
        BY <1>2, <1>4, <4>1, <4>2, <4>3, PutOld
    <3> QED
      BY <3>1, <3>2
  <2> DEFINE no == Plain("authFail", g.cur)
             ok == Plain("authOk", g.cur)
             f == Sealed("full", g.cur, g.sess[g.cur].seq + 1, latest)
  <2>5. no \in DownMessage /\ ok \in DownMessage
    BY <2>3, PlainIs
  <2>6. g.sess[g.cur].seq + 1 \in Nat
    BY <2>3 DEF SessionType
  <2>7. f \in DownMessage
    BY <1>2, <2>3, <2>6, SealedIs
  <2>8. no.k = "authFail" /\ ok.k = "authOk" /\ f.k = "full"
    BY DEF Plain, Sealed
  <2>9. h.down \in {Put(g.down, g.cur, no), Put(g.down, g.cur, ok), Put(Put(g.down, g.cur, ok), g.cur, f)}
    BY <2>1 DEF Begins, Refused, Failed, Opens2, FailMessage
  <2> HIDE DEF no, ok, f
  <2>10. OldTells(Put(g.down, g.cur, no)) /\ OldTells(Put(g.down, g.cur, ok)) /\ Put(g.down, g.cur, ok) \in Seq(DownMessage)
    BY <2>3, <2>4, <2>5, <2>8, PutOld, PutIs
  <2>11. OldTells(Put(Put(g.down, g.cur, ok), g.cur, f))
    BY <2>7, <2>8, <2>10, PutOld
  <2>12. OldTells(down')
    BY <2>2, <2>9, <2>10, <2>11
  <2>13. g.sess[g.cur].state = "open" => h.sess[g.cur].state = "open"
    <3>1. CASE Refused(g, h, g.cur, m)
      BY <3>1 DEF Refused
    <3>2. CASE Failed(g, h, g.cur, m)
      BY <2>3, <3>2 DEF Failed, SessionType
    <3>3. CASE Opens2(g, h, g.cur, m)
      BY <2>3, <3>3 DEF Opens2, OpenFull, OpenPending, SessionType
    <3> QED
      BY <2>1, <3>1, <3>2, <3>3 DEF Begins
  <2>14. SessionsGrow
    <3>1. Len(h.sess) = Len(g.sess) /\ \A s \in 1..Len(g.sess) : s # g.cur => h.sess[s] = g.sess[s]
      BY <2>2 DEF Others
    <3>2. ASSUME NEW s \in 1..Len(sess), sess[s].state = "open" PROVE h.sess[s].state = "open"
      <4>1. s \in 1..Len(g.sess) /\ g.sess[s].state = "open"
        BY <1>2, <2>3, <3>2
      <4>2. CASE s = g.cur
        BY <2>13, <4>1, <4>2
      <4>3. CASE s # g.cur
        BY <3>1, <4>1, <4>3
      <4> QED
        BY <4>2, <4>3
    <3> QED
      BY <2>2, <2>3, <3>1, <3>2 DEF SessionsGrow
  <2> QED
    BY <1>1, <1>3, <2>12, <2>14
<1>11. Connects(m) => Stays \/ cur = 0
  BY DEF Connects
<1>12. Resyncs(m) => Stays \/ (Full(cur) /\ cur # 0)
  <2>1. ASSUME cur # 0 PROVE sess[cur].pending \in BOOLEAN
    <3>1. sess[cur] \in SessionType
      BY <1>2, <2>1
    <3> QED
      BY <3>1 DEF SessionType
  <2> QED
    BY <2>1 DEF Resyncs
<1> QED
  BY <1>1, <1>5, <1>6, <1>7, <1>8, <1>9, <1>10, <1>11, <1>12

LEMMA Grows ==
    ASSUME TypeInv, [Next]_vars
    PROVE  SessionsGrow
<1>1. sess \in Seq(SessionType) /\ cur \in 0..Len(sess) /\ Len(sess) >= Len(sess)
  BY DEF TypeInv
<1>2. ASSUME sess' = sess PROVE SessionsGrow
  BY <1>1, <1>2 DEF SessionsGrow
<1>3. CASE FromBridge
  <2>1. CASE Asked(Head(up))
    <3>1. Head(up) \in UpMessage
      BY <1>3, FromBridgeIs
    <3>2. Head(up).k = "request" /\ cur # 0 /\ Request(cur, Head(up).a)
      BY <2>1 DEF Asked
    <3>3. Head(up).a \in CallIds
      BY <3>1, <3>2 DEF UpMessage
    <3>4. Asking(Head(up).a)
      BY <3>2, <3>3, RequestIs
    <3> QED
      BY <1>2, <3>4 DEF Asking
  <2>2. CASE ~Asked(Head(up))
    BY <1>3, <2>2, BridgeCalm
  <2> QED
    BY <2>1, <2>2
<1>4. CASE Frame
  <2>1. Patches
    BY <1>4, FrameIs
  <2>2. CASE Sendable
    <3>1. cur \in 1..Len(sess) /\ sess[cur] \in SessionType
      BY <1>1, <2>2 DEF Sendable
    <3>2. Others(sess, sess', cur) /\ sess'[cur] = [sess[cur] EXCEPT !.seq = sess[cur].seq + 1]
      BY <2>1, <2>2 DEF Patches
    <3>3. sess'[cur].state = sess[cur].state
      BY <3>1, <3>2 DEF SessionType
    <3> QED
      BY <1>1, <3>1, <3>2, <3>3, GrowIs
  <2>3. CASE ~Sendable
    BY <1>2, <2>1, <2>3 DEF Patches, Stays
  <2> QED
    BY <2>2, <2>3
<1>5. ASSUME NEW s \in 1..Len(sess), Stopped(s) PROVE SessionsGrow
  <2>1. sess[s] \in SessionType /\ Others(sess, sess', s) /\ sess'[s] = [sess[s] EXCEPT !.timer = FALSE]
    BY <1>1, <1>5 DEF Stopped
  <2>2. sess'[s].state = sess[s].state
    BY <2>1 DEF SessionType
  <2> QED
    BY <1>1, <2>1, <2>2, GrowIs
<1>6. ASSUME NEW s \in DOMAIN sess, AuthTimer(s) PROVE SessionsGrow
  <2>1. Times(s)
    BY <1>6, AuthTimerIs
  <2>2. s \in 1..Len(sess)
    BY <1>1, <1>6
  <2> QED
    BY <1>5, <2>1, <2>2 DEF Times
<1>7. CASE Revoke
  <2>1. Shuts
    BY <1>7, RevokeIs
  <2> QED
    BY <1>1, <1>2, <1>5, <2>1 DEF Shuts, Stays
<1>8. ASSUME NEW e \in DOMAIN entry, NEW a \in {"ok", "failed", "late"}, Settles(e, a) PROVE SessionsGrow
  <2>1. Settling(e, a)
    BY <1>8, SettlesIs
  <2>2. Len(sess') = Len(sess) /\ \A t \in 1..Len(sess) : sess'[t].state = sess[t].state
    BY <2>1 DEF Settling
  <2> QED
    BY <1>1, <2>2 DEF SessionsGrow
<1>9. CASE Expire \/ (\E e \in DOMAIN entry : Runs(e)) \/ PhoneComes \/ PhoneGoes \/ LinkDrops \/ LinkReturns \/ Overflow
           \/ BlockEnds \/ PhoneReceives \/ (\E i \in CallIds : PhoneCalls(i)) \/ UNCHANGED vars
  BY <1>2, <1>9 DEF Expire, Runs, PhoneComes, PhoneGoes, LinkDrops, LinkReturns, Overflow, BlockEnds, PhoneReceives,
                     PhoneCalls, vars, gateway
<1> QED
  BY <1>3, <1>4, <1>6, <1>7, <1>8, <1>9 DEF Next
-----------------------------------------------------------------------------
(* A command is carried out once *)

OldAsks ==
    \E d \in {0, 1} :
        \A n \in 1..Len(up') : up'[n].k = "request" => n + d \in 1..Len(up) /\ up[n + d] = up'[n]

LEMMA UpOld ==
    ASSUME TypeInv,
           \/ up' = up \/ up' = <<>> \/ (up' = Tail(up) /\ Len(up) > 0)
           \/ \E x \in UpMessage : x.k # "request" /\ (up' = Append(up, x) \/ up' = <<x>>)
    PROVE  OldAsks
<1>1. up \in Seq(UpMessage)
  BY DEF TypeInv
<1>2. CASE up' = up \/ up' = <<>>
  <2>1. \A n \in 1..Len(up') : up'[n].k = "request" => n + 0 \in 1..Len(up) /\ up[n + 0] = up'[n]
    BY <1>1, <1>2
  <2> QED
    BY <2>1 DEF OldAsks
<1>3. CASE up' = Tail(up) /\ Len(up) > 0
  <2>1. \A n \in 1..Len(up') : n + 1 \in 1..Len(up) /\ up[n + 1] = up'[n]
    BY <1>1, <1>3
  <2> QED
    BY <2>1 DEF OldAsks
<1>4. ASSUME NEW x \in UpMessage, x.k # "request", up' = Append(up, x) \/ up' = <<x>> PROVE OldAsks
  <2>1. ASSUME NEW n \in 1..Len(up'), up'[n].k = "request" PROVE n + 0 \in 1..Len(up) /\ up[n + 0] = up'[n]
    <3>1. CASE up' = Append(up, x)
      <4>1. n \in 1..Len(up) \/ up'[n] = x
        BY <1>1, <3>1
      <4>2. n \in 1..Len(up)
        BY <1>4, <2>1, <4>1
      <4> QED
        BY <1>1, <3>1, <4>2
    <3>2. CASE up' = <<x>>
      <4>1. up'[n] = x
        BY <3>2
      <4> QED
        BY <1>4, <2>1, <4>1
    <3> QED
      BY <1>4, <3>1, <3>2
  <2> QED
    BY <2>1 DEF OldAsks
<1> QED
  BY <1>2, <1>3, <1>4

(* What leaves call i as it was *)
QuietFor(i) ==
    /\ call'[i] = call[i]
    /\ \E d \in {0, 1} :
         \A n \in 1..Len(up') : up'[n].k = "request" /\ up'[n].a = i => n + d \in 1..Len(up) /\ up[n + d] = up'[n]
    /\ \A n \in 1..Len(down') : down'[n].k = "response" /\ down'[n].a = i => \E m \in 1..Len(down) : down[m] = down'[n]
    /\ \A e \in 1..Len(entry') :
         entry'[e].i = i => e \in 1..Len(entry) /\ entry[e].i = i /\ entry'[e].answer = entry[e].answer
    /\ \A e \in 1..Len(entry) :
         entry[e].i = i /\ entry[e].ran = TRUE => e \in 1..Len(entry') /\ entry'[e].i = i /\ entry'[e].ran = TRUE

LEMMA CallQuiet ==
    ASSUME TypeInv, NEW i \in CallIds, CallOk(i), QuietFor(i)
    PROVE  CallOk(i)'
<1>0. up \in Seq(UpMessage)
  BY DEF TypeInv
<1>1. call'[i] = call[i]
  BY DEF QuietFor
<1>2. Carried(i) => Carried(i)'
  BY DEF QuietFor, Carried
<1>3. (Unknown(i) => Unknown(i)') /\ (Early(i) => Early(i)')
  BY DEF QuietFor, Unknown, Early
<1>4. \A n \in 1..Len(down') : Tells(n, i)' => \E m \in 1..Len(down) : down[m] = down'[n] /\ Tells(m, i)
  BY DEF QuietFor, Tells
<1>5. Untold(i) => Untold(i)'
  BY <1>4 DEF Untold
<1>6. PICK d \in {0, 1} :
        \A n \in 1..Len(up') : up'[n].k = "request" /\ up'[n].a = i => n + d \in 1..Len(up) /\ up[n + d] = up'[n]
  BY DEF QuietFor
<1>7. \A n \in 1..Len(up') : Asks(n, i)' => n + d \in 1..Len(up) /\ Asks(n + d, i)
  BY <1>6 DEF Asks
<1>8. call[i].answer = "ok" => Carried(i)'
  BY <1>2 DEF CallOk
<1>9. \A n \in 1..Len(down') : Tells(n, i)' /\ down'[n].b = "ok" => Carried(i)'
  BY <1>2, <1>4 DEF CallOk
<1>10. call[i].copies = 0 =>
         Unknown(i)' /\ call[i].answer = "none" /\ Untold(i)' /\ \A n \in 1..Len(up') : ~Asks(n, i)'
  BY <1>3, <1>5, <1>7 DEF CallOk
<1>11. ASSUME call[i].copies = 1, NEW n \in 1..Len(up'), Asks(n, i)'
       PROVE  Unknown(i)' /\ call[i].answer = "none" /\ Untold(i)' /\ \A m \in 1..Len(up') : Asks(m, i)' => m = n
  <2>1. n + d \in 1..Len(up) /\ Asks(n + d, i)
    BY <1>7, <1>11
  <2>2. Unknown(i) /\ call[i].answer = "none" /\ Untold(i) /\ \A m \in 1..Len(up) : Asks(m, i) => m = n + d
    BY <1>11, <2>1 DEF CallOk
  <2>3. ASSUME NEW m \in 1..Len(up'), Asks(m, i)' PROVE m = n
    <3>1. m + d \in 1..Len(up) /\ Asks(m + d, i)
      BY <1>7, <2>3
    <3>2. m + d = n + d
      BY <2>2, <3>1
    <3> QED
      BY <3>2
  <2> QED
    BY <1>3, <1>5, <2>2, <2>3
<1>12. call[i].copies = 1 =>
         /\ call[i].answer \in Unrun => Early(i)'
         /\ \A n \in 1..Len(down') : Tells(n, i)' /\ down'[n].b \in Unrun => Early(i)'
  BY <1>3, <1>4 DEF CallOk
<1> QED
  BY <1>1, <1>8, <1>9, <1>10, <1>11, <1>12 DEF CallOk
DedupeInv == EntryInv /\ TableInv /\ CallInv

LEMMA OldAwaited ==
    ASSUME TypeInv, OldAsks, call' = call, up' \in Seq(UpMessage), NEW i, Awaited(i)'
    PROVE  Awaited(i)
<1>1. up \in Seq(UpMessage)
  BY DEF TypeInv
<1>2. PICK d \in {0, 1} :
        \A n \in 1..Len(up') : up'[n].k = "request" => n + d \in 1..Len(up) /\ up[n + d] = up'[n]
  BY DEF OldAsks
<1>3. call[i].answer = "none" \/ \E n \in 1..Len(up') : up'[n].k = "request" /\ up'[n].a = i
  BY DEF Awaited
<1>4. ASSUME NEW n \in 1..Len(up'), up'[n].k = "request", up'[n].a = i PROVE Awaited(i)
  <2>1. n + d \in DOMAIN up /\ up[n + d] = up'[n]
    BY <1>1, <1>2, <1>4
  <2> QED
    BY <1>4, <2>1 DEF Awaited
<1>5. call[i].answer = "none" => Awaited(i)
  BY DEF Awaited
<1> QED
  BY <1>3, <1>4, <1>5

LEMMA CalmKeeps ==
    ASSUME TypeInv, up' \in Seq(UpMessage), DedupeInv, SessionsGrow, UNCHANGED <<entry, table, call>>, OldAsks, OldTells(down'),
           "evicted" \in amiss => "evicted" \in amiss'
    PROVE  DedupeInv'
<1>1. /\ entry' = entry /\ table' = table /\ call' = call /\ up' \in Seq(UpMessage)
      /\ \A e \in 1..Len(entry) : entry[e].by \in 1..Len(sess)
  BY DEF TypeInv
<1>2. EntryInv'
  BY <1>1 DEF DedupeInv, EntryInv, EntryOk, SessionsGrow
<1>3. \A i : Awaited(i)' => Awaited(i)
  BY <1>1, OldAwaited
<1>4. TableInv'
  BY <1>1, <1>3 DEF DedupeInv, TableInv
<1>5. ASSUME NEW i \in CallIds PROVE CallOk(i)'
  <2>1. QuietFor(i)
    BY <1>1 DEF QuietFor, OldAsks, OldTells
  <2> QED
    BY <2>1, CallQuiet DEF DedupeInv, CallInv
<1> QED
  BY <1>2, <1>4, <1>5 DEF DedupeInv, CallInv

LEMMA RunsKeeps ==
    ASSUME TypeInv, up' \in Seq(UpMessage), DedupeInv, NEW e \in DOMAIN entry, Runs(e)
    PROVE  DedupeInv'
<1> DEFINE v == [entry[e] EXCEPT !.ran = TRUE]
<1>1. e \in 1..Len(entry) /\ entry \in Seq(EntryType) /\ entry[e] \in EntryType
  <2>1. entry \in Seq(EntryType)
    BY DEF TypeInv
  <2> QED
    BY <2>1
<1>2. /\ entry' = [entry EXCEPT ![e] = v] /\ entry[e].answer \in {"none", "late"}
      /\ UNCHANGED <<sess, table, call, amiss, up, down>>
  BY DEF Runs
<1>3. /\ v.i = entry[e].i /\ v.by = entry[e].by /\ v.answer = entry[e].answer /\ v.done = entry[e].done /\ v.ran = TRUE
  BY <1>1 DEF EntryType
<1> HIDE DEF v
<1>4. Len(entry') = Len(entry) /\ entry'[e] = v /\ \A f \in 1..Len(entry) : f # e => entry'[f] = entry[f]
  BY <1>1, <1>2
<1>5. \A f \in 1..Len(entry) : entry'[f].i = entry[f].i /\ entry'[f].answer = entry[f].answer /\ (entry[f].ran = TRUE => entry'[f].ran = TRUE)
  BY <1>1, <1>3, <1>4
<1>6. EntryInv'
  <2>1. ASSUME NEW f \in 1..Len(entry) PROVE EntryOk(f)'
    <3>1. EntryOk(f)
      BY DEF DedupeInv, EntryInv
    <3>2. CASE f = e
      BY <1>2, <1>3, <1>4, <3>1, <3>2 DEF EntryOk
    <3>3. CASE f # e
      BY <1>2, <1>4, <3>1, <3>3 DEF EntryOk
    <3> QED
      BY <3>2, <3>3
  <2> QED
    BY <1>4, <2>1 DEF EntryInv
<1>7. OldAsks
  BY <1>2, UpOld
<1>8. \A i : Awaited(i)' => Awaited(i)
  BY <1>2, <1>7, OldAwaited
<1>9. TableInv'
  BY <1>2, <1>4, <1>5, <1>8 DEF DedupeInv, TableInv
<1>10. ASSUME NEW i \in CallIds PROVE CallOk(i)'
  <2>1. OldTells(down)
    BY DownOld
  <2>2. QuietFor(i)
    BY <1>2, <1>4, <1>5, <1>7, <2>1 DEF QuietFor, OldAsks, OldTells
  <2> QED
    BY <2>2, CallQuiet DEF DedupeInv, CallInv
<1> QED
  BY <1>6, <1>9, <1>10 DEF DedupeInv, CallInv

(* What is answered to call i *)
TellsOf(d, i, answer) ==
    \A n \in 1..Len(d) : d[n].k = "response" =>
        (\E m \in 1..Len(down) : down[m] = d[n]) \/ (d[n].a = i /\ d[n].b = answer)

LEMMA PutTells ==
    ASSUME NEW d \in Seq(DownMessage), NEW c, NEW x \in DownMessage, NEW i, NEW answer,
           TellsOf(d, i, answer), x.k = "response" => x.a = i /\ x.b = answer
    PROVE  TellsOf(Put(d, c, x), i, answer)
<1> DEFINE r == Put(d, c, x)
<1>1. /\ \A n \in 1..Len(d) : r[n] = d[n]
      /\ \A n \in 1..Len(r) : n \in 1..Len(d) \/ (n = Len(d) + 1 /\ r[n] = x)
  BY PutIs
<1> HIDE DEF r
<1>2. TellsOf(r, i, answer)
  BY <1>1 DEF TellsOf
<1> QED
  BY <1>2 DEF r

LEMMA DownTells ==
    ASSUME TypeInv, NEW i, NEW answer
    PROVE  TellsOf(down, i, answer)
BY DEF TypeInv, TellsOf

LEMMA SettlesKeeps ==
    ASSUME TypeInv, up' \in Seq(UpMessage), DedupeInv, NEW e \in DOMAIN entry, NEW answer \in {"ok", "failed", "late"}, Settles(e, answer)
    PROVE  DedupeInv'
<1> DEFINE v == [entry[e] EXCEPT !.done = TRUE, !.answer = answer, !.waiters = {}]
<1>1. /\ e \in 1..Len(entry) /\ entry \in Seq(EntryType) /\ entry[e] \in EntryType /\ cur \in Nat /\ sess \in Seq(SessionType)
      /\ entry[e].by \in 1..Len(sess) /\ entry[e].by \in Nat /\ latest \in Nat /\ down \in Seq(DownMessage)
      /\ \A f \in 1..Len(entry) : entry[f].by \in 1..Len(sess)
  <2>1. cur \in Nat /\ latest \in Nat /\ down \in Seq(DownMessage)
    BY DEF TypeInv
  <2>2. \A f \in 1..Len(entry) : entry[f].by \in 1..Len(sess)
    BY DEF TypeInv
  <2> QED
    BY <2>1, <2>2, EntryFacts
<1>0. PICK i0 \in CallIds : i0 = entry[e].i
  BY <1>1 DEF EntryType
<1>2. /\ Settling(e, answer) /\ Record(e, answer) /\ UNCHANGED <<table, up, call>>
  BY SettlesIs
<1>3. /\ v.i = i0 /\ v.by = entry[e].by /\ v.answer = answer /\ v.done = TRUE /\ v.ran = entry[e].ran
  BY <1>0, <1>1 DEF EntryType
<1>4. entry' = [entry EXCEPT ![e] = v] /\ entry[e].done = FALSE /\ (answer = "ok" => entry[e].ran = TRUE)
  BY <1>1, <1>2 DEF Record, EntryType
<1> HIDE DEF v
<1>5. Len(entry') = Len(entry) /\ entry'[e] = v /\ \A f \in 1..Len(entry) : f # e => entry'[f] = entry[f]
  BY <1>1, <1>4
<1>6. \A f \in 1..Len(entry) : entry'[f].i = entry[f].i /\ (f # e => entry'[f].answer = entry[f].answer) /\ entry'[f].ran = entry[f].ran
  BY <1>0, <1>1, <1>3, <1>5
<1>7. EntryInv'
  <2>1. ASSUME NEW f \in 1..Len(entry) PROVE EntryOk(f)'
    <3>1. EntryOk(f) /\ entry[f].by \in 1..Len(sess)
      BY <1>1 DEF DedupeInv, EntryInv
    <3>2. sess'[entry[f].by].state = sess[entry[f].by].state
      BY <1>2, <3>1 DEF Settling
    <3>3. CASE f = e
      BY <1>3, <1>4, <1>5, <3>1, <3>2, <3>3 DEF EntryOk
    <3>4. CASE f # e
      BY <1>5, <3>1, <3>2, <3>4 DEF EntryOk
    <3> QED
      BY <3>3, <3>4
  <2> QED
    BY <1>5, <2>1 DEF EntryInv
<1>8. OldAsks
  BY <1>2, UpOld
<1>9. \A i : Awaited(i)' => Awaited(i)
  BY <1>2, <1>8, OldAwaited
<1>10. TableInv'
  <2>1. "evicted" \in amiss => "evicted" \in amiss'
    BY <1>2 DEF Record
  <2> QED
    BY <1>2, <1>5, <1>6, <1>9, <2>1 DEF DedupeInv, TableInv
<1>11. TellsOf(down', i0, answer)
  <2> DEFINE x == Response(cur, i0, answer)
             f == Sealed("full", entry[e].by, sess[entry[e].by].seq + 1, latest)
             d == ToldOf(e, answer)
  <2>1. i0 \in CallIds /\ answer \in Answers
    BY DEF Answers
  <2>2. sess[entry[e].by].seq + 1 \in Nat
    <3>1. sess[entry[e].by] \in SessionType
      BY <1>1
    <3> QED
      BY <3>1 DEF SessionType
  <2>3. x \in DownMessage
    BY <1>1, <2>1, ResponseIs
  <2>4. f \in DownMessage
    BY <1>1, <2>2, SealedIs
  <2>5. x.a = i0 /\ x.b = answer /\ f.k = "full"
    BY DEF Response, Sealed
  <2>6. d = down \/ d = Put(down, cur, x)
    BY <1>0 DEF ToldOf
  <2>7. down' = d \/ down' = Put(d, cur, f)
    BY <1>2 DEF Settling
  <2> HIDE DEF x, f, d
  <2>8. TellsOf(down, i0, answer)
    BY DownTells
  <2>9. TellsOf(Put(down, cur, x), i0, answer) /\ Put(down, cur, x) \in Seq(DownMessage)
    BY <1>1, <2>3, <2>5, <2>8, PutTells, PutIs
  <2>10. TellsOf(d, i0, answer) /\ d \in Seq(DownMessage)
    BY <1>1, <2>6, <2>8, <2>9
  <2>11. TellsOf(Put(d, cur, f), i0, answer)
    BY <2>4, <2>5, <2>10, PutTells
  <2> QED
    BY <2>7, <2>10, <2>11
<1>12. ASSUME NEW i \in CallIds, i # i0 PROVE CallOk(i)'
  <2>1. \A n \in 1..Len(down') : down'[n].k = "response" /\ down'[n].a = i => \E m \in 1..Len(down) : down[m] = down'[n]
    BY <1>11, <1>12 DEF TellsOf
  <2>2. QuietFor(i)
    BY <1>0, <1>2, <1>5, <1>6, <1>8, <1>12, <2>1 DEF QuietFor, OldAsks
  <2> QED
    BY <2>2, CallQuiet DEF DedupeInv, CallInv
<1>13. CallOk(i0)'
  <2>1. CallOk(i0) /\ EntryOk(e)
    BY <1>1 DEF DedupeInv, CallInv, EntryInv
  <2>2. ~Unknown(i0) /\ ~Early(i0)
    BY <1>0, <1>1, <1>4, <2>1 DEF Unknown, Early, EntryOk
  <2>3. Carried(i0) => Carried(i0)'
    BY <1>5, <1>6 DEF Carried
  <2>4. entry[e].ran = TRUE => Carried(i0)
    BY <1>0, <1>1 DEF Carried
  <2>5. \A n \in 1..Len(down') : Tells(n, i0)' =>
           (\E m \in 1..Len(down) : down[m] = down'[n] /\ Tells(m, i0)) \/ down'[n].b = answer
    BY <1>11 DEF Tells, TellsOf
  <2>6. call[i0].copies # 0
    BY <2>1, <2>2 DEF CallOk
  <2>7. call[i0].copies = 1 => (\A n \in 1..Len(up) : ~Asks(n, i0)) /\ call[i0].answer \notin Unrun
    BY <2>1, <2>2 DEF CallOk
  <2>8. \A n \in 1..Len(down') : Tells(n, i0)' /\ down'[n].b = "ok" => Carried(i0)'
    BY <1>4, <2>1, <2>3, <2>4, <2>5 DEF CallOk
  <2>9. call[i0].copies = 1 => \A n \in 1..Len(down') : Tells(n, i0)' => down'[n].b \notin Unrun
    BY <2>1, <2>2, <2>5 DEF CallOk, Unrun
  <2>10. call[i0].answer = "ok" => Carried(i0)'
    BY <2>1, <2>3 DEF CallOk
  <2>11. up' = up /\ call' = call
    BY <1>2
  <2>12. \A n \in 1..Len(up') : Asks(n, i0)' => n \in 1..Len(up) /\ Asks(n, i0)
    BY <2>11 DEF Asks
  <2> QED
    BY <2>6, <2>7, <2>8, <2>9, <2>10, <2>11, <2>12 DEF CallOk
<1> QED
  BY <1>7, <1>10, <1>12, <1>13 DEF DedupeInv, CallInv

(* What a request leaves of the entries, and what it is told *)
Left(f) ==
    /\ entry'[f].i = entry[f].i /\ entry'[f].by = entry[f].by /\ entry'[f].ran = entry[f].ran
    /\ entry'[f].done = entry[f].done /\ entry'[f].answer = entry[f].answer
New(i, x) ==
    /\ \A e \in ToSet(Swept) : entry[e].i # i
    /\ x.i = i /\ x.by = cur /\ x.ran = FALSE /\ x.answer \in {"none", "early"} /\ (x.done = FALSE => x.answer = "none")
Took(i, answer) ==
    /\ ToSet(Swept) \subseteq ToSet(table')
    /\ \A f \in 1..Len(entry) : Left(f)
    /\ \/ Len(entry') = Len(entry)
       \/ Len(entry') = Len(entry) + 1 /\ Len(entry) + 1 \in ToSet(table') /\ New(i, entry'[Len(entry) + 1])
    /\ TellsOf(down', i, answer)
    /\ answer = "ok" => Carried(i)
    /\ answer \in Unrun /\ Unknown(i) => Early(i)'

LEMMA AskingTook ==
    ASSUME TypeInv, EntryInv, cur # 0, NEW i \in CallIds, Asking(i)
    PROVE  \E answer \in Answers : Took(i, answer)
<1>1. /\ cur \in Nat /\ entry \in Seq(EntryType) /\ down \in Seq(DownMessage) /\ Len(entry) \in Nat
  BY DEF TypeInv
<1>2. Swept \in Seq(Nat)
  BY SweptIs
<1>3. ASSUME NEW answer \in Answers, Answered(i, answer) PROVE TellsOf(down', i, answer)
  <2>1. Response(cur, i, answer) \in DownMessage
    BY <1>1, ResponseIs
  <2>2. Response(cur, i, answer).a = i /\ Response(cur, i, answer).b = answer
    BY DEF Response, Sealed
  <2>3. TellsOf(down, i, answer)
    BY DownTells
  <2> QED
    BY <1>1, <1>3, <2>1, <2>2, <2>3, PutTells DEF Answered
<1>4. ASSUME entry' = entry PROVE Len(entry') = Len(entry) /\ \A f \in 1..Len(entry) : Left(f)
  BY <1>4 DEF Left
<1>5. CASE Repeats(i)
  <2>1. PICK e \in DOMAIN entry :
          /\ e \in ToSet(Swept) /\ entry[e].i = i /\ table' = Swept
          /\ entry[e].done = TRUE => entry' = entry /\ Answered(i, entry[e].answer)
          /\ entry[e].done = FALSE => entry' = [entry EXCEPT ![e].waiters = @ \cup {cur}] /\ down' = down
    BY <1>5 DEF Repeats
  <2>2. e \in 1..Len(entry) /\ entry[e] \in EntryType
    BY <1>1, <2>1
  <2>3. entry[e].done \in BOOLEAN /\ entry[e].answer \in Answers
    BY <2>2 DEF EntryType
  <2>4. ~Unknown(i)
    BY <2>1, <2>2 DEF Unknown
  <2>5. CASE entry[e].done = TRUE
    <3>1. entry[e].answer = "ok" => Carried(i)
      BY <2>1, <2>2 DEF EntryInv, EntryOk, Carried
    <3>2. TellsOf(down', i, entry[e].answer)
      BY <1>3, <2>1, <2>3, <2>5
    <3>3. Took(i, entry[e].answer)
      BY <1>4, <2>1, <2>4, <2>5, <3>1, <3>2 DEF Took
    <3> QED
      BY <2>3, <3>3
  <2>6. CASE entry[e].done = FALSE
    <3> DEFINE v == [entry[e] EXCEPT !.waiters = @ \cup {cur}]
    <3>1. entry' = [entry EXCEPT ![e] = v] /\ down' = down
      BY <2>1, <2>6
    <3>2. v.i = entry[e].i /\ v.by = entry[e].by /\ v.ran = entry[e].ran /\ v.done = entry[e].done /\ v.answer = entry[e].answer
      BY <2>2 DEF EntryType
    <3> HIDE DEF v
    <3>3. Len(entry') = Len(entry) /\ entry'[e] = v /\ \A f \in 1..Len(entry) : f # e => entry'[f] = entry[f]
      BY <1>1, <2>2, <3>1
    <3>4. \A f \in 1..Len(entry) : Left(f)
      BY <3>2, <3>3 DEF Left
    <3>5. TellsOf(down', i, "none")
      BY <3>1, DownTells
    <3>6. Took(i, "none")
      BY <2>1, <3>3, <3>4, <3>5 DEF Took, Unrun
    <3> QED
      BY <3>6 DEF Answers
  <2> QED
    BY <2>3, <2>5, <2>6
<1>6. CASE (\A e \in ToSet(Swept) : entry[e].i # i) /\ Limits(i)
  <2>1. TellsOf(down', i, "limited")
    BY <1>3, <1>6 DEF Limits, Answers
  <2>2. Unknown(i) => Early(i)'
    BY <1>6 DEF Limits, Unknown, Early
  <2>3. Took(i, "limited")
    BY <1>4, <1>6, <2>1, <2>2 DEF Took, Limits
  <2> QED
    BY <2>3 DEF Answers
<1>7. ASSUME NEW x, NEW answer \in {"none", "early"}, \A e \in ToSet(Swept) : entry[e].i # i,
             table' = Append(Swept, Len(entry) + 1), entry' = Append(entry, x),
             x.i = i, x.by = cur, x.ran = FALSE, x.answer = answer, x.done = FALSE => answer = "none",
             TellsOf(down', i, answer)
      PROVE  \E a \in Answers : Took(i, a)
  <2>1. Len(entry') = Len(entry) + 1 /\ entry'[Len(entry) + 1] = x /\ \A f \in 1..Len(entry) : entry'[f] = entry[f]
    BY <1>1, <1>7
  <2>2. \A f \in 1..Len(entry) : Left(f)
    BY <2>1 DEF Left
  <2>3. New(i, x)
    BY <1>7 DEF New
  <2>4. ToSet(Swept) \subseteq ToSet(table') /\ Len(entry) + 1 \in ToSet(table')
    <3>1. Len(Swept) \in Nat /\ DOMAIN Swept = 1..Len(Swept)
      BY <1>2
    <3>2. /\ DOMAIN table' = 1..Len(Swept) + 1 /\ table'[Len(Swept) + 1] = Len(entry) + 1
          /\ \A n \in 1..Len(Swept) : table'[n] = Swept[n]
      BY <1>1, <1>2, <1>7
    <3>3. \A n \in 1..Len(Swept) : n \in 1..Len(Swept) + 1
      BY <3>1
    <3>4. Len(Swept) + 1 \in 1..Len(Swept) + 1
      BY <3>1
    <3> QED
      BY <3>1, <3>2, <3>3, <3>4 DEF ToSet
  <2>5. answer \in Unrun /\ Unknown(i) => Early(i)'
    <3>1. ASSUME answer = "early", Unknown(i), NEW f \in 1..Len(entry'), entry'[f].i = i PROVE entry'[f].answer = "early"
      <4>1. f \in 1..Len(entry) \/ f = Len(entry) + 1
        BY <1>1, <2>1
      <4>2. f \notin 1..Len(entry)
        BY <2>1, <3>1 DEF Unknown
      <4> QED
        BY <1>7, <2>1, <3>1, <4>1, <4>2
    <3> QED
      BY <3>1 DEF Early, Unrun
  <2>6. Took(i, answer)
    BY <1>7, <2>1, <2>2, <2>3, <2>4, <2>5 DEF Took
  <2> QED
    BY <2>6 DEF Answers
<1>8. CASE (\A e \in ToSet(Swept) : entry[e].i # i) /\ Takes(i)
  <2>1. CASE entry' = Append(entry, Fresh(i)) /\ down' = down
    <3>1. TellsOf(down', i, "none")
      BY <2>1, DownTells
    <3>2. Fresh(i).i = i /\ Fresh(i).by = cur /\ Fresh(i).ran = FALSE /\ Fresh(i).answer = "none"
      BY DEF Fresh
    <3> QED
      BY <1>7, <1>8, <2>1, <3>1, <3>2 DEF Takes
  <2>2. CASE entry' = Append(entry, Declined(i)) /\ Answered(i, "early")
    <3>1. TellsOf(down', i, "early")
      BY <1>3, <2>2 DEF Answers
    <3>2. Declined(i).i = i /\ Declined(i).by = cur /\ Declined(i).ran = FALSE /\ Declined(i).answer = "early" /\ Declined(i).done = TRUE
      BY DEF Declined
    <3> QED
      BY <1>7, <1>8, <2>2, <3>1, <3>2 DEF Takes
  <2> QED
    BY <1>8, <2>1, <2>2 DEF Takes
<1> QED
  BY <1>5, <1>6, <1>8 DEF Asking

LEMMA AskedKeeps ==
    ASSUME TypeInv, up' \in Seq(UpMessage), DedupeInv, Len(up) > 0, Asked(Head(up)), up' = Tail(up), call' = call
    PROVE  DedupeInv'
<1>1. /\ up \in Seq(UpMessage) /\ entry \in Seq(EntryType) /\ down \in Seq(DownMessage)
      /\ cur \in 0..Len(sess) /\ cur \in Nat /\ sess \in Seq(SessionType) /\ Len(entry) \in Nat
      /\ \A f \in 1..Len(entry) : entry[f].by \in 1..Len(sess)
  BY DEF TypeInv
<1>2. up[1] \in UpMessage /\ Head(up) = up[1] /\ cur # 0 /\ sess[cur].state = "open" /\ up[1].k = "request" /\ Request(cur, up[1].a)
  BY <1>1 DEF Asked
<1>3. PICK i \in CallIds : i = up[1].a
  BY <1>2 DEF UpMessage
<1>4. Asking(i)
  BY <1>2, <1>3, RequestIs
<1>5. /\ UNCHANGED <<sess, cur, blocked>>
      /\ amiss' = IF \E e \in ToSet(table) \ ToSet(Swept) : Awaited(entry[e].i) THEN amiss \cup {"evicted"} ELSE amiss
  BY <1>4 DEF Asking
<1>6. PICK answer \in Answers : Took(i, answer)
  BY <1>2, <1>4, AskingTook DEF DedupeInv
<1>7. /\ ToSet(Swept) \subseteq ToSet(table')
      /\ \A f \in 1..Len(entry) : Left(f)
      /\ TellsOf(down', i, answer)
      /\ answer = "ok" => Carried(i)
      /\ answer \in Unrun /\ Unknown(i) => Early(i)'
  BY <1>6 DEF Took
<1>8. PICK n \in Nat : n = Len(entry) + 1
  BY <1>1
<1>9. Len(entry') = Len(entry) \/ (Len(entry') = n /\ n \in ToSet(table') /\ New(i, entry'[n]))
  BY <1>6, <1>8 DEF Took
<1>10. \A f \in 1..Len(entry') : f \in 1..Len(entry) \/ (f = n /\ Len(entry') = n /\ n \in ToSet(table') /\ New(i, entry'[n]))
  BY <1>1, <1>8, <1>9
<1>11. \A f \in 1..Len(entry) : f \in 1..Len(entry') /\ f # n
  BY <1>1, <1>8, <1>9
<1>12. OldAsks
  BY <1>1, UpOld
<1>13. \A j : Awaited(j)' => Awaited(j)
  BY <1>12, OldAwaited
<1>14. Awaited(i)
  <2>1. 1 \in DOMAIN up
    BY <1>1
  <2> QED
    BY <1>2, <1>3, <2>1 DEF Awaited
<1>15. EntryInv'
  <2>1. ASSUME NEW f \in 1..Len(entry') PROVE EntryOk(f)'
    <3>1. CASE f \in 1..Len(entry)
      <4>1. EntryOk(f) /\ Left(f)
        BY <1>7, <3>1 DEF DedupeInv, EntryInv
      <4> QED
        BY <1>5, <4>1 DEF EntryOk, Left
    <3>2. CASE f = n /\ New(i, entry'[n])
      BY <1>2, <1>5, <3>2 DEF EntryOk, New
    <3> QED
      BY <1>10, <3>1, <3>2
  <2> QED
    BY <2>1 DEF EntryInv
<1>16. TableInv'
  <2> SUFFICES ASSUME "evicted" \notin amiss'
               PROVE  /\ \A e, f \in 1..Len(entry') : entry'[e].i = entry'[f].i => e = f
                      /\ \A e \in 1..Len(entry') : e \in ToSet(table') \/ ~Awaited(entry[e].i)'
    BY DEF TableInv
  <2>1. "evicted" \notin amiss /\ ~\E e \in ToSet(table) \ ToSet(Swept) : Awaited(entry[e].i)
    BY <1>5
  <2>2. /\ \A e, f \in 1..Len(entry) : entry[e].i = entry[f].i => e = f
        /\ \A e \in 1..Len(entry) : e \in ToSet(Swept) \/ ~Awaited(entry[e].i)
    BY <2>1 DEF DedupeInv, TableInv
  <2>3. \A e \in 1..Len(entry) : entry'[e].i = entry[e].i
    BY <1>7 DEF Left
  <2>4. \A e \in 1..Len(entry') : e \in ToSet(table') \/ ~Awaited(entry[e].i)'
    <3>1. ASSUME NEW e \in 1..Len(entry) PROVE e \in ToSet(table') \/ ~Awaited(entry[e].i)'
      <4>1. PICK j : j = entry[e].i /\ entry'[e].i = j
        BY <2>3
      <4>2. Awaited(j)' => Awaited(j)
        BY <1>13
      <4>3. Awaited(entry[e].i)' <=> Awaited(j)'
        BY <4>1 DEF Awaited
      <4> QED
        BY <1>7, <2>2, <3>1, <4>1, <4>2, <4>3
    <3> QED
      BY <1>10, <3>1
  <2>5. New(i, entry'[n]) => entry'[n].i = i /\ \A e \in 1..Len(entry) : entry[e].i # i
    BY <1>14, <2>2 DEF New
  <2>6. ASSUME NEW e \in 1..Len(entry'), NEW f \in 1..Len(entry'), entry'[e].i = entry'[f].i PROVE e = f
    <3>1. CASE e \in 1..Len(entry) /\ f \in 1..Len(entry)
      BY <2>2, <2>3, <2>6, <3>1
    <3>2. CASE e = n /\ New(i, entry'[n]) /\ f \in 1..Len(entry)
      BY <2>3, <2>5, <2>6, <3>2
    <3>3. CASE f = n /\ New(i, entry'[n]) /\ e \in 1..Len(entry)
      BY <2>3, <2>5, <2>6, <3>3
    <3> QED
      BY <1>10, <3>1, <3>2, <3>3
  <2> QED
    BY <2>4, <2>6
<1>17. Carried(i) => Carried(i)'
  BY <1>7, <1>11 DEF Carried, Left
<1>18. ASSUME NEW j \in CallIds, j # i PROVE CallOk(j)'
  <2>1. \A k \in 1..Len(down') : down'[k].k = "response" /\ down'[k].a = j => \E k0 \in 1..Len(down) : down[k0] = down'[k]
    BY <1>7, <1>18 DEF TellsOf
  <2>2. \A f \in 1..Len(entry') : entry'[f].i = j => f \in 1..Len(entry) /\ entry[f].i = j /\ entry'[f].answer = entry[f].answer
    BY <1>7, <1>10, <1>18 DEF Left, New
  <2>3. \A f \in 1..Len(entry) : entry[f].i = j /\ entry[f].ran = TRUE => f \in 1..Len(entry') /\ entry'[f].i = j /\ entry'[f].ran = TRUE
    BY <1>7, <1>11 DEF Left
  <2>4. QuietFor(j)
    BY <1>12, <2>1, <2>2, <2>3 DEF QuietFor, OldAsks
  <2> QED
    BY <2>4, CallQuiet DEF DedupeInv, CallInv
<1>19. CallOk(i)'
  <2>1. CallOk(i)
    BY DEF DedupeInv, CallInv
  <2>2. 1 \in 1..Len(up) /\ Asks(1, i)
    BY <1>1, <1>2, <1>3 DEF Asks
  <2>3. call[i].copies # 0
    BY <2>1, <2>2 DEF CallOk
  <2>4. call[i].copies = 1 => /\ Unknown(i) /\ call[i].answer = "none" /\ Untold(i)
                             /\ \A m \in 1..Len(up) : Asks(m, i) => m = 1
    BY <2>1, <2>2 DEF CallOk
  <2>5. \A m \in 1..Len(up') : Asks(m, i)' => m + 1 \in 1..Len(up) /\ Asks(m + 1, i)
    <3>1. \A m \in 1..Len(up') : m + 1 \in 1..Len(up) /\ up'[m] = up[m + 1]
      BY <1>1
    <3> QED
      BY <3>1 DEF Asks
  <2>6. call[i].copies = 1 => \A m \in 1..Len(up') : ~Asks(m, i)'
    BY <2>4, <2>5
  <2>7. \A k \in 1..Len(down') : Tells(k, i)' =>
           (\E m \in 1..Len(down) : down[m] = down'[k] /\ Tells(m, i)) \/ down'[k].b = answer
    BY <1>7 DEF Tells, TellsOf
  <2>8. \A k \in 1..Len(down') : Tells(k, i)' /\ down'[k].b = "ok" => Carried(i)'
    BY <1>7, <1>17, <2>1, <2>7 DEF CallOk
  <2>9. call[i].copies = 1 => \A k \in 1..Len(down') : Tells(k, i)' /\ down'[k].b \in Unrun => Early(i)'
    BY <1>7, <2>4, <2>7 DEF Untold
  <2>10. call[i].answer = "ok" => Carried(i)'
    BY <1>17, <2>1 DEF CallOk
  <2>11. call[i].copies = 1 => call[i].answer \notin Unrun
    BY <2>4 DEF Unrun
  <2> QED
    BY <2>3, <2>6, <2>8, <2>9, <2>10, <2>11 DEF CallOk
<1> QED
  BY <1>15, <1>16, <1>18, <1>19 DEF DedupeInv, CallInv

LEMMA LearnsKeeps ==
    ASSUME TypeInv, up' \in Seq(UpMessage), DedupeInv, Len(down) > 0, Learns(down[1]), UNCHANGED <<sess, entry, table, amiss>>
    PROVE  DedupeInv'
<1>1. /\ down \in Seq(DownMessage) /\ up \in Seq(UpMessage) /\ call \in [CallIds -> [copies : Nat, answer : Answers]]
      /\ down[1] \in DownMessage /\ 1 \in 1..Len(down)
  BY DEF TypeInv
<1>2. /\ down[1].k = "response" /\ UNCHANGED <<phone, up>> /\ down' = Tail(down)
      /\ call' = [call EXCEPT ![down[1].a].answer = IF @ = "none" THEN down[1].b ELSE @]
  BY DEF Learns
<1>3. PICK i \in CallIds : i = down[1].a
  BY <1>1, <1>2 DEF DownMessage
<1>4. Tells(1, i)
  BY <1>2, <1>3 DEF Tells
<1>5. /\ \A j \in CallIds : j # i => call'[j] = call[j]
      /\ call'[i].copies = call[i].copies
      /\ call'[i].answer = IF call[i].answer = "none" THEN down[1].b ELSE call[i].answer
  <2> DEFINE v == [call[i] EXCEPT !.answer = IF @ = "none" THEN down[1].b ELSE @]
  <2>1. call' = [call EXCEPT ![i] = v] /\ call[i] \in [copies : Nat, answer : Answers]
    BY <1>1, <1>2, <1>3
  <2>2. v.copies = call[i].copies /\ v.answer = IF call[i].answer = "none" THEN down[1].b ELSE call[i].answer
    BY <2>1
  <2> HIDE DEF v
  <2> QED
    BY <1>1, <2>1, <2>2
<1>6. OldAsks
  BY <1>2, UpOld
<1>7. OldTells(down')
  BY <1>1, <1>2, DownOld
<1>8. EntryInv'
  BY DEF DedupeInv, EntryInv, EntryOk
<1>9. TableInv'
  <2>1. ASSUME NEW j \in CallIds, Awaited(j)' PROVE Awaited(j)
    <3>1. call'[j].answer = "none" => call[j].answer = "none"
      BY <1>5
    <3> QED
      BY <1>2, <2>1, <3>1 DEF Awaited
  <2>2. \A e \in 1..Len(entry) : entry[e].i \in CallIds
    <3>1. entry \in Seq(EntryType)
      BY DEF TypeInv
    <3>2. \A e \in 1..Len(entry) : entry[e] \in EntryType
      BY <3>1
    <3>3. \A v \in EntryType : v.i \in CallIds
      BY DEF EntryType
    <3> QED
      BY <3>2, <3>3
  <2> QED
    BY <2>1, <2>2 DEF DedupeInv, TableInv, Awaited
<1>10. ASSUME NEW j \in CallIds, j # i PROVE CallOk(j)'
  <2>1. QuietFor(j)
    BY <1>5, <1>6, <1>7, <1>10 DEF QuietFor, OldAsks, OldTells
  <2> QED
    BY <2>1, CallQuiet DEF DedupeInv, CallInv
<1>11. CallOk(i)'
  <2>1. CallOk(i)
    BY DEF DedupeInv, CallInv
  <2>2. ~Untold(i)
    BY <1>1, <1>4 DEF Untold
  <2>3. call[i].copies # 0 /\ (call[i].copies = 1 => \A n \in 1..Len(up) : ~Asks(n, i))
    BY <2>1, <2>2 DEF CallOk
  <2>4. down[1].b = "ok" => Carried(i)
    BY <1>1, <1>4, <2>1 DEF CallOk
  <2>5. call[i].copies = 1 /\ down[1].b \in Unrun => Early(i)
    BY <1>1, <1>4, <2>1 DEF CallOk
  <2>6. (Carried(i) => Carried(i)') /\ (Early(i) => Early(i)')
    BY DEF Carried, Early
  <2>7. \A n \in 1..Len(down') : Tells(n, i)' => n + 1 \in 1..Len(down) /\ down'[n] = down[n + 1] /\ Tells(n + 1, i)
    <3>1. \A n \in 1..Len(down') : n + 1 \in 1..Len(down) /\ down'[n] = down[n + 1]
      BY <1>1, <1>2
    <3> QED
      BY <3>1 DEF Tells
  <2>8. \A n \in 1..Len(down') : Tells(n, i)' /\ down'[n].b = "ok" => Carried(i)'
    BY <2>1, <2>6, <2>7 DEF CallOk
  <2>9. call[i].copies = 1 => \A n \in 1..Len(down') : Tells(n, i)' /\ down'[n].b \in Unrun => Early(i)'
    BY <2>1, <2>6, <2>7 DEF CallOk
  <2>10. call'[i].answer = "ok" => Carried(i)'
    BY <1>5, <2>1, <2>4, <2>6 DEF CallOk
  <2>11. call[i].copies = 1 => (call'[i].answer \in Unrun => Early(i)')
    BY <1>5, <2>1, <2>5, <2>6 DEF CallOk
  <2>12. call[i].copies = 1 => \A n \in 1..Len(up') : ~Asks(n, i)'
    BY <1>2, <2>3 DEF Asks
  <2> QED
    BY <1>5, <2>3, <2>8, <2>9, <2>10, <2>11, <2>12 DEF CallOk
<1> QED
  BY <1>8, <1>9, <1>10, <1>11 DEF DedupeInv, CallInv

LEMMA CallsKeeps ==
    ASSUME TypeInv, up' \in Seq(UpMessage), DedupeInv, NEW i \in CallIds, PhoneCalls(i)
    PROVE  DedupeInv'
<1>1. /\ up \in Seq(UpMessage) /\ call \in [CallIds -> [copies : Nat, answer : Answers]]
      /\ call[i] \in [copies : Nat, answer : Answers] /\ phone.key \in Nat /\ Len(up) \in Nat
  BY DEF TypeInv
<1>2. /\ call[i].answer = "none" /\ call' = [call EXCEPT ![i].copies = @ + 1]
      /\ Written(Sealed("request", phone.key, i, 0)) /\ UNCHANGED <<sess, entry, table, amiss, down>>
  BY DEF PhoneCalls, gateway
<1>3. /\ \A j \in CallIds : j # i => call'[j] = call[j]
      /\ call'[i].copies = call[i].copies + 1 /\ call'[i].answer = "none"
  <2> DEFINE v == [call[i] EXCEPT !.copies = @ + 1]
  <2>1. call' = [call EXCEPT ![i] = v]
    BY <1>1, <1>2
  <2>2. v.copies = call[i].copies + 1 /\ v.answer = "none"
    BY <1>1, <1>2
  <2> HIDE DEF v
  <2> QED
    BY <1>1, <2>1, <2>2
<1>4. PICK x \in UpMessage : x.k = "request" /\ x.a = i /\ (up' = up \/ up' = Append(up, x))
  <2> DEFINE x == Sealed("request", phone.key, i, 0)
  <2>1. x \in UpMessage /\ x.k = "request" /\ x.a = i
    BY <1>1 DEF Sealed, UpMessage
  <2>2. up' = up \/ up' = Append(up, x)
    BY <1>2 DEF Written
  <2> HIDE DEF x
  <2> QED
    BY <2>1, <2>2
<1>5. PICK l \in Nat : l = Len(up) + 1
  BY <1>1
<1>6. \A n \in 1..Len(up') : (n \in 1..Len(up) /\ up'[n] = up[n]) \/ (n = l /\ up'[n] = x)
  BY <1>1, <1>4, <1>5
<1>7. \A n \in 1..Len(up) : n # l
  BY <1>1, <1>5
<1>8. EntryInv'
  BY <1>2 DEF DedupeInv, EntryInv, EntryOk
<1>9. TableInv'
  <2>1. ASSUME NEW j \in CallIds, Awaited(j)' PROVE Awaited(j)
    <3>1. CASE j = i
      BY <1>2, <3>1 DEF Awaited
    <3>2. CASE j # i
      <4>1. call'[j].answer = "none" \/ \E n \in 1..Len(up') : up'[n].k = "request" /\ up'[n].a = j
        BY <2>1 DEF Awaited
      <4>2. call[j].answer = "none" \/ \E n \in 1..Len(up) : up[n].k = "request" /\ up[n].a = j
        BY <1>3, <1>4, <1>6, <3>2, <4>1
      <4> QED
        BY <1>1, <4>2 DEF Awaited
    <3> QED
      BY <3>1, <3>2
  <2>2. \A e \in 1..Len(entry) : entry[e].i \in CallIds
    <3>1. entry \in Seq(EntryType)
      BY DEF TypeInv
    <3>2. \A e \in 1..Len(entry) : entry[e] \in EntryType
      BY <3>1
    <3>3. \A v \in EntryType : v.i \in CallIds
      BY DEF EntryType
    <3> QED
      BY <3>2, <3>3
  <2> QED
    BY <1>2, <2>1, <2>2 DEF DedupeInv, TableInv, Awaited
<1>10. ASSUME NEW j \in CallIds, j # i PROVE CallOk(j)'
  <2>1. \A n \in 1..Len(up') : up'[n].k = "request" /\ up'[n].a = j => n + 0 \in 1..Len(up) /\ up[n + 0] = up'[n]
    BY <1>4, <1>6, <1>10
  <2>2. OldTells(down)
    BY DownOld
  <2>3. QuietFor(j)
    BY <1>2, <1>3, <1>10, <2>1, <2>2 DEF QuietFor, OldTells
  <2> QED
    BY <2>3, CallQuiet DEF DedupeInv, CallInv
<1>11. CallOk(i)'
  <2>1. CallOk(i)
    BY DEF DedupeInv, CallInv
  <2>2. call'[i].copies # 0 /\ (call'[i].copies = 1 => call[i].copies = 0)
    BY <1>1, <1>3
  <2>3. (Carried(i) => Carried(i)') /\ (Unknown(i) => Unknown(i)')
    BY <1>2 DEF Carried, Unknown
  <2>4. \A n \in 1..Len(down') : Tells(n, i)' => n \in 1..Len(down) /\ Tells(n, i) /\ down'[n] = down[n]
    BY <1>2 DEF Tells
  <2>5. \A n \in 1..Len(down') : Tells(n, i)' /\ down'[n].b = "ok" => Carried(i)'
    BY <2>1, <2>3, <2>4 DEF CallOk
  <2>6. call'[i].copies = 1 => Unknown(i)' /\ Untold(i)' /\ \A n \in 1..Len(up) : ~Asks(n, i)
    <3>1. call[i].copies = 0 => Unknown(i) /\ Untold(i) /\ \A n \in 1..Len(up) : ~Asks(n, i)
      BY <2>1 DEF CallOk
    <3> QED
      BY <2>2, <2>3, <2>4, <3>1 DEF Untold
  <2>7. call'[i].copies = 1 => \A n \in 1..Len(up') : Asks(n, i)' => n = l
    BY <1>6, <2>6 DEF Asks
  <2>8. call'[i].answer = "none"
    BY <1>3
  <2> QED
    BY <2>2, <2>5, <2>6, <2>7, <2>8 DEF CallOk, Unrun, Untold
<1> QED
  BY <1>8, <1>9, <1>10, <1>11 DEF DedupeInv, CallInv

LEMMA PhoneKeeps ==
    ASSUME TypeInv, up' \in Seq(UpMessage), DedupeInv, SessionsGrow, PhoneReceives
    PROVE  DedupeInv'
<1> DEFINE m == Head(down)
<1>1. /\ Len(down) > 0 /\ UNCHANGED <<linked, blocked, gateway, device, latest, faults, amiss>>
      /\ m \in DownMessage /\ m = down[1]
      /\ Greets(m) \/ Readies(m) \/ Follows(m) \/ Resumes(m) \/ Learns(m) \/ Baffled(m) \/ Quits
  BY PhoneReceivesIs
<1> HIDE DEF m
<1>2. UNCHANGED <<sess, entry, table, amiss>>
  BY <1>1 DEF gateway
<1>3. CASE Learns(m)
  BY <1>1, <1>2, <1>3, LearnsKeeps
<1>4. ASSUME ~Learns(m) PROVE call' = call /\ (down' = Tail(down) \/ down' = <<>>)
  BY <1>1, <1>4 DEF Greets, Readies, Follows, Resumes, Baffled, Quits
<1>5. ASSUME ~Learns(m) PROVE OldTells(down')
  BY <1>1, <1>4, <1>5, DownOld
<1>6. ASSUME ~Learns(m)
      PROVE  up' = up \/ \E x \in UpMessage : x.k # "request" /\ (up' = Append(up, x) \/ up' = <<x>>)
  <2>1. m.s \in Nat /\ phone.key \in Nat
    BY <1>1 DEF TypeInv, DownMessage
  <2>2. \A s \in Nat : Plain("auth", s) \in UpMessage /\ Plain("disconnect", s) \in UpMessage /\ Sealed("resync", s, 0, 0) \in UpMessage
    BY DEF Plain, Sealed, UpMessage
  <2>3. \A s \in Nat : Plain("auth", s).k = "auth" /\ Plain("disconnect", s).k = "disconnect" /\ Sealed("resync", s, 0, 0).k = "resync"
    BY DEF Plain, Sealed
  <2>4. \/ up' = up \/ up' = Append(up, Plain("auth", m.s)) \/ up' = Append(up, Plain("disconnect", 0))
        \/ up' = Append(up, Sealed("resync", phone.key, 0, 0))
    BY <1>1, <1>6 DEF Greets, Readies, Follows, Resumes, Baffled, Quits, Written, ToGateway
  <2> QED
    BY <2>1, <2>2, <2>3, <2>4
<1>7. ASSUME ~Learns(m) PROVE OldAsks
  <2>1. up' = up \/ \E x \in UpMessage : x.k # "request" /\ (up' = Append(up, x) \/ up' = <<x>>)
    BY <1>6, <1>7
  <2> QED
    BY <2>1, UpOld
<1>8. CASE ~Learns(m)
  BY <1>2, <1>4, <1>5, <1>7, <1>8, CalmKeeps
<1> QED
  BY <1>3, <1>8

LEMMA DedupeStep ==
    ASSUME TypeInv, DedupeInv, [Next]_vars
    PROVE  DedupeInv'
<1>1. up' \in Seq(UpMessage) /\ SessionsGrow
  <2>1. TypeInv'
    BY TypeStep
  <2>2. up' \in Seq(UpMessage)
    BY <2>1 DEF TypeInv
  <2> QED
    BY <2>2, Grows
<1>2. /\ sess \in Seq(SessionType) /\ cur \in 0..Len(sess) /\ cur \in Nat /\ down \in Seq(DownMessage) /\ latest \in Nat
      /\ up \in Seq(UpMessage)
  BY DEF TypeInv
<1>3. OldTells(down) /\ OldTells(<<>>)
  BY DownOld
<1>4. ASSUME UNCHANGED <<entry, table, call>>, OldTells(down'), "evicted" \in amiss => "evicted" \in amiss',
             \/ up' = up \/ up' = <<>> \/ (up' = Tail(up) /\ Len(up) > 0)
             \/ up' = Append(up, Plain("disconnect", 0)) \/ up' = Append(up, Plain("connect", 0)) \/ up' = <<Plain("connect", 0)>>
      PROVE  DedupeInv'
  <2>1. /\ Plain("disconnect", 0) \in UpMessage /\ Plain("connect", 0) \in UpMessage
        /\ Plain("disconnect", 0).k = "disconnect" /\ Plain("connect", 0).k = "connect"
    BY DEF Plain, UpMessage
  <2>2. OldAsks
    <3>1. \/ up' = up \/ up' = <<>> \/ (up' = Tail(up) /\ Len(up) > 0)
          \/ \E x \in UpMessage : x.k # "request" /\ (up' = Append(up, x) \/ up' = <<x>>)
      BY <1>4, <2>1
    <3> QED
      BY <3>1, UpOld
  <2> QED
    BY <1>1, <1>4, <2>2, CalmKeeps
<1>5. CASE FromBridge
  <2>1. Len(up) > 0 /\ up' = Tail(up) /\ call' = call
    BY <1>5, FromBridgeIs
  <2>2. CASE Asked(Head(up))
    BY <1>1, <2>1, <2>2, AskedKeeps
  <2>3. CASE ~Asked(Head(up))
    <3>1. OldTells(down') /\ UNCHANGED <<entry, table, amiss, call>>
      BY <1>5, <2>3, BridgeCalm
    <3> QED
      BY <1>4, <2>1, <3>1
  <2> QED
    BY <2>2, <2>3
<1>6. CASE Frame
  <2>1. Patches /\ UNCHANGED <<linked, entry, table, device, up, phone, call, faults, amiss>>
    BY <1>6, FrameIs
  <2>2. OldTells(down')
    <3>1. CASE Sendable
      <4>1. down' = Put(down, cur, Sealed("patch", cur, sess[cur].seq + 1, latest + 1))
        BY <2>1, <3>1 DEF Patches
      <4>3. Sealed("patch", cur, sess[cur].seq + 1, latest + 1) \in DownMessage
        BY <3>1, PatchIs
      <4>4. Sealed("patch", cur, sess[cur].seq + 1, latest + 1).k = "patch"
        BY DEF Sealed
      <4> QED
        BY <1>2, <1>3, <4>1, <4>3, <4>4, PutOld
    <3>2. CASE ~Sendable
      BY <1>3, <2>1, <3>2 DEF Patches, Stays
    <3> QED
      BY <3>1, <3>2
  <2> QED
    BY <1>4, <2>1, <2>2
<1>7. ASSUME NEW s \in DOMAIN sess, AuthTimer(s) PROVE DedupeInv'
  <2>1. Times(s) /\ UNCHANGED <<linked, entry, table, device, latest, up, phone, call, faults>>
    BY <1>7, AuthTimerIs
  <2>2. OldTells(down')
    <3>1. s \in Nat
      BY <1>2
    <3>2. Plain("authFail", s) \in DownMessage
      BY <3>1, PlainIs
    <3>3. Plain("authFail", s).k = "authFail"
      BY DEF Plain
    <3>4. OldTells(Put(down, cur, FailMessage(s)))
      BY <1>2, <1>3, <3>2, <3>3, PutOld DEF FailMessage
    <3> QED
      BY <1>3, <2>1, <3>4 DEF Times
  <2>3. "evicted" \in amiss => "evicted" \in amiss'
    BY <2>1 DEF Times
  <2> QED
    BY <1>4, <2>1, <2>2, <2>3
<1>8. CASE Revoke
  <2>1. Shuts /\ UNCHANGED <<linked, entry, table, latest, up, phone, call, faults, amiss>>
    BY <1>8, RevokeIs
  <2>2. OldTells(down')
    <3>1. Sealed("revoked", cur, 0, 0) \in DownMessage
      BY <1>2, SealedIs
    <3>2. Sealed("revoked", cur, 0, 0).k = "revoked"
      BY DEF Sealed
    <3>3. OldTells(Put(down, cur, Sealed("revoked", cur, 0, 0)))
      BY <1>2, <1>3, <3>1, <3>2, PutOld
    <3> QED
      BY <1>3, <2>1, <3>3 DEF Shuts, Stays
  <2> QED
    BY <1>4, <2>1, <2>2
<1>9. ASSUME NEW e \in DOMAIN entry, NEW a \in {"ok", "failed", "late"}, Settles(e, a) PROVE DedupeInv'
  BY <1>1, <1>9, SettlesKeeps
<1>10. ASSUME NEW e \in DOMAIN entry, Runs(e) PROVE DedupeInv'
  BY <1>1, <1>10, RunsKeeps
<1>11. CASE PhoneReceives
  BY <1>1, <1>11, PhoneKeeps
<1>12. ASSUME NEW i \in CallIds, PhoneCalls(i) PROVE DedupeInv'
  BY <1>1, <1>12, CallsKeeps
<1>13. CASE Expire \/ BlockEnds \/ UNCHANGED vars
  BY <1>3, <1>4, <1>13 DEF Expire, BlockEnds, gateway, vars
<1>14. CASE PhoneComes
  BY <1>3, <1>4, <1>14 DEF PhoneComes, ToGateway, gateway
<1>15. CASE PhoneGoes
  BY <1>3, <1>4, <1>15 DEF PhoneGoes, Leaves, ToGateway, gateway
<1>16. CASE LinkDrops
  <2>1. UNCHANGED <<entry, table, call>> /\ up' = <<>> /\ down' = <<>> /\ amiss' = amiss \cup {"drop"}
    BY <1>16 DEF LinkDrops
  <2> QED
    BY <1>3, <1>4, <2>1
<1>17. CASE LinkReturns
  <2>1. UNCHANGED <<entry, table, call, down, amiss>> /\ (up' = <<>> \/ up' = <<Plain("connect", 0)>>)
    BY <1>17 DEF LinkReturns, gateway
  <2> QED
    BY <1>3, <1>4, <2>1
<1>18. CASE Overflow
  <2>1. /\ UNCHANGED <<entry, table, call>> /\ (up' = up \/ up' = Append(up, Plain("disconnect", 0)))
        /\ down' = <<>> /\ amiss' = amiss \cup {"overflow"}
    BY <1>18 DEF Overflow, ToGateway, gateway
  <2> QED
    BY <1>3, <1>4, <2>1
<1> QED
  BY <1>5, <1>6, <1>7, <1>8, <1>9, <1>10, <1>11, <1>12, <1>13, <1>14, <1>15, <1>16, <1>17, <1>18 DEF Next

LEMMA DedupeInit ==
    ASSUME Init
    PROVE  DedupeInv
<1>1. entry = <<>> /\ up = <<>> /\ down = <<>> /\ call = [i \in CallIds |-> [copies |-> 0, answer |-> "none"]]
  BY DEF Init
<1>2. EntryInv /\ TableInv
  BY <1>1 DEF EntryInv, TableInv
<1>3. ASSUME NEW i \in CallIds PROVE CallOk(i)
  <2>1. call[i].copies = 0 /\ call[i].answer = "none"
    BY <1>1
  <2> QED
    BY <1>1, <2>1 DEF CallOk, Unknown, Untold
<1> QED
  BY <1>2, <1>3 DEF DedupeInv, CallInv

(* However the phone's copies of a call, its sessions, the lost links and the slow dispatches
   interleave, the call is carried out at most once and its answer is true: DedupeInv is
   inductive, and says why. A call whose copies may still come has one entry, and that entry
   is in the table; an answer was true of an entry when it was given. *)
THEOREM CommandsAppliedOnce == Spec => []AppliedOnce
<1>1. Init => TypeInv /\ DedupeInv
  BY TypeInit, DedupeInit
<1>2. TypeInv /\ DedupeInv /\ [Next]_vars => TypeInv' /\ DedupeInv'
  BY TypeStep, DedupeStep
<1>3. TypeInv /\ DedupeInv => AppliedOnce
  <2> SUFFICES ASSUME TypeInv, DedupeInv, NEW i \in CallIds
               PROVE  /\ "evicted" \notin amiss => Cardinality(RunsOf(i)) <= 1
                      /\ call[i].answer = "ok" => RunsOf(i) # {}
                      /\ call[i].answer \in {"limited", "early"} /\ call[i].copies = 1 => RunsOf(i) = {}
    BY DEF AppliedOnce
  <2>1. entry \in Seq(EntryType) /\ CallOk(i)
    BY DEF TypeInv, DedupeInv, CallInv
  <2>2. \A e \in RunsOf(i) : e \in 1..Len(entry) /\ entry[e].i = i /\ entry[e].ran
    BY <2>1 DEF RunsOf
  <2>3. ASSUME "evicted" \notin amiss PROVE Cardinality(RunsOf(i)) <= 1
    <3>1. \A e, f \in RunsOf(i) : e = f
      BY <2>2, <2>3 DEF DedupeInv, TableInv
    <3>2. CASE RunsOf(i) = {}
      <4>1. Cardinality(RunsOf(i)) = 0
        BY <3>2, FS_EmptySet
      <4> QED
        BY <4>1
    <3>3. CASE RunsOf(i) # {}
      <4>1. PICK e : RunsOf(i) = {e}
        BY <3>1, <3>3
      <4>2. Cardinality(RunsOf(i)) = 1
        BY <4>1, FS_Singleton
      <4> QED
        BY <4>2
    <3> QED
      BY <3>2, <3>3
  <2>4. ASSUME call[i].answer = "ok" PROVE RunsOf(i) # {}
    BY <2>1, <2>4 DEF CallOk, Carried, RunsOf
  <2>5. ASSUME call[i].answer \in {"limited", "early"}, call[i].copies = 1, NEW e \in RunsOf(i) PROVE FALSE
    <3>1. Early(i)
      BY <2>1, <2>5 DEF CallOk, Unrun
    <3>2. EntryOk(e) /\ entry[e].answer = "early" /\ entry[e].ran
      BY <2>2, <3>1 DEF Early, DedupeInv, EntryInv
    <3> QED
      BY <3>2 DEF EntryOk
  <2> QED
    BY <2>3, <2>4, <2>5
<1> QED
  BY <1>1, <1>2, <1>3, PTL DEF Spec
-----------------------------------------------------------------------------
(* What a paired phone shows is the live state *)

(* d is what was on its way, and perhaps more that no open session needs to have sent *)
Longer(d) ==
    /\ d \in Seq(DownMessage) /\ Len(d) >= Len(down) /\ \A n \in 1..Len(down) : d[n] = down[n]
    /\ \A n \in 1..Len(d) : n \in 1..Len(down) \/ d[n].k \notin OnOpen

(* The session stays where it was, or sends one more state *)
Still ==
    /\ cur' = cur /\ Longer(down')
    /\ sess'[cur].state = sess[cur].state /\ sess'[cur].pending = sess[cur].pending
    /\ sess'[cur].seq = sess[cur].seq /\ sess'[cur].fullSent = sess[cur].fullSent
    /\ latest' = latest \/ sess[cur].pending = TRUE
Forward ==
    /\ cur' = cur /\ sess'[cur].state = sess[cur].state
    /\ sess'[cur].pending = FALSE /\ sess'[cur].seq = sess[cur].seq + 1 /\ sess'[cur].fullSent = TRUE
    /\ \E d \in Seq(DownMessage), x \in DownMessage :
         /\ Longer(d) /\ down' = Put(d, cur, x)
         /\ x.k \in Update /\ x.s = cur /\ x.a = sess[cur].seq + 1 /\ x.b = latest'
         /\ x.k = "patch" => sess[cur].pending = FALSE

(* Nothing that has happened is forgotten *)
Noted == (Cut => Cut') /\ ("elsewhere" \in amiss => "elsewhere" \in amiss')

LEMMA UpdateIs ==
    ASSUME NEW y \in DownMessage, y.k \in Update
    PROVE  y.a \in Nat /\ y.b \in Nat /\ y.sealed = TRUE
<1>1. CASE y \in [k : {"hello", "authOk", "authFail"}, s : Nat, sealed : {FALSE}, a : {0}, b : {0}]
  BY <1>1 DEF Update
<1>2. CASE y \in [k : {"full", "patch", "revoked"}, s : Nat, sealed : {TRUE}, a : Nat, b : Nat]
  BY <1>2
<1>3. CASE y \in [k : {"response"}, s : Nat, sealed : {TRUE}, a : CallIds, b : Answers]
  BY <1>3 DEF Update
<1> QED
  BY <1>1, <1>2, <1>3 DEF DownMessage

LEMMA PutLonger ==
    ASSUME TypeInv, NEW d, Longer(d), NEW c, NEW x \in DownMessage, x.k \notin OnOpen
    PROVE  Longer(Put(d, c, x))
<1> DEFINE r == Put(d, c, x)
<1>1. d \in Seq(DownMessage) /\ Len(d) >= Len(down) /\ Len(down) \in Nat /\ Len(d) \in Nat
  BY DEF Longer, TypeInv
<1>2. /\ r \in Seq(DownMessage) /\ Len(r) \in {Len(d), Len(d) + 1} /\ \A n \in 1..Len(d) : r[n] = d[n]
      /\ \A n \in 1..Len(r) : n \in 1..Len(d) \/ (n = Len(d) + 1 /\ r[n] = x)
  BY <1>1, PutIs
<1> HIDE DEF r
<1>3. Longer(r)
  BY <1>1, <1>2 DEF Longer
<1> QED
  BY <1>3 DEF r

LEMMA StreamStill ==
    ASSUME TypeInv, StreamInv, Still, Noted, phone' = phone
    PROVE  StreamInv'
<1> SUFFICES ASSUME Following' PROVE Bounded' /\ Rising' /\ Gapless' /\ Current'
  BY DEF StreamInv
<1>1. /\ cur' = cur /\ sess'[cur].state = sess[cur].state /\ sess'[cur].pending = sess[cur].pending
      /\ sess'[cur].seq = sess[cur].seq /\ sess'[cur].fullSent = sess[cur].fullSent
      /\ latest' = latest \/ sess[cur].pending = TRUE
  BY DEF Still
<1>2. /\ down' \in Seq(DownMessage) /\ down \in Seq(DownMessage) /\ Len(down') >= Len(down)
      /\ \A n \in 1..Len(down) : down'[n] = down[n]
      /\ \A n \in 1..Len(down') : n \in 1..Len(down) \/ down'[n].k \notin OnOpen
  BY DEF Still, Longer, TypeInv
<1>3. \A n \in 1..Len(down') : down'[n].k \in OnOpen => n \in 1..Len(down) /\ down[n] = down'[n]
  BY <1>2
<1>4. Following
  BY <1>1, <1>3 DEF Following, Live, Noted, OnOpen
<1>5. \A n \in 1..Len(down') : News(n)' => n \in 1..Len(down) /\ News(n) /\ down[n] = down'[n]
  BY <1>1, <1>3 DEF News, OnOpen, Update
<1>6. \A n \in 1..Len(down) : News(n) => n \in 1..Len(down') /\ News(n)' /\ down[n] = down'[n]
  BY <1>1, <1>2 DEF News
<1>7. Bounded /\ Rising /\ Gapless /\ Current
  BY <1>4 DEF StreamInv
<1>8. Bounded'
  BY <1>1, <1>5, <1>7 DEF Bounded
<1>9. Rising'
  BY <1>5, <1>7 DEF Rising
<1>10. Gapless'
  BY <1>1, <1>6, <1>7 DEF Gapless
<1>11. Current'
  BY <1>1, <1>5, <1>7 DEF Current
<1> QED
  BY <1>8, <1>9, <1>10, <1>11

LEMMA StreamForward ==
    ASSUME TypeInv, SessionInv, StreamInv, Forward, Noted, phone' = phone
    PROVE  StreamInv'
<1> SUFFICES ASSUME Following' PROVE Bounded' /\ Rising' /\ Gapless' /\ Current'
  BY DEF StreamInv
<1>1. /\ cur' = cur /\ sess'[cur].state = sess[cur].state
      /\ sess'[cur].pending = FALSE /\ sess'[cur].seq = sess[cur].seq + 1 /\ sess'[cur].fullSent = TRUE
  BY DEF Forward
<1>2. PICK d \in Seq(DownMessage), x \in DownMessage :
        /\ Longer(d) /\ down' = Put(d, cur, x)
        /\ x.k \in Update /\ x.s = cur /\ x.a = sess[cur].seq + 1 /\ x.b = latest'
        /\ x.k = "patch" => sess[cur].pending = FALSE
  BY DEF Forward
<1>3. Live /\ phone.on = TRUE /\ "elsewhere" \notin amiss
  BY <1>1 DEF Following, Live, Noted
<1>4. linked = TRUE /\ cur # 0
  BY <1>3 DEF SessionInv, Live, TypeInv
<1>5. PICK l \in Nat : l = Len(d) + 1
  BY <1>2
<1>6. /\ down \in Seq(DownMessage) /\ Len(d) >= Len(down) /\ \A n \in 1..Len(down) : d[n] = down[n]
      /\ \A n \in 1..Len(d) : n \in 1..Len(down) \/ d[n].k \notin OnOpen
  BY <1>2 DEF Longer, TypeInv
<1>7. /\ Len(down') = l /\ down'[l] = x /\ \A n \in 1..Len(d) : down'[n] = d[n]
  <2>1. down' = Append(d, x)
    BY <1>2, <1>3, <1>4, PutIs
  <2> QED
    BY <1>2, <1>5, <2>1
<1>8. l \in 1..Len(down') /\ \A n \in 1..Len(down) : n \in 1..Len(down') /\ n < l /\ down'[n] = down[n]
  BY <1>2, <1>5, <1>6, <1>7
<1>9. \A n \in 1..Len(down') : down'[n].k \in OnOpen => (n \in 1..Len(down) /\ down[n] = down'[n]) \/ n = l
  BY <1>2, <1>5, <1>6, <1>7
<1>10. Following
  <2>1. \A n \in 1..Len(down') : down'[n].k = "authOk" => n \in 1..Len(down) /\ down[n] = down'[n]
    BY <1>2, <1>7, <1>9 DEF OnOpen, Update
  <2> QED
    BY <1>1, <1>3, <2>1 DEF Following, Noted
<1>11. Bounded /\ Rising /\ Gapless /\ Current
  BY <1>10 DEF StreamInv
<1>12. PICK q \in Nat : q = sess[cur].seq
  <2>1. sess[cur] \in SessionType
    BY <1>4 DEF TypeInv
  <2> QED
    BY <2>1 DEF SessionType
<1>13. phone.seq \in Nat /\ phone.seq <= q /\ \A n \in 1..Len(down) : News(n) => down[n].a <= q /\ down[n].a \in Int
  <2>1. phone.seq \in Nat
    BY DEF TypeInv
  <2>2. \A n \in 1..Len(down) : News(n) => down[n].a \in Int
    <3>1. ASSUME NEW n \in 1..Len(down), News(n) PROVE down[n].a \in Nat
      <4>1. down[n] \in DownMessage /\ down[n].k \in Update
        BY <1>6, <3>1 DEF News
      <4> QED
        BY <4>1, UpdateIs
    <3> QED
      BY <3>1
  <2> QED
    BY <1>11, <1>12, <2>1, <2>2 DEF Bounded
<1>14. \A n \in 1..Len(down') : News(n)' => (n \in 1..Len(down) /\ News(n) /\ down[n] = down'[n]) \/ n = l
  BY <1>1, <1>9 DEF News, OnOpen, Update
<1>15. News(l)' /\ x.a = q + 1 /\ \A n \in 1..Len(down) : News(n) => News(n)'
  BY <1>1, <1>2, <1>7, <1>8, <1>12 DEF News
<1>16. Bounded'
  <2>1. x.a = 1 => x.k = "full"
    <3>1. ASSUME x.a = 1, x.k = "patch" PROVE FALSE
      <4>1. sess[cur].seq > 0
        BY <1>2, <1>11, <3>1 DEF Current
      <4> QED
        BY <1>12, <1>15, <3>1, <4>1
    <3> QED
      BY <1>2, <3>1 DEF Update
  <2>2. ASSUME NEW n \in 1..Len(down'), News(n)'
        PROVE  phone.seq < down'[n].a /\ down'[n].a <= q + 1 /\ (down'[n].a = 1 => down'[n].k = "full")
    <3>1. CASE n = l
      BY <1>7, <1>13, <1>15, <2>1, <3>1
    <3>2. CASE n \in 1..Len(down) /\ News(n) /\ down[n] = down'[n]
      BY <1>11, <1>13, <3>2 DEF Bounded
    <3> QED
      BY <1>14, <2>2, <3>1, <3>2
  <2> QED
    BY <1>1, <1>12, <1>13, <2>2 DEF Bounded
<1>17. Rising'
  <2>1. ASSUME NEW n \in 1..Len(down'), NEW m \in 1..Len(down'), News(n)', News(m)', n < m PROVE down'[n].a < down'[m].a
    <3>1. n # l
      BY <1>7, <2>1
    <3>2. n \in 1..Len(down) /\ News(n) /\ down[n] = down'[n]
      BY <1>14, <2>1, <3>1
    <3>3. CASE m = l
      BY <1>7, <1>13, <1>15, <3>2, <3>3
    <3>4. CASE m \in 1..Len(down) /\ News(m) /\ down[m] = down'[m]
      BY <1>11, <2>1, <3>2, <3>4 DEF Rising
    <3> QED
      BY <1>14, <2>1, <3>3, <3>4
  <2> QED
    BY <2>1 DEF Rising
<1>18. Gapless'
  <2>1. ASSUME NEW v \in 1..q + 1, phone.seq < v PROVE \E n \in 1..Len(down') : News(n)' /\ down'[n].a = v
    <3>1. CASE v \in 1..q
      <4>1. PICK n \in 1..Len(down) : News(n) /\ down[n].a = v
        BY <1>11, <1>12, <2>1, <3>1 DEF Gapless
      <4> QED
        BY <1>8, <1>15, <4>1
    <3>2. CASE v = q + 1
      BY <1>7, <1>8, <1>15, <3>2
    <3> QED
      BY <1>12, <3>1, <3>2
  <2> QED
    BY <1>1, <1>12, <2>1 DEF Gapless
<1>19. Current'
  <2>1. ASSUME NEW n \in 1..Len(down'), News(n)', down'[n].a = q + 1 PROVE down'[n].b = latest'
    BY <1>2, <1>7, <1>13, <1>14, <2>1
  <2>2. q + 1 > 0 /\ phone.seq # q + 1
    BY <1>13
  <2> QED
    BY <1>1, <1>12, <2>1, <2>2 DEF Current
<1> QED
  BY <1>16, <1>17, <1>18, <1>19

(* The phone takes a message that tells it nothing of the state *)
LEMMA StreamShift ==
    ASSUME TypeInv, StreamInv, Len(down) > 0, ~News(1), down' = Tail(down), UNCHANGED <<sess, cur, latest>>,
           phone'.seq = phone.seq, phone'.frame = phone.frame, Following
    PROVE  StreamInv'
<1>1. down \in Seq(DownMessage)
  BY DEF TypeInv
<1>2. \A n \in 1..Len(down') : n + 1 \in 1..Len(down) /\ down'[n] = down[n + 1]
  BY <1>1
<1>3. \A n \in 1..Len(down') : News(n)' => News(n + 1)
  BY <1>2 DEF News
<1>4. ASSUME NEW n \in 1..Len(down), News(n)
      PROVE  \E m \in 1..Len(down') : News(m)' /\ down'[m] = down[n]
  <2>1. n # 1
    BY <1>4
  <2>2. n - 1 \in 1..Len(down') /\ down'[n - 1] = down[n]
    BY <1>1, <2>1
  <2>3. News(n - 1)'
    BY <1>4, <2>2 DEF News
  <2> QED
    BY <2>2, <2>3
<1>5. Bounded /\ Rising /\ Gapless /\ Current
  BY DEF StreamInv
<1>6. Bounded'
  BY <1>2, <1>3, <1>5 DEF Bounded
<1>7. Rising'
  <2>1. ASSUME NEW n \in 1..Len(down'), NEW m \in 1..Len(down'), News(n)', News(m)', n < m PROVE down'[n].a < down'[m].a
    <3>1. /\ n + 1 \in 1..Len(down) /\ m + 1 \in 1..Len(down) /\ n + 1 < m + 1 /\ News(n + 1) /\ News(m + 1)
          /\ down'[n] = down[n + 1] /\ down'[m] = down[m + 1]
      BY <1>2, <1>3, <2>1
    <3> QED
      BY <1>5, <3>1 DEF Rising
  <2> QED
    BY <2>1 DEF Rising
<1>8. Gapless'
  <2>1. ASSUME NEW v \in 1..sess[cur].seq, phone.seq < v PROVE \E n \in 1..Len(down') : News(n)' /\ down'[n].a = v
    <3>1. PICK n \in 1..Len(down) : News(n) /\ down[n].a = v
      BY <1>5, <2>1 DEF Gapless
    <3>2. PICK m \in 1..Len(down') : News(m)' /\ down'[m] = down[n]
      BY <1>4, <3>1
    <3> QED
      BY <3>1, <3>2
  <2> QED
    BY <2>1 DEF Gapless
<1>9. Current'
  <2>1. ASSUME sess[cur].pending = FALSE, NEW n \in 1..Len(down'), News(n)', down'[n].a = sess[cur].seq PROVE down'[n].b = latest
    <3>1. n + 1 \in 1..Len(down) /\ News(n + 1) /\ down'[n] = down[n + 1]
      BY <1>2, <1>3, <2>1
    <3> QED
      BY <1>5, <2>1, <3>1 DEF Current
  <2> QED
    BY <1>5, <2>1 DEF Current
<1> QED
  BY <1>6, <1>7, <1>8, <1>9 DEF StreamInv

(* The phone's state is followed by the next one, with none left out *)
LEMMA NextNews ==
    ASSUME TypeInv, StreamInv, Following, Len(down) > 0, News(1)
    PROVE  down[1].a = phone.seq + 1 /\ down[1].a <= sess[cur].seq /\ (down[1].k = "patch" => phone.seq # 0)
<1>1. down \in Seq(DownMessage) /\ cur \in 1..Len(sess) /\ sess \in Seq(SessionType) /\ phone.seq \in Nat
  BY DEF TypeInv, Following, Live
<1>2. PICK q \in Nat : q = sess[cur].seq
  <2>1. sess[cur] \in SessionType
    BY <1>1
  <2> QED
    BY <2>1 DEF SessionType
<1>3. 1 \in 1..Len(down) /\ down[1] \in DownMessage
  BY <1>1
<1>4. down[1].a \in Nat
  BY <1>3, UpdateIs DEF News
<1>5. Bounded /\ Rising /\ Gapless
  BY DEF StreamInv
<1>6. phone.seq < down[1].a /\ down[1].a <= q /\ (down[1].a = 1 => down[1].k = "full")
  BY <1>2, <1>3, <1>5 DEF Bounded
<1>7. phone.seq + 1 \in 1..q /\ phone.seq < phone.seq + 1
  BY <1>1, <1>4, <1>6
<1>8. PICK n \in 1..Len(down) : News(n) /\ down[n].a = phone.seq + 1
  BY <1>2, <1>5, <1>7 DEF Gapless
<1>9. n = 1
  <2>1. ASSUME n # 1 PROVE FALSE
    <3>1. 1 < n
      BY <2>1
    <3>2. down[1].a < phone.seq + 1
      BY <1>3, <1>5, <1>8, <3>1 DEF Rising
    <3> QED
      BY <1>1, <1>4, <1>6, <3>2
  <2> QED
    BY <2>1
<1> QED
  BY <1>1, <1>2, <1>6, <1>8, <1>9

LEMMA StreamFollows ==
    ASSUME TypeInv, StreamInv, Following, Len(down) > 0, News(1), down' = Tail(down), UNCHANGED <<sess, cur, latest>>,
           phone' = [phone EXCEPT !.seq = down[1].a, !.frame = down[1].b]
    PROVE  StreamInv'
<1>1. /\ down \in Seq(DownMessage) /\ cur \in 1..Len(sess) /\ sess \in Seq(SessionType) /\ phone.seq \in Nat
      /\ phone \in [on : BOOLEAN, parts : Nat, key : Nat, bad : Nat, seq : Nat, frame : Nat]
  BY DEF TypeInv, Following, Live
<1>2. PICK q \in Nat : q = sess[cur].seq
  <2>1. sess[cur] \in SessionType
    BY <1>1
  <2> QED
    BY <2>1 DEF SessionType
<1>3. PICK p \in Nat : p = phone.seq + 1
  BY <1>1
<1>4. down[1].a = p /\ p <= q
  BY <1>2, <1>3, NextNews
<1>5. phone'.seq = p /\ phone'.frame = down[1].b /\ 1 \in 1..Len(down)
  BY <1>1, <1>4
<1>6. Bounded /\ Rising /\ Gapless /\ Current
  BY DEF StreamInv
<1>7. \A n \in 1..Len(down') : n + 1 \in 1..Len(down) /\ 1 < n + 1 /\ down'[n] = down[n + 1]
  BY <1>1
<1>8. \A n \in 1..Len(down') : News(n)' => News(n + 1)
  BY <1>7 DEF News
<1>9. Bounded'
  <2>1. ASSUME NEW n \in 1..Len(down'), News(n)'
        PROVE  p < down'[n].a /\ down'[n].a <= q /\ (down'[n].a = 1 => down'[n].k = "full")
    <3>1. n + 1 \in 1..Len(down) /\ 1 < n + 1 /\ down'[n] = down[n + 1] /\ News(n + 1)
      BY <1>7, <1>8, <2>1
    <3>2. p < down[n + 1].a
      BY <1>4, <1>5, <1>6, <3>1 DEF Rising
    <3> QED
      BY <1>2, <1>6, <3>1, <3>2 DEF Bounded
  <2> QED
    BY <1>2, <1>4, <1>5, <2>1 DEF Bounded
<1>10. Rising'
  <2>1. ASSUME NEW n \in 1..Len(down'), NEW m \in 1..Len(down'), News(n)', News(m)', n < m PROVE down'[n].a < down'[m].a
    <3>1. /\ n + 1 \in 1..Len(down) /\ m + 1 \in 1..Len(down) /\ n + 1 < m + 1 /\ News(n + 1) /\ News(m + 1)
          /\ down'[n] = down[n + 1] /\ down'[m] = down[m + 1]
      BY <1>7, <1>8, <2>1
    <3> QED
      BY <1>6, <3>1 DEF Rising
  <2> QED
    BY <2>1 DEF Rising
<1>11. Gapless'
  <2>1. ASSUME NEW v \in 1..q, p < v PROVE \E n \in 1..Len(down') : News(n)' /\ down'[n].a = v
    <3>1. phone.seq < v
      BY <1>1, <1>3, <2>1
    <3>2. PICK n \in 1..Len(down) : News(n) /\ down[n].a = v
      BY <1>2, <1>6, <3>1 DEF Gapless
    <3>3. n # 1
      BY <1>4, <2>1, <3>2
    <3>4. n - 1 \in 1..Len(down') /\ down'[n - 1] = down[n]
      BY <1>1, <3>3
    <3>5. News(n - 1)'
      BY <3>2, <3>4 DEF News
    <3> QED
      BY <3>2, <3>4, <3>5
  <2> QED
    BY <1>2, <1>5, <2>1 DEF Gapless
<1>12. Current'
  <2>1. ASSUME sess[cur].pending = FALSE, NEW n \in 1..Len(down'), News(n)', down'[n].a = q PROVE down'[n].b = latest
    <3>1. n + 1 \in 1..Len(down) /\ News(n + 1) /\ down'[n] = down[n + 1]
      BY <1>7, <1>8, <2>1
    <3> QED
      BY <1>2, <1>6, <2>1, <3>1 DEF Current
  <2>2. ASSUME sess[cur].pending = FALSE, p = q PROVE phone'.frame = latest
    BY <1>2, <1>4, <1>5, <1>6, <2>2 DEF Current
  <2> QED
    BY <1>2, <1>5, <1>6, <2>1, <2>2 DEF Current
<1> QED
  BY <1>9, <1>10, <1>11, <1>12 DEF StreamInv

LEMMA StreamPhone ==
    ASSUME TypeInv, SessionInv, StreamInv, PhoneReceives
    PROVE  StreamInv'
<1> SUFFICES ASSUME Following' PROVE StreamInv'
  BY DEF StreamInv
<1> DEFINE m == Head(down)
<1>1. /\ phone.on = TRUE /\ Len(down) > 0 /\ UNCHANGED <<sess, cur, latest, amiss>>
      /\ m \in DownMessage /\ m = down[1]
      /\ Greets(m) \/ Readies(m) \/ Follows(m) \/ Resumes(m) \/ Learns(m) \/ Baffled(m) \/ Quits
  BY PhoneReceivesIs DEF gateway
<1> HIDE DEF m
<1>2. /\ down \in Seq(DownMessage) /\ up \in Seq(UpMessage) /\ 1 \in 1..Len(down)
      /\ phone \in [on : BOOLEAN, parts : Nat, key : Nat, bad : Nat, seq : Nat, frame : Nat]
  BY <1>1 DEF TypeInv
<1>3. Live /\ "elsewhere" \notin amiss /\ cur # 0 /\ phone'.on = TRUE
  BY <1>1 DEF Following, Live
<1>4. ASSUME down' = Tail(down), phone'.key = phone.key, Cut => Cut' PROVE Following
  <2>1. CASE phone.key = cur /\ ~Cut'
    BY <1>1, <1>3, <1>4, <2>1 DEF Following
  <2>2. CASE phone.key = 0 /\ \E n \in 1..Len(down') : down'[n].k = "authOk" /\ down'[n].s = cur
    <3>1. \A n \in 1..Len(down') : n + 1 \in 1..Len(down) /\ down'[n] = down[n + 1]
      BY <1>2, <1>4
    <3> QED
      BY <1>1, <1>3, <2>2, <3>1 DEF Following
  <2> QED
    BY <1>1, <1>4, <2>1, <2>2 DEF Following
<1>5. CASE Greets(m)
  <2>1. phone'.key = phone.key /\ phone'.seq = phone.seq /\ phone'.frame = phone.frame /\ down' = Tail(down)
    BY <1>2, <1>5 DEF Greets
  <2>2. ~News(1)
    BY <1>1, <1>5 DEF Greets, News, Update
  <2>3. Following
    <3>1. phone.key = 0 /\ cur # 0
      BY <1>3, <1>5 DEF Greets
    <3>2. \E n \in 1..Len(down') : down'[n].k = "authOk" /\ down'[n].s = cur
      BY <1>1, <2>1, <3>1 DEF Following
    <3>3. \A n \in 1..Len(down') : n + 1 \in 1..Len(down) /\ down'[n] = down[n + 1]
      BY <1>2, <2>1
    <3> QED
      BY <1>1, <1>3, <3>1, <3>2, <3>3 DEF Following
  <2> QED
    BY <1>1, <2>1, <2>2, <2>3, StreamShift
<1>6. CASE Readies(m)
  <2>1. phone'.key = m.s /\ phone'.seq = phone.seq /\ phone'.frame = phone.frame /\ down' = Tail(down) /\ m.k = "authOk"
        /\ phone.key = 0
    BY <1>2, <1>6 DEF Readies
  <2>2. ~News(1)
    BY <1>1, <2>1 DEF News, Update
  <2>3. m.s # 0
    BY <1>1, <1>2, <2>1 DEF SessionInv, OnOpen
  <2>4. m.s = cur
    BY <1>1, <2>1, <2>3 DEF Following
  <2>5. Following
    BY <1>1, <1>2, <1>3, <2>1, <2>4 DEF Following
  <2> QED
    BY <1>1, <2>1, <2>2, <2>5, StreamShift
<1>7. CASE Follows(m)
  <2>1. phone'.key = phone.key /\ up' = up /\ down' = Tail(down) /\ phone.key # 0
    BY <1>2, <1>7 DEF Follows
  <2>2. Following
    BY <1>4, <2>1 DEF Cut
  <2>3. phone.key = cur
    BY <2>1, <2>2 DEF Following
  <2>4. News(1)
    BY <1>1, <1>7, <2>3 DEF Follows, News, Update
  <2> QED
    BY <1>1, <1>7, <2>2, <2>4, StreamFollows DEF Follows
<1>8. CASE Resumes(m)
  <2>1. phone'.key = phone.key /\ down' = Tail(down) /\ phone.key # 0 /\ Written(Sealed("resync", phone.key, 0, 0))
    BY <1>2, <1>8 DEF Resumes
  <2>2. Cut => Cut'
    BY <1>2, <2>1 DEF Cut, Written
  <2>3. Following
    BY <1>4, <2>1, <2>2
  <2>4. phone.key = cur
    BY <2>1, <2>3 DEF Following
  <2>5. News(1)
    BY <1>1, <1>8, <2>4 DEF Resumes, News, Update
  <2>6. m.a = phone.seq + 1 /\ phone.seq # 0
    BY <1>1, <1>8, <2>3, <2>5, NextNews DEF Resumes
  <2> QED
    BY <1>8, <2>6 DEF Resumes
<1>9. CASE Learns(m)
  <2>1. phone' = phone /\ up' = up /\ down' = Tail(down)
    BY <1>9 DEF Learns
  <2>2. ~News(1)
    BY <1>1, <1>9 DEF Learns, News, Update
  <2>3. Following
    BY <1>4, <2>1 DEF Cut
  <2> QED
    BY <1>1, <2>1, <2>2, <2>3, StreamShift
<1>10. CASE Baffled(m)
  <2>1. phone'.key = phone.key /\ phone'.seq = phone.seq /\ phone'.frame = phone.frame /\ up' = up /\ down' = Tail(down)
        /\ phone.key # 0
    BY <1>2, <1>10 DEF Baffled
  <2>2. Following
    BY <1>4, <2>1 DEF Cut
  <2>3. phone.key = cur
    BY <2>1, <2>2 DEF Following
  <2>4. ~News(1)
    <3>1. m.k \in Update => m.sealed = TRUE
      BY <1>1, UpdateIs
    <3> QED
      BY <1>1, <1>10, <2>3, <3>1 DEF Baffled, News
  <2> QED
    BY <1>1, <2>1, <2>2, <2>4, StreamShift
<1>11. CASE Quits
  BY <1>3, <1>11 DEF Quits, NoPhone
<1> QED
  BY <1>1, <1>5, <1>6, <1>7, <1>8, <1>9, <1>10, <1>11

(* A session opens: with nothing sent while it is pending, with the whole state otherwise *)
Start ==
    /\ cur' \in 1..Len(sess') /\ (cur' \in 1..Len(sess) => sess[cur'].state = "hello")
    /\ \A n \in 1..Len(down') : down'[n].k \in Update =>
         (\E m \in 1..Len(down) : down[m] = down'[n]) \/ (n = Len(down') /\ sess'[cur'].pending = FALSE)
    /\ sess'[cur'].pending = TRUE => sess'[cur'].seq = 0 /\ sess'[cur'].fullSent = FALSE
    /\ sess'[cur'].pending = FALSE =>
         /\ sess'[cur'].seq = 1 /\ sess'[cur'].fullSent = TRUE
         /\ phone.on = TRUE =>
              \E n \in 1..Len(down') :
                n = Len(down') /\ down'[n].k = "full" /\ down'[n].s = cur' /\ down'[n].a = 1 /\ down'[n].b = latest'

LEMMA StreamStart ==
    ASSUME TypeInv, SessionInv, Start, phone' = phone, sess'[cur'].pending \in BOOLEAN
    PROVE  StreamInv'
<1> SUFFICES ASSUME Following' PROVE Bounded' /\ Rising' /\ Gapless' /\ Current'
  BY DEF StreamInv
<1>1. cur' \in 1..Len(sess') /\ cur' # 0 /\ phone.on = TRUE
  BY DEF Start, Following, Live
<1>2. ~(cur' \in 1..Len(sess) /\ sess[cur'].state = "open")
  BY DEF Start
<1>3. phone.key = 0 /\ phone.seq = 0
  <2>1. phone.key = cur' \/ phone.key = 0
    BY DEF Following
  <2> QED
    BY <1>1, <1>2, <2>1 DEF SessionInv
<1>4. \A n \in 1..Len(down') : News(n)' => n = Len(down') /\ sess'[cur'].pending = FALSE
  <2>1. ASSUME NEW n \in 1..Len(down'), News(n)' PROVE n = Len(down') /\ sess'[cur'].pending = FALSE
    <3>1. down'[n].k \in Update /\ down'[n].s = cur' /\ down'[n].k \in OnOpen
      BY <2>1 DEF News, Update, OnOpen
    <3>2. ~\E m \in 1..Len(down) : down[m] = down'[n]
      BY <1>2, <3>1 DEF SessionInv
    <3> QED
      BY <3>1, <3>2 DEF Start
  <2> QED
    BY <2>1
<1>5. Rising'
  BY <1>4 DEF Rising
<1>6. CASE sess'[cur'].pending = TRUE
  <2>1. sess'[cur'].seq = 0 /\ sess'[cur'].fullSent = FALSE /\ \A n \in 1..Len(down') : ~News(n)'
    BY <1>4, <1>6 DEF Start
  <2> QED
    BY <1>3, <1>5, <1>6, <2>1 DEF Bounded, Gapless, Current
<1>7. CASE sess'[cur'].pending = FALSE
  <2>1. sess'[cur'].seq = 1 /\ sess'[cur'].fullSent = TRUE
    BY <1>7 DEF Start
  <2>2. PICK l \in 1..Len(down') :
          l = Len(down') /\ down'[l].k = "full" /\ down'[l].s = cur' /\ down'[l].a = 1 /\ down'[l].b = latest'
    BY <1>1, <1>7 DEF Start
  <2>3. News(l)' /\ \A n \in 1..Len(down') : News(n)' => n = l
    BY <1>4, <2>2 DEF News, Update
  <2>4. Bounded'
    BY <1>3, <2>1, <2>2, <2>3 DEF Bounded
  <2>5. Gapless'
    BY <2>1, <2>2, <2>3 DEF Gapless
  <2>6. Current'
    BY <1>3, <1>7, <2>1, <2>2, <2>3 DEF Current
  <2> QED
    BY <1>5, <2>4, <2>5, <2>6
<1> QED
  BY <1>6, <1>7

(* What a step of the gateway may do to the stream *)
Gated == ~Live' \/ (Noted /\ (Still \/ Forward)) \/ (Start /\ sess'[cur'].pending \in BOOLEAN)

LEMMA StreamGate ==
    ASSUME TypeInv, SessionInv, StreamInv, phone' = phone, Gated
    PROVE  StreamInv'
<1>1. CASE ~Live'
  BY <1>1 DEF StreamInv, Following
<1>2. CASE Noted /\ (Still \/ Forward)
  BY <1>2, StreamStill, StreamForward
<1>3. CASE Start /\ sess'[cur'].pending \in BOOLEAN
  BY <1>3, StreamStart
<1> QED
  BY <1>1, <1>2, <1>3 DEF Gated

(* What a step may do to the sessions, and what it may send of them *)
OpenNext(s) == s \in 1..Len(sess') /\ sess'[s].state = "open"
FromOpen(d) ==
    \A n \in 1..Len(d) : d[n].k \in OnOpen => (\E m \in 1..Len(down) : down[m] = d[n]) \/ OpenNext(d[n].s)
HelloKept ==
    \A s \in 1..Len(sess') : sess'[s].state = "hello" =>
        \/ sess'[s].seq = 0 /\ sess'[s].fullSent = FALSE
        \/ s \in 1..Len(sess) /\ sess[s].state = "hello" /\ sess'[s].seq = sess[s].seq /\ sess'[s].fullSent = sess[s].fullSent
PhoneKept ==
    /\ phone'.on = FALSE => phone'.key = 0
    /\ phone'.key = 0 => phone'.seq = 0
    /\ phone'.key # 0 =>
         phone'.key = phone.key \/ \E m \in 1..Len(down) : down[m].k = "authOk" /\ down[m].s = phone'.key

LEMMA SessionKeeps ==
    ASSUME SessionInv, SessionsGrow, Len(sess) \in Nat, Len(sess') \in Nat, FromOpen(down'), HelloKept, PhoneKept,
           linked' = FALSE => cur' = 0
    PROVE  SessionInv'
<1>1. \A s \in 1..Len(sess) : sess[s].state = "open" => s \in 1..Len(sess') /\ sess'[s].state = "open"
  BY DEF SessionsGrow
<1>2. ASSUME NEW n \in 1..Len(down'), down'[n].k \in OnOpen PROVE OpenNext(down'[n].s)
  BY <1>1, <1>2 DEF FromOpen, SessionInv, OpenNext
<1>3. phone'.key # 0 => OpenNext(phone'.key)
  BY <1>1 DEF PhoneKept, SessionInv, OpenNext, OnOpen
<1>4. ASSUME NEW s \in 1..Len(sess'), sess'[s].state = "hello" PROVE sess'[s].seq = 0 /\ sess'[s].fullSent = FALSE
  BY <1>4 DEF HelloKept, SessionInv
<1> QED
  BY <1>2, <1>3, <1>4 DEF SessionInv, PhoneKept, OpenNext

LEMMA HelloIs ==
    ASSUME sess \in Seq(SessionType),
           \/ sess' = sess
           \/ \E s \in 1..Len(sess) :
                /\ Others(sess, sess', s)
                /\ \/ sess'[s].state = "open"
                   \/ sess'[s].state = sess[s].state /\ sess'[s].seq = sess[s].seq /\ sess'[s].fullSent = sess[s].fullSent
    PROVE  HelloKept
<1>1. CASE sess' = sess
  BY <1>1 DEF HelloKept
<1>2. ASSUME NEW s \in 1..Len(sess), Others(sess, sess', s),
             \/ sess'[s].state = "open"
             \/ sess'[s].state = sess[s].state /\ sess'[s].seq = sess[s].seq /\ sess'[s].fullSent = sess[s].fullSent
      PROVE  HelloKept
  <2>1. Len(sess') = Len(sess) /\ \A t \in 1..Len(sess) : t # s => sess'[t] = sess[t]
    BY <1>2 DEF Others
  <2>2. ASSUME NEW t \in 1..Len(sess), sess'[t].state = "hello"
        PROVE  sess[t].state = "hello" /\ sess'[t].seq = sess[t].seq /\ sess'[t].fullSent = sess[t].fullSent
    <3>1. CASE t = s
      BY <1>2, <2>2, <3>1
    <3>2. CASE t # s
      BY <2>1, <2>2, <3>2
    <3> QED
      BY <3>1, <3>2
  <2> QED
    BY <2>1, <2>2 DEF HelloKept
<1> QED
  BY <1>1, <1>2

LEMMA PutOpen ==
    ASSUME NEW d \in Seq(DownMessage), NEW c, NEW x \in DownMessage, FromOpen(d), x.k \in OnOpen => OpenNext(x.s)
    PROVE  FromOpen(Put(d, c, x))
<1> DEFINE r == Put(d, c, x)
<1>1. /\ \A n \in 1..Len(d) : r[n] = d[n]
      /\ \A n \in 1..Len(r) : n \in 1..Len(d) \/ (n = Len(d) + 1 /\ r[n] = x)
  BY PutIs
<1> HIDE DEF r
<1>2. FromOpen(r)
  BY <1>1 DEF FromOpen
<1> QED
  BY <1>2 DEF r

LEMMA LongerOpen ==
    ASSUME TypeInv
    PROVE  /\ Longer(down) /\ FromOpen(<<>>) /\ (Len(down) > 0 => FromOpen(Tail(down)))
           /\ \A d : Longer(d) => FromOpen(d)
<1>1. down \in Seq(DownMessage) /\ Len(down) \in Nat
  BY DEF TypeInv
<1>2. Longer(down) /\ FromOpen(<<>>)
  BY <1>1 DEF Longer, FromOpen
<1>3. ASSUME Len(down) > 0 PROVE FromOpen(Tail(down))
  <2>1. \A n \in 1..Len(Tail(down)) : n + 1 \in 1..Len(down) /\ Tail(down)[n] = down[n + 1]
    BY <1>1, <1>3
  <2> QED
    BY <2>1 DEF FromOpen
<1>4. ASSUME NEW d, Longer(d) PROVE FromOpen(d)
  BY <1>4 DEF Longer, FromOpen
<1> QED
  BY <1>2, <1>3, <1>4

LEMMA FullForward ==
    ASSUME TypeInv, Live, Full(cur), sess[cur].pending = FALSE, latest' = latest
    PROVE  Forward /\ HelloKept /\ FromOpen(down')
<1>1. /\ sess \in Seq(SessionType) /\ cur \in 1..Len(sess) /\ cur \in Nat /\ down \in Seq(DownMessage) /\ latest \in Nat
      /\ sess[cur] \in SessionType
  BY DEF TypeInv, Live
<1>2. PICK q \in Nat : q = sess[cur].seq + 1
  BY <1>1 DEF SessionType
<1> DEFINE x == Sealed("full", cur, q, latest)
<1>3. x \in DownMessage
  BY <1>1, SealedIs
<1>4. x.k = "full" /\ x.s = cur /\ x.a = q /\ x.b = latest
  BY DEF Sealed
<1>5. cur' = cur /\ Others(sess, sess', cur) /\ sess'[cur] = [sess[cur] EXCEPT !.fullSent = TRUE, !.seq = q] /\ down' = Put(down, cur, x)
  BY <1>2 DEF Full
<1> HIDE DEF x
<1>6. /\ sess'[cur].state = sess[cur].state /\ sess'[cur].pending = FALSE
      /\ sess'[cur].seq = q /\ sess'[cur].fullSent = TRUE
  BY <1>1, <1>5 DEF SessionType
<1>7. Longer(down) /\ FromOpen(down)
  BY LongerOpen
<1>8. Forward
  BY <1>1, <1>2, <1>3, <1>4, <1>5, <1>6, <1>7 DEF Forward, Update
<1>9. HelloKept
  BY <1>1, <1>5, <1>6, HelloIs DEF Live
<1>10. OpenNext(cur)
  BY <1>1, <1>5, <1>6 DEF OpenNext, Others, Live
<1>11. FromOpen(down')
  BY <1>1, <1>3, <1>4, <1>5, <1>7, <1>10, PutOpen
<1> QED
  BY <1>8, <1>9, <1>11

LEMMA BeginsStream ==
    ASSUME TypeInv, SessionInv, linked, UNCHANGED <<latest, phone>>, NEW m, NEW g \in Gateways, NEW h \in Gateways, Begins(m, g, h)
    PROVE  Gated /\ HelloKept /\ FromOpen(down')
<1>1. /\ sess \in Seq(SessionType) /\ cur \in 0..Len(sess) /\ cur \in Nat /\ down \in Seq(DownMessage) /\ latest \in Nat
      /\ Len(sess) + 1 \in Nat
  BY DEF TypeInv
<1>2. sess' = h.sess /\ cur' = h.cur /\ down' = h.down /\ Others(g.sess, h.sess, g.cur)
  BY DEF Begins
<1>3. PICK s \in Nat : s = g.cur
  BY DEF Gateways
<1>4. g.sess \in Seq(SessionType) /\ g.down \in Seq(DownMessage)
  BY DEF Gateways
<1>5. NewSession \in SessionType /\ NewSession.state = "hello" /\ NewSession.seq = 0 /\ NewSession.fullSent = FALSE
  BY DEF NewSession, SessionType
<1>6. /\ s \in 1..Len(g.sess) /\ s # 0 /\ (s \in 1..Len(sess) => sess[s].state = "hello")
      /\ g.sess[s] \in SessionType /\ g.sess[s].state = "hello" /\ g.sess[s].seq = 0 /\ g.sess[s].fullSent = FALSE
      /\ \A t \in 1..Len(g.sess) : t # s => t \in 1..Len(sess) /\ g.sess[t] = sess[t]
  <2>1. CASE cur # 0
    BY <1>1, <1>3, <1>4, <2>1 DEF Begins, SessionInv
  <2>2. CASE cur = 0
    <3>1. s = Len(sess) + 1 /\ g.sess = Append(sess, NewSession)
      BY <1>3, <2>2 DEF Begins
    <3> QED
      BY <1>1, <1>5, <3>1
  <2> QED
    BY <2>1, <2>2
<1>7. Longer(g.down)
  <2>1. Longer(down)
    BY LongerOpen
  <2>2. CASE cur # 0
    BY <2>1, <2>2 DEF Begins
  <2>3. CASE cur = 0
    <3>1. g.down = Put(down, Len(sess) + 1, Plain("hello", Len(sess) + 1))
      BY <2>3 DEF Begins
    <3>2. Plain("hello", Len(sess) + 1) \in DownMessage
      BY <1>1, PlainIs
    <3>3. Plain("hello", Len(sess) + 1).k = "hello"
      BY DEF Plain
    <3> QED
      BY <2>1, <3>1, <3>2, <3>3, PutLonger DEF OnOpen
  <2> QED
    BY <2>2, <2>3
<1>8. FromOpen(g.down)
  BY <1>7, LongerOpen
<1> DEFINE no == Plain("authFail", s)
           ok == Plain("authOk", s)
           f == Sealed("full", s, 1, latest)
<1>9. no \in DownMessage /\ ok \in DownMessage
  BY <1>3, PlainIs
<1>10. f \in DownMessage
  BY <1>1, <1>3, SealedIs
<1>11. no.k = "authFail" /\ ok.k = "authOk" /\ ok.s = s /\ f.k = "full" /\ f.s = s /\ f.a = 1 /\ f.b = latest
  BY DEF Plain, Sealed
<1>12. Refused(g, h, s, m) \/ Failed(g, h, s, m) \/ Opens2(g, h, s, m)
  BY <1>3 DEF Begins
<1>13. ASSUME h.sess[s].state = "open" \/ (h.sess[s].seq = 0 /\ h.sess[s].fullSent = FALSE) PROVE HelloKept
  BY <1>2, <1>3, <1>6, <1>13 DEF Others, HelloKept
<1>14. CASE Refused(g, h, s, m) \/ Failed(g, h, s, m)
  <2>1. h.sess[s].state = "hello" /\ h.sess[s].seq = 0 /\ h.sess[s].fullSent = FALSE
    <3>1. CASE Refused(g, h, s, m)
      BY <1>6, <3>1 DEF Refused
    <3>2. CASE Failed(g, h, s, m)
      <4>1. h.sess[s] = [g.sess[s] EXCEPT !.tries = g.sess[s].tries + 1]
        BY <3>2 DEF Failed
      <4> QED
        BY <1>6, <4>1 DEF SessionType
    <3> QED
      BY <1>14, <3>1, <3>2
  <2>2. h.cur = 0 \/ h.cur = s
    BY <1>14 DEF Refused, Failed
  <2>3. h.down = Put(g.down, s, no)
    BY <1>14 DEF Refused, Failed, FailMessage
  <2> HIDE DEF no
  <2>4. FromOpen(down')
    BY <1>2, <1>4, <1>8, <1>9, <1>11, <2>3, PutOpen DEF OnOpen
  <2>5. ~Live'
    BY <1>2, <2>1, <2>2 DEF Live
  <2> QED
    BY <1>13, <2>1, <2>4, <2>5 DEF Gated
<1>15. CASE Opens2(g, h, s, m)
  <2> DEFINE r == Put(g.down, s, ok)
  <2>1. h.cur = s /\ cur' = s
    BY <1>2, <1>15 DEF Opens2
  <2>2. CASE device = "pending"
    <3>1. h.sess[s] = OpenPending(g.sess[s]) /\ h.down = r
      BY <1>15, <2>2 DEF Opens2
    <3>2. /\ h.sess[s].state = "open" /\ h.sess[s].pending = TRUE /\ h.sess[s].seq = 0 /\ h.sess[s].fullSent = FALSE
      BY <1>6, <3>1 DEF OpenPending, SessionType
    <3>3. OpenNext(s) /\ s \in 1..Len(sess')
      BY <1>2, <1>3, <1>6, <3>2 DEF OpenNext, Others
    <3> HIDE DEF ok
    <3>4. FromOpen(down')
      BY <1>2, <1>4, <1>8, <1>9, <1>11, <3>1, <3>3, PutOpen
    <3>5. \A n \in 1..Len(r) : r[n].k \in Update => \E k \in 1..Len(down) : down[k] = r[n]
      <4>1. \A n \in 1..Len(r) : (n \in 1..Len(g.down) /\ r[n] = g.down[n]) \/ r[n] = ok
        BY <1>4, <1>9, PutIs
      <4> QED
        BY <1>7, <1>11, <4>1 DEF Longer, Update, OnOpen
    <3> HIDE DEF r
    <3>6. Start
      BY <1>2, <1>6, <2>1, <3>1, <3>2, <3>3, <3>5 DEF Start
    <3>7. sess'[cur'].pending \in BOOLEAN
      BY <1>2, <2>1, <3>2
    <3> QED
      BY <1>13, <3>2, <3>4, <3>6, <3>7 DEF Gated
  <2>3. CASE device # "pending"
    <3>1. h.sess[s] = OpenFull(g.sess[s]) /\ h.down = Put(r, s, f)
      BY <1>6, <1>15, <2>3 DEF Opens2
    <3>2. /\ h.sess[s].state = "open" /\ h.sess[s].pending = FALSE /\ h.sess[s].seq = 1 /\ h.sess[s].fullSent = TRUE
      BY <1>6, <3>1 DEF OpenFull, SessionType
    <3>3. OpenNext(s) /\ s \in 1..Len(sess')
      BY <1>2, <1>3, <1>6, <3>2 DEF OpenNext, Others
    <3> HIDE DEF ok, f
    <3>4. FromOpen(r) /\ r \in Seq(DownMessage)
      BY <1>4, <1>8, <1>9, <1>11, <3>3, PutOpen, PutIs
    <3>5. \A n \in 1..Len(r) : r[n].k \in Update => \E k \in 1..Len(down) : down[k] = r[n]
      <4>1. \A n \in 1..Len(r) : (n \in 1..Len(g.down) /\ r[n] = g.down[n]) \/ r[n] = ok
        BY <1>4, <1>9, PutIs
      <4> QED
        BY <1>7, <1>11, <4>1 DEF Longer, Update, OnOpen
    <3> HIDE DEF r
    <3>6. FromOpen(down')
      BY <1>2, <1>10, <1>11, <3>1, <3>3, <3>4, PutOpen
    <3> DEFINE w == Put(r, s, f)
    <3>7. /\ \A n \in 1..Len(w) : (n \in 1..Len(r) /\ w[n] = r[n]) \/ (n = Len(r) + 1 /\ w[n] = f)
          /\ Len(w) \in {Len(r), Len(r) + 1} /\ Len(r) \in Nat
          /\ phone.on = TRUE => Len(w) = Len(r) + 1 /\ w = Append(r, f)
      BY <1>6, <1>10, <3>4, PutIs
    <3> HIDE DEF w
    <3>8. \A n \in 1..Len(w) : w[n].k \in Update => (\E k \in 1..Len(down) : down[k] = w[n]) \/ n = Len(w)
      BY <3>5, <3>7
    <3>9. phone.on = TRUE => \E n \in 1..Len(w) : n = Len(w) /\ w[n] = f
      <4>1. ASSUME phone.on = TRUE PROVE Len(w) \in 1..Len(w) /\ w[Len(w)] = f
        BY <3>4, <3>7, <4>1
      <4> QED
        BY <4>1
    <3>10. down' = w
      BY <1>2, <3>1 DEF w
    <3>11. Start
      BY <1>2, <1>6, <1>11, <2>1, <3>2, <3>3, <3>8, <3>9, <3>10 DEF Start
    <3>12. sess'[cur'].pending \in BOOLEAN
      BY <1>2, <2>1, <3>2
    <3> QED
      BY <1>13, <3>2, <3>6, <3>11, <3>12 DEF Gated
  <2> QED
    BY <2>2, <2>3
<1> QED
  BY <1>12, <1>14, <1>15

LEMMA BridgeStream ==
    ASSUME TypeInv, SessionInv, FromBridge
    PROVE  Gated /\ HelloKept /\ FromOpen(down')
<1> DEFINE m == Head(up)
<1>1. /\ linked /\ Len(up) > 0 /\ up' = Tail(up) /\ UNCHANGED <<linked, device, latest, phone, call>>
      /\ m \in UpMessage /\ m = up[1]
      /\ Connects(m) \/ Ends(m) \/ Asked(m) \/ Resyncs(m) \/ Garbled(m) \/ \E g, h \in Gateways : Begins(m, g, h)
  BY FromBridgeIs
<1> HIDE DEF m
<1>2. /\ sess \in Seq(SessionType) /\ cur \in 0..Len(sess) /\ cur \in Nat /\ down \in Seq(DownMessage) /\ latest \in Nat
      /\ Len(sess) + 1 \in Nat /\ up \in Seq(UpMessage)
  BY DEF TypeInv
<1>3. Longer(down) /\ FromOpen(down)
  BY LongerOpen
<1>4. m.k # "disconnect" => (Cut => Cut')
  <2>1. \A n \in 1..Len(up) : n # 1 => n - 1 \in 1..Len(up') /\ up'[n - 1] = up[n]
    BY <1>1, <1>2
  <2> QED
    BY <1>1, <2>1 DEF Cut
<1>5. CASE Stays /\ m.k # "disconnect" /\ amiss' = amiss
  <2>1. Still
    BY <1>1, <1>3, <1>5 DEF Still, Stays
  <2>2. HelloKept
    BY <1>2, <1>5, HelloIs DEF Stays
  <2> QED
    BY <1>3, <1>4, <1>5, <2>1, <2>2 DEF Gated, Noted, Stays
<1>6. CASE Connects(m) /\ cur = 0
  <2>1. sess' = Append(sess, NewSession) /\ cur' = Len(sess) + 1 /\ down' = Put(down, Len(sess) + 1, Plain("hello", Len(sess) + 1))
    BY <1>6 DEF Connects
  <2>2. Plain("hello", Len(sess) + 1) \in DownMessage
    BY <1>2, PlainIs
  <2>3. Plain("hello", Len(sess) + 1).k = "hello"
    BY DEF Plain
  <2>4. FromOpen(down')
    BY <1>2, <1>3, <2>1, <2>2, <2>3, PutOpen DEF OnOpen
  <2>5. NewSession.state = "hello" /\ NewSession.seq = 0 /\ NewSession.fullSent = FALSE
    BY DEF NewSession
  <2>6. /\ Len(sess') = Len(sess) + 1 /\ sess'[Len(sess) + 1] = NewSession
        /\ \A s \in 1..Len(sess') : (s \in 1..Len(sess) /\ sess'[s] = sess[s]) \/ s = Len(sess) + 1
    BY <1>2, <2>1
  <2>7. HelloKept
    BY <2>5, <2>6 DEF HelloKept
  <2>8. ~Live'
    BY <2>1, <2>5, <2>6 DEF Live
  <2> QED
    BY <2>4, <2>7, <2>8 DEF Gated
<1>7. CASE Ends(m)
  <2>1. cur' = 0 /\ down' = down
    BY <1>7 DEF Ends
  <2>2. HelloKept
    <3>1. CASE cur = 0
      BY <1>2, <1>7, <3>1, HelloIs DEF Ends
    <3>2. CASE cur # 0
      <4>1. sess[cur] \in SessionType /\ cur \in 1..Len(sess)
        BY <1>2, <3>2
      <4>2. Others(sess, sess', cur) /\ sess'[cur] = [sess[cur] EXCEPT !.timer = FALSE]
        BY <1>7, <3>2 DEF Ends, Stopped
      <4>3. sess'[cur].state = sess[cur].state /\ sess'[cur].seq = sess[cur].seq /\ sess'[cur].fullSent = sess[cur].fullSent
        BY <4>1, <4>2 DEF SessionType
      <4> QED
        BY <1>2, <4>1, <4>2, <4>3, HelloIs
    <3> QED
      BY <3>1, <3>2
  <2> QED
    BY <1>3, <2>1, <2>2 DEF Gated, Live
<1>8. CASE Asked(m)
  <2>1. cur # 0 /\ m.k = "request" /\ Request(cur, m.a)
    BY <1>8 DEF Asked
  <2>2. PICK i \in CallIds : i = m.a
    BY <1>1, <2>1 DEF UpMessage
  <2>3. Asking(i)
    BY <2>1, <2>2, RequestIs
  <2>4. UNCHANGED <<sess, cur, blocked>> /\ ("elsewhere" \in amiss => "elsewhere" \in amiss')
    BY <2>3 DEF Asking
  <2>5. \A answer \in Answers : Longer(Put(down, cur, Response(cur, i, answer)))
    <3>1. ASSUME NEW answer \in Answers PROVE Longer(Put(down, cur, Response(cur, i, answer)))
      <4>1. Response(cur, i, answer) \in DownMessage
        BY <1>2, ResponseIs
      <4>2. Response(cur, i, answer).k = "response"
        BY DEF Response, Sealed
      <4> QED
        BY <1>3, <4>1, <4>2, PutLonger DEF OnOpen
    <3> QED
      BY <3>1
  <2>6. Longer(down')
    <3>1. \A e \in DOMAIN entry : entry[e].answer \in Answers /\ entry[e].done \in BOOLEAN
      <4>1. entry \in Seq(EntryType)
        BY DEF TypeInv
      <4>2. \A e \in DOMAIN entry : entry[e] \in EntryType
        BY <4>1
      <4>3. \A v \in EntryType : v.answer \in Answers /\ v.done \in BOOLEAN
        BY DEF EntryType
      <4> QED
        BY <4>2, <4>3
    <3>2. CASE Repeats(i)
      BY <1>3, <2>5, <3>1, <3>2 DEF Repeats, Answered
    <3>3. CASE Limits(i) \/ Takes(i)
      BY <1>3, <2>5, <3>3 DEF Limits, Takes, Answered, Answers
    <3> QED
      BY <2>3, <3>2, <3>3 DEF Asking
  <2>7. Still
    BY <1>1, <2>4, <2>6 DEF Still
  <2>8. HelloKept
    BY <1>2, <2>4, HelloIs
  <2> QED
    BY <1>4, <2>1, <2>4, <2>6, <2>7, <2>8, LongerOpen DEF Gated, Noted
<1>9. CASE Resyncs(m) /\ cur # 0 /\ sess[cur].pending = FALSE
  <2>1. Live /\ Full(cur) /\ m.k = "resync" /\ amiss' = amiss
    BY <1>9 DEF Resyncs, Live, Same
  <2>2. Forward /\ HelloKept /\ FromOpen(down')
    BY <1>1, <1>9, <2>1, FullForward
  <2> QED
    BY <1>4, <2>1, <2>2 DEF Gated, Noted
<1>10. CASE Garbled(m)
  <2>1. /\ cur \in 1..Len(sess) /\ Others(sess, sess', cur) /\ cur' \in {0, cur} /\ amiss' = amiss
        /\ sess'[cur].state = sess[cur].state /\ sess'[cur].seq = sess[cur].seq
        /\ sess'[cur].fullSent = sess[cur].fullSent /\ sess'[cur].pending = sess[cur].pending
        /\ m.k # "disconnect" /\ down' \in {down, Put(down, cur, FailMessage(cur))}
    BY <1>2, <1>10 DEF Garbled, Same
  <2>2. Plain("authFail", cur) \in DownMessage
    BY <1>2, PlainIs
  <2>3. Plain("authFail", cur).k = "authFail"
    BY DEF Plain
  <2>4. Longer(Put(down, cur, FailMessage(cur)))
    BY <1>3, <2>2, <2>3, PutLonger DEF OnOpen, FailMessage
  <2>5. Longer(down')
    BY <1>3, <2>1, <2>4
  <2>6. HelloKept
    BY <1>2, <2>1, HelloIs
  <2>7. CASE cur' = 0
    BY <2>5, <2>6, <2>7, LongerOpen DEF Gated, Live
  <2>8. CASE cur' = cur
    <3>1. Still
      BY <1>1, <2>1, <2>5, <2>8 DEF Still
    <3> QED
      BY <1>4, <2>1, <2>5, <2>6, <3>1, LongerOpen DEF Gated, Noted
  <2> QED
    BY <2>1, <2>7, <2>8
<1>11. CASE \E g, h \in Gateways : Begins(m, g, h)
  BY <1>1, <1>11, BeginsStream
<1>12. Connects(m) => cur = 0 \/ (Stays /\ m.k # "disconnect" /\ amiss' = amiss)
  BY DEF Connects, Same
<1>13. Resyncs(m) => (cur # 0 /\ sess[cur].pending = FALSE) \/ (Stays /\ m.k # "disconnect" /\ amiss' = amiss)
  <2>1. ASSUME cur # 0 PROVE sess[cur].pending \in BOOLEAN
    <3>1. sess[cur] \in SessionType
      BY <1>2, <2>1
    <3> QED
      BY <3>1 DEF SessionType
  <2> QED
    BY <2>1 DEF Resyncs, Same
<1> QED
  BY <1>1, <1>5, <1>6, <1>7, <1>8, <1>9, <1>10, <1>11, <1>12, <1>13

LEMMA FrameStream ==
    ASSUME TypeInv, SessionInv, StreamInv, Frame
    PROVE  StreamInv' /\ HelloKept /\ FromOpen(down')
<1>1. Patches /\ UNCHANGED <<linked, up, phone, amiss>>
  BY FrameIs
<1>2. /\ cur \in 0..Len(sess) /\ cur \in Nat /\ sess \in Seq(SessionType) /\ latest + 1 \in Nat /\ down \in Seq(DownMessage)
  BY DEF TypeInv
<1>3. Longer(down) /\ FromOpen(down)
  BY LongerOpen
<1>4. Noted
  BY <1>1 DEF Noted, Cut
<1>5. CASE Sendable
  <2>1. sess[cur] \in SessionType /\ cur \in 1..Len(sess)
    BY <1>2, <1>5 DEF Sendable
  <2>2. PICK q \in Nat : q = sess[cur].seq + 1
    BY <2>1 DEF SessionType
  <2> DEFINE x == Sealed("patch", cur, q, latest + 1)
  <2>3. x \in DownMessage
    BY <1>2, SealedIs
  <2>4. x.k = "patch" /\ x.s = cur /\ x.a = q /\ x.b = latest + 1
    BY DEF Sealed
  <2>5. /\ cur' = cur /\ Others(sess, sess', cur) /\ sess'[cur] = [sess[cur] EXCEPT !.seq = q] /\ down' = Put(down, cur, x)
        /\ latest' = latest + 1
    BY <1>1, <1>5, <2>2 DEF Patches
  <2> HIDE DEF x
  <2>6. /\ sess'[cur].state = sess[cur].state /\ sess'[cur].pending = FALSE /\ sess[cur].pending = FALSE
        /\ sess'[cur].seq = q /\ sess'[cur].fullSent = TRUE /\ sess[cur].state = "open"
    BY <1>5, <2>1, <2>5 DEF SessionType, Sendable
  <2>7. Forward
    BY <1>2, <1>3, <2>2, <2>3, <2>4, <2>5, <2>6 DEF Forward, Update
  <2>8. HelloKept
    BY <1>2, <2>1, <2>5, <2>6, HelloIs
  <2>9. OpenNext(cur)
    BY <2>1, <2>5, <2>6 DEF OpenNext, Others
  <2>10. FromOpen(down')
    BY <1>2, <1>3, <2>3, <2>4, <2>5, <2>9, PutOpen
  <2> QED
    BY <1>1, <1>4, <2>7, <2>8, <2>10, StreamGate DEF Gated
<1>6. CASE ~Sendable
  <2>1. Stays
    BY <1>1, <1>6 DEF Patches
  <2>2. HelloKept /\ FromOpen(down')
    BY <1>2, <1>3, <2>1, HelloIs DEF Stays
  <2>3. StreamInv'
    <3> SUFFICES ASSUME Following' PROVE StreamInv'
      BY DEF StreamInv
    <3>1. Following
      BY <1>1, <2>1 DEF Following, Live, Cut, Stays
    <3>2. Current /\ Live
      BY <3>1 DEF StreamInv, Following
    <3>3. sess[cur].pending \in BOOLEAN
      <4>1. sess[cur] \in SessionType
        BY <1>2, <3>2 DEF Live
      <4> QED
        BY <4>1 DEF SessionType
    <3>4. sess[cur].pending = TRUE
      BY <1>6, <3>2, <3>3 DEF Current, Live, Sendable
    <3>5. Still
      BY <1>3, <2>1, <3>4 DEF Still, Stays
    <3> QED
      BY <1>1, <1>4, <3>5, StreamGate DEF Gated
  <2> QED
    BY <2>2, <2>3
<1> QED
  BY <1>5, <1>6

LEMMA SettlesStream ==
    ASSUME TypeInv, EntryInv, SessionInv, StreamInv,
           NEW e \in DOMAIN entry, NEW answer \in {"ok", "failed", "late"}, Settles(e, answer)
    PROVE  StreamInv' /\ HelloKept /\ FromOpen(down')
<1>1. Settling(e, answer) /\ Record(e, answer) /\ UNCHANGED <<linked, latest, up, phone>>
  BY SettlesIs
<1>2. /\ cur \in Nat /\ cur \in 0..Len(sess) /\ sess \in Seq(SessionType) /\ latest \in Nat /\ down \in Seq(DownMessage)
      /\ entry \in Seq(EntryType) /\ e \in 1..Len(entry)
  BY DEF TypeInv
<1>3. PICK s \in 1..Len(sess) : s = entry[e].by
  BY <1>2 DEF TypeInv
<1>4. PICK i \in CallIds : i = entry[e].i
  <2>1. entry[e] \in EntryType
    BY <1>2
  <2> QED
    BY <2>1 DEF EntryType
<1>5. sess[s].state = "open" /\ sess[s] \in SessionType
  BY <1>2, <1>3 DEF EntryInv, EntryOk
<1>6. PICK q \in Nat : q = sess[s].seq + 1
  BY <1>5 DEF SessionType
<1> DEFINE x == Response(cur, i, answer)
           f == Sealed("full", s, q, latest)
           d == ToldOf(e, answer)
<1>7. x \in DownMessage
  BY <1>2, ResponseIs DEF Answers
<1>8. f \in DownMessage
  <2>1. s \in Nat
    BY <1>2, <1>3
  <2> QED
    BY <1>2, <2>1, SealedIs
<1>9. x.k = "response" /\ f.k = "full" /\ f.s = s /\ f.a = q /\ f.b = latest
  BY DEF Response, Sealed
<1>10. d = down \/ d = Put(down, cur, x)
  BY <1>4 DEF ToldOf
<1>11. /\ cur' = cur /\ Len(sess') = Len(sess)
       /\ \A t \in 1..Len(sess) :
            /\ sess'[t].state = sess[t].state
            /\ Releases(e, answer) /\ t = cur => sess'[t].pending = FALSE
            /\ ~(Releases(e, answer) /\ t = cur) => sess'[t].pending = sess[t].pending
            /\ Activates(e, answer) /\ t = s => sess'[t].seq = sess[t].seq + 1 /\ sess'[t].fullSent = TRUE
            /\ ~(Activates(e, answer) /\ t = s) => sess'[t].seq = sess[t].seq /\ sess'[t].fullSent = sess[t].fullSent
       /\ Activates(e, answer) => down' = Put(d, cur, f)
       /\ ~Activates(e, answer) => down' = d
  BY <1>1, <1>3, <1>6 DEF Settling
<1> HIDE DEF x, f, d
<1>12. Longer(d)
  <2>1. Longer(down)
    BY LongerOpen
  <2> QED
    BY <1>7, <1>9, <1>10, <2>1, PutLonger DEF OnOpen
<1>13. OpenNext(s)
  BY <1>5, <1>11 DEF OpenNext
<1>14. FromOpen(down')
  <2>1. FromOpen(d) /\ d \in Seq(DownMessage)
    BY <1>12, LongerOpen DEF Longer
  <2>2. FromOpen(Put(d, cur, f))
    BY <1>8, <1>9, <1>13, <2>1, PutOpen
  <2> QED
    BY <1>11, <2>1, <2>2
<1>15. HelloKept
  <2>1. ASSUME NEW t \in 1..Len(sess), sess'[t].state = "hello"
        PROVE  sess[t].state = "hello" /\ sess'[t].seq = sess[t].seq /\ sess'[t].fullSent = sess[t].fullSent
    BY <1>5, <1>11, <2>1
  <2> QED
    BY <1>11, <2>1 DEF HelloKept
<1>16. Noted
  BY <1>1 DEF Noted, Cut, Record
<1>17. StreamInv'
  <2> SUFFICES ASSUME Following' PROVE StreamInv'
    BY DEF StreamInv
  <2>1. cur # 0 /\ "elsewhere" \notin amiss' /\ sess[cur].state = "open" /\ cur \in 1..Len(sess)
    BY <1>2, <1>11 DEF Following, Live
  <2>2. CASE Activates(e, answer)
    <3>1. s = cur
      BY <1>1, <1>3, <2>1, <2>2 DEF Record
    <3>2. sess'[cur].pending = FALSE
      <4>1. CASE Releases(e, answer)
        BY <1>11, <2>1, <4>1
      <4>2. CASE ~Releases(e, answer)
        <5>1. sess[cur].pending = FALSE
          BY <1>3, <1>5, <2>1, <2>2, <3>1, <4>2 DEF Releases, SessionType
        <5> QED
          BY <1>11, <2>1, <4>2, <5>1
      <4> QED
        BY <4>1, <4>2
    <3>3. d \in Seq(DownMessage)
      BY <1>12 DEF Longer
    <3>4. Forward
      BY <1>1, <1>6, <1>8, <1>9, <1>11, <1>12, <2>1, <2>2, <3>1, <3>2, <3>3 DEF Forward, Update
    <3> QED
      BY <1>1, <1>16, <3>4, StreamGate DEF Gated
  <2>3. CASE ~Activates(e, answer)
    <3>1. ~Releases(e, answer)
      BY <2>3 DEF Releases
    <3>2. Still
      BY <1>1, <1>11, <1>12, <2>1, <2>3, <3>1 DEF Still
    <3> QED
      BY <1>1, <1>16, <3>2, StreamGate DEF Gated
  <2> QED
    BY <2>2, <2>3
<1> QED
  BY <1>14, <1>15, <1>17

LEMMA PhoneSession ==
    ASSUME TypeInv, SessionInv, PhoneReceives
    PROVE  PhoneKept /\ FromOpen(down')
<1> DEFINE m == Head(down)
<1>1. /\ phone.on = TRUE /\ Len(down) > 0 /\ m \in DownMessage /\ m = down[1]
      /\ Greets(m) \/ Readies(m) \/ Follows(m) \/ Resumes(m) \/ Learns(m) \/ Baffled(m) \/ Quits
  BY PhoneReceivesIs
<1> HIDE DEF m
<1>2. /\ phone \in [on : BOOLEAN, parts : Nat, key : Nat, bad : Nat, seq : Nat, frame : Nat]
      /\ down \in Seq(DownMessage) /\ 1 \in 1..Len(down)
  BY <1>1 DEF TypeInv
<1>3. down' = Tail(down) \/ down' = <<>>
  BY <1>1 DEF Greets, Readies, Follows, Resumes, Learns, Baffled, Quits
<1>4. FromOpen(down')
  BY <1>1, <1>3, LongerOpen
<1>5. phone.key = 0 => phone.seq = 0
  BY DEF SessionInv
<1>6. CASE Greets(m)
  <2>1. phone'.on = TRUE /\ phone'.key = phone.key /\ phone'.seq = phone.seq
    BY <1>1, <1>2, <1>6 DEF Greets
  <2> QED
    BY <1>4, <1>5, <2>1 DEF PhoneKept
<1>7. CASE Readies(m)
  <2>1. phone'.on = TRUE /\ phone'.key = m.s /\ phone'.seq = phone.seq /\ phone.key = 0 /\ m.k = "authOk"
    BY <1>1, <1>2, <1>7 DEF Readies
  <2> QED
    BY <1>1, <1>2, <1>4, <1>5, <2>1 DEF PhoneKept
<1>8. CASE Follows(m)
  <2>1. phone'.on = TRUE /\ phone'.key = phone.key /\ phone.key # 0
    BY <1>1, <1>2, <1>8 DEF Follows
  <2> QED
    BY <1>4, <2>1 DEF PhoneKept
<1>9. CASE Resumes(m)
  <2>1. phone'.on = TRUE /\ phone'.key = phone.key /\ phone.key # 0
    BY <1>1, <1>2, <1>9 DEF Resumes
  <2> QED
    BY <1>4, <2>1 DEF PhoneKept
<1>10. CASE Learns(m)
  <2>1. phone' = phone
    BY <1>10 DEF Learns
  <2> QED
    BY <1>1, <1>4, <1>5, <2>1 DEF PhoneKept
<1>11. CASE Baffled(m)
  <2>1. phone'.on = TRUE /\ phone'.key = phone.key /\ phone.key # 0
    BY <1>1, <1>2, <1>11 DEF Baffled
  <2> QED
    BY <1>4, <2>1 DEF PhoneKept
<1>12. CASE Quits
  BY <1>4, <1>12 DEF Quits, NoPhone, PhoneKept
<1> QED
  BY <1>1, <1>6, <1>7, <1>8, <1>9, <1>10, <1>11, <1>12

LEMMA StreamStep ==
    ASSUME TypeInv, EntryInv, SessionInv, StreamInv, [Next]_vars
    PROVE  SessionInv' /\ StreamInv'
<1>1. Len(sess') \in Nat /\ SessionsGrow /\ up' \in Seq(UpMessage)
  <2>1. TypeInv'
    BY TypeStep
  <2>2. sess' \in Seq(SessionType) /\ up' \in Seq(UpMessage)
    BY <2>1 DEF TypeInv
  <2> QED
    BY <2>2, Grows
<1>2. /\ sess \in Seq(SessionType) /\ cur \in 0..Len(sess) /\ cur \in Nat /\ down \in Seq(DownMessage) /\ up \in Seq(UpMessage)
      /\ Len(sess) \in Nat
  BY DEF TypeInv
<1>3. Longer(down) /\ FromOpen(down) /\ FromOpen(<<>>)
  BY LongerOpen
<1>4. ASSUME FromOpen(down'), HelloKept, PhoneKept, linked' = FALSE => cur' = 0 PROVE SessionInv'
  BY <1>1, <1>2, <1>4, SessionKeeps
<1>5. phone' = phone => PhoneKept
  BY DEF SessionInv, PhoneKept
<1>6. linked = FALSE => cur = 0
  BY DEF SessionInv
<1>7. sess' = sess => HelloKept
  BY <1>2, HelloIs
<1>8. CASE FromBridge
  <2>1. linked = TRUE /\ UNCHANGED <<linked, phone>>
    BY <1>8, FromBridgeIs DEF TypeInv
  <2>2. Gated /\ HelloKept /\ FromOpen(down')
    BY <1>8, BridgeStream
  <2>3. StreamInv'
    BY <2>1, <2>2, StreamGate
  <2>4. SessionInv'
    BY <1>4, <1>5, <2>1, <2>2
  <2> QED
    BY <2>3, <2>4
<1>9. CASE Frame
  <2>1. StreamInv' /\ HelloKept /\ FromOpen(down')
    BY <1>9, FrameStream
  <2>2. Patches /\ UNCHANGED <<linked, phone>>
    BY <1>9, FrameIs
  <2>3. cur' = cur
    BY <2>2 DEF Patches, Stays
  <2>4. SessionInv'
    BY <1>4, <1>5, <1>6, <2>1, <2>2, <2>3
  <2> QED
    BY <2>1, <2>4
<1>10. ASSUME NEW s \in 1..Len(sess), Stopped(s) PROVE HelloKept
  <2>1. sess[s] \in SessionType /\ Others(sess, sess', s) /\ sess'[s] = [sess[s] EXCEPT !.timer = FALSE]
    BY <1>2, <1>10 DEF Stopped
  <2>2. sess'[s].state = sess[s].state /\ sess'[s].seq = sess[s].seq /\ sess'[s].fullSent = sess[s].fullSent
    BY <2>1 DEF SessionType
  <2> QED
    BY <1>2, <2>1, <2>2, HelloIs
<1>11. ASSUME phone' = phone, cur' = 0, HelloKept, FromOpen(down') PROVE SessionInv' /\ StreamInv'
  <2>1. StreamInv'
    BY <1>11 DEF StreamInv, Following, Live
  <2> QED
    BY <1>4, <1>5, <1>11, <2>1
<1>12. ASSUME NEW s \in DOMAIN sess, AuthTimer(s) PROVE SessionInv' /\ StreamInv'
  <2>1. Times(s) /\ UNCHANGED <<linked, phone>>
    BY <1>12, AuthTimerIs
  <2>2. s \in 1..Len(sess) /\ s \in Nat
    BY <1>2
  <2>3. HelloKept
    BY <1>10, <2>1, <2>2 DEF Times
  <2>4. FromOpen(down')
    <3>1. Plain("authFail", s) \in DownMessage
      BY <2>2, PlainIs
    <3>2. Plain("authFail", s).k = "authFail"
      BY DEF Plain
    <3>3. FromOpen(Put(down, cur, FailMessage(s)))
      BY <1>2, <1>3, <3>1, <3>2, PutOpen DEF FailMessage, OnOpen
    <3> QED
      BY <1>3, <2>1, <3>3 DEF Times
  <2> QED
    BY <1>11, <2>1, <2>3, <2>4 DEF Times
<1>13. ASSUME Still, Noted, phone' = phone, sess' = sess, linked' = FALSE => cur' = 0 PROVE SessionInv' /\ StreamInv'
  <2>1. StreamInv'
    BY <1>13, StreamStill
  <2>2. FromOpen(down')
    BY <1>13, LongerOpen DEF Still
  <2> QED
    BY <1>4, <1>5, <1>7, <1>13, <2>1, <2>2
<1>14. ASSUME UNCHANGED <<sess, cur, down, latest, phone>>, amiss' = amiss, linked' = linked \/ cur = 0, Cut => Cut'
       PROVE  SessionInv' /\ StreamInv'
  <2>1. Still /\ Noted
    BY <1>3, <1>14 DEF Still, Noted
  <2> QED
    BY <1>6, <1>13, <1>14, <2>1
<1>15. CASE Revoke
  <2>1. Shuts /\ UNCHANGED <<linked, latest, up, phone, amiss>>
    BY <1>15, RevokeIs
  <2>2. CASE cur # 0 /\ sess[cur].state = "open"
    <3>1. Stopped(cur) /\ cur' = 0 /\ down' = Put(down, cur, Sealed("revoked", cur, 0, 0))
      BY <2>1, <2>2 DEF Shuts
    <3>2. HelloKept
      BY <1>2, <1>10, <2>2, <3>1
    <3>3. Sealed("revoked", cur, 0, 0) \in DownMessage
      BY <1>2, SealedIs
    <3>4. Sealed("revoked", cur, 0, 0).k = "revoked"
      BY DEF Sealed
    <3>5. FromOpen(down')
      BY <1>2, <1>3, <3>1, <3>3, <3>4, PutOpen DEF OnOpen
    <3> QED
      BY <1>11, <2>1, <3>1, <3>2, <3>5
  <2>3. CASE ~(cur # 0 /\ sess[cur].state = "open")
    BY <1>14, <2>1, <2>3 DEF Shuts, Stays, Cut
  <2> QED
    BY <2>2, <2>3
<1>16. ASSUME NEW e \in DOMAIN entry, NEW a \in {"ok", "failed", "late"}, Settles(e, a) PROVE SessionInv' /\ StreamInv'
  <2>1. StreamInv' /\ HelloKept /\ FromOpen(down')
    BY <1>16, SettlesStream
  <2>2. Settling(e, a) /\ UNCHANGED <<linked, phone>>
    BY <1>16, SettlesIs
  <2>3. cur' = cur
    BY <2>2 DEF Settling
  <2>4. SessionInv'
    BY <1>4, <1>5, <1>6, <2>1, <2>2, <2>3
  <2> QED
    BY <2>1, <2>4
<1>17. CASE Expire \/ BlockEnds \/ (\E e \in DOMAIN entry : Runs(e)) \/ UNCHANGED vars
  BY <1>14, <1>17 DEF Expire, BlockEnds, Runs, vars, gateway, Cut
<1>18. ASSUME NEW i \in CallIds, PhoneCalls(i) PROVE SessionInv' /\ StreamInv'
  <2>1. Written(Sealed("request", phone.key, i, 0)) /\ UNCHANGED <<linked, sess, cur, down, latest, phone, amiss>>
    BY <1>18 DEF PhoneCalls, gateway
  <2>2. Cut => Cut'
    BY <1>2, <2>1 DEF Cut, Written
  <2> QED
    BY <1>14, <2>1, <2>2
<1>19. CASE LinkReturns
  <2>1. linked = FALSE /\ UNCHANGED <<sess, cur, down, latest, phone, amiss>> /\ linked' = TRUE
    BY <1>19 DEF LinkReturns, gateway, TypeInv
  <2>2. cur' = 0
    BY <1>6, <2>1
  <2> QED
    BY <1>3, <1>7, <1>11, <2>1, <2>2
<1>20. CASE LinkDrops
  BY <1>3, <1>7, <1>11, <1>20 DEF LinkDrops
<1>21. CASE PhoneComes
  <2>1. phone'.on = TRUE /\ phone'.key = 0 /\ phone'.seq = 0
    BY <1>21 DEF PhoneComes, NoPhone
  <2>2. UNCHANGED <<sess, cur, linked>> /\ down' = <<>>
    BY <1>21 DEF PhoneComes, gateway
  <2>3. ~Following'
    BY <2>1, <2>2 DEF Following, Live
  <2> QED
    BY <1>3, <1>4, <1>6, <1>7, <2>1, <2>2, <2>3 DEF PhoneKept, StreamInv
<1>22. CASE PhoneGoes
  <2>1. phone'.on = FALSE /\ phone'.key = 0 /\ phone'.seq = 0
    BY <1>22 DEF PhoneGoes, Leaves, NoPhone
  <2>2. UNCHANGED <<sess, cur, linked>> /\ down' = <<>>
    BY <1>22 DEF PhoneGoes, gateway
  <2> QED
    BY <1>3, <1>4, <1>6, <1>7, <2>1, <2>2 DEF PhoneKept, StreamInv, Following
<1>23. CASE Overflow
  <2>1. linked = TRUE /\ UNCHANGED <<sess, cur, linked, phone>> /\ down' = <<>> /\ up' = Append(up, Plain("disconnect", 0))
    BY <1>23 DEF Overflow, ToGateway, gateway, TypeInv
  <2>2. Plain("disconnect", 0).k = "disconnect"
    BY DEF Plain
  <2>3. Cut'
    <3>1. Len(up) + 1 \in 1..Len(up') /\ up'[Len(up) + 1] = Plain("disconnect", 0)
      BY <1>2, <2>1
    <3> QED
      BY <2>2, <3>1 DEF Cut
  <2>4. ~Following'
    BY <2>1, <2>3 DEF Following, Live
  <2> QED
    BY <1>3, <1>4, <1>5, <1>6, <1>7, <2>1, <2>4 DEF StreamInv
<1>24. CASE PhoneReceives
  <2>1. StreamInv'
    BY <1>24, StreamPhone
  <2>2. PhoneKept /\ FromOpen(down')
    BY <1>24, PhoneSession
  <2>3. UNCHANGED <<sess, cur, linked>>
    BY <1>24, PhoneReceivesIs DEF gateway
  <2> QED
    BY <1>4, <1>6, <1>7, <2>1, <2>2, <2>3
<1> QED
  BY <1>8, <1>9, <1>12, <1>15, <1>16, <1>17, <1>18, <1>19, <1>20, <1>21, <1>22, <1>23, <1>24 DEF Next

(* A paired phone that has heard everything shows the live state, through reconnections,
   resyncs and an activation that releases the state late. StreamInv is why: every change since
   what the phone shows is on its way, in order, so the phone finds no gap; and a session whose
   phone is not paired has been sent nothing. *)
THEOREM PhoneShowsLatest == Spec => []PhoneFollows
<1>1. Init => TypeInv /\ DedupeInv /\ SessionInv /\ StreamInv
  <2> SUFFICES ASSUME Init PROVE TypeInv /\ DedupeInv /\ SessionInv /\ StreamInv
    OBVIOUS
  <2>1. sess = <<>> /\ down = <<>> /\ cur = 0 /\ phone = NoPhone /\ linked = TRUE
    BY DEF Init
  <2>2. NoPhone.on = FALSE /\ NoPhone.key = 0 /\ NoPhone.seq = 0
    BY DEF NoPhone
  <2> QED
    BY <2>1, <2>2, TypeInit, DedupeInit DEF SessionInv, StreamInv, Following, Live
<1>2. TypeInv /\ DedupeInv /\ SessionInv /\ StreamInv /\ [Next]_vars => TypeInv' /\ DedupeInv' /\ SessionInv' /\ StreamInv'
  BY TypeStep, DedupeStep, StreamStep DEF DedupeInv
<1>3. TypeInv /\ SessionInv /\ StreamInv => PhoneFollows
  <2> SUFFICES ASSUME TypeInv, SessionInv, StreamInv, up = <<>>, down = <<>>, cur # 0, cur = phone.key,
                      sess[cur].state = "open", ~sess[cur].pending, "elsewhere" \notin amiss
               PROVE  phone.frame = latest
    BY DEF PhoneFollows
  <2>1. /\ sess \in Seq(SessionType) /\ cur \in 1..Len(sess) /\ phone.on \in BOOLEAN /\ phone.seq \in Nat
        /\ Len(up) = 0 /\ Len(down) = 0
    BY DEF TypeInv
  <2>2. sess[cur] \in SessionType
    BY <2>1
  <2>3. sess[cur].pending = FALSE /\ sess[cur].seq \in Nat
    BY <2>2 DEF SessionType
  <2>4. phone.on = TRUE
    BY <2>1 DEF SessionInv
  <2>5. Following
    BY <2>1, <2>4 DEF Following, Live, Cut
  <2>6. phone.seq = sess[cur].seq
    <3>1. phone.seq <= sess[cur].seq
      BY <2>5 DEF StreamInv, Bounded
    <3>2. ~(phone.seq < sess[cur].seq)
      <4>1. ASSUME phone.seq < sess[cur].seq PROVE FALSE
        <5>1. sess[cur].seq \in 1..sess[cur].seq
          BY <2>1, <2>3, <4>1
        <5>2. \E n \in 1..Len(down) : News(n) /\ down[n].a = sess[cur].seq
          BY <2>5, <4>1, <5>1 DEF StreamInv, Gapless
        <5> QED
          BY <2>1, <5>2
      <4> QED
        BY <4>1
    <3> QED
      BY <2>1, <2>3, <3>1, <3>2
  <2> QED
    BY <2>3, <2>5, <2>6 DEF StreamInv, Current
<1> QED
  BY <1>1, <1>2, <1>3, PTL DEF Spec
=============================================================================
