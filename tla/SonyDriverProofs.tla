--------------------------- MODULE SonyDriverProofs ---------------------------
(***************************************************************************)
(* Theorems of SonyDriver over ViscaClient, for any number of calls, moves *)
(* and stops and any number of faults: a command runs once (RunsOnce), the *)
(* driver is told what happened at the head (AnswersAreTrue), and the head *)
(* does what it was last told (LastCommandHolds).                          *)
(*                                                                         *)
(* Base needs nothing of the network.  OnceInv follows the sequence        *)
(* numbers: before the first RESET is answered nothing was sent, then      *)
(* every number belongs to one call, and after a second RESET nothing is   *)
(* sent any more.  TrueInv adds what an answer on its way says.  DriverOk  *)
(* says whose call is open, and LastInv what is still to come of moves and *)
(* stops.                                                                  *)
(***************************************************************************)
EXTENDS SonyDriver, FiniteSetTheorems, SequenceTheorems, TLAPS

ToHead == Range(toCam)
ToDriver == Range(toUs)
Stages == {"idle", "space", "reset", "reply", "full"}

ClientType ==
  cl \in [queue : Seq(Nat), job : Nat, stage : Stages, seq : Nat, needReset : BOOLEAN,
          reset : 0..2, mine : Nat, copies : 0..2, renewed : BOOLEAN, retried : BOOLEAN,
          renewing : Nat, buffers : SUBSET Nat, closed : BOOLEAN]
CallType == call \in Seq([kind : Kinds, answer : Answers, ran : Nat]) /\ Len(call) <= MaxCalls

Sent     == [kind : {"message", "reset"}, job : Nat, seq : Nat]
Returned == [kind : {"reset", "sequence", "ack", "completion", "reply", "refused", "full"},
             job : Nat, seq : Nat]
NetType ==
  /\ toCam \in Seq(Sent) /\ toUs \in Seq(Returned)
  /\ \A m \in ToHead \cup ToDriver :
       IF m.kind = "reset" THEN m.job = NoJob /\ m.seq = 0 ELSE m.job \in Calls
HeadType == seen \in SUBSET Nat /\ moving \in BOOLEAN /\ slips \in SUBSET Slips

(* Nothing of call c was ever sent. *)
Unsent(c) == call[c].ran = 0 /\ \A m \in ToHead \cup ToDriver : m.job # c

(* Who is in the pump's hands and who waits: each call once, and unanswered. *)
PumpOk ==
  /\ cl.stage = "idle" <=> cl.job = NoJob
  /\ cl.job # NoJob => cl.job \in Calls /\ call[cl.job].answer = "none"
  /\ cl.stage = "space" => Unsent(cl.job)
  /\ Len(cl.queue) + (IF cl.job = NoJob THEN 0 ELSE 1) <= Len(call)
  /\ \A i \in DOMAIN cl.queue :
       /\ cl.queue[i] \in Calls /\ cl.queue[i] # cl.job
       /\ call[cl.queue[i]].answer = "none" /\ Unsent(cl.queue[i])
       /\ \A k \in DOMAIN cl.queue : cl.queue[k] = cl.queue[i] => k = i

Base == CallType /\ ClientType /\ NetType /\ HeadType /\ PumpOk

(* Messages of c that the head will run or turn away. *)
Live(c) == {m \in ToHead : m.job = c /\ m.seq \notin seen}

Fresh ==
  /\ cl.needReset /\ cl.stage \in {"idle", "space", "reset"} /\ (cl.stage # "idle" => ~cl.retried /\ ~cl.renewed)
  /\ \A m \in ToHead \cup ToDriver : m.kind = "reset"
  /\ \A c \in Calls : call[c].ran = 0

(* Numbers job may still use. *)
Spare ==
  IF cl.stage = "idle" THEN 0 ELSE IF cl.stage \in {"space", "reset"} THEN 2
  ELSE IF cl.stage = "full" THEN 1 ELSE IF cl.renewed \/ cl.retried THEN 0 ELSE 1

Numbers ==
  /\ cl.seq + Spare <= 2 * (Len(call) - Len(cl.queue))
  /\ \A m \in ToHead : m.kind = "message" => m.seq \in 1..cl.seq
  /\ \A m \in ToDriver : m.seq \in 0..cl.seq
  /\ cl.stage = "reply" =>
       /\ cl.mine \in 1..cl.seq
       /\ \A m \in ToHead \cup ToDriver : m.seq = cl.mine => m.job = cl.job
       /\ cl.retried => Command(cl.job)
       /\ Command(cl.job) =>
            /\ ~cl.renewed /\ (call[cl.job].ran > 0 => cl.mine \in seen)
            /\ \A m \in Live(cl.job) : m.seq = cl.mine
            /\ \A m \in ToDriver : m.kind \in {"refused", "full"} /\ m.seq = cl.mine =>
                 cl.mine \in seen /\ call[cl.job].ran = 0
  /\ cl.stage = "full" => Command(cl.job) /\ Live(cl.job) = {} /\ call[cl.job].ran = 0 /\ ~cl.retried
  /\ cl.stage \in {"space", "full"} => ~cl.renewed

Running == ~cl.needReset /\ cl.reset = 0 /\ cl.stage # "reset" /\ Numbers

(* The head will not be RESET without forgetting. *)
Renewing ==
  /\ cl.needReset /\ seen # {} /\ \A m \in ToDriver : m.kind # "reset"
  /\ cl.stage = "reply" => cl.renewing = cl.job /\ cl.renewed

Runs ==
  \A c \in Calls : Command(c) =>
    /\ call[c].ran <= 1 /\ (call[c].ran = 1 => Live(c) = {})
    /\ \A m, n \in Live(c) : m.seq = n.seq

Remembers == slips \cap {"forgot", "stray"} = {}
OnceInv ==
  Remembers => /\ Fresh \/ Running \/ Renewing
               /\ Runs
               /\ (\E m \in ToDriver : m.kind = "sequence") => seen # {}

(* While the first copy of a message is out, it has not been refused. *)
First ==
  /\ \A m \in ToDriver : m.kind = "sequence" => m.seq # cl.mine
  /\ \A i, k \in DOMAIN toCam : toCam[i].seq = cl.mine /\ toCam[k].seq = cl.mine => i = k
  /\ cl.mine \in seen => \A m \in ToHead : m.seq # cl.mine

(* What an answer says, on its way and once given. *)
Says(m) ==
  /\ m.kind \in {"ack", "completion"} => Command(m.job) /\ call[m.job].ran > 0
  /\ m.kind = "reply" => ~Command(m.job)
  /\ m.kind = "sequence" => m.seq \in 1..cl.seq
Given(c) ==
  /\ Answer(c) \in {"ok", "assumed"} => call[c].ran > 0
  /\ Answer(c) = "refused" => call[c].ran = 0 /\ Live(c) = {}

Plain == slips \subseteq {"probed", "overtaken"}
TrueInv ==
  Plain => /\ (Fresh /\ seen = {}) \/ (Running /\ seen \subseteq 1..cl.seq)
           /\ cl.stage = "reply" => cl.copies \in {1, 2} /\ (cl.copies = 1 => First)
           /\ \A m \in ToDriver : Says(m)
           /\ \A c \in Calls : Command(c) => Given(c)


-----------------------------------------------------------------------------
(* Sequences: what is on its way loses items and gets new ones at its end.  *)
LEMMA LengthIs ==
  ASSUME NEW S, NEW s \in Seq(S)
  PROVE  /\ Len(s) \in Nat /\ DOMAIN s = 1..Len(s) /\ \A i \in DOMAIN s : s[i] \in S
         /\ (s = <<>> <=> Len(s) = 0)
  BY LenProperties, EmptySeq, ElementOfSeq

LEMMA JoinIs ==
  ASSUME NEW S, NEW a \in Seq(S), NEW b \in Seq(S), NEW m \in Nat, Len(a) + Len(b) = m
  PROVE  /\ a \o b \in Seq(S) /\ Len(a \o b) = m
         /\ \A k \in 1..m : (a \o b)[k] = IF k <= Len(a) THEN a[k] ELSE b[k - Len(a)]
BY ConcatProperties

LEMMA RemoveAtIs ==
  ASSUME NEW S, NEW s \in Seq(S), NEW i \in DOMAIN s
  PROVE  /\ RemoveAt(s, i) \in Seq(S) /\ Len(RemoveAt(s, i)) = Len(s) - 1
         /\ DOMAIN RemoveAt(s, i) = 1..(Len(s) - 1)
         /\ \A k \in 1..(Len(s) - 1) : RemoveAt(s, i)[k] = IF k < i THEN s[k] ELSE s[k + 1]
<1> DEFINE n == Len(s)
           a == SubSeq(s, 1, i - 1)
           b == SubSeq(s, i + 1, n)
<1>1. n \in Nat /\ DOMAIN s = 1..n /\ i \in 1..n
  BY LengthIs
<1>2. a \in Seq(S) /\ Len(a) = i - 1 /\ \A k \in 1..(i - 1) : a[k] = s[k]
  BY <1>1, SubSeqProperties
<1>3. b \in Seq(S) /\ Len(b) = n - i /\ \A k \in 1..(n - i) : b[k] = s[i + k]
  BY <1>1, SubSeqProperties
<1> HIDE DEF a, b
<1>4. /\ a \o b \in Seq(S) /\ Len(a \o b) = (i - 1) + (n - i)
      /\ \A k \in 1..(n - 1) : (a \o b)[k] = IF k <= i - 1 THEN a[k] ELSE b[k - (i - 1)]
  <2>1. Len(a) + Len(b) = n - 1 /\ n - 1 \in Nat /\ (i - 1) + (n - i) = n - 1
    BY <1>1, <1>2, <1>3
  <2> HIDE DEF n
  <2>2. /\ a \o b \in Seq(S) /\ Len(a \o b) = n - 1
        /\ \A k \in 1..(n - 1) : (a \o b)[k] = IF k <= Len(a) THEN a[k] ELSE b[k - Len(a)]
    <3>1. a \in Seq(S) /\ b \in Seq(S)
      BY <1>2, <1>3
    <3>2. QED
      BY <2>1, <3>1, JoinIs
  <2> QED
    BY <1>2, <2>1, <2>2
<1>5. DOMAIN (a \o b) = 1..(n - 1)
  <2>1. \A t \in Seq(S) : DOMAIN t = 1..Len(t)
    BY LenProperties
  <2>2. (i - 1) + (n - i) = n - 1
    BY <1>1
  <2> HIDE DEF n
  <2> QED
    BY <1>4, <2>1, <2>2
<1>6. ASSUME NEW k \in 1..(n - 1)
      PROVE  (a \o b)[k] = IF k < i THEN s[k] ELSE s[k + 1]
  <2>1. CASE k < i
    BY <1>1, <1>2, <1>4, <2>1
  <2>2. CASE ~(k < i)
    <3>1. k - (i - 1) \in 1..(n - i) /\ i + (k - (i - 1)) = k + 1 /\ ~(k <= i - 1)
      BY <1>1, <2>2
    <3> QED
      BY <1>3, <1>4, <2>2, <3>1
  <2> QED
    BY <2>1, <2>2
<1>7. RemoveAt(s, i) = a \o b
  BY DEF RemoveAt, a, b
<1>8. (i - 1) + (n - i) = n - 1
  BY <1>1
<1> QED
  BY <1>4, <1>5, <1>6, <1>7, <1>8

(* t has some of the items of s, in their order. *)
Thins(s, t) ==
  /\ \A i \in DOMAIN t : \E k \in DOMAIN s : t[i] = s[k]
  /\ \A i, j \in DOMAIN t : i < j => \E k, l \in DOMAIN s : k < l /\ t[i] = s[k] /\ t[j] = s[l]

LEMMA ThinsRange == ASSUME NEW s, NEW t, Thins(s, t) PROVE Range(t) \subseteq Range(s)
BY DEF Thins, Range

LEMMA SameThins == ASSUME NEW s PROVE Thins(s, s)
BY DEF Thins

LEMMA RemoveAtThins ==
  ASSUME NEW S, NEW s \in Seq(S), NEW i \in DOMAIN s
  PROVE  RemoveAt(s, i) \in Seq(S) /\ Thins(s, RemoveAt(s, i))
<1> DEFINE n == Len(s)
           t == RemoveAt(s, i)
           at(k) == IF k < i THEN k ELSE k + 1
<1>1. n \in Nat /\ DOMAIN s = 1..n /\ i \in 1..n
  BY LengthIs
<1>2. /\ t \in Seq(S) /\ DOMAIN t = 1..(n - 1)
      /\ \A k \in 1..(n - 1) : t[k] = IF k < i THEN s[k] ELSE s[k + 1]
  BY RemoveAtIs
<1> HIDE DEF n, t
<1>3. \A k \in 1..(n - 1) : at(k) \in 1..n /\ t[k] = s[at(k)]
  BY <1>1, <1>2
<1>4. \A k, l \in 1..(n - 1) : k < l => at(k) < at(l)
  BY <1>1
<1> HIDE DEF at
<1>5. Thins(s, t)
  BY <1>1, <1>2, <1>3, <1>4 DEF Thins
<1> QED
  BY <1>2, <1>5 DEF t

LEMMA TailThins ==
  ASSUME NEW S, NEW s \in Seq(S), s # <<>>
  PROVE  Tail(s) \in Seq(S) /\ Len(Tail(s)) = Len(s) - 1 /\ Thins(s, Tail(s))
         /\ DOMAIN Tail(s) = 1..(Len(s) - 1) /\ \A k \in 1..(Len(s) - 1) : Tail(s)[k] = s[k + 1]
<1> DEFINE n == Len(s)
           t == Tail(s)
<1>1. n \in Nat /\ DOMAIN s = 1..n
  BY LengthIs
<1>2. t \in Seq(S) /\ Len(t) = n - 1 /\ \A k \in 1..Len(t) : t[k] = s[k + 1]
  BY HeadTailProperties
<1>3. DOMAIN t = 1..Len(t)
  BY <1>2, LengthIs
<1> HIDE DEF n, t
<1>4. /\ DOMAIN t = 1..(n - 1) /\ \A k \in 1..(n - 1) : t[k] = s[k + 1]
      /\ \A k \in 1..(n - 1) : k + 1 \in 1..n
  BY <1>1, <1>2, <1>3
<1>5. \A k, l \in 1..(n - 1) : k < l => k + 1 < l + 1
  BY <1>1
<1>6. Thins(s, t)
  BY <1>1, <1>4, <1>5 DEF Thins
<1> QED
  BY <1>2, <1>4, <1>6 DEF n, t

LEMMA AppendIs ==
  ASSUME NEW S, NEW s \in Seq(S), NEW e \in S
  PROVE  /\ Append(s, e) \in Seq(S) /\ Len(Append(s, e)) = Len(s) + 1
         /\ DOMAIN Append(s, e) = 1..(Len(s) + 1)
         /\ \A i \in 1..Len(s) : Append(s, e)[i] = s[i]
         /\ Append(s, e)[Len(s) + 1] = e
         /\ Range(Append(s, e)) = Range(s) \cup {e}
<1> DEFINE n == Len(s)
           t == Append(s, e)
<1>1. n \in Nat /\ DOMAIN s = 1..n
  BY LengthIs
<1>2. t \in Seq(S) /\ Len(t) = n + 1 /\ (\A i \in 1..n : t[i] = s[i]) /\ t[n + 1] = e
  BY AppendProperties
<1>3. DOMAIN t = 1..Len(t)
  BY <1>2, LengthIs
<1> HIDE DEF n, t
<1>4. DOMAIN t = 1..(n + 1) /\ \A i \in 1..(n + 1) : i = n + 1 \/ i \in 1..n
  BY <1>1, <1>2, <1>3
<1>5. Range(t) = Range(s) \cup {e}
  <2>1. n + 1 \in 1..(n + 1) /\ \A i \in 1..n : i \in 1..(n + 1)
    BY <1>1
  <2> QED
    BY <1>1, <1>2, <1>4, <2>1 DEF Range
<1> QED
  BY <1>2, <1>4, <1>5 DEF n, t

LEMMA InsertAtIs ==
  ASSUME NEW S, NEW s \in Seq(S), NEW e \in S, NEW p \in 1..(Len(s) + 1)
  PROVE  /\ InsertAt(s, p, e) \in Seq(S) /\ Len(InsertAt(s, p, e)) = Len(s) + 1
         /\ \A i \in 1..(Len(s) + 1) :
              InsertAt(s, p, e)[i] = IF i < p THEN s[i] ELSE IF i = p THEN e ELSE s[i - 1]
<1> DEFINE n == Len(s)
           a == SubSeq(s, 1, p - 1)
           b == SubSeq(s, p, n)
           c == a \o <<e>>
<1>1. n \in Nat /\ DOMAIN s = 1..n /\ p \in 1..(n + 1)
  BY LengthIs
<1>2. a \in Seq(S) /\ Len(a) = p - 1 /\ \A k \in 1..(p - 1) : a[k] = s[k]
  BY <1>1, SubSeqProperties
<1>3. b \in Seq(S) /\ Len(b) = (n + 1) - p /\ \A k \in 1..((n + 1) - p) : b[k] = s[p + k - 1]
  BY <1>1, SubSeqProperties
<1>4. <<e>> \in Seq(S) /\ Len(<<e>>) = 1 /\ <<e>>[1] = e
  OBVIOUS
<1> DEFINE d == <<e>>
<1>5. c = a \o d /\ d \in Seq(S) /\ Len(d) = 1 /\ d[1] = e
  BY <1>4
<1>6. InsertAt(s, p, e) = c \o b
  BY DEF InsertAt
<1> HIDE DEF a, b, c, d, n
<1>7. /\ c \in Seq(S) /\ Len(c) = p
      /\ \A k \in 1..p : c[k] = IF k < p THEN s[k] ELSE e
  <2>1. Len(a) + Len(d) = p /\ p \in Nat
    BY <1>1, <1>2, <1>5
  <2>2. a \in Seq(S) /\ d \in Seq(S)
    BY <1>2, <1>5
  <2>3. /\ c \in Seq(S) /\ Len(c) = p
        /\ \A k \in 1..p : c[k] = IF k <= Len(a) THEN a[k] ELSE d[k - Len(a)]
    <3>1. /\ a \o d \in Seq(S) /\ Len(a \o d) = p
          /\ \A k \in 1..p : (a \o d)[k] = IF k <= Len(a) THEN a[k] ELSE d[k - Len(a)]
      BY <2>1, <2>2, JoinIs
    <3> QED
      BY <1>5, <3>1
  <2>4. ASSUME NEW k \in 1..p PROVE c[k] = IF k < p THEN s[k] ELSE e
    BY <1>1, <1>2, <1>5, <2>3
  <2> QED
    BY <2>3, <2>4
<1>8. /\ c \o b \in Seq(S) /\ Len(c \o b) = n + 1
      /\ \A k \in 1..(n + 1) : (c \o b)[k] = IF k <= Len(c) THEN c[k] ELSE b[k - Len(c)]
  <2>1. Len(c) + Len(b) = n + 1 /\ n + 1 \in Nat
    BY <1>1, <1>3, <1>7
  <2>2. c \in Seq(S) /\ b \in Seq(S)
    BY <1>3, <1>7
  <2> QED
    BY <2>1, <2>2, JoinIs
<1>9. ASSUME NEW k \in 1..(n + 1)
      PROVE  (c \o b)[k] = IF k < p THEN s[k] ELSE IF k = p THEN e ELSE s[k - 1]
  <2>1. CASE k <= p
    <3>1. k \in 1..p
      BY <1>1, <2>1
    <3> QED
      BY <1>1, <1>7, <1>8, <3>1
  <2>2. CASE ~(k <= p)
    <3>1. k - p \in 1..((n + 1) - p) /\ p + (k - p) - 1 = k - 1 /\ ~(k < p) /\ k # p
      BY <1>1, <2>2
    <3>2. b[k - p] = s[k - 1]
      BY <1>3, <3>1
    <3> QED
      BY <1>7, <1>8, <2>2, <3>1, <3>2
  <2> QED
    BY <2>1, <2>2
<1> QED
  BY <1>6, <1>8, <1>9 DEF n

-----------------------------------------------------------------------------
(* What the steps of the client have in common. *)

(* Calls keep their kind and how often they ran. *)
SameCalls ==
  /\ Len(call') = Len(call) /\ Calls' = Calls
  /\ \A c \in Calls : call'[c].kind = call[c].kind /\ call'[c].ran = call[c].ran

(* The head keeps its numbers; an answer may have been taken. *)
ClientTurn ==
  /\ toUs' \in Seq(Returned) /\ ToDriver' \subseteq ToDriver
  /\ seen' = seen /\ moving' \in BOOLEAN /\ slips \subseteq slips' /\ slips' \in SUBSET Slips

(* No message is sent; some may be gone. *)
NoMessage ==
  /\ toCam' \in Seq(Sent)
  /\ \A i \in DOMAIN toCam' : toCam'[i] = ResetFrame \/ \E j \in DOMAIN toCam : toCam'[i] = toCam[j]
  /\ \A i, k \in DOMAIN toCam' : i < k /\ toCam'[i] # ResetFrame /\ toCam'[k] # ResetFrame =>
       \E j, l \in DOMAIN toCam : j < l /\ toCam'[i] = toCam[j] /\ toCam'[k] = toCam[l]

LEMMA CallsAre ==
  ASSUME CallType
  PROVE  /\ Len(call) \in Nat /\ Calls = 1..Len(call) /\ DOMAIN call = Calls /\ NoJob \notin Calls
         /\ \A c \in Calls : call[c] \in [kind : Kinds, answer : Answers, ran : Nat]
<1>1. Len(call) \in Nat /\ DOMAIN call = 1..Len(call) /\ \A c \in DOMAIN call : call[c] \in [kind : Kinds, answer : Answers, ran : Nat]
  BY LengthIs DEF CallType
<1> QED
  BY <1>1 DEF Calls, NoJob

LEMMA AnsweredIs ==
  ASSUME CallType, NEW c \in Calls, NEW a \in Answers, Answered(c, a)
  PROVE  /\ CallType' /\ SameCalls
         /\ \A d \in Calls : call'[d].answer = IF d = c /\ call[c].answer = "none" THEN a ELSE call[d].answer
<1> DEFINE R == [kind : Kinds, answer : Answers, ran : Nat]
           b == IF call[c].answer = "none" THEN a ELSE call[c].answer
           r == [call[c] EXCEPT !.answer = b]
<1>1. /\ call \in Seq(R) /\ Len(call) \in Nat /\ DOMAIN call = 1..Len(call) /\ Calls = 1..Len(call)
      /\ \A d \in Calls : call[d] \in R
  BY CallsAre DEF CallType, Calls
<1>2. r \in R /\ r.kind = call[c].kind /\ r.ran = call[c].ran /\ r.answer = b
  BY <1>1
<1>3. call' = [call EXCEPT ![c] = r]
  BY DEF Answered
<1> HIDE DEF R, r, b
<1>4. call' \in Seq(R) /\ Len(call') = Len(call) /\ \A d \in Calls : call'[d] = IF d = c THEN r ELSE call[d]
  BY <1>1, <1>2, <1>3
<1>5. CallType' /\ Calls' = Calls
  BY <1>1, <1>4 DEF CallType, Calls, R
<1>6. \A d \in Calls : call'[d].kind = call[d].kind /\ call'[d].ran = call[d].ran
  BY <1>2, <1>4
<1>7. \A d \in Calls : call'[d].answer = IF d = c THEN b ELSE call[d].answer
  BY <1>2, <1>4
<1> QED
  BY <1>4, <1>5, <1>6, <1>7 DEF SameCalls, b

LEMMA SameCallsHere == ASSUME UNCHANGED call PROVE SameCalls /\ (CallType => CallType')
BY DEF SameCalls, Calls, CallType

LEMMA ResetFrameIs == ResetFrame \in Sent /\ ResetFrame.kind = "reset" /\ ResetFrame.job = NoJob /\ ResetFrame.seq = 0
BY DEF ResetFrame, Sent, NoJob

(* Sending, on a socket that may be closed. *)
LEMMA SendIs ==
  ASSUME NetType, NEW f \in Sent, SendUdp(f)
  PROVE  /\ toCam' \in Seq(Sent) /\ ToHead' \subseteq ToHead \cup {f}
         /\ toCam' = toCam \/ toCam' = Append(toCam, f)
         /\ \A i \in DOMAIN toCam' : \/ i \in DOMAIN toCam /\ toCam'[i] = toCam[i]
                                     \/ i = Len(toCam) + 1 /\ toCam'[i] = f
<1>1. toCam \in Seq(Sent) /\ Len(toCam) \in Nat /\ DOMAIN toCam = 1..Len(toCam)
  BY LengthIs DEF NetType
<1>2. CASE toCam' = toCam
  BY <1>1, <1>2 DEF ToHead
<1>3. CASE toCam' = Append(toCam, f)
  <2>1. /\ toCam' \in Seq(Sent) /\ DOMAIN toCam' = 1..(Len(toCam) + 1)
        /\ \A i \in 1..Len(toCam) : toCam'[i] = toCam[i]
        /\ toCam'[Len(toCam) + 1] = f /\ Range(toCam') = Range(toCam) \cup {f}
    BY <1>1, <1>3, AppendIs
  <2> QED
    BY <1>1, <1>3, <2>1 DEF ToHead
<1> QED
  BY <1>2, <1>3 DEF SendUdp

LEMMA ResetSent == ASSUME NetType, SendUdp(ResetFrame) PROVE NoMessage
BY SendIs, ResetFrameIs DEF NoMessage

LEMMA ThinsSent == ASSUME toCam' \in Seq(Sent), Thins(toCam, toCam') PROVE NoMessage
BY DEF NoMessage, Thins

LEMMA NothingSent == ASSUME NetType, toCam' = toCam PROVE NoMessage
BY ThinsSent, SameThins DEF NetType

(* What follows when no message is sent. *)
LEMMA StillSent ==
  ASSUME Base, ClientTurn, NoMessage, SameCalls, CallType'
  PROVE  /\ \A m \in ToHead' : m = ResetFrame \/ m \in ToHead
         /\ NetType' /\ HeadType'
         /\ Remembers' => Remembers
         /\ Plain' => Plain
         /\ \A c \in Calls : Command(c)' = Command(c) /\ Live(c)' \subseteq Live(c) /\ (Unsent(c) => Unsent(c)')
         /\ Runs => Runs'
         /\ (\E m \in ToDriver' : m.kind = "sequence") => \E m \in ToDriver : m.kind = "sequence"
<1>1. \A m \in ToHead' : m = ResetFrame \/ m \in ToHead
  BY DEF NoMessage, ToHead, Range
<1>2. NetType' /\ HeadType'
  <2>1. /\ Calls' = Calls
        /\ \A m \in ToHead' \cup ToDriver' :
             IF m.kind = "reset" THEN m.job = NoJob /\ m.seq = 0 ELSE m.job \in Calls
    BY <1>1, ResetFrameIs DEF ClientTurn, Base, NetType, SameCalls
  <2> QED
    BY <2>1 DEF ClientTurn, NoMessage, NetType, HeadType, Base
<1>3. \A c \in Calls : Command(c)' = Command(c) /\ Live(c)' \subseteq Live(c)
  BY <1>1, ResetFrameIs, CallsAre DEF SameCalls, Command, Live, ClientTurn, Base
<1>4. \A c \in Calls : Unsent(c) => Unsent(c)'
  BY <1>1, ResetFrameIs, CallsAre DEF SameCalls, Unsent, ClientTurn, Base
<1>5. Runs => Runs'
  <2> SUFFICES ASSUME Runs, NEW c \in Calls, Command(c)
               PROVE  /\ call'[c].ran <= 1 /\ (call'[c].ran = 1 => Live(c)' = {})
                      /\ \A m, n \in Live(c)' : m.seq = n.seq
    BY <1>3 DEF Runs, SameCalls
  <2> QED
    BY <1>3 DEF Runs, SameCalls
<1> QED
  BY <1>1, <1>2, <1>3, <1>4, <1>5 DEF ClientTurn, Remembers, Plain

(* A call is over. *)
LEMMA FinishKeeps ==
  ASSUME Base, OnceInv, TrueInv, ClientTurn, NoMessage, ClientType',
         cl.job # NoJob, NEW a \in Answers \ {"none"}, Answered(cl.job, a),
         cl'.job = NoJob, cl'.stage = "idle", cl'.queue = cl.queue, cl'.seq = cl.seq,
         cl'.needReset = cl.needReset, cl'.reset \in {cl.reset, 0},
         Plain' /\ Command(cl.job) =>
           /\ a \in {"ok", "assumed"} => call[cl.job].ran > 0
           /\ a = "refused" => call[cl.job].ran = 0 /\ Live(cl.job) = {}
  PROVE  Base' /\ OnceInv' /\ TrueInv'
<1>0. cl.job \in Calls /\ call[cl.job].answer = "none"
  BY DEF Base, PumpOk
<1>1. /\ CallType' /\ SameCalls
      /\ \A d \in Calls : call'[d].answer = IF d = cl.job THEN a ELSE call[d].answer
  BY <1>0, AnsweredIs DEF Base
<1>2. /\ \A m \in ToHead' : m = ResetFrame \/ m \in ToHead
      /\ NetType' /\ HeadType'
      /\ Remembers' => Remembers
      /\ Plain' => Plain
      /\ \A c \in Calls : Command(c)' = Command(c) /\ Live(c)' \subseteq Live(c) /\ (Unsent(c) => Unsent(c)')
      /\ Runs => Runs'
      /\ (\E m \in ToDriver' : m.kind = "sequence") => \E m \in ToDriver : m.kind = "sequence"
  BY <1>1, StillSent
<1>3. Base'
  <2>1. Len(cl'.queue) + (IF cl'.job = NoJob THEN 0 ELSE 1) <= Len(call')
    <3>1. Len(cl.queue) \in Nat /\ Len(call) \in Nat
      BY LengthIs, CallsAre DEF Base, ClientType
    <3> QED
      BY <3>1, <1>1 DEF Base, PumpOk, SameCalls
  <2>2. ASSUME NEW i \in DOMAIN cl.queue
        PROVE  /\ cl.queue[i] \in Calls /\ cl.queue[i] # NoJob
               /\ call'[cl.queue[i]].answer = "none" /\ Unsent(cl.queue[i])'
               /\ \A k \in DOMAIN cl.queue : cl.queue[k] = cl.queue[i] => k = i
    <3>1. /\ cl.queue[i] \in Calls /\ cl.queue[i] # cl.job
          /\ call[cl.queue[i]].answer = "none" /\ Unsent(cl.queue[i])
          /\ \A k \in DOMAIN cl.queue : cl.queue[k] = cl.queue[i] => k = i
      BY DEF Base, PumpOk
    <3> QED
      BY <1>1, <1>2, <3>1, CallsAre DEF Base
  <2>3. PumpOk'
    BY <1>1, <2>1, <2>2 DEF PumpOk, SameCalls
  <2> QED
    BY <1>1, <1>2, <2>3 DEF Base
<1>4. Fresh => Fresh'
  BY <1>1, <1>2, ResetFrameIs DEF Fresh, SameCalls, ClientTurn
<1>5. Running => Running'
  <2>1. Running => cl.seq <= 2 * (Len(call) - Len(cl.queue))
    <3>1. Len(cl.queue) \in Nat /\ Len(call) \in Nat /\ cl.seq \in Nat
      BY LengthIs, CallsAre DEF Base, ClientType
    <3>2. Spare \in Nat
      BY DEF Spare
    <3> QED
      BY <3>1, <3>2 DEF Running, Numbers
  <2>2. Spare' = 0 /\ cl.seq \in Nat
    BY DEF Spare, Base, ClientType
  <2>3. Running => Numbers'
    BY <1>1, <1>2, <2>1, <2>2, ResetFrameIs DEF Running, Numbers, SameCalls, ClientTurn
  <2> QED
    BY <2>3 DEF Running
<1>6. Renewing => Renewing'
  BY DEF Renewing, ClientTurn
<1>7. OnceInv'
  BY <1>2, <1>4, <1>5, <1>6 DEF OnceInv, ClientTurn
<1>8. TrueInv'
  <2> SUFFICES ASSUME Plain' PROVE TrueInv'
    BY DEF TrueInv
  <2>1. /\ (Fresh /\ seen = {}) \/ (Running /\ seen \subseteq 1..cl.seq)
        /\ \A m \in ToDriver : Says(m)
        /\ \A c \in Calls : Command(c) => Given(c)
    BY <1>2 DEF TrueInv
  <2>2. (Fresh' /\ seen' = {}) \/ (Running' /\ seen' \subseteq 1..cl'.seq)
    BY <1>4, <1>5, <2>1 DEF ClientTurn
  <2>3. \A m \in ToDriver' : Says(m)'
    <3> SUFFICES ASSUME NEW m \in ToDriver' PROVE Says(m)'
      OBVIOUS
    <3>1. m \in ToDriver /\ Says(m) /\ (m.kind # "reset" => m.job \in Calls)
      BY <2>1 DEF ClientTurn, Base, NetType
    <3> QED
      BY <1>1, <1>2, <3>1 DEF Says, SameCalls
  <2>4. \A c \in Calls : Command(c) => Given(c)'
    <3> SUFFICES ASSUME NEW c \in Calls, Command(c) PROVE Given(c)'
      OBVIOUS
    <3>1. CASE c = cl.job
      BY <1>0, <1>1, <1>2, <3>1 DEF Given, Answer, SameCalls
    <3>2. CASE c # cl.job
      BY <1>1, <1>2, <2>1, <3>2 DEF Given, Answer, SameCalls
    <3> QED
      BY <3>1, <3>2
  <2> QED
    BY <1>1, <1>2, <2>2, <2>3, <2>4 DEF TrueInv, SameCalls
<1> QED
  BY <1>3, <1>7, <1>8

LEMMA ItemsAre ==
  ASSUME NetType
  PROVE  /\ DOMAIN toCam = 1..Len(toCam) /\ DOMAIN toUs = 1..Len(toUs) /\ Len(toCam) \in Nat /\ Len(toUs) \in Nat
         /\ \A i \in DOMAIN toCam : toCam[i] \in ToHead
         /\ \A i \in DOMAIN toUs : toUs[i] \in ToDriver
         /\ \A m \in ToHead : m \in Sent /\ (m.kind = "reset" => m.job = NoJob /\ m.seq = 0)
                                         /\ (m.kind # "reset" => m.kind = "message" /\ m.job \in Calls)
         /\ \A m \in ToDriver : m \in Returned /\ (m.kind = "reset" => m.job = NoJob /\ m.seq = 0)
                                               /\ (m.kind # "reset" => m.job \in Calls)
<1>1. /\ DOMAIN toCam = 1..Len(toCam) /\ DOMAIN toUs = 1..Len(toUs) /\ Len(toCam) \in Nat /\ Len(toUs) \in Nat
      /\ \A i \in DOMAIN toCam : toCam[i] \in Sent
      /\ \A i \in DOMAIN toUs : toUs[i] \in Returned
  BY LengthIs DEF NetType
<1>2. (\A m \in ToHead : m \in Sent) /\ (\A m \in ToDriver : m \in Returned)
  BY <1>1 DEF ToHead, ToDriver, Range
<1>3. (\A i \in DOMAIN toCam : toCam[i] \in ToHead) /\ (\A i \in DOMAIN toUs : toUs[i] \in ToDriver)
  BY DEF ToHead, ToDriver, Range
<1>4. \A m \in Sent : m.kind # "reset" => m.kind = "message"
  BY DEF Sent
<1> QED
  BY <1>1, <1>2, <1>3, <1>4 DEF NetType

(* The answers stand, and what is said on its way. *)
LEMMA StillTrue ==
  ASSUME Base, TrueInv, ClientTurn, NoMessage, SameCalls, CallType', Plain', cl'.seq = cl.seq,
         \A c \in Calls : call'[c].answer = call[c].answer
  PROVE  /\ (Fresh /\ seen = {}) \/ (Running /\ seen \subseteq 1..cl.seq)
         /\ cl.stage = "reply" => cl.copies \in {1, 2} /\ (cl.copies = 1 => First)
         /\ \A m \in ToDriver' : Says(m)'
         /\ \A c \in Calls' : Command(c)' => Given(c)'
<1>1. /\ \A c \in Calls : Command(c)' = Command(c) /\ Live(c)' \subseteq Live(c)
      /\ Plain
  BY StillSent
<1>2. /\ (Fresh /\ seen = {}) \/ (Running /\ seen \subseteq 1..cl.seq)
      /\ cl.stage = "reply" => cl.copies \in {1, 2} /\ (cl.copies = 1 => First)
      /\ \A m \in ToDriver : Says(m)
      /\ \A c \in Calls : Command(c) => Given(c)
  BY <1>1 DEF TrueInv
<1>3. ASSUME NEW m \in ToDriver' PROVE Says(m)'
  <2>1. m \in ToDriver /\ Says(m) /\ (m.kind # "reset" => m.job \in Calls)
    BY <1>2 DEF ClientTurn, Base, NetType
  <2> QED
    BY <1>1, <2>1 DEF Says, SameCalls
<1>4. ASSUME NEW c \in Calls, Command(c) PROVE Given(c)'
  BY <1>1, <1>2, <1>4 DEF Given, Answer, SameCalls
<1> QED
  BY <1>1, <1>2, <1>3, <1>4 DEF SameCalls

(* Nobody in the pump's hands but those there before, and the queue stands. *)
LEMMA StillPumped ==
  ASSUME Base, ClientTurn, NoMessage, SameCalls, CallType',
         \A c \in Calls : call'[c].answer = call[c].answer,
         cl'.queue = cl.queue, cl'.job = cl.job, cl'.stage = "idle" <=> cl.stage = "idle",
         cl'.stage = "space" => cl.stage = "space"
  PROVE  PumpOk'
<1>1. \A c \in Calls : Unsent(c) => Unsent(c)'
  BY StillSent
<1>2. ASSUME NEW j \in Calls, j = cl.job
      PROVE  call'[j].answer = "none" /\ (cl.stage = "space" => Unsent(j)')
  BY <1>1, <1>2, CallsAre DEF Base, PumpOk
<1>3. cl.job # NoJob => cl.job \in Calls
  BY DEF Base, PumpOk
<1>4. ASSUME NEW i \in DOMAIN cl.queue
      PROVE  /\ cl.queue[i] \in Calls /\ cl.queue[i] # cl.job
             /\ call'[cl.queue[i]].answer = "none" /\ Unsent(cl.queue[i])'
             /\ \A k \in DOMAIN cl.queue : cl.queue[k] = cl.queue[i] => k = i
  <2>1. /\ cl.queue[i] \in Calls /\ cl.queue[i] # cl.job
        /\ call[cl.queue[i]].answer = "none" /\ Unsent(cl.queue[i])
        /\ \A k \in DOMAIN cl.queue : cl.queue[k] = cl.queue[i] => k = i
    BY DEF Base, PumpOk
  <2> QED
    BY <1>1, <2>1
<1>5. Len(cl.queue) + (IF cl.job = NoJob THEN 0 ELSE 1) <= Len(call')
  BY DEF Base, PumpOk, SameCalls
<1>6. cl.job = NoJob => cl.stage # "space"
  BY DEF Base, PumpOk
<1>7. /\ cl'.stage = "idle" <=> cl'.job = NoJob
      /\ cl'.job # NoJob => cl'.job \in Calls' /\ call'[cl'.job].answer = "none"
  BY <1>2, <1>3 DEF Base, PumpOk, SameCalls
<1>8. cl'.stage = "space" => Unsent(cl.job)'
  BY <1>2, <1>3, <1>6
<1>9. ASSUME NEW i \in DOMAIN cl'.queue
      PROVE  /\ cl'.queue[i] \in Calls' /\ cl'.queue[i] # cl'.job
             /\ call'[cl'.queue[i]].answer = "none" /\ Unsent(cl.queue[i])'
             /\ \A k \in DOMAIN cl'.queue : cl'.queue[k] = cl'.queue[i] => k = i
  BY <1>4 DEF SameCalls
<1> QED
  BY <1>5, <1>7, <1>8, <1>9 DEF PumpOk

(* The copies on their way and the answer to them. *)
LEMMA StillNumbered ==
  ASSUME Base, ClientTurn, NoMessage, SameCalls, CallType', Numbers,
         cl'.seq = cl.seq, cl'.mine = cl.mine, cl'.job = cl.job, cl'.stage = cl.stage,
         cl'.queue = cl.queue, cl'.renewed = cl.renewed, cl'.retried = cl.retried
  PROVE  Numbers'
<1>1. /\ \A m \in ToHead' : m = ResetFrame \/ m \in ToHead
      /\ \A c \in Calls : Command(c)' = Command(c) /\ Live(c)' \subseteq Live(c)
  BY StillSent
<1>2. cl.stage # "idle" => cl.job \in Calls
  BY DEF Base, PumpOk
<1>3. Spare' = Spare
  BY DEF Spare
<1>4. cl'.seq + Spare' <= 2 * (Len(call') - Len(cl'.queue))
  BY <1>3 DEF Numbers, SameCalls
<1>5. /\ \A m \in ToHead' : m.kind = "message" => m.seq \in 1..cl'.seq
      /\ \A m \in ToDriver' : m.seq \in 0..cl'.seq
  BY <1>1, ResetFrameIs DEF Numbers, ClientTurn
<1>6. ASSUME NEW j \in Calls, j = cl.job, cl.stage = "reply"
      PROVE  /\ cl'.mine \in 1..cl'.seq
             /\ \A m \in ToHead' \cup ToDriver' : m.seq = cl'.mine => m.job = j
             /\ cl'.retried => Command(j)'
             /\ Command(j)' =>
                  /\ ~cl'.renewed /\ (call'[j].ran > 0 => cl'.mine \in seen')
                  /\ \A m \in Live(j)' : m.seq = cl'.mine
                  /\ \A m \in ToDriver' : m.kind \in {"refused", "full"} /\ m.seq = cl'.mine =>
                       cl'.mine \in seen' /\ call'[j].ran = 0
  <2>1. /\ cl.mine \in 1..cl.seq
        /\ \A m \in ToHead \cup ToDriver : m.seq = cl.mine => m.job = j
        /\ cl.retried => Command(j)
        /\ Command(j) =>
             /\ ~cl.renewed /\ (call[j].ran > 0 => cl.mine \in seen)
             /\ \A m \in Live(j) : m.seq = cl.mine
             /\ \A m \in ToDriver : m.kind \in {"refused", "full"} /\ m.seq = cl.mine =>
                  cl.mine \in seen /\ call[j].ran = 0
    BY <1>6 DEF Numbers
  <2>2. ResetFrame.seq # cl.mine
    BY <2>1, ResetFrameIs
  <2>3. \A m \in ToHead' \cup ToDriver' : m.seq = cl.mine => m.job = j
    BY <1>1, <2>1, <2>2 DEF ClientTurn
  <2>4. Command(j)' = Command(j) /\ Live(j)' \subseteq Live(j) /\ call'[j].ran = call[j].ran
    BY <1>1 DEF SameCalls
  <2> QED
    BY <2>1, <2>3, <2>4 DEF ClientTurn
<1>7. ASSUME NEW j \in Calls, j = cl.job, cl.stage = "full"
      PROVE  Command(j)' /\ Live(j)' = {} /\ call'[j].ran = 0 /\ ~cl'.retried
  BY <1>1, <1>7 DEF Numbers, SameCalls
<1>8. cl'.stage = "reply" =>
        /\ cl'.mine \in 1..cl'.seq
        /\ \A m \in ToHead' \cup ToDriver' : m.seq = cl'.mine => m.job = cl'.job
        /\ cl'.retried => Command(cl.job)'
        /\ Command(cl.job)' =>
             /\ ~cl'.renewed /\ (call'[cl'.job].ran > 0 => cl'.mine \in seen')
             /\ \A m \in Live(cl.job)' : m.seq = cl'.mine
             /\ \A m \in ToDriver' : m.kind \in {"refused", "full"} /\ m.seq = cl'.mine =>
                  cl'.mine \in seen' /\ call'[cl'.job].ran = 0
  BY <1>2, <1>6
<1>9. cl'.stage = "full" =>
        Command(cl.job)' /\ Live(cl.job)' = {} /\ call'[cl'.job].ran = 0 /\ ~cl'.retried
  BY <1>2, <1>7
<1>10. cl'.stage \in {"space", "full"} => ~cl'.renewed
  BY DEF Numbers
<1> QED
  BY <1>4, <1>5, <1>8, <1>9, <1>10 DEF Numbers

LEMMA StillFirst ==
  ASSUME Base, ClientTurn, NoMessage, First, cl.mine >= 1, cl'.mine = cl.mine
  PROVE  First'
<1>1. \A m \in ToDriver' : m.kind = "sequence" => m.seq # cl'.mine
  BY DEF First, ClientTurn
<1>2. ASSUME NEW i \in DOMAIN toCam', NEW k \in DOMAIN toCam', toCam'[i].seq = cl.mine, toCam'[k].seq = cl.mine,
             i < k
      PROVE  FALSE
  <2>1. toCam'[i] # ResetFrame /\ toCam'[k] # ResetFrame
    BY <1>2, ResetFrameIs
  <2>2. PICK j \in DOMAIN toCam, l \in DOMAIN toCam : j < l /\ toCam'[i] = toCam[j] /\ toCam'[k] = toCam[l]
    BY <1>2, <2>1 DEF NoMessage
  <2>3. j \in Nat /\ l \in Nat
    BY LengthIs DEF Base, NetType
  <2> QED
    BY <1>2, <2>2, <2>3 DEF First
<1>3. \A i, k \in DOMAIN toCam' : toCam'[i].seq = cl.mine /\ toCam'[k].seq = cl.mine => i = k
  <2>1. \A i \in DOMAIN toCam' : i \in Nat
    BY LengthIs DEF NoMessage
  <2>2. \A i, k \in DOMAIN toCam' : i < k \/ k < i \/ i = k
    BY <2>1
  <2> QED
    BY <1>2, <2>2
<1>4. \A m \in ToHead' : m = ResetFrame \/ m \in ToHead
  BY DEF NoMessage, ToHead, Range
<1>5. cl.mine \in seen => \A m \in ToHead' : m.seq # cl.mine
  BY <1>4, ResetFrameIs DEF First
<1> QED
  BY <1>1, <1>3, <1>5 DEF First, ClientTurn

(* Everything stands, but for a RESET sent, buffers freed, or a RESET given *)
(* up that nobody waits for.                                                *)
LEMMA StandKeeps ==
  ASSUME Base, OnceInv, TrueInv, ClientTurn, NoMessage, ClientType', call' = call,
         cl'.seq = cl.seq, cl'.mine = cl.mine, cl'.job = cl.job, cl'.stage = cl.stage, cl'.copies = cl.copies,
         cl'.queue = cl.queue, cl'.renewed = cl.renewed, cl'.retried = cl.retried, cl'.needReset = cl.needReset,
         cl.reset = 0 => cl'.reset = 0,
         cl.stage = "reply" /\ cl.renewing = cl.job => cl'.renewing = cl.renewing
  PROVE  Base' /\ OnceInv' /\ TrueInv'
<1>1. SameCalls /\ CallType' /\ \A c \in Calls : call'[c].answer = call[c].answer
  BY SameCallsHere DEF Base
<1>2. /\ \A m \in ToHead' : m = ResetFrame \/ m \in ToHead
      /\ NetType' /\ HeadType'
      /\ Remembers' => Remembers
      /\ Plain' => Plain
      /\ Runs => Runs'
      /\ (\E m \in ToDriver' : m.kind = "sequence") => \E m \in ToDriver : m.kind = "sequence"
  BY <1>1, StillSent
<1>3. Base'
  BY <1>1, <1>2, StillPumped DEF Base
<1>4. Fresh => Fresh'
  BY <1>1, <1>2, ResetFrameIs DEF Fresh, SameCalls, ClientTurn
<1>5. Running => Running'
  BY <1>1, StillNumbered DEF Running
<1>6. Renewing => Renewing'
  BY DEF Renewing, ClientTurn
<1>7. OnceInv'
  BY <1>2, <1>4, <1>5, <1>6 DEF OnceInv, ClientTurn
<1>8. TrueInv'
  <2> SUFFICES ASSUME Plain' PROVE TrueInv'
    BY DEF TrueInv
  <2>1. /\ (Fresh /\ seen = {}) \/ (Running /\ seen \subseteq 1..cl.seq)
        /\ cl.stage = "reply" => cl.copies \in {1, 2} /\ (cl.copies = 1 => First)
        /\ \A m \in ToDriver' : Says(m)'
        /\ \A c \in Calls' : Command(c)' => Given(c)'
    BY <1>1, StillTrue
  <2>2. (Fresh' /\ seen' = {}) \/ (Running' /\ seen' \subseteq 1..cl'.seq)
    BY <1>4, <1>5, <2>1 DEF ClientTurn
  <2>3. cl'.stage = "reply" => cl'.copies \in {1, 2} /\ (cl'.copies = 1 => First')
    <3>1. cl.stage = "reply" => Running
      BY <2>1 DEF Fresh
    <3>2. cl.stage = "reply" => cl.mine >= 1
      BY <3>1 DEF Running, Numbers, Base, ClientType
    <3> QED
      BY <2>1, <3>2, StillFirst
  <2> QED
    BY <2>1, <2>2, <2>3 DEF TrueInv
<1> QED
  BY <1>3, <1>7, <1>8

(* A new message is sent: number s, of call c, which is then in the pump's  *)
(* hands and of which nothing else is still to be run.                      *)
LEMMA TransmitKeeps ==
  ASSUME Base, OnceInv, TrueInv, ClientTurn, ClientType', call' = call,
         NEW c \in Calls, call[c].answer = "none", NEW s \in Nat, SendUdp(Message(c, s)),
         cl'.job = c, cl'.stage = "reply", cl'.seq = s, cl'.mine = s, cl'.copies = 1,
         \A i \in DOMAIN cl'.queue :
           /\ cl'.queue[i] \in Calls /\ cl'.queue[i] # c
           /\ call[cl'.queue[i]].answer = "none" /\ Unsent(cl'.queue[i])
           /\ \A k \in DOMAIN cl'.queue : cl'.queue[k] = cl'.queue[i] => k = i,
         Len(cl'.queue) + 1 <= Len(call),
         Remembers' =>
           /\ s >= 1 /\ cl'.reset = 0 /\ ~cl'.needReset /\ (cl'.retried => Command(c)) /\ (cl'.renewed => ~Command(c))
           /\ \A m \in ToHead : m.kind = "message" => m.seq \in 1..(s - 1)
           /\ \A m \in ToDriver' : m.seq \in 0..(s - 1)
           /\ Command(c) => Live(c) = {} /\ call[c].ran = 0
           /\ s + (IF cl'.renewed \/ cl'.retried THEN 0 ELSE 1) <= 2 * (Len(call) - Len(cl'.queue)),
         Plain' => seen \subseteq 1..(s - 1) /\ \A m \in ToDriver' : m.kind = "sequence" => m.seq \in 1..(s - 1)
  PROVE  Base' /\ OnceInv' /\ TrueInv'
<1> DEFINE f == Message(c, s)
<1>0. /\ Len(call) \in Nat /\ NoJob \notin Calls /\ c \in Nat /\ c # NoJob
      /\ f \in Sent /\ f.kind = "message" /\ f.job = c /\ f.seq = s /\ f # ResetFrame
  BY CallsAre DEF Base, Message, Sent, Calls, ResetFrame
<1>1. SameCalls /\ CallType' /\ Calls' = Calls
  BY SameCallsHere DEF Base, SameCalls
<1>2. /\ toCam' \in Seq(Sent) /\ ToHead' \subseteq ToHead \cup {f}
      /\ \A i \in DOMAIN toCam' : \/ i \in DOMAIN toCam /\ toCam'[i] = toCam[i]
                                  \/ i = Len(toCam) + 1 /\ toCam'[i] = f
  <2>1. NetType
    BY DEF Base
  <2> QED
    BY <1>0, <2>1, SendIs
<1> HIDE DEF f
<1>3. NetType' /\ HeadType'
  <2>1. \A m \in ToHead' \cup ToDriver' :
             IF m.kind = "reset" THEN m.job = NoJob /\ m.seq = 0 ELSE m.job \in Calls
    BY <1>0, <1>2 DEF ClientTurn, Base, NetType
  <2> QED
    BY <1>1, <1>2, <2>1 DEF ClientTurn, NetType, HeadType, Base
<1>4. \A d \in Calls : Command(d)' = Command(d) /\ Live(d)' \subseteq Live(d) \cup {f} /\ (d # c => Live(d)' \subseteq Live(d))
  BY <1>0, <1>2 DEF Command, Live, ClientTurn
<1>5. \A d \in Calls : d # c /\ Unsent(d) => Unsent(d)'
  BY <1>0, <1>2 DEF Unsent, ClientTurn
<1>6. PumpOk'
  <2>1. ASSUME NEW i \in DOMAIN cl'.queue
        PROVE  /\ cl'.queue[i] \in Calls' /\ cl'.queue[i] # cl'.job
               /\ call'[cl'.queue[i]].answer = "none" /\ Unsent(cl.queue[i])'
               /\ \A k \in DOMAIN cl'.queue : cl'.queue[k] = cl'.queue[i] => k = i
    <3>1. \A d \in Calls : d = cl'.queue[i] => Unsent(d)'
      BY <1>5
    <3> QED
      BY <1>1, <3>1
  <2> QED
    BY <1>0, <1>1, <2>1 DEF PumpOk
<1>7. Base'
  BY <1>1, <1>3, <1>6 DEF Base
<1>8. ASSUME Remembers' PROVE Remembers /\ Running' /\ Runs'
  <2>1. Remembers /\ Runs
    BY <1>8 DEF Remembers, ClientTurn, OnceInv
  <2>2. /\ s >= 1 /\ cl'.reset = 0 /\ ~cl'.needReset /\ (cl'.retried => Command(c)) /\ (cl'.renewed => ~Command(c))
        /\ \A m \in ToHead : m.kind = "message" => m.seq \in 1..(s - 1)
        /\ \A m \in ToDriver' : m.seq \in 0..(s - 1)
        /\ Command(c) => Live(c) = {} /\ call[c].ran = 0
        /\ s + (IF cl'.renewed \/ cl'.retried THEN 0 ELSE 1) <= 2 * (Len(call) - Len(cl'.queue))
    BY <1>8
  <2>3. /\ cl'.seq + Spare' <= 2 * (Len(call') - Len(cl'.queue))
        /\ \A m \in ToHead' : m.kind = "message" => m.seq \in 1..cl'.seq
        /\ \A m \in ToDriver' : m.seq \in 0..cl'.seq
        /\ cl'.mine \in 1..cl'.seq
    BY <1>0, <1>2, <2>2 DEF Spare
  <2>4. \A m \in ToHead' \cup ToDriver' : m.seq = s => m.job = c
    <3>1. \A m \in ToHead : m.seq # s
      BY <2>2, ItemsAre DEF Base
    <3> QED
      BY <1>0, <1>2, <2>2, <3>1
  <2>5. Command(c) =>
          /\ \A m \in Live(c)' : m.seq = s
          /\ \A m \in ToDriver' : m.kind \in {"refused", "full"} => m.seq # s
    BY <1>0, <1>4, <2>2
  <2>6. Command(cl.job)' =>
            /\ ~cl'.renewed /\ (call'[cl'.job].ran > 0 => cl'.mine \in seen')
            /\ \A m \in Live(cl.job)' : m.seq = cl'.mine
            /\ \A m \in ToDriver' : m.kind \in {"refused", "full"} /\ m.seq = cl'.mine =>
                 cl'.mine \in seen' /\ call'[cl'.job].ran = 0
    BY <1>0, <1>4, <2>2, <2>5
  <2>7. cl'.retried => Command(cl.job)'
    BY <1>4, <2>2
  <2>8. Numbers'
    BY <2>3, <2>4, <2>6, <2>7 DEF Numbers
  <2>9. Runs'
    <3> SUFFICES ASSUME NEW d \in Calls, Command(d)
                 PROVE  /\ call'[d].ran <= 1 /\ (call'[d].ran = 1 => Live(d)' = {})
                        /\ \A m, n \in Live(d)' : m.seq = n.seq
      BY <1>1, <1>4 DEF Runs
    <3>1. call[d].ran <= 1 /\ (call[d].ran = 1 => Live(d) = {}) /\ \A m, n \in Live(d) : m.seq = n.seq
      BY <2>1 DEF Runs
    <3>2. CASE d = c
      BY <1>4, <2>2, <3>2
    <3>3. CASE d # c
      BY <1>4, <3>1, <3>3
    <3> QED
      BY <3>2, <3>3
  <2> QED
    BY <2>1, <2>2, <2>8, <2>9 DEF Running
<1>9. OnceInv'
  <2>1. (\E m \in ToDriver' : m.kind = "sequence") => \E m \in ToDriver : m.kind = "sequence"
    BY DEF ClientTurn
  <2> QED
    BY <1>8, <2>1 DEF OnceInv, ClientTurn
<1>10. TrueInv'
  <2> SUFFICES ASSUME Plain' PROVE TrueInv'
    BY DEF TrueInv
  <2>1. Plain /\ Remembers'
    BY DEF Plain, Remembers, ClientTurn
  <2>2. /\ \A m \in ToDriver : Says(m)
        /\ \A d \in Calls : Command(d) => Given(d)
    BY <2>1 DEF TrueInv
  <2>3. /\ s >= 1
        /\ \A m \in ToHead : m.kind = "message" => m.seq \in 1..(s - 1)
        /\ \A m \in ToDriver' : m.seq \in 0..(s - 1)
        /\ seen \subseteq 1..(s - 1)
        /\ \A m \in ToDriver' : m.kind = "sequence" => m.seq \in 1..(s - 1)
    BY <2>1
  <2>4. First'
    <3>1. ASSUME NEW i \in DOMAIN toCam', NEW k \in DOMAIN toCam', toCam'[i].seq = s, toCam'[k].seq = s
          PROVE  i = k
      <4>1. \A m \in ToHead : m.seq # s
        BY <2>3, ItemsAre DEF Base
      <4>2. \A j \in DOMAIN toCam : toCam[j].seq # s
        BY <4>1 DEF ToHead, Range
      <4> QED
        BY <1>2, <3>1, <4>2
    <3>2. s \notin seen' /\ \A m \in ToDriver' : m.kind = "sequence" => m.seq # s
      BY <2>3 DEF ClientTurn
    <3> QED
      BY <3>1, <3>2 DEF First
  <2>5. Running' /\ seen' \subseteq 1..cl'.seq
    BY <1>8, <2>1, <2>3 DEF ClientTurn
  <2>6. ASSUME NEW m \in ToDriver' PROVE Says(m)'
    <3>1. m \in ToDriver /\ Says(m) /\ (m.kind # "reset" => m.job \in Calls)
      BY <2>2 DEF ClientTurn, Base, NetType
    <3> QED
      BY <1>4, <2>3, <3>1 DEF Says
  <2>7. ASSUME NEW d \in Calls, Command(d) PROVE Given(d)'
    BY <1>4, <2>2, <2>7 DEF Given, Answer
  <2> QED
    BY <1>1, <1>4, <2>4, <2>5, <2>6, <2>7 DEF TrueInv
<1> QED
  BY <1>7, <1>9, <1>10

LEMMA TurnHere == ASSUME Base, UNCHANGED <<toUs, head, slips>> PROVE ClientTurn
BY DEF Base, NetType, HeadType, ClientTurn, ToDriver, head

(* Numbers do not come round. *)
LEMMA NextSeqIs ==
  ASSUME NEW s \in Nat, s + 1 <= 2 * Len(call), CallType
  PROVE  NextSeq(s) = s + 1
BY CallsAre, ViscaAssumption DEF NextSeq, CallType

(* The next call of the queue. *)
LEMMA NextIs ==
  ASSUME Base, cl.stage = "idle", cl.queue # <<>>
  PROVE  LET c == Head(cl.queue)
             q == Tail(cl.queue)
         IN  /\ c \in Calls /\ call[c].answer = "none" /\ Unsent(c)
             /\ q \in Seq(Nat) /\ Len(q) = Len(cl.queue) - 1 /\ Len(q) \in Nat /\ Len(q) + 1 <= Len(call)
             /\ \A i \in DOMAIN q :
                  /\ q[i] \in Calls /\ q[i] # c /\ call[q[i]].answer = "none" /\ Unsent(q[i])
                  /\ \A k \in DOMAIN q : q[k] = q[i] => k = i
<1> DEFINE n == Len(cl.queue)
           q == Tail(cl.queue)
<1>1. /\ cl.queue \in Seq(Nat) /\ cl.job = NoJob /\ n + 0 <= Len(call)
      /\ \A i \in DOMAIN cl.queue :
           /\ cl.queue[i] \in Calls
           /\ call[cl.queue[i]].answer = "none" /\ Unsent(cl.queue[i])
           /\ \A k \in DOMAIN cl.queue : cl.queue[k] = cl.queue[i] => k = i
  BY DEF Base, ClientType, PumpOk
<1>2. n \in Nat /\ DOMAIN cl.queue = 1..n /\ n >= 1 /\ Len(call) \in Nat
  BY <1>1, LengthIs, CallsAre DEF Base
<1>3. Head(cl.queue) = cl.queue[1]
  BY <1>1
<1>4. q \in Seq(Nat) /\ Len(q) = n - 1 /\ DOMAIN q = 1..(n - 1) /\ \A k \in 1..(n - 1) : q[k] = cl.queue[k + 1]
  BY <1>1, TailThins
<1> HIDE DEF n, q
<1>5. ASSUME NEW i \in 1..(n - 1)
      PROVE  /\ q[i] \in Calls /\ q[i] # cl.queue[1] /\ call[q[i]].answer = "none" /\ Unsent(q[i])
             /\ \A k \in 1..(n - 1) : q[k] = q[i] => k = i
  <2>1. i + 1 \in 1..n /\ 1 \in 1..n /\ i + 1 # 1 /\ \A k \in 1..(n - 1) : k + 1 \in 1..n /\ (k + 1 = i + 1 => k = i)
    BY <1>2
  <2>2. q[i] = cl.queue[i + 1] /\ \A k \in 1..(n - 1) : q[k] = cl.queue[k + 1]
    BY <1>4
  <2>3. \A k \in 1..n : cl.queue[k] = cl.queue[i + 1] => k = i + 1
    BY <1>1, <1>2, <2>1
  <2>4. cl.queue[i + 1] \in Calls /\ call[cl.queue[i + 1]].answer = "none" /\ Unsent(cl.queue[i + 1])
    BY <1>1, <1>2, <2>1
  <2>5. Unsent(q[i])
    BY <2>2, <2>4
  <2> QED
    BY <2>1, <2>2, <2>3, <2>4, <2>5
<1>6. 1 \in 1..n /\ n - 1 \in Nat /\ (n - 1) + 1 <= Len(call)
  BY <1>1, <1>2
<1> QED
  BY <1>1, <1>2, <1>3, <1>4, <1>5, <1>6 DEF n, q

(* The next call is passed over, or waits for room or for a RESET. *)
LEMMA TakeKeeps ==
  ASSUME Base, OnceInv, TrueInv, ClientTurn, NoMessage, ClientType', SameCalls, CallType',
         cl.stage = "idle", cl.queue # <<>>, NEW c \in Calls, c = Head(cl.queue), cl'.queue = Tail(cl.queue),
         \A d \in Calls : call'[d].answer = call[d].answer \/ (d = c /\ call'[d].answer = "superseded"),
         cl'.seq = cl.seq, cl'.needReset = cl.needReset, ~cl'.retried, ~cl'.renewed,
         \/ cl'.stage = "idle" /\ cl'.job = NoJob /\ cl'.reset = cl.reset
         \/ cl'.stage = "space" /\ cl'.job = c /\ cl'.reset = cl.reset /\ call' = call
         \/ cl'.stage = "reset" /\ cl'.job = c /\ cl.needReset /\ call' = call
  PROVE  Base' /\ OnceInv' /\ TrueInv'
<1>0. PICK q : q = Tail(cl.queue)
  OBVIOUS
<1>1. /\ call[c].answer = "none" /\ Unsent(c)
      /\ q \in Seq(Nat) /\ Len(q) = Len(cl.queue) - 1 /\ Len(q) \in Nat /\ Len(q) + 1 <= Len(call)
      /\ \A i \in DOMAIN q :
           /\ q[i] \in Calls /\ q[i] # c /\ call[q[i]].answer = "none" /\ Unsent(q[i])
           /\ \A k \in DOMAIN q : q[k] = q[i] => k = i
  BY <1>0, NextIs
<1>2. /\ \A m \in ToHead' : m = ResetFrame \/ m \in ToHead
      /\ NetType' /\ HeadType'
      /\ Remembers' => Remembers
      /\ Plain' => Plain
      /\ \A d \in Calls : Command(d)' = Command(d) /\ Live(d)' \subseteq Live(d) /\ (Unsent(d) => Unsent(d)')
      /\ Runs => Runs'
      /\ (\E m \in ToDriver' : m.kind = "sequence") => \E m \in ToDriver : m.kind = "sequence"
  BY StillSent
<1>3. cl'.queue = q /\ Len(call) \in Nat /\ NoJob \notin Calls /\ Len(cl.queue) \in Nat
  BY <1>0, <1>1, CallsAre, LengthIs DEF Base, ClientType
<1>a. cl'.job \in {NoJob, c} /\ (cl'.stage = "idle" <=> cl'.job = NoJob) /\ (cl'.job = c => call' = call)
  BY <1>3
<1>4. PumpOk'
  <2>1. ASSUME NEW i \in DOMAIN q
        PROVE  q[i] \in Calls /\ q[i] # cl'.job /\ call'[q[i]].answer = "none" /\ Unsent(q[i])'
               /\ \A k \in DOMAIN q : q[k] = q[i] => k = i
    <3>1. \A d \in Calls : d = q[i] => (Unsent(d) => Unsent(d)')
      BY <1>2
    <3>2. q[i] \in Calls /\ q[i] # c /\ q[i] # NoJob /\ Unsent(q[i]) /\ call[q[i]].answer = "none"
          /\ \A k \in DOMAIN q : q[k] = q[i] => k = i
      BY <1>1, <1>3
    <3>3. Unsent(q[i])'
      BY <3>1, <3>2
    <3>4. q[i] # cl'.job
      BY <1>a, <3>2
    <3>5. call'[q[i]].answer = "none"
      BY <3>2
    <3> QED
      BY <3>2, <3>3, <3>4, <3>5
  <2>2. \A i \in DOMAIN cl'.queue :
               /\ cl'.queue[i] \in Calls' /\ cl'.queue[i] # cl'.job
               /\ call'[cl'.queue[i]].answer = "none" /\ Unsent(cl.queue[i])'
               /\ \A k \in DOMAIN cl'.queue : cl'.queue[k] = cl'.queue[i] => k = i
    <3>1. ASSUME NEW i \in DOMAIN cl'.queue
          PROVE  /\ cl'.queue[i] \in Calls' /\ cl'.queue[i] # cl'.job
                 /\ call'[cl'.queue[i]].answer = "none"
                 /\ \A k \in DOMAIN cl'.queue : cl'.queue[k] = cl'.queue[i] => k = i
      BY <1>3, <2>1 DEF SameCalls
    <3>2. ASSUME NEW i \in DOMAIN cl'.queue PROVE Unsent(cl.queue[i])'
      <4>1. q[i] = cl'.queue[i] /\ i \in DOMAIN q
        BY <1>3
      <4>2. \A d : d = cl'.queue[i] => (Unsent(d)' => Unsent(cl.queue[i])')
        OBVIOUS
      <4> QED
        BY <2>1, <4>1, <4>2
    <3> QED
      BY <3>1, <3>2
  <2>3. cl'.stage = "space" => Unsent(cl.job)'
    <3>1. Unsent(c)'
      BY <1>1, <1>2
    <3>2. \A d \in Calls : d = cl'.job => d = c \/ cl'.stage # "space"
      OBVIOUS
    <3>3. \A d : d = c => (d = cl'.job => (Unsent(d)' => Unsent(cl.job)'))
      OBVIOUS
    <3> QED
      BY <3>1, <3>3
  <2>4. /\ cl'.stage = "idle" <=> cl'.job = NoJob
        /\ cl'.job # NoJob => cl'.job \in Calls' /\ call'[cl'.job].answer = "none"
        /\ Len(cl'.queue) + (IF cl'.job = NoJob THEN 0 ELSE 1) <= Len(call')
    <3>1. cl'.stage = "idle" <=> cl'.job = NoJob
      BY <1>a
    <3>2. cl'.job # NoJob => cl'.job \in Calls' /\ call'[cl'.job].answer = "none"
      BY <1>1, <1>a DEF SameCalls
    <3>3. Len(cl'.queue) + (IF cl'.job = NoJob THEN 0 ELSE 1) <= Len(call')
      <4>1. Len(cl'.queue) = Len(q) /\ Len(call') = Len(call)
        BY <1>3 DEF SameCalls
      <4>2. Len(q) + 0 <= Len(call) /\ Len(q) + 1 <= Len(call)
        BY <1>1, <1>3
      <4> QED
        BY <4>1, <4>2
    <3> QED
      BY <3>1, <3>2, <3>3
  <2> QED
    BY <2>2, <2>3, <2>4 DEF PumpOk
<1>5. Base'
  BY <1>2, <1>4 DEF Base
<1>6. Fresh => Fresh'
  BY <1>2, ResetFrameIs DEF Fresh, SameCalls, ClientTurn
<1>7. Running => Running'
  <2> SUFFICES ASSUME Running PROVE Running'
    OBVIOUS
  <2>1. cl.seq \in Nat /\ cl.seq + 0 <= 2 * (Len(call) - Len(cl.queue))
    BY DEF Running, Numbers, Spare, Base, ClientType
  <2>2. Spare' \in {0, 2} /\ cl'.stage \in {"idle", "space"}
    BY DEF Spare, Running
  <2>3. cl'.seq + Spare' <= 2 * (Len(call) - Len(q))
    <3>1. \A x, l, n, z \in Nat : z + 0 <= 2 * (x - n) /\ l = n - 1 => z + 0 <= 2 * (x - l) /\ z + 2 <= 2 * (x - l)
      OBVIOUS
    <3>2. cl.seq + 0 <= 2 * (Len(call) - Len(q)) /\ cl.seq + 2 <= 2 * (Len(call) - Len(q))
      BY <1>1, <1>3, <2>1, <3>1
    <3> QED
      BY <2>2, <3>2
  <2>4. Numbers'
    BY <1>2, <1>3, <2>2, <2>3, ResetFrameIs DEF Running, Numbers, SameCalls, ClientTurn
  <2> QED
    BY <2>2, <2>4 DEF Running
<1>8. Renewing => Renewing'
  BY DEF Renewing, ClientTurn
<1>9. OnceInv'
  BY <1>2, <1>6, <1>7, <1>8 DEF OnceInv, ClientTurn
<1>10. TrueInv'
  <2> SUFFICES ASSUME Plain' PROVE TrueInv'
    BY DEF TrueInv
  <2>1. /\ (Fresh /\ seen = {}) \/ (Running /\ seen \subseteq 1..cl.seq)
        /\ \A m \in ToDriver : Says(m)
        /\ \A d \in Calls : Command(d) => Given(d)
    BY <1>2 DEF TrueInv
  <2>2. (Fresh' /\ seen' = {}) \/ (Running' /\ seen' \subseteq 1..cl'.seq)
    BY <1>6, <1>7, <2>1 DEF ClientTurn
  <2>3. ASSUME NEW m \in ToDriver' PROVE Says(m)'
    <3>1. m \in ToDriver /\ Says(m) /\ (m.kind # "reset" => m.job \in Calls)
      BY <2>1, ItemsAre DEF ClientTurn, Base
    <3> QED
      BY <1>2, <3>1 DEF Says, SameCalls
  <2>4. ASSUME NEW d \in Calls, Command(d) PROVE Given(d)'
    BY <1>2, <2>1, <2>4 DEF Given, Answer, SameCalls
  <2> QED
    BY <1>2, <2>2, <2>3, <2>4 DEF TrueInv, SameCalls
<1> QED
  BY <1>5, <1>9, <1>10

-----------------------------------------------------------------------------
(* The steps of the client. *)

LEMMA StartResetIs ==
  ASSUME Base, NEW k, StartReset(k)
  PROVE  NoMessage /\ cl' = [k EXCEPT !.reset = IF @ = 0 THEN 1 ELSE @]
BY ResetSent, NothingSent DEF StartReset, Base

LEMMA TransmitIs ==
  ASSUME NEW c, NEW k, Transmit(c, k)
  PROVE  LET s == NextSeq(k.seq)
         IN  /\ cl' = [k EXCEPT !.job = c, !.stage = "reply", !.seq = s, !.mine = s, !.copies = 1]
             /\ SendUdp(Message(c, s))
BY DEF Transmit

LEMMA PumpKeeps ==
  ASSUME Base, OnceInv, TrueInv, PumpNext
  PROVE  Base' /\ OnceInv' /\ TrueInv'
<1>0. PICK c, q : c = Head(cl.queue) /\ q = Tail(cl.queue)
  OBVIOUS
<1>1. /\ cl.stage = "idle" /\ cl.queue # <<>> /\ ~cl.closed /\ cl.job = NoJob
      /\ UNCHANGED <<withdrawn, toUs, head, faults, slips>>
  BY DEF PumpNext, Base, PumpOk
<1>2. /\ c \in Calls /\ call[c].answer = "none" /\ Unsent(c)
      /\ q \in Seq(Nat) /\ Len(q) = Len(cl.queue) - 1 /\ Len(q) \in Nat /\ Len(q) + 1 <= Len(call)
      /\ \A i \in DOMAIN q :
           /\ q[i] \in Calls /\ q[i] # c /\ call[q[i]].answer = "none" /\ Unsent(q[i])
           /\ \A k \in DOMAIN q : q[k] = q[i] => k = i
  BY <1>0, <1>1, NextIs
<1>3. ClientTurn /\ CallType /\ c \in Nat /\ NetType
  BY <1>1, <1>2, TurnHere, CallsAre DEF Base, Calls
<1>4. PICK k : k = [cl EXCEPT !.queue = q, !.renewed = FALSE, !.retried = FALSE]
  OBVIOUS
<1>5. CASE ~Wanted(c)
  <2>1. Answered(c, "superseded") /\ cl' = k /\ UNCHANGED toCam
    BY <1>0, <1>4, <1>5 DEF PumpNext
  <2>2. SameCalls /\ CallType' /\ \A d \in Calls : call'[d].answer = call[d].answer \/ (d = c /\ call'[d].answer = "superseded")
    BY <1>2, <1>3, <2>1, AnsweredIs DEF Answers
  <2>3. ClientType' /\ NoMessage
    BY <1>2, <1>3, <1>4, <2>1, NothingSent DEF Base, ClientType
  <2>4. /\ cl'.queue = q /\ cl'.seq = cl.seq /\ cl'.needReset = cl.needReset /\ ~cl'.retried /\ ~cl'.renewed
        /\ cl'.stage = "idle" /\ cl'.job = NoJob /\ cl'.reset = cl.reset
    BY <1>1, <1>4, <2>1 DEF Base, ClientType
  <2> QED
    BY <1>0, <1>1, <1>2, <1>3, <2>2, <2>3, <2>4, TakeKeeps
<1>6. CASE Wanted(c)
  <2>1. PICK b \in SUBSET cl.buffers :
          LET kk == [k EXCEPT !.buffers = b]
          IN  \/ cl' = [kk EXCEPT !.job = c, !.stage = "space"] /\ UNCHANGED toCam
              \/ ExchangeSony(c, kk)
    <3>1. k = [k EXCEPT !.buffers = cl.buffers]
      BY <1>4 DEF Base, ClientType
    <3> QED
      BY <1>0, <1>4, <1>6, <3>1 DEF PumpNext
  <2>2. PICK kk : kk = [k EXCEPT !.buffers = b]
    OBVIOUS
  <2>3. call' = call
    BY <1>0, <1>6 DEF PumpNext
  <2>4. /\ kk.queue = q /\ kk.seq = cl.seq /\ kk.needReset = cl.needReset /\ kk.retried = FALSE /\ kk.renewed = FALSE
        /\ kk.reset = cl.reset
        /\ kk \in [queue : Seq(Nat), job : Nat, stage : Stages, seq : Nat, needReset : BOOLEAN,
                   reset : 0..2, mine : Nat, copies : 0..2, renewed : BOOLEAN, retried : BOOLEAN,
                   renewing : Nat, buffers : SUBSET Nat, closed : BOOLEAN]
    BY <1>2, <1>4, <2>1, <2>2 DEF Base, ClientType
  <2>5. SameCalls /\ CallType'
    BY <1>3, <2>3, SameCallsHere
  <2>6. CASE cl' = [kk EXCEPT !.job = c, !.stage = "space"] /\ UNCHANGED toCam
    <3>1. ClientType' /\ NoMessage
      BY <1>3, <2>4, <2>6, NothingSent DEF ClientType, Stages
    <3>2. /\ cl'.queue = q /\ cl'.seq = cl.seq /\ cl'.needReset = cl.needReset /\ ~cl'.retried /\ ~cl'.renewed
          /\ cl'.stage = "space" /\ cl'.job = c /\ cl'.reset = cl.reset
      BY <2>4, <2>6
    <3> QED
      BY <1>0, <1>1, <1>2, <1>3, <2>3, <2>5, <3>1, <3>2, TakeKeeps
  <2>7. CASE ExchangeSony(c, kk) /\ cl.needReset
    <3>1. StartReset([kk EXCEPT !.job = c, !.stage = "reset"])
      BY <2>4, <2>7 DEF ExchangeSony
    <3>2. NoMessage /\ cl' = [kk EXCEPT !.job = c, !.stage = "reset", !.reset = IF kk.reset = 0 THEN 1 ELSE kk.reset]
      BY <2>4, <3>1, StartResetIs
    <3>3. ClientType'
      <4>1. PICK r \in 0..2 : r = IF kk.reset = 0 THEN 1 ELSE kk.reset
        BY <2>4
      <4>2. cl' = [kk EXCEPT !.job = c, !.stage = "reset", !.reset = r]
        BY <3>2, <4>1
      <4> QED
        BY <1>3, <2>4, <4>2 DEF ClientType, Stages
    <3>4. /\ cl'.queue = q /\ cl'.seq = cl.seq /\ cl'.needReset = cl.needReset /\ ~cl'.retried /\ ~cl'.renewed
          /\ cl'.stage = "reset" /\ cl'.job = c
      BY <2>4, <3>2
    <3> QED
      BY <1>0, <1>1, <1>2, <1>3, <2>3, <2>5, <2>7, <3>2, <3>3, <3>4, TakeKeeps
  <2>8. CASE ExchangeSony(c, kk) /\ ~cl.needReset
    <3>0. PICK s : s = NextSeq(cl.seq)
      OBVIOUS
    <3>1. /\ cl' = [kk EXCEPT !.job = c, !.stage = "reply", !.seq = s, !.mine = s, !.copies = 1]
          /\ SendUdp(Message(c, s))
      <4>1. Transmit(c, kk)
        BY <2>4, <2>8 DEF ExchangeSony
      <4>2. NextSeq(kk.seq) = s
        BY <2>4, <3>0
      <4> QED
        BY <4>1, <4>2, TransmitIs
    <3>2. s \in Nat
      BY <3>0 DEF NextSeq, Base, ClientType
    <3>3. ClientType'
      <4>1. PICK one \in 0..2 : one = 1
        OBVIOUS
      <4>2. cl' = [kk EXCEPT !.job = c, !.stage = "reply", !.seq = s, !.mine = s, !.copies = one]
        BY <3>1, <4>1
      <4> QED
        BY <1>3, <2>4, <3>2, <4>2 DEF ClientType, Stages
    <3>4. /\ cl'.queue = q /\ cl'.job = c /\ cl'.stage = "reply" /\ cl'.seq = s /\ cl'.mine = s /\ cl'.copies = 1
          /\ ~cl'.needReset /\ cl'.reset = cl.reset /\ ~cl'.retried /\ ~cl'.renewed
      BY <2>4, <2>8, <3>1
    <3>5. ASSUME Remembers' \/ Plain' PROVE Running /\ s = cl.seq + 1 /\ s + 1 <= 2 * (Len(call) - Len(q))
      <4>1. Remembers
        BY <3>5, <1>1 DEF Remembers, Plain
      <4>2. Running
        BY <2>8, <4>1 DEF OnceInv, Fresh, Renewing
      <4>3. cl.seq \in Nat /\ cl.seq + 0 <= 2 * (Len(call) - Len(cl.queue))
        BY <1>1, <4>2 DEF Running, Numbers, Spare, Base, ClientType
      <4>4. Len(cl.queue) \in Nat /\ Len(call) \in Nat
        BY <1>3, LengthIs, CallsAre DEF Base, ClientType
      <4>5. \A x, l, n, z \in Nat : z + 0 <= 2 * (x - n) /\ l = n - 1 => z + 2 <= 2 * (x - l) /\ z + 1 <= 2 * x
        OBVIOUS
      <4>6. cl.seq + 2 <= 2 * (Len(call) - Len(q)) /\ cl.seq + 1 <= 2 * Len(call)
        BY <1>2, <4>3, <4>4, <4>5
      <4>7. s = cl.seq + 1
        BY <1>3, <3>0, <4>3, <4>6, NextSeqIs
      <4> QED
        <5>1. \A x, l, z \in Nat : z + 2 <= 2 * (x - l) => z + 1 + 1 <= 2 * (x - l)
          OBVIOUS
        <5>2. s + 1 <= 2 * (Len(call) - Len(q))
          BY <1>2, <4>3, <4>4, <4>6, <4>7, <5>1
        <5> QED
          BY <4>2, <4>7, <5>2
    <3>6. Remembers' =>
           /\ s >= 1 /\ cl'.reset = 0 /\ ~cl'.needReset /\ (cl'.retried => Command(c)) /\ (cl'.renewed => ~Command(c))
           /\ \A m \in ToHead : m.kind = "message" => m.seq \in 1..(s - 1)
           /\ \A m \in ToDriver' : m.seq \in 0..(s - 1)
           /\ Command(c) => Live(c) = {} /\ call[c].ran = 0
           /\ s + (IF cl'.renewed \/ cl'.retried THEN 0 ELSE 1) <= 2 * (Len(call) - Len(cl'.queue))
      <4> SUFFICES ASSUME Remembers'
                   PROVE /\ s >= 1 /\ cl'.reset = 0 /\ ~cl'.needReset /\ (cl'.retried => Command(c)) /\ (cl'.renewed => ~Command(c))
                         /\ \A m \in ToHead : m.kind = "message" => m.seq \in 1..(s - 1)
                         /\ \A m \in ToDriver' : m.seq \in 0..(s - 1)
                         /\ Command(c) => Live(c) = {} /\ call[c].ran = 0
                         /\ s + (IF cl'.renewed \/ cl'.retried THEN 0 ELSE 1) <= 2 * (Len(call) - Len(cl'.queue))
        OBVIOUS
      <4>1. Running /\ s = cl.seq + 1 /\ s + 1 <= 2 * (Len(call) - Len(q)) /\ cl.seq \in Nat
        BY <3>5 DEF Base, ClientType
      <4>2. cl'.renewed = FALSE /\ cl'.retried = FALSE /\ cl'.queue = q
        BY <2>4, <3>1
      <4>3. Live(c) = {} /\ call[c].ran = 0
        BY <1>2 DEF Live, Unsent
      <4>4. cl'.reset = 0 /\ s >= 1 /\ s - 1 = cl.seq
        BY <3>4, <4>1 DEF Running
      <4>5. /\ \A m \in ToHead : m.kind = "message" => m.seq \in 1..(s - 1)
            /\ \A m \in ToDriver' : m.seq \in 0..(s - 1)
        BY <1>3, <4>1, <4>4 DEF Running, Numbers, ClientTurn
      <4>6. s + (IF cl'.renewed \/ cl'.retried THEN 0 ELSE 1) <= 2 * (Len(call) - Len(cl'.queue))
        BY <4>1, <4>2
      <4> QED
        BY <3>4, <4>3, <4>4, <4>5, <4>6
    <3>7. Plain' => seen \subseteq 1..(s - 1) /\ \A m \in ToDriver' : m.kind = "sequence" => m.seq \in 1..(s - 1)
      <4> SUFFICES ASSUME Plain' PROVE seen \subseteq 1..(s - 1) /\ \A m \in ToDriver' : m.kind = "sequence" => m.seq \in 1..(s - 1)
        OBVIOUS
      <4>1. Running /\ s = cl.seq + 1 /\ cl.seq \in Nat /\ Plain
        BY <1>1, <3>5 DEF Base, ClientType, Plain
      <4> QED
        BY <1>3, <4>1, <2>8 DEF TrueInv, Fresh, Says, ClientTurn
    <3>8. \A i \in DOMAIN cl'.queue :
           /\ cl'.queue[i] \in Calls /\ cl'.queue[i] # c
           /\ call[cl'.queue[i]].answer = "none" /\ Unsent(cl'.queue[i])
           /\ \A j \in DOMAIN cl'.queue : cl'.queue[j] = cl'.queue[i] => j = i
      BY <1>2, <3>4
    <3> QED
      BY <1>2, <1>3, <2>3, <3>1, <3>2, <3>3, <3>4, <3>6, <3>7, <3>8, TransmitKeeps
  <2> QED
    BY <2>1, <2>2, <2>6, <2>7, <2>8
<1> QED
  BY <1>5, <1>6

LEMMA WaitKeeps ==
  ASSUME Base, OnceInv, TrueInv, WaitOver
  PROVE  Base' /\ OnceInv' /\ TrueInv'
<1>0. PICK c : c = cl.job
  OBVIOUS
<1>1. PICK b \in BOOLEAN : b = (cl.stage = "full")
  OBVIOUS
<1>2. PICK k : k = [cl EXCEPT !.retried = b]
  OBVIOUS
<1>3. /\ cl.stage \in {"space", "full"} /\ ExchangeSony(c, k)
      /\ UNCHANGED <<call, withdrawn, toUs, head, faults, slips>>
  BY <1>0, <1>1, <1>2 DEF WaitOver
<1>4. /\ c \in Calls /\ c # NoJob /\ call[c].answer = "none" /\ (cl.stage = "space" => Unsent(c))
      /\ Len(cl.queue) + 1 <= Len(call)
      /\ \A i \in DOMAIN cl.queue :
           /\ cl.queue[i] \in Calls /\ cl.queue[i] # c
           /\ call[cl.queue[i]].answer = "none" /\ Unsent(cl.queue[i])
           /\ \A j \in DOMAIN cl.queue : cl.queue[j] = cl.queue[i] => j = i
  BY <1>0, <1>3 DEF Base, PumpOk
<1>5. ClientTurn /\ CallType /\ c \in Nat /\ NetType /\ SameCalls /\ CallType' /\ call' = call
  BY <1>3, <1>4, TurnHere, CallsAre, SameCallsHere DEF Base, Calls
<1>6. /\ k.queue = cl.queue /\ k.seq = cl.seq /\ k.needReset = cl.needReset /\ k.retried = b /\ k.renewed = cl.renewed
      /\ k.reset = cl.reset
      /\ k \in [queue : Seq(Nat), job : Nat, stage : Stages, seq : Nat, needReset : BOOLEAN,
                   reset : 0..2, mine : Nat, copies : 0..2, renewed : BOOLEAN, retried : BOOLEAN,
                   renewing : Nat, buffers : SUBSET Nat, closed : BOOLEAN]
  BY <1>1, <1>2 DEF Base, ClientType
<1>7. CASE cl.needReset
  <2>1. StartReset([k EXCEPT !.job = c, !.stage = "reset"])
    BY <1>3, <1>6, <1>7 DEF ExchangeSony
  <2>2. NoMessage /\ cl' = [k EXCEPT !.job = c, !.stage = "reset", !.reset = IF k.reset = 0 THEN 1 ELSE k.reset]
    BY <1>6, <2>1, StartResetIs
  <2>3. ClientType'
    <3>1. PICK r \in 0..2 : r = IF k.reset = 0 THEN 1 ELSE k.reset
      BY <1>6
    <3>2. cl' = [k EXCEPT !.job = c, !.stage = "reset", !.reset = r]
      BY <2>2, <3>1
    <3> QED
      BY <1>5, <1>6, <3>2 DEF ClientType, Stages
  <2>4. /\ cl'.queue = cl.queue /\ cl'.seq = cl.seq /\ cl'.needReset = cl.needReset /\ cl'.retried = b
        /\ cl'.stage = "reset" /\ cl'.job = cl.job /\ cl'.renewed = cl.renewed
    BY <1>0, <1>6, <2>2
  <2>5. /\ \A m \in ToHead' : m = ResetFrame \/ m \in ToHead
        /\ NetType' /\ HeadType'
        /\ Remembers' => Remembers
        /\ Plain' => Plain
        /\ Runs => Runs'
        /\ (\E m \in ToDriver' : m.kind = "sequence") => \E m \in ToDriver : m.kind = "sequence"
    BY <1>5, <2>2, StillSent DEF Base
  <2>6. PumpOk'
    BY <1>3, <1>5, <2>2, <2>4, StillPumped
  <2>7. Fresh => Fresh'
    BY <1>1, <1>3, <1>5, <2>4, <2>5, ResetFrameIs DEF Fresh, SameCalls, ClientTurn
  <2>8. Renewing => Renewing'
    BY <1>5, <2>4 DEF Renewing, ClientTurn
  <2>9. OnceInv'
    BY <1>5, <1>7, <2>5, <2>7, <2>8 DEF OnceInv, ClientTurn, Running
  <2>10. TrueInv'
    <3> SUFFICES ASSUME Plain' PROVE TrueInv'
      BY DEF TrueInv
    <3>1. /\ (Fresh /\ seen = {}) \/ (Running /\ seen \subseteq 1..cl.seq)
          /\ \A m \in ToDriver' : Says(m)'
          /\ \A d \in Calls' : Command(d)' => Given(d)'
      BY <1>5, <2>2, <2>4, StillTrue
    <3>2. Fresh' /\ seen' = {}
      BY <1>5, <1>7, <2>7, <3>1 DEF Running, ClientTurn
    <3> QED
      BY <2>4, <3>1, <3>2 DEF TrueInv
  <2> QED
    BY <1>5, <2>3, <2>5, <2>6, <2>9, <2>10 DEF Base
<1>8. CASE ~cl.needReset
  <2>0. PICK s : s = NextSeq(cl.seq)
    OBVIOUS
  <2>1. /\ cl' = [k EXCEPT !.job = c, !.stage = "reply", !.seq = s, !.mine = s, !.copies = 1]
        /\ SendUdp(Message(c, s))
    <3>1. Transmit(c, k)
      BY <1>3, <1>6, <1>8 DEF ExchangeSony
    <3>2. NextSeq(k.seq) = s
      BY <1>6, <2>0
    <3> QED
      BY <3>1, <3>2, TransmitIs
  <2>2. s \in Nat
    BY <2>0 DEF NextSeq, Base, ClientType
  <2>3. ClientType'
    <3>1. PICK one \in 0..2 : one = 1
      OBVIOUS
    <3>2. cl' = [k EXCEPT !.job = c, !.stage = "reply", !.seq = s, !.mine = s, !.copies = one]
      BY <2>1, <3>1
    <3> QED
      BY <1>5, <1>6, <2>2, <3>2 DEF ClientType, Stages
  <2>4. /\ cl'.queue = cl.queue /\ cl'.job = c /\ cl'.stage = "reply" /\ cl'.seq = s /\ cl'.mine = s /\ cl'.copies = 1
        /\ ~cl'.needReset /\ cl'.reset = cl.reset /\ cl'.retried = b /\ cl'.renewed = cl.renewed
    BY <1>6, <1>8, <2>1
  <2>5. ASSUME Remembers' \/ Plain'
        PROVE  /\ Running /\ s = cl.seq + 1 /\ (b => Command(c)) /\ ~cl.renewed
               /\ s + (IF cl.renewed \/ b THEN 0 ELSE 1) <= 2 * (Len(call) - Len(cl.queue))
               /\ Command(c) => Live(c) = {} /\ call[c].ran = 0
    <3>1. Remembers
      BY <1>3, <2>5 DEF Remembers, Plain
    <3>2. Running
      BY <1>8, <3>1 DEF OnceInv, Fresh, Renewing
    <3>3. cl.seq \in Nat /\ cl.seq + Spare <= 2 * (Len(call) - Len(cl.queue))
      BY <3>2 DEF Running, Numbers, Base, ClientType
    <3>4. Len(cl.queue) \in Nat /\ Len(call) \in Nat
      BY <1>5, LengthIs, CallsAre DEF Base, ClientType
    <3>5. Spare = IF b THEN 1 ELSE 2
      BY <1>1, <1>3 DEF Spare
    <3>6. \A x, l, z \in Nat : /\ z + 1 <= 2 * (x - l) => z + 1 <= 2 * x /\ z + 1 + 0 <= 2 * (x - l)
                               /\ z + 2 <= 2 * (x - l) => z + 1 <= 2 * x /\ z + 1 + 0 <= 2 * (x - l)
                                                                      /\ z + 1 + 1 <= 2 * (x - l)
      OBVIOUS
    <3>7. /\ cl.seq + 1 <= 2 * Len(call) /\ cl.seq + 1 + 0 <= 2 * (Len(call) - Len(cl.queue))
          /\ ~b => cl.seq + 1 + 1 <= 2 * (Len(call) - Len(cl.queue))
      BY <3>3, <3>4, <3>5, <3>6
    <3>8. s = cl.seq + 1
      BY <1>5, <2>0, <3>3, <3>7, NextSeqIs
    <3>9. s + (IF cl.renewed \/ b THEN 0 ELSE 1) <= 2 * (Len(call) - Len(cl.queue))
      BY <3>7, <3>8
    <3>10. b => Command(c) /\ Live(c) = {} /\ call[c].ran = 0
      BY <1>0, <1>1, <3>2 DEF Running, Numbers
    <3>11. ~b => Live(c) = {} /\ call[c].ran = 0
      BY <1>1, <1>3, <1>4 DEF Live, Unsent
    <3>12. ~cl.renewed
      BY <1>3, <3>2 DEF Running, Numbers
    <3> QED
      BY <3>2, <3>8, <3>9, <3>10, <3>11, <3>12
  <2>6. ASSUME Remembers'
        PROVE  /\ s >= 1 /\ cl'.reset = 0 /\ ~cl'.needReset /\ (cl'.retried => Command(c)) /\ (cl'.renewed => ~Command(c))
               /\ \A m \in ToHead : m.kind = "message" => m.seq \in 1..(s - 1)
               /\ \A m \in ToDriver' : m.seq \in 0..(s - 1)
               /\ Command(c) => Live(c) = {} /\ call[c].ran = 0
               /\ s + (IF cl'.renewed \/ cl'.retried THEN 0 ELSE 1) <= 2 * (Len(call) - Len(cl'.queue))
    <3>1. cl'.reset = 0 /\ s >= 1 /\ s - 1 = cl.seq /\ Running
      BY <2>4, <2>5, <2>6 DEF Running, Base, ClientType
    <3>2. /\ \A m \in ToHead : m.kind = "message" => m.seq \in 1..(s - 1)
          /\ \A m \in ToDriver' : m.seq \in 0..(s - 1)
      BY <1>5, <3>1 DEF Running, Numbers, ClientTurn
    <3> QED
      BY <2>4, <2>5, <2>6, <3>1, <3>2
  <2>7. ASSUME Plain'
        PROVE  seen \subseteq 1..(s - 1) /\ \A m \in ToDriver' : m.kind = "sequence" => m.seq \in 1..(s - 1)
    <3>1. Running /\ s = cl.seq + 1 /\ cl.seq \in Nat /\ Plain
      BY <1>3, <2>5, <2>7 DEF Base, ClientType, Plain
    <3> QED
      BY <1>5, <1>8, <3>1 DEF TrueInv, Fresh, Says, ClientTurn
  <2> QED
    BY <1>4, <1>5, <2>1, <2>2, <2>3, <2>4, <2>6, <2>7, TransmitKeeps
<1> QED
  BY <1>7, <1>8

LEMMA FinishIs ==
  ASSUME Base, OnceInv, TrueInv, ClientTurn, cl.stage = "reply",
         NEW a \in Answers \ {"none"}, Finish(cl.job, a),
         Plain' /\ Command(cl.job) =>
           /\ a \in {"ok", "assumed"} => call[cl.job].ran > 0
           /\ a = "refused" => call[cl.job].ran = 0 /\ Live(cl.job) = {}
  PROVE  Base' /\ OnceInv' /\ TrueInv'
<1>1. Answered(cl.job, a) /\ cl' = [cl EXCEPT !.job = NoJob, !.stage = "idle"] /\ UNCHANGED toCam
  BY DEF Finish
<1>2. ClientType' /\ NoMessage /\ cl.job # NoJob
  BY <1>1, NothingSent DEF Base, PumpOk, ClientType, Stages, NoJob
<1>3. /\ cl'.job = NoJob /\ cl'.stage = "idle" /\ cl'.queue = cl.queue /\ cl'.seq = cl.seq
      /\ cl'.needReset = cl.needReset /\ cl'.reset = cl.reset
  BY <1>1 DEF Base, ClientType
<1> QED
  BY <1>1, <1>2, <1>3, FinishKeeps

LEMMA ResetTimerKeeps ==
  ASSUME Base, OnceInv, TrueInv, ResetTimer
  PROVE  Base' /\ OnceInv' /\ TrueInv'
<1>1. ClientTurn /\ cl.reset > 0
  BY TurnHere DEF ResetTimer
<1>2. CASE cl.reset = 1 /\ ~cl.closed
  <2>1. cl' = [cl EXCEPT !.reset = 2] /\ SendUdp(ResetFrame) /\ UNCHANGED call
    BY <1>2 DEF ResetTimer
  <2>2. PICK two \in 0..2 : two = 2
    OBVIOUS
  <2>3. ClientType' /\ NoMessage
    BY <2>1, <2>2, ResetSent DEF Base, ClientType
  <2>4. /\ cl'.seq = cl.seq /\ cl'.mine = cl.mine /\ cl'.job = cl.job /\ cl'.stage = cl.stage /\ cl'.copies = cl.copies
        /\ cl'.queue = cl.queue /\ cl'.renewed = cl.renewed /\ cl'.retried = cl.retried
        /\ cl'.needReset = cl.needReset /\ cl'.renewing = cl.renewing
    BY <2>1 DEF Base, ClientType
  <2> QED
    BY <1>1, <2>1, <2>3, <2>4, StandKeeps
<1>3. CASE ~(cl.reset = 1 /\ ~cl.closed)
  <2>1. PICK k : k = [cl EXCEPT !.reset = 0, !.renewing = NoJob]
    OBVIOUS
  <2>2. PICK none \in 0..2 : none = 0
    OBVIOUS
  <2>3. /\ k \in [queue : Seq(Nat), job : Nat, stage : Stages, seq : Nat, needReset : BOOLEAN,
                   reset : 0..2, mine : Nat, copies : 0..2, renewed : BOOLEAN, retried : BOOLEAN,
                   renewing : Nat, buffers : SUBSET Nat, closed : BOOLEAN]
        /\ k.seq = cl.seq /\ k.mine = cl.mine /\ k.job = cl.job /\ k.stage = cl.stage /\ k.copies = cl.copies
        /\ k.queue = cl.queue /\ k.renewed = cl.renewed /\ k.retried = cl.retried
        /\ k.needReset = cl.needReset /\ k.reset = 0
    <3>1. k = [cl EXCEPT !.reset = none, !.renewing = NoJob]
      BY <2>1, <2>2
    <3>2. NoJob \in Nat
      BY DEF NoJob
    <3> QED
      BY <2>2, <3>1, <3>2 DEF Base, ClientType
  <2>4. UNCHANGED toCam /\ NoMessage
    BY <1>3, NothingSent DEF ResetTimer, Base
  <2>5. CASE cl.stage = "reset" \/ (cl.renewing # NoJob /\ cl.renewing = Current)
    <3>1. PICK a \in {"network", "timeout"} : a = IF cl.closed THEN "network" ELSE "timeout"
      OBVIOUS
    <3>2. cl' = [k EXCEPT !.job = NoJob, !.stage = "idle"] /\ Answered(cl.job, a)
      BY <1>3, <2>1, <2>5, <3>1 DEF ResetTimer
    <3>3. cl.job # NoJob
      BY <2>5 DEF Base, PumpOk, Current
    <3>4. ClientType' /\ a \in Answers \ {"none"}
      BY <2>3, <3>2 DEF ClientType, Stages, NoJob, Answers
    <3>5. /\ cl'.job = NoJob /\ cl'.stage = "idle" /\ cl'.queue = cl.queue /\ cl'.seq = cl.seq
          /\ cl'.needReset = cl.needReset /\ cl'.reset = 0
      BY <2>3, <3>2
    <3> QED
      BY <1>1, <2>4, <3>2, <3>3, <3>4, <3>5, FinishKeeps
  <2>6. CASE ~(cl.stage = "reset" \/ (cl.renewing # NoJob /\ cl.renewing = Current))
    <3>1. cl' = k /\ UNCHANGED call
      BY <1>3, <2>1, <2>6 DEF ResetTimer
    <3>2. ClientType'
      BY <2>3, <3>1 DEF ClientType
    <3>3. ~(cl.stage = "reply" /\ cl.renewing = cl.job)
      BY <2>6 DEF Base, PumpOk, Current
    <3> QED
      BY <1>1, <2>3, <2>4, <3>1, <3>2, <3>3, StandKeeps
  <2> QED
    BY <2>5, <2>6
<1> QED
  BY <1>2, <1>3

(* The message goes out once more, under its number. *)
LEMMA CopyKeeps ==
  ASSUME Base, OnceInv, TrueInv, ClientTurn, cl.stage = "reply", cl.renewing # cl.job, call' = call,
         cl' = [cl EXCEPT !.copies = 2], SendUdp(Message(cl.job, cl.mine))
  PROVE  Base' /\ OnceInv' /\ TrueInv'
<1>0. PICK j, f : j = cl.job /\ f = Message(j, cl.mine)
  OBVIOUS
<1>1. /\ j \in Calls /\ j # NoJob /\ f \in Sent /\ f.kind = "message" /\ f.job = j /\ f.seq = cl.mine
      /\ f # ResetFrame /\ NetType /\ call[j].answer = "none"
  BY <1>0, CallsAre DEF Base, PumpOk, Message, Sent, Calls, ResetFrame, ClientType
<1>2. /\ toCam' \in Seq(Sent) /\ ToHead' \subseteq ToHead \cup {f}
  BY <1>0, <1>1, SendIs
<1>3. SameCalls /\ CallType' /\ Calls' = Calls
  BY SameCallsHere DEF Base, SameCalls
<1>4. PICK two \in 0..2 : two = 2
  OBVIOUS
<1>5. /\ ClientType'
      /\ cl'.seq = cl.seq /\ cl'.mine = cl.mine /\ cl'.job = j /\ cl'.stage = "reply" /\ cl'.copies = 2
      /\ cl'.queue = cl.queue /\ cl'.renewed = cl.renewed /\ cl'.retried = cl.retried /\ cl'.reset = cl.reset
      /\ cl'.needReset = cl.needReset /\ cl'.renewing = cl.renewing
  BY <1>0, <1>4 DEF Base, ClientType
<1>6. NetType' /\ HeadType'
  <2>1. \A m \in ToHead' \cup ToDriver' :
             IF m.kind = "reset" THEN m.job = NoJob /\ m.seq = 0 ELSE m.job \in Calls
    BY <1>1, <1>2 DEF ClientTurn, Base, NetType
  <2> QED
    BY <1>2, <1>3, <2>1 DEF ClientTurn, NetType, HeadType, Base
<1>7. \A d \in Calls : Command(d)' = Command(d) /\ Live(d)' \subseteq Live(d) \cup {f} /\ (d # j => Live(d)' \subseteq Live(d))
  BY <1>1, <1>2 DEF Command, Live, ClientTurn
<1>8. \A d \in Calls : d # j /\ Unsent(d) => Unsent(d)'
  BY <1>1, <1>2 DEF Unsent, ClientTurn
<1>9. PumpOk'
  <2>1. ASSUME NEW i \in DOMAIN cl'.queue
        PROVE  /\ cl'.queue[i] \in Calls' /\ cl'.queue[i] # cl'.job
               /\ call'[cl'.queue[i]].answer = "none" /\ Unsent(cl.queue[i])'
               /\ \A k \in DOMAIN cl'.queue : cl'.queue[k] = cl'.queue[i] => k = i
    <3>1. \A d \in Calls : d # j /\ d = cl'.queue[i] /\ Unsent(d) => Unsent(cl.queue[i])'
      BY <1>8
    <3>2. /\ cl.queue[i] \in Calls /\ cl.queue[i] # cl.job
          /\ call[cl.queue[i]].answer = "none" /\ Unsent(cl.queue[i])
          /\ \A k \in DOMAIN cl.queue : cl.queue[k] = cl.queue[i] => k = i
      BY <1>5 DEF Base, PumpOk
    <3>3. PICK d : d = cl.queue[i] /\ d = cl'.queue[i] /\ Unsent(d) /\ d # j /\ d \in Calls
      BY <1>0, <1>5, <3>2
    <3> QED
      BY <1>0, <1>3, <1>5, <3>1, <3>2, <3>3
  <2>2. Len(cl'.queue) + (IF cl'.job = NoJob THEN 0 ELSE 1) <= Len(call')
    BY <1>0, <1>5 DEF Base, PumpOk
  <2>3. /\ cl'.stage = "idle" <=> cl'.job = NoJob
        /\ cl'.job # NoJob => cl'.job \in Calls' /\ call'[cl'.job].answer = "none"
        /\ cl'.stage # "space"
    BY <1>1, <1>3, <1>5
  <2> QED
    BY <2>1, <2>2, <2>3 DEF PumpOk
<1>10. Base'
  BY <1>3, <1>5, <1>6, <1>9 DEF Base
<1>11. ASSUME Remembers' PROVE Remembers /\ Running /\ Running' /\ Runs'
  <2>1. Remembers /\ Runs /\ Running
    BY <1>11 DEF Remembers, ClientTurn, OnceInv, Fresh, Renewing
  <2>2. /\ cl.seq + Spare <= 2 * (Len(call) - Len(cl.queue))
        /\ \A m \in ToHead : m.kind = "message" => m.seq \in 1..cl.seq
        /\ \A m \in ToDriver : m.seq \in 0..cl.seq
        /\ cl.mine \in 1..cl.seq
        /\ \A m \in ToHead \cup ToDriver : m.seq = cl.mine => m.job = j
        /\ cl.retried => Command(j)
        /\ Command(j) =>
            /\ ~cl.renewed /\ (call[j].ran > 0 => cl.mine \in seen)
            /\ \A m \in Live(j) : m.seq = cl.mine
            /\ \A m \in ToDriver : m.kind \in {"refused", "full"} /\ m.seq = cl.mine =>
                 cl.mine \in seen /\ call[j].ran = 0
    BY <1>0, <2>1 DEF Running, Numbers
  <2>3. /\ cl'.seq + Spare' <= 2 * (Len(call') - Len(cl'.queue))
        /\ \A m \in ToHead' : m.kind = "message" => m.seq \in 1..cl'.seq
        /\ \A m \in ToDriver' : m.seq \in 0..cl'.seq
        /\ cl'.mine \in 1..cl'.seq
        /\ \A m \in ToHead' \cup ToDriver' : m.seq = cl'.mine => m.job = cl'.job
    <3>1. Spare' = Spare
      BY <1>5 DEF Spare
    <3> QED
      BY <1>1, <1>2, <1>5, <2>2, <3>1 DEF ClientTurn
  <2>4. Command(j) =>
            /\ ~cl'.renewed /\ (call'[j].ran > 0 => cl'.mine \in seen')
            /\ \A m \in Live(j)' : m.seq = cl'.mine
            /\ \A m \in ToDriver' : m.kind \in {"refused", "full"} /\ m.seq = cl'.mine =>
                 cl'.mine \in seen' /\ call'[j].ran = 0
    BY <1>1, <1>5, <1>7, <2>2 DEF ClientTurn
  <2>5. Command(cl.job)' = Command(j) /\ \A m : m \in Live(cl.job)' => m \in Live(j)'
    <3>1. \A d \in Calls : d = cl'.job /\ d = j => Command(cl.job)' = Command(j) /\ \A m : m \in Live(cl.job)' => m \in Live(j)'
      BY <1>7, <1>5
    <3> QED
      BY <1>1, <1>5, <3>1
  <2>6. Numbers'
    BY <1>5, <2>2, <2>3, <2>4, <2>5 DEF Numbers
  <2>7. Runs'
    <3> SUFFICES ASSUME NEW d \in Calls, Command(d)
                 PROVE  /\ call'[d].ran <= 1 /\ (call'[d].ran = 1 => Live(d)' = {})
                        /\ \A m, n \in Live(d)' : m.seq = n.seq
      BY <1>3, <1>7 DEF Runs
    <3>1. call[d].ran <= 1 /\ (call[d].ran = 1 => Live(d) = {}) /\ \A m, n \in Live(d) : m.seq = n.seq
      BY <2>1 DEF Runs
    <3>2. CASE d = j
      <4>1. \A m \in Live(j)' : m.seq = cl.mine /\ m.seq \notin seen
        BY <1>5, <2>4, <3>2 DEF Live, ClientTurn
      <4> QED
        BY <2>2, <3>1, <3>2, <4>1
    <3>3. CASE d # j
      BY <1>7, <3>1, <3>3
    <3> QED
      BY <3>2, <3>3
  <2> QED
    BY <1>5, <2>1, <2>6, <2>7 DEF Running
<1>12. OnceInv'
  <2>1. (\E m \in ToDriver' : m.kind = "sequence") => \E m \in ToDriver : m.kind = "sequence"
    BY DEF ClientTurn
  <2> QED
    BY <1>11, <2>1 DEF OnceInv, ClientTurn
<1>13. TrueInv'
  <2> SUFFICES ASSUME Plain' PROVE TrueInv'
    BY DEF TrueInv
  <2>1. Plain /\ Remembers'
    BY DEF Plain, Remembers, ClientTurn
  <2>2. /\ \A m \in ToDriver : Says(m)
        /\ \A d \in Calls : Command(d) => Given(d)
        /\ seen \subseteq 1..cl.seq
    BY <2>1 DEF TrueInv, Fresh
  <2>3. Running' /\ seen' \subseteq 1..cl'.seq
    BY <1>5, <1>11, <2>1, <2>2 DEF ClientTurn
  <2>4. ASSUME NEW m \in ToDriver' PROVE Says(m)'
    <3>1. m \in ToDriver /\ Says(m) /\ (m.kind # "reset" => m.job \in Calls)
      BY <2>2, ItemsAre DEF ClientTurn, Base
    <3> QED
      BY <1>5, <1>7, <3>1 DEF Says
  <2>5. ASSUME NEW d \in Calls, Command(d) PROVE Given(d)'
    BY <1>1, <1>7, <2>2, <2>5 DEF Given, Answer
  <2> QED
    BY <1>3, <1>5, <1>7, <2>3, <2>4, <2>5 DEF TrueInv
<1> QED
  BY <1>10, <1>12, <1>13

LEMMA AttemptTimerKeeps ==
  ASSUME Base, OnceInv, TrueInv, AttemptTimer
  PROVE  Base' /\ OnceInv' /\ TrueInv'
<1>1. ClientTurn /\ cl.stage = "reply" /\ Current = cl.job /\ cl.renewing # cl.job
  BY TurnHere DEF AttemptTimer, Current
<1>2. CASE Finish(cl.job, "superseded") \/ Finish(cl.job, "timeout")
  BY <1>1, <1>2, FinishIs DEF Answers
<1>3. CASE cl' = [cl EXCEPT !.copies = 2] /\ SendUdp(Message(cl.job, cl.mine)) /\ UNCHANGED call
  BY <1>1, <1>3, CopyKeeps
<1> QED
  BY <1>1, <1>2, <1>3 DEF AttemptTimer

LEMMA UdpErrorKeeps ==
  ASSUME Base, OnceInv, TrueInv, UdpError
  PROVE  Base' /\ OnceInv' /\ TrueInv'
<1>1. ClientTurn /\ cl.stage = "reply" /\ Finish(cl.job, "network")
  BY TurnHere DEF UdpError, Current
<1> QED
  BY <1>1, FinishIs DEF Answers

(* The queue, while a call is in the pump's hands. *)
LEMMA HandIs ==
  ASSUME Base, cl.stage # "idle"
  PROVE  /\ cl.job \in Calls /\ cl.job # NoJob /\ call[cl.job].answer = "none"
         /\ Len(cl.queue) + 1 <= Len(call) /\ Len(cl.queue) \in Nat /\ Len(call) \in Nat
         /\ \A i \in DOMAIN cl.queue :
              /\ cl.queue[i] \in Calls /\ cl.queue[i] # cl.job
              /\ call[cl.queue[i]].answer = "none" /\ Unsent(cl.queue[i])
              /\ \A j \in DOMAIN cl.queue : cl.queue[j] = cl.queue[i] => j = i
BY LengthIs, CallsAre DEF Base, PumpOk, ClientType

(* The counter is RESET before the message goes out again. *)
LEMMA RenewKeeps ==
  ASSUME Base, OnceInv, TrueInv, ClientTurn, cl.stage = "reply", ~cl.renewed, call' = call,
         StartReset([cl EXCEPT !.renewed = TRUE, !.needReset = TRUE, !.renewing = cl.job]),
         Remembers' => seen # {} /\ \A m \in ToDriver : m.kind # "reset",
         ~Plain'
  PROVE  Base' /\ OnceInv' /\ TrueInv'
<1>1. /\ NoMessage
      /\ cl' = [cl EXCEPT !.renewed = TRUE, !.needReset = TRUE, !.renewing = cl.job,
                          !.reset = IF cl.reset = 0 THEN 1 ELSE cl.reset]
  <2>1. PICK k : k = [cl EXCEPT !.renewed = TRUE, !.needReset = TRUE, !.renewing = cl.job]
    OBVIOUS
  <2>2. NoMessage /\ cl' = [k EXCEPT !.reset = IF k.reset = 0 THEN 1 ELSE k.reset]
    BY <2>1, StartResetIs
  <2>3. k.reset = cl.reset
    BY <2>1 DEF Base, ClientType
  <2> QED
    BY <2>1, <2>2, <2>3
<1>2. PICK r \in 0..2 : r = IF cl.reset = 0 THEN 1 ELSE cl.reset
  BY DEF Base, ClientType
<1>3. cl' = [cl EXCEPT !.renewed = TRUE, !.needReset = TRUE, !.renewing = cl.job, !.reset = r]
  BY <1>1, <1>2
<1>4. /\ ClientType'
      /\ cl'.queue = cl.queue /\ cl'.job = cl.job /\ cl'.stage = "reply" /\ cl'.needReset = TRUE
      /\ cl'.renewing = cl.job /\ cl'.renewed = TRUE
  BY <1>3 DEF Base, ClientType
<1>5. SameCalls /\ CallType'
  BY SameCallsHere DEF Base
<1>6. /\ NetType' /\ HeadType'
      /\ Remembers' => Remembers
      /\ Runs => Runs'
  BY <1>1, <1>5, StillSent
<1>7. PumpOk'
  BY <1>1, <1>4, <1>5, StillPumped
<1>8. Base'
  BY <1>4, <1>5, <1>6, <1>7 DEF Base
<1>9. OnceInv'
  <2> SUFFICES ASSUME Remembers' PROVE Renewing' /\ Runs' /\ seen' # {}
    BY DEF OnceInv
  <2>1. Runs' /\ seen' # {} /\ \A m \in ToDriver' : m.kind # "reset"
    BY <1>6 DEF OnceInv, ClientTurn
  <2> QED
    BY <1>4, <2>1 DEF Renewing
<1> QED
  BY <1>8, <1>9 DEF TrueInv

(* An inquiry refused twice for its number goes out once more, with a new one. *)
LEMMA AgainKeeps ==
  ASSUME Base, OnceInv, TrueInv, ClientTurn, cl.stage = "reply", ~cl.renewed, ~Command(cl.job), call' = call,
         Transmit(cl.job, [cl EXCEPT !.renewed = TRUE])
  PROVE  Base' /\ OnceInv' /\ TrueInv'
<1>0. PICK c, s, k : c = cl.job /\ s = NextSeq(cl.seq) /\ k = [cl EXCEPT !.renewed = TRUE]
  OBVIOUS
<1>1. /\ cl' = [k EXCEPT !.job = c, !.stage = "reply", !.seq = s, !.mine = s, !.copies = 1]
      /\ SendUdp(Message(c, s))
  <2>1. NextSeq(k.seq) = s
    BY <1>0 DEF Base, ClientType
  <2>2. Transmit(c, k)
    BY <1>0
  <2> QED
    BY <2>1, <2>2, TransmitIs
<1>2. /\ c \in Calls /\ call[c].answer = "none" /\ Len(cl.queue) + 1 <= Len(call) /\ c \in Nat
      /\ Len(cl.queue) \in Nat /\ Len(call) \in Nat
      /\ \A i \in DOMAIN cl.queue :
              /\ cl.queue[i] \in Calls /\ cl.queue[i] # c
              /\ call[cl.queue[i]].answer = "none" /\ Unsent(cl.queue[i])
              /\ \A j \in DOMAIN cl.queue : cl.queue[j] = cl.queue[i] => j = i
  BY <1>0, HandIs DEF Calls
<1>3. s \in Nat
  BY <1>0 DEF NextSeq, Base, ClientType
<1>4. PICK one \in 0..2 : one = 1
  OBVIOUS
<1>5. /\ ClientType'
      /\ cl'.queue = cl.queue /\ cl'.job = c /\ cl'.stage = "reply" /\ cl'.seq = s /\ cl'.mine = s /\ cl'.copies = 1
      /\ cl'.needReset = cl.needReset /\ cl'.reset = cl.reset /\ cl'.retried = cl.retried /\ cl'.renewed = TRUE
  <2>1. /\ k \in [queue : Seq(Nat), job : Nat, stage : Stages, seq : Nat, needReset : BOOLEAN,
                   reset : 0..2, mine : Nat, copies : 0..2, renewed : BOOLEAN, retried : BOOLEAN,
                   renewing : Nat, buffers : SUBSET Nat, closed : BOOLEAN]
        /\ k.queue = cl.queue /\ k.needReset = cl.needReset /\ k.reset = cl.reset /\ k.retried = cl.retried
        /\ k.renewed = TRUE
    BY <1>0 DEF Base, ClientType
  <2>2. cl' = [k EXCEPT !.job = c, !.stage = "reply", !.seq = s, !.mine = s, !.copies = one]
    BY <1>1, <1>4
  <2>3. ClientType'
    BY <1>2, <1>3, <2>1, <2>2 DEF ClientType, Stages
  <2> QED
    BY <1>1, <2>1, <2>3
<1>6. ASSUME Remembers' \/ Plain'
      PROVE  /\ Running /\ s = cl.seq + 1 /\ s <= 2 * (Len(call) - Len(cl.queue)) /\ cl.seq \in Nat
             /\ ~cl.retried /\ ~cl.needReset
  <2>1. Remembers /\ (Plain' => Plain)
    BY <1>6 DEF Remembers, Plain, ClientTurn
  <2>2. Running
    BY <2>1 DEF OnceInv, Fresh, Renewing
  <2>3. ~cl.retried
    BY <2>2 DEF Running, Numbers
  <2>4. Spare = 1
    BY <2>3 DEF Spare
  <2>5. cl.seq \in Nat /\ cl.seq + 1 <= 2 * (Len(call) - Len(cl.queue))
    BY <2>2, <2>4 DEF Running, Numbers, Base, ClientType
  <2>6. cl.seq + 1 <= 2 * Len(call)
    BY <1>2, <2>5
  <2>7. s = cl.seq + 1
    BY <1>0, <2>5, <2>6, NextSeqIs DEF Base
  <2> QED
    BY <2>2, <2>3, <2>5, <2>7 DEF Running
<1>7. ASSUME Remembers'
      PROVE  /\ s >= 1 /\ cl'.reset = 0 /\ ~cl'.needReset /\ (cl'.retried => Command(c)) /\ (cl'.renewed => ~Command(c))
             /\ \A m \in ToHead : m.kind = "message" => m.seq \in 1..(s - 1)
             /\ \A m \in ToDriver' : m.seq \in 0..(s - 1)
             /\ Command(c) => Live(c) = {} /\ call[c].ran = 0
             /\ s + (IF cl'.renewed \/ cl'.retried THEN 0 ELSE 1) <= 2 * (Len(call) - Len(cl'.queue))
  <2>1. Running /\ s = cl.seq + 1 /\ s <= 2 * (Len(call) - Len(cl.queue)) /\ cl.seq \in Nat /\ ~cl.retried
    BY <1>6, <1>7
  <2>2. s >= 1 /\ cl'.reset = 0 /\ ~cl'.needReset /\ ~cl'.retried /\ s - 1 = cl.seq
    BY <1>5, <1>6, <1>7, <2>1 DEF Running
  <2>3. /\ \A m \in ToHead : m.kind = "message" => m.seq \in 1..(s - 1)
        /\ \A m \in ToDriver' : m.seq \in 0..(s - 1)
    BY <2>1, <2>2 DEF Running, Numbers, ClientTurn
  <2> QED
    BY <1>0, <1>5, <2>1, <2>2, <2>3
<1>8. ASSUME Plain'
      PROVE  seen \subseteq 1..(s - 1) /\ \A m \in ToDriver' : m.kind = "sequence" => m.seq \in 1..(s - 1)
  <2>1. Running /\ s = cl.seq + 1 /\ cl.seq \in Nat /\ Plain
    BY <1>6, <1>8 DEF Plain, ClientTurn
  <2> QED
    BY <2>1 DEF TrueInv, Fresh, Says, ClientTurn, Running
<1> QED
  BY <1>1, <1>2, <1>3, <1>5, <1>7, <1>8, TransmitKeeps

(* A RESET is answered: the counter starts again. *)
LEMMA ResetAnsweredKeeps ==
  ASSUME Base, OnceInv, TrueInv, ClientTurn, NEW m \in ToDriver, m.kind = "reset", ResetAnswered(m)
  PROVE  Base' /\ OnceInv' /\ TrueInv'
<1>1. call' = call /\ NetType /\ CallType /\ SameCalls /\ CallType'
  BY SameCallsHere DEF ResetAnswered, Base
<1>2. CASE cl.reset = 0
  <2>1. cl' = cl /\ toCam' = toCam
    BY <1>2 DEF ResetAnswered
  <2>2. ClientType' /\ NoMessage
    BY <1>1, <2>1, NothingSent DEF Base, ClientType
  <2> QED
    BY <1>1, <1>2, <2>1, <2>2, StandKeeps
<1>3. CASE cl.reset # 0
  <2>0. PICK k, none : none \in 0..2 /\ none = 0 /\
                 k = [cl EXCEPT !.reset = 0, !.renewing = NoJob, !.seq = 0, !.needReset = FALSE]
    <3>1. 0 \in 0..2
      OBVIOUS
    <3> QED
      BY <3>1
  <2>1. /\ k \in [queue : Seq(Nat), job : Nat, stage : Stages, seq : Nat, needReset : BOOLEAN,
                   reset : 0..2, mine : Nat, copies : 0..2, renewed : BOOLEAN, retried : BOOLEAN,
                   renewing : Nat, buffers : SUBSET Nat, closed : BOOLEAN]
        /\ k.seq = 0 /\ k.job = cl.job /\ k.stage = cl.stage /\ k.queue = cl.queue
        /\ k.renewed = cl.renewed /\ k.retried = cl.retried /\ k.needReset = FALSE /\ k.reset = 0
    <3>1. PICK zero \in Nat : zero = 0
      OBVIOUS
    <3>2. k = [cl EXCEPT !.reset = none, !.renewing = NoJob, !.seq = zero, !.needReset = FALSE] /\ NoJob \in Nat
      BY <2>0, <3>1 DEF NoJob
    <3>3. /\ k \in [queue : Seq(Nat), job : Nat, stage : Stages, seq : Nat, needReset : BOOLEAN,
                   reset : 0..2, mine : Nat, copies : 0..2, renewed : BOOLEAN, retried : BOOLEAN,
                   renewing : Nat, buffers : SUBSET Nat, closed : BOOLEAN]
          /\ k.seq = zero /\ k.job = cl.job /\ k.stage = cl.stage /\ k.queue = cl.queue
          /\ k.renewed = cl.renewed /\ k.retried = cl.retried /\ k.needReset = FALSE /\ k.reset = none
      BY <2>0, <3>2 DEF Base, ClientType
    <3> QED
      BY <2>0, <3>1, <3>3
  <2>2. Remembers' => Remembers /\ Fresh /\ Runs
    BY <1>3 DEF Remembers, ClientTurn, OnceInv, Running, Renewing
  <2>3. Plain' => /\ Remembers' /\ Plain /\ seen = {}
                  /\ \A d \in Calls : Command(d) => Given(d)
    BY <1>3 DEF Plain, Remembers, ClientTurn, TrueInv, Running
  <2>4. Fresh => /\ \A n \in ToHead : n.kind # "message" /\ n.job = NoJob
                 /\ \A n \in ToDriver' : n.kind = "reset" /\ n.job = NoJob /\ n.seq = 0
    BY <1>1, ItemsAre DEF Fresh, ClientTurn
  <2>5. CASE cl.stage = "reset" \/ (cl.renewing # NoJob /\ cl.renewing = Current)
    <3>0. PICK c, s : c = cl.job /\ s = NextSeq(0)
      OBVIOUS
    <3>1. /\ cl' = [k EXCEPT !.job = c, !.stage = "reply", !.seq = s, !.mine = s, !.copies = 1]
          /\ SendUdp(Message(c, s))
      <4>1. Transmit(c, k) /\ NextSeq(k.seq) = s
        BY <1>3, <2>0, <2>1, <2>5, <3>0 DEF ResetAnswered
      <4> QED
        BY <4>1, TransmitIs
    <3>2. cl.stage \in {"reset", "reply"}
      BY <2>5 DEF Current
    <3>3. /\ c \in Calls /\ call[c].answer = "none" /\ Len(cl.queue) + 1 <= Len(call) /\ c \in Nat /\ c # NoJob
          /\ Len(cl.queue) \in Nat /\ Len(call) \in Nat
          /\ \A i \in DOMAIN cl.queue :
              /\ cl.queue[i] \in Calls /\ cl.queue[i] # c
              /\ call[cl.queue[i]].answer = "none" /\ Unsent(cl.queue[i])
              /\ \A j \in DOMAIN cl.queue : cl.queue[j] = cl.queue[i] => j = i
      BY <3>0, <3>2, HandIs DEF Calls
    <3>4. s = 1
      BY <1>1, <3>0, <3>3, NextSeqIs
    <3>5. /\ ClientType'
          /\ cl'.queue = cl.queue /\ cl'.job = c /\ cl'.stage = "reply" /\ cl'.seq = 1 /\ cl'.mine = 1 /\ cl'.copies = 1
          /\ cl'.needReset = FALSE /\ cl'.reset = 0 /\ cl'.retried = cl.retried /\ cl'.renewed = cl.renewed
      <4>1. PICK one \in 0..2 : one = 1
        OBVIOUS
      <4>2. cl' = [k EXCEPT !.job = c, !.stage = "reply", !.seq = s, !.mine = s, !.copies = one] /\ s \in Nat
        BY <3>1, <3>4, <4>1
      <4>3. ClientType'
        BY <2>1, <3>3, <4>2 DEF ClientType, Stages
      <4>4. cl'.queue = k.queue /\ cl'.job = c /\ cl'.stage = "reply" /\ cl'.seq = s /\ cl'.mine = s /\ cl'.copies = one
          /\ cl'.needReset = k.needReset /\ cl'.reset = k.reset /\ cl'.retried = k.retried /\ cl'.renewed = k.renewed
        BY <2>1, <4>2
      <4> QED
        BY <2>1, <3>4, <4>1, <4>3, <4>4
    <3>6. ASSUME Remembers'
          PROVE  /\ 1 >= 1 /\ cl'.reset = 0 /\ ~cl'.needReset /\ (cl'.retried => Command(c)) /\ (cl'.renewed => ~Command(c))
                 /\ \A n \in ToHead : n.kind = "message" => n.seq \in 1..(1 - 1)
                 /\ \A n \in ToDriver' : n.seq \in 0..(1 - 1)
                 /\ Command(c) => Live(c) = {} /\ call[c].ran = 0
                 /\ 1 + (IF cl'.renewed \/ cl'.retried THEN 0 ELSE 1) <= 2 * (Len(call) - Len(cl'.queue))
      <4>1. Fresh /\ ~cl.retried /\ ~cl.renewed /\ call[c].ran = 0
        BY <2>2, <3>2, <3>3, <3>6 DEF Fresh
      <4>2. Live(c) = {}
        BY <2>4, <3>3, <4>1 DEF Live
      <4>3. 1 + 1 <= 2 * (Len(call) - Len(cl.queue))
        BY <3>3
      <4> QED
        BY <2>4, <3>5, <4>1, <4>2, <4>3
    <3>7. ASSUME Plain'
          PROVE  seen \subseteq 1..(1 - 1) /\ \A n \in ToDriver' : n.kind = "sequence" => n.seq \in 1..(1 - 1)
      BY <2>2, <2>3, <2>4, <3>7
    <3>8. SendUdp(Message(c, 1))
      BY <3>1, <3>4
    <3> QED
      BY <1>1, <3>3, <3>5, <3>6, <3>7, <3>8, TransmitKeeps
  <2>6. CASE ~(cl.stage = "reset" \/ (cl.renewing # NoJob /\ cl.renewing = Current))
    <3>1. cl' = k /\ toCam' = toCam
      BY <1>3, <2>0, <2>6 DEF ResetAnswered
    <3>2. ClientType' /\ NoMessage
      BY <1>1, <2>1, <3>1, NothingSent DEF ClientType
    <3>3. /\ NetType' /\ HeadType' /\ (Runs => Runs')
          /\ \A d \in Calls : Command(d)' = Command(d) /\ Live(d)' \subseteq Live(d)
      BY <1>1, <3>2, StillSent
    <3>4. PumpOk'
      BY <1>1, <2>1, <3>1, <3>2, StillPumped
    <3>5. Base'
      BY <1>1, <3>2, <3>3, <3>4 DEF Base
    <3>6. ASSUME Remembers' PROVE Running' /\ Runs' /\ \A n \in ToDriver' : n.kind = "reset"
      <4>1. Fresh /\ Runs /\ cl.stage \in {"idle", "space"} /\ (cl.stage = "space" => ~cl.renewed)
        BY <2>2, <2>6, <3>6 DEF Fresh
      <4>2. cl'.seq + Spare' <= 2 * (Len(call') - Len(cl'.queue))
        <5>1. CASE cl.stage = "idle"
          <6>1. Spare' = 0 /\ cl'.seq = 0 /\ cl'.queue = cl.queue
            BY <2>1, <3>1, <5>1 DEF Spare
          <6>2. Len(cl.queue) \in Nat /\ Len(call) \in Nat /\ cl.job = NoJob
            BY <1>1, <5>1, LengthIs, CallsAre DEF Base, ClientType, PumpOk
          <6>3. Len(cl.queue) + 0 <= Len(call)
            BY <6>2 DEF Base, PumpOk
          <6>4. 0 + 0 <= 2 * (Len(call) - Len(cl.queue))
            BY <6>2, <6>3
          <6> QED
            BY <1>1, <6>1, <6>4
        <5>2. CASE cl.stage = "space"
          <6>1. Spare' = 2 /\ cl'.seq = 0 /\ cl'.queue = cl.queue
            BY <2>1, <3>1, <5>2 DEF Spare
          <6>2. Len(cl.queue) + 1 <= Len(call) /\ Len(cl.queue) \in Nat /\ Len(call) \in Nat
            BY <5>2, HandIs
          <6>3. 0 + 2 <= 2 * (Len(call) - Len(cl.queue))
            BY <6>2
          <6> QED
            BY <1>1, <6>1, <6>3
        <5> QED
          BY <4>1, <5>1, <5>2
      <4>3. /\ \A n \in ToHead' : n.kind = "message" => n.seq \in 1..cl'.seq
            /\ \A n \in ToDriver' : n.seq \in 0..cl'.seq
        <5>1. cl'.seq = 0 /\ ToHead' = ToHead
          BY <2>1, <3>1 DEF ToHead
        <5> QED
          BY <2>4, <4>1, <5>1
      <4>4. cl'.stage \in {"idle", "space"} /\ (cl'.stage = "space" => ~cl'.renewed) /\ ~cl'.needReset /\ cl'.reset = 0
        BY <2>1, <3>1, <4>1
      <4>5. Numbers'
        BY <4>2, <4>3, <4>4 DEF Numbers
      <4> QED
        BY <2>4, <3>3, <4>1, <4>4, <4>5 DEF Running
    <3>7. OnceInv'
      BY <3>6 DEF OnceInv
    <3>8. TrueInv'
      <4> SUFFICES ASSUME Plain' PROVE TrueInv'
        BY DEF TrueInv
      <4>1. Running' /\ \A n \in ToDriver' : n.kind = "reset"
        BY <2>3, <3>6
      <4>2. seen' \subseteq 1..cl'.seq
        BY <2>3 DEF ClientTurn
      <4>3. ASSUME NEW d \in Calls, Command(d) PROVE Given(d)'
        BY <1>1, <2>3, <3>3, <4>3 DEF Given, Answer
      <4>4. cl'.stage # "reply"
        BY <2>1, <2>2, <2>3, <2>6, <3>1 DEF Fresh
      <4> QED
        BY <1>1, <3>3, <4>1, <4>2, <4>3, <4>4 DEF TrueInv, Says, SameCalls
    <3> QED
      BY <3>5, <3>7, <3>8
  <2> QED
    BY <2>5, <2>6
<1> QED
  BY <1>2, <1>3

LEMMA SequenceErrorKeeps ==
  ASSUME Base, OnceInv, TrueInv, ClientTurn, NEW m \in ToDriver, m.kind = "sequence", SequenceError(m),
         Mistaken(m) \cup Stray(m) \subseteq slips'
  PROVE  Base' /\ OnceInv' /\ TrueInv'
<1>1. NetType /\ m \in Returned /\ m.job \in Calls
  BY ItemsAre DEF Base
<1>2. CASE Current = NoJob \/ m.seq \notin {0, cl.mine}
  <2>1. call' = call /\ cl' = cl /\ toCam' = toCam
    BY <1>2 DEF SequenceError
  <2>2. ClientType' /\ NoMessage
    BY <1>1, <2>1, NothingSent DEF Base, ClientType
  <2> QED
    BY <2>1, <2>2, StandKeeps
<1>3. CASE Current # NoJob /\ m.seq \in {0, cl.mine}
  <2>1. cl.stage = "reply" /\ Current = cl.job /\ cl.job \in Calls
    BY <1>3, HandIs DEF Current
  (* The first copy is out: nothing on the way refuses its number. *)
  <2>2. Plain' => cl.copies = 2 /\ Running
    <3> SUFFICES ASSUME Plain' PROVE cl.copies = 2 /\ Running
      OBVIOUS
    <3>1. Plain
      BY DEF Plain, ClientTurn
    <3>2. Running /\ cl.copies \in {1, 2} /\ (cl.copies = 1 => First) /\ Says(m)
      BY <2>1, <3>1 DEF TrueInv, Fresh
    <3>3. m.seq # 0
      BY <3>2 DEF Says
    <3>4. ~First
      BY <1>3, <3>3 DEF First
    <3> QED
      BY <3>2, <3>4
  <2>3. CASE cl.copies = 2 /\ Command(cl.job)
    <3>1. Finish(cl.job, "assumed")
      BY <1>3, <2>1, <2>3 DEF SequenceError
    <3>2. Plain' => call[cl.job].ran > 0
      <4>1. call[cl.job].ran = 0 => "refusal" \in slips'
        BY <1>3, <2>1, <2>3 DEF Mistaken
      <4>2. call[cl.job].ran \in Nat
        BY <2>1, CallsAre DEF Base
      <4> QED
        BY <4>1, <4>2 DEF Plain
    <3> QED
      BY <2>1, <3>1, <3>2, FinishIs DEF Answers
  <2>4. CASE ~(cl.copies = 2 /\ Command(cl.job)) /\ cl.renewed
    <3>1. Finish(cl.job, "refused")
      BY <1>3, <2>1, <2>4 DEF SequenceError
    <3> QED
      BY <2>1, <2>2, <2>4, <3>1, FinishIs DEF Answers
  <2>5. CASE ~(cl.copies = 2 /\ Command(cl.job)) /\ ~cl.renewed /\ cl.copies = 2
    <3>1. Transmit(cl.job, [cl EXCEPT !.renewed = TRUE]) /\ call' = call
      BY <1>3, <2>1, <2>5 DEF SequenceError
    <3> QED
      BY <2>1, <2>5, <3>1, AgainKeeps
  <2>6. CASE ~cl.renewed /\ cl.copies # 2
    <3>1. StartReset([cl EXCEPT !.renewed = TRUE, !.needReset = TRUE, !.renewing = cl.job]) /\ call' = call
      BY <1>3, <2>1, <2>6 DEF SequenceError
    <3>2. Remembers' => seen # {} /\ \A n \in ToDriver : n.kind # "reset"
      <4> SUFFICES ASSUME Remembers' PROVE seen # {} /\ \A n \in ToDriver : n.kind # "reset"
        OBVIOUS
      <4>1. seen # {}
        BY DEF OnceInv, Remembers, ClientTurn
      <4>2. Renews(m)
        BY <1>3, <2>1, <2>6 DEF Renews
      <4>3. ~\E i \in DOMAIN toUs : toUs[i].kind = "reset"
        BY <4>2 DEF Stray, Remembers
      <4> QED
        BY <4>1, <4>3 DEF ToDriver, Range
    <3>3. ~Plain'
      BY <2>2, <2>6
    <3> QED
      BY <2>1, <2>6, <3>1, <3>2, <3>3, RenewKeeps
  <2> QED
    BY <2>3, <2>4, <2>5, <2>6
<1> QED
  BY <1>2, <1>3

(* The head's buffers are full: the command waits for one to come free. *)
LEMMA FullKeeps ==
  ASSUME Base, OnceInv, TrueInv, ClientTurn, NEW m \in ToDriver, m.kind = "full", cl.stage = "reply",
         m.seq = cl.mine, ~cl.retried, Command(cl.job),
         cl' = [cl EXCEPT !.stage = "full"], call' = call, toCam' = toCam
  PROVE  Base' /\ OnceInv' /\ TrueInv'
<1>1. SameCalls /\ CallType' /\ NoMessage
  BY SameCallsHere, NothingSent DEF Base
<1>2. /\ ClientType'
      /\ cl'.seq = cl.seq /\ cl'.mine = cl.mine /\ cl'.job = cl.job /\ cl'.stage = "full" /\ cl'.queue = cl.queue
      /\ cl'.renewed = cl.renewed /\ cl'.retried = cl.retried /\ cl'.needReset = cl.needReset /\ cl'.reset = cl.reset
  BY DEF Base, ClientType, Stages
<1>3. /\ \A n \in ToHead' : n = ResetFrame \/ n \in ToHead
      /\ NetType' /\ HeadType'
      /\ Remembers' => Remembers
      /\ Plain' => Plain
      /\ \A d \in Calls : Command(d)' = Command(d) /\ Live(d)' \subseteq Live(d)
      /\ Runs => Runs'
      /\ (\E n \in ToDriver' : n.kind = "sequence") => \E n \in ToDriver : n.kind = "sequence"
  BY <1>1, StillSent
<1>4. Base'
  <2>1. PumpOk'
    BY <1>1, <1>2, StillPumped
  <2> QED
    BY <1>1, <1>2, <1>3, <2>1 DEF Base
<1>5. Running => Running'
  <2> SUFFICES ASSUME Running PROVE Running'
    OBVIOUS
  <2>1. /\ cl.seq + Spare <= 2 * (Len(call) - Len(cl.queue)) /\ ~cl.renewed
        /\ call[cl.job].ran = 0 /\ Live(cl.job) = {}
        /\ \A n \in ToHead : n.kind = "message" => n.seq \in 1..cl.seq
        /\ \A n \in ToDriver : n.seq \in 0..cl.seq
    <3>1. cl.mine \in seen /\ \A n \in Live(cl.job) : n.seq = cl.mine
      BY DEF Running, Numbers
    <3>2. Live(cl.job) = {}
      BY <3>1 DEF Live
    <3> QED
      BY <3>2 DEF Running, Numbers
  <2>2. cl'.seq + Spare' <= 2 * (Len(call') - Len(cl'.queue))
    <3>1. Spare = 1 /\ Spare' = 1
      BY <1>2, <2>1 DEF Spare
    <3> QED
      BY <1>2, <2>1, <3>1
  <2>3. /\ \A n \in ToHead' : n.kind = "message" => n.seq \in 1..cl'.seq
        /\ \A n \in ToDriver' : n.seq \in 0..cl'.seq
    BY <1>2, <1>3, <2>1, ResetFrameIs DEF ClientTurn
  <2>4. Command(cl.job)' /\ Live(cl.job)' = {} /\ call'[cl'.job].ran = 0
    <3>1. cl.job \in Calls
      BY HandIs
    <3>2. \A d \in Calls : d = cl.job => (Command(cl.job)' = Command(d)' /\ (Live(d)' = {} => Live(cl.job)' = {}))
      BY <1>2
    <3>3. Live(cl.job)' = {} /\ Command(cl.job)'
      <4>1. PICK d \in Calls : d = cl.job
        BY <3>1
      <4>2. Command(d)' /\ Live(d)' = {}
        BY <1>3, <2>1, <4>1
      <4> QED
        BY <3>2, <4>1, <4>2
    <3> QED
      BY <1>2, <2>1, <3>3
  <2> QED
    BY <1>2, <2>1, <2>2, <2>3, <2>4 DEF Running, Numbers
<1>6. OnceInv'
  <2> SUFFICES ASSUME Remembers' PROVE (Running' \/ Renewing') /\ Runs' /\ ((\E n \in ToDriver' : n.kind = "sequence") => seen' # {})
    BY DEF OnceInv
  <2>1. (Running \/ Renewing) /\ Runs /\ ((\E n \in ToDriver : n.kind = "sequence") => seen # {})
    BY <1>3 DEF OnceInv, Fresh
  <2>2. Renewing => Renewing'
    BY <1>2 DEF Renewing, ClientTurn
  <2> QED
    BY <1>3, <1>5, <2>1, <2>2 DEF ClientTurn
<1>7. TrueInv'
  <2> SUFFICES ASSUME Plain' PROVE TrueInv'
    BY DEF TrueInv
  <2>1. /\ (Fresh /\ seen = {}) \/ (Running /\ seen \subseteq 1..cl.seq)
        /\ \A n \in ToDriver' : Says(n)'
        /\ \A c \in Calls' : Command(c)' => Given(c)'
    BY <1>1, <1>2, StillTrue
  <2>2. Running' /\ seen' \subseteq 1..cl'.seq
    BY <1>2, <1>5, <2>1 DEF Fresh, ClientTurn
  <2> QED
    BY <1>2, <2>1, <2>2 DEF TrueInv
<1> QED
  BY <1>4, <1>6, <1>7

LEMMA ReplyKeeps ==
  ASSUME Base, OnceInv, TrueInv, ClientTurn, NEW m \in ToDriver, Reply(m)
  PROVE  Base' /\ OnceInv' /\ TrueInv'
<1>1. NetType /\ m \in Returned /\ (m.kind # "reset" => m.job \in Calls) /\ m.seq \in Nat
  BY ItemsAre DEF Base, Returned
<1>2. Matches(m) => cl.stage = "reply" /\ Current = cl.job /\ cl.job \in Calls /\ m.seq = cl.mine
  BY HandIs DEF Matches, Current
(* The answer with the number of the message in hand is the answer to it. *)
<1>3. Matches(m) /\ Plain' =>
        /\ m.job = cl.job /\ Says(m)
        /\ Command(cl.job) /\ m.kind \in {"refused", "full"} => call[cl.job].ran = 0 /\ Live(cl.job) = {}
  <2> SUFFICES ASSUME Matches(m), Plain'
               PROVE  /\ m.job = cl.job /\ Says(m)
                      /\ Command(cl.job) /\ m.kind \in {"refused", "full"} => call[cl.job].ran = 0 /\ Live(cl.job) = {}
    OBVIOUS
  <2>1. Plain
    BY DEF Plain, ClientTurn
  <2>2. Running /\ Says(m)
    BY <1>2, <2>1 DEF TrueInv, Fresh
  <2>3. m.job = cl.job
    BY <1>2, <2>2 DEF Running, Numbers
  <2>4. Command(cl.job) /\ m.kind \in {"refused", "full"} =>
          cl.mine \in seen /\ call[cl.job].ran = 0 /\ \A n \in Live(cl.job) : n.seq = cl.mine
    BY <1>2, <2>2 DEF Running, Numbers
  <2> QED
    BY <2>2, <2>3, <2>4 DEF Live
(* Nothing, or a buffer comes free. *)
<1>4. CASE call' = call /\ toCam' = toCam /\ (cl' = cl \/ cl' = [cl EXCEPT !.buffers = @ \ {m.seq}])
  <2>1. /\ ClientType' /\ NoMessage
        /\ cl'.seq = cl.seq /\ cl'.mine = cl.mine /\ cl'.job = cl.job /\ cl'.stage = cl.stage
        /\ cl'.copies = cl.copies /\ cl'.queue = cl.queue /\ cl'.renewed = cl.renewed /\ cl'.retried = cl.retried
        /\ cl'.needReset = cl.needReset /\ cl'.renewing = cl.renewing /\ cl'.reset = cl.reset
    <3>1. NoMessage
      BY <1>1, <1>4, NothingSent
    <3>2. CASE cl' = cl
      BY <3>1, <3>2 DEF Base, ClientType
    <3>3. CASE cl' = [cl EXCEPT !.buffers = @ \ {m.seq}]
      BY <3>1, <3>3 DEF Base, ClientType
    <3> QED
      BY <1>4, <3>2, <3>3
  <2> QED
    BY <1>4, <2>1, StandKeeps
<1>5. CASE /\ Matches(m) /\ m.kind \in {"ack", "completion", "reply"}
           /\ m.kind \in {"ack", "completion"} => Command(cl.job)
           /\ Answered(cl.job, "ok") /\ UNCHANGED toCam
           /\ cl' = [cl EXCEPT !.job = NoJob, !.stage = "idle",
                                 !.buffers = IF m.kind = "ack" THEN @ \cup {m.seq} ELSE @]
  <2>1. PICK b \in SUBSET Nat : b = IF m.kind = "ack" THEN cl.buffers \cup {m.seq} ELSE cl.buffers
    BY <1>1 DEF Base, ClientType
  <2>2. cl' = [cl EXCEPT !.job = NoJob, !.stage = "idle", !.buffers = b]
    BY <1>5, <2>1
  <2>3. /\ ClientType' /\ NoMessage /\ cl.job # NoJob
        /\ cl'.job = NoJob /\ cl'.stage = "idle" /\ cl'.queue = cl.queue /\ cl'.seq = cl.seq
        /\ cl'.needReset = cl.needReset /\ cl'.reset = cl.reset
    <3>1. NoMessage /\ cl.job # NoJob /\ NoJob \in Nat
      BY <1>1, <1>2, <1>5, NothingSent, HandIs DEF NoJob
    <3> QED
      BY <2>2, <3>1 DEF Base, ClientType, Stages
  <2>4. Plain' /\ Command(cl.job) => call[cl.job].ran > 0
    BY <1>3, <1>5 DEF Says
  <2> QED
    BY <1>5, <2>3, <2>4, FinishKeeps DEF Answers
<1>6. CASE Matches(m) /\ m.kind \in {"refused", "full"} /\ Finish(cl.job, "refused")
  BY <1>2, <1>3, <1>6, FinishIs DEF Answers
<1>7. CASE Matches(m) /\ m.kind = "full" /\ Finish(cl.job, "superseded")
  BY <1>2, <1>7, FinishIs DEF Answers
<1>8. CASE /\ Matches(m) /\ m.kind = "full" /\ ~cl.retried /\ Command(cl.job)
           /\ cl' = [cl EXCEPT !.stage = "full"] /\ UNCHANGED <<call, toCam>>
  BY <1>2, <1>8, FullKeeps
<1>9. Matches(m) => Current = cl.job
  BY <1>2
<1> QED
  <2>1. CASE m.kind \in {"ack", "completion"} /\ Matches(m) /\ Command(Current)
    BY <1>5, <1>9, <2>1 DEF Reply
  <2>2. CASE m.kind = "reply" /\ Matches(m)
    BY <1>5, <1>9, <2>2 DEF Reply
  <2>3. CASE m.kind = "refused" /\ Matches(m)
    BY <1>6, <1>9, <2>3 DEF Reply
  <2>4. CASE m.kind = "full" /\ Matches(m)
    BY <1>6, <1>7, <1>8, <1>9, <2>4 DEF Reply
  <2>5. CASE m.kind = "completion" /\ ~Matches(m)
    BY <1>4, <2>5 DEF Reply
  <2>6. CASE /\ ~(m.kind \in {"ack", "completion"} /\ Matches(m) /\ Command(Current))
             /\ m.kind = "completion" => Matches(m)
             /\ m.kind \in {"reply", "refused", "full"} => ~Matches(m)
    BY <1>4, <2>6 DEF Reply
  <2> QED
    BY <2>1, <2>2, <2>3, <2>4, <2>5, <2>6

LEMMA SlipsAre ==
  ASSUME NEW m, NEW i PROVE Late(i) \cup Mistaken(m) \cup Stray(m) \cup Wiped \subseteq Slips
<1>1. Late(i) \subseteq Slips
  BY DEF Late, Slips
<1>2. Mistaken(m) \subseteq Slips
  BY DEF Mistaken, Slips
<1>3. Stray(m) \subseteq Slips
  BY DEF Stray, Slips
<1>4. Wiped \subseteq Slips
  BY DEF Wiped, Slips
<1> QED
  BY <1>1, <1>2, <1>3, <1>4

LEMMA DatagramTurn ==
  ASSUME Base, NEW i \in DOMAIN toUs, Datagram(i)
  PROVE  /\ ClientTurn /\ toUs[i] \in ToDriver
         /\ Mistaken(toUs[i]) \cup Stray(toUs[i]) \subseteq slips'
         /\ ResetAnswered(toUs[i]) \/ SequenceError(toUs[i]) \/ Reply(toUs[i])
<1>1. /\ toUs' = RemoveAt(toUs, i) /\ slips' = slips \cup Late(i) \cup Mistaken(toUs[i]) \cup Stray(toUs[i])
      /\ seen' = seen /\ moving' = moving
      /\ ResetAnswered(toUs[i]) \/ SequenceError(toUs[i]) \/ Reply(toUs[i])
  BY DEF Datagram, head
<1>2. toUs' \in Seq(Returned) /\ ToDriver' \subseteq ToDriver
  BY <1>1, RemoveAtThins, ThinsRange DEF Base, NetType, ToDriver
<1>3. slips' \in SUBSET Slips
  BY <1>1, SlipsAre DEF Base, HeadType
<1>4. toUs[i] \in ToDriver
  BY DEF ToDriver, Range
<1> QED
  BY <1>1, <1>2, <1>3, <1>4 DEF ClientTurn, Base, HeadType

LEMMA DatagramKeeps ==
  ASSUME Base, OnceInv, TrueInv, NEW i \in DOMAIN toUs, Datagram(i)
  PROVE  Base' /\ OnceInv' /\ TrueInv'
<1>1. PICK m : m = toUs[i]
  OBVIOUS
<1>2. ClientTurn /\ m \in ToDriver /\ Mistaken(m) \cup Stray(m) \subseteq slips'
  BY <1>1, DatagramTurn
<1>3. CASE ResetAnswered(m)
  BY <1>2, <1>3, ResetAnsweredKeeps DEF ResetAnswered
<1>4. CASE SequenceError(m)
  BY <1>2, <1>4, SequenceErrorKeeps DEF SequenceError
<1>5. CASE Reply(m)
  BY <1>2, <1>5, ReplyKeeps
<1> QED
  BY <1>1, <1>3, <1>4, <1>5, DatagramTurn

-----------------------------------------------------------------------------
(* The steps of the network and of the head. *)

LEMMA LoseFromUsKeeps ==
  ASSUME Base, OnceInv, TrueInv, LoseFromUs
  PROVE  Base' /\ OnceInv' /\ TrueInv'
<1>1. /\ toCam # <<>> /\ toCam' = Tail(toCam) /\ cl' = cl /\ call' = call
      /\ UNCHANGED <<toUs, head, slips>>
  BY DEF LoseFromUs, client
<1>2. toCam \in Seq(Sent)
  BY DEF Base, NetType
<1>3. toCam' \in Seq(Sent) /\ Thins(toCam, toCam')
  BY <1>1, <1>2, TailThins
<1>4. NoMessage /\ ClientTurn /\ ClientType'
  BY <1>1, <1>3, ThinsSent, TurnHere DEF Base, ClientType
<1> QED
  BY <1>1, <1>4, StandKeeps

LEMMA LoseFromCamKeeps ==
  ASSUME Base, OnceInv, TrueInv, LoseFromCam
  PROVE  Base' /\ OnceInv' /\ TrueInv'
<1>1. /\ toUs # <<>> /\ toUs' = Tail(toUs) /\ cl' = cl /\ call' = call /\ toCam' = toCam
      /\ UNCHANGED <<seen, moving, slips>>
  BY DEF LoseFromCam, client, head
<1>2. toUs \in Seq(Returned) /\ NetType
  BY DEF Base, NetType
<1>3. toUs' \in Seq(Returned) /\ ToDriver' \subseteq ToDriver
  BY <1>1, <1>2, TailThins, ThinsRange DEF ToDriver
<1>4. NoMessage /\ ClientTurn /\ ClientType'
  BY <1>1, <1>2, <1>3, NothingSent DEF Base, ClientType, ClientTurn, HeadType
<1> QED
  BY <1>1, <1>4, StandKeeps

LEMMA MeddleKeeps ==
  ASSUME Base, OnceInv, TrueInv, Meddle
  PROVE  Base' /\ OnceInv' /\ TrueInv'
<1>1. /\ call' = call /\ cl' = cl /\ toCam' = toCam /\ toUs' = toUs /\ moving' = moving
      /\ \E n \in 0..2 : seen' = 1..n
      /\ slips' = slips \cup Wiped \cup {"meddled"}
  BY DEF Meddle, client, net
<1>2. ToHead' = ToHead /\ ToDriver' = ToDriver /\ Calls' = Calls
  BY <1>1 DEF ToHead, ToDriver, Calls
<1>3. HeadType'
  <2>1. seen' \in SUBSET Nat
    BY <1>1
  <2>2. Wiped \subseteq Slips /\ "meddled" \in Slips
    BY DEF Wiped, Slips
  <2> QED
    BY <1>1, <2>1, <2>2 DEF HeadType, Base
<1>4. Base'
  BY <1>1, <1>2, <1>3 DEF Base, CallType, ClientType, NetType, PumpOk, Unsent
<1>5. OnceInv'
  <2> SUFFICES ASSUME Remembers' PROVE OnceInv'
    BY DEF OnceInv
  <2>1. Remembers /\ seen = {} /\ seen \subseteq seen'
    BY <1>1 DEF Remembers, Wiped
  <2>2. \A d : Command(d)' = Command(d) /\ Live(d)' \subseteq Live(d)
    BY <1>1, <1>2, <2>1 DEF Command, Live
  <2>3. (Fresh \/ Running) /\ Runs /\ ~\E m \in ToDriver : m.kind = "sequence"
    BY <2>1 DEF OnceInv, Renewing
  <2>4. Fresh => Fresh'
    BY <1>1, <1>2 DEF Fresh
  <2>5. Running => Running'
    <3> SUFFICES ASSUME Running PROVE Running'
      OBVIOUS
    <3>1. Spare' = Spare /\ Command(cl.job)' = Command(cl.job) /\ Live(cl.job)' \subseteq Live(cl.job)
      <4>1. \A d : d = cl.job => (Command(cl.job)' = Command(d)' /\ (Live(d)' \subseteq Live(d) => Live(cl.job)' \subseteq Live(cl.job)))
        BY <1>1
      <4> QED
        BY <1>1, <2>2, <4>1 DEF Spare
    <3> QED
      BY <1>1, <1>2, <2>1, <3>1 DEF Running, Numbers
  <2>6. Runs'
    BY <1>1, <1>2, <2>2, <2>3 DEF Runs
  <2> QED
    BY <1>2, <2>3, <2>4, <2>5, <2>6 DEF OnceInv
<1>6. TrueInv'
  BY <1>1 DEF TrueInv, Plain
<1> QED
  BY <1>4, <1>5, <1>6

(* What is on its way to the head, when message i of it arrives. *)
LEMMA ArrivesIs ==
  ASSUME NetType, NEW i \in DOMAIN toCam, toCam' = RemoveAt(toCam, i)
  PROVE  /\ toCam' \in Seq(Sent) /\ ToHead' \subseteq ToHead /\ toCam[i] \in ToHead
         /\ \A k \in DOMAIN toCam' : \E l \in DOMAIN toCam \ {i} : toCam'[k] = toCam[l]
         /\ \A k, n \in DOMAIN toCam' : k # n =>
              \E l, j \in DOMAIN toCam : l # j /\ toCam'[k] = toCam[l] /\ toCam'[n] = toCam[j]
<1>1. /\ toCam \in Seq(Sent) /\ Len(toCam) \in Nat /\ DOMAIN toCam = 1..Len(toCam)
  BY LengthIs DEF NetType
<1>2. /\ toCam' \in Seq(Sent) /\ DOMAIN toCam' = 1..(Len(toCam) - 1)
      /\ \A k \in 1..(Len(toCam) - 1) : toCam'[k] = IF k < i THEN toCam[k] ELSE toCam[k + 1]
  BY <1>1, RemoveAtIs
<1> DEFINE at(k) == IF k < i THEN k ELSE k + 1
<1>3. \A k \in 1..(Len(toCam) - 1) : at(k) \in DOMAIN toCam \ {i} /\ toCam'[k] = toCam[at(k)]
  BY <1>1, <1>2
<1>4. \A k, n \in 1..(Len(toCam) - 1) : k # n => at(k) # at(n)
  BY <1>1
<1> HIDE DEF at
<1>5. ToHead' \subseteq ToHead /\ toCam[i] \in ToHead
  BY <1>2, <1>3 DEF ToHead, Range
<1>6. \A k \in DOMAIN toCam' : \E l \in DOMAIN toCam \ {i} : toCam'[k] = toCam[l]
  BY <1>2, <1>3
<1>7. ASSUME NEW k \in DOMAIN toCam', NEW n \in DOMAIN toCam', k # n
      PROVE  \E l, j \in DOMAIN toCam : l # j /\ toCam'[k] = toCam[l] /\ toCam'[n] = toCam[j]
  <2>1. at(k) \in DOMAIN toCam /\ at(n) \in DOMAIN toCam /\ at(k) # at(n)
        /\ toCam'[k] = toCam[at(k)] /\ toCam'[n] = toCam[at(n)]
    BY <1>2, <1>3, <1>4, <1>7
  <2> QED
    BY <2>1
<1> QED
  BY <1>2, <1>5, <1>6, <1>7

LEMMA AnswersAre ==
  ASSUME NetType, NEW m \in Sent, NEW kinds \in Seq({"reset", "ack", "completion", "reply", "refused", "full"}),
         toUs' = toUs \o [k \in DOMAIN kinds |-> [m EXCEPT !.kind = kinds[k]]]
  PROVE  /\ toUs' \in Seq(Returned)
         /\ \A r \in ToDriver' : \/ r \in ToDriver
                                 \/ /\ r.job = m.job /\ r.seq = m.seq
                                    /\ \E k \in DOMAIN kinds : r.kind = kinds[k]
<1> DEFINE n == Len(kinds)
           a == [k \in 1..n |-> [m EXCEPT !.kind = kinds[k]]]
<1>1. n \in Nat /\ DOMAIN kinds = 1..n /\ toUs \in Seq(Returned)
      /\ \A k \in 1..n : kinds[k] \in {"reset", "ack", "completion", "reply", "refused", "full"}
  BY LengthIs DEF NetType
<1>2. \A k \in 1..n : a[k] \in Returned /\ a[k].job = m.job /\ a[k].seq = m.seq /\ a[k].kind = kinds[k]
  BY <1>1 DEF Sent, Returned
<1>3. DOMAIN a = 1..n /\ toUs' = toUs \o a
  BY <1>1
<1> HIDE DEF a, n
<1>4. a \in Seq(Returned) /\ Len(a) = n
  <2>1. a = [k \in 1..n |-> a[k]]
    BY DEF a
  <2>2. a \in [1..n -> Returned]
    BY <1>2, <2>1
  <2> QED
    BY <1>1, <1>3, <2>2, LenProperties
<1>5. PICK l \in Nat : l = Len(toUs) + n
  BY <1>1, LengthIs
<1>6. /\ toUs \o a \in Seq(Returned) /\ Len(toUs \o a) = l
      /\ \A k \in 1..l : (toUs \o a)[k] = IF k <= Len(toUs) THEN toUs[k] ELSE a[k - Len(toUs)]
  <2>1. Len(toUs) + Len(a) = l
    BY <1>4, <1>5
  <2> QED
    BY <1>1, <1>4, <2>1, JoinIs
<1>7. toUs' \in Seq(Returned) /\ DOMAIN toUs' = 1..l /\ DOMAIN toUs = 1..Len(toUs) /\ Len(toUs) \in Nat
  BY <1>1, <1>3, <1>6, LengthIs
<1>8. ASSUME NEW k \in 1..l
      PROVE  \/ toUs'[k] \in ToDriver
             \/ \E j \in 1..n : toUs'[k] = a[j]
  <2>1. CASE k <= Len(toUs)
    <3>1. k \in DOMAIN toUs /\ toUs'[k] = toUs[k]
      BY <1>3, <1>6, <1>7, <2>1
    <3> QED
      BY <3>1 DEF ToDriver, Range
  <2>2. CASE ~(k <= Len(toUs))
    <3>1. k - Len(toUs) \in 1..n
      BY <1>1, <1>5, <1>7, <2>2
    <3> QED
      BY <1>3, <1>6, <2>2, <3>1
  <2> QED
    BY <2>1, <2>2
<1>9. ASSUME NEW r \in ToDriver'
      PROVE  r \in ToDriver \/ \E j \in 1..n : r = a[j]
  <2>1. \E k \in DOMAIN toUs' : r = toUs'[k]
    BY DEF ToDriver, Range
  <2> QED
    BY <1>7, <1>8, <2>1
<1>10. ASSUME NEW r \in ToDriver', r \notin ToDriver
       PROVE  r.job = m.job /\ r.seq = m.seq /\ \E k \in DOMAIN kinds : r.kind = kinds[k]
  <2>1. PICK j \in 1..n : r = a[j]
    BY <1>9, <1>10
  <2> QED
    BY <1>1, <1>2, <2>1
<1> QED
  BY <1>7, <1>10

(* The head answers a RESET, or refuses a number it has handled. *)
LEMMA EchoKeeps ==
  ASSUME Base, OnceInv, TrueInv, NEW i \in DOMAIN toCam, NEW m, m = toCam[i],
         toCam' = RemoveAt(toCam, i), call' = call, cl' = cl, moving' = moving, toUs' \in Seq(Returned),
         NEW r, \A n \in ToDriver' : n \in ToDriver \/ n = r,
         slips \subseteq slips', HeadType', Remembers' => seen' = seen,
         \/ m.kind = "reset" /\ r.kind = "reset" /\ r.job = NoJob /\ r.seq = 0
         \/ /\ m.kind = "message" /\ r.kind = "sequence" /\ r.job = m.job /\ m.seq \in seen
            /\ r.seq \in {0, m.seq} /\ (Plain' => r.seq = m.seq),
         Remembers' /\ m.kind = "reset" => seen = {}
  PROVE  Base' /\ OnceInv' /\ TrueInv'
<1>1. /\ NetType /\ Calls' = Calls /\ SameCalls /\ CallType' /\ ClientType'
  BY SameCallsHere DEF Base, SameCalls, ClientType
<1>2. /\ toCam' \in Seq(Sent) /\ ToHead' \subseteq ToHead /\ m \in ToHead
      /\ \A k \in DOMAIN toCam' : \E l \in DOMAIN toCam \ {i} : toCam'[k] = toCam[l]
      /\ \A k, n \in DOMAIN toCam' : k # n =>
           \E l, j \in DOMAIN toCam : l # j /\ toCam'[k] = toCam[l] /\ toCam'[n] = toCam[j]
  BY <1>1, ArrivesIs
<1>3. m \in Sent /\ (m.kind = "message" => m.job \in Calls /\ m.job # NoJob) /\ m.seq \in Nat
  BY <1>1, <1>2, ItemsAre, CallsAre DEF Base, Sent
<1>4. NetType'
  BY <1>1, <1>2, <1>3 DEF NetType
<1>5. \A d \in Calls : Command(d)' = Command(d) /\ (Unsent(d) => Unsent(d)')
  <2>1. \A d \in Calls : Unsent(d) => d # r.job
    BY <1>1, <1>2, CallsAre DEF Unsent, Base
  <2> QED
    BY <1>2, <2>1 DEF Command, Unsent
<1>6. PumpOk'
  <2>1. \A d \in Calls : d = cl.job => (Unsent(d) => Unsent(cl.job)')
    BY <1>5
  <2>2. ASSUME NEW j \in DOMAIN cl.queue PROVE Unsent(cl.queue[j])'
    <3>1. PICK d \in Calls : d = cl.queue[j] /\ Unsent(d)
      BY DEF Base, PumpOk
    <3> QED
      BY <1>5, <3>1
  <2> QED
    BY <1>1, <2>1, <2>2 DEF Base, PumpOk
<1>7. Base'
  BY <1>1, <1>4, <1>6 DEF Base
<1>8. ASSUME Remembers'
      PROVE  /\ Remembers /\ seen' = seen /\ Runs' /\ (Fresh => Fresh') /\ (Running => Running')
             /\ (Renewing => Renewing') /\ ((\E n \in ToDriver' : n.kind = "sequence") => seen' # {})
             /\ \A d \in Calls : Live(d)' \subseteq Live(d)
  <2>1. Remembers /\ seen' = seen
    BY <1>8 DEF Remembers
  <2>2. \A d : Live(d)' \subseteq Live(d)
    BY <1>2, <2>1 DEF Live
  <2>3. Runs' /\ ((\E n \in ToDriver' : n.kind = "sequence") => seen' # {})
    <3>1. Runs /\ ((\E n \in ToDriver : n.kind = "sequence") => seen # {})
      BY <2>1 DEF OnceInv
    <3>2. Runs'
      BY <1>1, <1>5, <2>2, <3>1 DEF Runs
    <3> QED
      BY <2>1, <3>1, <3>2
  <2>4. Fresh => Fresh'
    <3> SUFFICES ASSUME Fresh PROVE Fresh'
      OBVIOUS
    <3>1. m.kind = "reset" /\ r.kind = "reset"
      BY <1>2 DEF Fresh
    <3> QED
      BY <1>1, <1>2, <3>1 DEF Fresh
  <2>5. Running => Running'
    <3> SUFFICES ASSUME Running PROVE Running'
      OBVIOUS
    <3>1. /\ \A n \in ToHead : n.kind = "message" => n.seq \in 1..cl.seq
          /\ \A n \in ToDriver : n.seq \in 0..cl.seq
      BY DEF Running, Numbers
    <3>2. \A n \in ToDriver' : n.seq \in 0..cl.seq
      <4>1. r.seq \in 0..cl.seq
        BY <1>2, <3>1 DEF Base, ClientType
      <4> QED
        BY <3>1, <4>1
    <3>3. ASSUME NEW j, j = cl.job, cl.stage = "reply"
          PROVE  /\ \A n \in ToHead' \cup ToDriver' : n.seq = cl.mine => n.job = j
                 /\ Command(j)' = Command(j) /\ Live(j)' \subseteq Live(j)
                 /\ \A n \in ToDriver' : n.kind \in {"refused", "full"} => n \in ToDriver
      <4>1. cl.mine >= 1 /\ \A n \in ToHead \cup ToDriver : n.seq = cl.mine => n.job = j
        BY <3>3 DEF Running, Numbers
      <4>2. r.seq = cl.mine => r.job = j
        BY <1>2, <4>1
      <4> QED
        BY <1>2, <2>2, <4>1, <4>2 DEF Command
    <3>4. ASSUME NEW j, j = cl.job PROVE Command(j)' = Command(j) /\ Live(j)' \subseteq Live(j)
      BY <2>2 DEF Command
    <3>5. Spare' = Spare
      BY DEF Spare
    <3>6. Command(cl.job)' = Command(cl.job) /\ Live(cl.job)' \subseteq Live(cl.job)
      <4>1. PICK j : j = cl.job
        OBVIOUS
      <4>2. Command(j)' = Command(cl.job)' /\ Live(j)' = Live(cl.job)'
        BY <4>1
      <4> QED
        BY <3>4, <4>1, <4>2
    <3> QED
      BY <1>2, <2>1, <3>1, <3>2, <3>3, <3>5, <3>6 DEF Running, Numbers
  <2>6. Renewing => Renewing'
    BY <1>8, <2>1 DEF Renewing
  <2> QED
    BY <2>1, <2>2, <2>3, <2>4, <2>5, <2>6
<1>9. OnceInv'
  BY <1>8 DEF OnceInv
<1>10. TrueInv'
  <2> SUFFICES ASSUME Plain' PROVE TrueInv'
    BY DEF TrueInv
  <2>1. Plain /\ Remembers'
    BY DEF Plain, Remembers
  <2>2. /\ (Fresh /\ seen = {}) \/ (Running /\ seen \subseteq 1..cl.seq)
        /\ cl.stage = "reply" => cl.copies \in {1, 2} /\ (cl.copies = 1 => First)
        /\ \A n \in ToDriver : Says(n)
        /\ \A c \in Calls : Command(c) => Given(c)
    BY <2>1 DEF TrueInv
  <2>3. (Fresh' /\ seen' = {}) \/ (Running' /\ seen' \subseteq 1..cl'.seq)
    BY <1>8, <2>1, <2>2
  <2>4. Says(r)'
    <3>1. m.kind = "message" => m.seq \in 1..cl.seq
      BY <1>2, <2>2 DEF Fresh, Running, Numbers
    <3>2. r.kind \notin {"ack", "completion", "reply"} /\ (r.kind = "sequence" => r.seq \in 1..cl.seq)
      BY <3>1
    <3> QED
      BY <3>2 DEF Says
  <2>5. \A n \in ToDriver : Says(n)'
    <3> SUFFICES ASSUME NEW n \in ToDriver PROVE Says(n)'
      OBVIOUS
    <3>1. Says(n) /\ (n.kind # "reset" => n.job \in Calls)
      BY <1>1, <2>2, ItemsAre
    <3> QED
      BY <1>5, <3>1 DEF Says
  <2>6. \A n \in ToDriver' : Says(n)'
    <3> SUFFICES ASSUME NEW n \in ToDriver' PROVE Says(n)'
      OBVIOUS
    <3>1. CASE n \in ToDriver
      BY <2>5, <3>1
    <3>2. CASE n = r
      BY <2>4, <3>2
    <3> QED
      BY <3>1, <3>2
  <2>7. ASSUME NEW d \in Calls, Command(d) PROVE Given(d)'
    BY <1>8, <2>1, <2>2, <2>7 DEF Given, Answer
  <2>8. cl.stage = "reply" /\ cl.copies = 1 => First'
    <3> SUFFICES ASSUME cl.stage = "reply", First PROVE First'
      BY <2>2
    <3>1. cl.mine >= 1
      BY <2>2 DEF Fresh, Running, Numbers, Base, ClientType
    <3>2. \A n \in ToDriver' : n.kind = "sequence" => n.seq # cl.mine
      <4>1. r.kind = "sequence" => r.seq # cl.mine
        BY <1>2, <3>1 DEF First
      <4> QED
        BY <4>1 DEF First
    <3>3. \A k, n \in DOMAIN toCam' : toCam'[k].seq = cl.mine /\ toCam'[n].seq = cl.mine => k = n
      <4> SUFFICES ASSUME NEW k \in DOMAIN toCam', NEW n \in DOMAIN toCam',
                          toCam'[k].seq = cl.mine, toCam'[n].seq = cl.mine, k # n
                   PROVE FALSE
        OBVIOUS
      <4>1. PICK l, j \in DOMAIN toCam : l # j /\ toCam'[k] = toCam[l] /\ toCam'[n] = toCam[j]
        BY <1>2
      <4> QED
        BY <4>1 DEF First
    <3>4. cl.mine \in seen' => \A n \in ToHead' : n.seq # cl.mine
      BY <1>2, <1>8, <2>1 DEF First
    <3> QED
      BY <3>2, <3>3, <3>4 DEF First
  <2> QED
    BY <1>1, <1>5, <2>2, <2>3, <2>6, <2>7, <2>8 DEF TrueInv
<1> QED
  BY <1>7, <1>9, <1>10

(* The head runs call c. *)
LEMMA RunIs ==
  ASSUME CallType, NEW c \in Calls, call' = [call EXCEPT ![c].ran = @ + 1]
  PROVE  /\ CallType' /\ Len(call') = Len(call) /\ Calls' = Calls
         /\ \A d \in Calls : /\ call'[d].kind = call[d].kind /\ call'[d].answer = call[d].answer
                             /\ d # c => call'[d].ran = call[d].ran
         /\ call'[c].ran = call[c].ran + 1
<1>1. Len(call) \in Nat /\ Calls = 1..Len(call) /\ \A d \in Calls : call[d] \in [kind : Kinds, answer : Answers, ran : Nat]
  BY CallsAre
<1>2. PICK n \in Nat : n = call[c].ran + 1
  BY <1>1
<1> DEFINE R == [kind : Kinds, answer : Answers, ran : Nat]
           r == [call[c] EXCEPT !.ran = n]
<1>3. r \in R /\ r.kind = call[c].kind /\ r.answer = call[c].answer /\ r.ran = call[c].ran + 1
  BY <1>1, <1>2
<1>4. call' = [call EXCEPT ![c] = r] /\ call \in Seq(R) /\ c \in 1..Len(call)
  BY <1>1, <1>2 DEF CallType
<1> HIDE DEF R, r
<1>5. call' \in Seq(R) /\ Len(call') = Len(call) /\ \A d \in 1..Len(call) : call'[d] = IF d = c THEN r ELSE call[d]
  <2>1. Len(call) \in Nat /\ r \in R
    BY <1>1, <1>3
  <2> QED
    BY <1>4, <2>1
<1>6. CallType' /\ Calls' = Calls
  BY <1>1, <1>5 DEF CallType, Calls, R
<1> QED
  BY <1>1, <1>3, <1>5, <1>6

(* The head takes a message with a new number: it runs it, or turns it away. *)
LEMMA HandlesKeeps ==
  ASSUME Base, OnceInv, TrueInv, NEW i \in DOMAIN toCam, NEW m, m = toCam[i],
         m.kind = "message", m.seq \notin seen, seen' = seen \cup {m.seq}, moving' \in BOOLEAN,
         toCam' = RemoveAt(toCam, i), cl' = cl, toUs' \in Seq(Returned),
         slips \subseteq slips', slips' \in SUBSET Slips,
         \A r \in ToDriver' : r \in ToDriver \/
            /\ r.job = m.job /\ r.seq = m.seq
            /\ \/ r.kind \in {"ack", "completion"} /\ Command(m.job) /\ call' # call
               \/ r.kind = "reply" /\ ~Command(m.job)
               \/ r.kind \in {"refused", "full"} /\ call' = call,
         call' = call \/ call' = [call EXCEPT ![m.job].ran = @ + 1]
  PROVE  Base' /\ OnceInv' /\ TrueInv'
<1>0. NetType /\ CallType /\ Len(call) \in Nat /\ Calls = 1..Len(call)
      /\ \A d \in Calls : call[d] \in [kind : Kinds, answer : Answers, ran : Nat]
  BY CallsAre DEF Base
<1>1. /\ toCam' \in Seq(Sent) /\ ToHead' \subseteq ToHead /\ m \in ToHead
      /\ \A k \in DOMAIN toCam' : \E l \in DOMAIN toCam \ {i} : toCam'[k] = toCam[l]
      /\ \A k, n \in DOMAIN toCam' : k # n =>
           \E l, j \in DOMAIN toCam : l # j /\ toCam'[k] = toCam[l] /\ toCam'[n] = toCam[j]
  BY <1>0, ArrivesIs
<1>2. PICK c : c = m.job
  OBVIOUS
<1>3. m \in Sent /\ c \in Calls /\ c # NoJob /\ m.seq \in Nat
  BY <1>0, <1>1, <1>2, ItemsAre, CallsAre DEF Sent
<1>4. /\ CallType' /\ Len(call') = Len(call) /\ Calls' = Calls
      /\ \A d \in Calls : /\ call'[d].kind = call[d].kind /\ call'[d].answer = call[d].answer
                          /\ d # c => call'[d].ran = call[d].ran
      /\ call'[c].ran \in {call[c].ran, call[c].ran + 1}
      /\ call' # call => call'[c].ran = call[c].ran + 1
  <2>1. CASE call' = call
    BY <1>0, <1>3, <2>1 DEF CallType, Calls
  <2>2. CASE call' = [call EXCEPT ![m.job].ran = @ + 1]
    BY <1>0, <1>2, <1>3, <2>2, RunIs
  <2> QED
    BY <2>1, <2>2
<1>5. NetType' /\ HeadType' /\ ClientType'
  <2>1. \A r \in ToHead' \cup ToDriver' :
             IF r.kind = "reset" THEN r.job = NoJob /\ r.seq = 0 ELSE r.job \in Calls
    BY <1>0, <1>1, <1>2, <1>3 DEF NetType
  <2>2. seen' \in SUBSET Nat
    BY <1>3 DEF Base, HeadType
  <2> QED
    BY <1>1, <1>4, <2>1, <2>2 DEF NetType, HeadType, Base, ClientType
<1>6. \A d \in Calls : Command(d)' = Command(d) /\ (Unsent(d) => Unsent(d)' /\ d # c)
  <2>1. \A d \in Calls : Unsent(d) => d # c
    BY <1>1, <1>2 DEF Unsent
  <2> QED
    BY <1>1, <1>2, <1>4, <2>1 DEF Command, Unsent
<1>7. PumpOk'
  <2>1. \A d \in Calls : d = cl.job => (Unsent(d) => Unsent(cl.job)')
    BY <1>6
  <2>2. ASSUME NEW j \in DOMAIN cl.queue PROVE Unsent(cl.queue[j])'
    <3>1. PICK d \in Calls : d = cl.queue[j] /\ Unsent(d)
      BY DEF Base, PumpOk
    <3> QED
      BY <1>6, <3>1
  <2>3. cl.job # NoJob => cl.job \in Calls /\ call'[cl.job].answer = "none"
    BY <1>4 DEF Base, PumpOk
  <2>4. \A j \in DOMAIN cl.queue : call'[cl.queue[j]].answer = "none"
    BY <1>4 DEF Base, PumpOk
  <2> QED
    BY <1>4, <2>1, <2>2, <2>3, <2>4 DEF Base, PumpOk
<1>8. Base'
  BY <1>4, <1>5, <1>7 DEF Base
<1>9. \A d : Live(d)' \subseteq Live(d)
  BY <1>1 DEF Live
<1>10. m \in Live(c)
  BY <1>1, <1>2 DEF Live
<1>11. ASSUME Remembers'
       PROVE  /\ Remembers /\ ~Fresh /\ Runs' /\ (Running => Running') /\ (Renewing => Renewing')
              /\ (Command(c) => call[c].ran = 0)
  <2>1. Remembers /\ Runs /\ ~Fresh
    BY <1>1, <1>11 DEF Remembers, OnceInv, Fresh
  <2>2. Command(c) => call[c].ran = 0 /\ call'[c].ran <= 1 /\ Live(c)' = {}
    <3>1. Command(c) => call[c].ran <= 1 /\ (call[c].ran = 1 => Live(c) = {}) /\ \A n \in Live(c) : n.seq = m.seq
      BY <1>3, <1>10, <2>1 DEF Runs
    <3>2. call[c].ran \in Nat
      BY <1>0, <1>3
    <3>3. Command(c) => call[c].ran = 0
      BY <1>10, <3>1, <3>2
    <3>4. Command(c) => Live(c)' = {}
      BY <1>9, <3>1 DEF Live
    <3> QED
      BY <1>4, <3>3, <3>4
  <2>3. Runs'
    <3> SUFFICES ASSUME NEW d \in Calls, Command(d)
                 PROVE  /\ call'[d].ran <= 1 /\ (call'[d].ran = 1 => Live(d)' = {})
                        /\ \A x, y \in Live(d)' : x.seq = y.seq
      BY <1>4, <1>6 DEF Runs
    <3>1. CASE d = c
      BY <2>2, <3>1
    <3>2. CASE d # c
      BY <1>4, <1>9, <2>1, <3>2 DEF Runs
    <3> QED
      BY <3>1, <3>2
  <2>4. Running => Running'
    <3> SUFFICES ASSUME Running PROVE Running'
      OBVIOUS
    <3>1. /\ \A n \in ToHead : n.kind = "message" => n.seq \in 1..cl.seq
          /\ \A n \in ToDriver : n.seq \in 0..cl.seq
      BY DEF Running, Numbers
    <3>2. m.seq \in 1..cl.seq /\ \A n \in ToDriver' : n.seq \in 0..cl.seq
      BY <1>1, <3>1
    <3>3. PICK j : j = cl.job
      OBVIOUS
    <3>4. ASSUME cl.stage = "reply"
          PROVE  /\ \A n \in ToHead' \cup ToDriver' : n.seq = cl.mine => n.job = j
                 /\ Command(j) =>
                      /\ call'[j].ran > 0 => cl.mine \in seen'
                      /\ \A n \in ToDriver' : n.kind \in {"refused", "full"} /\ n.seq = cl.mine =>
                           cl.mine \in seen' /\ call'[j].ran = 0
      <4>1. j \in Calls
        BY <3>3, <3>4, HandIs
      <4>2. /\ \A n \in ToHead \cup ToDriver : n.seq = cl.mine => n.job = j
            /\ Command(j) =>
                 /\ call[j].ran > 0 => cl.mine \in seen
                 /\ \A n \in Live(j) : n.seq = cl.mine
                 /\ \A n \in ToDriver : n.kind \in {"refused", "full"} /\ n.seq = cl.mine =>
                      cl.mine \in seen /\ call[j].ran = 0
        BY <3>3, <3>4 DEF Running, Numbers
      <4>3. CASE j = c
        <5>1. Command(j) => cl.mine = m.seq /\ m.seq \notin seen /\ call[c].ran = 0
          BY <1>10, <2>2, <4>2, <4>3
        <5>2. ASSUME Command(j), NEW n \in ToDriver', n.kind \in {"refused", "full"}, n.seq = cl.mine
              PROVE  call'[j].ran = 0
          <6>1. n \notin ToDriver
            BY <4>2, <5>1, <5>2
          <6> QED
            BY <4>3, <5>1, <5>2, <6>1
        <5> QED
          BY <1>1, <1>2, <4>2, <4>3, <5>1, <5>2
      <4>4. CASE j # c
        <5>1. m.seq # cl.mine
          BY <1>1, <1>2, <4>2, <4>4
        <5> QED
          BY <1>1, <1>2, <1>4, <4>1, <4>2, <4>4, <5>1
      <4> QED
        BY <4>3, <4>4
    <3>5. ASSUME cl.stage = "full" PROVE call'[j].ran = 0
      <4>1. j \in Calls /\ Live(j) = {} /\ call[j].ran = 0
        BY <3>3, <3>5, HandIs DEF Running, Numbers
      <4> QED
        BY <1>4, <1>10, <4>1
    <3>6. (cl.stage # "idle" => Command(j)' = Command(j)) /\ Live(j)' \subseteq Live(j)
      BY <1>6, <1>9, <3>3, HandIs
    <3>7. (cl.stage # "idle" => Command(cl.job)' = Command(cl.job)) /\ Live(cl.job)' \subseteq Live(cl.job)
      BY <3>3, <3>6
    <3>8. Spare' = Spare
      BY DEF Spare
    <3> QED
      BY <1>1, <1>4, <3>1, <3>2, <3>3, <3>4, <3>5, <3>7, <3>8 DEF Running, Numbers
  <2>5. Renewing => Renewing'
    BY DEF Renewing
  <2> QED
    BY <2>1, <2>2, <2>3, <2>4, <2>5
<1>12. OnceInv'
  <2> SUFFICES ASSUME Remembers' PROVE (Running' \/ Renewing') /\ Runs' /\ seen' # {}
    BY DEF OnceInv
  <2> QED
    BY <1>11 DEF OnceInv
<1>13. TrueInv'
  <2> SUFFICES ASSUME Plain' PROVE TrueInv'
    BY DEF TrueInv
  <2>1. Plain /\ Remembers'
    BY DEF Plain, Remembers
  <2>2. /\ Running /\ seen \subseteq 1..cl.seq
        /\ cl.stage = "reply" => cl.copies \in {1, 2} /\ (cl.copies = 1 => First)
        /\ \A n \in ToDriver : Says(n)
        /\ \A d \in Calls : Command(d) => Given(d)
    BY <1>11, <2>1 DEF TrueInv
  <2>3. Running' /\ seen' \subseteq 1..cl'.seq
    BY <1>1, <1>11, <2>1, <2>2 DEF Running, Numbers
  <2>4. \A d \in Calls : call[d].ran \in Nat /\ (call[d].ran > 0 => call'[d].ran > 0)
    BY <1>0, <1>3, <1>4
  <2>5. ASSUME NEW n \in ToDriver' PROVE Says(n)'
    <3>1. CASE n \in ToDriver
      <4>1. Says(n) /\ (n.kind # "reset" => n.job \in Calls)
        BY <1>0, <2>2, <3>1, ItemsAre
      <4> QED
        BY <1>6, <2>4, <4>1 DEF Says
    <3>2. CASE n \notin ToDriver
      <4>1. /\ n.job = c /\ n.kind # "sequence"
            /\ n.kind \in {"ack", "completion"} => Command(c) /\ call' # call
            /\ n.kind = "reply" => ~Command(c)
        BY <1>2, <2>5, <3>2
      <4>2. call' # call => call'[c].ran > 0
        BY <1>3, <1>4, <2>4
      <4> QED
        BY <1>3, <1>6, <4>1, <4>2 DEF Says
    <3> QED
      BY <3>1, <3>2
  <2>6. ASSUME NEW d \in Calls, Command(d) PROVE Given(d)'
    <3>1. Given(d)
      BY <2>2, <2>6
    <3>2. Answer(d)' = Answer(d)
      BY <1>4 DEF Answer
    <3>3. Answer(d) = "refused" => d # c
      BY <1>10, <3>1 DEF Given
    <3> QED
      BY <1>4, <1>9, <2>4, <3>1, <3>2, <3>3 DEF Given
  <2>7. cl.stage = "reply" /\ cl.copies = 1 => First'
    <3> SUFFICES ASSUME cl.stage = "reply", First PROVE First'
      BY <2>2
    <3>1. \A n \in ToDriver' : n.kind = "sequence" => n.seq # cl.mine
      BY DEF First
    <3>2. \A k, n \in DOMAIN toCam' : toCam'[k].seq = cl.mine /\ toCam'[n].seq = cl.mine => k = n
      <4> SUFFICES ASSUME NEW k \in DOMAIN toCam', NEW n \in DOMAIN toCam',
                          toCam'[k].seq = cl.mine, toCam'[n].seq = cl.mine, k # n
                   PROVE FALSE
        OBVIOUS
      <4>1. PICK l, j \in DOMAIN toCam : l # j /\ toCam'[k] = toCam[l] /\ toCam'[n] = toCam[j]
        BY <1>1
      <4> QED
        BY <4>1 DEF First
    <3>3. ASSUME cl.mine \in seen', NEW k \in DOMAIN toCam', toCam'[k].seq = cl.mine PROVE FALSE
      <4>1. PICK l \in DOMAIN toCam \ {i} : toCam'[k] = toCam[l]
        BY <1>1
      <4>2. toCam[l] \in ToHead
        BY <4>1 DEF ToHead, Range
      <4> QED
        BY <3>3, <4>1, <4>2 DEF First
    <3>4. cl.mine \in seen' => \A n \in ToHead' : n.seq # cl.mine
      BY <3>3 DEF ToHead, Range
    <3> QED
      BY <3>1, <3>2, <3>4 DEF First
  <2> QED
    BY <1>4, <1>6, <2>2, <2>3, <2>5, <2>6, <2>7 DEF TrueInv
<1> QED
  BY <1>8, <1>12, <1>13

LEMMA HeadReceivesKeeps ==
  ASSUME Base, OnceInv, TrueInv, NEW i \in DOMAIN toCam, HeadReceives(i)
  PROVE  Base' /\ OnceInv' /\ TrueInv'
<1>1. PICK m : m = toCam[i]
  OBVIOUS
<1>2. toCam' = RemoveAt(toCam, i) /\ cl' = cl /\ NetType
  BY DEF HeadReceives, Base
<1>3. m \in Sent /\ m \in ToHead /\ (m.kind = "message" => m.job \in Calls) /\ (m.kind = "reset" => m.job = NoJob /\ m.seq = 0)
  BY <1>1, <1>2, ItemsAre
<1>4. Late(i) \subseteq Slips /\ Wiped \subseteq Slips /\ "unechoed" \in Slips /\ HeadType
  BY SlipsAre DEF Slips, Base
<1>5. CASE /\ m.kind = "reset" /\ seen' = {} /\ slips' = slips \cup Late(i) \cup Wiped
           /\ toUs' = toUs \o [k \in DOMAIN <<"reset">> |-> [m EXCEPT !.kind = <<"reset">>[k]]]
           /\ UNCHANGED <<call, moving>>
  <2>1. PICK kinds : kinds = <<"reset">>
    OBVIOUS
  <2>2. kinds \in Seq({"reset", "ack", "completion", "reply", "refused", "full"}) /\ \A k \in DOMAIN kinds : kinds[k] = "reset"
    BY <2>1
  <2>3. toUs' = toUs \o [k \in DOMAIN kinds |-> [m EXCEPT !.kind = kinds[k]]]
    BY <1>5, <2>1
  <2>4. PICK r : r = [m EXCEPT !.kind = "reset"]
    OBVIOUS
  <2>5. r.kind = "reset" /\ r.job = NoJob /\ r.seq = 0
    BY <1>3, <1>5, <2>4 DEF Sent
  <2>6. /\ toUs' \in Seq(Returned)
        /\ \A n \in ToDriver' : \/ n \in ToDriver
                                \/ n \in Returned /\ n.job = m.job /\ n.seq = m.seq /\ n.kind = "reset"
    <3>1. /\ toUs' \in Seq(Returned)
          /\ \A n \in ToDriver' : \/ n \in ToDriver
                                  \/ n.job = m.job /\ n.seq = m.seq /\ \E k \in DOMAIN kinds : n.kind = kinds[k]
      BY <1>2, <1>3, <2>2, <2>3, AnswersAre
    <3>2. \A n \in ToDriver' : n \in Returned
      BY <3>1, LengthIs DEF ToDriver, Range
    <3> QED
      BY <2>2, <3>1, <3>2
  <2>7. \A n \in ToDriver' : n \in ToDriver \/ n = r
    BY <1>3, <2>4, <2>6 DEF Sent, Returned
  <2>8. HeadType' /\ slips \subseteq slips'
    BY <1>4, <1>5 DEF HeadType
  <2>9. Remembers' => seen = {}
    BY <1>5 DEF Remembers, Wiped
  <2> QED
    BY <1>1, <1>2, <1>5, <2>5, <2>6, <2>7, <2>8, <2>9, EchoKeeps
<1>6. ASSUME NEW echo \in BOOLEAN, m.kind = "message", m.seq \in seen, UNCHANGED <<call, head>>,
             toUs' = Append(toUs, [m EXCEPT !.kind = "sequence", !.seq = IF echo THEN @ ELSE 0]),
             slips' = slips \cup Late(i) \cup IF echo THEN {} ELSE {"unechoed"}
      PROVE  Base' /\ OnceInv' /\ TrueInv'
  <2>1. PICK s \in Nat : s = IF echo THEN m.seq ELSE 0
    BY <1>3 DEF Sent
  <2>2. PICK r : r = [m EXCEPT !.kind = "sequence", !.seq = s]
    OBVIOUS
  <2>3. r \in Returned /\ r.kind = "sequence" /\ r.job = m.job /\ r.seq = s
    BY <1>3, <2>2 DEF Sent, Returned
  <2>4. toUs' = Append(toUs, r)
    BY <1>6, <2>1, <2>2
  <2>5. toUs' \in Seq(Returned) /\ \A n \in ToDriver' : n \in ToDriver \/ n = r
    BY <1>2, <2>3, <2>4, AppendIs DEF NetType, ToDriver
  <2>6. HeadType' /\ slips \subseteq slips' /\ seen' = seen /\ moving' = moving /\ call' = call
    BY <1>4, <1>6 DEF HeadType, head
  <2>7. Plain' => r.seq = m.seq
    BY <1>6, <2>1, <2>3 DEF Plain
  <2>8. r.seq \in {0, m.seq}
    BY <2>1, <2>3
  <2> QED
    BY <1>1, <1>2, <1>6, <2>3, <2>5, <2>6, <2>7, <2>8, EchoKeeps
<1>7. ASSUME m.kind = "message", m.seq \notin seen, seen' = seen \cup {m.seq}, slips' = slips \cup Late(i),
             NEW kinds \in Seq({"ack", "completion", "reply", "refused", "full"}),
             toUs' = toUs \o [k \in DOMAIN kinds |-> [m EXCEPT !.kind = kinds[k]]],
             \/ /\ call' = [call EXCEPT ![m.job].ran = @ + 1] /\ call' # call
                /\ moving' = IF Command(m.job) THEN call[m.job].kind = "move" ELSE moving
                /\ \A k \in DOMAIN kinds : kinds[k] \in IF Command(m.job) THEN {"ack", "completion"} ELSE {"reply"}
             \/ /\ call' = call /\ moving' = moving
                /\ \A k \in DOMAIN kinds : kinds[k] \in {"refused", "full"}
      PROVE  Base' /\ OnceInv' /\ TrueInv'
  <2>1. kinds \in Seq({"reset", "ack", "completion", "reply", "refused", "full"})
    BY <1>7
  <2>2. /\ toUs' \in Seq(Returned)
        /\ \A n \in ToDriver' : \/ n \in ToDriver
                                \/ n.job = m.job /\ n.seq = m.seq /\ \E k \in DOMAIN kinds : n.kind = kinds[k]
    BY <1>2, <1>3, <1>7, <2>1, AnswersAre
  <2>3. slips \subseteq slips' /\ slips' \in SUBSET Slips /\ moving' \in BOOLEAN
    BY <1>4, <1>7 DEF HeadType
  <2>4. \A n \in ToDriver' : n \in ToDriver \/
            /\ n.job = m.job /\ n.seq = m.seq
            /\ \/ n.kind \in {"ack", "completion"} /\ Command(m.job) /\ call' # call
               \/ n.kind = "reply" /\ ~Command(m.job)
               \/ n.kind \in {"refused", "full"} /\ call' = call
    <3>1. \A k \in DOMAIN kinds : \/ kinds[k] \in {"ack", "completion"} /\ Command(m.job) /\ call' # call
                                  \/ kinds[k] = "reply" /\ ~Command(m.job)
                                  \/ kinds[k] \in {"refused", "full"} /\ call' = call
      BY <1>7
    <3> QED
      BY <2>2, <3>1
  <2> QED
    BY <1>1, <1>2, <1>7, <2>2, <2>3, <2>4, HandlesKeeps
<1>8. CASE m.kind = "message" /\ m.seq \notin seen
  <2>1. /\ seen' = seen \cup {m.seq} /\ slips' = slips \cup Late(i)
        /\ \/ /\ call' = [call EXCEPT ![m.job].ran = @ + 1]
              /\ moving' = IF Command(m.job) THEN call[m.job].kind = "move" ELSE moving
              /\ \/ /\ Command(m.job)
                    /\ toUs' = toUs \o [k \in DOMAIN <<"ack", "completion">> |-> [m EXCEPT !.kind = <<"ack", "completion">>[k]]]
                 \/ /\ ~Command(m.job)
                    /\ toUs' = toUs \o [k \in DOMAIN <<"reply">> |-> [m EXCEPT !.kind = <<"reply">>[k]]]
           \/ /\ UNCHANGED <<call, moving>>
              /\ \E x \in {"refused", "full"} : toUs' = toUs \o [k \in DOMAIN <<x>> |-> [m EXCEPT !.kind = <<x>>[k]]]
    BY <1>1, <1>8 DEF HeadReceives
  <2>2. call' = [call EXCEPT ![m.job].ran = @ + 1] => call' # call
    <3> SUFFICES ASSUME call' = [call EXCEPT ![m.job].ran = @ + 1] PROVE call' # call
      OBVIOUS
    <3>1. PICK c \in Calls : c = m.job
      BY <1>3, <1>8
    <3>2. call[c] \in [kind : Kinds, answer : Answers, ran : Nat] /\ c \in DOMAIN call
      BY CallsAre DEF Base
    <3>3. PICK n \in Nat : n = call[c].ran + 1
      BY <3>2
    <3>4. call'[c] = [call[c] EXCEPT !.ran = n]
      BY <3>1, <3>2, <3>3
    <3>5. call'[c].ran = n /\ n # call[c].ran
      BY <3>2, <3>3, <3>4
    <3> QED
      BY <3>5
  <2>3. CASE /\ call' = [call EXCEPT ![m.job].ran = @ + 1] /\ Command(m.job)
             /\ moving' = IF Command(m.job) THEN call[m.job].kind = "move" ELSE moving
             /\ toUs' = toUs \o [k \in DOMAIN <<"ack", "completion">> |-> [m EXCEPT !.kind = <<"ack", "completion">>[k]]]
    <3>1. PICK kinds : kinds = <<"ack", "completion">>
      OBVIOUS
    <3>2. kinds \in Seq({"ack", "completion", "reply", "refused", "full"}) /\ \A k \in DOMAIN kinds : kinds[k] \in {"ack", "completion"}
      BY <3>1
    <3>3. toUs' = toUs \o [k \in DOMAIN kinds |-> [m EXCEPT !.kind = kinds[k]]]
      BY <2>3, <3>1
    <3> QED
      BY <1>7, <1>8, <2>1, <2>2, <2>3, <3>2, <3>3
  <2>4. CASE /\ call' = [call EXCEPT ![m.job].ran = @ + 1] /\ ~Command(m.job)
             /\ moving' = IF Command(m.job) THEN call[m.job].kind = "move" ELSE moving
             /\ toUs' = toUs \o [k \in DOMAIN <<"reply">> |-> [m EXCEPT !.kind = <<"reply">>[k]]]
    <3>1. PICK kinds : kinds = <<"reply">>
      OBVIOUS
    <3>2. kinds \in Seq({"ack", "completion", "reply", "refused", "full"}) /\ \A k \in DOMAIN kinds : kinds[k] \in {"reply"}
      BY <3>1
    <3>3. toUs' = toUs \o [k \in DOMAIN kinds |-> [m EXCEPT !.kind = kinds[k]]]
      BY <2>4, <3>1
    <3> QED
      BY <1>7, <1>8, <2>1, <2>2, <2>4, <3>2, <3>3
  <2>5. ASSUME NEW x \in {"refused", "full"}, UNCHANGED <<call, moving>>,
               toUs' = toUs \o [k \in DOMAIN <<x>> |-> [m EXCEPT !.kind = <<x>>[k]]]
        PROVE  Base' /\ OnceInv' /\ TrueInv'
    <3>1. PICK kinds : kinds = <<x>>
      OBVIOUS
    <3>2. kinds \in Seq({"ack", "completion", "reply", "refused", "full"}) /\ \A k \in DOMAIN kinds : kinds[k] \in {"refused", "full"}
      BY <3>1
    <3>3. toUs' = toUs \o [k \in DOMAIN kinds |-> [m EXCEPT !.kind = kinds[k]]]
      BY <2>5, <3>1
    <3> QED
      BY <1>7, <1>8, <2>1, <2>5, <3>2, <3>3
  <2> QED
    BY <2>1, <2>3, <2>4, <2>5
<1>9. CASE m.kind = "message" /\ m.seq \in seen
  BY <1>1, <1>6, <1>9 DEF HeadReceives
<1>10. CASE m.kind = "reset"
  BY <1>1, <1>5, <1>10 DEF HeadReceives
<1>11. m.kind = "message" \/ m.kind = "reset"
  BY <1>3 DEF Sent
<1> QED
  BY <1>8, <1>9, <1>10, <1>11

-----------------------------------------------------------------------------
(* The steps of the driver. *)

(* Where a new call is put among those that wait. *)
LEMMA AheadIs ==
  ASSUME NEW q \in Seq(Nat), NEW A, A \subseteq DOMAIN q
  PROVE  Cardinality(A) \in Nat /\ Cardinality(A) + 1 \in 1..(Len(q) + 1)
<1>1. Len(q) \in Nat /\ DOMAIN q = 1..Len(q)
  BY LengthIs
<1>2. IsFiniteSet(1..Len(q)) /\ Cardinality(1..Len(q)) = Len(q)
  <2>1. PICK n \in Nat : n = Len(q)
    BY <1>1
  <2>2. IsFiniteSet(1..n) /\ Cardinality(1..n) = IF 1 > n THEN 0 ELSE n - 1 + 1
    BY FS_Interval
  <2> QED
    BY <2>1, <2>2
<1>3. IsFiniteSet(A) /\ Cardinality(A) <= Len(q)
  BY <1>1, <1>2, FS_Subset
<1>4. Cardinality(A) \in Nat
  BY <1>3, FS_CardinalityType
<1> QED
  BY <1>1, <1>3, <1>4

LEMMA EnqueueIs ==
  ASSUME Base, NEW kind \in Kinds, Enqueue(kind)
  PROVE  LET n == Len(call) + 1
         IN  /\ n \in Nat /\ n \notin Calls /\ Calls' = Calls \cup {n} /\ Len(call') = Len(call) + 1
             /\ CallType' /\ ClientType'
             /\ \A c \in Calls : call'[c] = call[c]
             /\ call'[n].kind = kind /\ call'[n].answer = "none" /\ call'[n].ran = 0
             /\ Len(cl'.queue) = Len(cl.queue) + 1 /\ ~cl.closed
             /\ \E p \in 1..(Len(cl.queue) + 1) :
                  \A i \in 1..(Len(cl.queue) + 1) :
                    cl'.queue[i] = IF i < p THEN cl.queue[i] ELSE IF i = p THEN n ELSE cl.queue[i - 1]
             /\ \E q : cl' = [cl EXCEPT !.queue = q]
<1> DEFINE R == [kind : Kinds, answer : Answers, ran : Nat]
<1>1. PICK n : n = Len(call) + 1
  OBVIOUS
<1>2. PICK r : r = [kind |-> kind, answer |-> "none", ran |-> 0]
  OBVIOUS
<1>3. PICK ahead : ahead = IF kind = "probe" THEN Len(cl.queue)
                           ELSE Cardinality({i \in DOMAIN cl.queue : Urgent(cl.queue[i])})
  OBVIOUS
<1>4. /\ Len(call) < MaxCalls /\ ~cl.closed /\ call' = Append(call, r)
      /\ cl' = [cl EXCEPT !.queue = InsertAt(cl.queue, ahead + 1, n)]
  BY <1>1, <1>2, <1>3 DEF Enqueue
<1>5. call \in Seq(R) /\ Len(call) \in Nat /\ Calls = 1..Len(call) /\ MaxCalls \in Nat /\ cl.queue \in Seq(Nat)
      /\ Len(cl.queue) \in Nat
  BY CallsAre, ViscaAssumption, LengthIs DEF Base, CallType, ClientType
<1>6. r \in R /\ r.kind = kind /\ r.answer = "none" /\ r.ran = 0
  BY <1>2 DEF Answers
<1> HIDE DEF R
<1>7. /\ call' \in Seq(R) /\ Len(call') = Len(call) + 1 /\ \A c \in 1..Len(call) : call'[c] = call[c]
      /\ call'[n] = r
  BY <1>1, <1>4, <1>5, <1>6, AppendIs
<1>8. n \in Nat /\ n \notin Calls /\ Calls' = Calls \cup {n} /\ CallType'
  <2>1. Calls' = 1..(Len(call) + 1)
    BY <1>7 DEF Calls
  <2>2. CallType'
    BY <1>4, <1>5, <1>7 DEF CallType, R
  <2> QED
    BY <1>1, <1>5, <2>1, <2>2
<1>9. ahead + 1 \in 1..(Len(cl.queue) + 1)
  <2>1. CASE kind = "probe"
    BY <1>3, <1>5, <2>1
  <2>2. CASE kind # "probe"
    <3>1. {i \in DOMAIN cl.queue : Urgent(cl.queue[i])} \subseteq DOMAIN cl.queue
      OBVIOUS
    <3> QED
      BY <1>3, <1>5, <2>2, <3>1, AheadIs
  <2> QED
    BY <2>1, <2>2
<1>10. PICK q, p : q = InsertAt(cl.queue, p, n) /\ p = ahead + 1
  OBVIOUS
<1>11. /\ q \in Seq(Nat) /\ Len(q) = Len(cl.queue) + 1 /\ p \in 1..(Len(cl.queue) + 1)
       /\ \A i \in 1..(Len(cl.queue) + 1) : q[i] = IF i < p THEN cl.queue[i] ELSE IF i = p THEN n ELSE cl.queue[i - 1]
  <2>1. p \in 1..(Len(cl.queue) + 1) /\ n \in Nat
    BY <1>8, <1>9, <1>10
  <2>2. PICK old \in Seq(Nat) : old = cl.queue
    BY <1>5
  <2>3. /\ InsertAt(old, p, n) \in Seq(Nat) /\ Len(InsertAt(old, p, n)) = Len(old) + 1
        /\ \A i \in 1..(Len(old) + 1) :
              InsertAt(old, p, n)[i] = IF i < p THEN old[i] ELSE IF i = p THEN n ELSE old[i - 1]
    <3>1. PICK S : S = Nat
      OBVIOUS
    <3>2. p \in 1..(Len(old) + 1) /\ old \in Seq(S) /\ n \in S
      BY <2>1, <2>2, <3>1
    <3>3. /\ InsertAt(old, p, n) \in Seq(S) /\ Len(InsertAt(old, p, n)) = Len(old) + 1
          /\ \A i \in 1..(Len(old) + 1) :
                InsertAt(old, p, n)[i] = IF i < p THEN old[i] ELSE IF i = p THEN n ELSE old[i - 1]
      BY <3>2, InsertAtIs
    <3> QED
      BY <3>1, <3>3
  <2> QED
    BY <1>10, <2>1, <2>2, <2>3
<1>12. cl' = [cl EXCEPT !.queue = q]
  BY <1>4, <1>10
<1>13. ClientType' /\ cl'.queue = q
  BY <1>11, <1>12 DEF Base, ClientType
<1>14. /\ n \in Nat /\ n \notin Calls /\ Calls' = Calls \cup {n} /\ Len(call') = Len(call) + 1
       /\ CallType' /\ ClientType'
       /\ \A c \in Calls : call'[c] = call[c]
       /\ call'[n].kind = kind /\ call'[n].answer = "none" /\ call'[n].ran = 0
       /\ Len(cl'.queue) = Len(cl.queue) + 1 /\ ~cl.closed
  BY <1>4, <1>5, <1>6, <1>7, <1>8, <1>11, <1>13
<1>15. \E x \in 1..(Len(cl.queue) + 1) :
         \A i \in 1..(Len(cl.queue) + 1) :
           cl'.queue[i] = IF i < x THEN cl.queue[i] ELSE IF i = x THEN n ELSE cl.queue[i - 1]
  BY <1>11, <1>13
<1> QED
  BY <1>1, <1>12, <1>14, <1>15

LEMMA EnqueueKeeps ==
  ASSUME Base, OnceInv, TrueInv, NEW kind \in Kinds, Enqueue(kind), UNCHANGED <<net, head, slips>>
  PROVE  Base' /\ OnceInv' /\ TrueInv'
<1>1. PICK n : n = Len(call) + 1
  OBVIOUS
<1>2. /\ n \in Nat /\ n \notin Calls /\ Calls' = Calls \cup {n} /\ Len(call') = Len(call) + 1
      /\ CallType' /\ ClientType'
      /\ \A c \in Calls : call'[c] = call[c]
      /\ call'[n].kind = kind /\ call'[n].answer = "none" /\ call'[n].ran = 0
      /\ Len(cl'.queue) = Len(cl.queue) + 1
  BY <1>1, EnqueueIs
<1>3. PICK p \in 1..(Len(cl.queue) + 1) :
        \A i \in 1..(Len(cl.queue) + 1) :
          cl'.queue[i] = IF i < p THEN cl.queue[i] ELSE IF i = p THEN n ELSE cl.queue[i - 1]
  BY <1>1, EnqueueIs
<1>4. /\ cl'.job = cl.job /\ cl'.stage = cl.stage /\ cl'.seq = cl.seq /\ cl'.mine = cl.mine /\ cl'.copies = cl.copies
      /\ cl'.renewed = cl.renewed /\ cl'.retried = cl.retried /\ cl'.needReset = cl.needReset
      /\ cl'.renewing = cl.renewing /\ cl'.reset = cl.reset
  <2>1. PICK q : cl' = [cl EXCEPT !.queue = q]
    BY EnqueueIs
  <2> QED
    BY <2>1 DEF Base, ClientType
<1>5. /\ toCam' = toCam /\ toUs' = toUs /\ seen' = seen /\ moving' = moving /\ slips' = slips
      /\ ToHead' = ToHead /\ ToDriver' = ToDriver
  BY DEF net, head, ToHead, ToDriver
<1>6. /\ Len(call) \in Nat /\ NoJob \notin Calls /\ n # NoJob /\ NetType
      /\ cl.queue \in Seq(Nat) /\ Len(cl.queue) \in Nat /\ DOMAIN cl.queue = 1..Len(cl.queue)
      /\ DOMAIN cl'.queue = 1..(Len(cl.queue) + 1) /\ Calls = 1..Len(call)
  BY <1>1, <1>2, CallsAre, LengthIs DEF Base, ClientType, NoJob
<1>7. NetType' /\ HeadType'
  BY <1>2, <1>5, <1>6 DEF NetType, HeadType, Base
<1>8. \A d \in Calls : Command(d)' = Command(d) /\ Live(d)' = Live(d) /\ (Unsent(d) => Unsent(d)')
  BY <1>2, <1>5 DEF Command, Live, Unsent
<1>9. Unsent(n)' /\ Live(n)' = {} /\ \A m \in ToHead \cup ToDriver : m.job # n
  <2>1. \A m \in ToHead \cup ToDriver : m.job # n
    BY <1>2, <1>6, ItemsAre
  <2> QED
    BY <1>2, <1>5, <2>1 DEF Unsent, Live
<1>10. PumpOk'
  <2>1. /\ cl.stage = "idle" <=> cl.job = NoJob
        /\ cl.job # NoJob => cl.job \in Calls /\ call[cl.job].answer = "none"
        /\ cl.stage = "space" => Unsent(cl.job)
        /\ Len(cl.queue) + (IF cl.job = NoJob THEN 0 ELSE 1) <= Len(call)
        /\ \A i \in 1..Len(cl.queue) :
             /\ cl.queue[i] \in Calls /\ cl.queue[i] # cl.job
             /\ call[cl.queue[i]].answer = "none" /\ Unsent(cl.queue[i])
             /\ \A k \in 1..Len(cl.queue) : cl.queue[k] = cl.queue[i] => k = i
    BY <1>6 DEF Base, PumpOk
  <2>2. \A i \in 1..(Len(cl.queue) + 1) : i = p \/ \E j \in 1..Len(cl.queue) : (IF i < p THEN j = i ELSE j = i - 1) /\ cl'.queue[i] = cl.queue[j]
    BY <1>3, <1>6
  <2>3. cl'.queue[p] = n /\ p \in 1..(Len(cl.queue) + 1) /\ n # cl.job
    BY <1>2, <1>3, <1>6, <2>1
  <2>4. ASSUME NEW i \in 1..(Len(cl.queue) + 1)
        PROVE  /\ cl'.queue[i] \in Calls' /\ cl'.queue[i] # cl.job /\ call'[cl'.queue[i]].answer = "none"
               /\ \A d : d = cl'.queue[i] => Unsent(d)'
    <3>1. CASE i = p
      BY <1>2, <1>9, <2>3, <3>1
    <3>2. CASE i # p
      <4>1. PICK j \in 1..Len(cl.queue) : cl'.queue[i] = cl.queue[j]
        BY <2>2, <3>2
      <4>2. PICK d \in Calls : d = cl.queue[j] /\ d # cl.job /\ call[d].answer = "none" /\ Unsent(d)
        BY <2>1
      <4> QED
        BY <1>2, <1>8, <4>1, <4>2
    <3> QED
      BY <3>1, <3>2
  <2>5. ASSUME NEW i \in 1..(Len(cl.queue) + 1), NEW k \in 1..(Len(cl.queue) + 1), cl'.queue[k] = cl'.queue[i]
        PROVE  k = i
    <3>1. CASE i = p /\ k # p
      BY <1>2, <2>1, <2>2, <2>3, <2>5, <3>1
    <3>2. CASE i # p /\ k = p
      BY <1>2, <2>1, <2>2, <2>3, <2>5, <3>2
    <3>3. CASE i # p /\ k # p
      <4>1. PICK j \in 1..Len(cl.queue) : (IF i < p THEN j = i ELSE j = i - 1) /\ cl'.queue[i] = cl.queue[j]
        BY <2>2, <3>3
      <4>2. PICK l \in 1..Len(cl.queue) : (IF k < p THEN l = k ELSE l = k - 1) /\ cl'.queue[k] = cl.queue[l]
        BY <2>2, <3>3
      <4>3. j = l
        BY <2>1, <2>5, <4>1, <4>2
      <4> QED
        BY <1>6, <3>3, <4>1, <4>2, <4>3
    <3> QED
      BY <3>1, <3>2, <3>3
  <2>6. ASSUME NEW i \in DOMAIN cl'.queue PROVE Unsent(cl.queue[i])'
    BY <1>6, <2>4
  <2>7. cl'.stage = "space" => Unsent(cl.job)'
    <3>1. \A d \in Calls : d = cl'.job => (Unsent(d)' => Unsent(cl.job)')
      OBVIOUS
    <3> QED
      BY <1>4, <1>8, <2>1, <3>1
  <2>8. Len(cl'.queue) + (IF cl'.job = NoJob THEN 0 ELSE 1) <= Len(call')
    <3>1. Len(cl'.queue) + (IF cl.job = NoJob THEN 0 ELSE 1) <= Len(call')
      <4>1. CASE cl.job = NoJob
        BY <1>2, <1>6, <2>1, <4>1
      <4>2. CASE cl.job # NoJob
        BY <1>2, <1>6, <2>1, <4>2
      <4> QED
        BY <4>1, <4>2
    <3> QED
      BY <1>4, <3>1
  <2>9. /\ cl'.stage = "idle" <=> cl'.job = NoJob
        /\ cl'.job # NoJob => cl'.job \in Calls' /\ call'[cl'.job].answer = "none"
    BY <1>2, <1>4, <2>1
  <2> QED
    BY <1>4, <1>6, <2>4, <2>5, <2>6, <2>7, <2>8, <2>9 DEF PumpOk
<1>11. Base'
  BY <1>2, <1>7, <1>10 DEF Base
<1>12. Fresh => Fresh'
  BY <1>2, <1>4, <1>5 DEF Fresh
<1>13. Running => Running'
  <2> SUFFICES ASSUME Running PROVE Running'
    OBVIOUS
  <2>1. cl.stage # "idle" => cl.job \in Calls
    BY HandIs
  <2>2. cl.stage # "idle" => Command(cl.job)' = Command(cl.job) /\ Live(cl.job)' = Live(cl.job) /\ call'[cl.job] = call[cl.job]
    <3>1. \A d \in Calls : d = cl.job /\ d = cl'.job => Command(cl.job)' = Command(cl.job) /\ Live(cl.job)' = Live(cl.job)
      BY <1>8
    <3> QED
      BY <1>2, <1>4, <2>1, <3>1
  <2>3. Spare' = Spare
    BY <1>4 DEF Spare
  <2>4. Len(call') - Len(cl'.queue) = Len(call) - Len(cl.queue)
    BY <1>2, <1>6
  <2> QED
    BY <1>4, <1>5, <2>2, <2>3, <2>4 DEF Running, Numbers
<1>14. Renewing => Renewing'
  BY <1>4, <1>5 DEF Renewing
<1>15. Runs => Runs'
  <2> SUFFICES ASSUME Runs, NEW d \in Calls', Command(d)'
               PROVE  /\ call'[d].ran <= 1 /\ (call'[d].ran = 1 => Live(d)' = {})
                      /\ \A x, y \in Live(d)' : x.seq = y.seq
    BY DEF Runs
  <2>1. CASE d = n
    BY <1>2, <1>9, <2>1
  <2>2. CASE d \in Calls
    BY <1>2, <1>8, <2>2 DEF Runs
  <2> QED
    BY <1>2, <2>1, <2>2
<1>16. OnceInv'
  BY <1>5, <1>12, <1>13, <1>14, <1>15 DEF OnceInv, Remembers
<1>17. TrueInv'
  <2> SUFFICES ASSUME Plain' PROVE TrueInv'
    BY DEF TrueInv
  <2>1. /\ (Fresh /\ seen = {}) \/ (Running /\ seen \subseteq 1..cl.seq)
        /\ cl.stage = "reply" => cl.copies \in {1, 2} /\ (cl.copies = 1 => First)
        /\ \A m \in ToDriver : Says(m)
        /\ \A c \in Calls : Command(c) => Given(c)
    BY <1>5 DEF TrueInv, Plain
  <2>2. ASSUME NEW m \in ToDriver PROVE Says(m)'
    <3>1. Says(m) /\ (m.kind # "reset" => m.job \in Calls)
      BY <1>6, <2>1, ItemsAre
    <3> QED
      BY <1>2, <1>4, <1>8, <3>1 DEF Says
  <2>3. ASSUME NEW d \in Calls', Command(d)' PROVE Given(d)'
    <3>1. CASE d = n
      BY <1>2, <3>1 DEF Given, Answer
    <3>2. CASE d \in Calls
      BY <1>2, <1>8, <2>1, <2>3, <3>2 DEF Given, Answer
    <3> QED
      BY <1>2, <3>1, <3>2
  <2>4. First => First'
    BY <1>4, <1>5 DEF First
  <2> QED
    BY <1>4, <1>5, <1>12, <1>13, <2>1, <2>2, <2>3, <2>4 DEF TrueInv
<1> QED
  BY <1>11, <1>16, <1>17

(* close() *)
LEMMA CloseIs ==
  ASSUME Base, CloseClient
  PROVE  /\ CallType' /\ SameCalls
         /\ \A d \in Calls :
              call'[d].answer = IF call[d].answer = "none" /\ (d = Current \/ Contains(cl.queue, d))
                                THEN "network" ELSE call[d].answer
         /\ ClientType' /\ cl'.closed /\ cl'.queue = <<>>
         /\ cl'.job = IF cl.stage = "reply" THEN NoJob ELSE cl.job
         /\ cl'.stage = IF cl.stage = "reply" THEN "idle" ELSE cl.stage
         /\ cl'.seq = cl.seq /\ cl'.renewed = cl.renewed /\ cl'.retried = cl.retried
         /\ cl'.needReset = cl.needReset /\ cl'.reset = cl.reset
<1> DEFINE R == [kind : Kinds, answer : Answers, ran : Nat]
<1>1. PICK gone : gone = {d \in Calls : call[d].answer = "none" /\ (d = Current \/ Contains(cl.queue, d))}
  OBVIOUS
<1>2. PICK f : f = [d \in Calls |-> IF d \in gone THEN [call[d] EXCEPT !.answer = "network"] ELSE call[d]]
  OBVIOUS
<1>3. call' = f
  BY <1>1, <1>2 DEF CloseClient
<1>4. /\ Len(call) \in Nat /\ Calls = 1..Len(call) /\ Len(call) <= MaxCalls
      /\ \A d \in Calls : call[d] \in R
  BY CallsAre DEF Base, CallType
<1>5. ASSUME NEW d \in Calls
      PROVE  /\ f[d] \in R /\ f[d].kind = call[d].kind /\ f[d].ran = call[d].ran
             /\ f[d].answer = IF d \in gone THEN "network" ELSE call[d].answer
  BY <1>2, <1>4 DEF Answers
<1> HIDE DEF R
<1>6. call' \in Seq(R) /\ Len(call') = Len(call)
  <2>1. f \in [1..Len(call) -> R]
    BY <1>2, <1>4, <1>5
  <2> QED
    BY <1>3, <1>4, <2>1
<1>7. CallType' /\ SameCalls
  <2>1. Calls' = Calls
    BY <1>6 DEF Calls
  <2> QED
    BY <1>3, <1>4, <1>5, <1>6, <2>1 DEF CallType, SameCalls, R
<1>8. \A d \in Calls :
        call'[d].answer = IF call[d].answer = "none" /\ (d = Current \/ Contains(cl.queue, d))
                          THEN "network" ELSE call[d].answer
  BY <1>1, <1>3, <1>5
<1>9. PICK j \in Nat, g \in Stages, q \in Seq(Nat), b \in SUBSET Nat :
        /\ j = IF cl.stage = "reply" THEN NoJob ELSE cl.job
        /\ g = IF cl.stage = "reply" THEN "idle" ELSE cl.stage
        /\ q = <<>> /\ b = {}
  <2>1. PICK j \in Nat : j = IF cl.stage = "reply" THEN NoJob ELSE cl.job
    BY DEF Base, ClientType, NoJob
  <2>2. PICK g \in Stages : g = IF cl.stage = "reply" THEN "idle" ELSE cl.stage
    BY DEF Base, ClientType, Stages
  <2>3. PICK q \in Seq(Nat) : q = <<>>
    <3>1. <<>> \in Seq(Nat)
      BY EmptySeq
    <3> QED
      BY <3>1
  <2>4. PICK b \in SUBSET Nat : b = {}
    OBVIOUS
  <2> QED
    BY <2>1, <2>2, <2>3, <2>4
<1>10. cl' = [cl EXCEPT !.closed = TRUE, !.queue = q, !.buffers = b, !.job = j, !.stage = g]
  <2>1. (Current = NoJob) <=> cl.stage # "reply"
    BY DEF Current, Base, PumpOk
  <2> QED
    BY <1>9, <2>1 DEF CloseClient, Base, ClientType
<1>11. /\ ClientType' /\ cl'.closed /\ cl'.queue = q /\ cl'.job = j /\ cl'.stage = g
       /\ cl'.seq = cl.seq /\ cl'.renewed = cl.renewed /\ cl'.retried = cl.retried
       /\ cl'.needReset = cl.needReset /\ cl'.reset = cl.reset
  BY <1>9, <1>10 DEF Base, ClientType
<1> QED
  BY <1>7, <1>8, <1>9, <1>11

LEMMA CloseKeeps ==
  ASSUME Base, OnceInv, TrueInv, CloseClient, UNCHANGED <<net, head, slips>>
  PROVE  Base' /\ OnceInv' /\ TrueInv'
<1>1. /\ CallType' /\ SameCalls
      /\ \A d \in Calls :
           call'[d].answer = IF call[d].answer = "none" /\ (d = Current \/ Contains(cl.queue, d))
                             THEN "network" ELSE call[d].answer
      /\ ClientType' /\ cl'.closed /\ cl'.queue = <<>>
      /\ cl'.job = IF cl.stage = "reply" THEN NoJob ELSE cl.job
      /\ cl'.stage = IF cl.stage = "reply" THEN "idle" ELSE cl.stage
      /\ cl'.seq = cl.seq /\ cl'.renewed = cl.renewed /\ cl'.retried = cl.retried
      /\ cl'.needReset = cl.needReset /\ cl'.reset = cl.reset
  BY CloseIs
<1>2. ClientTurn /\ NoMessage /\ toUs' = toUs
  BY TurnHere, NothingSent DEF Base, net
<1>3. /\ \A m \in ToHead' : m = ResetFrame \/ m \in ToHead
      /\ NetType' /\ HeadType'
      /\ Remembers' => Remembers
      /\ Plain' => Plain
      /\ \A c \in Calls : Command(c)' = Command(c) /\ Live(c)' \subseteq Live(c) /\ (Unsent(c) => Unsent(c)')
      /\ Runs => Runs'
      /\ (\E m \in ToDriver' : m.kind = "sequence") => \E m \in ToDriver : m.kind = "sequence"
  BY <1>1, <1>2, StillSent
<1>4. /\ Len(call) \in Nat /\ NoJob \notin Calls /\ Calls = 1..Len(call) /\ Len(cl.queue) \in Nat /\ cl.seq \in Nat
      /\ Len(<<>>) = 0 /\ DOMAIN <<>> = {} /\ DOMAIN cl.queue = 1..Len(cl.queue)
      /\ cl.job # NoJob => cl.job \in Calls /\ call[cl.job].answer = "none"
      /\ cl.stage = "idle" <=> cl.job = NoJob
  <2>1. Len(cl.queue) \in Nat /\ DOMAIN cl.queue = 1..Len(cl.queue)
    BY LengthIs DEF Base, ClientType
  <2> QED
    BY <2>1, CallsAre DEF Base, PumpOk, ClientType
<1>5. ASSUME cl.job # NoJob, cl.stage # "reply"
      PROVE  call'[cl.job].answer = "none"
  <2>1. Current = NoJob
    BY <1>5 DEF Current
  <2>2. ~Contains(cl.queue, cl.job)
    BY <1>4 DEF Contains, Base, PumpOk
  <2> QED
    BY <1>1, <1>4, <1>5, <2>1, <2>2
<1>6. Base'
  <2>1. cl'.stage = "space" => Unsent(cl.job)'
    <3>1. \A d \in Calls : d = cl'.job => (Unsent(d)' => Unsent(cl.job)')
      OBVIOUS
    <3> QED
      BY <1>1, <1>3, <1>4, <3>1 DEF Base, PumpOk
  <2>2. Len(cl'.queue) + (IF cl'.job = NoJob THEN 0 ELSE 1) <= Len(call')
    BY <1>1, <1>4 DEF SameCalls
  <2>3. /\ cl'.stage = "idle" <=> cl'.job = NoJob
        /\ cl'.job # NoJob => cl'.job \in Calls' /\ call'[cl'.job].answer = "none"
    BY <1>1, <1>4, <1>5 DEF SameCalls
  <2>4. DOMAIN cl'.queue = {}
    BY <1>1, <1>4
  <2>5. PumpOk'
    BY <2>1, <2>2, <2>3, <2>4 DEF PumpOk
  <2> QED
    BY <1>1, <1>3, <2>5 DEF Base
<1>7. Fresh => Fresh'
  <2> SUFFICES ASSUME Fresh PROVE Fresh'
    OBVIOUS
  <2>1. \A m \in ToHead' \cup ToDriver' : m.kind = "reset"
    BY <1>2, <1>3, ResetFrameIs DEF Fresh, ClientTurn
  <2>2. \A c \in Calls' : call'[c].ran = 0
    BY <1>1 DEF Fresh, SameCalls
  <2>3. /\ cl'.needReset /\ cl'.stage \in {"idle", "space", "reset"}
        /\ cl'.stage # "idle" => ~cl'.retried /\ ~cl'.renewed
    BY <1>1 DEF Fresh
  <2> QED
    BY <2>1, <2>2, <2>3 DEF Fresh
<1>8. Running => Running'
  <2> SUFFICES ASSUME Running PROVE Running'
    OBVIOUS
  <2>1. /\ cl.seq + Spare <= 2 * (Len(call) - Len(cl.queue))
        /\ \A m \in ToHead : m.kind = "message" => m.seq \in 1..cl.seq
        /\ \A m \in ToDriver : m.seq \in 0..cl.seq
    BY DEF Running, Numbers
  <2>2. Spare \in Nat /\ Spare' \in Nat /\ Spare' <= Spare
    BY <1>1 DEF Spare
  <2>3. cl'.seq + Spare' <= 2 * (Len(call') - Len(cl'.queue))
    <3>1. \A x, y, s, t, z \in Nat : s <= t /\ x + t <= 2 * (y - z) => x + s <= 2 * (y - 0)
      OBVIOUS
    <3>2. cl.seq + Spare' <= 2 * (Len(call) - 0)
      BY <1>4, <2>1, <2>2, <3>1
    <3>3. cl'.seq = cl.seq /\ Len(cl'.queue) = 0 /\ Len(call') = Len(call)
      BY <1>1, <1>4 DEF SameCalls
    <3> QED
      BY <3>2, <3>3
  <2>4. cl'.stage = "full" => Command(cl.job)' /\ Live(cl.job)' = {} /\ call'[cl'.job].ran = 0 /\ ~cl'.retried
    <3> SUFFICES ASSUME cl'.stage = "full" PROVE Command(cl.job)' /\ Live(cl.job)' = {} /\ call'[cl'.job].ran = 0 /\ ~cl'.retried
      OBVIOUS
    <3>1. PICK d \in Calls : d = cl.job /\ d = cl'.job
      BY <1>1, <1>4
    <3>2. Command(d) /\ Live(d) = {} /\ call[d].ran = 0 /\ ~cl.retried
      BY <1>1, <3>1 DEF Running, Numbers
    <3>3. Command(d)' /\ Live(d)' = {} /\ call'[d].ran = 0 /\ ~cl'.retried
      BY <1>1, <1>3, <3>2 DEF SameCalls
    <3> QED
      BY <3>1, <3>3
  <2>5. cl'.stage \in {"space", "full"} => ~cl'.renewed
    BY <1>1 DEF Running, Numbers
  <2>6. /\ \A m \in ToHead' : m.kind = "message" => m.seq \in 1..cl'.seq
        /\ \A m \in ToDriver' : m.seq \in 0..cl'.seq
    BY <1>1, <1>2, <1>3, <2>1, ResetFrameIs DEF ClientTurn
  <2>7. cl'.stage # "reply" /\ cl'.stage # "reset"
    BY <1>1 DEF Running
  <2>8. Numbers'
    BY <2>3, <2>4, <2>5, <2>6, <2>7 DEF Numbers
  <2> QED
    BY <1>1, <2>7, <2>8 DEF Running
<1>9. Renewing => Renewing'
  BY <1>1, <1>2 DEF Renewing, ClientTurn
<1>10. OnceInv'
  BY <1>3, <1>7, <1>8, <1>9, <1>2 DEF OnceInv, ClientTurn
<1>11. TrueInv'
  <2> SUFFICES ASSUME Plain' PROVE TrueInv'
    BY DEF TrueInv
  <2>1. /\ (Fresh /\ seen = {}) \/ (Running /\ seen \subseteq 1..cl.seq)
        /\ \A m \in ToDriver : Says(m)
        /\ \A c \in Calls : Command(c) => Given(c)
    BY <1>3 DEF TrueInv
  <2>2. (Fresh' /\ seen' = {}) \/ (Running' /\ seen' \subseteq 1..cl'.seq)
    BY <1>1, <1>2, <1>7, <1>8, <2>1 DEF ClientTurn
  <2>3. ASSUME NEW m \in ToDriver' PROVE Says(m)'
    <3>1. m \in ToDriver /\ Says(m) /\ (m.kind # "reset" => m.job \in Calls)
      BY <1>2, <2>1, ItemsAre DEF Base, ClientTurn
    <3> QED
      BY <1>1, <1>3, <3>1 DEF Says, SameCalls
  <2>4. ASSUME NEW d \in Calls, Command(d) PROVE Given(d)'
    BY <1>1, <1>3, <2>1, <2>4 DEF Given, Answer, SameCalls
  <2>5. cl'.stage # "reply"
    BY <1>1
  <2> QED
    BY <1>1, <1>3, <2>2, <2>3, <2>4, <2>5 DEF TrueInv, SameCalls
<1> QED
  BY <1>6, <1>10, <1>11

-----------------------------------------------------------------------------
(* The driver's own steps leave the client and the network alone. *)
LEMMA AsideKeeps ==
  ASSUME Base, OnceInv, TrueInv, UNCHANGED <<call, cl, net, seen>>, moving' \in BOOLEAN,
         slips' = slips \/ slips' = slips \cup {"probed"}
  PROVE  Base' /\ OnceInv' /\ TrueInv'
<1>1. ClientTurn
  BY ItemsAre DEF ClientTurn, Base, NetType, HeadType, net, Slips, ToDriver
<1>2. NoMessage /\ ClientType' /\ call' = call /\ cl' = cl
  BY NothingSent DEF Base, net, ClientType
<1> QED
  BY <1>1, <1>2, StandKeeps

LEMMA MicrotasksKeep ==
  ASSUME Base, OnceInv, TrueInv, Microtasks
  PROVE  Base' /\ OnceInv' /\ TrueInv'
<1>1. moving \in BOOLEAN
  BY DEF Base, HeadType
<1>2. CASE PumpNext
  BY <1>2, PumpKeeps
<1>3. CASE MoveAnswered
  BY <1>1, <1>3, AsideKeeps DEF MoveAnswered, viscaVars, net
<1>4. CASE StopAnswered
  BY <1>1, <1>4, AsideKeeps DEF StopAnswered, head
<1>5. CASE Resent
  BY <1>1, <1>5, AsideKeeps DEF Resent, viscaVars, net
<1>6. CASE Probed
  BY <1>1, <1>6, AsideKeeps DEF Probed, client, head
<1> QED
  BY <1>2, <1>3, <1>4, <1>5, <1>6 DEF Microtasks

LEMMA EventsKeep ==
  ASSUME Base, OnceInv, TrueInv, Events
  PROVE  Base' /\ OnceInv' /\ TrueInv'
<1>1. moving \in BOOLEAN
  BY DEF Base, HeadType
<1>2. ASSUME NEW what \in {"move", "stop"}, Begin(what)
      PROVE  Base' /\ OnceInv' /\ TrueInv'
  <2>1. UNCHANGED <<net, head, slips>> /\ what \in Kinds
    BY <1>2 DEF Begin, Kinds
  <2>2. CASE Enqueue(what)
    BY <2>1, <2>2, EnqueueKeeps
  <2>3. CASE UNCHANGED <<call, cl>>
    BY <1>1, <2>1, <2>3, AsideKeeps DEF head
  <2> QED
    BY <1>2, <2>2, <2>3 DEF Begin
<1>3. CASE CgiRuns
  BY <1>3, AsideKeeps DEF CgiRuns, client
<1>4. ASSUME NEW ok \in BOOLEAN, CgiAnswered(ok)
      PROVE  Base' /\ OnceInv' /\ TrueInv'
  BY <1>1, <1>4, AsideKeeps DEF CgiAnswered, head
<1>5. CASE Resend
  BY <1>5, EnqueueKeeps DEF Resend, Kinds
<1>6. CASE Probe
  BY <1>6, EnqueueKeeps DEF Probe, Kinds
<1>7. CASE Close
  BY <1>7, CloseKeeps DEF Close
<1>8. CASE ClientSteps
  BY <1>8, WaitKeeps, ResetTimerKeeps, AttemptTimerKeeps, UdpErrorKeeps, DatagramKeeps DEF ClientSteps
<1>9. CASE WorldSteps
  BY <1>9, LoseFromUsKeeps, LoseFromCamKeeps, MeddleKeeps, HeadReceivesKeeps DEF WorldSteps
<1> QED
  BY <1>2, <1>3, <1>4, <1>5, <1>6, <1>7, <1>8, <1>9 DEF Events

LEMMA Starts == DriverInit => Base /\ OnceInv /\ TrueInv
<1> SUFFICES ASSUME DriverInit PROVE Base /\ OnceInv /\ TrueInv
  OBVIOUS
<1>1. /\ call = <<>> /\ Len(call) = 0 /\ Calls = {} /\ toCam = <<>> /\ toUs = <<>> /\ seen = {} /\ moving = FALSE /\ slips = {}
      /\ \A S : <<>> \in Seq(S)
  BY EmptySeq DEF DriverInit, Init, Calls
<1>2. ToHead = {} /\ ToDriver = {}
  BY <1>1 DEF ToHead, ToDriver, Range
<1>3. PICK none \in 0..2 : none = 0
  OBVIOUS
<1>4. PICK q \in Seq(Nat), b \in SUBSET Nat : q = <<>> /\ b = {}
  BY <1>1
<1>5. cl = [queue |-> q, job |-> NoJob, stage |-> "idle", seq |-> 0, needReset |-> TRUE, reset |-> none,
            mine |-> 0, copies |-> none, renewed |-> FALSE, retried |-> FALSE,
            renewing |-> NoJob, buffers |-> b, closed |-> FALSE]
  BY <1>3, <1>4 DEF DriverInit, Init
<1>6. ClientType /\ cl.queue = <<>> /\ cl.job = NoJob /\ cl.stage = "idle" /\ cl.needReset /\ ~cl.renewed /\ ~cl.retried
  <2>1. NoJob \in Nat /\ 0 \in Nat
    BY DEF NoJob
  <2> QED
    BY <1>4, <1>5, <2>1 DEF ClientType, Stages
<1>7. CallType /\ NetType /\ HeadType
  <2>1. <<>> \in Seq([kind : Kinds, answer : Answers, ran : Nat]) /\ <<>> \in Seq(Sent) /\ <<>> \in Seq(Returned)
    BY EmptySeq
  <2>2. 0 <= MaxCalls
    BY ViscaAssumption
  <2>3. CallType
    BY <1>1, <2>1, <2>2 DEF CallType
  <2>4. NetType
    BY <1>1, <1>2, <2>1 DEF NetType
  <2> QED
    BY <1>1, <2>3, <2>4 DEF HeadType
<1>8. PumpOk
  <2>1. Len(cl.queue) = 0 /\ DOMAIN cl.queue = {}
    BY <1>6
  <2> QED
    BY <1>1, <1>6, <2>1 DEF PumpOk
<1>9. Fresh /\ Runs /\ ~\E m \in ToDriver : m.kind = "sequence"
  BY <1>1, <1>2, <1>6 DEF Fresh, Runs
<1> QED
  BY <1>1, <1>2, <1>6, <1>7, <1>8, <1>9 DEF Base, OnceInv, TrueInv

LEMMA Stands ==
  ASSUME Base, OnceInv, TrueInv, UNCHANGED vars
  PROVE  Base' /\ OnceInv' /\ TrueInv'
BY AsideKeeps DEF vars, viscaVars, net, Base, HeadType

LEMMA Holds == Spec => [](Base /\ OnceInv /\ TrueInv)
<1>1. Base /\ OnceInv /\ TrueInv /\ [Next]_vars => Base' /\ OnceInv' /\ TrueInv'
  BY MicrotasksKeep, EventsKeep, Stands DEF Next
<1> QED
  BY <1>1, Starts, PTL DEF Spec

(* A command is carried out at most once by a head that remembers what it  *)
(* has handled, whatever is lost, late or overtaken and however often      *)
(* #attemptTimedOut and #onControlError of visca-client.js send it again.  *)
THEOREM CommandsRunOnce == Spec => []RunsOnce
<1>1. Base /\ OnceInv => RunsOnce
  BY CallsAre DEF OnceInv, Remembers, Runs, RunsOnce, Base
<1> QED
  BY <1>1, Holds, PTL

(* What the client tells the driver of a command is what happened at the   *)
(* head, on a network that loses and reorders: a command reported as taken *)
(* (#onReply) or assumed taken (#onControlError) has run, a refused one    *)
(* has not.                                                                *)
THEOREM AnswersTrue == Spec => []AnswersAreTrue
<1>1. Base /\ TrueInv => AnswersAreTrue
  BY DEF TrueInv, Plain, Given, AnswersAreTrue
<1> QED
  BY <1>1, Holds, PTL

-----------------------------------------------------------------------------
(* The driver: its calls, and what is still to come of moves and stops. *)

(* Whose call is unanswered, and what the driver knows of the link. *)
DriverOk ==
  /\ op \in [what : {"none", "move", "stop"}, at : {"none", "visca", "cgi", "ran"}, call : Nat, failed : BOOLEAN]
  /\ op.what = "none" <=> op = NoOp
  /\ op.at = "visca" => op.call \in Calls /\ call[op.call].kind = op.what
  /\ last \in [what : {"none", "move", "stop"}, ok : BOOLEAN]
  /\ resend # NoJob => restop /\ resend \in Calls /\ call[resend].kind = "restop"
  /\ restop => ~cl.closed /\ (op.what = "stop" \/ (op = NoOp /\ last.what = "stop"))
  /\ \A c \in Calls : call[c].answer = "none" =>
       /\ call[c].kind \in {"move", "stop"} => op.at = "visca" /\ c = op.call
       /\ call[c].kind = "restop" => c = resend \/ c \in withdrawn
  /\ up \in BOOLEAN /\ lost \in BOOLEAN /\ restop \in BOOLEAN /\ cut \in BOOLEAN
  /\ ~up /\ ~lost => cl.closed \/ Calls = {}
  /\ probing \in Calls \cup {NoJob}
  /\ Calls = {} => ~lost /\ ~restop /\ ~op.failed

IsMove(m) == m.kind = "message" /\ call[m.job].kind = "move"
IsStop(c) == call[c].kind \in {"stop", "restop"}

(* No move is still to be run, and the head is at rest. *)
NoMoves == \A m \in ToHead : IsMove(m) => m.seq \in seen
Calm    == ~moving /\ NoMoves

(* The stops the driver waits for: no move is behind one, and nothing moves *)
(* once it was run.                                                         *)
Stopping == {c \in Calls : c = resend \/ (op.what = "stop" /\ op.at = "visca" /\ c = op.call)}
Behind(c) ==
  /\ \A i, k \in DOMAIN toCam : i < k /\ toCam[i].job = c => ~IsMove(toCam[k])
  /\ call[c].ran > 0 => Calm

(* A stop that goes over CGI alone, and one that is done. *)
CgiOnly == op.what = "stop" /\ op.at \in {"cgi", "ran"} /\ ~op.failed /\ ~lost /\ ~cl.closed
Done    == op = NoOp /\ last.what = "stop" /\ last.ok

(* A move is in hand or was the last, and no stop is left from before. *)
Driven == ~cut /\ (op.what = "move" \/ (op = NoOp /\ last.what = "move"))
NoStops == \A c \in Calls : IsStop(c) => c # cl.job /\ \A m \in ToHead : m.job # c

LastInv ==
  Undisturbed =>
    /\ \A c \in Stopping : Behind(c)
    /\ CgiOnly => NoMoves /\ (op.at = "ran" => ~moving)
    /\ Done => restop \/ cl.closed \/ Calm
    /\ Driven =>
         /\ NoStops
         /\ op.what = "move" /\ op.at = "visca" /\ call[op.call].ran > 0 => moving
         /\ op.what = "move" /\ op.at = "ran" => moving
         /\ op = NoOp /\ last.ok => moving

(* What is sent joins the end of what is on its way. *)
Sends ==
  \E f \in Sent :
    /\ f.kind = "message" => f.job = cl'.job
    /\ \A k \in DOMAIN toCam' : toCam'[k] = f \/ toCam'[k] \in ToHead
    /\ \A i, k \in DOMAIN toCam' : i < k =>
         toCam'[k] = f \/ \E j, l \in DOMAIN toCam : j < l /\ toCam'[i] = toCam[j] /\ toCam'[k] = toCam[l]

(* A step of the client, seen by the driver: calls are answered, and what   *)
(* goes out is for the call in hand, which was wanted when it was taken.    *)
Effect ==
  /\ Calls' = Calls
  /\ \A c \in Calls : /\ call'[c].kind = call[c].kind /\ call'[c].ran = call[c].ran
                      /\ call'[c].answer = "none" => call[c].answer = "none"
  /\ Sends /\ cl'.closed = cl.closed
  /\ seen' = seen /\ moving' = moving /\ withdrawn' = withdrawn /\ slips \subseteq slips'
  /\ \/ cl'.job \in {cl.job, NoJob}
     \/ cl'.job \in Calls \ withdrawn /\ call[cl'.job].answer = "none"

(* The client's half of it: job j is in hand, and at most a message of it *)
(* or a RESET is sent.                                                    *)
Sending(j) ==
  /\ cl'.job = j /\ cl'.closed = cl.closed
  /\ \E f \in Sent : (f.kind = "message" => f.job = j) /\ (toCam' = toCam \/ SendUdp(f))

LEMMA ThinsSends == ASSUME NetType, Thins(toCam, toCam') PROVE Sends
<1>1. ResetFrame \in Sent /\ ResetFrame.kind # "message"
  BY ResetFrameIs
<1>2. \A k \in DOMAIN toCam' : toCam'[k] \in ToHead
  BY ItemsAre DEF Thins
<1> QED
  BY <1>1, <1>2 DEF Sends, Thins

LEMMA SendingSends == ASSUME NetType, NEW j, Sending(j) PROVE Sends
<1>1. PICK f \in Sent : (f.kind = "message" => f.job = cl'.job) /\ (toCam' = toCam \/ SendUdp(f))
  BY DEF Sending
<1>2. CASE toCam' = toCam
  BY <1>2, SameThins, ThinsSends
<1>3. CASE SendUdp(f)
  <2>1. \A i \in DOMAIN toCam' : \/ i \in DOMAIN toCam /\ toCam'[i] = toCam[i]
                                 \/ i = Len(toCam) + 1 /\ toCam'[i] = f
    BY <1>3, SendIs
  <2>2. DOMAIN toCam = 1..Len(toCam) /\ Len(toCam) \in Nat /\ \A i \in DOMAIN toCam : toCam[i] \in ToHead
    BY ItemsAre
  <2>3. \A k \in DOMAIN toCam' : toCam'[k] = f \/ toCam'[k] \in ToHead
    BY <2>1, <2>2
  <2>4. \A i, k \in DOMAIN toCam' : i < k =>
          toCam'[k] = f \/ \E l, m \in DOMAIN toCam : l < m /\ toCam'[i] = toCam[l] /\ toCam'[k] = toCam[m]
    BY <2>1, <2>2
  <2> QED
    BY <1>1, <2>3, <2>4 DEF Sends
<1> QED
  BY <1>1, <1>2, <1>3

LEMMA SendingEffect ==
  ASSUME Base, UNCHANGED <<withdrawn, head>>, slips \subseteq slips',
         call' = call \/ \E c \in Calls, a \in Answers : Answered(c, a),
         NEW j, Sending(j), j \in {cl.job, NoJob} \/ (j \in Calls \ withdrawn /\ call[j].answer = "none")
  PROVE  Effect
<1>1. Sends /\ cl'.job = j /\ cl'.closed = cl.closed /\ seen' = seen /\ moving' = moving /\ withdrawn' = withdrawn
  BY SendingSends DEF Base, Sending, head
<1>2. /\ Calls' = Calls
      /\ \A c \in Calls : /\ call'[c].kind = call[c].kind /\ call'[c].ran = call[c].ran
                          /\ call'[c].answer = "none" => call[c].answer = "none"
  <2>1. CASE call' = call
    BY <2>1 DEF Calls
  <2>2. CASE \E c \in Calls, a \in Answers : Answered(c, a)
    BY <2>2, AnsweredIs DEF Base, SameCalls
  <2> QED
    BY <2>1, <2>2
<1> QED
  BY <1>1, <1>2 DEF Effect

Fields == {"queue", "job", "stage", "seq", "needReset", "reset", "mine", "copies", "renewed", "retried",
           "renewing", "buffers", "closed"}

LEMMA FieldsAre == ASSUME Base PROVE DOMAIN cl = Fields /\ cl.seq \in Nat /\ cl.mine \in Nat /\ cl.job \in Nat
BY DEF Base, ClientType, Fields

LEMMA FinishSends ==
  ASSUME Base, NEW c, NEW a, Finish(c, a)
  PROVE  Sending(NoJob) /\ Answered(c, a)
<1>1. cl' = [cl EXCEPT !.job = NoJob, !.stage = "idle"] /\ toCam' = toCam /\ Answered(c, a)
  BY DEF Finish
<1>2. cl'.job = NoJob /\ cl'.closed = cl.closed
  BY <1>1, FieldsAre DEF Fields
<1> QED
  BY <1>1, <1>2, ResetFrameIs DEF Sending

LEMMA PlainSends ==
  ASSUME NEW k, k.closed = cl.closed, cl' = k, UNCHANGED toCam
  PROVE  Sending(k.job)
BY ResetFrameIs DEF Sending

LEMMA TransmitSends ==
  ASSUME NEW c \in Nat, NEW k, DOMAIN k = Fields, k.closed = cl.closed, k.seq \in Nat, Transmit(c, k)
  PROVE  Sending(c)
<1>1. PICK s \in Nat : s = NextSeq(k.seq)
  BY DEF NextSeq
<1>2. cl' = [k EXCEPT !.job = c, !.stage = "reply", !.seq = s, !.mine = s, !.copies = 1] /\ SendUdp(Message(c, s))
  BY <1>1 DEF Transmit
<1>3. cl'.job = c /\ cl'.closed = cl.closed
  BY <1>2 DEF Fields
<1>4. Message(c, s) \in Sent /\ Message(c, s).job = c
  BY DEF Message, Sent
<1> QED
  BY <1>2, <1>3, <1>4 DEF Sending

LEMMA StartResetSends ==
  ASSUME NEW k, DOMAIN k = Fields, k.closed = cl.closed, StartReset(k)
  PROVE  Sending(k.job)
<1>1. cl' = [k EXCEPT !.reset = IF @ = 0 THEN 1 ELSE @] /\ (toCam' = toCam \/ SendUdp(ResetFrame))
  BY DEF StartReset
<1>2. cl'.job = k.job /\ cl'.closed = cl.closed
  BY <1>1 DEF Fields
<1> QED
  BY <1>1, <1>2, ResetFrameIs DEF Sending

LEMMA ExchangeSends ==
  ASSUME NEW c \in Nat, NEW k, DOMAIN k = Fields, k.closed = cl.closed, k.seq \in Nat, ExchangeSony(c, k)
  PROVE  Sending(c)
<1>1. CASE k.needReset
  <2>1. PICK kk : kk = [k EXCEPT !.job = c, !.stage = "reset"]
    OBVIOUS
  <2>2. DOMAIN kk = Fields /\ kk.closed = cl.closed /\ kk.job = c /\ StartReset(kk)
    BY <1>1, <2>1 DEF ExchangeSony, Fields
  <2> QED
    BY <2>2, StartResetSends
<1>2. CASE ~k.needReset
  BY <1>2, TransmitSends DEF ExchangeSony
<1> QED
  BY <1>1, <1>2

LEMMA PumpEffect == ASSUME Base, PumpNext PROVE Effect
<1>0. PICK c, q : c = Head(cl.queue) /\ q = Tail(cl.queue)
  OBVIOUS
<1>1. /\ cl.stage = "idle" /\ cl.queue # <<>> /\ UNCHANGED <<withdrawn, head, slips>>
      /\ DOMAIN cl = Fields /\ cl.seq \in Nat
  BY FieldsAre DEF PumpNext
<1>2. c \in Calls /\ c \in Nat /\ call[c].answer = "none"
  BY <1>0, <1>1, NextIs DEF Calls
<1>3. PICK k : k = [cl EXCEPT !.queue = q, !.renewed = FALSE, !.retried = FALSE]
  OBVIOUS
<1>4. DOMAIN k = Fields /\ k.closed = cl.closed /\ k.seq = cl.seq /\ k.job = cl.job
  BY <1>1, <1>3 DEF Fields
<1>5. CASE ~Wanted(c)
  <2>1. Answered(c, "superseded") /\ cl' = k /\ UNCHANGED toCam
    BY <1>0, <1>3, <1>5 DEF PumpNext
  <2>2. Sending(cl.job)
    BY <1>4, <2>1, PlainSends
  <2> QED
    BY <1>1, <1>2, <2>1, <2>2, SendingEffect DEF Answers
<1>6. CASE Wanted(c)
  <2>1. call' = call /\ c \in Calls \ withdrawn
    BY <1>0, <1>2, <1>6 DEF PumpNext, Wanted
  <2>2. Sending(c)
    <3>1. CASE Command(c)
      <4>1. PICK kept \in SUBSET cl.buffers :
              LET kk == [k EXCEPT !.buffers = kept]
              IN  \/ cl' = [kk EXCEPT !.job = c, !.stage = "space"] /\ UNCHANGED toCam
                  \/ ExchangeSony(c, kk)
        BY <1>0, <1>3, <1>6, <3>1 DEF PumpNext
      <4>2. PICK kk : kk = [k EXCEPT !.buffers = kept]
        OBVIOUS
      <4>3. DOMAIN kk = Fields /\ kk.closed = cl.closed /\ kk.seq \in Nat
        BY <1>1, <1>4, <4>2 DEF Fields
      <4>4. CASE ExchangeSony(c, kk)
        BY <1>2, <4>3, <4>4, ExchangeSends
      <4>5. CASE cl' = [kk EXCEPT !.job = c, !.stage = "space"] /\ UNCHANGED toCam
        <5>1. PICK kkk : kkk = [kk EXCEPT !.job = c, !.stage = "space"]
          OBVIOUS
        <5>2. kkk.job = c /\ kkk.closed = cl.closed /\ cl' = kkk
          BY <4>3, <4>5, <5>1 DEF Fields
        <5> QED
          BY <4>5, <5>2, PlainSends
      <4> QED
        BY <4>1, <4>2, <4>4, <4>5
    <3>2. CASE ~Command(c)
      <4>1. ExchangeSony(c, k)
        BY <1>0, <1>3, <1>6, <3>2 DEF PumpNext
      <4> QED
        BY <1>1, <1>2, <1>4, <4>1, ExchangeSends
    <3> QED
      BY <3>1, <3>2
  <2> QED
    BY <1>1, <1>2, <2>1, <2>2, SendingEffect
<1> QED
  BY <1>5, <1>6

LEMMA WaitEffect == ASSUME Base, WaitOver PROVE Effect
<1>1. PICK k : k = [cl EXCEPT !.retried = (cl.stage = "full")]
  OBVIOUS
<1>2. ExchangeSony(cl.job, k) /\ call' = call /\ UNCHANGED <<withdrawn, head, slips>>
  BY <1>1 DEF WaitOver
<1>3. DOMAIN k = Fields /\ k.closed = cl.closed /\ k.seq \in Nat /\ cl.job \in Nat
  BY <1>1, FieldsAre DEF Fields
<1>4. Sending(cl.job)
  BY <1>2, <1>3, ExchangeSends
<1> QED
  BY <1>2, <1>4, SendingEffect

(* A call in hand is over. *)
LEMMA FinishEffect ==
  ASSUME Base, cl.stage # "idle", NEW a \in Answers, Finish(cl.job, a), UNCHANGED <<withdrawn, head>>, slips \subseteq slips'
  PROVE  Effect
BY FinishSends, HandIs, SendingEffect

LEMMA ResetTimerEffect == ASSUME Base, ResetTimer PROVE Effect
<1>1. UNCHANGED <<withdrawn, head, slips>> /\ DOMAIN cl = Fields
  BY FieldsAre DEF ResetTimer
<1>2. CASE cl.reset = 1 /\ ~cl.closed
  <2>1. PICK k : k = [cl EXCEPT !.reset = 2]
    OBVIOUS
  <2>2. cl' = k /\ k.job = cl.job /\ k.closed = cl.closed /\ SendUdp(ResetFrame) /\ call' = call
    BY <1>1, <1>2, <2>1 DEF ResetTimer, Fields
  <2>3. Sending(cl.job)
    BY <2>2, ResetFrameIs DEF Sending
  <2> QED
    BY <1>1, <2>2, <2>3, SendingEffect
<1>3. CASE ~(cl.reset = 1 /\ ~cl.closed)
  <2>1. PICK k : k = [cl EXCEPT !.reset = 0, !.renewing = NoJob]
    OBVIOUS
  <2>2. DOMAIN k = Fields /\ k.closed = cl.closed /\ k.job = cl.job /\ UNCHANGED toCam
    BY <1>1, <1>3, <2>1 DEF ResetTimer, Fields
  <2>3. CASE cl.stage = "reset" \/ (cl.renewing # NoJob /\ cl.renewing = Current)
    <3>1. PICK a \in Answers : a = IF cl.closed THEN "network" ELSE "timeout"
      BY DEF Answers
    <3>2. PICK kk : kk = [k EXCEPT !.job = NoJob, !.stage = "idle"]
      OBVIOUS
    <3>3. cl' = kk /\ Answered(cl.job, a)
      BY <1>3, <2>1, <2>3, <3>1, <3>2 DEF ResetTimer
    <3>4. kk.job = NoJob /\ kk.closed = cl.closed
      BY <2>2, <3>2 DEF Fields
    <3>5. Sending(NoJob)
      BY <2>2, <3>3, <3>4, PlainSends
    <3>6. cl.job \in Calls
      BY <2>3, HandIs DEF Current
    <3> QED
      BY <1>1, <3>3, <3>5, <3>6, SendingEffect
  <2>4. CASE ~(cl.stage = "reset" \/ (cl.renewing # NoJob /\ cl.renewing = Current))
    <3>1. cl' = k /\ call' = call
      BY <1>3, <2>1, <2>4 DEF ResetTimer
    <3>2. Sending(cl.job)
      BY <2>2, <3>1, PlainSends
    <3> QED
      BY <1>1, <3>1, <3>2, SendingEffect
  <2> QED
    BY <2>3, <2>4
<1> QED
  BY <1>2, <1>3

(* A message in hand goes out again as it was. *)
LEMMA CopyEffect ==
  ASSUME Base, cl.stage = "reply", cl' = [cl EXCEPT !.copies = 2], SendUdp(Message(cl.job, cl.mine)), call' = call,
         UNCHANGED <<withdrawn, head>>, slips \subseteq slips'
  PROVE  Effect
<1>1. cl'.job = cl.job /\ cl'.closed = cl.closed
  BY FieldsAre DEF Fields
<1>2. Message(cl.job, cl.mine) \in Sent /\ Message(cl.job, cl.mine).job = cl.job
  BY FieldsAre DEF Message, Sent
<1>3. Sending(cl.job)
  BY <1>1, <1>2 DEF Sending
<1> QED
  BY <1>3, SendingEffect

LEMMA AttemptTimerEffect == ASSUME Base, AttemptTimer PROVE Effect
<1>1. UNCHANGED <<withdrawn, head, slips>> /\ cl.stage = "reply" /\ Current = cl.job
  BY DEF AttemptTimer, Current
<1>2. CASE Finish(cl.job, "superseded") \/ Finish(cl.job, "timeout")
  BY <1>1, <1>2, FinishEffect DEF Answers
<1>3. CASE cl' = [cl EXCEPT !.copies = 2] /\ SendUdp(Message(cl.job, cl.mine)) /\ UNCHANGED call
  BY <1>1, <1>3, CopyEffect
<1> QED
  BY <1>1, <1>2, <1>3 DEF AttemptTimer

LEMMA UdpErrorEffect == ASSUME Base, UdpError PROVE Effect
<1>1. UNCHANGED <<withdrawn, head, slips>> /\ cl.stage = "reply" /\ Finish(cl.job, "network")
  BY DEF UdpError, Current
<1> QED
  BY <1>1, FinishEffect DEF Answers

LEMMA ResetAnsweredEffect ==
  ASSUME Base, NEW m, ResetAnswered(m), UNCHANGED <<withdrawn, head>>, slips \subseteq slips'
  PROVE  Effect
<1>1. call' = call /\ DOMAIN cl = Fields /\ cl.job \in Nat
  BY FieldsAre DEF ResetAnswered
<1>2. PICK none \in Nat : none = 0
  OBVIOUS
<1>3. PICK k : k = [cl EXCEPT !.reset = none, !.renewing = NoJob, !.seq = none, !.needReset = FALSE]
  OBVIOUS
<1>4. DOMAIN k = Fields /\ k.closed = cl.closed /\ k.seq \in Nat /\ k.job = cl.job
  BY <1>1, <1>2, <1>3 DEF Fields
<1>5. CASE cl' = cl /\ toCam' = toCam
  <2>1. Sending(cl.job)
    BY <1>5, PlainSends
  <2> QED
    BY <1>1, <2>1, SendingEffect
<1>6. CASE Transmit(cl.job, k)
  <2>1. Sending(cl.job)
    BY <1>1, <1>4, <1>6, TransmitSends
  <2> QED
    BY <1>1, <2>1, SendingEffect
<1>7. CASE cl' = k /\ UNCHANGED toCam
  <2>1. Sending(cl.job)
    BY <1>4, <1>7, PlainSends
  <2> QED
    BY <1>1, <2>1, SendingEffect
<1> QED
  BY <1>2, <1>3, <1>5, <1>6, <1>7 DEF ResetAnswered

LEMMA SequenceErrorEffect ==
  ASSUME Base, NEW m, SequenceError(m), UNCHANGED <<withdrawn, head>>, slips \subseteq slips'
  PROVE  Effect
<1>1. CASE call' = call /\ cl' = cl /\ toCam' = toCam
  <2>1. Sending(cl.job)
    BY <1>1, PlainSends
  <2> QED
    BY <1>1, <2>1, SendingEffect
<1>2. CASE ~(call' = call /\ cl' = cl /\ toCam' = toCam)
  <2>1. cl.stage = "reply" /\ Current = cl.job /\ DOMAIN cl = Fields /\ cl.job \in Nat /\ cl.seq \in Nat
    BY <1>2, FieldsAre DEF SequenceError, Current
  <2>2. CASE Finish(cl.job, "assumed") \/ Finish(cl.job, "refused")
    BY <2>1, <2>2, FinishEffect DEF Answers
  <2>3. CASE Transmit(cl.job, [cl EXCEPT !.renewed = TRUE]) /\ UNCHANGED call
    <3>1. PICK k : k = [cl EXCEPT !.renewed = TRUE]
      OBVIOUS
    <3>2. DOMAIN k = Fields /\ k.closed = cl.closed /\ k.seq \in Nat /\ Transmit(cl.job, k)
      BY <2>1, <2>3, <3>1 DEF Fields
    <3>3. Sending(cl.job)
      BY <2>1, <3>2, TransmitSends
    <3> QED
      BY <2>3, <3>3, SendingEffect
  <2>4. CASE StartReset([cl EXCEPT !.renewed = TRUE, !.needReset = TRUE, !.renewing = cl.job]) /\ UNCHANGED call
    <3>1. PICK k : k = [cl EXCEPT !.renewed = TRUE, !.needReset = TRUE, !.renewing = cl.job]
      OBVIOUS
    <3>2. DOMAIN k = Fields /\ k.closed = cl.closed /\ k.job = cl.job /\ StartReset(k)
      BY <2>1, <2>4, <3>1 DEF Fields
    <3>3. Sending(cl.job)
      BY <3>2, StartResetSends
    <3> QED
      BY <2>4, <3>3, SendingEffect
  <2> QED
    BY <1>2, <2>1, <2>2, <2>3, <2>4 DEF SequenceError
<1> QED
  BY <1>1, <1>2

LEMMA ReplyEffect ==
  ASSUME Base, NEW m, Reply(m), UNCHANGED <<withdrawn, head>>, slips \subseteq slips'
  PROVE  Effect
<1>0. DOMAIN cl = Fields
  BY FieldsAre
<1>1. CASE \E b, g : cl' = [cl EXCEPT !.buffers = b, !.stage = g] /\ call' = call /\ toCam' = toCam
  <2>1. PICK b, g : cl' = [cl EXCEPT !.buffers = b, !.stage = g]
    BY <1>1
  <2>2. cl'.job = cl.job /\ cl'.closed = cl.closed
    BY <1>0, <2>1 DEF Fields
  <2>3. Sending(cl.job)
    BY <1>1, <2>2, ResetFrameIs DEF Sending
  <2> QED
    BY <1>1, <2>3, SendingEffect
<1>2. CASE /\ cl.stage = "reply"
           /\ \/ Finish(cl.job, "refused") \/ Finish(cl.job, "superseded")
              \/ /\ Answered(cl.job, "ok") /\ UNCHANGED toCam
                 /\ \E b : cl' = [cl EXCEPT !.job = NoJob, !.stage = "idle", !.buffers = b]
  <2>1. CASE Finish(cl.job, "refused") \/ Finish(cl.job, "superseded")
    BY <1>2, <2>1, FinishEffect DEF Answers
  <2>2. CASE /\ Answered(cl.job, "ok") /\ UNCHANGED toCam
             /\ \E b : cl' = [cl EXCEPT !.job = NoJob, !.stage = "idle", !.buffers = b]
    <3>1. PICK b : cl' = [cl EXCEPT !.job = NoJob, !.stage = "idle", !.buffers = b]
      BY <2>2
    <3>2. cl'.job = NoJob /\ cl'.closed = cl.closed
      BY <1>0, <3>1 DEF Fields
    <3>3. Sending(NoJob)
      BY <2>2, <3>2, ResetFrameIs DEF Sending
    <3> QED
      BY <1>2, <2>2, <3>3, HandIs, SendingEffect DEF Answers
  <2> QED
    BY <1>2, <2>1, <2>2
<1>3. \E b, g : cl = [cl EXCEPT !.buffers = b, !.stage = g]
  <2>1. cl = [cl EXCEPT !.buffers = cl.buffers, !.stage = cl.stage]
    BY DEF Base, ClientType
  <2> QED
    BY <2>1
<1> QED
  <2>1. Matches(m) => Current = cl.job /\ cl.stage = "reply"
    BY DEF Matches, Current
  <2>2. CASE Matches(m) /\ m.kind \in {"ack", "completion"} /\ Command(Current)
    BY <1>2, <2>1, <2>2 DEF Reply
  <2>3. CASE Matches(m) /\ m.kind = "reply"
    BY <1>2, <2>1, <2>3 DEF Reply
  <2>4. CASE Matches(m) /\ m.kind = "refused"
    BY <1>2, <2>1, <2>4 DEF Reply
  <2>5. CASE Matches(m) /\ m.kind = "full"
    <3>1. CASE cl' = [cl EXCEPT !.stage = "full"] /\ UNCHANGED <<call, toCam>>
      <4>1. [cl EXCEPT !.stage = "full"] = [cl EXCEPT !.buffers = cl.buffers, !.stage = "full"]
        BY DEF Base, ClientType
      <4> QED
        BY <1>1, <3>1, <4>1
    <3> QED
      BY <1>2, <2>1, <2>5, <3>1 DEF Reply
  <2>6. CASE ~Matches(m) /\ m.kind = "completion"
    <3>1. cl' = [cl EXCEPT !.buffers = @ \ {m.seq}] /\ UNCHANGED <<call, toCam>>
      BY <2>6 DEF Reply
    <3>2. [cl EXCEPT !.buffers = @ \ {m.seq}] = [cl EXCEPT !.buffers = cl.buffers \ {m.seq}, !.stage = cl.stage]
      BY DEF Base, ClientType
    <3> QED
      BY <1>1, <3>1, <3>2
  <2>7. CASE \/ m.kind \in {"reply", "refused", "full", "ack"} /\ ~Matches(m)
             \/ m.kind \in {"ack", "completion"} /\ Matches(m) /\ ~Command(Current)
    <3>1. cl' = cl /\ call' = call /\ toCam' = toCam
      BY <2>7 DEF Reply
    <3> QED
      BY <1>1, <1>3, <3>1
  <2> QED
    BY <2>2, <2>3, <2>4, <2>5, <2>6, <2>7 DEF Reply

LEMMA DatagramEffect == ASSUME Base, NEW i, Datagram(i) PROVE Effect
<1>1. UNCHANGED <<withdrawn, head>> /\ slips \subseteq slips'
  BY DEF Datagram
<1> QED
  BY <1>1, ResetAnsweredEffect, SequenceErrorEffect, ReplyEffect DEF Datagram

-----------------------------------------------------------------------------
(* What the steps of the client and of the world do to the driver's half. *)

LEMMA NoOpIs == NoOp.what = "none" /\ NoOp.at = "none" /\ NoOp.call = NoJob /\ NoOp.failed = FALSE
BY DEF NoOp

(* The driver is where it was, and calls are at most answered. *)
LEMMA DriverStays ==
  ASSUME DriverOk, UNCHANGED <<driverVars, withdrawn>>, cl'.closed = cl.closed, Calls' = Calls,
         \A c \in Calls : call'[c].kind = call[c].kind /\ (call'[c].answer = "none" => call[c].answer = "none")
  PROVE  DriverOk'
<1>1. /\ op' = op /\ up' = up /\ lost' = lost /\ restop' = restop /\ resend' = resend /\ last' = last /\ cut' = cut
      /\ withdrawn' = withdrawn /\ probing' = probing
  BY DEF driverVars
<1>2. /\ op \in [what : {"none", "move", "stop"}, at : {"none", "visca", "cgi", "ran"}, call : Nat, failed : BOOLEAN]
      /\ op.what = "none" <=> op = NoOp
      /\ op.at = "visca" => op.call \in Calls /\ call'[op.call].kind = op.what
      /\ last \in [what : {"none", "move", "stop"}, ok : BOOLEAN]
      /\ resend # NoJob => restop /\ resend \in Calls /\ call'[resend].kind = "restop"
  BY DEF DriverOk
<1>3. \A c \in Calls : call'[c].answer = "none" =>
        /\ call'[c].kind \in {"move", "stop"} => op.at = "visca" /\ c = op.call
        /\ call'[c].kind = "restop" => c = resend \/ c \in withdrawn
  BY DEF DriverOk
<1>4. /\ restop => ~cl.closed /\ (op.what = "stop" \/ (op = NoOp /\ last.what = "stop"))
      /\ up \in BOOLEAN /\ lost \in BOOLEAN /\ restop \in BOOLEAN /\ cut \in BOOLEAN
      /\ ~up /\ ~lost => cl.closed \/ Calls = {}
      /\ probing \in Calls \cup {NoJob}
      /\ Calls = {} => ~lost /\ ~restop /\ ~op.failed
  BY DEF DriverOk
<1> QED
  BY <1>1, <1>2, <1>3, <1>4 DEF DriverOk

(* Which calls are still unanswered while the driver drives or stops. *)
LEMMA OpenIs ==
  ASSUME DriverOk, NEW c \in Calls, call[c].answer = "none"
  PROVE  /\ call[c].kind = "move" => op.what = "move"
         /\ Driven /\ IsStop(c) => c \in withdrawn
<1>1. /\ call[c].kind \in {"move", "stop"} => op.at = "visca" /\ c = op.call /\ call[op.call].kind = op.what
      /\ call[c].kind = "restop" => c = resend \/ c \in withdrawn
  BY DEF DriverOk
<1>2. resend # NoJob => restop /\ resend \in Calls
  BY DEF DriverOk
<1>3. Driven => ~restop /\ op.what # "stop"
  BY NoOpIs DEF DriverOk, Driven
<1>4. ASSUME Driven, call[c].kind = "restop", c = resend PROVE FALSE
  <2>1. resend # NoJob
    BY <1>4 DEF Calls, NoJob
  <2> QED
    BY <1>2, <1>3, <1>4, <2>1
<1> QED
  BY <1>1, <1>3, <1>4 DEF IsStop

LEMMA StoppingIs ==
  ASSUME DriverOk, NEW c \in Stopping
  PROVE  c \in Calls /\ IsStop(c) /\ op.what # "move"
<1>1. c \in Calls /\ (c = resend \/ (op.what = "stop" /\ op.at = "visca" /\ c = op.call))
  BY DEF Stopping
<1>2. CASE c = resend
  <2>1. resend # NoJob
    BY <1>1, <1>2 DEF Calls, NoJob
  <2> QED
    BY <1>1, <1>2, <2>1, NoOpIs DEF DriverOk, IsStop
<1>3. CASE op.what = "stop" /\ op.at = "visca" /\ c = op.call
  BY <1>1, <1>3 DEF DriverOk, IsStop
<1> QED
  BY <1>1, <1>2, <1>3

LEMMA LastEffect ==
  ASSUME Base, Base', DriverOk, LastInv, Effect, UNCHANGED driverVars
  PROVE  DriverOk' /\ LastInv'
<1>1. DriverOk'
  BY DriverStays DEF Effect
<1> SUFFICES ASSUME Undisturbed' PROVE LastInv'
  BY <1>1 DEF LastInv
<1>2. /\ \A c \in Stopping : Behind(c)
      /\ CgiOnly => NoMoves /\ (op.at = "ran" => ~moving)
      /\ Done => restop \/ cl.closed \/ Calm
      /\ Driven => /\ NoStops
                   /\ op.what = "move" /\ op.at = "visca" /\ call[op.call].ran > 0 => moving
                   /\ op.what = "move" /\ op.at = "ran" => moving
                   /\ op = NoOp /\ last.ok => moving
  BY DEF LastInv, Undisturbed, Effect
<1>3. /\ op' = op /\ lost' = lost /\ restop' = restop /\ resend' = resend /\ last' = last /\ cut' = cut
      /\ withdrawn' = withdrawn /\ seen' = seen /\ moving' = moving /\ Calls' = Calls /\ cl'.closed = cl.closed
      /\ \A c \in Calls : call'[c].kind = call[c].kind /\ call'[c].ran = call[c].ran
                          /\ (call'[c].answer = "none" => call[c].answer = "none")
  BY DEF Effect, driverVars
<1>4. PICK f \in Sent :
        /\ f.kind = "message" => f.job = cl'.job
        /\ \A k \in DOMAIN toCam' : toCam'[k] = f \/ toCam'[k] \in ToHead
        /\ \A i, k \in DOMAIN toCam' : i < k =>
             toCam'[k] = f \/ \E j, l \in DOMAIN toCam : j < l /\ toCam'[i] = toCam[j] /\ toCam'[k] = toCam[l]
  BY DEF Effect, Sends
<1>5. /\ \A k \in DOMAIN toCam' : toCam'[k] \in ToHead'
      /\ \A m \in ToHead' : m = f \/ m \in ToHead
      /\ \A m \in ToHead' : m.kind = "message" => m.job \in Calls
      /\ \A m \in ToHead' : m.kind # "message" => m.job = NoJob
      /\ \A m \in ToHead : m.kind = "message" => m.job \in Calls
      /\ \A k \in DOMAIN toCam : toCam[k] \in ToHead
  <2>1. /\ \A k \in DOMAIN toCam' : toCam'[k] \in ToHead'
        /\ \A m \in ToHead' : m = f \/ m \in ToHead
    BY <1>4 DEF ToHead, Range
  <2>2. /\ \A m \in ToHead' : m.kind = "message" => m.job \in Calls
        /\ \A m \in ToHead' : m.kind # "message" => m.job = NoJob
    <3>1. toCam' \in Seq(Sent) /\ \A m \in ToHead' : IF m.kind = "reset" THEN m.job = NoJob /\ m.seq = 0 ELSE m.job \in Calls
      BY <1>3 DEF Base, NetType
    <3>2. \A m \in ToHead' : m \in Sent
      BY <3>1, LengthIs DEF ToHead, Range
    <3> QED
      BY <3>1, <3>2 DEF Sent
  <2> QED
    BY <2>1, <2>2, ItemsAre DEF Base
<1>6. cl'.job \in Calls => call[cl'.job].answer = "none" /\ cl'.job # NoJob
  BY <1>3 DEF Base, PumpOk, Calls, NoJob
<1>7. ASSUME op.what # "move", NEW m \in ToHead', IsMove(m)'
      PROVE  m \in ToHead /\ IsMove(m) /\ (m = f => FALSE)
  <2>1. m.kind = "message" /\ m.job \in Calls /\ call[m.job].kind = "move"
    BY <1>3, <1>5, <1>7 DEF IsMove
  <2>2. m # f
    BY <1>4, <1>6, <1>7, <2>1, OpenIs
  <2> QED
    BY <1>5, <2>1, <2>2 DEF IsMove
<1>8. op.what # "move" => (NoMoves => NoMoves') /\ (Calm => Calm')
  BY <1>3, <1>7 DEF NoMoves, Calm
<1>9. ASSUME NEW c \in Stopping' PROVE Behind(c)'
  <2>1. c \in Stopping /\ c \in Calls /\ op.what # "move" /\ Behind(c)
    BY <1>2, <1>3, StoppingIs DEF Stopping
  <2>2. ASSUME NEW i \in DOMAIN toCam', NEW k \in DOMAIN toCam', i < k, toCam'[i].job = c, IsMove(toCam[k])'
        PROVE  FALSE
    <3>1. PICK m : m = toCam'[k]
      OBVIOUS
    <3>2. m \in ToHead' /\ IsMove(m)'
      BY <1>5, <2>2, <3>1 DEF IsMove
    <3>3. IsMove(m) /\ m # f
      BY <1>7, <2>1, <3>2
    <3>4. PICK j \in DOMAIN toCam, l \in DOMAIN toCam : j < l /\ toCam'[i] = toCam[j] /\ m = toCam[l]
      BY <1>4, <2>2, <3>1, <3>3
    <3> QED
      BY <2>1, <2>2, <3>3, <3>4 DEF Behind
  <2>3. call'[c].ran > 0 => Calm'
    BY <1>3, <1>8, <2>1 DEF Behind
  <2> QED
    BY <2>2, <2>3 DEF Behind
<1>10. CgiOnly' => NoMoves' /\ (op'.at = "ran" => ~moving')
  BY <1>2, <1>3, <1>8 DEF CgiOnly
<1>11. Done' => restop' \/ cl'.closed \/ Calm'
  BY <1>2, <1>3, <1>8, NoOpIs DEF Done
<1>12. ASSUME Driven PROVE NoStops'
  <2> SUFFICES ASSUME NEW c \in Calls, IsStop(c) PROVE c # cl'.job /\ \A m \in ToHead' : m.job # c
    BY <1>3 DEF NoStops, IsStop
  <2>1. c # cl.job /\ (\A m \in ToHead : m.job # c) /\ c # NoJob
    BY <1>2, <1>12 DEF NoStops, Calls, NoJob
  <2>2. c # cl'.job
    BY <1>6, <1>12, <2>1, OpenIs DEF Effect
  <2>3. ASSUME NEW m \in ToHead' PROVE m.job # c
    BY <1>4, <1>5, <2>1, <2>2
  <2> QED
    BY <2>2, <2>3
<1>13. Driven' => /\ op'.what = "move" /\ op'.at = "visca" /\ call'[op'.call].ran > 0 => moving'
                  /\ op'.what = "move" /\ op'.at = "ran" => moving'
                  /\ op' = NoOp /\ last'.ok => moving'
  <2>1. op.at = "visca" => op.call \in Calls
    BY DEF DriverOk
  <2> QED
    BY <1>2, <1>3, <2>1 DEF Driven
<1>14. Driven' => NoStops'
  BY <1>3, <1>12 DEF Driven
<1> QED
  BY <1>9, <1>10, <1>11, <1>13, <1>14 DEF LastInv

(* The head takes the first message on its way. *)
LEMMA LastTakes ==
  ASSUME Base, Base', DriverOk, DriverOk', LastInv, UNCHANGED driverVars,
         1 \in DOMAIN toCam, toCam' = RemoveAt(toCam, 1), NEW m, m = toCam[1], m.kind = "message", m.seq \notin seen,
         seen' = seen \cup {m.seq}, cl' = cl, slips \subseteq slips',
         \/ call' = call /\ moving' = moving
         \/ /\ call' = [call EXCEPT ![m.job].ran = @ + 1]
            /\ moving' = IF Command(m.job) THEN call[m.job].kind = "move" ELSE moving
  PROVE  LastInv'
<1> SUFFICES ASSUME Undisturbed' PROVE LastInv'
  BY DEF LastInv
<1>1. /\ \A c \in Stopping : Behind(c)
      /\ CgiOnly => NoMoves /\ (op.at = "ran" => ~moving)
      /\ Done => restop \/ cl.closed \/ Calm
      /\ Driven => /\ NoStops
                   /\ op.what = "move" /\ op.at = "visca" /\ call[op.call].ran > 0 => moving
                   /\ op.what = "move" /\ op.at = "ran" => moving
                   /\ op = NoOp /\ last.ok => moving
  BY DEF LastInv, Undisturbed
<1>2. /\ op' = op /\ lost' = lost /\ restop' = restop /\ resend' = resend /\ last' = last /\ cut' = cut
  BY DEF driverVars
<1>3. PICK c \in Calls : c = m.job
  BY ItemsAre DEF Base
<1>4. /\ Calls' = Calls /\ \A d \in Calls : call'[d].kind = call[d].kind /\ call[d] \in [kind : Kinds, answer : Answers, ran : Nat]
      /\ \A d \in Calls : d # c => call'[d].ran = call[d].ran
  <2>1. CASE call' = call
    BY <2>1, CallsAre DEF Base, Calls
  <2>2. CASE call' = [call EXCEPT ![m.job].ran = @ + 1]
    BY <1>3, <2>2, RunIs, CallsAre DEF Base
  <2> QED
    BY <2>1, <2>2
<1>5. /\ \A k \in DOMAIN toCam' : k \in Nat /\ k + 1 \in DOMAIN toCam /\ toCam'[k] = toCam[k + 1] /\ 1 < k + 1
      /\ ToHead' \subseteq ToHead /\ m \in ToHead /\ m.job \in Calls
  <2>1. toCam \in Seq(Sent) /\ Len(toCam) \in Nat /\ DOMAIN toCam = 1..Len(toCam)
    BY LengthIs DEF Base, NetType
  <2>2. /\ DOMAIN toCam' = 1..(Len(toCam) - 1)
        /\ \A k \in 1..(Len(toCam) - 1) : toCam'[k] = IF k < 1 THEN toCam[k] ELSE toCam[k + 1]
    BY <2>1, RemoveAtIs
  <2>3. \A k \in DOMAIN toCam' : k \in Nat /\ k + 1 \in DOMAIN toCam /\ toCam'[k] = toCam[k + 1] /\ 1 < k + 1
    BY <2>1, <2>2
  <2>4. ToHead' \subseteq ToHead /\ m \in ToHead
    BY ArrivesIs DEF Base
  <2> QED
    BY <1>3, <2>3, <2>4
<1>6. \A n \in ToHead : (n.kind = "message" => n.job \in Calls) /\ (IsMove(n)' <=> IsMove(n))
  <2>1. \A n \in ToHead : n.kind = "message" => n.job \in Calls
    BY ItemsAre DEF Base
  <2> QED
    BY <1>4, <2>1 DEF IsMove
<1>7. NoMoves => NoMoves'
  BY <1>5, <1>6 DEF NoMoves
<1>8. NoMoves => call[c].kind # "move"
  BY <1>3, <1>5 DEF NoMoves, IsMove
<1>9. NoMoves /\ ~moving => Calm'
  BY <1>3, <1>7, <1>8 DEF Calm
<1>10. ASSUME NEW d \in Stopping' PROVE Behind(d)'
  <2>1. d \in Stopping /\ d \in Calls /\ IsStop(d) /\ Behind(d)
    BY <1>1, <1>2, <1>4, StoppingIs DEF Stopping
  <2>2. ASSUME NEW i \in DOMAIN toCam', NEW k \in DOMAIN toCam', i < k, toCam'[i].job = d, IsMove(toCam[k])'
        PROVE  FALSE
    <3>1. PICK n : n = toCam'[k]
      OBVIOUS
    <3>2. n \in ToHead /\ IsMove(n)'
      BY <1>5, <2>2, <3>1 DEF IsMove, ToHead, Range
    <3>3. IsMove(n)
      BY <1>6, <3>2
    <3>4. PICK j \in DOMAIN toCam, l \in DOMAIN toCam : j < l /\ toCam[j].job = d /\ n = toCam[l]
      BY <1>5, <2>2, <3>1
    <3> QED
      BY <2>1, <3>3, <3>4 DEF Behind
  <2>3. ASSUME call'[d].ran > 0 PROVE Calm'
    <3>1. CASE call[d].ran > 0
      BY <1>9, <2>1, <3>1 DEF Behind, Calm
    <3>2. CASE ~(call[d].ran > 0)
      <4>1. d = c /\ call' # call
        BY <1>4, <2>1, <2>3, <3>2
      <4>2. ~moving'
        BY <1>3, <2>1, <4>1 DEF IsStop, Command
      <4>3. ASSUME NEW n \in ToHead', IsMove(n)' PROVE FALSE
        <5>1. PICK k \in DOMAIN toCam' : n = toCam'[k]
          BY DEF ToHead, Range
        <5>2. n = toCam[k + 1] /\ k + 1 \in DOMAIN toCam /\ 1 < k + 1 /\ toCam[1].job = d
          BY <1>3, <1>5, <4>1, <5>1
        <5>3. IsMove(n)
          BY <1>5, <1>6, <4>3
        <5> QED
          BY <2>1, <5>2, <5>3 DEF Behind
      <4> QED
        BY <4>2, <4>3 DEF Calm, NoMoves
    <3> QED
      BY <3>1, <3>2
  <2> QED
    BY <2>2, <2>3 DEF Behind
<1>11. CgiOnly' => NoMoves' /\ (op'.at = "ran" => ~moving')
  BY <1>1, <1>2, <1>7, <1>9 DEF CgiOnly, Calm
<1>12. Done' => restop' \/ cl'.closed \/ Calm'
  BY <1>1, <1>2, <1>9 DEF Done, Calm
<1>13. Driven => NoStops /\ NoStops'
  BY <1>1, <1>4, <1>5 DEF NoStops, IsStop
<1>14. Driven => (moving => moving') /\ (call' # call /\ call[c].kind = "move" => moving')
  <2>1. Driven => call[c].kind \in {"move", "probe"}
    <3>1. Driven => ~IsStop(c)
      BY <1>3, <1>5, <1>13 DEF NoStops
    <3> QED
      BY <1>4, <3>1 DEF IsStop, Kinds
  <2> QED
    BY <1>3, <2>1 DEF Command
<1>15. Driven /\ op.what = "move" /\ op.at = "visca" /\ call'[op.call].ran > 0 => moving'
  <2> SUFFICES ASSUME Driven, op.what = "move", op.at = "visca", call'[op.call].ran > 0 PROVE moving'
    OBVIOUS
  <2>1. op.call \in Calls /\ call[op.call].kind = "move"
    BY DEF DriverOk
  <2>2. CASE call[op.call].ran > 0
    BY <1>1, <1>14, <2>2
  <2>3. CASE ~(call[op.call].ran > 0)
    BY <1>4, <1>14, <2>1, <2>3
  <2> QED
    BY <2>2, <2>3
<1>16. Driven' => Driven
  BY <1>2 DEF Driven
<1>17. Driven' => /\ NoStops'
                  /\ op'.what = "move" /\ op'.at = "visca" /\ call'[op'.call].ran > 0 => moving'
                  /\ op'.what = "move" /\ op'.at = "ran" => moving'
                  /\ op' = NoOp /\ last'.ok => moving'
  BY <1>1, <1>2, <1>13, <1>14, <1>15, <1>16
<1> QED
  BY <1>10, <1>11, <1>12, <1>17 DEF LastInv

LEMMA LastReceives ==
  ASSUME Base, Base', DriverOk, LastInv, NEW i \in DOMAIN toCam, HeadReceives(i), UNCHANGED driverVars
  PROVE  DriverOk' /\ LastInv'
<1>1. PICK m : m = toCam[i]
  OBVIOUS
<1>2. /\ toCam' = RemoveAt(toCam, i) /\ cl' = cl /\ withdrawn' = withdrawn /\ NetType /\ CallType
      /\ m \in ToHead /\ (m.kind = "message" => m.job \in Calls)
  BY <1>1, ItemsAre DEF HeadReceives, Base
<1>3. DriverOk'
  <2>1. CASE call' = call
    BY <1>2, <2>1, DriverStays DEF Calls
  <2>2. CASE m.kind = "message" /\ call' = [call EXCEPT ![m.job].ran = @ + 1]
    BY <1>2, <2>2, RunIs, DriverStays
  <2> QED
    BY <1>1, <2>1, <2>2 DEF HeadReceives
<1> SUFFICES ASSUME Undisturbed' PROVE LastInv'
  BY <1>3 DEF LastInv
<1>4. slips' = {} /\ slips = {} /\ i = 1
  BY DEF Undisturbed, HeadReceives, Late
<1>5. CASE m.kind = "message" /\ m.seq \notin seen
  BY <1>1, <1>2, <1>3, <1>4, <1>5, LastTakes DEF HeadReceives
<1>6. CASE ~(m.kind = "message" /\ m.seq \notin seen)
  <2>1. call' = call /\ moving' = moving /\ seen' = seen
    BY <1>1, <1>4, <1>6 DEF HeadReceives, head, Wiped
  <2>2. Sends
    BY <1>2, RemoveAtThins, ThinsSends DEF NetType
  <2>3. Effect
    BY <1>2, <1>4, <2>1, <2>2 DEF Effect, Calls
  <2> QED
    BY <2>3, LastEffect
<1> QED
  BY <1>5, <1>6

LEMMA LastLoses ==
  ASSUME Base, Base', DriverOk, LastInv, LoseFromUs \/ LoseFromCam \/ Meddle, UNCHANGED driverVars
  PROVE  DriverOk' /\ LastInv'
<1>1. UNCHANGED client /\ slips \subseteq slips'
  BY DEF LoseFromUs, LoseFromCam, Meddle
<1>2. call' = call /\ cl' = cl /\ withdrawn' = withdrawn
  BY <1>1 DEF client
<1>3. CASE Meddle
  <2>1. slips' # {}
    BY <1>3 DEF Meddle
  <2>2. DriverOk'
    BY <1>2, DriverStays DEF Calls
  <2> QED
    BY <2>1, <2>2 DEF LastInv, Undisturbed
<1>4. CASE LoseFromUs \/ LoseFromCam
  <2>1. Thins(toCam, toCam') /\ seen' = seen /\ moving' = moving
    BY <1>4, TailThins, SameThins DEF LoseFromUs, LoseFromCam, Base, NetType, head
  <2>2. Effect
    BY <1>1, <1>2, <2>1, ThinsSends DEF Effect, Calls, Base
  <2> QED
    BY <2>2, LastEffect
<1> QED
  BY <1>3, <1>4

-----------------------------------------------------------------------------
(* The driver's own steps. *)

LEMMA BesideIs ==
  ASSUME UNCHANGED <<call, cl, net, seen>>
  PROVE  /\ Calls' = Calls /\ call' = call /\ cl' = cl /\ NoMoves' = NoMoves /\ NoStops' = NoStops
         /\ moving' = moving => Calm' = Calm /\ \A c : Behind(c)' = Behind(c)
<1>1. call' = call /\ cl' = cl /\ toCam' = toCam /\ seen' = seen /\ Calls' = Calls /\ ToHead' = ToHead
  BY DEF net, Calls, ToHead
<1>2. \A m : IsMove(m)' = IsMove(m)
  BY <1>1 DEF IsMove
<1>3. NoMoves' = NoMoves /\ NoStops' = NoStops
  BY <1>1, <1>2 DEF NoMoves, NoStops, IsStop
<1>4. moving' = moving => Calm' = Calm
  BY <1>3 DEF Calm
<1>5. ASSUME moving' = moving, NEW c PROVE Behind(c)' = Behind(c)
  <2>1. \A k \in DOMAIN toCam : IsMove(toCam[k])' = IsMove(toCam[k])
    BY <1>1 DEF IsMove
  <2> QED
    BY <1>1, <1>4, <1>5, <2>1 DEF Behind
<1> QED
  BY <1>1, <1>3, <1>4, <1>5

(* What the driver is told of its commands. *)
LEMMA ToldIs ==
  ASSUME Base, TrueInv, Undisturbed, NEW c \in Calls, Command(c), Answer(c) \in {"ok", "assumed"}
  PROVE  call[c].ran > 0
BY DEF TrueInv, Plain, Given, Undisturbed

(* The parts of LastInv, where nothing disturbed. *)
LEMMA LastIs ==
  ASSUME LastInv, Undisturbed
  PROVE  /\ \A c \in Stopping : Behind(c)
         /\ CgiOnly => NoMoves /\ (op.at = "ran" => ~moving)
         /\ Done => restop \/ cl.closed \/ Calm
         /\ Driven => /\ NoStops
                      /\ op.what = "move" /\ op.at = "visca" /\ call[op.call].ran > 0 => moving
                      /\ op.what = "move" /\ op.at = "ran" => moving
                      /\ op = NoOp /\ last.ok => moving
BY DEF LastInv

LEMMA DriverIs ==
  ASSUME DriverOk
  PROVE  /\ op \in [what : {"none", "move", "stop"}, at : {"none", "visca", "cgi", "ran"}, call : Nat, failed : BOOLEAN]
         /\ op.what = "none" <=> op = NoOp
         /\ op.at # "none" => op # NoOp /\ op.what \in {"move", "stop"}
         /\ op.at = "visca" => op.call \in Calls /\ call[op.call].kind = op.what
         /\ last \in [what : {"none", "move", "stop"}, ok : BOOLEAN]
         /\ resend # NoJob => restop /\ resend \in Calls /\ call[resend].kind = "restop"
         /\ restop => ~cl.closed /\ (op.what = "stop" \/ (op = NoOp /\ last.what = "stop"))
         /\ \A c \in Calls : call[c].answer = "none" =>
              /\ call[c].kind \in {"move", "stop"} => op.at = "visca" /\ c = op.call
              /\ call[c].kind = "restop" => c = resend \/ c \in withdrawn
         /\ up \in BOOLEAN /\ lost \in BOOLEAN /\ restop \in BOOLEAN /\ cut \in BOOLEAN
         /\ ~up /\ ~lost => cl.closed \/ Calls = {}
         /\ probing \in Calls \cup {NoJob}
         /\ Calls = {} => ~lost /\ ~restop /\ ~op.failed
         /\ NoJob \notin Calls
<1>1. NoJob \notin Calls
  BY DEF Calls, NoJob
<1>2. op.at # "none" => op # NoOp
  BY NoOpIs
<1>3. op.what = "none" <=> op = NoOp
  BY DEF DriverOk
<1>4. op.what \in {"none", "move", "stop"}
  BY DEF DriverOk
<1> QED
  BY <1>1, <1>2, <1>3, <1>4 DEF DriverOk

LEMMA MoveAnsweredKeeps ==
  ASSUME Base, TrueInv, DriverOk, LastInv, MoveAnswered
  PROVE  DriverOk' /\ LastInv'
<1>1. /\ op.what = "move" /\ op.at = "visca" /\ Answer(op.call) # "none" /\ op.call \in Calls
      /\ UNCHANGED <<call, cl, net, seen>> /\ moving' = moving /\ slips' = slips /\ withdrawn' = withdrawn
      /\ restop' = restop /\ resend' = resend /\ probing' = probing /\ cut' = cut
  BY DriverIs DEF MoveAnswered, viscaVars, net
<1>2. /\ Calls' = Calls /\ call' = call /\ cl' = cl /\ NoMoves' = NoMoves /\ NoStops' = NoStops /\ Calm' = Calm
      /\ \A c : Behind(c)' = Behind(c)
  BY <1>1, BesideIs
<1>3. ~restop /\ resend = NoJob
  BY <1>1, DriverIs, NoOpIs
<1>4. CASE LinkFailure(Answer(op.call))
  <2>1. op' = [op EXCEPT !.at = "cgi"] /\ up' = FALSE /\ lost' = (up \/ lost) /\ last' = last
    BY <1>1, <1>4 DEF MoveAnswered
  <2>2. /\ op' \in [what : {"none", "move", "stop"}, at : {"none", "visca", "cgi", "ran"}, call : Nat, failed : BOOLEAN]
        /\ op'.what = "move" /\ op'.at = "cgi" /\ op' # NoOp
    BY <1>1, <2>1, DriverIs, NoOpIs
  <2>3. DriverOk'
    <3>1. \A c \in Calls : call[c].answer = "none" =>
            /\ call[c].kind \notin {"move", "stop"}
            /\ call[c].kind = "restop" => c \in withdrawn
      BY <1>1, <1>3, DriverIs DEF Answer
    <3>2. ~up' /\ ~lost' => cl.closed \/ Calls = {}
      BY <2>1, DriverIs
    <3>3. lost' \in BOOLEAN /\ up' \in BOOLEAN
      BY <2>1, DriverIs
    <3> QED
      BY <1>1, <1>2, <1>3, <2>1, <2>2, <3>1, <3>2, <3>3, DriverIs DEF DriverOk
  <2>4. LastInv'
    <3> SUFFICES ASSUME Undisturbed' PROVE LastInv'
      BY DEF LastInv
    <3>1. Undisturbed
      BY <1>1 DEF Undisturbed
    <3>2. Stopping' = {}
      BY <1>1, <1>2, <1>3, <2>2, DriverIs DEF Stopping
    <3>3. ~CgiOnly' /\ ~Done'
      BY <2>2, NoOpIs DEF CgiOnly, Done
    <3>4. Driven' => Driven
      BY <1>1, <2>1, <2>2, NoOpIs DEF Driven
    <3> QED
      BY <1>2, <2>2, <3>1, <3>2, <3>3, <3>4, LastIs DEF LastInv
  <2> QED
    BY <2>3, <2>4
<1>5. CASE ~LinkFailure(Answer(op.call))
  <2>1. PICK ok \in BOOLEAN : ok = (Answer(op.call) \in {"ok", "assumed"})
    <3>1. (Answer(op.call) \in {"ok", "assumed"}) \in BOOLEAN
      OBVIOUS
    <3> QED
      BY <3>1, Zenon
  <2>2. op' = NoOp /\ last' = [what |-> "move", ok |-> ok] /\ up' = up /\ lost' = lost
    BY <1>1, <1>5, <2>1 DEF MoveAnswered, Over
  <2>3. /\ op' \in [what : {"none", "move", "stop"}, at : {"none", "visca", "cgi", "ran"}, call : Nat, failed : BOOLEAN]
        /\ op'.what = "none" /\ op'.at = "none" /\ op'.failed = FALSE
        /\ last' \in [what : {"none", "move", "stop"}, ok : BOOLEAN] /\ last'.what = "move" /\ last'.ok = ok
    BY <2>2 DEF NoOp, NoJob
  <2>4. DriverOk'
    <3>1. \A c \in Calls : call[c].answer = "none" =>
            /\ call[c].kind \notin {"move", "stop"}
            /\ call[c].kind = "restop" => c \in withdrawn
      BY <1>1, <1>3, DriverIs DEF Answer
    <3> QED
      BY <1>1, <1>2, <1>3, <2>2, <2>3, <3>1, DriverIs DEF DriverOk
  <2>5. LastInv'
    <3> SUFFICES ASSUME Undisturbed' PROVE LastInv'
      BY DEF LastInv
    <3>1. Undisturbed
      BY <1>1 DEF Undisturbed
    <3>2. Stopping' = {}
      BY <1>1, <1>2, <1>3, <2>3, DriverIs DEF Stopping
    <3>3. ~CgiOnly' /\ ~Done'
      BY <2>3 DEF CgiOnly, Done
    <3>4. Driven' => Driven
      BY <1>1 DEF Driven
    <3>5. ok => call[op.call].ran > 0
      <4>1. Command(op.call)
        BY <1>1, DriverIs DEF Command
      <4> QED
        BY <1>1, <2>1, <3>1, <4>1, ToldIs
    <3> QED
      BY <1>1, <1>2, <2>3, <3>1, <3>2, <3>3, <3>4, <3>5, LastIs DEF LastInv
  <2> QED
    BY <2>4, <2>5
<1> QED
  BY <1>4, <1>5

LEMMA CancelIs ==
  ASSUME Cancel
  PROVE  ~restop' /\ resend' = NoJob /\ withdrawn \subseteq withdrawn' /\ (resend # NoJob => resend \in withdrawn')
BY DEF Cancel

LEMMA ArmIs ==
  ASSUME Arm
  PROVE  restop' = TRUE /\ resend' = NoJob /\ withdrawn \subseteq withdrawn' /\ (resend # NoJob => resend \in withdrawn')
BY DEF Arm

LEMMA StopAnsweredKeeps ==
  ASSUME Base, TrueInv, DriverOk, LastInv, StopAnswered
  PROVE  DriverOk' /\ LastInv'
<1>1. /\ op.what = "stop" /\ op.at = "visca" /\ Answer(op.call) # "none" /\ op.call \in Calls
      /\ UNCHANGED <<call, cl, net, seen>> /\ moving' = moving /\ slips' = slips
      /\ probing' = probing /\ cut' = cut
  BY DriverIs DEF StopAnswered, head
<1>2. /\ Calls' = Calls /\ call' = call /\ cl' = cl /\ NoMoves' = NoMoves /\ NoStops' = NoStops /\ Calm' = Calm
      /\ \A c : Behind(c)' = Behind(c)
  BY <1>1, BesideIs
<1>3. \A c \in Calls : call[c].answer = "none" =>
        /\ call[c].kind \notin {"move", "stop"}
        /\ call[c].kind = "restop" => c = resend \/ c \in withdrawn
  BY <1>1, DriverIs DEF Answer
<1>4. CASE Answer(op.call) \in {"ok", "assumed"}
  <2>1. PICK t \in BOOLEAN : t = TRUE
    OBVIOUS
  <2>2. Cancel /\ op' = NoOp /\ last' = [what |-> "stop", ok |-> t] /\ up' = up /\ lost' = lost
    BY <1>1, <1>4, <2>1 DEF StopAnswered, Over
  <2>3. ~restop' /\ restop' \in BOOLEAN /\ resend' = NoJob /\ withdrawn \subseteq withdrawn' /\ (resend # NoJob => resend \in withdrawn')
    BY <2>2, CancelIs DEF Cancel
  <2>4. /\ op' \in [what : {"none", "move", "stop"}, at : {"none", "visca", "cgi", "ran"}, call : Nat, failed : BOOLEAN]
        /\ op'.what = "none" /\ op'.at = "none" /\ op'.failed = FALSE
        /\ last' \in [what : {"none", "move", "stop"}, ok : BOOLEAN] /\ last'.what = "stop"
    BY <2>2 DEF NoOp, NoJob
  <2>5. DriverOk'
    <3>1. \A c \in Calls : call[c].answer = "none" =>
            /\ call[c].kind \notin {"move", "stop"}
            /\ call[c].kind = "restop" => c \in withdrawn'
      BY <1>3, <2>3, DriverIs
    <3> QED
      BY <1>1, <1>2, <2>2, <2>3, <2>4, <3>1, DriverIs DEF DriverOk
  <2>6. LastInv'
    <3> SUFFICES ASSUME Undisturbed' PROVE LastInv'
      BY DEF LastInv
    <3>1. Undisturbed
      BY <1>1 DEF Undisturbed
    <3>2. Stopping' = {}
      BY <1>2, <2>3, <2>4, DriverIs DEF Stopping
    <3>3. ~CgiOnly' /\ ~Driven'
      BY <2>4 DEF CgiOnly, Driven
    <3>4. Calm
      <4>1. Command(op.call) /\ op.call \in Stopping
        BY <1>1, DriverIs DEF Command, Stopping
      <4>2. call[op.call].ran > 0
        BY <1>1, <1>4, <3>1, <4>1, ToldIs
      <4> QED
        BY <3>1, <4>1, <4>2, LastIs DEF Behind
    <3> QED
      BY <1>2, <3>2, <3>3, <3>4 DEF LastInv
  <2> QED
    BY <2>5, <2>6
<1>5. CASE Answer(op.call) \notin {"ok", "assumed"}
  <2>1. PICK t \in BOOLEAN : t = TRUE
    OBVIOUS
  <2>2. /\ op' = [op EXCEPT !.at = "cgi", !.failed = t]
        /\ \/ up' = FALSE /\ lost' = (up \/ lost)
           \/ up' = up /\ lost' = lost
        /\ restop' = restop /\ resend' = resend /\ withdrawn' = withdrawn /\ last' = last
    BY <1>5, <2>1 DEF StopAnswered
  <2>3. /\ op' \in [what : {"none", "move", "stop"}, at : {"none", "visca", "cgi", "ran"}, call : Nat, failed : BOOLEAN]
        /\ op'.what = "stop" /\ op'.at = "cgi" /\ op' # NoOp
    BY <1>1, <2>2, DriverIs, NoOpIs
  <2>4. op'.failed
    BY <1>1, <2>1, <2>2, DriverIs
  <2>5. DriverOk'
    <3>1. (~up' /\ ~lost' => cl.closed \/ Calls = {}) /\ lost' \in BOOLEAN /\ up' \in BOOLEAN
      <4>1. up \in BOOLEAN /\ lost \in BOOLEAN /\ (~up /\ ~lost => cl.closed \/ Calls = {})
        BY DriverIs
      <4>2. CASE up' = FALSE /\ lost' = (up \/ lost)
        BY <4>1, <4>2
      <4>3. CASE up' = up /\ lost' = lost
        BY <4>1, <4>3
      <4> QED
        BY <2>2, <4>2, <4>3
    <3>2. Calls # {}
      BY <1>1
    <3>3. /\ resend' # NoJob => restop' /\ resend' \in Calls /\ call[resend'].kind = "restop"
          /\ restop' => ~cl.closed
      BY <2>2, DriverIs
    <3>4. restop' \in BOOLEAN /\ cut' \in BOOLEAN /\ probing' \in Calls \cup {NoJob}
          /\ last' \in [what : {"none", "move", "stop"}, ok : BOOLEAN]
      BY <1>1, <2>2, DriverIs
    <3> QED
      BY <1>2, <1>3, <2>2, <2>3, <3>1, <3>2, <3>3, <3>4 DEF DriverOk
  <2>6. LastInv'
    <3> SUFFICES ASSUME Undisturbed' PROVE LastInv'
      BY DEF LastInv
    <3>1. Undisturbed
      BY <1>1 DEF Undisturbed
    <3>2. Stopping' \subseteq Stopping
      BY <1>2, <2>2, <2>3 DEF Stopping
    <3>3. ~CgiOnly' /\ ~Done' /\ ~Driven'
      BY <2>3, <2>4 DEF CgiOnly, Done, Driven
    <3> QED
      BY <1>2, <3>1, <3>2, <3>3, LastIs DEF LastInv
  <2> QED
    BY <2>5, <2>6
<1> QED
  BY <1>4, <1>5

LEMMA CgiRunsKeeps ==
  ASSUME Base, DriverOk, LastInv, CgiRuns
  PROVE  DriverOk' /\ LastInv'
<1>1. /\ op.at = "cgi" /\ UNCHANGED <<call, cl, net, seen>> /\ slips' = slips /\ withdrawn' = withdrawn
      /\ op' = [op EXCEPT !.at = "ran"] /\ last' = last
      /\ up' = up /\ lost' = lost /\ restop' = restop /\ resend' = resend /\ probing' = probing /\ cut' = cut
  BY DEF CgiRuns, client
<1>2. /\ Calls' = Calls /\ call' = call /\ cl' = cl /\ NoMoves' = NoMoves /\ NoStops' = NoStops
  BY <1>1, BesideIs
<1>3. (op.what = "move" => moving') /\ (op.what # "move" => ~moving')
  BY DEF CgiRuns
<1>4. /\ op' \in [what : {"none", "move", "stop"}, at : {"none", "visca", "cgi", "ran"}, call : Nat, failed : BOOLEAN]
      /\ op'.what = op.what /\ op'.at = "ran" /\ op' # NoOp /\ op'.failed = op.failed
      /\ op.what \in {"move", "stop"} /\ op # NoOp /\ op'.what # "none"
  BY <1>1, DriverIs, NoOpIs
<1>5. DriverOk'
  <2>1. \A c \in Calls : call[c].answer = "none" =>
          /\ call[c].kind \notin {"move", "stop"}
          /\ call[c].kind = "restop" => c = resend \/ c \in withdrawn
    BY <1>1, DriverIs
  <2> QED
    BY <1>1, <1>2, <1>4, <2>1, DriverIs DEF DriverOk
<1>6. LastInv'
  <2> SUFFICES ASSUME Undisturbed' PROVE LastInv'
    BY DEF LastInv
  <2>1. Undisturbed
    BY <1>1 DEF Undisturbed
  <2>2. ASSUME NEW c \in Stopping' PROVE Behind(c)'
    <3>1. c \in Stopping
      BY <1>1, <1>2, <1>4, <2>2 DEF Stopping
    <3>2. Behind(c) /\ ~moving'
      BY <1>3, <2>1, <3>1, LastIs, StoppingIs
    <3>3. \A k \in DOMAIN toCam : IsMove(toCam[k])' = IsMove(toCam[k])
      BY <1>1, <1>2 DEF IsMove, net
    <3>4. \A i, k \in DOMAIN toCam' : i < k /\ toCam'[i].job = c => ~IsMove(toCam[k])'
      BY <1>1, <3>2, <3>3 DEF Behind, net
    <3>5. call'[c].ran > 0 => Calm'
      BY <1>2, <3>2 DEF Behind, Calm
    <3> QED
      BY <3>4, <3>5 DEF Behind
  <2>3. CgiOnly' => NoMoves' /\ ~moving'
    BY <1>1, <1>2, <1>3, <1>4, <2>1, LastIs DEF CgiOnly
  <2>4. ~Done'
    BY <1>4 DEF Done
  <2>5. Driven' => NoStops' /\ moving'
    BY <1>1, <1>2, <1>3, <1>4, <2>1, LastIs DEF Driven
  <2> QED
    BY <1>4, <2>2, <2>3, <2>4, <2>5 DEF LastInv
<1> QED
  BY <1>5, <1>6

LEMMA CgiAnsweredKeeps ==
  ASSUME Base, DriverOk, LastInv, NEW ok \in BOOLEAN, CgiAnswered(ok)
  PROVE  DriverOk' /\ LastInv'
<1>1. /\ op.at \in {"cgi", "ran"} /\ (ok => op.at = "ran")
      /\ UNCHANGED <<call, cl, net, seen>> /\ moving' = moving /\ slips' = slips
      /\ op' = NoOp /\ last' = [what |-> op.what, ok |-> ok]
      /\ up' = up /\ lost' = lost /\ probing' = probing /\ cut' = cut
  BY DEF CgiAnswered, Over, head
<1>2. /\ Calls' = Calls /\ call' = call /\ cl' = cl /\ NoMoves' = NoMoves /\ NoStops' = NoStops /\ Calm' = Calm
      /\ \A c : Behind(c)' = Behind(c)
  BY <1>1, BesideIs
<1>3. op # NoOp /\ op.what \in {"move", "stop"} /\ (restop => op.what = "stop")
  BY <1>1, DriverIs, NoOpIs
<1>4. /\ op' \in [what : {"none", "move", "stop"}, at : {"none", "visca", "cgi", "ran"}, call : Nat, failed : BOOLEAN]
      /\ op'.what = "none" /\ op'.at = "none" /\ op'.failed = FALSE
      /\ last' \in [what : {"none", "move", "stop"}, ok : BOOLEAN] /\ last'.what = op.what /\ last'.ok = ok
  BY <1>1, <1>3 DEF NoOp, NoJob
<1>5. \A c \in Calls : call[c].answer = "none" =>
        /\ call[c].kind \notin {"move", "stop"}
        /\ call[c].kind = "restop" => c = resend \/ c \in withdrawn
  BY <1>1, DriverIs
<1>6. Undisturbed' => Undisturbed
  BY <1>1 DEF Undisturbed
<1>7. ~CgiOnly'
  BY <1>4 DEF CgiOnly
<1>8. CASE op.what = "stop" /\ (op.failed \/ lost) /\ ~cl.closed
  <2>1. restop' = TRUE /\ restop' /\ resend' = NoJob /\ withdrawn \subseteq withdrawn' /\ (resend # NoJob => resend \in withdrawn')
    BY <1>8, ArmIs DEF CgiAnswered
  <2>2. Calls # {}
    BY <1>8, DriverIs
  <2>3. DriverOk'
    <3>1. \A c \in Calls : call[c].answer = "none" =>
            /\ call[c].kind \notin {"move", "stop"}
            /\ call[c].kind = "restop" => c \in withdrawn'
      BY <1>5, <2>1, DriverIs
    <3> QED
      BY <1>1, <1>2, <1>4, <1>8, <2>1, <2>2, <3>1, DriverIs DEF DriverOk
  <2>4. Stopping' = {} /\ ~Driven'
    BY <1>2, <1>4, <1>8, <2>1, DriverIs DEF Stopping, Driven
  <2> QED
    BY <1>7, <2>1, <2>3, <2>4 DEF LastInv
<1>9. CASE ~(op.what = "stop" /\ (op.failed \/ lost) /\ ~cl.closed)
  <2>1. restop' = restop /\ resend' = resend /\ withdrawn' = withdrawn
    BY <1>9 DEF CgiAnswered
  <2>2. DriverOk'
    BY <1>1, <1>2, <1>3, <1>4, <1>5, <2>1, DriverIs DEF DriverOk
  <2>3. LastInv'
    <3> SUFFICES ASSUME Undisturbed' PROVE LastInv'
      BY DEF LastInv
    <3>1. \A c \in Stopping' : Behind(c)'
      <4>1. Stopping' \subseteq Stopping
        BY <1>2, <1>4, <2>1 DEF Stopping
      <4> QED
        BY <1>2, <1>6, <4>1, LastIs
    <3>2. Done' => cl'.closed \/ Calm'
      <4> SUFFICES ASSUME Done', ~cl.closed PROVE Calm
        BY <1>2
      <4>1. op.what = "stop" /\ ok /\ op.at = "ran"
        BY <1>1, <1>4 DEF Done
      <4>2. CgiOnly
        BY <1>9, <4>1 DEF CgiOnly
      <4> QED
        BY <1>6, <4>1, <4>2, LastIs DEF Calm
    <3>3. Driven' => NoStops' /\ (last'.ok => moving')
      BY <1>1, <1>2, <1>4, <1>6, LastIs DEF Driven
    <3> QED
      BY <1>4, <1>7, <3>1, <3>2, <3>3 DEF LastInv
  <2> QED
    BY <2>2, <2>3
<1> QED
  BY <1>8, <1>9

-----------------------------------------------------------------------------
(* The driver makes a call: nothing is on the wire for it yet. *)
LEMMA JoinedIs ==
  ASSUME Base, NEW kind \in Kinds, Enqueue(kind), UNCHANGED <<net, head>>, NEW n, n = Len(call) + 1
  PROVE  /\ n \in Nat /\ n \notin Calls /\ n # NoJob /\ Calls' = Calls \cup {n} /\ \A c \in Calls : call'[c] = call[c]
         /\ call'[n].kind = kind /\ call'[n].answer = "none" /\ call'[n].ran = 0
         /\ ~cl.closed /\ ~cl'.closed /\ moving' = moving /\ seen' = seen
         /\ (NoMoves' <=> NoMoves) /\ (Calm' <=> Calm) /\ (NoStops => NoStops')
         /\ \A c \in Calls : Behind(c) => Behind(c)'
         /\ Behind(n)'
<1>1. /\ n \in Nat /\ n \notin Calls /\ Calls' = Calls \cup {n} /\ ~cl.closed
      /\ \A c \in Calls : call'[c] = call[c]
      /\ call'[n].kind = kind /\ call'[n].answer = "none" /\ call'[n].ran = 0
  BY EnqueueIs
<1>2. n # NoJob
  <2>1. Len(call) \in Nat
    BY CallsAre DEF Base
  <2> QED
    BY <2>1 DEF NoJob
<1>3. cl'.job = cl.job /\ cl'.closed = cl.closed
  <2>1. PICK q : cl' = [cl EXCEPT !.queue = q]
    BY EnqueueIs
  <2> QED
    BY <2>1, FieldsAre DEF Fields
<1>4. /\ toCam' = toCam /\ seen' = seen /\ moving' = moving /\ ToHead' = ToHead
      /\ \A m \in ToHead : m.job # n /\ (IsMove(m)' <=> IsMove(m))
      /\ \A k \in DOMAIN toCam : toCam[k] \in ToHead
  <2>1. \A m \in ToHead : m.job # n /\ (m.kind = "message" => m.job \in Calls)
    BY <1>1, <1>2, ItemsAre DEF Base, Sent
  <2>2. \A k \in DOMAIN toCam : toCam[k] \in ToHead
    BY ItemsAre DEF Base
  <2> QED
    BY <1>1, <2>1, <2>2 DEF IsMove, net, head, ToHead
<1>5. (NoMoves' <=> NoMoves) /\ (Calm' <=> Calm)
  BY <1>4 DEF NoMoves, Calm
<1>6. NoStops => NoStops'
  <2>1. cl.job # n
    BY <1>1, <1>2 DEF Base, PumpOk
  <2> QED
    BY <1>1, <1>3, <1>4, <2>1 DEF NoStops, IsStop
<1>7. ASSUME NEW i \in DOMAIN toCam, NEW k \in DOMAIN toCam PROVE IsMove(toCam[k])' <=> IsMove(toCam[k])
  <2>1. PICK m \in ToHead : m = toCam[k]
    BY <1>4
  <2> QED
    BY <1>4, <2>1 DEF IsMove
<1>8. \A c \in Calls : Behind(c) => Behind(c)'
  BY <1>1, <1>4, <1>5, <1>7 DEF Behind
<1>9. Behind(n)'
  BY <1>1, <1>4 DEF Behind
<1> QED
  BY <1>1, <1>2, <1>3, <1>4, <1>5, <1>6, <1>8, <1>9

LEMMA ResendKeeps ==
  ASSUME Base, DriverOk, LastInv, Resend
  PROVE  DriverOk' /\ LastInv'
<1>1. PICK n : n = Len(call) + 1
  OBVIOUS
<1>2. /\ restop /\ resend = NoJob /\ Enqueue("restop") /\ resend' = n
      /\ withdrawn' = withdrawn /\ slips' = slips /\ op' = op /\ up' = up /\ lost' = lost /\ restop' = restop
      /\ probing' = probing /\ last' = last /\ cut' = cut
      /\ UNCHANGED <<net, head>>
  BY <1>1 DEF Resend
<1>3. /\ n \in Nat /\ n \notin Calls /\ n # NoJob /\ Calls' = Calls \cup {n} /\ \A c \in Calls : call'[c] = call[c]
      /\ call'[n].kind = "restop" /\ call'[n].answer = "none" /\ call'[n].ran = 0
      /\ ~cl'.closed /\ moving' = moving /\ (NoMoves' <=> NoMoves)
      /\ (\A c \in Calls : Behind(c) => Behind(c)') /\ Behind(n)'
  <2>1. "restop" \in Kinds
    BY DEF Kinds
  <2> QED
    BY <1>1, <1>2, <2>1, JoinedIs
<1>4. DriverOk'
  <2>1. \A c \in Calls' : call'[c].answer = "none" =>
          /\ call'[c].kind \in {"move", "stop"} => op.at = "visca" /\ c = op.call
          /\ call'[c].kind = "restop" => c = n \/ c \in withdrawn
    BY <1>2, <1>3, DriverIs
  <2>2. (op.at = "visca" => op.call \in Calls' /\ call'[op.call].kind = op.what) /\ Calls' # {}
    BY <1>3, DriverIs
  <2>3. ~cl.closed /\ Calls # {}
    BY <1>2, DriverIs
  <2> QED
    BY <1>2, <1>3, <2>1, <2>2, <2>3, DriverIs DEF DriverOk
<1>5. LastInv'
  <2> SUFFICES ASSUME Undisturbed' PROVE LastInv'
    BY DEF LastInv
  <2>1. Undisturbed
    BY <1>2 DEF Undisturbed
  <2>2. Stopping' \subseteq Stopping \cup {n}
    BY <1>2, <1>3, DriverIs DEF Stopping
  <2>3. \A c \in Stopping' : Behind(c)'
    BY <1>3, <2>1, <2>2, LastIs, StoppingIs
  <2>4. CgiOnly' => NoMoves' /\ (op'.at = "ran" => ~moving')
    BY <1>2, <1>3, <2>1, LastIs, DriverIs DEF CgiOnly
  <2>5. ~Driven'
    BY <1>2, NoOpIs, DriverIs DEF Driven
  <2> QED
    BY <1>2, <2>3, <2>4, <2>5 DEF LastInv
<1> QED
  BY <1>4, <1>5

LEMMA ProbeKeeps ==
  ASSUME Base, DriverOk, LastInv, Probe
  PROVE  DriverOk' /\ LastInv'
<1>1. PICK n : n = Len(call) + 1
  OBVIOUS
<1>2. /\ lost /\ Enqueue("probe") /\ probing' = n
      /\ withdrawn' = withdrawn /\ slips' = slips /\ op' = op /\ up' = up /\ lost' = lost /\ restop' = restop
      /\ resend' = resend /\ last' = last /\ cut' = cut
      /\ UNCHANGED <<net, head>>
  BY <1>1 DEF Probe
<1>3. /\ n \in Nat /\ n \notin Calls /\ n # NoJob /\ Calls' = Calls \cup {n} /\ \A c \in Calls : call'[c] = call[c]
      /\ call'[n].kind = "probe" /\ call'[n].answer = "none" /\ call'[n].ran = 0
      /\ ~cl.closed /\ ~cl'.closed /\ moving' = moving /\ (NoMoves' <=> NoMoves) /\ (Calm' <=> Calm) /\ (NoStops => NoStops')
      /\ (\A c \in Calls : Behind(c) => Behind(c)')
  <2>1. "probe" \in Kinds
    BY DEF Kinds
  <2> QED
    BY <1>1, <1>2, <2>1, JoinedIs
<1>4. DriverOk'
  <2>1. \A c \in Calls' : call'[c].answer = "none" =>
          /\ call'[c].kind \in {"move", "stop"} => op.at = "visca" /\ c = op.call
          /\ call'[c].kind = "restop" => c = resend \/ c \in withdrawn
    BY <1>2, <1>3, DriverIs
  <2>2. /\ op.at = "visca" => op.call \in Calls' /\ call'[op.call].kind = op.what
        /\ resend # NoJob => restop /\ resend \in Calls' /\ call'[resend].kind = "restop"
        /\ Calls' # {}
    BY <1>3, DriverIs
  <2> QED
    BY <1>2, <1>3, <2>1, <2>2, DriverIs DEF DriverOk
<1>5. LastInv'
  <2> SUFFICES ASSUME Undisturbed' PROVE LastInv'
    BY DEF LastInv
  <2>1. Undisturbed
    BY <1>2 DEF Undisturbed
  <2>2. Stopping' \subseteq Stopping
    BY <1>2, <1>3, DriverIs DEF Stopping
  <2>3. \A c \in Stopping' : Behind(c)'
    BY <1>3, <2>1, <2>2, LastIs, StoppingIs
  <2>4. CgiOnly' => NoMoves' /\ (op'.at = "ran" => ~moving')
    BY <1>2, <1>3, <2>1, LastIs, DriverIs DEF CgiOnly
  <2>5. Done' => restop' \/ Calm'
    BY <1>2, <1>3, <2>1, LastIs DEF Done
  <2>6. Driven' => Driven /\ NoStops'
    BY <1>2, <1>3, <2>1, LastIs DEF Driven
  <2>7. op.at = "visca" => call'[op.call].ran = call[op.call].ran
    BY <1>3, DriverIs
  <2> QED
    BY <1>2, <1>3, <2>1, <2>3, <2>4, <2>5, <2>6, <2>7, LastIs DEF LastInv
<1> QED
  BY <1>4, <1>5

(* A move or a stop begins over VISCA ... *)
LEMMA BeginViscaKeeps ==
  ASSUME Base, DriverOk, LastInv, NEW what \in {"move", "stop"}, Begin(what), up
  PROVE  DriverOk' /\ LastInv'
<1>1. PICK n : n = Len(call) + 1
  OBVIOUS
<1>2. PICK t : t = "visca"
  OBVIOUS
<1>3. /\ op = NoOp /\ Enqueue(what) /\ op' = [NoOp EXCEPT !.what = what, !.at = t, !.call = n]
      /\ slips' = slips /\ up' = up /\ lost' = lost /\ probing' = probing /\ last' = last
      /\ cut' = (what = "move" /\ StopUnderWay)
      /\ UNCHANGED <<net, head>>
  BY <1>1, <1>2 DEF Begin
<1>4. /\ n \in Nat /\ n \notin Calls /\ n # NoJob /\ Calls' = Calls \cup {n} /\ \A c \in Calls : call'[c] = call[c]
      /\ call'[n].kind = what /\ call'[n].answer = "none" /\ call'[n].ran = 0
      /\ ~cl.closed /\ ~cl'.closed /\ (NoStops => NoStops')
      /\ (\A c \in Calls : Behind(c) => Behind(c)') /\ Behind(n)'
  <2>1. what \in Kinds
    BY DEF Kinds
  <2> QED
    BY <1>1, <1>3, <2>1, JoinedIs
<1>5. /\ op' \in [what : {"none", "move", "stop"}, at : {"none", "visca", "cgi", "ran"}, call : Nat, failed : BOOLEAN]
      /\ op'.what = what /\ op'.at = "visca" /\ op'.call = n /\ ~op'.failed /\ op' # NoOp
  BY <1>2, <1>3, <1>4 DEF NoOp, NoJob
<1>6. \A c \in Calls : call[c].answer = "none" =>
        /\ call[c].kind \notin {"move", "stop"}
        /\ call[c].kind = "restop" => c = resend \/ c \in withdrawn
  BY <1>3, NoOpIs, DriverIs
<1>7. cut' \in BOOLEAN
  BY <1>3
<1>8. Undisturbed' => Undisturbed
  BY <1>3 DEF Undisturbed
<1>9. ~CgiOnly' /\ ~Done'
  BY <1>5 DEF CgiOnly, Done
<1>10. CASE what = "move"
  <2>1. ~restop' /\ restop' \in BOOLEAN /\ resend' = NoJob /\ withdrawn \subseteq withdrawn' /\ (resend # NoJob => resend \in withdrawn')
    BY <1>10, CancelIs DEF Begin, Cancel
  <2>2. DriverOk'
    <3>1. \A c \in Calls' : call'[c].answer = "none" =>
            /\ call'[c].kind \in {"move", "stop"} => c = n
            /\ call'[c].kind = "restop" => c \in withdrawn'
      BY <1>4, <1>6, <1>10, <2>1, DriverIs
    <3> QED
      BY <1>3, <1>4, <1>5, <1>7, <1>10, <2>1, <3>1, DriverIs DEF DriverOk
  <2>3. Stopping' = {}
    BY <1>4, <1>5, <1>10, <2>1, DriverIs DEF Stopping
  <2>4. Driven' => NoStops'
    <3> SUFFICES ASSUME Driven' PROVE NoStops
      BY <1>4
    <3>1. ~StopUnderWay
      BY <1>3, <1>10 DEF Driven
    <3>2. ASSUME NEW c \in Calls, IsStop(c) PROVE c # cl.job /\ \A m \in ToHead : m.job # c
      <4>1. c # cl.job /\ \A i \in DOMAIN toCam : toCam[i].job # c
        BY <3>1, <3>2 DEF StopUnderWay, IsStop
      <4> QED
        BY <4>1 DEF ToHead, Range
    <3> QED
      BY <3>2 DEF NoStops
  <2> QED
    BY <1>4, <1>5, <1>9, <2>2, <2>3, <2>4 DEF LastInv
<1>11. CASE what = "stop"
  <2>1. restop' = restop /\ resend' = resend /\ withdrawn' = withdrawn
    BY <1>11 DEF Begin
  <2>2. DriverOk'
    <3>1. \A c \in Calls' : call'[c].answer = "none" =>
            /\ call'[c].kind \in {"move", "stop"} => c = n
            /\ call'[c].kind = "restop" => c = resend \/ c \in withdrawn
      BY <1>4, <1>6, <1>11
    <3>2. resend # NoJob => restop /\ resend \in Calls' /\ call'[resend].kind = "restop"
      BY <1>4, DriverIs
    <3> QED
      BY <1>3, <1>4, <1>5, <1>7, <1>11, <2>1, <3>1, <3>2, DriverIs DEF DriverOk
  <2>3. Stopping' \subseteq Stopping \cup {n}
    BY <1>4, <1>5, <2>1, DriverIs DEF Stopping
  <2>4. ~Driven'
    BY <1>5, <1>11 DEF Driven
  <2>5. Undisturbed' => \A c \in Stopping' : Behind(c)'
    BY <1>4, <1>8, <2>3, LastIs, StoppingIs
  <2> QED
    BY <1>9, <2>2, <2>4, <2>5 DEF LastInv
<1> QED
  BY <1>10, <1>11

(* ... and over CGI. *)
LEMMA BeginCgiKeeps ==
  ASSUME Base, DriverOk, LastInv, NEW what \in {"move", "stop"}, Begin(what), ~up
  PROVE  DriverOk' /\ LastInv'
<1>1. PICK t : t = "cgi"
  OBVIOUS
<1>2. /\ op = NoOp /\ ~cl.closed /\ op' = [NoOp EXCEPT !.what = what, !.at = t]
      /\ slips' = slips /\ up' = up /\ lost' = lost /\ probing' = probing /\ last' = last
      /\ cut' = (what = "move" /\ StopUnderWay)
      /\ UNCHANGED <<call, cl, net, seen>> /\ moving' = moving
  BY <1>1 DEF Begin, head
<1>3. /\ Calls' = Calls /\ call' = call /\ cl' = cl /\ NoMoves' = NoMoves /\ NoStops' = NoStops
      /\ \A c : Behind(c)' = Behind(c)
  BY <1>2, BesideIs
<1>4. /\ op' \in [what : {"none", "move", "stop"}, at : {"none", "visca", "cgi", "ran"}, call : Nat, failed : BOOLEAN]
      /\ op'.what = what /\ op'.at = "cgi" /\ ~op'.failed /\ op' # NoOp
  BY <1>1, <1>2 DEF NoOp, NoJob
<1>5. \A c \in Calls : call[c].answer = "none" =>
        /\ call[c].kind \notin {"move", "stop"}
        /\ call[c].kind = "restop" => c = resend \/ c \in withdrawn
  BY <1>2, NoOpIs, DriverIs
<1>6. cut' \in BOOLEAN
  BY <1>2
<1>7. Undisturbed' => Undisturbed
  BY <1>2 DEF Undisturbed
<1>8. ~Done'
  BY <1>4 DEF Done
<1>9. CASE what = "move"
  <2>1. ~restop' /\ restop' \in BOOLEAN /\ resend' = NoJob /\ withdrawn \subseteq withdrawn' /\ (resend # NoJob => resend \in withdrawn')
    BY <1>9, CancelIs DEF Begin, Cancel
  <2>2. DriverOk'
    <3>1. \A c \in Calls : call[c].answer = "none" =>
            /\ call[c].kind \notin {"move", "stop"}
            /\ call[c].kind = "restop" => c \in withdrawn'
      BY <1>5, <2>1, DriverIs
    <3> QED
      BY <1>2, <1>3, <1>4, <1>6, <1>9, <2>1, <3>1, DriverIs DEF DriverOk
  <2>3. Stopping' = {} /\ ~CgiOnly'
    BY <1>3, <1>4, <1>9, <2>1, DriverIs DEF Stopping, CgiOnly
  <2>4. Driven' => NoStops'
    <3> SUFFICES ASSUME Driven' PROVE NoStops
      BY <1>3
    <3>1. ~StopUnderWay
      BY <1>2, <1>9 DEF Driven
    <3>2. ASSUME NEW c \in Calls, IsStop(c) PROVE c # cl.job /\ \A m \in ToHead : m.job # c
      <4>1. c # cl.job /\ \A i \in DOMAIN toCam : toCam[i].job # c
        BY <3>1, <3>2 DEF StopUnderWay, IsStop
      <4> QED
        BY <4>1 DEF ToHead, Range
    <3> QED
      BY <3>2 DEF NoStops
  <2> QED
    BY <1>4, <1>8, <2>2, <2>3, <2>4 DEF LastInv
<1>10. CASE what = "stop"
  <2>1. restop' = restop /\ resend' = resend /\ withdrawn' = withdrawn
    BY <1>10 DEF Begin
  <2>2. DriverOk'
    BY <1>2, <1>3, <1>4, <1>5, <1>6, <1>10, <2>1, DriverIs DEF DriverOk
  <2>3. Stopping' \subseteq Stopping
    BY <1>3, <1>4, <2>1 DEF Stopping
  <2>4. ~Driven'
    BY <1>4, <1>10 DEF Driven
  <2>5. CgiOnly' => NoMoves'
    <3> SUFFICES ASSUME CgiOnly' PROVE NoMoves
      BY <1>3
    <3>1. ~lost /\ Calls = {}
      BY <1>2, DriverIs DEF CgiOnly
    <3>2. \A m \in ToHead : m.kind = "message" => m.job \in Calls
      BY ItemsAre DEF Base
    <3> QED
      BY <3>1, <3>2 DEF NoMoves, IsMove
  <2>6. Undisturbed' => \A c \in Stopping' : Behind(c)'
    BY <1>3, <1>7, <2>3, LastIs
  <2> QED
    BY <1>4, <1>8, <2>2, <2>4, <2>5, <2>6 DEF LastInv
<1> QED
  BY <1>9, <1>10

LEMMA ResentKeeps ==
  ASSUME Base, TrueInv, DriverOk, LastInv, Resent
  PROVE  DriverOk' /\ LastInv'
<1>1. /\ resend # NoJob /\ Answer(resend) # "none" /\ resend' = NoJob
      /\ UNCHANGED <<call, cl, net, seen>> /\ moving' = moving /\ slips' = slips /\ withdrawn' = withdrawn
      /\ op' = op /\ probing' = probing /\ last' = last /\ cut' = cut
  BY DEF Resent, viscaVars, net
<1>2. /\ Calls' = Calls /\ call' = call /\ cl' = cl /\ NoMoves' = NoMoves /\ NoStops' = NoStops /\ Calm' = Calm
      /\ \A c : Behind(c)' = Behind(c)
  BY <1>1, BesideIs
<1>3. restop /\ resend \in Calls /\ call[resend].kind = "restop" /\ ~Driven /\ resend \in Stopping
  BY <1>1, NoOpIs, DriverIs DEF Driven, Stopping
<1>4. \A c \in Calls : call[c].answer = "none" => c # resend
  BY <1>1 DEF Answer
<1>5. /\ restop' \in BOOLEAN /\ (restop' => restop) /\ up' \in BOOLEAN /\ lost' \in BOOLEAN
      /\ ~up' /\ ~lost' => cl.closed \/ Calls = {}
  <2>1. /\ restop = TRUE /\ up \in BOOLEAN /\ lost \in BOOLEAN
        /\ (~up /\ ~lost => cl.closed \/ Calls = {})
    BY <1>3, DriverIs
  <2>2. CASE restop' = FALSE /\ up' = TRUE /\ lost' = (lost /\ up)
    BY <2>1, <2>2
  <2>3. CASE restop' = restop /\ up' = up /\ lost' = lost
    BY <2>1, <2>3
  <2> QED
    BY <2>2, <2>3 DEF Resent
<1>6. DriverOk'
  <2>1. \A c \in Calls : call[c].answer = "none" =>
          /\ call[c].kind \in {"move", "stop"} => op.at = "visca" /\ c = op.call
          /\ call[c].kind = "restop" => c \in withdrawn
    BY <1>4, DriverIs
  <2> QED
    BY <1>1, <1>2, <1>3, <1>5, <2>1, DriverIs DEF DriverOk
<1>7. LastInv'
  <2> SUFFICES ASSUME Undisturbed' PROVE LastInv'
    BY DEF LastInv
  <2>1. Undisturbed
    BY <1>1 DEF Undisturbed
  <2>2. Stopping' \subseteq Stopping
    BY <1>1, <1>2, <1>3 DEF Stopping, Calls, NoJob
  <2>3. ~Driven'
    BY <1>1, <1>3 DEF Driven
  <2>4. CASE Answer(resend) \in {"ok", "assumed"}
    <3>1. Command(resend)
      BY <1>3 DEF Command
    <3>2. call[resend].ran > 0
      BY <1>3, <2>1, <2>4, <3>1, ToldIs
    <3>3. Calm
      BY <1>3, <2>1, <3>2, LastIs DEF Behind
    <3> QED
      BY <1>1, <1>2, <2>1, <2>2, <2>3, <3>3, LastIs DEF LastInv, Calm
  <2>5. CASE Answer(resend) \notin {"ok", "assumed"}
    <3>1. restop' = restop /\ lost' = lost
      BY <2>5 DEF Resent
    <3>2. CgiOnly' => CgiOnly
      BY <1>1, <1>2, <3>1 DEF CgiOnly
    <3> QED
      BY <1>1, <1>2, <1>3, <2>1, <2>2, <2>3, <3>1, <3>2, LastIs DEF LastInv
  <2> QED
    BY <2>4, <2>5
<1> QED
  BY <1>6, <1>7

LEMMA ProbedKeeps ==
  ASSUME Base, DriverOk, LastInv, Probed
  PROVE  DriverOk' /\ LastInv'
<1>1. /\ probing # NoJob /\ probing' = NoJob
      /\ UNCHANGED <<call, cl, net, seen>> /\ moving' = moving /\ withdrawn' = withdrawn
      /\ op' = op /\ restop' = restop /\ resend' = resend /\ last' = last /\ cut' = cut
  BY DEF Probed, client, head
<1>2. /\ Calls' = Calls /\ call' = call /\ cl' = cl /\ NoMoves' = NoMoves /\ NoStops' = NoStops /\ Calm' = Calm
      /\ \A c : Behind(c)' = Behind(c)
  BY <1>1, BesideIs
<1>3. up' \in BOOLEAN /\ lost' \in BOOLEAN /\ (~lost' => up')
  BY DEF Probed
<1>4. DriverOk'
  <2>1. Calls # {}
    BY <1>1, DriverIs
  <2> QED
    BY <1>1, <1>2, <1>3, <2>1, DriverIs DEF DriverOk
<1>5. LastInv'
  <2> SUFFICES ASSUME Undisturbed' PROVE LastInv'
    BY DEF LastInv
  <2>1. Undisturbed /\ ~(up' /\ op.at \in {"cgi", "ran"})
    BY DEF Probed, Undisturbed
  <2>2. Stopping' = Stopping
    BY <1>1, <1>2 DEF Stopping
  <2>3. ~CgiOnly'
    BY <1>1, <1>3, <2>1 DEF CgiOnly
  <2>4. (Driven' <=> Driven) /\ (Done' <=> Done)
    BY <1>1 DEF Driven, Done
  <2> QED
    BY <1>1, <1>2, <2>1, <2>2, <2>3, <2>4, LastIs DEF LastInv
<1> QED
  BY <1>4, <1>5

(* close() ends the re-stop, and nothing is promised any more. *)
LEMMA CloseKeepsLast ==
  ASSUME Base, DriverOk, LastInv, Close
  PROVE  DriverOk' /\ LastInv'
<1>1. /\ CloseClient /\ ~restop' /\ restop' = FALSE /\ resend' = NoJob /\ up' = FALSE
      /\ withdrawn \subseteq withdrawn' /\ (resend # NoJob => resend \in withdrawn')
      /\ toCam' = toCam /\ seen' = seen /\ moving' = moving /\ slips' = slips /\ ToHead' = ToHead
      /\ op' = op /\ lost' = lost /\ probing' = probing /\ last' = last /\ cut' = cut
  BY DEF Close, net, head, ToHead
<1>2. /\ Calls' = Calls /\ cl'.closed /\ cl'.job \in {cl.job, NoJob}
      /\ \A c \in Calls : /\ call'[c].kind = call[c].kind /\ call'[c].ran = call[c].ran
                          /\ call'[c].answer = "none" => call[c].answer = "none"
  BY <1>1, CloseIs DEF SameCalls
<1>3. DriverOk'
  <2>1. \A c \in Calls : call'[c].answer = "none" =>
          /\ call'[c].kind \in {"move", "stop"} => op.at = "visca" /\ c = op.call
          /\ call'[c].kind = "restop" => c \in withdrawn'
    BY <1>1, <1>2, DriverIs
  <2>2. op.at = "visca" => op.call \in Calls /\ call'[op.call].kind = op.what
    BY <1>2, DriverIs
  <2> QED
    BY <1>1, <1>2, <2>1, <2>2, DriverIs DEF DriverOk
<1>4. LastInv'
  <2> SUFFICES ASSUME Undisturbed' PROVE LastInv'
    BY DEF LastInv
  <2>1. Undisturbed
    BY <1>1 DEF Undisturbed
  <2>2. \A m \in ToHead : IsMove(m)' <=> IsMove(m)
    <3>1. \A m \in ToHead : m.kind = "message" => m.job \in Calls
      BY ItemsAre DEF Base
    <3> QED
      BY <1>2, <3>1 DEF IsMove
  <2>3. (NoMoves' <=> NoMoves) /\ (Calm' <=> Calm)
    BY <1>1, <2>2 DEF NoMoves, Calm
  <2>4. ASSUME NEW c \in Stopping' PROVE Behind(c)'
    <3>1. c \in Stopping /\ c \in Calls
      BY <1>1, <1>2, <2>4, DriverIs DEF Stopping
    <3>2. \A k \in DOMAIN toCam : IsMove(toCam[k])' <=> IsMove(toCam[k])
      <4> SUFFICES ASSUME NEW k \in DOMAIN toCam PROVE IsMove(toCam[k])' <=> IsMove(toCam[k])
        OBVIOUS
      <4>1. PICK m \in ToHead : m = toCam[k]
        BY ItemsAre DEF Base
      <4> QED
        BY <1>1, <2>2, <4>1 DEF IsMove
    <3>3. Behind(c)
      BY <2>1, <3>1, LastIs
    <3> QED
      BY <1>1, <1>2, <2>3, <3>1, <3>2, <3>3 DEF Behind
  <2>5. ~CgiOnly'
    BY <1>2 DEF CgiOnly
  <2>6. Driven' => Driven
    BY <1>1 DEF Driven
  <2>7. NoStops => NoStops'
    BY <1>1, <1>2, DriverIs DEF NoStops, IsStop
  <2>8. op.at = "visca" => call'[op.call].ran = call[op.call].ran
    BY <1>2, DriverIs
  <2> QED
    BY <1>1, <1>2, <2>1, <2>4, <2>5, <2>6, <2>7, <2>8, LastIs DEF LastInv
<1> QED
  BY <1>3, <1>4

-----------------------------------------------------------------------------
(* All of it holds from the start, and every step keeps it. *)
LEMMA LastStarts == DriverInit => DriverOk /\ LastInv
<1> SUFFICES ASSUME DriverInit PROVE DriverOk /\ LastInv
  OBVIOUS
<1>1. /\ call = <<>> /\ Len(call) = 0 /\ Calls = {} /\ toCam = <<>> /\ seen = {}
      /\ op = NoOp /\ up \in BOOLEAN /\ lost = FALSE /\ restop = FALSE /\ resend = NoJob /\ probing = NoJob
      /\ cut = FALSE
  BY DEF DriverInit, Init, Calls
<1>2. PICK t \in BOOLEAN : t = TRUE
  OBVIOUS
<1>3. last = [what |-> "none", ok |-> t]
  BY <1>2 DEF DriverInit
<1>4. /\ op \in [what : {"none", "move", "stop"}, at : {"none", "visca", "cgi", "ran"}, call : Nat, failed : BOOLEAN]
      /\ op.what = "none" /\ op.at = "none" /\ op.failed = FALSE
      /\ last \in [what : {"none", "move", "stop"}, ok : BOOLEAN] /\ last.what = "none"
  BY <1>1, <1>2, <1>3 DEF NoOp, NoJob
<1>5. DriverOk
  BY <1>1, <1>4 DEF DriverOk
<1>6. LastInv
  BY <1>1, <1>4 DEF LastInv, Stopping, CgiOnly, Done, Driven
<1> QED
  BY <1>5, <1>6

LEMMA LastStands ==
  ASSUME DriverOk, LastInv, UNCHANGED vars
  PROVE  DriverOk' /\ LastInv'
<1>1. /\ UNCHANGED <<call, cl, net, seen>> /\ moving' = moving /\ slips' = slips /\ withdrawn' = withdrawn
      /\ UNCHANGED driverVars
  BY DEF vars, viscaVars, net
<1>2. /\ Calls' = Calls /\ call' = call /\ cl' = cl /\ NoMoves' = NoMoves /\ NoStops' = NoStops /\ Calm' = Calm
      /\ \A c : Behind(c)' = Behind(c)
  BY <1>1, BesideIs
<1>3. DriverOk'
  BY <1>1, <1>2, DriverStays
<1>4. /\ op' = op /\ lost' = lost /\ restop' = restop /\ resend' = resend /\ last' = last /\ cut' = cut
  BY <1>1 DEF driverVars
<1>5. /\ Stopping' = Stopping /\ (CgiOnly' <=> CgiOnly) /\ (Done' <=> Done) /\ (Driven' <=> Driven)
      /\ (Undisturbed' <=> Undisturbed)
  BY <1>1, <1>2, <1>4 DEF Stopping, CgiOnly, Done, Driven, Undisturbed
<1> QED
  BY <1>1, <1>2, <1>3, <1>4, <1>5 DEF LastInv

LEMMA LastSteps ==
  ASSUME Base, Base', TrueInv, DriverOk, LastInv, Next
  PROVE  DriverOk' /\ LastInv'
<1>1. CASE Microtasks
  <2>1. CASE PumpNext /\ UNCHANGED driverVars
    BY <2>1, PumpEffect, LastEffect
  <2>2. CASE MoveAnswered
    BY <2>2, MoveAnsweredKeeps
  <2>3. CASE StopAnswered
    BY <2>3, StopAnsweredKeeps
  <2>4. CASE Resent
    BY <2>4, ResentKeeps
  <2>5. CASE Probed
    BY <2>5, ProbedKeeps
  <2> QED
    BY <1>1, <2>1, <2>2, <2>3, <2>4, <2>5 DEF Microtasks
<1>2. CASE Events
  <2>1. ASSUME NEW what \in {"move", "stop"}, Begin(what) PROVE DriverOk' /\ LastInv'
    BY <2>1, BeginViscaKeeps, BeginCgiKeeps
  <2>2. CASE CgiRuns
    BY <2>2, CgiRunsKeeps
  <2>3. ASSUME NEW ok \in BOOLEAN, CgiAnswered(ok) PROVE DriverOk' /\ LastInv'
    BY <2>3, CgiAnsweredKeeps
  <2>4. CASE Resend
    BY <2>4, ResendKeeps
  <2>5. CASE Probe
    BY <2>5, ProbeKeeps
  <2>6. CASE Close
    BY <2>6, CloseKeepsLast
  <2>7. CASE ClientSteps /\ UNCHANGED driverVars
    <3>1. Effect
      BY <2>7, WaitEffect, ResetTimerEffect, AttemptTimerEffect, UdpErrorEffect, DatagramEffect DEF ClientSteps
    <3> QED
      BY <2>7, <3>1, LastEffect
  <2>8. CASE WorldSteps /\ UNCHANGED driverVars
    BY <2>8, LastLoses, LastReceives DEF WorldSteps
  <2> QED
    BY <1>2, <2>1, <2>2, <2>3, <2>4, <2>5, <2>6, <2>7, <2>8 DEF Events
<1> QED
  BY <1>1, <1>2 DEF Next

(* Once everything sent has arrived, the head does what it was last told   *)
(* and reported as done: after a stop it is at rest, although a move sent  *)
(* before may be lost, sent again or late (ViscaRestop of visca-client.js  *)
(* and the fall-back to CGI of sony-brc.js); after a move it moves, and no *)
(* re-stop left over from an earlier stop ends it.                         *)
THEOREM LastHolds == Spec => []LastCommandHolds
<1>1. DriverInit => Base /\ OnceInv /\ TrueInv /\ DriverOk /\ LastInv
  BY Starts, LastStarts
<1>2. Base /\ OnceInv /\ TrueInv /\ DriverOk /\ LastInv /\ [Next]_vars =>
        Base' /\ OnceInv' /\ TrueInv' /\ DriverOk' /\ LastInv'
  <2> SUFFICES ASSUME Base, OnceInv, TrueInv, DriverOk, LastInv, [Next]_vars
               PROVE  Base' /\ OnceInv' /\ TrueInv' /\ DriverOk' /\ LastInv'
    OBVIOUS
  <2>1. Base' /\ OnceInv' /\ TrueInv'
    BY MicrotasksKeep, EventsKeep, Stands DEF Next
  <2>2. DriverOk' /\ LastInv'
    BY <2>1, LastSteps, LastStands
  <2> QED
    BY <2>1, <2>2
<1>3. LastInv => LastCommandHolds
  <2> SUFFICES ASSUME LastInv, Undisturbed, Quiet, last.ok
               PROVE  /\ last.what = "stop" => ~moving
                      /\ last.what = "move" /\ ~cut => moving
    BY DEF LastCommandHolds
  <2>1. op = NoOp /\ ~restop /\ ~cl.closed
    BY DEF Quiet
  <2> QED
    BY <2>1, LastIs DEF Done, Driven, Calm
<1> QED
  BY <1>1, <1>2, <1>3, PTL DEF Spec
=============================================================================
