------------------------------ MODULE ViscaClient ------------------------------
(***************************************************************************)
(* cambridge/src/ptz/visca-client.js: the VISCA client of a Sony head, over *)
(* UDP, with the head and the network at the other end. One message at a    *)
(* time awaits its first reply; a lost one is sent once more with the same  *)
(* sequence number, which the head refuses if the first copy ran; a number  *)
(* refused on its first transmission makes the client RESET the counter     *)
(* and send the message again with a new number.                            *)
(*                                                                         *)
(* A step is one run of JavaScript up to its next await. Datagrams are lost *)
(* and overtake each other, at most MaxFaults times. Timers fire at any time once set. *)
(* The driver that makes the calls is SonyDriver.                           *)
(***************************************************************************)
EXTENDS Integers, Sequences, SequencesExt, FiniteSets

CONSTANTS
    MaxCalls,   \* calls made of the client in one behaviour
    MaxSeq,     \* the last sequence number (0xffffffff in the code): numbers do not come round
    MaxFaults   \* datagrams late, lost or overtaken, refusals, interferences

ASSUME ViscaAssumption ==
    MaxCalls \in Nat \ {0} /\ MaxSeq \in Nat /\ MaxSeq >= 2 * MaxCalls /\ MaxFaults \in Nat

VARIABLES
    call,      \* the calls, in the order made: kind, answer; ran: how often the head ran it (history)
    withdrawn, \* calls whose stillWanted() answers false
    cl,        \* the client's fields, see Init
    toCam,     \* datagrams on their way to the head
    toUs,      \* datagrams on their way back
    seen,      \* the head: sequence numbers it has handled since the last RESET
    moving,    \* the head: a velocity holds
    faults,    \* history: faults so far
    slips      \* history: what went amiss, of Slips

client == <<call, withdrawn, cl>>
net == <<toCam, toUs>>
head == <<seen, moving>>
viscaVars == <<call, withdrawn, cl, toCam, toUs, seen, moving, faults, slips>>

NoJob == 0
Kinds == {"move", "stop", "restop", "probe"}
Answers == {"none", "ok", "assumed", "refused", "timeout", "network", "superseded"}
Calls == 1..Len(call)
Command(c) == call[c].kind # "probe"
Urgent(c) == Command(c)
Wanted(c) == c \notin withdrawn

(* overtaken: a datagram by a later one; unechoed: a control error came without its number;
   forgot: the head lost the numbers it had handled; meddled: another controller did that;
   crossed: an answer was taken for another call's; refusal: a command the head had refused
   was taken to have run; stray: a RESET was asked for while the answer to an earlier one
   could still come; probed: a probe succeeded while a CGI request was under way *)
Slips == {"overtaken", "unechoed", "forgot", "meddled", "crossed", "refusal", "stray", "probed"}

(* this.current: the job whose first reply is awaited *)
Current == IF cl.stage = "reply" THEN cl.job ELSE NoJob

Init ==
    /\ call = <<>> /\ withdrawn = {}
    /\ cl = [queue |-> <<>>, job |-> NoJob,
             stage |-> "idle",    \* where #exchange(job) waits: space, reset, reply, full
             seq |-> 0, needReset |-> TRUE,
             reset |-> 0,         \* RESET datagrams sent by the pending #reset, 0: none pending
             mine |-> 0, copies |-> 0, renewed |-> FALSE, retried |-> FALSE,  \* of job
             renewing |-> NoJob,  \* the job that RESETs before it is sent again
             buffers |-> {},      \* acknowledged and not completed
             closed |-> FALSE]
    /\ toCam = <<>> /\ toUs = <<>> /\ seen = {} /\ moving = FALSE
    /\ faults = 0 /\ slips = {}

-----------------------------------------------------------------------------
(* The queue *)

(* #enqueue: urgent calls go behind the urgent ones and before the rest *)
Enqueue(kind) ==
    LET c == Len(call) + 1
        ahead == IF kind = "probe" THEN Len(cl.queue)
                 ELSE Cardinality({i \in DOMAIN cl.queue : Urgent(cl.queue[i])})
    IN  /\ Len(call) < MaxCalls
        /\ ~cl.closed
        /\ call' = Append(call, [kind |-> kind, answer |-> "none", ran |-> 0])
        /\ cl' = [cl EXCEPT !.queue = InsertAt(@, ahead + 1, c)]

NextSeq(s) == IF s >= MaxSeq THEN 0 ELSE s + 1
SendUdp(frame) == toCam' = IF cl.closed THEN toCam ELSE Append(toCam, frame)
Message(c, s) == [kind |-> "message", job |-> c, seq |-> s]
ResetFrame == [kind |-> "reset", job |-> NoJob, seq |-> 0]

Answered(c, a) == call' = [call EXCEPT ![c].answer = IF @ = "none" THEN a ELSE @]

(* #finishFirst with an answer: the exchange of c is over *)
Finish(c, a) ==
    /\ Answered(c, a)
    /\ cl' = [cl EXCEPT !.job = NoJob, !.stage = "idle"]
    /\ UNCHANGED toCam

(* #transmitSony(job, true), after the client has become k *)
Transmit(c, k) ==
    LET s == NextSeq(k.seq)
    IN  /\ cl' = [k EXCEPT !.job = c, !.stage = "reply", !.seq = s, !.mine = s, !.copies = 1]
        /\ SendUdp(Message(c, s))

(* The start of #reset: one RESET is pending at a time, later callers wait for it *)
StartReset(k) ==
    /\ cl' = [k EXCEPT !.reset = IF @ = 0 THEN 1 ELSE @]
    /\ IF k.reset = 0 THEN SendUdp(ResetFrame) ELSE UNCHANGED toCam

ExchangeSony(c, k) ==
    IF k.needReset THEN StartReset([k EXCEPT !.job = c, !.stage = "reset"]) ELSE Transmit(c, k)

(* The loop of #pump takes the next job and #exchange starts. #prune may forget
   commands that were never reported complete. *)
PumpNext ==
    /\ cl.stage = "idle" /\ cl.queue # <<>> /\ ~cl.closed
    /\ LET c == Head(cl.queue)
           k == [cl EXCEPT !.queue = Tail(@), !.renewed = FALSE, !.retried = FALSE]
       IN  IF ~Wanted(c)
           THEN Answered(c, "superseded") /\ cl' = k /\ UNCHANGED toCam
           ELSE /\ UNCHANGED call
                /\ IF Command(c)
                   THEN \E kept \in SUBSET cl.buffers :
                            LET kk == [k EXCEPT !.buffers = kept]
                            IN  IF Cardinality(kept) >= 2
                                THEN cl' = [kk EXCEPT !.job = c, !.stage = "space"] /\ UNCHANGED toCam
                                ELSE ExchangeSony(c, kk)
                   ELSE ExchangeSony(c, k)
    /\ UNCHANGED <<withdrawn, toUs, head, faults, slips>>

(* #waitForFree ends: a buffer came free, or the wait is over *)
WaitOver ==
    /\ cl.stage \in {"space", "full"}
    /\ ExchangeSony(cl.job, [cl EXCEPT !.retried = (cl.stage = "full")])
    /\ UNCHANGED <<call, withdrawn, toUs, head, faults, slips>>

-----------------------------------------------------------------------------
(* Timers *)

(* A fault of the network or of the world: MaxFaults of them. A timer that fires
   although the datagram it waits for is on its way is one. *)
Fault == faults < MaxFaults /\ faults' = faults + 1
InFlight(c) == ~cl.closed /\ \E ch \in {toCam, toUs} : \E i \in DOMAIN ch : ch[i].job = c
Fires(c) == IF InFlight(c) THEN Fault ELSE UNCHANGED faults

(* The timer of #reset: a second RESET, then no answer. It rejects everyone who waits. *)
ResetTimer ==
    /\ cl.reset > 0
    /\ Fires(NoJob)
    /\ IF cl.reset = 1 /\ ~cl.closed
       THEN cl' = [cl EXCEPT !.reset = 2] /\ SendUdp(ResetFrame) /\ UNCHANGED call
       ELSE LET waits == cl.stage = "reset" \/ (cl.renewing # NoJob /\ cl.renewing = Current)
                k == [cl EXCEPT !.reset = 0, !.renewing = NoJob]
            IN  /\ cl' = IF waits THEN [k EXCEPT !.job = NoJob, !.stage = "idle"] ELSE k
                /\ IF waits THEN Answered(cl.job, IF cl.closed THEN "network" ELSE "timeout")
                            ELSE UNCHANGED call
                /\ UNCHANGED toCam
    /\ UNCHANGED <<withdrawn, toUs, head, slips>>

MutAttemptTimer ==   \* sent again with a number of its own
    /\ Current # NoJob /\ cl.renewing # Current
    /\ Fires(Current)
    /\ IF ~Wanted(Current) THEN Finish(Current, "superseded")
       ELSE IF cl.copies < 2
       THEN LET s == NextSeq(cl.seq)
            IN  /\ cl' = [cl EXCEPT !.copies = 2, !.seq = s, !.mine = s]
                /\ SendUdp(Message(Current, s)) /\ UNCHANGED call
       ELSE Finish(Current, "timeout")
    /\ UNCHANGED <<withdrawn, toUs, head, slips>>

(* #attemptTimedOut: once more with the same number, if still wanted *)
AttemptTimer ==
    /\ Current # NoJob /\ cl.renewing # Current
    /\ Fires(Current)
    /\ IF ~Wanted(Current) THEN Finish(Current, "superseded")
       ELSE IF cl.copies < 2
       THEN /\ cl' = [cl EXCEPT !.copies = 2]
            /\ SendUdp(Message(Current, cl.mine)) /\ UNCHANGED call
       ELSE Finish(Current, "timeout")
    /\ UNCHANGED <<withdrawn, toUs, head, slips>>

-----------------------------------------------------------------------------
(* Datagrams *)

(* The reply to a RESET; the answer to another one is not told apart *)
ResetAnswered(m) ==
    /\ m.kind = "reset"
    /\ IF cl.reset = 0 THEN UNCHANGED <<cl, toCam>>
       ELSE LET k == [cl EXCEPT !.reset = 0, !.renewing = NoJob, !.seq = 0, !.needReset = FALSE]
            IN  IF cl.stage = "reset" \/ (cl.renewing # NoJob /\ cl.renewing = Current)
                THEN Transmit(cl.job, k)
                ELSE cl' = k /\ UNCHANGED toCam
    /\ UNCHANGED call

(* #onControlError, abnormality in the sequence number *)
SequenceError(m) ==
    /\ m.kind = "sequence"
    /\ IF Current = NoJob \/ m.seq \notin {0, cl.mine} THEN UNCHANGED <<call, cl, toCam>>
       ELSE IF cl.copies = 2 /\ Command(Current) THEN Finish(Current, "assumed")
       ELSE IF cl.renewed THEN Finish(Current, "refused")
       ELSE IF cl.copies = 2 THEN Transmit(Current, [cl EXCEPT !.renewed = TRUE]) /\ UNCHANGED call
       ELSE StartReset([cl EXCEPT !.renewed = TRUE, !.needReset = TRUE, !.renewing = Current]) /\ UNCHANGED call

(* A reply is matched by the sequence number of the message awaiting it *)
MutMatches(m) == Current # NoJob   \* whatever its sequence number
Matches(m) == Current # NoJob /\ m.seq = cl.mine

(* #onReply *)
Reply(m) ==
    LET c == Current
        matches == Matches(m)
        over == /\ Answered(c, "ok") /\ UNCHANGED toCam
                /\ cl' = [cl EXCEPT !.job = NoJob, !.stage = "idle",
                                    !.buffers = IF m.kind = "ack" THEN @ \cup {m.seq} ELSE @]
        released == UNCHANGED <<call, toCam>> /\ cl' = [cl EXCEPT !.buffers = @ \ {m.seq}]
    IN  /\ m.kind \in {"ack", "completion", "reply", "refused", "full"}
        /\ CASE m.kind \in {"ack", "completion"} /\ matches /\ Command(c) -> over
             [] m.kind = "reply" /\ matches -> over
             [] m.kind = "refused" /\ matches -> Finish(c, "refused")
             [] m.kind = "full" /\ matches ->
                    IF cl.retried \/ ~Command(c) THEN Finish(c, "refused")
                    ELSE IF ~Wanted(c) THEN Finish(c, "superseded")
                    ELSE cl' = [cl EXCEPT !.stage = "full"] /\ UNCHANGED <<call, toCam>>
             [] m.kind = "completion" /\ ~matches -> released
             [] OTHER -> UNCHANGED <<call, cl, toCam>>

Overtakes(i) == IF i = 1 THEN UNCHANGED faults ELSE Fault
Late(i) == IF i = 1 THEN {} ELSE {"overtaken"}

(* What the client is about to take m for, and is wrong *)
Mistaken(m) ==
    IF Current = NoJob THEN {}
    ELSE IF m.kind = "sequence"
    THEN IF m.seq \in {0, cl.mine} /\ cl.copies = 2 /\ Command(Current) /\ call[Current].ran = 0
         THEN {"refusal"} ELSE {}
    ELSE IF m.kind # "reset" /\ m.seq = cl.mine /\ m.job # Current THEN {"crossed"} ELSE {}

(* A number is refused on its first transmission: the counter is RESET *)
Renews(m) ==
    m.kind = "sequence" /\ Current # NoJob /\ m.seq \in {0, cl.mine} /\ ~cl.renewed /\ cl.copies # 2
Stray(m) == IF Renews(m) /\ \E i \in DOMAIN toUs : toUs[i].kind = "reset" THEN {"stray"} ELSE {}

(* #onDatagram *)
Datagram(i) ==
    /\ Overtakes(i) /\ ~cl.closed
    /\ toUs' = RemoveAt(toUs, i)
    /\ ResetAnswered(toUs[i]) \/ SequenceError(toUs[i]) \/ Reply(toUs[i])
    /\ slips' = slips \cup Late(i) \cup Mistaken(toUs[i]) \cup Stray(toUs[i])
    /\ UNCHANGED <<withdrawn, head>>

(* The socket's error event fails the message in flight *)
UdpError ==
    /\ Current # NoJob /\ ~cl.closed
    /\ Fault
    /\ Finish(Current, "network")
    /\ UNCHANGED <<withdrawn, toUs, head, slips>>

MutCloseClient ==   \* forgets the calls that wait in the queue
    /\ ~cl.closed
    /\ call' = [c \in Calls |-> IF call[c].answer = "none" /\ c = Current
                                THEN [call[c] EXCEPT !.answer = "network"] ELSE call[c]]
    /\ cl' = [cl EXCEPT !.closed = TRUE, !.queue = <<>>, !.buffers = {},
                        !.job = IF Current = NoJob THEN @ ELSE NoJob,
                        !.stage = IF Current = NoJob THEN @ ELSE "idle"]

(* close(): what is queued or in flight fails; an exchange that waits goes on *)
CloseClient ==
    /\ ~cl.closed
    /\ call' = [c \in Calls |-> IF call[c].answer = "none" /\ (c = Current \/ Contains(cl.queue, c))
                                THEN [call[c] EXCEPT !.answer = "network"] ELSE call[c]]
    /\ cl' = [cl EXCEPT !.closed = TRUE, !.queue = <<>>, !.buffers = {},
                        !.job = IF Current = NoJob THEN @ ELSE NoJob,
                        !.stage = IF Current = NoJob THEN @ ELSE "idle"]

-----------------------------------------------------------------------------
(* The network and the head *)

LoseFromUs == /\ toCam # <<>> /\ toCam' = Tail(toCam)
              /\ Fault /\ UNCHANGED <<client, toUs, head, slips>>
LoseFromCam == /\ toUs # <<>> /\ toUs' = Tail(toUs)
               /\ Fault /\ UNCHANGED <<client, toCam, head, slips>>

(* The head forgets what it has handled *)
Wiped == IF seen = {} THEN {} ELSE {"forgot"}

(* The head. A number it has handled is refused; a message with a new one is
   run, refused, or turned away because both command buffers are busy. *)
HeadReceives(i) ==
    /\ toCam' = RemoveAt(toCam, i)
    /\ LET m == toCam[i]
           answer(kinds) == toUs' = toUs \o [k \in DOMAIN kinds |-> [m EXCEPT !.kind = kinds[k]]]
       IN  \/ /\ m.kind = "reset"
              /\ Overtakes(i)
              /\ seen' = {} /\ slips' = slips \cup Late(i) \cup Wiped
              /\ answer(<<"reset">>) /\ UNCHANGED <<call, moving>>
           \/ /\ m.kind = "message" /\ m.seq \in seen
              /\ Overtakes(i)
              /\ \E echo \in BOOLEAN :
                    /\ toUs' = Append(toUs, [m EXCEPT !.kind = "sequence", !.seq = IF echo THEN @ ELSE 0])
                    /\ slips' = slips \cup Late(i) \cup IF echo THEN {} ELSE {"unechoed"}
              /\ UNCHANGED <<call, head>>
           \/ /\ m.kind = "message" /\ m.seq \notin seen
              /\ seen' = seen \cup {m.seq} /\ slips' = slips \cup Late(i)
              /\ \/ /\ Overtakes(i)
                    /\ call' = [call EXCEPT ![m.job].ran = @ + 1]
                    /\ moving' = IF Command(m.job) THEN call[m.job].kind = "move" ELSE moving
                    /\ answer(IF Command(m.job) THEN <<"ack", "completion">> ELSE <<"reply">>)
                 \/ /\ i = 1 /\ Fault
                    /\ UNCHANGED <<call, moving>>
                    /\ \E k \in {"refused", "full"} : answer(<<k>>)
    /\ UNCHANGED <<withdrawn, cl>>

(* Another controller RESETs the counter and sends n messages, or (n = 0) the head reboots *)
Meddle ==
    /\ Fault
    /\ \E n \in 0..2 : seen' = 1..n
    /\ slips' = slips \cup Wiped \cup {"meddled"}
    /\ UNCHANGED <<client, net, moving>>

ClientSteps == WaitOver \/ ResetTimer \/ AttemptTimer \/ UdpError \/ \E i \in DOMAIN toUs : Datagram(i)
WorldSteps == LoseFromUs \/ LoseFromCam \/ Meddle \/ \E i \in DOMAIN toCam : HeadReceives(i)
=============================================================================
