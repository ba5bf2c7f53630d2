------------------------------- MODULE SonyDriver -------------------------------
(***************************************************************************)
(* How cambridge/src/ptz/drivers/sony-brc.js moves and stops a head: over   *)
(* VISCA while it answers, over HTTP-CGI when it does not, and a stop that  *)
(* went over CGI once more over VISCA (ViscaRestop of visca-client.js),     *)
(* because a move still on its way could arrive behind the CGI stop.        *)
(*                                                                         *)
(* One axis group. The motion lane makes one call at a time (PtzQueue).     *)
(* ViscaClient has the client, the network and the head.                    *)
(***************************************************************************)
EXTENDS ViscaClient

CONSTANT MaxOps   \* moves and stops asked of the driver in one behaviour

ASSUME DriverAssumption == MaxOps \in Nat \ {0}

VARIABLES
    op,      \* the motion call in hand: what, where it waits, its VISCA call
    up,      \* viscaState.available
    lost,    \* viscaState.lostMidSession
    restop,  \* ViscaRestop.pending has the group
    resend,  \* the call the re-stop loop awaits, or NoJob while it sleeps
    probing, \* the call #probeVisca awaits, or NoJob
    last,    \* history: the last motion call that was answered, and how
    ops,     \* history: motion calls so far
    cut      \* history: an older stop could not be recalled when the group was moved again

driverVars == <<op, up, lost, restop, resend, probing, last, ops, cut>>
vars == <<viscaVars, driverVars>>

NoOp == [what |-> "none", at |-> "none", call |-> NoJob, failed |-> FALSE]

DriverInit ==
    /\ Init
    /\ op = NoOp /\ up \in BOOLEAN /\ lost = FALSE
    /\ restop = FALSE /\ resend = NoJob /\ probing = NoJob
    /\ last = [what |-> "none", ok |-> TRUE] /\ ops = 0 /\ cut = FALSE

Answer(c) == call[c].answer
LinkFailure(a) == a \in {"timeout", "network"}
Over(result) == op' = NoOp /\ last' = [what |-> op.what, ok |-> result]

MutCancel ==   \* the resend in hand stays wanted
    restop' = restop /\ UNCHANGED <<resend, withdrawn>>
(* ViscaRestop.cancel: the loop's send is no longer wanted *)
Cancel ==
    /\ restop' = FALSE /\ resend' = NoJob
    /\ withdrawn' = IF resend = NoJob THEN withdrawn ELSE withdrawn \cup {resend}

(* An older stop that cannot be recalled: with the pump, or on its way to the head *)
StopUnderWay ==
    \E c \in Calls : /\ call[c].kind \in {"stop", "restop"}
                     /\ c = cl.job \/ \E i \in DOMAIN toCam : toCam[i].job = c

(* panTilt(), zoom() and stop() begin: over VISCA if it is up. A move cancels the re-stop. *)
Begin(what) ==
    /\ op = NoOp /\ ops < MaxOps /\ ~cl.closed
    /\ ops' = ops + 1
    /\ IF what = "move" THEN Cancel ELSE UNCHANGED <<restop, resend, withdrawn>>
    /\ cut' = (what = "move" /\ StopUnderWay)
    /\ IF up THEN Enqueue(what) /\ op' = [NoOp EXCEPT !.what = what, !.at = "visca", !.call = Len(call) + 1]
             ELSE op' = [NoOp EXCEPT !.what = what, !.at = "cgi"] /\ UNCHANGED <<call, cl>>
    /\ UNCHANGED <<net, head, faults, slips, up, lost, probing, last>>

(* The move's VISCA call was answered: a link failure goes on over CGI *)
MoveAnswered ==
    /\ op.what = "move" /\ op.at = "visca" /\ Answer(op.call) # "none"
    /\ IF LinkFailure(Answer(op.call))
       THEN /\ op' = [op EXCEPT !.at = "cgi"]
            /\ up' = FALSE /\ lost' = (up \/ lost)
            /\ UNCHANGED last
       ELSE Over(Answer(op.call) \in {"ok", "assumed"}) /\ UNCHANGED <<up, lost>>
    /\ UNCHANGED <<viscaVars, restop, resend, probing, ops, cut>>

(* #stopGroups: the stop's VISCA call was answered; anything but taken goes on over CGI *)
StopAnswered ==
    /\ op.what = "stop" /\ op.at = "visca" /\ Answer(op.call) # "none"
    /\ IF Answer(op.call) \in {"ok", "assumed"}
       THEN Cancel /\ Over(TRUE) /\ UNCHANGED <<up, lost>>
       ELSE /\ op' = [op EXCEPT !.at = "cgi", !.failed = TRUE]
            /\ IF LinkFailure(Answer(op.call)) THEN up' = FALSE /\ lost' = (up \/ lost)
                                               ELSE UNCHANGED <<up, lost>>
            /\ UNCHANGED <<restop, resend, withdrawn, last>>
    /\ UNCHANGED <<call, cl, net, head, faults, slips, probing, ops, cut>>

(* The CGI request reaches the head *)
CgiRuns ==
    /\ op.at = "cgi"
    /\ moving' = (op.what = "move")
    /\ op' = [op EXCEPT !.at = "ran"]
    /\ UNCHANGED <<client, net, seen, faults, slips, up, lost, restop, resend, probing, last, ops, cut>>

(* ViscaRestop.arm: a new loop owns the group; an older one stands down *)
Arm == /\ restop' = TRUE /\ resend' = NoJob
       /\ withdrawn' = IF resend = NoJob THEN withdrawn ELSE withdrawn \cup {resend}

MutCgiAnswered(ok) ==   \* a stop over CGI is enough
    /\ op.at \in {"cgi", "ran"} /\ (ok => op.at = "ran")
    /\ Over(ok)
    /\ UNCHANGED <<restop, resend, withdrawn>>
    /\ UNCHANGED <<call, cl, net, head, faults, slips, up, lost, probing, ops, cut>>

(* The CGI request was answered (ok), or failed: not sent, refused, or its answer lost *)
CgiAnswered(ok) ==
    /\ op.at \in {"cgi", "ran"} /\ (ok => op.at = "ran")
    /\ Over(ok)
    /\ IF op.what = "stop" /\ (op.failed \/ lost) /\ ~cl.closed
       THEN Arm ELSE UNCHANGED <<restop, resend, withdrawn>>
    /\ UNCHANGED <<call, cl, net, head, faults, slips, up, lost, probing, ops, cut>>

(* The loop of ViscaRestop: its delay is over, it sends the stop again *)
Resend ==
    /\ restop /\ resend = NoJob
    /\ Enqueue("restop") /\ resend' = Len(call) + 1
    /\ UNCHANGED <<withdrawn, net, head, faults, slips, op, up, lost, restop, probing, last, ops, cut>>

(* The re-stop was answered: taken, or tried again later *)
Resent ==
    /\ resend # NoJob /\ Answer(resend) # "none"
    /\ resend' = NoJob
    /\ IF Answer(resend) \in {"ok", "assumed"}
       THEN restop' = FALSE /\ up' = TRUE /\ lost' = (lost /\ up)
       ELSE UNCHANGED <<restop, up, lost>>
    /\ UNCHANGED <<viscaVars, op, probing, last, ops, cut>>

(* status() probes while VISCA is lost (30 seconds after the last probe, not after the loss) *)
Probe ==
    /\ ~up /\ lost /\ probing = NoJob
    /\ Enqueue("probe") /\ probing' = Len(call) + 1
    /\ UNCHANGED <<withdrawn, net, head, faults, slips, op, up, lost, restop, resend, last, ops, cut>>

Probed ==
    /\ probing # NoJob /\ Answer(probing) # "none"
    /\ probing' = NoJob
    /\ up' = ~LinkFailure(Answer(probing)) /\ lost' = ~up'
    /\ slips' = IF up' /\ op.at \in {"cgi", "ran"} THEN slips \cup {"probed"} ELSE slips
    /\ UNCHANGED <<client, net, head, faults, op, restop, resend, last, ops, cut>>

(* close(): the re-stop ends, the client closes; VISCA counts as down from now on *)
Close ==
    /\ CloseClient
    /\ restop' = FALSE /\ resend' = NoJob /\ up' = FALSE
    /\ withdrawn' = IF resend = NoJob THEN withdrawn ELSE withdrawn \cup {resend}
    /\ UNCHANGED <<net, head, faults, slips, op, lost, probing, last, ops, cut>>

(* What runs before the next event is taken: the continuations of settled promises *)
Microtasks == (PumpNext /\ UNCHANGED driverVars) \/ MoveAnswered \/ StopAnswered \/ Resent \/ Probed
Due == \/ cl.stage = "idle" /\ cl.queue # <<>> /\ ~cl.closed
       \/ \E c \in {op.call, resend, probing} \ {NoJob} :
              Answer(c) # "none" /\ (c = op.call => op.at = "visca")

Events ==
    \/ \E what \in {"move", "stop"} : Begin(what)
    \/ CgiRuns \/ \E ok \in BOOLEAN : CgiAnswered(ok)
    \/ Resend \/ Probe \/ Close
    \/ ClientSteps /\ UNCHANGED driverVars
    \/ WorldSteps /\ UNCHANGED driverVars

Next == IF Due THEN Microtasks ELSE Events

Spec == DriverInit /\ [][Next]_vars

(* Continuations run, timers fire, and a datagram arrives or is lost in the end *)
Timers == ~Due /\ (WaitOver \/ ResetTimer \/ AttemptTimer) /\ UNCHANGED driverVars
Delivery == ~Due /\ ((\E i \in DOMAIN toUs : Datagram(i)) \/ \E i \in DOMAIN toCam : HeadReceives(i)) /\ UNCHANGED driverVars
FairSpec == Spec /\ WF_vars(Due /\ Microtasks) /\ WF_vars(Timers) /\ WF_vars(Delivery)

-----------------------------------------------------------------------------
(* Nothing more will reach the head, and nothing is left to be sent to it *)
Quiet == /\ op = NoOp /\ ~restop /\ ~cl.closed
         /\ cl.job = NoJob /\ cl.queue = <<>>
         /\ ~\E i \in DOMAIN toCam : toCam[i].kind = "message"

(* The client mistook no datagram for another one's, and nobody interfered *)
Undisturbed == slips = {}

(* What the head was last told and reported as done is what it does, when everything
   sent has arrived. After a stop it is at rest, whichever of VISCA and CGI carried
   it, although a move sent before may have been lost, retransmitted or late: this
   is what ViscaRestop is for. After a move it moves: a re-stop that belongs to an
   earlier stop never ends it, unless that one could no longer be recalled. *)
LastCommandHolds ==
    Undisturbed /\ Quiet /\ last.ok =>
        /\ last.what = "stop" => ~moving
        /\ last.what = "move" /\ ~cut => moving

(* A command is carried out at most once by a head that remembers what it has
   handled, whatever is lost, late or overtaken: a retransmission carries the
   sequence number of the first copy. Only the answer to an earlier RESET, taken for
   that to a later one, could make the client use numbers twice. *)
RunsOnce == slips \cap {"forgot", "stray"} = {} => \A c \in Calls : Command(c) => call[c].ran <= 1

(* The client tells the driver what happened at the head: a command reported as
   taken, or assumed taken after a sequence error, has run; a refused one has not.
   On a network that keeps no order too, for heads that echo the number. *)
AnswersAreTrue ==
    slips \subseteq {"probed", "overtaken"} => \A c \in Calls : Command(c) =>
        /\ Answer(c) \in {"ok", "assumed"} => call[c].ran > 0
        /\ Answer(c) = "refused" => call[c].ran = 0

(* Every call made of the client is answered, also when the client is closed with
   a RESET pending or a buffer awaited: no promise hangs and no lane stays taken. *)
Open(c) == c \in Calls /\ Answer(c) = "none"
EveryCallSettles == \A c \in 1..MaxCalls : Open(c) ~> ~Open(c)
=============================================================================
