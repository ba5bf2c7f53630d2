------------------------------- MODULE SacnOutput -------------------------------
(***************************************************************************)
(* lighting/output.js: the one UDP socket of the sACN sender, bound to the   *)
(* lighting interface's address. The interface comes and goes, changes its   *)
(* address, and the settings change while a bind is under way.               *)
(*                                                                         *)
(* What a frame holds, its sequence numbers and the error counters of single *)
(* sends are left out, and so is the multicast mode. Dry-run is output off.  *)
(***************************************************************************)
EXTENDS Integers, Sequences, SequencesExt

CONSTANTS
    Address,    \* addresses the lighting interface may have
    None,
    MaxEvents   \* bound on everything that happens besides commands

ASSUME OutputAssumption == None \notin Address /\ MaxEvents \in Nat

VARIABLES
    up,         \* the program runs: the output is opened and not closed
    settings,   \* whether frames are sent, and where: an address, or "auto", the interface's own
    nic,        \* the address the interface has now
    out,        \* socket, bound, binding, retryTimer and watchTimer, and the binds under way
    events      \* how many events so far

outputVars == <<settings, nic, out>>

Closed == [sock |-> None, bound |-> None, binding |-> FALSE, inflight |-> <<>>, retry |-> FALSE, watch |-> FALSE]
Event == events < MaxEvents /\ events' = events + 1

OutputInit ==
    /\ settings = [enabled |-> TRUE, where |-> "auto"]
    /\ nic \in Address \cup {None} /\ out = Closed /\ events = 0

(* resolveLocalAddress *)
Where(s) == IF s.where \in {"auto", nic} THEN nic ELSE None

(* A frame leaves the computer, and by the interface it has now *)
Reaches == up /\ settings.enabled /\ out.bound # None /\ out.sock = nic

RetryLater(o) == [o EXCEPT !.retry = TRUE]

MutEnsureSocket(o, s) ==   \* does not look at `binding`
    IF o.sock # None THEN o
    ELSE IF Where(s) = None THEN RetryLater(o)
    ELSE [o EXCEPT !.binding = TRUE, !.inflight = Append(@, Where(s))]

(* #ensureSocket *)
EnsureSocket(o, s) ==
    IF o.sock # None \/ o.binding THEN o
    ELSE IF Where(s) = None THEN RetryLater(o)
    ELSE [o EXCEPT !.binding = TRUE, !.inflight = Append(@, Where(s))]

(* #closeSocket: a bind under way goes on *)
CloseSocket(o) == [o EXCEPT !.watch = FALSE, !.sock = None, !.bound = None]

(* configure *)
Configured(s) ==
    EnsureSocket(IF s.where # settings.where THEN CloseSocket(out) ELSE out, s)

(* The bind's callback: for the address it was asked for, whatever the settings are now *)
MutBound ==   \* nobody watches the address
    /\ up /\ out.inflight # <<>>
    /\ LET a == Head(out.inflight)
       IN  out' = [out EXCEPT !.binding = FALSE, !.inflight = Tail(@), !.sock = a, !.bound = a]
    /\ UNCHANGED <<up, settings, nic, events>>
Bound ==
    /\ up /\ out.inflight # <<>>
    /\ LET a == Head(out.inflight)
       IN  out' = [out EXCEPT !.binding = FALSE, !.inflight = Tail(@), !.sock = a, !.bound = a, !.watch = TRUE]
    /\ UNCHANGED <<up, settings, nic, events>>

(* The socket's error event, of the bind or of the bound socket *)
BindFails ==
    /\ up /\ out.inflight # <<>> /\ Event
    /\ out' = RetryLater([out EXCEPT !.binding = FALSE, !.bound = None, !.inflight = Tail(@)])
    /\ UNCHANGED <<up, settings, nic>>
SocketFails ==
    /\ up /\ out.sock # None /\ Event
    /\ out' = RetryLater([out EXCEPT !.binding = FALSE, !.bound = None, !.sock = None])
    /\ UNCHANGED <<up, settings, nic>>

(* The timer of #retryLater *)
RetryTimer ==
    /\ up /\ out.retry
    /\ out' = EnsureSocket([out EXCEPT !.retry = FALSE], settings)
    /\ UNCHANGED <<up, settings, nic, events>>

(* The interval of #watchAddress *)
WatchTimer ==
    /\ up /\ out.watch
    /\ Where(settings) = None \/ Where(settings) # out.bound
    /\ out' = EnsureSocket(CloseSocket(out), settings)
    /\ UNCHANGED <<up, settings, nic, events>>

(* The interface goes down, comes up or gets another address *)
NicChanges ==
    /\ Event /\ nic' \in (Address \cup {None}) \ {nic}
    /\ UNCHANGED <<up, settings, out>>

OutputNext == Bound \/ BindFails \/ SocketFails \/ RetryTimer \/ WatchTimer \/ NicChanges

(* However the binds, the errors, the two timers and the settings fall together, there
   is never a second socket: one is bound, or one is being bound, and none is left open. *)
OneSocket == Len(out.inflight) + (IF out.sock = None THEN 0 ELSE 1) <= 1
=============================================================================
