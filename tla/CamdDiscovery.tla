---------------------------- MODULE CamdDiscovery ----------------------------
(***************************************************************************)
(* Which body a camera entry stands for: the discovery loop of             *)
(* camd/src/registry.cpp, with addCamera and removeCamera started beside   *)
(* it.  A sweep enumerates the bodies, takes a snapshot of the entries and *)
(* matches the two in order of strength, a pass at a time over all the     *)
(* entries: by the SDK's device identity, by MAC, by address, by model.    *)
(* An entry added meanwhile is offered its body from the last enumeration. *)
(*                                                                         *)
(* The workers are CamdWorker's; here one is the target it was offered     *)
(* last and whether that was visible at the last sweep.                    *)
(*                                                                         *)
(* Abstractions.  Bodies and entries have fixed identities and addresses;  *)
(* the SDK lists a body at once when it is present, in some order.  The    *)
(* thread that adds an entry is its own; only one adds at a time.          *)
(***************************************************************************)
EXTENDS Naturals, FiniteSets, Sequences, SequencesExt

CONSTANTS Body, Entry,  \* bodies; entries the operator may configure
          Identity,     \* body -> [dev, mac, ip, model]
          Config,       \* entry -> [dev, mac, ip, model], Unset for what it does not say
          MaxEntries,   \* bound: entries configured at a time
          MaxMeanwhile, \* bound: entries added or removed during one sweep
          Unset

Passes == <<"dev", "mac", "ip", "model">>

ASSUME DiscoveryAssumption ==
  /\ MaxEntries \in Nat /\ MaxMeanwhile \in Nat
  /\ IsFiniteSet(Body) /\ IsFiniteSet(Entry) /\ Unset \notin Body \cup Entry
  /\ DOMAIN Identity = Body /\ DOMAIN Config = Entry
  /\ \A b, d \in Body : b # d => Identity[b].dev # Identity[d].dev
                                 /\ (Identity[b].mac # Unset => Identity[b].mac # Identity[d].mac)

VARIABLES
  started,     \* the registry is started: the discovery thread is there
  present,     \* bodies powered and reachable
  roster,      \* workers_ and cfg_.cameras: the entries, in the order they were added
  adding,      \* the entry added and not yet offered anything, or Unset
  discovered,  \* the last enumeration
  sweep,       \* the sweep: its entries, the pass it is in (0 when over) and the entry it
               \* is at; which entries are gone since, and how many came or went
  claimed,     \* body -> the entry this sweep gave it to, or Unset
  target,      \* entry -> the body last offered to its worker, or Unset
  visible      \* entry -> targetVisible_

discoveryVars == <<started, present, roster, adding, discovered, sweep, claimed, target, visible>>

Missing == 5   \* after the passes, the entries without a body are told so

DiscoveryTypeOK ==
  /\ started \in BOOLEAN /\ present \subseteq Body /\ discovered \subseteq Body
  /\ roster \in Seq(Entry) /\ adding \in Entry \cup {Unset}
  /\ sweep \in [entries : Seq(Entry), pass : 0..Missing, at : Nat, gone : SUBSET Entry, changes : 0..MaxMeanwhile]
  /\ claimed \in [Body -> Entry \cup {Unset}]
  /\ target \in [Entry -> Body \cup {Unset}] /\ visible \in [Entry -> BOOLEAN]

DiscoveryInit ==
  /\ started = FALSE /\ present = {} /\ discovered = {}
  /\ roster = <<>> /\ adding = Unset
  /\ sweep = [entries |-> <<>>, pass |-> 0, at |-> 1, gone |-> {}, changes |-> 0]
  /\ claimed = [b \in Body |-> Unset]
  /\ target = [e \in Entry |-> Unset] /\ visible = [e \in Entry |-> FALSE]

-----------------------------------------------------------------------------
Appears(b) == b \notin present /\ present' = present \cup {b} /\ UNCHANGED <<started, roster, adding, discovered, sweep, claimed, target, visible>>

Vanishes(b) == b \in present /\ present' = present \ {b} /\ UNCHANGED <<started, roster, adding, discovered, sweep, claimed, target, visible>>

(* offerDiscovery: the worker has a target, and sees it. *)
Offer(e, b) ==
  /\ target' = [target EXCEPT ![e] = b]
  /\ visible' = [visible EXCEPT ![e] = TRUE]

Says(e, what)  == Config[e][what] # Unset
Fits(e, what, b) == Says(e, what) /\ Identity[b][what] = Config[e][what]

(* An entry that names a device identity, or a MAC, is pinned to that body *)
(* and falls back to nothing.                                              *)
Uses(e, what) ==
  CASE what = "dev" -> TRUE
    [] what = "mac" -> ~Says(e, "dev")
    [] OTHER        -> ~Says(e, "dev") /\ ~Says(e, "mac")

Pinned(e, b) == \E what \in {"dev", "mac"} : Uses(e, what) /\ Fits(e, what, b)

(* An entry is added or removed, between sweeps or during one. *)
Meanwhile(gone) ==
  IF sweep.pass = 0 THEN sweep' = [sweep EXCEPT !.gone = @ \cup gone]
  ELSE sweep.changes < MaxMeanwhile /\ sweep' = [sweep EXCEPT !.gone = @ \cup gone, !.changes = @ + 1]

(* addCamera, under the lock: refused when an entry names the same device  *)
(* identity or the same MAC.                                               *)
AddCamera(e) ==
  /\ started /\ adding = Unset /\ e \notin Range(roster) /\ Len(roster) < MaxEntries
  /\ \A f \in Range(roster), what \in {"dev", "mac"} : Says(e, what) => Config[f][what] # Config[e][what]
  /\ roster' = Append(roster, e)
  /\ adding' = e
  /\ Meanwhile({})
  /\ UNCHANGED <<started, present, discovered, claimed, target, visible>>

(* addCamera, after it: a pinned entry is offered its body at once.        *)
Added ==
  /\ adding # Unset /\ adding' = Unset
  /\ IF \E b \in discovered : Pinned(adding, b)
     THEN Offer(adding, CHOOSE b \in discovered : Pinned(adding, b))
     ELSE UNCHANGED <<target, visible>>
  /\ UNCHANGED <<started, present, roster, discovered, sweep, claimed>>

(* removeCamera: the worker is stopped and forgotten, though a sweep under *)
(* way still goes over it.                                                 *)
RemoveCamera(e) ==
  /\ started /\ adding # e
  /\ \E i \in DOMAIN roster : roster[i] = e /\ roster' = RemoveAt(roster, i)
  /\ Meanwhile({e})
  /\ target' = [target EXCEPT ![e] = Unset]
  /\ visible' = [visible EXCEPT ![e] = FALSE]
  /\ UNCHANGED <<started, present, adding, discovered, claimed>>

-----------------------------------------------------------------------------
Between == sweep.pass = 0

Begin == ~started /\ started' = TRUE
         /\ UNCHANGED <<present, roster, adding, discovered, sweep, claimed, target, visible>>

(* discover() returns. *)
Discover ==
  /\ started /\ Between
  /\ discovered' = present
  /\ sweep' = [sweep EXCEPT !.pass = 1, !.at = 0]
  /\ UNCHANGED <<started, present, roster, adding, claimed, target, visible>>

(* Mutant: the entries are those of the first sweep. *)
MutSnapshot ==
  /\ sweep.pass = 1 /\ sweep.at = 0
  /\ sweep' = [sweep EXCEPT !.entries = IF @ = <<>> THEN roster ELSE @, !.at = 1]
  /\ UNCHANGED <<started, present, roster, adding, discovered, claimed, target, visible>>

(* The entries to be matched are those of this moment. *)
Snapshot ==
  /\ sweep.pass = 1 /\ sweep.at = 0
  /\ sweep' = [sweep EXCEPT !.entries = roster, !.at = 1, !.gone = {}]
  /\ UNCHANGED <<started, present, roster, adding, discovered, claimed, target, visible>>

Assigned(e) == \E b \in Body : claimed[b] = e
Free        == {b \in discovered : claimed[b] = Unset}

(* Mutant: every entry takes the strongest match left to it, at its turn. *)
MutCandidates(e) ==
  LET by(what) == {b \in Free : Uses(e, what) /\ Fits(e, what, b)}
      ways     == {i \in 1..4 : by(Passes[i]) # {}} IN
  IF ways = {} THEN {} ELSE by(Passes[CHOOSE i \in ways : \A j \in ways : i <= j])

(* The bodies this pass can give the entry; a model only when one of it is *)
(* left.                                                                   *)
Candidates(e) ==
  LET what == Passes[sweep.pass]
      fit  == {b \in Free : Uses(e, what) /\ Fits(e, what, b)} IN
  IF what = "model" /\ Cardinality(fit) # 1 THEN {} ELSE fit

(* On to the next entry, to the next pass, or over. *)
Step ==
  IF sweep.at < Len(sweep.entries) THEN sweep' = [sweep EXCEPT !.at = @ + 1]
  ELSE sweep' = [sweep EXCEPT !.pass = IF @ = Missing THEN 0 ELSE @ + 1, !.at = 1,
                              !.changes = IF sweep.pass = Missing THEN 0 ELSE @]

(* One entry in one pass.  A worker that is gone keeps its body from the   *)
(* others for the rest of the sweep.                                       *)
Match ==
  /\ sweep.pass \in 1..4 /\ sweep.at \in DOMAIN sweep.entries
  /\ Step
  /\ LET e == sweep.entries[sweep.at] IN
     IF Assigned(e) \/ Candidates(e) = {} THEN UNCHANGED <<claimed, target, visible>>
     ELSE \E b \in Candidates(e) :
            /\ claimed' = [claimed EXCEPT ![b] = e]
            /\ IF e \in sweep.gone THEN UNCHANGED <<target, visible>> ELSE Offer(e, b)
  /\ UNCHANGED <<started, present, roster, adding, discovered>>

(* offerMissing: the target stays, for another try. *)
TellMissing ==
  /\ sweep.pass = Missing /\ sweep.at \in DOMAIN sweep.entries
  /\ Step
  /\ LET e == sweep.entries[sweep.at] IN
     visible' = [visible EXCEPT ![e] = @ /\ (Assigned(e) \/ e \in sweep.gone)]
  /\ claimed' = IF sweep.at = Len(sweep.entries) THEN [b \in Body |-> Unset] ELSE claimed
  /\ UNCHANGED <<started, present, roster, adding, discovered, target>>

(* Nothing is configured. *)
NothingToDo ==
  /\ sweep.pass = 1 /\ sweep.at = 1 /\ sweep.entries = <<>>
  /\ sweep' = [sweep EXCEPT !.pass = 0, !.changes = 0]
  /\ UNCHANGED <<started, present, roster, adding, discovered, claimed, target, visible>>

-----------------------------------------------------------------------------
DiscoveryNext ==
  \/ \E b \in Body : Appears(b) \/ Vanishes(b)
  \/ \E e \in Entry : AddCamera(e) \/ RemoveCamera(e)
  \/ Added \/ Begin \/ Discover \/ Snapshot \/ Match \/ TellMissing \/ NothingToDo

DiscoverySpec == DiscoveryInit /\ [][DiscoveryNext]_discoveryVars

(* The loop goes on for ever, and an addCamera under way ends. *)
DiscoveryFairness ==
  /\ WF_discoveryVars(Added) /\ WF_discoveryVars(Discover) /\ WF_discoveryVars(Snapshot)
  /\ WF_discoveryVars(Match) /\ WF_discoveryVars(TellMissing) /\ WF_discoveryVars(NothingToDo)

-----------------------------------------------------------------------------
Swept == Range(sweep.entries) \ sweep.gone

Rival(e, b) == \E f \in (Range(roster) \cup Range(sweep.entries)) \ {e} : Pinned(f, b)

(* When a sweep is over, the strongest claim to a body has it, whatever    *)
(* order the entries are in and whichever were added or removed meanwhile: *)
(* no two of the entries it went over see the same body; one that pins a   *)
(* body sees that body or none, and sees it when it was found, unless      *)
(* another entry pins it as well; and one that only names an address or a  *)
(* model has no body that an entry of the sweep pins.                      *)
StrongestMatchWins ==
  Between =>
    /\ \A e, f \in Swept : e # f /\ visible[e] /\ visible[f] /\ target[e] = target[f] =>
                                Pinned(e, target[e]) /\ Pinned(f, target[e])
    /\ \A e \in Swept, b \in discovered : Pinned(e, b) => (visible[e] /\ target[e] = b) \/ Rival(e, b)
    /\ \A e \in Swept : visible[e] =>
         \/ Pinned(e, target[e])
         \/ ~Says(e, "dev") /\ ~Says(e, "mac") /\ \A f \in Swept : ~Pinned(f, target[e])

(* A body that is there, and stays, is found by the entry that pins it,    *)
(* whenever that was added; and an entry whose body is gone is told.       *)
PinnedIsFound ==
  \A p \in {q \in Entry \X Body : Pinned(q[1], q[2])} :
    LET e == p[1]
        b == p[2] IN
    (started /\ e \in Range(roster)) ~>
       \/ e \notin Range(roster) \/ Rival(e, b)
       \/ visible[e] = (b \in present) /\ (visible[e] => target[e] = b)
=============================================================================
