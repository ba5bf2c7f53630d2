------------------------------- MODULE MCCamd -------------------------------
(***************************************************************************)
(* Two parts of camd in one run: CamdJobs with a record start and a record *)
(* stop; and CamdDiscovery with two bodies of one model and an entry of    *)
(* every kind, two configured at a time.  They share no state, so one      *)
(* works while the other is in its initial state, where nothing of it is   *)
(* bound to happen.                                                        *)
(***************************************************************************)
EXTENDS CamdJobs, CamdDiscovery, TLC

CONSTANTS body1, body2, byMac, byDev, byIp, byModel, start1, stop1

MCStart == {start1}
MCStop  == {stop1}
MCJob   == MCStart \cup MCStop

Is(dev, mac, ip, model) == [dev |-> dev, mac |-> mac, ip |-> ip, model |-> model]

MCBody     == {body1, body2}
MCEntry    == {byMac, byDev, byIp, byModel}
MCIdentity == body1 :> Is("da", "ma", "ia", "FX30") @@ body2 :> Is("db", "mb", "ib", "FX30")
MCConfig   == byMac :> Is(Unset, "ma", Unset, "FX30") @@ byDev :> Is("da", Unset, Unset, "FX30")
              @@ byIp :> Is(Unset, Unset, "ia", "FX30") @@ byModel :> Is(Unset, Unset, Unset, "FX30")

MCInit == Init /\ DiscoveryInit

MCNext ==
  \/ Next /\ DiscoveryInit /\ UNCHANGED discoveryVars
  \/ Init /\ DiscoveryNext /\ UNCHANGED vars

MCSpec == MCInit /\ [][MCNext]_<<vars, discoveryVars>> /\ DiscoveryFairness
=============================================================================
