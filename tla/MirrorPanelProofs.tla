-------------------------- MODULE MirrorPanelProofs --------------------------
(***************************************************************************)
(* Theorems of the two links by which cambridge shows what others know:    *)
(* PanelController on RawPanel, which shows the cameras to an operator,    *)
(* and RecordMirror, which shows what camd knows of a camera.              *)
(*                                                                         *)
(* The panel, for any lanes, cameras, groups, buttons and bounds: what it  *)
(* holds moving it can stop (HoldsItsStick), what it shows is what its     *)
(* buttons do (PanelIsCurrent), and a panel that is to be driven is never  *)
(* given up (PanelIsSought).  The argument is in three layers.  LinkInv    *)
(* says how the link's timers and flags go together, HoldInv ties every    *)
(* held lane to the selected camera's place in the scope, and SentInv and  *)
(* ShownInv follow the face from the cameras to what was sent and from     *)
(* there to what is shown.                                                 *)
(*                                                                         *)
(* The mirror, for any length of a client's queue: type correctness, that  *)
(* the take log agrees with it, and that it follows what camd knows.       *)
(***************************************************************************)
EXTENDS PanelController, RecordMirror, FiniteSetTheorems, SequenceTheorems, WellFoundedInduction, TLAPS

(* How socket, timers and flags go together; what was heard of the panel   *)
(* on this connection never suffices to identify it without doing so.      *)
LinkInv ==
  /\ init => socket = "open" /\ ~identified
  /\ stopped => socket = "none" /\ ~retry
  /\ identified => socket = "open"
  /\ ~stopped => (socket = "none" <=> retry)
  /\ socket = "open" /\ ~identified => init
  /\ socket # "none" /\ ~identified => ~(model /\ topology # Null)
  /\ panel = "off" => ~peer

(* The lines a panel sends. *)
Line == [k : {"model", "refusal", "blocked"}] \cup [k : {"topology"}, on : SUBSET Control]
          \cup [k : {"map"}, id : Control, on : BOOLEAN] \cup [k : {"sleep"}, on : BOOLEAN]
          \cup [k : {"input"}, id : Lane, v : 0..1] \cup [k : {"input"}, id : {"keys"}, v : Presses]

RawInv == RawTypeOK /\ LinkInv /\ wire \in Seq(Line)

(* HoldsItsStick, with the camera online, in scope and the one selected.   *)
HoldInv ==
  \A c \in Camera, l \in Lane : held[c][l] =>
    /\ c \in online
    /\ \/ c \in slips
       \/ identified /\ roles # Null /\ l \in roles /\ axes[l] = 1 /\ selected = c /\ c \in Scope

(* The panel is up and its buttons have a role. *)
Live == identified /\ roles # Null /\ "keys" \in roles

(* With no repaint due, what was sent last is what is to be shown. *)
SentInv == Live /\ ~painting =>
  /\ ~clearFirst /\ sent.cams = Desired.cams /\ sent.sel = Desired.sel
  /\ sent.shift = Desired.shift \/ "store" \in slips

(* What was sent last is shown, unless the panel went to sleep since: then *)
(* it says so when it wakes, and is drawn again.                           *)
Quiet    == \A i \in DOMAIN wire : wire[i].k = "sleep" => wire[i].on
ShownInv == Live /\ peer /\ mode # "asleep" /\ Quiet /\ ~clearFirst => shown = sent

PanelInv == PanelTypeOK /\ RawInv /\ HoldInv /\ SentInv /\ ShownInv

-----------------------------------------------------------------------------
(* What the lines say. *)
LEMMA LineSays ==
  ASSUME NEW m \in Line, PanelAssumption
  PROVE  /\ m.k = "topology" => m.on \in SUBSET Control
         /\ m.k = "map" => m.id \in Control /\ m.on \in BOOLEAN
         /\ m.k = "sleep" => m.on \in BOOLEAN
         /\ m.k = "input" /\ m.id \in Lane => m.v \in 0..1
  BY DEF Line, PanelAssumption

LEMMA LineIs ==
  /\ \A k \in {"model", "refusal", "blocked"} : [k |-> k] \in Line
  /\ \A on \in SUBSET Control : [k |-> "topology", on |-> on] \in Line
  /\ \A on \in BOOLEAN : [k |-> "sleep", on |-> on] \in Line
  /\ \A id \in Control, on \in BOOLEAN : [k |-> "map", id |-> id, on |-> on] \in Line
  /\ \A id \in Lane, v \in 0..1 : [k |-> "input", id |-> id, v |-> v] \in Line
  /\ \A v \in Presses : [k |-> "input", id |-> "keys", v |-> v] \in Line
  BY DEF Line

(* A finite set in some order: each element in one place. *)
LEMMA InOrder ==
  ASSUME NEW S, IsFiniteSet(S)
  PROVE  /\ Cardinality(S) \in Nat
         /\ SetToSeq(S) \in [1..Cardinality(S) -> S]
         /\ SetToSeq(S) \in Seq(S) /\ Len(SetToSeq(S)) = Cardinality(S)
         /\ \A x \in S : \E i \in 1..Cardinality(S) : SetToSeq(S)[i] = x
<1> DEFINE n == Cardinality(S)
<1>1. n \in Nat /\ ExistsBijection(1..n, S)
  BY FS_CardinalityType
<1>2. PICK f \in Bijection(1..n, S) : TRUE
  BY <1>1 DEF ExistsBijection
<1>3. f \in [1..n -> S] /\ \A a, b \in 1..n : f[a] = f[b] => a = b
  BY <1>2 DEF Bijection, Injection, IsInjective
<1>4. \E g \in [1..n -> S] : IsInjective(g)
  BY <1>3 DEF IsInjective
<1>5. SetToSeq(S) \in [1..n -> S] /\ IsInjective(SetToSeq(S))
  BY <1>4 DEF SetToSeq
<1> DEFINE s == SetToSeq(S)
<1>6. IsFiniteSet(1..n) /\ Cardinality(1..n) = n
  BY <1>1, FS_Interval
<1>7. s \in Injection(1..n, S)
  BY <1>5 DEF Injection, IsInjective
<1>8. s \in Surjection(1..n, S)
  BY <1>6, <1>7, FS_Injection
<1>9. \A x \in S : \E i \in 1..n : s[i] = x
  BY <1>8 DEF Surjection
<1>10. s \in Seq(S) /\ Len(s) = n
  BY <1>1, <1>5
<1> QED
  BY <1>1, <1>5, <1>9, <1>10

LEMMA EntriesAre ==
  ASSUME NEW on, PanelAssumption
  PROVE  Entries(on) \in Seq(Line) /\ \A i \in DOMAIN Entries(on) : Entries(on)[i].k = "map"
<1> DEFINE cs == SetToSeq(Control)
<1>1. cs \in Seq(Control)
  BY InOrder DEF PanelAssumption
<1>2. \A i \in 1..Len(cs) : [k |-> "map", id |-> cs[i], on |-> cs[i] \in on] \in Line
  <2> TAKE i \in 1..Len(cs)
  <2>1. cs[i] \in Control /\ (cs[i] \in on) \in BOOLEAN
    BY <1>1
  <2> QED
    BY <2>1, LineIs
<1> DEFINE e == [i \in 1..Len(cs) |-> [k |-> "map", id |-> cs[i], on |-> cs[i] \in on]]
<1>3. e \in Seq(Line)
  <2>1. Len(cs) \in Nat
    BY <1>1
  <2>2. e \in [1..Len(cs) -> Line]
    BY <1>2
  <2> QED
    BY ONLY <2>1, <2>2, SeqDef
<1>4. \A i \in DOMAIN e : e[i].k = "map"
  OBVIOUS
<1>5. Entries(on) = e
  BY DEF Entries
<1> QED
  BY <1>3, <1>4, <1>5

-----------------------------------------------------------------------------
(* The link by itself: what a step of the panel does to it. *)
RawNext ==
  \/ Start \/ Reconnect \/ Connected \/ Gone \/ LinkClosed \/ InitTimedOut \/ Stop
  \/ Model \/ Topology \/ MapEntry \/ Sleep \/ Blocked \/ Input \/ Refused
  \/ Power \/ Changes
  \/ \E l \in Lane, v \in 0..1 : Hand(l, v)
  \/ \E b \in Presses : Hand("keys", b)
  \/ Fault /\ UNCHANGED <<panel, mode, peer, wire, link, known>>
  \/ UNCHANGED rawvars

LEMMA PanelToRaw ==
  ASSUME PanelAssumption, PanelTypeOK, PanelNext
  PROVE  RawNext
<1>1. CASE Drive \/ Leave \/ Loses \/ Opens \/ TimedOut
  BY <1>1 DEF Drive, Leave, Loses, Opens, TimedOut, RawNext
<1>2. CASE Listen
  BY <1>2 DEF Listen, Identified, MapChanges, Sleeps, Blocks, Ignored, Stick, Means, Key,
              Store, StopAll, PagesOn, CyclesGroup, Select, Preset, RawNext
<1>3. CASE Render \/ Lapse
  BY <1>3 DEF Render, Lapse, RawNext
<1>4. CASE CamerasChange
  BY <1>4 DEF CamerasChange, RawNext, Fault
<1>5. CASE Hands
  <2>1. CASE \E l \in Lane : Hand(l, 1 - stick[l])
    <3>1. \A l \in Lane : 1 - stick[l] \in 0..1
      BY DEF PanelTypeOK
    <3> QED
      BY <2>1, <3>1 DEF RawNext
  <2>2. CASE \E b \in Presses : Hand("keys", b)
    BY <2>2 DEF RawNext
  <2> QED
    BY <1>5, <2>1, <2>2 DEF Hands
<1>6. CASE PanelActs
  BY <1>6 DEF PanelActs, RawNext
<1> QED
  BY <1>1, <1>2, <1>3, <1>4, <1>5, <1>6 DEF PanelNext

(* The lines on the way stay lines. *)
LEMMA WireStep ==
  ASSUME PanelAssumption, wire \in Seq(Line), RawNext
  PROVE  wire' \in Seq(Line)
<1>0. /\ \A on : Entries(on) \in Seq(Line)
      /\ <<>> \in Seq(Line)
  BY EntriesAre
<1>1. ASSUME NEW s \in Seq(Line), Tell(s)
      PROVE  wire' \in Seq(Line)
  BY <1>1 DEF Tell
<1>2. CASE Start \/ Reconnect
  BY <1>2 DEF Start, Reconnect
<1>3. CASE Connected
  <2>1. [k |-> "model"] \in Line /\ [k |-> "topology", on |-> Control] \in Line
    BY LineIs
  <2>2. /\ <<[k |-> "model"], [k |-> "topology", on |-> Control]>> \in Seq(Line)
        /\ <<[k |-> "model"]>> \in Seq(Line)
    BY <2>1
  <2> DEFINE a == <<[k |-> "model"], [k |-> "topology", on |-> Control]>>
             e == Entries(IF mode = "asleep" THEN {} ELSE Control)
  <2>3. a \in Seq(Line) /\ e \in Seq(Line)
    BY <1>0, <2>2
  <2>4. a \o e \in Seq(Line)
    <3> HIDE DEF a, e
    <3> QED
      BY <2>3
  <2>5. wire' \in {a \o e, <<[k |-> "model"]>>, <<>>}
    BY <1>3 DEF Connected
  <2> QED
    BY <1>0, <2>2, <2>4, <2>5
<1>4. CASE Gone \/ LinkClosed \/ Stop \/ Refused
  BY <1>0, <1>4 DEF Gone, LinkClosed, Stop, Refused, Fail, CloseSocket
<1>5. CASE InitTimedOut
  BY <1>0, <1>5 DEF InitTimedOut, Fail, CloseSocket
<1>6. CASE Model \/ Topology \/ MapEntry \/ Sleep \/ Blocked \/ Input
  <2>1. wire # <<>> /\ wire' = Tail(wire)
    BY <1>6 DEF Model, Topology, MapEntry, Sleep, Blocked, Input, Says, Take
  <2> QED
    BY <2>1
<1>7. CASE Power
  <2>1. [k |-> "refusal"] \in Line
    BY LineIs
  <2>2. <<[k |-> "refusal"]>> \in Seq(Line)
    BY <2>1
  <2>3. Tell(<<[k |-> "refusal"]>>) \/ wire' = wire \/ wire' = <<>>
    BY <1>7 DEF Power
  <2> QED
    BY <1>0, <1>1, <2>2, <2>3
<1>8. CASE Changes
  <2>1. /\ [k |-> "sleep", on |-> TRUE] \in Line /\ [k |-> "sleep", on |-> FALSE] \in Line
        /\ [k |-> "blocked"] \in Line
        /\ \A on \in SUBSET Control : [k |-> "topology", on |-> on] \in Line
    BY LineIs
  <2>2. Append(Entries({}), [k |-> "sleep", on |-> TRUE]) \in Seq(Line)
    BY <1>0, <2>1, AppendProperties
  <2>3. <<[k |-> "sleep", on |-> FALSE]>> \o Entries(Control) \in Seq(Line)
    <3>1. <<[k |-> "sleep", on |-> FALSE]>> \in Seq(Line)
      BY <2>1
    <3> QED
      BY <1>0, <3>1, ConcatProperties
  <2>4. /\ <<[k |-> "blocked"]>> \in Seq(Line)
        /\ \A on \in SUBSET Control : <<[k |-> "topology", on |-> on]>> \in Seq(Line)
    BY <2>1
  <2>5. \/ Tell(Append(Entries({}), [k |-> "sleep", on |-> TRUE]))
        \/ Tell(<<[k |-> "sleep", on |-> FALSE]>> \o Entries(Control))
        \/ Tell(<<[k |-> "blocked"]>>)
        \/ wire' = wire
        \/ \E on \in SUBSET Control : Tell(<<[k |-> "topology", on |-> on]>>)
    BY <1>8 DEF Changes
  <2> QED
    BY <1>1, <2>2, <2>3, <2>4, <2>5
<1>9. ASSUME NEW c, NEW v, [k |-> "input", id |-> c, v |-> v] \in Line, Hand(c, v)
      PROVE  wire' \in Seq(Line)
  <2>1. <<[k |-> "input", id |-> c, v |-> v]>> \in Seq(Line)
    BY <1>9
  <2>2. wire' = wire \/ Tell(<<[k |-> "input", id |-> c, v |-> v]>>)
    BY <1>9 DEF Hand
  <2> QED
    BY <1>1, <2>1, <2>2
<1>10. CASE \E l \in Lane, v \in 0..1 : Hand(l, v)
  BY <1>9, <1>10, LineIs
<1>11. CASE \E b \in Presses : Hand("keys", b)
  BY <1>9, <1>11, LineIs
<1>12. CASE UNCHANGED rawvars \/ UNCHANGED wire
  BY <1>12 DEF rawvars
<1> QED
  BY <1>2, <1>3, <1>4, <1>5, <1>6, <1>7, <1>8, <1>10, <1>11, <1>12 DEF RawNext

(* The link's invariant is kept by every step. *)
LEMMA RawStep ==
  ASSUME PanelAssumption, RawInv, RawNext
  PROVE  RawInv'
<1>0. wire' \in Seq(Line)
  BY WireStep DEF RawInv
<1> USE DEF RawInv, RawTypeOK, LinkInv, link, known, device
<1>1. CASE Start
  BY <1>0, <1>1 DEF Start, OpenSocket, ResetPanel, Unsaid
<1>2. CASE Reconnect
  BY <1>0, <1>2 DEF Reconnect, OpenSocket, ResetPanel, Unsaid
<1>3. CASE Connected
  BY <1>0, <1>3 DEF Connected
<1>4. CASE Gone
  <2>1. ~stopped
    BY <1>4 DEF Gone, Deaf
  <2> QED
    BY <1>0, <1>4, <2>1 DEF Gone, Fail, CloseSocket
<1>5. CASE LinkClosed
  <2>1. ~stopped /\ faults' \in 0..MaxFaults
    BY <1>5 DEF LinkClosed, PanelAssumption
  <2> QED
    BY <1>0, <1>5, <2>1 DEF LinkClosed, Fail, CloseSocket
<1>6. CASE InitTimedOut
  <2>1. socket = "open" /\ ~stopped /\ faults' \in 0..MaxFaults
    BY <1>6 DEF InitTimedOut, PanelAssumption
  <2>2. CASE model /\ Ready /\ UNCHANGED <<wire, peer, socket, retry>>
    BY <1>0, <1>6, <2>1, <2>2 DEF InitTimedOut, Ready
  <2>3. CASE Fail
    BY <1>0, <1>6, <2>1, <2>3 DEF InitTimedOut, Fail, CloseSocket
  <2> QED
    BY <1>6, <2>2, <2>3 DEF InitTimedOut
<1>7. CASE Stop
  BY <1>0, <1>7 DEF Stop, CloseSocket
<1>8. ASSUME wire # <<>> PROVE Head(wire) \in Line
  BY <1>8
<1>9. CASE Model
  BY <1>0, <1>9 DEF Model, Says, Take, Identifies, Ready
<1>10. CASE Topology
  <2>1. Head(wire).on \in SUBSET Control
    BY <1>8, <1>10, LineSays DEF Topology, Says
  <2> QED
    BY <1>0, <1>10, <2>1 DEF Topology, Says, Take, Identifies, Ready
<1>11. CASE MapEntry
  <2>1. Head(wire).id \in Control
    BY <1>8, <1>11, LineSays DEF MapEntry, Says
  <2>2. map' \in [Control -> {"unsaid", "on", "off"}]
    BY <1>11, <2>1 DEF MapEntry
  <2> QED
    BY <1>0, <1>11, <2>2 DEF MapEntry, Says, Take, Identifies, Ready
<1>12. CASE Sleep
  <2>1. Head(wire).on \in BOOLEAN
    BY <1>8, <1>12, LineSays DEF Sleep, Says
  <2> QED
    BY <1>0, <1>12, <2>1 DEF Sleep, Says, Take, Identifies, Ready
<1>13. CASE Blocked \/ Input
  BY <1>0, <1>13 DEF Blocked, Input, Says, Take, Identifies, Ready
<1>14. CASE Refused
  BY <1>0, <1>14 DEF Refused, Says, Fail, CloseSocket
<1>15. ASSUME Fault PROVE faults' \in 0..MaxFaults
  BY <1>15 DEF Fault, PanelAssumption
<1>16. CASE Power
  BY <1>0, <1>15, <1>16 DEF Power, Tell
<1>17. CASE Changes
  <2>1. mode' \in {"awake", "asleep", "blocked"}
    BY <1>17 DEF Changes
  <2> QED
    BY <1>0, <1>15, <1>17, <2>1 DEF Changes
<1>18. CASE \E c, v : Hand(c, v)
  BY <1>0, <1>18 DEF Hand
<1>19. CASE Fault /\ UNCHANGED <<panel, mode, peer, wire, link, known>>
  BY <1>0, <1>15, <1>19
<1>20. CASE UNCHANGED rawvars
  BY <1>20 DEF rawvars
<1> QED
  BY <1>1, <1>2, <1>3, <1>4, <1>5, <1>6, <1>7, <1>9, <1>10, <1>11, <1>12, <1>13, <1>14,
     <1>16, <1>17, <1>18, <1>19, <1>20 DEF RawNext

-----------------------------------------------------------------------------
(* The cameras in order, the selection, the pages of buttons. *)
LEMMA Least ==
  ASSUME NEW S \in SUBSET Nat, S # {}
  PROVE  \E n \in S : \A k \in S : n <= k
<1> DEFINE R == OpToRel(<, Nat)
<1>1. IsWellFoundedOn(R, Nat)
  BY NatLessThanWellFounded
<1>2. \A x, y \in Nat : x < y => <<x, y>> \in R
  BY DEF OpToRel
<1> HIDE DEF R
<1>3. PICK n \in S : \A k \in S : <<k, n>> \notin R
  BY <1>1, WFMin
<1>4. \A k \in S : k \in Nat /\ n \in Nat
  OBVIOUS
<1>5. \A k \in S : ~(k < n)
  BY <1>2, <1>3, <1>4
<1> QED
  BY <1>3, <1>4, <1>5

LEMMA FirstIn ==
  ASSUME PanelAssumption, NEW cs \in SUBSET Camera, cs # {}
  PROVE  First(cs) \in cs
<1>1. DOMAIN Order = 1..Len(Order) /\ Len(Order) \in Nat
  BY DEF PanelAssumption
<1>2. \A c \in cs : Place(c) \in Nat
  <2> TAKE c \in cs
  <2>1. \E i \in DOMAIN Order : Order[i] = c
    BY DEF Camera
  <2>2. Place(c) \in DOMAIN Order
    BY <2>1 DEF Place
  <2> QED
    BY <1>1, <2>2
<1> DEFINE P == {Place(c) : c \in cs}
<1>3. P \in SUBSET Nat /\ P # {}
  BY <1>2
<1>4. PICK n \in P : \A k \in P : n <= k
  BY <1>3, Least
<1>5. \E c \in cs : \A d \in cs : Place(c) <= Place(d)
  BY <1>4
<1> QED
  BY <1>5 DEF First

(* Places differ, so the n-th camera is one of them. *)
LEMMA NthIn ==
  ASSUME PanelAssumption, NEW cs \in SUBSET Camera, IsFiniteSet(cs), NEW n
  PROVE  Nth(cs, n) \in cs \cup {Null}
<1>1. CASE n \notin 1..Cardinality(cs)
  BY <1>1 DEF Nth
<1>2. CASE n \in 1..Cardinality(cs)
  <2> DEFINE upTo(c) == {d \in cs : Place(d) <= Place(c)}
             f       == [c \in cs |-> Cardinality(upTo(c))]
             m       == Cardinality(cs)
  <2>1. DOMAIN Order = 1..Len(Order) /\ Len(Order) \in Nat
    BY DEF PanelAssumption
  <2>2. \A c \in cs : Place(c) \in Nat /\ Order[Place(c)] = c
    <3> TAKE c \in cs
    <3>1. \E i \in DOMAIN Order : Order[i] = c
      BY DEF Camera
    <3>2. Place(c) \in DOMAIN Order /\ Order[Place(c)] = c
      BY <3>1 DEF Place
    <3> QED
      BY <2>1, <3>2
  <2>3. m \in Nat
    BY FS_CardinalityType
  <2>4. ASSUME NEW c \in cs
        PROVE  /\ upTo(c) \in SUBSET cs /\ IsFiniteSet(upTo(c)) /\ c \in upTo(c)
               /\ Cardinality(upTo(c)) \in 1..m
    <3>1. upTo(c) \in SUBSET cs /\ c \in upTo(c)
      BY <2>2
    <3>2. IsFiniteSet(upTo(c)) /\ Cardinality(upTo(c)) <= m
      BY <3>1, FS_Subset
    <3>3. Cardinality(upTo(c)) \in Nat /\ Cardinality(upTo(c)) # 0
      BY <3>1, <3>2, FS_CardinalityType, FS_EmptySet
    <3> QED
      BY <2>3, <3>1, <3>2, <3>3
  <2>5. ASSUME NEW c \in cs, NEW d \in cs, Place(c) <= Place(d), Cardinality(upTo(c)) = Cardinality(upTo(d))
        PROVE  c = d
    <3>1. upTo(c) \in SUBSET upTo(d)
      BY <2>2, <2>5
    <3>2. upTo(c) = upTo(d)
      <4> HIDE DEF upTo
      <4> QED
        BY <2>4, <2>5, <3>1, FS_Subset
    <3>3. Place(d) <= Place(c)
      BY <2>4, <3>2
    <3> QED
      BY <2>2, <2>5, <3>3
  <2>6. f \in Injection(cs, 1..m)
    <3>1. f \in [cs -> 1..m]
      BY <2>4
    <3>2. \A c, d \in cs : f[c] = f[d] => c = d
      <4> TAKE c, d \in cs
      <4>1. Place(c) <= Place(d) \/ Place(d) <= Place(c)
        BY <2>2
      <4> QED
        BY <2>5, <4>1
    <3> QED
      BY <3>1, <3>2 DEF Injection, IsInjective
  <2>7. IsFiniteSet(1..m) /\ Cardinality(1..m) = m
    <3> HIDE DEF m
    <3> QED
      BY <2>3, FS_Interval
  <2>8. f \in Surjection(cs, 1..m)
    <3> HIDE DEF f
    <3> QED
      BY <2>6, <2>7, FS_Injection
  <2>9. \E c \in cs : Cardinality(upTo(c)) = n
    BY <1>2, <2>8 DEF Surjection
  <2> QED
    BY <1>2, <2>9 DEF Nth
<1> QED
  BY <1>1, <1>2

LEMMA CamerasAreFinite ==
  ASSUME PanelAssumption
  PROVE  IsFiniteSet(Camera) /\ Cardinality(Camera) <= Len(Order) /\ Len(Order) \in Nat
<1>1. DOMAIN Order = 1..Len(Order) /\ Len(Order) \in Nat
  BY DEF PanelAssumption
<1>2. IsFiniteSet(1..Len(Order)) /\ Cardinality(1..Len(Order)) = Len(Order)
  <2> DEFINE n == Len(Order)
  <2>1. n \in Nat
    BY <1>1
  <2> HIDE DEF n
  <2>2. IsFiniteSet(1..n) /\ Cardinality(1..n) = n
    BY <2>1, FS_Interval
  <2> QED
    BY <2>2 DEF n
<1>3. Order \in [1..Len(Order) -> Camera]
  BY <1>1 DEF PanelAssumption
<1>4. Order \in Surjection(1..Len(Order), Camera)
  BY <1>1, <1>3 DEF Surjection, Camera
<1>5. IsFiniteSet(Camera) /\ Cardinality(Camera) <= Cardinality(1..Len(Order))
  BY <1>2, <1>4, FS_Surjection
<1> QED
  BY <1>1, <1>2, <1>5

LEMMA ScopeIs ==
  ASSUME PanelAssumption, PanelTypeOK
  PROVE  /\ Scope \in SUBSET present /\ Scope \in SUBSET Camera
         /\ IsFiniteSet(Scope) /\ Cardinality(Scope) \in 0..Len(Order)
         /\ View \in SUBSET Scope /\ IsFiniteSet(View) /\ Cardinality(View) \in Nat
         /\ View # {} => Cardinality(View) >= 1
<1>1. Scope \in SUBSET present /\ Scope \in SUBSET Camera /\ View \in SUBSET Scope
  BY DEF Scope, ScopeOf, View, PanelTypeOK
<1>2. /\ IsFiniteSet(Scope) /\ Cardinality(Scope) <= Cardinality(Camera)
      /\ Cardinality(Scope) \in Nat /\ Cardinality(Camera) \in Nat
  BY <1>1, CamerasAreFinite, FS_Subset, FS_CardinalityType
<1>3. IsFiniteSet(View) /\ Cardinality(View) \in Nat
  BY <1>1, <1>2, FS_Subset, FS_CardinalityType
<1>4. Cardinality(View) = 0 <=> View = {}
  BY <1>3, FS_EmptySet
<1> QED
  BY <1>1, <1>2, <1>3, <1>4, CamerasAreFinite

LEMMA SelectedIs ==
  ASSUME PanelAssumption, PanelTypeOK
  PROVE  /\ Selected \in Scope \cup {Null} /\ Selected \in Camera \cup {Null}
         /\ Scope # {} => Selected \in Scope
         /\ selected \in Scope => Selected = selected
<1>1. Scope # {} => First(Scope) \in Scope
  BY ScopeIs, FirstIn
<1> QED
  BY <1>1, ScopeIs DEF Selected

LEMMA PageIs ==
  ASSUME PanelAssumption, PanelTypeOK
  PROVE  Size \in Nat /\ Pages \in Nat \ {0} /\ Bank \in 0..(Pages - 1)
<1>1. Size \in Nat
  BY DEF Size, PanelTypeOK, PanelAssumption
<1>2. Pages \in Nat \ {0}
  <2>1. CASE Size = 0 \/ View = {}
    BY <2>1 DEF Pages
  <2>2. CASE Size # 0 /\ View # {}
    <3>1. ASSUME NEW n \in Nat, NEW s \in Nat, n >= 1, s >= 1
          PROVE  (n + s - 1) \div s \in Nat \ {0}
      BY <3>1
    <3>2. Cardinality(View) \in Nat /\ Cardinality(View) >= 1
      BY <2>2, ScopeIs
    <3>3. Size >= 1
      BY <1>1, <2>2
    <3>4. (Cardinality(View) + Size - 1) \div Size \in Nat \ {0}
      BY <1>1, <3>1, <3>2, <3>3
    <3> QED
      BY <2>2, <3>4 DEF Pages
  <2> QED
    BY <2>1, <2>2
<1> QED
  BY <1>1, <1>2 DEF Bank, PanelTypeOK

(* Choosing again what was chosen changes nothing of what is to be shown. *)
LEMMA ChosenAgain ==
  ASSUME PanelAssumption, PanelTypeOK, UNCHANGED <<present, group, roles, layoutCams>>,
         selected' \in {selected, Selected},
         \/ groupKey' = groupKey /\ bankIndex' = bankIndex
         \/ groupKey' = GroupKey /\ bankIndex' = Bank
  PROVE  Selected' = Selected /\ Desired'.cams = Desired.cams /\ Desired'.sel = Desired.sel
<1>1. Scope' = Scope /\ Groups' = Groups /\ Size' = Size
  BY DEF Scope, ScopeOf, Groups, Size
<1>2. Selected' = Selected
  BY <1>1, SelectedIs DEF Selected
<1>3. GroupKey' = GroupKey
  BY <1>1 DEF GroupKey
<1>4. View' = View
  BY <1>1, <1>3 DEF View
<1>5. Pages' = Pages
  BY <1>1, <1>4 DEF Pages
<1>6. Bank' = Bank
  BY <1>5, PageIs DEF Bank
<1> QED
  BY <1>1, <1>2, <1>4, <1>6 DEF Desired

-----------------------------------------------------------------------------
(* A layout gives roles to controls of the panel. *)
LEMMA LayoutIs ==
  ASSUME PanelAssumption, PanelTypeOK, RawTypeOK', Layout
  PROVE  /\ roles' \in SUBSET Control /\ roles' # Null
         /\ layoutCams' \in 0..Len(Order) /\ layoutHadMap' \in BOOLEAN /\ needsLayout' = FALSE
         /\ clearFirst' = TRUE /\ painting' = (painting \/ identified')
<1>1. topology' # Null => topology' \in SUBSET Control
  BY DEF RawTypeOK
<1>2. roles' \in SUBSET Control
  BY <1>1 DEF Layout, PanelAssumption
<1>3. Cardinality(Scope) \in 0..Len(Order)
  BY ScopeIs
<1> QED
  BY <1>2, <1>3 DEF Layout, Repaint, Refresh, PanelAssumption

LEMMA ReleaseIs ==
  ASSUME Release
  PROVE  /\ axes' = [l \in Lane |-> 0]
         /\ held' = [c \in Camera |-> [l \in Lane |-> FALSE]]
         /\ shift' = FALSE
         /\ \A c \in Camera, l \in Lane : ~held'[c][l]
  BY DEF Release, Still, Free

(* The steps that lay out, or leave everything as it is. *)
LEMMA TypeLaysOut ==
  ASSUME PanelAssumption, PanelTypeOK, RawTypeOK', NEW again \in BOOLEAN, LaysOut(again)
  PROVE  PanelTypeOK'
<1>1. CASE identified' /\ (again \/ ~identified)
  <2>1. Layout /\ UNCHANGED <<stick, cameras, motion, choice, shift>> /\ slips' = Adrift
    BY <1>1 DEF LaysOut
  <2>2. painting' \in BOOLEAN
    BY <2>1, LayoutIs DEF RawTypeOK, PanelTypeOK
  <2> QED
    BY <2>1, <2>2, LayoutIs DEF PanelTypeOK, cameras, motion, choice, Adrift
<1>2. CASE ~(identified' /\ (again \/ ~identified))
  BY <1>2 DEF LaysOut, PanelTypeOK, mine, cameras, motion, layout, choice, face
<1> QED
  BY <1>1, <1>2

LEMMA TypeDown ==
  ASSUME PanelAssumption, PanelTypeOK, RawTypeOK', Down
  PROVE  PanelTypeOK'
<1>1. axes' \in [Lane -> 0..1] /\ held' \in [Camera -> [Lane -> BOOLEAN]] /\ shift' = FALSE
  BY DEF Down, Release, Still, Free
<1>2. roles' \in {Null} \cup SUBSET Control
  BY DEF Down, PanelTypeOK
<1> QED
  BY <1>1, <1>2 DEF Down, PanelTypeOK, cameras, choice

LEMMA TypeInput ==
  ASSUME PanelAssumption, PanelTypeOK, RawInv, RawTypeOK',
         Ignored \/ (\E l \in Lane : Stick(l)) \/ Store \/ StopAll \/ PagesOn \/ CyclesGroup \/ Select \/ Preset
  PROVE  PanelTypeOK'
<1> USE DEF PanelTypeOK, cameras, motion, layout, choice, face
<1>1. CASE Ignored
  BY <1>1 DEF Ignored, mine
<1>2. ASSUME NEW l \in Lane, Stick(l)
      PROVE  PanelTypeOK'
  <2>1. wire # <<>> /\ Head(wire).k = "input" /\ Head(wire).id = l
    BY <1>2 DEF Stick, Means, Input, Says
  <2>2. Head(wire) \in Line
    BY <2>1 DEF RawInv
  <2>3. Head(wire).v \in 0..1
    BY <2>1, <2>2, LineSays
  <2>4. axes' \in [Lane -> 0..1]
    BY <1>2, <2>3 DEF Stick
  <2>5. held' \in [Camera -> [Lane -> BOOLEAN]]
    <3>1. (Head(wire).v # 0) \in BOOLEAN
      OBVIOUS
    <3> QED
      BY <1>2, <3>1 DEF Stick, Held
  <2>6. selected' \in Camera \cup {Null}
    BY <1>2, SelectedIs DEF Stick
  <2> QED
    BY <1>2, <2>4, <2>5, <2>6 DEF Stick
<1>3. CASE Store
  <2>1. shift' \in BOOLEAN /\ painting' \in BOOLEAN
    BY <1>3 DEF Store, Refresh, RawTypeOK
  <2> QED
    BY <1>3, <2>1 DEF Store
<1>4. CASE StopAll
  BY <1>4 DEF StopAll, Still, Free
<1>5. GroupKey \in Group \cup {Null, All} /\ Bank \in Nat
  BY PageIs DEF GroupKey
<1>6. CASE PagesOn
  <2>1. (Bank + 1) % Pages \in Nat
    <3>1. \A b \in Nat, n \in Nat \ {0} : (b + 1) % n \in Nat
      OBVIOUS
    <3> QED
      BY <1>5, <3>1, PageIs
  <2>2. painting' \in BOOLEAN
    BY <1>6 DEF PagesOn, Refresh, RawTypeOK
  <2> QED
    BY <1>5, <1>6, <2>1, <2>2 DEF PagesOn
<1>7. CASE CyclesGroup
  <2>1. groupKey' \in Group \cup {Null, All} /\ bankIndex' \in Nat
    <3>1. CASE Groups = {}
      BY <1>5, <1>7, <3>1 DEF CyclesGroup
    <3>2. CASE Groups # {}
      <4> DEFINE gs == SetToSeq(Groups)
                 options == <<All>> \o gs
                 at == CHOOSE i \in DOMAIN options : options[i] = GroupKey
      <4>1. groupKey' = options[(at % Len(options)) + 1] /\ bankIndex' = 0
        BY <1>7, <3>2 DEF CyclesGroup
      <4>2. IsFiniteSet(Groups) /\ Groups \in SUBSET (Group \cup {Null})
        <5>1. IsFiniteSet({group[c] : c \in Scope})
          <6> DEFINE f == [c \in Scope |-> group[c]]
          <6>1. f \in Surjection(Scope, {group[c] : c \in Scope})
            BY DEF Surjection
          <6> QED
            BY <6>1, ScopeIs, FS_Surjection
        <5>2. {group[c] : c \in Scope} \in SUBSET (Group \cup {Null})
          BY ScopeIs
        <5> QED
          BY <5>1, <5>2, FS_EmptySet DEF Groups
      <4>3. gs \in Seq(Groups) /\ \A x \in Groups : \E i \in 1..Len(gs) : gs[i] = x
        BY <4>2, InOrder
      <4>4. /\ options \in Seq(Group \cup {Null, All}) /\ Len(options) = Len(gs) + 1
            /\ \A i \in 1..Len(gs) : options[i + 1] = gs[i]
            /\ options[1] = All /\ Len(gs) \in Nat
        BY <4>2, <4>3
      <4>5. GroupKey \in Groups \cup {All}
        BY DEF GroupKey
      <4>6. \E i \in DOMAIN options : options[i] = GroupKey
        <5>1. CASE GroupKey = All
          <6>1. 1 \in DOMAIN options
            BY <4>4
          <6> QED
            BY <4>4, <5>1, <6>1
        <5>2. CASE GroupKey \in Groups
          <6>1. PICK i \in 1..Len(gs) : gs[i] = GroupKey
            BY <4>3, <5>2
          <6>2. i + 1 \in 1..Len(options) /\ options[i + 1] = GroupKey
            BY <4>4, <6>1
          <6>3. DOMAIN options = 1..Len(options)
            BY <4>4
          <6> QED
            BY ONLY <6>2, <6>3
        <5> QED
          BY <4>5, <5>1, <5>2
      <4>7. at \in 1..Len(options) /\ Len(options) \in Nat \ {0}
        BY <4>4, <4>6
      <4> HIDE DEF options, at, gs
      <4>8. (at % Len(options)) + 1 \in 1..Len(options)
        <5>1. \A a \in Nat, n \in Nat \ {0} : (a % n) + 1 \in 1..n
          OBVIOUS
        <5> QED
          BY <4>7, <5>1
      <4> QED
        BY <4>1, <4>4, <4>8
    <3> QED
      BY <3>1, <3>2
  <2>2. painting' \in BOOLEAN
    BY <1>7 DEF CyclesGroup, Refresh, RawTypeOK
  <2> QED
    BY <1>7, <2>1, <2>2 DEF CyclesGroup
<1>8. CASE Select
  <2> DEFINE n   == Head(wire).v.n
             cam == IF n <= Size THEN Nth(View, Bank * Size + n) ELSE Null
  <2>1. cam \in Camera \cup {Null}
    BY NthIn, ScopeIs
  <2>2. selected' \in Camera \cup {Null}
    BY <1>8, <2>1, SelectedIs DEF Select
  <2>3. painting' \in BOOLEAN
    BY <1>8 DEF Select, Refresh, RawTypeOK
  <2>4. /\ axes' \in [Lane -> 0..1] /\ held' \in [Camera -> [Lane -> BOOLEAN]]
        /\ slips' \subseteq Camera \cup {"store"}
    <3>1. (axes' = Still /\ held' = Free /\ slips' = slips \cap {"store"}) \/ UNCHANGED <<motion, slips>>
      BY <1>8 DEF Select, Leaves
    <3>2. Still \in [Lane -> 0..1] /\ Free \in [Camera -> [Lane -> BOOLEAN]]
      BY DEF Still, Free
    <3> QED
      BY <3>1, <3>2
  <2> QED
    BY <1>5, <1>8, <2>2, <2>3, <2>4 DEF Select
<1>9. CASE Preset
  <2>1. selected' \in Camera \cup {Null}
    BY <1>9, SelectedIs DEF Preset
  <2>2. axes' \in [Lane -> 0..1]
    BY <1>9 DEF Preset, Still
  <2>3. held' \in [Camera -> [Lane -> BOOLEAN]]
    <3> DEFINE free == [l \in Lane |-> FALSE]
    <3>1. free \in [Lane -> BOOLEAN]
      OBVIOUS
    <3>2. held' = held \/ held' = [held EXCEPT ![Selected] = free]
      BY <1>9 DEF Preset
    <3> HIDE DEF free
    <3> QED
      BY <3>1, <3>2
  <2>4. slips' \subseteq Camera \cup {"store"}
    BY <1>9 DEF Preset
  <2> QED
    BY <1>9, <2>1, <2>2, <2>3, <2>4 DEF Preset
<1> QED
  BY <1>1, <1>2, <1>3, <1>4, <1>6, <1>7, <1>8, <1>9

(* Letting go, with the exception it makes for STORE. *)
LEMMA LetGo ==
  ASSUME PanelTypeOK, Release, Slip(slips)
  PROVE  /\ axes' \in [Lane -> 0..1] /\ held' \in [Camera -> [Lane -> BOOLEAN]] /\ shift' = FALSE
         /\ slips' \subseteq Camera \cup {"store"} /\ slips \subseteq slips'
         /\ shift => "store" \in slips'
<1>1. axes' \in [Lane -> 0..1] /\ held' \in [Camera -> [Lane -> BOOLEAN]] /\ shift' = FALSE
  BY DEF Release, Still, Free
<1> QED
  BY <1>1 DEF Slip, PanelTypeOK

LEMMA TypeStep ==
  ASSUME PanelAssumption, PanelTypeOK, RawInv, PanelNext
  PROVE  PanelTypeOK' /\ RawInv'
<1>0. RawInv' /\ RawTypeOK'
  BY PanelToRaw, RawStep DEF RawInv
<1>1. CASE Drive \/ Opens
  BY <1>0, <1>1 DEF Drive, Opens, PanelTypeOK, mine, cameras, motion, layout, choice, face
<1>2. CASE Leave
  <2>1. axes' \in [Lane -> 0..1] /\ held' \in [Camera -> [Lane -> BOOLEAN]] /\ shift' = FALSE
    BY <1>2 DEF Leave, Release, Still, Free
  <2>2. 0 \in 0..Len(Order)
    BY DEF PanelAssumption
  <2> QED
    BY <1>0, <1>2, <2>1, <2>2 DEF Leave, PanelTypeOK, cameras
<1>3. CASE Loses
  BY <1>0, <1>3, TypeDown DEF Loses
<1>4. CASE TimedOut
  BY <1>0, <1>4, TypeDown, TypeLaysOut DEF TimedOut
<1>5. CASE Identified
  <2>1. LaysOut(FALSE) \/ LaysOut(identified)
    BY <1>5 DEF Identified
  <2>2. identified \in BOOLEAN
    BY DEF PanelTypeOK, RawTypeOK
  <2> QED
    BY <1>0, <2>1, <2>2, TypeLaysOut
<1>6. CASE MapChanges
  <2>1. axes' \in [Lane -> 0..1] /\ held' \in [Camera -> [Lane -> BOOLEAN]] /\ shift' \in BOOLEAN
        /\ slips' \subseteq Camera \cup {"store"}
    <3>1. (Release /\ Slip(slips)) \/ UNCHANGED <<motion, shift, slips>>
      BY <1>6 DEF MapChanges
    <3> QED
      BY <3>1, LetGo DEF motion, PanelTypeOK
  <2>2. {needsLayout', painting', clearFirst'} \subseteq BOOLEAN
    BY <1>0, <1>6 DEF MapChanges, Refresh, Repaint, RawTypeOK, PanelTypeOK, face
  <2> QED
    BY <1>0, <1>6, <2>1, <2>2 DEF MapChanges, PanelTypeOK, cameras, choice
<1>7. CASE Sleeps \/ Blocks
  <2>1. axes' \in [Lane -> 0..1] /\ held' \in [Camera -> [Lane -> BOOLEAN]] /\ shift' \in BOOLEAN
        /\ slips' \subseteq Camera \cup {"store"}
    <3>1. (Release /\ Slip(slips)) \/ UNCHANGED <<motion, shift, slips>>
      BY <1>7 DEF Sleeps, Blocks
    <3> QED
      BY <3>1, LetGo DEF motion, PanelTypeOK
  <2>2. {painting', clearFirst'} \subseteq BOOLEAN
    BY <1>0, <1>7 DEF Sleeps, Blocks, Refresh, Repaint, RawTypeOK, PanelTypeOK, face
  <2> QED
    BY <1>0, <1>7, <2>1, <2>2 DEF Sleeps, Blocks, PanelTypeOK, cameras, choice, layout
<1>8. CASE Ignored \/ (\E l \in Lane : Stick(l)) \/ Store \/ StopAll \/ PagesOn \/ CyclesGroup \/ Select \/ Preset
  BY <1>0, <1>8, TypeInput
<1>9. CASE Render
  <2>1. CASE UNCHANGED <<layout, choice, clearFirst, sent, shown, slips>> /\ painting' = FALSE
    BY <1>0, <1>9, <2>1 DEF Render, PanelTypeOK, cameras, motion, layout, choice
  <2>2. CASE Layout /\ slips' = Adrift /\ UNCHANGED choice
    <3>1. painting' \in BOOLEAN
      BY <1>0, <2>2, LayoutIs DEF RawTypeOK, PanelTypeOK
    <3> QED
      BY <1>0, <1>9, <2>2, <3>1, LayoutIs DEF Render, PanelTypeOK, cameras, motion, choice, Adrift
  <2>3. CASE /\ painting' = FALSE /\ clearFirst' = FALSE /\ UNCHANGED layout /\ slips' = slips \ {"store"}
             /\ selected' = Selected /\ groupKey' = GroupKey /\ bankIndex' = Bank
    <3>1. selected' \in Camera \cup {Null} /\ groupKey' \in Group \cup {Null, All} /\ bankIndex' \in Nat
      BY <2>3, SelectedIs, PageIs DEF GroupKey, PanelTypeOK
    <3> QED
      BY <1>0, <1>9, <2>3, <3>1 DEF Render, PanelTypeOK, cameras, motion, layout
  <2> QED
    BY <1>9, <2>1, <2>2, <2>3 DEF Render
<1>10. CASE CamerasChange
  <2> DEFINE free == [l \in Lane |-> FALSE]
  <2>1. free \in [Lane -> BOOLEAN]
    OBVIOUS
  <2>2. PICK c \in Camera :
          \/ /\ group' \in {[group EXCEPT ![c] = g] : g \in (Group \cup {Null}) \ {group[c]}}
             /\ UNCHANGED <<present, online, held>>
          \/ /\ c \in present /\ present' = present \ {c} /\ online' = online \ {c}
             /\ held' = [held EXCEPT ![c] = free] /\ UNCHANGED group
          \/ c \notin present /\ present' = present \cup {c} /\ UNCHANGED <<group, online, held>>
          \/ /\ c \in online /\ online' = online \ {c}
             /\ held' = [held EXCEPT ![c] = free] /\ UNCHANGED <<present, group>>
          \/ c \in present \ online /\ online' = online \cup {c} /\ UNCHANGED <<present, group, held>>
    BY <1>10 DEF CamerasChange
  <2> HIDE DEF free
  <2>3. /\ present' \subseteq Camera /\ online' \subseteq present'
        /\ held' \in [Camera -> [Lane -> BOOLEAN]]
    <3>1. present' \subseteq Camera /\ online' \subseteq present'
      BY <2>2 DEF PanelTypeOK
    <3>2. held' = held \/ held' = [held EXCEPT ![c] = free]
      BY <2>2
    <3> QED
      BY <2>1, <3>1, <3>2 DEF PanelTypeOK
  <2>4. group' \in [Camera -> Group \cup {Null}]
    BY <2>2 DEF PanelTypeOK
  <2>5. painting' \in BOOLEAN /\ slips' \subseteq Camera \cup {"store"}
    BY <1>0, <1>10 DEF CamerasChange, Refresh, Adrift, RawTypeOK, PanelTypeOK
  <2> QED
    BY <1>0, <1>10, <2>3, <2>4, <2>5 DEF CamerasChange, PanelTypeOK, choice
<1>11. CASE Lapse
  <2>1. held' \in [Camera -> [Lane -> BOOLEAN]]
    BY <1>11 DEF Lapse, PanelTypeOK
  <2>2. slips' \subseteq Camera \cup {"store"}
    BY <1>11 DEF Lapse, Adrift, PanelTypeOK
  <2> QED
    BY <1>0, <1>11, <2>1, <2>2 DEF Lapse, PanelTypeOK, choice, face
<1>12. CASE Hands
  BY <1>0, <1>12 DEF Hands, PanelTypeOK, cameras, motion, layout, choice, face
<1>13. CASE PanelActs
  BY <1>0, <1>13 DEF PanelActs, PanelTypeOK, cameras, motion, layout, choice
<1> QED
  BY <1>0, <1>1, <1>2, <1>3, <1>4, <1>5, <1>6, <1>7, <1>8, <1>9, <1>10, <1>11, <1>12, <1>13 DEF PanelNext, Listen

-----------------------------------------------------------------------------
(* What is held stays in hand. *)
LEMMA HoldFree ==
  ASSUME held' = Free
  PROVE  HoldInv'
  BY DEF HoldInv, Free

LEMMA HoldSame ==
  ASSUME HoldInv, UNCHANGED <<held, online, roles, axes, selected, present, group>>,
         slips \cap Camera \subseteq slips', identified => identified'
  PROVE  HoldInv'
  BY DEF HoldInv, Scope, ScopeOf

(* The lines that do not identify the panel leave that as it is. *)
LEMMA TakeIs ==
  ASSUME RawInv, socket = "open", Take, UNCHANGED <<model, topology>>
  PROVE  identified' = identified
  BY DEF Take, Identifies, RawInv, LinkInv

LEMMA HoldLaysOut ==
  ASSUME PanelAssumption, PanelTypeOK, RawTypeOK', HoldInv, NEW again \in BOOLEAN, LaysOut(again),
         identified => identified'
  PROVE  HoldInv'
<1>1. CASE identified' /\ (again \/ ~identified)
  <2>1. Layout /\ UNCHANGED <<stick, cameras, motion, choice, shift>> /\ slips' = Adrift
    BY <1>1 DEF LaysOut
  <2>2. roles' # Null
    BY <2>1, LayoutIs
  <2> QED
    BY <1>1, <2>1, <2>2 DEF HoldInv, Adrift, Scope, ScopeOf, cameras, motion, choice
<1>2. CASE ~(identified' /\ (again \/ ~identified))
  BY <1>2, HoldSame DEF LaysOut, mine, cameras, motion, layout, choice
<1> QED
  BY <1>1, <1>2

LEMMA HoldInput ==
  ASSUME PanelAssumption, PanelTypeOK, RawInv, HoldInv,
         (\E l \in Lane : Stick(l)) \/ Store \/ StopAll \/ PagesOn \/ CyclesGroup \/ Select \/ Preset
  PROVE  HoldInv'
<1>0. identified' = identified
  BY TakeIs DEF Stick, Means, Key, Store, StopAll, PagesOn, CyclesGroup, Select, Preset, Input, Says, known
<1> USE DEF cameras, motion, layout, choice, face
<1>1. ASSUME NEW c \in Camera, NEW l \in Lane, held[c][l], c \notin slips
      PROVE  /\ identified /\ roles # Null /\ l \in roles /\ axes[l] = 1
             /\ selected = c /\ c \in Scope /\ Selected = c
  BY <1>1, SelectedIs DEF HoldInv
<1>2. ASSUME NEW l \in Lane, Stick(l)
      PROVE  HoldInv'
  <2>1. wire # <<>> /\ Head(wire).k = "input" /\ Head(wire).id = l
        /\ identified /\ roles # Null /\ l \in roles
    BY <1>2 DEF Stick, Means, Input, Says
  <2>2. Head(wire) \in Line
    BY <2>1 DEF RawInv
  <2>3. Head(wire).v \in 0..1
    BY <2>1, <2>2, LineSays
  <2>4. /\ axes' = [axes EXCEPT ![l] = Head(wire).v] /\ selected' = Selected
        /\ slips' = {s \in slips : s = "store" \/ \E m \in Lane : held'[s][m]}
        /\ UNCHANGED <<roles, online, present, group>>
    BY <1>2 DEF Stick
  <2>5. Scope' = Scope
    BY <2>4 DEF Scope, ScopeOf
  <2> SUFFICES ASSUME NEW c \in Camera, NEW m \in Lane, held'[c][m]
               PROVE  /\ c \in online'
                      /\ \/ c \in slips'
                         \/ /\ identified' /\ roles' # Null /\ m \in roles' /\ axes'[m] = 1
                            /\ selected' = c /\ c \in Scope'
    BY DEF HoldInv
  <2>6. CASE held[c][m] /\ ~(c = Selected /\ m = l)
    <3>1. c \in online
      BY <2>6 DEF HoldInv
    <3>2. CASE c \in slips
      BY <2>4, <3>1, <3>2
    <3>3. CASE c \notin slips
      <4>1. m \in roles /\ axes[m] = 1 /\ c \in Scope /\ Selected = c
        BY <1>1, <2>6, <3>3
      <4>2. m # l
        BY <2>6, <4>1
      <4>3. axes'[m] = axes[m]
        BY <2>4, <4>2 DEF PanelTypeOK
      <4> QED
        BY <1>0, <2>1, <2>4, <2>5, <3>1, <4>1, <4>3
    <3> QED
      BY <3>2, <3>3
  <2>7. CASE c = Selected /\ m = l
    <3>1. c \in online
      <4>1. CASE c \notin online
        <5>1. held' = held
          BY <1>2, <2>7, <4>1 DEF Stick, Held
        <5> QED
          BY <4>1, <5>1 DEF HoldInv
      <4> QED
        BY <4>1
    <3>2. held' = [held EXCEPT ![c][l] = (Head(wire).v # 0)]
      BY <1>2, <2>7, <3>1 DEF Stick, Held
    <3>3. held'[c][l] = (Head(wire).v # 0)
      BY <3>2 DEF PanelTypeOK
    <3>4. Head(wire).v = 1
      <4>1. held'[c][l]
        BY <2>7
      <4>2. Head(wire).v # 0
        BY <3>3, <4>1, Zenon
      <4> QED
        BY <2>3, <4>2
    <3>5. axes'[l] = 1
      BY <2>4, <3>4 DEF PanelTypeOK
    <3>6. c \in Scope
      <4>1. c # Null
        BY DEF PanelAssumption
      <4> QED
        BY <2>7, <4>1, SelectedIs
    <3> QED
      BY <1>0, <2>1, <2>4, <2>5, <2>7, <3>1, <3>5, <3>6
  <2>8. held[c][m] \/ (c = Selected /\ m = l)
    BY <1>2, <2>4 DEF Stick, Held, PanelTypeOK
  <2> QED
    BY <2>6, <2>7, <2>8
<1>3. CASE Store \/ PagesOn \/ CyclesGroup
  BY <1>0, <1>3, HoldSame DEF Store, PagesOn, CyclesGroup
<1>4. CASE StopAll
  BY <1>4, HoldFree DEF StopAll
<1>5. CASE Select
  <2>1. CASE selected' = Selected /\ UNCHANGED <<motion, slips>>
    <3>1. Scope' = Scope /\ UNCHANGED <<roles, online>>
      BY <1>5 DEF Select, Scope, ScopeOf
    <3> QED
      BY <1>0, <1>1, <2>1, <3>1 DEF HoldInv
  <2>2. CASE axes # Still /\ held' = Free
    BY <2>2, HoldFree
  <2>3. CASE axes = Still /\ UNCHANGED <<motion, slips>>
    <3>1. \A l \in Lane : axes[l] # 1
      BY <2>3 DEF Still
    <3>2. UNCHANGED online
      BY <1>5 DEF Select
    <3> QED
      BY <1>1, <2>3, <3>1, <3>2 DEF HoldInv
  <2> QED
    BY <1>5, <2>1, <2>2, <2>3 DEF Select, Leaves
<1>6. CASE Preset
  <2>0. Scope' = Scope /\ UNCHANGED <<roles, online>> /\ selected' = Selected
    BY <1>6 DEF Preset, Scope, ScopeOf
  <2>1. CASE UNCHANGED <<motion, slips>>
    BY <1>0, <1>1, <2>0, <2>1 DEF HoldInv
  <2>2. CASE /\ held' = [held EXCEPT ![Selected] = [l \in Lane |-> FALSE]]
             /\ slips' = slips \ {Selected}
    <3>1. ASSUME NEW c \in Camera, NEW l \in Lane, held'[c][l]
          PROVE  c # Selected /\ held[c][l]
      BY <2>2, <3>1 DEF PanelTypeOK
    <3> QED
      BY <1>1, <2>0, <2>2, <3>1 DEF HoldInv
  <2> QED
    BY <1>6, <2>1, <2>2 DEF Preset
<1> QED
  BY <1>2, <1>3, <1>4, <1>5, <1>6

LEMMA HoldStep ==
  ASSUME PanelAssumption, PanelTypeOK, RawInv, HoldInv, PanelNext
  PROVE  HoldInv'
<1>0. RawTypeOK'
  BY TypeStep DEF RawInv
<1> USE DEF cameras, motion, layout, choice, face
<1>1. CASE Drive \/ Opens
  <2>1. UNCHANGED identified \/ Connected
    BY <1>1 DEF Drive, Opens, Start, Reconnect
  <2> QED
    BY <1>1, <2>1, HoldSame DEF Drive, Opens, mine, Connected
<1>2. CASE Leave \/ Loses
  BY <1>2, HoldFree DEF Leave, Loses, Down, Release
<1>3. CASE TimedOut
  <2>1. CASE identified'
    BY <1>0, <1>3, <2>1, HoldLaysOut DEF TimedOut
  <2> QED
    BY <1>3, <2>1, HoldFree DEF TimedOut, Down, Release
<1>4. CASE Identified
  <2>1. identified => identified'
    BY <1>4 DEF Identified, Model, Topology, Take, Identifies, Ready
  <2>2. LaysOut(FALSE) \/ LaysOut(identified)
    BY <1>4 DEF Identified
  <2>3. identified \in BOOLEAN
    BY DEF PanelTypeOK, RawTypeOK
  <2> QED
    BY <1>0, <2>1, <2>2, <2>3, HoldLaysOut
<1>5. CASE MapChanges \/ Sleeps \/ Blocks
  <2>1. CASE Release
    BY <2>1, HoldFree DEF Release
  <2>2. CASE UNCHANGED <<motion, shift, slips>>
    <3>1. identified' = identified
      BY <1>5, TakeIs DEF MapChanges, MapEntry, Sleeps, Sleep, Blocks, Blocked, Says, known
    <3>2. UNCHANGED <<online, roles, selected, present, group>>
      BY <1>5 DEF MapChanges, Sleeps, Blocks
    <3> QED
      BY <2>2, <3>1, <3>2, HoldSame
  <2> QED
    BY <1>5, <2>1, <2>2 DEF MapChanges, Sleeps, Blocks
<1>6. CASE Ignored
  <2>1. identified' = identified
    BY <1>6, TakeIs DEF Ignored, Input, Says, known
  <2> QED
    BY <1>6, <2>1, HoldSame DEF Ignored, mine
<1>7. CASE (\E l \in Lane : Stick(l)) \/ Store \/ StopAll \/ PagesOn \/ CyclesGroup \/ Select \/ Preset
  BY <1>7, HoldInput
<1>8. CASE Render
  <2>0. identified' = identified /\ UNCHANGED <<held, online, axes, present, group>>
    BY <1>8 DEF Render, rawvars, link
  <2>1. CASE UNCHANGED <<layout, choice, slips>>
    BY <2>0, <2>1, HoldSame
  <2>2. CASE Layout /\ slips' = Adrift /\ UNCHANGED choice /\ identified
    <3>1. roles' # Null
      BY <1>0, <2>2, LayoutIs
    <3> QED
      BY <2>0, <2>2, <3>1 DEF HoldInv, Adrift, Scope, ScopeOf
  <2>3. CASE UNCHANGED layout /\ slips' = slips \ {"store"} /\ selected' = Selected
    <3>1. Scope' = Scope /\ "store" \notin Camera
      BY <2>0 DEF Scope, ScopeOf, PanelAssumption
    <3> QED
      BY <2>0, <2>3, <3>1, SelectedIs DEF HoldInv
  <2> QED
    BY <1>8, <2>1, <2>2, <2>3 DEF Render
<1>9. CASE CamerasChange
  <2>0. UNCHANGED <<identified, roles, axes, selected>>
    BY <1>9 DEF CamerasChange, link
  <2>1. PICK c \in Camera :
          \/ UNCHANGED <<online, held>>
          \/ online' = online \ {c} /\ held' = [held EXCEPT ![c] = [l \in Lane |-> FALSE]]
          \/ online' = online \cup {c} /\ UNCHANGED held
    BY <1>9 DEF CamerasChange
  <2>2. ASSUME NEW d \in Camera, NEW l \in Lane, held'[d][l]
        PROVE  held[d][l] /\ (d \in online => d \in online')
    BY <2>1, <2>2 DEF PanelTypeOK
  <2>3. Adrift \subseteq slips'
    BY <1>9 DEF CamerasChange
  <2> QED
    BY <2>0, <2>2, <2>3 DEF HoldInv, Adrift, Scope
<1>10. CASE Lapse
  <2>0. UNCHANGED <<identified, roles, axes, selected, online>>
    BY <1>10 DEF Lapse, rawvars, link
  <2>1. PICK c \in Camera, m \in Lane : held' = [held EXCEPT ![c][m] = FALSE]
    BY <1>10 DEF Lapse
  <2>2. ASSUME NEW d \in Camera, NEW l \in Lane, held'[d][l]
        PROVE  held[d][l]
    BY <2>1, <2>2 DEF PanelTypeOK
  <2>3. Adrift \subseteq slips'
    BY <1>10 DEF Lapse
  <2> QED
    BY <2>0, <2>2, <2>3 DEF HoldInv, Adrift, Scope
<1>11. CASE Hands \/ PanelActs
  <2>1. UNCHANGED <<identified, held, online, roles, axes, selected, present, group, slips>>
    BY <1>11 DEF Hands, Hand, PanelActs, Power, Changes, link
  <2> QED
    BY <2>1, HoldSame
<1> QED
  BY <1>1, <1>2, <1>3, <1>4, <1>5, <1>6, <1>7, <1>8, <1>9, <1>10, <1>11 DEF PanelNext, Listen

-----------------------------------------------------------------------------
(* What was sent is what is to be shown, and is shown. *)
LEMMA SentPainting ==
  ASSUME painting' \/ ~identified' \/ roles' = Null
  PROVE  SentInv'
  BY DEF SentInv, Live

LEMMA SentKept ==
  ASSUME PanelAssumption, PanelTypeOK, SentInv, UNCHANGED <<present, group, roles, layoutCams>>,
         selected' \in {selected, Selected},
         \/ groupKey' = groupKey /\ bankIndex' = bankIndex
         \/ groupKey' = GroupKey /\ bankIndex' = Bank,
         UNCHANGED <<clearFirst, sent>>, painting => painting', identified' => identified,
         "store" \in slips => "store" \in slips',
         shift' = shift \/ (shift' = FALSE /\ (shift => "store" \in slips'))
  PROVE  SentInv'
<1>1. Desired'.cams = Desired.cams /\ Desired'.sel = Desired.sel
  BY ChosenAgain
<1>2. Desired.shift = shift /\ Desired'.shift = shift'
  BY DEF Desired
<1>3. shift \in BOOLEAN
  BY DEF PanelTypeOK
<1> SUFFICES ASSUME Live', ~painting'
             PROVE  /\ ~clearFirst' /\ sent'.cams = Desired'.cams /\ sent'.sel = Desired'.sel
                    /\ sent'.shift = Desired'.shift \/ "store" \in slips'
  BY DEF SentInv
<1>4. Live /\ ~painting
  BY DEF Live
<1>5. ~clearFirst /\ sent.cams = Desired.cams /\ sent.sel = Desired.sel
  BY <1>4 DEF SentInv
<1>6. sent.shift = shift \/ "store" \in slips
  BY <1>2, <1>4 DEF SentInv
<1>7. sent'.shift = shift' \/ "store" \in slips'
  BY <1>3, <1>6
<1> QED
  BY <1>1, <1>2, <1>5, <1>7

LEMMA ShownDrawn ==
  ASSUME clearFirst' \/ ~identified' \/ roles' = Null
  PROVE  ShownInv'
  BY DEF ShownInv, Live

LEMMA ShownKept ==
  ASSUME ShownInv, UNCHANGED <<roles, clearFirst, sent, shown>>, identified' => identified,
         peer' => peer, mode' # "asleep" => mode # "asleep", Quiet' => Quiet
  PROVE  ShownInv'
  BY DEF ShownInv, Live

LEMMA QuietTake ==
  ASSUME wire \in Seq(Line), wire # <<>>, wire' = Tail(wire), Head(wire).k = "sleep" => Head(wire).on
  PROVE  Quiet' => Quiet
<1> SUFFICES ASSUME Quiet', NEW i \in DOMAIN wire, wire[i].k = "sleep"
             PROVE  wire[i].on
  BY DEF Quiet
<1>1. CASE i = 1
  BY <1>1
<1>2. CASE i # 1
  <2>1. i - 1 \in DOMAIN Tail(wire) /\ Tail(wire)[i - 1] = wire[i]
    BY <1>2
  <2> QED
    BY <2>1 DEF Quiet
<1> QED
  BY <1>1, <1>2

LEMMA QuietTell ==
  ASSUME wire \in Seq(Line), NEW s \in Seq(Line), Tell(s)
  PROVE  /\ Quiet' => Quiet
         /\ (peer /\ \E j \in DOMAIN s : s[j].k = "sleep" /\ ~s[j].on) => ~Quiet'
<1>1. CASE wire' = wire /\ ~peer
  BY <1>1 DEF Quiet
<1>2. CASE wire' = wire \o s
  <2>1. \A i \in DOMAIN wire : i \in DOMAIN wire' /\ wire'[i] = wire[i]
    BY <1>2
  <2>2. \A j \in DOMAIN s : Len(wire) + j \in DOMAIN wire' /\ wire'[Len(wire) + j] = s[j]
    BY <1>2
  <2> QED
    BY <2>1, <2>2 DEF Quiet
<1> QED
  BY <1>1, <1>2 DEF Tell

ShowInv == SentInv /\ ShownInv

LEMMA ShowDrawn ==
  ASSUME ~identified' \/ (painting' /\ clearFirst')
  PROVE  ShowInv'
  BY SentPainting, ShownDrawn DEF ShowInv

LEMMA ShowLaysOut ==
  ASSUME PanelAssumption, PanelTypeOK, RawInv, RawTypeOK', ShowInv, NEW again \in BOOLEAN, LaysOut(again),
         UNCHANGED <<peer, mode>>, wire # <<>>, wire' = Tail(wire), Head(wire).k # "sleep"
  PROVE  ShowInv'
<1>1. CASE identified' /\ (again \/ ~identified)
  BY <1>1, LayoutIs, ShowDrawn DEF LaysOut
<1>2. CASE ~(identified' /\ (again \/ ~identified))
  <2>1. UNCHANGED mine /\ (identified' => identified)
    BY <1>2 DEF LaysOut
  <2>2. Quiet' => Quiet
    BY QuietTake DEF RawInv
  <2>3. /\ UNCHANGED <<present, group, roles, layoutCams, selected, groupKey, bankIndex>>
        /\ UNCHANGED <<clearFirst, sent, shown, painting, slips, shift>>
    BY <2>1 DEF mine, cameras, layout, choice, face
  <2>4. SentInv'
    BY <2>1, <2>3, SentKept DEF ShowInv
  <2>5. ShownInv'
    BY <2>1, <2>2, <2>3, ShownKept DEF ShowInv
  <2> QED
    BY <2>4, <2>5 DEF ShowInv
<1> QED
  BY <1>1, <1>2

LEMMA ShowInput ==
  ASSUME PanelAssumption, PanelTypeOK, RawInv, ShowInv,
         Ignored \/ (\E l \in Lane : Stick(l)) \/ Store \/ StopAll \/ PagesOn \/ CyclesGroup \/ Select \/ Preset
  PROVE  ShowInv'
<1> USE DEF cameras, motion, layout, choice, face
<1>0. Input
  BY DEF Ignored, Stick, Means, Key, Store, StopAll, PagesOn, CyclesGroup, Select, Preset
<1>1. /\ identified' = identified /\ UNCHANGED <<peer, mode>>
      /\ wire # <<>> /\ wire' = Tail(wire) /\ Head(wire).k = "input"
  BY <1>0, TakeIs DEF Input, Says, known, Take, device
<1>2. Quiet' => Quiet
  BY <1>1, QuietTake DEF RawInv
<1>3. UNCHANGED <<present, group, roles, layoutCams, clearFirst, sent, shown>>
  BY DEF Ignored, mine, Stick, Store, StopAll, PagesOn, CyclesGroup, Select, Preset
<1>4. ShownInv'
  BY <1>1, <1>2, <1>3, ShownKept DEF ShowInv
<1>5. CASE painting'
  BY <1>4, <1>5, SentPainting DEF ShowInv
<1>6. CASE ~painting'
  <2>1. shift' = shift
    BY <1>1, <1>6 DEF Ignored, mine, Stick, Store, Key, Means, Refresh, StopAll, PagesOn, CyclesGroup, Select, Preset
  <2>2. "store" \in slips => "store" \in slips'
    <3>1. Selected # Null => Selected # "store"
      BY SelectedIs DEF PanelAssumption
    <3> QED
      BY <3>1 DEF Ignored, mine, Stick, Store, StopAll, PagesOn, CyclesGroup, Select, Leaves, Preset
  <2>3. ~painting
    BY <1>6 DEF Ignored, mine, Stick, Store, StopAll, PagesOn, CyclesGroup, Select, Preset, Refresh
  <2>4. /\ selected' \in {selected, Selected}
        /\ \/ groupKey' = groupKey /\ bankIndex' = bankIndex
           \/ groupKey' = GroupKey /\ bankIndex' = Bank
    <3>1. CASE Ignored \/ (\E l \in Lane : Stick(l)) \/ Store \/ StopAll \/ Preset
      BY <3>1 DEF Ignored, mine, Stick, Store, StopAll, Preset
    <3>2. CASE PagesOn \/ CyclesGroup
      <4>1. identified
        BY <3>2 DEF PagesOn, CyclesGroup, Key, Means
      <4>2. ~Refresh
        BY <1>1, <1>6, <4>1 DEF Refresh
      <4> QED
        BY <3>2, <4>2 DEF PagesOn, CyclesGroup
    <3>3. CASE Select
      <4>1. identified
        BY <3>3 DEF Select, Key, Means
      <4>2. ~Refresh
        BY <1>1, <1>6, <4>1 DEF Refresh
      <4> QED
        BY <3>3, <4>2 DEF Select
    <3> QED
      BY <3>1, <3>2, <3>3
  <2>5. SentInv'
    BY <1>1, <1>3, <2>1, <2>2, <2>3, <2>4, SentKept DEF ShowInv
  <2> QED
    BY <1>4, <2>5 DEF ShowInv
<1> QED
  BY <1>5, <1>6

LEMMA ShowStep ==
  ASSUME PanelAssumption, PanelTypeOK, RawInv, ShowInv, PanelNext
  PROVE  ShowInv'
<1>0. RawTypeOK' /\ RawInv'
  BY TypeStep DEF RawInv
<1> USE DEF cameras, motion, layout, choice, face
<1>1. CASE Drive \/ Opens
  <2>1. ~identified'
    <3>1. ~identified
      BY <1>1 DEF Drive, Opens, Start, Reconnect, Connected, RawInv, LinkInv
    <3> QED
      BY <1>1, <3>1 DEF Drive, Opens, Start, Reconnect, Connected
  <2> QED
    BY <2>1, ShowDrawn
<1>2. CASE Leave \/ Loses
  <2>1. ~identified'
    BY <1>2 DEF Leave, Stop, Loses, Gone, LinkClosed, Refused, Fail, CloseSocket
  <2> QED
    BY <2>1, ShowDrawn
<1>3. CASE TimedOut
  <2>1. CASE identified'
    <3>1. ~identified
      BY <1>3 DEF TimedOut, InitTimedOut, RawInv, LinkInv
    <3>2. Layout
      BY <1>3, <2>1, <3>1 DEF TimedOut, LaysOut
    <3> QED
      BY <1>0, <2>1, <3>2, LayoutIs, ShowDrawn
  <2> QED
    BY <2>1, ShowDrawn
<1>4. CASE Identified
  <2>1. LaysOut(FALSE) \/ LaysOut(identified)
    BY <1>4 DEF Identified
  <2>2. identified \in BOOLEAN
    BY DEF PanelTypeOK, RawTypeOK
  <2>3. UNCHANGED <<peer, mode>> /\ wire # <<>> /\ wire' = Tail(wire) /\ Head(wire).k # "sleep"
    BY <1>4 DEF Identified, Model, Topology, Says, Take, device
  <2> QED
    BY <1>0, <2>1, <2>2, <2>3, ShowLaysOut
<1>5. CASE MapChanges \/ Sleeps \/ Blocks
  <2>1. /\ identified' = identified /\ UNCHANGED <<peer, mode>>
        /\ wire # <<>> /\ wire' = Tail(wire)
    BY <1>5, TakeIs DEF MapChanges, MapEntry, Sleeps, Sleep, Blocks, Blocked, Says, known, Take, device
  <2>2. UNCHANGED <<present, group, roles, layoutCams, selected, groupKey, bankIndex>>
    BY <1>5 DEF MapChanges, Sleeps, Blocks
  <2>3. CASE Repaint
    BY <2>3, ShowDrawn DEF Repaint, Refresh
  <2>4. CASE ~Repaint
    <3>1. UNCHANGED <<clearFirst, sent, shown>> /\ (painting => painting')
      <4>1. UNCHANGED face \/ (Refresh /\ UNCHANGED <<clearFirst, sent, shown>>)
        BY <1>5, <2>4 DEF MapChanges, Sleeps, Blocks
      <4>2. UNCHANGED <<clearFirst, sent, shown>> /\ (painting' = painting \/ Refresh)
        BY <4>1
      <4>3. painting => painting'
        BY <4>2 DEF Refresh
      <4> QED
        BY <4>2, <4>3
    <3>2. Head(wire).k = "sleep" => Head(wire).on
      <4>1. CASE Sleeps
        <5>1. sleeping' = Head(wire).on
          BY <4>1 DEF Sleeps, Sleep
        <5> QED
          BY <2>4, <4>1, <5>1 DEF Sleeps
      <4>2. CASE MapChanges \/ Blocks
        BY <4>2 DEF MapChanges, MapEntry, Blocks, Blocked, Says
      <4> QED
        BY <1>5, <4>1, <4>2
    <3>3. Quiet' => Quiet
      BY <2>1, <3>2, QuietTake DEF RawInv
    <3>4. (Release /\ Slip(slips)) \/ UNCHANGED <<motion, shift, slips>>
      BY <1>5 DEF MapChanges, Sleeps, Blocks
    <3>5. /\ "store" \in slips => "store" \in slips'
          /\ shift' = shift \/ (shift' = FALSE /\ (shift => "store" \in slips'))
      BY <3>4, LetGo
    <3>6. SentInv'
      BY <2>1, <2>2, <3>1, <3>5, SentKept DEF ShowInv
    <3>7. ShownInv'
      BY <2>1, <2>2, <3>1, <3>3, ShownKept DEF ShowInv
    <3> QED
      BY <3>6, <3>7 DEF ShowInv
  <2> QED
    BY <2>3, <2>4
<1>6. CASE Ignored \/ (\E l \in Lane : Stick(l)) \/ Store \/ StopAll \/ PagesOn \/ CyclesGroup \/ Select \/ Preset
  BY <1>6, ShowInput
<1>7. CASE Render
  <2>0. UNCHANGED <<identified, peer, mode, wire, present, group, shift>>
    BY <1>7 DEF Render, rawvars, link, device
  <2>1. CASE (~identified \/ roles = Null) /\ UNCHANGED layout
    <3>1. ~identified' \/ roles' = Null
      BY <2>0, <2>1
    <3> QED
      BY <3>1, SentPainting, ShownDrawn DEF ShowInv
  <2>2. CASE Layout
    BY <1>0, <1>7, <2>2, LayoutIs, ShowDrawn DEF Render
  <2>3. CASE /\ UNCHANGED layout /\ clearFirst' = FALSE
             /\ selected' = Selected /\ groupKey' = GroupKey /\ bankIndex' = Bank
             /\ "keys" \in roles => /\ sent' = Desired
                                    /\ shown' = [f \in DOMAIN Desired |->
                                         IF clearFirst \/ sent[f] # Desired[f] THEN Desired[f] ELSE shown[f]]
    <3>1. Desired'.cams = Desired.cams /\ Desired'.sel = Desired.sel /\ Desired'.shift = Desired.shift
      <4>1. Desired'.shift = shift' /\ Desired.shift = shift
        BY DEF Desired
      <4> QED
        BY <2>0, <2>3, <4>1, ChosenAgain
    <3>2. SentInv'
      BY <2>0, <2>3, <3>1 DEF SentInv, Live
    <3>3. ASSUME Live', peer', mode' # "asleep", Quiet'
          PROVE  shown' = sent'
      <4>1. Live /\ peer /\ mode # "asleep" /\ Quiet
        BY <2>0, <2>3, <3>3 DEF Live, Quiet
      <4>2. clearFirst \/ shown = sent
        BY <4>1 DEF ShowInv, ShownInv
      <4>3. \A f \in DOMAIN Desired : (IF clearFirst \/ sent[f] # Desired[f] THEN Desired[f] ELSE shown[f]) = Desired[f]
        BY <4>2
      <4>4. shown' = [f \in DOMAIN Desired |-> Desired[f]] /\ sent' = Desired
        BY <2>3, <4>1, <4>3 DEF Live
      <4>5. Desired = [f \in DOMAIN Desired |-> Desired[f]]
        BY DEF Desired
      <4> QED
        BY <4>4, <4>5
    <3> QED
      BY <3>2, <3>3 DEF ShowInv, ShownInv
  <2> QED
    BY <1>7, <2>1, <2>2, <2>3 DEF Render
<1>8. CASE CamerasChange
  <2>1. UNCHANGED <<identified, peer, mode, wire, roles, clearFirst, sent, shown>>
    BY <1>8 DEF CamerasChange, link
  <2>2. SentInv'
    BY <1>8, <2>1, SentPainting DEF CamerasChange, Refresh
  <2>3. ShownInv'
    BY <2>1, ShownKept DEF ShowInv, Quiet
  <2> QED
    BY <2>2, <2>3 DEF ShowInv
<1>9. CASE Lapse
  <2>1. UNCHANGED <<identified, peer, mode, wire, roles, clearFirst, sent, shown>>
    BY <1>9 DEF Lapse, rawvars, link, device
  <2>2. /\ UNCHANGED <<present, group, layoutCams, selected, groupKey, bankIndex, painting, shift>>
        /\ "store" \in slips => "store" \in slips'
    BY <1>9 DEF Lapse
  <2>3. SentInv'
    BY <2>1, <2>2, SentKept DEF ShowInv
  <2>4. ShownInv'
    BY <2>1, ShownKept DEF ShowInv, Quiet
  <2> QED
    BY <2>3, <2>4 DEF ShowInv
<1>10. ASSUME UNCHANGED <<identified, roles, clearFirst, sent, present, group, layoutCams,
                          selected, groupKey, bankIndex, painting, shift, slips>>
       PROVE  SentInv'
  BY <1>10, SentKept DEF ShowInv
<1>11. CASE Hands
  <2>1. PICK c, v : Hand(c, v) /\ [k |-> "input", id |-> c, v |-> v] \in Line
    <3>1. \A l \in Lane : 1 - stick[l] \in 0..1
      BY DEF PanelTypeOK
    <3> QED
      BY <1>11, <3>1, LineIs DEF Hands
  <2>2. /\ UNCHANGED <<identified, roles, clearFirst, sent, present, group, layoutCams>>
        /\ UNCHANGED <<selected, groupKey, bankIndex, painting, shift, slips, shown, peer, mode>>
    BY <1>11, <2>1 DEF Hands, Hand, device, link
  <2>3. Quiet' => Quiet
    <3>1. wire' = wire \/ Tell(<<[k |-> "input", id |-> c, v |-> v]>>)
      BY <2>1 DEF Hand
    <3>2. <<[k |-> "input", id |-> c, v |-> v]>> \in Seq(Line)
      BY <2>1
    <3>3. CASE wire' = wire
      BY <3>3 DEF Quiet
    <3> QED
      BY <3>1, <3>2, <3>3, QuietTell DEF RawInv
  <2>4. ShownInv'
    BY <2>2, <2>3, ShownKept DEF ShowInv
  <2> QED
    BY <1>10, <2>2, <2>4 DEF ShowInv
<1>12. CASE PanelActs
  <2>1. UNCHANGED <<identified, roles, clearFirst, sent, present, group, layoutCams,
                    selected, groupKey, bankIndex, painting, shift, slips>>
    BY <1>12 DEF PanelActs, Power, Changes, link
  <2>2. CASE ~peer'
    <3>1. ShownInv'
      BY <2>2 DEF ShownInv
    <3> QED
      BY <1>10, <2>1, <3>1 DEF ShowInv
  <2>3. CASE peer' /\ Power
    <3>1. panel # "off" /\ panel' # "off" /\ UNCHANGED <<peer, mode>> /\ Tell(<<[k |-> "refusal"]>>)
      BY <2>3 DEF Power, RawInv, LinkInv
    <3>2. shown' = shown
      BY <1>12, <3>1 DEF PanelActs
    <3>3. <<[k |-> "refusal"]>> \in Seq(Line)
      BY LineIs
    <3>4. Quiet' => Quiet
      BY <3>1, <3>3, QuietTell DEF RawInv
    <3>5. ShownInv'
      BY <2>1, <3>1, <3>2, <3>4, ShownKept DEF ShowInv
    <3> QED
      BY <1>10, <2>1, <3>5 DEF ShowInv
  <2>4. CASE peer' /\ Changes
    <3>0. peer /\ peer' = peer /\ panel' # "off"
      BY <2>4 DEF Changes
    <3>1. CASE mode' = "asleep"
      <4>1. ShownInv'
        BY <3>1 DEF ShownInv
      <4> QED
        BY <1>10, <2>1, <4>1 DEF ShowInv
    <3>2. CASE mode = "asleep" /\ mode' # "asleep"
      <4> DEFINE off == [k |-> "sleep", on |-> FALSE]
                 s   == <<off>> \o Entries(Control)
      <4>1. Tell(s)
        BY <2>4, <3>2 DEF Changes
      <4>2. <<off>> \in Seq(Line) /\ Entries(Control) \in Seq(Line)
        <5>1. off \in Line
          BY LineIs
        <5> QED
          BY <5>1, EntriesAre
      <4>3. s \in Seq(Line) /\ 1 \in DOMAIN s /\ s[1] = off
        BY <4>2
      <4>4. s[1].k = "sleep" /\ ~s[1].on
        BY <4>3
      <4> HIDE DEF s, off
      <4>5. ~Quiet'
        BY <3>0, <4>1, <4>3, <4>4, QuietTell DEF RawInv
      <4>6. ShownInv'
        BY <4>5 DEF ShownInv
      <4> QED
        BY <1>10, <2>1, <4>6 DEF ShowInv
    <3>3. CASE mode # "asleep" /\ mode' # "asleep"
      <4>1. shown' = shown
        BY <1>12, <3>0, <3>3 DEF PanelActs
      <4>2. /\ <<[k |-> "blocked"]>> \in Seq(Line)
            /\ \A on \in SUBSET Control : <<[k |-> "topology", on |-> on]>> \in Seq(Line)
        BY LineIs
      <4>3. \/ Tell(<<[k |-> "blocked"]>>)
            \/ wire' = wire
            \/ \E on \in SUBSET Control : Tell(<<[k |-> "topology", on |-> on]>>)
        BY <2>4, <3>3 DEF Changes
      <4>4. Quiet' => Quiet
        <5>1. CASE wire' = wire
          BY <5>1 DEF Quiet
        <5> QED
          BY <4>2, <4>3, <5>1, QuietTell DEF RawInv
      <4>5. ShownInv'
        BY <2>1, <3>0, <3>3, <4>1, <4>4, ShownKept DEF ShowInv
      <4> QED
        BY <1>10, <2>1, <4>5 DEF ShowInv
    <3> QED
      BY <3>1, <3>2, <3>3
  <2> QED
    BY <1>12, <2>2, <2>3, <2>4 DEF PanelActs
<1> QED
  BY <1>1, <1>2, <1>3, <1>4, <1>5, <1>6, <1>7, <1>8, <1>9, <1>11, <1>12 DEF PanelNext, Listen

-----------------------------------------------------------------------------
(* The invariant holds at first, and every step keeps it. *)
LEMMA PanelInitInv == PanelAssumption /\ PanelInit => PanelInv
<1> SUFFICES ASSUME PanelAssumption, PanelInit
             PROVE  PanelInv
  OBVIOUS
<1>1. RawTypeOK /\ RawInv
  <2>1. wire \in Seq(Line)
    BY DEF PanelInit, RawInit
  <2>2. 0 \in 0..MaxFaults
    BY DEF PanelAssumption
  <2>3. RawTypeOK
    BY <2>2 DEF PanelInit, RawInit, RawTypeOK, Unsaid
  <2>4. LinkInv
    BY DEF PanelInit, RawInit, LinkInv
  <2> QED
    BY <2>1, <2>3, <2>4 DEF RawInv
<1>2. stick \in [Lane -> 0..1] /\ axes \in [Lane -> 0..1] /\ held \in [Camera -> [Lane -> BOOLEAN]]
  BY DEF PanelInit, Still, Free
<1>3. group \in [Camera -> Group \cup {Null}] /\ layoutCams \in 0..Len(Order)
  BY DEF PanelInit, PanelAssumption
<1>4. PanelTypeOK
  BY <1>1, <1>2, <1>3 DEF PanelInit, PanelTypeOK
<1>5. HoldInv
  BY DEF PanelInit, HoldInv, Free
<1>6. SentInv /\ ShownInv
  BY DEF PanelInit, RawInit, SentInv, ShownInv, Live
<1> QED
  BY <1>1, <1>4, <1>5, <1>6 DEF PanelInv

LEMMA PanelNextInv == PanelAssumption /\ PanelInv /\ [PanelNext]_panelVars => PanelInv'
<1> SUFFICES ASSUME PanelAssumption, PanelInv, [PanelNext]_panelVars
             PROVE  PanelInv'
  OBVIOUS
<1>1. CASE PanelNext
  BY <1>1, TypeStep, HoldStep, ShowStep DEF PanelInv, ShowInv
<1>2. CASE UNCHANGED panelVars
  <2> USE <1>2 DEF PanelInv, panelVars, mine, cameras, motion, layout, choice, face, rawvars, device, link, known
  <2>1. PanelTypeOK'
    BY DEF PanelTypeOK, RawTypeOK
  <2>2. RawInv'
    BY DEF RawInv, RawTypeOK, LinkInv
  <2>3. HoldInv'
    BY HoldSame
  <2>4. SentInv'
    BY SentKept
  <2>5. Quiet' = Quiet
    BY DEF Quiet
  <2>6. ShownInv'
    BY <2>5, ShownKept
  <2> QED
    BY <2>1, <2>2, <2>3, <2>4, <2>6 DEF PanelInv
<1> QED
  BY <1>1, <1>2

(* Every reachable state of the panel satisfies the invariant. *)
THEOREM PanelInductive == PanelSpec => []PanelInv
  BY PanelAssumption, PanelInitInv, PanelNextInv, PTL DEF PanelSpec

(* What the panel holds moving it can stop: HoldInv, for a camera in scope *)
(* and selected is the one that Selected gives.                            *)
THEOREM Holds == PanelSpec => []HoldsItsStick
<1>1. PanelInv => HoldsItsStick
  BY PanelAssumption, SelectedIs DEF PanelInv, HoldInv, HoldsItsStick
<1> QED
  BY <1>1, PanelInductive, PTL

(* With no repaint due and nothing on the way the panel shows what its     *)
(* buttons do: SentInv and ShownInv meet in what was sent.                 *)
THEOREM ShowsWhatIs == PanelSpec => []PanelIsCurrent
<1>1. PanelInv => PanelIsCurrent
  <2> SUFFICES ASSUME PanelInv, identified, peer, ~painting, mode = "awake", wire = <<>>,
                      roles # Null, "keys" \in roles
               PROVE  /\ shown.cams = Desired.cams /\ shown.sel = Desired.sel
                      /\ shown.shift = Desired.shift \/ "store" \in slips
    BY DEF PanelIsCurrent
  <2>1. Live /\ Quiet
    BY DEF Live, Quiet
  <2>2. /\ ~clearFirst /\ sent.cams = Desired.cams /\ sent.sel = Desired.sel
        /\ sent.shift = Desired.shift \/ "store" \in slips
    BY <2>1 DEF PanelInv, SentInv
  <2>3. shown = sent
    BY <2>1, <2>2 DEF PanelInv, ShownInv
  <2> QED
    BY <2>2, <2>3
<1> QED
  BY <1>1, PanelInductive, PTL

(* A panel that is to be driven is never given up, and a link that is not  *)
(* identified is being timed.                                              *)
THEOREM Sought == PanelSpec => []PanelIsSought
<1>1. PanelInv => PanelIsSought
  BY DEF PanelInv, RawInv, LinkInv, PanelIsSought
<1> QED
  BY <1>1, PanelInductive, PTL

-----------------------------------------------------------------------------
(* The mirror *)

LEMMA Widened ==
  ASSUME NEW S, NEW T, S \subseteq T, NEW s \in Seq(S)
  PROVE  s \in Seq(T)
OBVIOUS

LEMMA Parted ==
  ASSUME NEW S, NEW s \in Seq(S), s # <<>>
  PROVE  Head(s) \in S /\ Tail(s) \in Seq(S)
OBVIOUS

LEMMA EventsAreFrames == Seq(StateEvent) \subseteq Seq(Frame) /\ <<>> \in Seq(StateEvent)
<1>1. StateEvent \subseteq Frame
  BY DEF Frame
<1> QED
  BY <1>1, Widened

USE DEF Snapshot, StateEvent, Frame

(* The values of the model's parts, without the agreement of the worker    *)
(* with the snapshot that TypeOK adds.                                     *)
CamdType == /\ snap \in Snapshot
            /\ worker \in {"idle", "read", "start", "stop"}
            /\ hostKey \in {"unknown", "first", "pinned"}
            /\ worker # "idle" => snap.up
            /\ relabel \in StateEvent \cup {None}
            /\ reply \in {None, Asked} \cup Snapshot

HubType  == /\ conn \in {"none", "built", "registered", "greeted"}
            /\ hello \in Snapshot \cup {None}
            /\ conn \in {"built", "registered"} => hello \in Snapshot
            /\ pipe \in Seq(Frame) /\ Len(pipe) <= MaxQueued

NodeType == /\ opened \in BOOLEAN /\ waiting \in Seq(StateEvent) /\ mirror \in Snapshot /\ takes \in 0 .. MaxOpen
            /\ stale \subseteq {"up", "rec"} /\ rebuilt \in BOOLEAN

MirrorInv == CamdType /\ HubType /\ NodeType /\ TakesAreHonest

-----------------------------------------------------------------------------
(* A frame that is published leaves the hub well typed. *)
LEMMA PublishType ==
  ASSUME HubType, NEW f \in Frame, Publish(f)
  PROVE  HubType'
<1>1. CASE ~Listening
  BY <1>1 DEF Publish, HubType, hub
<1>2. CASE Listening /\ Len(pipe) < MaxQueued
  <2>1. pipe' = Append(pipe, f) /\ conn' = conn /\ hello' = hello
    BY <1>2 DEF Publish, Enqueue
  <2>2. pipe' \in Seq(Frame) /\ Len(pipe') = Len(pipe) + 1
    BY <2>1 DEF HubType
  <2>3. QED
    BY <1>2, <2>1, <2>2, MirrorAssumption DEF HubType
<1>3. CASE Listening /\ ~(Len(pipe) < MaxQueued)
  <2>1. Kill
    BY <1>3 DEF Publish, Enqueue
  <2>2. QED
    BY <2>1, MirrorAssumption DEF Kill, HubType
<1>4. QED
  BY <1>1, <1>2, <1>3

(* So does a socket that dies. *)
LEMMA KillType ==
  ASSUME HubType, Kill
  PROVE  HubType'
BY MirrorAssumption DEF Kill, HubType

(* What is behind is one of the two things the mirror says. *)
LEMMA BehindType ==
  ASSUME NEW m, NEW p, NEW truth
  PROVE  Behind(m, p, truth) \subseteq {"up", "rec"}
BY DEF Behind

(* An event keeps the take log in step with the mirror.                    *)
LEMMA ApplyKeepsTakes ==
  ASSUME MirrorInv, NEW f \in Frame, f.kind # "hello", Apply(f)
  PROVE  /\ mirror' \in Snapshot /\ takes' \in 0 .. MaxOpen /\ rebuilt' = rebuilt
         /\ TakesAreHonest'
<1>1. mirror' \in Snapshot
  <2>1. CASE f.kind = "state"
    BY <2>1 DEF Apply, Applied, MirrorInv, NodeType
  <2>2. CASE f.kind = "status"
    BY <2>2 DEF Apply, Applied, MirrorInv, NodeType
  <2>3. QED
    BY <2>1, <2>2
<1>2. takes' \in 0 .. MaxOpen /\ rebuilt' = rebuilt
  BY MirrorAssumption DEF Apply, Open, Close, MirrorInv, NodeType
<1>3. TakesAreHonest'
  BY <1>1, <1>2, MirrorAssumption DEF Apply, Open, Close, MirrorInv, NodeType, TakesAreHonest
<1>4. QED
  BY <1>1, <1>2, <1>3

-----------------------------------------------------------------------------
(* A step of camd leaves cambridge alone. *)
LEMMA CamdKeeps ==
  ASSUME MirrorInv, Camd
  PROVE  MirrorInv'
<1> USE DEF MirrorInv
<1>n. UNCHANGED node /\ stale' \subseteq {"up", "rec"} => NodeType' /\ TakesAreHonest'
  BY DEF node, NodeType, TakesAreHonest
<1>f. \A b \in BOOLEAN : StatusFrame(b) \in Frame /\ \A key : StateFrame(b, key) \in StateEvent
  BY DEF StateFrame, StatusFrame
<1>1. CASE Connects
  <2>1. HubType'
    BY <1>1, <1>f, PublishType DEF Connects
  <2>2. CamdType' /\ UNCHANGED node /\ stale' \subseteq {"up", "rec"}
    <3>1. hostKey' \in {"unknown", "first", "pinned"}
      <4>1. hostKey' \in Keys
        BY <1>1 DEF Connects
      <4> QED
        BY <4>1 DEF Keys
    <3>2. snap' \in Snapshot /\ snap'.up /\ worker' = "read"
      BY <1>1 DEF Connects, CamdType
    <3>3. UNCHANGED <<relabel, reply>> /\ UNCHANGED node /\ stale' = stale \ {"up"}
      BY <1>1 DEF Connects, node
    <3> QED
      BY <3>1, <3>2, <3>3 DEF CamdType, NodeType
  <2>3. QED
    BY <1>n, <2>1, <2>2
<1>2. ASSUME NEW rec \in BOOLEAN, ReadsStatus(rec) \/ Heartbeat(rec) PROVE MirrorInv'
  <2>1. HubType'
    BY <1>2, <1>f, PublishType DEF ReadsStatus, Heartbeat
  <2>2. CamdType' /\ UNCHANGED node /\ stale' \subseteq {"up", "rec"}
    BY <1>2 DEF ReadsStatus, Heartbeat, CamdType, NodeType
  <2>3. QED
    BY <1>n, <2>1, <2>2
<1>3. CASE ReadsNothing
  <2>1. HubType'
    BY <1>3, <1>f, PublishType DEF ReadsNothing
  <2>2. CamdType' /\ UNCHANGED node /\ stale' \subseteq {"up", "rec"}
    BY <1>3, BehindType DEF ReadsNothing, CamdType, NodeType
  <2>3. QED
    BY <1>n, <2>1, <2>2
<1>5. CASE Confirms
  <2>1. HubType'
    BY <1>5, <1>f, PublishType DEF Confirms, CamdType
  <2>2. CamdType' /\ UNCHANGED node /\ stale' \subseteq {"up", "rec"}
    BY <1>5 DEF Confirms, CamdType, NodeType
  <2>3. QED
    BY <1>n, <2>1, <2>2
<1>6. CASE GivesUp
  BY <1>6, <1>n DEF GivesUp, CamdType, HubType, NodeType, hub
<1>7. CASE RelabelPublished
  <2>1. HubType'
    <3>1. relabel \in Frame
      BY <1>7 DEF RelabelPublished, CamdType
    <3> QED
      BY <1>7, <3>1, PublishType DEF RelabelPublished
  <2>2. CamdType' /\ UNCHANGED node /\ stale' \subseteq {"up", "rec"}
    BY <1>7, BehindType DEF RelabelPublished, CamdType, NodeType, camd
  <2>3. QED
    BY <1>n, <2>1, <2>2
<1>8. CASE BuildHello
  <2>1. HubType'
    BY <1>8 DEF BuildHello, HubType, CamdType
  <2>2. CamdType' /\ UNCHANGED node /\ stale' \subseteq {"up", "rec"}
    BY <1>8 DEF BuildHello, CamdType, NodeType, camd
  <2>3. QED
    BY <1>n, <2>1, <2>2
<1>9. CASE Register
  BY <1>9, <1>n DEF Register, CamdType, HubType, NodeType, camd
<1>10. CASE Greet
  <2>1. HubType'
    <3>1. CASE Len(pipe) < MaxQueued
      <4>1. [kind |-> "hello", up |-> hello.up, rec |-> hello.rec] \in Frame
        BY <1>10 DEF Greet, HubType
      <4>2. pipe' \in Seq(Frame) /\ Len(pipe') = Len(pipe) + 1
        BY <1>10, <3>1, <4>1 DEF Greet, HubType
      <4>3. QED
        BY <1>10, <3>1, <4>2, MirrorAssumption DEF Greet, HubType
    <3>2. CASE ~(Len(pipe) < MaxQueued)
      BY <1>10, <3>2, KillType DEF Greet
    <3>3. QED
      BY <3>1, <3>2
  <2>2. CamdType' /\ UNCHANGED node /\ stale' \subseteq {"up", "rec"}
    BY <1>10, BehindType DEF Greet, CamdType, NodeType, camd
  <2>3. QED
    BY <1>n, <2>1, <2>2
<1>11. QED
  BY <1>1, <1>2, <1>3, <1>5, <1>6, <1>7, <1>8, <1>9, <1>10 DEF Camd

(* A step of the body, a link, an operator, or a restart. *)
LEMMA WorldKeeps ==
  ASSUME MirrorInv, World
  PROVE  MirrorInv'
<1> USE DEF MirrorInv
<1>n. UNCHANGED node /\ stale' \subseteq {"up", "rec"} => NodeType' /\ TakesAreHonest'
  BY DEF node, NodeType, TakesAreHonest
<1>2. CASE Disconnects
  <2>1. HubType'
    BY <1>2, PublishType DEF Disconnects, StateFrame
  <2>2. CamdType' /\ UNCHANGED node /\ stale' \subseteq {"up", "rec"}
    BY <1>2 DEF Disconnects, CamdType, NodeType
  <2>3. QED
    BY <1>n, <2>1, <2>2
<1>7. CASE Attempts
  <2>1. HubType'
    BY <1>7, PublishType DEF Attempts, StateFrame
  <2>2. CamdType' /\ UNCHANGED node /\ stale' \subseteq {"up", "rec"}
    BY <1>7 DEF Attempts, CamdType, NodeType
  <2>3. QED
    BY <1>n, <2>1, <2>2
<1>3. CASE Relabel
  BY <1>3, <1>n DEF Relabel, StateFrame, CamdType, HubType, NodeType, camd, hub
<1>4. CASE SocketDies
  <2>1. HubType'
    BY <1>4, KillType DEF SocketDies
  <2>2. QED
    BY <1>4, <1>n, <2>1 DEF SocketDies, CamdType, NodeType, camd
<1>5. CASE Restarts
  <2>1. HubType'
    BY <1>5, KillType DEF Restarts
  <2>2. QED
    BY <1>5, <1>n, <2>1 DEF Restarts, CamdType, NodeType, Blank
<1>6. ASSUME NEW want \in {"start", "stop"}, PressRecord(want)
      PROVE  MirrorInv'
  BY <1>6, <1>n DEF PressRecord, CamdType, HubType, NodeType, hub
<1>8. QED
  BY <1>2, <1>3, <1>4, <1>5, <1>6, <1>7 DEF World

(* A step of cambridge. *)
LEMMA CambridgeKeeps ==
  ASSUME MirrorInv, Cambridge
  PROVE  MirrorInv'
<1> USE DEF MirrorInv
<1>1. CASE Deliver
  <2>1. Head(pipe) \in Frame /\ Tail(pipe) \in Seq(Frame) /\ Len(Tail(pipe)) = Len(pipe) - 1
    BY <1>1 DEF Deliver, HubType
  <2>2. HubType' /\ CamdType' /\ opened' = opened
    BY <1>1, <2>1, MirrorAssumption DEF Deliver, HubType, CamdType, camd
  <2>3. CASE Waits(Head(pipe))
    <3>1. Head(pipe) \in StateEvent
      BY <2>1, <2>3 DEF Waits
    <3>2. waiting' = Append(waiting, Head(pipe)) /\ UNCHANGED <<mirror, takes, rebuilt, stale>>
      BY <1>1, <2>3 DEF Deliver
    <3>3. waiting' \in Seq(StateEvent)
      BY <3>1, <3>2, AppendProperties DEF NodeType
    <3>4. NodeType' /\ TakesAreHonest'
      BY <2>2, <3>2, <3>3 DEF NodeType, TakesAreHonest
    <3>5. QED
      BY <2>2, <3>4
  <2>4. CASE ~Waits(Head(pipe))
    <3>1. waiting' = waiting /\ stale' \subseteq {"up", "rec"}
      <4>1. waiting' = waiting /\ (stale' = stale \/ stale' = Behind(mirror', Coming', snap))
        BY <1>1, <2>4 DEF Deliver
      <4>2. Behind(mirror', Coming', snap) \subseteq {"up", "rec"}
        BY BehindType
      <4>3. QED
        BY <4>1, <4>2 DEF NodeType
    <3>2. CASE Head(pipe).kind = "hello"
      <4>1. ReplaceMirror([up |-> Head(pipe).up, rec |-> Head(pipe).rec])
        BY <1>1, <2>4, <3>2 DEF Deliver
      <4>2. [up |-> Head(pipe).up, rec |-> Head(pipe).rec] \in Snapshot
        BY <2>1, <3>2
      <4>3. NodeType' /\ TakesAreHonest'
        BY <2>2, <3>1, <4>1, <4>2 DEF ReplaceMirror, NodeType, TakesAreHonest
      <4>4. QED
        BY <2>2, <4>3
    <3>3. CASE Head(pipe).kind # "hello"
      <4>1. Apply(Head(pipe))
        BY <1>1, <2>4, <3>3 DEF Deliver
      <4>2. NodeType' /\ TakesAreHonest'
        BY <2>1, <2>2, <3>1, <3>3, <4>1, ApplyKeepsTakes DEF NodeType
      <4>3. QED
        BY <2>2, <4>2
    <3>4. QED
      BY <3>2, <3>3
  <2>5. QED
    BY <2>3, <2>4
<1>6. CASE Stored
  <2>1. Head(waiting) \in StateEvent /\ waiting' \in Seq(StateEvent)
    <3> HIDE DEF StateEvent
    <3> QED
      BY <1>6, Parted DEF Stored, NodeType
  <2>2. HubType' /\ CamdType' /\ opened' = opened /\ stale' = stale
    BY <1>6 DEF Stored, HubType, CamdType, camd, hub
  <2>3. Head(waiting) \in Frame /\ Head(waiting).kind # "hello" /\ Apply(Head(waiting))
    BY <1>6, <2>1 DEF Stored
  <2>4. NodeType' /\ TakesAreHonest'
    BY <2>1, <2>2, <2>3, ApplyKeepsTakes DEF NodeType
  <2>5. QED
    BY <2>2, <2>4
<1>7. CASE PinThrows
  <2>1. waiting' \in Seq(StateEvent)
    <3> HIDE DEF StateEvent
    <3> QED
      BY <1>7, Parted DEF PinThrows, NodeType
  <2>2. QED
    BY <1>7, <2>1, BehindType DEF PinThrows, CamdType, HubType, NodeType, TakesAreHonest, camd, hub
<1>2. CASE Opened
  BY <1>2 DEF Opened, CamdType, HubType, NodeType, TakesAreHonest, camd, hub
<1>3. CASE Closed
  <2>1. HubType' /\ CamdType'
    BY <1>3, MirrorAssumption DEF Closed, CamdType, HubType, camd
  <2>2. mirror' \in Snapshot /\ ~mirror'.rec
    BY <1>3 DEF Closed, Blank
  <2>3. takes' \in 0 .. MaxOpen
    BY <1>3, MirrorAssumption DEF Closed, Close, NodeType
  <2>4. TakesAreHonest'
    BY <1>3, <2>2, MirrorAssumption DEF Closed, Close, NodeType, TakesAreHonest
  <2>5. QED
    BY <1>3, <2>1, <2>2, <2>3, <2>4 DEF Closed, NodeType
<1>4. CASE Answers
  BY <1>4 DEF Answers, CamdType, HubType, NodeType, TakesAreHonest, camd, hub, node
<1>5. CASE Refreshed
  <2>1. HubType' /\ CamdType'
    BY <1>5 DEF Refreshed, CamdType, HubType, camd, hub
  <2>2. NodeType' /\ TakesAreHonest'
    BY <1>5, BehindType DEF Refreshed, ReplaceMirror, NodeType, TakesAreHonest
  <2>3. QED
    BY <2>1, <2>2
<1>8. QED
  BY <1>1, <1>2, <1>3, <1>4, <1>5, <1>6, <1>7 DEF Cambridge

-----------------------------------------------------------------------------
(* The invariant holds, however long the queue of a client is. *)
THEOREM MirrorInductive == Spec => []MirrorInv
<1>1. Init => MirrorInv
  <2> SUFFICES ASSUME Init PROVE MirrorInv
    OBVIOUS
  <2>1. Blank \in Snapshot /\ ~Blank.rec
    BY DEF Blank
  <2>2. CamdType
    BY <2>1 DEF Init, CamdType
  <2>3. HubType
    BY MirrorAssumption DEF Init, HubType
  <2>4. NodeType
    <3>1. takes \in 0 .. MaxOpen
      BY MirrorAssumption DEF Init
    <3>2. waiting \in Seq(StateEvent)
      BY EventsAreFrames DEF Init
    <3>3. QED
      BY <2>1, <3>1, <3>2 DEF Init, NodeType
  <2>5. TakesAreHonest
    BY <2>1 DEF Init, TakesAreHonest
  <2>6. QED
    BY <2>2, <2>3, <2>4, <2>5 DEF MirrorInv
<1>2. MirrorInv /\ [Next]_vars => MirrorInv'
  <2>1. ASSUME MirrorInv, UNCHANGED vars
        PROVE  MirrorInv'
    BY <2>1 DEF vars, camd, hub, node, MirrorInv, CamdType, HubType, NodeType, TakesAreHonest
  <2>2. QED
    BY <2>1, CamdKeeps, WorldKeeps, CambridgeKeeps DEF Next
<1>3. QED
  BY <1>1, <1>2, PTL DEF Spec

(* Every reachable state is well typed; a command is only being verified   *)
(* by a worker that is connected.                                          *)
THEOREM MirrorTyped == Spec => []TypeOK
<1>1. MirrorInv => TypeOK
  BY DEF MirrorInv, CamdType, HubType, NodeType, TypeOK
<1>2. QED
  BY <1>1, MirrorInductive, PTL

(* The take log never disagrees with what the panel shows, but for what    *)
(* replaceAll has changed (state.js: applyStatus, applyConnectionState,    *)
(* setCamdConnected).                                                      *)
THEOREM TakesHonest == Spec => []TakesAreHonest
<1>1. MirrorInv => TakesAreHonest
  BY DEF MirrorInv
<1>2. QED
  BY <1>1, MirrorInductive, PTL

-----------------------------------------------------------------------------
(* FORECAST IS THE FOLD OF APPLIED                                         *)

(* The mirror once nothing is on its way is what it is. *)
LEMMA ForecastEmpty ==
  ASSUME NEW m \in Snapshot
  PROVE  Forecast(m, <<>>) = m
BY DEF Forecast, UpAfter, KeptAfter

(* What an earlier frame says of the connection does not depend on a later *)
(* one.                                                                    *)
LEMMA UpAppend ==
  ASSUME NEW m \in Snapshot, NEW p \in Seq(Frame), NEW f \in Frame, NEW k \in 0 .. Len(p)
  PROVE  UpAfter(m, Append(p, f), k) = UpAfter(m, p, k)
<1>1. \A i \in 1 .. k : Append(p, f)[i] = p[i]
  OBVIOUS
<1>2. QED
  BY <1>1 DEF UpAfter

(* One frame more is applied to what the others make of the mirror: what   *)
(* it does to the connection.                                              *)
LEMMA ForecastUp ==
  ASSUME NEW m \in Snapshot, NEW p \in Seq(Frame), NEW f \in Frame
  PROVE  Forecast(m, Append(p, f)).up
           = IF f.kind = "status" THEN Forecast(m, p).up ELSE f.up
<1> DEFINE q == Append(p, f)
           n == Len(p)
<1>1. /\ Len(q) = n + 1 /\ q[n + 1] = f /\ n \in Nat
      /\ \A i \in 1 .. n : q[i] = p[i]
  OBVIOUS
<1>2. Forecast(m, q).up = UpAfter(m, q, n + 1) /\ Forecast(m, p).up = UpAfter(m, p, n)
  BY <1>1 DEF Forecast
<1> HIDE DEF q, n
<1>b. UpAfter(m, q, n + 1) \in BOOLEAN /\ UpAfter(m, p, n) \in BOOLEAN
  BY DEF UpAfter
<1>3. CASE f.kind = "status"
  <2>1. ASSUME NEW i \in 0 .. n
        PROVE  (\A j \in (i + 1) .. (n + 1) : q[j].kind = "status")
                 <=> \A j \in (i + 1) .. n : p[j].kind = "status"
    BY <1>1, <1>3
  <2>2. UpAfter(m, q, n + 1) => UpAfter(m, p, n)
    BY <1>1, <1>3, <2>1 DEF UpAfter
  <2>3. UpAfter(m, p, n) => UpAfter(m, q, n + 1)
    BY <1>1, <1>3, <2>1 DEF UpAfter
  <2>4. QED
    BY <1>2, <1>3, <1>b, <2>2, <2>3 DEF q
<1>4. CASE f.kind # "status"
  <2>1. ~\A j \in 1 .. n + 1 : q[j].kind = "status"
    BY <1>1, <1>4
  <2>2. \A i \in 1 .. n : ~\A j \in (i + 1) .. (n + 1) : q[j].kind = "status"
    BY <1>1, <1>4
  <2>3. UpAfter(m, q, n + 1) <=> f.up
    BY <1>1, <1>4, <2>1, <2>2 DEF UpAfter
  <2>4. f.up \in BOOLEAN
    BY <1>4
  <2>5. QED
    BY <1>2, <1>4, <1>b, <2>3, <2>4 DEF q
<1>5. QED
  BY <1>3, <1>4

(* What it does to the recording. *)
LEMMA ForecastRec ==
  ASSUME NEW m \in Snapshot, NEW p \in Seq(Frame), NEW f \in Frame
  PROVE  Forecast(m, Append(p, f)).rec
           = CASE f.kind = "hello"  -> f.rec
               [] f.kind = "status" -> f.rec
               [] f.kind = "state"  -> Forecast(m, p).rec /\ ~(Forecast(m, p).up /\ ~f.up)
<1> DEFINE q == Append(p, f)
           n == Len(p)
           base(s, i) == IF i = 0 THEN m.rec ELSE s[i].kind # "state" /\ s[i].rec
<1>1. /\ Len(q) = n + 1 /\ q[n + 1] = f /\ n \in Nat
      /\ \A i \in 1 .. n : q[i] = p[i]
  OBVIOUS
<1>2. ASSUME NEW s \in {p, q}
      PROVE  Forecast(m, s).rec <=> \E i \in 0 .. Len(s) : base(s, i) /\ KeptAfter(m, s, i)
  BY <1>1 DEF Forecast
<1>3. Forecast(m, q).rec \in BOOLEAN /\ Forecast(m, p).rec \in BOOLEAN
  BY DEF Forecast, KeptAfter
<1>4. Forecast(m, p).up = UpAfter(m, p, n) /\ UpAfter(m, p, n) \in BOOLEAN
  BY DEF Forecast, UpAfter
<1>5. \A k \in 0 .. n : UpAfter(m, q, k) = UpAfter(m, p, k)
  BY UpAppend
<1>6. KeptAfter(m, q, n + 1)
  BY <1>1 DEF KeptAfter
<1>7. ASSUME NEW i \in 0 .. n
      PROVE  KeptAfter(m, q, i) <=> /\ KeptAfter(m, p, i)
                                   /\ f.kind = "state" /\ (f.up \/ ~UpAfter(m, p, n))
  <2>1. KeptAfter(m, q, i) => KeptAfter(m, p, i)
    BY <1>1, <1>5 DEF KeptAfter
  <2>2. KeptAfter(m, q, i) => f.kind = "state" /\ (f.up \/ ~UpAfter(m, p, n))
    <3>1. n + 1 \in (i + 1) .. Len(q) /\ n \in 0 .. n /\ (n + 1) - 1 = n
      BY <1>1
    <3>2. QED
      BY <1>1, <1>5, <3>1 DEF KeptAfter
  <2>3. ASSUME KeptAfter(m, p, i), f.kind = "state", f.up \/ ~UpAfter(m, p, n)
        PROVE  KeptAfter(m, q, i)
    <3>1. SUFFICES ASSUME NEW k \in (i + 1) .. (n + 1)
                   PROVE  q[k].kind = "state" /\ (q[k].up \/ ~UpAfter(m, q, k - 1))
      BY <1>1 DEF KeptAfter
    <3>2. k - 1 \in 0 .. n /\ UpAfter(m, q, k - 1) = UpAfter(m, p, k - 1)
      BY <1>1, <1>5
    <3>3. CASE k = n + 1
      BY <1>1, <2>3, <3>2, <3>3
    <3>4. CASE k # n + 1
      BY <1>1, <2>3, <3>2, <3>4 DEF KeptAfter
    <3>5. QED
      BY <3>3, <3>4
  <2>4. QED
    BY <2>1, <2>2, <2>3
<1>8. \A i \in 0 .. n : base(q, i) = base(p, i)
  BY <1>1
<1>9. Forecast(m, q).rec <=> \/ base(q, n + 1)
                            \/ /\ f.kind = "state" /\ (f.up \/ ~UpAfter(m, p, n))
                               /\ Forecast(m, p).rec
  <2> HIDE DEF base, q
  <2>1. \A i \in 0 .. (n + 1) : i = n + 1 \/ i \in 0 .. n
    BY <1>1
  <2>2. n + 1 \in 0 .. (n + 1) /\ \A i \in 0 .. n : i \in 0 .. (n + 1)
    BY <1>1
  <2>3. QED
    BY <1>1, <1>2, <1>6, <1>7, <1>8, <2>1, <2>2
<1>10. base(q, n + 1) <=> f.kind # "state" /\ f.rec
  BY <1>1
<1>11. CASE f.kind = "state"
  <2>1. f.up \in BOOLEAN
    BY <1>11
  <2>2. QED
    BY <1>3, <1>4, <1>9, <1>10, <1>11, <2>1
<1>12. CASE f.kind # "state"
  <2>1. f.rec \in BOOLEAN /\ f.kind \in {"hello", "status"}
    BY <1>12
  <2>2. QED
    BY <1>3, <1>9, <1>10, <1>12, <2>1
<1>13. QED
  BY <1>11, <1>12

(* So the forecast is the fold of Applied over what is on its way. *)
LEMMA ForecastAppend ==
  ASSUME NEW m \in Snapshot, NEW p \in Seq(Frame), NEW f \in Frame
  PROVE  Forecast(m, Append(p, f)) = Applied(Forecast(m, p), f)
<1>1. /\ Forecast(m, p) = [up |-> Forecast(m, p).up, rec |-> Forecast(m, p).rec]
      /\ Forecast(m, Append(p, f))
           = [up |-> Forecast(m, Append(p, f)).up, rec |-> Forecast(m, Append(p, f)).rec]
  BY DEF Forecast
<1>2. f.kind \in {"hello", "state", "status"}
  OBVIOUS
<1>3. CASE f.kind = "hello"
  BY <1>1, <1>3, ForecastUp, ForecastRec DEF Applied
<1>4. CASE f.kind = "state"
  BY <1>1, <1>4, ForecastUp, ForecastRec DEF Applied
<1>5. CASE f.kind = "status"
  BY <1>1, <1>5, ForecastUp, ForecastRec DEF Applied
<1>6. QED
  BY <1>2, <1>3, <1>4, <1>5

(* The frame that arrives next may as well have arrived. *)
LEMMA UpTail ==
  ASSUME NEW m \in Snapshot, NEW p \in Seq(Frame), p # <<>>, NEW k \in 1 .. Len(p)
  PROVE  UpAfter(m, p, k) = UpAfter(Applied(m, Head(p)), Tail(p), k - 1)
<1> DEFINE f == Head(p)
           t == Tail(p)
           a == Applied(m, f)
<1>1. /\ f = p[1] /\ f \in Frame /\ k \in Nat /\ k - 1 \in Nat
      /\ \A i \in 1 .. (k - 1) : t[i] = p[i + 1]
      /\ Len(t) = Len(p) - 1
  OBVIOUS
<1>2. a.up = IF f.kind = "status" THEN m.up ELSE f.up
  BY <1>1 DEF Applied
<1>3. UpAfter(m, p, k) \in BOOLEAN /\ UpAfter(a, t, k - 1) \in BOOLEAN
  BY DEF UpAfter
<1> HIDE DEF f, t, a
<1>4. ASSUME NEW i \in 0 .. (k - 1)
      PROVE  (\A j \in (i + 2) .. k : p[j].kind = "status")
               <=> \A j \in (i + 1) .. (k - 1) : t[j].kind = "status"
  <2>1. ASSUME \A j \in (i + 2) .. k : p[j].kind = "status", NEW j \in (i + 1) .. (k - 1)
        PROVE  t[j].kind = "status"
    <3>1. j \in 1 .. (k - 1) /\ j + 1 \in (i + 2) .. k
      BY <1>1
    <3>2. QED
      BY <1>1, <2>1, <3>1
  <2>2. ASSUME \A j \in (i + 1) .. (k - 1) : t[j].kind = "status", NEW j \in (i + 2) .. k
        PROVE  p[j].kind = "status"
    <3>1. j - 1 \in 1 .. (k - 1) /\ j - 1 \in (i + 1) .. (k - 1) /\ (j - 1) + 1 = j
      BY <1>1
    <3>2. QED
      BY <1>1, <2>2, <3>1
  <2>3. QED
    BY <2>1, <2>2
<1>5. UpAfter(m, p, k) => UpAfter(a, t, k - 1)
  <2>1. ASSUME NEW i \in 1 .. k, p[i].kind # "status", p[i].up,
               \A j \in (i + 1) .. k : p[j].kind = "status"
        PROVE  UpAfter(a, t, k - 1)
    <3>1. CASE i = 1
      <4>1. a.up /\ \A j \in 1 .. (k - 1) : t[j].kind = "status"
        BY <1>1, <1>2, <1>4, <2>1, <3>1
      <4>2. QED
        BY <4>1 DEF UpAfter
    <3>2. CASE i # 1
      <4>1. /\ i - 1 \in 1 .. (k - 1) /\ t[i - 1] = p[i]
            /\ i - 1 \in 0 .. (k - 1) /\ (i - 1) + 2 = i + 1 /\ (i - 1) + 1 = i
        <5>1. i - 1 \in 1 .. (k - 1) /\ (i - 1) + 1 = i /\ (i - 1) + 2 = i + 1
          BY <1>1, <3>2
        <5>2. QED
          BY <1>1, <5>1
      <4>2. \A j \in ((i - 1) + 1) .. (k - 1) : t[j].kind = "status"
        BY <1>4, <2>1, <4>1
      <4>3. QED
        BY <2>1, <4>1, <4>2 DEF UpAfter
    <3>3. QED
      BY <3>1, <3>2
  <2>2. ASSUME m.up, \A j \in 1 .. k : p[j].kind = "status"
        PROVE  UpAfter(a, t, k - 1)
    <3>1. f.kind = "status" /\ \A j \in 2 .. k : p[j].kind = "status"
      BY <1>1, <2>2
    <3>2. \A j \in 1 .. (k - 1) : t[j].kind = "status"
      BY <1>1, <1>4, <3>1
    <3>3. QED
      BY <1>2, <2>2, <3>1, <3>2 DEF UpAfter
  <2>3. QED
    BY <2>1, <2>2 DEF UpAfter
<1>6. UpAfter(a, t, k - 1) => UpAfter(m, p, k)
  <2>1. ASSUME NEW i \in 1 .. (k - 1), t[i].kind # "status", t[i].up,
               \A j \in (i + 1) .. (k - 1) : t[j].kind = "status"
        PROVE  UpAfter(m, p, k)
    <3>1. i + 1 \in 1 .. k /\ p[i + 1] = t[i] /\ i \in 0 .. (k - 1) /\ (i + 1) + 1 = i + 2
      BY <1>1
    <3>2. \A j \in ((i + 1) + 1) .. k : p[j].kind = "status"
      BY <1>4, <2>1, <3>1
    <3>3. QED
      BY <2>1, <3>1, <3>2 DEF UpAfter
  <2>2. ASSUME a.up, \A j \in 1 .. (k - 1) : t[j].kind = "status"
        PROVE  UpAfter(m, p, k)
    <3>1. \A j \in 2 .. k : p[j].kind = "status"
      <4>1. 0 \in 0 .. (k - 1) /\ 0 + 2 = 2 /\ 0 + 1 = 1
        BY <1>1
      <4>2. QED
        BY <1>4, <2>2, <4>1
    <3>2. CASE f.kind = "status"
      <4>1. \A j \in 1 .. k : p[j].kind = "status"
        BY <1>1, <3>1, <3>2
      <4>2. QED
        BY <1>2, <2>2, <3>2, <4>1 DEF UpAfter
    <3>3. CASE f.kind # "status"
      BY <1>1, <1>2, <2>2, <3>1, <3>3 DEF UpAfter
    <3>4. QED
      BY <3>2, <3>3
  <2>3. QED
    BY <2>1, <2>2 DEF UpAfter
<1>7. QED
  BY <1>3, <1>5, <1>6 DEF f, t, a

LEMMA ForecastTail ==
  ASSUME NEW m \in Snapshot, NEW p \in Seq(Frame), p # <<>>
  PROVE  Forecast(m, p) = Forecast(Applied(m, Head(p)), Tail(p))
<1> DEFINE f == Head(p)
           t == Tail(p)
           a == Applied(m, f)
           n == Len(p)
<1>1. /\ f = p[1] /\ f \in Frame /\ n \in Nat /\ n >= 1 /\ Len(t) = n - 1 /\ n \in 1 .. n
      /\ \A i \in 1 .. (n - 1) : t[i] = p[i + 1]
  OBVIOUS
<1>2. a.rec <=> \/ f.kind # "state" /\ f.rec
                \/ f.kind = "state" /\ m.rec /\ (f.up \/ ~m.up)
  BY <1>1 DEF Applied
<1>3. UpAfter(m, p, 0) = m.up
  <2>1. UpAfter(m, p, 0) \in BOOLEAN /\ m.up \in BOOLEAN
    BY DEF UpAfter
  <2>2. UpAfter(m, p, 0) <=> m.up
    BY DEF UpAfter
  <2>3. QED
    BY <2>1, <2>2
<1>4. \A k \in 1 .. n : UpAfter(m, p, k) = UpAfter(a, t, k - 1)
  BY UpTail
<1> HIDE DEF f, t, a, n
<1>5. ASSUME NEW i \in 1 .. n
      PROVE  KeptAfter(m, p, i) <=> KeptAfter(a, t, i - 1)
  <2>1. ASSUME KeptAfter(m, p, i), NEW k \in ((i - 1) + 1) .. (n - 1)
        PROVE  t[k].kind = "state" /\ (t[k].up \/ ~UpAfter(a, t, k - 1))
    <3>1. k + 1 \in (i + 1) .. n /\ k \in 1 .. (n - 1) /\ k \in 1 .. n /\ (k + 1) - 1 = k
      BY <1>1
    <3>2. t[k] = p[k + 1] /\ UpAfter(m, p, k) = UpAfter(a, t, k - 1)
      BY <1>1, <1>4, <3>1
    <3>3. QED
      BY <2>1, <3>1, <3>2 DEF KeptAfter, n
  <2>2. ASSUME KeptAfter(a, t, i - 1), NEW k \in (i + 1) .. n
        PROVE  p[k].kind = "state" /\ (p[k].up \/ ~UpAfter(m, p, k - 1))
    <3>1. /\ k - 1 \in 1 .. (n - 1) /\ k - 1 \in 1 .. n /\ (k - 1) + 1 = k
          /\ k - 1 \in ((i - 1) + 1) .. Len(t)
      BY <1>1
    <3>2. t[k - 1] = p[k] /\ UpAfter(m, p, k - 1) = UpAfter(a, t, (k - 1) - 1)
      BY <1>1, <1>4, <3>1
    <3>3. QED
      BY <2>2, <3>1, <3>2 DEF KeptAfter
  <2>3. QED
    BY <1>1, <2>1, <2>2 DEF KeptAfter, n
<1>6. KeptAfter(m, p, 0) <=> f.kind = "state" /\ (f.up \/ ~m.up) /\ KeptAfter(a, t, 0)
  <2>1. KeptAfter(m, p, 0) <=> /\ p[1].kind = "state" /\ (p[1].up \/ ~UpAfter(m, p, 0))
                              /\ KeptAfter(m, p, 1)
    <3>1. \A k \in 1 .. n : k = 1 \/ k \in (1 + 1) .. n
      BY <1>1
    <3>2. \A k \in (1 + 1) .. n : k \in (0 + 1) .. n
      BY <1>1
    <3>3. 1 \in (0 + 1) .. n /\ 1 - 1 = 0 /\ 0 + 1 = 1
      BY <1>1
    <3>4. QED
      BY <3>1, <3>2, <3>3 DEF KeptAfter, n
  <2>2. 1 \in 1 .. n /\ 1 - 1 = 0
    BY <1>1
  <2>3. QED
    BY <1>1, <1>3, <1>5, <2>1, <2>2
<1>7. Forecast(m, p).up = Forecast(a, t).up
  BY <1>1, <1>4 DEF Forecast, n
<1>8. Forecast(m, p).rec => Forecast(a, t).rec
  <2>1. ASSUME NEW i \in 1 .. n, p[i].kind # "state", p[i].rec, KeptAfter(m, p, i)
        PROVE  Forecast(a, t).rec
    <3>1. KeptAfter(a, t, i - 1)
      BY <1>5, <2>1
    <3>2. CASE i = 1
      BY <1>1, <1>2, <2>1, <3>1, <3>2 DEF Forecast
    <3>3. CASE i # 1
      <4>1. i - 1 \in 1 .. (n - 1) /\ (i - 1) + 1 = i
        BY <1>1, <3>3
      <4>2. t[i - 1] = p[i] /\ i - 1 \in 1 .. Len(t)
        BY <1>1, <4>1
      <4>3. QED
        BY <2>1, <3>1, <4>2 DEF Forecast
    <3>4. QED
      BY <3>2, <3>3
  <2>2. ASSUME m.rec, KeptAfter(m, p, 0)
        PROVE  Forecast(a, t).rec
    BY <1>2, <1>6, <2>2 DEF Forecast
  <2>3. QED
    BY <2>1, <2>2 DEF Forecast, n
<1>9. Forecast(a, t).rec => Forecast(m, p).rec
  <2>1. ASSUME NEW i \in 1 .. (n - 1), t[i].kind # "state", t[i].rec, KeptAfter(a, t, i)
        PROVE  Forecast(m, p).rec
    <3>1. i + 1 \in 1 .. n /\ t[i] = p[i + 1] /\ (i + 1) - 1 = i
      BY <1>1
    <3>2. KeptAfter(m, p, i + 1)
      BY <1>5, <2>1, <3>1
    <3>3. QED
      BY <2>1, <3>1, <3>2 DEF Forecast, n
  <2>2. ASSUME a.rec, KeptAfter(a, t, 0)
        PROVE  Forecast(m, p).rec
    <3>1. CASE f.kind # "state"
      <4>1. 1 \in 1 .. n /\ 1 - 1 = 0
        BY <1>1
      <4>2. KeptAfter(m, p, 1)
        BY <1>5, <2>2, <4>1
      <4>3. QED
        BY <1>1, <1>2, <2>2, <3>1, <4>1, <4>2 DEF Forecast, n
    <3>2. CASE f.kind = "state"
      BY <1>2, <1>6, <2>2, <3>2 DEF Forecast
    <3>3. QED
      BY <3>1, <3>2
  <2>3. QED
    BY <1>1, <2>1, <2>2 DEF Forecast
<1>10. Forecast(m, p).rec = Forecast(a, t).rec
  <2>1. Forecast(m, p).rec \in BOOLEAN /\ Forecast(a, t).rec \in BOOLEAN
    BY DEF Forecast, KeptAfter
  <2>2. QED
    BY <1>8, <1>9, <2>1
<1>11. QED
  BY <1>7, <1>10 DEF Forecast, f, t, a

-----------------------------------------------------------------------------
(* THE MIRROR FOLLOWS                                                      *)

(* A status that is published settles what the mirror will say of the      *)
(* recording, and nothing else.                                            *)
LEMMA StatusSettles ==
  ASSUME NEW m \in Snapshot, NEW p \in Seq(Frame), NEW b \in BOOLEAN
  PROVE  /\ Forecast(m, Append(p, StatusFrame(b))).rec = b
         /\ Forecast(m, Append(p, StatusFrame(b))).up = Forecast(m, p).up
BY ForecastUp, ForecastRec DEF StatusFrame

(* A connection state settles whether the camera is up. *)
LEMMA StateSettles ==
  ASSUME NEW m \in Snapshot, NEW p \in Seq(Frame), NEW f \in StateEvent
  PROVE  Forecast(m, Append(p, f)).up = f.up
<1>1. f \in Frame /\ f.kind = "state"
  OBVIOUS
<1>2. QED
  BY <1>1, ForecastUp

(* What waits comes before what is still to be read. *)
LEMMA ComingIs ==
  ASSUME MirrorInv
  PROVE  /\ mirror \in Snapshot /\ Coming \in Seq(Frame)
         /\ \A f \in Frame : waiting \o Append(pipe, f) = Append(Coming, f)
<1>1. mirror \in Snapshot /\ waiting \in Seq(Frame) /\ pipe \in Seq(Frame)
  BY EventsAreFrames DEF MirrorInv, HubType, NodeType
<1> DEFINE w == waiting
           p == pipe
<1> HIDE DEF w, p
<1>2. w \in Seq(Frame) /\ p \in Seq(Frame)
  BY <1>1 DEF w, p
<1>3. ASSUME NEW S, NEW a \in Seq(S), NEW b \in Seq(S), NEW f \in S
      PROVE  a \o b \in Seq(S) /\ a \o Append(b, f) = Append(a \o b, f)
  BY <1>3
<1>4. w \o p \in Seq(Frame) /\ \A f \in Frame : w \o Append(p, f) = Append(w \o p, f)
  <2> HIDE DEF Frame, Snapshot, StateEvent
  <2> QED
    BY <1>2, <1>3
<1>5. QED
  BY <1>1, <1>4 DEF Coming, w, p

(* MirrorFollows, thing by thing. *)
UpFollows  == conn = "greeted" /\ Forecast(mirror, Coming).up # snap.up => "up" \in stale
RecFollows == conn = "greeted" /\ snap.up /\ Forecast(mirror, Coming).rec # snap.rec
                => "rec" \in stale \/ worker = "read"

LEMMA FollowsParts == MirrorFollows <=> UpFollows /\ RecFollows
BY DEF MirrorFollows, UpFollows, RecFollows, Behind

(* A frame that is published reaches a client that was greeted, or the     *)
(* client is cut off.                                                      *)
LEMMA PublishReaches ==
  ASSUME NEW f, Publish(f), conn' = "greeted"
  PROVE  conn = "greeted" /\ pipe' = Append(pipe, f)
BY DEF Publish, Enqueue, Kill, Listening, hub

LEMMA PublishFollows ==
  ASSUME MirrorInv, NEW f \in Frame, Publish(f), UNCHANGED node, conn' = "greeted"
  PROVE  /\ conn = "greeted" /\ Coming' = Append(Coming, f)
         /\ mirror \in Snapshot /\ Coming \in Seq(Frame)
<1>1. conn = "greeted" /\ pipe' = Append(pipe, f) /\ waiting' = waiting
  BY PublishReaches DEF node
<1>2. QED
  BY <1>1, ComingIs DEF Coming

LEMMA CamdFollows ==
  ASSUME MirrorInv, UpFollows, RecFollows, Camd
  PROVE  UpFollows' /\ RecFollows'
<1> USE DEF UpFollows, RecFollows
<1>f. \A b \in BOOLEAN : StatusFrame(b) \in Frame /\ \A key : StateFrame(b, key) \in StateEvent
  BY DEF StateFrame, StatusFrame
<1>t. snap \in Snapshot
  BY DEF MirrorInv, CamdType
<1>1. CASE Connects
  <2> DEFINE f == StateFrame(TRUE, hostKey')
  <2>1. /\ Publish(f) /\ mirror' = mirror /\ UNCHANGED node
        /\ snap'.up = TRUE /\ worker' = "read"
    BY <1>1, <1>t DEF Connects, node
  <2>f. f \in StateEvent /\ f \in Frame /\ f.up = TRUE
    BY <1>f DEF StateFrame
  <2> HIDE DEF f
  <2>2. conn' = "greeted" => Forecast(mirror', Coming').up = TRUE
    <3> SUFFICES ASSUME conn' = "greeted" PROVE Forecast(mirror', Coming').up = TRUE
      OBVIOUS
    <3>1. Coming' = Append(Coming, f) /\ mirror \in Snapshot /\ Coming \in Seq(Frame)
      BY <2>1, <2>f, PublishFollows
    <3>2. Forecast(mirror, Append(Coming, f)).up = TRUE
      BY <2>f, <3>1, StateSettles
    <3> QED
      BY <2>1, <3>1, <3>2
  <2>3. QED
    BY <2>1, <2>2
<1>2. ASSUME NEW rec \in BOOLEAN,
             \/ ReadsStatus(rec) \/ Heartbeat(rec)
             \/ Confirms /\ rec = (worker = "start")
      PROVE  UpFollows' /\ RecFollows'
  <2>1. /\ Publish(StatusFrame(rec)) /\ mirror' = mirror /\ UNCHANGED node
        /\ snap'.up = snap.up /\ snap'.rec = rec /\ stale' = stale \ {"rec"}
    BY <1>2, <1>t DEF ReadsStatus, Heartbeat, Confirms, node
  <2>2. conn' = "greeted" => /\ Forecast(mirror', Coming').rec = rec
                             /\ Forecast(mirror', Coming').up = Forecast(mirror, Coming).up
                             /\ conn = "greeted"
    <3>1. StatusFrame(rec) \in Frame
      BY <1>f
    <3>2. conn' = "greeted" => /\ conn = "greeted" /\ Coming' = Append(Coming, StatusFrame(rec))
                               /\ mirror \in Snapshot /\ Coming \in Seq(Frame)
      BY <2>1, <3>1, PublishFollows
    <3>3. mirror \in Snapshot /\ Coming \in Seq(Frame) =>
            /\ Forecast(mirror, Append(Coming, StatusFrame(rec))).rec = rec
            /\ Forecast(mirror, Append(Coming, StatusFrame(rec))).up = Forecast(mirror, Coming).up
      BY StatusSettles
    <3>4. QED
      BY <2>1, <3>2, <3>3
  <2>3. QED
    BY <2>1, <2>2
<1>3. CASE ReadsNothing \/ RelabelPublished \/ Greet
  <2>1. stale' = Behind(mirror', Coming', snap')
    BY <1>3 DEF ReadsNothing, RelabelPublished, Greet, node, camd
  <2>2. UpFollows' /\ RecFollows'
    BY <2>1 DEF Behind
  <2>3. QED
    BY <2>2
<1>c. CASE Confirms
  BY <1>2, <1>c
<1>5. CASE GivesUp
  BY <1>5 DEF GivesUp, hub, node, Coming
<1>6. CASE BuildHello \/ Register
  BY <1>6 DEF BuildHello, Register, camd, node, Coming
<1>7. QED
  BY <1>1, <1>2, <1>3, <1>5, <1>6, <1>c DEF Camd

LEMMA WorldFollows ==
  ASSUME MirrorInv, UpFollows, RecFollows, World
  PROVE  UpFollows' /\ RecFollows'
<1> USE DEF UpFollows, RecFollows
<1>1. CASE Relabel
  BY <1>1 DEF Relabel, camd, hub, node, Coming
<1>2. CASE Disconnects \/ Attempts
  <2> DEFINE f == StateFrame(FALSE, hostKey')
  <2>1. Publish(f) /\ mirror' = mirror /\ UNCHANGED node /\ snap'.up = FALSE
    BY <1>2 DEF Disconnects, Attempts, node, MirrorInv, CamdType
  <2>2. f \in StateEvent /\ f \in Frame /\ f.up = FALSE
    BY DEF StateFrame
  <2> HIDE DEF f
  <2>3. conn' = "greeted" => Forecast(mirror', Coming').up = FALSE
    <3> SUFFICES ASSUME conn' = "greeted" PROVE Forecast(mirror', Coming').up = FALSE
      OBVIOUS
    <3>1. Coming' = Append(Coming, f) /\ mirror \in Snapshot /\ Coming \in Seq(Frame)
      BY <2>1, <2>2, PublishFollows
    <3>2. Forecast(mirror, Append(Coming, f)).up = FALSE
      BY <2>2, <3>1, StateSettles
    <3> QED
      BY <2>1, <3>1, <3>2
  <2>4. QED
    BY <2>1, <2>3
<1>3. CASE SocketDies \/ Restarts
  BY <1>3 DEF SocketDies, Restarts, Kill
<1>4. ASSUME NEW want \in {"start", "stop"}, PressRecord(want)
      PROVE  UpFollows' /\ RecFollows'
  BY <1>4 DEF PressRecord, hub, node, Coming
<1>5. QED
  BY <1>1, <1>2, <1>3, <1>4 DEF World

(* A frame put behind those that wait keeps its place. *)
LEMMA Regroup ==
  ASSUME NEW S, NEW a \in Seq(S), NEW b \in Seq(S), b # <<>>
  PROVE  Append(a, Head(b)) \o Tail(b) = a \o b
OBVIOUS

LEMMA Begins ==
  ASSUME NEW S, NEW a \in Seq(S), NEW b \in Seq(S), a # <<>>
  PROVE  /\ a \o b \in Seq(S) /\ a \o b # <<>>
         /\ Head(a \o b) = Head(a) /\ Tail(a \o b) = Tail(a) \o b
OBVIOUS

LEMMA CambridgeFollows ==
  ASSUME MirrorInv, UpFollows, RecFollows, Cambridge
  PROVE  UpFollows' /\ RecFollows'
<1> USE DEF UpFollows, RecFollows
<1>1. CASE Deliver
  <2>1. /\ mirror \in Snapshot /\ waiting \in Seq(Frame) /\ pipe \in Seq(Frame) /\ pipe # <<>>
        /\ Head(pipe) \in Frame /\ pipe' = Tail(pipe) /\ conn' = conn /\ UNCHANGED <<snap, worker>>
    <3>1. waiting \in Seq(Frame) /\ mirror \in Snapshot /\ pipe \in Seq(Frame)
      BY EventsAreFrames DEF MirrorInv, HubType, NodeType
    <3>2. pipe # <<>> /\ pipe' = Tail(pipe) /\ conn' = conn /\ UNCHANGED <<snap, worker>>
      BY <1>1 DEF Deliver, camd
    <3> QED
      BY <3>1, <3>2, Parted
  <2>2. CASE Waits(Head(pipe))
    <3>1. waiting' = Append(waiting, Head(pipe)) /\ UNCHANGED <<mirror, stale>>
      BY <1>1, <2>2 DEF Deliver
    <3>2. Append(waiting, Head(pipe)) \o Tail(pipe) = waiting \o pipe
      BY <2>1, Regroup
    <3>3. Coming' = Coming
      BY <2>1, <3>1, <3>2 DEF Coming
    <3>4. QED
      BY <2>1, <3>1, <3>3
  <2>3. CASE ~Waits(Head(pipe)) /\ waiting = <<>>
    <3>1. /\ mirror' = Applied(mirror, Head(pipe)) /\ waiting' = waiting /\ stale' = stale
      BY <1>1, <2>1, <2>3 DEF Deliver, ReplaceMirror, Apply, Applied
    <3>2. Coming = pipe /\ Coming' = Tail(pipe)
      <4>1. <<>> \o pipe = pipe /\ <<>> \o Tail(pipe) = Tail(pipe)
        BY <2>1, ConcatEmptySeq
      <4>2. QED
        BY <2>1, <2>3, <3>1, <4>1 DEF Coming
    <3>3. Forecast(mirror', Coming') = Forecast(mirror, Coming)
      BY <2>1, <3>1, <3>2, ForecastTail
    <3>4. QED
      BY <2>1, <3>1, <3>3
  <2>4. CASE ~Waits(Head(pipe)) /\ waiting # <<>>
    <3>1. stale' = Behind(mirror', Coming', snap')
      BY <1>1, <2>1, <2>4 DEF Deliver
    <3>2. QED
      BY <3>1 DEF Behind
  <2>5. QED
    BY <2>2, <2>3, <2>4
<1>6. CASE Stored
  <2>1. /\ mirror \in Snapshot /\ waiting \in Seq(Frame) /\ pipe \in Seq(Frame) /\ waiting # <<>>
        /\ waiting' = Tail(waiting) /\ mirror' = Applied(mirror, Head(waiting))
        /\ UNCHANGED <<conn, pipe, snap, worker, stale>>
    <3>1. waiting \in Seq(Frame) /\ mirror \in Snapshot /\ pipe \in Seq(Frame)
      BY EventsAreFrames DEF MirrorInv, HubType, NodeType
    <3> QED
      BY <1>6, <3>1 DEF Stored, Apply, camd, hub
  <2>2. Coming \in Seq(Frame) /\ Coming # <<>> /\ Head(Coming) = Head(waiting) /\ Tail(Coming) = Coming'
    BY <2>1, Begins DEF Coming
  <2>3. Forecast(mirror', Coming') = Forecast(mirror, Coming)
    BY <2>1, <2>2, ForecastTail
  <2>4. QED
    BY <2>1, <2>3
<1>7. CASE PinThrows
  <2>1. stale' = Behind(mirror', Coming', snap')
    BY <1>7 DEF PinThrows, camd, hub
  <2>2. QED
    BY <2>1 DEF Behind
<1>2. CASE Opened \/ Answers
  BY <1>2 DEF Opened, Answers, camd, hub, node, Coming
<1>3. CASE Closed
  BY <1>3 DEF Closed
<1>4. CASE Refreshed
  <2>1. stale' = Behind(mirror', Coming', snap')
    BY <1>4 DEF Refreshed, camd, hub, Coming
  <2>2. QED
    BY <2>1 DEF Behind
<1>5. QED
  BY <1>1, <1>2, <1>3, <1>4, <1>6, <1>7 DEF Cambridge

(* Whatever overtakes whatever, the panel will come to show what camd      *)
(* knows, but for what the six steps that "stale" names have left behind   *)
(* (ws.cpp: the greeting queued after the events; server.js: the REST      *)
(* reply, the events applied while a state waits for pinFingerprint, and a *)
(* state dropped with it; registry.cpp: a label set, a status not read).   *)
THEOREM Follows == Spec => []MirrorFollows
<1>1. Init => UpFollows /\ RecFollows
  BY DEF Init, UpFollows, RecFollows
<1>2. MirrorInv /\ UpFollows /\ RecFollows /\ [Next]_vars => UpFollows' /\ RecFollows'
  <2>1. ASSUME UpFollows, RecFollows, UNCHANGED vars
        PROVE  UpFollows' /\ RecFollows'
    BY <2>1 DEF vars, camd, hub, node, Coming, UpFollows, RecFollows
  <2>2. QED
    BY <2>1, CamdFollows, WorldFollows, CambridgeFollows DEF Next
<1>3. QED
  BY <1>1, <1>2, MirrorInductive, FollowsParts, PTL DEF Spec
=============================================================================
