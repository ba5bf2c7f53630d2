--------------------------- MODULE ViscaServerProofs ---------------------------
(***************************************************************************)
(* Theorems of ViscaServer for any number of controllers, cameras, axes and *)
(* addresses: its types, and that whatever a controller holds moving its   *)
(* own stop can reach.  The inductive invariant adds one fact to the       *)
(* property: a controller on a camera's own port never has a route, so     *)
(* what it holds is that camera.                                           *)
(***************************************************************************)
EXTENDS ViscaServer, FiniteSetTheorems, SequenceTheorems, TLAPS

DedicatedIsUnrouted ==
  \A p \in Peer : Own(p) # None => \A a \in Address : routes[p][a] = None

ServerInv == TypeOK /\ DedicatedIsUnrouted /\ HoldsCanBeStopped

CamerasType ==
  /\ order \in Seq(Camera)
  /\ status \in [Camera -> {"gone", "offline", "connected"}]

ReadingType ==
  /\ wire \in [Peer -> Seq(Piece)]
  /\ carry \in [Peer -> Seq(Piece)]
  /\ open \in [Peer -> BOOLEAN]
  /\ queue \in [Peer -> Seq(Command)]
  /\ busy \in [Peer -> Command \cup {None}]

HoldingType ==
  /\ held \in [Camera -> [Axis -> Peer \cup {None}]]
  /\ stick \in [Peer -> SUBSET (Address \X Axis)]
  /\ routes \in [Peer -> [Address -> Camera \cup {None}]]
  /\ moving \in [Peer -> [Address -> SUBSET Axis]]

LEMMA Types == TypeOK <=> seat \in [Peer -> Seat] /\ CamerasType /\ ReadingType /\ HoldingType
  BY DEF TypeOK, CamerasType, ReadingType, HoldingType

-----------------------------------------------------------------------------
(* The operators on sequences. *)
LEMMA OrderType == SetToSeqs(Camera) \subseteq Seq(Camera)
<1>1. Cardinality(Camera) \in Nat
  BY ViscaAssumption, FS_CardinalityType
<1> QED
  BY <1>1 DEF SetToSeqs

LEMMA WholeType == ASSUME NEW b \in Seq(Piece) PROVE Whole(b) \in Seq(Command)
<1>1. Len(b) \in Nat /\ Len(b) \div 2 \in Nat
  OBVIOUS
<1>2. \A i \in 1 .. (Len(b) \div 2) : b[2 * i] \in Piece
  BY LenProperties
<1>3. \A i \in 1 .. (Len(b) \div 2) : b[2 * i].m \in Command
  BY <1>2 DEF Piece
<1> QED
  BY <1>1, <1>3, SeqDef DEF Whole

LEMMA RestType == ASSUME NEW b \in Seq(Piece) PROVE Rest(b) \in Seq(Piece)
  BY LenProperties DEF Rest, Last

LEMMA RemoveAtType ==
  ASSUME NEW S, NEW s \in Seq(S), NEW i \in DOMAIN s
  PROVE  RemoveAt(s, i) \in Seq(S) /\ s[i] \in S
  BY LenProperties DEF RemoveAt

LEMMA SplitType ==
  ASSUME NEW S, NEW s \in Seq(S), NEW n \in 1 .. Len(s)
  PROVE  SubSeq(s, 1, n) \in Seq(S) /\ SubSeq(s, n + 1, Len(s)) \in Seq(S)
  OBVIOUS

LEMMA CameraForType ==
  ASSUME CamerasType, NEW a \in Address
  PROVE  CameraFor(a) \in Camera \cup {None}
<1> DEFINE listed == {i \in DOMAIN order : status[order[i]] # "gone"}
           at     == {i \in listed : Cardinality({j \in listed : j <= i}) = a}
<1>1. CameraFor(a) = IF at = {} THEN None ELSE order[CHOOSE i \in at : TRUE]
  BY DEF CameraFor
<1>2. at # {} => (CHOOSE i \in at : TRUE) \in DOMAIN order
  OBVIOUS
<1>3. \A i \in DOMAIN order : order[i] \in Camera
  BY LenProperties DEF CamerasType
<1> QED
  BY <1>1, <1>2, <1>3

-----------------------------------------------------------------------------
LEMMA InitInv == Init => ServerInv
<1> SUFFICES ASSUME Init PROVE ServerInv
  OBVIOUS
<1>1. TypeOK
  BY OrderType DEF Init, TypeOK
<1>2. DedicatedIsUnrouted
  BY DEF Init, DedicatedIsUnrouted
<1>3. HoldsCanBeStopped
  BY ViscaAssumption DEF Init, HoldsCanBeStopped
<1> QED
  BY <1>1, <1>2, <1>3 DEF ServerInv

(* What only reads, sends or queues leaves the holds alone. *)
LEMMA QuietInv ==
  ASSUME ServerInv, CamerasType', ReadingType', stick' \in [Peer -> SUBSET (Address \X Axis)],
         UNCHANGED <<seat, held, routing, open>>
  PROVE  ServerInv'
<1>1. TypeOK'
  BY Types DEF ServerInv, routing, TypeOK, CamerasType, ReadingType
<1> QED
  BY <1>1 DEF ServerInv, routing, DedicatedIsUnrouted, HoldsCanBeStopped, Own

LEMMA SendsType ==
  ASSUME ServerInv, NEW p \in Peer, NEW m \in Command, Sends(p, m)
  PROVE  CamerasType' /\ ReadingType' /\ UNCHANGED <<seat, held, routing, open>>
<1>1. wire[p] \in Seq(Piece) /\ wire \in [Peer -> Seq(Piece)]
  BY DEF ServerInv, TypeOK
<1>2. wire' \in [Peer -> Seq(Piece)]
  <2>1. [m |-> m, last |-> FALSE] \in Piece /\ [m |-> m, last |-> TRUE] \in Piece
    BY DEF Piece
  <2>2. <<[m |-> m, last |-> FALSE], [m |-> m, last |-> TRUE]>> \in Seq(Piece)
    BY <2>1
  <2>3. /\ wire[p] \o <<[m |-> m, last |-> FALSE], [m |-> m, last |-> TRUE]>> \in Seq(Piece)
        /\ Append(wire[p], [m |-> m, last |-> TRUE]) \in Seq(Piece)
    BY <1>1, <2>1, <2>2
  <2> QED
    BY <1>1, <2>3 DEF Sends
<1> QED
  BY <1>2 DEF Sends, cameras, routing, ServerInv, TypeOK, CamerasType, ReadingType

LEMMA ControllerInv ==
  ASSUME ServerInv, NEW p \in Peer, NEW a \in Address,
         Ask(p, a) \/ \E x \in Axis : Push(p, a, x) \/ LetGo(p, a, x)
  PROVE  ServerInv'
<1>1. CASE Ask(p, a)
  <2>1. [what |-> "other", addr |-> a] \in Command
    BY DEF Command
  <2> QED
    BY <1>1, <2>1, SendsType, QuietInv DEF Ask, ServerInv, TypeOK
<1>2. ASSUME NEW x \in Axis, Push(p, a, x) \/ LetGo(p, a, x) PROVE ServerInv'
  <2>1. /\ [what |-> "move", addr |-> a, axis |-> x] \in Command
        /\ [what |-> "stop", addr |-> a, axis |-> x] \in Command
    BY DEF Command
  <2>2. stick' \in [Peer -> SUBSET (Address \X Axis)]
    <3>1. <<a, x>> \in Address \X Axis /\ stick \in [Peer -> SUBSET (Address \X Axis)]
      BY DEF ServerInv, TypeOK
    <3>2. \/ stick' = [stick EXCEPT ![p] = @ \cup {<<a, x>>}]
          \/ stick' = [stick EXCEPT ![p] = @ \ {<<a, x>>}]
      BY <1>2 DEF Push, LetGo
    <3> QED
      BY <3>1, <3>2
  <2> QED
    BY <1>2, <2>1, <2>2, SendsType, QuietInv DEF Push, LetGo
<1> QED
  BY <1>1, <1>2

-----------------------------------------------------------------------------
(* Holds that are let go break nothing. *)
LEMMA ReleaseInv ==
  ASSUME ServerInv, TypeOK', UNCHANGED <<seat, routing>>,
         \A c \in Camera, x \in Axis :
           held'[c][x] # None => held'[c][x] = held[c][x] /\ open'[held[c][x]] = open[held[c][x]]
  PROVE  ServerInv'
<1>1. DedicatedIsUnrouted'
  BY DEF ServerInv, DedicatedIsUnrouted, routing, Own
<1>2. HoldsCanBeStopped'
  BY ViscaAssumption DEF ServerInv, HoldsCanBeStopped, routing, Own
<1> QED
  BY <1>1, <1>2 DEF ServerInv

LEMMA ReleasedIs ==
  ASSUME TypeOK, NEW P \in SUBSET Peer
  PROVE  /\ Released(P) \in [Camera -> [Axis -> Peer \cup {None}]]
         /\ \A c \in Camera, x \in Axis :
              Released(P)[c][x] = IF held[c][x] \in P THEN None ELSE held[c][x]
  BY DEF TypeOK, Released

LEMMA ClosesInv ==
  ASSUME ServerInv, NEW p \in Peer, Closes(p)
  PROVE  ServerInv'
<1>1. TypeOK
  BY DEF ServerInv
<1>2. held' = Released({p}) /\ open' = [open EXCEPT ![p] = FALSE]
  BY DEF Closes
<1>3. TypeOK'
  <2>1. held' \in [Camera -> [Axis -> Peer \cup {None}]]
    <3>1. {p} \in SUBSET Peer
      OBVIOUS
    <3> QED
      BY <1>1, <1>2, <3>1, ReleasedIs
  <2>2. open' \in [Peer -> BOOLEAN]
    BY <1>1, <1>2 DEF TypeOK
  <2>3. /\ wire' \in [Peer -> Seq(Piece)] /\ carry' \in [Peer -> Seq(Piece)]
        /\ stick' \in [Peer -> SUBSET (Address \X Axis)]
    BY <1>1 DEF Closes, TypeOK
  <2> QED
    BY <1>1, <2>1, <2>2, <2>3 DEF Closes, cameras, routing, TypeOK
<1>4. \A c \in Camera, x \in Axis :
        held'[c][x] # None => held'[c][x] = held[c][x] /\ open'[held[c][x]] = open[held[c][x]]
  <2> SUFFICES ASSUME NEW c \in Camera, NEW x \in Axis, held'[c][x] # None
               PROVE  held'[c][x] = held[c][x] /\ open'[held[c][x]] = open[held[c][x]]
    OBVIOUS
  <2>1. held'[c][x] = held[c][x] /\ held[c][x] # p
    BY <1>1, <1>2, ReleasedIs
  <2> QED
    BY <1>1, <1>2, <2>1 DEF TypeOK
<1>5. UNCHANGED <<seat, routing>>
  BY DEF Closes
<1> QED
  BY <1>3, <1>4, <1>5, ReleaseInv

LEMMA DataInv ==
  ASSUME ServerInv, NEW p \in Peer, Data(p)
  PROVE  ServerInv'
<1>1. PICK n \in 1 .. Len(wire[p]) :
        LET bytes == carry[p] \o SubSeq(wire[p], 1, n)
            many  == Len(queue[p]) + Len(Whole(bytes)) > QueueLimit IN
        /\ many => Closes(p)
        /\ ~many => /\ wire' = [wire EXCEPT ![p] = SubSeq(@, n + 1, Len(@))]
                    /\ carry' = [carry EXCEPT ![p] = Rest(bytes)]
                    /\ queue' = [queue EXCEPT ![p] = @ \o Whole(bytes)]
                    /\ UNCHANGED <<seat, cameras, held, stick, open, busy, routing>>
  BY DEF Data
<1> DEFINE bytes == carry[p] \o SubSeq(wire[p], 1, n)
           many  == Len(queue[p]) + Len(Whole(bytes)) > QueueLimit
<1>2. /\ wire[p] \in Seq(Piece) /\ carry[p] \in Seq(Piece) /\ queue[p] \in Seq(Command)
      /\ ReadingType /\ CamerasType /\ stick \in [Peer -> SUBSET (Address \X Axis)]
  BY DEF ServerInv, TypeOK, ReadingType, CamerasType
<1>3. bytes \in Seq(Piece) /\ SubSeq(wire[p], n + 1, Len(wire[p])) \in Seq(Piece)
  BY <1>2, SplitType, ConcatProperties
<1>4. Whole(bytes) \in Seq(Command) /\ Rest(bytes) \in Seq(Piece)
  BY <1>3, WholeType, RestType
<1>5. queue[p] \o Whole(bytes) \in Seq(Command)
  BY <1>2, <1>4, ConcatProperties
<1>6. CASE many
  BY <1>1, <1>6, ClosesInv
<1>7. CASE ~many
  <2>1. /\ wire' = [wire EXCEPT ![p] = SubSeq(@, n + 1, Len(@))]
        /\ carry' = [carry EXCEPT ![p] = Rest(bytes)]
        /\ queue' = [queue EXCEPT ![p] = @ \o Whole(bytes)]
        /\ UNCHANGED <<seat, cameras, held, stick, open, busy, routing>>
    BY <1>1, <1>7
  <2> HIDE DEF bytes, many
  <2>2. ReadingType'
    BY <1>2, <1>3, <1>4, <1>5, <2>1 DEF ReadingType
  <2> QED
    BY <1>2, <2>1, <2>2, QuietInv DEF cameras, CamerasType
<1> QED
  BY <1>6, <1>7

LEMMA DatagramInv ==
  ASSUME ServerInv, NEW p \in Peer, Datagram(p)
  PROVE  ServerInv'
<1>1. PICK i \in DOMAIN wire[p] :
        /\ wire' = [wire EXCEPT ![p] = RemoveAt(@, i)]
        /\ \/ queue' = [queue EXCEPT ![p] = Append(@, wire[p][i].m)]
           \/ UNCHANGED queue
        /\ UNCHANGED <<seat, cameras, held, stick, carry, open, busy, routing>>
  BY DEF Datagram
<1>2. /\ wire[p] \in Seq(Piece) /\ queue[p] \in Seq(Command)
      /\ ReadingType /\ CamerasType /\ stick \in [Peer -> SUBSET (Address \X Axis)]
  BY DEF ServerInv, TypeOK, ReadingType, CamerasType
<1>3. RemoveAt(wire[p], i) \in Seq(Piece) /\ wire[p][i].m \in Command
  <2>1. RemoveAt(wire[p], i) \in Seq(Piece) /\ wire[p][i] \in Piece
    BY <1>2, RemoveAtType
  <2> QED
    BY <2>1 DEF Piece
<1>4. Append(queue[p], wire[p][i].m) \in Seq(Command)
  BY <1>2, <1>3, AppendProperties
<1>5. ReadingType'
  BY <1>1, <1>2, <1>3, <1>4 DEF ReadingType
<1> QED
  BY <1>1, <1>2, <1>5, QuietInv DEF cameras, CamerasType

-----------------------------------------------------------------------------
LEMMA TargetIs ==
  ASSUME ServerInv, NEW p \in Peer, NEW a \in Address
  PROVE  /\ Target(p, a) \in Camera \cup {None}
         /\ Own(p) # None => Target(p, a) = Own(p)
         /\ Own(p) = None /\ routes[p][a] # None => Target(p, a) = routes[p][a]
<1>1. CameraFor(a) \in Camera \cup {None}
  BY CameraForType DEF ServerInv, TypeOK, CamerasType
<1>2. Own(p) \in Camera \cup {None} /\ routes[p][a] \in Camera \cup {None}
  BY ViscaAssumption DEF ServerInv, TypeOK, Own
<1> QED
  BY <1>1, <1>2 DEF Target

(* A move or a stop: what the controller still holds through this address  *)
(* is of the camera the message went to.                                   *)
LEMMA MoveInv ==
  ASSUME ServerInv, NEW p \in Peer, open[p], NEW m \in Command, m.what # "other",
         NEW c \in Camera, c = Target(p, m.addr), Move(p, c, m),
         CamerasType', ReadingType', UNCHANGED <<seat, stick, open>>
  PROVE  ServerInv'
<1>1. m.addr \in Address /\ m.axis \in Axis /\ m.what \in {"move", "stop"}
  BY DEF Command
<1> DEFINE a == m.addr
           axes == IF m.what = "move" THEN moving[p][a] \cup {m.axis} ELSE moving[p][a] \ {m.axis}
           keeps == Own(p) # None /\ axes # {}
<1>2. TypeOK /\ TypeOK'
  <2>1. axes \in SUBSET Axis
    BY <1>1 DEF ServerInv, TypeOK
  <2>2. moving' = [moving EXCEPT ![p][a] = axes]
    BY DEF Move
  <2>3. routes' = IF keeps THEN routes
                  ELSE [routes EXCEPT ![p][a] = IF axes # {} THEN c ELSE None]
    BY DEF Move
  <2>4. held' = [held EXCEPT ![c][m.axis] = IF m.what = "move" THEN p ELSE None]
    BY DEF Move
  <2>5. TypeOK
    BY DEF ServerInv
  <2> HIDE DEF axes, keeps
  <2>6. moving' \in [Peer -> [Address -> SUBSET Axis]]
    BY <1>1, <2>1, <2>2, <2>5 DEF TypeOK
  <2>7. routes' \in [Peer -> [Address -> Camera \cup {None}]]
    BY <1>1, <2>3, <2>5 DEF TypeOK
  <2>8. held' \in [Camera -> [Axis -> Peer \cup {None}]]
    BY <1>1, <2>4, <2>5 DEF TypeOK
  <2> QED
    BY <2>5, <2>6, <2>7, <2>8 DEF TypeOK, CamerasType, ReadingType
<1>3. /\ \A q \in Peer, b \in Address : <<q, b>> # <<p, a>> =>
           moving'[q][b] = moving[q][b] /\ routes'[q][b] = routes[q][b]
      /\ moving'[p][a] = axes
      /\ routes'[p][a] = IF keeps THEN routes[p][a] ELSE IF axes # {} THEN c ELSE None
  <2>1. /\ moving' = [moving EXCEPT ![p][a] = axes]
        /\ \/ routes' = routes /\ keeps
           \/ routes' = [routes EXCEPT ![p][a] = IF axes # {} THEN c ELSE None] /\ ~keeps
    BY DEF Move
  <2> HIDE DEF axes, keeps
  <2>2. /\ \A q \in Peer, b \in Address : <<q, b>> # <<p, a>> => moving'[q][b] = moving[q][b]
        /\ moving'[p][a] = axes
    BY <1>1, <1>2, <2>1 DEF TypeOK
  <2>3. /\ \A q \in Peer, b \in Address : <<q, b>> # <<p, a>> => routes'[q][b] = routes[q][b]
        /\ routes'[p][a] = IF keeps THEN routes[p][a] ELSE IF axes # {} THEN c ELSE None
    BY <1>1, <1>2, <2>1 DEF TypeOK
  <2> QED
    BY <2>2, <2>3
<1>4. \A d \in Camera, x \in Axis :
        held'[d][x] = IF d = c /\ x = m.axis THEN (IF m.what = "move" THEN p ELSE None) ELSE held[d][x]
  BY <1>1, <1>2 DEF Move, TypeOK
<1>5. DedicatedIsUnrouted'
  BY <1>1, <1>3 DEF ServerInv, DedicatedIsUnrouted, Own
<1>6. HoldsCanBeStopped'
  <2> SUFFICES ASSUME NEW d \in Camera, NEW x \in Axis, held'[d][x] \in Peer
               PROVE  LET q == held'[d][x] IN
                      /\ open[q]
                      /\ \/ Own(q) = d
                         \/ \E b \in Address : x \in moving'[q][b] /\ routes'[q][b] = d
    BY DEF HoldsCanBeStopped, Own
  <2>1. CASE d = c /\ x = m.axis
    <3>1. held'[d][x] = p /\ m.what = "move"
      BY <1>1, <1>4, <2>1, ViscaAssumption
    <3>2. CASE Own(p) # None
      BY <1>1, <2>1, <3>1, <3>2, TargetIs
    <3>3. CASE Own(p) = None
      BY <1>1, <1>3, <2>1, <3>1, <3>3
    <3> QED
      BY <3>2, <3>3
  <2>2. CASE ~(d = c /\ x = m.axis)
    <3> DEFINE q == held[d][x]
    <3>1. held'[d][x] = q /\ q \in Peer /\ open[q]
      BY <1>4, <2>2 DEF ServerInv, HoldsCanBeStopped
    <3>2. CASE Own(q) = d
      BY <3>1, <3>2
    <3>3. CASE Own(q) # d
      <4>1. PICK b \in Address : x \in moving[q][b] /\ routes[q][b] = d
        BY <3>1, <3>3 DEF ServerInv, HoldsCanBeStopped
      <4>2. CASE <<q, b>> # <<p, a>>
        BY <1>3, <3>1, <4>1, <4>2
      <4>3. CASE q = p /\ b = a
        <5>1. Own(p) = None /\ d = c
          BY <1>1, <4>1, <4>3, TargetIs, ViscaAssumption DEF ServerInv, DedicatedIsUnrouted
        <5>2. x # m.axis /\ x \in axes
          BY <2>2, <4>1, <4>3, <5>1
        <5> QED
          BY <1>1, <1>3, <3>1, <4>3, <5>1, <5>2
      <4> QED
        BY <4>2, <4>3
    <3> QED
      BY <3>2, <3>3
  <2> QED
    BY <2>1, <2>2
<1> QED
  BY <1>2, <1>5, <1>6 DEF ServerInv

LEMMA RunInv ==
  ASSUME ServerInv, NEW p \in Peer, Run(p)
  PROVE  ServerInv'
<1> DEFINE m == Head(queue[p])
           c == Target(p, m.addr)
<1>1. /\ m \in Command /\ Tail(queue[p]) \in Seq(Command)
      /\ ReadingType /\ CamerasType /\ stick \in [Peer -> SUBSET (Address \X Axis)]
  BY HeadTailProperties DEF Run, ServerInv, TypeOK, ReadingType, CamerasType
<1>2. queue' = [queue EXCEPT ![p] = Tail(@)] /\ UNCHANGED <<seat, cameras, stick, wire, carry, open>>
  BY DEF Run
<1>3. CamerasType' /\ stick' \in [Peer -> SUBSET (Address \X Axis)]
  BY <1>1, <1>2 DEF cameras, CamerasType
<1>4. m.addr \in Address /\ (m.what = "other" \/ m.what \in {"move", "stop"})
  BY <1>1 DEF Command
<1>5. CASE UNCHANGED <<held, busy, routing>>
  <2>1. ReadingType'
    BY <1>1, <1>2, <1>5 DEF ReadingType
  <2> QED
    BY <1>2, <1>3, <1>5, <2>1, QuietInv
<1>6. CASE open[p] /\ Execute(p, m) /\ ~UNCHANGED <<held, busy, routing>>
  <2>1. c # None /\ status[c] = "connected" /\ c \in Camera
    BY <1>4, <1>6, TargetIs DEF Execute
  <2>2. CASE m.what = "other"
    <3>1. busy' = [busy EXCEPT ![p] = m] /\ UNCHANGED <<held, routing>>
      BY <1>6, <2>1, <2>2 DEF Execute
    <3>2. ReadingType'
      BY <1>1, <1>2, <3>1 DEF ReadingType
    <3> QED
      BY <1>2, <1>3, <3>1, <3>2, QuietInv
  <2>3. CASE m.what # "other"
    <3>1. Move(p, c, m) /\ UNCHANGED busy
      BY <1>6, <2>1, <2>3 DEF Execute
    <3>2. ReadingType'
      BY <1>1, <1>2, <3>1 DEF ReadingType
    <3> QED
      BY <1>1, <1>2, <1>3, <1>6, <2>1, <2>3, <3>1, <3>2, MoveInv
  <2> QED
    BY <2>2, <2>3
<1> QED
  BY <1>5, <1>6 DEF Run

LEMMA AnsweredInv ==
  ASSUME ServerInv, NEW p \in Peer, Answered(p)
  PROVE  ServerInv'
<1>1. TypeOK
  BY DEF ServerInv
<1>2. TypeOK'
  <2>1. held' \in [Camera -> [Axis -> Peer \cup {None}]]
    <3>1. {p} \in SUBSET Peer /\ (held' = held \/ held' = Released({p}))
      BY DEF Answered
    <3>2. held \in [Camera -> [Axis -> Peer \cup {None}]]
      BY <1>1 DEF TypeOK
    <3> QED
      BY <1>1, <3>1, <3>2, ReleasedIs
  <2>2. busy' \in [Peer -> Command \cup {None}]
    BY <1>1 DEF Answered, TypeOK
  <2> QED
    BY <1>1, <2>1, <2>2 DEF Answered, cameras, routing, TypeOK
<1>3. \A c \in Camera, x \in Axis : held'[c][x] # None => held'[c][x] = held[c][x]
  BY <1>1, ReleasedIs DEF Answered
<1> QED
  BY <1>2, <1>3, ReleaseInv DEF Answered

LEMMA OrderInv ==
  ASSUME ServerInv, OnCameraOrderChanged
  PROVE  ServerInv'
<1> DEFINE P == {p \in Peer : \E a \in Address : routes[p][a] # None}
<1>1. TypeOK /\ P \in SUBSET Peer
  BY DEF ServerInv
<1>2. /\ held' = Released(P)
      /\ routes' = [p \in Peer |-> [a \in Address |-> None]]
      /\ order' \in Seq(Camera) /\ UNCHANGED <<seat, status, stick, reading, moving>>
  BY OrderType DEF OnCameraOrderChanged
<1> HIDE DEF P
<1>3. TypeOK'
  BY <1>1, <1>2, ReleasedIs DEF reading, TypeOK
<1>4. DedicatedIsUnrouted'
  BY <1>2 DEF DedicatedIsUnrouted
<1>5. HoldsCanBeStopped'
  <2> SUFFICES ASSUME NEW c \in Camera, NEW x \in Axis, held'[c][x] \in Peer
               PROVE  open[held'[c][x]] /\ Own(held'[c][x]) = c
    BY <1>2 DEF HoldsCanBeStopped, Own, reading
  <2>1. held'[c][x] = held[c][x] /\ held[c][x] \notin P /\ held[c][x] \in Peer
    BY <1>1, <1>2, ReleasedIs, ViscaAssumption
  <2>2. \A a \in Address : routes[held[c][x]][a] = None
    BY <2>1 DEF P
  <2> QED
    BY <2>1, <2>2, ViscaAssumption DEF ServerInv, HoldsCanBeStopped
<1> QED
  BY <1>3, <1>4, <1>5 DEF ServerInv

LEMMA HeadsInv ==
  ASSUME ServerInv, NEW c \in Camera,
         Drops(c) \/ Changes(c) \/ \E x \in Axis : Lapse(c, x)
  PROVE  ServerInv'
<1>1. TypeOK
  BY DEF ServerInv
<1>2. /\ held' \in [Camera -> [Axis -> Peer \cup {None}]]
      /\ \A d \in Camera, x \in Axis : held'[d][x] # None => held'[d][x] = held[d][x]
  <2>1. CASE Drops(c)
    BY <1>1, <2>1 DEF Drops, TypeOK
  <2>2. CASE Changes(c)
    BY <1>1, <2>2 DEF Changes, TypeOK
  <2>3. ASSUME NEW x \in Axis, Lapse(c, x)
        PROVE  /\ held' \in [Camera -> [Axis -> Peer \cup {None}]]
               /\ \A d \in Camera, y \in Axis : held'[d][y] # None => held'[d][y] = held[d][y]
    BY <1>1, <2>3 DEF Lapse, TypeOK
  <2> QED
    BY <2>1, <2>2, <2>3
<1>3. TypeOK'
  <2>1. status' \in [Camera -> {"gone", "offline", "connected"}]
    BY <1>1 DEF Drops, Changes, Lapse, cameras, TypeOK
  <2> QED
    BY <1>1, <1>2, <2>1 DEF Drops, Changes, Lapse, cameras, reading, routing, TypeOK
<1>4. UNCHANGED <<seat, open, routing>>
  BY DEF Drops, Changes, Lapse, reading
<1> QED
  BY <1>2, <1>3, <1>4, ReleaseInv

(* The invariant holds in every behaviour of the server. *)
THEOREM Inductive == Spec => []ServerInv
<1>1. ServerInv /\ [Next]_vars => ServerInv'
  <2> SUFFICES ASSUME ServerInv, [Next]_vars PROVE ServerInv'
    OBVIOUS
  <2>1. ASSUME Next PROVE ServerInv'
    BY <2>1, ControllerInv, DataInv, ClosesInv, DatagramInv, RunInv, AnsweredInv, OrderInv, HeadsInv
    DEF Next, Close
  <2>2. CASE UNCHANGED vars
    <3>1. TypeOK'
      BY <2>2 DEF vars, cameras, reading, routing, ServerInv, TypeOK
    <3> QED
      BY <2>2, <3>1, ReleaseInv DEF vars, reading
  <2> QED
    BY <2>1, <2>2
<1> QED
  BY InitInv, <1>1, PTL DEF Spec

(* The state of the server keeps its types, for any number of controllers, *)
(* cameras and addresses.                                                  *)
THEOREM TypeCorrect == Spec => []TypeOK
<1>1. ServerInv => TypeOK
  BY DEF ServerInv
<1> QED
  BY Inductive, <1>1, PTL

(* Whatever a controller holds moving, its own stop reaches: it is         *)
(* connected, and the camera is its own or the one an address it moves that *)
(* axis from is routed to, however the camera order and the heads changed. *)
THEOREM HoldsStoppable == Spec => []HoldsCanBeStopped
<1>1. ServerInv => HoldsCanBeStopped
  BY DEF ServerInv
<1> QED
  BY Inductive, <1>1, PTL
=============================================================================
