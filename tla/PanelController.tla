--------------------------- MODULE PanelController ---------------------------
(***************************************************************************)
(* What the controls of a SKAARHOJ panel do: the PanelController of        *)
(* cambridge/src/skaarhoj/mapping.js on the link of RawPanel.  The panel   *)
(* speaks only when a control changes, so a deflected stick is latched: it *)
(* holds the selected camera moving until the panel says Speed:0, and      *)
(* every way in which the panel stops being trustworthy lets it go.        *)
(*                                                                         *)
(* The heads are PtzMotion's, seen from outside: what this panel holds.    *)
(*                                                                         *)
(* Abstractions.  A lane is one of the motion controller's, with the       *)
(* control that drives it; it is deflected or at rest.  A roller, whose    *)
(* pulses are bursts the deadman ends, is left out.  All buttons are one   *)
(* control of the topology, "keys".  Which control plays which role is     *)
(* PanelRoles.  Encoders are PanelEncoder.  Of what the panel shows only   *)
(* the camera buttons, the selection and STORE are kept.                   *)
(***************************************************************************)
EXTENDS RawPanel, FiniteSets

CONSTANTS Lane,      \* lanes with a control of their own
          Pinned,    \* controls pinned by skaarhoj.mapping
          Order,     \* the cameras in the operator's order
          Group,     \* names of groups
          Only,      \* skaarhoj.mapping.group: a group, or Null for all cameras
          Buttons    \* camera buttons

Camera == {Order[i] : i \in DOMAIN Order}
All    == "all"      \* groupKey null

ASSUME PanelAssumption ==
  /\ Control = Lane \cup {"keys"} /\ "keys" \notin Lane /\ IsFiniteSet(Control)
  /\ Pinned \subseteq Control
  /\ Only \in Group \cup {Null} /\ All \notin Group \cup {Null}
  /\ Order \in Seq(Camera) /\ IsInjective(Order)
  /\ {Null, "store"} \cap Camera = {} /\ \A cs \in SUBSET Control : Null # cs
  /\ Buttons \in Nat \ {0} /\ MaxFaults \in Nat

VARIABLES
  stick,         \* lane -> 1 while the operator deflects its control
  present,       \* the PTZ cameras
  group,         \* camera -> its group, or Null
  online,        \* cameras connected
  held,          \* camera -> lane -> this panel holds it moving
  roles,         \* controls with a role, or Null before the first layout
  layoutHadMap, needsLayout, layoutCams,
  axes,          \* lane -> what the controller takes its control to say
  selected, groupKey, bankIndex, shift,
  painting,      \* renderTimer runs
  clearFirst,
  sent,          \* what was sent to the panel last, field by field
  shown,         \* what the panel shows
  slips          \* history: cameras, or "store", in the cases the properties except

cameras == <<present, group, online>>
layout  == <<roles, layoutHadMap, needsLayout, layoutCams>>
choice  == <<selected, groupKey, bankIndex>>
face    == <<painting, clearFirst, sent, shown>>
motion  == <<held, axes>>
mine    == <<stick, cameras, motion, layout, choice, shift, face, slips>>
panelVars    == <<rawvars, mine>>

Free  == [c \in Camera |-> [l \in Lane |-> FALSE]]
Still == [l \in Lane |-> 0]
BlankFace == [cams |-> Null, sel |-> Null, shift |-> Null]

PanelTypeOK ==
  /\ RawTypeOK
  /\ stick \in [Lane -> 0..1] /\ axes \in [Lane -> 0..1]
  /\ present \subseteq Camera /\ online \subseteq present
  /\ group \in [Camera -> Group \cup {Null}]
  /\ held \in [Camera -> [Lane -> BOOLEAN]]
  /\ roles \in {Null} \cup SUBSET Control /\ layoutCams \in 0..Len(Order)
  /\ selected \in Camera \cup {Null} /\ groupKey \in Group \cup {Null, All} /\ bankIndex \in Nat
  /\ {layoutHadMap, needsLayout, shift, painting, clearFirst} \subseteq BOOLEAN
  /\ slips \subseteq Camera \cup {"store"}

PanelInit ==
  /\ RawInit
  /\ stick = Still /\ axes = Still
  /\ present = Camera /\ online = Camera
  /\ group = [c \in Camera |-> Only]
  /\ held = Free
  /\ roles = Null /\ layoutHadMap = FALSE /\ needsLayout = FALSE /\ layoutCams = 0
  /\ selected = Null /\ groupKey = All /\ bankIndex = 0 /\ shift = FALSE
  /\ painting = FALSE /\ clearFirst = FALSE /\ sent = BlankFace /\ shown = BlankFace
  /\ slips = {}

-----------------------------------------------------------------------------
(* #scope, #selected and #page. *)
ScopeOf(cs, g) == {c \in cs : Only = Null \/ g[c] = Only}
Scope == ScopeOf(present, group)

(* The first, and the n-th, of these cameras in the operator's order. *)
Place(c)  == CHOOSE i \in DOMAIN Order : Order[i] = c
First(cs) == CHOOSE c \in cs : \A d \in cs : Place(c) <= Place(d)
Nth(cs, n) ==
  IF n \notin 1..Cardinality(cs) THEN Null
  ELSE CHOOSE c \in cs : Cardinality({d \in cs : Place(d) <= Place(c)}) = n

Selected ==
  CASE Scope = {}         -> Null
    [] selected \in Scope -> selected
    [] OTHER              -> First(Scope)

Groups   == LET gs == {group[c] : c \in Scope} IN IF Cardinality(gs) >= 2 THEN gs ELSE {}
GroupKey == IF groupKey \in Groups THEN groupKey ELSE All
View     == {c \in Scope : GroupKey = All \/ group[c] = GroupKey}
Size     == IF roles = Null THEN 0
            ELSE IF "keys" \in roles THEN IF layoutCams < Buttons THEN layoutCams ELSE Buttons ELSE 0
Pages    == IF Size = 0 \/ View = {} THEN 1 ELSE (Cardinality(View) + Size - 1) \div Size
Bank     == IF bankIndex < Pages THEN bankIndex ELSE Pages - 1

(* #desired *)
Desired == [cams  |-> [i \in 1..Size |-> Nth(View, Bank * Size + i)],
            sel   |-> Selected,
            shift |-> shift]

Refresh == painting' = (painting \/ identified')

(* #repaint: forget what the panel shows and draw everything again. *)
Repaint == sent' = BlankFace /\ clearFirst' = TRUE /\ Refresh /\ UNCHANGED shown

(* #release: every axis this panel holds, on every camera.  STORE goes     *)
(* with it, and is not redrawn.                                            *)
Release ==
  /\ axes' = Still /\ held' = Free /\ shift' = FALSE

Slip(s) == slips' = IF shift THEN s \cup {"store"} ELSE s

(* Cameras whose move the panel loses sight of in this step: their group   *)
(* changed away, or the control that holds them lost its role.             *)
Adrift ==
  {c \in Camera : \E l \in Lane :
     /\ held'[c][l]
     /\ \/ c \in slips
        \/ c \notin ScopeOf(present', group')
        \/ roles' # Null /\ l \notin roles'}

(* Mutant: a layout that came out the same is not drawn again. *)
MutLayout ==
  /\ roles' = (IF topology' = Null THEN {} ELSE topology' \cap Available(map')) \cup Pinned
  /\ layoutHadMap' = (map' # Unsaid)
  /\ needsLayout' = FALSE /\ layoutCams' = Cardinality(Scope)
  /\ IF roles' = roles THEN painting' = FALSE /\ UNCHANGED <<clearFirst, sent, shown>> ELSE Repaint

(* #layout: the roles follow the topology and the map of the moment. *)
Layout ==
  /\ roles' = (IF topology' = Null THEN {} ELSE topology' \cap Available(map')) \cup Pinned
  /\ layoutHadMap' = (map' # Unsaid)
  /\ needsLayout' = FALSE /\ layoutCams' = Cardinality(Scope)
  /\ Repaint

-----------------------------------------------------------------------------
(* startSkaarhoj and stopSkaarhoj. *)
Drive == Start /\ UNCHANGED mine

Leave ==
  /\ Stop
  /\ Release
  /\ roles' = Null /\ painting' = FALSE /\ sent' = BlankFace /\ shown' = BlankFace /\ clearFirst' = FALSE
  /\ layoutHadMap' = FALSE /\ needsLayout' = FALSE /\ layoutCams' = 0
  /\ selected' = Null /\ groupKey' = All /\ bankIndex' = 0
  /\ slips' = {}
  /\ UNCHANGED <<stick, cameras>>

(* linkDown and disconnected: the next connection lays out afresh. *)
Down ==
  /\ Release
  /\ roles' = (IF identified THEN Null ELSE roles)
  /\ sent' = BlankFace /\ shown' = BlankFace
  /\ slips' = {}
  /\ UNCHANGED <<stick, cameras, layoutHadMap, needsLayout, layoutCams, choice, painting, clearFirst>>

Loses == (Gone \/ LinkClosed \/ Refused) /\ Down

Opens == (Reconnect \/ Connected) /\ UNCHANGED mine

(* `connected`, or a topology pushed again, lays out; nothing is let go. *)
LaysOut(again) ==
  IF identified' /\ (again \/ ~identified)
  THEN /\ UNCHANGED <<stick, cameras, motion, choice, shift>>
       /\ Layout /\ slips' = Adrift
  ELSE UNCHANGED mine

Identified == (Model /\ LaysOut(FALSE)) \/ (Topology /\ LaysOut(identified))

TimedOut == InitTimedOut /\ IF identified' THEN LaysOut(FALSE) ELSE Down

(* A control leaves the map or returns to it.  The first map lays out      *)
(* again; later ones only repaint.                                         *)
MapChanges ==
  LET id   == Head(wire).id
      on   == Head(wire).on
      new  == map'[id] # map[id]
      gone == new /\ ~on /\ roles # Null /\ id \in roles \cap Lane IN
  /\ MapEntry
  /\ IF gone THEN Release /\ Slip(slips) ELSE UNCHANGED <<motion, shift, slips>>
  /\ UNCHANGED <<stick, cameras, roles, layoutHadMap, layoutCams, choice>>
  /\ \/ ~new /\ UNCHANGED <<face, needsLayout>>
     \/ new /\ ~layoutHadMap /\ needsLayout' = TRUE /\ Refresh /\ UNCHANGED <<clearFirst, sent, shown>>
     \/ new /\ layoutHadMap /\ on /\ Repaint /\ UNCHANGED needsLayout
     \/ new /\ layoutHadMap /\ ~on /\ UNCHANGED <<face, needsLayout>>

(* Asleep: its controls count as released.  Awake: drawn again. *)
Sleeps ==
  /\ Sleep
  /\ IF sleeping' THEN Release /\ Slip(slips) /\ UNCHANGED face
                  ELSE Repaint /\ UNCHANGED <<motion, shift, slips>>
  /\ UNCHANGED <<stick, cameras, layout, choice>>

Blocks ==
  /\ Blocked
  /\ Release /\ Slip(slips)
  /\ UNCHANGED <<stick, cameras, layout, choice, face>>

-----------------------------------------------------------------------------
(* Input.  Before the panel is identified, and from a control without a    *)
(* role, it means nothing.                                                 *)
Means(c) == Input /\ identified /\ roles # Null /\ c \in roles /\ Head(wire).id = c

Ignored ==
  /\ Input
  /\ ~identified \/ roles = Null \/ (roles # Null /\ Head(wire).id \notin roles)
  /\ UNCHANGED mine

(* move() on a camera that is not connected is refused. *)
Held(c, l, how) ==
  held' = IF c \in online THEN [held EXCEPT ![c][l] = how] ELSE held

(* #axis and #drive: the selected camera takes the lane over, latched. *)
Stick(l) ==
  /\ Means(l)
  /\ axes' = [axes EXCEPT ![l] = Head(wire).v]
  /\ selected' = Selected
  /\ Held(Selected, l, Head(wire).v # 0)
  /\ slips' = {s \in slips : s = "store" \/ \E m \in Lane : held'[s][m]}
  /\ UNCHANGED <<stick, cameras, layout, groupKey, bankIndex, shift, face>>

Key(b) == Means("keys") /\ Head(wire).v.b = b

Store ==
  /\ Key("store")
  /\ shift' = (Head(wire).v.n = 1)
  /\ Refresh
  /\ UNCHANGED <<stick, cameras, motion, layout, choice, clearFirst, sent, shown, slips>>

StopAll ==
  /\ Key("stop")
  /\ axes' = Still /\ held' = Free
  /\ slips' = slips \cap {"store"}
  /\ UNCHANGED <<stick, cameras, layout, choice, shift, face>>

(* #bank and #cycleGroup change what the buttons show, and nothing else. *)
PagesOn ==
  /\ Key("bank")
  /\ groupKey' = GroupKey
  /\ bankIndex' = IF Pages > 1 THEN (Bank + 1) % Pages ELSE Bank
  /\ IF Pages > 1 THEN Refresh ELSE UNCHANGED painting
  /\ UNCHANGED <<stick, cameras, motion, layout, selected, shift, clearFirst, sent, shown, slips>>

CyclesGroup ==
  /\ Key("group")
  /\ IF Groups = {} THEN groupKey' = GroupKey /\ bankIndex' = Bank /\ UNCHANGED painting
     ELSE LET options == <<All>> \o SetToSeq(Groups)
              at      == CHOOSE i \in DOMAIN options : options[i] = GroupKey IN
          groupKey' = options[(at % Len(options)) + 1] /\ bankIndex' = 0 /\ Refresh
  /\ UNCHANGED <<stick, cameras, motion, layout, selected, shift, clearFirst, sent, shown, slips>>

(* Mutant: the camera being left keeps what it was told. *)
MutLeaves == UNCHANGED <<motion, slips>>

(* #select: the camera being left must not keep moving. *)
Leaves ==
  IF axes # Still
  THEN axes' = Still /\ held' = Free /\ slips' = slips \cap {"store"}
  ELSE UNCHANGED <<motion, slips>>

Select ==
  /\ Key("camera")
  /\ LET n   == Head(wire).v.n
         cam == IF n <= Size THEN Nth(View, Bank * Size + n) ELSE Null IN
     IF cam \in {Null, Selected}
     THEN selected' = Selected /\ UNCHANGED <<motion, slips, painting>>
     ELSE selected' = cam /\ Leaves /\ Refresh
  /\ groupKey' = GroupKey /\ bankIndex' = Bank
  /\ UNCHANGED <<stick, cameras, layout, shift, clearFirst, sent, shown>>

(* #preset: a recall replaces what the stick holds on the camera.  The     *)
(* panel recalls only what is in capabilities.presets (mapping.js:736),    *)
(* which ends below the numbers a driver reserves (ptzoptics.js:61-68), so *)
(* none is refused before the camera was stopped.                          *)
Preset ==
  /\ Key("preset")
  /\ selected' = Selected
  /\ IF Selected = Null \/ shift THEN UNCHANGED <<motion, slips>>
     ELSE /\ axes' = Still
          /\ held' = [held EXCEPT ![Selected] = [l \in Lane |-> FALSE]]
          /\ slips' = slips \ {Selected}
  /\ UNCHANGED <<stick, cameras, layout, groupKey, bankIndex, shift, face>>

-----------------------------------------------------------------------------
(* #render: a changed number of cameras lays out again; otherwise only     *)
(* what differs from what was sent is sent.                                *)
Render ==
  /\ painting
  /\ UNCHANGED <<rawvars, stick, cameras, motion, shift>>
  /\ \/ /\ ~identified \/ roles = Null
        /\ painting' = FALSE
        /\ UNCHANGED <<layout, choice, clearFirst, sent, shown, slips>>
     \/ /\ identified /\ roles # Null
        /\ needsLayout \/ Cardinality(Scope) # layoutCams
        /\ Layout /\ slips' = Adrift
        /\ UNCHANGED choice
     \/ /\ identified /\ roles # Null
        /\ ~needsLayout /\ Cardinality(Scope) = layoutCams
        /\ painting' = FALSE /\ clearFirst' = FALSE
        /\ selected' = Selected /\ groupKey' = GroupKey /\ bankIndex' = Bank
        /\ IF "keys" \in roles
           THEN /\ sent' = Desired
                /\ shown' = [f \in DOMAIN Desired |->
                     IF clearFirst \/ sent[f] # Desired[f] THEN Desired[f] ELSE shown[f]]
           ELSE sent' = BlankFace /\ shown' = IF clearFirst THEN BlankFace ELSE shown
        /\ slips' = slips \ {"store"}
        /\ UNCHANGED layout

-----------------------------------------------------------------------------
(* The cameras change: a group, the list, a connection.  Every change      *)
(* repaints.                                                               *)
CamerasChange ==
  /\ Fault
  /\ \E c \in Camera :
       \/ /\ group' \in {[group EXCEPT ![c] = g] : g \in (Group \cup {Null}) \ {group[c]}}
          /\ UNCHANGED <<present, online, held>>
       \/ /\ c \in present /\ present' = present \ {c} /\ online' = online \ {c}
          /\ held' = [held EXCEPT ![c] = [l \in Lane |-> FALSE]]
          /\ UNCHANGED group
       \/ c \notin present /\ present' = present \cup {c} /\ UNCHANGED <<group, online, held>>
       \/ /\ c \in online /\ online' = online \ {c}
          /\ held' = [held EXCEPT ![c] = [l \in Lane |-> FALSE]]
          /\ UNCHANGED <<present, group>>
       \/ c \in present \ online /\ online' = online \cup {c} /\ UNCHANGED <<present, group, held>>
  /\ UNCHANGED <<panel, mode, peer, wire, link, known, roles>>
  /\ slips' = Adrift \cup (slips \cap {"store"})
  /\ Refresh
  /\ UNCHANGED <<stick, axes, layoutHadMap, needsLayout, layoutCams, choice, shift, clearFirst, sent, shown>>

(* Another surface takes a lane over, or stops it. *)
Lapse ==
  /\ \E c \in Camera, l \in Lane : held[c][l] /\ held' = [held EXCEPT ![c][l] = FALSE]
  /\ UNCHANGED <<rawvars, roles, present, group>>
  /\ slips' = Adrift \cup (slips \cap {"store"})
  /\ UNCHANGED <<stick, online, axes, layoutHadMap, needsLayout, layoutCams, choice, shift, face>>

Key1(b, n) == [b |-> b, n |-> n]
Presses == {Key1(b, 0) : b \in {"stop", "bank", "group", "preset"}}
             \cup {Key1("store", n) : n \in 0..1} \cup {Key1("camera", n) : n \in 1..Buttons}

Hands ==
  /\ \/ \E l \in Lane : Hand(l, 1 - stick[l]) /\ stick' = [stick EXCEPT ![l] = 1 - @]
     \/ \E b \in Presses : Hand("keys", b) /\ UNCHANGED stick
  /\ UNCHANGED <<cameras, motion, layout, choice, shift, face, slips>>

(* The panel by itself; what it shows goes with its power and its sleep. *)
PanelActs ==
  /\ Power \/ Changes
  /\ shown' = IF panel' = "off" \/ (mode = "asleep" /\ mode' = "awake") THEN BlankFace ELSE shown
  /\ UNCHANGED <<stick, cameras, motion, layout, choice, shift, painting, clearFirst, sent, slips>>

Listen ==
  \/ Identified \/ MapChanges \/ Sleeps \/ Blocks \/ Ignored
  \/ \E l \in Lane : Stick(l)
  \/ Store \/ StopAll \/ PagesOn \/ CyclesGroup \/ Select \/ Preset

PanelNext ==
  \/ Drive \/ Leave \/ Loses \/ Opens \/ TimedOut \/ Listen \/ Render
  \/ CamerasChange \/ Lapse \/ Hands \/ PanelActs

PanelSpec == PanelInit /\ [][PanelNext]_panelVars

-----------------------------------------------------------------------------
(* What the panel holds moving it can stop: the link is up and identified, *)
(* the control that holds it is still read as deflected and still drives   *)
(* that camera.  Excepted are cameras put out of the panel's reach by a    *)
(* change of group, and controls that lost their role when the topology    *)
(* was pushed again.                                                       *)
HoldsItsStick ==
  \A c \in Camera, l \in Lane : held[c][l] =>
    \/ c \in slips
    \/ identified /\ roles # Null /\ l \in roles /\ axes[l] = 1 /\ c = Selected

(* With no repaint due and nothing on the way, the panel shows the cameras *)
(* its buttons select, the selection, and STORE, except after STORE was    *)
(* let go together with the stick.                                         *)
PanelIsCurrent ==
  identified /\ peer /\ ~painting /\ mode = "awake" /\ wire = <<>> /\ roles # Null /\ "keys" \in roles =>
    /\ shown.cams = Desired.cams /\ shown.sel = Desired.sel
    /\ shown.shift = Desired.shift \/ "store" \in slips

(* While a panel is to be driven it is never given up: the link is up, a   *)
(* connection is being tried, or the next try is due; and a link up but    *)
(* not identified is being timed.                                          *)
PanelIsSought ==
  ~stopped => /\ socket = "none" <=> retry
              /\ socket = "open" /\ ~identified => init
=============================================================================
