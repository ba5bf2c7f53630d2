----------------------------- MODULE PanelRoles -----------------------------
(***************************************************************************)
(* Which control of a SKAARHOJ panel does what: detectRoles of             *)
(* cambridge/src/skaarhoj/mapping.js.  The panel describes its controls;   *)
(* what an administrator pinned stands, and every other role goes to a     *)
(* control that is still free, in a fixed order of guesses.                *)
(*                                                                         *)
(* Abstractions.  A control is its place in the topology, which is also    *)
(* its place within a row; distances are differences of places.  A label   *)
(* is the word the guesses look for, "other" for any other, "" for none.   *)
(* Pinned presets and encoder displays are left out.                       *)
(***************************************************************************)
EXTENDS Naturals, FiniteSets, Sequences, SequencesExt, FiniteSetsExt

CONSTANTS Kind,     \* kinds of controls a panel may have: the records below
          Places,   \* bound: the most controls of a panel
          Pins,     \* what may be pinned: [role -> place], places from 1
          Count,    \* numbers of cameras
          Caps      \* skaarhoj.mapping.cameraButtons, 0 for none

Label == {"", "other", "zoom", "focus", "stop", "store", "track", "group", "next", "prev", "bank"}

(* in: the type of input; vec: it reports a vector; round: drawn as a      *)
(* circle; yang: how far away the other half of a stick is, 0 for none.    *)
Component == [in : {"ih", "iv", "ir", "a", "p", "b", ""}, label : Label, disp : BOOLEAN,
              vec : BOOLEAN, round : BOOLEAN, row : Nat, yang : Nat]

RolesAssumption ==
  /\ Kind \subseteq Component /\ Places \in Nat /\ Count \subseteq Nat /\ Caps \subseteq Nat

Single == {"pan", "tilt", "rotate", "vector", "zoom", "focus", "stop", "store", "tracking",
           "group", "bankNext", "bankPrev"}

(* A panel's controls, what is pinned, and the cameras it can reach. *)
Input == [comps : UNION {[1..n -> Kind] : n \in 0..Places}, pins : Pins, cameras : Count, cap : Caps]

Place(S) == IF S = {} THEN 0 ELSE Min(S)

Near(a, S) ==
  IF S = {} THEN 0 ELSE
  LET far(x) == IF x < a THEN a - x ELSE x - a IN
  Place({x \in S : \A y \in S : far(x) <= far(y)})

(* rows: top to bottom, then left to right. *)
Reading(p, S) ==
  SetToSortSeq(S, LAMBDA a, b : p[a].row < p[b].row \/ (p[a].row = p[b].row /\ a < b))

Roles == [role : [Single -> Nat], cameras : Seq(Nat), presets : Seq(Nat), encoders : Seq(Nat),
          displays : SUBSET (Nat \X Nat), taken : SUBSET Nat]

Free(p, s) == DOMAIN p \ s.taken

Take(s, r, c) ==
  IF c = 0 THEN s ELSE [s EXCEPT !.role[r] = c, !.taken = @ \cup {c}]

(* A guess: only for a role nobody holds. *)
Guess(s, r, c) == IF s.role[r] # 0 THEN s ELSE Take(s, r, c)

Intensity(p, s) == {c \in Free(p, s) : p[c].in \in {"ih", "iv", "ir"} /\ p[c].label \notin {"zoom", "focus"}}

(* The override first: what is pinned is never second-guessed. *)
PinnedRoles(i) ==
  [role     |-> [r \in Single |-> IF r \in DOMAIN i.pins THEN i.pins[r] ELSE 0],
   cameras  |-> <<>>, presets |-> <<>>, encoders |-> <<>>, displays |-> {},
   taken    |-> Range(i.pins)]

(* 1. The stick: two axes that name each other, a vector, or the first two. *)
Stick(p, s) ==
  LET all   == Intensity(p, s)
      of(k) == {c \in all : p[c].in = k}
      half(c) == {o \in all : o = c + p[c].yang /\ p[c].yang # 0
                              /\ {p[c].in, p[o].in} = {"ih", "iv"}}
      pairs == {c \in all : half(c) # {}}
      vec   == Place({c \in all : p[c].vec})
      h     == Place(of("ih"))
      v     == IF h = 0 THEN Place(of("iv")) ELSE Near(h, of("iv")) IN
  CASE s.role["pan"] # 0 \/ s.role["tilt"] # 0 -> s
    [] s.role["pan"] = 0 /\ s.role["tilt"] = 0 /\ pairs # {} ->
         LET c == Place(pairs)
             o == Place(half(c)) IN
         IF p[c].in = "ih" THEN Take(Take(s, "pan", c), "tilt", o) ELSE Take(Take(s, "pan", o), "tilt", c)
    [] s.role["pan"] = 0 /\ s.role["tilt"] = 0 /\ pairs = {} /\ vec # 0 -> Take(s, "vector", vec)
    [] OTHER -> Take(Take(s, "pan", h), "tilt", v)

(* Its twist: the rotary axis nearest the stick. *)
Twist(p, s) ==
  LET stick == Place({s.role[r] : r \in {"pan", "tilt", "vector"}} \ {0})
      rs    == {c \in Intensity(p, s) : p[c].in = "ir"} IN
  IF stick = 0 THEN s ELSE Guess(s, "rotate", Near(stick, rs))

Moves(p, c) == p[c].in \in {"ih", "iv", "ir", "a", "p"}

(* 2. and 3.  Zoom and focus: a labelled control, or an unlabelled one of  *)
(* the right kind.  A fader is taken only when labelled.                   *)
Zoom(p, s) ==
  LET labelled == {c \in Free(p, s) : p[c].label = "zoom" /\ Moves(p, c)} IN
  Guess(s, "zoom", IF labelled # {} THEN Place(labelled)
                   ELSE Place({c \in Free(p, s) : p[c].label = "" /\ p[c].in \in {"ih", "iv"}}))

Focus(p, s) ==
  LET labelled == {c \in Free(p, s) : p[c].label = "focus" /\ Moves(p, c)} IN
  Guess(s, "focus", IF labelled # {} THEN Place(labelled)
                    ELSE Place({c \in Free(p, s) : p[c].label = "" /\ p[c].in = "p" /\ ~p[c].round}))

(* 4. Encoders, and where each shows its value. *)
Encoders(p, s) ==
  LET es == Reading(p, {c \in Free(p, s) : p[c].in = "p"})
      shows(t, e) ==
        LET d == IF p[e].disp THEN e
                 ELSE Near(e, {c \in Free(p, t) : p[c].in = "" /\ p[c].disp}) IN
        IF d = 0 THEN t ELSE [t EXCEPT !.displays = @ \cup {<<e, d>>}, !.taken = @ \cup {d}] IN
  FoldLeft(shows, [s EXCEPT !.encoders = es, !.taken = @ \cup Range(es)], es)

(* 5. Buttons by their label. *)
Labelled(p, s) ==
  LET says(t, r, l) == Guess(t, r, Place({c \in Free(p, t) : p[c].in = "b" /\ p[c].label \in l}))
      a == says(s, "stop", {"stop"})
      b == says(a, "store", {"store"})
      c == says(b, "tracking", {"track"})
      d == says(c, "group", {"group"})
      e == says(d, "bankNext", {"next", "bank"}) IN
  says(e, "bankPrev", {"prev"})

(* The camera buttons a panel of these controls has by default. *)
Cap(p, cap) ==
  LET third == Cardinality({c \in DOMAIN p : p[c].in = "b" /\ p[c].disp}) \div 3 IN
  IF cap # 0 THEN cap ELSE Max({2, Min({8, third})})

Faces(p, s) == Reading(p, {c \in Free(p, s) : p[c].in = "b" /\ p[c].disp})

HasBanks(s) == s.role["bankNext"] # 0 \/ s.role["bankPrev"] # 0

First(q, n) == SubSeq(q, 1, IF n < Len(q) THEN n ELSE Len(q))

(* Mutant: the buttons that turn the banks stay camera buttons. *)
MutCameras(i, s) ==
  LET p      == i.comps
      cap    == Cap(p, i.cap)
      paging == i.cameras > cap /\ ~HasBanks(s)
      region == First(Faces(p, s), IF paging THEN Max({cap, 3}) ELSE Min({cap, i.cameras})) IN
  IF paging /\ Len(region) >= 3
  THEN [Take(Take(s, "bankPrev", region[Len(region) - 1]), "bankNext", Last(region))
          EXCEPT !.cameras = region]
  ELSE [s EXCEPT !.cameras = region]

(* 6. Display buttons by position: cameras first.  When there are more     *)
(* cameras than buttons and nothing turns the banks, the last two do.      *)
Cameras(i, s) ==
  LET p      == i.comps
      cap    == Cap(p, i.cap)
      paging == i.cameras > cap /\ ~HasBanks(s)
      region == First(Faces(p, s), IF paging THEN Max({cap, 3}) ELSE Min({cap, i.cameras})) IN
  IF paging /\ Len(region) >= 3
  THEN [Take(Take(s, "bankPrev", region[Len(region) - 1]), "bankNext", Last(region))
          EXCEPT !.cameras = SubSeq(region, 1, Len(region) - 2)]
  ELSE [s EXCEPT !.cameras = region]

(* Then presets from the next row, then STORE and TRACKING. *)
Rest(i, before, s) ==
  LET p      == i.comps
      flat   == Faces(p, before)
      used   == Len(s.cameras) + IF HasBanks(s) /\ ~HasBanks(before) THEN 2 ELSE 0
      fresh  == {k \in DOMAIN flat : k > used /\ (used = 0 \/ p[flat[k]].row > p[flat[used]].row)}
      at     == IF fresh = {} THEN used ELSE Min(fresh) - 1
      t      == [s EXCEPT !.presets = First(SubSeq(flat, at + 1, Len(flat)), 8)]
      left   == SubSeq(flat, at + Len(t.presets) + 1, Len(flat))
      store  == IF left = <<>> THEN 0 ELSE Head(left)
      next   == IF t.role["store"] = 0 /\ left # <<>> THEN Tail(left) ELSE left IN
  Guess(Guess(t, "store", store), "tracking", IF next = <<>> THEN 0 ELSE Head(next))

DetectRoles(i) ==
  LET p == i.comps
      s == Labelled(p, Encoders(p, Focus(p, Zoom(p, Twist(p, Stick(p, PinnedRoles(i))))))) IN
  Rest(i, s, Cameras(i, s))

-----------------------------------------------------------------------------
VARIABLE described   \* the panel described, or <<>> before

Init == described = <<>>
Next ==
  \/ described = <<>> /\ described' \in Input
  \/ described # <<>> /\ described' = <<>>

-----------------------------------------------------------------------------
(* Each control a role was found for has that role alone. *)
OneRoleEach(i, s) ==
  LET singles == {r \in Single : s.role[r] # 0}
      lists   == s.cameras \o s.presets \o s.encoders IN
  /\ \A q, r \in singles : q # r /\ s.role[q] = s.role[r] => {q, r} \subseteq DOMAIN i.pins
  /\ IsInjective(lists)
  /\ \A r \in singles : s.role[r] \notin Range(lists)
  /\ \A d, e \in s.displays : d[2] = e[2] => d = e

(* Every camera can be brought to a button, given three buttons to spare. *)
EveryCameraHasAButton(i, s) ==
  LET before == Labelled(i.comps, Encoders(i.comps, Focus(i.comps, Zoom(i.comps,
                  Twist(i.comps, Stick(i.comps, PinnedRoles(i))))))) IN
  Len(Faces(i.comps, before)) >= Max({3, i.cap}) /\ i.cameras > 0 =>
    /\ s.cameras # <<>>
    /\ Len(s.cameras) >= i.cameras \/ HasBanks(s)

(* Whatever panel is plugged in and whatever was pinned: no control does   *)
(* two things, and every camera can be reached.                            *)
RolesAreSound ==
  described # <<>> =>
    LET s == DetectRoles(described) IN
    OneRoleEach(described, s) /\ EveryCameraHasAButton(described, s)
=============================================================================
