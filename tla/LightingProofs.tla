----------------------------- MODULE LightingProofs -----------------------------
(***************************************************************************)
(* Theorems about Lighting and the SacnOutput under it, for any fixtures,    *)
(* addresses, command values and length of fades: there is never a second    *)
(* socket, and every light is heading where it was last told.                *)
(***************************************************************************)
EXTENDS Lighting, SequenceTheorems, TLAPS

-----------------------------------------------------------------------------
(* The socket: one bind under way at most, and none beside a bound socket *)
Sound(o) ==
    /\ o \in [sock : Address \cup {None}, bound : Address \cup {None}, binding : BOOLEAN,
              inflight : Seq(Address), retry : BOOLEAN, watch : BOOLEAN]
    /\ o.binding = TRUE => Len(o.inflight) = 1 /\ o.sock = None
    /\ o.binding = FALSE => Len(o.inflight) = 0
OutInv ==
    /\ nic \in Address \cup {None} /\ Sound(out)

-----------------------------------------------------------------------------
(* What a fixture's profile has, and what of it is not excepted *)
Rule(f) == ProfileOf(patch, custom, f)
Params(r) == {q \in Parameters : q = "cct" => Kelvin(r) # {}}
Span(r, q) == IF q = "cct" THEN Kelvin(r) ELSE Levels
Sure(f) == {q \in Params(Rule(f)) : q = "cct" => f \notin odd}

(* What the program would start with now *)
Reborn == Restored(patch, custom, disk)

(* What was told fits the profiles; only of a program that is down may a colour be missing *)
WantInv ==
    /\ DOMAIN want = InUse(patch, custom)
    /\ \A f \in DOMAIN want :
        /\ DOMAIN want[f] \subseteq Parameters /\ "intensity" \in DOMAIN want[f]
        /\ Told(f) \subseteq Sure(f)
        /\ \A q \in Sure(f) \ Told(f) : ~up /\ q \notin DOMAIN Reborn[f]
        /\ \A q \in Told(f) : want[f][q] \in Span(Rule(f), q)

(* The engine: every parameter that counts has a value, heads where it was told, and
   its fade starts from a number; a fixture without colour has none *)
CurInv ==
    /\ DOMAIN cur = DOMAIN want
    /\ \A k \in DOMAIN fades :
        /\ \E f \in DOMAIN cur, q \in Parameters : k = <<f, q>>
        /\ DOMAIN fades[k] = {"from", "to", "left"}
    /\ \A f \in DOMAIN cur :
        /\ DOMAIN cur[f] \subseteq Parameters
        /\ f \notin odd /\ Kelvin(Rule(f)) = {} => "cct" \notin DOMAIN cur[f] /\ <<f, "cct">> \notin DOMAIN fades
        /\ \A q \in Sure(f) :
            /\ q \in DOMAIN cur[f] /\ cur[f][q] \in Int /\ Heading(f, q) = want[f][q]
            /\ <<f, q>> \in DOMAIN fades =>
                 fades[<<f, q>>].from \in Int /\ fades[<<f, q>>].left \in 1..FadeTicks

(* The scene holds what was told when it was saved, and perhaps colours that do not count *)
SceneInv ==
    scene # None =>
        /\ DOMAIN wanted = DOMAIN scene
        /\ \A f \in DOMAIN scene :
            /\ DOMAIN scene[f] \subseteq Parameters
            /\ "intensity" \in DOMAIN wanted[f] /\ DOMAIN wanted[f] \subseteq DOMAIN scene[f]
            /\ \A q \in DOMAIN wanted[f] : scene[f][q] = wanted[f][q] /\ wanted[f][q] \in Int

(* The saved state is usable, and once everything is saved a restart loses nothing *)
DiskInv ==
    /\ \A f \in DOMAIN disk :
         DOMAIN disk[f] \subseteq Parameters /\ ("intensity" \in DOMAIN disk[f] => disk[f]["intensity"] # NaN)
    /\ saving => up /\ known
    /\ ~up \/ (~patched /\ ~saving) =>
         \A f \in DOMAIN want : \A q \in Told(f) : q \in DOMAIN Reborn[f] /\ Reborn[f][q] = want[f][q]

LightInv ==
    /\ up \in BOOLEAN
    /\ WantInv /\ SceneInv /\ DiskInv
    /\ up => CurInv

-----------------------------------------------------------------------------
(* The socket *)

(* resolveLocalAddress answers an address or nothing. *)
LEMMA WhereIs == ASSUME NEW s, OutInv PROVE Where(s) \in Address \cup {None}
BY DEF Where, OutInv

(* The functions that open and close the socket keep it in order. *)
LEMMA ClosedIsSound == Sound(Closed)
BY OutputAssumption DEF Sound, Closed

LEMMA RetryIsSound == ASSUME NEW o, Sound(o) PROVE Sound(RetryLater(o))
BY DEF Sound, RetryLater

LEMMA CloseIsSound == ASSUME NEW o, Sound(o) PROVE Sound(CloseSocket(o))
BY DEF Sound, CloseSocket

LEMMA EnsureIsSound ==
    ASSUME NEW o, NEW s, Sound(o), OutInv PROVE Sound(EnsureSocket(o, s))
<1>1. CASE o.sock # None \/ o.binding
  BY <1>1 DEF EnsureSocket
<1>2. CASE ~(o.sock # None \/ o.binding) /\ Where(s) = None
  BY <1>2, RetryIsSound DEF EnsureSocket
<1>3. CASE ~(o.sock # None \/ o.binding) /\ Where(s) # None
  <2> DEFINE i == Append(o.inflight, Where(s))
  <2>1. Len(o.inflight) = 0 /\ Where(s) \in Address /\ o.sock = None
    BY <1>3, WhereIs DEF Sound
  <2>2. i \in Seq(Address) /\ Len(i) = 1
    BY <2>1 DEF Sound
  <2>3. EnsureSocket(o, s) = [o EXCEPT !.binding = TRUE, !.inflight = i]
    BY <1>3 DEF EnsureSocket
  <2> HIDE DEF i
  <2> DEFINE e == [o EXCEPT !.binding = TRUE, !.inflight = i]
  <2>4. e.inflight = i /\ e.binding = TRUE /\ e.sock = None
    BY <2>1 DEF Sound
  <2>5. e \in [sock : Address \cup {None}, bound : Address \cup {None}, binding : BOOLEAN,
               inflight : Seq(Address), retry : BOOLEAN, watch : BOOLEAN]
    BY <2>2 DEF Sound
  <2> HIDE DEF e
  <2>6. Sound(e)
    BY <2>2, <2>4, <2>5 DEF Sound
  <2> QED
    BY <2>3, <2>6 DEF e
<1> QED
  BY <1>1, <1>2, <1>3

LEMMA OutInit == Init => OutInv
BY ClosedIsSound DEF Init, OutputInit, OutInv

LEMMA OutStep == ASSUME OutInv, [Next]_vars PROVE OutInv'
<1>1. ASSUME Sound(out'), nic' \in Address \cup {None} PROVE OutInv'
  BY <1>1 DEF OutInv, Sound
<1>2. CASE OutputNext /\ Rest
  <2>0. out.inflight # <<>> =>
          /\ Head(out.inflight) \in Address
          /\ Tail(out.inflight) \in Seq(Address) /\ Len(Tail(out.inflight)) = 0
    <3> SUFFICES ASSUME out.inflight # <<>>
                 PROVE  /\ Head(out.inflight) \in Address
                        /\ Tail(out.inflight) \in Seq(Address) /\ Len(Tail(out.inflight)) = 0
      OBVIOUS
    <3>1. out.inflight \in Seq(Address)
      BY DEF OutInv, Sound
    <3>2. Len(out.inflight) # 0
      BY <3>1, EmptySeq
    <3> QED
      BY <3>1, <3>2 DEF OutInv, Sound
  <2>1. CASE Bound
    <3> DEFINE a == Head(out.inflight)
               o == [out EXCEPT !.binding = FALSE, !.inflight = Tail(@), !.sock = a, !.bound = a, !.watch = TRUE]
    <3>1. a \in Address /\ Tail(out.inflight) \in Seq(Address) /\ Len(Tail(out.inflight)) = 0
      BY <2>0, <2>1 DEF Bound
    <3> HIDE DEF a
    <3>2. Sound(o)
      BY <3>1 DEF OutInv, Sound
    <3> QED
      BY <2>1, <3>2, <1>1 DEF Bound, OutInv, a
  <2>2. CASE BindFails
    <3>1. Sound([out EXCEPT !.binding = FALSE, !.bound = None, !.inflight = Tail(@)])
      BY <2>0, <2>2 DEF BindFails, OutInv, Sound
    <3> QED
      BY <2>2, <3>1, <1>1, RetryIsSound DEF BindFails, OutInv
  <2>3. CASE SocketFails
    <3>1. Sound([out EXCEPT !.binding = FALSE, !.bound = None, !.sock = None])
      BY <2>0, <2>3 DEF SocketFails, OutInv, Sound
    <3> QED
      BY <2>3, <3>1, <1>1, RetryIsSound DEF SocketFails, OutInv
  <2>4. CASE RetryTimer
    <3>1. Sound([out EXCEPT !.retry = FALSE])
      BY DEF OutInv, Sound
    <3> QED
      BY <2>4, <3>1, <1>1, EnsureIsSound DEF RetryTimer, OutInv
  <2>5. CASE WatchTimer
    BY <2>5, <1>1, EnsureIsSound, CloseIsSound DEF WatchTimer, OutInv
  <2>6. CASE NicChanges
    BY <2>6, <1>1 DEF NicChanges, OutInv
  <2> QED
    BY <1>2, <2>1, <2>2, <2>3, <2>4, <2>5, <2>6 DEF OutputNext
<1>3. CASE Start
  BY <1>3, <1>1, ClosedIsSound, EnsureIsSound DEF Start, OutInv
<1>4. CASE Stop \/ Crash
  BY <1>4, <1>1, ClosedIsSound DEF Stop, Crash, Down, OutInv
<1>5. ASSUME NEW s, SetOutput(s) PROVE OutInv'
  <2>1. Sound(IF s.where # settings.where THEN CloseSocket(out) ELSE out)
    BY CloseIsSound DEF OutInv
  <2> QED
    BY <1>5, <2>1, <1>1, EnsureIsSound DEF SetOutput, Configured, OutInv
<1>6. ASSUME UNCHANGED <<out, nic>> PROVE OutInv'
  BY <1>6 DEF OutInv, Sound
<1>7. CASE Tick \/ SaveTimer \/ SaveScene \/ ClearScene \/ (\E f \in Fixture : Identify(f))
  BY <1>7, <1>6 DEF Tick, SaveTimer, SaveScene, ClearScene, Identify, outputVars
<1>8. ASSUME NEW T, NEW b, NEW relative, NEW faded, Set(T, b, relative, faded) PROVE OutInv'
  BY <1>8, <1>6 DEF Set, Changed, outputVars
<1>9. ASSUME NEW faded, RecallScene(faded) PROVE OutInv'
  BY <1>9, <1>6 DEF RecallScene, Changed, outputVars
<1>10. ASSUME NEW p, ReplacePatch(p) PROVE OutInv'
  BY <1>10, <1>6 DEF ReplacePatch, Reload, outputVars
<1>11. ASSUME NEW d, ReplaceProfile(d) PROVE OutInv'
  BY <1>11, <1>6 DEF ReplaceProfile, Reload, outputVars
<1>12. CASE UNCHANGED vars
  BY <1>12, <1>6 DEF vars, outputVars
<1> QED
  BY <1>2, <1>3, <1>4, <1>5, <1>7, <1>8, <1>9, <1>10, <1>11, <1>12 DEF Next, RecallLook

(* However binds, errors, timers and settings fall together, one socket is *)
(* bound or one is being bound, and never a second.                        *)
THEOREM SocketIsOne == Spec => []OneSocket
<1>1. OutInv => OneSocket
  <2> SUFFICES ASSUME OutInv PROVE Len(out.inflight) + (IF out.sock = None THEN 0 ELSE 1) <= 1
    BY DEF OneSocket
  <2>1. CASE out.binding = TRUE
    <3>1. Len(out.inflight) = 1 /\ out.sock = None
      BY <2>1 DEF OutInv, Sound
    <3> QED
      BY <3>1
  <2>2. CASE out.binding = FALSE
    <3>1. Len(out.inflight) = 0
      BY <2>2 DEF OutInv, Sound
    <3> QED
      BY <3>1
  <2> QED
    BY <2>1, <2>2 DEF OutInv, Sound
<1> QED
  BY OutInit, OutStep, <1>1, PTL DEF Spec

-----------------------------------------------------------------------------
(* Ranges, and the operators on states of a fixture *)

LEMMA SpanIs ==
    ASSUME NEW r, NEW q
    PROVE  /\ Span(r, q) \subseteq Int
           /\ Span(r, q) = {} \/ Span(r, q) = 1..2 \/ Span(r, q) = 1..3 \/ Span(r, q) = 0..2
           /\ q # "cct" => Span(r, q) # {}
           /\ q = "cct" => (Span(r, q) # {} <=> Kelvin(r) # {})
BY DEF Span, Kelvin, Levels

(* Within answers something of the range, and what is in it already as it is. *)
LEMMA WithinIs ==
    ASSUME NEW r, NEW q, NEW v, Span(r, q) # {}
    PROVE  /\ Within(v, Span(r, q)) \in Span(r, q)
           /\ v \in Span(r, q) => Within(v, Span(r, q)) = v
<1> DEFINE S == Span(r, q)
<1>1. S \subseteq Int /\ (S = 1..2 \/ S = 1..3 \/ S = 0..2)
  BY SpanIs
<1>2. /\ \E x \in S : \A y \in S : x <= y
      /\ \E x \in S : \A y \in S : y <= x
  <2>1. S = 1..2 => (\A y \in S : 1 <= y) /\ (\A y \in S : y <= 2) /\ 1 \in S /\ 2 \in S
    OBVIOUS
  <2>2. S = 1..3 => (\A y \in S : 1 <= y) /\ (\A y \in S : y <= 3) /\ 1 \in S /\ 3 \in S
    OBVIOUS
  <2>3. S = 0..2 => (\A y \in S : 0 <= y) /\ (\A y \in S : y <= 2) /\ 0 \in S /\ 2 \in S
    OBVIOUS
  <2> HIDE DEF S
  <2> QED
    BY <2>1, <2>2, <2>3, <1>1
<1> HIDE DEF S
<1>3. Within(v, S) \in S
  BY <1>2 DEF Within
<1>4. v \in S => Within(v, S) = v
  BY <1>1 DEF Within
<1> QED
  BY <1>3, <1>4 DEF S

(* What #clampToFixture leaves, and that it leaves alone what fits. *)
LEMMA ClampIs ==
    ASSUME NEW r, NEW s
    PROVE  /\ DOMAIN Clamp(r, s) = {q \in DOMAIN s : s[q] # NaN /\ (q = "cct" => Kelvin(r) # {})}
           /\ \A q \in DOMAIN Clamp(r, s) :
                /\ Clamp(r, s)[q] = Within(s[q], Span(r, q))
                /\ Clamp(r, s)[q] \in Span(r, q)
                /\ s[q] \in Span(r, q) => Clamp(r, s)[q] = s[q]
<1>1. DOMAIN Clamp(r, s) = {q \in DOMAIN s : s[q] # NaN /\ (q = "cct" => Kelvin(r) # {})}
  BY DEF Clamp
<1>2. ASSUME NEW q \in DOMAIN Clamp(r, s)
      PROVE  Clamp(r, s)[q] = Within(s[q], Span(r, q)) /\ Span(r, q) # {}
  BY <1>1, SpanIs DEF Clamp, Span
<1> QED
  BY <1>1, <1>2, WithinIs

LEMMA ClampKeeps ==
    ASSUME NEW r, NEW s, NEW q \in DOMAIN Clamp(r, s), s[q] \in Span(r, q)
    PROVE  Clamp(r, s)[q] = s[q]
<1>1. Clamp(r, s)[q] = Within(s[q], Span(r, q))
  BY DEF Clamp, Span
<1>2. Span(r, q) # {}
  OBVIOUS
<1> QED
  BY <1>1, <1>2, WithinIs

LEMMA OverIs ==
    ASSUME NEW a, NEW b
    PROVE  /\ DOMAIN Over(a, b) = DOMAIN a \cup DOMAIN b
           /\ \A q \in DOMAIN Over(a, b) : Over(a, b)[q] = IF q \in DOMAIN b THEN b[q] ELSE a[q]
BY DEF Over

LEMMA DefaultIs ==
    ASSUME NEW r
    PROVE  /\ DOMAIN Default(r) = Params(r)
           /\ \A q \in Params(r) : Default(r)[q] \in Span(r, q)
<1> DEFINE s == [q \in Parameters |-> IF q = "cct" THEN 1 ELSE 0]
<1>1. DOMAIN s = Parameters /\ \A q \in Parameters : s[q] # NaN
  BY LightingAssumption DEF NaN
<1> HIDE DEF s
<1>2. DOMAIN Clamp(r, s) = {q \in DOMAIN s : s[q] # NaN /\ (q = "cct" => Kelvin(r) # {})}
  BY ClampIs
<1>3. DOMAIN Clamp(r, s) = Params(r)
  BY <1>1, <1>2 DEF Params
<1> QED
  BY <1>3, ClampIs DEF Default, s

(* A fixture of a program that starts. *)
LEMMA RestoredIs ==
    ASSUME NEW p, NEW d, NEW state,
           \A f \in DOMAIN state :
             DOMAIN state[f] \subseteq Parameters /\ ("intensity" \in DOMAIN state[f] => state[f]["intensity"] # NaN)
    PROVE  /\ DOMAIN Restored(p, d, state) = InUse(p, d)
           /\ \A f \in InUse(p, d) :
                /\ DOMAIN Restored(p, d, state)[f] \subseteq Params(ProfileOf(p, d, f))
                /\ "intensity" \in DOMAIN Restored(p, d, state)[f]
                /\ \A q \in DOMAIN Restored(p, d, state)[f] :
                     Restored(p, d, state)[f][q] \in Span(ProfileOf(p, d, f), q)
<1>1. DOMAIN Restored(p, d, state) = InUse(p, d)
  BY DEF Restored
<1>2. ASSUME NEW f \in InUse(p, d)
      PROVE  /\ DOMAIN Restored(p, d, state)[f] \subseteq Params(ProfileOf(p, d, f))
             /\ "intensity" \in DOMAIN Restored(p, d, state)[f]
             /\ \A q \in DOMAIN Restored(p, d, state)[f] :
                  Restored(p, d, state)[f][q] \in Span(ProfileOf(p, d, f), q)
  <2> DEFINE r == ProfileOf(p, d, f)
             s == Over(Default(r), state[f])
  <2>0. "intensity" \in Params(r) /\ Params(r) \subseteq Parameters
    BY DEF Params, Parameters
  <2>1. CASE f \in DOMAIN state
    <3>1. Restored(p, d, state)[f] = Clamp(r, s)
      BY <2>1 DEF Restored
    <3>2. DOMAIN s = Params(r) \cup DOMAIN state[f] /\ DOMAIN s \subseteq Parameters
      <4>1. DOMAIN s = DOMAIN Default(r) \cup DOMAIN state[f]
        BY OverIs
      <4>2. DOMAIN Default(r) = Params(r)
        BY DefaultIs
      <4> QED
        BY <4>1, <4>2, <2>0, <2>1
    <3>3. s["intensity"] # NaN
      <4>1. "intensity" \in DOMAIN s
        BY <3>2, <2>0
      <4>2. Default(r)["intensity"] # NaN
        BY <2>0, DefaultIs, SpanIs, LightingAssumption DEF NaN
      <4>3. s["intensity"] = IF "intensity" \in DOMAIN state[f] THEN state[f]["intensity"] ELSE Default(r)["intensity"]
        <5>1. \A q \in DOMAIN s : s[q] = IF q \in DOMAIN state[f] THEN state[f][q] ELSE Default(r)[q]
          BY OverIs
        <5> HIDE DEF s
        <5> QED
          BY <4>1, <5>1
      <4> QED
        BY <4>2, <4>3, <2>1
    <3> HIDE DEF s, r
    <3>4. DOMAIN Clamp(r, s) \subseteq Params(r) /\ "intensity" \in DOMAIN Clamp(r, s)
      <4>1. DOMAIN Clamp(r, s) = {q \in DOMAIN s : s[q] # NaN /\ (q = "cct" => Kelvin(r) # {})}
        BY ClampIs
      <4> QED
        BY <4>1, <2>0, <3>2, <3>3 DEF Params
    <3> QED
      BY <3>1, <3>4, ClampIs DEF r
  <2>2. CASE f \notin DOMAIN state
    <3>1. Restored(p, d, state)[f] = Default(r)
      BY <2>2 DEF Restored
    <3> QED
      BY <3>1, <2>0, DefaultIs
  <2> QED
    BY <2>1, <2>2
<1> QED
  BY <1>1, <1>2

-----------------------------------------------------------------------------
(* Fades *)

Fading(f, q) == <<f, q>> \in DOMAIN fades
Goes(dest, f, q) == f \in DOMAIN dest /\ q \in DOMAIN dest[f]
Glides(dest, faded, f, q) == faded = TRUE /\ (q \in DOMAIN cur[f] => cur[f][q] # dest[f][q])

(* #fadeTo, parameter by parameter: what is not named stays, what is named fades from
   where it is or is there at once. *)
LEMMA FadedIs ==
    ASSUME NEW dest, NEW faded \in BOOLEAN, Faded(dest, faded), DOMAIN dest \subseteq DOMAIN cur,
           \A f \in DOMAIN dest : DOMAIN dest[f] \subseteq Parameters
    PROVE  /\ DOMAIN cur' = DOMAIN cur
           /\ \A k \in DOMAIN fades' :
                \/ k \in DOMAIN fades /\ fades'[k] = fades[k]
                \/ /\ \E f \in DOMAIN cur, q \in Parameters : k = <<f, q>>
                   /\ DOMAIN fades'[k] = {"from", "to", "left"}
           /\ \A f \in DOMAIN cur :
                DOMAIN cur'[f] \subseteq DOMAIN cur[f] \cup {q \in Parameters : Goes(dest, f, q)}
           /\ \A f \in DOMAIN cur, q \in Parameters :
                /\ ~Goes(dest, f, q) =>
                     /\ q \in DOMAIN cur'[f] <=> q \in DOMAIN cur[f]
                     /\ q \in DOMAIN cur[f] => cur'[f][q] = cur[f][q]
                     /\ <<f, q>> \in DOMAIN fades' <=> <<f, q>> \in DOMAIN fades
                     /\ <<f, q>> \in DOMAIN fades => fades'[<<f, q>>] = fades[<<f, q>>]
                /\ Goes(dest, f, q) /\ Glides(dest, faded, f, q) =>
                     /\ q \in DOMAIN cur'[f] <=> q \in DOMAIN cur[f]
                     /\ q \in DOMAIN cur[f] => cur'[f][q] = cur[f][q] /\ fades'[<<f, q>>].from = cur[f][q]
                     /\ <<f, q>> \in DOMAIN fades'
                     /\ fades'[<<f, q>>].to = dest[f][q] /\ fades'[<<f, q>>].left = FadeTicks
                /\ Goes(dest, f, q) /\ ~Glides(dest, faded, f, q) =>
                     /\ q \in DOMAIN cur'[f] /\ cur'[f][q] = dest[f][q]
                     /\ <<f, q>> \notin DOMAIN fades'
<1> DEFINE glide(f) == {q \in DOMAIN dest[f] : faded /\ (q \in DOMAIN cur[f] => cur[f][q] # dest[f][q])}
           keys == {<<f, q>> : f \in DOMAIN dest, q \in Parameters}
           begun == {k \in keys : k[2] \in DOMAIN dest[k[1]] /\ k[2] \in glide(k[1])}
           ended == {k \in keys : k[2] \in DOMAIN dest[k[1]]} \ begun
           set(f) == [q \in DOMAIN dest[f] \ glide(f) |-> dest[f][q]]
           fade(k) == [from |-> IF k[2] \in DOMAIN cur[k[1]] THEN cur[k[1]][k[2]] ELSE NaN,
                       to |-> dest[k[1]][k[2]], left |-> FadeTicks]
<1>1. /\ fades' = [k \in (DOMAIN fades \ ended) \cup begun |-> IF k \in begun THEN fade(k) ELSE fades[k]]
      /\ cur' = [f \in DOMAIN cur |-> IF f \in DOMAIN dest THEN Over(cur[f], set(f)) ELSE cur[f]]
  BY SMTT(30) DEF Faded
<1>2. \A f \in DOMAIN cur, q \in Parameters :
        /\ <<f, q>> \in begun <=> Goes(dest, f, q) /\ Glides(dest, faded, f, q)
        /\ <<f, q>> \in ended <=> Goes(dest, f, q) /\ ~Glides(dest, faded, f, q)
  BY DEF Goes, Glides
<1>3. \A k \in begun : \E f \in DOMAIN cur, q \in Parameters : k = <<f, q>>
  OBVIOUS
<1>4. \A f \in DOMAIN dest :
        /\ DOMAIN set(f) = {q \in Parameters : Goes(dest, f, q) /\ ~Glides(dest, faded, f, q)}
        /\ \A q \in DOMAIN set(f) : set(f)[q] = dest[f][q]
  BY DEF Goes, Glides
<1>5. \A f, q : fade(<<f, q>>).to = dest[f][q] /\ fade(<<f, q>>).left = FadeTicks
                 /\ (q \in DOMAIN cur[f] => fade(<<f, q>>).from = cur[f][q])
                 /\ DOMAIN fade(<<f, q>>) = {"from", "to", "left"}
  OBVIOUS
<1> HIDE DEF begun, ended, set, fade
<1>6. \A f \in DOMAIN cur :
        /\ f \in DOMAIN dest => /\ DOMAIN cur'[f] = DOMAIN cur[f] \cup DOMAIN set(f)
                                /\ \A q \in DOMAIN cur'[f] : cur'[f][q] = IF q \in DOMAIN set(f) THEN set(f)[q] ELSE cur[f][q]
        /\ f \notin DOMAIN dest => cur'[f] = cur[f]
  <2> SUFFICES ASSUME NEW f \in DOMAIN cur
               PROVE  /\ f \in DOMAIN dest => /\ DOMAIN cur'[f] = DOMAIN cur[f] \cup DOMAIN set(f)
                                              /\ \A q \in DOMAIN cur'[f] : cur'[f][q] = IF q \in DOMAIN set(f) THEN set(f)[q] ELSE cur[f][q]
                      /\ f \notin DOMAIN dest => cur'[f] = cur[f]
    OBVIOUS
  <2>1. cur'[f] = IF f \in DOMAIN dest THEN Over(cur[f], set(f)) ELSE cur[f]
    BY <1>1
  <2>2. ASSUME f \in DOMAIN dest
        PROVE  /\ DOMAIN cur'[f] = DOMAIN cur[f] \cup DOMAIN set(f)
               /\ \A q \in DOMAIN cur'[f] : cur'[f][q] = IF q \in DOMAIN set(f) THEN set(f)[q] ELSE cur[f][q]
    <3>1. cur'[f] = Over(cur[f], set(f))
      BY <2>1, <2>2
    <3>2. DOMAIN Over(cur[f], set(f)) = DOMAIN cur[f] \cup DOMAIN set(f)
      BY OverIs
    <3>3. \A q \in DOMAIN Over(cur[f], set(f)) :
            Over(cur[f], set(f))[q] = IF q \in DOMAIN set(f) THEN set(f)[q] ELSE cur[f][q]
      BY OverIs
    <3> QED
      BY <3>1, <3>2, <3>3
  <2> QED
    BY <2>1, <2>2
<1>7. /\ DOMAIN fades' = (DOMAIN fades \ ended) \cup begun
      /\ \A k \in DOMAIN fades' : fades'[k] = IF k \in begun THEN fade(k) ELSE fades[k]
  BY <1>1
<1>8. DOMAIN cur' = DOMAIN cur
  BY <1>1
<1>9. ASSUME NEW f \in DOMAIN cur, NEW q \in Parameters
      PROVE  /\ ~Goes(dest, f, q) =>
                  /\ q \in DOMAIN cur'[f] <=> q \in DOMAIN cur[f]
                  /\ q \in DOMAIN cur[f] => cur'[f][q] = cur[f][q]
                  /\ <<f, q>> \in DOMAIN fades' <=> <<f, q>> \in DOMAIN fades
                  /\ <<f, q>> \in DOMAIN fades => fades'[<<f, q>>] = fades[<<f, q>>]
             /\ Goes(dest, f, q) /\ Glides(dest, faded, f, q) =>
                  /\ q \in DOMAIN cur'[f] <=> q \in DOMAIN cur[f]
                  /\ q \in DOMAIN cur[f] => cur'[f][q] = cur[f][q] /\ fades'[<<f, q>>].from = cur[f][q]
                  /\ <<f, q>> \in DOMAIN fades'
                  /\ fades'[<<f, q>>].to = dest[f][q] /\ fades'[<<f, q>>].left = FadeTicks
             /\ Goes(dest, f, q) /\ ~Glides(dest, faded, f, q) =>
                  /\ q \in DOMAIN cur'[f] /\ cur'[f][q] = dest[f][q]
                  /\ <<f, q>> \notin DOMAIN fades'
  <2>1. CASE ~Goes(dest, f, q)
    <3>1. f \in DOMAIN dest => q \notin DOMAIN set(f)
      BY <2>1, <1>4
    <3>2. (q \in DOMAIN cur'[f] <=> q \in DOMAIN cur[f]) /\ (q \in DOMAIN cur[f] => cur'[f][q] = cur[f][q])
      BY <3>1, <1>6
    <3>3. <<f, q>> \notin begun /\ <<f, q>> \notin ended
      BY <2>1, <1>2
    <3>4. /\ <<f, q>> \in DOMAIN fades' <=> <<f, q>> \in DOMAIN fades
          /\ <<f, q>> \in DOMAIN fades => fades'[<<f, q>>] = fades[<<f, q>>]
      BY <3>3, <1>7
    <3> QED
      BY <2>1, <3>2, <3>4
  <2>2. CASE Goes(dest, f, q) /\ Glides(dest, faded, f, q)
    <3>1. f \in DOMAIN dest /\ q \notin DOMAIN set(f)
      BY <2>2, <1>4 DEF Goes
    <3>2. (q \in DOMAIN cur'[f] <=> q \in DOMAIN cur[f]) /\ (q \in DOMAIN cur[f] => cur'[f][q] = cur[f][q])
      BY <3>1, <1>6
    <3>3. <<f, q>> \in begun
      BY <2>2, <1>2
    <3>4. <<f, q>> \in DOMAIN fades' /\ fades'[<<f, q>>] = fade(<<f, q>>)
      BY <3>3, <1>7
    <3> QED
      BY <2>2, <3>2, <3>4, <1>5
  <2>3. CASE Goes(dest, f, q) /\ ~Glides(dest, faded, f, q)
    <3>1. f \in DOMAIN dest /\ q \in DOMAIN set(f) /\ set(f)[q] = dest[f][q]
      BY <2>3, <1>4 DEF Goes
    <3>2. q \in DOMAIN cur'[f] /\ cur'[f][q] = dest[f][q]
      BY <3>1, <1>6
    <3>3. <<f, q>> \notin begun /\ <<f, q>> \in ended
      BY <2>3, <1>2
    <3>4. <<f, q>> \notin DOMAIN fades'
      BY <3>3, <1>7
    <3> QED
      BY <2>3, <3>2, <3>4
  <2> QED
    BY <2>1, <2>2, <2>3
<1>10. \A f \in DOMAIN cur : DOMAIN cur'[f] \subseteq DOMAIN cur[f] \cup {q \in Parameters : Goes(dest, f, q)}
  BY <1>4, <1>6
<1>11. \A k \in DOMAIN fades' :
          \/ k \in DOMAIN fades /\ fades'[k] = fades[k]
          \/ /\ \E f \in DOMAIN cur, q \in Parameters : k = <<f, q>>
             /\ DOMAIN fades'[k] = {"from", "to", "left"}
  <2> SUFFICES ASSUME NEW k \in DOMAIN fades', k \in begun
               PROVE  /\ \E f \in DOMAIN cur, q \in Parameters : k = <<f, q>>
                      /\ DOMAIN fades'[k] = {"from", "to", "left"}
    BY <1>7
  <2>1. PICK f \in DOMAIN cur, q \in Parameters : k = <<f, q>>
    BY <1>3
  <2>2. fades'[k] = fade(<<f, q>>)
    BY <1>7, <2>1
  <2> QED
    BY <2>1, <2>2, <1>5
<1> QED
  BY <1>8, <1>9, <1>10, <1>11

-----------------------------------------------------------------------------
(* Commands *)

(* While the program runs, what was told is everything that counts. *)
LEMMA Up ==
    ASSUME LightInv, up = TRUE
    PROVE  /\ DOMAIN cur = DOMAIN want /\ DOMAIN want = InUse(patch, custom)
           /\ \A f \in DOMAIN cur :
                /\ Told(f) = Sure(f) /\ "intensity" \in Sure(f)
                /\ \A q \in Sure(f) :
                     /\ q \in Parameters /\ q \in DOMAIN cur[f] /\ q \in DOMAIN want[f]
                     /\ Heading(f, q) = want[f][q]
                     /\ want[f][q] \in Span(Rule(f), q) /\ want[f][q] \in Int /\ want[f][q] # NaN
<1>1. DOMAIN cur = DOMAIN want /\ DOMAIN want = InUse(patch, custom)
  BY DEF LightInv, WantInv, CurInv
<1>2. ASSUME NEW f \in DOMAIN cur
      PROVE  Told(f) = Sure(f) /\ "intensity" \in Sure(f)
  BY <1>1, <1>2 DEF LightInv, WantInv, Sure, Params, Parameters
<1>3. ASSUME NEW f \in DOMAIN cur, NEW q \in Sure(f)
      PROVE  /\ q \in Parameters /\ q \in DOMAIN cur[f] /\ q \in DOMAIN want[f]
             /\ Heading(f, q) = want[f][q]
             /\ want[f][q] \in Span(Rule(f), q)
  <2>1. q \in Told(f)
    BY <1>2
  <2> QED
    BY <1>1, <2>1 DEF LightInv, WantInv, CurInv, Told, Sure, Params
<1> QED
  BY <1>1, <1>2, <1>3, SpanIs, LightingAssumption DEF NaN

(* A command that moves what it tells keeps every light heading where it was told. *)
LEMMA ChangedCur ==
    ASSUME LightInv, up = TRUE, NEW dest, NEW faded \in BOOLEAN, Faded(dest, faded),
           DOMAIN dest \subseteq DOMAIN cur,
           \A f \in DOMAIN dest :
             DOMAIN dest[f] \subseteq Params(Rule(f)) /\ \A q \in DOMAIN dest[f] : dest[f][q] \in Span(Rule(f), q),
           UNCHANGED <<up, patch, custom>>, odd \subseteq odd',
           DOMAIN want' = DOMAIN want,
           \A f \in DOMAIN cur : \A q \in Sure(f)' :
             want'[f][q] = IF Goes(dest, f, q) THEN dest[f][q] ELSE want[f][q]
    PROVE  CurInv'
<1>0. \A f : Rule(f)' = Rule(f)
  BY DEF Rule
<1>1. \A f : Sure(f)' \subseteq Sure(f) /\ Sure(f) \subseteq Parameters /\ Params(Rule(f)) \subseteq Parameters
  BY <1>0 DEF Sure, Params
<1>2. \A f \in DOMAIN dest : DOMAIN dest[f] \subseteq Parameters
  BY <1>1
<1>3. DOMAIN cur' = DOMAIN cur
  BY <1>2, FadedIs
<1>4. DOMAIN cur' = DOMAIN want'
  BY <1>3, Up
<1>5. \A k \in DOMAIN fades' :
        /\ \E f \in DOMAIN cur', q \in Parameters : k = <<f, q>>
        /\ DOMAIN fades'[k] = {"from", "to", "left"}
  <2>1. \A k \in DOMAIN fades :
          /\ \E f \in DOMAIN cur, q \in Parameters : k = <<f, q>>
          /\ DOMAIN fades[k] = {"from", "to", "left"}
    BY DEF LightInv, CurInv
  <2>2. \A k \in DOMAIN fades' :
          \/ k \in DOMAIN fades /\ fades'[k] = fades[k]
          \/ /\ \E f \in DOMAIN cur, q \in Parameters : k = <<f, q>>
             /\ DOMAIN fades'[k] = {"from", "to", "left"}
    BY <1>2, FadedIs
  <2> QED
    BY <2>1, <2>2, <1>3
<1>6. ASSUME NEW f \in DOMAIN cur PROVE DOMAIN cur'[f] \subseteq Parameters
  <2>1. DOMAIN cur'[f] \subseteq DOMAIN cur[f] \cup {q \in Parameters : Goes(dest, f, q)}
    BY <1>2, FadedIs
  <2>2. DOMAIN cur[f] \subseteq Parameters
    BY DEF LightInv, CurInv
  <2> QED
    BY <2>1, <2>2
<1>7. ASSUME NEW f \in DOMAIN cur, f \notin odd', Kelvin(Rule(f)) = {}
      PROVE  "cct" \notin DOMAIN cur'[f] /\ <<f, "cct">> \notin DOMAIN fades'
  <2>1. "cct" \notin DOMAIN cur[f] /\ <<f, "cct">> \notin DOMAIN fades
    BY <1>7 DEF LightInv, CurInv
  <2>2. ~Goes(dest, f, "cct") /\ "cct" \in Parameters
    BY <1>7 DEF Goes, Params, Parameters
  <2> QED
    BY <2>1, <2>2, <1>2, FadedIs
<1>8. ASSUME NEW f \in DOMAIN cur, NEW q \in Sure(f)'
      PROVE  /\ q \in DOMAIN cur'[f] /\ cur'[f][q] \in Int /\ Heading(f, q)' = want'[f][q]
             /\ <<f, q>> \in DOMAIN fades' =>
                  fades'[<<f, q>>].from \in Int /\ fades'[<<f, q>>].left \in 1..FadeTicks
  <2>0. q \in Sure(f) /\ q \in Parameters
    BY <1>1, <1>8
  <2>1. /\ q \in DOMAIN cur[f] /\ cur[f][q] \in Int /\ Heading(f, q) = want[f][q]
        /\ <<f, q>> \in DOMAIN fades =>
             fades[<<f, q>>].from \in Int /\ fades[<<f, q>>].left \in 1..FadeTicks
    BY <2>0 DEF LightInv, CurInv
  <2>2. Heading(f, q) = IF <<f, q>> \in DOMAIN fades THEN fades[<<f, q>>].to ELSE cur[f][q]
    BY <2>1 DEF Heading
  <2>3. q \in DOMAIN cur'[f] =>
          Heading(f, q)' = IF <<f, q>> \in DOMAIN fades' THEN fades'[<<f, q>>].to ELSE cur'[f][q]
    BY DEF Heading
  <2>4. want'[f][q] = IF Goes(dest, f, q) THEN dest[f][q] ELSE want[f][q]
    BY <1>8
  <2>5. CASE ~Goes(dest, f, q)
    <3>1. /\ q \in DOMAIN cur'[f] <=> q \in DOMAIN cur[f]
          /\ q \in DOMAIN cur[f] => cur'[f][q] = cur[f][q]
          /\ <<f, q>> \in DOMAIN fades' <=> <<f, q>> \in DOMAIN fades
          /\ <<f, q>> \in DOMAIN fades => fades'[<<f, q>>] = fades[<<f, q>>]
      BY <2>0, <2>5, <1>2, FadedIs
    <3> QED
      BY <3>1, <2>1, <2>2, <2>3, <2>4, <2>5
  <2>6. CASE Goes(dest, f, q) /\ Glides(dest, faded, f, q)
    <3>1. /\ q \in DOMAIN cur'[f] <=> q \in DOMAIN cur[f]
          /\ q \in DOMAIN cur[f] => cur'[f][q] = cur[f][q] /\ fades'[<<f, q>>].from = cur[f][q]
          /\ <<f, q>> \in DOMAIN fades'
          /\ fades'[<<f, q>>].to = dest[f][q] /\ fades'[<<f, q>>].left = FadeTicks
      BY <2>0, <2>6, <1>2, FadedIs
    <3> QED
      BY <3>1, <2>1, <2>3, <2>4, <2>6, LightingAssumption
  <2>7. CASE Goes(dest, f, q) /\ ~Glides(dest, faded, f, q)
    <3>1. /\ q \in DOMAIN cur'[f] /\ cur'[f][q] = dest[f][q]
          /\ <<f, q>> \notin DOMAIN fades'
      BY <2>0, <2>7, <1>2, FadedIs
    <3>2. dest[f][q] \in Int
      BY <2>7, SpanIs DEF Goes
    <3> QED
      BY <3>1, <3>2, <2>3, <2>4, <2>7
  <2> QED
    BY <2>5, <2>6, <2>7
<1> QED
  BY <1>0, <1>3, <1>4, <1>5, <1>6, <1>7, <1>8 DEF CurInv

(* Every command of #fadeTo: `dest` is what the engine does, `due` what was told. *)
LEMMA ChangedKeeps ==
    ASSUME LightInv, up = TRUE, NEW dest, NEW due, NEW faded \in BOOLEAN, Changed(dest, faded),
           DOMAIN dest \subseteq DOMAIN cur, DOMAIN due = DOMAIN dest,
           \A f \in DOMAIN dest :
             /\ DOMAIN dest[f] \subseteq Params(Rule(f)) /\ \A q \in DOMAIN dest[f] : dest[f][q] \in Span(Rule(f), q)
             /\ DOMAIN due[f] \subseteq Params(Rule(f)) /\ \A q \in DOMAIN due[f] : due[f][q] \in Span(Rule(f), q),
           want' = [f \in DOMAIN want |-> IF f \in DOMAIN dest THEN Over(want[f], due[f]) ELSE want[f]],
           odd \subseteq odd',
           \A f \in DOMAIN dest : \A q \in Sure(f)' :
             /\ q \in DOMAIN dest[f] <=> q \in DOMAIN due[f]
             /\ q \in DOMAIN dest[f] => dest[f][q] = due[f][q]
    PROVE  LightInv'
<1>0. /\ up' = TRUE /\ UNCHANGED <<up, patch, custom, scene, disk, wanted, patched>>
      /\ known' = TRUE /\ saving' = TRUE /\ Faded(dest, faded)
  BY DEF Changed
<1>1. \A f : /\ Rule(f)' = Rule(f) /\ Sure(f)' \subseteq Sure(f) /\ Sure(f)' \subseteq Params(Rule(f))
             /\ Params(Rule(f)) \subseteq Parameters
             /\ Sure(f)' = {q \in Params(Rule(f)) : q = "cct" => f \notin odd'}
  BY <1>0 DEF Sure, Params, Rule
<1>2. DOMAIN want' = DOMAIN want
  OBVIOUS
<1>3. ASSUME NEW f \in DOMAIN want
      PROVE  /\ DOMAIN want'[f] = DOMAIN want[f] \cup (IF f \in DOMAIN dest THEN DOMAIN due[f] ELSE {})
             /\ \A q \in DOMAIN want'[f] :
                  want'[f][q] = IF f \in DOMAIN dest /\ q \in DOMAIN due[f] THEN due[f][q] ELSE want[f][q]
  <2>1. CASE f \in DOMAIN dest
    <3>1. want'[f] = Over(want[f], due[f])
      BY <1>3, <2>1
    <3>2. DOMAIN Over(want[f], due[f]) = DOMAIN want[f] \cup DOMAIN due[f]
      BY OverIs
    <3>3. \A q \in DOMAIN Over(want[f], due[f]) :
            Over(want[f], due[f])[q] = IF q \in DOMAIN due[f] THEN due[f][q] ELSE want[f][q]
      BY OverIs
    <3> QED
      BY <3>1, <3>2, <3>3, <2>1
  <2>2. CASE f \notin DOMAIN dest
    <3>1. want'[f] = want[f]
      BY <1>3, <2>2
    <3> QED
      BY <3>1, <2>2
  <2> QED
    BY <2>1, <2>2
<1>4. CurInv'
  <2>1. ASSUME NEW f \in DOMAIN cur, NEW q \in Sure(f)'
        PROVE  want'[f][q] = IF Goes(dest, f, q) THEN dest[f][q] ELSE want[f][q]
    <3>1. f \in DOMAIN want /\ q \in DOMAIN want[f]
      BY <1>1, Up, <2>1
    <3>2. q \in DOMAIN want'[f]
      BY <3>1, <1>3
    <3>3. want'[f][q] = IF f \in DOMAIN dest /\ q \in DOMAIN due[f] THEN due[f][q] ELSE want[f][q]
      BY <3>1, <3>2, <1>3
    <3> QED
      BY <3>3, <2>1 DEF Goes
  <2> QED
    BY <2>1, <1>0, <1>2, ChangedCur
<1>5. WantInv'
  <2>1. DOMAIN want' = InUse(patch, custom)'
    BY <1>0, <1>2, Up
  <2>2. ASSUME NEW f \in DOMAIN want
        PROVE  /\ DOMAIN want'[f] \subseteq Parameters /\ "intensity" \in DOMAIN want'[f]
               /\ Told(f)' \subseteq Sure(f)' /\ Sure(f)' \subseteq Told(f)'
               /\ \A q \in Told(f)' : want'[f][q] \in Span(Rule(f), q)
    <3>0. f \in DOMAIN cur /\ Told(f) = Sure(f)
      BY Up, <2>2
    <3>1. DOMAIN want[f] \subseteq Parameters /\ "intensity" \in DOMAIN want[f]
      BY <2>2 DEF LightInv, WantInv
    <3>2. DOMAIN want'[f] \subseteq Parameters /\ "intensity" \in DOMAIN want'[f]
      BY <3>1, <1>1, <1>3, <2>2
    <3>3. Told(f)' = {q \in DOMAIN want'[f] : q = "cct" => f \notin odd'}
      BY DEF Told
    <3>4. ASSUME NEW q \in Told(f)' PROVE q \in Sure(f)' /\ want'[f][q] \in Span(Rule(f), q)
      <4>0. q \in DOMAIN want'[f] /\ (q = "cct" => f \notin odd')
        BY <3>3, <3>4
      <4>1. CASE f \in DOMAIN dest /\ q \in DOMAIN due[f]
        BY <4>0, <4>1, <1>1, <1>3, <2>2
      <4>2. CASE ~(f \in DOMAIN dest /\ q \in DOMAIN due[f])
        <5>1. q \in DOMAIN want[f] /\ want'[f][q] = want[f][q]
          BY <4>0, <4>2, <1>3, <2>2
        <5>2. q \in Told(f)
          BY <5>1, <4>0 DEF Told
        <5>3. q \in Sure(f) /\ want[f][q] \in Span(Rule(f), q)
          BY <5>2, <3>0, Up
        <5>4. q \in Params(Rule(f))
          BY <5>3 DEF Sure
        <5> QED
          BY <5>1, <5>3, <5>4, <4>0, <1>1
      <4> QED
        BY <4>1, <4>2
    <3>5. ASSUME NEW q \in Sure(f)' PROVE q \in Told(f)'
      <4>1. q \in DOMAIN want[f]
        BY <1>1, <3>0, <3>5, Up
      <4>2. q \in DOMAIN want'[f]
        BY <4>1, <1>3, <2>2
      <4> QED
        BY <4>2, <3>3, <3>5, <1>1
    <3> QED
      BY <3>2, <3>4, <3>5
  <2> QED
    BY <2>1, <2>2, <1>1, <1>2 DEF WantInv
<1>6. SceneInv'
  BY <1>0 DEF LightInv, SceneInv
<1>7. DiskInv'
  BY <1>0 DEF LightInv, DiskInv
<1> QED
  BY <1>0, <1>4, <1>5, <1>6, <1>7 DEF LightInv

(* set and recallLook: what is asked for, absolute or of where a light is heading, is
   what it is told. *)
LEMMA SetKeeps ==
    ASSUME LightInv, NEW T, T \subseteq DOMAIN cur, NEW body \in Bodies,
           NEW relative \in BOOLEAN, NEW faded \in BOOLEAN, Set(T, body, relative, faded)
    PROVE  LightInv'
<1> DEFINE value(f, q) == IF ~relative THEN body[q] ELSE IF Heading(f, q) = NaN THEN NaN ELSE Heading(f, q) + body[q]
           asked(f) == [q \in DOMAIN body |-> value(f, q)]
           due(f) == [q \in DOMAIN body |-> IF relative /\ q \in DOMAIN want[f] THEN want[f][q] + body[q] ELSE body[q]]
           ask == [f \in T |-> Clamp(Rule(f), asked(f))]
           tell == [f \in T |-> Clamp(Rule(f), due(f))]
<1>1. /\ up = TRUE /\ Changed(ask, faded) /\ odd' = odd
      /\ want' = [f \in DOMAIN want |-> IF f \in T THEN Over(want[f], Clamp(Rule(f), due(f))) ELSE want[f]]
  BY DEF Set, Command, Rule, LightInv
<1>2. DOMAIN ask = T /\ DOMAIN tell = T /\ \A f \in T : ask[f] = Clamp(Rule(f), asked(f)) /\ tell[f] = Clamp(Rule(f), due(f))
  OBVIOUS
<1>3. want' = [f \in DOMAIN want |-> IF f \in T THEN Over(want[f], tell[f]) ELSE want[f]]
  BY <1>1
<1>4. ASSUME NEW f \in T
      PROVE  /\ DOMAIN asked(f) = DOMAIN body /\ DOMAIN due(f) = DOMAIN body
             /\ \A q \in Sure(f) \cap DOMAIN body : asked(f)[q] = due(f)[q]
  <2>1. ASSUME NEW q \in Sure(f) \cap DOMAIN body PROVE asked(f)[q] = due(f)[q]
    <3>1. q \in DOMAIN want[f] /\ Heading(f, q) = want[f][q] /\ want[f][q] # NaN
      BY <1>1, <2>1, Up
    <3> QED
      BY <3>1
  <2> QED
    BY <2>1
<1>5. ASSUME NEW f \in T PROVE DOMAIN body \subseteq Parameters
  BY LightingAssumption
<1> HIDE DEF value, asked, due, ask, tell
<1>6. ASSUME NEW r, NEW s, DOMAIN s = DOMAIN body
      PROVE  DOMAIN Clamp(r, s) \subseteq Params(r) /\ \A q \in DOMAIN Clamp(r, s) : Clamp(r, s)[q] \in Span(r, q)
  <2>1. DOMAIN Clamp(r, s) = {q \in DOMAIN s : s[q] # NaN /\ (q = "cct" => Kelvin(r) # {})}
    BY ClampIs
  <2> QED
    BY <2>1, <1>6, ClampIs, LightingAssumption DEF Params
<1>7. \A f \in T :
        /\ DOMAIN ask[f] \subseteq Params(Rule(f)) /\ \A q \in DOMAIN ask[f] : ask[f][q] \in Span(Rule(f), q)
        /\ DOMAIN tell[f] \subseteq Params(Rule(f)) /\ \A q \in DOMAIN tell[f] : tell[f][q] \in Span(Rule(f), q)
  BY <1>2, <1>4, <1>6
<1>8. ASSUME NEW f \in T, NEW q \in Sure(f)'
      PROVE  /\ q \in DOMAIN ask[f] <=> q \in DOMAIN tell[f]
             /\ q \in DOMAIN ask[f] => ask[f][q] = tell[f][q]
  <2>0. q \in Sure(f)
    BY <1>1, <1>8 DEF Sure, Changed, Rule
  <2>1. /\ DOMAIN ask[f] = {x \in DOMAIN asked(f) : asked(f)[x] # NaN /\ (x = "cct" => Kelvin(Rule(f)) # {})}
        /\ \A x \in DOMAIN ask[f] : ask[f][x] = Within(asked(f)[x], Span(Rule(f), x))
    <3>1. ask[f] = Clamp(Rule(f), asked(f))
      BY <1>2
    <3>2. DOMAIN Clamp(Rule(f), asked(f)) = {x \in DOMAIN asked(f) : asked(f)[x] # NaN /\ (x = "cct" => Kelvin(Rule(f)) # {})}
      BY ClampIs
    <3>3. \A x \in DOMAIN Clamp(Rule(f), asked(f)) : Clamp(Rule(f), asked(f))[x] = Within(asked(f)[x], Span(Rule(f), x))
      BY ClampIs
    <3> QED
      BY <3>1, <3>2, <3>3
  <2>2. /\ DOMAIN tell[f] = {x \in DOMAIN due(f) : due(f)[x] # NaN /\ (x = "cct" => Kelvin(Rule(f)) # {})}
        /\ \A x \in DOMAIN tell[f] : tell[f][x] = Within(due(f)[x], Span(Rule(f), x))
    <3>1. tell[f] = Clamp(Rule(f), due(f))
      BY <1>2
    <3>2. DOMAIN Clamp(Rule(f), due(f)) = {x \in DOMAIN due(f) : due(f)[x] # NaN /\ (x = "cct" => Kelvin(Rule(f)) # {})}
      BY ClampIs
    <3>3. \A x \in DOMAIN Clamp(Rule(f), due(f)) : Clamp(Rule(f), due(f))[x] = Within(due(f)[x], Span(Rule(f), x))
      BY ClampIs
    <3> QED
      BY <3>1, <3>2, <3>3
  <2>3. q \in DOMAIN body => asked(f)[q] = due(f)[q]
    BY <2>0, <1>4
  <2>4. q \in DOMAIN ask[f] <=> q \in DOMAIN tell[f]
    BY <2>1, <2>2, <2>3, <1>4
  <2>5. ASSUME q \in DOMAIN ask[f] PROVE ask[f][q] = tell[f][q]
    <3>1. ask[f][q] = Within(asked(f)[q], Span(Rule(f), q))
      BY <2>5, <2>1
    <3>2. tell[f][q] = Within(due(f)[q], Span(Rule(f), q))
      BY <2>4, <2>5, <2>2
    <3> QED
      BY <3>1, <3>2, <2>1, <2>3, <2>5, <1>4
  <2> QED
    BY <2>4, <2>5
<1>9. odd \subseteq odd' /\ DOMAIN ask \subseteq DOMAIN cur /\ DOMAIN tell = DOMAIN ask
  BY <1>1, <1>2
<1>10. want' = [f \in DOMAIN want |-> IF f \in DOMAIN ask THEN Over(want[f], tell[f]) ELSE want[f]]
  BY <1>2, <1>3
<1> QED
  BY <1>1, <1>2, <1>7, <1>8, <1>9, <1>10, ChangedKeeps

(* recallScene: the lights of the scene head again where they were told when it was saved. *)
LEMMA RecallSceneKeeps ==
    ASSUME LightInv, NEW faded \in BOOLEAN, RecallScene(faded) PROVE LightInv'
<1> DEFINE T == DOMAIN cur \cap DOMAIN scene
           ask == [f \in T |-> Clamp(Rule(f), scene[f])]
           tell == [f \in T |-> Clamp(Rule(f), wanted[f])]
<1>1. /\ up = TRUE /\ Changed(ask, faded)
      /\ want' = [f \in DOMAIN want |-> IF f \in T THEN Over(want[f], Clamp(Rule(f), wanted[f])) ELSE want[f]]
      /\ odd' = odd \cup {f \in T : DOMAIN Clamp(Rule(f), scene[f]) # DOMAIN Clamp(Rule(f), wanted[f])}
  BY DEF RecallScene, Command, Rule, LightInv
<1>2. DOMAIN ask = T /\ DOMAIN tell = T /\ \A f \in T : ask[f] = Clamp(Rule(f), scene[f]) /\ tell[f] = Clamp(Rule(f), wanted[f])
  OBVIOUS
<1>3. want' = [f \in DOMAIN want |-> IF f \in DOMAIN ask THEN Over(want[f], tell[f]) ELSE want[f]]
  BY <1>1
<1>4. \A f \in T :
        /\ DOMAIN scene[f] \subseteq Parameters
        /\ "intensity" \in DOMAIN wanted[f] /\ DOMAIN wanted[f] \subseteq DOMAIN scene[f]
        /\ \A q \in DOMAIN wanted[f] : scene[f][q] = wanted[f][q] /\ wanted[f][q] \in Int
  BY DEF LightInv, SceneInv, RecallScene
<1>5. DOMAIN ask \subseteq DOMAIN cur /\ T \subseteq DOMAIN cur
  OBVIOUS
<1>6. \A f \in T : f \notin odd' => DOMAIN ask[f] = DOMAIN tell[f]
  BY <1>1, <1>2
<1>7. odd \subseteq odd'
  BY <1>1
<1> HIDE DEF T, ask, tell
<1>8. ASSUME NEW r, NEW s, DOMAIN s \subseteq Parameters
      PROVE  DOMAIN Clamp(r, s) \subseteq Params(r) /\ \A q \in DOMAIN Clamp(r, s) : Clamp(r, s)[q] \in Span(r, q)
  <2>1. DOMAIN Clamp(r, s) = {q \in DOMAIN s : s[q] # NaN /\ (q = "cct" => Kelvin(r) # {})}
    BY ClampIs
  <2> QED
    BY <2>1, <1>8, ClampIs DEF Params
<1>9. \A f \in T :
        /\ DOMAIN ask[f] \subseteq Params(Rule(f)) /\ \A q \in DOMAIN ask[f] : ask[f][q] \in Span(Rule(f), q)
        /\ DOMAIN tell[f] \subseteq Params(Rule(f)) /\ \A q \in DOMAIN tell[f] : tell[f][q] \in Span(Rule(f), q)
  <2> SUFFICES ASSUME NEW f \in T
               PROVE  /\ DOMAIN ask[f] \subseteq Params(Rule(f)) /\ \A q \in DOMAIN ask[f] : ask[f][q] \in Span(Rule(f), q)
                      /\ DOMAIN tell[f] \subseteq Params(Rule(f)) /\ \A q \in DOMAIN tell[f] : tell[f][q] \in Span(Rule(f), q)
    OBVIOUS
  <2>1. DOMAIN scene[f] \subseteq Parameters /\ DOMAIN wanted[f] \subseteq Parameters
    BY <1>4
  <2> QED
    BY <2>1, <1>2, <1>8
<1>10. ASSUME NEW f \in T, NEW q \in Sure(f)'
       PROVE  /\ q \in DOMAIN ask[f] <=> q \in DOMAIN tell[f]
              /\ q \in DOMAIN ask[f] => ask[f][q] = tell[f][q]
  <2>1. /\ DOMAIN ask[f] = {x \in DOMAIN scene[f] : scene[f][x] # NaN /\ (x = "cct" => Kelvin(Rule(f)) # {})}
        /\ \A x \in DOMAIN ask[f] : ask[f][x] = Within(scene[f][x], Span(Rule(f), x))
    <3>1. ask[f] = Clamp(Rule(f), scene[f])
      BY <1>2
    <3>2. DOMAIN Clamp(Rule(f), scene[f]) = {x \in DOMAIN scene[f] : scene[f][x] # NaN /\ (x = "cct" => Kelvin(Rule(f)) # {})}
      BY ClampIs
    <3>3. \A x \in DOMAIN Clamp(Rule(f), scene[f]) : Clamp(Rule(f), scene[f])[x] = Within(scene[f][x], Span(Rule(f), x))
      BY ClampIs
    <3> QED
      BY <3>1, <3>2, <3>3
  <2>2. /\ DOMAIN tell[f] = {x \in DOMAIN wanted[f] : wanted[f][x] # NaN /\ (x = "cct" => Kelvin(Rule(f)) # {})}
        /\ \A x \in DOMAIN tell[f] : tell[f][x] = Within(wanted[f][x], Span(Rule(f), x))
    <3>1. tell[f] = Clamp(Rule(f), wanted[f])
      BY <1>2
    <3>2. DOMAIN Clamp(Rule(f), wanted[f]) = {x \in DOMAIN wanted[f] : wanted[f][x] # NaN /\ (x = "cct" => Kelvin(Rule(f)) # {})}
      BY ClampIs
    <3>3. \A x \in DOMAIN Clamp(Rule(f), wanted[f]) : Clamp(Rule(f), wanted[f])[x] = Within(wanted[f][x], Span(Rule(f), x))
      BY ClampIs
    <3> QED
      BY <3>1, <3>2, <3>3
  <2>3. q \in Parameters /\ (q = "cct" => f \notin odd')
    BY <1>10 DEF Sure, Params
  <2>4. ASSUME q = "intensity" PROVE q \in DOMAIN ask[f] <=> q \in DOMAIN tell[f]
    <3>1. q \in DOMAIN wanted[f] /\ q \in DOMAIN scene[f] /\ wanted[f][q] # NaN
      BY <2>4, <1>4, LightingAssumption DEF NaN
    <3> QED
      BY <3>1, <2>1, <2>2, <2>4, <1>4
  <2>5. ASSUME q = "cct" PROVE q \in DOMAIN ask[f] <=> q \in DOMAIN tell[f]
    BY <2>3, <2>5, <1>6
  <2>6. q \in DOMAIN ask[f] <=> q \in DOMAIN tell[f]
    BY <2>3, <2>4, <2>5 DEF Parameters
  <2>7. ASSUME q \in DOMAIN ask[f] PROVE ask[f][q] = tell[f][q]
    <3>1. ask[f][q] = Within(scene[f][q], Span(Rule(f), q))
      BY <2>7, <2>1
    <3>2. tell[f][q] = Within(wanted[f][q], Span(Rule(f), q))
      BY <2>6, <2>7, <2>2
    <3>3. scene[f][q] = wanted[f][q]
      BY <2>2, <2>6, <2>7, <1>4
    <3> QED
      BY <3>1, <3>2, <3>3
  <2> QED
    BY <2>6, <2>7
<1> QED
  BY <1>1, <1>2, <1>3, <1>5, <1>7, <1>9, <1>10, ChangedKeeps

(* saveScene saves where the lights are heading, which is where they were told. *)
LEMMA TargetsIs ==
    ASSUME LightInv, up = TRUE
    PROVE  /\ DOMAIN Targets = DOMAIN cur
           /\ \A f \in DOMAIN cur :
                /\ DOMAIN Targets[f] \subseteq Parameters
                /\ \A q \in Sure(f) : q \in DOMAIN Targets[f] /\ Targets[f][q] = want[f][q]
<1>1. DOMAIN Targets = DOMAIN cur
  BY DEF Targets
<1>2. ASSUME NEW f \in DOMAIN cur
      PROVE  /\ DOMAIN Targets[f] = DOMAIN cur[f] \cup {q \in {"cct"} : <<f, q>> \in DOMAIN fades}
             /\ \A q \in DOMAIN Targets[f] : Targets[f][q] = Heading(f, q)
  BY DEF Targets
<1>3. ASSUME NEW f \in DOMAIN cur PROVE DOMAIN Targets[f] \subseteq Parameters
  <2>1. DOMAIN cur[f] \subseteq Parameters
    BY DEF LightInv, CurInv
  <2> QED
    BY <2>1, <1>2 DEF Parameters
<1>4. ASSUME NEW f \in DOMAIN cur, NEW q \in Sure(f)
      PROVE  q \in DOMAIN Targets[f] /\ Targets[f][q] = want[f][q]
  <2>1. q \in DOMAIN cur[f] /\ Heading(f, q) = want[f][q]
    BY Up
  <2> QED
    BY <1>2, <2>1
<1> QED
  BY <1>1, <1>3, <1>4

LEMMA SaveSceneKeeps == ASSUME LightInv, SaveScene PROVE LightInv'
<1>1. up = TRUE /\ scene' = Targets /\ wanted' = [f \in DOMAIN want |-> [q \in Told(f) |-> want[f][q]]]
  BY DEF SaveScene, LightInv
<1>2. UNCHANGED <<up, patch, custom, cur, fades, known, saving, disk, want, odd, patched>>
  BY DEF SaveScene, engine
<1>3. SceneInv'
  <2>1. DOMAIN wanted' = DOMAIN scene'
    BY <1>1, Up, TargetsIs
  <2>2. ASSUME NEW f \in DOMAIN scene'
        PROVE  /\ DOMAIN scene'[f] \subseteq Parameters
               /\ "intensity" \in DOMAIN wanted'[f] /\ DOMAIN wanted'[f] \subseteq DOMAIN scene'[f]
               /\ \A q \in DOMAIN wanted'[f] : scene'[f][q] = wanted'[f][q] /\ wanted'[f][q] \in Int
    <3>1. f \in DOMAIN cur /\ f \in DOMAIN want /\ Told(f) = Sure(f) /\ "intensity" \in Sure(f)
      BY <1>1, <2>2, Up, TargetsIs
    <3>2. DOMAIN wanted'[f] = Sure(f) /\ \A q \in Sure(f) : wanted'[f][q] = want[f][q] /\ want[f][q] \in Int
      BY <1>1, <3>1, Up
    <3>3. DOMAIN Targets[f] \subseteq Parameters /\ \A q \in Sure(f) : q \in DOMAIN Targets[f] /\ Targets[f][q] = want[f][q]
      BY <1>1, <3>1, TargetsIs
    <3> QED
      BY <1>1, <3>1, <3>2, <3>3
  <2> QED
    BY <2>1, <2>2 DEF SceneInv
<1> QED
  BY <1>2, <1>3 DEF LightInv, WantInv, DiskInv, CurInv, Told, Sure, Params, Rule, Reborn, Heading

-----------------------------------------------------------------------------
(* Time *)

(* A fade's last step is its destination. *)
LEMMA PositionIs ==
    ASSUME NEW fade, fade.from \in Int, fade.to \in Int, fade.left \in Int
    PROVE  Position(fade) \in Int /\ (fade.left = 0 => Position(fade) = fade.to)
<1>1. FadeTicks \in Int /\ FadeTicks > 0 /\ fade.from # NaN
  BY LightingAssumption DEF NaN
<1>2. \A x \in Int : x \div FadeTicks \in Int
  BY <1>1
<1>3. \A x \in Int : (x * FadeTicks) \div FadeTicks = x
  BY <1>1
<1>4. Position(fade) = fade.from + ((fade.to - fade.from) * (FadeTicks - fade.left)) \div FadeTicks
  BY <1>1 DEF Position
<1>5. Position(fade) \in Int
  <2>1. (fade.to - fade.from) * (FadeTicks - fade.left) \in Int
    BY <1>1
  <2> QED
    BY <1>2, <1>4, <2>1
<1>6. ASSUME fade.left = 0 PROVE Position(fade) = fade.to
  <2>1. FadeTicks - fade.left = FadeTicks
    BY <1>1, <1>6
  <2>2. ((fade.to - fade.from) * FadeTicks) \div FadeTicks = fade.to - fade.from
    BY <1>3
  <2> QED
    BY <1>4, <2>1, <2>2
<1> QED
  BY <1>5, <1>6

(* A tick moves the lights and ends fades, and changes no destination. *)
LEMMA TickKeeps == ASSUME LightInv, Tick PROVE LightInv'
<1> DEFINE moved == [k \in DOMAIN fades |-> [fades[k] EXCEPT !.left = @ - 1]]
           over == {k \in DOMAIN fades : moved[k].left = 0}
           step(f) == [q \in {q \in Parameters : <<f, q>> \in DOMAIN fades} |-> Position(moved[<<f, q>>])]
<1>1. /\ up = TRUE /\ fades' = Without(moved, over)
      /\ cur' = [f \in DOMAIN cur |-> Over(cur[f], step(f))]
      /\ UNCHANGED <<up, patch, custom, known, saving, scene, disk, want, wanted, odd, patched>>
  BY DEF Tick, store, told, LightInv
<1>2. ASSUME NEW k \in DOMAIN fades
      PROVE  /\ DOMAIN moved[k] = {"from", "to", "left"}
             /\ moved[k].from = fades[k].from /\ moved[k].to = fades[k].to /\ moved[k].left = fades[k].left - 1
  <2>1. DOMAIN fades[k] = {"from", "to", "left"}
    BY <1>1 DEF LightInv, CurInv
  <2> QED
    BY <2>1
<1>3. /\ DOMAIN fades' = DOMAIN fades \ over
      /\ \A k \in DOMAIN fades' : fades'[k] = moved[k]
  BY <1>1 DEF Without
<1>4. \A f \in DOMAIN cur :
        /\ DOMAIN step(f) = {q \in Parameters : <<f, q>> \in DOMAIN fades}
        /\ \A q \in DOMAIN step(f) : step(f)[q] = Position(moved[<<f, q>>])
  OBVIOUS
<1>5. \A k \in DOMAIN fades : k \in over <=> moved[k].left = 0
  OBVIOUS
<1> HIDE DEF moved, over, step
<1>6. ASSUME NEW f \in DOMAIN cur
      PROVE  /\ DOMAIN cur'[f] = DOMAIN cur[f] \cup DOMAIN step(f)
             /\ \A q \in DOMAIN cur'[f] : cur'[f][q] = IF q \in DOMAIN step(f) THEN step(f)[q] ELSE cur[f][q]
  <2>1. cur'[f] = Over(cur[f], step(f))
    BY <1>1
  <2>2. DOMAIN Over(cur[f], step(f)) = DOMAIN cur[f] \cup DOMAIN step(f)
    BY OverIs
  <2>3. \A q \in DOMAIN Over(cur[f], step(f)) :
          Over(cur[f], step(f))[q] = IF q \in DOMAIN step(f) THEN step(f)[q] ELSE cur[f][q]
    BY OverIs
  <2> QED
    BY <2>1, <2>2, <2>3
<1>7. DOMAIN cur' = DOMAIN cur /\ DOMAIN cur' = DOMAIN want'
  BY <1>1, Up
<1>8. \A k \in DOMAIN fades' :
        /\ \E f \in DOMAIN cur', q \in Parameters : k = <<f, q>>
        /\ DOMAIN fades'[k] = {"from", "to", "left"}
  <2>1. \A k \in DOMAIN fades : \E f \in DOMAIN cur, q \in Parameters : k = <<f, q>>
    BY <1>1 DEF LightInv, CurInv
  <2> QED
    BY <2>1, <1>2, <1>3, <1>7
<1>9. \A f : Sure(f)' = Sure(f) /\ Rule(f)' = Rule(f) /\ Sure(f) \subseteq Parameters
  BY <1>1 DEF Sure, Params, Rule
<1>10. ASSUME NEW f \in DOMAIN cur
       PROVE  /\ DOMAIN cur'[f] \subseteq Parameters
              /\ f \notin odd /\ Kelvin(Rule(f)) = {} => "cct" \notin DOMAIN cur'[f] /\ <<f, "cct">> \notin DOMAIN fades'
  <2>1. /\ DOMAIN cur[f] \subseteq Parameters
        /\ f \notin odd /\ Kelvin(Rule(f)) = {} => "cct" \notin DOMAIN cur[f] /\ <<f, "cct">> \notin DOMAIN fades
    BY <1>1 DEF LightInv, CurInv
  <2> QED
    BY <2>1, <1>3, <1>4, <1>6
<1>11. ASSUME NEW f \in DOMAIN cur, NEW q \in Sure(f)
       PROVE  /\ q \in DOMAIN cur'[f] /\ cur'[f][q] \in Int /\ Heading(f, q)' = want[f][q]
              /\ <<f, q>> \in DOMAIN fades' =>
                   fades'[<<f, q>>].from \in Int /\ fades'[<<f, q>>].left \in 1..FadeTicks
  <2>1. /\ q \in DOMAIN cur[f] /\ cur[f][q] \in Int /\ Heading(f, q) = want[f][q] /\ want[f][q] \in Int
        /\ <<f, q>> \in DOMAIN fades =>
             fades[<<f, q>>].from \in Int /\ fades[<<f, q>>].left \in 1..FadeTicks
    BY <1>1, Up DEF LightInv, CurInv
  <2>2. Heading(f, q) = IF <<f, q>> \in DOMAIN fades THEN fades[<<f, q>>].to ELSE cur[f][q]
    BY <2>1 DEF Heading
  <2>3. q \in DOMAIN cur'[f]
    BY <2>1, <1>6
  <2>4. Heading(f, q)' = IF <<f, q>> \in DOMAIN fades' THEN fades'[<<f, q>>].to ELSE cur'[f][q]
    BY <2>3 DEF Heading
  <2>5. CASE <<f, q>> \notin DOMAIN fades
    BY <2>1, <2>2, <2>3, <2>4, <2>5, <1>3, <1>4, <1>6
  <2>6. CASE <<f, q>> \in DOMAIN fades
    <3> DEFINE fade == moved[<<f, q>>]
    <3>1. fade.from \in Int /\ fade.to = want[f][q] /\ fade.to \in Int /\ fade.left \in 0..FadeTicks
      BY <2>1, <2>2, <2>6, <1>2, LightingAssumption
    <3>2. cur'[f][q] = Position(fade)
      BY <2>3, <2>6, <1>4, <1>6, <1>9
    <3>3. Position(fade) \in Int /\ (fade.left = 0 => Position(fade) = fade.to)
      BY <3>1, PositionIs
    <3>4. <<f, q>> \in DOMAIN fades' <=> fade.left # 0
      BY <2>6, <1>3, <1>5
    <3>5. <<f, q>> \in DOMAIN fades' => fades'[<<f, q>>] = fade
      BY <1>3
    <3> HIDE DEF fade
    <3> QED
      BY <2>3, <2>4, <3>1, <3>2, <3>3, <3>4, <3>5, LightingAssumption
  <2> QED
    BY <2>5, <2>6
<1>12. CurInv'
  BY <1>1, <1>7, <1>8, <1>9, <1>10, <1>11 DEF CurInv
<1> QED
  BY <1>1, <1>12 DEF LightInv, WantInv, SceneInv, DiskInv, Told, Sure, Params, Rule, Reborn

-----------------------------------------------------------------------------
(* The patch changes *)

(* configure: a fixture that stays keeps what it was told as far as its profile has it,
   and a colour that is not sure any more is excepted. *)
LEMMA ReloadKeeps == ASSUME LightInv, up = TRUE, NEW p, NEW d, Reload(p, d) PROVE LightInv'
<1> DEFINE use == InUse(p, d)
           r(f) == ProfileOf(p, d, f)
           under(f) == <<f, "cct">> \in DOMAIN fades /\ r(f) # Rule(f)
           gone == {k \in DOMAIN fades : k[1] \notin use}
<1>1. /\ patch' = p /\ custom' = d /\ patched' = TRUE /\ up' = TRUE
      /\ cur' = [f \in use |-> IF f \in DOMAIN cur THEN Clamp(r(f), cur[f]) ELSE Default(r(f))]
      /\ want' = [f \in use |-> IF f \in DOMAIN cur THEN Clamp(r(f), want[f]) ELSE Default(r(f))]
      /\ fades' = Without(fades, gone)
      /\ odd' = (odd \cap use) \cup {f \in use : f \in DOMAIN cur /\ (Lacks(r(f), cur[f]) \/ under(f))}
      /\ UNCHANGED <<known, saving, scene, disk, wanted>>
  BY DEF Reload, Rule, store
<1>2. DOMAIN fades' = DOMAIN fades \ gone /\ \A k \in DOMAIN fades' : fades'[k] = fades[k]
  BY <1>1 DEF Without
<1>3. /\ \A f : Rule(f)' = r(f)
      /\ \A f : Sure(f)' = {q \in Parameters : q = "cct" => Kelvin(r(f)) # {} /\ f \notin odd'}
      /\ InUse(patch, custom)' = use
  BY <1>1 DEF Rule, Sure, Params
<1>4. DOMAIN cur' = use /\ DOMAIN want' = use
  BY <1>1
<1>5. /\ \A f \in use \cap DOMAIN cur : cur'[f] = Clamp(r(f), cur[f]) /\ want'[f] = Clamp(r(f), want[f])
      /\ \A f \in use \ DOMAIN cur : cur'[f] = Default(r(f)) /\ want'[f] = Default(r(f))
      /\ \A f \in use \cap DOMAIN cur : f \notin odd' => f \notin odd /\ ~Lacks(r(f), cur[f]) /\ ~under(f)
      /\ \A f : f \in odd' => f \in use
  BY <1>1
<1>6. \A k \in DOMAIN fades' : k[1] \in use /\ k \in DOMAIN fades
  BY <1>2
<1>6a. \A k \in DOMAIN fades : k[1] \in use => k \in DOMAIN fades'
  BY <1>2
<1>6b. \A f : ~under(f) /\ <<f, "cct">> \in DOMAIN fades => r(f) = Rule(f)
  OBVIOUS
<1> HIDE DEF use, r, gone, under
(* What is told and where the light heads, for a parameter that counts afterwards *)
<1>7. ASSUME NEW f \in use \cap DOMAIN cur, NEW q \in Sure(f)'
      PROVE  /\ q \in Sure(f)
             /\ want[f][q] \in Span(r(f), q) \/ <<f, q>> \notin DOMAIN fades
             /\ <<f, q>> \in DOMAIN fades => want[f][q] \in Span(r(f), q)
  <2>1. CASE q = "intensity"
    <3>1. q \in Sure(f)
      BY <2>1, Up
    <3>2. want[f][q] \in Span(Rule(f), q) /\ Span(Rule(f), q) = Span(r(f), q)
      BY <2>1, <3>1, Up DEF Span
    <3> QED
      BY <3>1, <3>2
  <2>2. CASE q = "cct"
    <3>1. Kelvin(r(f)) # {} /\ f \notin odd' /\ f \notin odd /\ ~Lacks(r(f), cur[f]) /\ ~under(f)
      BY <1>3, <1>5, <1>7, <2>2
    <3>2. "cct" \in DOMAIN cur[f]
      BY <3>1 DEF Lacks
    <3>3. Kelvin(Rule(f)) # {}
      BY <3>1, <3>2 DEF LightInv, CurInv
    <3>4. q \in Sure(f)
      BY <2>2, <3>1, <3>3 DEF Sure, Params, Parameters
    <3>5. want[f][q] \in Span(Rule(f), q)
      BY <3>4, Up
    <3> QED
      BY <2>2, <3>1, <3>4, <3>5, <1>6b
  <2> QED
    BY <1>3, <1>7, <2>1, <2>2 DEF Parameters
<1>8. ASSUME NEW f \in use \cap DOMAIN cur
      PROVE  /\ DOMAIN cur'[f] = {q \in DOMAIN cur[f] : cur[f][q] # NaN /\ (q = "cct" => Kelvin(r(f)) # {})}
             /\ \A q \in DOMAIN cur'[f] : cur'[f][q] = Within(cur[f][q], Span(r(f), q)) /\ cur'[f][q] \in Span(r(f), q)
             /\ DOMAIN want'[f] = {q \in DOMAIN want[f] : want[f][q] # NaN /\ (q = "cct" => Kelvin(r(f)) # {})}
             /\ \A q \in DOMAIN want'[f] :
                  /\ want'[f][q] = Within(want[f][q], Span(r(f), q)) /\ want'[f][q] \in Span(r(f), q)
                  /\ want[f][q] \in Span(r(f), q) => want'[f][q] = want[f][q]
  <2>1. cur'[f] = Clamp(r(f), cur[f]) /\ want'[f] = Clamp(r(f), want[f])
    BY <1>5
  <2>2. /\ DOMAIN Clamp(r(f), cur[f]) = {q \in DOMAIN cur[f] : cur[f][q] # NaN /\ (q = "cct" => Kelvin(r(f)) # {})}
        /\ \A q \in DOMAIN Clamp(r(f), cur[f]) :
             Clamp(r(f), cur[f])[q] = Within(cur[f][q], Span(r(f), q)) /\ Clamp(r(f), cur[f])[q] \in Span(r(f), q)
    BY ClampIs
  <2>3. /\ DOMAIN Clamp(r(f), want[f]) = {q \in DOMAIN want[f] : want[f][q] # NaN /\ (q = "cct" => Kelvin(r(f)) # {})}
        /\ \A q \in DOMAIN Clamp(r(f), want[f]) :
             /\ Clamp(r(f), want[f])[q] = Within(want[f][q], Span(r(f), q)) /\ Clamp(r(f), want[f])[q] \in Span(r(f), q)
             /\ want[f][q] \in Span(r(f), q) => Clamp(r(f), want[f])[q] = want[f][q]
    <3>1. DOMAIN Clamp(r(f), want[f]) = {q \in DOMAIN want[f] : want[f][q] # NaN /\ (q = "cct" => Kelvin(r(f)) # {})}
      BY ClampIs
    <3>2. \A q \in DOMAIN Clamp(r(f), want[f]) : Clamp(r(f), want[f])[q] = Within(want[f][q], Span(r(f), q))
      BY ClampIs
    <3>4. \A q \in DOMAIN Clamp(r(f), want[f]) : Clamp(r(f), want[f])[q] \in Span(r(f), q)
      BY ClampIs
    <3>3. \A q \in DOMAIN Clamp(r(f), want[f]) :
            want[f][q] \in Span(r(f), q) => Clamp(r(f), want[f])[q] = want[f][q]
      <4> SUFFICES ASSUME NEW q \in DOMAIN Clamp(r(f), want[f]), want[f][q] \in Span(r(f), q)
                   PROVE  Clamp(r(f), want[f])[q] = want[f][q]
        OBVIOUS
      <4>1. Within(want[f][q], Span(r(f), q)) = want[f][q]
        BY WithinIs
      <4> QED
        BY <3>2, <4>1
    <3> QED
      BY <3>1, <3>2, <3>3, <3>4
  <2> QED
    BY <2>1, <2>2, <2>3
<1>9. ASSUME NEW f \in use \ DOMAIN cur
      PROVE  /\ DOMAIN cur'[f] = Params(r(f)) /\ want'[f] = cur'[f]
             /\ \A q \in Params(r(f)) : cur'[f][q] \in Span(r(f), q)
             /\ \A q : <<f, q>> \notin DOMAIN fades'
  <2>1. cur'[f] = Default(r(f)) /\ want'[f] = Default(r(f))
    BY <1>5
  <2>2. \A q : <<f, q>> \notin DOMAIN fades
    BY <1>9 DEF LightInv, CurInv
  <2> QED
    BY <2>1, <2>2, <1>6, DefaultIs
<1>10. \A f : /\ Params(r(f)) \subseteq Parameters /\ "intensity" \in Params(r(f))
              /\ Params(r(f)) = {q \in Parameters : q = "cct" => Kelvin(r(f)) # {}}
  BY DEF Params, Parameters
<1>11. WantInv'
  <2>1. ASSUME NEW f \in use
        PROVE  /\ DOMAIN want'[f] \subseteq Params(r(f)) /\ "intensity" \in DOMAIN want'[f]
               /\ \A q \in DOMAIN want'[f] : want'[f][q] \in Span(r(f), q)
               /\ Sure(f)' \subseteq DOMAIN want'[f]
    <3>1. CASE f \in DOMAIN cur
      <4>1. "intensity" \in DOMAIN want[f] /\ want[f]["intensity"] # NaN /\ DOMAIN want[f] \subseteq Parameters
        BY <3>1, Up DEF LightInv, WantInv
      <4>2. DOMAIN want'[f] \subseteq Params(r(f)) /\ "intensity" \in DOMAIN want'[f]
        BY <4>1, <3>1, <2>1, <1>8, <1>10
      <4>3. ASSUME NEW q \in Sure(f)' PROVE q \in DOMAIN want'[f]
        <5>1. q \in Sure(f) /\ (q = "cct" => Kelvin(r(f)) # {})
          BY <1>7, <1>3, <2>1, <3>1, <4>3
        <5>2. q \in DOMAIN want[f] /\ want[f][q] # NaN
          BY <5>1, <3>1, Up
        <5> QED
          BY <5>1, <5>2, <1>8, <2>1, <3>1
      <4> QED
        BY <4>2, <4>3, <1>8, <2>1, <3>1
    <3>2. CASE f \notin DOMAIN cur
      BY <2>1, <3>2, <1>3, <1>9, <1>10
    <3> QED
      BY <3>1, <3>2
  <2>2. ASSUME NEW f \in use
        PROVE  Told(f)' = Sure(f)'
    <3>1. Told(f)' = {q \in DOMAIN want'[f] : q = "cct" => f \notin odd'}
      BY DEF Told
    <3> QED
      BY <2>1, <2>2, <3>1, <1>3, <1>10
  <2> QED
    BY <2>1, <2>2, <1>3, <1>4, <1>10 DEF WantInv, Told
<1>12. CurInv'
  <2>1. ASSUME NEW k \in DOMAIN fades'
        PROVE  /\ \E f \in DOMAIN cur', q \in Parameters : k = <<f, q>>
               /\ DOMAIN fades'[k] = {"from", "to", "left"}
    <3>1. k \in DOMAIN fades /\ fades'[k] = fades[k] /\ k[1] \in use
      BY <1>2, <1>6, <2>1
    <3>2. PICK f \in DOMAIN cur, q \in Parameters : k = <<f, q>>
      BY <3>1 DEF LightInv, CurInv
    <3>3. DOMAIN fades[k] = {"from", "to", "left"}
      BY <3>1 DEF LightInv, CurInv
    <3> QED
      BY <3>1, <3>2, <3>3, <1>4
  <2>2. ASSUME NEW f \in use
        PROVE  /\ DOMAIN cur'[f] \subseteq Parameters
               /\ f \notin odd' /\ Kelvin(r(f)) = {} => "cct" \notin DOMAIN cur'[f] /\ <<f, "cct">> \notin DOMAIN fades'
    <3>1. CASE f \in DOMAIN cur
      <4>1. /\ DOMAIN cur[f] \subseteq Parameters
            /\ f \notin odd /\ Kelvin(Rule(f)) = {} => <<f, "cct">> \notin DOMAIN fades
        BY <3>1 DEF LightInv, CurInv
      <4>2. DOMAIN cur'[f] \subseteq Parameters
        BY <4>1, <3>1, <2>2, <1>8
      <4>3. ASSUME f \notin odd', Kelvin(r(f)) = {} PROVE "cct" \notin DOMAIN cur'[f] /\ <<f, "cct">> \notin DOMAIN fades'
        <5>1. "cct" \notin DOMAIN cur'[f]
          BY <4>3, <3>1, <2>2, <1>8
        <5>2. <<f, "cct">> \in DOMAIN fades => r(f) = Rule(f) /\ f \notin odd
          BY <4>3, <3>1, <2>2, <1>5, <1>6b
        <5>3. <<f, "cct">> \notin DOMAIN fades
          BY <5>2, <4>1, <4>3
        <5> QED
          BY <5>1, <5>3, <1>6
      <4> QED
        BY <4>2, <4>3
    <3>2. CASE f \notin DOMAIN cur
      BY <2>2, <3>2, <1>9, <1>10
    <3> QED
      BY <3>1, <3>2
  <2>3. ASSUME NEW f \in use, NEW q \in Sure(f)'
        PROVE  /\ q \in DOMAIN cur'[f] /\ cur'[f][q] \in Int /\ Heading(f, q)' = want'[f][q]
               /\ <<f, q>> \in DOMAIN fades' =>
                    fades'[<<f, q>>].from \in Int /\ fades'[<<f, q>>].left \in 1..FadeTicks
    <3>0. q \in DOMAIN cur'[f] =>
            Heading(f, q)' = IF <<f, q>> \in DOMAIN fades' THEN fades'[<<f, q>>].to ELSE cur'[f][q]
      BY DEF Heading
    <3>00. q = "cct" => Kelvin(r(f)) # {}
      BY <1>3, <2>3
    <3>1. CASE f \in DOMAIN cur
      <4>1. q \in Sure(f) /\ (<<f, q>> \in DOMAIN fades => want[f][q] \in Span(r(f), q))
        BY <1>7, <2>3, <3>1
      <4>2. /\ q \in DOMAIN cur[f] /\ cur[f][q] \in Int /\ Heading(f, q) = want[f][q]
            /\ <<f, q>> \in DOMAIN fades => fades[<<f, q>>].from \in Int /\ fades[<<f, q>>].left \in 1..FadeTicks
        BY <3>1, <4>1 DEF LightInv, CurInv
      <4>3. q \in DOMAIN want[f] /\ want[f][q] # NaN
        BY <3>1, <4>1, Up
      <4>4. Heading(f, q) = IF <<f, q>> \in DOMAIN fades THEN fades[<<f, q>>].to ELSE cur[f][q]
        BY <4>2 DEF Heading
      <4>5. cur[f][q] # NaN
        BY <4>2, LightingAssumption DEF NaN
      <4>6. q \in DOMAIN cur'[f] /\ q \in DOMAIN want'[f]
        BY <3>00, <4>2, <4>3, <4>5, <1>8, <2>3, <3>1
      <4>7. cur'[f][q] \in Int
        BY <4>6, <1>8, <2>3, <3>1, SpanIs
      <4>8. CASE <<f, q>> \in DOMAIN fades
        <5>1. <<f, q>> \in DOMAIN fades' /\ fades'[<<f, q>>] = fades[<<f, q>>]
          BY <4>8, <1>2, <1>6a, <2>3
        <5>2. want'[f][q] = want[f][q]
          BY <4>1, <4>6, <4>8, <1>8, <2>3, <3>1
        <5> QED
          BY <3>0, <4>2, <4>4, <4>6, <4>7, <4>8, <5>1, <5>2
      <4>9. CASE <<f, q>> \notin DOMAIN fades
        <5>1. <<f, q>> \notin DOMAIN fades'
          BY <4>9, <1>6
        <5>2. cur[f][q] = want[f][q]
          BY <4>2, <4>4, <4>9
        <5>3. cur'[f][q] = want'[f][q]
          BY <4>6, <5>2, <1>8, <2>3, <3>1
        <5> QED
          BY <3>0, <4>6, <4>7, <5>1, <5>3
      <4> QED
        BY <4>8, <4>9
    <3>2. CASE f \notin DOMAIN cur
      <4>1. q \in Params(r(f))
        BY <1>3, <1>10, <2>3
      <4>2. q \in DOMAIN cur'[f] /\ cur'[f][q] \in Int /\ want'[f] = cur'[f] /\ <<f, q>> \notin DOMAIN fades'
        BY <4>1, <3>2, <2>3, <1>9, SpanIs
      <4> QED
        BY <3>0, <4>2
    <3> QED
      BY <3>1, <3>2
  <2> QED
    BY <2>1, <2>2, <2>3, <1>3, <1>4 DEF CurInv
<1>13. SceneInv'
  BY <1>1 DEF LightInv, SceneInv
<1>14. DiskInv'
  BY <1>1 DEF LightInv, DiskInv
<1> QED
  BY <1>1, <1>11, <1>12, <1>13, <1>14 DEF LightInv

-----------------------------------------------------------------------------
(* Saving, stopping and starting *)

(* What is saved while the program runs is what a start would restore. *)
LEMMA SavedIs ==
    ASSUME LightInv, up = TRUE, disk' = Targets, UNCHANGED <<patch, custom, want, odd>>
    PROVE  /\ \A f \in DOMAIN disk' :
                DOMAIN disk'[f] \subseteq Parameters /\ ("intensity" \in DOMAIN disk'[f] => disk'[f]["intensity"] # NaN)
           /\ \A f \in DOMAIN want' : \A q \in Told(f)' : q \in DOMAIN Reborn'[f] /\ Reborn'[f][q] = want'[f][q]
<1>1. ASSUME NEW f \in DOMAIN disk'
      PROVE  DOMAIN disk'[f] \subseteq Parameters /\ disk'[f]["intensity"] # NaN
  <2>1. f \in DOMAIN cur /\ "intensity" \in Sure(f)
    BY <1>1, Up, TargetsIs
  <2>2. DOMAIN Targets[f] \subseteq Parameters /\ Targets[f]["intensity"] = want[f]["intensity"]
    BY <2>1, TargetsIs
  <2>3. want[f]["intensity"] # NaN
    BY <2>1, Up
  <2> QED
    BY <2>2, <2>3
<1>2. ASSUME NEW f \in DOMAIN want', NEW q \in Told(f)'
      PROVE  q \in DOMAIN Reborn'[f] /\ Reborn'[f][q] = want'[f][q]
  <2> DEFINE s == Over(Default(Rule(f)), Targets[f])
  <2>1. f \in DOMAIN cur /\ f \in InUse(patch, custom) /\ q \in Sure(f)
    BY <1>2, Up DEF Told
  <2>2. Reborn'[f] = Clamp(Rule(f), s)
    BY <2>1, Up, TargetsIs DEF Reborn, Restored, Rule
  <2>3. q \in DOMAIN Targets[f] /\ Targets[f][q] = want[f][q]
    BY <2>1, TargetsIs
  <2>4. q \in DOMAIN s /\ s[q] = want[f][q]
    <3>1. DOMAIN s = DOMAIN Default(Rule(f)) \cup DOMAIN Targets[f]
      BY OverIs
    <3>2. \A x \in DOMAIN s : s[x] = IF x \in DOMAIN Targets[f] THEN Targets[f][x] ELSE Default(Rule(f))[x]
      BY OverIs
    <3> HIDE DEF s
    <3> QED
      BY <3>1, <3>2, <2>3
  <2> HIDE DEF s
  <2>5. want[f][q] \in Span(Rule(f), q) /\ want[f][q] # NaN
    BY <2>1, Up
  <2>6. q = "cct" => Kelvin(Rule(f)) # {}
    BY <2>1 DEF Sure, Params
  <2>7. DOMAIN Clamp(Rule(f), s) = {x \in DOMAIN s : s[x] # NaN /\ (x = "cct" => Kelvin(Rule(f)) # {})}
    BY ClampIs
  <2>8. q \in DOMAIN Clamp(Rule(f), s)
    BY <2>4, <2>5, <2>6, <2>7
  <2>9. Clamp(Rule(f), s)[q] = want[f][q]
    <3>1. s[q] \in Span(Rule(f), q)
      BY <2>4, <2>5
    <3> QED
      BY <2>4, <2>8, <3>1, ClampKeeps
  <2> QED
    BY <2>2, <2>8, <2>9
<1> QED
  BY <1>1, <1>2

LEMMA SaveTimerKeeps == ASSUME LightInv, SaveTimer PROVE LightInv'
<1>1. /\ up = TRUE /\ disk' = Targets /\ saving' = FALSE /\ patched' = FALSE
      /\ UNCHANGED <<up, patch, custom, cur, fades, known, scene, want, wanted, odd>>
  BY DEF SaveTimer, Saved, engine, LightInv, DiskInv
<1>2. WantInv'
  <2>1. \A f \in DOMAIN want : Told(f)' = Told(f) /\ Sure(f)' = Sure(f) /\ Rule(f)' = Rule(f) /\ Told(f) = Sure(f)
    BY <1>1, Up DEF Told, Sure, Params, Rule
  <2> QED
    BY <2>1, <1>1 DEF LightInv, WantInv
<1>3. CurInv'
  BY <1>1 DEF LightInv, CurInv, Sure, Params, Rule, Heading
<1>4. SceneInv'
  BY <1>1 DEF LightInv, SceneInv
<1>5. DiskInv'
  BY <1>1, SavedIs DEF DiskInv
<1> QED
  BY <1>1, <1>2, <1>3, <1>4, <1>5 DEF LightInv

(* A program that goes down was told what it saved, or is told what it will start with. *)
LEMMA DownKeeps ==
    ASSUME LightInv, up = TRUE, Down,
           \/ /\ disk' = Targets /\ patched' = FALSE /\ want' = want
           \/ /\ UNCHANGED <<disk, patched>>
              /\ want' = Reborn \/ (want' = want /\ ~patched /\ ~saving)
    PROVE  LightInv'
<1>1. up' = FALSE /\ saving' = FALSE /\ UNCHANGED <<patch, custom, scene, wanted, odd>>
  BY DEF Down, engine
<1>2. SceneInv'
  BY <1>1 DEF LightInv, SceneInv
<1>3. \A f : /\ Rule(f)' = Rule(f) /\ Sure(f)' = Sure(f)
             /\ Sure(f) = {q \in Params(Rule(f)) : q = "cct" => f \notin odd}
             /\ Params(Rule(f)) \subseteq Parameters
  BY <1>1 DEF Sure, Params, Rule
<1>4. CASE want' = want /\ (disk' = Targets \/ (UNCHANGED <<disk, patched>> /\ ~patched /\ ~saving))
  <2>1. \A f \in DOMAIN want : Told(f)' = Told(f) /\ Told(f) = Sure(f)
    BY <1>1, <1>4, Up DEF Told
  <2>2. WantInv'
    BY <2>1, <1>1, <1>3, <1>4 DEF LightInv, WantInv
  <2>3. CASE disk' = Targets
    <3>1. UNCHANGED <<patch, custom, want, odd>>
      BY <1>1, <1>4
    <3>2. DiskInv'
      BY <1>1, <2>3, <3>1, SavedIs DEF DiskInv
    <3> QED
      BY <1>1, <1>2, <2>2, <3>2 DEF LightInv
  <2>4. CASE UNCHANGED <<disk, patched>> /\ ~patched /\ ~saving
    <3>1. Reborn' = Reborn
      BY <1>1, <2>4 DEF Reborn
    <3>2. DiskInv'
      BY <1>1, <1>4, <2>1, <2>4, <3>1 DEF LightInv, DiskInv
    <3> QED
      BY <1>1, <1>2, <2>2, <3>2 DEF LightInv
  <2> QED
    BY <1>4, <2>3, <2>4
<1>5. CASE want' = Reborn /\ disk' = disk
  <2>1. Reborn' = Reborn /\ InUse(patch, custom)' = InUse(patch, custom)
    BY <1>1, <1>5 DEF Reborn
  <2>2. /\ DOMAIN Reborn = InUse(patch, custom)
        /\ \A f \in InUse(patch, custom) :
             /\ DOMAIN Reborn[f] \subseteq Params(Rule(f)) /\ "intensity" \in DOMAIN Reborn[f]
             /\ \A q \in DOMAIN Reborn[f] : Reborn[f][q] \in Span(Rule(f), q)
    <3>1. \A f \in DOMAIN disk :
            DOMAIN disk[f] \subseteq Parameters /\ ("intensity" \in DOMAIN disk[f] => disk[f]["intensity"] # NaN)
      BY DEF LightInv, DiskInv
    <3> QED
      BY <3>1, RestoredIs DEF Reborn, Rule
  <2>3. \A f : Told(f)' = {q \in DOMAIN want'[f] : q = "cct" => f \notin odd}
    BY <1>1 DEF Told
  <2>4. WantInv'
    <3>1. DOMAIN want' = InUse(patch, custom)'
      BY <1>5, <2>1, <2>2
    <3>2. ASSUME NEW f \in DOMAIN want'
          PROVE  /\ DOMAIN want'[f] \subseteq Parameters /\ "intensity" \in DOMAIN want'[f]
                 /\ Told(f)' \subseteq Sure(f)
                 /\ \A q \in Sure(f) \ Told(f)' : q \notin DOMAIN Reborn[f]
                 /\ \A q \in Told(f)' : want'[f][q] \in Span(Rule(f), q)
      BY <1>3, <1>5, <2>2, <2>3, <3>2
    <3> QED
      BY <1>1, <1>3, <2>1, <3>1, <3>2 DEF WantInv
  <2>5. DiskInv'
    BY <1>1, <1>5, <2>1, <2>3 DEF LightInv, DiskInv
  <2> QED
    BY <1>1, <1>2, <2>4, <2>5 DEF LightInv
<1> QED
  BY <1>4, <1>5

LEMMA StopKeeps == ASSUME LightInv, Stop PROVE LightInv'
<1>1. up = TRUE /\ Down
  BY DEF Stop, LightInv
<1>2. CASE known
  <2>1. disk' = Targets /\ patched' = FALSE /\ want' = want
    BY <1>2 DEF Stop, Saved
  <2> QED
    BY <1>1, <2>1, DownKeeps
<1>3. CASE ~known
  <2>1. UNCHANGED <<disk, patched>>
    BY <1>3 DEF Stop, Saved
  <2>2. want' = Reborn \/ (want' = want /\ ~patched /\ ~saving)
    BY <1>3, <2>1 DEF Stop, Reborn, LightInv, DiskInv
  <2> QED
    BY <1>1, <2>1, <2>2, DownKeeps
<1> QED
  BY <1>2, <1>3

LEMMA CrashKeeps == ASSUME LightInv, Crash PROVE LightInv'
BY DownKeeps DEF Crash, Reborn, LightInv

(* A start finds what was told on the disk, or does not know the colour. *)
LEMMA StartKeeps == ASSUME LightInv, Start PROVE LightInv'
<1>1. /\ up = FALSE /\ up' = TRUE /\ cur' = Reborn /\ fades' = NoFades
      /\ odd' = odd \cup {f \in DOMAIN cur' : Lacks(Rule(f), cur'[f])}
      /\ UNCHANGED <<patch, custom, saving, scene, disk, want, wanted, patched>>
  BY DEF Start, store, Reborn, Rule, LightInv
<1>2. DOMAIN fades' = {}
  BY <1>1 DEF NoFades
<1>3. \A f : /\ Rule(f)' = Rule(f) /\ Sure(f)' \subseteq Sure(f)
             /\ Sure(f)' = {q \in Params(Rule(f)) : q = "cct" => f \notin odd'}
             /\ Told(f)' = {q \in Told(f) : q = "cct" => f \notin odd'}
             /\ Params(Rule(f)) = {q \in Parameters : q = "cct" => Kelvin(Rule(f)) # {}}
  BY <1>1 DEF Rule, Sure, Params, Told
<1>4. /\ DOMAIN Reborn = InUse(patch, custom)
      /\ \A f \in InUse(patch, custom) :
           /\ DOMAIN Reborn[f] \subseteq Params(Rule(f)) /\ "intensity" \in DOMAIN Reborn[f]
           /\ \A q \in DOMAIN Reborn[f] : Reborn[f][q] \in Span(Rule(f), q)
  <2>1. \A f \in DOMAIN disk :
          DOMAIN disk[f] \subseteq Parameters /\ ("intensity" \in DOMAIN disk[f] => disk[f]["intensity"] # NaN)
    BY DEF LightInv, DiskInv
  <2> QED
    BY <2>1, RestoredIs DEF Reborn, Rule
<1>5. DOMAIN want = InUse(patch, custom) /\ InUse(patch, custom)' = InUse(patch, custom)
  BY <1>1 DEF LightInv, WantInv
<1>6. ASSUME NEW f \in DOMAIN want
      PROVE  /\ Sure(f)' = Told(f)'
             /\ \A q \in Sure(f)' : q \in DOMAIN Reborn[f] /\ Reborn[f][q] = want[f][q]
  <2>1. \A q \in Told(f) : q \in DOMAIN Reborn[f] /\ Reborn[f][q] = want[f][q]
    BY <1>1 DEF LightInv, DiskInv
  <2>2. Told(f) \subseteq Sure(f) /\ \A q \in Sure(f) \ Told(f) : q \notin DOMAIN Reborn[f]
    BY DEF LightInv, WantInv
  <2>3. f \notin odd' => ~Lacks(Rule(f), Reborn[f])
    BY <1>1, <1>4, <1>5
  <2>4. ASSUME NEW q \in Sure(f)' PROVE q \in DOMAIN Reborn[f]
    <3>1. q = "cct" => q \in DOMAIN Reborn[f]
      BY <2>3, <2>4, <1>3 DEF Lacks
    <3>2. q = "intensity" => q \in DOMAIN Reborn[f]
      BY <1>4, <1>5
    <3> QED
      BY <3>1, <3>2, <2>4, <1>3 DEF Parameters
  <2>5. Sure(f)' \subseteq Told(f)'
    BY <2>2, <2>4, <1>3
  <2>6. Told(f)' \subseteq Sure(f)'
    BY <2>2, <1>3 DEF Sure
  <2> QED
    BY <2>1, <2>4, <2>5, <2>6, <1>3
<1>7. WantInv'
  <2>1. \A f \in DOMAIN want :
          /\ DOMAIN want[f] \subseteq Parameters /\ "intensity" \in DOMAIN want[f]
          /\ \A q \in Told(f) : want[f][q] \in Span(Rule(f), q)
    BY DEF LightInv, WantInv
  <2>2. \A f : Told(f)' \subseteq Told(f)
    BY <1>3
  <2> QED
    BY <2>1, <2>2, <1>1, <1>3, <1>5, <1>6 DEF WantInv
<1>8. CurInv'
  <2>1. ASSUME NEW f \in DOMAIN want
        PROVE  /\ DOMAIN cur'[f] \subseteq Parameters
               /\ Kelvin(Rule(f)) = {} => "cct" \notin DOMAIN cur'[f]
    BY <1>1, <1>3, <1>4, <1>5
  <2>2. ASSUME NEW f \in DOMAIN want, NEW q \in Sure(f)'
        PROVE  q \in DOMAIN cur'[f] /\ cur'[f][q] \in Int /\ Heading(f, q)' = want'[f][q]
    <3>1. q \in DOMAIN Reborn[f] /\ Reborn[f][q] = want[f][q] /\ Reborn[f][q] \in Int
      BY <1>4, <1>5, <1>6, <2>2, SpanIs
    <3>2. <<f, q>> \notin DOMAIN fades'
      BY <1>2
    <3> QED
      BY <1>1, <3>1, <3>2 DEF Heading
  <2> QED
    BY <1>1, <1>2, <1>3, <1>4, <1>5, <2>1, <2>2 DEF CurInv
<1>9. SceneInv'
  BY <1>1 DEF LightInv, SceneInv
<1>10. DiskInv'
  <2>1. Reborn' = Reborn /\ saving' = saving /\ saving # TRUE
    BY <1>1 DEF LightInv, DiskInv, Reborn
  <2>2. \A f : Told(f)' \subseteq Told(f)
    BY <1>3
  <2>3. \A f \in DOMAIN want : \A q \in Told(f) : q \in DOMAIN Reborn[f] /\ Reborn[f][q] = want[f][q]
    BY <1>1 DEF LightInv, DiskInv
  <2> QED
    BY <1>1, <2>1, <2>2, <2>3 DEF LightInv, DiskInv
<1> QED
  BY <1>1, <1>7, <1>8, <1>9, <1>10 DEF LightInv

(* The program starts with the defaults. *)
LEMMA LightInit == Init => LightInv
<1> SUFFICES ASSUME Init PROVE LightInv
  OBVIOUS
<1>1. /\ up = FALSE /\ disk = NothingSaved /\ saving = FALSE /\ scene = None /\ odd = {}
      /\ want = Reborn
  BY DEF Init, Reborn
<1>2. DOMAIN disk = {}
  BY <1>1 DEF NothingSaved
<1>3. /\ DOMAIN Reborn = InUse(patch, custom)
      /\ \A f \in InUse(patch, custom) :
           /\ DOMAIN Reborn[f] \subseteq Params(Rule(f)) /\ "intensity" \in DOMAIN Reborn[f]
           /\ \A q \in DOMAIN Reborn[f] : Reborn[f][q] \in Span(Rule(f), q)
  <2>1. \A f \in DOMAIN disk :
          DOMAIN disk[f] \subseteq Parameters /\ ("intensity" \in DOMAIN disk[f] => disk[f]["intensity"] # NaN)
    BY <1>2
  <2> QED
    BY <2>1, RestoredIs DEF Reborn, Rule
<1>4. \A f : /\ Sure(f) = Params(Rule(f)) /\ Params(Rule(f)) \subseteq Parameters
             /\ Told(f) = {q \in DOMAIN want[f] : q = "cct" => f \notin odd}
  BY <1>1 DEF Sure, Told, Params
<1>5. WantInv
  BY <1>1, <1>3, <1>4 DEF WantInv
<1>6. DiskInv
  BY <1>1, <1>2, <1>4 DEF DiskInv
<1> QED
  BY <1>1, <1>5, <1>6 DEF LightInv, SceneInv

LEMMA LightFrame ==
    ASSUME LightInv,
           UNCHANGED <<up, patch, custom, cur, fades, known, saving, disk, want, odd, patched>>,
           UNCHANGED <<scene, wanted>> \/ scene' = None
    PROVE  LightInv'
BY DEF LightInv, WantInv, CurInv, SceneInv, DiskInv, Told, Sure, Params, Rule, Reborn, Heading

LEMMA LightStep == ASSUME LightInv, [Next]_vars PROVE LightInv'
<1>1. CASE OutputNext /\ Rest
  BY <1>1, LightFrame
     DEF OutputNext, Bound, BindFails, SocketFails, RetryTimer, WatchTimer, NicChanges, Rest, engine, store, told, Event
<1>2. CASE Tick
  BY <1>2, TickKeeps
<1>3. CASE SaveTimer
  BY <1>3, SaveTimerKeeps
<1>4. CASE Stop
  BY <1>4, StopKeeps
<1>5. CASE Crash
  BY <1>5, CrashKeeps
<1>6. CASE Start
  BY <1>6, StartKeeps
<1>7. ASSUME NEW T \in Targeted, NEW b \in Bodies, NEW relative \in BOOLEAN, NEW faded \in BOOLEAN,
             Set(T, b, relative, faded)
      PROVE  LightInv'
  <2>1. T \subseteq DOMAIN cur
    BY DEF Targeted
  <2> QED
    BY <1>7, <2>1, SetKeeps
<1>8. CASE SaveScene
  BY <1>8, SaveSceneKeeps
<1>9. ASSUME NEW faded \in BOOLEAN, RecallScene(faded) PROVE LightInv'
  BY <1>9, RecallSceneKeeps
<1>10. CASE ClearScene
  BY <1>10, LightFrame DEF ClearScene, engine
<1>11. ASSUME NEW look \in Bodies, NEW faded \in BOOLEAN, RecallLook(look, faded) PROVE LightInv'
  BY <1>11, SetKeeps DEF RecallLook
<1>12. ASSUME NEW f \in Fixture, Identify(f) PROVE LightInv'
  BY <1>12, LightFrame DEF Identify, store, told
<1>13. ASSUME NEW s, SetOutput(s) PROVE LightInv'
  BY <1>13, LightFrame DEF SetOutput, engine, store, told
<1>14. ASSUME NEW p, ReplacePatch(p) PROVE LightInv'
  BY <1>14, ReloadKeeps DEF ReplacePatch, LightInv
<1>15. ASSUME NEW d, ReplaceProfile(d) PROVE LightInv'
  BY <1>15, ReloadKeeps DEF ReplaceProfile, LightInv
<1>16. CASE UNCHANGED vars
  BY <1>16, LightFrame DEF vars, engine, store, told
<1> QED
  BY <1>1, <1>2, <1>3, <1>4, <1>5, <1>6, <1>7, <1>8, <1>9, <1>10, <1>11, <1>12, <1>13, <1>14, <1>15, <1>16
     DEF Next

(* Whatever commands, fades cut short, nudges, scenes, patch changes, crashes and
   restarts came before: every light heads where it was last told. *)
THEOREM LightsHeadWhereTold == Spec => []HeadsWhereTold
<1>1. LightInv => HeadsWhereTold
  <2> SUFFICES ASSUME LightInv, up = TRUE
               PROVE  /\ DOMAIN cur = DOMAIN want
                      /\ \A f \in DOMAIN cur : \A q \in Told(f) : Heading(f, q) = want[f][q]
    BY DEF HeadsWhereTold, LightInv
  <2> QED
    BY Up
<1> QED
  BY LightInit, LightStep, <1>1, PTL DEF Spec
=============================================================================
