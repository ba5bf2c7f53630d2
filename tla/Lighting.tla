-------------------------------- MODULE Lighting --------------------------------
(***************************************************************************)
(* lighting/engine.js and lighting/service.js over the sender of SacnOutput: *)
(* the state of the lights, its fades, the patch and the profiles under it,  *)
(* what is saved and restored, and the frames that reach the lights.         *)
(*                                                                         *)
(* Time is the engine's tick: a fade takes FadeTicks of them. Every command  *)
(* is one run of JavaScript. Levels and kelvins are small integers, and a    *)
(* fixture's colour is 0 on the wire while its state has none.               *)
(***************************************************************************)
EXTENDS SacnOutput, FiniteSets, Functions

CONSTANTS
    Fixture,
    Bodies,       \* the values commands give: for some parameters a number
    FadeTicks,    \* the length of a fade
    MaxCommands   \* bound on commands

Parameters == {"intensity", "cct"}

ASSUME LightingAssumption ==
    /\ \A b \in Bodies : DOMAIN b \subseteq Parameters /\ \A q \in DOMAIN b : b[q] \in Int
    /\ FadeTicks \in Nat \ {0} /\ MaxCommands \in Nat /\ None \notin Int

VARIABLES
    patch,      \* per patched fixture, whether it has the custom profile or a built-in one
    custom,     \* the definition of the custom profile
    cur,        \* this.current of the fixtures in use
    fades,      \* this.fades: per fixture and parameter that fades, from, to and ticks left
    flash,      \* this.identifying
    known,      \* this.known
    saving,     \* the service's saveTimer
    scene,      \* the saved scene
    disk,       \* the saved state, per fixture; of none before the first one is saved
    lit,        \* what each light shows: the last frame that reached it
    want,       \* history: what each fixture was last told, parameter by parameter
    wanted,     \* history: `want` when the scene was saved
    odd,        \* history: fixtures whose profile changed under a colour fade, or whose colour is lost
    patched,    \* history: the patch changed since the state was saved
    commands    \* history: how many commands so far

engine == <<patch, custom, cur, fades, flash, known>>
store == <<saving, scene, disk>>
told == <<want, wanted, odd, patched>>
vars == <<up, outputVars, events, engine, store, told, lit, commands>>

-----------------------------------------------------------------------------
(* Profiles and the patch *)

Profiles == {"full", "warm", "dimmer", "wide"}
NaN == None
NoColour == 0
Kelvin(r) == CASE r = "dimmer" -> {} [] r = "warm" -> 1..2 [] OTHER -> 1..3
Levels == 0..2

ProfileOf(p, d, f) == IF p[f] = "custom" THEN d ELSE "full"

(* #validate: a fixture whose profile runs past the end of the universe is left out *)
InUse(p, d) == {f \in DOMAIN p : p[f] = "builtIn" \/ d # "wide"}

Within(v, S) == IF \E x \in S : x >= v THEN (IF v \in S THEN v ELSE CHOOSE x \in S : \A y \in S : x <= y)
                ELSE CHOOSE x \in S : \A y \in S : y <= x

(* #clampToFixture, for the profile r: what is no number or no parameter of it goes *)
Clamp(r, s) ==
    [q \in {q \in DOMAIN s : s[q] # NaN /\ (q = "cct" => Kelvin(r) # {})} |->
        Within(s[q], IF q = "cct" THEN Kelvin(r) ELSE Levels)]

(* #defaultState *)
Default(r) == Clamp(r, [q \in Parameters |-> IF q = "cct" THEN 1 ELSE 0])

(* A fixture with colour whose state has none *)
Lacks(r, s) == Kelvin(r) # {} /\ "cct" \notin DOMAIN s

(* `{ ...a, ...b }` *)
Over(a, b) == [q \in DOMAIN a \cup DOMAIN b |-> IF q \in DOMAIN b THEN b[q] ELSE a[q]]

(* The engine of a program that starts: the defaults, and the saved state over them *)
Restored(p, d, state) ==
    [f \in InUse(p, d) |->
        LET r == ProfileOf(p, d, f)
        IN  IF f \in DOMAIN state THEN Clamp(r, Over(Default(r), state[f])) ELSE Default(r)]
Restorable(p, d, state) == InUse(p, d) \cap DOMAIN state # {}
NothingSaved == [f \in {} |-> 0]

-----------------------------------------------------------------------------
(* Fades *)

NoFades == [k \in {} |-> 0]
Without(F, K) == [k \in DOMAIN F \ K |-> F[k]]

Position(fade) ==
    IF fade.from = NaN THEN NaN
    ELSE fade.from + ((fade.to - fade.from) * (FadeTicks - fade.left)) \div FadeTicks

(* #heading, and targets(): where each parameter is heading *)
Heading(f, q) ==
    IF <<f, q>> \in DOMAIN fades THEN fades[<<f, q>>].to
    ELSE IF q \in DOMAIN cur[f] THEN cur[f][q] ELSE 0
Targets ==
    [f \in DOMAIN cur |-> [q \in DOMAIN cur[f] \cup {q \in {"cct"} : <<f, q>> \in DOMAIN fades} |-> Heading(f, q)]]

(* #fadeTo for every fixture of `dest` *)
Faded(dest, faded) ==
    LET fades_(f) == {q \in DOMAIN dest[f] : faded /\ (q \in DOMAIN cur[f] => cur[f][q] # dest[f][q])}
        keys == {<<f, q>> : f \in DOMAIN dest, q \in Parameters}
        begun == {k \in keys : k[2] \in DOMAIN dest[k[1]] /\ k[2] \in fades_(k[1])}
        ended == {k \in keys : k[2] \in DOMAIN dest[k[1]]} \ begun
    IN  /\ fades' = [k \in (DOMAIN fades \ ended) \cup begun |->
                       IF k \in begun
                       THEN [from |-> IF k[2] \in DOMAIN cur[k[1]] THEN cur[k[1]][k[2]] ELSE NaN,
                             to |-> dest[k[1]][k[2]], left |-> FadeTicks]
                       ELSE fades[k]]
        /\ cur' = [f \in DOMAIN cur |->
                     IF f \in DOMAIN dest
                     THEN Over(cur[f], [q \in DOMAIN dest[f] \ fades_(f) |-> dest[f][q]])
                     ELSE cur[f]]

-----------------------------------------------------------------------------
(* Frames *)

(* frames(), encode(): what a fixture's frame shows *)
Shown(r, s) ==
    [intensity |-> s["intensity"],
     cct |-> IF "cct" \notin DOMAIN s \/ Kelvin(r) = {} THEN NoColour
             ELSE IF s["cct"] = NaN THEN Within(3, Kelvin(r)) ELSE Within(s["cct"], Kelvin(r))]

(* tick(): the frame goes to the fixtures in use. An identifying light flashes, for a tick. *)
FrameOf(p, d, c, flashing, light) ==
    [f \in Fixture |->
        IF f \in DOMAIN c
        THEN LET s == Shown(ProfileOf(p, d, f), c[f])
             IN  IF f \in flashing THEN [s EXCEPT !.intensity = 2] ELSE s
        ELSE light[f]]
Send == lit' = IF known' /\ Reaches' THEN FrameOf(patch', custom', cur', flash', lit) ELSE lit

(* The timer's tick: time passes, fades advance, flashes end *)
Tick ==
    /\ up
    /\ LET moved == [k \in DOMAIN fades |-> [fades[k] EXCEPT !.left = @ - 1]]
       IN  /\ fades' = Without(moved, {k \in DOMAIN fades : moved[k].left = 0})
           /\ cur' = [f \in DOMAIN cur |->
                        Over(cur[f], [q \in {q \in Parameters : <<f, q>> \in DOMAIN fades} |->
                                          Position(moved[<<f, q>>])])]
    /\ flash' = {}
    /\ UNCHANGED <<up, outputVars, events, patch, custom, known, store, told, commands>>
    /\ Send

-----------------------------------------------------------------------------
(* Commands *)

Command == up /\ commands < MaxCommands /\ commands' = commands + 1

(* The engine has new destinations: 'change', the save timer, a frame at once *)
Changed(dest, faded) ==
    /\ Faded(dest, faded) /\ known' = TRUE /\ saving' = TRUE
    /\ UNCHANGED <<up, outputVars, events, patch, custom, flash, scene, disk, wanted, patched>>
    /\ Send

(* set: of some fixtures, absolute or relative to where they are heading *)
Set(T, body, relative, faded) ==
    LET value(f, q) == IF ~relative THEN body[q] ELSE IF Heading(f, q) = NaN THEN NaN ELSE Heading(f, q) + body[q]
        asked(f) == [q \in DOMAIN body |-> value(f, q)]
        due(f) == [q \in DOMAIN body |-> IF relative /\ q \in DOMAIN want[f] THEN want[f][q] + body[q] ELSE body[q]]
        r(f) == ProfileOf(patch, custom, f)
    IN  /\ Command
        /\ Changed([f \in T |-> Clamp(r(f), asked(f))], faded)
        /\ want' = [f \in DOMAIN want |-> IF f \in T THEN Over(want[f], Clamp(r(f), due(f))) ELSE want[f]]
        /\ UNCHANGED odd

(* The parameters of a fixture that a command can have told it *)
Told(f) == {q \in DOMAIN want[f] : q = "cct" => f \notin odd}

(* saveScene: where the lights are heading *)
SaveScene ==
    /\ up /\ known /\ scene # Targets /\ Event
    /\ scene' = Targets /\ wanted' = [f \in DOMAIN want |-> [q \in Told(f) |-> want[f][q]]]
    /\ UNCHANGED <<up, outputVars, engine, saving, disk, want, odd, patched, lit, commands>>

(* clearScene *)
ClearScene ==
    /\ up /\ scene # None /\ Event
    /\ scene' = None /\ wanted' = None
    /\ UNCHANGED <<up, outputVars, engine, saving, disk, want, odd, patched, lit, commands>>

(* recallScene: for the fixtures the scene names, apply() *)
RecallScene(faded) ==
    /\ Command /\ scene # None
    /\ LET T == DOMAIN cur \cap DOMAIN scene
           r(f) == ProfileOf(patch, custom, f)
       IN  /\ Changed([f \in T |-> Clamp(r(f), scene[f])], faded)
           /\ want' = [f \in DOMAIN want |-> IF f \in T THEN Over(want[f], Clamp(r(f), wanted[f])) ELSE want[f]]
           /\ odd' = odd \cup {f \in T : DOMAIN Clamp(r(f), scene[f]) # DOMAIN Clamp(r(f), wanted[f])}

(* recallLook: apply() for every fixture in use *)
RecallLook(look, faded) == Set(DOMAIN cur, look, FALSE, faded)

(* identify *)
Identify(f) ==
    /\ Command /\ f \in DOMAIN cur
    /\ flash' = flash \cup {f}
    /\ UNCHANGED <<up, outputVars, events, patch, custom, cur, fades, known, store, told>>
    /\ Send

(* setOutput: the settings, and a tick *)
SetOutput(s) ==
    /\ up /\ Event /\ s # settings
    /\ settings' = s /\ out' = Configured(s)
    /\ UNCHANGED <<up, nic, engine, store, told, commands>>
    /\ Send

-----------------------------------------------------------------------------
(* The patch changes *)

(* configure, of the engine *)
Reload(p, d) ==
    LET use == InUse(p, d)
        stays(f) == f \in DOMAIN cur
        r(f) == ProfileOf(p, d, f)
        under(f) == <<f, "cct">> \in DOMAIN fades /\ r(f) # ProfileOf(patch, custom, f)
    IN  /\ patch' = p /\ custom' = d
        /\ cur' = [f \in use |-> IF stays(f) THEN Clamp(r(f), cur[f]) ELSE Default(r(f))]
        /\ fades' = Without(fades, {k \in DOMAIN fades : k[1] \notin use})
        /\ UNCHANGED <<flash, known>>
        /\ want' = [f \in use |-> IF stays(f) THEN Clamp(r(f), want[f]) ELSE Default(r(f))]
        /\ odd' = (odd \cap use) \cup {f \in use : stays(f) /\ (Lacks(r(f), cur[f]) \/ under(f))}
        /\ patched' = TRUE
        /\ UNCHANGED <<up, outputVars, store, wanted, commands>>
        /\ Send

(* addFixture, updateFixture, removeFixture: a patch with an error is refused *)
ReplacePatch(p) ==
    /\ up /\ Event /\ p # patch /\ InUse(p, custom) = DOMAIN p
    /\ Reload(p, custom)

(* updateProfile: only the profile is checked, not the patch that uses it *)
ReplaceProfile(d) ==
    /\ up /\ Event /\ d # custom
    /\ Reload(patch, d)

-----------------------------------------------------------------------------
(* Saving, stopping and starting *)

(* #saveState *)
MutSaved ==   \* where the lights are
    IF known THEN disk' = cur /\ patched' = FALSE ELSE UNCHANGED <<disk, patched>>
Saved ==
    IF known THEN disk' = Targets /\ patched' = FALSE ELSE UNCHANGED <<disk, patched>>

SaveTimer ==
    /\ up /\ saving /\ saving' = FALSE /\ Saved
    /\ UNCHANGED <<up, outputVars, events, engine, scene, want, wanted, odd, lit, commands>>

Down ==
    /\ up' = FALSE /\ out' = Closed /\ saving' = FALSE
    /\ UNCHANGED <<settings, nic, engine, scene, wanted, odd, lit, commands>>

Stop ==
    /\ up /\ Event /\ Saved /\ Down
    /\ want' = IF patched' THEN Restored(patch, custom, disk) ELSE want

(* A crash may lose what was not saved yet: the last commands while the save timer runs,
   and what a change of the patch did to the state *)
Crash ==
    /\ up /\ Event /\ Down /\ UNCHANGED <<disk, patched>>
    /\ want' = IF saving \/ patched THEN Restored(patch, custom, disk) ELSE want

(* The constructor and start() *)
Start ==
    /\ ~up /\ up' = TRUE
    /\ out' = EnsureSocket(Closed, settings)
    /\ cur' = Restored(patch, custom, disk) /\ fades' = NoFades /\ flash' = {}
    /\ known' = Restorable(patch, custom, disk)
    /\ odd' = odd \cup {f \in DOMAIN cur' : Lacks(ProfileOf(patch, custom, f), cur'[f])}
    /\ UNCHANGED <<settings, nic, events, patch, custom, store, want, wanted, patched, lit, commands>>

-----------------------------------------------------------------------------
Init ==
    /\ OutputInit /\ up = FALSE
    /\ patch = [f \in Fixture |-> "custom"] /\ custom \in {"full", "dimmer"}
    /\ disk = NothingSaved /\ saving = FALSE
    /\ scene = None
    /\ cur = Restored(patch, custom, disk) /\ fades = NoFades /\ flash = {} /\ known = FALSE
    /\ lit = [f \in Fixture |-> [intensity |-> 2, cct |-> 2]]
    /\ want = cur /\ wanted = scene /\ odd = {} /\ patched = FALSE /\ commands = 0

Targeted == {T \in SUBSET DOMAIN cur : T # {} /\ (Cardinality(T) = 1 \/ T = DOMAIN cur)}

Rest == UNCHANGED <<engine, store, told, lit, commands>>

Next ==
    \/ OutputNext /\ Rest
    \/ Tick \/ SaveTimer \/ Stop \/ Crash \/ Start
    \/ \E T \in Targeted, b \in Bodies, relative, faded \in BOOLEAN : Set(T, b, relative, faded)
    \/ SaveScene \/ \E faded \in BOOLEAN : RecallScene(faded)
    \/ ClearScene \/ \E look \in Bodies, faded \in BOOLEAN : RecallLook(look, faded)
    \/ \E f \in Fixture : Identify(f)
    \/ \E s \in [enabled : BOOLEAN, where : Address \cup {"auto"}] : SetOutput(s)
    \/ \E S \in SUBSET Fixture : \E p \in [S -> {"custom", "builtIn"}] : ReplacePatch(p)
    \/ \E d \in Profiles : ReplaceProfile(d)

Spec == Init /\ [][Next]_vars
FairSpec == Spec /\ WF_vars(Tick) /\ WF_vars(Bound /\ Rest) /\ WF_vars(RetryTimer /\ Rest) /\ WF_vars(WatchTimer /\ Rest)

-----------------------------------------------------------------------------
(* Whatever commands, fades cut short, nudges, scenes, identifies, patch changes, crashes
   and restarts came before: where a fixture is heading is what it was last told, or, new
   in the patch, its default. The exception is the colour of a fixture whose profile
   changed under a colour fade, or whose state has no colour although the profile has. *)
HeadsWhereTold ==
    up => /\ DOMAIN cur = DOMAIN want
          /\ \A f \in DOMAIN cur : \A q \in Told(f) : Heading(f, q) = want[f][q]

(* Once nothing happens any more and output is on, every light in use shows what it was
   last told, whatever became of the socket, the interface and the program before. *)
Arrived ==
    up /\ known /\ settings.enabled /\ Where(settings) # None
    => \A f \in DOMAIN cur : \A q \in Told(f) : lit[f][q] = want[f][q]
LightsArrive == <>[]Arrived
=============================================================================
