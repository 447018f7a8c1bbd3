------------------------------- MODULE Screens -------------------------------
(***************************************************************************)
(* What the loop does to the screens: it switches the monitors off and on  *)
(* (src/outputs.rs), fades a dark layer in over them, and takes the panel's *)
(* backlight down and back (src/dim.rs, src/backlight.rs), while monitors  *)
(* come and go.  When it does which is src/idle.rs's business (Idle.tla):  *)
(* here the four calls come in any order.                                  *)
(*                                                                         *)
(* The compositor acts on a request at once; what it has to say takes its  *)
(* time.  What it says of one monitor is in order; no handler touches the  *)
(* records of two, so the order between monitors is left open.             *)
(***************************************************************************)
EXTENDS Naturals, SequencesExt

CONSTANTS
    Outputs,        \* wl_output objects; one plugged in again is a new one
    HasPowerManager,\* the compositor offers output power management
    Layered,        \* ... and layer shell and viewporter
    HasPanel,       \* there is a backlight
    Refusable,      \* logind may refuse to set it, or no thread be had to ask
    Steps,          \* pixels of the fade
    Brightest,      \* the panel's max_brightness
    MaxSetters,     \* bound: backlight threads at a time
    MaxEvents       \* bound: events about a monitor when more are provoked

ASSUME StepsAssumption == Steps \in Nat \ {0}
ASSUME BrightestAssumption == Brightest \in Nat \ {0}

VARIABLES           \* the compositor and the monitors
    plugged,        \* per output: "not yet", "in", "out"
    power,          \* "on" or "off"
    holder,         \* of its power control: "nobody", "us", "other"
    events          \* what the program has yet to read of it

VARIABLES           \* the program
    up,             \* it runs
    known,          \* outputs it has been told of
    blanked,
    controls,       \* outputs it keeps a power control for
    active,         \* dim
    overlays,       \* outputs with an overlay
    drawn,          \* per output: {} until it has a size, {k} once k is drawn
    pixels,         \* the fade's pixels have been made
    step,
    timers,         \* fade timers on the loop
    backlight       \* {} or {[before |-> ..., dimmed |-> ...]}

VARIABLES           \* the panel
    level,
    setters         \* levels being set, by a thread each

VARIABLES           \* history
    darkened,       \* outputs off at this program's request
    refused,        \* outputs whose control failed since the screens went off
    wanted,         \* the level a person chose last
    disturbed       \* a backlight thread once failed, or was not waited for

monitors == <<plugged, power, holder>>
dim == <<active, overlays, drawn, pixels, step, timers, backlight>>
panel == <<level, setters, wanted, disturbed>>
vars == <<up, monitors, events, known, blanked, controls, dim, panel, darkened, refused>>

\* "void" stands for one about an object the program has destroyed since: the
\* library reads it and tells nobody.
Event == {"new", "gone", "failed", "configure", "closed", "void"}

\* Monitors, controls, overlays and the panel have their types.
TypeOK ==
    /\ plugged \in [Outputs -> {"not yet", "in", "out"}]
    /\ power \in [Outputs -> {"on", "off"}]
    /\ holder \in [Outputs -> {"nobody", "us", "other"}]
    /\ events \in [Outputs -> Seq(Event)]
    /\ up \in BOOLEAN
    /\ known \subseteq Outputs
    /\ blanked \in BOOLEAN
    /\ controls \subseteq Outputs
    /\ active \in BOOLEAN
    /\ overlays \subseteq Outputs
    /\ drawn \in [Outputs -> SUBSET (0 .. Steps - 1)]
    /\ pixels \in BOOLEAN
    /\ step \in 0 .. Steps - 1
    /\ timers \in Nat
    /\ backlight \subseteq [before : 0 .. Brightest, dimmed : 0 .. Brightest]
    /\ level \in 0 .. Brightest
    /\ setters \in Seq(0 .. Brightest)
    /\ darkened \subseteq Outputs
    /\ refused \subseteq Outputs
    /\ wanted \in 0 .. Brightest
    /\ disturbed \in BOOLEAN

Init ==
    /\ plugged = [o \in Outputs |-> "not yet"]
    /\ power = [o \in Outputs |-> "on"]
    /\ holder = [o \in Outputs |-> "nobody"]
    /\ events = [o \in Outputs |-> <<>>]
    /\ up = TRUE
    /\ known = {} /\ controls = {}
    /\ blanked = FALSE /\ active = FALSE /\ pixels = FALSE
    /\ overlays = {}
    /\ drawn = [o \in Outputs |-> {}]
    /\ step = 0 /\ timers = 0
    /\ backlight = {}
    /\ level \in 0 .. Brightest
    /\ wanted = level
    /\ setters = <<>>
    /\ darkened = {} /\ refused = {}
    /\ disturbed = FALSE

-----------------------------------------------------------------------------
(* The compositor, the monitors, and whoever else uses them *)

In(o) == plugged[o] = "in"

NotesThreads == disturbed' = (disturbed \/ setters # <<>>)

\* The compositor has something more to say, if it does, about each of S.
Put(q, e, when) == IF when THEN Append(q, e) ELSE q
Says(S, e) == [o \in Outputs |-> Put(events[o], e, o \in S)]

Room == \A o \in Outputs : Len(events[o]) < MaxEvents

\* The objects that the events in dead are about are no more.
Void(q, dead) == [k \in DOMAIN q |-> IF q[k] \in dead THEN "void" ELSE q[k]]
VoidFor(S, dead) == [o \in Outputs |-> IF o \in S THEN Void(events[o], dead) ELSE events[o]]

Plug(o) ==
    /\ plugged[o] = "not yet"
    /\ plugged' = [plugged EXCEPT ![o] = "in"]
    /\ events' = Says({o}, "new")
    /\ UNCHANGED <<up, power, holder, known, blanked, controls, dim, panel, darkened, refused>>

\* Its overlay is closed and its controls die with it.
Unplug(o) ==
    /\ In(o)
    /\ plugged' = [plugged EXCEPT ![o] = "out"]
    /\ holder' = [holder EXCEPT ![o] = "nobody"]
    /\ events' = [events EXCEPT ![o] = Append(Put(@, "closed", o \in overlays), "gone")]
    /\ darkened' = darkened \ {o}
    /\ UNCHANGED <<up, power, known, blanked, controls, dim, panel, refused>>

\* Another power-management client, such as wlopm.
OtherTakes(o) ==
    /\ In(o)
    /\ holder[o] = "nobody"
    /\ holder' = [holder EXCEPT ![o] = "other"]
    /\ \E mode \in {"on", "off"} : power' = [power EXCEPT ![o] = mode]
    /\ darkened' = darkened \ {o}
    /\ UNCHANGED <<up, plugged, events, known, blanked, controls, dim, panel, refused>>

OtherLeaves(o) ==
    /\ holder[o] = "other"
    /\ holder' = [holder EXCEPT ![o] = "nobody"]
    /\ UNCHANGED <<up, plugged, power, events, known, blanked, controls, dim, panel,
                   darkened, refused>>

\* The brightness keys.
Keys(v) ==
    /\ HasPanel
    /\ v # level
    /\ level' = v
    /\ wanted' = v
    /\ NotesThreads
    /\ UNCHANGED <<up, monitors, events, known, blanked, controls, dim, setters,
                   darkened, refused>>

-----------------------------------------------------------------------------
(* src/outputs.rs *)

\* Ask for the controls of S and switch them off.  A monitor that is gone or
\* held by another client has none to give, and says so later.
Granted(S) == {o \in S : In(o) /\ holder[o] = "nobody"}

SwitchOff(S) ==
    /\ controls' = controls \cup S
    /\ holder' = [o \in Outputs |-> IF o \in Granted(S) THEN "us" ELSE holder[o]]
    /\ power' = [o \in Outputs |-> IF o \in Granted(S) THEN "off" ELSE power[o]]
    /\ darkened' = darkened \cup Granted(S)
    /\ refused' = refused \cup (S \ Granted(S))

\* outputs::blank; it returns early if already blanked or without a manager
Blank ==
    /\ up /\ ~blanked
    /\ HasPowerManager
    /\ Room
    /\ blanked' = TRUE
    /\ SwitchOff(known)
    /\ events' = Says(known \ Granted(known), "failed")
    /\ UNCHANGED <<up, plugged, known, dim, panel>>

\* For each control: On, which the compositor heeds if it is still ours, and
\* destroy.
Held == {o \in controls : holder[o] = "us"}

SwitchOn ==
    /\ blanked' = FALSE
    /\ controls' = {}
    /\ holder' = [o \in Outputs |-> IF o \in Held THEN "nobody" ELSE holder[o]]
    /\ events' = VoidFor(controls, {"failed"})
    /\ refused' = {}

\* Mutation: the controls are let go of, the monitors left as they are.
UnblankLetsGo ==
    /\ up /\ blanked
    /\ SwitchOn
    /\ power' = power
    /\ darkened' = darkened
    /\ UNCHANGED <<up, plugged, known, dim, panel>>

\* outputs::unblank
Unblank ==
    /\ up /\ blanked
    /\ SwitchOn
    /\ power' = [o \in Outputs |-> IF o \in Held THEN "on" ELSE power[o]]
    /\ darkened' = darkened \ Held
    /\ UNCHANGED <<up, plugged, known, dim, panel>>

-----------------------------------------------------------------------------
(* src/dim.rs, src/backlight.rs *)

\* add_overlay for each of S.  The compositor gives it a size, or closes it.
AddOverlays(S) ==
    /\ overlays' = overlays \cup S
    /\ drawn' = [o \in Outputs |-> IF o \in S THEN {} ELSE drawn[o]]

Answer(o) == IF In(o) THEN "configure" ELSE "closed"

\* Mutation: a third, rounded down, and no more.
DimmedThird(current) == current \div 3

\* backlight::dimmed
Dimmed(current) == Min({Max({current \div 3, 1}), current})

\* dim::dim: overlays for every known output, the fade, and the backlight
Dim ==
    /\ up /\ ~active
    /\ Len(setters) < MaxSetters /\ Room
    /\ active' = TRUE
    /\ step' = 0
    /\ IF Layered
       THEN /\ pixels' \in {TRUE, pixels}
            /\ AddOverlays(known)
            /\ events' = [o \in Outputs |-> Put(events[o], Answer(o), o \in known)]
            /\ timers' = timers + 1
       ELSE UNCHANGED <<pixels, overlays, drawn, events, timers>>
    /\ IF HasPanel /\ Dimmed(level) < level
       THEN /\ backlight' = {[before |-> level, dimmed |-> Dimmed(level)]}
            /\ setters' = Append(setters, Dimmed(level))
       ELSE UNCHANGED <<backlight, setters>>
    /\ NotesThreads
    /\ UNCHANGED <<up, monitors, known, blanked, controls, level, wanted, darkened, refused>>

\* Mutation: the fade stops before its last pixel.
FadeStopsShort ==
    /\ up
    /\ timers > 0
    /\ IF ~active \/ step + 2 >= Steps
       THEN /\ timers' = timers - 1
            /\ UNCHANGED <<step, drawn>>
       ELSE /\ step' = step + 1
            /\ drawn' = [o \in Outputs |-> IF drawn[o] = {} THEN {} ELSE {step + 1}]
            /\ UNCHANGED timers
    /\ UNCHANGED <<up, monitors, events, known, blanked, controls, active, overlays, pixels,
                   backlight, panel, darkened, refused>>

\* The timer of the fade.
Fade ==
    /\ up
    /\ timers > 0
    /\ IF ~active \/ step + 1 >= Steps
       THEN /\ timers' = timers - 1
            /\ UNCHANGED <<step, drawn>>
       ELSE /\ step' = step + 1
            /\ drawn' = [o \in Outputs |-> IF drawn[o] = {} THEN {} ELSE {step + 1}]
            /\ UNCHANGED timers
    /\ UNCHANGED <<up, monitors, events, known, blanked, controls, active, overlays, pixels,
                   backlight, panel, darkened, refused>>

\* dim::undim without its timer and its backlight
Uncover ==
    /\ up /\ active
    /\ Len(setters) < MaxSetters
    /\ active' = FALSE
    /\ overlays' = {}
    /\ drawn' = [o \in Outputs |-> {}]
    /\ events' = VoidFor(overlays, {"configure", "closed"})
    /\ NotesThreads
    /\ UNCHANGED <<up, monitors, known, blanked, controls, pixels, step, level, wanted,
                   darkened, refused>>

\* Put the level back, unless it is not where dimming put it.
Restore ==
    /\ backlight' = {}
    /\ \/ \E b \in backlight : b.dimmed = level /\ setters' = Append(setters, b.before)
       \/ (\A b \in backlight : b.dimmed # level) /\ UNCHANGED setters

\* Mutation: the timer is left on the loop.
UndimKeepsTimer ==
    /\ Uncover
    /\ Restore
    /\ UNCHANGED timers

\* Mutation: the level is put back whatever it is by now.
UndimAnyway ==
    /\ Uncover
    /\ timers' = 0
    /\ backlight' = {}
    /\ \/ \E b \in backlight : setters' = Append(setters, b.before)
       \/ backlight = {} /\ UNCHANGED setters

\* dim::undim
Undim ==
    /\ Uncover
    /\ Restore
    /\ timers' = IF timers = 0 THEN 0 ELSE timers - 1

\* A backlight thread gets through to logind, in no particular order.
SetterDone(k) ==
    /\ up
    /\ level' = setters[k]
    /\ setters' = RemoveAt(setters, k)
    /\ UNCHANGED <<up, monitors, events, known, blanked, controls, dim, wanted, disturbed,
                   darkened, refused>>

\* ... or does not.
SetterFails(k) ==
    /\ up /\ Refusable
    /\ setters' = RemoveAt(setters, k)
    /\ disturbed' = TRUE
    /\ UNCHANGED <<up, monitors, events, known, blanked, controls, dim, level, wanted,
                   darkened, refused>>

-----------------------------------------------------------------------------
(* Events: OutputHandler in src/idle.rs, LayerShellHandler in src/dim.rs,    *)
(* Dispatch of the power controls in src/outputs.rs                          *)

Reads(o, e) == up /\ events[o] # <<>> /\ Head(events[o]) = e

\* Mutation: a monitor plugged in is dimmed with the rest, and not switched off.
NewOutputLit(o) ==
    /\ Reads(o, "new")
    /\ known' = known \cup {o}
    /\ AddOverlays(IF active /\ Layered THEN {o} ELSE {})
    /\ events' = [events EXCEPT ![o] = Put(Tail(@), Answer(o), active /\ Layered)]
    /\ UNCHANGED <<up, monitors, blanked, controls, active, pixels, step, timers, backlight,
                   panel, darkened, refused>>

\* Mutation: a monitor plugged in is switched off with the rest, and not dimmed.
NewOutputBare(o) ==
    /\ Reads(o, "new")
    /\ known' = known \cup {o}
    /\ IF blanked /\ HasPowerManager
       THEN SwitchOff({o})
       ELSE UNCHANGED <<controls, holder, power, darkened, refused>>
    /\ events' = [events EXCEPT ![o] =
          Put(Tail(@), "failed", blanked /\ HasPowerManager /\ o \notin Granted({o}))]
    /\ UNCHANGED <<up, plugged, blanked, dim, panel>>

\* new_output: dim_new_output, then blank_new_output
NewOutput(o) ==
    /\ Reads(o, "new")
    /\ known' = known \cup {o}
    /\ AddOverlays(IF active /\ Layered THEN {o} ELSE {})
    /\ IF blanked /\ HasPowerManager
       THEN SwitchOff({o})
       ELSE UNCHANGED <<controls, holder, power, darkened, refused>>
    /\ events' = [events EXCEPT ![o] =
          Put(Put(Tail(@), Answer(o), active /\ Layered),
              "failed", blanked /\ HasPowerManager /\ o \notin Granted({o}))]
    /\ UNCHANGED <<up, plugged, blanked, active, pixels, step, timers, backlight, panel>>

\* output_destroyed: forget_output twice
OutputDestroyed(o) ==
    /\ Reads(o, "gone")
    /\ known' = known \ {o}
    /\ controls' = controls \ {o}
    /\ overlays' = overlays \ {o}
    /\ drawn' = [drawn EXCEPT ![o] = {}]
    /\ events' = [events EXCEPT ![o] =
                    Void(Tail(@), {"configure", "closed"})]
    /\ UNCHANGED <<up, monitors, blanked, active, pixels, step, timers, backlight, panel,
                   darkened, refused>>

\* zwlr_output_power_v1::Event::Failed
Failed(o) ==
    /\ Reads(o, "failed")
    /\ controls' = controls \ {o}
    /\ events' = [events EXCEPT ![o] = Tail(@)]
    /\ UNCHANGED <<up, monitors, known, blanked, dim, panel, darkened, refused>>

\* Mutation: an overlay starts with the first pixel, however far the fade is.
ConfigureFromFirst(o) ==
    /\ Reads(o, "configure")
    /\ drawn' = [drawn EXCEPT ![o] = IF pixels /\ o \in overlays THEN {0} ELSE @]
    /\ events' = [events EXCEPT ![o] = Tail(@)]
    /\ UNCHANGED <<up, monitors, known, blanked, controls, active, overlays, pixels, step, timers,
                   backlight, panel, darkened, refused>>

\* LayerShellHandler::configure; without pixels the size is not even recorded
Configure(o) ==
    /\ Reads(o, "configure")
    /\ drawn' = [drawn EXCEPT ![o] = IF pixels /\ o \in overlays THEN {step} ELSE @]
    /\ events' = [events EXCEPT ![o] = Tail(@)]
    /\ UNCHANGED <<up, monitors, known, blanked, controls, active, overlays, pixels, step, timers,
                   backlight, panel, darkened, refused>>

\* LayerShellHandler::closed
Closed(o) ==
    /\ Reads(o, "closed")
    /\ overlays' = overlays \ {o}
    /\ drawn' = [drawn EXCEPT ![o] = {}]
    /\ events' = [events EXCEPT ![o] = Tail(@)]
    /\ UNCHANGED <<up, monitors, known, blanked, controls, active, pixels, step, timers,
                   backlight, panel, darkened, refused>>

Discard(o) ==
    /\ Reads(o, "void")
    /\ events' = [events EXCEPT ![o] = Tail(@)]
    /\ UNCHANGED <<up, monitors, known, blanked, controls, dim, panel, darkened, refused>>

-----------------------------------------------------------------------------
\* The end of run(): unblank_on_exit, and the process takes the rest with it:
\* overlays, timers, the backlight threads and what the backlight was.
Stop ==
    /\ up
    /\ up' = FALSE
    /\ IF blanked
       THEN /\ SwitchOn
            /\ power' = [o \in Outputs |-> IF o \in Held THEN "on" ELSE power[o]]
            /\ darkened' = darkened \ Held
       ELSE UNCHANGED <<blanked, controls, holder, events, refused, power, darkened>>
    /\ active' = FALSE
    /\ overlays' = {}
    /\ drawn' = [o \in Outputs |-> {}]
    /\ timers' = 0
    /\ backlight' = {}
    /\ setters' = <<>>
    /\ UNCHANGED <<plugged, known, pixels, step, level, wanted, disturbed>>

Next ==
    \/ \E o \in Outputs :
        \/ Plug(o) \/ Unplug(o) \/ OtherTakes(o) \/ OtherLeaves(o)
        \/ NewOutput(o) \/ OutputDestroyed(o)
        \/ Failed(o) \/ Configure(o) \/ Closed(o) \/ Discard(o)
    \/ Blank \/ Unblank
    \/ Dim \/ Undim \/ Fade
    \/ \E v \in 0 .. Brightest : Keys(v)
    \/ \E k \in DOMAIN setters : SetterDone(k) \/ SetterFails(k)
    \/ Stop

Spec == Init /\ [][Next]_vars

\* The loop runs its timers and reads what the compositor has to say.
FairSpec ==
    /\ Spec
    /\ WF_vars(Fade)
    /\ \A o \in Outputs :
        WF_vars(\/ NewOutput(o) \/ OutputDestroyed(o)
                \/ Failed(o) \/ Configure(o) \/ Closed(o) \/ Discard(o))

-----------------------------------------------------------------------------
(* Properties *)

\* The program leaves no monitor dark: what is off at its request, it knows to
\* be off, and still holds the control that brings it back (outputs.rs, and
\* unblank_on_exit for the way out).
NoneLeftDark ==
    \A o \in darkened : blanked /\ o \in controls /\ holder[o] = "us"

\* While the screens are off, so is every monitor, one plugged in meanwhile
\* too, except where the compositor refused (blank, blank_new_output).
AllDark ==
    blanked => \A o \in Outputs :
        In(o) /\ events[o] = <<>> => power[o] = "off" \/ o \in refused

\* The monitors' power is what the program last asked for, in both directions.
PowerAsAsked == NoneLeftDark /\ AllDark

\* Whatever order overlays appear and get their size in, the monitors that have
\* one are equally dark: one just plugged in as the others (redraw_all,
\* configure).
EquallyDim ==
    \A o \in Outputs : drawn[o] \subseteq {step}

\* ... and while the program dims, every monitor has one (dim_new_output).
AllDim ==
    active /\ Layered /\ pixels =>
        \A o \in Outputs : In(o) /\ events[o] = <<>> => drawn[o] # {}

\* The fade of a dim that was undone does not drive the next one.
OneFade ==
    timers <= (IF active THEN 1 ELSE 0)

\* All monitors dim as one: each has its overlay, all are at the same pixel, and
\* one timer drives them.
DimTogether == EquallyDim /\ AllDim /\ OneFade

\* The panel is never taken to zero, however often it is dimmed from wherever
\* the last dim left it (backlight::dimmed).
StaysLit ==
    wanted > 0 => level > 0

\* The panel is where the person last put it whenever the program is not dimming
\* it -- unless that is just where dimming had put it (undim).  The threads are
\* in no order, so this is so only while each has got through to logind before
\* the next undim, dim or touch of the brightness keys.
TheirsStands ==
    up /\ ~active /\ setters = <<>> /\ ~disturbed => level = wanted \/ wanted = Dimmed(level)

\* A dim that is not undone ends with every monitor at the fade's last pixel.
DimsFully ==
    active /\ Layered /\ pixels
        ~> ~active \/ \A o \in Outputs : In(o) => drawn[o] = {Steps - 1}
==============================================================================
