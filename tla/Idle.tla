-------------------------------- MODULE Idle --------------------------------
(***************************************************************************)
(* The main loop of wlrix-idle (src/idle.rs, src/notify.rs) together with  *)
(* the compositor's half of ext-idle-notify-v1 and the events the D-Bus    *)
(* threads send.  The loop is single threaded: one callback is one action. *)
(*                                                                         *)
(* A step of the configured profile holds at most one live notification    *)
(* object (`left`), whose countdown the compositor runs.  Events travel on *)
(* one FIFO (`wire`), so an event may still be on it when the object it is *)
(* for has been destroyed, or has lost the step it was made for (`stray`). *)
(*                                                                         *)
(* Not here: outputs coming and going, the fade and the backlight, what    *)
(* the D-Bus threads do between two events, controllers.                   *)
(***************************************************************************)
EXTENDS Naturals, Sequences, FiniteSets

CONSTANTS
    Boot,               \* the configuration read at startup
    Reloads,            \* what a reload may find: configurations, or Rejected
    Rejected,           \* a configuration file that does not parse
    HasPowerManager,    \* the compositor can switch monitors off
    Dbus,               \* started without --no-dbus
    Session,            \* [dbus] screensaver or power_management
    Logind,             \* [dbus] logind
    Laptop,             \* there is a lid and a battery
    MaxQuiet,           \* bound: ticks counted since the last restart
    MaxWire,            \* bound: events on the wire
    MaxStray            \* bound: objects that outlived their step

-----------------------------------------------------------------------------
(* Configuration *)

\* config.rs: what one timeout asks for.  `resume` stands for a command with
\* a resume_command; commands otherwise leave nothing behind in this program.
Timeout == [after : Nat \ {0}, dim : BOOLEAN, blank : BOOLEAN, lock : BOOLEAN,
            suspend : BOOLEAN, resume : BOOLEAN]

LidAction == {"suspend", "hibernate", "lock", "blank", "nothing"}

\* config.rs: the parts of a configuration the loop reads.  `steps` gives the
\* profile's timeouts on battery (TRUE) and off it, `locker` is whether [lock]
\* has a command, and the rest is [lid] and [before_sleep].
Config == [steps : [BOOLEAN -> Seq(Timeout)],
           lid : [docked : LidAction, on_ac : LidAction, on_battery : LidAction],
           locker : BOOLEAN, sleepLock : BOOLEAN, sleepBlank : BOOLEAN,
           sleepCommand : BOOLEAN]

Configs == {Boot} \cup (Reloads \ {Rejected})

ASSUME ConfigsAssumption == Configs \subseteq Config

ASSUME FlagsAssumption ==
    /\ {HasPowerManager, Dbus, Session, Logind, Laptop} \subseteq BOOLEAN
    /\ Session => Dbus
    /\ Logind => Dbus

ASSUME BoundsAssumption == {MaxQuiet, MaxWire, MaxStray} \subseteq Nat

\* BeforeSleep::does_something, asked of the startup configuration only: that
\* is when dbus::spawn decides whether to watch logind for suspends.
WantsLogind ==
    Logind /\ (Boot.sleepLock \/ Boot.sleepBlank \/ Boot.sleepCommand)

\* Lid::action
LidActionFor(c, docked, power) ==
    IF docked THEN c.lid.docked ELSE IF power THEN c.lid.on_ac ELSE c.lid.on_battery

-----------------------------------------------------------------------------
(* State *)

VARIABLES
    config,     \* the configuration in force
    onBattery,  \* which of its profiles
    steps,      \* that profile's timeouts, as last built
    fired,      \* the steps whose actions have run and are not yet undone
    inhibited,  \* something asked the session to stay awake
    blanked,    \* the monitors were switched off and are owed back
    dimmed,     \* the fade is up
    locker,     \* the locker is running
    phase       \* "starting" (the initial dispatch), "running", "stopped"

VARIABLES       \* the compositor, and the socket to it
    left,       \* steps with a notification |-> ticks to go
    idle,       \* those whose `idled` has been sent
    stray,      \* notifications the program no longer has a handle on
    wire        \* events sent and not yet dispatched

VARIABLES       \* the D-Bus side, as the loop sees it
    active,     \* Shared.active: what GetActive answers
    asking,     \* a suspend or hibernate request is unanswered
    lidClosed,  \* what the lid last reported
    power       \* "down" from a BeforeSleep to the next AfterSleep, else "awake"

VARIABLES       \* history, read by no action's guard
    quiet,      \* ticks since the countdowns last restarted
    owed,       \* timeouts whose resume_command has yet to run
    asked       \* a suspend was asked for since the machine last woke

program == <<config, onBattery, steps, inhibited, phase>>
screen == <<blanked, dimmed>>
protocol == <<left, idle, wire, quiet>>
outside == <<asking, lidClosed, power, asked>>
vars == <<program, fired, screen, locker, protocol, stray, active, outside, owed>>

\* "own": the object is a step's notification.  "stray": it was, until the
\* steps were rebuilt.  "gone": it has been destroyed.
Event == [kind : {"idled", "resumed"}, index : Nat, from : {"own", "stray", "gone"}]

Stray == [index : Nat, after : Nat, left : Nat, idle : BOOLEAN]

ProgramOK ==
    /\ config \in Configs
    /\ onBattery \in BOOLEAN
    /\ steps \in Seq(Timeout)
    /\ fired \subseteq DOMAIN steps
    /\ inhibited \in BOOLEAN /\ blanked \in BOOLEAN
    /\ dimmed \in BOOLEAN /\ locker \in BOOLEAN
    /\ phase \in {"starting", "running", "stopped"}

ProtocolOK ==
    /\ DOMAIN left \subseteq DOMAIN steps
    /\ left \in [DOMAIN left -> Nat]
    /\ idle \subseteq DOMAIN left
    /\ stray \subseteq Stray
    /\ wire \in Seq(Event)

OutsideOK ==
    /\ active \in BOOLEAN /\ asking \in BOOLEAN
    /\ lidClosed \in BOOLEAN /\ asked \in BOOLEAN
    /\ power \in {"awake", "down"}
    /\ quiet \in 0..MaxQuiet
    /\ owed \subseteq Timeout

\* Every variable has its type; in particular every index that is fired, armed
\* or idle is one of the steps as they now are, although rebuild_steps may
\* shorten the list under all three.
TypeOK == ProgramOK /\ ProtocolOK /\ OutsideOK

NoCountdown == [i \in {} |-> 0]

Init ==
    /\ config = Boot
    /\ onBattery = FALSE
    /\ steps = Boot.steps[FALSE]
    /\ fired = {}
    /\ inhibited = FALSE
    /\ blanked = FALSE
    /\ dimmed = FALSE
    /\ locker = FALSE
    /\ phase = "starting"
    /\ left = NoCountdown
    /\ idle = {}
    /\ stray = {}
    /\ wire = <<>>
    /\ active = FALSE
    /\ asking = FALSE
    /\ lidClosed = FALSE
    /\ power = "awake"
    /\ quiet = 0
    /\ owed = {}
    /\ asked = FALSE

\* The loop is taking callbacks.
Up == phase \in {"starting", "running"}

-----------------------------------------------------------------------------
(* The events on the wire, when their objects change hands *)

\* Events for a destroyed object are dropped when they are dispatched.
Destroyed(w) ==
    [k \in DOMAIN w |-> [w[k] EXCEPT !.from = IF @ = "own" THEN "gone" ELSE @]]

\* Dropping a Step drops its proxy, which does not destroy the object: its
\* events go on arriving, with the index it was made with.
Orphaned(w) ==
    [k \in DOMAIN w |-> [w[k] EXCEPT !.from = IF @ = "own" THEN "stray" ELSE @]]

Strays ==
    stray \cup { [index |-> i, after |-> steps[i].after, left |-> left[i], idle |-> i \in idle]
                   : i \in DOMAIN left }

-----------------------------------------------------------------------------
(* What the handlers are made of *)

\* Idle::disarm_all.  w is the wire beforehand.
Disarm(w) ==
    /\ left' = NoCountdown
    /\ idle' = {}
    /\ wire' = Destroyed(w)
    /\ quiet' = 0

\* Mutation: arm_all without its early return.
ArmAllEvenHeld(s, w, held) ==
    /\ left' = [i \in DOMAIN s |-> s[i].after]
    /\ idle' = {}
    /\ wire' = Destroyed(w)
    /\ quiet' = 0

\* Idle::arm_all: a fresh notification for every step of s, or none while
\* something holds the session awake.
ArmAll(s, w, held) ==
    IF held THEN Disarm(w)
    ELSE /\ left' = [i \in DOMAIN s |-> s[i].after]
         /\ idle' = {}
         /\ wire' = Destroyed(w)
         /\ quiet' = 0

\* Idle::rebuild_steps and the arm_all after it, for profile b of c.
Rebuild(c, b) ==
    /\ steps' = c.steps[b]
    /\ stray' = Strays
    /\ Cardinality(stray') <= MaxStray
    /\ ArmAll(c.steps[b], Orphaned(wire), inhibited)

\* outputs::blank and Idle::lock, when asked
Blank(wanted) == blanked' = (blanked \/ (wanted /\ HasPowerManager))
Lock(wanted) == locker' = (locker \/ (wanted /\ config.locker))

\* Mutation: unwind without undim.
UnwindForgetsDim ==
    /\ blanked' = FALSE
    /\ fired' = {}
    /\ owed' = owed \ {steps[i] : i \in fired}
    /\ active' = (active /\ ~blanked /\ ~dimmed /\ fired = {})
    /\ UNCHANGED dimmed

\* Idle::unwind: nothing, or everything at once; the locker stays.
Unwind ==
    /\ blanked' = FALSE
    /\ dimmed' = FALSE
    /\ fired' = {}
    /\ owed' = owed \ {steps[i] : i \in fired}
    /\ active' = (active /\ ~blanked /\ ~dimmed /\ fired = {})

\* Mutation: publish_active counts only the monitors.
PublishBlanked(wanted) == active' = (active \/ (Session /\ wanted /\ blanked'))

\* Idle::publish_active, once a timeout has fired
PublishFired(wanted) == active' = (active \/ (Session /\ wanted))

\* Idle::went_idle
WentIdle(i) ==
    IF i \in DOMAIN steps \ fired
    THEN LET t == steps[i] IN
         /\ fired' = fired \cup {i}
         /\ dimmed' = (dimmed \/ t.dim)
         /\ Lock(t.lock)
         /\ Blank(t.blank)
         /\ asking' = (asking \/ (t.suspend /\ Dbus))
         /\ asked' = (asked \/ (t.suspend /\ Dbus))
         /\ owed' = IF t.resume THEN owed \cup {t} ELSE owed
         /\ PublishFired(TRUE)
    ELSE UNCHANGED <<fired, screen, locker, asking, asked, owed, active>>

-----------------------------------------------------------------------------
(* The compositor *)

\* A countdown that has run out is announced before more time passes.
Due ==
    \/ \E i \in DOMAIN left \ idle : left[i] = 0
    \/ \E s \in stray : s.left = 0 /\ ~s.idle

Less(n) == IF n > 0 THEN n - 1 ELSE 0

\* A second, say, without input.  The first dispatch waits for less.
Tick ==
    /\ phase = "running"
    /\ ~Due
    /\ left' = [i \in DOMAIN left |-> Less(left[i])]
    /\ stray' = { [s EXCEPT !.left = Less(@)] : s \in stray }
    /\ quiet' = IF quiet < MaxQuiet THEN quiet + 1 ELSE quiet
    /\ UNCHANGED <<program, fired, screen, locker, idle, wire, active, outside, owed>>

Send(kind, index, from) ==
    /\ Len(wire) < MaxWire
    /\ wire' = Append(wire, [kind |-> kind, index |-> index, from |-> from])

ExpireOwn(i) ==
    /\ left[i] = 0
    /\ i \notin idle
    /\ idle' = idle \cup {i}
    /\ Send("idled", i, "own")
    /\ UNCHANGED <<program, fired, screen, locker, left, quiet, stray, active, outside, owed>>

ExpireStray(s) ==
    /\ s.left = 0
    /\ ~s.idle
    /\ stray' = (stray \ {s}) \cup {[s EXCEPT !.idle = TRUE]}
    /\ Send("idled", s.index, "stray")
    /\ UNCHANGED <<program, fired, screen, locker, left, idle, quiet, active, outside, owed>>

\* Input restarts every countdown, and the objects that had gone idle are
\* told in one burst, which one event stands for.
Input ==
    /\ phase # "stopped"
    /\ left' = [i \in DOMAIN left |-> steps[i].after]
    /\ stray' = { [s EXCEPT !.left = s.after, !.idle = FALSE] : s \in stray }
    /\ idle' = {}
    /\ quiet' = 0
    /\ IF \E s \in stray : s.idle THEN Send("resumed", 0, "stray")
       ELSE IF idle # {} THEN Send("resumed", 0, "own")
       ELSE UNCHANGED wire
    /\ UNCHANGED <<program, fired, screen, locker, active, outside, owed>>

Expire == (\E i \in DOMAIN left : ExpireOwn(i)) \/ (\E s \in stray : ExpireStray(s))

-----------------------------------------------------------------------------
(* The loop: notifications *)

Receive(kind) ==
    /\ Up
    /\ wire # <<>>
    /\ Head(wire).kind = kind
    /\ Head(wire).from # "gone"
    /\ wire' = Tail(wire)

DispatchIdled ==
    /\ Receive("idled")
    /\ WentIdle(Head(wire).index)
    /\ UNCHANGED <<program, left, idle, quiet, stray, lidClosed, power>>

\* Mutation: `resumed` is looked at only while the monitors are off.
DispatchResumedWhenDark ==
    /\ Receive("resumed")
    /\ IF blanked THEN Unwind ELSE UNCHANGED <<fired, screen, active, owed>>
    /\ UNCHANGED <<program, locker, left, idle, quiet, stray, outside>>

\* No arm_all: the compositor has restarted the countdowns itself.
DispatchResumed ==
    /\ Receive("resumed")
    /\ Unwind
    /\ UNCHANGED <<program, locker, left, idle, quiet, stray, outside>>

DispatchGone ==
    /\ Up
    /\ wire # <<>>
    /\ Head(wire).from = "gone"
    /\ wire' = Tail(wire)
    /\ UNCHANGED <<program, fired, screen, locker, left, idle, quiet, stray, active, outside, owed>>

Dispatch == DispatchIdled \/ DispatchResumed \/ DispatchGone

-----------------------------------------------------------------------------
(* The loop: events from the D-Bus threads and from controllers *)

\* Mutation: activity restarts the countdowns without undoing anything.
ActivityOnlyArms ==
    /\ Up
    /\ ArmAll(steps, wire, inhibited)
    /\ UNCHANGED <<program, fired, screen, locker, stray, active, outside, owed>>

\* Idle::activity
Activity ==
    /\ Up
    /\ Unwind
    /\ ArmAll(steps, wire, inhibited)
    /\ UNCHANGED <<program, locker, stray, outside>>

\* Mutation: a hold undoes the timeouts and leaves the countdowns running.
SetInhibitedStillCounting(b) ==
    /\ Up /\ Session
    /\ b # inhibited
    /\ inhibited' = b
    /\ IF b THEN Unwind ELSE UNCHANGED <<fired, screen, active, owed>>
    /\ IF b THEN UNCHANGED protocol ELSE ArmAll(steps, wire, b)
    /\ UNCHANGED <<config, onBattery, steps, phase, locker, stray, outside>>

\* Mutation: the end of a hold does not start the countdowns again.
SetInhibitedForGood(b) ==
    /\ Up /\ Session
    /\ b # inhibited
    /\ inhibited' = b
    /\ IF b THEN Unwind ELSE UNCHANGED <<fired, screen, active, owed>>
    /\ Disarm(wire)
    /\ UNCHANGED <<config, onBattery, steps, phase, locker, stray, outside>>

\* Idle::set_inhibited
SetInhibited(b) ==
    /\ Up /\ Session
    /\ b # inhibited
    /\ inhibited' = b
    /\ IF b THEN Unwind ELSE UNCHANGED <<fired, screen, active, owed>>
    /\ IF b THEN Disarm(wire) ELSE ArmAll(steps, wire, b)
    /\ UNCHANGED <<config, onBattery, steps, phase, locker, stray, outside>>

\* Event::Lock
LockAsked ==
    /\ Up /\ Session
    /\ Lock(TRUE)
    /\ UNCHANGED <<program, fired, screen, protocol, stray, active, outside, owed>>

\* Idle::lid on opening
LidOpened ==
    /\ Up /\ Logind /\ Laptop
    /\ lidClosed
    /\ lidClosed' = FALSE
    /\ Unwind
    /\ ArmAll(steps, wire, inhibited)
    /\ UNCHANGED <<program, locker, stray, asking, power, asked>>

\* Idle::lid on shutting, with what the thread read of the dock and the mains
LidShut(docked, external) ==
    LET action == LidActionFor(config, docked, external)
        sleeps == action \in {"suspend", "hibernate"} IN
    /\ Up /\ Logind /\ Laptop
    /\ ~lidClosed
    /\ lidClosed' = TRUE
    /\ asking' = (asking \/ sleeps)
    /\ asked' = (asked \/ sleeps)
    /\ Lock(action = "lock")
    /\ Blank(action \in {"lock", "blank"})
    /\ UNCHANGED <<program, fired, dimmed, protocol, stray, active, power, owed>>

\* Mutation: the power source changes and the old profile's steps are armed.
OnBatteryOldSteps(b) ==
    /\ Up /\ Dbus /\ Laptop
    /\ b # onBattery
    /\ onBattery' = b
    /\ Unwind
    /\ ArmAll(steps, wire, inhibited)
    /\ UNCHANGED <<config, steps, inhibited, phase, locker, stray, outside>>

\* Idle::set_on_battery; a report of no change is returned from early
OnBattery(b) ==
    /\ Up /\ Dbus /\ Laptop
    /\ b # onBattery
    /\ onBattery' = b
    /\ Unwind
    /\ Rebuild(config, b)
    /\ UNCHANGED <<config, inhibited, phase, locker, outside>>

\* The answer to Handle::sleep.  A refusal is handled on the loop.
SleepAnswered(refused) ==
    /\ Up
    /\ asking
    /\ asking' \in BOOLEAN
    /\ Lock(refused)
    /\ Blank(refused)
    /\ UNCHANGED <<program, fired, dimmed, protocol, stray, active, lidClosed, power, asked, owed>>

\* Idle::before_sleep
BeforeSleep ==
    /\ Up /\ WantsLogind
    /\ power' = "down"
    /\ Lock(config.sleepLock)
    /\ Blank(config.sleepBlank)
    /\ UNCHANGED <<program, fired, dimmed, protocol, stray, active, asking, lidClosed, asked, owed>>

\* Mutation: nothing is cleared on waking.
AfterSleepKeepsFired ==
    /\ Up /\ WantsLogind
    /\ power' = "awake"
    /\ asked' = FALSE
    /\ ArmAll(steps, wire, inhibited)
    /\ UNCHANGED <<program, fired, screen, locker, stray, active, asking, lidClosed, owed>>

\* Mutation: everything is cleared on waking.
AfterSleepClearsAll ==
    /\ Up /\ WantsLogind
    /\ power' = "awake"
    /\ asked' = FALSE
    /\ fired' = {}
    /\ ArmAll(steps, wire, inhibited)
    /\ UNCHANGED <<program, screen, locker, stray, active, asking, lidClosed, owed>>

\* Mutation: the countdowns are not restarted on waking.
AfterSleepNoArm ==
    /\ Up /\ WantsLogind
    /\ power' = "awake"
    /\ asked' = FALSE
    /\ fired' = {i \in fired : ~steps[i].suspend}
    /\ UNCHANGED <<program, screen, locker, protocol, stray, active, asking, lidClosed, owed>>

\* Idle::after_sleep: fresh countdowns, and the screen left as it is.  The
\* BeforeSleep of a thread that was not yet subscribed never came.
AfterSleep ==
    /\ Up /\ WantsLogind
    /\ power' = "awake"
    /\ asked' = FALSE
    /\ fired' = {i \in fired : ~steps[i].suspend}
    /\ ArmAll(steps, wire, inhibited)
    /\ UNCHANGED <<program, screen, locker, stray, active, asking, lidClosed, owed>>

\* The machine sleeps and wakes with nobody here watching logind.
SleepUnseen ==
    /\ Up /\ ~WantsLogind
    /\ asked' = FALSE
    /\ UNCHANGED <<program, fired, screen, locker, protocol, stray, active, asking, lidClosed, power, owed>>

-----------------------------------------------------------------------------
(* The loop: signals, startup, the end *)

\* Idle::reload
Reload(r) ==
    /\ Up
    /\ Unwind
    /\ IF r = Rejected
       THEN /\ ArmAll(steps, wire, inhibited)
            /\ UNCHANGED <<config, steps, stray>>
       ELSE /\ config' = r
            /\ Rebuild(r, onBattery)
    /\ UNCHANGED <<onBattery, inhibited, phase, locker, outside>>

\* The first dispatch is over; only now do the countdowns start.
BootArm ==
    /\ phase = "starting"
    /\ phase' = "running"
    /\ ArmAll(steps, wire, inhibited)
    /\ UNCHANGED <<config, onBattery, steps, inhibited, fired, screen, locker,
                   stray, active, outside, owed>>

\* The end of run(): a stop signal was noticed after a dispatch, or the
\* compositor went away.  Disconnecting destroys every object.
Stop ==
    /\ phase = "running"
    /\ phase' = "stopped"
    /\ blanked' = FALSE
    /\ left' = NoCountdown
    /\ idle' = {}
    /\ wire' = <<>>
    /\ stray' = {}
    /\ UNCHANGED <<config, onBattery, steps, inhibited, fired, dimmed, locker,
                   quiet, active, outside, owed>>

\* The user unlocked, or the locker died.
LockerExits ==
    /\ locker
    /\ locker' = FALSE
    /\ UNCHANGED <<program, fired, screen, protocol, stray, active, outside, owed>>

-----------------------------------------------------------------------------
Next ==
    \/ Tick
    \/ Expire
    \/ Input
    \/ Dispatch
    \/ Activity
    \/ \E b \in BOOLEAN : SetInhibited(b)
    \/ LockAsked
    \/ LidOpened
    \/ \E docked, external \in BOOLEAN : LidShut(docked, external)
    \/ \E b \in BOOLEAN : OnBattery(b)
    \/ \E refused \in BOOLEAN : SleepAnswered(refused)
    \/ BeforeSleep
    \/ AfterSleep
    \/ SleepUnseen
    \/ \E r \in Reloads : Reload(r)
    \/ BootArm
    \/ Stop
    \/ LockerExits

Spec == Init /\ [][Next]_vars

\* The compositor's clock and timers run, the loop dispatches what it is sent
\* and gets past its first dispatch.  Nothing obliges anyone else to act.
FairSpec ==
    /\ Spec
    /\ WF_vars(Tick)
    /\ WF_vars(Expire)
    /\ WF_vars(Dispatch)
    /\ WF_vars(BootArm)

-----------------------------------------------------------------------------
(* Safety *)

Live(m) == m.from # "gone"
ResumedOnWire == \E k \in DOMAIN wire : wire[k].kind = "resumed" /\ Live(wire[k])

\* Once running, the steps that hold a notification are all of them, or none
\* while the session is held awake: no sequence of holds, lid movements,
\* reloads, suspends and profile switches leaves a step without its countdown
\* or a held session counting (arm_all, disarm_all and their callers).
ArmedIffFree ==
    phase = "running" => DOMAIN left = IF inhibited THEN {} ELSE DOMAIN steps

\* The event of own step i that is on the wire with nothing behind it that
\* would undo it.
Announced(i) ==
    \E k \in DOMAIN wire :
        /\ wire[k] = [kind |-> "idled", index |-> i, from |-> "own"]
        /\ \A j \in DOMAIN wire : j > k => ~(wire[j].kind = "resumed" /\ Live(wire[j]))

\* A notification that went idle says nothing more until there is input, so
\* its one event must not be lost: its step has fired, or the event is still
\* to come (arm_all recreates every object for exactly this reason).
NoDeadCountdown ==
    \A i \in idle : Announced(i) \/ (i \in fired /\ ~ResumedOnWire)

\* The step list is the one the configuration in force gives for the power
\* source in force, whichever of the two changed last (rebuild_steps).
StepsMatchProfile ==
    steps = config.steps[onBattery]

\* The countdowns are the right ones: of the profile in force, all of them
\* unless the session is held awake, and each of them still able to say that
\* its time has come.
CountdownsRight ==
    ArmedIffFree /\ NoDeadCountdown /\ StepsMatchProfile

\* While a timeout is in force GetActive says so (publish_active).
ActiveWhileFired ==
    Session /\ fired # {} => active

\* The commands still owed their resume_command are exactly those of the
\* timeouts in force: none is forgotten by a reload, a profile switch or a
\* hold, and none is left to run twice (unwind).
CommandsUndone ==
    owed = {steps[i] : i \in {j \in fired : steps[j].resume}}

\* What the timeouts in force have done and told others is owed its undoing, and
\* nothing else is, whatever a suspend made the program forget.
FiredIsOwed ==
    ActiveWhileFired /\ CommandsUndone

\* A suspend timeout that is marked as fired has asked for a suspend since
\* the machine last woke; otherwise it would never ask again (after_sleep).
SleepsAgain ==
    power = "awake" /\ (\E i \in fired : steps[i].suspend /\ Dbus) => asked

\* The compositor will tell the program of the next input, or has done so.
WayBack ==
    idle # {} \/ (\E s \in stray : s.idle) \/ ResumedOnWire

\* Whatever a timeout did, the next touch of the mouse undoes: the `resumed`
\* that unwind waits for is still to come (notify.rs).
WakesOnInput ==
    Up /\ (blanked \/ dimmed \/ fired # {}) => WayBack

-----------------------------------------------------------------------------
(* Action properties *)

\* A timeout fires only when its own time has passed since the countdowns
\* last restarted -- or when the input that restarted them is on its heels.
\* Rebuilding the steps breaks this, and the next; without it both are theorems.
FiresOnTime ==
    [][ \A i \in fired' \ fired : quiet >= steps[i].after \/ ResumedOnWire ]_vars

\* No timeout fires while the session is held awake (set_inhibited disarms).
HeldQuiet ==
    [][ inhibited => fired' \subseteq fired ]_vars

\* The next event is from an object that has lost its step.
StrayHeard == wire # <<>> /\ Head(wire).from = "stray"

\* Whatever reloads and power sources do to the steps, nothing but such an
\* object fires a timeout before its time or while the session is held awake:
\* no event of a notification that was destroyed, or belongs to a step, does
\* (arm_all, disarm_all, rebuild_steps).
OnlyStraysMislead ==
    [][ \A i \in fired' \ fired :
            StrayHeard \/ (~inhibited /\ (quiet >= steps[i].after \/ ResumedOnWire)) ]_vars

-----------------------------------------------------------------------------
(* Liveness *)

Calm == phase = "running" /\ ~inhibited /\ quiet = MaxQuiet

\* A session nobody touches or holds ends up with every timeout fired.
IdleEventually == <>[]Calm => <>[](fired = DOMAIN steps)

\* Input that the compositor has reported is acted on.
ResumedUndoes ==
    ResumedOnWire ~> ((fired = {} /\ ~blanked /\ ~dimmed) \/ phase = "stopped")

-----------------------------------------------------------------------------
(* What all this is for *)

Screen == INSTANCE Curtain WITH
    shown <- IF phase = "stopped" THEN {}
             ELSE {v \in {"dark", "dim"} : IF v = "dark" THEN blanked ELSE dimmed},
    locked <- locker,
    up <- phase # "stopped"

\* The loop implements Curtain: no handler ever takes back part of what is
\* over the screen, and none of them ends the locker.
ImplementsCurtain == Screen!Spec
=============================================================================
