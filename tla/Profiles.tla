------------------------------- MODULE Profiles -------------------------------
(***************************************************************************)
(* Which countdowns are in force: the thread that watches the power source *)
(* over the system bus (src/dbus/upower.rs), the settings it chooses from  *)
(* (module Config), and the loop that reads the file again when asked to   *)
(* (src/idle.rs: reload, set_on_battery, rebuild_steps).                   *)
(*                                                                         *)
(* The plug may be pulled at any moment, UPower may be restarted, and      *)
(* somebody may edit the file, or break it, without asking for a reload.   *)
(***************************************************************************)
EXTENDS Config

CONSTANTS
    Named,          \* started with --config
    Disks,          \* what the files may be when the program starts
    Edits,          \* what they may be edited to
    MaxSignals,     \* bound: signals queued for the thread
    MaxChannel      \* bound: events sent to the loop and not yet taken

ASSUME NamedAssumption == Named \in BOOLEAN
ASSUME DisksAssumption == Disks \subseteq Disk /\ Edits \subseteq Disk
ASSUME BoundsAssumption == MaxSignals \in Nat /\ MaxChannel \in Nat

VARIABLES       \* the machine
    battery,    \* it runs on its battery
    upower,     \* UPower answers
    disk        \* the files

VARIABLES       \* the thread
    source,     \* "starting", "read", "listening", "asked", "ended"
    last,       \* its local of that name
    changes,    \* PropertiesChanged signals for it
    channel     \* the values it has sent

VARIABLES       \* the main loop
    config,
    onBattery,
    steps

VARIABLES       \* history, read by no action's guard
    written,    \* the settings config came from, as the file has them
    unheard     \* the power source may have changed since it was last read,
                \* with nothing on its way to say so

thread == <<source, last, changes, unheard>>
settings == <<config, written>>
loop == <<settings, onBattery, steps>>
vars == <<battery, upower, disk, thread, channel, loop>>

TypeOK ==
    /\ {battery, upower, last, onBattery, unheard} \subseteq BOOLEAN
    /\ disk \in Disk
    /\ source \in {"starting", "read", "listening", "asked", "ended"}
    /\ changes \in 0 .. MaxSignals
    /\ channel \in Seq(BOOLEAN)
    /\ config \in Settings /\ written \in Settings
    /\ steps \in Seq(Timeout)

\* What a file that is used has in it.
Written(f) == IF Accepts(f) THEN f.holds ELSE Default

\* main and run: whatever load answers is used, and no power source is known.
Init ==
    /\ battery \in BOOLEAN /\ upower \in BOOLEAN
    /\ disk \in Disks
    /\ source = "starting" /\ last = FALSE /\ changes = 0 /\ unheard = FALSE
    /\ channel = <<>>
    /\ config = Load(Found(disk, Named))
    /\ written = Written(Found(disk, Named))
    /\ onBattery = FALSE
    /\ steps = Steps(config, FALSE)

-----------------------------------------------------------------------------
(* The machine *)

\* The plug is pulled or put in.  UPower says so, to whoever listens by then.
PowerMoves ==
    /\ battery' = ~battery
    /\ IF upower /\ source \in {"listening", "asked"}
       THEN changes < MaxSignals /\ changes' = changes + 1 /\ UNCHANGED unheard
       ELSE unheard' = TRUE /\ UNCHANGED changes
    /\ UNCHANGED <<upower, disk, source, last, channel, loop>>

UPowerRestarts ==
    /\ upower' = ~upower
    /\ UNCHANGED <<battery, disk, thread, channel, loop>>

Edit ==
    /\ disk' \in Edits
    /\ UNCHANGED <<battery, upower, thread, channel, loop>>

-----------------------------------------------------------------------------
(* upower::run *)

\* upower::read: what UPower answers, or plugged in if it does not.
OnBatterySays == upower /\ battery

Send(value) ==
    /\ Len(channel) < MaxChannel
    /\ channel' = Append(channel, value)

\* There may be no bus, or no way to watch it.
GiveUp ==
    /\ source = "starting"
    /\ source' = "ended"
    /\ UNCHANGED <<battery, upower, disk, last, changes, unheard, channel, loop>>

\* The match rule is added and the first value read.
ReadFirst ==
    /\ source = "starting"
    /\ source' = "read"
    /\ last' = OnBatterySays
    /\ unheard' = ~upower
    /\ UNCHANGED <<battery, upower, disk, changes, channel, loop>>

\* It is sent, and only now is there an iterator to keep what signals say.
Listen ==
    /\ source = "read"
    /\ source' = "listening"
    /\ Send(last)
    /\ UNCHANGED <<battery, upower, disk, last, changes, unheard, loop>>

\* A signal, whose content is not looked at.
Hear ==
    /\ source = "listening" /\ changes > 0
    /\ source' = "asked"
    /\ changes' = changes - 1
    /\ UNCHANGED <<battery, upower, disk, last, unheard, channel, loop>>

\* Mutation: the loop is told nothing after the first value.
ReadAgainSilent ==
    /\ source = "asked"
    /\ source' = "listening"
    /\ last' = OnBatterySays
    /\ unheard' = ~upower
    /\ UNCHANGED <<battery, upower, disk, changes, channel, loop>>

\* The value is read again, and sent if it is another.
ReadAgain ==
    /\ source = "asked"
    /\ source' = "listening"
    /\ last' = OnBatterySays
    /\ unheard' = ~upower
    /\ IF last' # last THEN Send(last') ELSE UNCHANGED channel
    /\ UNCHANGED <<battery, upower, disk, changes, loop>>

-----------------------------------------------------------------------------
(* The loop *)

\* Only the loop takes from the channel.
Taken == channel # <<>> /\ channel' = Tail(channel)

\* Idle::set_on_battery, and the rebuild_steps in it.
LoopTakes ==
    /\ Taken
    /\ onBattery' = Head(channel)
    /\ steps' = IF onBattery' = onBattery THEN steps ELSE Steps(config, onBattery')
    /\ UNCHANGED <<battery, upower, disk, thread, settings>>

\* Mutation: a file that cannot be used is as good as none.
ReloadAnyway ==
    /\ config' = Load(Found(disk, Named))
    /\ written' = Written(Found(disk, Named))
    /\ steps' = Steps(config', onBattery)
    /\ UNCHANGED <<battery, upower, disk, thread, channel, onBattery>>

\* Mutation: the steps are built for the mains.
ReloadPluggedIn ==
    IF SourceOf(Found(disk, Named), Named) = "rejected" THEN UNCHANGED vars
    ELSE /\ config' = Load(Found(disk, Named))
         /\ written' = Written(Found(disk, Named))
         /\ steps' = Steps(config', FALSE)
         /\ UNCHANGED <<battery, upower, disk, thread, channel, onBattery>>

\* Idle::reload, when what it finds is not rejected; else all stays.
Reload ==
    /\ SourceOf(Found(disk, Named), Named) # "rejected"
    /\ config' = Load(Found(disk, Named))
    /\ written' = Written(Found(disk, Named))
    /\ steps' = Steps(config', onBattery)
    /\ UNCHANGED <<battery, upower, disk, thread, channel, onBattery>>

-----------------------------------------------------------------------------
Next ==
    \/ PowerMoves \/ UPowerRestarts \/ Edit
    \/ GiveUp \/ ReadFirst \/ Listen \/ Hear \/ ReadAgain
    \/ LoopTakes \/ Reload

Spec == Init /\ [][Next]_vars

\* The thread and the loop run; the machine and its user do what they like.
FairSpec == Spec /\ WF_source(Listen \/ Hear \/ ReadAgain) /\ WF_channel(Taken)

-----------------------------------------------------------------------------
(* Properties *)

\* Once everything said of the power source has been heard, the countdowns in
\* force are those of the source the machine is on, in the file last taken,
\* whichever of the two changed last -- unless the plug moved while the thread
\* was not listening yet, or UPower did not answer.
ProfileFitsSource ==
    source = "listening" /\ changes = 0 /\ channel = <<>>
        => steps = Steps(config, battery) \/ unheard

\* Every countdown in force has a time that can be waited for and something to
\* do at its end.
EveryStepWorks ==
    \A k \in DOMAIN steps : steps[k].after \in 1 .. MaxTimeout /\ DoesSomething(steps[k])

\* The countdowns are soonest first, which is what unwind goes by to undo the
\* latest first.
SoonestFirst ==
    \A j, k \in DOMAIN steps : j < k => steps[j].after <= steps[k].after

\* None of the timeouts written down is lost or doubled on its way through
\* dropping, cutting and sorting twice, and the profile's come on top of them.
NothingLost ==
    LET cut(k) == [written.timeouts[k] EXCEPT !.after = AtMost(@, MaxTimeout)]
        asked == {k \in DOMAIN written.timeouts : Usable(written.timeouts[k])}
        own == ProfileTimeouts(ProfileFor(config, onBattery))
    IN  /\ Len(steps) = Len(own) + Cardinality(asked)
        /\ \A k \in asked :
              Cardinality({n \in DOMAIN steps : steps[n] = cut(k)})
                  = Cardinality({j \in asked : cut(j) = cut(k)})
                        + Cardinality({n \in DOMAIN own : own[n] = cut(k)})

\* The countdowns in force are all those the file asks for, in their order, and
\* only such as work.
StepsAsAsked == EveryStepWorks /\ SoonestFirst /\ NothingLost

\* A dim of the profile comes while there is something to see it on, even when
\* both were cut to a day.
DimIsSeen ==
    written.timeouts = <<>> =>
        \A j, k \in DOMAIN steps :
            steps[j].dim /\ (steps[k].blank \/ steps[k].suspend)
                => steps[j].after < steps[k].after

\* The session is locked before the machine sleeps whenever the file allows it
\* and names a locker, and never without one.
LocksIfItCan ==
    config.before_sleep.lock <=> written.before_sleep.lock /\ written.locker = "set"

\* What other threads take from the settings is in the range they rely on: a
\* stick can move far enough (Pad), and the wait before a sleep ends.
InRange ==
    /\ config.gamepad.deadzone \in DeadZones
    /\ config.gamepad.interval \in Intervals
    /\ config.before_sleep.timeout \in Waits

\* A file that --check-config would refuse, or one that was named and is not
\* there, never takes the place of settings that work.
LastGoodStands ==
    [][ config' # config =>
          Accepts(Found(disk, Named)) \/ (~Named /\ Found(disk, Named).kind = "missing") ]_vars

\* The plug is noticed in the end, once the thread listens.
PlugNoticed ==
    \A b \in BOOLEAN :
        (source = "listening" /\ battery = b) ~> (onBattery = b \/ battery # b \/ unheard)
=============================================================================
