# wlrix-idle, specified

TLA+ modules of the wlRIX idle daemon (`src/`), TLC configurations that check them on small instances, and theorems
about them that TLAPS proves for every value of their constants. `PROJECT.json` maps each definition to the lines it
models; this file explains the whole.

    tlasany M.tla                           # parse
    tlc -workers 2 -config X.cfg M.tla      # model-check: the table under "Runs" says which module
    tlapm MProofs.tla                       # check the proofs

## The system

One process per session. Its main loop is a single-threaded calloop: Wayland events, D-Bus events and signals are
callbacks on one `Idle`. A few threads block on D-Bus and send the loop messages over one channel.

| Part | Source (`src/src/`) | State | Operations | What makes it right |
|---|---|---|---|---|
| Main loop | `idle.rs`, `notify.rs` | configuration, profile, steps with their notification objects, fired steps, hold, blanked, dimmed, locker | a notification idles or resumes, controller activity, a hold starts or ends, power source, lid, before and after sleep, refused sleep, reload, stop | countdowns run exactly while nothing holds; what fired is undone by the next input, all of it, once; the steps are the profile's |
| Outputs | `outputs.rs` | a power control per blanked output | blank, unblank, a new output, one gone, a control that failed, exit | no monitor is left dark; none stays lit in a dark session |
| Dimming | `dim.rs` | overlays, step of the fade, its timer, the panel's level before | dim, undim, timer, configure, closed, new and lost output | all monitors equally dark; one fade |
| Backlight | `backlight.rs`, `dim.rs` | the panel, and a thread for each level being set | dim to a third, put back | a lit panel stays lit; a person's level is not overwritten |
| Inhibits | `dbus/inhibit.rs`, `screensaver.rs`, `power.rs`, `mod.rs` | two maps from cookies to holders, the last cookie | Inhibit, UnInhibit, a client departs, report | cookies unique; only owners release; the loop knows what the registry knows |
| logind thread | `dbus/logind.rs` | a delay inhibitor, a queue of answers | PrepareForSleep, answer, timeout, retake | the locker is started before the machine sleeps; a stuck loop does not stop a suspend |
| Sleep and lid | `dbus/lid.rs` | an inhibitor, the lid as last heard, requests to sleep | ask for a suspend, refusal, lid signals with and without the value | the loop's picture of the lid is the lid; a lid left shut leaves the machine asleep or the session dark and locked |
| Power source | `dbus/upower.rs` | the value last sent | first reading, signals, further readings | once heard, the countdowns are those of the source the machine is on |
| Controllers | `gamepad/` | open devices, a baseline per axis, time of the last report, a watch, a pending rescan | motion, polling, hot-plug, rescan, settling, restart | a real push counts and noise does not; what is watched is what the configuration asks for |
| Configuration | `config.rs` | -- | find, parse, tidy, build a profile's steps, reload | every countdown works, none is lost, a broken file replaces nothing |
| Pidfile | `pidfile.rs` | one file | claim, drop | it names the process that owns it |
| Signals, spawn, log | `signals.rs`, `action.rs`, `main.rs`, `log.rs` | two pings | quit, reload, run a command | -- |

How they meet: the compositor sends `idled`, `resumed`, output and layer events to the loop and takes its requests; the
bus threads send `Event`s to the loop; the loop answers the logind thread over `sleep_ack`, publishes `active` to the
thread that serves `GetActive`, and spawns a thread for each suspend request and for each backlight level; the pidfile
is shared by every copy of the program that starts.

What is hard here:

- **Objects that die while their events travel.** A notification is destroyed (or merely dropped) while an `idled` for
  it is on the wire; a destroyed idle object can no longer say `resumed`.
- **Long sequences.** Hold, profile switch, reload, lid, suspend and wake in any order must leave steps, countdowns and
  the published state in agreement.
- **Threads.** Two threads change and report the registry; the logind thread races the loop with a timeout; backlight
  threads are in no order with each other or with the brightness keys.
- **The bus.** Clients die at any point, and calls they made are still served; cookies wrap.
- **Readings behind signals.** The lid's and the power source's threads mix values carried by signals with values read
  over the bus, which are newer than the signals still queued behind them.
- **Devices under names.** A path under `/dev/input` outlives the device behind it, becomes readable some time after it
  appears, and stops being so when the session goes inactive, while what is open keeps working.
- **Arithmetic at its ends.** Dead zones are fractions of an axis' travel, rounded up; countdowns are filtered, cut to a
  day, merged and sorted.
- **Several processes.** The pidfile is read, judged, truncated, written and removed by separate system calls, each of
  which may fail.

## Modules

`Curtain` is the abstract specification: what a person in front of the screens sees. Things come over the screen, they
are taken away only all together, and never take the locker with them. It has no countdowns, steps or compositor.

`Idle` is the main loop with the compositor's half of `ext-idle-notify-v1`. One callback is one action, whole: `Activity`
is `Idle::activity` with the `unwind` and `arm_all` it ends in. The state is named for the source's fields; `left` and
`idle` are the compositor's view of a step's notification; `stray` holds objects the program has dropped without
destroying (`rebuild_steps`), which go on counting and whose events carry a number that now means another step; `wire`
is the socket. `quiet`, `owed` and `asked` are history. `MCIdle` gives it configurations. `Idle` implements `Curtain`
by the mapping at its end: what is shown is `blanked` and `dimmed` until the process stops.

`Screens` is what the four calls `blank`, `unblank`, `dim` and `undim` do, in any order (when they come is `Idle`'s
business), with monitors plugged and unplugged, another power-management client, the brightness keys, the fade's timer
and the backlight threads. The compositor acts on a request at once and reports late: `events` is what the program has
yet to read about an output, in order per output. An output plugged in again is a new object, as it is in Wayland.

`SessionBus` is the registry, the executor that serves both interfaces one call at a time, the departures thread and
the channel. Changing the registry, reading it again under the lock and sending what was read are three steps, because
they are in the code (`report_inhibits`). Clients name cookies they hold, others' cookies and cookies that are nobody's.

`BeforeSleep` is the handshake over a suspend: logind and the machine, the thread and its timeout, the loop, which may
stall for any time, and the locker. An answer is bare, as in the code: it does not say which sleep it is for.

`Pidfile` is any number of copies of the program at one path, each system call an action, with crashes anywhere and
pids that are used again. Reading, creating, writing and removing may each fail. `stale`, `overlapped`, `blind` and
`raced` are history: who left a pid behind, and which reads have been overtaken.

`Config` is `config.rs` as operators: which file is read, what `tidy` keeps of it, a profile's countdowns, and `steps`,
which merges and sorts. Lists are sorted by rank, so the module has no recursion and can be proved about. `Profiles`
extends it with the power source's thread (subscription, first reading, signals, further readings, the value it sent
last) and the loop's `set_on_battery` and `reload`, while the plug, UPower and the files on disk move by themselves.
`written` and `unheard` are history.

`Lid` is the lid's thread from its inhibitor to its last event, the loop's `lid` and its answer to a refusal, and the
threads that ask logind for a sleep. Each signal either carries the value or says only that it changed, and then the
thread reads, in a step of its own, while the lid goes on moving. `told`, `did`, `slept`, `answer`, `shuts`, `acted` and
`missed` are history: who was to act on the lid, who did, and what logind kept to itself.

`Pad` is one axis and one button of one controller: the threshold, the baseline, a poll that reads event after event
until the descriptor would block, and `may_report`. Arithmetic wraps at `2 * Half`. `Pads` is the set of controllers:
`is_gamepad` and the filters, `start`, `stop`, the inotify watch, rescans, the settling timer and descriptors whose
device has gone. Nodes are reused; a symlink stands for one device while it is there; udev grants access at a time of
its own and takes it away again when the session goes inactive (`Revoke`), which no open descriptor minds. calloop waits,
then dispatches what was ready when the wait ended, descriptors before timers: `due`, `draining` and `found` are the
batch the settling timer is in, the watch and the dead descriptors it has still to deal with. What happens to the machine
between two callbacks of a batch is not in it. `late` is history: paths whose device went just then.

Each module with theorems has them in a module of its own: `IdleProofs`, `ScreensProofs`, `SessionBusProofs`,
`BeforeSleepProofs`, `LidProofs`, `PidfileProofs`, `ProfilesProofs` (which also covers `Config`) and `GamepadProofs`
(`Pad` and `Pads`, which is why the names of `Pad`'s specification begin with `Pad`). Operators marked "Mutation:" are
plausible mistakes in the code beside them; none is part of a specification. `PROJECT.json` says which definition each
would replace, and which property then fails.

## Runs

| Run | Module | Expect | Shows |
|---|---|---|---|
| `core_laptop` | `MCIdle` | pass | Two profiles with every kind of step, a reload that changes everything and one that is rejected, the lid, logind. `CountdownsRight`, `FiredIsOwed`, `SleepsAgain`; and `ImplementsCurtain`. |
| `core_desktop` | `MCIdle` | pass | No lid, no suspend, and a reload that replaces the steps. `OnlyStraysMislead` and `WakesOnInput`; under fairness `IdleEventually` and `ResumedUndoes`. |
| `inhibits` | `MCSessionBus` | pass | Two clients, either of which may die, and a counter that wraps. `CookiesUnique`, `HoldersKept`, `OnlyOwnerReleases`, `AgreesWhileAllLive`; under fairness `DepartureReleases`. |
| `sleep` | `BeforeSleep` | pass | Four suspends. `AnsweredFirst`, `ReadyForTheNext`; under fairness `NeverWedged`. |
| `lid` | `MCLid` | pass | A lid that moves five times, a different action in each situation. `TypeOK`, `LidAsItIs`, `NeverAwakeInTheBag`, `ActsOncePerShut`; under fairness `ShutIsNoticed`. |
| `profiles` | `MCProfiles` | pass | Every file of a family that puts each number of `tidy` and `steps` at, below and above its limit; edits, reloads, the plug, UPower. `ProfileFitsSource`, `StepsAsAsked`, `DimIsSeen`, `LastGoodStands`; under fairness `PlugNoticed`. |
| `controller` | `MCPad` | pass | A stick of nine counts. `SlowPushNoticed`, `NoFalseWake`, `ToldInTime`. |
| `hotplug` | `MCPads` | pass | Three devices, two nodes, a symlink, four configurations. `WatchedAsAsked`, `QuietMeansWatched`, `KeepsWhatWorks`; under fairness `EventuallyWatched`. |
| `screens` | `Screens` | pass | Two outputs. `PowerAsAsked`, `DimTogether`; under fairness `DimsFully`. |
| `screens_panel` | `Screens` | pass | The panel and its threads alone. `StaysLit`, `TheirsStands`. |
| `pidfile` | `Pidfile` | pass | Three pids. `NamesTheHolder`, `LeavesCleanly`. |
| `stray_held` | `MCIdle` | violation | `HeldQuiet` after a profile switch. (Without one it is a theorem.) |

Some properties are conjunctions of named parts, each of which is stated, and most of which are proved, by itself:

| Property | Parts |
|---|---|
| `CountdownsRight` | `ArmedIffFree`, `NoDeadCountdown`, `StepsMatchProfile` |
| `FiredIsOwed` | `ActiveWhileFired`, `CommandsUndone` |
| `AnsweredFirst` | `OneAckEach`, `StartedBeforeSleep` |
| `PowerAsAsked` | `NoneLeftDark`, `AllDark` |
| `DimTogether` | `EquallyDim`, `AllDim`, `OneFade` |
| `WatchedAsAsked` | `OnePadPerPath`, `FiltersInForce` |
| `LeavesCleanly` | `NoGhost`, `HidesNobody` |
| `StepsAsAsked` | `EveryStepWorks`, `SoonestFirst`, `NothingLost` |

`LocksIfItCan` and `InRange` (`Profiles`) and the type invariants of all modules but `Lid` are only proved, for every
value of the constants; no run repeats them. Deadlock is not checked: the daemon stops, clients run out of calls to make, the
machine of sleeps and the lid of moves.

### Bounds

- `MaxQuiet` caps a counter that only properties read. `MaxWire` caps events in flight: at 2, with an event for an
  object destroyed meanwhile and one behind it. `MaxStray` caps dropped objects: a switch and a reload after it leave
  two; `core_desktop` has room for three of each. Profiles are of one to three steps with timeouts of 1 to 3 ticks, so
  that a later step fires after an earlier one.
- `Span` stands for 2^32. At 3 there are two cookies, and three calls wrap the counter with one cookie still in use.
- `MaxInhibits`, `MaxInbox` and `MaxChannel` cap calls, calls in flight and messages to the loop; two messages are what
  it takes for two threads' reports to pass each other.
- `MaxSleeps`: a late answer of the first sleep meets the second, and its echo the third; four leaves one to spare.
- Two outputs are what "all equally dim" needs, one dark or dim and one that arrives. `Steps` at 3 has a first, a middle
  and a last pixel. `Brightest` at 9 is dimmed to 3 and that to 1. `MaxSetters` at 3 lets two threads be overtaken.
  `MaxEvents` only delays a call that would provoke more events.
- Three pids: an owner, a rival, and one that is used again.
- The stick of `controller` rests at 0 of -4 .. 4 with a dead zone of half its travel, so that two counts are activity
  and one is noise; `Half` at 16 holds every difference. `Interval` is 2 ticks and `MaxAge` 5, so that reports may be
  let through, dropped and let through again before an age is cut off. In `GamepadProofs` the axis is any whose ends are
  less than `Half` apart; a wider one is left out (`AxisAssumption`).
- `hotplug`: two nodes for three devices, so that a node is reused by another device while its former descriptor is
  still to be read, also within a batch; access may come and go any number of times; the configurations enable,
  disable, deny, allow and name a path.
- `profiles`: 0, 30, 60, a day and more than a day for the numbers of a profile; pairs of timeouts, with equal times and
  times out of order; two signals and two messages, one more than it takes to overtake.
- `lid`: with five moves the lid is shut, opened and shut again around a first reading, and moves once more behind a
  further one. Three signals put one before and one behind that which the thread answers with a reading. Two requests
  let the refusal of the first come while the second is out.

### Fairness

The compositor's clock and timers run and the loop dispatches what it is sent (`Idle`); the loop runs its timers and
reads its events (`Screens`); the executor, the threads and the loop run (`SessionBus`); the thread runs, its timer runs
out, and the machine sleeps when it may and is woken (`BeforeSleep`, where the loop is *not* obliged to run: that is the
point of `NeverWedged`). The power source's thread runs and the loop takes what it sends (`Profiles`: fairness of the
variable each alone changes, so that an edit in between does not count); the loop waits again and again
and gets through each batch (`Pads`), whatever udev and the user do; the lid's thread and the loop run and logind answers
a request to sleep one way or the other, or the bus does when logind goes away (`Lid`). Each is weak fairness of something the kernel, calloop or
logind schedules. Nobody at the machine, and no client on the bus, is ever obliged to act.

## Proofs

| Module | Theorems |
|---|---|
| `IdleProofs` | `TypeCorrect`; `CountdownsMatchHold` (`ArmedIffFree`), `NoCountdownLost` (`NoDeadCountdown`) and `ProfileInForce` (`StepsMatchProfile`), together `CountdownsStayRight`; `ActiveToldInTime` (`ActiveWhileFired`) and `CommandsNeverForgotten` (`CommandsUndone`), together `FiredStaysOwed`; `SuspendCanRepeat` (`SleepsAgain`); `NothingElseMisleads` (`OnlyStraysMislead`), and from it `FiresInTime` (`FiresOnTime`); `HeldIsQuiet` (`HeldQuiet`); `InputWakes` (`WakesOnInput`); `LoopImplementsCurtain` |
| `ScreensProofs` | `TypeCorrect`; `DarkTogether` (`EquallyDim`), `FadesAlone` (`OneFade`) and `DimsAll` (`AllDim`), together `DimsTogether`; `PanelStaysLit` (`StaysLit`) and `TheirsStay` (`TheirsStands`); `MonitorsComeBack` (`NoneLeftDark`) and `MonitorsStayDark` (`AllDark`), together `PowerStaysAsAsked` |
| `SessionBusProofs` | `TypeCorrect`; `CookiesStayUnique`; `NobodyReleasesAnothers` (`OnlyOwnerReleases`); `LoopAgrees` (`AgreesWhileAllLive`); `HoldersKeep` (`HoldersKept`) |
| `BeforeSleepProofs` | `TypeCorrect`; `AnswersPairUp` (`OneAckEach`) and `LockerStartedFirst` (`StartedBeforeSleep`), together `AnswersComeFirst`; `AlwaysReadyAgain` (`ReadyForTheNext`) |
| `LidProofs` | `TypeCorrect` (`TypeOK`); `Story`, and from it `HeardRight` (`LidAsItIs`) and `NeverLeftAwake` (`NeverAwakeInTheBag`); `OneActPerShut` (`ActsOncePerShut`) |
| `PidfileProofs` | `TypeCorrect`; `StopsCleanly` (`LeavesCleanly`); `HolderKeepsFile` (`NamesTheHolder`) |
| `ProfilesProofs` | `Inductive`, `TypeCorrect`; `StepsWork` (`EveryStepWorks`); `StepsSorted` (`SoonestFirst`); `NothingIsLost` (`NothingLost`), and with these two `StepsComeAsAsked` (`StepsAsAsked`); `DimsFirst` (`DimIsSeen`); `LocksWhenItCan` (`LocksIfItCan`); `RangesStand` (`InRange`); `RightProfile` (`ProfileFitsSource`); `GoodSettingsStand` (`LastGoodStands`) |
| `GamepadProofs` | `PadTypeCorrect`; `FullPush`; `SlowPushesCount` (`SlowPushNoticed`); `NoiseNeverWakes` (`NoFalseWake`); `ReportsLagLittle` (`ToldInTime`); for the set of controllers `PadsTypeCorrect`; `PathsOpenOnce` (`OnePadPerPath`) and `OnlyAsAsked` (`FiltersInForce`), together `WatchStaysAsAsked`; `CaughtUpMeansWatched` (`QuietMeansWatched`); `WorkingStaysWatched` (`KeepsWhatWorks`) |

They hold for every configuration and file, set of clients, outputs, devices or pids, axis, width of an integer and
bound, from the
named assumptions the modules make about their constants (a configuration is well formed, a counter has at least two
values, a fade a pixel, an `i32` can tell how far apart the ends of an axis are). Some carry a hypothesis of their own:

- `CommandsNeverForgotten`, and with it `FiredStaysOwed`, assumes that no timeout both suspends and has a resume command (`NoSuspendResume`).
  `after_sleep` forgets such a timeout without running its command, although `src/src/config.rs:131` says `resume` is
  "Run when the user comes back, to undo whatever `command` did."
- `SuspendCanRepeat` assumes that the logind thread was started (`WantsLogind`). `src/src/dbus/mod.rs:163` does not
  start it for a suspend timeout alone, and nobody then tells the loop of the wake, although `src/README.md:111-112`
  says "it sleeps again after the same wait".
- `FiresInTime` and `HeldIsQuiet` assume that nothing replaces the steps the program starts with (`Steady`: no reload is
  accepted, and no power source is watched that could change the profile). `rebuild_steps` drops the old steps without
  destroying their notifications, whose events then arrive with the indices of other steps; the run `stray_held` shows
  what follows. `NothingElseMisleads` says without that assumption that nothing else can go wrong: whatever is
  reloaded, switched, held or put to sleep, a timeout that fires early or during a hold was fired by a dropped object.
- `NothingElseMisleads` and `FiresInTime` assume that the bound on `quiet` is no less than any timeout (`Countable`):
  a counter that stops short of a timeout cannot tell that its time has passed.
- `InputWakes` assumes that the machine neither sleeps nor is asked to (`NeverSleeps`), and that no lid is watched
  (`LidUnwatched`), since what is done before a sleep or for a lid is done whether or not a countdown has run out, and
  undone by other means. It holds through any reload and profile switch.

The inductive invariants:

- `NoDeadCountdown` is inductive only with the shape of the wire: an object that idled has exactly one way to be heard,
  so the invariant speaks of what lies behind its event. Every handler either keeps the wire, or orphans or destroys
  everything on it, and the lemmas are one for each of those.
- `Timely` is about the objects that have their step: what has been counted and what is left of a countdown make up
  its timeout, an `idled` on the wire is for a step idle to this moment or has a `resumed` behind it, and a held session
  has nothing of a step's on the wire. Rebuilding the steps keeps it by leaving no such object; `HeadBacked` is what
  follows for the event that is dispatched. With `Steady` no object is without its step (`NoStrays`).
- `InputWakes` follows the strays as well: an `idled` from one is undone by one (`StraysBacked`), and so is whatever is
  over the screen of a held session (`HeldWay`), because the end of a hold destroys every other way back without
  undoing anything. Nothing happens before the countdowns first start (`Fresh`).
- `MonitorsComeBack` and `MonitorsStayDark` share `Kept`, which says for each output what the unread events may still
  announce and how its control, holder and power stand meanwhile. Neither property is inductive alone: between a
  monitor's arrival and the event that tells of it, it is lit in a dark session, and the event is what makes it right.
- `DimsAll` needs that an output keeps its overlay from the moment the session dims, and that one without a size has
  its configure event still to come (`AllCovered`).
- `PanelStaysLit` needs that no thread is on its way to zero and that a level to be put back is not zero (`Lit`).
- `TheirsStay` needs what dimming remembers to be the person's level, or a level that dims to it, and the one thread
  that may be under way to be on its way from or to it (`Remembered`).
- `CookiesStayUnique` follows from the type invariant and from a free cookie being in neither map.
  `NobodyReleasesAnothers` needs that departures announced are of clients gone (`DepartedGone`).
- `LoopAgrees` needs to know what separates loop and registry while the executor is between its steps (`OneReporter`),
  and that until somebody leaves, the departures thread has nothing to say.
- `HoldersKeep` needs that a reply not yet sent names a holder in the registry, and that nothing is left to tell once
  the executor is done with the call (`Holding`). A client may name a cookie before it is given it, and so take it
  back; it then no longer counts on it (`GivenBack`). The theorem holds for any number of calls under way, the run's
  is one.
- `AnswersPairUp` is inductive; `LockerStartedFirst` adds how far the current sleep has got (`Delayed`), and
  `AlwaysReadyAgain` that a thread without its inhibitor still has the wake to read (`WillTake`).
- `Lid`: the lid alternates, so the signals on their way alternate too and end with the lid as it is (`InTurn`); then
  a thread with no signal left has the lid right unless logind did not answer (`Heard`). The last thing it said is what
  it takes the lid to be (`LastSaid`), and a thread that has said nothing of a shut lid has an opening still to hear,
  or read it open (`Unsaid`). `Pending` follows a request to sleep through its refusal to the dark screen.
- `OneActPerShut` needs a count (`Counted`): shuttings acted on, on the channel or about to be sent, and those still
  among the signals, are no more than there were. A reading that runs ahead of the signals counts a shutting that is
  still signalled, which is why `Tally` has a case for each parity of the queue: what was read early is not heard again
  as a change, because the signals behind it alternate.
- `HolderKeepsFile` needs that one copy at a time is between two system calls, that what it read is still there, and
  that there is no holder while it writes (`OneAtATime`). `StopsCleanly` needs that a pid in the file, unless it is a
  leftover, is of a copy that has written it and not given it up (`Guarded`); a guard that has found its own pid is then
  about to remove that or what was written since (`HidesNobody`, inductive with the types).
- `Profiles`: the loop's three variables always agree and the settings in force are tidied (`LoopFits`); the last value
  on its way to the loop is the one the thread remembers, and that is how things are unless a signal is queued or
  something went unheard (`ThreadFits`, with `Final` for the far end of the channel). That a list is sorted rests on
  ranks: among finitely many positions every rank is taken exactly once (`RankBounds` and the lemmas after it, a
  pigeonhole argument), so picking each position's element by its rank loses none and orders them. `NothingIsLost` adds
  that such a list has each element as often as the one it was picked from (`InOrderCounts`, a bijection of positions),
  that filtering keeps what it keeps (`KeptCounts`), and that the timeouts in force are exactly those written that
  `tidy` lets through, which is part of `LoopFits`.
- `Pad`: the baseline lies between the extremes since it was taken and less than a dead zone from each (`Anchored`), so
  they are less than two apart; `ToldInTime` needs that what one pad reported the loop was told (`InTime`), whatever
  pads came before. `FullPush` is arithmetic: a fraction of at most nine tenths of the travel, rounded up, is at most
  the travel of the farther side. It is about axes that rest at zero: `threshold_for` takes one that starts at zero to
  rest there (`gamepad/mod.rs:99-105`), so a stick that reports 0 to 255 and rests in the middle has half the travel the
  threshold assumes, and with a dead zone above a half no push of it counts.
- `Pads`: no path is open twice (`Paired`), which is what makes removal by path exact; and (`Current`) a live
  descriptor is for the device its path leads to, a dead one has a rescan coming, is in the timer's batch ahead of it or
  came `late`, and with no rescan coming everything wanted is open but what came late. A rescan establishes it again from
  any state (`RescanCurrent`). `KeepsWhatWorks` follows: a rescan forgets only paths that lead nowhere, a failed
  descriptor takes its own path's only pad, and neither is a live one's.

Only model-checked: everything under fairness (`IdleEventually`, `ResumedUndoes`, `DepartureReleases`, `NeverWedged`,
`DimsFully`, `PlugNoticed`, `EventuallyWatched`, `ShutIsNoticed`), which is outside what TLAPS proves. Every invariant
and every action property that a passing run checks is also a theorem.

## Where the code and its documents part

Shown by a run:

- `stray_held` (`idle.rs:120`). `rebuild_steps` drops the old steps' notifications without destroying them; they go on
  counting, and their `idled` fires the new step with that number. While an inhibit is held, that breaks
  `idle.rs:95`; in time, it also fires a step before its own timeout, against `config.rs:40-41`.

Seen while modelling, and excluded by a hypothesis or a condition of a property rather than shown by a run:

- The two under "Proofs": a suspend timeout with a resume command, and a suspend without the logind thread.
- After a suspend `arm_all` destroys the idle objects (`idle.rs:413`); a screen dimmed before it stays dimmed through
  the next input. `WakesOnInput` and `ResumedUndoes` are checked where nothing suspends, and the first is proved there.
- `active` outlives a suspend with nothing fired (`idle.rs:408` against `idle.rs:209-210`), which is why
  `ActiveWhileFired` is an implication.
- Each bus thread reads the registry, then sends (`dbus/mod.rs:99`). A departure noticed between the executor's read
  and its send leaves the loop with the older picture until the next report: `AgreesWhileAllLive`.
- A call is served after its caller's departure was noticed, or a client leaves before the watcher has subscribed
  (`dbus/mod.rs:362`): nobody will ever release that inhibit. `DepartureReleases` is about clients with no call queued.
- An answer that missed its timeout is taken for the next sleep's (`dbus/logind.rs:80`), and the inhibitor is let go
  before the locker has been started for it: `AnsweredFirst` ends with the first deadline that runs out.
- The answer to a sleep follows the locker's start, not its finish (`idle.rs:393` against `src/README.md:17-18`), which
  is why the property is *Started*BeforeSleep.
- The logind thread ends when the inhibitor is refused with the bus still up (`dbus/logind.rs:96` against `:39`), which
  is why `ReadyForTheNext` speaks of a thread that waits.
- A sleep refused after the lid has been opened again darkens and locks the screen in front of a person
  (`idle.rs:313-316`: "The lid is shut either way"); `NeverAwakeInTheBag` speaks of a lid that is shut.
- A lid shut between the inhibitor's granting and the thread's first reading is acted on by nobody: logind has left it
  to this program, and the first reading is only remembered (`dbus/lid.rs:62-78`). `LidAsItIs` and `ShutIsNoticed`
  leave that window out, by `answer`.
- A lid thread that cannot subscribe returns, which drops its inhibitor, although it logs that the lid "is held but
  nothing will act on it" (`dbus/lid.rs:67`).
- A change of the power source between the first reading and the iterator's start is missed until the next one
  (`dbus/upower.rs:44`), and a reading UPower does not answer counts as plugged in (`:64`): `unheard`.
- A controller is left unwatched (`gamepad/mod.rs:443`, `:449`, `:411`) when one wait ends with the inotify watch and
  the settling timer both due and, before the watch is drained, the device at a watched path is unplugged, another takes
  its path and its ACL is set. The watch's rescan finds the path known, the settle it would schedule is pending already,
  the timer's rescan finds the path known again, and only in the next batch does the dead descriptor remove the entry,
  with no rescan to come. It stays so until something else happens under `/dev/input`. `QuietMeansWatched` and
  `EventuallyWatched` leave exactly these paths out (`late`), until a rescan has looked at them again.
- After a VT switch nothing reads an ACL again: a controller opened before it stays watched without one, which
  `gamepad/mod.rs:27-30` says and `KeepsWhatWorks` is about; so the paths watched may be more than those a rescan
  would open.
- Two copies that start at once both claim the pidfile (`pidfile.rs:56` against `:17-19`), and a guard's check and
  removal are two calls (`:116`), which is why `NamesTheHolder` ends with the first overlap. A pidfile that is there and
  cannot be read counts as nobody's (`:54`, `:83`), and a copy that starts then takes it from a live holder: `blind`.
- A copy that claims the file between a guard's check and its removal loses it, though the guard means not to "hide a
  process that is still running" (`pidfile.rs:114-115`): `HidesNobody` is about pids that were there when the guard
  looked (`raced`).
- A guard that cannot read its file or cannot remove it (`pidfile.rs:116`, `:119-121`) leaves the pid of a process that
  is gone, although "a live pidfile means a live daemon" (`:106`). `NoGhost` leaves that out with the crashes (`stale`);
  the next copy to start takes such a file over.
- A backlight thread overtaken by an undim or by the keys loses a person's level (`dim.rs:130` against `:21-23`), which
  is why `TheirsStands` is about threads that are not.

## Abstractions

- `Idle`: one `resumed` stands for the burst the compositor sends on input. Of a step's command only a debt is kept,
  that its resume command is to run. A spawn of the locker that fails is left out. The first dispatch takes at most
  200 ms, less than any timeout, so time passes only once the loop runs. Idle inhibitors the compositor itself honours
  are the compositor's. `SimulateUserActivity` and controllers are both `Activity`.
- `Screens`: reads of sysfs succeed; which device is the panel is not looked for. No handler touches two outputs'
  records, so the order of events between outputs is left open, which is more than the socket allows.
- `SessionBus`: the bus never hands out a unique name twice; names, reasons and the replies to status calls are left
  out. With every cookie in use `allocate` would search for ever: the model's call then waits.
- `BeforeSleep`: a delay inhibitor is refused exactly while the machine is going down. Whether a locker is to be started
  (`Locks`) does not change; with it off only the pairing of answers is left to show, and the run has it on.
- `Pidfile`: a file's content is a pid, nothing, or "junk", which is another program's number or the digits two
  overlapping writes leave.

- `Config`: a parsed file is a record; what of it goes through `tidy` unchanged and is used elsewhere (`[lid]`, `[dbus]`,
  the filters of `[gamepad]`) is left out here and a constant there. A dead zone is in hundredths: `nan`, which TOML can
  say and `f32::clamp` lets through, has no counterpart.
- `Profiles`: `is_on_battery` is read at one moment, when the reply is; a signal is a signal, since the code reads again
  whatever it carries.
- `Lid`: `HasPowerManager` holds and threads spawn; a connection that cannot be made is the inhibitor's refusal. The
  situation (docked, on mains) is read with the event, and is anything.
- `Pad`: each axis is judged by itself, so one stands for all, and one button. Ticks of any length; time does not pass
  within a poll, which never waits.
- `Pads`: what a device can report is a few codes that `is_gamepad` tells apart. Opening a readable device succeeds.
  A symlink is there as long as its device. A rescan looks at all paths at one moment. Of a wait only what decides
  whether the settling timer or something ahead of it runs first is kept.

## Not modelled

`main.rs`, `log.rs`, `signals.rs` and `action.rs` keep no state a handler reads. The syntax of TOML is the parser's, and
`--check-config` is the same parse with nothing kept. The bus names' ownership beyond the first request, replies to
status calls, `--list-devices` and `examples/` (a stand-in for logind, for testing by hand) are left out. `nan` as a dead
zone, an axis wider than half an `i32`, a file read half written, and 2^32 inhibits at once are out of the models' reach.

## Plan

Done: `Curtain`, `Idle`, `SessionBus`, `BeforeSleep`, `Screens`, `Pidfile`, `Config` and `Profiles`, `Lid`, `Pad`, `Pads`,
with their runs and theorems. In order of what a mistake would cost:

1. Composition of `Idle` with `BeforeSleep` and `SessionBus`, in place of the free-standing `BeforeSleep`, `AfterSleep`
   and `SetInhibited` of `Idle`.
2. Proofs: `WakesOnInput` with a suspend and a lid, for what it does hold of; refinements for the other components.
3. The names' ownership: a screensaver that takes one over, and what this program should do then.
