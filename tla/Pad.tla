--------------------------------- MODULE Pad ---------------------------------
(***************************************************************************)
(* One controller on the loop (src/gamepad/mod.rs): what counts as the     *)
(* user moving an axis or pressing a button (Motion, Pad::poll), and how   *)
(* often the rest of the program is told (may_report).                     *)
(* The names of the specification begin with Pad: one module of proofs     *)
(* extends this one and Pads.                                              *)
(*                                                                         *)
(* A poll reads the descriptor until it would block: the device may go on  *)
(* talking, or go away, while it does, so each event read is a step.  Each *)
(* axis is judged by itself, and one stands for all.                       *)
(***************************************************************************)
EXTENDS Integers

CONSTANTS
    Low, High, Flat,    \* the axis, as its driver describes it
    Deadzone,           \* [gamepad] deadzone, in hundredths
    Interval,           \* [gamepad] min_interval_ms, in ticks
    Half,               \* 2^31: an i32 is at least -Half and less than Half
    MaxAge              \* bound: ticks counted since anything

\* An i32 can tell how far apart the ends of the axis are.
ASSUME AxisAssumption ==
    /\ Half \in Nat \ {0}
    /\ {Low, High, Flat} \subseteq -Half .. Half - 1
    /\ Low <= High /\ High - Low < Half /\ Flat >= 0

\* Config::tidy keeps the dead zone within these (all but "nan", which TOML can
\* say and f32::clamp lets through).
ASSUME DeadzoneAssumption == Deadzone \in 2 .. 90

ASSUME AgesAssumption == {Interval, MaxAge} \subseteq Nat /\ Interval <= MaxAge

VARIABLES       \* Pad
    seen,       \* the axis has a baseline
    base,       \* the baseline: the last reading that counted
    reported,   \* ticks since last_report
    polling,    \* poll is running
    activity    \* its local of that name

VARIABLES       \* history, read by no action's guard
    lo, hi,     \* the extremes of the readings since one last counted
    meant,      \* something read by this poll was the user's doing
    active,     \* ticks since a poll last found activity
    told        \* ticks since the loop was last told, by this pad or by the
                \* one there was before it was unplugged

motion == <<seen, base, lo, hi>>
poll == <<polling, activity, meant>>
ages == <<reported, active, told>>
padVars == <<motion, poll, ages>>

Greater(a, b) == IF a >= b THEN a ELSE b
Lesser(a, b) == IF a <= b THEN a ELSE b

Counts == Low .. High
Ages == 0 .. MaxAge

PadTypeOK ==
    /\ seen \in BOOLEAN /\ polling \in BOOLEAN /\ activity \in BOOLEAN /\ meant \in BOOLEAN
    /\ base \in Counts /\ lo \in Counts /\ hi \in Counts
    /\ reported \in Ages /\ active \in Ages /\ told \in Ages

\* No report is as good as one long ago.
PadInit ==
    /\ seen = FALSE /\ base = Low /\ lo = Low /\ hi = Low
    /\ polling = FALSE /\ activity = FALSE /\ meant = FALSE
    /\ reported = MaxAge /\ active = MaxAge /\ told = MaxAge

-----------------------------------------------------------------------------
(* Motion *)

\* i32 arithmetic in a release build
Wrap(x) == ((x + Half) % (2 * Half)) - Half

\* i32::abs, whose least value is its own
Abs(x) == IF x < 0 /\ x # -Half THEN -x ELSE x

\* threshold_for: a fraction of the travel, which is half the span of an axis
\* that rests in the middle; never less than the driver's flat, or than one.
Threshold(low, high, flat, hundredths) ==
    LET span == Greater(Wrap(high - low), 0)
        travels == IF low < 0 THEN span ELSE 2 * span   \* twice the travel
    IN Greater(Greater(flat, (travels * hundredths + 199) \div 200), 1)

Enough == Threshold(Low, High, Flat, Deadzone)

\* Far enough from the baseline to count.
Moved(v) == Abs(Wrap(v - base)) >= Enough

\* Mutation: the baseline follows every reading.
ReadAxisFollowing(v) ==
    LET counts == seen /\ Moved(v)
        low == IF seen THEN Lesser(lo, v) ELSE v
        high == IF seen THEN Greater(hi, v) ELSE v IN
    /\ seen' = TRUE /\ base' = v
    /\ lo' = IF counts THEN v ELSE low
    /\ hi' = IF counts THEN v ELSE high
    /\ polling' = TRUE
    /\ activity' = (activity \/ counts)
    /\ meant' = (meant \/ high - low >= Enough)
    /\ UNCHANGED ages

\* Motion::is_activity, for a reading of the axis.  The first sets the
\* baseline and is no move; afterwards the baseline follows what counted.
ReadAxis(v) ==
    LET counts == seen /\ Moved(v)
        low == IF seen THEN Lesser(lo, v) ELSE v
        high == IF seen THEN Greater(hi, v) ELSE v IN
    /\ seen' = TRUE
    /\ base' = IF counts \/ ~seen THEN v ELSE base
    /\ lo' = IF counts THEN v ELSE low
    /\ hi' = IF counts THEN v ELSE high
    /\ polling' = TRUE
    /\ activity' = (activity \/ counts)
    /\ meant' = (meant \/ high - low >= Enough)
    /\ UNCHANGED ages

-----------------------------------------------------------------------------
(* Pad *)

\* Mutation: anything but a release is a press.
ReadKeyRepeats(value) ==
    /\ polling' = TRUE
    /\ activity' = (activity \/ value # 0)
    /\ meant' = (meant \/ value = 1)
    /\ UNCHANGED <<motion, ages>>

\* A release (0), a press (1) or autorepeat (2).
ReadKey(value) ==
    /\ polling' = TRUE
    /\ activity' = (activity \/ value = 1)
    /\ meant' = (meant \/ value = 1)
    /\ UNCHANGED <<motion, ages>>

\* Mutation: the last report is the last time there was anything to report.
MayReportSliding ==
    IF reported < Interval THEN reported' = 0 /\ UNCHANGED told
    ELSE reported' = 0 /\ told' = 0

\* Pad::may_report, and Idle::activity if it may
MayReport ==
    IF reported < Interval THEN UNCHANGED <<reported, told>>
    ELSE reported' = 0 /\ told' = 0

\* The descriptor would block: the poll is over.
PollEnds ==
    /\ polling
    /\ IF activity THEN MayReport /\ active' = 0 ELSE UNCHANGED ages
    /\ polling' = FALSE /\ activity' = FALSE /\ meant' = FALSE
    /\ UNCHANGED motion

\* The poll fails, and what it had found is lost with it.  The next pad is a
\* new one (open): no baseline, no last report.
Unplugged ==
    /\ seen' = FALSE /\ base' = Low /\ lo' = Low /\ hi' = Low
    /\ reported' = MaxAge
    /\ polling' = FALSE /\ activity' = FALSE /\ meant' = FALSE
    /\ UNCHANGED <<active, told>>

Older(age) == Lesser(age + 1, MaxAge)

Tick ==
    /\ ~polling
    /\ reported' = Older(reported) /\ active' = Older(active) /\ told' = Older(told)
    /\ UNCHANGED <<motion, poll>>

PadNext ==
    \/ \E v \in Counts : ReadAxis(v)
    \/ \E value \in 0 .. 2 : ReadKey(value)
    \/ PollEnds
    \/ Unplugged
    \/ Tick

PadSpec == PadInit /\ [][PadNext]_padVars

-----------------------------------------------------------------------------
(* Properties *)

\* However slowly a stick is pushed, it is noticed before it has strayed two
\* dead zones wide: the readings since one last counted stay within that.
\* A baseline that crept along with the stick would never notice (is_activity).
SlowPushNoticed ==
    seen => hi - lo <= 2 * (Enough - 1)

\* A controller left on a desk does not keep the session awake: a poll finds
\* activity only if a button went down or the axis has really been somewhere a
\* dead zone away since it last counted; noise, releases and a wedged button's
\* autorepeat do not add up to any.
NoFalseWake ==
    activity => meant

\* Rate limiting never starves the countdowns by more than the interval: when
\* the loop was last told is less than Interval ticks before the last activity,
\* over any number of dropped reports and replugged pads.
ToldInTime ==
    active < MaxAge => told <= active + (IF Interval = 0 THEN 0 ELSE Interval - 1)
=============================================================================
