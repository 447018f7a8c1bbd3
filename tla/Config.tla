-------------------------------- MODULE Config --------------------------------
(***************************************************************************)
(* idle.toml as the program understands it (src/config.rs): which file is  *)
(* read, what is kept of it, and the countdowns it makes.                  *)
(*                                                                         *)
(* A parsed file is a record of Settings.  [lid], [dbus] and the lists of  *)
(* [gamepad] go through unchanged and are left out; a dead zone is in      *)
(* hundredths.                                                             *)
(***************************************************************************)
EXTENDS Integers, Sequences, FiniteSets

MaxTimeout == 86400     \* MAX_TIMEOUT_SECS

Timeout == [after : Nat, dim : BOOLEAN, blank : BOOLEAN, lock : BOOLEAN,
            suspend : BOOLEAN, command : BOOLEAN, resume : BOOLEAN]

NoTimeout == [after |-> 0, dim |-> FALSE, blank |-> FALSE, lock |-> FALSE,
              suspend |-> FALSE, command |-> FALSE, resume |-> FALSE]

\* Seconds to each, zero for never.
Profile == [dim : Nat, screen_off : Nat, suspend : Nat, lock : BOOLEAN]

NoProfile == [dim |-> 0, screen_off |-> 0, suspend |-> 0, lock |-> TRUE]

\* `on_battery` holds the one section of that name, if the file has it;
\* `locker` is what [lock] command is: nothing but spaces, a command (also when
\* the file says nothing), or after tidy none.  What of [before_sleep] tidy
\* leaves alone is not here.
Settings == [plugged_in : Profile, on_battery : Seq(Profile), timeouts : Seq(Timeout),
             locker : {"none", "empty", "set"}, before_sleep : [lock : BOOLEAN, timeout : Nat],
             gamepad : [deadzone : Int, interval : Nat]]

\* What the last three settings are good for, and cut to.
DeadZones == 2 .. 90
Intervals == 0 .. 60000
Waits == 1 .. 20

\* Config::default
Default == [plugged_in |-> NoProfile, on_battery |-> <<>>, timeouts |-> <<>>,
            locker |-> "set", before_sleep |-> [lock |-> TRUE, timeout |-> 4],
            gamepad |-> [deadzone |-> 25, interval |-> 1000]]

-----------------------------------------------------------------------------
(* Config::tidy *)

AtMost(n, limit) == IF n > limit THEN limit ELSE n

Within(n, low, high) == IF n < low THEN low ELSE AtMost(n, high)

\* Timeout::does_something.  A resume_command alone does nothing.
DoesSomething(t) == t.blank \/ t.lock \/ t.dim \/ t.suspend \/ t.command

\* Mutation: a countdown of no time is kept.
UsableNow(t) == DoesSomething(t)

Usable(t) == t.after # 0 /\ DoesSomething(t)

Before(s, j, k) == s[j].after < s[k].after \/ (s[j].after = s[k].after /\ j < k)

\* Mutation: in the order the file has them.
InFileOrder(s, K) ==
    [n \in 1 .. Cardinality(K) |->
        s[CHOOSE k \in K : Cardinality({j \in K : j < k}) = n - 1]]

\* The elements of s at the places in K, soonest first, those of one time in
\* the order they had (the sort is stable).
InOrder(s, K) ==
    [n \in 1 .. Cardinality(K) |->
        s[CHOOSE k \in K : Cardinality({j \in K : Before(s, j, k)}) = n - 1]]

\* Timeouts kept, cut to a day and sorted.
Kept(timeouts) ==
    LET cut == [k \in DOMAIN timeouts |-> [timeouts[k] EXCEPT !.after = AtMost(@, MaxTimeout)]]
    IN  InOrder(cut, {k \in DOMAIN timeouts : Usable(timeouts[k])})

\* Profile::clamp
Clamp(p) == [p EXCEPT !.dim = AtMost(@, MaxTimeout),
                      !.screen_off = AtMost(@, MaxTimeout),
                      !.suspend = AtMost(@, MaxTimeout)]

\* Without a locker nothing locks before sleep.
SleepLock(c) == c.before_sleep.lock /\ c.locker = "set"

Tidy(c) ==
    [plugged_in |-> Clamp(c.plugged_in),
     on_battery |-> [k \in DOMAIN c.on_battery |-> Clamp(c.on_battery[k])],
     timeouts |-> Kept(c.timeouts),
     locker |-> IF c.locker = "empty" THEN "none" ELSE c.locker,
     before_sleep |-> [lock |-> SleepLock(c),
                       timeout |-> Within(c.before_sleep.timeout, 1, 20)],
     gamepad |-> [deadzone |-> Within(c.gamepad.deadzone, 2, 90),
                  interval |-> AtMost(c.gamepad.interval, 60000)]]

-----------------------------------------------------------------------------
(* The countdowns in force *)

\* Config::profile
ProfileFor(c, battery) ==
    IF battery /\ c.on_battery # <<>> THEN c.on_battery[1] ELSE c.plugged_in

At(secs, t) == IF secs > 0 THEN << [t EXCEPT !.after = secs] >> ELSE <<>>

Dims == [NoTimeout EXCEPT !.dim = TRUE]
GoesDark(p) == [NoTimeout EXCEPT !.blank = TRUE, !.lock = p.lock]
Suspends == [NoTimeout EXCEPT !.suspend = TRUE]

\* Mutation: a dim that comes with the dark is kept.
ProfileTimeoutsUpTo(p) ==
    LET seen == \A later \in {p.screen_off, p.suspend} \ {0} : p.dim <= later
    IN  At(IF seen THEN p.dim ELSE 0, Dims)
            \o At(p.screen_off, GoesDark(p)) \o At(p.suspend, Suspends)

\* Profile::timeouts: no dim that would come with the dark or after it.
ProfileTimeouts(p) ==
    LET seen == \A later \in {p.screen_off, p.suspend} \ {0} : p.dim < later
    IN  At(IF seen THEN p.dim ELSE 0, Dims)
            \o At(p.screen_off, GoesDark(p)) \o At(p.suspend, Suspends)

\* Mutation: one countdown for a time, the profile's if it has one.
StepsOverriding(c, battery) ==
    LET all == ProfileTimeouts(ProfileFor(c, battery)) \o c.timeouts
    IN  InOrder(all, {k \in DOMAIN all : \A j \in 1 .. k - 1 : all[j].after # all[k].after})

\* Config::steps
Steps(c, battery) ==
    LET all == ProfileTimeouts(ProfileFor(c, battery)) \o c.timeouts
    IN  InOrder(all, DOMAIN all)

-----------------------------------------------------------------------------
(* Reading it *)

\* What is at a place a file is looked for: nothing, something that cannot be
\* read or does not parse, or settings.
Nothing == [kind |-> "missing", holds |-> Default]
Broken == [kind |-> "broken", holds |-> Default]
Holds(c) == [kind |-> "parsed", holds |-> c]

File == [kind : {"missing", "broken", "parsed"}, holds : Settings]

\* The file of --config, and the user's and the system's.
Disk == [named : File, user : File, system : File]

\* config::find, unless a file was named.
Found(disk, named) ==
    IF named THEN disk.named
    ELSE IF disk.user.kind # "missing" THEN disk.user ELSE disk.system

\* config::check
Accepts(f) == f.kind = "parsed"

\* config::load: the source it reports, and the settings before tidy.
SourceOf(f, named) ==
    IF Accepts(f) THEN "file"
    ELSE IF f.kind = "missing" /\ ~named THEN "none" ELSE "rejected"

Load(f) == IF Accepts(f) THEN Tidy(f.holds) ELSE Default
=============================================================================
