------------------------------ MODULE MCProfiles ------------------------------
(***************************************************************************)
(* Files for model checking Profiles: one section at a time over all that  *)
(* matters about it, zero, equal times and times over a day among it.      *)
(***************************************************************************)
EXTENDS Profiles

ProfilesTried ==
    { [Default EXCEPT !.plugged_in = p]
        : p \in [dim : {0, 30, 60, 86400, 90000}, screen_off : {0, 60, 90000},
                 suspend : {0, 60}, lock : {TRUE}] }

Does(n, flag) == [NoTimeout EXCEPT !.after = n, ![flag] = TRUE]

Timeouts == {Does(0, "blank"), Does(30, "resume"), Does(30, "dim"), Does(60, "blank"),
             Does(60, "lock"), Does(90000, "command")}

TimeoutsTried ==
    { [Default EXCEPT !.timeouts = ts,
                      !.on_battery = << [NoProfile EXCEPT !.dim = 30, !.screen_off = 60] >>]
        : ts \in Timeouts \X Timeouts }

RestTried ==
    { [Default EXCEPT !.locker = l, !.before_sleep = b, !.gamepad = g]
        : l \in {"empty", "set"},
          b \in {[lock |-> TRUE, timeout |-> 0], [lock |-> FALSE, timeout |-> 600]},
          g \in {[deadzone |-> -5, interval |-> 60001], [deadzone |-> 500, interval |-> 0]} }

\* The system's file suspends on battery.
OnBatteryOnly == [Default EXCEPT !.on_battery = << [NoProfile EXCEPT !.suspend = 60] >>]

User(f) == [named |-> Nothing, user |-> f, system |-> Holds(OnBatteryOnly)]

MCEdits == {User(Broken), User(Nothing)}

MCDisks ==
    { User(Holds(c)) : c \in ProfilesTried \cup TimeoutsTried \cup RestTried }
        \cup {User(Broken), [User(Nothing) EXCEPT !.system = Nothing]}
==============================================================================
