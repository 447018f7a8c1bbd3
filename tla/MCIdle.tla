------------------------------- MODULE MCIdle --------------------------------
(***************************************************************************)
(* Configurations for model checking Idle: small profiles in which every   *)
(* kind of timeout occurs.                                                 *)
(***************************************************************************)
EXTENDS Idle

Nothing == [after |-> 1, dim |-> FALSE, blank |-> FALSE, lock |-> FALSE,
            suspend |-> FALSE, resume |-> FALSE]

DimAt(n) == [Nothing EXCEPT !.after = n, !.dim = TRUE]
DarkAt(n) == [Nothing EXCEPT !.after = n, !.blank = TRUE]
LockAt(n) == [DarkAt(n) EXCEPT !.lock = TRUE]
SuspendAt(n) == [Nothing EXCEPT !.after = n, !.suspend = TRUE]
CommandAt(n) == [Nothing EXCEPT !.after = n, !.resume = TRUE]

Profiles(ac, battery) == [b \in BOOLEAN |-> IF b THEN battery ELSE ac]

Lids(docked, ac, battery) == [docked |-> docked, on_ac |-> ac, on_battery |-> battery]

Plain(profiles) ==
    [steps |-> profiles, lid |-> Lids("nothing", "suspend", "suspend"), locker |-> FALSE,
     sleepLock |-> FALSE, sleepBlank |-> FALSE, sleepCommand |-> FALSE]

\* A laptop: dim and suspend on the battery, a command and a dark screen on
\* the mains; the lid locks, the machine locks and goes dark before sleeping.
LaptopBoot ==
    [Plain(Profiles(<<CommandAt(1), LockAt(2)>>, <<DimAt(1), SuspendAt(2)>>)) EXCEPT
        !.lid = Lids("nothing", "lock", "suspend"),
        !.locker = TRUE, !.sleepLock = TRUE, !.sleepBlank = TRUE]

\* What it may be edited to: one timeout, no locker.
LaptopEdited ==
    [Plain(Profiles(<<DarkAt(1)>>, <<DarkAt(1)>>)) EXCEPT
        !.lid = Lids("blank", "nothing", "hibernate"), !.sleepCommand = TRUE]

LaptopReloads == {LaptopEdited, Rejected}

\* A desktop: no lid, no battery, nothing to do before sleeping.  An edit puts
\* two other timeouts in the places of its first two.
DesktopBoot ==
    [Plain(Profiles(<<DimAt(1), LockAt(2), CommandAt(3)>>, <<>>)) EXCEPT !.locker = TRUE]

DesktopEdited == Plain(Profiles(<<CommandAt(2), DarkAt(3)>>, <<>>))

DesktopReloads == {DesktopEdited, Rejected}

SteadyReloads == {Rejected}

\* Slow on the mains, quick on the battery.
MobileBoot ==
    [Plain(Profiles(<<DarkAt(3)>>, <<DarkAt(1)>>)) EXCEPT !.sleepCommand = TRUE]
==============================================================================
