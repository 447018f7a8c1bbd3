----------------------------- MODULE BeforeSleep -----------------------------
(***************************************************************************)
(* Going to sleep: the logind thread (src/dbus/logind.rs), which holds the *)
(* delay inhibitor, the main loop's before_sleep (src/idle.rs), which      *)
(* starts the locker and answers, and logind itself, which waits for the   *)
(* inhibitor -- but not for ever.                                          *)
(*                                                                         *)
(* Answers are bare: an acknowledgement does not say which BeforeSleep it  *)
(* is for, and one the thread stopped waiting for stays in its queue.      *)
(***************************************************************************)
EXTENDS Naturals, Sequences

CONSTANTS
    Locks,          \* before_sleep.lock is on, which tidy lets it be only with a locker
    MaxSleeps       \* bound: how often the machine sets out to sleep

ASSUME LocksAssumption == Locks \in BOOLEAN

VARIABLES           \* the thread
    at,             \* "starting", "waiting", "acking", or "gone"
    held,           \* it holds the inhibitor's descriptor
    signals,        \* PrepareForSleep signals it has yet to look at

    channel,        \* events to the loop
    acks,           \* the loop's answers, not yet received

    locker,         \* "off", "starting", "covering" the screen
    machine         \* "awake", "preparing" to sleep, "asleep"

VARIABLES           \* history
    sleeps,         \* times the machine set out to sleep
    ready,          \* the thread was ready for the latest of them
    asked,          \* the loop has started the locker for it, or found it running
    late            \* some deadline has run out, ever

thread == <<at, held, signals>>
queues == <<channel, acks>>
history == <<sleeps, ready, asked, late>>
vars == <<thread, queues, locker, machine, history>>

\* The thread, the two queues, the locker and the machine have their types.
TypeOK ==
    /\ at \in {"starting", "waiting", "acking", "gone"}
    /\ held \in BOOLEAN
    /\ signals \in Seq(BOOLEAN)
    /\ channel \in Seq({"before", "after"})
    /\ acks \in Nat
    /\ locker \in {"off", "starting", "covering"}
    /\ machine \in {"awake", "preparing", "asleep"}
    /\ sleeps \in Nat
    /\ ready \in BOOLEAN
    /\ asked \in BOOLEAN
    /\ late \in BOOLEAN

\* The inhibitor has been taken; the signal is about to be subscribed to.
Init ==
    /\ at = "starting"
    /\ held = TRUE
    /\ signals = <<>>
    /\ channel = <<>>
    /\ acks = 0
    /\ locker = "off"
    /\ machine = "awake"
    /\ sleeps = 0
    /\ ready = FALSE
    /\ asked = FALSE
    /\ late = FALSE

-----------------------------------------------------------------------------
(* logind and the machine *)

Announce(start) ==
    signals' = IF at \in {"starting", "gone"} THEN signals ELSE Append(signals, start)

\* Somebody asks for a suspend: the lid, a timeout, a menu.
Prepare ==
    /\ machine = "awake"
    /\ sleeps < MaxSleeps
    /\ machine' = "preparing"
    /\ sleeps' = sleeps + 1
    /\ ready' = (held /\ at = "waiting" /\ signals = <<>>)
    /\ asked' = FALSE
    /\ Announce(TRUE)
    /\ UNCHANGED <<at, held, queues, locker, late>>

\* Nobody holds an inhibitor any more.
FallAsleep ==
    /\ machine = "preparing"
    /\ ~held
    /\ machine' = "asleep"
    /\ UNCHANGED <<thread, queues, locker, history>>

\* Somebody does, and InhibitDelayMaxSec is over.
FallAsleepAnyway ==
    /\ machine = "preparing"
    /\ held
    /\ machine' = "asleep"
    /\ late' = TRUE
    /\ UNCHANGED <<thread, queues, locker, sleeps, ready, asked>>

Wake ==
    /\ machine = "asleep"
    /\ machine' = "awake"
    /\ Announce(FALSE)
    /\ UNCHANGED <<at, held, queues, locker, history>>

\* Inhibit: refused while the operation it would delay is under way.
Granted == machine = "awake"

-----------------------------------------------------------------------------
(* The thread; it runs only while the machine does *)

Running(pc) == at = pc /\ machine # "asleep"

Subscribe ==
    /\ Running("starting")
    /\ at' = "waiting"
    /\ UNCHANGED <<held, signals, queues, locker, machine, history>>

TakesSignal(start) ==
    /\ Running("waiting")
    /\ signals # <<>>
    /\ Head(signals) = start
    /\ signals' = Tail(signals)

\* Mutation: the descriptor is let go as soon as the loop has been told.
GoingDownUnwaited ==
    /\ TakesSignal(TRUE)
    /\ channel' = Append(channel, "before")
    /\ held' = FALSE
    /\ UNCHANGED <<at, acks, locker, machine, history>>

GoingDown ==
    /\ TakesSignal(TRUE)
    /\ channel' = Append(channel, "before")
    /\ at' = "acking"
    /\ UNCHANGED <<held, acks, locker, machine, history>>

\* recv_timeout returns an answer: any answer.
Acked ==
    /\ Running("acking")
    /\ acks > 0
    /\ acks' = acks - 1
    /\ held' = FALSE
    /\ at' = "waiting"
    /\ UNCHANGED <<signals, channel, locker, machine, history>>

\* Mutation: a loop that never answers is waited for, for ever.
NeverTimesOut ==
    /\ FALSE
    /\ UNCHANGED vars

\* recv_timeout runs out with nothing there.
TimedOut ==
    /\ Running("acking")
    /\ acks = 0
    /\ held' = FALSE
    /\ at' = "waiting"
    /\ late' = TRUE
    /\ UNCHANGED <<signals, queues, locker, machine, sleeps, ready, asked>>

\* Mutation: waking does not take a fresh descriptor.
BackUpUnheld ==
    /\ TakesSignal(FALSE)
    /\ channel' = Append(channel, "after")
    /\ UNCHANGED <<at, held, acks, locker, machine, history>>

\* A fresh descriptor, whatever became of the old one; without it the thread
\* ends, once it has told the loop.
BackUp ==
    /\ TakesSignal(FALSE)
    /\ held' = Granted
    /\ at' = IF Granted THEN "waiting" ELSE "gone"
    /\ channel' = Append(channel, "after")
    /\ UNCHANGED <<acks, locker, machine, history>>

-----------------------------------------------------------------------------
(* The main loop and the locker *)

LoopTakes(event) ==
    /\ machine # "asleep"
    /\ channel # <<>>
    /\ Head(channel) = event
    /\ channel' = Tail(channel)

\* before_sleep: start the locker, if it is to be and does not run, and answer.
LoopBefore ==
    /\ LoopTakes("before")
    /\ locker' = IF Locks /\ locker = "off" THEN "starting" ELSE locker
    /\ asked' = Locks
    /\ acks' = acks + 1
    /\ UNCHANGED <<thread, machine, sleeps, ready, late>>

LoopAfter ==
    /\ LoopTakes("after")
    /\ UNCHANGED <<thread, acks, locker, machine, history>>

LockerCovers ==
    /\ machine # "asleep"
    /\ locker = "starting"
    /\ locker' = "covering"
    /\ UNCHANGED <<thread, queues, machine, history>>

\* Only a person at the machine, between two sleeps, gets past the locker.
Unlock ==
    /\ machine = "awake"
    /\ locker = "covering"
    /\ locker' = "off"
    /\ UNCHANGED <<thread, queues, machine, history>>

-----------------------------------------------------------------------------
Next ==
    \/ Prepare \/ FallAsleep \/ FallAsleepAnyway \/ Wake
    \/ Subscribe \/ GoingDown \/ Acked \/ TimedOut \/ BackUp
    \/ LoopBefore \/ LoopAfter \/ LockerCovers \/ Unlock

Spec == Init /\ [][Next]_vars

Thread == Subscribe \/ GoingDown \/ Acked \/ TimedOut \/ BackUp

\* The thread runs and its timer runs out; the machine falls asleep when it
\* may and is woken.  The main loop need not run at all.
FairSpec ==
    /\ Spec
    /\ WF_vars(Thread)
    /\ WF_vars(FallAsleep)
    /\ WF_vars(Wake)

-----------------------------------------------------------------------------
(* Properties *)

\* A machine that sleeps, having found the thread ready and with no deadline
\* ever run out, has had its locker started first if the configuration has it so
\* (logind.rs, before_sleep).
StartedBeforeSleep ==
    Locks /\ machine = "asleep" /\ ready /\ ~late => asked

\* A thread that has seen every signal holds an inhibitor for the next sleep
\* whenever the machine is up.
ReadyForTheNext ==
    machine = "awake" /\ at = "waiting" /\ signals = <<>> => held

\* A wedged main loop does not wedge the suspend: once the thread has been told
\* of it, the machine gets to sleep without logind having to overrule anybody.
NeverWedged ==
    (\E k \in DOMAIN signals : signals[k]) ~> (~held \/ machine = "awake")

\* Where the BeforeSleep events are that the loop has yet to answer.
Unanswered == {k \in DOMAIN channel : channel[k] = "before"}

\* Until something is late, answers and questions pair up: the thread waits for
\* exactly one answer, which is there or still to be given, or for none.
OneAckEach ==
    ~late =>
        \/ at # "acking" /\ acks = 0 /\ Unanswered = {}
        \/ at = "acking" /\ acks = 1 /\ Unanswered = {}
        \/ at = "acking" /\ acks = 0 /\ \E k \in DOMAIN channel : Unanswered = {k}

\* Until a deadline runs out each sleep gets an answer of its own, and waits for
\* it.
AnsweredFirst == OneAckEach /\ StartedBeforeSleep
==============================================================================
