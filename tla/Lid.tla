--------------------------------- MODULE Lid ---------------------------------
(***************************************************************************)
(* The lid, taken over from logind (src/dbus/lid.rs), and what the loop    *)
(* makes of it (src/idle.rs: lid, on_dbus): from the lid's moving to a     *)
(* machine that sleeps, or a session that is dark and locked.              *)
(*                                                                         *)
(* The thread compares what it hears with a value of its own and reads     *)
(* over the bus while the lid goes on moving; each request to sleep is a   *)
(* thread too, whose refusal comes back at a time of its own.              *)
(***************************************************************************)
EXTENDS Naturals, Sequences

CONSTANTS
    Actions,        \* [lid]: what each situation calls for
    HasLocker,      \* [lock] has a command
    MaxMoves,       \* bound: times the lid moves
    MaxSignals,     \* bound: signals queued for the thread
    MaxChannel,     \* bound: events sent to the loop and not yet taken
    MaxRequests     \* bound: requests to sleep that are unanswered

LidAction == {"suspend", "hibernate", "lock", "blank", "nothing"}

ASSUME ActionsAssumption ==
    Actions \in [docked : LidAction, on_ac : LidAction, on_battery : LidAction]
ASSUME FlagsAssumption == HasLocker \in BOOLEAN
ASSUME BoundsAssumption == {MaxMoves, MaxSignals, MaxChannel, MaxRequests} \subseteq Nat

VARIABLES       \* the machine
    lid,        \* "open" or "shut"
    logind,     \* logind answers
    moves       \* times the lid has moved

VARIABLES       \* the thread
    thread,     \* "starting", "held", "subscribed", "watching", "moved", "ended"
    closed,     \* its local of that name, as "shut" or "open"
    signals,    \* PropertiesChanged signals that name LidClosed
    requests,   \* requests to sleep logind has not answered
    channel     \* events for the loop

VARIABLES       \* the session
    dark,       \* the monitors are off
    locked      \* the locker is running

VARIABLES       \* history, read by no action's guard
    told,       \* what the last Event::Lid said, or "nothing"
    did,        \* what the loop did at the last shutting, or "nothing"
    slept,      \* logind has put the machine to sleep since
    answer,     \* who is to act on the lid's last move: "logind", "thread", or
                \* "nobody", it being hidden from the thread
    shuts,      \* times it was shut under the inhibitor
    acted,      \* times the loop has acted on its being shut
    missed      \* logind did not say how the lid was, and nothing since has
                \* changed what the thread takes it to be

watch == <<thread, closed, signals, missed>>
session == <<dark, locked>>
story == <<told, did, slept, acted>>
vars == <<lid, logind, moves, watch, requests, channel, session, story, answer, shuts>>

LidEvent == [kind : {"lid"}, closed : {"open", "shut"}, docked : BOOLEAN, power : BOOLEAN]
Event == LidEvent \cup [kind : {"refused"}]

TypeOK ==
    /\ lid \in {"open", "shut"} /\ closed \in {"open", "shut"}
    /\ {logind, dark, locked, slept, missed} \subseteq BOOLEAN
    /\ moves \in Nat /\ shuts \in Nat /\ acted \in Nat
    /\ thread \in {"starting", "held", "subscribed", "watching", "moved", "ended"}
    /\ signals \in Seq({"open", "shut", "invalidated"})
    /\ requests \in 0 .. MaxRequests
    /\ channel \in Seq(Event)
    /\ told \in {"open", "shut", "nothing"}
    /\ did \in LidAction
    /\ answer \in {"logind", "thread", "nobody"}

Init ==
    /\ lid \in {"open", "shut"} /\ logind = TRUE /\ moves = 0
    /\ thread = "starting" /\ closed = "open" /\ signals = <<>>
    /\ requests = 0 /\ channel = <<>>
    /\ dark = FALSE /\ locked = FALSE
    /\ told = "nothing" /\ did = "nothing" /\ slept = FALSE
    /\ answer = "logind" /\ shuts = 0 /\ acted = 0 /\ missed = FALSE

Send(event) ==
    /\ Len(channel) < MaxChannel
    /\ channel' = Append(channel, event)

-----------------------------------------------------------------------------
(* The machine *)

\* The block inhibitor is held from its granting to the end of the thread.
Inhibited == thread \notin {"starting", "ended"}

\* The lid moves.  logind acts on it itself unless inhibited, and says so to
\* whoever has subscribed: with the value, or that it is another.
Moves ==
    /\ moves < MaxMoves
    /\ moves' = moves + 1
    /\ lid' = IF lid = "open" THEN "shut" ELSE "open"
    /\ answer' = IF ~Inhibited THEN "logind"
                 ELSE IF thread \in {"held", "subscribed"} THEN "nobody" ELSE "thread"
    /\ shuts' = IF Inhibited /\ lid' = "shut" THEN shuts + 1 ELSE shuts
    /\ IF Inhibited /\ thread # "held"
       THEN /\ Len(signals) < MaxSignals
            /\ \E says \in {lid', "invalidated"} : signals' = Append(signals, says)
       ELSE UNCHANGED signals
    /\ UNCHANGED <<logind, thread, closed, missed, requests, channel, session, story>>

\* logind stops answering for a while.
Stalls ==
    /\ logind' = ~logind
    /\ UNCHANGED <<lid, moves, watch, requests, channel, session, story, answer, shuts>>

\* Somebody is at the machine after all: input undoes the dark, a password
\* ends the locker.
SomebodyIsThere ==
    /\ dark \/ locked
    /\ dark' = FALSE
    /\ locked' \in {locked, FALSE}
    /\ did' = "nothing"
    /\ UNCHANGED <<lid, logind, moves, watch, requests, channel, told, slept, acted, answer, shuts>>

-----------------------------------------------------------------------------
(* lid::run *)

\* The inhibitor is granted, or there is none to be had.
Hold ==
    /\ thread = "starting"
    /\ thread' \in {"held", "ended"}
    /\ UNCHANGED <<lid, logind, moves, closed, signals, missed, requests, channel,
                   session, story, answer, shuts>>

\* Without the signals the thread ends, and the inhibitor goes with it.
Subscribe ==
    /\ thread = "held"
    /\ thread' \in {"subscribed", "ended"}
    /\ UNCHANGED <<lid, logind, moves, closed, signals, missed, requests, channel,
                   session, story, answer, shuts>>

\* The first reading is kept and not sent: a lid that is shut by now stays so
\* without anybody's acting on it.
ReadFirst ==
    /\ thread = "subscribed"
    /\ thread' = "watching"
    /\ closed' = IF logind THEN lid ELSE "open"
    /\ missed' = ~logind
    /\ UNCHANGED <<lid, logind, moves, signals, requests, channel,
                   session, story, answer, shuts>>

\* Mutation: a signal that does not carry the value means nothing.
MeansValuesOnly(says) == IF says # "invalidated" THEN says ELSE closed

\* What a signal means: the value it carries, or else the lid as it is by now,
\* or nothing new when logind does not say.
Means(says) ==
    IF says # "invalidated" THEN says ELSE IF logind THEN lid ELSE closed

\* History.  A reading taken with signals still queued runs ahead of them, and
\* hides the moves between.
Reckon(says, queued) ==
    /\ missed' = ((says = "invalidated" /\ ~logind) \/ (missed /\ closed' = closed))
    /\ answer' = IF says = "invalidated" /\ queued # <<>> THEN "nobody" ELSE answer

\* Mutation: what the lid was is not looked at.
HearAll ==
    /\ thread = "watching" /\ signals # <<>>
    /\ signals' = Tail(signals)
    /\ closed' = Means(Head(signals))
    /\ Reckon(Head(signals), Tail(signals))
    /\ thread' = "moved"
    /\ UNCHANGED <<lid, logind, moves, requests, channel, session, story, shuts>>

\* A signal, passed over if the lid is as it was.
Hear ==
    /\ thread = "watching" /\ signals # <<>>
    /\ signals' = Tail(signals)
    /\ closed' = Means(Head(signals))
    /\ Reckon(Head(signals), Tail(signals))
    /\ thread' = IF closed' = closed THEN "watching" ELSE "moved"
    /\ UNCHANGED <<lid, logind, moves, requests, channel, session, story, shuts>>

\* Docked and OnExternalPower are read, FALSE if logind does not say, and sent.
Tell ==
    /\ thread = "moved"
    /\ thread' = "watching"
    /\ \E docked, power \in BOOLEAN :
          /\ ~logind => ~docked /\ ~power
          /\ Send([kind |-> "lid", closed |-> closed, docked |-> docked, power |-> power])
    /\ UNCHANGED <<lid, logind, moves, closed, signals, missed, requests,
                   session, story, answer, shuts>>

-----------------------------------------------------------------------------
(* Idle::lid, lid::sleep *)

\* Lid::action
ActionFor(docked, power) ==
    IF docked THEN Actions.docked ELSE IF power THEN Actions.on_ac ELSE Actions.on_battery

\* The lid is open: as good as input.
TakeOpen ==
    /\ channel # <<>> /\ Head(channel).kind = "lid" /\ Head(channel).closed = "open"
    /\ channel' = Tail(channel)
    /\ dark' = FALSE
    /\ told' = "open" /\ did' = "nothing"
    /\ UNCHANGED <<lid, logind, moves, watch, requests, locked, slept, acted, answer, shuts>>

Blank(wanted) == dark' = (dark \/ wanted)
Lock(wanted) == locked' = (locked \/ (wanted /\ HasLocker))

\* The lid is shut: what [lid] says for the situation.
TakeShut ==
    LET e == Head(channel)
        action == ActionFor(e.docked, e.power)
    IN  /\ channel # <<>> /\ e.kind = "lid" /\ e.closed = "shut"
        /\ channel' = Tail(channel)
        /\ IF action \in {"suspend", "hibernate"}
           THEN requests < MaxRequests /\ requests' = requests + 1
           ELSE UNCHANGED requests
        /\ Lock(action = "lock") /\ Blank(action \in {"lock", "blank"})
        /\ told' = "shut" /\ did' = action /\ slept' = FALSE /\ acted' = acted + 1
        /\ UNCHANGED <<lid, logind, moves, watch, answer, shuts>>

\* Mutation: another's request is taken for one of ours.
GrantedUnasked ==
    /\ requests' = requests - 1
    /\ slept' = TRUE
    /\ UNCHANGED <<lid, logind, moves, watch, channel, session, told, did, acted, answer, shuts>>

\* logind lets the machine sleep.
Granted ==
    /\ requests > 0
    /\ requests' = requests - 1
    /\ slept' = TRUE
    /\ UNCHANGED <<lid, logind, moves, watch, channel, session, told, did, acted, answer, shuts>>

\* It does not, and the thread that asked says so.
Refused ==
    /\ requests > 0
    /\ requests' = requests - 1
    /\ Send([kind |-> "refused"])
    /\ UNCHANGED <<lid, logind, moves, watch, session, story, answer, shuts>>

\* Mutation: a refusal is for the log.
TakeRefusedOnly ==
    /\ channel # <<>> /\ Head(channel).kind = "refused"
    /\ channel' = Tail(channel)
    /\ UNCHANGED <<lid, logind, moves, watch, requests, session, story, answer, shuts>>

\* Dark and locked instead, wherever the lid is by now.
TakeRefused ==
    /\ channel # <<>> /\ Head(channel).kind = "refused"
    /\ channel' = Tail(channel)
    /\ Lock(TRUE) /\ Blank(TRUE)
    /\ UNCHANGED <<lid, logind, moves, watch, requests, story, answer, shuts>>

-----------------------------------------------------------------------------
Next ==
    \/ Moves \/ Stalls \/ SomebodyIsThere
    \/ Hold \/ Subscribe \/ ReadFirst \/ Hear \/ Tell
    \/ TakeOpen \/ TakeShut \/ Granted \/ Refused \/ TakeRefused

Spec == Init /\ [][Next]_vars

\* The thread and the loop run, and a request to sleep is answered.
FairSpec ==
    /\ Spec
    /\ WF_vars(ReadFirst \/ Hear \/ Tell)
    /\ WF_vars(TakeOpen \/ TakeShut \/ TakeRefused)
    /\ WF_vars(Granted \/ Refused)

-----------------------------------------------------------------------------
(* Properties *)

\* Everything said of the lid, and of what it led to, has been heard.
Settled == thread = "watching" /\ signals = <<>> /\ channel = <<>> /\ requests = 0

\* Once all is heard the thread has the lid right, and so has the loop if it
\* was ever told, whatever signals ran ahead of the first reading or behind a
\* later one -- if logind answered.  A lid that was shut while watched has been
\* acted on, since logind has left it to us.
LidAsItIs ==
    Settled =>
        \/ missed
        \/ /\ closed = lid /\ told \in {lid, "nothing"}
           /\ lid = "shut" /\ answer = "thread" => told = "shut"

\* A lid that was to put the machine to sleep has done so, or else the session
\* is dark, and locked if it can be: a refusal is not the end of it.
NeverAwakeInTheBag ==
    Settled /\ lid = "shut" /\ did \in {"suspend", "hibernate"}
        => slept \/ (dark /\ (HasLocker => locked))

\* The loop acts no more often than the lid was shut under the inhibitor: what
\* logind has acted on is not acted on again.
ActsOncePerShut == acted <= shuts

\* A lid shut while it is watched, and left so, is acted on in the end.
ShutIsNoticed ==
    (thread = "watching" /\ lid = "shut" /\ answer = "thread")
        ~> (told = "shut" \/ lid = "open" \/ answer = "nobody" \/ missed)
=============================================================================
