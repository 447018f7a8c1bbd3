----------------------------- MODULE SessionBus ------------------------------
(***************************************************************************)
(* The inhibit registry (src/dbus/inhibit.rs), the two session bus         *)
(* interfaces that fill it (screensaver.rs, power.rs), the thread that     *)
(* empties it when a client dies (watch_for_departures in dbus/mod.rs) and *)
(* what reaches the main loop of it.                                       *)
(*                                                                         *)
(* Two threads share the registry behind a mutex.  A method call runs on   *)
(* the bus connection's executor, from start to end without another call   *)
(* coming between; the departures thread runs beside it.  Each changes the *)
(* registry, then looks at it again under the lock (report_inhibits), then *)
(* sends what it saw: three separate steps.                                *)
(***************************************************************************)
EXTENDS Naturals, Sequences, FiniteSets

CONSTANTS
    Clients,        \* unique bus names; the bus never hands one out twice
    Mortal,         \* those that may leave the bus
    Span,           \* how many values a cookie has: 2^32
    MaxInhibits,    \* bound: Inhibit calls made
    MaxInbox,       \* bound: calls read from the socket and not yet run
    MaxChannel      \* bound: events sent to the loop and not yet taken

ASSUME ClientsAssumption == Mortal \subseteq Clients

ASSUME SpanAssumption == Span \in Nat /\ Span > 1

Kinds == {"ScreenSaver", "PowerManagement"}
Cookies == 1 .. Span - 1
Threads == {"bus", "watch"}

VARIABLES       \* Inhibits
    next,       \* the cookie last handed out
    holders     \* the two maps: every live cookie, with its map and its owner

VARIABLES       \* the two threads
    watching,   \* NameOwnerChanged is subscribed to
    inbox,      \* method calls to run
    departed,   \* names whose NameOwnerChanged is yet to be seen
    at,         \* what a thread has left to do: "read", "send", or neither
    saw,        \* what it read, to send
    reply       \* the cookie to answer the running call with

VARIABLES       \* the main loop's end
    channel,    \* Event::Inhibited, in order
    inhibited   \* Idle.inhibited

VARIABLES       \* the clients
    alive,      \* those still on the bus
    told,       \* the cookies each was given and has not given back
    taken       \* how many Inhibit calls were made

registry == <<next, holders>>
threads == <<watching, inbox, departed, at, saw, reply>>
loop == <<channel, inhibited>>
clients == <<alive, told, taken>>
vars == <<registry, threads, loop, clients>>

Holder == [kind : Kinds, cookie : Cookies, owner : Clients]
Call == [method : {"Inhibit", "UnInhibit"}, kind : Kinds, cookie : 0 .. Span - 1, caller : Clients]

\* The registry, the threads, the loop and the clients have their types; a
\* cookie is never zero, wherever the counter has wrapped to.
TypeOK ==
    /\ next \in 0 .. Span - 1
    /\ holders \subseteq Holder
    /\ watching \in BOOLEAN
    /\ inbox \in Seq(Call)
    /\ departed \in Seq(Clients)
    /\ at \in [Threads -> {"idle", "read", "send"}]
    /\ saw \in [Threads -> BOOLEAN]
    /\ reply \subseteq Holder
    /\ channel \in Seq(BOOLEAN)
    /\ inhibited \in BOOLEAN
    /\ alive \subseteq Clients
    /\ told \subseteq Holder
    /\ taken \in Nat

Init ==
    /\ next = 0
    /\ holders = {}
    /\ watching = FALSE
    /\ inbox = <<>>
    /\ departed = <<>>
    /\ at = [t \in Threads |-> "idle"]
    /\ saw = [t \in Threads |-> FALSE]
    /\ reply = {}
    /\ channel = <<>>
    /\ inhibited = FALSE
    /\ alive = Clients
    /\ told = {}
    /\ taken = 0

-----------------------------------------------------------------------------
(* The registry *)

\* Mutation: only the caller's own map is looked at for a live cookie.
FreeIn(kind) == Cookies \ {h.cookie : h \in {g \in holders : g.kind = kind}}

\* Cookies no caller currently holds, in either map.
Free(kind) == Cookies \ {h.cookie : h \in holders}

\* How many increments, wrapping, take the counter to k.
Distance(k) == IF k > next THEN k - next ELSE k + Span - next

\* Inhibits::allocate: count up to the first free cookie, zero never being one.
Allocates(kind, k) ==
    \A j \in Free(kind) : Distance(k) <= Distance(j)

\* Mutation: a cookie is released to whoever names it.
RemovableByAnyone(kind, cookie, caller) ==
    {h \in holders : h.kind = kind /\ h.cookie = cookie}

\* Inhibits::remove: the entry for this cookie, if the caller is its owner.
Removable(kind, cookie, caller) ==
    {h \in holders : h.kind = kind /\ h.cookie = cookie /\ h.owner = caller}

\* Mutation: everybody's inhibits go with the first client to die.
Everybodys(c) == holders

\* Inhibits::drop_owner
OwnedBy(c) == {h \in holders : h.owner = c}

\* Inhibits::active
Active == holders # {}

-----------------------------------------------------------------------------
(* Clients *)

Sends(call) ==
    /\ call.caller \in alive
    /\ Len(inbox) < MaxInbox
    /\ inbox' = Append(inbox, call)

CallInhibit(c, kind) ==
    /\ taken < MaxInhibits
    /\ taken' = taken + 1
    /\ Sends([method |-> "Inhibit", kind |-> kind, cookie |-> 0, caller |-> c])
    /\ UNCHANGED <<registry, watching, departed, at, saw, reply, loop, alive, told>>

\* What a client may name: a cookie it was told, which it then forgets, a live
\* one of somebody else's, or one that is nobody's (zero stands for those).
Nameable(c) ==
    {h \in told : h.owner = c}
        \cup [kind : Kinds, cookie : {h.cookie : h \in holders \ OwnedBy(c)} \cup {0}, owner : {c}]

CallUnInhibit(c, name) ==
    /\ Sends([method |-> "UnInhibit", kind |-> name.kind, cookie |-> name.cookie, caller |-> c])
    /\ told' = told \ {name}
    /\ UNCHANGED <<registry, watching, departed, at, saw, reply, loop, alive, taken>>

\* A client goes away, saying nothing.  Calls it made are still to be run; the
\* bus announces the name's end to whoever has subscribed by then.
Die(c) ==
    /\ c \in alive \cap Mortal
    /\ alive' = alive \ {c}
    /\ departed' = IF watching THEN Append(departed, c) ELSE departed
    /\ UNCHANGED <<registry, watching, inbox, at, saw, reply, loop, told, taken>>

-----------------------------------------------------------------------------
(* The executor: ScreenSaver and PowerManagement *)

RunsNext(method) ==
    /\ at["bus"] = "idle"
    /\ inbox # <<>>
    /\ Head(inbox).method = method
    /\ inbox' = Tail(inbox)

\* inhibit: the cookie is allocated and entered under one lock.
RunInhibit ==
    LET call == Head(inbox) IN
    /\ RunsNext("Inhibit")
    /\ \E k \in Free(call.kind) :
        /\ Allocates(call.kind, k)
        /\ next' = k
        /\ reply' = {[kind |-> call.kind, cookie |-> k, owner |-> call.caller]}
    /\ holders' = holders \cup reply'
    /\ at' = [at EXCEPT !["bus"] = "read"]
    /\ UNCHANGED <<watching, departed, saw, loop, clients>>

\* Whatever the caller named it no longer has, wherever it had it from.
GivenBack(call) == [kind |-> call.kind, cookie |-> call.cookie, owner |-> call.caller]

\* Mutation: un_inhibit without report_inhibits.
RunUnInhibitSilent ==
    LET call == Head(inbox) IN
    /\ RunsNext("UnInhibit")
    /\ holders' = holders \ Removable(call.kind, call.cookie, call.caller)
    /\ told' = told \ {GivenBack(call)}
    /\ UNCHANGED <<next, watching, departed, at, saw, reply, loop, alive, taken>>

\* un_inhibit: a refusal is logged, answered, and reported to nobody.
RunUnInhibit ==
    LET call == Head(inbox)
        gone == Removable(call.kind, call.cookie, call.caller) IN
    /\ RunsNext("UnInhibit")
    /\ holders' = holders \ gone
    /\ at' = IF gone = {} THEN at ELSE [at EXCEPT !["bus"] = "read"]
    /\ told' = told \ {GivenBack(call)}
    /\ UNCHANGED <<next, watching, departed, saw, reply, loop, alive, taken>>

-----------------------------------------------------------------------------
(* The departures thread *)

\* Names are served before this: session_bus requests them first.
Subscribe ==
    /\ ~watching
    /\ watching' = TRUE
    /\ UNCHANGED <<registry, inbox, departed, at, saw, reply, loop, clients>>

\* Mutation: a departure clears the screensaver map alone.
NoticeScreenSaverOnly ==
    LET gone == {h \in OwnedBy(Head(departed)) : h.kind = "ScreenSaver"} IN
    /\ at["watch"] = "idle"
    /\ departed # <<>>
    /\ departed' = Tail(departed)
    /\ holders' = holders \ gone
    /\ at' = IF gone = {} THEN at ELSE [at EXCEPT !["watch"] = "read"]
    /\ UNCHANGED <<next, watching, inbox, saw, reply, loop, clients>>

Notice ==
    LET gone == OwnedBy(Head(departed)) IN
    /\ at["watch"] = "idle"
    /\ departed # <<>>
    /\ departed' = Tail(departed)
    /\ holders' = holders \ gone
    /\ at' = IF gone = {} THEN at ELSE [at EXCEPT !["watch"] = "read"]
    /\ UNCHANGED <<next, watching, inbox, saw, reply, loop, clients>>

-----------------------------------------------------------------------------
(* report_inhibits, on either thread *)

\* The picture, read under the lock ...
Read(t) ==
    /\ at[t] = "read"
    /\ at' = [at EXCEPT ![t] = "send"]
    /\ saw' = [saw EXCEPT ![t] = Active]
    /\ UNCHANGED <<registry, watching, inbox, departed, reply, loop, clients>>

\* ... and sent once it is released; then the call, if it is one, is answered.
Send(t) ==
    /\ at[t] = "send"
    /\ Len(channel) < MaxChannel
    /\ at' = [at EXCEPT ![t] = "idle"]
    /\ saw' = [saw EXCEPT ![t] = FALSE]
    /\ channel' = Append(channel, saw[t])
    /\ IF t = "bus"
       THEN /\ told' = told \cup {h \in reply : h.owner \in alive}
            /\ reply' = {}
       ELSE UNCHANGED <<told, reply>>
    /\ UNCHANGED <<registry, watching, inbox, departed, inhibited, alive, taken>>

\* The main loop takes one event: the last one wins.
LoopTakes ==
    /\ channel # <<>>
    /\ inhibited' = Head(channel)
    /\ channel' = Tail(channel)
    /\ UNCHANGED <<registry, threads, clients>>

-----------------------------------------------------------------------------
Next ==
    \/ \E c \in Clients, kind \in Kinds : CallInhibit(c, kind)
    \/ \E c \in Clients : \E name \in Nameable(c) : CallUnInhibit(c, name)
    \/ \E c \in Clients : Die(c)
    \/ RunInhibit
    \/ RunUnInhibit
    \/ Subscribe
    \/ Notice
    \/ \E t \in Threads : Read(t)
    \/ \E t \in Threads : Send(t)
    \/ LoopTakes

Spec == Init /\ [][Next]_vars

\* The threads and the loop run; no client has to do anything.
FairSpec ==
    /\ Spec
    /\ WF_vars(RunInhibit \/ RunUnInhibit)
    /\ WF_vars(Subscribe)
    /\ WF_vars(Notice)
    /\ \A t \in Threads : WF_vars(Read(t)) /\ WF_vars(Send(t))
    /\ WF_vars(LoopTakes)

-----------------------------------------------------------------------------
(* Properties *)

\* No two live inhibits share a cookie, not even one in each map and not even
\* after the counter has wrapped (allocate).
CookiesUnique ==
    \A g, h \in holders : g.cookie = h.cookie => g = h

\* What a living client has been told it holds is in the registry under its
\* name: nobody else's UnInhibit, second release or death takes it away.
HoldersKept ==
    \A h \in told : h.owner \in alive => h \in holders

\* An inhibit leaves the registry only by its owner's own call, or because its
\* owner has left the bus.
OnlyOwnerReleases ==
    [][ \A h \in holders \ holders' :
          \/ h.owner \notin alive
          \/ /\ inbox # <<>>
             /\ inbox' = Tail(inbox)
             /\ Head(inbox).method = "UnInhibit"
             /\ Head(inbox).caller = h.owner ]_vars

\* Nothing about the registry is on its way to the loop.
Settled ==
    /\ channel = <<>>
    /\ \A t \in Threads : at[t] = "idle"

\* Once everything sent has arrived, the loop holds the session awake exactly
\* when somebody holds an inhibit (report_inhibits).
SettledAgrees ==
    Settled => (inhibited <=> Active)

\* ... which is so as long as nobody has left the bus, so that the executor is
\* the only thread that reports.
AgreesWhileAllLive ==
    alive = Clients => SettledAgrees

\* A client all of whose calls have run when the bus announces its departure
\* ends up holding nothing, in either map.
DepartureReleases ==
    \A c \in Mortal :
        ( /\ \E k \in DOMAIN departed : departed[k] = c
          /\ \A k \in DOMAIN inbox : inbox[k].caller # c )
        ~> (OwnedBy(c) = {})
==============================================================================
