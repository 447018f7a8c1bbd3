-------------------------- MODULE SessionBusProofs ---------------------------
(***************************************************************************)
(* Theorems about the inhibit registry and what reaches the main loop of   *)
(* it, for any number of clients and any width of cookie.                  *)
(***************************************************************************)
EXTENDS SessionBus, SequenceTheorems, TLAPS

-----------------------------------------------------------------------------
(* Types *)

LEMMA TypeInit == Init => TypeOK
<1> SUFFICES ASSUME Init PROVE TypeOK
  OBVIOUS
<1>1. next \in 0 .. Span - 1 /\ taken \in Nat
  BY SpanAssumption DEF Init
<1>2. inbox \in Seq(Call) /\ departed \in Seq(Clients) /\ channel \in Seq(BOOLEAN)
  BY EmptySeq DEF Init
<1>3. QED
  BY <1>1, <1>2 DEF Init, TypeOK

\* Every element of an event or call queue has its type, and so has the rest.
LEMMA TakeOne ==
    ASSUME NEW S, NEW q \in Seq(S), q # <<>>
    PROVE  Head(q) \in S /\ Tail(q) \in Seq(S)
BY HeadTailProperties

LEMMA PutOne ==
    ASSUME NEW S, NEW q \in Seq(S), NEW e \in S
    PROVE  Append(q, e) \in Seq(S)
BY AppendProperties

LEMMA TypeStep == TypeOK /\ [Next]_vars => TypeOK'
<1> SUFFICES ASSUME TypeOK, [Next]_vars PROVE TypeOK'
  OBVIOUS
<1> USE DEF TypeOK
<1> USE DEF registry, threads, loop, clients
<1>1. ASSUME NEW c \in Clients, NEW kind \in Kinds, CallInhibit(c, kind) PROVE TypeOK'
  <2>1. [method |-> "Inhibit", kind |-> kind, cookie |-> 0, caller |-> c] \in Call
    BY SpanAssumption DEF Call
  <2>2. inbox' \in Seq(Call)
    BY <1>1, <2>1, PutOne DEF CallInhibit, Sends
  <2>3. QED
    BY <1>1, <2>2 DEF CallInhibit
<1>2. ASSUME NEW c \in Clients, NEW name \in Nameable(c), CallUnInhibit(c, name) PROVE TypeOK'
  <2>1. name.kind \in Kinds /\ name.cookie \in 0 .. Span - 1
    BY SpanAssumption DEF Nameable, Holder, Cookies
  <2>2. [method |-> "UnInhibit", kind |-> name.kind, cookie |-> name.cookie, caller |-> c] \in Call
    BY <2>1 DEF Call
  <2>3. inbox' \in Seq(Call)
    BY <1>2, <2>2, PutOne DEF CallUnInhibit, Sends
  <2>4. QED
    BY <1>2, <2>3 DEF CallUnInhibit
<1>3. ASSUME NEW c \in Clients, Die(c) PROVE TypeOK'
  <2>1. departed' \in Seq(Clients)
    BY <1>3, PutOne DEF Die
  <2>2. QED
    BY <1>3, <2>1 DEF Die
<1>4. CASE RunInhibit
  <2>1. Head(inbox) \in Call /\ inbox' \in Seq(Call)
    BY <1>4, TakeOne DEF RunInhibit, RunsNext
  <2>2. next' \in 0 .. Span - 1 /\ reply' \subseteq Holder
    BY <1>4, <2>1, SpanAssumption DEF RunInhibit, Free, Cookies, Holder, Call
  <2>3. at' \in [Threads -> {"idle", "read", "send"}]
    BY <1>4 DEF RunInhibit
  <2>4. QED
    BY <1>4, <2>1, <2>2, <2>3 DEF RunInhibit
<1>5. CASE RunUnInhibit
  <2>1. inbox' \in Seq(Call)
    BY <1>5, TakeOne DEF RunUnInhibit, RunsNext
  <2>2. holders' \subseteq holders /\ at' \in [Threads -> {"idle", "read", "send"}]
    BY <1>5 DEF RunUnInhibit
  <2>3. QED
    BY <1>5, <2>1, <2>2 DEF RunUnInhibit
<1>6. CASE Subscribe
  BY <1>6 DEF Subscribe
<1>7. CASE Notice
  <2>1. departed' \in Seq(Clients)
    BY <1>7, TakeOne DEF Notice
  <2>2. holders' \subseteq holders /\ at' \in [Threads -> {"idle", "read", "send"}]
    BY <1>7 DEF Notice
  <2>3. QED
    BY <1>7, <2>1, <2>2 DEF Notice
<1>8. ASSUME NEW t \in Threads, Read(t) PROVE TypeOK'
  BY <1>8 DEF Read, Active
<1>9. ASSUME NEW t \in Threads, Send(t) PROVE TypeOK'
  <2>1. saw[t] \in BOOLEAN
    OBVIOUS
  <2>2. channel' \in Seq(BOOLEAN)
    BY <1>9, <2>1, PutOne DEF Send
  <2>3. at' \in [Threads -> {"idle", "read", "send"}] /\ saw' \in [Threads -> BOOLEAN]
    BY <1>9 DEF Send
  <2>4. told' \subseteq Holder /\ reply' \subseteq Holder
    BY <1>9 DEF Send
  <2>5. QED
    BY <1>9, <2>2, <2>3, <2>4 DEF Send
<1>10. CASE LoopTakes
  <2>1. inhibited' \in BOOLEAN /\ channel' \in Seq(BOOLEAN)
    BY <1>10, TakeOne DEF LoopTakes
  <2>2. QED
    BY <1>10, <2>1 DEF LoopTakes
<1>11. CASE UNCHANGED vars
  BY <1>11 DEF vars
<1>12. QED
  BY <1>1, <1>2, <1>3, <1>4, <1>5, <1>6, <1>7, <1>8, <1>9, <1>10, <1>11 DEF Next

\* The registry and everything between it and the loop keep their types; the
\* counter may wrap, and zero is never handed out.
THEOREM TypeCorrect == Spec => []TypeOK
BY TypeInit, TypeStep, PTL DEF Spec

-----------------------------------------------------------------------------
(* Cookies *)

\* The registry grows by a free cookie, or it does not grow.
LEMMA RegistrySteps ==
    ASSUME TypeOK, [Next]_vars
    PROVE  \/ \E h : holders' = holders \cup {h} /\ \A g \in holders : g.cookie # h.cookie
           \/ holders' \subseteq holders
<1>1. CASE RunInhibit
  <2>1. PICK k \in Free(Head(inbox).kind) :
          reply' = {[kind |-> Head(inbox).kind, cookie |-> k, owner |-> Head(inbox).caller]}
    BY <1>1 DEF RunInhibit
  <2>2. holders' = holders \cup reply' /\ \A g \in holders : g.cookie # k
    BY <1>1, <2>1 DEF RunInhibit, Free
  <2>3. QED
    BY <2>1, <2>2
<1>2. CASE ~RunInhibit
  BY <1>2
  DEF Next, vars, registry, CallInhibit, CallUnInhibit, Die, RunUnInhibit, Subscribe, Notice,
      Read, Send, LoopTakes
<1>3. QED
  BY <1>1, <1>2

LEMMA UniqueStep == TypeOK /\ CookiesUnique /\ [Next]_vars => CookiesUnique'
BY RegistrySteps DEF CookiesUnique

LEMMA UniqueInit == Init => CookiesUnique
BY DEF Init, CookiesUnique

\* No two live inhibits ever share a cookie, in either map or across them,
\* however far the counter has wrapped.
THEOREM CookiesStayUnique == Spec => []CookiesUnique
BY TypeInit, TypeStep, UniqueInit, UniqueStep, PTL DEF Spec

\* The bus announces only names that have gone.
DepartedGone == \A k \in DOMAIN departed : departed[k] \notin alive

LEMMA DepartedStep == TypeOK /\ DepartedGone /\ [Next]_vars => DepartedGone'
<1> SUFFICES ASSUME TypeOK, DepartedGone, [Next]_vars PROVE DepartedGone'
  OBVIOUS
<1>1. ASSUME NEW c \in Clients, Die(c) PROVE DepartedGone'
  <2>1. alive' = alive \ {c} /\ departed' \in {departed, Append(departed, c)}
    BY <1>1 DEF Die
  <2>2. \A k \in DOMAIN departed' : departed'[k] = c \/ (k \in DOMAIN departed /\ departed'[k] = departed[k])
    BY <2>1, <1>1, AppendProperties, LenProperties DEF TypeOK
  <2>3. QED
    BY <2>1, <2>2 DEF DepartedGone
<1>2. CASE Notice
  <2>1. alive' = alive /\ departed # <<>> /\ departed' = Tail(departed)
    BY <1>2 DEF Notice, clients
  <2>2. \A k \in DOMAIN departed' : k + 1 \in DOMAIN departed /\ departed'[k] = departed[k + 1]
    BY <2>1, HeadTailProperties, LenProperties DEF TypeOK
  <2>3. QED
    BY <2>1, <2>2 DEF DepartedGone
<1>3. CASE UNCHANGED <<alive, departed>>
  BY <1>3 DEF DepartedGone
<1>4. QED
  BY <1>1, <1>2, <1>3
  DEF Next, vars, threads, clients, CallInhibit, CallUnInhibit, RunInhibit, RunUnInhibit,
      Subscribe, Read, Send, LoopTakes

LEMMA DepartedInit == Init => DepartedGone
BY DEF Init, DepartedGone

LEMMA ReleaseStep ==
    ASSUME TypeOK, DepartedGone, [Next]_vars, NEW h \in holders \ holders'
    PROVE  \/ h.owner \notin alive
           \/ /\ inbox # <<>>
              /\ inbox' = Tail(inbox)
              /\ Head(inbox).method = "UnInhibit"
              /\ Head(inbox).caller = h.owner
<1>1. CASE RunUnInhibit
  BY <1>1 DEF RunUnInhibit, RunsNext, Removable
<1>2. CASE Notice
  BY <1>2, EmptySeq, LenProperties DEF Notice, OwnedBy, DepartedGone, TypeOK
<1>3. CASE RunInhibit
  BY <1>3 DEF RunInhibit
<1>4. holders' # holders
  OBVIOUS
<1>5. QED
  BY <1>1, <1>2, <1>3, <1>4
  DEF Next, vars, registry, CallInhibit, CallUnInhibit, Die, Subscribe, Read, Send, LoopTakes

\* Nobody can release another client's inhibit: one leaves the registry by its
\* owner's own call, or once its owner is off the bus.
THEOREM NobodyReleasesAnothers == Spec => OnlyOwnerReleases
<1>1. TypeOK /\ DepartedGone /\ [Next]_vars =>
        [ \A h \in holders \ holders' :
            \/ h.owner \notin alive
            \/ /\ inbox # <<>>
               /\ inbox' = Tail(inbox)
               /\ Head(inbox).method = "UnInhibit"
               /\ Head(inbox).caller = h.owner ]_vars
  BY ReleaseStep
<1>2. QED
  BY <1>1, TypeInit, TypeStep, DepartedInit, DepartedStep, PTL DEF Spec, OnlyOwnerReleases

-----------------------------------------------------------------------------
(* What the clients are told *)

\* What a living client has been told it holds, or is about to be, it holds; and
\* nothing is left to tell once the executor is idle.
Holding ==
    /\ at["bus"] = "idle" => reply = {}
    /\ \A h \in told \cup reply : h.owner \in alive => h \in holders

LEMMA HoldingInit == Init => Holding
BY DEF Init, Holding, Threads

LEMMA HoldingStep == TypeOK /\ DepartedGone /\ Holding /\ [Next]_vars => Holding'
<1> SUFFICES ASSUME TypeOK, DepartedGone, Holding, [Next]_vars PROVE Holding'
  OBVIOUS
<1> USE DEF registry, threads, loop, clients, Holding
<1>1. at \in [Threads -> {"idle", "read", "send"}] /\ {"bus", "watch"} \subseteq Threads
  BY DEF TypeOK, Threads
<1>2. CASE RunInhibit
  <2>1. reply' \subseteq holders' /\ holders \subseteq holders' /\ at'["bus"] = "read"
        /\ UNCHANGED <<told, alive>>
    BY <1>1, <1>2 DEF RunInhibit
  <2>2. QED
    BY <2>1
<1>3. CASE RunUnInhibit
  <2> DEFINE call == Head(inbox)
             gone == Removable(call.kind, call.cookie, call.caller)
  <2>1. at["bus"] = "idle" /\ reply' = {} /\ alive' = alive
        /\ holders' = holders \ gone /\ told' = told \ {GivenBack(call)}
    BY <1>3 DEF RunUnInhibit, RunsNext
  <2>2. \A h \in gone : h = GivenBack(call)
    BY DEF Removable, GivenBack, TypeOK, Holder
  <2> HIDE DEF call, gone
  <2>3. \A h \in told' : h.owner \in alive => h \in holders'
    BY <2>1, <2>2
  <2>4. QED
    BY <2>1, <2>3
<1>4. CASE Notice
  <2>1. Head(departed) \notin alive
    BY <1>4, HeadTailProperties DEF Notice, DepartedGone, TypeOK
  <2>2. \A h \in holders \ holders' : h.owner = Head(departed)
    BY <1>4 DEF Notice, OwnedBy
  <2>3. UNCHANGED <<told, reply, alive>> /\ at'["bus"] = at["bus"]
    BY <1>1, <1>4 DEF Notice
  <2>4. QED
    BY <2>1, <2>2, <2>3
<1>5. ASSUME NEW t \in Threads, Read(t) PROVE Holding'
  <2>1. UNCHANGED <<holders, told, reply, alive>> /\ (at'["bus"] = "idle" => at["bus"] = "idle")
    BY <1>1, <1>5 DEF Read
  <2>2. QED
    BY <2>1
<1>6. ASSUME NEW t \in Threads, Send(t) PROVE Holding'
  <2>1. CASE t = "bus"
    BY <1>6, <2>1 DEF Send
  <2>2. CASE t # "bus"
    BY <1>1, <1>6, <2>2 DEF Send
  <2>3. QED
    BY <2>1, <2>2
<1>7. CASE UNCHANGED <<holders, at, reply>> /\ told' \subseteq told /\ alive' \subseteq alive
  BY <1>7
<1>8. QED
  BY <1>2, <1>3, <1>4, <1>5, <1>6, <1>7
  DEF Next, vars, CallInhibit, CallUnInhibit, Die, Subscribe, LoopTakes

\* Whatever cookies clients name, release twice or hear of from others, and
\* whoever dies, a living client keeps what it was given until it gives it back.
THEOREM HoldersKeep == Spec => []HoldersKept
<1>1. Holding => HoldersKept
  BY DEF Holding, HoldersKept
<1>2. QED
  BY <1>1, TypeInit, TypeStep, DepartedInit, DepartedStep, HoldingInit, HoldingStep, PTL DEF Spec

-----------------------------------------------------------------------------
(* What the loop is told *)

\* The last thing the loop has been told, or is about to take.
LastWord == IF channel = <<>> THEN inhibited ELSE channel[Len(channel)]

\* Until somebody leaves the bus only the executor reports, and what it has not
\* yet read again, or is about to send, is all that separates registry and loop.
OneReporter ==
    alive = Clients =>
        /\ departed = <<>>
        /\ at["watch"] = "idle"
        /\ at["bus"] = "idle" => LastWord = Active
        /\ at["bus"] = "send" => saw["bus"] = Active

\* Taking the first of several leaves the last one last.
LEMMA LastOfTail ==
    ASSUME NEW S, NEW q \in Seq(S), q # <<>>
    PROVE  IF Tail(q) = <<>> THEN q[Len(q)] = Head(q)
           ELSE Tail(q)[Len(Tail(q))] = q[Len(q)]
<1>1. /\ Tail(q) \in Seq(S)
      /\ Len(q) \in Nat \ {0}
      /\ Len(Tail(q)) = Len(q) - 1
      /\ \A i \in 1 .. Len(Tail(q)) : Tail(q)[i] = q[i + 1]
      /\ Head(q) = q[1]
  BY HeadTailProperties, EmptySeq
<1>2. CASE Tail(q) = <<>>
  <2>1. Len(Tail(q)) = 0
    BY <1>2, EmptySeq
  <2>2. Len(q) = 1
    <3>1. \A n \in Nat : 0 = n - 1 => n = 1
      OBVIOUS
    <3>2. QED
      BY <1>1, <2>1, <3>1, Zenon
  <2>3. QED
    BY <1>1, <1>2, <2>2
<1>3. CASE Tail(q) # <<>>
  <2>1. Len(Tail(q)) \in 1 .. Len(Tail(q)) /\ Len(Tail(q)) + 1 = Len(q)
    BY <1>1, <1>3, EmptySeq
  <2>2. QED
    BY <1>1, <1>3, <2>1
<1>4. QED
  BY <1>2, <1>3

LEMMA OneReporterInit == Init => OneReporter
BY DEF Init, OneReporter, LastWord, Active, Threads

LEMMA OneReporterStep == TypeOK /\ OneReporter /\ [Next]_vars => OneReporter'
<1> SUFFICES ASSUME TypeOK, OneReporter, [Next]_vars, alive' = Clients PROVE OneReporter'
  BY DEF OneReporter
<1> USE DEF registry, threads, loop, clients
<1>0. /\ alive = Clients
      /\ ~\E c \in Clients : Die(c)
  <2>1. \A c \in Clients : Die(c) => c \notin alive'
    BY DEF Die
  <2>2. QED
    BY <2>1 DEF Next, vars, CallInhibit, CallUnInhibit, RunInhibit, RunUnInhibit, Subscribe,
                Notice, Read, Send, LoopTakes
<1>1. /\ departed = <<>>
      /\ at["watch"] = "idle"
      /\ at["bus"] = "idle" => LastWord = Active
      /\ at["bus"] = "send" => saw["bus"] = Active
  BY <1>0 DEF OneReporter
<1>2. ~Notice
  BY <1>1 DEF Notice
<1>3. CASE RunInhibit
  BY <1>1, <1>3 DEF RunInhibit, OneReporter, TypeOK, Threads
<1>4. CASE RunUnInhibit
  BY <1>1, <1>4 DEF RunUnInhibit, OneReporter, LastWord, Active, TypeOK, Threads
<1>5. ASSUME NEW t \in Threads, Read(t) PROVE OneReporter'
  <2>1. t = "bus"
    BY <1>1, <1>5 DEF Read, OneReporter, Threads
  <2>2. QED
    BY <1>1, <1>5, <2>1 DEF Read, OneReporter, Active, TypeOK, Threads
<1>6. ASSUME NEW t \in Threads, Send(t) PROVE OneReporter'
  <2>1. t = "bus" /\ saw[t] = Active /\ Active' = Active
    BY <1>1, <1>6 DEF Send, OneReporter, Threads, Active
  <2>2. saw[t] \in BOOLEAN
    BY DEF TypeOK
  <2>3. channel' # <<>> /\ channel'[Len(channel')] = saw[t]
    BY <1>6, <2>2, AppendProperties DEF Send, TypeOK
  <2>4. LastWord' = Active'
    BY <2>1, <2>3 DEF LastWord
  <2>5. QED
    BY <1>1, <1>6, <2>1, <2>4 DEF Send, OneReporter, TypeOK, Threads
<1>7. CASE LoopTakes
  <2>1. channel \in Seq(BOOLEAN) /\ channel # <<>>
    BY <1>7 DEF LoopTakes, TypeOK
  <2>2. channel' = Tail(channel) /\ inhibited' = Head(channel)
    BY <1>7 DEF LoopTakes
  <2>3. IF Tail(channel) = <<>> THEN channel[Len(channel)] = Head(channel)
        ELSE Tail(channel)[Len(Tail(channel))] = channel[Len(channel)]
    BY <2>1, LastOfTail
  <2>4. LastWord' = LastWord
    BY <2>1, <2>2, <2>3, Zenon DEF LastWord
  <2>5. QED
    BY <1>1, <1>7, <2>4 DEF LoopTakes, OneReporter, Active
<1>8. CASE UNCHANGED <<departed, at, saw, channel, inhibited, holders>>
  BY <1>1, <1>8 DEF OneReporter, LastWord, Active
<1>9. QED
  BY <1>0, <1>2, <1>3, <1>4, <1>5, <1>6, <1>7, <1>8
  DEF Next, vars, CallInhibit, CallUnInhibit, Subscribe

\* As long as no client has left the bus, whatever calls come in on either
\* interface: once all reports have arrived, the loop holds the session awake
\* exactly when somebody holds an inhibit.
THEOREM LoopAgrees == Spec => []AgreesWhileAllLive
<1>1. OneReporter => AgreesWhileAllLive
  BY DEF OneReporter, AgreesWhileAllLive, SettledAgrees, Settled, LastWord, Threads
<1>2. QED
  BY <1>1, TypeInit, TypeStep, OneReporterInit, OneReporterStep, PTL DEF Spec
==============================================================================
