----------------------------- MODULE IdleProofs ------------------------------
(***************************************************************************)
(* Theorems about the main loop, for every configuration, every sequence   *)
(* of reloads and every bound.                                             *)
(***************************************************************************)
EXTENDS Idle, SequenceTheorems, TLAPS

-----------------------------------------------------------------------------
(* The wire *)

\* Destroying the steps' objects changes whom events are for, and nothing else.
LEMMA DestroyedWire ==
    ASSUME NEW w \in Seq(Event)
    PROVE  /\ Destroyed(w) \in Seq(Event)
           /\ DOMAIN Destroyed(w) = DOMAIN w
           /\ \A k \in DOMAIN w :
                /\ Destroyed(w)[k].kind = w[k].kind
                /\ Destroyed(w)[k].index = w[k].index
                /\ Destroyed(w)[k].from = IF w[k].from = "own" THEN "gone" ELSE w[k].from
<1>1. PICK n \in Nat : w \in [1..n -> Event]
  BY SeqDef
<1>2. \A k \in 1..n : Destroyed(w)[k] \in Event
  BY <1>1 DEF Destroyed, Event
<1>3. Destroyed(w) \in [1..n -> Event]
  BY <1>1, <1>2 DEF Destroyed
<1>4. Destroyed(w) \in Seq(Event)
  BY <1>3, SeqDef
<1>5. QED
  BY <1>1, <1>4 DEF Destroyed, Event

\* The same of losing the handles.
LEMMA OrphanedWire ==
    ASSUME NEW w \in Seq(Event)
    PROVE  /\ Orphaned(w) \in Seq(Event)
           /\ DOMAIN Orphaned(w) = DOMAIN w
           /\ \A k \in DOMAIN w :
                /\ Orphaned(w)[k].kind = w[k].kind
                /\ Orphaned(w)[k].from = IF w[k].from = "own" THEN "stray" ELSE w[k].from
<1>1. PICK n \in Nat : w \in [1..n -> Event]
  BY SeqDef
<1>2. \A k \in 1..n : Orphaned(w)[k] \in Event
  BY <1>1 DEF Orphaned, Event
<1>3. Orphaned(w) \in [1..n -> Event]
  BY <1>1, <1>2 DEF Orphaned
<1>4. Orphaned(w) \in Seq(Event)
  BY <1>3, SeqDef
<1>5. QED
  BY <1>1, <1>4 DEF Orphaned, Event

-----------------------------------------------------------------------------
(* The parts of the handlers keep the types *)

LEMMA ConfigSteps ==
    ASSUME NEW c \in Configs, NEW b \in BOOLEAN
    PROVE  /\ c.steps[b] \in Seq(Timeout)
           /\ c.locker \in BOOLEAN /\ c.sleepLock \in BOOLEAN /\ c.sleepBlank \in BOOLEAN
BY ConfigsAssumption DEF Config

LEMMA StepFields ==
    ASSUME NEW s \in Seq(Timeout)
    PROVE  \A i \in DOMAIN s : i \in Nat /\ s[i] \in Timeout /\ s[i].after \in Nat
<1>1. PICK n \in Nat : s \in [1..n -> Timeout]
  BY SeqDef
<1>2. QED
  BY <1>1 DEF Timeout

LEMMA ArmAllType ==
    ASSUME NEW s \in Seq(Timeout), NEW w \in Seq(Event), NEW held \in BOOLEAN,
           ArmAll(s, w, held)
    PROVE  /\ DOMAIN left' = IF held THEN {} ELSE DOMAIN s
           /\ left' \in [DOMAIN left' -> Nat]
           /\ idle' = {}
           /\ wire' \in Seq(Event)
           /\ quiet' \in 0..MaxQuiet
<1>1. \A i \in DOMAIN s : s[i].after \in Nat
  BY StepFields
<1>2. wire' = Destroyed(w) /\ quiet' = 0 /\ idle' = {}
  BY DEF ArmAll, Disarm
<1>3. wire' \in Seq(Event)
  BY <1>2, DestroyedWire
<1>4. CASE held
  BY <1>2, <1>3, <1>4, BoundsAssumption DEF ArmAll, Disarm, NoCountdown
<1>5. CASE ~held
  BY <1>1, <1>2, <1>3, <1>5, BoundsAssumption DEF ArmAll
<1>6. QED
  BY <1>4, <1>5

LEMMA UnwindType ==
    ASSUME TypeOK, Unwind
    PROVE  /\ fired' = {}
           /\ blanked' = FALSE /\ dimmed' = FALSE
           /\ active' \in BOOLEAN
           /\ owed' \subseteq Timeout
BY DEF TypeOK, ProgramOK, OutsideOK, Unwind

LEMMA RebuildType ==
    ASSUME TypeOK, NEW c \in Configs, NEW b \in BOOLEAN, Rebuild(c, b)
    PROVE  /\ steps' \in Seq(Timeout)
           /\ DOMAIN left' = IF inhibited THEN {} ELSE DOMAIN steps'
           /\ left' \in [DOMAIN left' -> Nat]
           /\ idle' = {}
           /\ stray' \subseteq Stray
           /\ wire' \in Seq(Event)
           /\ quiet' \in 0..MaxQuiet
<1>1. steps' = c.steps[b] /\ c.steps[b] \in Seq(Timeout)
  BY ConfigSteps DEF Rebuild
<1>2. Orphaned(wire) \in Seq(Event) /\ inhibited \in BOOLEAN
  BY OrphanedWire DEF TypeOK, ProgramOK, ProtocolOK
<1>3. ArmAll(c.steps[b], Orphaned(wire), inhibited)
  BY DEF Rebuild
<1>4. \A i \in DOMAIN left : i \in Nat /\ steps[i].after \in Nat /\ left[i] \in Nat
  BY StepFields DEF TypeOK, ProgramOK, ProtocolOK
<1>5. stray' \subseteq Stray
  <2>1. \A i \in DOMAIN left :
          [index |-> i, after |-> steps[i].after, left |-> left[i], idle |-> i \in idle] \in Stray
    BY <1>4 DEF Stray
  <2>2. Strays \subseteq Stray
    BY <2>1 DEF Strays, TypeOK, ProtocolOK
  <2>3. QED
    BY <2>2 DEF Rebuild
<1>6. QED
  BY <1>1, <1>2, <1>3, <1>5, ArmAllType

LEMMA WentIdleType ==
    ASSUME TypeOK, NEW i \in Nat, WentIdle(i)
    PROVE  /\ fired' \subseteq DOMAIN steps
           /\ blanked' \in BOOLEAN /\ dimmed' \in BOOLEAN /\ locker' \in BOOLEAN
           /\ active' \in BOOLEAN /\ asking' \in BOOLEAN /\ asked' \in BOOLEAN
           /\ owed' \subseteq Timeout
<1>1. CASE i \in DOMAIN steps \ fired
  <2>1. steps[i] \in Timeout
    BY <1>1, ElementOfSeq, LenProperties DEF TypeOK, ProgramOK
  <2>2. QED
    BY <1>1, <2>1 DEF WentIdle, Lock, Blank, PublishFired, TypeOK, ProgramOK, OutsideOK, Timeout
<1>2. CASE i \notin DOMAIN steps \ fired
  BY <1>2 DEF WentIdle, screen, TypeOK, ProgramOK, OutsideOK
<1>3. QED
  BY <1>1, <1>2

\* Taking the first event off the wire.
LEMMA TakeType ==
    ASSUME wire \in Seq(Event), wire # <<>>, wire' = Tail(wire)
    PROVE  wire' \in Seq(Event) /\ Head(wire) \in Event
BY HeadTailProperties

\* Putting one on it.
LEMMA SendType ==
    ASSUME wire \in Seq(Event), NEW kind \in {"idled", "resumed"}, NEW i \in Nat,
           NEW from \in {"own", "stray", "gone"}, Send(kind, i, from)
    PROVE  wire' \in Seq(Event)
<1>1. [kind |-> kind, index |-> i, from |-> from] \in Event
  BY DEF Event
<1>2. QED
  BY <1>1, AppendProperties DEF Send

-----------------------------------------------------------------------------
(* Type correctness *)

LEMMA TypeInit == Init => TypeOK
<1> SUFFICES ASSUME Init PROVE TypeOK
  OBVIOUS
<1>1. Boot.steps[FALSE] \in Seq(Timeout) /\ Boot \in Configs
  BY ConfigSteps DEF Configs
<1>2. <<>> \in Seq(Event)
  BY EmptySeq
<1>3. ProgramOK
  BY <1>1 DEF Init, ProgramOK
<1>4. ProtocolOK
  BY <1>2 DEF Init, ProtocolOK, NoCountdown
<1>5. OutsideOK
  <2>1. MaxQuiet \in Nat /\ quiet = 0
    BY BoundsAssumption DEF Init
  <2>2. quiet \in 0..MaxQuiet
    BY <2>1
  <2>3. QED
    BY <2>2 DEF Init, OutsideOK
<1>6. QED
  BY <1>3, <1>4, <1>5 DEF TypeOK

LEMMA TypeStep == TypeOK /\ [Next]_vars => TypeOK'
<1> SUFFICES ASSUME TypeOK, [Next]_vars PROVE TypeOK'
  OBVIOUS
<1> USE DEF TypeOK
<1>1. CASE Tick
  <2>1. \A n \in Nat : Less(n) \in Nat
    BY DEF Less
  <2>2. left' \in [DOMAIN left' -> Nat] /\ DOMAIN left' = DOMAIN left
    BY <1>1, <2>1 DEF Tick, ProtocolOK
  <2>3. stray' \subseteq Stray
    <3>1. \A s \in stray : [s EXCEPT !.left = Less(@)] \in Stray
      BY <2>1 DEF ProtocolOK, Stray
    <3>2. QED
      BY <1>1, <3>1 DEF Tick
  <2>4. quiet' \in 0..MaxQuiet
    BY <1>1, BoundsAssumption DEF Tick, OutsideOK
  <2>5. QED
    BY <1>1, <2>2, <2>3, <2>4 DEF Tick, ProgramOK, ProtocolOK, OutsideOK, program, screen, outside
<1>2. ASSUME NEW i \in DOMAIN left, ExpireOwn(i) PROVE TypeOK'
  <2>1. i \in Nat
    BY LenProperties DEF ProgramOK, ProtocolOK
  <2>2. wire' \in Seq(Event)
    BY <1>2, <2>1, SendType DEF ExpireOwn, ProtocolOK
  <2>3. QED
    BY <1>2, <2>2 DEF ExpireOwn, ProgramOK, ProtocolOK, OutsideOK, program, screen, outside
<1>3. ASSUME NEW s \in stray, ExpireStray(s) PROVE TypeOK'
  <2>1. s \in Stray /\ s.index \in Nat /\ [s EXCEPT !.idle = TRUE] \in Stray
    BY DEF ProtocolOK, Stray
  <2>2. wire' \in Seq(Event)
    BY <1>3, <2>1, SendType DEF ExpireStray, ProtocolOK
  <2>3. QED
    BY <1>3, <2>1, <2>2 DEF ExpireStray, ProgramOK, ProtocolOK, OutsideOK, program, screen, outside
<1>4. CASE Input
  <2>1. \A i \in DOMAIN left : steps[i].after \in Nat
    BY StepFields DEF ProgramOK, ProtocolOK
  <2>2. left' \in [DOMAIN left' -> Nat] /\ DOMAIN left' = DOMAIN left /\ idle' = {}
    BY <1>4, <2>1 DEF Input
  <2>3. stray' \subseteq Stray
    BY <1>4 DEF Input, ProtocolOK, Stray
  <2>4. wire' \in Seq(Event)
    BY <1>4, SendType DEF Input, ProtocolOK
  <2>5. quiet' \in 0..MaxQuiet
    <3>1. quiet' = 0
      BY <1>4 DEF Input
    <3>2. QED
      BY <3>1, BoundsAssumption
  <2>6. QED
    BY <1>4, <2>2, <2>3, <2>4, <2>5
    DEF Input, ProgramOK, ProtocolOK, OutsideOK, program, screen, outside
<1>5. CASE DispatchIdled
  <2>1. wire' \in Seq(Event) /\ Head(wire).index \in Nat
    BY <1>5, TakeType DEF DispatchIdled, Receive, ProtocolOK, Event
  <2>2. QED
    BY <1>5, <2>1, WentIdleType DEF DispatchIdled, ProgramOK, ProtocolOK, OutsideOK, program
<1>6. CASE DispatchResumed
  <2>1. wire' \in Seq(Event)
    BY <1>6, TakeType DEF DispatchResumed, Receive, ProtocolOK
  <2>2. QED
    BY <1>6, <2>1, UnwindType
    DEF DispatchResumed, ProgramOK, ProtocolOK, OutsideOK, program, outside
<1>7. CASE DispatchGone
  <2>1. wire' \in Seq(Event)
    BY <1>7, TakeType DEF DispatchGone, ProtocolOK
  <2>2. QED
    BY <1>7, <2>1 DEF DispatchGone, ProgramOK, ProtocolOK, OutsideOK, program, screen, outside
<1>8. CASE Activity
  <2>1. ArmAll(steps, wire, inhibited) /\ steps' = steps /\ inhibited \in BOOLEAN
    BY <1>8 DEF Activity, program, ProgramOK
  <2>2. QED
    BY <1>8, <2>1, ArmAllType, UnwindType
    DEF Activity, ProgramOK, ProtocolOK, OutsideOK, program, outside
<1>9. ASSUME NEW b \in BOOLEAN, SetInhibited(b) PROVE TypeOK'
  <2>1. ArmAll(steps, wire, b)
    BY <1>9 DEF SetInhibited, ArmAll
  <2>2. fired' \subseteq DOMAIN steps /\ blanked' \in BOOLEAN /\ dimmed' \in BOOLEAN
          /\ active' \in BOOLEAN /\ owed' \subseteq Timeout
    BY <1>9, UnwindType DEF SetInhibited, ProgramOK, OutsideOK, screen
  <2>3. QED
    BY <1>9, <2>1, <2>2, ArmAllType
    DEF SetInhibited, ProgramOK, ProtocolOK, OutsideOK, outside
<1>10. CASE LockAsked
  BY <1>10, ConfigSteps
  DEF LockAsked, Lock, ProgramOK, ProtocolOK, OutsideOK, program, screen, protocol, outside
<1>11. CASE LidOpened
  <2>1. ArmAll(steps, wire, inhibited) /\ steps' = steps /\ inhibited \in BOOLEAN
    BY <1>11 DEF LidOpened, program, ProgramOK
  <2>2. QED
    BY <1>11, <2>1, ArmAllType, UnwindType
    DEF LidOpened, ProgramOK, ProtocolOK, OutsideOK, program
<1>12. ASSUME NEW docked \in BOOLEAN, NEW external \in BOOLEAN, LidShut(docked, external)
       PROVE TypeOK'
  <2>1. blanked' \in BOOLEAN /\ locker' \in BOOLEAN /\ asking' \in BOOLEAN /\ asked' \in BOOLEAN
    BY <1>12, ConfigSteps DEF LidShut, Lock, Blank, ProgramOK, OutsideOK
  <2>2. QED
    BY <1>12, <2>1 DEF LidShut, ProgramOK, ProtocolOK, OutsideOK, program, protocol
<1>13. ASSUME NEW b \in BOOLEAN, OnBattery(b) PROVE TypeOK'
  <2>1. Rebuild(config, b) /\ config \in Configs /\ inhibited \in BOOLEAN
    BY <1>13 DEF OnBattery, ProgramOK
  <2>2. QED
    BY <1>13, <2>1, RebuildType, UnwindType
    DEF OnBattery, ProgramOK, ProtocolOK, OutsideOK, outside
<1>14. ASSUME NEW refused \in BOOLEAN, SleepAnswered(refused) PROVE TypeOK'
  BY <1>14, ConfigSteps
  DEF SleepAnswered, Lock, Blank, ProgramOK, ProtocolOK, OutsideOK, program, protocol
<1>15. CASE BeforeSleep
  BY <1>15, ConfigSteps
  DEF BeforeSleep, Lock, Blank, ProgramOK, ProtocolOK, OutsideOK, program, protocol
<1>16. CASE AfterSleep
  <2>1. ArmAll(steps, wire, inhibited) /\ steps' = steps /\ inhibited \in BOOLEAN
    BY <1>16 DEF AfterSleep, program, ProgramOK
  <2>2. QED
    BY <1>16, <2>1, ArmAllType
    DEF AfterSleep, ProgramOK, ProtocolOK, OutsideOK, program, screen
<1>17. CASE SleepUnseen
  BY <1>17 DEF SleepUnseen, ProgramOK, ProtocolOK, OutsideOK, program, screen, protocol
<1>18. ASSUME NEW r \in Reloads, Reload(r) PROVE TypeOK'
  <2>1. CASE r = Rejected
    <3>1. ArmAll(steps, wire, inhibited) /\ steps' = steps /\ inhibited \in BOOLEAN
      BY <1>18, <2>1 DEF Reload, ProgramOK
    <3>2. QED
      BY <1>18, <2>1, <3>1, ArmAllType, UnwindType
      DEF Reload, ProgramOK, ProtocolOK, OutsideOK, outside
  <2>2. CASE r # Rejected
    <3>1. r \in Configs /\ onBattery \in BOOLEAN /\ inhibited \in BOOLEAN
      BY <2>2 DEF Configs, ProgramOK
    <3>2. config' = r /\ Rebuild(r, onBattery)
      BY <1>18, <2>2 DEF Reload
    <3>3. QED
      BY <1>18, <3>1, <3>2, RebuildType, UnwindType
      DEF Reload, ProgramOK, ProtocolOK, OutsideOK, outside
  <2>3. QED
    BY <2>1, <2>2
<1>19. CASE BootArm
  <2>1. ArmAll(steps, wire, inhibited) /\ steps' = steps /\ inhibited \in BOOLEAN
    BY <1>19 DEF BootArm, ProgramOK
  <2>2. QED
    BY <1>19, <2>1, ArmAllType
    DEF BootArm, ProgramOK, ProtocolOK, OutsideOK, screen, outside
<1>20. CASE Stop
  <2>1. <<>> \in Seq(Event)
    BY EmptySeq
  <2>2. QED
    BY <1>20, <2>1 DEF Stop, NoCountdown, ProgramOK, ProtocolOK, OutsideOK, outside
<1>21. CASE LockerExits
  BY <1>21 DEF LockerExits, ProgramOK, ProtocolOK, OutsideOK, program, screen, protocol, outside
<1>22. CASE UNCHANGED vars
  BY <1>22
  DEF vars, ProgramOK, ProtocolOK, OutsideOK, program, screen, protocol, outside
<1>23. QED
  BY <1>1, <1>2, <1>3, <1>4, <1>5, <1>6, <1>7, <1>8, <1>9, <1>10, <1>11, <1>12, <1>13, <1>14,
     <1>15, <1>16, <1>17, <1>18, <1>19, <1>20, <1>21, <1>22
  DEF Next, Expire, Dispatch

\* Every variable keeps its type; no index in `fired`, `left` or `idle` ever
\* outlives the step list it points into, whatever reloads and profile
\* switches do to that list.
THEOREM TypeCorrect == Spec => []TypeOK
BY TypeInit, TypeStep, PTL DEF Spec

-----------------------------------------------------------------------------
(* Countdowns *)

\* What a handler that ends in arm_all leaves behind.
LEMMA ArmedAfter ==
    ASSUME TypeOK, NEW s \in Seq(Timeout), NEW w \in Seq(Event), NEW held \in BOOLEAN,
           ArmAll(s, w, held), steps' = s, inhibited' = held
    PROVE  ArmedIffFree' /\ NoDeadCountdown'
BY ArmAllType DEF ArmedIffFree, NoDeadCountdown

\* Which actions end in arm_all, or leave no object at all.
LEMMA ArmingActions ==
    ASSUME TypeOK,
           \/ Activity
           \/ \E b \in BOOLEAN : SetInhibited(b)
           \/ LidOpened
           \/ \E b \in BOOLEAN : OnBattery(b)
           \/ AfterSleep
           \/ \E r \in Reloads : Reload(r)
           \/ BootArm
           \/ Stop
    PROVE  ArmedIffFree' /\ NoDeadCountdown'
<1>1. steps \in Seq(Timeout) /\ wire \in Seq(Event) /\ inhibited \in BOOLEAN
        /\ config \in Configs /\ onBattery \in BOOLEAN
  BY DEF TypeOK, ProgramOK, ProtocolOK
<1>2. CASE Activity
  BY <1>1, <1>2, ArmedAfter DEF Activity, program
<1>3. ASSUME NEW b \in BOOLEAN, SetInhibited(b) PROVE ArmedIffFree' /\ NoDeadCountdown'
  <2>1. ArmAll(steps, wire, b) /\ steps' = steps /\ inhibited' = b
    BY <1>3 DEF SetInhibited, ArmAll
  <2>2. QED
    BY <1>1, <2>1, ArmedAfter
<1>4. CASE LidOpened
  BY <1>1, <1>4, ArmedAfter DEF LidOpened, program
<1>5. ASSUME NEW c \in Configs, NEW b \in BOOLEAN, Rebuild(c, b), inhibited' = inhibited
      PROVE ArmedIffFree' /\ NoDeadCountdown'
  BY <1>5, RebuildType DEF ArmedIffFree, NoDeadCountdown
<1>6. ASSUME NEW b \in BOOLEAN, OnBattery(b) PROVE ArmedIffFree' /\ NoDeadCountdown'
  BY <1>1, <1>5, <1>6 DEF OnBattery
<1>7. CASE AfterSleep
  BY <1>1, <1>7, ArmedAfter DEF AfterSleep, program
<1>8. ASSUME NEW r \in Reloads, Reload(r) PROVE ArmedIffFree' /\ NoDeadCountdown'
  <2>1. CASE r = Rejected
    BY <1>1, <1>8, <2>1, ArmedAfter DEF Reload
  <2>2. CASE r # Rejected
    BY <1>1, <1>5, <1>8, <2>2 DEF Reload, Configs
  <2>3. QED
    BY <2>1, <2>2
<1>9. CASE BootArm
  BY <1>1, <1>9, ArmedAfter DEF BootArm
<1>10. CASE Stop
  BY <1>10 DEF Stop, ArmedIffFree, NoDeadCountdown
<1>11. QED
  BY <1>2, <1>3, <1>4, <1>6, <1>7, <1>8, <1>9, <1>10

\* Appending anything but a `resumed` disturbs neither half of NoDeadCountdown.
LEMMA SendKeepsAnnounced ==
    ASSUME TypeOK, NEW i \in Nat, NEW from \in {"own", "stray", "gone"},
           Send("idled", i, from)
    PROVE  /\ \A j : Announced(j) => Announced(j)'
           /\ ~ResumedOnWire => ~ResumedOnWire'
           /\ from = "own" => Announced(i)'
<1> DEFINE m == [kind |-> "idled", index |-> i, from |-> from]
<1>1. wire \in Seq(Event) /\ m \in Event /\ wire' = Append(wire, m)
  BY DEF TypeOK, ProtocolOK, Event, Send
<1>2. /\ Len(wire) \in Nat
      /\ DOMAIN wire = 1..Len(wire)
      /\ DOMAIN wire' = 1..(Len(wire) + 1)
      /\ wire'[Len(wire) + 1] = m
      /\ \A k \in 1..Len(wire) : wire'[k] = wire[k]
  BY <1>1, AppendProperties, LenProperties
<1>3. m.kind = "idled"
  OBVIOUS
<1> HIDE DEF m
<1>4. ASSUME NEW j, Announced(j) PROVE Announced(j)'
  <2>1. PICK k \in DOMAIN wire :
          /\ wire[k] = [kind |-> "idled", index |-> j, from |-> "own"]
          /\ \A l \in DOMAIN wire : l > k => ~(wire[l].kind = "resumed" /\ Live(wire[l]))
    BY <1>4 DEF Announced
  <2>2. k \in DOMAIN wire' /\ wire'[k] = wire[k]
    BY <1>2, <2>1
  <2>3. ASSUME NEW l \in DOMAIN wire', l > k
        PROVE ~(wire'[l].kind = "resumed" /\ Live(wire'[l]))
    <3>1. CASE l \in DOMAIN wire
      BY <1>2, <2>1, <2>3, <3>1
    <3>2. CASE l = Len(wire) + 1
      BY <1>2, <1>3, <3>2
    <3>3. QED
      BY <1>2, <2>3, <3>1, <3>2
  <2>4. QED
    BY <2>1, <2>2, <2>3 DEF Announced, Live
<1>5. ASSUME ~ResumedOnWire PROVE ~ResumedOnWire'
  <2>1. SUFFICES ASSUME NEW l \in DOMAIN wire', wire'[l].kind = "resumed", Live(wire'[l])
                 PROVE FALSE
    BY DEF ResumedOnWire, Live
  <2>2. l # Len(wire) + 1
    BY <1>2, <1>3, <2>1
  <2>3. l \in DOMAIN wire /\ wire[l] = wire'[l]
    BY <1>2, <2>1, <2>2
  <2>4. QED
    BY <1>5, <2>1, <2>3 DEF ResumedOnWire
<1>6. ASSUME from = "own" PROVE Announced(i)'
  BY <1>2, <1>6 DEF Announced, m
<1>7. QED
  BY <1>4, <1>5, <1>6

\* Taking the first event leaves every later one announced as it was.
LEMMA TakeKeepsAnnounced ==
    ASSUME TypeOK, wire # <<>>, wire' = Tail(wire)
    PROVE  /\ ~ResumedOnWire => ~ResumedOnWire'
           /\ \A j : Announced(j) =>
                 \/ Announced(j)'
                 \/ /\ Head(wire) = [kind |-> "idled", index |-> j, from |-> "own"]
                    /\ ~ResumedOnWire'
<1>1. /\ wire \in Seq(Event)
      /\ Len(wire) \in Nat
      /\ Len(wire) > 0
      /\ DOMAIN wire = 1..Len(wire)
      /\ Head(wire) = wire[1]
  BY EmptySeq, LenProperties DEF TypeOK, ProtocolOK
<1>2. /\ DOMAIN wire' = 1..(Len(wire) - 1)
      /\ \A k \in 1..(Len(wire) - 1) : wire'[k] = wire[k + 1]
  BY <1>1, HeadTailProperties, LenProperties
<1>3. ASSUME NEW l \in DOMAIN wire'
      PROVE  l + 1 \in DOMAIN wire /\ wire'[l] = wire[l + 1] /\ l + 1 > 1 /\ l \in Nat
  BY <1>1, <1>2
<1>4. ~ResumedOnWire => ~ResumedOnWire'
  BY <1>3 DEF ResumedOnWire, Live
<1>5. ASSUME NEW j, Announced(j)
      PROVE  \/ Announced(j)'
             \/ /\ Head(wire) = [kind |-> "idled", index |-> j, from |-> "own"]
                /\ ~ResumedOnWire'
  <2>1. PICK k \in DOMAIN wire :
          /\ wire[k] = [kind |-> "idled", index |-> j, from |-> "own"]
          /\ \A l \in DOMAIN wire : l > k => ~(wire[l].kind = "resumed" /\ Live(wire[l]))
    BY <1>5 DEF Announced
  <2>2. CASE k = 1
    BY <1>1, <1>3, <2>1, <2>2 DEF ResumedOnWire, Live
  <2>3. CASE k # 1
    <3>1. k \in Nat /\ k - 1 \in DOMAIN wire' /\ wire'[k - 1] = wire[k]
      BY <1>1, <1>2, <2>1, <2>3
    <3>2. ASSUME NEW l \in DOMAIN wire', l > k - 1
          PROVE ~(wire'[l].kind = "resumed" /\ Live(wire'[l]))
      <4>1. l + 1 > k
        BY <1>3, <3>1, <3>2
      <4>2. QED
        BY <1>3, <2>1, <4>1
    <3>3. QED
      BY <2>1, <3>1, <3>2 DEF Announced, Live
  <2>4. QED
    BY <2>2, <2>3
<1>6. QED
  BY <1>4, <1>5

\* Nothing about the countdowns changes.
LEMMA CountdownsKept ==
    ASSUME ArmedIffFree, NoDeadCountdown, UNCHANGED <<left, idle, wire, fired, steps, inhibited, phase>>
    PROVE  ArmedIffFree' /\ NoDeadCountdown'
BY DEF ArmedIffFree, NoDeadCountdown, Announced, ResumedOnWire, Live

LEMMA CountdownStep ==
    TypeOK /\ ArmedIffFree /\ NoDeadCountdown /\ [Next]_vars => ArmedIffFree' /\ NoDeadCountdown'
<1> SUFFICES ASSUME TypeOK, ArmedIffFree, NoDeadCountdown, [Next]_vars
             PROVE  ArmedIffFree' /\ NoDeadCountdown'
  OBVIOUS
<1>1. CASE Tick
  BY <1>1 DEF Tick, program, ArmedIffFree, NoDeadCountdown, Announced, ResumedOnWire, Live
<1>2. ASSUME NEW i \in DOMAIN left, ExpireOwn(i) PROVE ArmedIffFree' /\ NoDeadCountdown'
  <2>1. i \in Nat
    BY LenProperties DEF TypeOK, ProgramOK, ProtocolOK
  <2>2. Send("idled", i, "own") /\ idle' = idle \cup {i} /\ fired' = fired
          /\ UNCHANGED <<left, steps, inhibited, phase>>
    BY <1>2 DEF ExpireOwn, program
  <2>3. NoDeadCountdown'
    BY <2>1, <2>2, SendKeepsAnnounced DEF NoDeadCountdown
  <2>4. QED
    BY <2>2, <2>3 DEF ArmedIffFree
<1>3. ASSUME NEW s \in stray, ExpireStray(s) PROVE ArmedIffFree' /\ NoDeadCountdown'
  <2>1. s.index \in Nat
    BY DEF TypeOK, ProtocolOK, Stray
  <2>2. Send("idled", s.index, "stray") /\ UNCHANGED <<idle, fired, left, steps, inhibited, phase>>
    BY <1>3 DEF ExpireStray, program
  <2>3. NoDeadCountdown'
    BY <2>1, <2>2, SendKeepsAnnounced DEF NoDeadCountdown
  <2>4. QED
    BY <2>2, <2>3 DEF ArmedIffFree
<1>4. CASE Input
  BY <1>4 DEF Input, program, ArmedIffFree, NoDeadCountdown
<1>5. CASE DispatchIdled
  <2>1. wire # <<>> /\ wire' = Tail(wire) /\ UNCHANGED <<idle, left, steps, inhibited, phase>>
    BY <1>5 DEF DispatchIdled, Receive, program
  <2>2. fired \subseteq fired' /\ (Head(wire).index \in DOMAIN steps => Head(wire).index \in fired')
    BY <1>5 DEF DispatchIdled, WentIdle
  <2>3. NoDeadCountdown'
    <3>1. SUFFICES ASSUME NEW j \in idle PROVE Announced(j)' \/ (j \in fired' /\ ~ResumedOnWire')
      BY <2>1 DEF NoDeadCountdown
    <3>2. j \in DOMAIN steps
      BY DEF TypeOK, ProtocolOK
    <3>3. CASE Announced(j)
      BY <2>1, <2>2, <3>2, <3>3, TakeKeepsAnnounced
    <3>4. CASE j \in fired /\ ~ResumedOnWire
      BY <2>1, <2>2, <3>4, TakeKeepsAnnounced
    <3>5. QED
      BY <3>3, <3>4 DEF NoDeadCountdown
  <2>4. QED
    BY <2>1, <2>3 DEF ArmedIffFree
<1>6. CASE DispatchResumed
  <2>1. wire # <<>> /\ wire' = Tail(wire) /\ UNCHANGED <<idle, left, steps, inhibited, phase>>
          /\ Head(wire).kind = "resumed" /\ Live(Head(wire))
    BY <1>6 DEF DispatchResumed, Receive, program, Live
  <2>2. ResumedOnWire
    BY <2>1, EmptySeq, LenProperties DEF ResumedOnWire, TypeOK, ProtocolOK
  <2>3. ASSUME NEW j \in idle PROVE Announced(j)'
    BY <2>1, <2>2, TakeKeepsAnnounced DEF NoDeadCountdown
  <2>4. QED
    BY <2>1, <2>3 DEF ArmedIffFree, NoDeadCountdown
<1>7. CASE DispatchGone
  <2>1. wire # <<>> /\ wire' = Tail(wire) /\ UNCHANGED <<idle, fired, left, steps, inhibited, phase>>
          /\ Head(wire).from = "gone"
    BY <1>7 DEF DispatchGone, program
  <2>2. ASSUME NEW j \in idle PROVE Announced(j)' \/ (j \in fired' /\ ~ResumedOnWire')
    BY <2>1, TakeKeepsAnnounced DEF NoDeadCountdown
  <2>3. QED
    BY <2>1, <2>2 DEF ArmedIffFree, NoDeadCountdown
<1>8. CASE LockAsked
  BY <1>8, CountdownsKept DEF LockAsked, program, protocol
<1>9. ASSUME NEW docked \in BOOLEAN, NEW external \in BOOLEAN, LidShut(docked, external)
      PROVE ArmedIffFree' /\ NoDeadCountdown'
  BY <1>9, CountdownsKept DEF LidShut, program, protocol
<1>10. ASSUME NEW refused \in BOOLEAN, SleepAnswered(refused) PROVE ArmedIffFree' /\ NoDeadCountdown'
  BY <1>10, CountdownsKept DEF SleepAnswered, program, protocol
<1>11. CASE BeforeSleep
  BY <1>11, CountdownsKept DEF BeforeSleep, program, protocol
<1>12. CASE SleepUnseen
  BY <1>12, CountdownsKept DEF SleepUnseen, program, protocol
<1>13. CASE LockerExits
  BY <1>13, CountdownsKept DEF LockerExits, program, protocol
<1>14. CASE UNCHANGED vars
  BY <1>14, CountdownsKept DEF vars, program, protocol
<1>15. QED
  BY <1>1, <1>2, <1>3, <1>4, <1>5, <1>6, <1>7, <1>8, <1>9, <1>10, <1>11, <1>12, <1>13, <1>14,
     ArmingActions
  DEF Next, Expire, Dispatch

LEMMA CountdownInit == Init => ArmedIffFree /\ NoDeadCountdown
BY DEF Init, ArmedIffFree, NoDeadCountdown

\* However holds, lid movements, suspends, reloads and profile switches follow
\* one another, a running loop has every step counting, or is held awake and
\* has none counting.
THEOREM CountdownsMatchHold == Spec => []ArmedIffFree
BY TypeInit, TypeStep, CountdownInit, CountdownStep, PTL DEF Spec

\* No countdown goes idle for good: whenever one has run out, its step has
\* fired or the event that makes it fire is on the wire with no `resumed`
\* behind it.
THEOREM NoCountdownLost == Spec => []NoDeadCountdown
BY TypeInit, TypeStep, CountdownInit, CountdownStep, PTL DEF Spec

-----------------------------------------------------------------------------
(* The profile in force *)

LEMMA ProfileStep ==
    TypeOK /\ StepsMatchProfile /\ [Next]_vars => StepsMatchProfile'
<1> SUFFICES ASSUME TypeOK, StepsMatchProfile, [Next]_vars PROVE StepsMatchProfile'
  OBVIOUS
<1>1. ASSUME NEW b \in BOOLEAN, OnBattery(b) PROVE StepsMatchProfile'
  BY <1>1 DEF OnBattery, Rebuild, StepsMatchProfile
<1>2. ASSUME NEW r \in Reloads, Reload(r) PROVE StepsMatchProfile'
  BY <1>2 DEF Reload, Rebuild, StepsMatchProfile
<1>3. CASE UNCHANGED <<config, onBattery, steps>>
  BY <1>3 DEF StepsMatchProfile
<1>4. QED
  BY <1>1, <1>2, <1>3
  DEF Next, vars, program, Tick, Expire, ExpireOwn, ExpireStray, Input, Dispatch, DispatchIdled,
      DispatchResumed, DispatchGone, Activity, SetInhibited, LockAsked, LidOpened, LidShut,
      SleepAnswered, BeforeSleep, AfterSleep, SleepUnseen, BootArm, Stop, LockerExits

LEMMA ProfileInit == Init => StepsMatchProfile
BY DEF Init, StepsMatchProfile

\* Whatever order reloads and power changes come in, the loop runs the steps
\* of the configuration and power source it holds.
THEOREM ProfileInForce == Spec => []StepsMatchProfile
BY TypeInit, TypeStep, ProfileInit, ProfileStep, PTL DEF Spec

-----------------------------------------------------------------------------
(* What the timeouts leave in force *)

\* The six ways a step treats the timeouts in force.
LEMMA FiredSteps ==
    ASSUME TypeOK, [Next]_vars
    PROVE  \/ Unwind
           \/ UNCHANGED <<fired, owed, active, steps, asked, power>>
           \/ UNCHANGED <<fired, owed, active, steps, power>> /\ asked \in BOOLEAN /\ (asked => asked')
           \/ UNCHANGED <<steps, power>> /\ \E i \in Nat : WentIdle(i)
           \/ AfterSleep
           \/ BeforeSleep
           \/ SleepUnseen
<1>1. CASE Tick \/ Expire \/ Input
  BY <1>1 DEF Tick, Expire, ExpireOwn, ExpireStray, Input, program, outside
<1>2. CASE DispatchIdled
  <2>1. Head(wire).index \in Nat
    BY <1>2, TakeType DEF DispatchIdled, Receive, TypeOK, ProtocolOK, Event
  <2>2. QED
    BY <1>2, <2>1 DEF DispatchIdled, program
<1>3. CASE DispatchResumed
  BY <1>3 DEF DispatchResumed
<1>4. CASE DispatchGone \/ LockAsked \/ BootArm \/ Stop \/ LockerExits
  BY <1>4 DEF DispatchGone, LockAsked, BootArm, Stop, LockerExits, program, outside
<1>5. CASE Activity \/ LidOpened
  BY <1>5 DEF Activity, LidOpened
<1>6. ASSUME NEW b \in BOOLEAN, SetInhibited(b)
      PROVE Unwind \/ UNCHANGED <<fired, owed, active, steps, asked, power>>
  BY <1>6 DEF SetInhibited, outside
<1>7. ASSUME NEW docked \in BOOLEAN, NEW external \in BOOLEAN, LidShut(docked, external)
      PROVE UNCHANGED <<fired, owed, active, steps, power>> /\ asked \in BOOLEAN /\ (asked => asked')
  BY <1>7 DEF LidShut, program, TypeOK, OutsideOK
<1>8. ASSUME NEW b \in BOOLEAN, OnBattery(b) PROVE Unwind
  BY <1>8 DEF OnBattery
<1>9. ASSUME NEW refused \in BOOLEAN, SleepAnswered(refused)
      PROVE UNCHANGED <<fired, owed, active, steps, asked, power>>
  BY <1>9 DEF SleepAnswered, program
<1>10. ASSUME NEW r \in Reloads, Reload(r) PROVE Unwind
  BY <1>10 DEF Reload
<1>11. CASE UNCHANGED vars
  BY <1>11 DEF vars, program, outside
<1>12. QED
  BY <1>1, <1>2, <1>3, <1>4, <1>5, <1>6, <1>7, <1>8, <1>9, <1>10, <1>11 DEF Next, Dispatch

LEMMA ActiveStep ==
    TypeOK /\ ActiveWhileFired /\ [Next]_vars => ActiveWhileFired'
<1> SUFFICES ASSUME TypeOK, ActiveWhileFired, [Next]_vars PROVE ActiveWhileFired'
  OBVIOUS
<1>1. CASE Unwind
  BY <1>1 DEF Unwind, ActiveWhileFired
<1>2. CASE UNCHANGED <<fired, active>>
  BY <1>2 DEF ActiveWhileFired
<1>3. ASSUME NEW i \in Nat, WentIdle(i) PROVE ActiveWhileFired'
  BY <1>3 DEF WentIdle, PublishFired, ActiveWhileFired
<1>4. CASE AfterSleep
  BY <1>4 DEF AfterSleep, ActiveWhileFired
<1>5. CASE BeforeSleep \/ SleepUnseen
  BY <1>5 DEF BeforeSleep, SleepUnseen, ActiveWhileFired
<1>6. QED
  BY <1>1, <1>2, <1>3, <1>4, <1>5, FiredSteps

LEMMA ActiveInit == Init => ActiveWhileFired
BY DEF Init, ActiveWhileFired

\* GetActive never answers "no" while a timeout is in force.
THEOREM ActiveToldInTime == Spec => []ActiveWhileFired
BY TypeInit, TypeStep, ActiveInit, ActiveStep, PTL DEF Spec

\* No timeout both suspends the machine and has a command to undo.
NoSuspendResume ==
    \A c \in Configs, b \in BOOLEAN :
        \A i \in DOMAIN c.steps[b] : ~(c.steps[b][i].suspend /\ c.steps[b][i].resume)

LEMMA CommandsStep ==
    ASSUME NoSuspendResume
    PROVE  TypeOK /\ StepsMatchProfile /\ CommandsUndone /\ [Next]_vars => CommandsUndone'
<1> SUFFICES ASSUME TypeOK, StepsMatchProfile, CommandsUndone, [Next]_vars PROVE CommandsUndone'
  OBVIOUS
<1>1. CASE Unwind
  BY <1>1 DEF Unwind, CommandsUndone
<1>2. CASE UNCHANGED <<fired, owed, steps>>
  BY <1>2 DEF CommandsUndone
<1>3. ASSUME NEW i \in Nat, WentIdle(i), steps' = steps PROVE CommandsUndone'
  <2>1. CASE i \in DOMAIN steps \ fired
    <3>1. fired' = fired \cup {i}
          /\ owed' = IF steps[i].resume THEN owed \cup {steps[i]} ELSE owed
      BY <1>3, <2>1 DEF WentIdle
    <3>2. QED
      BY <1>3, <3>1 DEF CommandsUndone
  <2>2. CASE i \notin DOMAIN steps \ fired
    BY <1>3, <2>2 DEF WentIdle, CommandsUndone
  <2>3. QED
    BY <2>1, <2>2
<1>4. CASE AfterSleep
  <2>1. \A i \in fired : ~(steps[i].suspend /\ steps[i].resume)
    BY DEF NoSuspendResume, StepsMatchProfile, TypeOK, ProgramOK
  <2>2. fired' = {i \in fired : ~steps[i].suspend} /\ owed' = owed /\ steps' = steps
    BY <1>4 DEF AfterSleep, program
  <2>3. {j \in fired' : steps[j].resume} = {j \in fired : steps[j].resume}
    BY <2>1, <2>2
  <2>4. QED
    BY <2>2, <2>3 DEF CommandsUndone
<1>5. CASE BeforeSleep \/ SleepUnseen
  BY <1>5 DEF BeforeSleep, SleepUnseen, program, CommandsUndone
<1>6. QED
  BY <1>1, <1>2, <1>3, <1>4, <1>5, FiredSteps

LEMMA CommandsInit == Init => CommandsUndone
BY DEF Init, CommandsUndone

\* Unless a suspend timeout has one of its own, every resume_command owed is
\* that of a timeout in force, and every such timeout is owed its command.
THEOREM CommandsNeverForgotten ==
    ASSUME NoSuspendResume
    PROVE  Spec => []CommandsUndone
BY TypeInit, TypeStep, ProfileInit, ProfileStep, CommandsInit, CommandsStep, PTL DEF Spec

LEMMA SleepsAgainStep ==
    ASSUME WantsLogind
    PROVE  TypeOK /\ SleepsAgain /\ [Next]_vars => SleepsAgain'
<1> SUFFICES ASSUME TypeOK, SleepsAgain, [Next]_vars PROVE SleepsAgain'
  OBVIOUS
<1>1. CASE Unwind
  BY <1>1 DEF Unwind, SleepsAgain
<1>2. CASE UNCHANGED <<fired, steps, power>> /\ (asked => asked')
  BY <1>2 DEF SleepsAgain
<1>3. ASSUME NEW i \in Nat, WentIdle(i), steps' = steps, power' = power PROVE SleepsAgain'
  <2>1. CASE i \in DOMAIN steps \ fired
    <3>1. fired' = fired \cup {i} /\ asked' = (asked \/ (steps[i].suspend /\ Dbus))
      BY <1>3, <2>1 DEF WentIdle
    <3>2. QED
      BY <1>3, <3>1 DEF SleepsAgain
  <2>2. CASE i \notin DOMAIN steps \ fired
    BY <1>3, <2>2 DEF WentIdle, SleepsAgain
  <2>3. QED
    BY <2>1, <2>2
<1>4. CASE AfterSleep
  BY <1>4 DEF AfterSleep, SleepsAgain, program
<1>5. CASE BeforeSleep
  BY <1>5 DEF BeforeSleep, SleepsAgain
<1>6. ~SleepUnseen
  BY DEF SleepUnseen
<1>7. QED
  BY <1>1, <1>2, <1>3, <1>4, <1>5, <1>6, FiredSteps

LEMMA SleepsAgainInit == Init => SleepsAgain
BY DEF Init, SleepsAgain

\* Where logind is watched, a suspend timeout is never left marked as fired
\* from before the machine woke: it can ask again.
THEOREM SuspendCanRepeat ==
    ASSUME WantsLogind
    PROVE  Spec => []SleepsAgain
BY TypeInit, TypeStep, SleepsAgainInit, SleepsAgainStep, PTL DEF Spec

-----------------------------------------------------------------------------
(* The loop implements Curtain *)

LEMMA CurtainInit == Init => Screen!Init
BY DEF Init, Screen!Init

LEMMA CurtainStep == TypeOK /\ TypeOK' /\ [Next]_vars => [Screen!Next]_(Screen!vars)
<1> SUFFICES ASSUME TypeOK, TypeOK', [Next]_vars PROVE [Screen!Next]_(Screen!vars)
  OBVIOUS
<1> USE DEF TypeOK, ProgramOK
<1>1. CASE UNCHANGED <<blanked, dimmed, locker, phase>>
  BY <1>1 DEF Screen!vars
<1>2. CASE Up /\ phase' = phase /\ locker' = locker /\ blanked' = FALSE /\ dimmed' = FALSE
  BY <1>2 DEF Screen!Next, Screen!Rise, Up
<1>3. CASE /\ Up /\ phase' = phase
           /\ locker => locker'
           /\ blanked => blanked'
           /\ dimmed => dimmed'
  BY <1>3 DEF Screen!Next, Screen!Fall, Screen!Veils, Up
<1>4. ASSUME Up, NEW i, WentIdle(i), phase' = phase PROVE Screen!Next \/ UNCHANGED Screen!vars
  <2>1. (locker => locker') /\ (blanked => blanked') /\ (dimmed => dimmed')
    BY <1>4 DEF WentIdle, Lock, Blank, screen
  <2>2. QED
    BY <1>3, <1>4, <2>1
<1>5. CASE Tick \/ Expire \/ Input \/ DispatchGone \/ AfterSleep \/ SleepUnseen
  BY <1>1, <1>5
  DEF Tick, Expire, ExpireOwn, ExpireStray, Input, DispatchGone, AfterSleep, SleepUnseen,
      program, screen
<1>6. CASE DispatchIdled
  BY <1>4, <1>6 DEF DispatchIdled, Receive, program
<1>7. CASE DispatchResumed \/ Activity \/ LidOpened
  BY <1>2, <1>7 DEF DispatchResumed, Receive, Activity, LidOpened, Unwind, program
<1>8. ASSUME NEW b \in BOOLEAN, SetInhibited(b) PROVE Screen!Next \/ UNCHANGED Screen!vars
  BY <1>1, <1>2, <1>8 DEF SetInhibited, Unwind, screen
<1>9. CASE LockAsked \/ BeforeSleep
  BY <1>3, <1>9 DEF LockAsked, BeforeSleep, Lock, Blank, program, screen
<1>10. ASSUME NEW docked \in BOOLEAN, NEW external \in BOOLEAN, LidShut(docked, external)
       PROVE Screen!Next \/ UNCHANGED Screen!vars
  BY <1>3, <1>10 DEF LidShut, Lock, Blank, program
<1>11. ASSUME NEW b \in BOOLEAN, OnBattery(b) PROVE Screen!Next \/ UNCHANGED Screen!vars
  BY <1>2, <1>11 DEF OnBattery, Unwind
<1>12. ASSUME NEW refused \in BOOLEAN, SleepAnswered(refused)
       PROVE Screen!Next \/ UNCHANGED Screen!vars
  BY <1>3, <1>12 DEF SleepAnswered, Lock, Blank, program
<1>13. ASSUME NEW r \in Reloads, Reload(r) PROVE Screen!Next \/ UNCHANGED Screen!vars
  BY <1>2, <1>13 DEF Reload, Unwind
<1>14. CASE BootArm
  BY <1>14 DEF BootArm, screen, Screen!vars
<1>15. CASE Stop
  BY <1>15 DEF Stop, Screen!Next, Screen!End
<1>16. CASE LockerExits
  BY <1>16 DEF LockerExits, program, screen, Screen!Next, Screen!Unlock
<1>17. CASE UNCHANGED vars
  BY <1>1, <1>17 DEF vars, program, screen
<1>18. QED
  BY <1>5, <1>6, <1>7, <1>8, <1>9, <1>10, <1>11, <1>12, <1>13, <1>14, <1>15, <1>16, <1>17
  DEF Next, Dispatch

\* Every behaviour of the loop is one of Curtain: what is over the screen is
\* taken back whole or not at all, no handler ends the locker, and the end of
\* the daemon leaves nothing over the screen.
THEOREM LoopImplementsCurtain == Spec => ImplementsCurtain
BY TypeInit, TypeStep, CurtainInit, CurtainStep, PTL DEF Spec, ImplementsCurtain, Screen!Spec

-----------------------------------------------------------------------------
(* Steps, and the objects that were made for them *)

\* Nothing replaces the steps the program starts with.
Steady == Reloads \subseteq {Rejected} /\ ~(Dbus /\ Laptop)

\* `quiet` counts far enough to tell that a timeout's time has passed.
Countable ==
    \A c \in Configs, b \in BOOLEAN :
        \A i \in DOMAIN c.steps[b] : c.steps[b][i].after <= MaxQuiet

Undone(k) == \E l \in DOMAIN wire : l > k /\ wire[l].kind = "resumed" /\ Live(wire[l])

\* A step's `idled` that will be acted on is for a step idle to this moment, or
\* has a `resumed` behind it.
Backed(k) ==
    wire[k].kind = "idled" /\ wire[k].from = "own" => wire[k].index \in idle \/ Undone(k)

\* A held session hears of no step, and whatever step is idle has waited its
\* time since the countdowns restarted, as far as `quiet` counts.
Timely ==
    /\ \A k \in DOMAIN wire : Backed(k) /\ (inhibited => wire[k].from # "own")
    /\ inhibited => DOMAIN left = {}
    /\ \A i \in DOMAIN left : quiet = MaxQuiet \/ quiet + left[i] >= steps[i].after
    /\ \A i \in idle : quiet = MaxQuiet \/ quiet >= steps[i].after

\* No object is without its step.
NoStrays == stray = {} /\ \A k \in DOMAIN wire : wire[k].from # "stray"

\* What these are about.
timing == <<stray, wire, inhibited, left, idle, quiet, steps>>

\* The ways a step of the system treats them.
LEMMA TimingSteps ==
    ASSUME TypeOK, [Next]_vars
    PROVE  \/ UNCHANGED timing
           \/ ArmAll(steps, wire, inhibited') /\ inhibited' \in BOOLEAN /\ UNCHANGED <<stray, steps>>
           \/ ~Steady /\ UNCHANGED inhibited /\ \E c \in Configs, b \in BOOLEAN : Rebuild(c, b)
           \/ Stop
           \/ Tick
           \/ \E i \in DOMAIN left : ExpireOwn(i)
           \/ \E s \in stray : ExpireStray(s)
           \/ Input
           \/ Dispatch
<1> DEFINE Armed == ArmAll(steps, wire, inhibited') /\ inhibited' \in BOOLEAN
                      /\ UNCHANGED <<stray, steps>>
           Rebuilt == ~Steady /\ UNCHANGED inhibited
                        /\ \E c \in Configs, b \in BOOLEAN : Rebuild(c, b)
<1>0. inhibited \in BOOLEAN /\ config \in Configs /\ onBattery \in BOOLEAN
  BY DEF TypeOK, ProgramOK
<1>1. CASE Activity \/ AfterSleep \/ BootArm \/ LidOpened
  BY <1>0, <1>1 DEF Activity, AfterSleep, BootArm, LidOpened, program
<1>2. ASSUME NEW b \in BOOLEAN, SetInhibited(b) PROVE Armed
  BY <1>2 DEF SetInhibited, ArmAll
<1>3. ASSUME NEW r \in Reloads, Reload(r) PROVE Armed \/ Rebuilt
  <2>1. CASE r = Rejected
    BY <1>0, <1>3, <2>1 DEF Reload
  <2>2. CASE r # Rejected
    <3>1. r \in Configs /\ ~Steady
      BY <2>2 DEF Configs, Steady
    <3>2. Rebuild(r, onBattery) /\ UNCHANGED inhibited
      BY <1>3, <2>2 DEF Reload
    <3>3. QED
      BY <1>0, <3>1, <3>2
  <2>3. QED
    BY <2>1, <2>2
<1>4. ASSUME NEW b \in BOOLEAN, OnBattery(b) PROVE Rebuilt
  <2>1. Rebuild(config, b) /\ UNCHANGED inhibited /\ ~Steady
    BY <1>4 DEF OnBattery, Steady
  <2>2. QED
    BY <1>0, <2>1
<1>5. CASE LockAsked \/ (\E refused \in BOOLEAN : SleepAnswered(refused)) \/ BeforeSleep
             \/ SleepUnseen \/ LockerExits \/ UNCHANGED vars
             \/ (\E docked, external \in BOOLEAN : LidShut(docked, external))
  BY <1>5 DEF LockAsked, SleepAnswered, BeforeSleep, SleepUnseen, LockerExits, LidShut, vars,
              program, protocol, timing
<1>6. QED
  BY <1>1, <1>2, <1>3, <1>4, <1>5 DEF Next, Expire

\* What goes on the wire is behind everything, and takes nothing off it.
LEMMA WirePut ==
    ASSUME TypeOK, NEW m \in Event, wire' = Append(wire, m)
    PROVE  /\ Len(wire) \in Nat /\ DOMAIN wire = 1 .. Len(wire)
           /\ DOMAIN wire' = 1 .. (Len(wire) + 1)
           /\ wire'[Len(wire) + 1] = m
           /\ \A k \in DOMAIN wire : wire'[k] = wire[k]
           /\ \A k \in Nat : Undone(k) => Undone(k)'
           /\ \A k \in 0 .. Len(wire) : m.kind = "resumed" /\ Live(m) => Undone(k)'
<1>0. wire \in Seq(Event)
  BY DEF TypeOK, ProtocolOK
<1>1. /\ Len(wire) \in Nat /\ DOMAIN wire = 1 .. Len(wire)
      /\ DOMAIN wire' = 1 .. (Len(wire) + 1)
      /\ wire'[Len(wire) + 1] = m
      /\ \A k \in DOMAIN wire : wire'[k] = wire[k]
  BY <1>0, AppendProperties, LenProperties
<1>2. \A k \in Nat : Undone(k) => Undone(k)'
  BY <1>1 DEF Undone, Live
<1>3. ASSUME NEW k \in 0 .. Len(wire), m.kind = "resumed", Live(m) PROVE Undone(k)'
  <2>1. Len(wire) + 1 \in DOMAIN wire' /\ Len(wire) + 1 > k
    BY <1>1
  <2>2. QED
    BY <1>1, <1>3, <2>1 DEF Undone, Live
<1>4. QED
  BY <1>1, <1>2, <1>3

\* What is taken off it is its head, and everything moves up.
LEMMA WireTaken ==
    ASSUME TypeOK, wire # <<>>, wire' = Tail(wire)
    PROVE  /\ Len(wire) \in Nat /\ DOMAIN wire = 1 .. Len(wire)
           /\ 1 \in DOMAIN wire /\ Head(wire) = wire[1] /\ wire[1] \in Event
           /\ \A k \in DOMAIN wire' :
                k \in Nat /\ k + 1 \in DOMAIN wire /\ wire'[k] = wire[k + 1]
           /\ \A l \in DOMAIN wire : l > 1 => l - 1 \in DOMAIN wire' /\ wire'[l - 1] = wire[l]
           /\ \A k \in Nat : Undone(k + 1) => Undone(k)'
<1>0. wire \in Seq(Event)
  BY DEF TypeOK, ProtocolOK
<1>1. /\ Len(wire) \in Nat /\ Len(wire) > 0 /\ DOMAIN wire = 1 .. Len(wire) /\ Head(wire) = wire[1]
      /\ 1 \in DOMAIN wire /\ wire[1] \in Event
  BY <1>0, EmptySeq, LenProperties, ElementOfSeq
<1>2. /\ DOMAIN wire' = 1 .. (Len(wire) - 1)
      /\ \A k \in 1 .. (Len(wire) - 1) : wire'[k] = wire[k + 1]
  BY <1>0, <1>1, HeadTailProperties, LenProperties
<1>3. \A k \in DOMAIN wire' : k \in Nat /\ k + 1 \in DOMAIN wire /\ wire'[k] = wire[k + 1]
  BY <1>1, <1>2
<1>4. \A l \in DOMAIN wire : l > 1 => l - 1 \in DOMAIN wire' /\ wire'[l - 1] = wire[l]
  BY <1>1, <1>2
<1>5. ASSUME NEW k \in Nat, Undone(k + 1) PROVE Undone(k)'
  <2>1. PICK l \in DOMAIN wire : l > k + 1 /\ wire[l].kind = "resumed" /\ Live(wire[l])
    BY <1>5 DEF Undone
  <2>2. l \in Nat /\ l > 1 /\ l - 1 > k
    BY <1>1, <2>1
  <2>3. QED
    BY <1>4, <2>1, <2>2 DEF Undone, Live
<1>6. QED
  BY <1>1, <1>3, <1>4, <1>5

\* Arming leaves no step's event on the wire, and no other touched.
LEMMA WireArmed ==
    ASSUME NEW s, NEW w \in Seq(Event), NEW held, ArmAll(s, w, held)
    PROVE  /\ DOMAIN wire' = DOMAIN w
           /\ \A k \in DOMAIN w : /\ wire'[k].kind = w[k].kind
                                  /\ wire'[k].from = IF w[k].from = "own" THEN "gone" ELSE w[k].from
           /\ idle' = {} /\ quiet' = 0
           /\ held => DOMAIN left' = {}
           /\ \A i \in DOMAIN left' : i \in DOMAIN s /\ left'[i] = s[i].after
<1>1. wire' = Destroyed(w) /\ idle' = {} /\ quiet' = 0
  BY DEF ArmAll, Disarm
<1>2. (held => DOMAIN left' = {}) /\ \A i \in DOMAIN left' : i \in DOMAIN s /\ left'[i] = s[i].after
  BY DEF ArmAll, Disarm, NoCountdown
<1>3. QED
  BY <1>1, <1>2, DestroyedWire

\* Rebuilding makes strays of the steps' objects and of their events.
LEMMA WireRebuilt ==
    ASSUME TypeOK, NEW c \in Configs, NEW b \in BOOLEAN, Rebuild(c, b)
    PROVE  /\ DOMAIN wire' = DOMAIN wire
           /\ \A k \in DOMAIN wire :
                /\ wire'[k].kind = wire[k].kind
                /\ wire'[k].from = IF wire[k].from = "gone" THEN "gone" ELSE "stray"
           /\ idle' = {} /\ quiet' = 0 /\ stray' = Strays
           /\ inhibited => DOMAIN left' = {}
           /\ \A i \in DOMAIN left' : i \in DOMAIN steps' /\ left'[i] = steps'[i].after
           /\ steps' \in Seq(Timeout)
<1>0. wire \in Seq(Event) /\ \A k \in DOMAIN wire : wire[k].from \in {"own", "stray", "gone"}
  <2>1. wire \in Seq(Event)
    BY DEF TypeOK, ProtocolOK
  <2>2. \A k \in DOMAIN wire : wire[k] \in Event
    BY <2>1, ElementOfSeq, LenProperties
  <2>3. QED
    BY <2>1, <2>2 DEF Event
<1>1. ArmAll(steps', Orphaned(wire), inhibited) /\ stray' = Strays /\ steps' = c.steps[b]
  BY DEF Rebuild
<1>2. Orphaned(wire) \in Seq(Event) /\ DOMAIN Orphaned(wire) = DOMAIN wire
  BY <1>0, OrphanedWire
<1>3. \A k \in DOMAIN wire : /\ Orphaned(wire)[k].kind = wire[k].kind
                             /\ Orphaned(wire)[k].from
                                  = IF wire[k].from = "own" THEN "stray" ELSE wire[k].from
  BY <1>0, OrphanedWire
<1>4. QED
  BY <1>0, <1>1, <1>2, <1>3, WireArmed, ConfigSteps

LEMMA TimelyInit == Init => Timely /\ NoStrays
BY DEF Init, Timely, NoCountdown, NoStrays

LEMMA TimelyStep == TypeOK /\ Timely /\ [Next]_vars => Timely'
<1> SUFFICES ASSUME TypeOK, Timely, [Next]_vars PROVE Timely'
  OBVIOUS
<1>0. /\ wire \in Seq(Event) /\ quiet \in Nat /\ quiet <= MaxQuiet /\ MaxQuiet \in Nat
      /\ steps \in Seq(Timeout)
      /\ idle \subseteq DOMAIN left /\ DOMAIN left \subseteq DOMAIN steps
      /\ left \in [DOMAIN left -> Nat]
  BY BoundsAssumption DEF TypeOK, ProgramOK, ProtocolOK, OutsideOK
<1>a. \A i \in DOMAIN steps : i \in Nat /\ steps[i].after \in Nat
  BY <1>0, StepFields
<1>1. CASE UNCHANGED timing
  BY <1>1 DEF timing, Timely, Backed, Undone, Live
<1>2. CASE ArmAll(steps, wire, inhibited') /\ inhibited' \in BOOLEAN /\ UNCHANGED <<stray, steps>>
  <2>1. /\ \A k \in DOMAIN wire' : wire'[k].from # "own"
        /\ idle' = {} /\ quiet' = 0
        /\ inhibited' => DOMAIN left' = {}
        /\ \A i \in DOMAIN left' : i \in DOMAIN steps /\ left'[i] = steps[i].after
    BY <1>0, <1>2, WireArmed
  <2>2. \A i \in DOMAIN left' : quiet' + left'[i] >= steps'[i].after
    BY <1>2, <1>a, <2>1
  <2>3. QED
    BY <2>1, <2>2 DEF Timely, Backed
<1>3. ASSUME NEW c \in Configs, NEW b \in BOOLEAN, Rebuild(c, b), UNCHANGED inhibited
      PROVE  Timely'
  <2>1. /\ \A k \in DOMAIN wire' : wire'[k].from # "own"
        /\ idle' = {} /\ quiet' = 0
        /\ inhibited => DOMAIN left' = {}
        /\ \A i \in DOMAIN left' : i \in DOMAIN steps' /\ left'[i] = steps'[i].after
        /\ steps' \in Seq(Timeout)
    BY <1>0, <1>3, WireRebuilt
  <2>2. \A i \in DOMAIN left' : quiet' + left'[i] >= steps'[i].after
    BY <2>1, StepFields
  <2>3. QED
    BY <1>3, <2>1, <2>2 DEF Timely, Backed
<1>4. CASE Stop
  BY <1>4, EmptySeq DEF Stop, Timely, NoCountdown
<1>5. CASE Tick
  <2>1. UNCHANGED <<wire, inhibited, idle, steps>>
    BY <1>5 DEF Tick, program
  <2>2. left' = [i \in DOMAIN left |-> Less(left[i])] /\ quiet' \in {quiet + 1, quiet}
          /\ (quiet' = quiet => quiet = MaxQuiet)
    BY <1>0, <1>5 DEF Tick
  <2>3. ASSUME NEW i \in DOMAIN left
        PROVE  quiet' = MaxQuiet \/ quiet' + left'[i] >= steps[i].after
    <3>1. /\ left[i] \in Nat /\ left'[i] \in Nat /\ left'[i] + 1 >= left[i]
          /\ steps[i].after \in Nat
          /\ quiet = MaxQuiet \/ quiet + left[i] >= steps[i].after
      BY <1>0, <1>a, <2>2 DEF Less, Timely
    <3>2. CASE quiet' = quiet
      BY <2>2, <3>2
    <3>3. CASE quiet' = quiet + 1 /\ quiet # MaxQuiet
      BY <1>0, <3>1, <3>3
    <3>4. CASE quiet' = quiet + 1 /\ quiet = MaxQuiet
      BY <1>0, <1>5, <3>4 DEF Tick
    <3>5. QED
      BY <2>2, <3>2, <3>3, <3>4
  <2>4. ASSUME NEW i \in idle PROVE quiet' = MaxQuiet \/ quiet' >= steps[i].after
    <3>1. (quiet = MaxQuiet \/ quiet >= steps[i].after) /\ steps[i].after \in Nat
      BY <1>0, <1>a DEF Timely
    <3>2. quiet = MaxQuiet => quiet' = quiet
      BY <1>0, <1>5 DEF Tick
    <3>3. QED
      BY <1>0, <2>2, <3>1, <3>2
  <2>5. DOMAIN left' = DOMAIN left
    BY <2>2
  <2>6. QED
    BY <2>1, <2>3, <2>4, <2>5 DEF Timely, Backed, Undone, Live
<1>6. ASSUME NEW i \in DOMAIN left, ExpireOwn(i) PROVE Timely'
  <2> DEFINE m == [kind |-> "idled", index |-> i, from |-> "own"]
  <2>1. /\ wire' = Append(wire, m) /\ idle' = idle \cup {i}
        /\ UNCHANGED <<inhibited, left, quiet, steps>> /\ left[i] = 0
    BY <1>6 DEF ExpireOwn, Send, program
  <2>2. m \in Event /\ m.index = i
    BY <1>0, <1>a DEF Event
  <2> HIDE DEF m
  <2>3. ~inhibited
    BY DEF Timely
  <2>4. ASSUME NEW k \in DOMAIN wire' PROVE Backed(k)'
    <3>1. CASE k = Len(wire) + 1
      BY <2>1, <2>2, <3>1, WirePut DEF Backed
    <3>2. CASE k \in DOMAIN wire
      <4>1. wire'[k] = wire[k] /\ Backed(k) /\ (Undone(k) => Undone(k)')
        BY <2>1, <2>2, <3>2, WirePut DEF Timely
      <4>2. QED
        BY <2>1, <4>1 DEF Backed
    <3>3. QED
      BY <2>1, <2>2, <3>1, <3>2, WirePut
  <2>5. quiet = MaxQuiet \/ quiet >= steps[i].after
    BY <1>0, <1>a, <2>1 DEF Timely
  <2>6. QED
    BY <2>1, <2>3, <2>4, <2>5 DEF Timely
<1>7. ASSUME NEW s \in stray, ExpireStray(s) PROVE Timely'
  <2> DEFINE m == [kind |-> "idled", index |-> s.index, from |-> "stray"]
  <2>1. wire' = Append(wire, m) /\ UNCHANGED <<inhibited, left, idle, quiet, steps>>
    BY <1>7 DEF ExpireStray, Send, program
  <2>2. m \in Event /\ m.from = "stray"
    BY DEF Event, Stray, TypeOK, ProtocolOK
  <2> HIDE DEF m
  <2>3. ASSUME NEW k \in DOMAIN wire' PROVE Backed(k)' /\ (inhibited => wire'[k].from # "own")
    <3>1. CASE k = Len(wire) + 1
      BY <2>1, <2>2, <3>1, WirePut DEF Backed
    <3>2. CASE k \in DOMAIN wire
      <4>1. /\ wire'[k] = wire[k] /\ Backed(k) /\ (Undone(k) => Undone(k)')
            /\ inhibited => wire[k].from # "own"
        BY <2>1, <2>2, <3>2, WirePut DEF Timely
      <4>2. QED
        BY <2>1, <4>1 DEF Backed
    <3>3. QED
      BY <2>1, <2>2, <3>1, <3>2, WirePut
  <2>4. QED
    BY <2>1, <2>3 DEF Timely
<1>8. CASE Input
  <2>1. /\ idle' = {} /\ quiet' = 0 /\ left' = [i \in DOMAIN left |-> steps[i].after]
        /\ UNCHANGED <<inhibited, steps>>
    BY <1>8 DEF Input, program
  <2>2. \A i \in DOMAIN left' : quiet' + left'[i] >= steps'[i].after
    BY <1>0, <1>a, <2>1
  <2>3. ASSUME NEW m \in Event, m.kind = "resumed", Live(m), inhibited => m.from # "own",
               wire' = Append(wire, m), NEW k \in DOMAIN wire'
        PROVE  Backed(k)' /\ (inhibited => wire'[k].from # "own")
    <3>1. CASE k = Len(wire) + 1
      BY <2>3, <3>1, WirePut DEF Backed
    <3>2. CASE k \in DOMAIN wire
      BY <2>3, <3>2, WirePut DEF Backed, Timely
    <3>3. QED
      BY <2>3, <3>1, <3>2, WirePut
  <2>4. ASSUME wire' = wire, idle = {}, NEW k \in DOMAIN wire'
        PROVE  Backed(k)' /\ (inhibited => wire'[k].from # "own")
    BY <2>4 DEF Backed, Timely, Undone, Live
  <2>5. CASE \E s \in stray : s.idle
    <3> DEFINE m == [kind |-> "resumed", index |-> 0, from |-> "stray"]
    <3>1. wire' = Append(wire, m)
      BY <1>8, <2>5 DEF Input, Send
    <3>2. m \in Event /\ m.kind = "resumed" /\ Live(m) /\ m.from # "own"
      BY DEF Event, Live
    <3> HIDE DEF m
    <3>3. QED
      BY <2>1, <2>2, <2>3, <3>1, <3>2 DEF Timely
  <2>6. CASE ~(\E s \in stray : s.idle) /\ idle # {}
    <3> DEFINE m == [kind |-> "resumed", index |-> 0, from |-> "own"]
    <3>1. wire' = Append(wire, m)
      BY <1>8, <2>6 DEF Input, Send
    <3>2. m \in Event /\ m.kind = "resumed" /\ Live(m)
      BY DEF Event, Live
    <3>3. ~inhibited
      BY <1>0, <2>6 DEF Timely
    <3> HIDE DEF m
    <3>4. QED
      BY <2>1, <2>2, <2>3, <3>1, <3>2, <3>3 DEF Timely
  <2>7. CASE ~(\E s \in stray : s.idle) /\ idle = {}
    <3>1. wire' = wire
      BY <1>8, <2>7 DEF Input
    <3>2. QED
      BY <2>1, <2>2, <2>4, <2>7, <3>1 DEF Timely
  <2>8. QED
    BY <2>5, <2>6, <2>7
<1>9. CASE Dispatch
  <2>1. wire # <<>> /\ wire' = Tail(wire) /\ UNCHANGED <<inhibited, left, idle, quiet, steps>>
    BY <1>9 DEF Dispatch, DispatchIdled, DispatchResumed, DispatchGone, Receive, program
  <2>2. ASSUME NEW k \in DOMAIN wire' PROVE Backed(k)' /\ (inhibited => wire'[k].from # "own")
    <3>1. /\ k + 1 \in DOMAIN wire /\ wire'[k] = wire[k + 1] /\ Backed(k + 1)
          /\ (Undone(k + 1) => Undone(k)') /\ (inhibited => wire[k + 1].from # "own")
      BY <2>1, <2>2, WireTaken DEF Timely
    <3>2. QED
      BY <2>1, <3>1 DEF Backed
  <2>3. QED
    BY <2>1, <2>2 DEF Timely
<1>10. QED
  BY <1>1, <1>2, <1>3, <1>4, <1>5, <1>6, <1>7, <1>8, <1>9, TimingSteps

LEMMA NoStraysStep == Steady /\ TypeOK /\ NoStrays /\ [Next]_vars => NoStrays'
<1> SUFFICES ASSUME Steady, TypeOK, NoStrays, [Next]_vars PROVE NoStrays'
  OBVIOUS
<1>0. wire \in Seq(Event)
  BY DEF TypeOK, ProtocolOK
<1>1. CASE UNCHANGED timing
  BY <1>1 DEF timing, NoStrays
<1>2. CASE ArmAll(steps, wire, inhibited') /\ inhibited' \in BOOLEAN /\ UNCHANGED <<stray, steps>>
  BY <1>0, <1>2, WireArmed DEF NoStrays
<1>3. CASE Stop
  BY <1>3, EmptySeq DEF Stop, NoStrays
<1>4. CASE Tick
  BY <1>4 DEF Tick, NoStrays
<1>5. ASSUME NEW m \in Event, m.from = "own", wire' = Append(wire, m), stray' = {}
      PROVE  NoStrays'
  BY <1>5, WirePut DEF NoStrays
<1>6. ASSUME NEW i \in DOMAIN left, ExpireOwn(i) PROVE NoStrays'
  <2> DEFINE m == [kind |-> "idled", index |-> i, from |-> "own"]
  <2>1. wire' = Append(wire, m) /\ stray' = {}
    BY <1>6 DEF ExpireOwn, Send, NoStrays
  <2>2. m \in Event /\ m.from = "own"
    BY StepFields DEF Event, TypeOK, ProgramOK, ProtocolOK
  <2> HIDE DEF m
  <2>3. QED
    BY <1>5, <2>1, <2>2
<1>7. ASSUME NEW s \in stray, ExpireStray(s) PROVE NoStrays'
  BY DEF NoStrays
<1>8. CASE Input
  <2>1. stray' = {} /\ (wire' = wire \/ Send("resumed", 0, "own"))
    BY <1>8 DEF Input, NoStrays
  <2>2. CASE wire' = wire
    BY <2>1, <2>2 DEF NoStrays
  <2>3. CASE Send("resumed", 0, "own")
    <3> DEFINE m == [kind |-> "resumed", index |-> 0, from |-> "own"]
    <3>1. wire' = Append(wire, m) /\ m \in Event /\ m.from = "own"
      BY <2>3 DEF Send, Event
    <3> HIDE DEF m
    <3>2. QED
      BY <1>5, <2>1, <3>1
  <2>4. QED
    BY <2>1, <2>2, <2>3
<1>9. CASE Dispatch
  <2>1. wire # <<>> /\ wire' = Tail(wire) /\ UNCHANGED stray
    BY <1>9 DEF Dispatch, DispatchIdled, DispatchResumed, DispatchGone, Receive
  <2>2. QED
    BY <2>1, WireTaken DEF NoStrays
<1>10. QED
  BY <1>1, <1>2, <1>3, <1>4, <1>6, <1>7, <1>8, <1>9, TimingSteps

\* What fires has an `idled` at the head of the wire that is its own.
LEMMA FiresFromWire ==
    ASSUME TypeOK, [Next]_vars, NEW i \in fired' \ fired
    PROVE  /\ wire # <<>> /\ DispatchIdled
           /\ Head(wire).kind = "idled" /\ Head(wire).from # "gone" /\ Head(wire).index = i
<1>1. CASE DispatchIdled
  BY <1>1 DEF DispatchIdled, Receive, WentIdle
<1>2. CASE ~DispatchIdled
  <2>1. fired' \subseteq fired
    <3>1. CASE Unwind
      BY <3>1 DEF Unwind
    <3>2. CASE AfterSleep \/ BeforeSleep \/ SleepUnseen
      BY <3>2 DEF AfterSleep, BeforeSleep, SleepUnseen
    <3>3. CASE Tick \/ Expire \/ Input
      BY <3>3 DEF Tick, Expire, ExpireOwn, ExpireStray, Input
    <3>4. CASE DispatchGone \/ LockAsked \/ BootArm \/ Stop \/ LockerExits \/ UNCHANGED vars
      BY <3>4 DEF DispatchGone, LockAsked, BootArm, Stop, LockerExits, vars
    <3>5. CASE DispatchResumed \/ Activity \/ LidOpened
      BY <3>1, <3>5 DEF DispatchResumed, Activity, LidOpened
    <3>6. ASSUME NEW b \in BOOLEAN, SetInhibited(b) \/ OnBattery(b) PROVE fired' \subseteq fired
      BY <3>1, <3>6 DEF SetInhibited, OnBattery
    <3>7. ASSUME NEW d \in BOOLEAN, NEW e \in BOOLEAN, LidShut(d, e) \/ SleepAnswered(d)
          PROVE  fired' \subseteq fired
      BY <3>7 DEF LidShut, SleepAnswered
    <3>8. ASSUME NEW r \in Reloads, Reload(r) PROVE fired' \subseteq fired
      BY <3>1, <3>8 DEF Reload
    <3>9. QED
      BY <1>2, <3>2, <3>3, <3>4, <3>5, <3>6, <3>7, <3>8 DEF Next, Dispatch
  <2>2. QED
    BY <2>1
<1>3. QED
  BY <1>1, <1>2

LEMMA HeadBacked ==
    ASSUME TypeOK, Timely, wire # <<>>, Head(wire).kind = "idled", Head(wire).from # "gone"
    PROVE  \/ StrayHeard
           \/ /\ ~inhibited
              /\ Head(wire).index \in idle \/ ResumedOnWire
<1>1. 1 \in DOMAIN wire /\ Head(wire) = wire[1] /\ Head(wire) \in Event
  BY EmptySeq, LenProperties, HeadTailProperties DEF TypeOK, ProtocolOK
<1>2. Backed(1) /\ (inhibited => wire[1].from # "own")
  BY <1>1 DEF Timely
<1>3. Undone(1) => ResumedOnWire
  BY DEF Undone, ResumedOnWire
<1>4. QED
  BY <1>1, <1>2, <1>3 DEF Backed, Event, StrayHeard

LEMMA TimelyAlways == Spec => [](TypeOK /\ StepsMatchProfile /\ Timely)
BY TypeInit, TypeStep, ProfileInit, ProfileStep, TimelyInit, TimelyStep, PTL DEF Spec

\* Reloads, profile switches, holds and wakes in any order mislead the program
\* by nothing but the objects it has dropped: what a step's own notification
\* fires has waited its time, or has its undoing on its heels, and is never in
\* the way of a hold.
THEOREM NothingElseMisleads ==
    ASSUME Countable
    PROVE  Spec => OnlyStraysMislead
<1>1. TypeOK /\ StepsMatchProfile => \A i \in DOMAIN steps : steps[i].after <= MaxQuiet
  BY DEF Countable, StepsMatchProfile, TypeOK, ProgramOK
<1>2. ASSUME TypeOK, StepsMatchProfile, Timely, [Next]_vars,
             NEW i \in fired' \ fired, ~StrayHeard
      PROVE  ~inhibited /\ (quiet >= steps[i].after \/ ResumedOnWire)
  <2>1. Head(wire).index = i /\ ~inhibited /\ (i \in idle \/ ResumedOnWire)
    BY <1>2, FiresFromWire, HeadBacked
  <2>2. CASE i \in idle
    <3>1. quiet = MaxQuiet \/ quiet >= steps[i].after
      BY <1>2, <2>2 DEF Timely
    <3>2. quiet \in Nat /\ i \in DOMAIN steps /\ steps[i].after \in Nat
      BY <1>2, <2>2, BoundsAssumption, StepFields DEF TypeOK, ProgramOK, ProtocolOK, OutsideOK
    <3>3. QED
      BY <1>1, <1>2, <2>1, <3>1, <3>2
  <2>3. QED
    BY <2>1, <2>2
<1>3. TypeOK /\ StepsMatchProfile /\ Timely /\ [Next]_vars
        => [\A i \in fired' \ fired :
               StrayHeard \/ (~inhibited /\ (quiet >= steps[i].after \/ ResumedOnWire))]_vars
  BY <1>2
<1>4. QED
  BY <1>3, TimelyAlways, PTL DEF Spec, OnlyStraysMislead

LEMMA NoStraysAlways ==
    ASSUME Steady
    PROVE  Spec => []NoStrays
<1>1. TypeOK /\ NoStrays /\ [Next]_vars => NoStrays'
  BY NoStraysStep
<1>2. QED
  BY <1>1, TypeCorrect, TimelyInit, PTL DEF Spec

LEMMA NoStrayHeard == TypeOK /\ NoStrays => ~StrayHeard
<1> SUFFICES ASSUME TypeOK, NoStrays, wire # <<>> PROVE Head(wire).from # "stray"
  BY DEF StrayHeard
<1>1. 1 \in DOMAIN wire /\ Head(wire) = wire[1]
  BY EmptySeq, LenProperties, HeadTailProperties DEF TypeOK, ProtocolOK
<1>2. QED
  BY <1>1 DEF NoStrays

\* A timeout whose steps are never rebuilt fires no sooner than its time after
\* the last restart of the countdowns, or with the input that restarted them on
\* its heels: no event outlives the object it was for.
THEOREM FiresInTime ==
    ASSUME Steady, Countable
    PROVE  Spec => FiresOnTime
<1>1. TypeOK /\ NoStrays
        /\ [\A i \in fired' \ fired :
               StrayHeard \/ (~inhibited /\ (quiet >= steps[i].after \/ ResumedOnWire))]_vars
        => [\A i \in fired' \ fired : quiet >= steps[i].after \/ ResumedOnWire]_vars
  BY NoStrayHeard
<1>2. QED
  BY <1>1, TypeCorrect, NoStraysAlways, NothingElseMisleads, PTL DEF OnlyStraysMislead, FiresOnTime

\* Nothing fires while the session is held awake, not even what was announced
\* before the hold, however long the timeouts.
THEOREM HeldIsQuiet ==
    ASSUME Steady
    PROVE  Spec => HeldQuiet
<1>1. ASSUME TypeOK, Timely, NoStrays, [Next]_vars
      PROVE  [inhibited => fired' \subseteq fired]_vars
  BY <1>1, FiresFromWire, HeadBacked, NoStrayHeard
<1>2. QED
  BY <1>1, TimelyAlways, NoStraysAlways, PTL DEF Spec, HeldQuiet

-----------------------------------------------------------------------------
(* Why the next input undoes whatever was done *)

\* Nobody puts the machine to sleep, or sees it sleep.
NeverSleeps ==
    /\ ~WantsLogind
    /\ \A c \in Configs, b \in BOOLEAN :
           \A i \in DOMAIN c.steps[b] : ~(c.steps[b][i].suspend /\ Dbus)

\* Nothing is told of a lid.
LidUnwatched == ~(Logind /\ Laptop)

Shown == blanked \/ dimmed \/ fired # {}

StrayIdle == \E s \in stray : s.idle
StrayUndone(k) == \E l \in DOMAIN wire : l > k /\ wire[l].kind = "resumed" /\ wire[l].from = "stray"

\* Until the countdowns first start nothing has happened, and nothing can.
Fresh ==
    /\ ~asking
    /\ \A s \in stray : s.after > 0
    /\ phase = "starting" =>
           /\ wire = <<>> /\ idle = {} /\ ~Shown
           /\ \A i \in DOMAIN left : left[i] > 0
           /\ \A s \in stray : s.left > 0 /\ ~s.idle

\* An `idled` from a stray is undone by a stray.
StraysBacked ==
    \A k \in DOMAIN wire :
        wire[k].kind = "idled" /\ wire[k].from = "stray" => StrayIdle \/ StrayUndone(k)

\* What is over the screen of a held session is undone by a stray: the end of
\* the hold destroys no other way back.
HeldWay == Up /\ Shown /\ inhibited => StrayIdle \/ StrayUndone(0)

Wakeable == Fresh /\ StraysBacked /\ HeldWay /\ WakesOnInput

LEMMA WakeableInit == Init => Wakeable
BY DEF Init, Wakeable, Fresh, StraysBacked, HeldWay, WakesOnInput, Shown, NoCountdown

\* What becomes of the strays' `resumed` when something is sent or dispatched.
LEMMA StrayPut ==
    ASSUME TypeOK, NEW m \in Event, wire' = Append(wire, m), NEW k \in Nat
    PROVE  /\ StrayUndone(k) => StrayUndone(k)'
           /\ k <= Len(wire) /\ m.kind = "resumed" /\ m.from = "stray" => StrayUndone(k)'
<1>1. /\ Len(wire) \in Nat /\ DOMAIN wire = 1 .. Len(wire)
      /\ DOMAIN wire' = 1 .. (Len(wire) + 1)
      /\ wire'[Len(wire) + 1] = m
      /\ \A l \in DOMAIN wire : wire'[l] = wire[l]
  BY WirePut
<1>2. StrayUndone(k) => StrayUndone(k)'
  BY <1>1 DEF StrayUndone
<1>3. ASSUME k <= Len(wire), m.kind = "resumed", m.from = "stray" PROVE StrayUndone(k)'
  <2>1. Len(wire) + 1 \in DOMAIN wire' /\ Len(wire) + 1 > k
    BY <1>1, <1>3
  <2>2. QED
    BY <1>1, <1>3, <2>1 DEF StrayUndone
<1>4. QED
  BY <1>2, <1>3

LEMMA StrayTaken ==
    ASSUME TypeOK, wire # <<>>, wire' = Tail(wire), NEW k \in Nat, StrayUndone(k + 1)
    PROVE  StrayUndone(k)'
<1>1. PICK l \in DOMAIN wire : l > k + 1 /\ wire[l].kind = "resumed" /\ wire[l].from = "stray"
  BY DEF StrayUndone
<1>2. l \in Nat /\ l > 1 /\ l - 1 > k
  BY <1>1, WireTaken
<1>3. l - 1 \in DOMAIN wire' /\ wire'[l - 1] = wire[l]
  BY <1>2, WireTaken
<1>4. QED
  BY <1>1, <1>2, <1>3 DEF StrayUndone

\* An event that is not itself a live `resumed` leaves those that are.
LEMMA ResumedStays ==
    ASSUME TypeOK, wire # <<>>, wire' = Tail(wire),
           Head(wire).kind = "idled" \/ Head(wire).from = "gone"
    PROVE  (ResumedOnWire => ResumedOnWire') /\ (StrayUndone(0) => StrayUndone(0)')
<1>1. Head(wire) = wire[1] /\ DOMAIN wire \subseteq Nat /\ 0 \notin DOMAIN wire
  BY WireTaken
<1>2. ASSUME ResumedOnWire PROVE ResumedOnWire'
  <2>1. PICK l \in DOMAIN wire : wire[l].kind = "resumed" /\ Live(wire[l])
    BY <1>2 DEF ResumedOnWire
  <2>2. l > 1
    BY <1>1, <2>1 DEF Live
  <2>3. l - 1 \in DOMAIN wire' /\ wire'[l - 1] = wire[l]
    BY <2>2, WireTaken
  <2>4. QED
    BY <2>1, <2>3 DEF ResumedOnWire, Live
<1>3. ASSUME StrayUndone(0) PROVE StrayUndone(0)'
  <2>1. PICK l \in DOMAIN wire : wire[l].kind = "resumed" /\ wire[l].from = "stray"
    BY <1>3 DEF StrayUndone
  <2>2. l > 0 + 1
    BY <1>1, <2>1
  <2>3. StrayUndone(0 + 1)
    BY <2>1, <2>2 DEF StrayUndone
  <2>4. QED
    BY <2>3, StrayTaken
<1>4. QED
  BY <1>2, <1>3

\* Rebuilding leaves every way back with a stray.
LEMMA StrayRebuilt ==
    ASSUME TypeOK, NEW c \in Configs, NEW b \in BOOLEAN, Rebuild(c, b)
    PROVE  /\ StrayIdle \/ idle # {} => StrayIdle'
           /\ \A k \in Nat : Undone(k) => StrayUndone(k)'
           /\ \A k \in Nat : StrayUndone(k) => StrayUndone(k)'
<1>1. StrayIdle => StrayIdle'
  BY WireRebuilt DEF StrayIdle, Strays
<1>2. ASSUME idle # {} PROVE StrayIdle'
  <2>1. PICK i \in DOMAIN left : i \in idle
    BY <1>2 DEF TypeOK, ProtocolOK
  <2> DEFINE s == [index |-> i, after |-> steps[i].after, left |-> left[i], idle |-> i \in idle]
  <2>2. s \in stray' /\ s.idle
    BY <2>1, WireRebuilt DEF Strays
  <2>3. QED
    BY <2>2 DEF StrayIdle
<1>3. \A k \in Nat : Undone(k) => StrayUndone(k)'
  BY WireRebuilt DEF Undone, StrayUndone, Live
<1>4. \A k \in Nat : StrayUndone(k) => StrayUndone(k)'
  BY WireRebuilt DEF StrayUndone
<1>5. QED
  BY <1>1, <1>2, <1>3, <1>4

\* A stray that has been told of is idle.
LEMMA ToldStray ==
    ASSUME TypeOK, NEW s \in stray, ExpireStray(s)
    PROVE  StrayIdle'
<1>1. s \in Stray
  BY DEF TypeOK, ProtocolOK
<1>2. [s EXCEPT !.idle = TRUE].idle
  BY <1>1 DEF Stray
<1>3. [s EXCEPT !.idle = TRUE] \in stray'
  BY DEF ExpireStray
<1>4. QED
  BY <1>2, <1>3 DEF StrayIdle

LEMMA StraysBackedStep == TypeOK /\ Timely /\ StraysBacked /\ [Next]_vars => StraysBacked'
<1> SUFFICES ASSUME TypeOK, Timely, StraysBacked, [Next]_vars PROVE StraysBacked'
  OBVIOUS
<1>0. wire \in Seq(Event) /\ Len(wire) \in Nat /\ DOMAIN wire = 1 .. Len(wire)
  BY LenProperties DEF TypeOK, ProtocolOK
<1>1. CASE UNCHANGED timing
  BY <1>1 DEF timing, StraysBacked, StrayIdle, StrayUndone
<1>2. CASE ArmAll(steps, wire, inhibited') /\ inhibited' \in BOOLEAN /\ UNCHANGED <<stray, steps>>
  <2>1. /\ DOMAIN wire' = DOMAIN wire
        /\ \A k \in DOMAIN wire :
             /\ wire'[k].kind = wire[k].kind
             /\ wire'[k].from = IF wire[k].from = "own" THEN "gone" ELSE wire[k].from
    BY <1>0, <1>2, WireArmed
  <2>2. \A k \in DOMAIN wire : StrayUndone(k) => StrayUndone(k)'
    BY <2>1 DEF StrayUndone
  <2>3. StrayIdle => StrayIdle'
    BY <1>2 DEF StrayIdle
  <2>4. QED
    BY <2>1, <2>2, <2>3 DEF StraysBacked
<1>3. ASSUME NEW c \in Configs, NEW b \in BOOLEAN, Rebuild(c, b) PROVE StraysBacked'
  <2>1. ASSUME NEW k \in DOMAIN wire', wire'[k].kind = "idled", wire'[k].from = "stray"
        PROVE  StrayIdle' \/ StrayUndone(k)'
    <3>1. k \in Nat /\ k \in DOMAIN wire /\ wire[k].kind = "idled" /\ wire[k].from # "gone"
      BY <1>0, <1>3, <2>1, WireRebuilt
    <3>2. wire[k].from \in {"own", "stray"}
      <4>1. wire[k] \in Event
        BY <1>0, <3>1, ElementOfSeq
      <4>2. QED
        BY <3>1, <4>1 DEF Event
    <3>3. CASE wire[k].from = "own"
      <4>1. Backed(k)
        BY <3>1 DEF Timely
      <4>2. QED
        BY <1>3, <3>1, <3>3, <4>1, StrayRebuilt DEF Backed
    <3>4. CASE wire[k].from = "stray"
      BY <1>3, <3>1, <3>4, StrayRebuilt DEF StraysBacked
    <3>5. QED
      BY <3>2, <3>3, <3>4
  <2>2. QED
    BY <2>1 DEF StraysBacked
<1>4. CASE Stop
  BY <1>4, EmptySeq DEF Stop, StraysBacked
<1>5. CASE Tick
  <2>1. wire' = wire
    BY <1>5 DEF Tick
  <2>2. ASSUME StrayIdle PROVE StrayIdle'
    <3>1. PICK s \in stray : s.idle
      BY <2>2 DEF StrayIdle
    <3>2. s \in Stray
      BY <3>1 DEF TypeOK, ProtocolOK
    <3>3. [s EXCEPT !.left = Less(@)] \in stray'
      BY <1>5, <3>1 DEF Tick
    <3>4. [s EXCEPT !.left = Less(@)].idle
      BY <3>1, <3>2 DEF Stray
    <3>5. QED
      BY <3>3, <3>4 DEF StrayIdle
  <2>3. QED
    BY <2>1, <2>2 DEF StraysBacked, StrayUndone
<1>6. ASSUME NEW m \in Event, m.kind = "resumed" \/ m.from = "own", wire' = Append(wire, m),
             StrayIdle => StrayIdle' \/ m.from = "stray"
      PROVE  StraysBacked'
  <2>1. ASSUME NEW k \in DOMAIN wire', wire'[k].kind = "idled", wire'[k].from = "stray"
        PROVE  StrayIdle' \/ StrayUndone(k)'
    <3>1. k \in Nat /\ k <= Len(wire) /\ k \in DOMAIN wire /\ wire'[k] = wire[k]
      BY <1>0, <1>6, <2>1, WirePut
    <3>2. StrayIdle \/ StrayUndone(k)
      BY <2>1, <3>1 DEF StraysBacked
    <3>3. QED
      BY <1>6, <3>1, <3>2, StrayPut
  <2>2. QED
    BY <2>1 DEF StraysBacked
<1>7. ASSUME NEW i \in DOMAIN left, ExpireOwn(i) PROVE StraysBacked'
  <2> DEFINE m == [kind |-> "idled", index |-> i, from |-> "own"]
  <2>1. wire' = Append(wire, m) /\ (StrayIdle => StrayIdle')
    BY <1>7 DEF ExpireOwn, Send, StrayIdle
  <2>2. m \in Event /\ m.from = "own"
    BY StepFields DEF Event, TypeOK, ProgramOK, ProtocolOK
  <2> HIDE DEF m
  <2>3. QED
    BY <1>6, <2>1, <2>2
<1>8. ASSUME NEW s \in stray, ExpireStray(s) PROVE StraysBacked'
  <2>1. StrayIdle'
    BY <1>8, ToldStray
  <2>2. QED
    BY <2>1 DEF StraysBacked
<1>9. CASE Input
  <2>1. CASE StrayIdle
    <3> DEFINE m == [kind |-> "resumed", index |-> 0, from |-> "stray"]
    <3>1. wire' = Append(wire, m)
      BY <1>9, <2>1 DEF Input, Send, StrayIdle
    <3>2. m \in Event /\ m.kind = "resumed" /\ m.from = "stray"
      BY DEF Event
    <3> HIDE DEF m
    <3>3. QED
      BY <1>6, <3>1, <3>2
  <2>2. CASE ~StrayIdle /\ idle # {}
    <3> DEFINE m == [kind |-> "resumed", index |-> 0, from |-> "own"]
    <3>1. wire' = Append(wire, m)
      BY <1>9, <2>2 DEF Input, Send, StrayIdle
    <3>2. m \in Event /\ m.kind = "resumed"
      BY DEF Event
    <3> HIDE DEF m
    <3>3. QED
      BY <1>6, <2>2, <3>1, <3>2
  <2>3. CASE ~StrayIdle /\ idle = {}
    <3>1. wire' = wire
      BY <1>9, <2>3 DEF Input, StrayIdle
    <3>2. QED
      BY <2>3, <3>1 DEF StraysBacked, StrayUndone
  <2>4. QED
    BY <2>1, <2>2, <2>3
<1>10. CASE Dispatch
  <2>1. wire # <<>> /\ wire' = Tail(wire) /\ UNCHANGED stray
    BY <1>10 DEF Dispatch, DispatchIdled, DispatchResumed, DispatchGone, Receive
  <2>2. ASSUME NEW k \in DOMAIN wire', wire'[k].kind = "idled", wire'[k].from = "stray"
        PROVE  StrayIdle' \/ StrayUndone(k)'
    <3>1. k \in Nat /\ k + 1 \in DOMAIN wire /\ wire'[k] = wire[k + 1]
      BY <2>1, WireTaken
    <3>2. StrayIdle \/ StrayUndone(k + 1)
      BY <2>2, <3>1 DEF StraysBacked
    <3>3. StrayIdle => StrayIdle'
      BY <2>1 DEF StrayIdle
    <3>4. QED
      BY <2>1, <3>1, <3>2, <3>3, StrayTaken
  <2>3. QED
    BY <2>2 DEF StraysBacked
<1>11. QED
  BY <1>1, <1>2, <1>3, <1>4, <1>5, <1>7, <1>8, <1>9, <1>10, TimingSteps

\* What each way of treating the countdowns does to what is shown, on a machine
\* that does not sleep and has no lid.
LEMMA ShownSteps ==
    ASSUME NeverSleeps, LidUnwatched, TypeOK, ~asking, [Next]_vars
    PROVE  \/ UNCHANGED <<timing, phase, asking>> /\ (Shown' => Shown)
           \/ /\ ArmAll(steps, wire, inhibited') /\ inhibited' \in BOOLEAN
              /\ UNCHANGED <<stray, steps, asking>>
              /\ Up /\ (Shown' => Shown /\ (inhibited \/ phase = "starting"))
              /\ phase' = "starting" => phase = "starting"
           \/ /\ \E c \in Configs, b \in BOOLEAN : Rebuild(c, b)
              /\ UNCHANGED <<inhibited, phase, asking>> /\ ~Shown'
           \/ Stop
           \/ Tick
           \/ \E i \in DOMAIN left : ExpireOwn(i)
           \/ \E s \in stray : ExpireStray(s)
           \/ Input
           \/ Dispatch
<1> DEFINE Armed == /\ ArmAll(steps, wire, inhibited') /\ inhibited' \in BOOLEAN
                    /\ UNCHANGED <<stray, steps, asking>>
                    /\ Up /\ (Shown' => Shown /\ (inhibited \/ phase = "starting"))
                    /\ phase' = "starting" => phase = "starting"
           Rebuilt == /\ \E c \in Configs, b \in BOOLEAN : Rebuild(c, b)
                      /\ UNCHANGED <<inhibited, phase, asking>> /\ ~Shown'
<1>0. inhibited \in BOOLEAN /\ config \in Configs /\ onBattery \in BOOLEAN
  BY DEF TypeOK, ProgramOK
<1>a. Unwind => ~Shown'
  BY DEF Unwind, Shown
<1>1. CASE Activity
  <2>1. ~Shown'
    BY <1>1, <1>a DEF Activity
  <2>2. QED
    BY <1>0, <1>1, <2>1 DEF Activity, program, outside
<1>2. ASSUME NEW b \in BOOLEAN, SetInhibited(b) PROVE Armed
  <2>1. ArmAll(steps, wire, b) /\ inhibited' = b /\ UNCHANGED <<stray, steps, asking, phase>> /\ Up
    BY <1>2 DEF SetInhibited, ArmAll, outside
  <2>2. CASE b
    <3>1. ~Shown'
      BY <1>2, <1>a, <2>2 DEF SetInhibited
    <3>2. QED
      BY <2>1, <3>1
  <2>3. CASE ~b
    <3>1. inhibited /\ (Shown' => Shown)
      BY <1>0, <1>2, <2>3 DEF SetInhibited, Shown, screen
    <3>2. QED
      BY <2>1, <3>1
  <2>4. QED
    BY <2>2, <2>3
<1>3. ASSUME NEW r \in Reloads, Reload(r) PROVE Armed \/ Rebuilt
  <2>1. ~Shown' /\ UNCHANGED <<inhibited, phase, asking>> /\ Up
    BY <1>3, <1>a DEF Reload, outside
  <2>2. CASE r = Rejected
    BY <1>0, <1>3, <2>1, <2>2 DEF Reload
  <2>3. CASE r # Rejected
    <3>1. r \in Configs /\ Rebuild(r, onBattery)
      BY <1>3, <2>3 DEF Configs, Reload
    <3>2. QED
      BY <1>0, <2>1, <3>1
  <2>4. QED
    BY <2>2, <2>3
<1>4. ASSUME NEW b \in BOOLEAN, OnBattery(b) PROVE Rebuilt
  <2>1. Rebuild(config, b) /\ UNCHANGED <<inhibited, phase, asking>> /\ ~Shown'
    BY <1>4, <1>a DEF OnBattery, outside
  <2>2. QED
    BY <1>0, <2>1
<1>5. CASE BootArm
  <2>1. Up /\ phase = "starting" /\ (Shown' => Shown) /\ UNCHANGED <<inhibited, steps, stray, asking>>
    BY <1>5 DEF BootArm, Up, Shown, screen, outside
  <2>2. ArmAll(steps, wire, inhibited')
    BY <1>5, <2>1 DEF BootArm
  <2>3. QED
    BY <1>0, <2>1, <2>2
<1>6. ~AfterSleep /\ ~BeforeSleep /\ (\A d : ~SleepAnswered(d)) /\ ~LidOpened
        /\ \A d, e : ~LidShut(d, e)
  BY DEF AfterSleep, BeforeSleep, SleepAnswered, LidOpened, LidShut, NeverSleeps, LidUnwatched
<1>7. CASE LockAsked \/ SleepUnseen \/ LockerExits \/ UNCHANGED vars
  BY <1>7 DEF LockAsked, SleepUnseen, LockerExits, vars, program, protocol, screen, outside,
              timing, Shown
<1>8. QED
  BY <1>1, <1>2, <1>3, <1>4, <1>5, <1>6, <1>7 DEF Next, Expire

\* No suspend is asked for.
LEMMA NeverAsked ==
    ASSUME NeverSleeps, LidUnwatched
    PROVE  TypeOK /\ StepsMatchProfile /\ ~asking /\ [Next]_vars => ~asking'
<1> SUFFICES ASSUME TypeOK, StepsMatchProfile, ~asking, [Next]_vars PROVE ~asking'
  OBVIOUS
<1>1. \A i \in DOMAIN steps : ~(steps[i].suspend /\ Dbus)
  BY DEF NeverSleeps, StepsMatchProfile, TypeOK, ProgramOK
<1>2. CASE DispatchIdled
  BY <1>1, <1>2 DEF DispatchIdled, WentIdle
<1>3. CASE DispatchResumed \/ DispatchGone \/ Tick \/ Input \/ Stop
  BY <1>3 DEF DispatchResumed, DispatchGone, Tick, Input, Stop, outside
<1>4. ASSUME NEW i, ExpireOwn(i) \/ ExpireStray(i) PROVE ~asking'
  BY <1>4 DEF ExpireOwn, ExpireStray, outside
<1>5. QED
  BY <1>2, <1>3, <1>4, ShownSteps DEF Dispatch

\* Strays were made for steps, whose timeouts are not nothing.
LEMMA StrayTimes ==
    TypeOK /\ (\A s \in stray : s.after > 0) /\ [Next]_vars => \A s \in stray' : s.after > 0
<1> SUFFICES ASSUME TypeOK, \A s \in stray : s.after > 0, [Next]_vars, NEW t \in stray'
             PROVE  t.after > 0
  OBVIOUS
<1>0. stray \subseteq Stray
  BY DEF TypeOK, ProtocolOK
<1>1. ASSUME NEW c \in Configs, NEW b \in BOOLEAN, Rebuild(c, b) PROVE t.after > 0
  <2>1. \A i \in DOMAIN left : steps[i].after > 0
    <3>1. \A i \in DOMAIN left : steps[i] \in Timeout
      BY StepFields DEF TypeOK, ProgramOK, ProtocolOK
    <3>2. QED
      BY <3>1 DEF Timeout
  <2>2. stray' = Strays
    BY <1>1 DEF Rebuild
  <2>3. CASE t \in stray
    BY <2>3
  <2>4. CASE t \notin stray
    <3>1. PICK i \in DOMAIN left :
            t = [index |-> i, after |-> steps[i].after, left |-> left[i], idle |-> i \in idle]
      BY <2>2, <2>4 DEF Strays
    <3>2. QED
      BY <2>1, <3>1
  <2>5. QED
    BY <2>3, <2>4
<1>2. CASE UNCHANGED stray
  BY <1>2
<1>3. CASE Stop
  BY <1>3 DEF Stop
<1>4. CASE Tick
  <2>1. PICK s \in stray : t = [s EXCEPT !.left = Less(@)]
    BY <1>4 DEF Tick
  <2>2. t.after = s.after
    BY <1>0, <2>1 DEF Stray
  <2>3. QED
    BY <2>2
<1>5. CASE Input
  <2>1. PICK s \in stray : t = [s EXCEPT !.left = s.after, !.idle = FALSE]
    BY <1>5 DEF Input
  <2>2. t.after = s.after
    BY <1>0, <2>1 DEF Stray
  <2>3. QED
    BY <2>2
<1>6. ASSUME NEW s \in stray, ExpireStray(s) PROVE t.after > 0
  <2>1. [s EXCEPT !.idle = TRUE].after = s.after
    BY <1>0 DEF Stray
  <2>2. t \in stray \/ t = [s EXCEPT !.idle = TRUE]
    BY <1>6 DEF ExpireStray
  <2>3. QED
    BY <2>1, <2>2
<1>7. ASSUME NEW i \in DOMAIN left, ExpireOwn(i) PROVE UNCHANGED stray
  BY <1>7 DEF ExpireOwn
<1>8. Dispatch => UNCHANGED stray
  BY DEF Dispatch, DispatchIdled, DispatchResumed, DispatchGone
<1>9. QED
  BY <1>1, <1>2, <1>3, <1>4, <1>5, <1>6, <1>7, <1>8, TimingSteps DEF timing

LEMMA FreshStep ==
    ASSUME NeverSleeps, LidUnwatched
    PROVE  TypeOK /\ StepsMatchProfile /\ Fresh /\ [Next]_vars => Fresh'
<1> SUFFICES ASSUME TypeOK, StepsMatchProfile, Fresh, [Next]_vars PROVE Fresh'
  OBVIOUS
<1>1. ~asking /\ ~asking' /\ (\A s \in stray : s.after > 0) /\ \A s \in stray' : s.after > 0
  BY NeverAsked, StrayTimes DEF Fresh
<1> SUFFICES ASSUME phase' = "starting"
             PROVE  /\ wire' = <<>> /\ idle' = {} /\ ~Shown'
                    /\ \A i \in DOMAIN left' : left'[i] > 0
                    /\ \A s \in stray' : s.left > 0 /\ ~s.idle
  BY <1>1 DEF Fresh
<1>0. /\ wire \in Seq(Event) /\ wire' \in Seq(Event) /\ steps \in Seq(Timeout)
      /\ stray \subseteq Stray /\ DOMAIN left \subseteq DOMAIN steps
  BY TypeStep DEF TypeOK, ProgramOK, ProtocolOK
<1>a. \A s \in Seq(Timeout) : \A i \in DOMAIN s : s[i].after > 0
  BY StepFields DEF Timeout
<1>b. phase = "starting" => /\ wire = <<>> /\ idle = {} /\ ~Shown
                            /\ \A i \in DOMAIN left : left[i] > 0
                            /\ \A s \in stray : s.left > 0 /\ ~s.idle
  BY DEF Fresh
<1>c. ASSUME wire = <<>>, DOMAIN wire' = DOMAIN wire PROVE wire' = <<>>
  <2>1. Len(wire) = 0 /\ DOMAIN wire = 1 .. 0
    BY <1>0, <1>c, EmptySeq, LenProperties
  <2>2. Len(wire') \in Nat /\ 1 .. Len(wire') = 1 .. 0
    BY <1>0, <1>c, <2>1, LenProperties
  <2>3. 1 \notin 1 .. Len(wire')
    BY <2>2
  <2>4. Len(wire') = 0
    BY <2>2, <2>3
  <2>5. QED
    BY <1>0, <2>4, EmptySeq
<1>2. CASE UNCHANGED <<timing, phase, asking>> /\ (Shown' => Shown)
  BY <1>2, <1>b DEF timing
<1>3. CASE /\ ArmAll(steps, wire, inhibited') /\ inhibited' \in BOOLEAN
           /\ UNCHANGED <<stray, steps, asking>>
           /\ Up /\ (Shown' => Shown /\ (inhibited \/ phase = "starting"))
           /\ phase' = "starting" => phase = "starting"
  <2>1. /\ DOMAIN wire' = DOMAIN wire /\ idle' = {}
        /\ \A i \in DOMAIN left' : i \in DOMAIN steps /\ left'[i] = steps[i].after
    BY <1>0, <1>3, WireArmed
  <2>2. QED
    BY <1>0, <1>3, <1>a, <1>b, <1>c, <2>1
<1>4. ASSUME NEW c \in Configs, NEW b \in BOOLEAN, Rebuild(c, b), phase' = phase, ~Shown'
      PROVE  /\ wire' = <<>> /\ idle' = {} /\ ~Shown'
             /\ \A i \in DOMAIN left' : left'[i] > 0
             /\ \A s \in stray' : s.left > 0 /\ ~s.idle
  <2>1. /\ DOMAIN wire' = DOMAIN wire /\ idle' = {} /\ stray' = Strays
        /\ \A i \in DOMAIN left' : i \in DOMAIN steps' /\ left'[i] = steps'[i].after
        /\ steps' \in Seq(Timeout)
    BY <1>4, WireRebuilt
  <2>2. ASSUME NEW s \in stray' PROVE s.left > 0 /\ ~s.idle
    <3>1. CASE s \in stray
      BY <1>4, <1>b, <3>1
    <3>2. CASE s \notin stray
      <4>1. PICK i \in DOMAIN left :
              s = [index |-> i, after |-> steps[i].after, left |-> left[i], idle |-> i \in idle]
        BY <2>1, <3>2 DEF Strays
      <4>2. QED
        BY <1>4, <1>b, <4>1
    <3>3. QED
      BY <3>1, <3>2
  <2>3. QED
    BY <1>4, <1>a, <1>b, <1>c, <2>1, <2>2
<1>5. CASE Input
  <2>1. /\ idle' = {} /\ left' = [i \in DOMAIN left |-> steps[i].after]
        /\ stray' = {[s EXCEPT !.left = s.after, !.idle = FALSE] : s \in stray}
        /\ UNCHANGED <<phase, blanked, dimmed, fired>>
    BY <1>5 DEF Input, program, screen
  <2>2. wire' = wire
    BY <1>5, <1>b, <2>1 DEF Input
  <2>3. ASSUME NEW t \in stray' PROVE t.left > 0 /\ ~t.idle
    <3>1. PICK s \in stray : t = [s EXCEPT !.left = s.after, !.idle = FALSE]
      BY <2>1
    <3>2. t.left = s.after /\ t.idle = FALSE
      BY <1>0, <3>1 DEF Stray
    <3>3. QED
      BY <1>1, <3>2
  <2>4. QED
    BY <1>0, <1>a, <1>b, <2>1, <2>2, <2>3 DEF Shown
<1>6. ~Stop /\ ~Tick
  BY DEF Stop, Tick, program
<1>7. ASSUME NEW i \in DOMAIN left, ExpireOwn(i) PROVE FALSE
  BY <1>7, <1>b DEF ExpireOwn, program
<1>8. ASSUME NEW s \in stray, ExpireStray(s) PROVE FALSE
  BY <1>8, <1>b DEF ExpireStray, program
<1>9. ~Dispatch
  BY <1>b DEF Dispatch, DispatchIdled, DispatchResumed, DispatchGone, Receive, program
<1>10. QED
  BY <1>1, <1>2, <1>3, <1>4, <1>5, <1>6, <1>7, <1>8, <1>9, ShownSteps

LEMMA WaysStep ==
    ASSUME NeverSleeps, LidUnwatched
    PROVE  TypeOK /\ Timely /\ Wakeable /\ [Next]_vars => HeldWay' /\ WakesOnInput'
<1> SUFFICES ASSUME TypeOK, Timely, Wakeable, [Next]_vars PROVE HeldWay' /\ WakesOnInput'
  OBVIOUS
<1>0. /\ wire \in Seq(Event) /\ idle \subseteq DOMAIN left /\ inhibited \in BOOLEAN
      /\ Len(wire) \in Nat /\ phase \in {"starting", "running", "stopped"}
  BY LenProperties DEF TypeOK, ProgramOK, ProtocolOK
<1>a. /\ Up /\ Shown => idle # {} \/ StrayIdle \/ ResumedOnWire
      /\ Up /\ Shown /\ inhibited => StrayIdle \/ StrayUndone(0)
      /\ phase = "starting" => ~Shown
      /\ ~asking
  BY DEF Wakeable, HeldWay, WakesOnInput, WayBack, Shown, StrayIdle, Fresh
<1>b. /\ (Up' /\ Shown' => idle' # {} \/ StrayIdle' \/ ResumedOnWire') => WakesOnInput'
      /\ (Up' /\ Shown' /\ inhibited' => StrayIdle' \/ StrayUndone(0)') => HeldWay'
  BY DEF HeldWay, WakesOnInput, WayBack, Shown, StrayIdle
<1>c. StrayIdle' \/ StrayUndone(0)' => HeldWay' /\ WakesOnInput'
  <2>1. StrayUndone(0)' => ResumedOnWire'
    BY DEF StrayUndone, ResumedOnWire, Live
  <2>2. QED
    BY <1>b, <2>1
<1>d. ~Shown' => HeldWay' /\ WakesOnInput'
  BY <1>b
<1>1. CASE UNCHANGED <<timing, phase, asking>> /\ (Shown' => Shown)
  BY <1>1, <1>a, <1>b DEF timing, Up, StrayIdle, StrayUndone, ResumedOnWire, Live
<1>2. CASE /\ ArmAll(steps, wire, inhibited') /\ inhibited' \in BOOLEAN
           /\ UNCHANGED <<stray, steps, asking>>
           /\ Up /\ (Shown' => Shown /\ (inhibited \/ phase = "starting"))
           /\ phase' = "starting" => phase = "starting"
  <2>1. StrayUndone(0) => StrayUndone(0)'
    BY <1>0, <1>2, WireArmed DEF StrayUndone
  <2>2. StrayIdle => StrayIdle'
    BY <1>2 DEF StrayIdle
  <2>3. Shown' => StrayIdle' \/ StrayUndone(0)'
    BY <1>2, <1>a, <2>1, <2>2
  <2>4. QED
    BY <1>c, <1>d, <2>3
<1>3. CASE Stop
  BY <1>3 DEF Stop, HeldWay, WakesOnInput, Up
<1>4. CASE Tick
  <2>1. UNCHANGED <<wire, idle, phase, inhibited, blanked, dimmed, fired>>
    BY <1>4 DEF Tick, program, screen
  <2>2. ASSUME StrayIdle PROVE StrayIdle'
    <3>1. PICK s \in stray : s.idle
      BY <2>2 DEF StrayIdle
    <3>2. s \in Stray
      BY <3>1 DEF TypeOK, ProtocolOK
    <3>3. [s EXCEPT !.left = Less(@)] \in stray'
      BY <1>4, <3>1 DEF Tick
    <3>4. [s EXCEPT !.left = Less(@)].idle
      BY <3>1, <3>2 DEF Stray
    <3>5. QED
      BY <3>3, <3>4 DEF StrayIdle
  <2>3. QED
    BY <1>a, <1>b, <2>1, <2>2 DEF Up, Shown, StrayUndone, ResumedOnWire, Live
<1>5. ASSUME NEW i \in DOMAIN left, ExpireOwn(i) PROVE HeldWay' /\ WakesOnInput'
  <2>1. idle' # {} /\ UNCHANGED inhibited
    BY <1>5 DEF ExpireOwn, program
  <2>2. ~inhibited
    BY DEF Timely
  <2>3. QED
    BY <1>b, <2>1, <2>2
<1>6. ASSUME NEW s \in stray, ExpireStray(s) PROVE HeldWay' /\ WakesOnInput'
  BY <1>6, <1>c, ToldStray
<1>7. CASE Input
  <2>1. UNCHANGED <<phase, inhibited, blanked, dimmed, fired>>
    BY <1>7 DEF Input, program, screen
  <2>2. CASE StrayIdle
    <3> DEFINE m == [kind |-> "resumed", index |-> 0, from |-> "stray"]
    <3>1. wire' = Append(wire, m)
      BY <1>7, <2>2 DEF Input, Send, StrayIdle
    <3>2. m \in Event /\ m.kind = "resumed" /\ m.from = "stray"
      BY DEF Event
    <3> HIDE DEF m
    <3>3. StrayUndone(0)'
      BY <1>0, <3>1, <3>2, StrayPut
    <3>4. QED
      BY <1>c, <3>3
  <2>3. CASE ~StrayIdle /\ idle # {}
    <3> DEFINE m == [kind |-> "resumed", index |-> 0, from |-> "own"]
    <3>1. wire' = Append(wire, m)
      BY <1>7, <2>3 DEF Input, Send, StrayIdle
    <3>2. m \in Event /\ m.kind = "resumed" /\ Live(m)
      BY DEF Event, Live
    <3> HIDE DEF m
    <3>3. Undone(0)'
      BY <1>0, <3>1, <3>2, WirePut
    <3>4. ResumedOnWire' /\ ~inhibited
      BY <1>0, <2>3, <3>3 DEF Undone, ResumedOnWire, Live, Timely
    <3>5. QED
      BY <1>b, <2>1, <3>4
  <2>4. CASE ~StrayIdle /\ idle = {}
    <3>1. wire' = wire
      BY <1>7, <2>4 DEF Input, StrayIdle
    <3>2. QED
      BY <1>a, <1>b, <2>1, <2>4, <3>1 DEF Up, Shown, StrayUndone, ResumedOnWire, Live
  <2>5. QED
    BY <2>2, <2>3, <2>4
<1>8. CASE DispatchIdled
  <2>1. /\ wire # <<>> /\ wire' = Tail(wire) /\ Head(wire).kind = "idled" /\ Head(wire).from # "gone"
        /\ UNCHANGED <<inhibited, phase, idle, stray>>
    BY <1>8 DEF DispatchIdled, Receive, program
  <2>2. (ResumedOnWire => ResumedOnWire') /\ (StrayIdle => StrayIdle')
    BY <2>1, ResumedStays DEF StrayIdle
  <2>3. CASE StrayHeard
    <3>1. StrayIdle \/ StrayUndone(1)
      BY <2>1, <2>3, WireTaken DEF Wakeable, StraysBacked, StrayHeard
    <3>2. StrayUndone(1) => StrayUndone(0)'
      <4>1. StrayUndone(0 + 1) => StrayUndone(0)'
        BY <2>1, StrayTaken
      <4>2. QED
        BY <4>1
    <3>3. QED
      BY <1>c, <2>2, <3>1, <3>2
  <2>4. CASE ~StrayHeard
    <3>1. ~inhibited /\ (idle # {} \/ ResumedOnWire)
      BY <2>1, <2>4, HeadBacked
    <3>2. QED
      BY <1>b, <2>1, <2>2, <3>1
  <2>5. QED
    BY <2>3, <2>4
<1>9. CASE DispatchResumed
  <2>1. ~Shown'
    BY <1>9 DEF DispatchResumed, Unwind, Shown
  <2>2. QED
    BY <1>d, <2>1
<1>10. CASE DispatchGone
  <2>1. /\ wire # <<>> /\ wire' = Tail(wire) /\ Head(wire).from = "gone"
        /\ UNCHANGED <<inhibited, blanked, dimmed, fired, phase, idle, stray>>
    BY <1>10 DEF DispatchGone, program, screen
  <2>2. /\ ResumedOnWire => ResumedOnWire'
        /\ StrayUndone(0) => StrayUndone(0)'
        /\ StrayIdle => StrayIdle'
    BY <2>1, ResumedStays DEF StrayIdle
  <2>3. QED
    BY <1>a, <1>b, <2>1, <2>2 DEF Up, Shown
<1>11. QED
  BY <1>1, <1>2, <1>3, <1>4, <1>5, <1>6, <1>7, <1>8, <1>9, <1>10, <1>a, <1>d, ShownSteps DEF Dispatch

\* Whatever the timeouts, holds, reloads and profile switches did, and in
\* whatever order, the next input undoes it, on a machine that does not sleep
\* and has no lid: a notification that is dropped keeps its way back.
THEOREM InputWakes ==
    ASSUME NeverSleeps, LidUnwatched
    PROVE  Spec => []WakesOnInput
<1>1. TypeOK /\ StepsMatchProfile /\ Timely /\ Wakeable /\ [Next]_vars => Wakeable'
  BY FreshStep, StraysBackedStep, WaysStep DEF Wakeable
<1>2. Wakeable => WakesOnInput
  BY DEF Wakeable
<1>3. QED
  BY <1>1, <1>2, TimelyAlways, WakeableInit, PTL DEF Spec

-----------------------------------------------------------------------------
(* The properties the runs check in groups *)

\* No order of handlers leaves a wrong, a missing or a dead countdown.
THEOREM CountdownsStayRight == Spec => []CountdownsRight
<1>1. ArmedIffFree /\ NoDeadCountdown /\ StepsMatchProfile => CountdownsRight
  BY DEF CountdownsRight
<1>2. QED
  BY <1>1, CountdownsMatchHold, NoCountdownLost, ProfileInForce, PTL

\* Nothing a timeout did or told others is forgotten while the timeout is in
\* force, and nothing is owed after it.
THEOREM FiredStaysOwed ==
    ASSUME NoSuspendResume
    PROVE  Spec => []FiredIsOwed
<1>1. ActiveWhileFired /\ CommandsUndone => FiredIsOwed
  BY DEF FiredIsOwed
<1>2. Spec => []CommandsUndone
  BY CommandsNeverForgotten
<1>3. QED
  BY <1>1, <1>2, ActiveToldInTime, PTL
==============================================================================
