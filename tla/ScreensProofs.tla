---------------------------- MODULE ScreensProofs -----------------------------
(***************************************************************************)
(* Theorems about the screens, for any monitors, any length of the fade and *)
(* any backlight.                                                          *)
(***************************************************************************)
EXTENDS Screens, SequenceTheorems, TLAPS

-----------------------------------------------------------------------------
(* What is in a queue *)

Has(q, x) == \E k \in DOMAIN q : q[k] = x
Once(q, x) == \A i, j \in DOMAIN q : q[i] = x /\ q[j] = x => i = j

LEMMA PutType ==
    ASSUME NEW S, NEW q \in Seq(S), NEW e \in S, NEW when
    PROVE  Put(q, e, when) \in Seq(S)
BY AppendProperties DEF Put

LEMMA AppendHas ==
    ASSUME NEW S, NEW q \in Seq(S), NEW e \in S, NEW x
    PROVE  /\ Has(Append(q, e), x) <=> Has(q, x) \/ e = x
           /\ Once(q, x) /\ (e = x => ~Has(q, x)) => Once(Append(q, e), x)
<1>1. /\ Len(q) \in Nat
      /\ DOMAIN q = 1 .. Len(q) /\ DOMAIN Append(q, e) = 1 .. (Len(q) + 1)
      /\ Append(q, e)[Len(q) + 1] = e
      /\ \A i \in 1 .. Len(q) : Append(q, e)[i] = q[i]
  BY AppendProperties, LenProperties
<1>2. 1 .. (Len(q) + 1) = (1 .. Len(q)) \cup {Len(q) + 1}
  BY <1>1
<1>3. Has(Append(q, e), x) <=> Has(q, x) \/ e = x
  BY <1>1, <1>2 DEF Has
<1>4. Once(q, x) /\ (e = x => ~Has(q, x)) => Once(Append(q, e), x)
  BY <1>1, <1>2 DEF Has, Once
<1>5. QED
  BY <1>3, <1>4

LEMMA PutHas ==
    ASSUME NEW S, NEW q \in Seq(S), NEW e \in S, NEW when, NEW x
    PROVE  /\ Has(Put(q, e, when), x) <=> Has(q, x) \/ (when /\ e = x)
           /\ Once(q, x) /\ (when /\ e = x => ~Has(q, x)) => Once(Put(q, e, when), x)
<1>1. CASE when
  <2>1. Put(q, e, when) = Append(q, e)
    BY <1>1 DEF Put
  <2>2. /\ Has(Append(q, e), x) <=> Has(q, x) \/ e = x
        /\ Once(q, x) /\ (e = x => ~Has(q, x)) => Once(Append(q, e), x)
    BY AppendHas
  <2>3. QED
    BY <1>1, <2>1, <2>2, Zenon
<1>2. CASE ~when
  <2>1. Put(q, e, when) = q
    BY <1>2 DEF Put
  <2>2. QED
    BY <1>2, <2>1
<1>3. QED
  BY <1>1, <1>2

LEMMA TailHas ==
    ASSUME NEW S, NEW q \in Seq(S), q # <<>>, NEW x
    PROVE  /\ Has(Tail(q), x) => Has(q, x)
           /\ Once(q, x) => Once(Tail(q), x)
           /\ Once(q, x) /\ Head(q) = x => ~Has(Tail(q), x)
           /\ Has(q, Head(q))
<1>1. Len(q) \in Nat \ {0} /\ Len(Tail(q)) = Len(q) - 1 /\ Tail(q) \in Seq(S) /\ Head(q) = q[1]
  BY HeadTailProperties, EmptySeq
<1>2. \A i \in 1 .. Len(Tail(q)) : Tail(q)[i] = q[i + 1]
  BY HeadTailProperties
<1>3. DOMAIN Tail(q) = 1 .. Len(Tail(q)) /\ DOMAIN q = 1 .. Len(q)
  BY <1>1, LenProperties
<1>4. \A i \in DOMAIN Tail(q) : i \in Nat /\ i # 0 /\ i + 1 \in DOMAIN q /\ Tail(q)[i] = q[i + 1]
  BY <1>1, <1>2, <1>3
<1>5. 1 \in DOMAIN q
  BY <1>1, <1>3
<1>6. QED
  BY <1>1, <1>4, <1>5 DEF Has, Once

\* Reading one event leaves those of other kinds to be read.
LEMMA TailKeeps ==
    ASSUME NEW q \in Seq(Event), q # <<>>, NEW x, x # Head(q), Has(q, x)
    PROVE  Has(Tail(q), x)
<1>1. PICK k \in DOMAIN q : q[k] = x
  BY DEF Has
<1>2. Len(q) \in Nat \ {0} /\ DOMAIN q = 1 .. Len(q) /\ Head(q) = q[1]
  BY EmptySeq, LenProperties, HeadTailProperties
<1>3. k \in Nat /\ k # 1 /\ k # 0 /\ k <= Len(q)
  BY <1>1, <1>2
<1>4. Len(Tail(q)) = Len(q) - 1 /\ Tail(q) \in Seq(Event)
      /\ \A i \in 1 .. Len(Tail(q)) : Tail(q)[i] = q[i + 1]
  BY HeadTailProperties
<1>5. k - 1 \in 1 .. Len(Tail(q)) /\ (k - 1) + 1 = k
  BY <1>2, <1>3, <1>4
<1>6. DOMAIN Tail(q) = 1 .. Len(Tail(q))
  BY <1>4, LenProperties
<1>7. Tail(q)[k - 1] = x /\ k - 1 \in DOMAIN Tail(q)
  BY <1>1, <1>4, <1>5, <1>6
<1>8. QED
  BY <1>7 DEF Has

LEMMA VoidHas ==
    ASSUME NEW q, NEW dead, NEW x, x # "void"
    PROVE  /\ Has(Void(q, dead), x) <=> Has(q, x) /\ x \notin dead
           /\ Once(q, x) => Once(Void(q, dead), x)
BY DEF Has, Once, Void

LEMMA VoidType ==
    ASSUME NEW q \in Seq(Event), NEW dead
    PROVE  Void(q, dead) \in Seq(Event)
<1>1. Len(q) \in Nat /\ DOMAIN q = 1 .. Len(q) /\ \A k \in 1 .. Len(q) : q[k] \in Event
  BY LenProperties, ElementOfSeq
<1>2. Void(q, dead) \in [1 .. Len(q) -> Event]
  BY <1>1 DEF Void, Event
<1>3. QED
  BY <1>1, <1>2, SeqDef

LEMMA RemoveType ==
    ASSUME NEW S, NEW q \in Seq(S), NEW k \in DOMAIN q
    PROVE  RemoveAt(q, k) \in Seq(S)
<1>1. Len(q) \in Nat /\ k \in 1 .. Len(q) /\ \A i \in 1 .. Len(q) : q[i] \in S
  BY LenProperties, ElementOfSeq
<1>2. \A i \in 1 .. k - 1 : q[i] \in S
  BY <1>1
<1>3. \A i \in k + 1 .. Len(q) : q[i] \in S
  BY <1>1
<1>4. SubSeq(q, 1, k - 1) \in Seq(S) /\ SubSeq(q, k + 1, Len(q)) \in Seq(S)
  BY <1>1, <1>2, <1>3, SubSeqProperties
<1>5. QED
  BY <1>4, ConcatProperties DEF RemoveAt

\* Dimming goes to a level between one and where the panel is.
LEMMA DimmedBounds ==
    ASSUME NEW c \in Nat
    PROVE  /\ Dimmed(c) \in Nat /\ Dimmed(c) <= c
           /\ c > 0 => Dimmed(c) > 0
<1> DEFINE m == Max({c \div 3, 1})
<1>1. c \div 3 \in Nat
  OBVIOUS
<1>2. \E x \in {c \div 3, 1} : \A y \in {c \div 3, 1} : x >= y
  BY <1>1
<1>3. m \in {c \div 3, 1} /\ \A y \in {c \div 3, 1} : m >= y
  BY <1>2 DEF Max
<1>4. m \in Nat /\ m >= 1
  BY <1>1, <1>3
<1> HIDE DEF m
<1>5. \E x \in {m, c} : \A y \in {m, c} : x <= y
  BY <1>4
<1>6. Min({m, c}) \in {m, c} /\ \A y \in {m, c} : Min({m, c}) <= y
  BY <1>5 DEF Min
<1>7. Dimmed(c) = Min({m, c})
  BY DEF Dimmed, m
<1>8. QED
  BY <1>4, <1>6, <1>7

-----------------------------------------------------------------------------
(* Types *)

LEMMA FirstStep == 0 \in 0 .. Steps - 1
BY StepsAssumption

LEMMA TypeInit == Init => TypeOK
<1> SUFFICES ASSUME Init PROVE TypeOK
  OBVIOUS
<1>1. events \in [Outputs -> Seq(Event)] /\ setters \in Seq(0 .. Brightest)
  BY EmptySeq DEF Init
<1>2. step \in 0 .. Steps - 1 /\ timers \in Nat
  BY FirstStep DEF Init
<1>3. QED
  BY <1>1, <1>2 DEF Init, TypeOK

LEMMA EventsType ==
    ASSUME TypeOK
    PROVE  /\ \A S, e : e \in Event => Says(S, e) \in [Outputs -> Seq(Event)]
           /\ \A S, dead : VoidFor(S, dead) \in [Outputs -> Seq(Event)]
           /\ \A o : Answer(o) \in Event
<1>1. ASSUME NEW S, NEW e \in Event PROVE Says(S, e) \in [Outputs -> Seq(Event)]
  BY PutType DEF Says, TypeOK
<1>2. ASSUME NEW S, NEW dead PROVE VoidFor(S, dead) \in [Outputs -> Seq(Event)]
  BY VoidType DEF VoidFor, TypeOK
<1>3. \A o : Answer(o) \in Event
  BY DEF Answer, Event
<1>4. QED
  BY <1>1, <1>2, <1>3

\* Reading an event leaves a queue of them.
LEMMA ReadType ==
    ASSUME TypeOK, NEW o \in Outputs, NEW e, Reads(o, e)
    PROVE  Tail(events[o]) \in Seq(Event)
BY HeadTailProperties DEF Reads, TypeOK

\* The types that the monitors and the power controls keep.
PowerTypes ==
    /\ plugged \in [Outputs -> {"not yet", "in", "out"}]
    /\ power \in [Outputs -> {"on", "off"}]
    /\ holder \in [Outputs -> {"nobody", "us", "other"}]
    /\ events \in [Outputs -> Seq(Event)]
    /\ up \in BOOLEAN
    /\ known \subseteq Outputs
    /\ blanked \in BOOLEAN
    /\ controls \subseteq Outputs
    /\ darkened \subseteq Outputs
    /\ refused \subseteq Outputs

\* ... and those of the dimming and the panel.
DimTypes ==
    /\ active \in BOOLEAN
    /\ overlays \subseteq Outputs
    /\ drawn \in [Outputs -> SUBSET (0 .. Steps - 1)]
    /\ pixels \in BOOLEAN
    /\ step \in 0 .. Steps - 1
    /\ timers \in Nat
    /\ backlight \subseteq [before : 0 .. Brightest, dimmed : 0 .. Brightest]
    /\ level \in 0 .. Brightest
    /\ setters \in Seq(0 .. Brightest)
    /\ wanted \in 0 .. Brightest

LEMMA PowerStep == TypeOK /\ [Next]_vars => PowerTypes'
<1> SUFFICES ASSUME TypeOK, [Next]_vars PROVE PowerTypes'
  OBVIOUS
<1> USE DEF PowerTypes, monitors
<1>0. PowerTypes
  BY DEF TypeOK
<1>1. "new" \in Event /\ "gone" \in Event /\ "failed" \in Event /\ "closed" \in Event
  BY DEF Event
<1>2. ASSUME NEW S \in SUBSET Outputs, SwitchOff(S)
      PROVE  /\ holder' \in [Outputs -> {"nobody", "us", "other"}]
             /\ power' \in [Outputs -> {"on", "off"}]
             /\ controls' \subseteq Outputs /\ darkened' \subseteq Outputs /\ refused' \subseteq Outputs
  BY <1>0, <1>2 DEF SwitchOff, Granted
<1>3. ASSUME SwitchOn
      PROVE  /\ holder' \in [Outputs -> {"nobody", "us", "other"}]
             /\ events' \in [Outputs -> Seq(Event)]
             /\ controls' \subseteq Outputs /\ refused' \subseteq Outputs /\ blanked' \in BOOLEAN
  BY <1>0, <1>3, EventsType DEF SwitchOn
<1>4. ASSUME NEW o \in Outputs, Plug(o) PROVE PowerTypes'
  BY <1>0, <1>1, <1>4, EventsType DEF Plug
<1>5. ASSUME NEW o \in Outputs, Unplug(o) PROVE PowerTypes'
  <2>1. Append(Put(events[o], "closed", o \in overlays), "gone") \in Seq(Event)
    BY <1>0, <1>1, PutType, AppendProperties
  <2>2. QED
    BY <1>0, <1>5, <2>1 DEF Unplug
<1>6. ASSUME NEW o \in Outputs, OtherTakes(o) \/ OtherLeaves(o) PROVE PowerTypes'
  BY <1>0, <1>6 DEF OtherTakes, OtherLeaves
<1>7. ASSUME NEW o \in Outputs, NewOutput(o) PROVE PowerTypes'
  <2>1. Put(Tail(events[o]), Answer(o), active /\ Layered) \in Seq(Event)
    BY <1>7, EventsType, ReadType, PutType DEF NewOutput
  <2>2. Put(Put(Tail(events[o]), Answer(o), active /\ Layered), "failed",
            blanked /\ HasPowerManager /\ o \notin Granted({o})) \in Seq(Event)
    BY <1>1, <2>1, PutType
  <2>3. events' \in [Outputs -> Seq(Event)]
    BY <1>0, <1>7, <2>2 DEF NewOutput
  <2>4. CASE blanked /\ HasPowerManager
    BY <1>0, <1>2, <1>7, <2>3, <2>4 DEF NewOutput
  <2>5. CASE ~(blanked /\ HasPowerManager)
    BY <1>0, <1>7, <2>3, <2>5 DEF NewOutput
  <2>6. QED
    BY <2>4, <2>5
<1>8. ASSUME NEW o \in Outputs, OutputDestroyed(o) PROVE PowerTypes'
  <2>1. Void(Tail(events[o]), {"configure", "closed"}) \in Seq(Event)
    BY <1>8, ReadType, VoidType DEF OutputDestroyed
  <2>2. QED
    BY <1>0, <1>8, <2>1 DEF OutputDestroyed
<1>9. ASSUME NEW o \in Outputs, Failed(o) \/ Configure(o) \/ Closed(o) \/ Discard(o)
      PROVE  PowerTypes'
  <2>1. Tail(events[o]) \in Seq(Event)
    BY <1>9, ReadType DEF Failed, Configure, Closed, Discard
  <2>2. QED
    BY <1>0, <1>9, <2>1 DEF Failed, Configure, Closed, Discard
<1>10. CASE Blank
  BY <1>0, <1>1, <1>2, <1>10, EventsType DEF Blank
<1>11. CASE Unblank
  BY <1>0, <1>3, <1>11 DEF Unblank
<1>12. CASE Dim
  <2>1. [o \in Outputs |-> Put(events[o], Answer(o), o \in known)] \in [Outputs -> Seq(Event)]
    BY <1>0, EventsType, PutType
  <2>2. QED
    BY <1>0, <1>12, <2>1 DEF Dim
<1>13. CASE Undim
  BY <1>0, <1>13, EventsType DEF Undim, Uncover
<1>14. CASE Fade
  BY <1>0, <1>14 DEF Fade
<1>15. ASSUME NEW v, Keys(v) PROVE PowerTypes'
  BY <1>0, <1>15 DEF Keys
<1>16. ASSUME NEW k, SetterDone(k) \/ SetterFails(k) PROVE PowerTypes'
  BY <1>0, <1>16 DEF SetterDone, SetterFails
<1>17. CASE Stop
  BY <1>0, <1>3, <1>17 DEF Stop
<1>18. CASE UNCHANGED vars
  BY <1>0, <1>18 DEF vars
<1>19. QED
  BY <1>4, <1>5, <1>6, <1>7, <1>8, <1>9, <1>10, <1>11, <1>12, <1>13, <1>14, <1>15, <1>16,
     <1>17, <1>18 DEF Next

LEMMA DimStep == TypeOK /\ [Next]_vars => DimTypes'
<1> SUFFICES ASSUME TypeOK, [Next]_vars PROVE DimTypes'
  OBVIOUS
<1> USE DEF DimTypes
<1>0. DimTypes /\ known \subseteq Outputs
  BY DEF TypeOK
<1>1. CASE UNCHANGED <<dim, panel>>
  BY <1>0, <1>1 DEF dim, panel
<1>2. ASSUME NEW o \in Outputs, Plug(o) \/ Unplug(o) \/ OtherTakes(o) \/ OtherLeaves(o)
                                \/ Failed(o) \/ Discard(o)
      PROVE  DimTypes'
  BY <1>1, <1>2 DEF Plug, Unplug, OtherTakes, OtherLeaves, Failed, Discard
<1>3. CASE Blank \/ Unblank \/ UNCHANGED vars
  BY <1>1, <1>3 DEF Blank, Unblank, vars
<1>4. ASSUME NEW S \in SUBSET Outputs, AddOverlays(S)
      PROVE  overlays' \subseteq Outputs /\ drawn' \in [Outputs -> SUBSET (0 .. Steps - 1)]
  BY <1>0, <1>4 DEF AddOverlays
<1>5. ASSUME NEW o \in Outputs, NewOutput(o) PROVE DimTypes'
  <2>1. overlays' \subseteq Outputs /\ drawn' \in [Outputs -> SUBSET (0 .. Steps - 1)]
    BY <1>4, <1>5 DEF NewOutput
  <2>2. UNCHANGED <<active, pixels, step, timers, backlight, panel>>
    BY <1>5 DEF NewOutput
  <2>3. QED
    BY <1>0, <2>1, <2>2 DEF panel
<1>6. ASSUME NEW o \in Outputs, OutputDestroyed(o) \/ Configure(o) \/ Closed(o) PROVE DimTypes'
  <2>1. overlays' \subseteq Outputs /\ drawn' \in [Outputs -> SUBSET (0 .. Steps - 1)]
    BY <1>0, <1>6 DEF OutputDestroyed, Configure, Closed
  <2>2. UNCHANGED <<active, pixels, step, timers, backlight, panel>>
    BY <1>6 DEF OutputDestroyed, Configure, Closed
  <2>3. QED
    BY <1>0, <2>1, <2>2 DEF panel
<1>7. CASE Dim
  <2>1. overlays' \subseteq Outputs /\ drawn' \in [Outputs -> SUBSET (0 .. Steps - 1)]
    BY <1>0, <1>4, <1>7 DEF Dim
  <2>2. /\ active' \in BOOLEAN /\ pixels' \in BOOLEAN
        /\ step' \in 0 .. Steps - 1 /\ timers' \in Nat
    <3>1. timers + 1 \in Nat
      BY <1>0
    <3>2. timers' = timers + 1 \/ timers' = timers
      BY <1>7 DEF Dim
    <3>3. pixels' \in {TRUE, pixels} /\ active' = TRUE /\ step' = 0
      BY <1>7 DEF Dim
    <3>4. QED
      BY <1>0, <3>1, <3>2, <3>3, FirstStep
  <2>3. Dimmed(level) \in 0 .. Brightest
    BY <1>0, DimmedBounds, BrightestAssumption
  <2>4. /\ backlight' \subseteq [before : 0 .. Brightest, dimmed : 0 .. Brightest]
        /\ setters' \in Seq(0 .. Brightest)
    <3>1. Append(setters, Dimmed(level)) \in Seq(0 .. Brightest)
      BY <1>0, <2>3, AppendProperties
    <3>2. {[before |-> level, dimmed |-> Dimmed(level)]}
            \subseteq [before : 0 .. Brightest, dimmed : 0 .. Brightest]
      BY <1>0, <2>3
    <3>3. \/ UNCHANGED <<backlight, setters>>
          \/ /\ backlight' = {[before |-> level, dimmed |-> Dimmed(level)]}
             /\ setters' = Append(setters, Dimmed(level))
      BY <1>7 DEF Dim
    <3>4. QED
      BY <1>0, <3>1, <3>2, <3>3
  <2>5. QED
    BY <1>0, <1>7, <2>1, <2>2, <2>4 DEF Dim
<1>8. CASE Undim
  <2>1. /\ UNCHANGED <<pixels, step, level, wanted>> /\ active' = FALSE /\ overlays' = {}
        /\ drawn' = [o \in Outputs |-> {}] /\ backlight' = {}
    BY <1>8 DEF Undim, Uncover, Restore
  <2>2. timers' \in Nat
    BY <1>0, <1>8 DEF Undim
  <2>3. setters' \in Seq(0 .. Brightest)
    <3>1. \A b \in backlight : b.before \in 0 .. Brightest
      BY <1>0
    <3>2. \A b \in backlight : Append(setters, b.before) \in Seq(0 .. Brightest)
      BY <1>0, <3>1, AppendProperties
    <3>3. setters' = setters \/ \E b \in backlight : setters' = Append(setters, b.before)
      BY <1>8 DEF Undim, Restore
    <3>4. QED
      BY <1>0, <3>2, <3>3
  <2>4. QED
    BY <1>0, <2>1, <2>2, <2>3
<1>9. CASE Fade
  <2>1. /\ UNCHANGED <<active, overlays, pixels, backlight, panel>>
    BY <1>9 DEF Fade
  <2>2. timers' \in Nat /\ step' \in 0 .. Steps - 1
    BY <1>0, <1>9, StepsAssumption DEF Fade
  <2>3. drawn' \in [Outputs -> SUBSET (0 .. Steps - 1)]
    BY <1>0, <1>9, <2>2 DEF Fade
  <2>4. QED
    BY <1>0, <2>1, <2>2, <2>3 DEF panel
<1>10. ASSUME NEW v \in 0 .. Brightest, Keys(v) PROVE DimTypes'
  BY <1>0, <1>10 DEF Keys, dim
<1>11. ASSUME NEW k \in DOMAIN setters, SetterDone(k) \/ SetterFails(k) PROVE DimTypes'
  <2>1. setters' \in Seq(0 .. Brightest)
    BY <1>0, <1>11, RemoveType DEF SetterDone, SetterFails
  <2>2. setters[k] \in 0 .. Brightest
    BY <1>0, ElementOfSeq, LenProperties
  <2>3. level' \in 0 .. Brightest /\ wanted' = wanted /\ UNCHANGED dim
    BY <1>0, <1>11, <2>2 DEF SetterDone, SetterFails
  <2>4. QED
    BY <1>0, <2>1, <2>3 DEF dim
<1>12. CASE Stop
  BY <1>0, <1>12, EmptySeq DEF Stop
<1>13. QED
  BY <1>2, <1>3, <1>5, <1>6, <1>7, <1>8, <1>9, <1>10, <1>11, <1>12 DEF Next

LEMMA TypeStep == TypeOK /\ [Next]_vars => TypeOK'
<1>1. TypeOK => disturbed \in BOOLEAN
  BY DEF TypeOK
<1>2. TypeOK /\ [Next]_vars => disturbed' \in BOOLEAN
  BY <1>1 DEF Next, vars, panel, NotesThreads, Plug, Unplug, OtherTakes, OtherLeaves,
              NewOutput, OutputDestroyed, Failed, Configure, Closed, Discard,
              Blank, Unblank, Dim, Undim, Uncover, Fade, Keys, SetterDone, SetterFails, Stop
<1>3. (PowerTypes /\ DimTypes /\ disturbed \in BOOLEAN <=> TypeOK)'
  BY DEF PowerTypes, DimTypes, TypeOK
<1>4. QED
  BY <1>2, <1>3, PowerStep, DimStep

\* Monitors, controls, overlays and the panel keep their types, whatever is
\* plugged in, dimmed and switched off in whatever order.
THEOREM TypeCorrect == Spec => []TypeOK
BY TypeInit, TypeStep, PTL DEF Spec

-----------------------------------------------------------------------------
(* The dimming *)

\* Nothing drawn outlives the dimming, and what is drawn is the current step.
Drawn ==
    /\ EquallyDim
    /\ ~active => overlays = {} /\ \A o \in Outputs : drawn[o] = {}

LEMMA DrawnInit == Init => Drawn
BY DEF Init, Drawn, EquallyDim

LEMMA DrawnStep == TypeOK /\ Drawn /\ [Next]_vars => Drawn'
<1> SUFFICES ASSUME TypeOK, Drawn, [Next]_vars PROVE Drawn'
  OBVIOUS
<1> USE DEF Drawn, EquallyDim
<1>0. drawn \in [Outputs -> SUBSET (0 .. Steps - 1)]
  BY DEF TypeOK
<1>1. CASE UNCHANGED <<active, overlays, drawn, step>>
  BY <1>1
<1>2. ASSUME NEW o \in Outputs, Plug(o) \/ Unplug(o) \/ OtherTakes(o) \/ OtherLeaves(o)
                                \/ Failed(o) \/ Discard(o)
      PROVE  UNCHANGED <<active, overlays, drawn, step>>
  BY <1>2 DEF Plug, Unplug, OtherTakes, OtherLeaves, Failed, Discard, dim
<1>3. ASSUME NEW v, Keys(v) PROVE UNCHANGED <<active, overlays, drawn, step>>
  BY <1>3 DEF Keys, dim
<1>4. ASSUME NEW k, SetterDone(k) \/ SetterFails(k) PROVE UNCHANGED <<active, overlays, drawn, step>>
  BY <1>4 DEF SetterDone, SetterFails, dim
<1>5. CASE Blank \/ Unblank \/ UNCHANGED vars
  BY <1>1, <1>5 DEF Blank, Unblank, vars, dim
<1>6. ASSUME NEW o \in Outputs, NewOutput(o) \/ OutputDestroyed(o) \/ Closed(o) PROVE Drawn'
  <2>1. \A p \in Outputs : drawn'[p] \in {drawn[p], {}}
    BY <1>0, <1>6 DEF NewOutput, AddOverlays, OutputDestroyed, Closed
  <2>2. UNCHANGED <<active, step>>
    BY <1>6 DEF NewOutput, OutputDestroyed, Closed
  <2>3. ~active /\ overlays = {} => overlays' = {}
    BY <1>6 DEF NewOutput, AddOverlays, OutputDestroyed, Closed
  <2>4. QED
    BY <2>1, <2>2, <2>3
<1>7. CASE Dim
  <2>1. \A o \in Outputs : drawn[o] = {}
    BY <1>7 DEF Dim
  <2>2. \A o \in Outputs : drawn'[o] = {}
    BY <1>0, <1>7, <2>1 DEF Dim, AddOverlays
  <2>3. QED
    BY <1>7, <2>2 DEF Dim
<1>8. CASE Undim \/ Stop
  BY <1>8 DEF Undim, Uncover, Stop
<1>9. CASE Fade
  BY <1>0, <1>9 DEF Fade
<1>10. ASSUME NEW o \in Outputs, Configure(o) PROVE Drawn'
  BY <1>0, <1>10 DEF Configure
<1>11. QED
  BY <1>1, <1>2, <1>3, <1>4, <1>5, <1>6, <1>7, <1>8, <1>9, <1>10 DEF Next

\* Monitors that have an overlay are equally dark at every step of the fade, the
\* ones plugged in meanwhile included.
THEOREM DarkTogether == Spec => []EquallyDim
<1>1. Drawn => EquallyDim
  BY DEF Drawn
<1>2. QED
  BY <1>1, TypeInit, TypeStep, DrawnInit, DrawnStep, PTL DEF Spec

\* The fade's timer does not outlive the dim it was started for, and a dim has
\* but one.
THEOREM FadesAlone == Spec => []OneFade
<1>1. Init => OneFade
  <2> SUFFICES ASSUME Init PROVE OneFade
    OBVIOUS
  <2>1. timers = 0 /\ active = FALSE
    BY DEF Init
  <2>2. QED
    BY <2>1 DEF OneFade
<1>2. TypeOK /\ OneFade /\ [Next]_vars => OneFade'
  <2> SUFFICES ASSUME TypeOK, OneFade, [Next]_vars PROVE OneFade'
    OBVIOUS
  <2> USE DEF OneFade
  <2>0. timers \in Nat
    BY DEF TypeOK
  <2>1. CASE UNCHANGED <<active, timers>>
    BY <2>1
  <2>2. ASSUME NEW o \in Outputs, Plug(o) \/ Unplug(o) \/ OtherTakes(o) \/ OtherLeaves(o)
                                  \/ NewOutput(o) \/ OutputDestroyed(o) \/ Failed(o)
                                  \/ Configure(o) \/ Closed(o) \/ Discard(o)
        PROVE  UNCHANGED <<active, timers>>
    BY <2>2 DEF Plug, Unplug, OtherTakes, OtherLeaves, NewOutput, OutputDestroyed, Failed,
                Configure, Closed, Discard, dim
  <2>3. ASSUME NEW v, Keys(v) PROVE UNCHANGED <<active, timers>>
    BY <2>3 DEF Keys, dim
  <2>4. ASSUME NEW k, SetterDone(k) \/ SetterFails(k) PROVE UNCHANGED <<active, timers>>
    BY <2>4 DEF SetterDone, SetterFails, dim
  <2>5. CASE Blank \/ Unblank \/ UNCHANGED vars
    BY <2>1, <2>5 DEF Blank, Unblank, vars, dim
  <2>6. CASE Dim
    <3>1. active = FALSE /\ active' = TRUE /\ (timers' = timers \/ timers' = timers + 1)
      BY <2>6 DEF Dim, TypeOK
    <3>2. QED
      BY <2>0, <3>1
  <2>7. CASE Undim
    BY <2>0, <2>7 DEF Undim, Uncover
  <2>8. CASE Fade
    BY <2>0, <2>8 DEF Fade
  <2>9. CASE Stop
    BY <2>9 DEF Stop
  <2>10. QED
    BY <2>1, <2>2, <2>3, <2>4, <2>5, <2>6, <2>7, <2>8, <2>9 DEF Next
<1>3. QED
  BY <1>1, <1>2, TypeInit, TypeStep, PTL DEF Spec

-----------------------------------------------------------------------------
(* The panel *)

\* No thread is on its way to take the panel to zero, now or by an undim.
Lit ==
    /\ StaysLit
    /\ setters \in Seq(1 .. Brightest)
    /\ \A b \in backlight : b.before \in 1 .. Brightest

LEMMA LitInit == Init => Lit
BY EmptySeq DEF Init, Lit, StaysLit

LEMMA LitStep == TypeOK /\ Lit /\ [Next]_vars => Lit'
<1> SUFFICES ASSUME TypeOK, Lit, [Next]_vars PROVE Lit'
  OBVIOUS
<1> USE DEF Lit, StaysLit
<1>0. level \in 0 .. Brightest /\ wanted \in 0 .. Brightest /\ Brightest \in Nat
  BY BrightestAssumption DEF TypeOK
<1>1. CASE UNCHANGED <<backlight, panel>>
  BY <1>1 DEF panel
<1>2. ASSUME NEW o \in Outputs, Plug(o) \/ Unplug(o) \/ OtherTakes(o) \/ OtherLeaves(o)
                                \/ NewOutput(o) \/ OutputDestroyed(o) \/ Failed(o)
                                \/ Configure(o) \/ Closed(o) \/ Discard(o)
      PROVE  UNCHANGED <<backlight, panel>>
  BY <1>2 DEF Plug, Unplug, OtherTakes, OtherLeaves, NewOutput, OutputDestroyed, Failed,
              Configure, Closed, Discard, dim
<1>3. CASE Blank \/ Unblank \/ Fade \/ UNCHANGED vars
  BY <1>1, <1>3 DEF Blank, Unblank, Fade, vars, dim
<1>4. CASE Dim
  <2>1. CASE Dimmed(level) < level
    <3>1. Dimmed(level) \in 1 .. Brightest /\ level \in 1 .. Brightest
      BY <1>0, <2>1, DimmedBounds
    <3>2. Append(setters, Dimmed(level)) \in Seq(1 .. Brightest)
      BY <3>1, AppendProperties
    <3>3. \/ UNCHANGED <<backlight, setters>>
          \/ /\ backlight' = {[before |-> level, dimmed |-> Dimmed(level)]}
             /\ setters' = Append(setters, Dimmed(level))
      BY <1>4 DEF Dim
    <3>4. UNCHANGED <<level, wanted>>
      BY <1>4 DEF Dim
    <3>5. \A b \in {[before |-> level, dimmed |-> Dimmed(level)]} : b.before = level
      OBVIOUS
    <3>6. \A b \in backlight' : b.before \in 1 .. Brightest
      BY <3>1, <3>3, <3>5
    <3>7. setters' \in Seq(1 .. Brightest)
      BY <3>2, <3>3
    <3>8. QED
      BY <3>4, <3>6, <3>7
  <2>2. CASE ~(Dimmed(level) < level)
    BY <1>4, <2>2 DEF Dim
  <2>3. QED
    BY <2>1, <2>2
<1>5. CASE Undim
  <2>1. backlight' = {} /\ UNCHANGED <<level, wanted>>
    BY <1>5 DEF Undim, Uncover, Restore
  <2>2. setters' = setters \/ \E b \in backlight : setters' = Append(setters, b.before)
    BY <1>5 DEF Undim, Restore
  <2>3. setters' \in Seq(1 .. Brightest)
    <3>1. \A b \in backlight : Append(setters, b.before) \in Seq(1 .. Brightest)
      BY AppendProperties
    <3>2. QED
      BY <2>2, <3>1
  <2>4. QED
    BY <2>1, <2>3
<1>6. ASSUME NEW v \in 0 .. Brightest, Keys(v) PROVE Lit'
  BY <1>6 DEF Keys, dim
<1>7. ASSUME NEW k \in DOMAIN setters, SetterDone(k) \/ SetterFails(k) PROVE Lit'
  <2>1. setters' \in Seq(1 .. Brightest)
    BY <1>7, RemoveType DEF SetterDone, SetterFails
  <2>2. setters[k] \in 1 .. Brightest
    BY ElementOfSeq, LenProperties
  <2>3. UNCHANGED <<backlight, wanted>> /\ level' \in {level, setters[k]}
    BY <1>7 DEF SetterDone, SetterFails, dim
  <2>4. QED
    BY <1>0, <2>1, <2>2, <2>3
<1>8. CASE Stop
  BY <1>8, EmptySeq DEF Stop
<1>9. QED
  BY <1>1, <1>2, <1>3, <1>4, <1>5, <1>6, <1>7, <1>8 DEF Next

\* However often it dims, and whatever order its threads set the backlight in,
\* the program does not take a lit panel to zero.
THEOREM PanelStaysLit == Spec => []StaysLit
<1>1. Lit => StaysLit
  BY DEF Lit
<1>2. QED
  BY <1>1, LitInit, LitStep, TypeInit, TypeStep, PTL DEF Spec

\* Where a level may be that the program has put back.
Theirs(l) == l = wanted \/ wanted = Dimmed(l)

\* While no thread was overtaken: what dimming remembers is the person's, and
\* the one thread there may be is on its way to what was remembered.
Remembered ==
    /\ ~active => backlight = {}
    /\ \A b \in backlight : b.dimmed = Dimmed(b.before)
    /\ \/ setters = <<>> /\ level = wanted
       \/ setters = <<>> /\ backlight = {} /\ Theirs(level)
       \/ /\ setters = <<>> /\ backlight # {}
          /\ \A b \in backlight : level = b.dimmed /\ Theirs(b.before)
       \/ /\ backlight = {}
          /\ \E l \in 0 .. Brightest : setters = <<l>> /\ Theirs(l)
       \/ /\ backlight # {}
          /\ \E l \in 0 .. Brightest : setters = <<l>> /\ \A b \in backlight : l = b.dimmed /\ Theirs(b.before)

Undisturbed == up /\ ~disturbed => Remembered

LEMMA UndisturbedInit == Init => Undisturbed
BY DEF Init, Undisturbed, Remembered

LEMMA AppendToEmpty == ASSUME NEW s, s = <<>> PROVE \A l : Append(s, l) = <<l>>
OBVIOUS

LEMMA LastDone ==
    ASSUME NEW S, NEW l \in S, NEW k \in DOMAIN <<l>>
    PROVE  <<l>>[k] = l /\ RemoveAt(<<l>>, k) = <<>>
<1>1. k = 1
  OBVIOUS
<1>2. QED
  BY <1>1 DEF RemoveAt

LEMMA UndisturbedStep == TypeOK /\ Undisturbed /\ [Next]_vars => Undisturbed'
<1> SUFFICES ASSUME TypeOK, Undisturbed, [Next]_vars, up', ~disturbed'
             PROVE  Remembered'
  BY DEF Undisturbed
<1>0. level \in 0 .. Brightest
  BY DEF TypeOK
<1>1. ASSUME UNCHANGED <<active, backlight, panel, up>> PROVE Remembered'
  BY <1>1 DEF panel, Undisturbed, Remembered, Theirs
<1>2. ASSUME NEW o \in Outputs, Plug(o) \/ Unplug(o) \/ OtherTakes(o) \/ OtherLeaves(o)
                                \/ NewOutput(o) \/ OutputDestroyed(o) \/ Failed(o)
                                \/ Configure(o) \/ Closed(o) \/ Discard(o)
      PROVE  UNCHANGED <<active, backlight, panel, up>>
  BY <1>2 DEF Plug, Unplug, OtherTakes, OtherLeaves, NewOutput, OutputDestroyed, Failed,
              Configure, Closed, Discard, dim
<1>3. CASE Blank \/ Unblank \/ Fade \/ UNCHANGED vars
  BY <1>1, <1>3 DEF Blank, Unblank, Fade, vars, dim
<1>4. CASE Dim
  <2>1. setters = <<>> /\ ~disturbed /\ up
    BY <1>4 DEF Dim, NotesThreads
  <2>2. backlight = {} /\ Theirs(level)
    BY <1>4, <2>1 DEF Dim, Undisturbed, Remembered, Theirs
  <2>3. active' /\ UNCHANGED <<level, wanted>>
    BY <1>4 DEF Dim
  <2>4. CASE UNCHANGED <<backlight, setters>>
    BY <2>1, <2>2, <2>3, <2>4 DEF Remembered, Theirs
  <2>5. CASE /\ backlight' = {[before |-> level, dimmed |-> Dimmed(level)]}
             /\ setters' = Append(setters, Dimmed(level))
    <3>1. setters' = <<Dimmed(level)>>
      BY <2>1, <2>5, AppendToEmpty
    <3>2. \A b \in backlight' : b.before = level /\ b.dimmed = Dimmed(level)
      BY <2>5
    <3>3. backlight' # {}
      BY <2>5
    <3>4. Dimmed(level) \in 0 .. Brightest
      BY <1>0, DimmedBounds, BrightestAssumption
    <3>5. \A b \in backlight' : Theirs(b.before)'
      BY <2>2, <2>3, <3>2 DEF Theirs
    <3>6. QED
      BY <2>3, <3>1, <3>2, <3>3, <3>4, <3>5 DEF Remembered
  <2>6. QED
    BY <1>4, <2>4, <2>5 DEF Dim
<1>5. CASE Undim
  <2>1. setters = <<>> /\ ~disturbed /\ up
    BY <1>5 DEF Undim, Uncover, NotesThreads
  <2>2. backlight' = {} /\ UNCHANGED <<level, wanted>>
    BY <1>5 DEF Undim, Uncover, Restore
  <2>3. ASSUME NEW b \in backlight, b.dimmed = level, setters' = Append(setters, b.before)
        PROVE  Remembered'
    <3>1. setters' = <<b.before>>
      BY <2>1, <2>3, AppendToEmpty
    <3>2. Theirs(b.before)
      BY <2>1, <2>3 DEF Undisturbed, Remembered, Theirs
    <3>3. b.before \in 0 .. Brightest
      BY DEF TypeOK
    <3>4. QED
      BY <2>2, <3>1, <3>2, <3>3 DEF Remembered, Theirs
  <2>4. CASE (\A b \in backlight : b.dimmed # level) /\ UNCHANGED setters
    <3>1. Theirs(level)
      BY <2>1, <2>4 DEF Undisturbed, Remembered, Theirs
    <3>2. QED
      BY <2>1, <2>2, <2>4, <3>1 DEF Remembered, Theirs
  <2>5. QED
    BY <1>5, <2>3, <2>4 DEF Undim, Restore
<1>6. ASSUME NEW v \in 0 .. Brightest, Keys(v) PROVE Remembered'
  <2>1. setters = <<>> /\ ~disturbed /\ up
    BY <1>6 DEF Keys, NotesThreads
  <2>2. UNCHANGED <<active, backlight, setters>> /\ level' = wanted'
    BY <1>6 DEF Keys, dim
  <2>3. QED
    BY <2>1, <2>2 DEF Undisturbed, Remembered
<1>7. ASSUME NEW k \in DOMAIN setters, SetterDone(k) PROVE Remembered'
  <2>1. Remembered /\ UNCHANGED <<active, backlight, wanted>>
    BY <1>7 DEF SetterDone, dim, Undisturbed
  <2>2. setters # <<>>
    OBVIOUS
  <2>3. PICK l \in 0 .. Brightest : setters = <<l>>
    BY <2>1, <2>2 DEF Remembered
  <2>4. level' = l /\ setters' = <<>>
    BY <1>7, <2>3, LastDone DEF SetterDone
  <2>5. \A m \in 0 .. Brightest : setters = <<m>> => m = l
    BY <2>3
  <2>6. \/ backlight = {} /\ Theirs(l)
        \/ backlight # {} /\ \A b \in backlight : l = b.dimmed /\ Theirs(b.before)
    BY <2>1, <2>2, <2>5 DEF Remembered
  <2>7. QED
    BY <2>1, <2>4, <2>6 DEF Remembered, Theirs
<1>8. ASSUME NEW k \in DOMAIN setters, SetterFails(k) PROVE FALSE
  BY <1>8 DEF SetterFails
<1>9. CASE Stop
  BY <1>9 DEF Stop
<1>10. QED
  BY <1>1, <1>2, <1>3, <1>4, <1>5, <1>6, <1>7, <1>8, <1>9 DEF Next

\* The panel is where its owner put it whenever the program is not dimming it
\* and no backlight thread was overtaken, however often it dims and undims and
\* wherever the keys are touched between.
THEOREM TheirsStay == Spec => []TheirsStands
<1>1. Undisturbed => TheirsStands
  BY DEF Undisturbed, Remembered, TheirsStands, Theirs
<1>2. QED
  BY <1>1, UndisturbedInit, UndisturbedStep, TypeInit, TypeStep, PTL DEF Spec

-----------------------------------------------------------------------------
(* The monitors *)

\* What is on its way about o fits what is known of it: it is announced once
\* and refused once; it is announced before it is known or refused; and a
\* refused one is not dark, and has its control until the refusal is read.
Said(o) ==
    /\ Once(events[o], "new") /\ Once(events[o], "failed")
    /\ plugged[o] = "not yet" =>
        ~Has(events[o], "new") /\ ~Has(events[o], "failed") /\ o \notin known
    /\ Has(events[o], "new") =>
        o \notin known /\ o \notin darkened /\ ~Has(events[o], "failed")
    /\ Has(events[o], "gone") => plugged[o] = "out"
    /\ Has(events[o], "failed") => o \notin darkened /\ (o \in controls \/ o \notin known)

\* What is dark, and why what is not dark is not.
Lights(o) ==
    /\ o \in darkened => blanked /\ o \in controls /\ holder[o] = "us" /\ In(o)
    /\ In(o) /\ ~Has(events[o], "new") => o \in known
    /\ blanked /\ In(o) /\ o \in known =>
        (power[o] = "off" /\ holder[o] = "us") \/ o \in refused
    /\ blanked => HasPowerManager
    /\ ~blanked => o \notin controls

Kept == \A o \in Outputs : Said(o) /\ Lights(o)

LEMMA KeptInit == Init => Kept
<1> SUFFICES ASSUME Init, NEW o \in Outputs PROVE Said(o) /\ Lights(o)
  BY DEF Kept
<1>1. events[o] = <<>> /\ DOMAIN events[o] = {}
  <2>1. events[o] = <<>>
    BY DEF Init
  <2>2. <<>> \in Seq({}) /\ Len(<<>>) = 0
    BY EmptySeq
  <2>3. DOMAIN <<>> = {}
    BY <2>2, LenProperties
  <2>4. QED
    BY <2>1, <2>3
<1>2. QED
  BY <1>1 DEF Init, Said, Lights, Has, Once, In

\* The events that matter to the monitors' records.
Telling == {"new", "gone", "failed"}

\* Nothing that matters has been added to a queue, nor doubled in it.
Quiet(o) ==
    \A x \in Telling :
        /\ Has(events'[o], x) => Has(events[o], x)
        /\ Once(events[o], x) => Once(events'[o], x)

\* A step that changes no record of the monitors and says nothing that matters,
\* except that it may read what no longer does.
LEMMA QuietStep ==
    ASSUME Kept, NEW o \in Outputs, Quiet(o),
           Has(events[o], "new") => Has(events'[o], "new"),
           UNCHANGED <<plugged, power, holder, known, blanked, controls, darkened, refused>>
    PROVE  Said(o)' /\ Lights(o)'
<1>1. "new" \in Telling /\ "gone" \in Telling /\ "failed" \in Telling
  BY DEF Telling
<1>2. Said(o) /\ Lights(o)
  BY DEF Kept
<1>3. QED
  BY <1>1, <1>2 DEF Said, Lights, In, Quiet

\* Taking the first event of a queue, of another kind or not.
LEMMA ReadQuiet ==
    ASSUME TypeOK, NEW o \in Outputs, NEW e, Reads(o, e), events'[o] = Tail(events[o])
    PROVE  /\ Quiet(o)
           /\ Has(events[o], e)
           /\ Once(events[o], e) => ~Has(events'[o], e)
           /\ e # "new" /\ Has(events[o], "new") => Has(events'[o], "new")
<1>1. events[o] \in Seq(Event) /\ events[o] # <<>> /\ Head(events[o]) = e
  BY DEF TypeOK, Reads
<1>2. Quiet(o) /\ Has(events[o], e) /\ (Once(events[o], e) => ~Has(events'[o], e))
  BY <1>1, TailHas DEF Quiet
<1>3. e # "new" /\ Has(events[o], "new") => Has(events'[o], "new")
  BY <1>1, TailKeeps
<1>4. QED
  BY <1>2, <1>3

\* Voiding events about overlays, or refusals, adds nothing.
LEMMA VoidQuiet ==
    ASSUME NEW o \in Outputs, NEW S, NEW dead, events' = VoidFor(S, dead)
    PROVE  /\ Quiet(o)
           /\ "new" \notin dead => (Has(events[o], "new") <=> Has(events'[o], "new"))
           /\ o \in S /\ "failed" \in dead => ~Has(events'[o], "failed")
<1>1. events'[o] = IF o \in S THEN Void(events[o], dead) ELSE events[o]
  BY DEF VoidFor
<1>2. \A x \in {"new", "gone", "failed"} :
         /\ Has(Void(events[o], dead), x) <=> Has(events[o], x) /\ x \notin dead
         /\ Once(events[o], x) => Once(Void(events[o], dead), x)
  BY VoidHas
<1>3. QED
  BY <1>1, <1>2 DEF Quiet, Telling

\* What a queue tells of when something is added to it.
LEMMA AppendTells ==
    ASSUME NEW q \in Seq(Event), NEW e \in Event
    PROVE  \A x : /\ Has(Append(q, e), x) <=> Has(q, x) \/ e = x
                  /\ Once(q, x) /\ (e = x => ~Has(q, x)) => Once(Append(q, e), x)
BY AppendHas, Zenon

LEMMA PutTells ==
    ASSUME NEW q \in Seq(Event), NEW e \in Event, NEW when
    PROVE  \A x : /\ Has(Put(q, e, when), x) <=> Has(q, x) \/ (when /\ e = x)
                  /\ Once(q, x) /\ (when /\ e = x => ~Has(q, x)) => Once(Put(q, e, when), x)
BY PutHas, Zenon

\* A step that leaves what o's records and queue say alone.
LEMMA SameStep ==
    ASSUME Kept, NEW o \in Outputs, events'[o] = events[o],
           UNCHANGED <<blanked>>,
           plugged'[o] = plugged[o], power'[o] = power[o], holder'[o] = holder[o],
           o \in known' <=> o \in known, o \in controls' <=> o \in controls,
           o \in darkened' <=> o \in darkened, o \in refused' <=> o \in refused
    PROVE  Said(o)' /\ Lights(o)'
BY DEF Kept, Said, Lights, In

\* Switching the monitors back on ends all that depended on their being off.
LEMMA SwitchedOn ==
    ASSUME TypeOK, Kept, SwitchOn, darkened' = darkened \ Held,
           UNCHANGED <<plugged, known>>, NEW o \in Outputs
    PROVE  Said(o)' /\ Lights(o)'
<1>1. Said(o) /\ Lights(o)
  BY DEF Kept
<1>2. /\ Quiet(o)
      /\ Has(events[o], "new") <=> Has(events'[o], "new")
      /\ o \in controls => ~Has(events'[o], "failed")
  BY VoidQuiet DEF SwitchOn
<1>3. o \notin darkened'
  BY <1>1 DEF Lights, Held
<1>4. blanked' = FALSE /\ controls' = {}
  BY DEF SwitchOn
<1>5. Said(o)'
  BY <1>1, <1>2, <1>3 DEF Said, Quiet, Telling
<1>6. Lights(o)'
  BY <1>1, <1>2, <1>3, <1>4 DEF Lights, In
<1>7. QED
  BY <1>5, <1>6

LEMMA KeptStep == TypeOK /\ Kept /\ [Next]_vars => Kept'
<1> SUFFICES ASSUME TypeOK, Kept, [Next]_vars, NEW q \in Outputs
             PROVE  Said(q)' /\ Lights(q)'
  BY DEF Kept
<1>1. Said(q) /\ Lights(q)
  BY DEF Kept
<1>2. /\ events \in [Outputs -> Seq(Event)] /\ plugged \in [Outputs -> {"not yet", "in", "out"}]
      /\ power \in [Outputs -> {"on", "off"}] /\ holder \in [Outputs -> {"nobody", "us", "other"}]
      /\ known \subseteq Outputs /\ controls \subseteq Outputs
  BY DEF TypeOK
<1>3. "new" \in Event /\ "gone" \in Event /\ "failed" \in Event /\ "closed" \in Event
      /\ \A o : Answer(o) \in Event /\ Answer(o) \notin Telling
  BY DEF Event, Telling, Answer
<1>4. "new" \in Telling /\ "gone" \in Telling /\ "failed" \in Telling /\ "closed" \notin Telling
  BY DEF Telling
<1>5. ASSUME NEW o \in Outputs, Plug(o) PROVE Said(q)' /\ Lights(q)'
  <2>1. CASE q # o
    BY <1>2, <1>5, <2>1, SameStep DEF Plug, Says, Put
  <2>2. CASE q = o
    <3>1. events'[o] = Append(events[o], "new")
      BY <1>2, <1>5 DEF Plug, Says, Put
    <3>2. \A x \in Telling :
            /\ Has(events'[o], x) <=> Has(events[o], x) \/ x = "new"
            /\ Once(events[o], x) /\ (x = "new" => ~Has(events[o], x)) => Once(events'[o], x)
      <4>1. events[o] \in Seq(Event) /\ "new" \in Event
        BY <1>2, <1>3
      <4>2. \A x :
              /\ Has(Append(events[o], "new"), x) <=> Has(events[o], x) \/ "new" = x
              /\ Once(events[o], x) /\ ("new" = x => ~Has(events[o], x))
                    => Once(Append(events[o], "new"), x)
        BY <4>1, AppendTells, Zenon
      <4>3. QED
        BY <3>1, <4>2
    <3>3. ~Has(events[o], "new") /\ ~Has(events[o], "failed") /\ o \notin known
          /\ ~Has(events[o], "gone") /\ o \notin darkened
      BY <1>1, <1>5, <2>2 DEF Plug, Said, Lights, In
    <3>4. plugged'[o] = "in"
      BY <1>2, <1>5 DEF Plug
    <3>5. UNCHANGED <<power, holder, known, blanked, controls, darkened, refused>>
      BY <1>5 DEF Plug
    <3>6. QED
      BY <1>1, <1>4, <2>2, <3>2, <3>3, <3>4, <3>5 DEF Said, Lights, In
  <2>3. QED
    BY <2>1, <2>2
<1>6. ASSUME NEW o \in Outputs, Unplug(o) PROVE Said(q)' /\ Lights(q)'
  <2>1. CASE q # o
    BY <1>2, <1>6, <2>1, SameStep DEF Unplug
  <2>2. CASE q = o
    <3> DEFINE p == Put(events[o], "closed", o \in overlays)
    <3>1. events'[o] = Append(p, "gone") /\ p \in Seq(Event)
      BY <1>2, <1>3, <1>6, PutType DEF Unplug
    <3>2. \A x \in Telling : (Has(p, x) <=> Has(events[o], x)) /\ (Once(events[o], x) => Once(p, x))
      <4>1. events[o] \in Seq(Event) /\ "closed" \in Event
        BY <1>2, <1>3
      <4>2. \A x : (Has(p, x) <=> Has(events[o], x) \/ (o \in overlays /\ "closed" = x))
                   /\ (Once(events[o], x) /\ (o \in overlays /\ "closed" = x => ~Has(events[o], x))
                        => Once(p, x))
        BY <4>1, PutTells, Zenon
      <4>3. QED
        BY <1>4, <4>2
    <3> HIDE DEF p
    <3>3. \A x \in Telling :
            /\ Has(events'[o], x) <=> Has(p, x) \/ x = "gone"
            /\ Once(p, x) /\ x # "gone" => Once(events'[o], x)
      BY <1>3, <3>1, AppendTells
    <3>4. plugged'[o] = "out" /\ o \notin darkened'
      BY <1>2, <1>6 DEF Unplug
    <3>5. UNCHANGED <<known, blanked, controls, refused>>
      BY <1>6 DEF Unplug
    <3>6. QED
      BY <1>1, <1>4, <2>2, <3>2, <3>3, <3>4, <3>5 DEF Said, Lights, In
  <2>3. QED
    BY <2>1, <2>2
<1>7. ASSUME NEW o \in Outputs, OtherTakes(o) \/ OtherLeaves(o) PROVE Said(q)' /\ Lights(q)'
  <2>1. UNCHANGED <<plugged, events, known, blanked, controls, refused>>
    BY <1>7 DEF OtherTakes, OtherLeaves
  <2>2. CASE q # o
    BY <1>2, <1>7, <2>1, <2>2, SameStep DEF OtherTakes, OtherLeaves
  <2>3. CASE q = o
    <3>1. holder[o] # "us" /\ (q \in darkened' => q \in darkened)
      BY <1>7 DEF OtherTakes, OtherLeaves
    <3>2. q \notin darkened'
      BY <1>1, <2>3, <3>1 DEF Lights
    <3>3. QED
      BY <1>1, <2>1, <2>3, <3>1, <3>2 DEF Said, Lights, In
  <2>4. QED
    BY <2>2, <2>3
<1>8. ASSUME NEW o \in Outputs, NewOutput(o) PROVE Said(q)' /\ Lights(q)'
  <2> DEFINE refusal == blanked /\ HasPowerManager /\ o \notin Granted({o})
             r == Put(Tail(events[o]), Answer(o), active /\ Layered)
  <2>1. /\ known' = known \cup {o} /\ UNCHANGED <<plugged, blanked>>
        /\ events' = [events EXCEPT ![o] = Put(r, "failed", refusal)]
    BY <1>8 DEF NewOutput
  <2>2. \/ /\ blanked /\ HasPowerManager /\ SwitchOff({o})
        \/ /\ ~(blanked /\ HasPowerManager)
           /\ UNCHANGED <<controls, holder, power, darkened, refused>>
    BY <1>8 DEF NewOutput
  <2>3. CASE q # o
    <3>1. events'[q] = events[q] /\ (q \in known' <=> q \in known)
      BY <1>2, <2>1, <2>3
    <3>2. /\ power'[q] = power[q] /\ holder'[q] = holder[q]
          /\ q \in controls' <=> q \in controls
          /\ q \in darkened' <=> q \in darkened
          /\ q \in refused' <=> q \in refused
      BY <1>2, <2>2, <2>3 DEF SwitchOff, Granted
    <3>3. QED
      BY <2>1, <3>1, <3>2, SameStep
  <2>4. CASE q = o
    <3>1. /\ Tail(events[o]) \in Seq(Event) /\ Has(events[o], "new")
          /\ \A x \in Telling :
                /\ Has(Tail(events[o]), x) => Has(events[o], x)
                /\ Once(events[o], x) => Once(Tail(events[o]), x)
          /\ Once(events[o], "new") => ~Has(Tail(events[o]), "new")
      <4>1. events[o] \in Seq(Event) /\ events[o] # <<>> /\ Head(events[o]) = "new"
        BY <1>2, <1>8 DEF NewOutput, Reads
      <4>2. QED
        BY <4>1, TailHas, HeadTailProperties
    <3>2. r \in Seq(Event) /\ \A x \in Telling : (Has(r, x) <=> Has(Tail(events[o]), x))
                                                 /\ (Once(Tail(events[o]), x) => Once(r, x))
      <4> DEFINE t == Tail(events[o])
                 when == active /\ Layered
      <4>1. t \in Seq(Event) /\ Answer(o) \in Event
        BY <1>3, <3>1
      <4>2. r \in Seq(Event)
        BY <4>1, PutType, Zenon
      <4>3. \A x : (Has(r, x) <=> Has(t, x) \/ (when /\ Answer(o) = x))
                   /\ (Once(t, x) /\ (when /\ Answer(o) = x => ~Has(t, x)) => Once(r, x))
        BY <4>1, PutTells, Zenon
      <4> HIDE DEF r, t, when
      <4>4. \A x \in Telling : Answer(o) # x
        BY <1>3
      <4>5. \A x \in Telling : (Has(r, x) <=> Has(t, x)) /\ (Once(t, x) => Once(r, x))
        BY <4>3, <4>4, Zenon
      <4>6. QED
        BY <4>2, <4>5 DEF t
    <3> HIDE DEF r
    <3>3. events'[o] = Put(r, "failed", refusal)
      BY <1>2, <2>1
    <3>4. \A x \in Telling :
            /\ Has(events'[o], x) <=> Has(r, x) \/ (refusal /\ "failed" = x)
            /\ Once(r, x) /\ (refusal /\ "failed" = x => ~Has(r, x)) => Once(events'[o], x)
      <4>1. r \in Seq(Event) /\ "failed" \in Event
        BY <1>3, <3>2
      <4>2. \A x :
              /\ Has(Put(r, "failed", refusal), x) <=> Has(r, x) \/ (refusal /\ "failed" = x)
              /\ Once(r, x) /\ (refusal /\ "failed" = x => ~Has(r, x))
                    => Once(Put(r, "failed", refusal), x)
        BY <4>1, PutTells, Zenon
      <4> HIDE DEF refusal
      <4>3. QED
        BY <3>3, <4>2, Zenon
    <3>5. ~Has(r, "new") /\ ~Has(r, "failed") /\ Once(r, "new") /\ Once(r, "failed")
          /\ (Has(r, "gone") => plugged[o] = "out") /\ o \notin known /\ plugged[o] # "not yet"
      <4>1. o \notin known /\ plugged[o] # "not yet" /\ ~Has(events[o], "failed")
            /\ (Has(events[o], "gone") => plugged[o] = "out")
            /\ Once(events[o], "new") /\ Once(events[o], "failed")
        BY <1>1, <2>4, <3>1 DEF Said
      <4>2. ~Has(Tail(events[o]), "new") /\ ~Has(Tail(events[o]), "failed")
            /\ (Has(Tail(events[o]), "gone") => plugged[o] = "out")
            /\ Once(Tail(events[o]), "new") /\ Once(Tail(events[o]), "failed")
        BY <1>4, <3>1, <4>1
      <4>3. QED
        BY <1>4, <3>2, <4>1, <4>2
    <3>6. ~Has(events'[o], "new") /\ Once(events'[o], "new") /\ Once(events'[o], "failed")
          /\ (Has(events'[o], "gone") => plugged[o] = "out")
          /\ (Has(events'[o], "failed") => refusal)
      BY <1>4, <3>4, <3>5
    <3>7. CASE blanked /\ HasPowerManager
      <4>1. SwitchOff({o})
        BY <2>2, <3>7
      <4>2. o \in controls' /\ (o \in darkened' => o \in darkened \/ o \in Granted({o}))
        BY <4>1 DEF SwitchOff
      <4>3. o \in Granted({o}) => holder'[o] = "us" /\ power'[o] = "off" /\ In(o)
        BY <1>2, <4>1 DEF SwitchOff, Granted
      <4>4. o \notin Granted({o}) => holder'[o] = holder[o] /\ o \in refused' /\ power'[o] = power[o]
        BY <1>2, <4>1 DEF SwitchOff
      <4>5. o \in darkened /\ o \notin Granted({o}) => holder[o] = "us" /\ In(o)
        BY <1>1, <2>4 DEF Lights
      <4>6. refusal => o \notin darkened'
        BY <1>1, <2>4, <3>1, <4>2 DEF Said
      <4>7. Said(o)'
        BY <2>1, <3>5, <3>6, <4>2, <4>6 DEF Said
      <4>8. Lights(o)'
        BY <1>1, <2>1, <2>4, <3>7, <4>2, <4>3, <4>4, <4>5 DEF Lights, In
      <4>9. QED
        BY <2>4, <4>7, <4>8
    <3>8. CASE ~(blanked /\ HasPowerManager)
      <4>1. UNCHANGED <<controls, holder, power, darkened, refused>> /\ ~refusal
        BY <2>2, <3>8
      <4>2. ~blanked
        BY <1>1, <3>8 DEF Lights
      <4>3. Said(o)'
        BY <2>1, <3>5, <3>6, <4>1 DEF Said
      <4>4. Lights(o)'
        BY <1>1, <2>1, <2>4, <4>1, <4>2 DEF Lights, In
      <4>5. QED
        BY <2>4, <4>3, <4>4
    <3>9. QED
      BY <3>7, <3>8
  <2>5. QED
    BY <2>3, <2>4
<1>9. ASSUME NEW o \in Outputs, OutputDestroyed(o) PROVE Said(q)' /\ Lights(q)'
  <2>1. UNCHANGED <<plugged, power, holder, blanked, darkened, refused>>
        /\ known' = known \ {o} /\ controls' = controls \ {o}
    BY <1>9 DEF OutputDestroyed, monitors
  <2>2. CASE q # o
    BY <1>2, <1>9, <2>1, <2>2, SameStep DEF OutputDestroyed
  <2>3. CASE q = o
    <3> DEFINE t == Tail(events[o])
    <3>1. Has(events[o], "gone") /\ \A x \in Telling :
                (Has(t, x) => Has(events[o], x)) /\ (Once(events[o], x) => Once(t, x))
      <4>1. events[o] \in Seq(Event) /\ events[o] # <<>> /\ Head(events[o]) = "gone"
        BY <1>2, <1>9 DEF OutputDestroyed, Reads
      <4>2. QED
        BY <4>1, TailHas
    <3>2. events'[o] = Void(t, {"configure", "closed"})
      BY <1>2, <1>9 DEF OutputDestroyed
    <3> HIDE DEF t
    <3>3. \A x \in {"new", "gone", "failed"} :
                (Has(events'[o], x) <=> Has(t, x)) /\ (Once(t, x) => Once(events'[o], x))
      BY <3>2, VoidHas
    <3>4. plugged[o] = "out" /\ o \notin darkened
      BY <1>1, <2>3, <3>1 DEF Said, Lights, In
    <3>5. QED
      BY <1>1, <1>4, <2>1, <2>3, <3>1, <3>3, <3>4 DEF Said, Lights, In, Telling
  <2>4. QED
    BY <2>2, <2>3
<1>10. ASSUME NEW o \in Outputs, Failed(o) PROVE Said(q)' /\ Lights(q)'
  <2>1. UNCHANGED <<plugged, power, holder, known, blanked, darkened, refused>>
        /\ controls' = controls \ {o} /\ events' = [events EXCEPT ![o] = Tail(events[o])]
        /\ Reads(o, "failed")
    BY <1>10 DEF Failed, monitors
  <2>2. CASE q # o
    BY <1>2, <2>1, <2>2, SameStep
  <2>3. CASE q = o
    <3>1. /\ Quiet(o) /\ Has(events[o], "failed") /\ ~Has(events'[o], "failed")
          /\ Has(events[o], "new") => Has(events'[o], "new")
      BY <1>1, <1>2, <2>1, <2>3, ReadQuiet DEF Said
    <3>2. o \notin darkened
      BY <1>1, <2>3, <3>1 DEF Said
    <3>3. QED
      BY <1>1, <1>4, <2>1, <2>3, <3>1, <3>2 DEF Said, Lights, In, Quiet
  <2>4. QED
    BY <2>2, <2>3
<1>11. ASSUME NEW o \in Outputs, NEW e \in {"configure", "closed", "void"}, Reads(o, e),
              events' = [events EXCEPT ![o] = Tail(events[o])],
              UNCHANGED <<plugged, power, holder, known, blanked, controls, darkened, refused>>
       PROVE  Said(q)' /\ Lights(q)'
  <2>1. CASE q # o
    BY <1>2, <1>11, <2>1, SameStep
  <2>2. CASE q = o
    BY <1>2, <1>11, <2>2, ReadQuiet, QuietStep
  <2>3. QED
    BY <2>1, <2>2
<1>12. ASSUME NEW o \in Outputs, Configure(o) \/ Closed(o) \/ Discard(o)
       PROVE  Said(q)' /\ Lights(q)'
  BY <1>11, <1>12 DEF Configure, Closed, Discard, monitors
<1>13. CASE Blank
  <2>1. /\ ~blanked /\ HasPowerManager /\ blanked' = TRUE /\ SwitchOff(known)
        /\ UNCHANGED <<plugged, known>> /\ events' = Says(known \ Granted(known), "failed")
    BY <1>13 DEF Blank
  <2>2. \A x \in Telling :
          /\ Has(events'[q], x) <=>
                Has(events[q], x) \/ (q \in known \ Granted(known) /\ "failed" = x)
          /\ Once(events[q], x) /\ (q \in known \ Granted(known) /\ "failed" = x
                                        => ~Has(events[q], x)) => Once(events'[q], x)
    <3>1. events'[q] = Put(events[q], "failed", q \in known \ Granted(known))
      BY <2>1 DEF Says
    <3>2. QED
      <4> DEFINE late == q \in known \ Granted(known)
      <4>1. events[q] \in Seq(Event) /\ "failed" \in Event
        BY <1>2, <1>3
      <4>2. \A x :
              /\ Has(Put(events[q], "failed", late), x) <=> Has(events[q], x) \/ (late /\ "failed" = x)
              /\ Once(events[q], x) /\ (late /\ "failed" = x => ~Has(events[q], x))
                    => Once(Put(events[q], "failed", late), x)
        BY <4>1, PutTells, Zenon
      <4>3. QED
        BY <3>1, <4>2, Zenon
  <2>3. q \notin darkened
    BY <1>1, <2>1 DEF Lights
  <2>4. CASE q \in Granted(known)
    <3>1. q \in known /\ holder'[q] = "us" /\ power'[q] = "off" /\ In(q) /\ q \in controls'
      BY <1>2, <2>1, <2>4 DEF SwitchOff, Granted
    <3>2. ~Has(events[q], "new") /\ ~Has(events[q], "failed")
      BY <1>1, <2>1, <3>1 DEF Said, Lights
    <3>3. Said(q)'
      BY <1>1, <1>4, <2>1, <2>2, <2>4, <3>1, <3>2 DEF Said
    <3>4. Lights(q)'
      BY <2>1, <2>2, <3>1, <3>2 DEF Lights, In
    <3>5. QED
      BY <3>3, <3>4
  <2>5. CASE q \in known \ Granted(known)
    <3>1. q \notin controls /\ ~Has(events[q], "failed") /\ ~Has(events[q], "new")
          /\ plugged[q] # "not yet"
      BY <1>1, <2>1, <2>5 DEF Said, Lights
    <3>2. q \in controls' /\ q \in refused' /\ q \notin darkened'
      BY <2>1, <2>3, <2>5 DEF SwitchOff
    <3>3. Said(q)'
      BY <1>1, <1>4, <2>1, <2>2, <2>5, <3>1, <3>2 DEF Said
    <3>4. Lights(q)'
      BY <1>1, <2>1, <2>5, <3>2 DEF Lights, In
    <3>5. QED
      BY <3>3, <3>4
  <2>6. CASE q \notin known
    <3>1. q \notin Granted(known) /\ q \notin darkened' /\ (q \in controls' <=> q \in controls)
      BY <2>1, <2>3, <2>6 DEF SwitchOff, Granted
    <3>2. Said(q)'
      BY <1>1, <1>4, <2>1, <2>2, <2>3, <2>6, <3>1 DEF Said
    <3>3. Lights(q)'
      BY <1>1, <1>4, <2>1, <2>2, <2>6, <3>1 DEF Lights, In
    <3>4. QED
      BY <3>2, <3>3
  <2>7. QED
    BY <2>4, <2>5, <2>6
<1>14. CASE Unblank
  BY <1>14, SwitchedOn DEF Unblank
<1>15. CASE Stop
  <2>1. CASE blanked
    BY <1>15, <2>1, SwitchedOn DEF Stop
  <2>2. CASE ~blanked
    BY <1>15, <2>2, SameStep DEF Stop
  <2>3. QED
    BY <2>1, <2>2
<1>16. CASE Dim
  <2>1. UNCHANGED <<plugged, power, holder, known, blanked, controls, darkened, refused>>
    BY <1>16 DEF Dim, monitors
  <2>2. events'[q] = events[q] \/ events'[q] = Put(events[q], Answer(q), q \in known)
    BY <1>16 DEF Dim
  <2>3. \A x \in Telling :
          /\ Has(Put(events[q], Answer(q), q \in known), x) <=> Has(events[q], x)
          /\ Once(events[q], x) => Once(Put(events[q], Answer(q), q \in known), x)
    <3> DEFINE p == Put(events[q], Answer(q), q \in known)
    <3>1. events[q] \in Seq(Event) /\ Answer(q) \in Event
      BY <1>2, <1>3
    <3>2. \A x :
            /\ Has(p, x) <=> Has(events[q], x) \/ (q \in known /\ Answer(q) = x)
            /\ Once(events[q], x) /\ (q \in known /\ Answer(q) = x => ~Has(events[q], x))
                  => Once(p, x)
      BY <3>1, PutTells, Zenon
    <3> HIDE DEF p
    <3>3. \A x \in Telling : Answer(q) # x
      BY <1>3
    <3>4. \A x \in Telling :
            (Has(p, x) <=> Has(events[q], x)) /\ (Once(events[q], x) => Once(p, x))
      BY <3>2, <3>3, Zenon
    <3>5. QED
      BY <3>4 DEF p
  <2>4. Quiet(q) /\ (Has(events[q], "new") => Has(events'[q], "new"))
    BY <1>4, <2>2, <2>3 DEF Quiet
  <2>5. QED
    BY <2>1, <2>4, QuietStep
<1>17. CASE Undim
  <2>1. UNCHANGED <<plugged, power, holder, known, blanked, controls, darkened, refused>>
        /\ events' = VoidFor(overlays, {"configure", "closed"})
    BY <1>17 DEF Undim, Uncover, monitors
  <2>2. Quiet(q) /\ (Has(events[q], "new") => Has(events'[q], "new"))
    BY <2>1, VoidQuiet
  <2>3. QED
    BY <2>1, <2>2, QuietStep
<1>18. ASSUME UNCHANGED <<plugged, power, holder, events, known, blanked, controls,
                          darkened, refused>>
       PROVE  Said(q)' /\ Lights(q)'
  BY <1>18, SameStep
<1>19. CASE Fade
  BY <1>18, <1>19 DEF Fade, monitors
<1>20. ASSUME NEW v, Keys(v) PROVE Said(q)' /\ Lights(q)'
  BY <1>18, <1>20 DEF Keys, monitors
<1>21. ASSUME NEW k, SetterDone(k) \/ SetterFails(k) PROVE Said(q)' /\ Lights(q)'
  BY <1>18, <1>21 DEF SetterDone, SetterFails, monitors
<1>22. CASE UNCHANGED vars
  BY <1>18, <1>22 DEF vars, monitors
<1>23. QED
  BY <1>5, <1>6, <1>7, <1>8, <1>9, <1>10, <1>12, <1>13, <1>14, <1>15, <1>16, <1>17, <1>19,
     <1>20, <1>21, <1>22 DEF Next

\* The program leaves no monitor dark: whatever is plugged in, taken over or
\* refused meanwhile, it can bring back each one it switched off, and on its way
\* out it does.
THEOREM MonitorsComeBack == Spec => []NoneLeftDark
<1>1. TypeOK /\ Kept => NoneLeftDark
  BY DEF TypeOK, Kept, Lights, NoneLeftDark
<1>2. QED
  BY <1>1, KeptInit, KeptStep, TypeInit, TypeStep, PTL DEF Spec

\* While the screens are off so is every monitor whose events have been read,
\* but for those the compositor refused.
THEOREM MonitorsStayDark == Spec => []AllDark
<1>1. TypeOK /\ Kept => AllDark
  <2> SUFFICES ASSUME Kept, blanked, NEW o \in Outputs, In(o), events[o] = <<>>
               PROVE  power[o] = "off" \/ o \in refused
    BY DEF AllDark
  <2>1. ~Has(events[o], "new")
    <3>1. <<>> \in Seq({}) /\ Len(<<>>) = 0
      BY EmptySeq
    <3>2. DOMAIN events[o] = {}
      BY <3>1, LenProperties
    <3>3. QED
      BY <3>2 DEF Has
  <2>2. QED
    BY <2>1 DEF Kept, Lights
<1>2. QED
  BY <1>1, KeptInit, KeptStep, TypeInit, TypeStep, PTL DEF Spec

-----------------------------------------------------------------------------
\* However outputs come, go and refuse, dark means dark and lit means lit.
THEOREM PowerStaysAsAsked == Spec => []PowerAsAsked
<1>1. NoneLeftDark /\ AllDark => PowerAsAsked
  BY DEF PowerAsAsked
<1>2. QED
  BY <1>1, MonitorsComeBack, MonitorsStayDark, PTL

-----------------------------------------------------------------------------
(* The overlays *)

\* An output that is there keeps its overlay while the program dims, and the
\* overlay has its size or is about to.
Covered(o) ==
    /\ Has(events[o], "closed") => plugged[o] = "out"
    /\ In(o) /\ active /\ Layered /\ o \in known =>
        /\ o \in overlays
        /\ drawn[o] # {} \/ Has(events[o], "configure") \/ ~pixels

AllCovered == \A o \in Outputs : Covered(o)

LEMMA CoveredInit == Init => AllCovered
<1> SUFFICES ASSUME Init, NEW o \in Outputs PROVE Covered(o)
  BY DEF AllCovered
<1>1. DOMAIN events[o] = {}
  <2>1. events[o] = <<>>
    BY DEF Init
  <2>2. <<>> \in Seq({}) /\ Len(<<>>) = 0
    BY EmptySeq
  <2>3. QED
    BY <2>1, <2>2, LenProperties
<1>2. QED
  BY <1>1 DEF Init, Covered, In, Has

\* A step that leaves o's overlay alone, and says nothing of it.
LEMMA CoveredSame ==
    ASSUME AllCovered, NEW o \in Outputs,
           Has(events'[o], "closed") => Has(events[o], "closed"),
           Has(events[o], "configure") => Has(events'[o], "configure"),
           plugged'[o] = plugged[o], o \in known' => o \in known,
           active' => active /\ (o \in overlays => o \in overlays') /\ pixels' = pixels,
           drawn[o] # {} => drawn'[o] # {} \/ ~active'
    PROVE  Covered(o)'
BY DEF AllCovered, Covered, In

LEMMA CoveredStep == TypeOK /\ Kept /\ AllCovered /\ [Next]_vars => AllCovered'
<1> SUFFICES ASSUME TypeOK, Kept, AllCovered, [Next]_vars, NEW q \in Outputs
             PROVE  Covered(q)'
  BY DEF AllCovered
<1>1. Covered(q) /\ Said(q)
  BY DEF AllCovered, Kept
<1>2. /\ events \in [Outputs -> Seq(Event)] /\ plugged \in [Outputs -> {"not yet", "in", "out"}]
      /\ drawn \in [Outputs -> SUBSET (0 .. Steps - 1)] /\ overlays \subseteq Outputs
  BY DEF TypeOK
<1>3. {"new", "gone", "failed", "closed", "configure", "void"} \subseteq Event
      /\ \A o : Answer(o) \in Event /\ Answer(o) = IF In(o) THEN "configure" ELSE "closed"
  BY DEF Event, Answer
<1>4. events[q] \in Seq(Event) /\ "new" \in Event /\ "failed" \in Event /\ Answer(q) \in Event
  BY <1>2, <1>3
<1>5. ASSUME NEW o \in Outputs, Plug(o) PROVE Covered(q)'
  <2>1. events'[q] = Put(events[q], "new", q \in {o}) /\ UNCHANGED <<known, dim>>
    BY <1>5 DEF Plug, Says
  <2>2. \A x : Has(events'[q], x) <=> Has(events[q], x) \/ (q \in {o} /\ "new" = x)
    <3>1. \A x : Has(Put(events[q], "new", q \in {o}), x)
                   <=> Has(events[q], x) \/ (q \in {o} /\ "new" = x)
      BY <1>4, PutTells, Zenon
    <3>2. QED
      BY <2>1, <3>1, Zenon
  <2>3. CASE q # o
    <3>1. plugged'[q] = plugged[q]
      BY <1>2, <1>5, <2>3 DEF Plug
    <3>2. QED
      BY <2>1, <2>2, <3>1, CoveredSame DEF dim
  <2>4. CASE q = o
    <3>1. q \notin known' /\ ~Has(events[q], "closed")
      BY <1>1, <1>5, <2>1, <2>4 DEF Plug, Said, Covered
    <3>2. QED
      BY <2>2, <3>1 DEF Covered
  <2>5. QED
    BY <2>3, <2>4
<1>6. ASSUME NEW o \in Outputs, Unplug(o) PROVE Covered(q)'
  <2>1. CASE q # o
    BY <1>2, <1>6, <2>1, CoveredSame DEF Unplug, dim
  <2>2. CASE q = o
    <3>1. plugged'[q] = "out"
      BY <1>2, <1>6, <2>2 DEF Unplug
    <3>2. QED
      BY <3>1 DEF Covered, In
  <2>3. QED
    BY <2>1, <2>2
<1>7. ASSUME UNCHANGED <<plugged, known, active, overlays, drawn, pixels>>,
             \A x \in {"closed", "configure"} : Has(events'[q], x) <=> Has(events[q], x)
      PROVE  Covered(q)'
  BY <1>7, CoveredSame
<1>8. ASSUME NEW o \in Outputs, OtherTakes(o) \/ OtherLeaves(o) PROVE Covered(q)'
  BY <1>7, <1>8 DEF OtherTakes, OtherLeaves, dim
<1>9. ASSUME NEW o \in Outputs, NEW e \in Event, Reads(o, e),
             events' = [events EXCEPT ![o] = Tail(events[o])]
      PROVE  \A x \in {"closed", "configure"} :
                /\ Has(events'[q], x) => Has(events[q], x)
                /\ Has(events[q], x) /\ (q = o => x # e) => Has(events'[q], x)
  <2>1. CASE q # o
    BY <1>2, <1>9, <2>1
  <2>2. CASE q = o
    <3>1. events'[q] = Tail(events[q]) /\ events[q] \in Seq(Event) /\ events[q] # <<>>
          /\ Head(events[q]) = e
      BY <1>2, <1>9, <2>2 DEF Reads
    <3>2. ASSUME NEW x, Has(events[q], x), x # e PROVE Has(events'[q], x)
      BY <3>1, <3>2, TailKeeps
    <3>3. \A x : Has(events'[q], x) => Has(events[q], x)
      BY <3>1, TailHas
    <3>4. QED
      BY <2>2, <3>2, <3>3
  <2>3. QED
    BY <2>1, <2>2
<1>10. ASSUME NEW o \in Outputs, NewOutput(o) PROVE Covered(q)'
  <2> DEFINE refusal == blanked /\ HasPowerManager /\ o \notin Granted({o})
             dims == active /\ Layered
             t == Tail(events[o])
             r == Put(t, Answer(o), dims)
  <2>1. /\ known' = known \cup {o} /\ UNCHANGED <<plugged, active, pixels>>
        /\ events' = [events EXCEPT ![o] = Put(r, "failed", refusal)]
        /\ AddOverlays(IF dims THEN {o} ELSE {})
        /\ Reads(o, "new")
    BY <1>10 DEF NewOutput
  <2>2. CASE q # o
    BY <1>2, <2>1, <2>2, CoveredSame DEF AddOverlays
  <2>3. CASE q = o
    <3>1. events[o] \in Seq(Event) /\ events[o] # <<>> /\ Head(events[o]) = "new" /\ t \in Seq(Event)
      BY <1>2, <2>1, HeadTailProperties DEF Reads
    <3>2. Has(t, "closed") => Has(events[o], "closed")
      BY <3>1, TailHas
    <3> HIDE DEF t, dims
    <3>3. Answer(o) \in Event /\ "failed" \in Event
      BY <1>3
    <3>4. r \in Seq(Event)
      BY <3>1, <3>3, PutType, Zenon
    <3>5. \A x : Has(r, x) <=> Has(t, x) \/ (dims /\ Answer(o) = x)
      BY <3>1, <3>3, PutTells, Zenon
    <3> HIDE DEF r, refusal
    <3>6. \A x : Has(Put(r, "failed", refusal), x) <=> Has(r, x) \/ (refusal /\ "failed" = x)
      BY <3>3, <3>4, PutTells, Zenon
    <3>7. events'[o] = Put(r, "failed", refusal)
      BY <1>2, <2>1 DEF r, t, dims, refusal
    <3>8. /\ Has(events'[o], "closed") <=> Has(r, "closed")
          /\ Has(r, "configure") => Has(events'[o], "configure")
      BY <3>6, <3>7
    <3>9. In(o) => ~Has(events[o], "closed") /\ Answer(o) = "configure"
      BY <1>1, <1>3, <2>3 DEF Covered, In
    <3>10. Has(events'[o], "closed") => plugged[o] = "out"
      <4>1. CASE In(o)
        BY <3>2, <3>5, <3>8, <3>9, <4>1
      <4>2. CASE ~In(o)
        <5>1. plugged[o] # "not yet"
          <6>1. Has(events[o], "new")
            BY <3>1, TailHas
          <6>2. QED
            BY <1>1, <2>3, <6>1 DEF Said
        <5>2. QED
          BY <1>2, <4>2, <5>1 DEF In
      <4>3. QED
        BY <4>1, <4>2
    <3>11. In(o) /\ dims => o \in overlays' /\ Has(events'[o], "configure")
      BY <2>1, <3>5, <3>8, <3>9 DEF AddOverlays
    <3>12. QED
      BY <2>1, <2>3, <3>10, <3>11 DEF Covered, In, dims
  <2>4. QED
    BY <2>2, <2>3
<1>11. ASSUME NEW o \in Outputs, OutputDestroyed(o) PROVE Covered(q)'
  <2>1. CASE q # o
    <3>1. /\ events'[q] = events[q] /\ plugged'[q] = plugged[q] /\ drawn'[q] = drawn[q]
          /\ known' \subseteq known /\ UNCHANGED <<active, pixels>>
          /\ q \in overlays => q \in overlays'
      BY <1>2, <1>11, <2>1 DEF OutputDestroyed, monitors
    <3>2. QED
      BY <3>1, CoveredSame
  <2>2. CASE q = o
    <3>1. Has(events[o], "gone") /\ plugged' = plugged
      <4>1. events[o] \in Seq(Event) /\ events[o] # <<>> /\ Head(events[o]) = "gone"
        BY <1>2, <1>11 DEF OutputDestroyed, Reads
      <4>2. QED
        BY <1>11, <4>1, TailHas DEF OutputDestroyed, monitors
    <3>2. plugged'[o] = "out"
      BY <1>1, <2>2, <3>1 DEF Said
    <3>3. QED
      BY <2>2, <3>2 DEF Covered, In
  <2>3. QED
    BY <2>1, <2>2
<1>12. ASSUME NEW o \in Outputs, Failed(o) \/ Discard(o) PROVE Covered(q)'
  <2>1. PICK e \in {"failed", "void"} :
            Reads(o, e) /\ events' = [events EXCEPT ![o] = Tail(events[o])]
    BY <1>12 DEF Failed, Discard
  <2>2. UNCHANGED <<plugged, known, active, overlays, drawn, pixels>>
    BY <1>12 DEF Failed, Discard, monitors, dim
  <2>3. QED
    BY <1>3, <1>7, <1>9, <2>1, <2>2
<1>13. ASSUME NEW o \in Outputs, Configure(o) PROVE Covered(q)'
  <2>1. /\ Reads(o, "configure") /\ events' = [events EXCEPT ![o] = Tail(events[o])]
        /\ UNCHANGED <<plugged, known, active, overlays, pixels>>
        /\ drawn' = [drawn EXCEPT ![o] = IF pixels /\ o \in overlays THEN {step} ELSE drawn[o]]
    BY <1>13 DEF Configure, monitors
  <2>2. \A x \in {"closed", "configure"} :
            /\ Has(events'[q], x) => Has(events[q], x)
            /\ Has(events[q], x) /\ (q = o => x # "configure") => Has(events'[q], x)
    BY <1>3, <1>9, <2>1
  <2>3. drawn'[q] = IF q = o /\ pixels /\ o \in overlays THEN {step} ELSE drawn[q]
    BY <1>2, <2>1
  <2>4. QED
    BY <1>1, <2>1, <2>2, <2>3 DEF Covered, In
<1>14. ASSUME NEW o \in Outputs, Closed(o) PROVE Covered(q)'
  <2>1. CASE q # o
    BY <1>2, <1>14, <2>1, CoveredSame DEF Closed, monitors
  <2>2. CASE q = o
    <3>1. Has(events[o], "closed") /\ plugged' = plugged
      <4>1. events[o] \in Seq(Event) /\ events[o] # <<>> /\ Head(events[o]) = "closed"
        BY <1>2, <1>14 DEF Closed, Reads
      <4>2. QED
        BY <1>14, <4>1, TailHas DEF Closed, monitors
    <3>2. plugged'[o] = "out"
      BY <1>1, <2>2, <3>1 DEF Covered
    <3>3. QED
      BY <2>2, <3>2 DEF Covered, In
  <2>3. QED
    BY <2>1, <2>2
<1>15. CASE Blank
  <2>1. events'[q] = Put(events[q], "failed", q \in known \ Granted(known))
        /\ UNCHANGED <<plugged, known, dim>>
    BY <1>15 DEF Blank, Says
  <2>2. \A x : Has(events'[q], x)
                 <=> Has(events[q], x) \/ (q \in known \ Granted(known) /\ "failed" = x)
    <3> DEFINE late == q \in known \ Granted(known)
    <3>1. \A x :
            /\ Has(Put(events[q], "failed", late), x) <=> Has(events[q], x) \/ (late /\ "failed" = x)
            /\ Once(events[q], x) /\ (late /\ "failed" = x => ~Has(events[q], x))
                  => Once(Put(events[q], "failed", late), x)
      BY <1>4, PutTells, Zenon
    <3>2. QED
      BY <2>1, <3>1, Zenon
  <2>3. QED
    BY <1>7, <2>1, <2>2 DEF dim
<1>16. CASE Unblank
  <2>1. events'[q] = (IF q \in controls THEN Void(events[q], {"failed"}) ELSE events[q])
        /\ UNCHANGED <<plugged, known, dim>>
    BY <1>16 DEF Unblank, SwitchOn, VoidFor
  <2>2. \A x \in {"closed", "configure"} : Has(events'[q], x) <=> Has(events[q], x)
    BY <2>1, VoidHas
  <2>3. QED
    BY <1>7, <2>1, <2>2 DEF dim
<1>17. CASE Dim
  <2>1. /\ UNCHANGED <<plugged, known>>
    BY <1>17 DEF Dim, monitors
  <2>2. CASE Layered
    <3>1. /\ events'[q] = Put(events[q], Answer(q), q \in known)
          /\ q \in known => q \in overlays'
      BY <1>17, <2>2 DEF Dim, AddOverlays
    <3>2. \A x : Has(Put(events[q], Answer(q), q \in known), x)
                   <=> Has(events[q], x) \/ (q \in known /\ Answer(q) = x)
      BY <1>4, PutTells, Zenon
    <3>3. \A x : Has(events'[q], x) <=> Has(events[q], x) \/ (q \in known /\ Answer(q) = x)
      BY <3>1, <3>2, Zenon
    <3>4. q \in known => plugged[q] # "not yet"
      BY <1>1 DEF Said
    <3>5. QED
      BY <1>1, <1>2, <1>3, <2>1, <3>1, <3>3, <3>4 DEF Covered, In
  <2>3. CASE ~Layered
    BY <1>1, <1>17, <2>1, <2>3 DEF Dim, Covered, In
  <2>4. QED
    BY <2>2, <2>3
<1>18. CASE Undim
  <2>1. ~active' /\ plugged' = plugged /\ events' = VoidFor(overlays, {"configure", "closed"})
    BY <1>18 DEF Undim, Uncover, monitors
  <2>2. Has(events'[q], "closed") => Has(events[q], "closed")
    BY <2>1, VoidHas DEF VoidFor
  <2>3. QED
    BY <1>1, <2>1, <2>2 DEF Covered
<1>19. CASE Stop
  <2>1. ~active' /\ plugged' = plugged
        /\ (events'[q] = Void(events[q], {"failed"}) \/ events'[q] = events[q])
    BY <1>15, <1>19 DEF Stop, SwitchOn, VoidFor
  <2>2. Has(events'[q], "closed") => Has(events[q], "closed")
    BY <2>1, VoidHas
  <2>3. QED
    BY <1>1, <2>1, <2>2 DEF Covered
<1>20. CASE Fade
  <2>1. UNCHANGED <<plugged, events, known, active, overlays, pixels>>
        /\ (drawn[q] # {} => drawn'[q] # {})
    BY <1>20 DEF Fade, monitors
  <2>2. QED
    BY <2>1, CoveredSame
<1>21. ASSUME NEW v, Keys(v) PROVE Covered(q)'
  BY <1>7, <1>21 DEF Keys, monitors, dim
<1>22. ASSUME NEW k, SetterDone(k) \/ SetterFails(k) PROVE Covered(q)'
  BY <1>7, <1>22 DEF SetterDone, SetterFails, monitors, dim
<1>23. CASE UNCHANGED vars
  BY <1>7, <1>23 DEF vars, monitors, dim
<1>24. QED
  BY <1>5, <1>6, <1>8, <1>10, <1>11, <1>12, <1>13, <1>14, <1>15, <1>16, <1>17, <1>18, <1>19,
     <1>20, <1>21, <1>22, <1>23 DEF Next

\* While the program dims every monitor is dimmed, one plugged in meanwhile too,
\* as soon as it has its size.
THEOREM DimsAll == Spec => []AllDim
<1>1. Kept /\ AllCovered => AllDim
  <2> SUFFICES ASSUME Kept, AllCovered, active, Layered, pixels,
                      NEW o \in Outputs, In(o), events[o] = <<>>
               PROVE  drawn[o] # {}
    BY DEF AllDim
  <2>1. Lights(o) /\ Covered(o)
    BY DEF Kept, AllCovered
  <2>2. \A x : ~Has(events[o], x)
    BY DEF Has
  <2>3. QED
    BY <2>1, <2>2 DEF Lights, Covered
<1>2. QED
  BY <1>1, TypeInit, TypeStep, KeptInit, KeptStep, CoveredInit, CoveredStep, PTL DEF Spec

\* However outputs come and go during a fade, the monitors dim as one.
THEOREM DimsTogether == Spec => []DimTogether
<1>1. EquallyDim /\ AllDim /\ OneFade => DimTogether
  BY DEF DimTogether
<1>2. QED
  BY <1>1, DarkTogether, DimsAll, FadesAlone, PTL
==============================================================================
