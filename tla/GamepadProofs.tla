---------------------------- MODULE GamepadProofs ----------------------------
(***************************************************************************)
(* Theorems about the two modules on controllers: Pad, for every axis,     *)
(* dead zone and interval, and Pads, for any devices, nodes, symlinks and  *)
(* sections.                                                               *)
(***************************************************************************)
EXTENDS Pad, Pads, TLAPS

-----------------------------------------------------------------------------
(* The threshold *)

LEMMA AxisFacts ==
    /\ Half \in Int /\ Half > 0 /\ Low \in Int /\ High \in Int /\ Flat \in Int
    /\ Low >= -Half /\ Low < Half /\ High >= -Half /\ High < Half
    /\ Low <= High /\ High - Low < Half /\ Flat >= 0
    /\ Deadzone \in Int /\ Interval \in Nat /\ MaxAge \in Nat /\ Interval <= MaxAge
  BY AxisAssumption, DeadzoneAssumption, AgesAssumption

\* Differences that fit an i32 are what they seem.
LEMMA WrapExact ==
    ASSUME NEW x \in Int, -Half <= x, x < Half
    PROVE  Wrap(x) = x
  <1>1. x + Half >= 0 /\ x + Half < 2 * Half /\ x + Half \in Int /\ 2 * Half > 0
    BY AxisFacts
  <1>2. (x + Half) % (2 * Half) = x + Half
    BY <1>1, AxisFacts
  <1> QED BY <1>2, AxisFacts DEF Wrap

LEMMA ThresholdType ==
    ASSUME NEW low \in Int, NEW high \in Int, NEW flat \in Int, NEW hundredths \in Int
    PROVE  /\ Threshold(low, high, flat, hundredths) \in Int
           /\ Threshold(low, high, flat, hundredths) >= 1
  <1> DEFINE span == Greater(Wrap(high - low), 0)
             travels == IF low < 0 THEN span ELSE 2 * span
  <1>1. Wrap(high - low) \in Int
    BY AxisFacts DEF Wrap
  <1>2. span \in Int
    BY <1>1 DEF Greater
  <1>3. travels \in Int
    BY <1>2
  <1> HIDE DEF travels
  <1>4. travels * hundredths \in Int
    BY <1>3
  <1>5. (travels * hundredths + 199) \div 200 \in Int
    BY <1>4
  <1> HIDE DEF span
  <1> QED BY <1>5 DEF Threshold, Greater, travels, span

LEMMA EnoughType == Enough \in Int /\ Enough >= 1
  BY AxisFacts, ThresholdType DEF Enough

\* An axis that rests at zero and is pushed to its farther end has moved enough,
\* whatever dead zone Config::tidy lets through.  (threshold_for takes an axis that
\* starts at zero to rest there; one that rests in the middle has half that way to
\* go, and is not spoken of.)
THEOREM FullPush ==
    ASSUME NEW low \in Int, NEW high \in Int, NEW flat \in Int, NEW hundredths \in 2 .. 90,
           low <= 0, high >= 0, high - low < Half,
           Greater(-low, high) > 0, flat <= Greater(-low, high)
    PROVE  Threshold(low, high, flat, hundredths) <= Greater(-low, high)
  <1> DEFINE far == Greater(-low, high)
             span == Greater(Wrap(high - low), 0)
             travels == IF low < 0 THEN span ELSE 2 * span
  <1>1. Wrap(high - low) = high - low
    BY WrapExact, AxisFacts
  <1>2. span = high - low
    BY <1>1 DEF Greater
  <1>3. travels \in Int /\ travels >= 0 /\ travels <= 2 * far /\ far \in Int
    BY <1>2 DEF Greater
  <1> HIDE DEF travels
  <1>4. travels * hundredths <= travels * 90
    <2>1. hundredths \in Int /\ 90 - hundredths >= 0
      OBVIOUS
    <2>2. travels * (90 - hundredths) >= 0
      BY <1>3, <2>1
    <2> QED BY <1>3, <2>1, <2>2
  <1>5. travels * hundredths \in Int /\ travels * hundredths + 199 <= 180 * far + 199
    BY <1>3, <1>4
  <1>6. (travels * hundredths + 199) \div 200 <= far
    <2> DEFINE t == travels * hundredths + 199
    <2>1. t \in Int /\ t < 200 * (far + 1)
      BY <1>3, <1>5 DEF Greater
    <2> HIDE DEF t
    <2>2. t \div 200 < far + 1
      BY <1>3, <2>1
    <2> QED BY <1>3, <2>1, <2>2 DEF t
  <1>7. Threshold(low, high, flat, hundredths) =
            Greater(Greater(flat, (travels * hundredths + 199) \div 200), 1)
    BY DEF Threshold, travels
  <1>8. far >= 1 /\ flat <= far
    BY <1>3
  <1>9. (travels * hundredths + 199) \div 200 \in Int
    BY <1>5
  <1> HIDE DEF far
  <1>10. Threshold(low, high, flat, hundredths) <= far
    BY <1>3, <1>6, <1>7, <1>8, <1>9 DEF Greater
  <1> QED BY <1>10 DEF far

-----------------------------------------------------------------------------
(* Types *)

\* Every variable of a pad keeps its type.
THEOREM PadTypeCorrect == PadSpec => []PadTypeOK
  <1> USE DEF PadTypeOK, Counts, Ages
  <1> DEFINE Flags == {seen, polling, activity, meant} \subseteq BOOLEAN
             Numbers == {base, lo, hi} \subseteq Counts /\ {reported, active, told} \subseteq Ages
  <1>1. PadInit => PadTypeOK
    <2>1. PadInit => Flags
      BY DEF PadInit, Flags
    <2>2. PadInit => Numbers
      BY AxisFacts DEF PadInit, Numbers
    <2> QED BY <2>1, <2>2 DEF Flags, Numbers
  <1>2. PadTypeOK /\ [PadNext]_padVars => PadTypeOK'
    <2> SUFFICES ASSUME PadTypeOK, [PadNext]_padVars PROVE PadTypeOK'
      OBVIOUS
    <2>1. ASSUME NEW v \in Counts, ReadAxis(v) PROVE PadTypeOK'
      BY AxisFacts, EnoughType, <2>1 DEF ReadAxis, Greater, Lesser, ages
    <2>2. ASSUME NEW value \in 0 .. 2, ReadKey(value) PROVE PadTypeOK'
      BY AxisFacts, EnoughType, <2>2 DEF ReadKey, motion, ages
    <2>3. CASE PollEnds
      <3>1. Flags'
        BY <2>3 DEF PollEnds, motion, Flags
      <3>2. Numbers'
        BY <2>3, AxisFacts DEF PollEnds, MayReport, motion, ages, Numbers
      <3> QED BY <3>1, <3>2 DEF Flags, Numbers
    <2>4. CASE Unplugged
      <3>1. Flags'
        BY <2>4 DEF Unplugged, Flags
      <3>2. Numbers'
        BY <2>4, AxisFacts DEF Unplugged, Numbers
      <3> QED BY <3>1, <3>2 DEF Flags, Numbers
    <2>5. CASE Tick
      BY AxisFacts, EnoughType, <2>5 DEF Tick, Older, Lesser, motion, poll
    <2>6. CASE UNCHANGED padVars
      BY AxisFacts, EnoughType, <2>6 DEF padVars, motion, poll, ages
    <2> QED BY <2>1, <2>2, <2>3, <2>4, <2>5, <2>6 DEF PadNext
  <1> QED BY <1>1, <1>2, PTL DEF PadSpec

-----------------------------------------------------------------------------
(* Movement *)

LEMMA MovedExact ==
    ASSUME PadTypeOK, NEW v \in Counts
    PROVE  Moved(v) <=> (v - base >= Enough \/ base - v >= Enough)
  <1>1. v \in Int /\ base \in Int /\ v - base < Half /\ -Half < v - base
    BY AxisFacts DEF PadTypeOK, Counts
  <1>2. Wrap(v - base) = v - base
    BY <1>1, AxisFacts, WrapExact
  <1> QED BY <1>1, <1>2, EnoughType, AxisFacts DEF Moved, Abs

\* The readings since one last counted all lie within a dead zone of the
\* baseline, which is one of them; what a poll has found has a reason.
Anchored ==
    /\ seen => /\ lo <= base /\ base <= hi
               /\ hi - base < Enough /\ base - lo < Enough
    /\ NoFalseWake

LEMMA AnchoredInvariant == PadSpec => []Anchored
  <1>1. PadInit => Anchored
    BY AxisFacts, EnoughType DEF PadInit, Anchored, NoFalseWake
  <1>2. PadTypeOK /\ Anchored /\ [PadNext]_padVars => Anchored'
    <2> SUFFICES ASSUME PadTypeOK, Anchored, [PadNext]_padVars PROVE Anchored'
      OBVIOUS
    <2> USE DEF PadTypeOK, Counts, Anchored, NoFalseWake
    <2>1. ASSUME NEW v \in Counts, ReadAxis(v) PROVE Anchored'
      <3>1. Moved(v) <=> (v - base >= Enough \/ base - v >= Enough)
        BY MovedExact
      <3>2. CASE seen /\ Moved(v)
        <4>1. base' = v /\ lo' = v /\ hi' = v /\ seen'
          BY <2>1, <3>2 DEF ReadAxis
        <4>2. Greater(hi, v) - Lesser(lo, v) >= Enough
          BY AxisFacts, EnoughType, <3>1, <3>2 DEF Greater, Lesser
        <4>3. meant'
          BY <2>1, <3>2, <4>2 DEF ReadAxis
        <4> QED BY <4>1, <4>3, EnoughType, AxisFacts
      <3>3. CASE seen /\ ~Moved(v)
        <4>1. base' = base /\ lo' = Lesser(lo, v) /\ hi' = Greater(hi, v) /\ activity' = activity
          BY <2>1, <3>3 DEF ReadAxis
        <4>2. activity => meant'
          BY AxisFacts, EnoughType, <2>1 DEF ReadAxis
        <4> QED BY AxisFacts, EnoughType, <3>1, <3>3, <4>1, <4>2 DEF Greater, Lesser
      <3>4. CASE ~seen
        <4>1. base' = v /\ lo' = v /\ hi' = v /\ activity' = activity
          BY <2>1, <3>4 DEF ReadAxis
        <4>2. activity => meant'
          BY AxisFacts, EnoughType, <2>1 DEF ReadAxis
        <4> QED BY <4>1, <4>2, EnoughType, AxisFacts
      <3> QED BY <3>2, <3>3, <3>4
    <2>2. ASSUME NEW value \in 0 .. 2, ReadKey(value) PROVE Anchored'
      BY AxisFacts, EnoughType, <2>2 DEF ReadKey, motion, ages
    <2>3. CASE PollEnds
      BY AxisFacts, EnoughType, <2>3 DEF PollEnds, motion
    <2>4. CASE Unplugged
      BY AxisFacts, EnoughType, <2>4 DEF Unplugged
    <2>5. CASE Tick
      BY AxisFacts, EnoughType, <2>5 DEF Tick, motion, poll
    <2>6. CASE UNCHANGED padVars
      BY AxisFacts, EnoughType, <2>6 DEF padVars, motion, poll
    <2> QED BY <2>1, <2>2, <2>3, <2>4, <2>5, <2>6 DEF PadNext
  <1> QED BY <1>1, <1>2, PadTypeCorrect, PTL DEF PadSpec

\* A push is noticed within two dead zones, however slow it is.
THEOREM SlowPushesCount == PadSpec => []SlowPushNoticed
  <1>1. PadTypeOK /\ Anchored => SlowPushNoticed
    BY AxisFacts, EnoughType DEF PadTypeOK, Counts, Anchored, SlowPushNoticed
  <1> QED BY <1>1, AnchoredInvariant, PadTypeCorrect, PTL

\* No poll finds activity the user did not mean.
THEOREM NoiseNeverWakes == PadSpec => []NoFalseWake
  <1>1. Anchored => NoFalseWake
    BY DEF Anchored
  <1> QED BY <1>1, AnchoredInvariant, PTL

-----------------------------------------------------------------------------
(* Reports *)

\* The loop was told no earlier than this pad last reported.
InTime == ToldInTime /\ told <= reported

\* Between two reports that are let through, the countdowns run at most
\* Interval ticks ahead of the user.
THEOREM ReportsLagLittle == PadSpec => []ToldInTime
  <1> USE DEF PadTypeOK, Ages, InTime, ToldInTime
  <1>1. PadInit => InTime
    BY AxisFacts, EnoughType DEF PadInit
  <1>2. PadTypeOK /\ InTime /\ [PadNext]_padVars => InTime'
    <2> SUFFICES ASSUME PadTypeOK, InTime, [PadNext]_padVars PROVE InTime'
      OBVIOUS
    <2>1. ASSUME NEW v \in Counts, ReadAxis(v) PROVE InTime'
      BY AxisFacts, <2>1 DEF ReadAxis, ages
    <2>2. ASSUME NEW value \in 0 .. 2, ReadKey(value) PROVE InTime'
      BY AxisFacts, <2>2 DEF ReadKey, ages
    <2>3. CASE PollEnds
      BY AxisFacts, EnoughType, <2>3 DEF PollEnds, MayReport, ages
    <2>4. CASE Unplugged
      BY AxisFacts, EnoughType, <2>4 DEF Unplugged
    <2>5. CASE Tick
      BY AxisFacts, EnoughType, <2>5 DEF Tick, Older, Lesser
    <2>6. CASE UNCHANGED padVars
      BY AxisFacts, EnoughType, <2>6 DEF padVars, ages
    <2> QED BY <2>1, <2>2, <2>3, <2>4, <2>5, <2>6 DEF PadNext
  <1>3. InTime => ToldInTime
    OBVIOUS
  <1> QED BY <1>1, <1>2, <1>3, PadTypeCorrect, PTL DEF PadSpec

-----------------------------------------------------------------------------
(* Pads: which controllers are watched *)

LEMMA Sections == ASSUME TypeOK PROVE config \in Gamepad
  BY GamepadAssumption DEF TypeOK

LEMMA ResolvesType ==
    ASSUME TypeOK, NEW p \in Paths
    PROVE  Resolves(p) \in Devices \cup {Nobody}
  BY DevicesAssumption DEF TypeOK, Resolves, Paths

\* What a rescan leaves watched: pads there were, all of them whose path still
\* leads somewhere, and new ones on the paths wanted that had none; every path
\* wanted, if the section is enabled.
LEMMA RescanFacts ==
    ASSUME TypeOK, OnePadPerPath
    PROVE  LET after == Rescanned(config, pads) IN
           /\ after \subseteq PadType
           /\ \A j, k \in after : j.path = k.path => j = k
           /\ \A k \in after \ pads :
                /\ config.enable /\ k.live /\ k.feel = config.feel
                /\ k.path \in Wanted(config) /\ k.device = Resolves(k.path)
           /\ config.enable => \A p \in Wanted(config) : \E k \in after : k.path = p
           /\ \A k \in pads : Resolves(k.path) # Nobody => k \in after
  <1> DEFINE new == {[path |-> p, device |-> Resolves(p), live |-> TRUE, feel |-> config.feel]
                       : p \in {q \in Wanted(config) : \A k \in Kept(pads) : k.path # q}}
             after == Rescanned(config, pads)
  <1>1. Wanted(config) \subseteq Paths /\ \A p \in Wanted(config) : Resolves(p) \in Devices
    BY Sections, ResolvesType DEF Wanted, Candidates, Paths, Gamepad
  <1>2. config.feel \in {"slow", "quick"} /\ config.enable \in BOOLEAN
    BY Sections DEF Gamepad
  <1>3. new \subseteq PadType
    <2> SUFFICES ASSUME NEW p \in Wanted(config)
                 PROVE  [path |-> p, device |-> Resolves(p), live |-> TRUE, feel |-> config.feel] \in PadType
      OBVIOUS
    <2>1. p \in Paths /\ Resolves(p) \in Devices
      BY <1>1
    <2> QED BY <1>2, <2>1 DEF PadType
  <1>4. /\ \A k \in new : /\ k.live /\ k.feel = config.feel /\ k.path \in Wanted(config)
                          /\ k.device = Resolves(k.path)
                          /\ \A j \in Kept(pads) : j.path # k.path
        /\ \A j, k \in new : j.path = k.path => j = k
    <2>1. \A k \in new : \E p \in Wanted(config) :
             /\ k = [path |-> p, device |-> Resolves(p), live |-> TRUE, feel |-> config.feel]
             /\ \A j \in Kept(pads) : j.path # p
      OBVIOUS
    <2> HIDE DEF new
    <2>2. \A k \in new : /\ k.live /\ k.feel = config.feel /\ k.path \in Wanted(config)
                          /\ k.device = Resolves(k.path)
                          /\ \A j \in Kept(pads) : j.path # k.path
      BY <2>1
    <2>3. ASSUME NEW j \in new, NEW k \in new, j.path = k.path PROVE j = k
      <3>1. PICK p : j = [path |-> p, device |-> Resolves(p), live |-> TRUE, feel |-> config.feel]
        BY <2>1
      <3>2. PICK q : k = [path |-> q, device |-> Resolves(q), live |-> TRUE, feel |-> config.feel]
        BY <2>1
      <3>3. p = q
        BY <2>3, <3>1, <3>2
      <3> QED BY <3>1, <3>2, <3>3
    <2> QED BY <2>2, <2>3
  <1>5. \A p \in Wanted(config) : (\E k \in Kept(pads) : k.path = p) \/ (\E k \in new : k.path = p)
    <2> SUFFICES ASSUME NEW p \in Wanted(config), \A k \in Kept(pads) : k.path # p
                 PROVE  \E k \in new : k.path = p
      OBVIOUS
    <2>1. [path |-> p, device |-> Resolves(p), live |-> TRUE, feel |-> config.feel] \in new
      OBVIOUS
    <2> QED BY <2>1
  <1>6. Kept(pads) \subseteq pads
    BY DEF Kept
  <1>7. after = IF config.enable THEN Kept(pads) \cup new ELSE pads
    BY <1>2 DEF Rescanned
  <1> HIDE DEF new, after
  <1>8. after \subseteq PadType
    BY <1>3, <1>6, <1>7 DEF TypeOK
  <1>9. \A j, k \in after : j.path = k.path => j = k
    BY <1>4, <1>6, <1>7 DEF OnePadPerPath
  <1>10. \A k \in after \ pads : config.enable /\ k \in new
    BY <1>2, <1>6, <1>7
  <1>11. config.enable => \A p \in Wanted(config) : \E k \in after : k.path = p
    BY <1>5, <1>7
  <1>12. \A k \in pads : Resolves(k.path) # Nobody => k \in after
    BY <1>7 DEF Kept
  <1> QED BY <1>4, <1>8, <1>9, <1>10, <1>11, <1>12 DEF after

-----------------------------------------------------------------------------
(* Types and paths *)

Paired == TypeOK /\ OnePadPerPath

LEMMA PairedInvariant == Spec => []Paired
  <1>1. Init => Paired
    BY GamepadAssumption DEF Init, Paired, TypeOK, OnePadPerPath, Gamepad
  <1>2. Paired /\ [Next]_vars => Paired'
    <2> SUFFICES ASSUME TypeOK, OnePadPerPath, [Next]_vars PROVE TypeOK' /\ OnePadPerPath'
      BY DEF Paired
    <2> USE DEF TypeOK, OnePadPerPath, machine, sources, batch
    <2>1. ASSUME NEW d \in Devices, NEW n \in Nodes, Plug(d, n) PROVE TypeOK' /\ OnePadPerPath'
      BY <2>1 DEF Plug
    <2>2. ASSUME NEW d \in Devices, Grant(d) \/ Revoke(d) PROVE TypeOK' /\ OnePadPerPath'
      BY <2>2 DEF Grant, Revoke
    <2>3. ASSUME NEW d \in Devices, Unplug(d) PROVE TypeOK' /\ OnePadPerPath'
      <3>1. pads' \subseteq PadType
        <4> SUFFICES ASSUME NEW j \in pads PROVE [j EXCEPT !.live = @ /\ j.device # d] \in PadType
          BY <2>3 DEF Unplug
        <4>1. j \in PadType /\ (j.live /\ j.device # d) \in BOOLEAN
          BY DEF PadType
        <4> QED BY <4>1 DEF PadType
      <3>2. OnePadPerPath'
        BY <2>3 DEF Unplug, PadType
      <3>3. late' \subseteq Paths
        BY <2>3 DEF Unplug, PadType
      <3> QED BY <2>3, <3>1, <3>2, <3>3 DEF Unplug
    <2>4. CASE Watch
      BY <2>4 DEF Watch
    <2>5. ASSUME pads' = Rescanned(config, pads) PROVE pads' \subseteq PadType /\ OnePadPerPath'
      BY ONLY <2>5, TypeOK, OnePadPerPath, RescanFacts DEF OnePadPerPath
    <2>6. CASE Scan
      BY <2>5, <2>6 DEF Scan
    <2>7. CASE WatchFires
      BY <2>5, <2>7 DEF WatchFires, StillLate
    <2>8. CASE SettleDue
      BY <2>8 DEF SettleDue
    <2>12. CASE SettleFires
      BY <2>5, <2>12 DEF SettleFires, StillLate
    <2>9. ASSUME NEW path \in Paths, PadFails(path) PROVE TypeOK' /\ OnePadPerPath'
      BY <2>9 DEF PadFails
    <2>10. ASSUME NEW c \in Reloads, Reload(c) PROVE TypeOK' /\ OnePadPerPath'
      <3>1. c.enable \in BOOLEAN
        BY GamepadAssumption DEF Gamepad
      <3> QED BY <2>10, <3>1 DEF Reload
    <2>11. CASE UNCHANGED vars
      BY <2>11 DEF vars
    <2> QED BY <2>1, <2>2, <2>3, <2>4, <2>6, <2>7, <2>8, <2>9, <2>10, <2>11, <2>12 DEF Next
  <1> QED BY <1>1, <1>2, PTL DEF Spec

\* The machine and the loop keep their types.
THEOREM PadsTypeCorrect == Spec => []TypeOK
  <1>1. Paired => TypeOK
    BY DEF Paired
  <1> QED BY <1>1, PairedInvariant, PTL

\* No path is ever open twice.
THEOREM PathsOpenOnce == Spec => []OnePadPerPath
  <1>1. Paired => OnePadPerPath
    BY DEF Paired
  <1> QED BY <1>1, PairedInvariant, PTL

-----------------------------------------------------------------------------
(* What is watched *)

\* A live pad is of the device behind its path; a dead one, or a path wanted and
\* not watched, is something the loop has yet to look at, unless it came late.  In
\* a batch with the timer, a dead pad that came neither late nor in time for the
\* batch has news that is not in the batch either.
Current ==
    /\ FiltersInForce
    /\ scanning => pads = {} /\ config.enable /\ ~due
    /\ news \/ settling => watching
    /\ due => settling
    /\ draining => due
    /\ \A k \in pads : k.path \in Nodes \cup config.devices
    /\ \A k \in pads : k.live => Resolves(k.path) = k.device
    /\ \A k \in pads : ~k.live /\ k.path \notin late => ~watching \/ news \/ settling
    /\ due => \A k \in pads : ~k.live => k \in found \/ k.path \in late \/ (news /\ ~draining)
    /\ watching /\ ~scanning /\ ~news /\ ~settling =>
         \A p \in Wanted(config) \ late : \E k \in pads : k.path = p

\* A rescan makes good whatever there was to make good.
LEMMA RescanCurrent ==
    ASSUME Paired, Current, UNCHANGED <<machine, config, watching>>,
           pads' = Rescanned(config, pads), ~scanning', config.enable,
           news' \/ settling' => watching, due' => settling', draining' => due',
           \A k \in pads : ~k.live /\ k \in pads' =>
             /\ k.path \notin late' => ~watching \/ news' \/ settling'
             /\ due' => k \in found' \/ k.path \in late' \/ (news' /\ ~draining')
    PROVE  Current'
  <1> USE DEF machine
  <1>1. TypeOK /\ OnePadPerPath
    BY DEF Paired
  <1>2. /\ \A k \in pads' \ pads :
             /\ config.enable /\ k.live /\ k.feel = config.feel
             /\ k.path \in Wanted(config) /\ k.device = Resolves(k.path)
        /\ config.enable => \A p \in Wanted(config) : \E k \in pads' : k.path = p
    BY <1>1, RescanFacts
  <1>3. (\A p \in Paths : Resolves(p)' = Resolves(p)) /\ Wanted(config)' = Wanted(config)
    BY DEF Resolves, Present, Wanted, Candidates, Admits
  <1>4. \A p \in Wanted(config) : p \in Nodes \cup config.devices /\ Admits(config, p, Resolves(p))
    BY DEF Wanted, Candidates
  <1>5. pads \cup pads' \subseteq PadType
    BY <1>1, RescanFacts DEF TypeOK
  <1>6. FiltersInForce'
    BY <1>1, <1>2, <1>4 DEF Current, FiltersInForce, Admits, NameAllowed, Matches
  <1>7. \A k \in pads' : k.path \in Nodes \cup config.devices
    BY <1>2, <1>4 DEF Current
  <1>8. \A k \in pads' : k.live => Resolves(k.path) = k.device
    BY <1>2, <1>4 DEF Current
  <1>9. \A k \in pads' : ~k.live =>
            /\ k.path \notin late' => ~watching \/ news' \/ settling'
            /\ due' => k \in found' \/ k.path \in late' \/ (news' /\ ~draining')
    BY <1>2
  <1>10. \A k \in pads' : k.path \in Paths
    BY <1>5 DEF PadType
  <1> QED BY <1>2, <1>3, <1>6, <1>7, <1>8, <1>9, <1>10 DEF Current

LEMMA CurrentInvariant == Spec => []Current
  <1>1. Init => Current
    BY DEF Init, Current, FiltersInForce
  <1>2. Paired /\ Current /\ [Next]_vars => Current'
    <2> SUFFICES ASSUME Paired, Current, [Next]_vars PROVE Current'
      OBVIOUS
    <2> USE DEF machine, sources, batch
    <2>0. TypeOK /\ pads \subseteq PadType /\ config \in Gamepad
      BY Sections DEF Paired, TypeOK
    <2>1. ASSUME NEW d \in Devices, NEW n \in Nodes, Plug(d, n) PROVE Current'
      <3>1. \A k \in pads : k.live => Resolves(k.path)' = k.device
        <4> SUFFICES ASSUME NEW k \in pads, k.live PROVE Resolves(k.path)' = k.device
          OBVIOUS
        <4>1. Resolves(k.path) = k.device /\ k.device \in Devices
          BY <2>0 DEF Current, PadType
        <4>2. \A m \in Nodes : at[m] # Nobody => at'[m] = at[m]
          BY <2>0, <2>1 DEF Plug, TypeOK
        <4>3. Present \subseteq Present'
          BY <4>2, DevicesAssumption DEF Present
        <4> QED BY <4>1, <4>2, <4>3, DevicesAssumption DEF Resolves
      <3>2. FiltersInForce'
        BY <2>1 DEF Plug, Current, FiltersInForce, Admits, NameAllowed, Matches
      <3> QED BY <2>1, <3>1, <3>2 DEF Plug, Current
    <2>2. ASSUME NEW d \in Devices, Grant(d) \/ Revoke(d) PROVE Current'
      <3>1. \A p : Resolves(p)' = Resolves(p)
        BY <2>2 DEF Grant, Revoke, Resolves, Present
      <3>2. FiltersInForce'
        BY <2>2 DEF Grant, Revoke, Current, FiltersInForce, Admits, NameAllowed, Matches
      <3> QED BY <2>2, <3>1, <3>2 DEF Grant, Revoke, Current
    <2>3. ASSUME NEW d \in Devices, Unplug(d) PROVE Current'
      <3>1. \A k \in pads' : \E j \in pads :
               /\ k.path = j.path /\ k.device = j.device /\ k.feel = j.feel
               /\ k.live => j.live /\ j.device # d
               /\ ~k.live => k = j \/ k.device = d
        <4> SUFFICES ASSUME NEW k \in pads'
                     PROVE  \E j \in pads :
                                /\ k.path = j.path /\ k.device = j.device /\ k.feel = j.feel
                                /\ k.live => j.live /\ j.device # d
                                /\ ~k.live => k = j \/ k.device = d
          OBVIOUS
        <4>1. PICK j \in pads : k = [j EXCEPT !.live = @ /\ j.device # d]
          BY <2>3 DEF Unplug
        <4>2. j \in PadType
          BY <2>0
        <4>3. k.path = j.path /\ k.device = j.device /\ k.feel = j.feel
          BY <4>1, <4>2 DEF PadType
        <4>4. k.live => j.live /\ j.device # d
          BY <4>1, <4>2 DEF PadType
        <4>5. ~k.live => k = j \/ k.device = d
          <5> SUFFICES ASSUME j.device # d PROVE k = j
            BY <4>1, <4>2, <4>3 DEF PadType
          <5> QED BY <4>1, <4>2 DEF PadType
        <4> QED BY <4>3, <4>4, <4>5
      <3>2. \A j \in pads : j.live /\ j.device # d => Resolves(j.path)' = j.device
        <4> SUFFICES ASSUME NEW j \in pads, j.live, j.device # d
                     PROVE  Resolves(j.path)' = j.device
          OBVIOUS
        <4>1. Resolves(j.path) = j.device /\ j.device \in Devices
          BY <2>0 DEF Current, PadType
        <4>2. \A m \in Nodes : at[m] # d => at'[m] = at[m]
          BY <2>3 DEF Unplug
        <4>3. \A e \in Present : e # d => e \in Present'
          BY <4>2 DEF Present
        <4> QED BY <4>1, <4>2, <4>3, DevicesAssumption DEF Resolves
      <3>3. FiltersInForce'
        BY <2>3, <3>1 DEF Unplug, Current, FiltersInForce, Admits, NameAllowed, Matches
      <3>4. \A k \in pads' : k.live => Resolves(k.path)' = k.device
        BY <2>3, <3>1, <3>2 DEF Unplug, Current
      <3>5. scanning' => pads' = {} /\ config'.enable /\ ~due'
        BY <2>3 DEF Unplug, Current
      <3>6. due' => \A k \in pads' : ~k.live => k \in found' \/ k.path \in late' \/ (news' /\ ~draining')
        <4> SUFFICES ASSUME due, NEW k \in pads', ~k.live
                     PROVE  k \in found' \/ k.path \in late' \/ (news' /\ ~draining')
          BY <2>3 DEF Unplug
        <4>1. PICK j : /\ j \in pads /\ k.path = j.path /\ k.device = j.device
                       /\ k = j \/ k.device = d
          BY <3>1
        <4>2. news' /\ watching
          BY <2>3 DEF Unplug, Current
        <4>3. CASE ~draining
          BY <2>3, <4>2, <4>3 DEF Unplug
        <4>4. CASE draining /\ k.device = d
          <5>1. j \in {h \in pads : h.device = d} /\ k.path = j.path
            BY <4>1, <4>4, Zenon
          <5>2. late' = late \cup {i.path : i \in {h \in pads : h.device = d}}
            BY <2>3, <4>4 DEF Unplug
          <5> QED BY <5>1, <5>2
        <4>5. CASE draining /\ k = j
          BY <2>3, <4>1, <4>5 DEF Unplug, Current
        <4> QED BY <4>1, <4>3, <4>4, <4>5
      <3>7. \A k \in pads' : k.path \in Nodes \cup config'.devices
        BY <2>3, <3>1 DEF Unplug, Current
      <3> QED BY <2>3, <3>3, <3>4, <3>5, <3>6, <3>7 DEF Unplug, Current
    <2>4. CASE Watch
      <3>1. FiltersInForce' /\ scanning'
        BY <2>0, <2>4 DEF Watch, Current, FiltersInForce, Admits, NameAllowed, Matches, Gamepad
      <3>2. \A p : Resolves(p)' = Resolves(p)
        BY <2>4 DEF Watch, Resolves, Present
      <3> QED BY <2>4, <3>1, <3>2 DEF Watch, Current
    <2>5. CASE Scan
      BY <2>5, RescanCurrent DEF Scan, Current
    <2>6. CASE WatchFires
      <3>1. config.enable
        BY <2>0, <2>6 DEF WatchFires, Current, FiltersInForce, Gamepad
      <3>2. \A k \in pads : ~k.live /\ k \in pads' /\ due' => k \in found' \/ k.path \in late'
        BY <2>6 DEF WatchFires, Current, StillLate
      <3> QED BY <2>6, <3>1, <3>2, RescanCurrent DEF WatchFires, Current
    <2>7. CASE SettleDue
      <3>1. FiltersInForce'
        BY <2>7 DEF SettleDue, Current, FiltersInForce, Admits, NameAllowed, Matches
      <3>2. (\A p : Resolves(p)' = Resolves(p)) /\ Wanted(config)' = Wanted(config)
        BY <2>7 DEF SettleDue, Resolves, Present, Wanted, Candidates, Admits
      <3> QED BY <2>7, <3>1, <3>2 DEF SettleDue, Current
    <2>8. CASE SettleFires
      <3>1. config.enable
        BY <2>0, <2>8 DEF SettleFires, Current, FiltersInForce, Gamepad
      <3>2. \A k \in pads : ~k.live /\ k \in pads' => k.path \in late' \/ news'
        BY <2>8 DEF SettleFires, Current, StillLate
      <3> QED BY <2>8, <3>1, <3>2, RescanCurrent DEF SettleFires, Current
    <2>9. ASSUME NEW path \in Paths, PadFails(path) PROVE Current'
      <3>1. FiltersInForce'
        BY <2>9 DEF PadFails, Current, FiltersInForce, Admits, NameAllowed, Matches
      <3>2. (\A p : Resolves(p)' = Resolves(p)) /\ Wanted(config)' = Wanted(config)
        BY <2>9 DEF PadFails, Resolves, Present, Wanted, Candidates, Admits
      <3>3. ~watching \/ news \/ settling \/ path \in late
        BY <2>9 DEF PadFails, Current
      <3>4. watching' /\ ~scanning' /\ ~news' /\ ~settling' =>
              \A p \in Wanted(config) \ late : \E k \in pads' : k.path = p
        BY <2>9, <3>3 DEF PadFails, Current
      <3>5. due' => \A k \in pads' : ~k.live =>
                        k \in found' \/ k.path \in late' \/ (news' /\ ~draining')
        BY <2>9 DEF PadFails, Current
      <3> QED BY <2>9, <3>1, <3>2, <3>4, <3>5 DEF PadFails, Current
    <2>10. ASSUME NEW c \in Reloads, Reload(c) PROVE Current'
      BY <2>10 DEF Reload, Current, FiltersInForce
    <2>11. CASE UNCHANGED vars
      <3>1. FiltersInForce'
        BY <2>11 DEF vars, Current, FiltersInForce, Admits, NameAllowed, Matches
      <3>2. (\A p : Resolves(p)' = Resolves(p)) /\ Wanted(config)' = Wanted(config)
        BY <2>11 DEF vars, Resolves, Present, Wanted, Candidates, Admits
      <3> QED BY <2>11, <3>1, <3>2 DEF vars, Current
    <2> QED BY <2>1, <2>2, <2>3, <2>4, <2>5, <2>6, <2>7, <2>8, <2>9, <2>10, <2>11 DEF Next
  <1> QED BY <1>1, <1>2, PairedInvariant, PTL DEF Spec

\* Nothing is watched that the section in force does not ask for.
THEOREM OnlyAsAsked == Spec => []FiltersInForce
  <1>1. Current => FiltersInForce
    BY DEF Current
  <1> QED BY <1>1, CurrentInvariant, PTL

\* Whenever the loop has caught up with the machine, every path it watches is for
\* the device there now, and no path is left out but those QuietMeansWatched names.
THEOREM CaughtUpMeansWatched == Spec => []QuietMeansWatched
  <1>1. Current => QuietMeansWatched
    BY DEF Current, QuietMeansWatched, Quiet
  <1> QED BY <1>1, CurrentInvariant, PTL

\* No rescan, failure or lost ACL takes a working device off the loop.
THEOREM WorkingStaysWatched == Spec => KeepsWhatWorks
  <1> DEFINE Stays(k) == \E j \in pads' : j.path = k.path /\ j.device = k.device
  <1>1. Paired /\ Current /\ [Next]_vars
          => [config' = config => \A k \in pads : k.live => Stays(k)]_vars
    <2> SUFFICES ASSUME Paired, Current, Next, config' = config, NEW k \in pads, k.live
                 PROVE  Stays(k)
      BY DEF vars
    <2> USE DEF sources
    <2>0. TypeOK /\ OnePadPerPath /\ k \in PadType
      BY DEF Paired, TypeOK
    <2>1. ASSUME pads' = pads PROVE Stays(k)
      BY <2>1
    <2>2. ASSUME pads' = Rescanned(config, pads) PROVE Stays(k)
      <3>1. Resolves(k.path) # Nobody
        BY <2>0, DevicesAssumption DEF Current, PadType
      <3> QED BY <2>0, <2>2, <3>1, RescanFacts
    <2>3. ASSUME NEW d \in Devices, Unplug(d) PROVE Stays(k)
      <3>1. [k EXCEPT !.live = @ /\ k.device # d] \in pads'
        BY <2>3 DEF Unplug
      <3>2. LET j == [k EXCEPT !.live = @ /\ k.device # d] IN j.path = k.path /\ j.device = k.device
        BY <2>0 DEF PadType
      <3> QED BY <3>1, <3>2
    <2>4. ASSUME NEW path \in Paths, PadFails(path) PROVE Stays(k)
      <3>1. k.path # path
        BY <2>0, <2>4 DEF PadFails, OnePadPerPath
      <3> QED BY <2>4, <3>1 DEF PadFails
    <2>5. ASSUME NEW c \in Reloads, Reload(c) PROVE FALSE
      BY <2>5 DEF Reload
    <2>6. ASSUME NEW d \in Devices, (\E n \in Nodes : Plug(d, n)) \/ Grant(d) \/ Revoke(d) PROVE Stays(k)
      BY <2>1, <2>6 DEF Plug, Grant, Revoke
    <2>7. CASE Watch \/ SettleDue
      BY <2>1, <2>7 DEF Watch, SettleDue
    <2>8. CASE Scan \/ WatchFires \/ SettleFires
      BY <2>2, <2>8 DEF Scan, WatchFires, SettleFires
    <2> QED BY <2>3, <2>4, <2>5, <2>6, <2>7, <2>8 DEF Next
  <1> QED BY <1>1, PairedInvariant, CurrentInvariant, PTL DEF Spec, KeepsWhatWorks

-----------------------------------------------------------------------------
\* Removal by path neither misses a source nor leaves two, across rescans,
\* failures and restarts.
THEOREM WatchStaysAsAsked == Spec => []WatchedAsAsked
  <1>1. OnePadPerPath /\ FiltersInForce => WatchedAsAsked
    BY DEF WatchedAsAsked
  <1> QED BY <1>1, PathsOpenOnce, OnlyAsAsked, PTL
=============================================================================
