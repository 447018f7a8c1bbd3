---------------------------- MODULE ProfilesProofs ----------------------------
(***************************************************************************)
(* Theorems about Config and Profiles, for every file that can be written. *)
(***************************************************************************)
EXTENDS Profiles, FiniteSetTheorems, SequenceTheorems, TLAPS

-----------------------------------------------------------------------------
(* Sorting *)

\* How many of the places in K come before k.
Rank(s, K, k) == Cardinality({j \in K : Before(s, j, k)})

LEMMA RankBounds ==
    ASSUME NEW s, NEW K, IsFiniteSet(K), NEW k \in K, ~Before(s, k, k)
    PROVE  Rank(s, K, k) \in 0 .. Cardinality(K) - 1
  <1> DEFINE S == {j \in K : Before(s, j, k)}
  <1>1. IsFiniteSet(K \ {k}) /\ Cardinality(K \ {k}) = Cardinality(K) - 1
    BY FS_RemoveElement
  <1>2. S \subseteq K \ {k}
    OBVIOUS
  <1>3. IsFiniteSet(S) /\ Cardinality(S) <= Cardinality(K) - 1
    BY <1>1, <1>2, FS_Subset
  <1>4. Cardinality(S) \in Nat /\ Cardinality(K) \in Nat
    BY <1>3, FS_CardinalityType
  <1> QED BY <1>3, <1>4 DEF Rank

LEMMA RankGrows ==
    ASSUME NEW s, NEW K, IsFiniteSet(K), NEW j \in K, NEW k \in K,
           ~Before(s, j, j), Before(s, j, k),
           \A i \in K : Before(s, i, j) => Before(s, i, k)
    PROVE  Rank(s, K, j) < Rank(s, K, k)
  <1> DEFINE S == {i \in K : Before(s, i, j)}
             T == {i \in K : Before(s, i, k)}
  <1>1. S \subseteq T /\ T \subseteq K /\ j \in T /\ j \notin S
    OBVIOUS
  <1>2. IsFiniteSet(T)
    BY <1>1, FS_Subset
  <1>3. IsFiniteSet(S) /\ Cardinality(S) <= Cardinality(T) /\ Cardinality(S) # Cardinality(T)
    BY <1>1, <1>2, FS_Subset
  <1>4. Cardinality(S) \in Nat /\ Cardinality(T) \in Nat
    BY <1>2, <1>3, FS_CardinalityType
  <1>5. Cardinality(S) < Cardinality(T)
    BY <1>3, <1>4
  <1> QED BY <1>5 DEF Rank

\* Before is a strict order in which any two places are comparable.
LEMMA BeforeOrders ==
    ASSUME NEW s \in Seq(Timeout), NEW K \in SUBSET DOMAIN s
    PROVE  /\ \A k \in K : ~Before(s, k, k)
           /\ \A i, j, k \in K : Before(s, i, j) /\ Before(s, j, k) => Before(s, i, k)
           /\ \A j, k \in K : j # k => Before(s, j, k) \/ Before(s, k, j)
  <1>0. \A k \in K : k \in 1 .. Len(s) /\ s[k] \in Timeout
    OBVIOUS
  <1>1. \A k \in K : k \in Nat /\ s[k].after \in Nat
    BY <1>0 DEF Timeout
  <1>2. \A k \in K : ~Before(s, k, k)
    BY <1>1 DEF Before
  <1>3. \A i, j, k \in K : Before(s, i, j) /\ Before(s, j, k) => Before(s, i, k)
    BY <1>1 DEF Before
  <1>4. \A j, k \in K : j # k => Before(s, j, k) \/ Before(s, k, j)
    BY <1>1 DEF Before
  <1> QED BY <1>2, <1>3, <1>4

LEMMA PlacesFinite ==
    ASSUME NEW s \in Seq(Timeout), NEW K \in SUBSET DOMAIN s
    PROVE  IsFiniteSet(K) /\ Cardinality(K) \in Nat
  <1>1. IsFiniteSet(1 .. Len(s))
    BY FS_Interval
  <1>2. DOMAIN s = 1 .. Len(s)
    OBVIOUS
  <1>3. IsFiniteSet(K)
    BY <1>1, <1>2, FS_Subset
  <1> QED BY <1>3, FS_CardinalityType

LEMMA RanksDiffer ==
    ASSUME NEW s \in Seq(Timeout), NEW K \in SUBSET DOMAIN s,
           NEW j \in K, NEW k \in K, Rank(s, K, j) = Rank(s, K, k)
    PROVE  j = k
  <1>1. IsFiniteSet(K)
    BY PlacesFinite
  <1>2. Rank(s, K, j) \in Int
    BY <1>1, RankBounds, BeforeOrders
  <1>3. ~Before(s, j, k)
    BY <1>1, <1>2, RankGrows, BeforeOrders
  <1>4. ~Before(s, k, j)
    BY <1>1, <1>2, RankGrows, BeforeOrders
  <1> QED BY <1>3, <1>4, BeforeOrders

\* Every rank is somebody's: no element is lost and none comes twice.
LEMMA RanksTaken ==
    ASSUME NEW s \in Seq(Timeout), NEW K \in SUBSET DOMAIN s,
           NEW n \in 1 .. Cardinality(K)
    PROVE  \E k \in K : Rank(s, K, k) = n - 1
  <1> DEFINE R == 0 .. Cardinality(K) - 1
             f == [k \in K |-> Rank(s, K, k)]
  <1>1. IsFiniteSet(K) /\ Cardinality(K) \in Nat
    BY PlacesFinite
  <1>2. f \in [K -> R]
    BY <1>1, RankBounds, BeforeOrders
  <1>3. ASSUME NEW j \in K, NEW k \in K, f[j] = f[k]
        PROVE  j = k
    BY <1>3, RanksDiffer
  <1>4. f \in Injection(K, R)
    BY <1>2, <1>3 DEF Injection, IsInjective
  <1>5. IsFiniteSet(R) /\ Cardinality(R) = Cardinality(K)
    <2> DEFINE top == Cardinality(K) - 1
    <2>1. top \in Int /\ top >= -1
      BY <1>1
    <2> HIDE DEF top
    <2>2. IsFiniteSet(0 .. top) /\ Cardinality(0 .. top) = IF 0 > top THEN 0 ELSE top - 0 + 1
      BY <2>1, FS_Interval
    <2>3. Cardinality(0 .. top) = top + 1
      BY <2>1, <2>2
    <2> QED BY <1>1, <2>2, <2>3 DEF top
  <1>6. f \in Surjection(K, R)
    BY <1>4, <1>5, FS_Injection
  <1>7. n - 1 \in R
    BY <1>1
  <1> QED BY <1>6, <1>7 DEF Surjection

\* What the sort returns is made of the elements at the places it was given,
\* as many as there are, soonest first.
LEMMA InOrderSorts ==
    ASSUME NEW s \in Seq(Timeout), NEW K \in SUBSET DOMAIN s
    PROVE  /\ InOrder(s, K) \in Seq(Timeout)
           /\ Len(InOrder(s, K)) = Cardinality(K)
           /\ \A n \in DOMAIN InOrder(s, K) : \E k \in K : InOrder(s, K)[n] = s[k]
           /\ \A m, n \in DOMAIN InOrder(s, K) :
                 m < n => InOrder(s, K)[m].after <= InOrder(s, K)[n].after
  <1> DEFINE c == Cardinality(K)
             at(n) == CHOOSE k \in K : Rank(s, K, k) = n - 1
  <1>1. IsFiniteSet(K) /\ c \in Nat
    BY PlacesFinite
  <1>2. \A n \in 1 .. c : at(n) \in K /\ Rank(s, K, at(n)) = n - 1
    BY RanksTaken
  <1>3. InOrder(s, K) = [n \in 1 .. c |-> s[at(n)]]
    BY DEF InOrder, Rank
  <1> HIDE DEF c, at
  <1>4. \A n \in 1 .. c : s[at(n)] \in Timeout
    BY <1>2
  <1>5. InOrder(s, K) \in Seq(Timeout) /\ Len(InOrder(s, K)) = c
    BY <1>1, <1>3, <1>4
  <1>6. DOMAIN InOrder(s, K) = 1 .. c
    BY <1>3
  <1>7. \A n \in DOMAIN InOrder(s, K) : \E k \in K : InOrder(s, K)[n] = s[k]
    BY <1>2, <1>3, <1>6
  <1>8. ASSUME NEW m \in 1 .. c, NEW n \in 1 .. c, m < n
        PROVE  s[at(m)].after <= s[at(n)].after
    <2>1. Rank(s, K, at(m)) < Rank(s, K, at(n))
      BY <1>1, <1>2, <1>8
    <2>2. Rank(s, K, at(m)) \in Int /\ Rank(s, K, at(n)) \in Int
      BY <1>1, <1>2
    <2>3. CASE s[at(n)].after < s[at(m)].after
      <3>1. Before(s, at(n), at(m))
        BY <2>3 DEF Before
      <3>2. Rank(s, K, at(n)) < Rank(s, K, at(m))
        BY <1>1, <1>2, <3>1, RankGrows, BeforeOrders
      <3> QED BY <3>2, <2>1, <2>2
    <2>4. s[at(m)].after \in Nat /\ s[at(n)].after \in Nat
      BY <1>4 DEF Timeout
    <2> QED BY <2>3, <2>4
  <1> QED BY <1>3, <1>5, <1>6, <1>7, <1>8 DEF c

\* How often v is among the elements of q at the places in K, and in all of q.
Among(q, K, v) == Cardinality({k \in K : q[k] = v})
Times(q, v) == Among(q, DOMAIN q, v)

LEMMA SameSize ==
    ASSUME NEW S, NEW T, IsFiniteSet(S), NEW f \in [S -> T],
           \A x, y \in S : f[x] = f[y] => x = y,
           \A t \in T : \E x \in S : f[x] = t
    PROVE  IsFiniteSet(T) /\ Cardinality(T) = Cardinality(S)
  <1>1. f \in Surjection(S, T)
    BY DEF Surjection
  <1>2. f \in Injection(S, T)
    BY DEF Injection, IsInjective
  <1> QED BY <1>1, <1>2, FS_Surjection

\* Sorting keeps every element as often as it was there.
LEMMA InOrderCounts ==
    ASSUME NEW s \in Seq(Timeout), NEW K \in SUBSET DOMAIN s, NEW v
    PROVE  Times(InOrder(s, K), v) = Among(s, K, v)
  <1> DEFINE c == Cardinality(K)
             at(n) == CHOOSE k \in K : Rank(s, K, k) = n - 1
             S == {k \in K : s[k] = v}
             T == {n \in 1 .. c : s[at(n)] = v}
             f == [k \in S |-> Rank(s, K, k) + 1]
  <1>1. IsFiniteSet(K) /\ c \in Nat
    BY PlacesFinite
  <1>2. \A n \in 1 .. c : at(n) \in K /\ Rank(s, K, at(n)) = n - 1
    BY RanksTaken
  <1>3. InOrder(s, K) = [n \in 1 .. c |-> s[at(n)]]
    BY DEF InOrder, Rank
  <1>4. \A k \in K : Rank(s, K, k) \in 0 .. c - 1
    BY <1>1, RankBounds, BeforeOrders
  <1> HIDE DEF c, at
  <1>5. \A k \in K : Rank(s, K, k) + 1 \in 1 .. c /\ at(Rank(s, K, k) + 1) = k
    <2> SUFFICES ASSUME NEW k \in K
                 PROVE  Rank(s, K, k) + 1 \in 1 .. c /\ at(Rank(s, K, k) + 1) = k
      OBVIOUS
    <2> DEFINE n == Rank(s, K, k) + 1
    <2>1. n \in 1 .. c /\ n - 1 = Rank(s, K, k)
      BY <1>1, <1>4
    <2> HIDE DEF n
    <2>2. at(n) \in K /\ Rank(s, K, at(n)) = Rank(s, K, k)
      BY <1>2, <2>1
    <2>3. at(n) = k
      BY <2>2, RanksDiffer
    <2> QED BY <2>1, <2>3 DEF n
  <1>6. f \in [S -> T]
    BY <1>5
  <1>7. \A x, y \in S : f[x] = f[y] => x = y
    BY <1>5
  <1>8. \A t \in T : \E x \in S : f[x] = t
    <2> SUFFICES ASSUME NEW t \in T PROVE \E x \in S : f[x] = t
      OBVIOUS
    <2>1. at(t) \in S /\ Rank(s, K, at(t)) + 1 = t
      BY <1>1, <1>2
    <2> QED BY <2>1
  <1>9. IsFiniteSet(S)
    BY <1>1, FS_Subset
  <1> HIDE DEF f
  <1>10. Cardinality(T) = Cardinality(S)
    BY <1>6, <1>7, <1>8, <1>9, SameSize
  <1>11. T = {n \in DOMAIN InOrder(s, K) : InOrder(s, K)[n] = v}
    BY <1>3
  <1> QED BY <1>10, <1>11 DEF Times, Among
-----------------------------------------------------------------------------
(* Tidying *)

Works(t) == t.after \in 1 .. MaxTimeout /\ DoesSomething(t)

Bounded(p) == p.dim <= MaxTimeout /\ p.screen_off <= MaxTimeout /\ p.suspend <= MaxTimeout

\* What the rest of the program relies on.
Tidied(c) ==
    /\ \A k \in DOMAIN c.timeouts : Works(c.timeouts[k])
    /\ Bounded(c.plugged_in)
    /\ \A k \in DOMAIN c.on_battery : Bounded(c.on_battery[k])
    /\ c.gamepad.deadzone \in DeadZones
    /\ c.gamepad.interval \in Intervals
    /\ c.before_sleep.timeout \in Waits

LEMMA DefaultTidied == Default \in Settings /\ Tidied(Default)
  <1>1. NoProfile \in Profile /\ Bounded(NoProfile)
    BY DEF NoProfile, Profile, Bounded, MaxTimeout
  <1>2. Default \in Settings
    BY <1>1 DEF Default, Settings
  <1>3. /\ Default.timeouts = <<>> /\ Default.on_battery = <<>> /\ Default.plugged_in = NoProfile
        /\ Default.gamepad.deadzone = 25 /\ Default.gamepad.interval = 1000
        /\ Default.before_sleep.timeout = 4
    BY DEF Default
  <1>5. 25 \in DeadZones /\ 1000 \in Intervals /\ 4 \in Waits
    BY DEF DeadZones, Intervals, Waits
  <1>4. DOMAIN Default.timeouts = {} /\ DOMAIN Default.on_battery = {}
    BY <1>3
  <1> QED BY <1>1, <1>2, <1>3, <1>4, <1>5 DEF Tidied

LEMMA AtMostBounds ==
    ASSUME NEW limit \in Nat, NEW n \in Nat
    PROVE  AtMost(n, limit) \in 0 .. limit /\ (n # 0 /\ limit # 0 => AtMost(n, limit) \in 1 .. limit)
  BY DEF AtMost

LEMMA ZonesKept == \A n \in Int : Within(n, 2, 90) \in DeadZones
  BY DEF Within, AtMost, DeadZones

LEMMA WaitsKept == \A n \in Int : Within(n, 1, 20) \in Waits
  BY DEF Within, AtMost, Waits

LEMMA IntervalsKept == \A n \in Nat : AtMost(n, 60000) \in Intervals
  BY DEF AtMost, Intervals

LEMMA ZonesWhole == DeadZones \subseteq Int
  BY DEF DeadZones

LEMMA WaitsWhole == Waits \subseteq Nat
  BY DEF Waits

LEMMA IntervalsWhole == Intervals \subseteq Nat
  BY DEF Intervals

LEMMA ADay == MaxTimeout \in Nat /\ MaxTimeout # 0
  BY DEF MaxTimeout

LEMMA KeptWorks ==
    ASSUME NEW ts \in Seq(Timeout)
    PROVE  /\ Kept(ts) \in Seq(Timeout)
           /\ \A n \in DOMAIN Kept(ts) : Works(Kept(ts)[n])
           /\ ts = <<>> => Kept(ts) = <<>>
  <1> DEFINE cut == [k \in DOMAIN ts |-> [ts[k] EXCEPT !.after = AtMost(@, MaxTimeout)]]
             K == {k \in DOMAIN ts : Usable(ts[k])}
  <1>1. \A k \in DOMAIN ts : ts[k] \in Timeout
    OBVIOUS
  <1>2. \A k \in DOMAIN ts : cut[k] \in Timeout
    BY <1>1, ADay, AtMostBounds DEF Timeout
  <1>3. DOMAIN ts = 1 .. Len(ts) /\ Len(ts) \in Nat
    OBVIOUS
  <1>4. cut \in Seq(Timeout) /\ DOMAIN cut = DOMAIN ts
    BY <1>2, <1>3
  <1>5. ASSUME NEW k \in K PROVE Works(cut[k])
    <2>1. ts[k] \in Timeout /\ ts[k].after # 0 /\ DoesSomething(ts[k])
      BY <1>1 DEF Usable
    <2>2. ts[k].after \in Nat
      BY <2>1 DEF Timeout
    <2>3. cut[k] = [ts[k] EXCEPT !.after = AtMost(ts[k].after, MaxTimeout)]
      OBVIOUS
    <2>4. AtMost(ts[k].after, MaxTimeout) \in 1 .. MaxTimeout
      BY <2>1, <2>2, ADay, AtMostBounds
    <2>5. /\ cut[k].after = AtMost(ts[k].after, MaxTimeout)
          /\ cut[k].dim = ts[k].dim /\ cut[k].blank = ts[k].blank /\ cut[k].lock = ts[k].lock
          /\ cut[k].suspend = ts[k].suspend /\ cut[k].command = ts[k].command
      BY <2>1, <2>3 DEF Timeout
    <2>6. DoesSomething(cut[k])
      BY <2>1, <2>5 DEF DoesSomething
    <2> QED BY <2>4, <2>5, <2>6 DEF Works
  <1>6. K \in SUBSET DOMAIN cut /\ Kept(ts) = InOrder(cut, K)
    BY <1>4 DEF Kept
  <1> HIDE DEF cut, K
  <1>7. /\ Kept(ts) \in Seq(Timeout)
        /\ Len(Kept(ts)) = Cardinality(K)
        /\ \A n \in DOMAIN Kept(ts) : \E k \in K : Kept(ts)[n] = cut[k]
    BY <1>4, <1>6, InOrderSorts
  <1>8. ts = <<>> => Kept(ts) = <<>>
    <2> SUFFICES ASSUME ts = <<>>
                 PROVE  Kept(ts) = <<>>
      OBVIOUS
    <2>1. K = {}
      BY DEF K
    <2>2. Len(Kept(ts)) = 0
      BY <1>7, <2>1, FS_EmptySet
    <2> QED BY <1>7, <2>2
  <1> QED BY <1>5, <1>7, <1>8

\* What is kept of the timeouts is every one that can be used, cut to a day.
LEMMA KeptCounts ==
    ASSUME NEW ts \in Seq(Timeout), NEW v
    PROVE  LET cut(k) == [ts[k] EXCEPT !.after = AtMost(@, MaxTimeout)]
               asked == {k \in DOMAIN ts : Usable(ts[k])}
           IN  /\ Len(Kept(ts)) = Cardinality(asked)
               /\ Times(Kept(ts), v) = Cardinality({j \in asked : cut(j) = v})
  <1> DEFINE cut(k) == [ts[k] EXCEPT !.after = AtMost(@, MaxTimeout)]
             all == [k \in DOMAIN ts |-> cut(k)]
             asked == {k \in DOMAIN ts : Usable(ts[k])}
  <1>1. \A k \in DOMAIN ts : ts[k] \in Timeout
    OBVIOUS
  <1>2. \A k \in DOMAIN ts : all[k] \in Timeout
    BY <1>1, ADay, AtMostBounds DEF Timeout
  <1>3. DOMAIN ts = 1 .. Len(ts) /\ Len(ts) \in Nat
    OBVIOUS
  <1>4. all \in Seq(Timeout) /\ asked \in SUBSET DOMAIN all
    BY <1>2, <1>3
  <1>5. Kept(ts) = InOrder(all, asked)
    BY DEF Kept
  <1>6. {k \in asked : all[k] = v} = {j \in asked : cut(j) = v}
    OBVIOUS
  <1> HIDE DEF all, asked
  <1>7. /\ Len(Kept(ts)) = Cardinality(asked)
        /\ Times(Kept(ts), v) = Among(all, asked, v)
    BY <1>4, <1>5, InOrderSorts, InOrderCounts
  <1> QED BY <1>6, <1>7 DEF asked, Among

LEMMA ClampBounds ==
    ASSUME NEW p \in Profile
    PROVE  Clamp(p) \in Profile /\ Bounded(Clamp(p))
  <1>1. p.dim \in Nat /\ p.screen_off \in Nat /\ p.suspend \in Nat /\ p.lock \in BOOLEAN
    BY DEF Profile
  <1>2. \A n \in Nat : AtMost(n, MaxTimeout) \in Nat /\ AtMost(n, MaxTimeout) <= MaxTimeout
    BY ADay, AtMostBounds
  <1>3. /\ Clamp(p).dim = AtMost(p.dim, MaxTimeout)
        /\ Clamp(p).screen_off = AtMost(p.screen_off, MaxTimeout)
        /\ Clamp(p).suspend = AtMost(p.suspend, MaxTimeout)
    BY DEF Clamp, Profile
  <1>4. Clamp(p) \in Profile
    BY <1>1, <1>2 DEF Clamp, Profile
  <1> QED BY <1>1, <1>2, <1>3, <1>4 DEF Bounded

\* Settings put together from their parts.
Made(p, ob, ts, l, sleep, pad) ==
    [plugged_in |-> p, on_battery |-> ob, timeouts |-> ts, locker |-> l,
     before_sleep |-> sleep, gamepad |-> pad]

LEMMA MadeFields ==
    ASSUME NEW p, NEW ob, NEW ts, NEW l, NEW sleep, NEW pad
    PROVE  /\ Made(p, ob, ts, l, sleep, pad).plugged_in = p
           /\ Made(p, ob, ts, l, sleep, pad).on_battery = ob
           /\ Made(p, ob, ts, l, sleep, pad).timeouts = ts
           /\ Made(p, ob, ts, l, sleep, pad).before_sleep = sleep
           /\ Made(p, ob, ts, l, sleep, pad).gamepad = pad
  BY DEF Made

LEMMA MadeSettings ==
    ASSUME NEW p \in Profile, NEW ob \in Seq(Profile), NEW ts \in Seq(Timeout),
           NEW l \in {"none", "empty", "set"},
           NEW sleep \in [lock : BOOLEAN, timeout : Nat],
           NEW pad \in [deadzone : Int, interval : Nat]
    PROVE  Made(p, ob, ts, l, sleep, pad) \in Settings
  BY DEF Made, Settings

LEMMA MadeTidied ==
    ASSUME NEW p, NEW ob, NEW ts, NEW l, NEW sleep, NEW pad,
           Bounded(p), \A k \in DOMAIN ob : Bounded(ob[k]), \A k \in DOMAIN ts : Works(ts[k]),
           sleep.timeout \in Waits, pad.deadzone \in DeadZones, pad.interval \in Intervals
    PROVE  Tidied(Made(p, ob, ts, l, sleep, pad))
  BY MadeFields DEF Tidied

\* Config::tidy leaves nothing out of range, whatever was written.
LEMMA TidyTidies ==
    ASSUME NEW c \in Settings
    PROVE  Tidy(c) \in Settings /\ Tidied(Tidy(c))
  <1> DEFINE ob == [k \in DOMAIN c.on_battery |-> Clamp(c.on_battery[k])]
             lk == IF c.locker = "empty" THEN "none" ELSE c.locker
             wait == Within(c.before_sleep.timeout, 1, 20)
             dead == Within(c.gamepad.deadzone, 2, 90)
             every == AtMost(c.gamepad.interval, 60000)
             sleep == [lock |-> SleepLock(c), timeout |-> wait]
             pad == [deadzone |-> dead, interval |-> every]
  <1>1. c.plugged_in \in Profile
    BY DEF Settings
  <1>2. c.on_battery \in Seq(Profile)
    BY DEF Settings
  <1>3. c.timeouts \in Seq(Timeout)
    BY DEF Settings
  <1>4. lk \in {"none", "empty", "set"}
    BY DEF Settings
  <1>5. c.before_sleep \in [lock : BOOLEAN, timeout : Nat]
    BY DEF Settings
  <1>6. c.gamepad \in [deadzone : Int, interval : Nat]
    BY DEF Settings
  <1>7. wait \in Waits
    BY <1>5, WaitsKept
  <1>8. dead \in DeadZones
    BY <1>6, ZonesKept
  <1>9. every \in Intervals
    BY <1>6, IntervalsKept
  <1>10. SleepLock(c) \in BOOLEAN
    BY DEF SleepLock
  <1> HIDE DEF wait, dead, every
  <1>11. wait \in Nat /\ dead \in Int /\ every \in Nat
    BY <1>7, <1>8, <1>9, ZonesWhole, WaitsWhole, IntervalsWhole
  <1>12. sleep \in [lock : BOOLEAN, timeout : Nat] /\ sleep.timeout = wait
    BY <1>10, <1>11
  <1>13. pad \in [deadzone : Int, interval : Nat] /\ pad.deadzone = dead /\ pad.interval = every
    BY <1>11
  <1>14. DOMAIN c.on_battery = 1 .. Len(c.on_battery) /\ Len(c.on_battery) \in Nat
    BY <1>2
  <1>15. \A k \in DOMAIN c.on_battery : Clamp(c.on_battery[k]) \in Profile /\ Bounded(Clamp(c.on_battery[k]))
    BY <1>2, ClampBounds
  <1>16. ob \in Seq(Profile) /\ \A k \in DOMAIN ob : Bounded(ob[k])
    BY <1>14, <1>15
  <1>17. Clamp(c.plugged_in) \in Profile /\ Bounded(Clamp(c.plugged_in))
    BY <1>1, ClampBounds
  <1>18. Kept(c.timeouts) \in Seq(Timeout) /\ \A n \in DOMAIN Kept(c.timeouts) : Works(Kept(c.timeouts)[n])
    BY <1>3, KeptWorks
  <1>19. Tidy(c) = Made(Clamp(c.plugged_in), ob, Kept(c.timeouts), lk, sleep, pad)
    BY DEF Tidy, Made, wait, dead, every
  <1> HIDE DEF ob, lk, sleep, pad
  <1>20. Tidy(c) \in Settings
    BY <1>4, <1>12, <1>13, <1>16, <1>17, <1>18, <1>19, MadeSettings
  <1>21. Tidied(Tidy(c))
    BY <1>7, <1>8, <1>9, <1>12, <1>13, <1>16, <1>17, <1>18, <1>19, MadeTidied
  <1> QED BY <1>20, <1>21

LEMMA LoadTidies ==
    ASSUME NEW f \in File
    PROVE  /\ Load(f) \in Settings /\ Tidied(Load(f)) /\ Written(f) \in Settings
           /\ Load(f).before_sleep.lock <=> Written(f).before_sleep.lock /\ Written(f).locker = "set"
           /\ Load(f).timeouts = Kept(Written(f).timeouts)
  <1>1. f.holds \in Settings
    BY DEF File
  <1>2. CASE Accepts(f)
    <2>1. Load(f) = Tidy(f.holds) /\ Written(f) = f.holds
      BY <1>2 DEF Load, Written
    <2>2. f.holds.timeouts \in Seq(Timeout)
      BY <1>1 DEF Settings
    <2>3. Tidy(f.holds).timeouts = Kept(f.holds.timeouts)
      BY DEF Tidy
    <2>4. Tidy(f.holds).before_sleep.lock = SleepLock(f.holds)
      BY DEF Tidy
    <2> QED BY <1>1, <2>1, <2>2, <2>3, <2>4, TidyTidies, KeptWorks DEF SleepLock
  <1>3. CASE ~Accepts(f)
    <2>1. Load(f) = Default /\ Written(f) = Default
      BY <1>3 DEF Load, Written
    <2>2. <<>> \in Seq(Timeout) /\ Default.timeouts = <<>>
      BY DEF Default
    <2>3. Default.timeouts = Kept(Default.timeouts)
      BY <2>2, KeptWorks
    <2> QED BY <2>1, <2>3, DefaultTidied DEF Default
  <1> QED BY <1>2, <1>3
-----------------------------------------------------------------------------
(* The countdowns *)

LEMMA ConcatHas ==
    ASSUME NEW a \in Seq(Timeout), NEW b \in Seq(Timeout)
    PROVE  /\ a \o b \in Seq(Timeout)
           /\ \A n \in DOMAIN (a \o b) : \/ \E k \in DOMAIN a : (a \o b)[n] = a[k]
                                        \/ \E k \in DOMAIN b : (a \o b)[n] = b[k]
  <1>1. a \o b \in Seq(Timeout)
    OBVIOUS
  <1>2. ASSUME NEW n \in DOMAIN (a \o b)
        PROVE  \/ \E k \in DOMAIN a : (a \o b)[n] = a[k]
               \/ \E k \in DOMAIN b : (a \o b)[n] = b[k]
    <2>1. n \in 1 .. Len(a) + Len(b) /\ Len(a) \in Nat /\ Len(b) \in Nat
      OBVIOUS
    <2>2. CASE n <= Len(a)
      <3>1. n \in DOMAIN a /\ (a \o b)[n] = a[n]
        BY <2>1, <2>2
      <3> QED BY <3>1
    <2>3. CASE n > Len(a)
      <3>1. n - Len(a) \in DOMAIN b /\ (a \o b)[n] = b[n - Len(a)]
        BY <2>1, <2>3
      <3> QED BY <3>1
    <2> QED BY <2>1, <2>2, <2>3
  <1> QED BY <1>1, <1>2

\* Put together, two sequences have every element as often as both.
LEMMA ConcatCounts ==
    ASSUME NEW a \in Seq(Timeout), NEW b \in Seq(Timeout), NEW v
    PROVE  /\ Len(a \o b) = Len(a) + Len(b)
           /\ Times(a \o b, v) = Times(a, v) + Times(b, v)
  <1> DEFINE la == Len(a)
             lb == Len(b)
             ab == a \o b
             A == {n \in 1 .. la : a[n] = v}
             B == {n \in 1 .. lb : b[n] = v}
             C == {n \in la + 1 .. la + lb : ab[n] = v}
             f == [n \in B |-> n + la]
  <1>1. la \in Nat /\ lb \in Nat /\ DOMAIN a = 1 .. la /\ DOMAIN b = 1 .. lb
    OBVIOUS
  <1>2. Len(ab) = la + lb /\ DOMAIN ab = 1 .. la + lb
    OBVIOUS
  <1>3. \A n \in 1 .. la : n \in 1 .. la + lb /\ ab[n] = a[n]
    OBVIOUS
  <1>4. \A n \in 1 .. lb : n + la \in la + 1 .. la + lb /\ ab[n + la] = b[n]
    OBVIOUS
  <1> HIDE DEF la, lb, ab
  <1>5. f \in [B -> C]
    BY <1>4
  <1>6. \A x, y \in B : f[x] = f[y] => x = y
    BY <1>1
  <1>7. \A t \in C : \E x \in B : f[x] = t
    <2> SUFFICES ASSUME NEW t \in C PROVE \E x \in B : f[x] = t
      OBVIOUS
    <2>1. t - la \in 1 .. lb /\ (t - la) + la = t
      BY <1>1
    <2>2. b[t - la] = v
      BY <1>4, <2>1
    <2> QED BY <2>1, <2>2
  <1>8. IsFiniteSet(A) /\ IsFiniteSet(B)
    <2>1. IsFiniteSet(1 .. la) /\ IsFiniteSet(1 .. lb)
      BY <1>1, FS_Interval
    <2> QED BY <2>1, FS_Subset
  <1> HIDE DEF f
  <1>9. IsFiniteSet(C) /\ Cardinality(C) = Cardinality(B)
    BY <1>5, <1>6, <1>7, <1>8, SameSize
  <1>10. A \cap C = {}
    BY <1>1
  <1>11. {n \in DOMAIN ab : ab[n] = v} = A \cup C
    BY <1>1, <1>2, <1>3
  <1> HIDE DEF A, B, C
  <1>12. Cardinality(A \cup C) = Cardinality(A) + Cardinality(C) - Cardinality(A \cap C)
    BY <1>8, <1>9, FS_Union
  <1>13. Cardinality(A \cap C) = 0 /\ Cardinality(A) \in Nat /\ Cardinality(C) \in Nat
    BY <1>8, <1>9, <1>10, FS_EmptySet, FS_CardinalityType
  <1>14. Cardinality(A \cup C) = Cardinality(A) + Cardinality(B)
    BY <1>9, <1>12, <1>13
  <1>15. A = {n \in DOMAIN a : a[n] = v} /\ B = {n \in DOMAIN b : b[n] = v}
    BY <1>1 DEF A, B
  <1>16. Times(ab, v) = Times(a, v) + Times(b, v)
    BY <1>11, <1>14, <1>15 DEF Times, Among
  <1> QED BY <1>2, <1>16 DEF ab, la, lb

LEMMA AtHas ==
    ASSUME NEW secs \in Nat, NEW t \in Timeout
    PROVE  /\ At(secs, t) \in Seq(Timeout)
           /\ \A n \in DOMAIN At(secs, t) :
                 secs # 0 /\ At(secs, t)[n] = [t EXCEPT !.after = secs]
  <1>1. [t EXCEPT !.after = secs] \in Timeout
    BY DEF Timeout
  <1> DEFINE u == [t EXCEPT !.after = secs]
  <1> HIDE DEF u
  <1>2. u \in Timeout
    BY <1>1 DEF u
  <1>3. At(secs, t) = IF secs > 0 THEN <<u>> ELSE <<>>
    BY DEF At, u
  <1>4. \A n \in DOMAIN At(secs, t) : secs # 0 /\ At(secs, t)[n] = u
    BY <1>3
  <1> QED BY <1>2, <1>3, <1>4 DEF u

\* What a profile's countdowns do, and when.
OwnTo(p, t) ==
    /\ t \in Timeout
    /\ Bounded(p) => Works(t)
    /\ t.dim => /\ t.after = p.dim
                /\ \A later \in {p.screen_off, p.suspend} \ {0} : p.dim < later
    /\ t.blank => t.after = p.screen_off /\ t.after # 0
    /\ t.suspend => t.after = p.suspend /\ t.after # 0

LEMMA ThreeKinds ==
    ASSUME NEW p \in Profile
    PROVE  Dims \in Timeout /\ GoesDark(p) \in Timeout /\ Suspends \in Timeout
  BY DEF Dims, GoesDark, Suspends, NoTimeout, Timeout, Profile

LEMMA ProfileTimeoutsFit ==
    ASSUME NEW p \in Profile
    PROVE  /\ ProfileTimeouts(p) \in Seq(Timeout)
           /\ \A n \in DOMAIN ProfileTimeouts(p) : OwnTo(p, ProfileTimeouts(p)[n])
  <1> DEFINE seen == \A later \in {p.screen_off, p.suspend} \ {0} : p.dim < later
             dim == IF seen THEN p.dim ELSE 0
             a == At(dim, Dims)
             b == At(p.screen_off, GoesDark(p))
             c == At(p.suspend, Suspends)
  <1>1. p.dim \in Nat /\ p.screen_off \in Nat /\ p.suspend \in Nat /\ p.lock \in BOOLEAN
    BY DEF Profile
  <1>2. dim \in Nat /\ (dim # 0 => dim = p.dim /\ seen)
    BY <1>1
  <1> HIDE DEF seen, dim
  <1>3. a \in Seq(Timeout) /\ b \in Seq(Timeout) /\ c \in Seq(Timeout)
    BY <1>1, <1>2, AtHas, ThreeKinds
  <1>4. ASSUME NEW t \in Timeout, NEW n \in Nat, n # 0, n <= MaxTimeout, t.after = n, DoesSomething(t)
        PROVE  Works(t)
    BY <1>4, ADay DEF Works
  <1>5. ASSUME NEW n \in DOMAIN a PROVE OwnTo(p, a[n])
    <2>1. dim # 0 /\ a[n] = [Dims EXCEPT !.after = dim]
      BY <1>2, AtHas, ThreeKinds
    <2>2. /\ a[n].after = dim /\ a[n].dim /\ ~a[n].blank /\ ~a[n].suspend
          /\ DoesSomething(a[n])
      BY <2>1 DEF Dims, NoTimeout, DoesSomething
    <2>3. a[n] \in Timeout
      BY <1>3
    <2>4. Bounded(p) => Works(a[n])
      BY <1>2, <1>4, <2>1, <2>2, <2>3 DEF Bounded
    <2> QED BY <1>2, <2>1, <2>2, <2>3, <2>4 DEF OwnTo, seen
  <1>6. ASSUME NEW n \in DOMAIN b PROVE OwnTo(p, b[n])
    <2>1. p.screen_off # 0 /\ b[n] = [GoesDark(p) EXCEPT !.after = p.screen_off]
      BY <1>1, AtHas, ThreeKinds
    <2>2. /\ b[n].after = p.screen_off /\ ~b[n].dim /\ b[n].blank /\ ~b[n].suspend
          /\ DoesSomething(b[n])
      BY <2>1 DEF GoesDark, NoTimeout, DoesSomething
    <2>3. b[n] \in Timeout
      BY <1>3
    <2>4. Bounded(p) => Works(b[n])
      BY <1>1, <1>4, <2>1, <2>2, <2>3 DEF Bounded
    <2> QED BY <2>1, <2>2, <2>3, <2>4 DEF OwnTo
  <1>7. ASSUME NEW n \in DOMAIN c PROVE OwnTo(p, c[n])
    <2>1. p.suspend # 0 /\ c[n] = [Suspends EXCEPT !.after = p.suspend]
      BY <1>1, AtHas, ThreeKinds
    <2>2. /\ c[n].after = p.suspend /\ ~c[n].dim /\ ~c[n].blank /\ c[n].suspend
          /\ DoesSomething(c[n])
      BY <2>1 DEF Suspends, NoTimeout, DoesSomething
    <2>3. c[n] \in Timeout
      BY <1>3
    <2>4. Bounded(p) => Works(c[n])
      BY <1>1, <1>4, <2>1, <2>2, <2>3 DEF Bounded
    <2> QED BY <2>1, <2>2, <2>3, <2>4 DEF OwnTo
  <1>8. ProfileTimeouts(p) = (a \o b) \o c
    BY DEF ProfileTimeouts, seen, dim
  <1> HIDE DEF a, b, c
  <1>9. a \o b \in Seq(Timeout) /\ \A n \in DOMAIN (a \o b) : OwnTo(p, (a \o b)[n])
    BY <1>3, <1>5, <1>6, ConcatHas
  <1> DEFINE ab == a \o b
  <1>10. ab \in Seq(Timeout) /\ \A n \in DOMAIN ab : OwnTo(p, ab[n])
    BY <1>9
  <1> HIDE DEF ab
  <1>11. ab \o c \in Seq(Timeout) /\ \A n \in DOMAIN (ab \o c) : OwnTo(p, (ab \o c)[n])
    BY <1>3, <1>7, <1>10, ConcatHas
  <1> QED BY <1>8, <1>11 DEF ab

LEMMA ProfileForFits ==
    ASSUME NEW c \in Settings, NEW b \in BOOLEAN
    PROVE  ProfileFor(c, b) \in Profile /\ (Tidied(c) => Bounded(ProfileFor(c, b)))
  <1>1. c.plugged_in \in Profile
    BY DEF Settings
  <1>2. c.on_battery \in Seq(Profile)
    BY DEF Settings
  <1>3. c.on_battery # <<>> => 1 \in DOMAIN c.on_battery /\ c.on_battery[1] \in Profile
    BY <1>2
  <1> QED BY <1>1, <1>3 DEF ProfileFor, Tidied

\* Every countdown comes from the profile or from the file's timeouts, and the
\* soonest come first.
LEMMA StepsFit ==
    ASSUME NEW c \in Settings, NEW b \in BOOLEAN
    PROVE  /\ Steps(c, b) \in Seq(Timeout)
           /\ \A n \in DOMAIN Steps(c, b) :
                 \/ OwnTo(ProfileFor(c, b), Steps(c, b)[n])
                 \/ \E k \in DOMAIN c.timeouts : Steps(c, b)[n] = c.timeouts[k]
           /\ \A m, n \in DOMAIN Steps(c, b) :
                 m < n => Steps(c, b)[m].after <= Steps(c, b)[n].after
  <1> DEFINE own == ProfileTimeouts(ProfileFor(c, b))
             ts == c.timeouts
             all == own \o ts
  <1>1. ts \in Seq(Timeout)
    BY DEF Settings
  <1>2. own \in Seq(Timeout) /\ \A n \in DOMAIN own : OwnTo(ProfileFor(c, b), own[n])
    BY ProfileForFits, ProfileTimeoutsFit
  <1> HIDE DEF own, ts
  <1>3. /\ all \in Seq(Timeout)
        /\ \A n \in DOMAIN all : \/ \E k \in DOMAIN own : all[n] = own[k]
                                 \/ \E k \in DOMAIN ts : all[n] = ts[k]
    BY <1>1, <1>2, ConcatHas
  <1>4. Steps(c, b) = InOrder(all, DOMAIN all)
    BY DEF Steps, own, ts
  <1> HIDE DEF all
  <1>5. /\ Steps(c, b) \in Seq(Timeout)
        /\ \A n \in DOMAIN Steps(c, b) : \E k \in DOMAIN all : Steps(c, b)[n] = all[k]
        /\ \A m, n \in DOMAIN Steps(c, b) :
              m < n => Steps(c, b)[m].after <= Steps(c, b)[n].after
    BY <1>3, <1>4, InOrderSorts
  <1>6. \A n \in DOMAIN Steps(c, b) :
            \/ OwnTo(ProfileFor(c, b), Steps(c, b)[n])
            \/ \E k \in DOMAIN ts : Steps(c, b)[n] = ts[k]
    BY <1>2, <1>3, <1>5
  <1> QED BY <1>5, <1>6 DEF ts

LEMMA StepsWorkable ==
    ASSUME NEW c \in Settings, Tidied(c), NEW b \in BOOLEAN
    PROVE  \A n \in DOMAIN Steps(c, b) : Works(Steps(c, b)[n])
  BY StepsFit, ProfileForFits DEF Tidied, OwnTo

\* With no timeouts but the profile's, the dim comes first.
LEMMA DimComesFirst ==
    ASSUME NEW c \in Settings, NEW b \in BOOLEAN, c.timeouts = <<>>,
           NEW j \in DOMAIN Steps(c, b), NEW k \in DOMAIN Steps(c, b),
           Steps(c, b)[j].dim, Steps(c, b)[k].blank \/ Steps(c, b)[k].suspend
    PROVE  Steps(c, b)[j].after < Steps(c, b)[k].after
  <1> DEFINE p == ProfileFor(c, b)
  <1>1. DOMAIN c.timeouts = {}
    OBVIOUS
  <1>2. OwnTo(p, Steps(c, b)[j]) /\ OwnTo(p, Steps(c, b)[k])
    BY <1>1, StepsFit
  <1> HIDE DEF p
  <1> QED BY <1>2 DEF OwnTo
\* Every countdown of the profile and every timeout is in force as often as it
\* was asked for.
LEMMA StepsCount ==
    ASSUME NEW c \in Settings, NEW b \in BOOLEAN, NEW v
    PROVE  LET own == ProfileTimeouts(ProfileFor(c, b))
           IN  /\ Len(Steps(c, b)) = Len(own) + Len(c.timeouts)
               /\ Times(Steps(c, b), v) = Times(own, v) + Times(c.timeouts, v)
  <1> DEFINE own == ProfileTimeouts(ProfileFor(c, b))
             all == own \o c.timeouts
  <1>1. c.timeouts \in Seq(Timeout)
    BY DEF Settings
  <1>2. own \in Seq(Timeout)
    BY ProfileForFits, ProfileTimeoutsFit
  <1>3. Steps(c, b) = InOrder(all, DOMAIN all)
    BY DEF Steps
  <1> HIDE DEF own
  <1>4. all \in Seq(Timeout) /\ Len(all) \in Nat /\ DOMAIN all = 1 .. Len(all)
    BY <1>1, <1>2
  <1>5. /\ Len(all) = Len(own) + Len(c.timeouts)
        /\ Times(all, v) = Times(own, v) + Times(c.timeouts, v)
    BY <1>1, <1>2, ConcatCounts
  <1> HIDE DEF all
  <1> DEFINE l == Len(all)
  <1>6. Cardinality(DOMAIN all) = Len(all)
    <2>1. l \in Nat /\ DOMAIN all = 1 .. l
      BY <1>4
    <2> HIDE DEF l
    <2>2. Cardinality(1 .. l) = IF 1 > l THEN 0 ELSE l - 1 + 1
      BY <2>1, FS_Interval
    <2>3. Cardinality(1 .. l) = l
      BY <2>1, <2>2
    <2> QED BY <2>1, <2>3 DEF l
  <1>7. Len(Steps(c, b)) = Len(all)
    BY <1>3, <1>4, <1>6, InOrderSorts
  <1>8. Times(Steps(c, b), v) = Times(all, v)
    BY <1>3, <1>4, InOrderCounts DEF Times
  <1> QED BY <1>5, <1>7, <1>8 DEF own

-----------------------------------------------------------------------------
(* The invariant *)

\* What the loop will have been told once it has taken all that is sent.
Final == IF channel = <<>> THEN onBattery ELSE channel[Len(channel)]

\* The loop's three variables always agree.
LoopFits ==
    /\ Tidied(config)
    /\ steps = Steps(config, onBattery)
    /\ config.before_sleep.lock <=> written.before_sleep.lock /\ written.locker = "set"
    /\ config.timeouts = Kept(written.timeouts)

\* The thread remembers what it sent last, and that is how things are unless a
\* signal is on its way or was missed.
ThreadFits ==
    /\ source \in {"listening", "asked"} => Final = last
    /\ source \in {"read", "listening"} /\ changes = 0 => last = battery \/ unheard

Inv == TypeOK /\ LoopFits /\ ThreadFits

LEMMA FilesFound ==
    ASSUME NEW d \in Disk
    PROVE  Found(d, Named) \in File
  BY NamedAssumption DEF Disk, Found

LEMMA LoadFits ==
    ASSUME NEW f \in File, NEW b \in BOOLEAN,
           config' = Load(f), written' = Written(f), onBattery' = b, steps' = Steps(config', b)
    PROVE  LoopFits' /\ config' \in Settings /\ written' \in Settings /\ steps' \in Seq(Timeout)
  <1>1. /\ config' \in Settings /\ Tidied(config') /\ written' \in Settings
        /\ config'.before_sleep.lock <=> written'.before_sleep.lock /\ written'.locker = "set"
        /\ config'.timeouts = Kept(written'.timeouts)
    BY LoadTidies
  <1>2. steps' \in Seq(Timeout)
    BY <1>1, StepsFit
  <1> QED BY <1>1, <1>2 DEF LoopFits

LEMMA Begins == Init => Inv
  <1> SUFFICES ASSUME Init PROVE Inv
    OBVIOUS
  <1>1. disk \in Disk /\ Found(disk, Named) \in File
    BY DisksAssumption, FilesFound DEF Init
  <1>2. /\ config \in Settings /\ Tidied(config) /\ written \in Settings
        /\ config.before_sleep.lock <=> written.before_sleep.lock /\ written.locker = "set"
        /\ config.timeouts = Kept(written.timeouts)
    BY <1>1, LoadTidies DEF Init
  <1>3. steps = Steps(config, onBattery) /\ steps \in Seq(Timeout)
    BY <1>2, StepsFit DEF Init
  <1>4. LoopFits
    BY <1>2, <1>3 DEF LoopFits
  <1>5. TypeOK
    <2>1. {battery, upower, last, onBattery, unheard} \subseteq BOOLEAN
      BY DEF Init
    <2>2. changes \in 0 .. MaxSignals
      BY BoundsAssumption DEF Init
    <2>3. channel \in Seq(BOOLEAN) /\ source = "starting"
      BY DEF Init
    <2> QED BY <1>1, <1>2, <1>3, <2>1, <2>2, <2>3 DEF TypeOK
  <1>6. ThreadFits
    BY DEF Init, ThreadFits
  <1> QED BY <1>4, <1>5, <1>6 DEF Inv

LEMMA LastOfAppend ==
    ASSUME NEW s \in Seq(BOOLEAN), NEW v \in BOOLEAN
    PROVE  /\ Append(s, v) \in Seq(BOOLEAN) /\ Append(s, v) # <<>>
           /\ Append(s, v)[Len(Append(s, v))] = v
  OBVIOUS

LEMMA LastOfTail ==
    ASSUME NEW s \in Seq(BOOLEAN), s # <<>>
    PROVE  /\ Head(s) \in BOOLEAN /\ Tail(s) \in Seq(BOOLEAN)
           /\ s[Len(s)] = IF Tail(s) = <<>> THEN Head(s) ELSE Tail(s)[Len(Tail(s))]
  <1>1. Head(s) \in BOOLEAN /\ Tail(s) \in Seq(BOOLEAN)
    OBVIOUS
  <1>2. Len(s) \in Nat /\ Len(s) # 0 /\ Len(Tail(s)) = Len(s) - 1
    OBVIOUS
  <1>3. CASE Len(s) = 1
    <2>1. Len(Tail(s)) = 0
      BY <1>2, <1>3
    <2>2. Tail(s) = <<>>
      BY <1>1, <2>1, EmptySeq
    <2>3. s[1] = Head(s)
      OBVIOUS
    <2> QED BY <1>3, <2>2, <2>3
  <1>4. CASE Len(s) # 1
    <2>1. Len(Tail(s)) \in 1 .. Len(Tail(s)) /\ Tail(s) # <<>>
      BY <1>2, <1>4
    <2>2. Tail(s)[Len(Tail(s))] = s[Len(Tail(s)) + 1]
      BY <1>2, <2>1
    <2> QED BY <1>2, <2>1, <2>2
  <1> QED BY <1>1, <1>3, <1>4

LEMMA LoopAlone ==
    ASSUME LoopFits, UNCHANGED loop
    PROVE  LoopFits'
  BY DEF LoopFits, loop, settings

LEMMA Goes == Inv /\ [Next]_vars => Inv'
  <1> SUFFICES ASSUME Inv, [Next]_vars PROVE Inv'
    OBVIOUS
  <1> USE DEF Inv
  <1>1. CASE PowerMoves
    <2>0. changes' \in 0 .. MaxSignals
      <3>1. changes \in 0 .. MaxSignals
        BY DEF TypeOK
      <3>2. CASE upower /\ source \in {"listening", "asked"}
        <4>1. changes < MaxSignals /\ changes' = changes + 1
          BY <1>1, <3>2 DEF PowerMoves
        <4> QED BY <3>1, <4>1, BoundsAssumption
      <3>3. CASE ~(upower /\ source \in {"listening", "asked"})
        <4>1. changes' = changes
          BY <1>1, <3>3 DEF PowerMoves
        <4> QED BY <3>1, <4>1
      <3> QED BY <3>2, <3>3
    <2>1. TypeOK'
      BY <1>1, <2>0 DEF PowerMoves, TypeOK, loop, settings
    <2>2. LoopFits'
      BY <1>1, LoopAlone DEF PowerMoves
    <2>3. UNCHANGED <<channel, onBattery, source, last>>
      BY <1>1 DEF PowerMoves, loop
    <2>4. source = "listening" => unheard' = TRUE \/ changes' # 0
      BY <1>1 DEF PowerMoves, TypeOK
    <2>5. source = "read" => unheard' = TRUE
      BY <1>1 DEF PowerMoves
    <2> QED BY <2>1, <2>2, <2>3, <2>4, <2>5 DEF ThreadFits, Final
  <1>2. CASE UPowerRestarts
    <2>1. TypeOK'
      BY <1>2 DEF UPowerRestarts, TypeOK, thread, loop, settings
    <2> QED BY <1>2, <2>1, LoopAlone DEF UPowerRestarts, ThreadFits, Final, thread, loop
  <1>3. CASE Edit
    <2>1. TypeOK'
      BY <1>3, DisksAssumption DEF Edit, TypeOK, thread, loop, settings
    <2> QED BY <1>3, <2>1, LoopAlone DEF Edit, ThreadFits, Final, thread, loop
  <1>4. CASE GiveUp
    <2>1. TypeOK'
      BY <1>4 DEF GiveUp, TypeOK, loop, settings
    <2> QED BY <1>4, <2>1, LoopAlone DEF GiveUp, ThreadFits
  <1>5. CASE ReadFirst
    <2>1. TypeOK'
      BY <1>5 DEF ReadFirst, TypeOK, OnBatterySays, loop, settings
    <2>2. ThreadFits'
      BY <1>5 DEF ReadFirst, ThreadFits, OnBatterySays, TypeOK
    <2> QED BY <1>5, <2>1, <2>2, LoopAlone DEF ReadFirst
  <1>6. CASE Listen
    <2>1. channel' = Append(channel, last) /\ UNCHANGED <<battery, last, changes, unheard, loop>>
      BY <1>6 DEF Listen, Send
    <2>2. TypeOK'
      BY <1>6, <2>1, LastOfAppend DEF Listen, TypeOK, loop, settings
    <2>3. Final' = last'
      BY <2>1, LastOfAppend DEF Final, TypeOK
    <2>4. ThreadFits'
      BY <1>6, <2>1, <2>3 DEF Listen, ThreadFits
    <2> QED BY <2>1, <2>2, <2>4, LoopAlone
  <1>7. CASE Hear
    <2>0. changes' \in 0 .. MaxSignals
      <3>1. changes \in 0 .. MaxSignals /\ changes > 0 /\ changes' = changes - 1
        BY <1>7 DEF Hear, TypeOK
      <3> QED BY <3>1, BoundsAssumption
    <2>1. TypeOK'
      BY <1>7, <2>0 DEF Hear, TypeOK, loop, settings
    <2> QED BY <1>7, <2>1, LoopAlone DEF Hear, ThreadFits, Final, loop
  <1>8. CASE ReadAgain
    <2>1. UNCHANGED <<battery, changes, loop>> /\ last' = OnBatterySays /\ unheard' = ~upower
      BY <1>8 DEF ReadAgain
    <2>2. last' \in BOOLEAN /\ (last' = battery \/ unheard')
      BY <2>1 DEF OnBatterySays, TypeOK
    <2>3. channel' \in Seq(BOOLEAN) /\ Final' = last'
      <3>1. CASE last' # last
        <4>1. channel' = Append(channel, last') /\ onBattery' = onBattery
          BY <1>8, <3>1 DEF ReadAgain, Send, loop
        <4> QED BY <4>1, <2>2, LastOfAppend DEF Final, TypeOK
      <3>2. CASE last' = last
        <4>1. channel' = channel /\ onBattery' = onBattery
          BY <1>8, <3>2 DEF ReadAgain, loop
        <4> QED BY <1>8, <4>1, <3>2 DEF ReadAgain, Final, TypeOK, ThreadFits
      <3> QED BY <3>1, <3>2
    <2>4. TypeOK'
      BY <1>8, <2>1, <2>2, <2>3 DEF ReadAgain, TypeOK, loop, settings
    <2>5. ThreadFits'
      BY <2>1, <2>2, <2>3 DEF ThreadFits
    <2> QED BY <2>1, <2>4, <2>5, LoopAlone
  <1>9. CASE LoopTakes
    <2>1. /\ channel # <<>> /\ channel' = Tail(channel) /\ onBattery' = Head(channel)
          /\ UNCHANGED <<battery, upower, disk, source, last, changes, unheard, config, written>>
      BY <1>9 DEF LoopTakes, Taken, thread, settings
    <2>2. onBattery' \in BOOLEAN /\ channel' \in Seq(BOOLEAN) /\ Final' = Final
      BY <2>1, LastOfTail DEF Final, TypeOK
    <2>3. steps' = Steps(config, onBattery')
      BY <1>9 DEF LoopTakes, LoopFits
    <2>4. steps' \in Seq(Timeout)
      BY <2>2, <2>3, StepsFit DEF TypeOK
    <2>5. TypeOK'
      BY <2>1, <2>2, <2>4 DEF TypeOK
    <2>6. LoopFits'
      BY <2>1, <2>3 DEF LoopFits
    <2>7. ThreadFits'
      BY <2>1, <2>2 DEF ThreadFits
    <2> QED BY <2>5, <2>6, <2>7
  <1>10. CASE Reload
    <2>1. /\ config' = Load(Found(disk, Named)) /\ written' = Written(Found(disk, Named))
          /\ steps' = Steps(config', onBattery) /\ onBattery' = onBattery
          /\ UNCHANGED <<battery, upower, disk, thread, channel>>
      BY <1>10 DEF Reload
    <2>2. onBattery \in BOOLEAN /\ Found(disk, Named) \in File
      BY FilesFound DEF TypeOK
    <2>3. LoopFits' /\ config' \in Settings /\ written' \in Settings /\ steps' \in Seq(Timeout)
      BY <2>1, <2>2, LoadFits
    <2>4. TypeOK'
      BY <2>1, <2>3 DEF TypeOK, thread
    <2>5. ThreadFits'
      BY <2>1 DEF ThreadFits, Final, thread
    <2> QED BY <2>3, <2>4, <2>5
  <1>11. CASE UNCHANGED vars
    <2>1. TypeOK'
      BY <1>11 DEF TypeOK, vars, thread, loop, settings
    <2> QED BY <1>11, <2>1, LoopAlone DEF ThreadFits, Final, vars, thread, loop
  <1> QED BY <1>1, <1>2, <1>3, <1>4, <1>5, <1>6, <1>7, <1>8, <1>9, <1>10, <1>11 DEF Next

\* Whatever is written, edited, plugged and unplugged, the settings and the
\* countdowns belong together.
THEOREM Inductive == Spec => []Inv
  BY Begins, Goes, PTL DEF Spec

-----------------------------------------------------------------------------
(* What follows from it *)

\* Every variable of the power source and the settings keeps its type.
THEOREM TypeCorrect == Spec => []TypeOK
  <1>1. Inv => TypeOK
    BY DEF Inv
  <1> QED BY <1>1, Inductive, PTL

\* Config::tidy and Profile::timeouts between them: no file makes a countdown
\* that cannot be waited for or does nothing.
THEOREM StepsWork == Spec => []EveryStepWorks
  <1>1. Inv => EveryStepWorks
    BY StepsWorkable DEF Inv, TypeOK, LoopFits, EveryStepWorks, Works
  <1> QED BY <1>1, Inductive, PTL

\* Config::steps: the countdowns are sorted, for any number of timeouts.
THEOREM StepsSorted == Spec => []SoonestFirst
  <1>1. Inv => SoonestFirst
    BY StepsFit DEF Inv, TypeOK, LoopFits, SoonestFirst
  <1> QED BY <1>1, Inductive, PTL

\* Profile::timeouts: a dim of the profile is seen, whatever the times.
THEOREM DimsFirst == Spec => []DimIsSeen
  <1>1. Inv => DimIsSeen
    <2> SUFFICES ASSUME Inv, written.timeouts = <<>>,
                        NEW j \in DOMAIN steps, NEW k \in DOMAIN steps,
                        steps[j].dim, steps[k].blank \/ steps[k].suspend
                 PROVE  steps[j].after < steps[k].after
      BY DEF DimIsSeen
    <2>1. /\ config \in Settings /\ onBattery \in BOOLEAN /\ config.timeouts = Kept(<<>>)
          /\ steps = Steps(config, onBattery)
      BY DEF Inv, TypeOK, LoopFits
    <2>2. Kept(<<>>) = <<>>
      <3>1. <<>> \in Seq(Timeout)
        OBVIOUS
      <3> QED BY <3>1, KeptWorks
    <2> QED BY <2>1, <2>2, DimComesFirst
  <1> QED BY <1>1, Inductive, PTL

\* Config::tidy and reload: the lock before sleep is on exactly when the file
\* allows it and there is a locker to run.
THEOREM LocksWhenItCan == Spec => []LocksIfItCan
  <1>1. Inv => LocksIfItCan
    BY DEF Inv, LoopFits, LocksIfItCan
  <1> QED BY <1>1, Inductive, PTL

\* Config::tidy: no file puts a setting out of the range that is relied on.
THEOREM RangesStand == Spec => []InRange
  <1>1. Inv => InRange
    BY DEF Inv, LoopFits, Tidied, InRange
  <1> QED BY <1>1, Inductive, PTL

\* Config::tidy, steps and Profile::timeouts: no timeout of the file is lost,
\* doubled or changed but by the cut, through two sorts and a reload.
THEOREM NothingIsLost == Spec => []NothingLost
  <1>1. Inv => NothingLost
    <2> SUFFICES ASSUME Inv PROVE NothingLost
      OBVIOUS
    <2> DEFINE ts == written.timeouts
               cut(k) == [ts[k] EXCEPT !.after = AtMost(@, MaxTimeout)]
               asked == {k \in DOMAIN ts : Usable(ts[k])}
               own == ProfileTimeouts(ProfileFor(config, onBattery))
    <2>1. /\ config \in Settings /\ written \in Settings /\ onBattery \in BOOLEAN
          /\ steps = Steps(config, onBattery) /\ config.timeouts = Kept(ts)
      BY DEF Inv, TypeOK, LoopFits
    <2>2. ts \in Seq(Timeout)
      BY <2>1 DEF Settings
    <2> HIDE DEF ts
    <2>3. Len(Kept(ts)) = Cardinality(asked)
      BY <2>2, KeptCounts
    <2>4. Len(steps) = Len(own) + Len(Kept(ts))
      BY <2>1, StepsCount
    <2>5. ASSUME NEW k \in asked
          PROVE  Cardinality({n \in DOMAIN steps : steps[n] = cut(k)})
                     = Cardinality({j \in asked : cut(j) = cut(k)})
                           + Cardinality({n \in DOMAIN own : own[n] = cut(k)})
      <3> DEFINE v == cut(k)
                 theirs == Cardinality({j \in asked : cut(j) = v})
                 mine == Cardinality({n \in DOMAIN own : own[n] = v})
      <3> HIDE DEF v
      <3>1. Times(Kept(ts), v) = theirs
        BY <2>2, KeptCounts
      <3>2. Times(steps, v) = Times(own, v) + Times(Kept(ts), v)
        BY <2>1, StepsCount
      <3>3. theirs \in Nat /\ mine \in Nat
        <4>1. IsFiniteSet(DOMAIN ts) /\ IsFiniteSet(DOMAIN own)
          BY <2>1, <2>2, PlacesFinite, ProfileForFits, ProfileTimeoutsFit
        <4>2. IsFiniteSet({j \in asked : cut(j) = v}) /\ IsFiniteSet({n \in DOMAIN own : own[n] = v})
          BY <4>1, FS_Subset
        <4> QED BY <4>2, FS_CardinalityType
      <3>4. Cardinality({n \in DOMAIN steps : steps[n] = v}) = theirs + mine
        BY <3>1, <3>2, <3>3 DEF Times, Among
      <3> QED BY <3>4 DEF v
    <2> QED BY <2>3, <2>4, <2>5 DEF NothingLost, ts
  <1> QED BY <1>1, Inductive, PTL

\* The countdowns in force are all that the file and the profile ask for, in
\* their order, and only such as work: for every file, plug and reload.
THEOREM StepsComeAsAsked == Spec => []StepsAsAsked
  <1>1. EveryStepWorks /\ SoonestFirst /\ NothingLost => StepsAsAsked
    BY DEF StepsAsAsked
  <1> QED BY <1>1, StepsWork, StepsSorted, NothingIsLost, PTL

\* upower::run, set_on_battery and reload together: what counts down is the
\* profile of the power source the machine is on.
THEOREM RightProfile == Spec => []ProfileFitsSource
  <1>1. Inv => ProfileFitsSource
    BY DEF Inv, LoopFits, ThreadFits, Final, ProfileFitsSource
  <1> QED BY <1>1, Inductive, PTL

\* reload: settings are replaced by a file that was accepted, or by the absence
\* of one that was never named.
THEOREM GoodSettingsStand == Spec => LastGoodStands
  <1>1. Inv /\ [Next]_vars =>
            [ config' # config =>
                Accepts(Found(disk, Named)) \/ (~Named /\ Found(disk, Named).kind = "missing") ]_vars
    <2> SUFFICES ASSUME Next, config' # config
                 PROVE  Accepts(Found(disk, Named)) \/ (~Named /\ Found(disk, Named).kind = "missing")
      BY DEF vars, loop, settings
    <2>1. Reload
      BY DEF Next, PowerMoves, UPowerRestarts, Edit, GiveUp, ReadFirst, Listen, Hear, ReadAgain,
             LoopTakes, loop, settings
    <2> QED BY <2>1 DEF Reload, SourceOf
  <1> QED BY <1>1, Inductive, PTL DEF Spec, LastGoodStands
=============================================================================
