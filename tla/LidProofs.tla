------------------------------ MODULE LidProofs ------------------------------
(***************************************************************************)
(* Theorems about Lid, for any configuration and however often the lid     *)
(* moves.                                                                  *)
(***************************************************************************)
EXTENDS Lid, SequenceTheorems, FiniteSetTheorems, TLAPS

-----------------------------------------------------------------------------
(* Queues *)

LEMMA AfterPut ==
    ASSUME NEW S, NEW q \in Seq(S), NEW e \in S
    PROVE  /\ Append(q, e) \in Seq(S) /\ Append(q, e) # <<>>
           /\ Len(q) \in Nat /\ Len(Append(q, e)) = Len(q) + 1
           /\ DOMAIN q = 1 .. Len(q) /\ DOMAIN Append(q, e) = 1 .. Len(q) + 1
           /\ \A k \in 1 .. Len(q) : Append(q, e)[k] = q[k]
           /\ Append(q, e)[Len(q) + 1] = e
BY AppendProperties, LenProperties

LEMMA AfterTake ==
    ASSUME NEW S, NEW q \in Seq(S), q # <<>>
    PROVE  /\ Tail(q) \in Seq(S) /\ Head(q) \in S /\ Head(q) = q[1]
           /\ Len(q) \in Nat /\ Len(q) > 0 /\ Len(Tail(q)) = Len(q) - 1
           /\ DOMAIN q = 1 .. Len(q) /\ DOMAIN Tail(q) = 1 .. Len(q) - 1
           /\ \A k \in 1 .. Len(q) - 1 : Tail(q)[k] = q[k + 1]
<1>1. Tail(q) \in Seq(S) /\ Head(q) \in S /\ Head(q) = q[1] /\ Len(Tail(q)) = Len(q) - 1
  BY HeadTailProperties
<1>2. Len(q) \in Nat /\ Len(q) # 0 /\ DOMAIN q = 1 .. Len(q)
  BY EmptySeq, LenProperties
<1>3. DOMAIN Tail(q) = 1 .. Len(q) - 1
  BY <1>1, LenProperties
<1>4. \A k \in 1 .. Len(q) - 1 : Tail(q)[k] = q[k + 1]
  BY <1>1, HeadTailProperties
<1>5. QED
  BY <1>1, <1>2, <1>3, <1>4

-----------------------------------------------------------------------------
(* Types *)

LEMMA TypeInit == Init => TypeOK
<1> SUFFICES ASSUME Init PROVE TypeOK
  OBVIOUS
<1>1. signals \in Seq({"open", "shut", "invalidated"}) /\ channel \in Seq(Event)
  BY EmptySeq DEF Init
<1>2. requests \in 0 .. MaxRequests
  BY BoundsAssumption DEF Init
<1>3. QED
  BY <1>1, <1>2 DEF Init, TypeOK, LidAction

LEMMA ChannelTakes ==
    ASSUME TypeOK, channel # <<>>, channel' = Tail(channel)
    PROVE  Head(channel) \in Event /\ channel' \in Seq(Event)
BY AfterTake DEF TypeOK

LEMMA ActionGiven ==
    ASSUME NEW docked \in BOOLEAN, NEW power \in BOOLEAN
    PROVE  ActionFor(docked, power) \in LidAction
BY ActionsAssumption DEF ActionFor

LEMMA TypeStep == TypeOK /\ [Next]_vars => TypeOK'
<1> SUFFICES ASSUME TypeOK, [Next]_vars PROVE TypeOK'
  OBVIOUS
<1> USE DEF watch, session, story
<1>1. CASE Moves
  <2>1. lid' \in {"open", "shut"} /\ moves' \in Nat /\ shuts' \in Nat
    BY <1>1 DEF Moves, TypeOK
  <2>2. signals' \in Seq({"open", "shut", "invalidated"})
    <3>1. CASE Inhibited /\ thread # "held"
      <4>1. PICK says \in {lid', "invalidated"} : signals' = Append(signals, says)
        BY <1>1, <3>1 DEF Moves
      <4>2. says \in {"open", "shut", "invalidated"}
        BY <2>1
      <4>3. QED
        BY <4>1, <4>2, AfterPut DEF TypeOK
    <3>2. CASE ~(Inhibited /\ thread # "held")
      BY <1>1, <3>2 DEF Moves, TypeOK
    <3>3. QED
      BY <3>1, <3>2
  <2>3. answer' \in {"logind", "thread", "nobody"}
    BY <1>1 DEF Moves
  <2>4. QED
    BY <1>1, <2>1, <2>2, <2>3 DEF Moves, TypeOK
<1>2. CASE Stalls
  BY <1>2 DEF Stalls, TypeOK
<1>3. CASE SomebodyIsThere
  BY <1>3 DEF SomebodyIsThere, TypeOK, LidAction
<1>4. CASE Hold \/ Subscribe
  BY <1>4 DEF Hold, Subscribe, TypeOK
<1>5. CASE ReadFirst
  BY <1>5 DEF ReadFirst, TypeOK
<1>6. CASE Hear
  <2>1. /\ Head(signals) \in {"open", "shut", "invalidated"}
        /\ signals' \in Seq({"open", "shut", "invalidated"})
    BY <1>6, AfterTake DEF Hear, TypeOK
  <2>2. closed' \in {"open", "shut"}
    BY <1>6, <2>1 DEF Hear, Means, TypeOK
  <2>3. missed' \in BOOLEAN /\ answer' \in {"logind", "thread", "nobody"}
    BY <1>6 DEF Hear, Reckon, TypeOK
  <2>4. thread' \in {"watching", "moved"}
    BY <1>6 DEF Hear
  <2>5. QED
    BY <1>6, <2>1, <2>2, <2>3, <2>4 DEF Hear, TypeOK
<1>7. CASE Tell
  <2>1. PICK docked \in BOOLEAN, power \in BOOLEAN :
            Send([kind |-> "lid", closed |-> closed, docked |-> docked, power |-> power])
    BY <1>7 DEF Tell
  <2>2. [kind |-> "lid", closed |-> closed, docked |-> docked, power |-> power] \in Event
    BY DEF TypeOK, Event, LidEvent
  <2>3. channel' \in Seq(Event)
    BY <2>1, <2>2, AfterPut DEF Send, TypeOK
  <2>4. QED
    BY <1>7, <2>3 DEF Tell, TypeOK
<1>8. CASE TakeOpen
  <2>1. channel' \in Seq(Event)
    BY <1>8, ChannelTakes DEF TakeOpen
  <2>2. QED
    BY <1>8, <2>1 DEF TakeOpen, TypeOK, LidAction
<1>9. CASE TakeShut
  <2> DEFINE e == Head(channel)
             action == ActionFor(e.docked, e.power)
  <2>1. channel' \in Seq(Event) /\ e \in Event /\ e.kind = "lid"
    BY <1>9, ChannelTakes DEF TakeShut
  <2>2. e.docked \in BOOLEAN /\ e.power \in BOOLEAN
    BY <2>1 DEF Event, LidEvent
  <2>3. action \in LidAction
    BY <2>2, ActionGiven
  <2>4. requests' \in 0 .. MaxRequests
    <3>1. requests \in 0 .. MaxRequests /\ MaxRequests \in Nat
      BY BoundsAssumption DEF TypeOK
    <3>2. requests' = requests \/ (requests < MaxRequests /\ requests' = requests + 1)
      BY <1>9 DEF TakeShut
    <3>3. QED
      BY <3>1, <3>2
  <2>5. locked' \in BOOLEAN /\ dark' \in BOOLEAN
    BY <1>9 DEF TakeShut, Lock, Blank
  <2>6. did' \in LidAction /\ told' = "shut" /\ slept' = FALSE /\ acted' = acted + 1
    BY <1>9, <2>3 DEF TakeShut
  <2>7. UNCHANGED <<lid, logind, moves, watch, answer, shuts>>
    BY <1>9 DEF TakeShut
  <2>8. acted' \in Nat
    BY <2>6 DEF TypeOK
  <2>9. {logind', dark', locked', slept', missed'} \subseteq BOOLEAN
    BY <2>5, <2>6, <2>7 DEF TypeOK
  <2>10. QED
    BY <2>1, <2>4, <2>6, <2>7, <2>8, <2>9 DEF TypeOK
<1>10. ASSUME requests > 0, requests' = requests - 1
       PROVE  requests' \in 0 .. MaxRequests
  <2>1. requests \in 0 .. MaxRequests /\ MaxRequests \in Nat
    BY BoundsAssumption DEF TypeOK
  <2>2. QED
    BY <1>10, <2>1
<1>11. CASE Granted
  BY <1>10, <1>11 DEF Granted, TypeOK
<1>12. CASE Refused
  <2>1. [kind |-> "refused"] \in Event
    BY DEF Event
  <2>2. channel' \in Seq(Event)
    BY <1>12, <2>1, AfterPut DEF Refused, Send, TypeOK
  <2>3. QED
    BY <1>10, <1>12, <2>2 DEF Refused, TypeOK
<1>13. CASE TakeRefused
  <2>1. channel' \in Seq(Event)
    BY <1>13, ChannelTakes DEF TakeRefused
  <2>2. locked' \in BOOLEAN /\ dark' \in BOOLEAN
    BY <1>13 DEF TakeRefused, Lock, Blank
  <2>3. QED
    BY <1>13, <2>1, <2>2 DEF TakeRefused, TypeOK
<1>14. CASE UNCHANGED vars
  BY <1>14 DEF vars, TypeOK
<1>15. QED
  BY <1>1, <1>2, <1>3, <1>4, <1>5, <1>6, <1>7, <1>8, <1>9, <1>11, <1>12, <1>13, <1>14
     DEF Next

\* The lid's thread, its requests and what it sends the loop keep their types,
\* for any configuration and however often the lid moves.
THEOREM TypeCorrect == Spec => []TypeOK
BY TypeInit, TypeStep, PTL DEF Spec
-----------------------------------------------------------------------------
(* What the queues say *)

Other(position) == IF position = "open" THEN "shut" ELSE "open"

\* A queue of signals names the lid's positions in turn, the last of them as it
\* is; "invalidated" stands for either.
Alternates(q, now) ==
    \A k \in DOMAIN q, n \in Nat :
        /\ Len(q) - k = 2 * n => q[k] \in {now, "invalidated"}
        /\ Len(q) - k = 2 * n + 1 => q[k] \in {Other(now), "invalidated"}

LEMMA PutAlternates ==
    ASSUME NEW S, NEW q \in Seq(S), NEW now \in {"open", "shut"},
           Alternates(q, now), NEW says \in S, says \in {Other(now), "invalidated"}
    PROVE  Alternates(Append(q, says), Other(now))
<1> DEFINE r == Append(q, says)
<1>1. /\ Len(q) \in Nat /\ Len(r) = Len(q) + 1 /\ DOMAIN r = 1 .. Len(q) + 1
      /\ DOMAIN q = 1 .. Len(q)
      /\ \A k \in 1 .. Len(q) : r[k] = q[k]
      /\ r[Len(q) + 1] = says
  BY AfterPut
<1> HIDE DEF r
<1>2. Other(Other(now)) = now
  BY DEF Other
<1> SUFFICES ASSUME NEW k \in DOMAIN r, NEW n \in Nat
             PROVE  /\ Len(r) - k = 2 * n => r[k] \in {Other(now), "invalidated"}
                    /\ Len(r) - k = 2 * n + 1 => r[k] \in {now, "invalidated"}
  BY <1>2 DEF Alternates, r
<1>3. CASE k = Len(q) + 1
  BY <1>1, <1>3
<1>4. CASE k \in 1 .. Len(q)
  <2>1. r[k] = q[k] /\ k \in DOMAIN q
    BY <1>1, <1>4
  <2>2. ASSUME Len(r) - k = 2 * n PROVE r[k] \in {Other(now), "invalidated"}
    <3>1. n - 1 \in Nat /\ Len(q) - k = 2 * (n - 1) + 1
      BY <1>1, <1>4, <2>2
    <3>2. QED
      BY <2>1, <3>1 DEF Alternates
  <2>3. ASSUME Len(r) - k = 2 * n + 1 PROVE r[k] \in {now, "invalidated"}
    <3>1. Len(q) - k = 2 * n
      BY <1>1, <1>4, <2>3
    <3>2. QED
      BY <2>1, <3>1 DEF Alternates
  <2>4. QED
    BY <2>2, <2>3
<1>5. QED
  BY <1>1, <1>3, <1>4

LEMMA TakeAlternates ==
    ASSUME NEW S, NEW q \in Seq(S), q # <<>>, NEW now, Alternates(q, now)
    PROVE  /\ Alternates(Tail(q), now)
           /\ \A n \in Nat :
                 /\ Len(q) = 2 * n + 1 => Head(q) \in {now, "invalidated"}
                 /\ Len(q) = 2 * n + 2 => Head(q) \in {Other(now), "invalidated"}
<1> DEFINE r == Tail(q)
<1>1. /\ Len(q) \in Nat /\ Len(q) > 0 /\ Len(r) = Len(q) - 1 /\ DOMAIN r = 1 .. Len(q) - 1
      /\ DOMAIN q = 1 .. Len(q) /\ Head(q) = q[1]
      /\ \A k \in 1 .. Len(q) - 1 : r[k] = q[k + 1]
  BY AfterTake
<1> HIDE DEF r
<1>2. Alternates(r, now)
  <2> SUFFICES ASSUME NEW k \in DOMAIN r, NEW n \in Nat
               PROVE  /\ Len(r) - k = 2 * n => r[k] \in {now, "invalidated"}
                      /\ Len(r) - k = 2 * n + 1 => r[k] \in {Other(now), "invalidated"}
    BY DEF Alternates
  <2>1. r[k] = q[k + 1] /\ k + 1 \in DOMAIN q /\ Len(r) - k = Len(q) - (k + 1)
    BY <1>1
  <2>2. QED
    BY <2>1 DEF Alternates
<1>3. ASSUME NEW n \in Nat
      PROVE  /\ Len(q) = 2 * n + 1 => Head(q) \in {now, "invalidated"}
             /\ Len(q) = 2 * n + 2 => Head(q) \in {Other(now), "invalidated"}
  <2>1. 1 \in DOMAIN q
    BY <1>1
  <2>2. /\ Len(q) = 2 * n + 1 => Len(q) - 1 = 2 * n
        /\ Len(q) = 2 * n + 2 => Len(q) - 1 = 2 * n + 1
    BY <1>1
  <2>3. QED
    BY <1>1, <2>1, <2>2 DEF Alternates
<1>4. QED
  BY <1>2, <1>3 DEF r

\* What a channel says of the lid: nothing, or c last.
NoLid(q) == \A k \in DOMAIN q : q[k].kind # "lid"
LastLid(q, c) ==
    \E k \in DOMAIN q : /\ q[k].kind = "lid" /\ q[k].closed = c
                        /\ \A j \in DOMAIN q : q[j].kind = "lid" => j <= k
HasRefusal(q) == \E k \in DOMAIN q : q[k].kind = "refused"

LEMMA PutEvent ==
    ASSUME NEW q \in Seq(Event), NEW e \in Event
    PROVE  /\ NoLid(Append(q, e)) <=> NoLid(q) /\ e.kind # "lid"
           /\ e.kind = "lid" => LastLid(Append(q, e), e.closed)
           /\ e.kind # "lid" => \A c : LastLid(q, c) => LastLid(Append(q, e), c)
           /\ HasRefusal(Append(q, e)) <=> HasRefusal(q) \/ e.kind = "refused"
<1> DEFINE r == Append(q, e)
<1>1. /\ Len(q) \in Nat /\ DOMAIN r = 1 .. Len(q) + 1 /\ DOMAIN q = 1 .. Len(q)
      /\ \A k \in 1 .. Len(q) : r[k] = q[k]
      /\ r[Len(q) + 1] = e
  BY AfterPut
<1> HIDE DEF r
<1>2. \A k \in DOMAIN r : k = Len(q) + 1 \/ (k \in DOMAIN q /\ r[k] = q[k])
  BY <1>1
<1>3. DOMAIN q \subseteq DOMAIN r /\ Len(q) + 1 \in DOMAIN r
  BY <1>1
<1>4. NoLid(r) <=> NoLid(q) /\ e.kind # "lid"
  BY <1>1, <1>2, <1>3 DEF NoLid
<1>5. HasRefusal(r) <=> HasRefusal(q) \/ e.kind = "refused"
  BY <1>1, <1>2, <1>3 DEF HasRefusal
<1>6. e.kind = "lid" => LastLid(r, e.closed)
  BY <1>1, <1>3 DEF LastLid
<1>7. ASSUME e.kind # "lid", NEW c, LastLid(q, c) PROVE LastLid(r, c)
  <2>1. PICK k \in DOMAIN q : /\ q[k].kind = "lid" /\ q[k].closed = c
                              /\ \A j \in DOMAIN q : q[j].kind = "lid" => j <= k
    BY <1>7 DEF LastLid
  <2>2. k \in DOMAIN r /\ r[k].kind = "lid" /\ r[k].closed = c
    BY <1>1, <1>3, <2>1
  <2>3. \A j \in DOMAIN r : r[j].kind = "lid" => j <= k
    BY <1>1, <1>2, <1>7, <2>1
  <2>4. QED
    BY <2>2, <2>3 DEF LastLid
<1>8. QED
  BY <1>4, <1>5, <1>6, <1>7 DEF r

LEMMA TakeEvent ==
    ASSUME NEW q \in Seq(Event), q # <<>>
    PROVE  /\ NoLid(q) <=> NoLid(Tail(q)) /\ Head(q).kind # "lid"
           /\ \A c : LastLid(q, c) =>
                 \/ LastLid(Tail(q), c)
                 \/ NoLid(Tail(q)) /\ Head(q).kind = "lid" /\ Head(q).closed = c
           /\ HasRefusal(q) <=> HasRefusal(Tail(q)) \/ Head(q).kind = "refused"
<1> DEFINE r == Tail(q)
           h == Head(q)
<1>1. /\ Len(q) \in Nat /\ Len(q) > 0 /\ DOMAIN r = 1 .. Len(q) - 1
      /\ DOMAIN q = 1 .. Len(q) /\ h = q[1]
      /\ \A k \in 1 .. Len(q) - 1 : r[k] = q[k + 1]
  BY AfterTake
<1> HIDE DEF r, h
<1>2. \A k \in DOMAIN q : k = 1 \/ (k - 1 \in DOMAIN r /\ r[k - 1] = q[k])
  BY <1>1
<1>3. 1 \in DOMAIN q /\ \A k \in DOMAIN r : k + 1 \in DOMAIN q /\ r[k] = q[k + 1]
  BY <1>1
<1>4. NoLid(q) <=> NoLid(r) /\ h.kind # "lid"
  BY <1>1, <1>2, <1>3 DEF NoLid
<1>5. HasRefusal(q) <=> HasRefusal(r) \/ h.kind = "refused"
  BY <1>1, <1>2, <1>3 DEF HasRefusal
<1>6. ASSUME NEW c, LastLid(q, c)
      PROVE  LastLid(r, c) \/ (NoLid(r) /\ h.kind = "lid" /\ h.closed = c)
  <2>1. PICK k \in DOMAIN q : /\ q[k].kind = "lid" /\ q[k].closed = c
                              /\ \A j \in DOMAIN q : q[j].kind = "lid" => j <= k
    BY <1>6 DEF LastLid
  <2>2. CASE k = 1
    <3>1. \A j \in DOMAIN r : r[j].kind # "lid"
      BY <1>1, <1>3, <2>1, <2>2
    <3>2. QED
      BY <1>1, <2>1, <2>2, <3>1 DEF NoLid
  <2>3. CASE k # 1
    <3>1. k - 1 \in DOMAIN r /\ r[k - 1].kind = "lid" /\ r[k - 1].closed = c
      BY <1>2, <2>1, <2>3
    <3>2. \A j \in DOMAIN r : r[j].kind = "lid" => j <= k - 1
      BY <1>1, <1>3, <2>1
    <3>3. QED
      BY <3>1, <3>2 DEF LastLid
  <2>4. QED
    BY <2>2, <2>3
<1>7. QED
  BY <1>4, <1>5, <1>6 DEF r, h

\* How many of a channel's events say that the lid was shut.
SaysShut(e) == e.kind = "lid" /\ e.closed = "shut"
Shuttings(q) == Cardinality({k \in DOMAIN q : SaysShut(q[k])})

LEMMA SameSize ==
    ASSUME NEW S, NEW T, IsFiniteSet(S), NEW f \in [S -> T],
           \A x, y \in S : f[x] = f[y] => x = y,
           \A t \in T : \E x \in S : f[x] = t
    PROVE  IsFiniteSet(T) /\ Cardinality(T) = Cardinality(S)
<1>1. f \in Surjection(S, T)
  BY DEF Surjection
<1>2. f \in Injection(S, T)
  BY DEF Injection, IsInjective
<1>3. QED
  BY <1>1, <1>2, FS_Surjection

LEMMA ShuttingsCount ==
    ASSUME NEW q \in Seq(Event)
    PROVE  IsFiniteSet({k \in DOMAIN q : SaysShut(q[k])}) /\ Shuttings(q) \in Nat
<1>1. DOMAIN q = 1 .. Len(q) /\ Len(q) \in Nat
  BY LenProperties
<1>2. IsFiniteSet(DOMAIN q)
  BY <1>1, FS_Interval
<1>3. IsFiniteSet({k \in DOMAIN q : SaysShut(q[k])})
  BY <1>2, FS_Subset
<1>4. QED
  BY <1>3, FS_CardinalityType DEF Shuttings

LEMMA PutShutting ==
    ASSUME NEW q \in Seq(Event), NEW e \in Event
    PROVE  Shuttings(Append(q, e)) = Shuttings(q) + IF SaysShut(e) THEN 1 ELSE 0
<1> DEFINE r == Append(q, e)
           S == {k \in DOMAIN q : SaysShut(q[k])}
           T == {k \in DOMAIN r : SaysShut(r[k])}
<1>1. /\ Len(q) \in Nat /\ DOMAIN r = 1 .. Len(q) + 1 /\ DOMAIN q = 1 .. Len(q)
      /\ \A k \in 1 .. Len(q) : r[k] = q[k]
      /\ r[Len(q) + 1] = e
  BY AfterPut
<1> HIDE DEF r
<1>2. IsFiniteSet(S)
  BY ShuttingsCount
<1>3. Len(q) + 1 \notin S
  BY <1>1
<1>4. SaysShut(e) => T = S \cup {Len(q) + 1}
  BY <1>1
<1>5. ~SaysShut(e) => T = S
  BY <1>1
<1>6. Shuttings(q) = Cardinality(S) /\ Shuttings(r) = Cardinality(T)
  BY DEF Shuttings
<1> HIDE DEF S, T
<1>7. Cardinality(S) \in Nat /\ Cardinality(S \cup {Len(q) + 1}) = Cardinality(S) + 1
  BY <1>2, <1>3, FS_AddElement, FS_CardinalityType
<1>8. Shuttings(r) = Shuttings(q) + IF SaysShut(e) THEN 1 ELSE 0
  <2>1. CASE SaysShut(e)
    BY <1>4, <1>6, <1>7, <2>1
  <2>2. CASE ~SaysShut(e)
    BY <1>5, <1>6, <1>7, <2>2
  <2>3. QED
    BY <2>1, <2>2
<1>9. QED
  BY <1>8 DEF r

LEMMA TakeShutting ==
    ASSUME NEW q \in Seq(Event), q # <<>>
    PROVE  Shuttings(q) = Shuttings(Tail(q)) + IF SaysShut(Head(q)) THEN 1 ELSE 0
<1> DEFINE r == Tail(q)
           h == Head(q)
           S == {k \in DOMAIN q : SaysShut(q[k])}
           R == {k \in DOMAIN r : SaysShut(r[k])}
           f == [k \in R |-> k + 1]
<1>1. /\ Len(q) \in Nat /\ Len(q) > 0 /\ DOMAIN r = 1 .. Len(q) - 1
      /\ DOMAIN q = 1 .. Len(q) /\ h = q[1]
      /\ \A k \in 1 .. Len(q) - 1 : r[k] = q[k + 1]
      /\ r \in Seq(Event)
  BY AfterTake
<1> HIDE DEF r, h
<1>2. IsFiniteSet(R) /\ Shuttings(q) = Cardinality(S) /\ Shuttings(r) = Cardinality(R)
  BY <1>1, ShuttingsCount DEF Shuttings
<1>3. f \in [R -> S \ {1}]
  BY <1>1
<1>4. \A x, y \in R : f[x] = f[y] => x = y
  BY <1>1
<1>5. \A t \in S \ {1} : \E x \in R : f[x] = t
  <2> SUFFICES ASSUME NEW t \in S \ {1} PROVE \E x \in R : f[x] = t
    OBVIOUS
  <2>1. t - 1 \in 1 .. Len(q) - 1 /\ (t - 1) + 1 = t
    BY <1>1
  <2>2. t - 1 \in R
    BY <1>1, <2>1
  <2>3. QED
    BY <2>1, <2>2
<1>6. 1 \in S <=> SaysShut(h)
  BY <1>1
<1> HIDE DEF f, S, R
<1>7. /\ IsFiniteSet(S \ {1}) /\ Cardinality(S \ {1}) = Cardinality(R)
      /\ Cardinality(R) \in Nat
  BY <1>2, <1>3, <1>4, <1>5, SameSize, FS_CardinalityType
<1>8. ASSUME 1 \in S PROVE Cardinality(S) = Cardinality(S \ {1}) + 1
  <2>1. Cardinality((S \ {1}) \cup {1}) = Cardinality(S \ {1}) + 1
    <3>1. 1 \notin S \ {1}
      OBVIOUS
    <3>2. QED
      BY <1>7, <3>1, FS_AddElement
  <2>2. (S \ {1}) \cup {1} = S
    BY <1>8
  <2>3. QED
    BY <2>1, <2>2
<1>9. ASSUME 1 \notin S PROVE Cardinality(S) = Cardinality(S \ {1})
  <2>1. S \ {1} = S
    BY <1>9
  <2>2. QED
    BY <2>1
<1>10. Cardinality(S) = Cardinality(R) + IF SaysShut(h) THEN 1 ELSE 0
  <2>1. CASE 1 \in S
    BY <1>6, <1>7, <1>8, <2>1
  <2>2. CASE 1 \notin S
    BY <1>6, <1>7, <1>9, <2>2
  <2>3. QED
    BY <2>1, <2>2
<1>11. QED
  BY <1>2, <1>10 DEF r, h

-----------------------------------------------------------------------------
(* Why the thread has the lid right *)

\* The thread has said nothing before it watches, and nothing is signalled
\* before it has subscribed.
Silent ==
    /\ thread \notin {"watching", "moved"} =>
           closed = "open" /\ told = "nothing" /\ acted = 0 /\ answer # "thread" /\ NoLid(channel)
    /\ thread \notin {"subscribed", "watching", "moved"} => signals = <<>>

InTurn == Alternates(signals, lid)

\* With no signal left the thread has the lid right, unless logind did not say.
Heard == thread \in {"watching", "moved"} => missed \/ signals # <<>> \/ closed = lid

\* The last thing said of the lid is what the thread takes it to be.
LastSaid ==
    thread # "moved" =>
        \/ NoLid(channel) /\ told \in {closed, "nothing"}
        \/ LastLid(channel, closed)

\* A lid shut under a thread that has never had anything to say was open when
\* the thread read it, or has an opening on its way.
Unsaid ==
    thread = "watching" /\ told = "nothing" /\ NoLid(channel) /\ ~missed
        /\ lid = "shut" /\ answer = "thread" => closed = "open" \/ Len(signals) >= 2

\* A machine that is to sleep sleeps, will be answered, or is dark.
Pending ==
    did \in {"suspend", "hibernate"} =>
        slept \/ requests > 0 \/ HasRefusal(channel) \/ (dark /\ (HasLocker => locked))

LEMMA StoryInit == Init => Silent /\ InTurn /\ Heard /\ LastSaid /\ Unsaid /\ Pending
<1> SUFFICES ASSUME Init PROVE Silent /\ InTurn /\ Heard /\ LastSaid /\ Unsaid /\ Pending
  OBVIOUS
<1>1. NoLid(channel) /\ InTurn
  BY DEF Init, NoLid, InTurn, Alternates
<1>2. QED
  BY <1>1 DEF Init, Silent, Heard, LastSaid, Unsaid, Pending

\* What comes off the channel, and what goes on it.
LEMMA ChannelTaken ==
    ASSUME TypeOK, channel # <<>>, channel' = Tail(channel)
    PROVE  /\ NoLid(channel) <=> NoLid(channel)' /\ Head(channel).kind # "lid"
           /\ \A c : LastLid(channel, c) =>
                 \/ LastLid(channel', c)
                 \/ NoLid(channel)' /\ Head(channel).kind = "lid" /\ Head(channel).closed = c
           /\ HasRefusal(channel) <=> HasRefusal(channel)' \/ Head(channel).kind = "refused"
BY TakeEvent DEF TypeOK

LEMMA ToldOfLid ==
    ASSUME TypeOK, Tell
    PROVE  /\ ~NoLid(channel)' /\ LastLid(channel', closed)
           /\ HasRefusal(channel)' <=> HasRefusal(channel)
           /\ Shuttings(channel') = Shuttings(channel) + IF closed = "shut" THEN 1 ELSE 0
<1>1. PICK docked \in BOOLEAN, power \in BOOLEAN :
          Send([kind |-> "lid", closed |-> closed, docked |-> docked, power |-> power])
  BY DEF Tell
<1> DEFINE e == [kind |-> "lid", closed |-> closed, docked |-> docked, power |-> power]
<1>2. e \in Event /\ e.kind = "lid" /\ e.closed = closed
  BY DEF TypeOK, Event, LidEvent
<1>3. channel' = Append(channel, e) /\ channel \in Seq(Event)
  BY <1>1 DEF Send, TypeOK
<1>4. SaysShut(e) <=> closed = "shut"
  BY <1>2 DEF SaysShut
<1> HIDE DEF e
<1>5. QED
  BY <1>2, <1>3, <1>4, PutEvent, PutShutting

LEMMA ToldOfRefusal ==
    ASSUME TypeOK, Refused
    PROVE  /\ NoLid(channel)' <=> NoLid(channel)
           /\ \A c : LastLid(channel, c) => LastLid(channel', c)
           /\ HasRefusal(channel)'
           /\ Shuttings(channel') = Shuttings(channel)
<1> DEFINE e == [kind |-> "refused"]
<1>1. e \in Event /\ e.kind # "lid" /\ e.kind = "refused" /\ ~SaysShut(e)
  BY DEF Event, SaysShut
<1>2. channel' = Append(channel, e) /\ channel \in Seq(Event)
  BY DEF Refused, Send, TypeOK
<1> HIDE DEF e
<1>3. Shuttings(channel) \in Nat
  BY <1>2, ShuttingsCount
<1>4. QED
  BY <1>1, <1>2, <1>3, PutEvent, PutShutting

LEMMA SilentStep == TypeOK /\ Silent /\ [Next]_vars => Silent'
<1> SUFFICES ASSUME TypeOK, Silent, [Next]_vars PROVE Silent'
  OBVIOUS
<1> USE DEF watch, session, story
<1>1. CASE Moves
  <2>1. thread \in {"starting", "held", "subscribed", "watching", "moved", "ended"}
    BY DEF TypeOK
  <2>2. thread \notin {"watching", "moved"} => answer' # "thread"
    BY <1>1, <2>1 DEF Moves, Inhibited
  <2>3. thread \notin {"subscribed", "watching", "moved"} => signals' = signals
    BY <1>1, <2>1 DEF Moves, Inhibited
  <2>4. UNCHANGED <<thread, closed, told, acted, channel>>
    BY <1>1 DEF Moves
  <2>5. QED
    BY <2>2, <2>3, <2>4 DEF Silent, NoLid
<1>2. CASE Stalls \/ SomebodyIsThere \/ Granted
  BY <1>2 DEF Stalls, SomebodyIsThere, Granted, Silent, NoLid
<1>3. CASE Hold \/ Subscribe
  BY <1>3 DEF Hold, Subscribe, Silent, NoLid
<1>4. CASE ReadFirst \/ Hear \/ Tell
  BY <1>4 DEF ReadFirst, Hear, Tell, Silent
<1>5. CASE TakeOpen \/ TakeShut
  <2>1. ~NoLid(channel)
    BY <1>5, ChannelTaken DEF TakeOpen, TakeShut
  <2>2. UNCHANGED <<thread, signals>> /\ thread \in {"watching", "moved"}
    BY <1>5, <2>1 DEF TakeOpen, TakeShut, Silent
  <2>3. QED
    BY <2>2 DEF Silent
<1>6. CASE Refused
  BY <1>6, ToldOfRefusal DEF Refused, Silent
<1>7. CASE TakeRefused
  BY <1>7, ChannelTaken DEF TakeRefused, Silent
<1>8. CASE UNCHANGED vars
  BY <1>8 DEF vars, Silent, NoLid
<1>9. QED
  BY <1>1, <1>2, <1>3, <1>4, <1>5, <1>6, <1>7, <1>8 DEF Next

\* What a signal can say, and what the thread makes of it.
LEMMA SignalHeard ==
    ASSUME TypeOK, InTurn, Hear
    PROVE  /\ signals # <<>> /\ signals' = Tail(signals)
           /\ Len(signals) \in Nat /\ Len(signals) > 0 /\ Len(signals') = Len(signals) - 1
           /\ Tail(signals) = <<>> <=> Len(signals) = 1
           /\ InTurn'
           /\ \A n \in Nat :
                 /\ Len(signals) = 2 * n + 1 => Head(signals) \in {lid, "invalidated"}
                 /\ Len(signals) = 2 * n + 2 => Head(signals) \in {Other(lid), "invalidated"}
<1>1. signals # <<>> /\ signals' = Tail(signals) /\ lid' = lid
  BY DEF Hear
<1>2. signals \in Seq({"open", "shut", "invalidated"})
  BY DEF TypeOK
<1>3. /\ Len(signals) \in Nat /\ Len(signals) > 0 /\ Len(Tail(signals)) = Len(signals) - 1
      /\ Tail(signals) \in Seq({"open", "shut", "invalidated"})
  BY <1>1, <1>2, AfterTake
<1>4. Tail(signals) = <<>> <=> Len(signals) = 1
  <2>1. Tail(signals) = <<>> <=> Len(Tail(signals)) = 0
    BY <1>3, EmptySeq
  <2>2. QED
    BY <1>3, <2>1
<1>5. /\ Alternates(Tail(signals), lid)
      /\ \A n \in Nat :
            /\ Len(signals) = 2 * n + 1 => Head(signals) \in {lid, "invalidated"}
            /\ Len(signals) = 2 * n + 2 => Head(signals) \in {Other(lid), "invalidated"}
  BY <1>1, <1>2, TakeAlternates DEF InTurn
<1>6. QED
  BY <1>1, <1>3, <1>4, <1>5 DEF InTurn

LEMMA LidTurns ==
    ASSUME TypeOK, Moves
    PROVE  lid' = Other(lid) /\ lid' \in {"open", "shut"} /\ Other(lid') = lid
BY DEF TypeOK, Moves, Other

LEMMA SignalPut ==
    ASSUME TypeOK, Moves, Inhibited, thread # "held"
    PROVE  /\ \E says \in {"open", "shut", "invalidated"} :
                 says \in {Other(lid), "invalidated"} /\ signals' = Append(signals, says)
           /\ signals' # <<>> /\ Len(signals) \in Nat /\ Len(signals') = Len(signals) + 1
<1>1. PICK says \in {lid', "invalidated"} : signals' = Append(signals, says)
  BY DEF Moves
<1>2. says \in {"open", "shut", "invalidated"} /\ says \in {Other(lid), "invalidated"}
  BY <1>1, LidTurns
<1>3. QED
  BY <1>1, <1>2, AfterPut DEF TypeOK

LEMMA InTurnStep == TypeOK /\ Silent /\ InTurn /\ [Next]_vars => InTurn'
<1> SUFFICES ASSUME TypeOK, Silent, InTurn, [Next]_vars PROVE InTurn'
  OBVIOUS
<1> USE DEF watch, session, story
<1>1. CASE Moves
  <2>1. CASE Inhibited /\ thread # "held"
    <3>1. PICK says \in {"open", "shut", "invalidated"} :
              says \in {Other(lid), "invalidated"} /\ signals' = Append(signals, says)
      BY <1>1, <2>1, SignalPut
    <3>2. lid \in {"open", "shut"} /\ lid' = Other(lid)
      BY <1>1, LidTurns DEF TypeOK
    <3>3. QED
      BY <3>1, <3>2, PutAlternates DEF InTurn, TypeOK
  <2>2. CASE ~(Inhibited /\ thread # "held")
    <3>1. signals' = signals /\ thread \notin {"subscribed", "watching", "moved"}
      BY <1>1, <2>2 DEF Moves, Inhibited
    <3>2. signals' = <<>>
      BY <3>1 DEF Silent
    <3>3. QED
      BY <3>2 DEF InTurn, Alternates
  <2>3. QED
    BY <2>1, <2>2
<1>2. CASE Hear
  BY <1>2, SignalHeard
<1>3. CASE UNCHANGED <<signals, lid>>
  BY <1>3 DEF InTurn
<1>4. QED
  BY <1>1, <1>2, <1>3 DEF Next, vars, Stalls, SomebodyIsThere, Hold, Subscribe, ReadFirst, Tell,
     TakeOpen, TakeShut, Granted, Refused, TakeRefused

LEMMA HeardStep == TypeOK /\ InTurn /\ Heard /\ [Next]_vars => Heard'
<1> SUFFICES ASSUME TypeOK, InTurn, Heard, [Next]_vars PROVE Heard'
  OBVIOUS
<1> USE DEF watch, session, story
<1>1. CASE Moves
  BY <1>1, SignalPut DEF Moves, Inhibited, Heard
<1>2. CASE Hold \/ Subscribe \/ ReadFirst
  BY <1>2 DEF Hold, Subscribe, ReadFirst, Heard
<1>3. CASE Hear
  <2>1. CASE signals' = <<>>
    <3>1. Head(signals) \in {lid, "invalidated"}
      <4>1. Len(signals) = 2 * 0 + 1
        BY <1>3, <2>1, SignalHeard
      <4>2. QED
        BY <1>3, <4>1, SignalHeard
    <3>2. closed' = lid \/ missed'
      BY <1>3, <3>1 DEF Hear, Means, Reckon
    <3>3. QED
      BY <1>3, <3>2 DEF Hear, Heard
  <2>2. CASE signals' # <<>>
    BY <2>2 DEF Heard
  <2>3. QED
    BY <2>1, <2>2
<1>4. CASE Tell
  BY <1>4 DEF Tell, Heard
<1>5. CASE UNCHANGED <<watch, lid>>
  BY <1>5 DEF Heard
<1>6. QED
  BY <1>1, <1>2, <1>3, <1>4, <1>5 DEF Next, vars, Stalls, SomebodyIsThere,
     TakeOpen, TakeShut, Granted, Refused, TakeRefused

LEMMA LastSaidStep == TypeOK /\ Silent /\ LastSaid /\ [Next]_vars => LastSaid'
<1> SUFFICES ASSUME TypeOK, Silent, LastSaid, [Next]_vars PROVE LastSaid'
  OBVIOUS
<1> USE DEF watch, session, story
<1>1. CASE UNCHANGED <<thread, closed, channel, told>>
  BY <1>1 DEF LastSaid, NoLid, LastLid
<1>2. CASE Hold \/ Subscribe \/ ReadFirst
  <2>1. NoLid(channel) /\ told = "nothing" /\ channel' = channel /\ told' = told
    BY <1>2 DEF Hold, Subscribe, ReadFirst, Silent
  <2>2. QED
    BY <2>1 DEF LastSaid, NoLid
<1>3. CASE Hear
  BY <1>3 DEF Hear, LastSaid, NoLid, LastLid
<1>4. CASE Tell
  BY <1>4, ToldOfLid DEF Tell, LastSaid
<1>5. CASE Refused
  BY <1>5, ToldOfRefusal DEF Refused, LastSaid
<1>6. CASE TakeOpen \/ TakeShut
  <2>1. channel # <<>> /\ channel' = Tail(channel) /\ ~NoLid(channel)
    BY <1>6, ChannelTaken DEF TakeOpen, TakeShut
  <2>2. told' = Head(channel).closed /\ UNCHANGED <<thread, closed>>
    BY <1>6 DEF TakeOpen, TakeShut
  <2>3. QED
    BY <2>1, <2>2, ChannelTaken DEF LastSaid
<1>7. CASE TakeRefused
  <2>1. /\ channel # <<>> /\ channel' = Tail(channel) /\ Head(channel).kind # "lid"
        /\ UNCHANGED <<thread, closed, told>>
    BY <1>7 DEF TakeRefused
  <2>2. QED
    BY <2>1, ChannelTaken DEF LastSaid
<1>8. QED
  BY <1>1, <1>2, <1>3, <1>4, <1>5, <1>6, <1>7 DEF Next, vars, Moves, Stalls, SomebodyIsThere, Granted

LEMMA UnsaidStep ==
    TypeOK /\ Silent /\ InTurn /\ Heard /\ Unsaid /\ [Next]_vars => Unsaid'
<1> SUFFICES ASSUME TypeOK, Silent, InTurn, Heard, Unsaid, [Next]_vars,
                    thread' = "watching", told' = "nothing", NoLid(channel)', ~missed',
                    lid' = "shut", answer' = "thread"
             PROVE  closed' = "open" \/ Len(signals') >= 2
  BY DEF Unsaid
<1> USE DEF watch, session, story
<1>1. CASE Moves
  <2>1. thread = "watching" /\ closed' = closed /\ ~missed /\ lid = "open"
    BY <1>1 DEF Moves, TypeOK
  <2>2. signals # <<>> \/ closed = "open"
    BY <2>1 DEF Heard
  <2>3. Len(signals) \in Nat /\ Len(signals') = Len(signals) + 1
    BY <1>1, <2>1, SignalPut DEF Inhibited
  <2>4. signals # <<>> => Len(signals) # 0
    BY EmptySeq DEF TypeOK
  <2>5. QED
    BY <2>1, <2>2, <2>3, <2>4
<1>2. CASE Hold \/ Subscribe \/ ReadFirst
  BY <1>2 DEF Hold, Subscribe, ReadFirst, Silent
<1>3. CASE Hear
  <2>1. /\ thread = "watching" /\ closed' = closed /\ lid = "shut" /\ told = "nothing"
        /\ channel' = channel
    BY <1>3 DEF Hear
  <2>2. NoLid(channel)
    BY <2>1 DEF NoLid
  <2>3. ~missed
    BY <1>3, <2>1 DEF Hear, Reckon
  <2>4. answer = "thread" /\ (Head(signals) = "invalidated" => Tail(signals) = <<>>)
    BY <1>3 DEF Hear, Reckon
  <2>5. CASE closed = "open"
    BY <2>1, <2>5
  <2>6. CASE closed = "shut"
    <3>1. Len(signals) >= 2
      BY <2>1, <2>2, <2>3, <2>4, <2>6 DEF Unsaid
    <3>2. Head(signals) # "invalidated" /\ closed' = Head(signals)
      <4>1. Tail(signals) # <<>>
        BY <1>3, <3>1, SignalHeard
      <4>2. QED
        BY <1>3, <2>4, <4>1 DEF Hear, Means
    <3>3. Head(signals) = "shut" /\ Other(lid) = "open"
      BY <2>1, <2>6, <3>2 DEF Other
    <3>4. Len(signals) # 2
      <4>1. Len(signals) = 2 * 0 + 2 => Head(signals) \in {Other(lid), "invalidated"}
        BY <1>3, SignalHeard
      <4>2. QED
        BY <3>2, <3>3, <4>1
    <3>5. QED
      BY <1>3, <3>1, <3>4, SignalHeard
  <2>7. QED
    BY <2>5, <2>6 DEF TypeOK
<1>4. CASE Tell
  BY <1>4, ToldOfLid
<1>5. CASE Refused
  BY <1>5, ToldOfRefusal DEF Refused, Unsaid
<1>6. CASE TakeOpen \/ TakeShut
  BY <1>6 DEF TakeOpen, TakeShut
<1>7. CASE TakeRefused
  <2>1. NoLid(channel)
    BY <1>7, ChannelTaken DEF TakeRefused
  <2>2. QED
    BY <1>7, <2>1 DEF TakeRefused, Unsaid
<1>8. CASE UNCHANGED <<watch, lid, told, channel, answer>>
  BY <1>8 DEF Unsaid, NoLid
<1>9. QED
  BY <1>1, <1>2, <1>3, <1>4, <1>5, <1>6, <1>7, <1>8 DEF Next, vars, Stalls, SomebodyIsThere, Granted

LEMMA PendingStep == TypeOK /\ Pending /\ [Next]_vars => Pending'
<1> SUFFICES ASSUME TypeOK, Pending, [Next]_vars PROVE Pending'
  OBVIOUS
<1> USE DEF watch, session, story
<1>1. requests \in Nat
  BY DEF TypeOK
<1>2. CASE UNCHANGED <<did, slept, requests, channel, session>>
  BY <1>2 DEF Pending, HasRefusal
<1>3. CASE SomebodyIsThere \/ TakeOpen
  BY <1>3 DEF SomebodyIsThere, TakeOpen, Pending
<1>4. CASE Tell
  BY <1>4, ToldOfLid DEF Tell, Pending
<1>5. CASE TakeShut
  <2>1. did' \in {"suspend", "hibernate"} => requests' = requests + 1
    BY <1>5 DEF TakeShut
  <2>2. QED
    BY <1>1, <2>1 DEF Pending
<1>6. CASE Granted
  BY <1>6 DEF Granted, Pending
<1>7. CASE Refused
  BY <1>7, ToldOfRefusal DEF Refused, Pending
<1>8. CASE TakeRefused
  <2>1. dark' /\ (HasLocker => locked')
    BY <1>8 DEF TakeRefused, Lock, Blank
  <2>2. QED
    BY <2>1 DEF Pending
<1>9. QED
  BY <1>2, <1>3, <1>4, <1>5, <1>6, <1>7, <1>8 DEF Next, vars, Moves, Stalls, Hold, Subscribe,
     ReadFirst, Hear

\* lid::run and Idle::lid: what the thread takes the lid to be, what it has said
\* and what is being done about it account for every move it could know of.
THEOREM Story == Spec => [](TypeOK /\ Silent /\ InTurn /\ Heard /\ LastSaid /\ Unsaid /\ Pending)
BY TypeInit, TypeStep, StoryInit, SilentStep, InTurnStep, HeardStep, LastSaidStep, UnsaidStep,
   PendingStep, PTL DEF Spec

\* lid::run: whatever signals, readings and events cross, once all is heard the
\* thread and the loop know how the lid is, and a lid shut under the thread's
\* eyes has been acted on.
THEOREM HeardRight == Spec => []LidAsItIs
<1>1. TypeOK /\ Heard /\ LastSaid /\ Unsaid => LidAsItIs
  <2> SUFFICES ASSUME TypeOK, Heard, LastSaid, Unsaid, Settled, ~missed
               PROVE  /\ closed = lid /\ told \in {lid, "nothing"}
                      /\ lid = "shut" /\ answer = "thread" => told = "shut"
    BY DEF LidAsItIs
  <2>1. thread = "watching" /\ signals = <<>> /\ channel = <<>>
    BY DEF Settled
  <2>2. closed = lid
    BY <2>1 DEF Heard
  <2>3. NoLid(channel) /\ ~LastLid(channel, closed)
    BY <2>1 DEF NoLid, LastLid
  <2>4. told \in {lid, "nothing"}
    BY <2>1, <2>2, <2>3 DEF LastSaid
  <2>5. Len(signals) = 0
    BY <2>1, EmptySeq
  <2>6. lid = "shut" /\ answer = "thread" => told # "nothing"
    BY <2>1, <2>2, <2>3, <2>5 DEF Unsaid
  <2>7. QED
    BY <2>2, <2>4, <2>6
<1>2. QED
  BY <1>1, Story, PTL

\* Idle::lid and lid::sleep: a lid that was to put the machine to sleep is
\* never left with a machine awake and bright.
THEOREM NeverLeftAwake == Spec => []NeverAwakeInTheBag
<1>1. Pending => NeverAwakeInTheBag
  <2> SUFFICES ASSUME Pending, Settled, did \in {"suspend", "hibernate"}
               PROVE  slept \/ (dark /\ (HasLocker => locked))
    BY DEF NeverAwakeInTheBag
  <2>1. requests = 0 /\ ~HasRefusal(channel)
    BY DEF Settled, HasRefusal
  <2>2. QED
    BY <2>1 DEF Pending
<1>2. QED
  BY <1>1, Story, PTL

-----------------------------------------------------------------------------
(* Why a shutting is not acted on twice *)

\* With `due` shuttings sent or about to be, `queued` signals on their way, the
\* lid as it is (`now`) and as the thread takes it to be (`held`): those sent
\* and those still signalled are no more than there were, but that a reading
\* ahead of the signals may count the next of them already.
Tally(due, queued, now, held, were) ==
    \E n \in Nat :
        \/ /\ queued = 2 * n
           /\ due + n <= were + IF n > 0 /\ now = "open" /\ held = "shut" THEN 1 ELSE 0
        \/ /\ queued = 2 * n + 1
           /\ now = "open" /\ due + n <= were
        \/ /\ queued = 2 * n + 1
           /\ now = "shut" /\ due + n + 1 <= were + IF held = "shut" THEN 1 ELSE 0

LEMMA TallyMoves ==
    ASSUME NEW due \in Nat, NEW queued \in Nat, NEW were \in Nat, NEW held,
           NEW now \in {"open", "shut"}, Tally(due, queued, now, held, were)
    PROVE  Tally(due, queued + 1, Other(now), held, were + IF now = "open" THEN 1 ELSE 0)
<1>1. PICK n \in Nat :
        \/ /\ queued = 2 * n
           /\ due + n <= were + IF n > 0 /\ now = "open" /\ held = "shut" THEN 1 ELSE 0
        \/ /\ queued = 2 * n + 1
           /\ now = "open" /\ due + n <= were
        \/ /\ queued = 2 * n + 1
           /\ now = "shut" /\ due + n + 1 <= were + IF held = "shut" THEN 1 ELSE 0
  BY DEF Tally
<1>2. CASE queued = 2 * n
  <2>1. queued + 1 = 2 * n + 1
    BY <1>2
  <2>2. now = "open" => due + n + 1 <= were + 1 + IF held = "shut" THEN 1 ELSE 0
    BY <1>1, <1>2
  <2>3. now = "shut" => due + n <= were
    BY <1>1, <1>2
  <2>4. QED
    BY <2>1, <2>2, <2>3 DEF Tally, Other
<1>3. CASE queued = 2 * n + 1
  <2>1. queued + 1 = 2 * (n + 1) /\ n + 1 \in Nat /\ n + 1 > 0
    BY <1>3
  <2>2. now = "open" => due + (n + 1) <= were + 1
    BY <1>1, <1>3
  <2>3. now = "shut" => due + (n + 1) <= were + IF held = "shut" THEN 1 ELSE 0
    BY <1>1, <1>3
  <2>4. QED
    BY <2>1, <2>2, <2>3 DEF Tally, Other
<1>4. QED
  BY <1>1, <1>2, <1>3

Odd(queued) == \E n \in Nat : queued = 2 * n + 1

LEMMA TallyHears ==
    ASSUME NEW due \in Nat, NEW queued \in Nat, queued > 0, NEW were \in Nat,
           NEW now \in {"open", "shut"}, NEW held \in {"open", "shut"},
           NEW hears \in {"open", "shut"}, Tally(due, queued, now, held, were),
           Odd(queued) => hears \in {now, held}, NEW left, left = queued - 1,
           NEW d, d = due + IF held = "open" /\ hears = "shut" THEN 1 ELSE 0
    PROVE  Tally(d, left, now, hears, were)
<1>1. PICK n \in Nat :
        \/ /\ queued = 2 * n
           /\ due + n <= were + IF n > 0 /\ now = "open" /\ held = "shut" THEN 1 ELSE 0
        \/ /\ queued = 2 * n + 1
           /\ now = "open" /\ due + n <= were
        \/ /\ queued = 2 * n + 1
           /\ now = "shut" /\ due + n + 1 <= were + IF held = "shut" THEN 1 ELSE 0
  BY DEF Tally
<1>2. CASE queued = 2 * n
  <2>1. n - 1 \in Nat /\ left = 2 * (n - 1) + 1
    BY <1>2
  <2>2. now = "shut" => d + (n - 1) + 1 <= were + IF hears = "shut" THEN 1 ELSE 0
    BY <1>1, <1>2
  <2>3. now = "open" => d + (n - 1) <= were
    BY <1>1, <1>2
  <2>4. QED
    BY <2>1, <2>2, <2>3 DEF Tally
<1>3. CASE queued = 2 * n + 1
  <2>1. left = 2 * n /\ hears \in {now, held}
    BY <1>3 DEF Odd
  <2>2. d + n <= were /\ d \in Nat
    BY <1>1, <1>3, <2>1
  <2>3. QED
    BY <2>1, <2>2 DEF Tally
<1>4. QED
  BY <1>1, <1>2, <1>3

\* Shuttings the loop has been told of, or is about to be.
Due == acted + Shuttings(channel) + IF thread = "moved" /\ closed = "shut" THEN 1 ELSE 0

Counted == Tally(Due, Len(signals), lid, closed, shuts)

LEMMA DueType == TypeOK => Due \in Nat /\ Shuttings(channel) \in Nat
<1> SUFFICES ASSUME TypeOK PROVE Due \in Nat /\ Shuttings(channel) \in Nat
  OBVIOUS
<1>1. acted \in Nat /\ Shuttings(channel) \in Nat
  BY ShuttingsCount DEF TypeOK
<1>2. QED
  BY <1>1 DEF Due

\* With nothing signalled.
LEMMA TallyNone ==
    ASSUME NEW due \in Nat, NEW were \in Nat, due <= were, NEW now, NEW held
    PROVE  Tally(due, 0, now, held, were)
<1>1. 0 = 2 * 0 /\ due + 0 <= were
  OBVIOUS
<1>2. QED
  BY <1>1 DEF Tally

\* An open lid is taken for what it is: at its first reading nothing is due.
LEMMA TallyReads ==
    ASSUME NEW queued, NEW now, NEW held, NEW were \in Nat,
           Tally(0, queued, now, "open", were)
    PROVE  Tally(0, queued, now, held, were)
BY DEF Tally

LEMMA CountedInit == Init => Counted
<1> SUFFICES ASSUME Init PROVE Counted
  OBVIOUS
<1>1. Len(signals) = 2 * 0 /\ acted = 0 /\ shuts = 0 /\ thread # "moved" /\ channel = <<>>
  BY EmptySeq DEF Init
<1>2. {k \in DOMAIN channel : SaysShut(channel[k])} = {}
  BY <1>1
<1>3. Shuttings(channel) = 0
  BY <1>2, FS_EmptySet DEF Shuttings
<1>4. QED
  BY <1>1, <1>3 DEF Counted, Tally, Due

LEMMA CountedStep == TypeOK /\ Silent /\ InTurn /\ Counted /\ [Next]_vars => Counted'
<1> SUFFICES ASSUME TypeOK, Silent, InTurn, Counted, [Next]_vars PROVE Counted'
  OBVIOUS
<1> USE DEF watch, session, story
<1>1. /\ Due \in Nat /\ shuts \in Nat /\ acted \in Nat /\ Shuttings(channel) \in Nat
      /\ Len(signals) \in Nat /\ lid \in {"open", "shut"} /\ closed \in {"open", "shut"}
  BY DueType, LenProperties DEF TypeOK
<1>2. TypeOK' /\ Due' \in Nat
  <2>1. TypeOK'
    BY TypeStep
  <2>2. (TypeOK => Due \in Nat)'
    BY DueType, PTL
  <2>3. QED
    BY <2>1, <2>2
<1>3. CASE UNCHANGED <<acted, channel, thread, closed, signals, lid, shuts>>
  BY <1>3 DEF Counted, Due, Shuttings
<1>4. CASE Moves
  <2>1. Due' = Due /\ closed' = closed
    BY <1>4 DEF Moves, Due, Shuttings
  <2>2. CASE Inhibited /\ thread # "held"
    <3>1. Len(signals') = Len(signals) + 1 /\ lid' = Other(lid)
      BY <1>4, <2>2, SignalPut, LidTurns
    <3>2. shuts' = shuts + IF lid = "open" THEN 1 ELSE 0
      BY <1>1, <1>4, <2>2, <3>1 DEF Moves, Other
    <3>3. QED
      BY <1>1, <2>1, <3>1, <3>2, TallyMoves DEF Counted
  <2>3. CASE ~(Inhibited /\ thread # "held")
    <3>1. thread \notin {"subscribed", "watching", "moved"} /\ signals' = signals
      BY <1>4, <2>3 DEF Moves, Inhibited
    <3>2. signals = <<>> /\ closed = "open"
      BY <3>1 DEF Silent
    <3>3. Len(signals) = 0
      BY <3>2, EmptySeq
    <3>4. Due <= shuts
      BY <1>1, <3>2, <3>3 DEF Counted, Tally
    <3>5. shuts' \in Nat /\ shuts <= shuts'
      BY <1>1, <1>4 DEF Moves
    <3>6. Len(signals') = 0 /\ Due' <= shuts'
      BY <1>1, <2>1, <3>1, <3>3, <3>4, <3>5
    <3>7. Tally(Due', Len(signals'), lid', closed', shuts')
      BY <1>2, <3>5, <3>6, TallyNone
    <3>8. QED
      BY <3>7 DEF Counted
  <2>4. QED
    BY <2>2, <2>3
<1>5. CASE Hold \/ Subscribe
  <2>1. Due' = Due
    BY <1>5 DEF Hold, Subscribe, Due, Shuttings
  <2>2. QED
    BY <1>5, <2>1 DEF Hold, Subscribe, Counted
<1>6. CASE ReadFirst
  <2>1. thread = "subscribed" /\ thread' = "watching" /\ UNCHANGED <<acted, channel, signals, lid, shuts>>
    BY <1>6 DEF ReadFirst
  <2>2. acted = 0 /\ NoLid(channel) /\ closed = "open"
    BY <2>1 DEF Silent
  <2>3. {k \in DOMAIN channel : SaysShut(channel[k])} = {}
    BY <2>2 DEF NoLid, SaysShut
  <2>4. Shuttings(channel) = 0
    BY <2>3, FS_EmptySet DEF Shuttings
  <2>5. Due = 0 /\ Due' = 0
    BY <2>1, <2>2, <2>4 DEF Due, Shuttings
  <2>6. QED
    BY <1>1, <2>1, <2>2, <2>5, TallyReads DEF Counted
<1>7. CASE Hear
  <2>1. /\ thread = "watching" /\ UNCHANGED <<acted, channel, lid, shuts>>
        /\ thread' = IF closed' = closed THEN "watching" ELSE "moved"
        /\ closed' = Means(Head(signals))
    BY <1>7 DEF Hear
  <2>2. closed' \in {"open", "shut"}
    BY <1>2 DEF TypeOK
  <2>3. Due' = Due + IF closed = "open" /\ closed' = "shut" THEN 1 ELSE 0
    BY <1>1, <2>1, <2>2 DEF Due, Shuttings
  <2>4. Odd(Len(signals)) => closed' \in {lid, closed}
    BY <1>7, <2>1, SignalHeard DEF Means, Odd
  <2>5. Len(signals) > 0 /\ Len(signals') = Len(signals) - 1
    BY <1>7, SignalHeard
  <2>6. Tally(Due, Len(signals), lid, closed, shuts)
    BY DEF Counted
  <2>7. Tally(Due', Len(signals'), lid, closed', shuts)
    BY ONLY <1>1, <2>2, <2>3, <2>4, <2>5, <2>6, TallyHears
  <2>8. QED
    BY <2>1, <2>7 DEF Counted
<1>8. CASE Tell
  <2>1. /\ thread = "moved" /\ thread' = "watching"
        /\ UNCHANGED <<acted, closed, signals, lid, shuts>>
    BY <1>8 DEF Tell
  <2>2. Shuttings(channel') = Shuttings(channel) + IF closed = "shut" THEN 1 ELSE 0
    BY <1>8, ToldOfLid
  <2>3. Due' = Due
    BY <1>1, <2>1, <2>2 DEF Due
  <2>4. QED
    BY <2>1, <2>3 DEF Counted
<1>9. CASE Refused
  <2>1. UNCHANGED <<acted, thread, closed, signals, lid, shuts>>
    BY <1>9 DEF Refused
  <2>2. Due' = Due
    BY <1>9, <2>1, ToldOfRefusal DEF Due
  <2>3. QED
    BY <2>1, <2>2 DEF Counted
<1>10. CASE TakeOpen \/ TakeShut \/ TakeRefused
  <2>1. channel # <<>> /\ channel' = Tail(channel) /\ UNCHANGED <<thread, closed, signals, lid, shuts>>
    BY <1>10 DEF TakeOpen, TakeShut, TakeRefused
  <2>2. Shuttings(channel) = Shuttings(channel') + IF SaysShut(Head(channel)) THEN 1 ELSE 0
    BY <2>1, TakeShutting DEF TypeOK
  <2>3. acted' = acted + IF SaysShut(Head(channel)) THEN 1 ELSE 0
    <3>1. CASE TakeOpen
      <4>1. ~SaysShut(Head(channel)) /\ acted' = acted
        BY <3>1 DEF TakeOpen, SaysShut
      <4>2. QED
        BY <1>1, <4>1
    <3>2. CASE TakeShut
      <4>1. SaysShut(Head(channel)) /\ acted' = acted + 1
        BY <3>2 DEF TakeShut, SaysShut
      <4>2. QED
        BY <4>1
    <3>3. CASE TakeRefused
      <4>1. ~SaysShut(Head(channel)) /\ acted' = acted
        BY <3>3 DEF TakeRefused, SaysShut
      <4>2. QED
        BY <1>1, <4>1
    <3>4. QED
      BY <1>10, <3>1, <3>2, <3>3
  <2>4. Shuttings(channel') \in Nat
    BY <1>2, ShuttingsCount DEF TypeOK
  <2>5. Due' = Due
    BY <1>1, <2>1, <2>2, <2>3, <2>4 DEF Due
  <2>6. QED
    BY <2>1, <2>5 DEF Counted
<1>11. QED
  BY <1>3, <1>4, <1>5, <1>6, <1>7, <1>8, <1>9, <1>10
     DEF Next, vars, Stalls, SomebodyIsThere, Granted

\* lid::run: however often the lid moves, and whatever of it the thread hears
\* twice, by signal and by reading, no shutting is acted on more than once, nor
\* one that logind was left to act on.
THEOREM OneActPerShut == Spec => []ActsOncePerShut
<1>1. TypeOK /\ Counted => ActsOncePerShut
  <2> SUFFICES ASSUME TypeOK, Counted PROVE acted <= shuts
    BY DEF ActsOncePerShut
  <2>1. acted \in Nat /\ shuts \in Nat /\ Shuttings(channel) \in Nat /\ Due \in Nat
    BY DueType DEF TypeOK
  <2>2. acted <= Due
    BY <2>1 DEF Due
  <2>3. Due <= shuts
    BY <2>1 DEF Counted, Tally
  <2>4. QED
    BY <2>1, <2>2, <2>3
<1>2. QED
  BY <1>1, Story, CountedInit, CountedStep, PTL DEF Spec
==============================================================================
