-------------------------- MODULE BeforeSleepProofs --------------------------
(***************************************************************************)
(* Theorems about going to sleep, for any number of sleeps.                *)
(***************************************************************************)
EXTENDS BeforeSleep, SequenceTheorems, TLAPS

-----------------------------------------------------------------------------
(* Queues *)

LEMMA TakeOne ==
    ASSUME NEW S, NEW q \in Seq(S), q # <<>>
    PROVE  Head(q) \in S /\ Tail(q) \in Seq(S)
BY HeadTailProperties

LEMMA PutOne ==
    ASSUME NEW S, NEW q \in Seq(S), NEW e \in S
    PROVE  Append(q, e) \in Seq(S)
BY AppendProperties

\* What is put at the end of a queue is its last element.
LEMMA PutLast ==
    ASSUME NEW S, NEW q \in Seq(S), NEW e \in S
    PROVE  Append(q, e) # <<>> /\ Append(q, e)[Len(Append(q, e))] = e
BY AppendProperties, LenProperties

\* Taking the first element leaves the last, unless they are the same.
LEMMA LastStays ==
    ASSUME NEW S, NEW q \in Seq(S), q # <<>>, Tail(q) # <<>>
    PROVE  Tail(q)[Len(Tail(q))] = q[Len(q)]
<1>1. Len(q) \in Nat /\ Len(q) # 0 /\ Len(Tail(q)) = Len(q) - 1
  BY HeadTailProperties, EmptySeq, LenProperties
<1>2. Len(Tail(q)) # 0
  BY HeadTailProperties, EmptySeq, LenProperties
<1>3. \A i \in 1 .. Len(Tail(q)) : Tail(q)[i] = q[i + 1]
  BY HeadTailProperties
<1>4. Len(Tail(q)) \in 1 .. Len(Tail(q)) /\ Len(Tail(q)) + 1 = Len(q)
  BY <1>1, <1>2
<1>5. QED
  BY <1>3, <1>4

\* A queue of one has its first element last.
LEMMA OnlyIsLast ==
    ASSUME NEW S, NEW q \in Seq(S), q # <<>>, Tail(q) = <<>>
    PROVE  q[Len(q)] = Head(q)
<1>1. Len(q) \in Nat /\ Len(q) # 0 /\ Len(Tail(q)) = Len(q) - 1 /\ Head(q) = q[1]
  BY HeadTailProperties, EmptySeq, LenProperties
<1>2. Len(Tail(q)) = 0
  BY EmptySeq
<1>3. \A n \in Nat : n # 0 /\ 0 = n - 1 => n = 1
  OBVIOUS
<1>4. Len(q) = 1
  BY <1>1, <1>2, <1>3
<1>5. QED
  BY <1>1, <1>4

\* An empty queue, put into, has one element.
LEMMA PutFirst ==
    ASSUME NEW e
    PROVE  Append(<<>>, e) = <<e>> /\ Head(<<e>>) = e
OBVIOUS

\* Where an element stands in a queue, after something else is put behind it.
LEMMA FoundAfterPut ==
    ASSUME NEW S, NEW q \in Seq(S), NEW e \in S, NEW x,
           NEW k \in DOMAIN Append(q, e)
    PROVE  Append(q, e)[k] = x <=> \/ k \in DOMAIN q /\ q[k] = x
                                   \/ k = Len(q) + 1 /\ e = x
BY AppendProperties, LenProperties

\* Where it stands after the first is taken.
LEMMA FoundAfterTake ==
    ASSUME NEW S, NEW q \in Seq(S), q # <<>>,
           NEW k \in DOMAIN Tail(q)
    PROVE  k \in Nat /\ k # 0 /\ k + 1 \in DOMAIN q /\ Tail(q)[k] = q[k + 1]
<1>1. Len(q) \in Nat /\ Len(Tail(q)) = Len(q) - 1 /\ Tail(q) \in Seq(S) /\ Len(q) # 0
  BY HeadTailProperties, EmptySeq, LenProperties
<1>2. \A i \in 1 .. Len(Tail(q)) : Tail(q)[i] = q[i + 1]
  BY HeadTailProperties
<1>3. DOMAIN Tail(q) = 1 .. Len(Tail(q)) /\ DOMAIN q = 1 .. Len(q)
  BY <1>1, LenProperties
<1>4. k \in 1 .. Len(q) - 1
  BY <1>1, <1>3
<1>5. QED
  BY <1>1, <1>2, <1>3, <1>4

-----------------------------------------------------------------------------
(* Types *)

LEMMA TypeInit == Init => TypeOK
<1> SUFFICES ASSUME Init PROVE TypeOK
  OBVIOUS
<1>1. signals \in Seq(BOOLEAN) /\ channel \in Seq({"before", "after"})
  BY EmptySeq DEF Init
<1>2. QED
  BY <1>1 DEF Init, TypeOK

LEMMA TypeStep == TypeOK /\ [Next]_vars => TypeOK'
<1> SUFFICES ASSUME TypeOK, [Next]_vars PROVE TypeOK'
  OBVIOUS
<1> USE DEF TypeOK, thread, queues, history
<1>1. ASSUME NEW b \in BOOLEAN, Announce(b) PROVE signals' \in Seq(BOOLEAN)
  BY <1>1, PutOne DEF Announce
<1>2. CASE Prepare
  <2>1. signals' \in Seq(BOOLEAN)
    BY <1>1, <1>2 DEF Prepare
  <2>2. sleeps' \in Nat /\ machine' = "preparing" /\ asked' = FALSE
    BY <1>2 DEF Prepare
  <2>3. ready' \in BOOLEAN
    BY <1>2 DEF Prepare
  <2>4. UNCHANGED <<at, held, channel, acks, locker, late>>
    BY <1>2 DEF Prepare
  <2>5. QED
    BY <2>1, <2>2, <2>3, <2>4
<1>3. CASE FallAsleep \/ FallAsleepAnyway
  BY <1>3 DEF FallAsleep, FallAsleepAnyway
<1>4. CASE Wake
  BY <1>1, <1>4 DEF Wake
<1>5. CASE Subscribe
  BY <1>5 DEF Subscribe, Running
<1>6. ASSUME NEW b \in BOOLEAN, TakesSignal(b) PROVE signals' \in Seq(BOOLEAN)
  BY <1>6, TakeOne DEF TakesSignal
<1>7. channel \in Seq({"before", "after"})
  OBVIOUS
<1>8. CASE GoingDown
  <2>1. channel' \in Seq({"before", "after"}) /\ signals' \in Seq(BOOLEAN)
    BY <1>6, <1>7, <1>8, PutOne DEF GoingDown
  <2>2. QED
    BY <1>8, <2>1 DEF GoingDown
<1>9. CASE Acked
  <2>1. acks' \in Nat
    <3>1. acks \in Nat /\ acks > 0 /\ acks' = acks - 1
      BY <1>9 DEF Acked
    <3>2. QED
      BY <3>1
  <2>2. held' = FALSE /\ at' = "waiting" /\ UNCHANGED <<signals, channel, locker, machine, history>>
    BY <1>9 DEF Acked
  <2>3. QED
    BY <2>1, <2>2
<1>10. CASE TimedOut
  BY <1>10 DEF TimedOut, Running
<1>11. CASE BackUp
  <2>1. channel' \in Seq({"before", "after"}) /\ signals' \in Seq(BOOLEAN)
    BY <1>6, <1>7, <1>11, PutOne DEF BackUp
  <2>2. QED
    BY <1>11, <2>1 DEF BackUp, Granted
<1>12. ASSUME NEW e \in {"before", "after"}, LoopTakes(e)
       PROVE  channel' \in Seq({"before", "after"})
  BY <1>7, <1>12, TakeOne DEF LoopTakes
<1>13. CASE LoopBefore
  BY <1>12, <1>13, LocksAssumption DEF LoopBefore
<1>14. CASE LoopAfter
  BY <1>12, <1>14 DEF LoopAfter
<1>15. CASE LockerCovers \/ Unlock
  BY <1>15 DEF LockerCovers, Unlock
<1>16. CASE UNCHANGED vars
  BY <1>16 DEF vars
<1>17. QED
  BY <1>2, <1>3, <1>4, <1>5, <1>8, <1>9, <1>10, <1>11, <1>13, <1>14, <1>15, <1>16 DEF Next

\* The logind thread, the two queues, the locker and the machine keep their
\* types through any number of sleeps.
THEOREM TypeCorrect == Spec => []TypeOK
BY TypeInit, TypeStep, PTL DEF Spec

-----------------------------------------------------------------------------
(* One answer to each question *)

LEMMA PairsInit == Init => OneAckEach
BY DEF Init, OneAckEach, Unanswered

LEMMA PairsStep == TypeOK /\ OneAckEach /\ [Next]_vars => OneAckEach'
<1> SUFFICES ASSUME TypeOK, OneAckEach, [Next]_vars, ~late' PROVE OneAckEach'
  BY DEF OneAckEach
<1> USE DEF thread, queues, history
<1>1. channel \in Seq({"before", "after"}) /\ acks \in Nat
  BY DEF TypeOK
<1>2. Unanswered \subseteq DOMAIN channel
  BY DEF Unanswered
<1>3. CASE UNCHANGED <<at, channel, acks, late>>
  BY <1>3 DEF OneAckEach, Unanswered
<1>4. CASE Prepare \/ FallAsleep \/ Wake \/ LockerCovers \/ Unlock
  BY <1>3, <1>4 DEF Prepare, FallAsleep, Wake, LockerCovers, Unlock
<1>5. CASE FallAsleepAnyway \/ TimedOut
  BY <1>5 DEF FallAsleepAnyway, TimedOut
<1>6. CASE Subscribe
  BY <1>6 DEF Subscribe, Running, OneAckEach, Unanswered
<1>7. CASE GoingDown
  <2>1. at = "waiting" /\ acks = 0 /\ Unanswered = {} /\ ~late
    BY <1>7 DEF GoingDown, TakesSignal, Running, OneAckEach
  <2>2. channel' = Append(channel, "before") /\ at' = "acking" /\ acks' = 0
    BY <1>7, <2>1 DEF GoingDown
  <2>3. Len(channel) + 1 \in DOMAIN channel'
    BY <1>1, <2>2, AppendProperties, LenProperties
  <2>4. ASSUME NEW k \in DOMAIN channel'
        PROVE  channel'[k] = "before" <=> k = Len(channel) + 1
    BY <1>1, <2>1, <2>2, FoundAfterPut, LenProperties DEF Unanswered
  <2>5. Unanswered' = {Len(channel) + 1}
    BY <2>3, <2>4 DEF Unanswered
  <2>6. QED
    BY <2>2, <2>3, <2>5 DEF OneAckEach
<1>8. CASE Acked
  BY <1>1, <1>8 DEF Acked, Running, OneAckEach, Unanswered
<1>9. CASE BackUp
  <2>1. at = "waiting" /\ acks = 0 /\ Unanswered = {} /\ ~late
    BY <1>9 DEF BackUp, TakesSignal, Running, OneAckEach
  <2>2. channel' = Append(channel, "after") /\ at' # "acking" /\ acks' = 0
    BY <1>9, <2>1 DEF BackUp
  <2>3. ASSUME NEW k \in DOMAIN channel'
        PROVE  channel'[k] # "before"
    BY <1>1, <2>1, <2>2, FoundAfterPut DEF Unanswered
  <2>4. QED
    BY <2>2, <2>3 DEF OneAckEach, Unanswered
<1>10. ASSUME NEW e, LoopTakes(e)
       PROVE  /\ channel # <<>> /\ channel[1] = e /\ 1 \in DOMAIN channel
              /\ channel' = Tail(channel)
              /\ \A k \in DOMAIN channel' :
                    /\ k \in Nat /\ k # 0 /\ k + 1 \in DOMAIN channel
                    /\ channel'[k] = channel[k + 1]
  BY <1>1, <1>10, FoundAfterTake, EmptySeq, LenProperties, HeadTailProperties DEF LoopTakes
<1>11. CASE LoopBefore
  <2>1. 1 \in Unanswered
    BY <1>10, <1>11 DEF LoopBefore, Unanswered
  <2>2. at = "acking" /\ acks = 0 /\ Unanswered = {1}
    BY <1>11, <2>1 DEF LoopBefore, OneAckEach
  <2>3. ASSUME NEW k \in DOMAIN channel'
        PROVE  channel'[k] # "before"
    <3>1. k \in Nat /\ k # 0 /\ k + 1 \in DOMAIN channel /\ channel'[k] = channel[k + 1]
      BY <1>10, <1>11 DEF LoopBefore
    <3>2. k + 1 \notin Unanswered
      BY <2>2, <3>1
    <3>3. QED
      BY <3>1, <3>2 DEF Unanswered
  <2>4. at' = "acking" /\ acks' = 1
    BY <1>11, <2>2 DEF LoopBefore
  <2>5. QED
    BY <2>3, <2>4 DEF OneAckEach, Unanswered
<1>12. CASE LoopAfter
  <2>1. UNCHANGED <<at, acks, late>>
    BY <1>12 DEF LoopAfter
  <2>2. ASSUME NEW k \in DOMAIN channel'
        PROVE  k + 1 \in DOMAIN channel /\ channel'[k] = channel[k + 1] /\ k \in Nat /\ k # 0
    BY <1>10, <1>12 DEF LoopAfter
  <2>3. CASE Unanswered = {}
    <3>1. Unanswered' = {}
      BY <2>2, <2>3 DEF Unanswered
    <3>2. QED
      BY <2>1, <2>3, <3>1 DEF OneAckEach
  <2>4. ASSUME NEW j \in DOMAIN channel, Unanswered = {j}
        PROVE  \E k \in DOMAIN channel' : Unanswered' = {k}
    <3>1. j # 1 /\ j \in Nat /\ j \in 1 .. Len(channel)
      BY <1>1, <1>10, <1>12, <2>4, LenProperties DEF LoopAfter, Unanswered
    <3>2. j - 1 \in DOMAIN channel'
      <4>1. DOMAIN channel' = 1 .. Len(channel) - 1
        BY <1>1, <1>10, <1>12, HeadTailProperties, LenProperties DEF LoopAfter
      <4>2. Len(channel) \in Nat
        BY <1>1, LenProperties
      <4>3. QED
        BY <3>1, <4>1, <4>2
    <3>3. \A k \in DOMAIN channel' : k + 1 = j <=> k = j - 1
      BY <2>2, <3>1
    <3>4. \A k \in DOMAIN channel' : channel'[k] = "before" <=> k + 1 \in Unanswered
      BY <2>2 DEF Unanswered
    <3>5. Unanswered' = {j - 1}
      BY <2>4, <3>2, <3>3, <3>4 DEF Unanswered
    <3>6. QED
      BY <3>2, <3>5
  <2>5. QED
    BY <2>1, <2>3, <2>4 DEF OneAckEach
<1>13. QED
  BY <1>3, <1>4, <1>5, <1>6, <1>7, <1>8, <1>9, <1>11, <1>12 DEF Next, vars

\* Whatever order sleeps, answers and events come in, no answer is lost or
\* counted twice before some deadline has run out.
THEOREM AnswersPairUp == Spec => []OneAckEach
BY TypeInit, TypeStep, PairsInit, PairsStep, PTL DEF Spec

-----------------------------------------------------------------------------
(* The locker is started first *)

\* How far a sleep that found the thread ready has got, nothing being late: the
\* thread has yet to hear of it, is waiting for the answer, or the loop has
\* started the locker, if it is to.
Delayed ==
    Locks /\ ~late /\ ready /\ machine # "awake" =>
        \/ machine = "preparing" /\ held /\ at = "waiting" /\ signals = <<TRUE>>
        \/ machine = "preparing" /\ held /\ at = "acking"
        \/ asked

\* An answer that waits for the thread was given by a loop that has acted.
AnswerMeansAsked ==
    Locks /\ ~late /\ ready /\ acks > 0 => asked

LEMMA DelayedInit == Init => Delayed /\ AnswerMeansAsked
BY DEF Init, Delayed, AnswerMeansAsked

LEMMA DelayedStep ==
    TypeOK /\ OneAckEach /\ Delayed /\ AnswerMeansAsked /\ [Next]_vars
        => (Delayed /\ AnswerMeansAsked)'
<1> SUFFICES ASSUME TypeOK, OneAckEach, Delayed, AnswerMeansAsked, [Next]_vars
             PROVE  (Delayed /\ AnswerMeansAsked)'
  OBVIOUS
<1> USE DEF thread, queues, history, Delayed, AnswerMeansAsked
<1>1. CASE Prepare
  <2>1. ASSUME ready' PROVE signals' = <<TRUE>> /\ at' = "waiting" /\ held'
    <3>1. at = "waiting" /\ held /\ signals = <<>>
      BY <1>1, <2>1 DEF Prepare
    <3>2. signals' = Append(signals, TRUE)
      BY <1>1, <3>1 DEF Prepare, Announce
    <3>3. UNCHANGED <<at, held>>
      BY <1>1 DEF Prepare
    <3>4. QED
      BY <3>1, <3>2, <3>3, PutFirst
  <2>2. ASSUME ready', ~late' PROVE acks' = 0
    <3>1. at = "waiting" /\ ~late /\ acks' = acks
      BY <1>1, <2>2 DEF Prepare
    <3>2. QED
      BY <3>1 DEF OneAckEach
  <2>3. Delayed'
    BY <1>1, <2>1 DEF Prepare
  <2>4. AnswerMeansAsked'
    BY <2>2
  <2>5. QED
    BY <2>3, <2>4
<1>2. CASE FallAsleep
  BY <1>2 DEF FallAsleep
<1>3. CASE FallAsleepAnyway \/ TimedOut
  BY <1>3 DEF FallAsleepAnyway, TimedOut
<1>4. CASE Wake
  BY <1>4 DEF Wake
<1>5. CASE Subscribe
  BY <1>5 DEF Subscribe, Running
<1>6. CASE GoingDown
  BY <1>6 DEF GoingDown, TakesSignal, Running
<1>7. CASE Acked
  <2>1. Locks /\ ~late /\ ready => asked
    BY <1>7 DEF Acked
  <2>2. QED
    BY <1>7, <2>1 DEF Acked
<1>8. CASE BackUp
  <2>1. signals # <<TRUE>>
    <3>1. Head(signals) = FALSE
      BY <1>8 DEF BackUp, TakesSignal
    <3>2. Head(<<TRUE>>) = TRUE
      BY PutFirst
    <3>3. QED
      BY <3>1, <3>2
  <2>2. at = "waiting"
    BY <1>8 DEF BackUp, TakesSignal, Running
  <2>3. UNCHANGED <<acks, machine, late, ready, asked>>
    BY <1>8 DEF BackUp
  <2>4. QED
    BY <2>1, <2>2, <2>3
<1>9. CASE LoopBefore
  BY <1>9 DEF LoopBefore
<1>10. CASE LoopAfter \/ LockerCovers \/ Unlock
  <2>1. UNCHANGED <<thread, acks, machine, history>>
    BY <1>10 DEF LoopAfter, LockerCovers, Unlock
  <2>2. QED
    BY <2>1
<1>11. CASE UNCHANGED vars
  BY <1>11 DEF vars
<1>12. QED
  BY <1>1, <1>2, <1>3, <1>4, <1>5, <1>6, <1>7, <1>8, <1>9, <1>10, <1>11 DEF Next

LEMMA DelayedSafe == Delayed => StartedBeforeSleep
BY DEF Delayed, StartedBeforeSleep

\* However often the machine sleeps, it does not while the locker of a sleep
\* the thread was ready for has not been started, unless a deadline ran out.
THEOREM LockerStartedFirst == Spec => []StartedBeforeSleep
BY TypeInit, TypeStep, PairsInit, PairsStep, DelayedInit, DelayedStep, DelayedSafe,
   PTL DEF Spec

-----------------------------------------------------------------------------
(* Ready again *)

\* While the machine is up, a thread without the inhibitor still has the signal
\* to come that makes it take one.
WillTake ==
    /\ at = "starting" => held /\ signals = <<>>
    /\ machine = "awake" /\ at \in {"waiting", "acking"} =>
        \/ signals = <<>> /\ at = "waiting" /\ held
        \/ signals # <<>> /\ signals[Len(signals)] = FALSE

LEMMA WillTakeInit == Init => WillTake
BY DEF Init, WillTake

LEMMA WillTakeStep == TypeOK /\ WillTake /\ [Next]_vars => WillTake'
<1> SUFFICES ASSUME TypeOK, WillTake, [Next]_vars PROVE WillTake'
  OBVIOUS
<1> USE DEF thread, queues, history
<1>1. signals \in Seq(BOOLEAN)
  BY DEF TypeOK
<1>2. CASE UNCHANGED <<thread, machine>>
  BY <1>2 DEF WillTake
<1>3. CASE LoopBefore \/ LoopAfter \/ LockerCovers \/ Unlock \/ UNCHANGED vars
  BY <1>2, <1>3 DEF LoopBefore, LoopAfter, LockerCovers, Unlock, vars
<1>4. CASE Prepare \/ FallAsleep \/ FallAsleepAnyway
  BY <1>4 DEF Prepare, Announce, FallAsleep, FallAsleepAnyway, WillTake
<1>5. CASE Wake
  <2>1. at \in {"waiting", "acking"} => signals' = Append(signals, FALSE)
    BY <1>5 DEF Wake, Announce
  <2>2. at = "starting" => signals' = signals
    BY <1>5 DEF Wake, Announce
  <2>3. at \in {"waiting", "acking"} => signals' # <<>> /\ signals'[Len(signals')] = FALSE
    <3>1. FALSE \in BOOLEAN
      OBVIOUS
    <3>2. Append(signals, FALSE) # <<>>
      BY <1>1, <3>1, PutLast, Zenon
    <3>3. Append(signals, FALSE)[Len(Append(signals, FALSE))] = FALSE
      BY <1>1, <3>1, PutLast, Zenon
    <3>4. QED
      BY <2>1, <3>2, <3>3, Zenon
  <2>4. UNCHANGED <<at, held>>
    BY <1>5 DEF Wake
  <2>5. QED
    BY <2>2, <2>3, <2>4 DEF WillTake
<1>6. CASE Subscribe
  BY <1>6 DEF Subscribe, Running, WillTake
<1>7. ASSUME NEW b \in BOOLEAN, TakesSignal(b), Tail(signals) # <<>>, machine = "awake"
      PROVE  signals' # <<>> /\ signals'[Len(signals')] = FALSE
  <2>1. signals # <<>> /\ signals' = Tail(signals) /\ signals[Len(signals)] = FALSE
    BY <1>7 DEF TakesSignal, Running, WillTake
  <2>2. QED
    BY <1>1, <1>7, <2>1, LastStays
<1>8. CASE GoingDown
  <2>1. machine = "awake" => Tail(signals) # <<>>
    BY <1>1, <1>8, OnlyIsLast DEF GoingDown, TakesSignal, Running, WillTake
  <2>2. QED
    BY <1>7, <1>8, <2>1 DEF GoingDown, WillTake
<1>9. CASE BackUp
  <2>1. CASE machine = "awake" /\ Tail(signals) # <<>>
    BY <1>7, <1>9, <2>1 DEF BackUp, WillTake
  <2>2. CASE machine = "awake" /\ Tail(signals) = <<>>
    BY <1>9, <2>2 DEF BackUp, TakesSignal, Granted, WillTake
  <2>3. CASE machine # "awake"
    BY <1>9, <2>3 DEF BackUp, Granted, WillTake
  <2>4. QED
    BY <2>1, <2>2, <2>3
<1>10. CASE Acked \/ TimedOut
  BY <1>10 DEF Acked, TimedOut, Running, WillTake
<1>11. QED
  BY <1>3, <1>4, <1>5, <1>6, <1>8, <1>9, <1>10 DEF Next

LEMMA WillTakeSafe == WillTake => ReadyForTheNext
BY DEF WillTake, ReadyForTheNext

\* After any number of sleeps, timely or not, a thread that has heard of them
\* all holds an inhibitor for the next one.
THEOREM AlwaysReadyAgain == Spec => []ReadyForTheNext
BY TypeInit, TypeStep, WillTakeInit, WillTakeStep, WillTakeSafe, PTL DEF Spec

-----------------------------------------------------------------------------
\* Until a deadline runs out no sleep is answered with another's answer, nor
\* begun without its own.
THEOREM AnswersComeFirst == Spec => []AnsweredFirst
<1>1. OneAckEach /\ StartedBeforeSleep => AnsweredFirst
  BY DEF AnsweredFirst
<1>2. QED
  BY <1>1, AnswersPairUp, LockerStartedFirst, PTL
==============================================================================
