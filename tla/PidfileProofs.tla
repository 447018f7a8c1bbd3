---------------------------- MODULE PidfileProofs -----------------------------
(***************************************************************************)
(* Theorems about the pidfile, for any set of pids.                        *)
(***************************************************************************)
EXTENDS Pidfile, TLAPS

-----------------------------------------------------------------------------
(* Types *)

LEMMA TypeInit == Init => TypeOK
BY DEF Init, TypeOK, Places, Content

LEMMA TypeStep == TypeOK /\ [Next]_vars => TypeOK'
<1> SUFFICES ASSUME TypeOK, [Next]_vars PROVE TypeOK'
  OBVIOUS
<1> USE DEF TypeOK
<1>1. ASSUME NEW p \in Pids, NEW from, NEW to \in Places, Goes(p, from, to)
      PROVE  at' \in [Pids -> Places]
  BY <1>1 DEF Goes
<1>2. {"none", "checking", "creating", "writing", "starting", "running", "bare",
       "dropping", "removing"} \subseteq Places
  BY DEF Places
<1>3. Pids \subseteq Content /\ "absent" \in Content /\ "empty" \in Content /\ "junk" \in Content
  BY DEF Content
<1>4. ASSUME NEW p \in Pids, Start(p) \/ LeaveAlone(p) \/ TakeOver(p) \/ CreateFails(p)
      PROVE  TypeOK'
  BY <1>1, <1>2, <1>3, <1>4 DEF Start, NotesOverlap, LeaveAlone, TakeOver, CreateFails
<1>5. ASSUME NEW p \in Pids, ReadHolder(p) PROVE TypeOK'
  BY <1>1, <1>2, <1>3, <1>5 DEF ReadHolder
<1>6. ASSUME NEW p \in Pids, Create(p) PROVE TypeOK'
  BY <1>1, <1>2, <1>3, <1>6 DEF Create
<1>7. ASSUME NEW p \in Pids, Write(p) PROVE TypeOK'
  <2>1. file' \in Content /\ stale' \in BOOLEAN /\ raced' \subseteq Pids
    BY <1>3, <1>7 DEF Write
  <2>2. at' \in [Pids -> Places] /\ opened' \subseteq Pids /\ UNCHANGED <<saw, overlapped, blind>>
    BY <1>1, <1>2, <1>7 DEF Write
  <2>3. QED
    BY <2>1, <2>2
<1>8. ASSUME NEW p \in Pids, WriteFails(p) PROVE TypeOK'
  BY <1>1, <1>2, <1>8 DEF WriteFails
<1>9. ASSUME NEW p \in Pids, Exit(p) PROVE TypeOK'
  BY <1>1, <1>2, <1>9 DEF Exit, NotesOverlap
<1>10. ASSUME NEW p \in Pids, ReadOwn(p) PROVE TypeOK'
  BY <1>1, <1>2, <1>10 DEF ReadOwn
<1>11. ASSUME NEW p \in Pids, Remove(p) PROVE TypeOK'
  BY <1>1, <1>2, <1>3, <1>11 DEF Remove
<1>12. ASSUME NEW p \in Pids, LeaveFile(p) \/ RemoveFails(p) \/ Crash(p) PROVE TypeOK'
  BY <1>2, <1>3, <1>12 DEF LeaveFile, RemoveFails, Crash, Leaves
<1>13. CASE UNCHANGED vars
  BY <1>13 DEF vars
<1>14. QED
  BY <1>4, <1>5, <1>6, <1>7, <1>8, <1>9, <1>10, <1>11, <1>12, <1>13 DEF Next

\* The file, the copies and what they read keep their types.
THEOREM TypeCorrect == Spec => []TypeOK
BY TypeInit, TypeStep, PTL DEF Spec

-----------------------------------------------------------------------------
(* What a copy that stops leaves *)

\* The copy that a file names, and not as a leftover, has written it and has yet
\* to give it up.
Guarded ==
    file \in Pids /\ ~stale => at[file] \in {"running", "dropping", "removing"}

LEMMA GuardedInit == Init => Guarded
BY DEF Init, Guarded

LEMMA GuardedStep == TypeOK /\ Guarded /\ [Next]_vars => Guarded'
<1> SUFFICES ASSUME TypeOK, Guarded, [Next]_vars, file' \in Pids, ~stale'
             PROVE  at'[file'] \in {"running", "dropping", "removing"}
  BY DEF Guarded
<1> USE DEF TypeOK
<1>1. ASSUME NEW p \in Pids, NEW from \in {"none", "starting", "checking", "creating", "writing", "bare"},
             NEW to, Goes(p, from, to), UNCHANGED <<file, stale>>
      PROVE  at'[file'] \in {"running", "dropping", "removing"}
  BY <1>1 DEF Goes, Guarded
<1>2. ASSUME NEW p \in Pids, Start(p) \/ LeaveAlone(p) \/ TakeOver(p) \/ CreateFails(p)
                             \/ ReadHolder(p) \/ WriteFails(p)
      PROVE  at'[file'] \in {"running", "dropping", "removing"}
  BY <1>1, <1>2 DEF Start, LeaveAlone, TakeOver, CreateFails, ReadHolder, WriteFails
<1>3. ASSUME NEW p \in Pids, Create(p) \/ Remove(p) PROVE FALSE
  BY <1>3, PidsAssumption DEF Create, Remove
<1>4. ASSUME NEW p \in Pids, Write(p) PROVE at'[file'] \in {"running", "dropping", "removing"}
  <2>1. CASE p \in opened
    <3>1. file' = p
      BY <1>4, <2>1, PidsAssumption DEF Write
    <3>2. QED
      BY <1>4, <3>1 DEF Write, Goes
  <2>2. CASE p \notin opened
    BY <1>1, <1>4, <2>2 DEF Write
  <2>3. QED
    BY <2>1, <2>2
<1>5. ASSUME NEW p \in Pids, Exit(p) PROVE at'[file'] \in {"running", "dropping", "removing"}
  <2>1. CASE Goes(p, "running", "dropping")
    BY <1>5, <2>1 DEF Exit, Goes, Guarded
  <2>2. CASE Goes(p, "bare", "none")
    BY <1>1, <1>5, <2>2 DEF Exit
  <2>3. QED
    BY <1>5, <2>1, <2>2 DEF Exit
<1>6. ASSUME NEW p \in Pids, ReadOwn(p) PROVE at'[file'] \in {"running", "dropping", "removing"}
  BY <1>6 DEF ReadOwn, Goes, Guarded
<1>7. ASSUME NEW p \in Pids, LeaveFile(p) \/ RemoveFails(p) \/ Crash(p)
      PROVE  at'[file'] \in {"running", "dropping", "removing"}
  BY <1>7 DEF LeaveFile, RemoveFails, Crash, Leaves, Guarded
<1>8. CASE UNCHANGED vars
  BY <1>8 DEF vars, Guarded
<1>9. QED
  BY <1>2, <1>3, <1>4, <1>5, <1>6, <1>7, <1>8 DEF Next

LEMMA HidesNobodyStep == TypeOK /\ HidesNobody /\ [Next]_vars => HidesNobody'
<1> SUFFICES ASSUME TypeOK, HidesNobody, [Next]_vars,
                    NEW q \in Pids, at'[q] = "removing", file' \in Pids \ {q}
             PROVE  q \in raced'
  BY DEF HidesNobody
<1> USE DEF TypeOK
<1>1. ASSUME at[q] = "removing", UNCHANGED <<file, raced>> PROVE q \in raced'
  BY <1>1 DEF HidesNobody
<1>2. ASSUME NEW p \in Pids, Start(p) \/ LeaveAlone(p) \/ TakeOver(p) \/ CreateFails(p)
                             \/ ReadHolder(p) \/ WriteFails(p) \/ Exit(p)
      PROVE  q \in raced'
  <2>1. at[q] = "removing" /\ UNCHANGED <<file, raced>>
    BY <1>2 DEF Start, LeaveAlone, TakeOver, CreateFails, ReadHolder, WriteFails, Exit, Goes
  <2>2. QED
    BY <1>1, <2>1
<1>3. ASSUME NEW p \in Pids, Create(p) \/ Remove(p) PROVE FALSE
  BY <1>3, PidsAssumption DEF Create, Remove
<1>4. ASSUME NEW p \in Pids, Write(p) PROVE q \in raced'
  <2>1. at[q] = "removing"
    BY <1>4 DEF Write, Goes
  <2>2. QED
    BY <1>1, <1>4, <2>1 DEF Write
<1>5. ASSUME NEW p \in Pids, ReadOwn(p) PROVE q \in raced'
  <2>1. at[q] = "removing" /\ UNCHANGED <<file, raced>>
    BY <1>5 DEF ReadOwn, Goes
  <2>2. QED
    BY <1>1, <2>1
<1>6. ASSUME NEW p \in Pids, LeaveFile(p) \/ RemoveFails(p) \/ Crash(p) PROVE q \in raced'
  <2>1. q # p /\ at[q] = "removing" /\ file' = file /\ raced' = raced \ {p}
    BY <1>6 DEF LeaveFile, RemoveFails, Crash, Leaves
  <2>2. QED
    BY <2>1 DEF HidesNobody
<1>7. CASE UNCHANGED vars
  BY <1>1, <1>7 DEF vars
<1>8. QED
  BY <1>2, <1>3, <1>4, <1>5, <1>6, <1>7 DEF Next

\* In whatever order copies start, stop and crash, overlapping or not, a pid in
\* the file is that of a live copy, or was left there by a crash or a failure; and
\* a copy that stops takes no pid away but one written since it looked.
THEOREM StopsCleanly == Spec => []LeavesCleanly
<1>1. Init => HidesNobody
  BY DEF Init, HidesNobody
<1>2. Guarded /\ HidesNobody => LeavesCleanly
  BY DEF Guarded, NoGhost, Alive, LeavesCleanly
<1>3. QED
  BY <1>1, <1>2, TypeInit, TypeStep, GuardedInit, GuardedStep, HidesNobodyStep, PTL DEF Spec

-----------------------------------------------------------------------------
(* The holder keeps the file *)

\* One copy at a time is claiming the file or giving it up; a pid in the file is
\* the one it read; and while it writes there is no holder.
OneAtATime ==
    /\ \A p, q \in Pids : Between(p) /\ Between(q) => p = q
    /\ \A p \in Pids : at[p] = "checking" /\ file \in Pids => saw[p] = file
    /\ \A p \in Pids : at[p] \in {"creating", "writing"} =>
            \A q \in Pids : at[q] # "running"
    /\ \A p \in Pids : at[p] = "writing" => file = "empty" /\ p \in opened
    /\ \A p \in Pids : at[p] = "removing" => file = p

Sole == NamesTheHolder /\ (~overlapped /\ ~blind => OneAtATime)

LEMMA SoleInit == Init => Sole
BY DEF Init, Sole, NamesTheHolder, OneAtATime, Between

LEMMA SoleStep == TypeOK /\ Sole /\ [Next]_vars => Sole'
<1> SUFFICES ASSUME TypeOK, Sole, [Next]_vars, ~overlapped', ~blind' PROVE Sole'
  BY DEF Sole, NamesTheHolder
<1>0. ~overlapped /\ ~blind
  <2>1. ~overlapped
    BY DEF Next, vars, Start, ReadHolder, LeaveAlone, TakeOver, Create, CreateFails, Write,
           WriteFails, Exit, ReadOwn, LeaveFile, Remove, RemoveFails, Crash, NotesOverlap
  <2>2. ~blind
    BY DEF Next, vars, Start, ReadHolder, LeaveAlone, TakeOver, Create, CreateFails, Write,
           WriteFails, Exit, ReadOwn, LeaveFile, Remove, RemoveFails, Crash
  <2>3. QED
    BY <2>1, <2>2
<1> USE DEF Sole, NamesTheHolder, OneAtATime, Between, TypeOK
<1>1. ASSUME NEW p \in Pids, Start(p) PROVE Sole'
  BY <1>0, <1>1 DEF Start, NotesOverlap, Goes
<1>2. ASSUME NEW p \in Pids, ReadHolder(p) PROVE Sole'
  BY <1>0, <1>2 DEF ReadHolder, Goes
<1>3. ASSUME NEW p \in Pids, LeaveAlone(p) PROVE Sole'
  BY <1>0, <1>3 DEF LeaveAlone, Goes
<1>4. ASSUME NEW p \in Pids, TakeOver(p) PROVE Sole'
  <2>1. \A q \in Pids : at[q] # "running"
    BY <1>0, <1>4 DEF TakeOver, Goes, HeldByAnother, Alive
  <2>2. QED
    BY <1>0, <1>4, <2>1 DEF TakeOver, Goes
<1>5. ASSUME NEW p \in Pids, Create(p) PROVE Sole'
  BY <1>0, <1>5 DEF Create, Goes
<1>6. ASSUME NEW p \in Pids, CreateFails(p) PROVE Sole'
  BY <1>0, <1>6 DEF CreateFails, Goes
<1>7. ASSUME NEW p \in Pids, Write(p) PROVE Sole'
  BY <1>0, <1>7 DEF Write, Goes
<1>8. ASSUME NEW p \in Pids, WriteFails(p) PROVE Sole'
  BY <1>0, <1>8 DEF WriteFails, Goes
<1>9. ASSUME NEW p \in Pids, Exit(p) PROVE Sole'
  BY <1>0, <1>9 DEF Exit, NotesOverlap, Goes
<1>10. ASSUME NEW p \in Pids, ReadOwn(p) PROVE Sole'
  BY <1>0, <1>10 DEF ReadOwn, Goes
<1>11. ASSUME NEW p \in Pids, Remove(p) PROVE Sole'
  BY <1>0, <1>11, PidsAssumption DEF Remove, Goes
<1>12. ASSUME NEW p \in Pids, LeaveFile(p) \/ RemoveFails(p) \/ Crash(p) PROVE Sole'
  BY <1>0, <1>12 DEF LeaveFile, RemoveFails, Crash, Leaves
<1>13. CASE UNCHANGED vars
  BY <1>0, <1>13 DEF vars
<1>14. QED
  BY <1>1, <1>2, <1>3, <1>4, <1>5, <1>6, <1>7, <1>8, <1>9, <1>10, <1>11, <1>12, <1>13 DEF Next

\* As long as no copy has started or stopped while another did, or could not read
\* the pid it found, the copy that took the file is named in it until it exits or
\* crashes, whatever the others do.
THEOREM HolderKeepsFile == Spec => []NamesTheHolder
<1>1. Sole => NamesTheHolder
  BY DEF Sole
<1>2. QED
  BY <1>1, TypeInit, TypeStep, SoleInit, SoleStep, PTL DEF Spec
==============================================================================
