------------------------------- MODULE Pidfile -------------------------------
(***************************************************************************)
(* The pidfile (src/pidfile.rs): copies of the program that start, run,    *)
(* stop and crash around one path, by which SIGHUP finds the one to reload. *)
(*                                                                         *)
(* A pid is a member of Pids; one whose process is gone may be given to    *)
(* another copy, or to some other program.                                 *)
(***************************************************************************)
EXTENDS FiniteSets, Naturals

CONSTANTS
    Pids

VARIABLES
    file,           \* what the path leads to
    opened,         \* pids whose descriptor is still the file at the path
    at,             \* per pid, where the copy that has it is
    saw,            \* per pid, what claim has read in the file and not yet judged
    stale,          \* history: what the file says was left behind, by a crash or
                    \* by a copy that stopped and could not remove it
    overlapped,     \* history: a copy once started or stopped while another did
    blind,          \* history: a copy once could not read a pid that was there
    raced           \* history: pids that looked at their file before another wrote it

vars == <<file, opened, at, saw, stale, overlapped, blind, raced>>

\* "none": no process, or a program of another name.  "starting" to "written":
\* claim, up to the return; "running" holds a guard and "bare" does not;
\* "dropping" and "removing": the guard's drop.
Places == {"none", "starting", "checking", "creating", "writing", "running", "bare",
           "dropping", "removing"}

\* "junk" is the number of no copy: another program's, or the digits of two.
\* "empty" is whatever is no number.
Content == {"absent", "empty", "junk"} \cup Pids

ASSUME PidsAssumption == {"absent", "empty", "junk"} \cap Pids = {}

\* The file, the copies and what they read have their types.
TypeOK ==
    /\ file \in Content
    /\ opened \subseteq Pids
    /\ at \in [Pids -> Places]
    /\ saw \in [Pids -> Content]
    /\ stale \in BOOLEAN
    /\ overlapped \in BOOLEAN /\ blind \in BOOLEAN
    /\ raced \subseteq Pids

\* Whatever an earlier session left there.
Init ==
    /\ file \in Content
    /\ opened = {}
    /\ stale = TRUE
    /\ overlapped = FALSE /\ blind = FALSE
    /\ raced = {}
    /\ at = [p \in Pids |-> "none"]
    /\ saw = [p \in Pids |-> "absent"]

\* is_running: some copy has the pid, whatever it is doing.
Alive(p) == p \in Pids /\ at[p] # "none"

\* A copy that is in the middle of claiming the file or of giving it up.
Between(p) == at[p] \notin {"none", "running", "bare"}

NotesOverlap == overlapped' = (overlapped \/ \E q \in Pids : Between(q))

Goes(p, from, to) == at[p] = from /\ at' = [at EXCEPT ![p] = to]

-----------------------------------------------------------------------------
(* claim *)

Start(p) ==
    /\ Goes(p, "none", "starting")
    /\ NotesOverlap
    /\ UNCHANGED <<file, opened, saw, stale, blind, raced>>

\* read; a file that cannot be read is taken for one that names nobody
ReadHolder(p) ==
    /\ Goes(p, "starting", "checking")
    /\ \/ /\ saw' = [saw EXCEPT ![p] = file]
          /\ UNCHANGED blind
       \/ /\ saw' = [saw EXCEPT ![p] = "empty"]
          /\ blind' = (blind \/ file \in Pids)
    /\ UNCHANGED <<file, opened, stale, overlapped, raced>>

\* Mutation: the test the wrong way round.
HeldByTheDead(p) == saw[p] \in Pids /\ saw[p] # p /\ ~Alive(saw[p])

HeldByAnother(p) == saw[p] \in Pids /\ saw[p] # p /\ Alive(saw[p])

\* is_running, of what was read
LeaveAlone(p) ==
    /\ HeldByAnother(p)
    /\ Goes(p, "checking", "bare")
    /\ saw' = [saw EXCEPT ![p] = "absent"]
    /\ UNCHANGED <<file, opened, stale, overlapped, blind, raced>>

TakeOver(p) ==
    /\ ~HeldByAnother(p)
    /\ Goes(p, "checking", "creating")
    /\ saw' = [saw EXCEPT ![p] = "absent"]
    /\ UNCHANGED <<file, opened, stale, overlapped, blind, raced>>

\* create, which truncates; a failure to open it leaves the copy without one
Create(p) ==
    /\ Goes(p, "creating", "writing")
    /\ file' = "empty"
    /\ opened' = opened \cup {p}
    /\ stale' = FALSE
    /\ UNCHANGED <<saw, overlapped, blind, raced>>

CreateFails(p) ==
    /\ Goes(p, "creating", "bare")
    /\ UNCHANGED <<file, opened, saw, stale, overlapped, blind, raced>>

\* write!, at the start of whatever the descriptor is of; what another copy has
\* written there, if it is longer, sticks out
Write(p) ==
    /\ Goes(p, "writing", "running")
    /\ IF p \in opened
       THEN /\ file' \in {p} \cup (IF file = "empty" THEN {} ELSE {"junk"})
            /\ stale' = FALSE
            /\ raced' = raced \cup {q \in Pids : at[q] = "removing"}
       ELSE UNCHANGED <<file, stale, raced>>
    /\ opened' = opened \ {p}
    /\ UNCHANGED <<saw, overlapped, blind>>

WriteFails(p) ==
    /\ Goes(p, "writing", "bare")
    /\ opened' = opened \ {p}
    /\ UNCHANGED <<file, saw, stale, overlapped, blind, raced>>

-----------------------------------------------------------------------------
(* The end *)

\* Mutation: the process exits without unwinding, and drops nothing.
ExitAtOnce(p) ==
    /\ \/ Goes(p, "running", "none")
       \/ Goes(p, "bare", "none")
    /\ NotesOverlap
    /\ UNCHANGED <<file, opened, saw, stale, blind, raced>>

\* A clean exit: run() is over and the guard is dropped.
Exit(p) ==
    /\ \/ Goes(p, "running", "dropping")
       \/ Goes(p, "bare", "none")
    /\ NotesOverlap
    /\ UNCHANGED <<file, opened, saw, stale, blind, raced>>

\* The process is over, and what the file says of it stays.
Leaves(p) ==
    /\ at' = [at EXCEPT ![p] = "none"]
    /\ stale' = (stale \/ file = p)
    /\ saw' = [saw EXCEPT ![p] = "absent"]
    /\ raced' = raced \ {p}

\* Mutation: the file is removed whatever it says.
RemoveUnread(p) ==
    /\ Goes(p, "dropping", "removing")
    /\ UNCHANGED <<file, opened, saw, stale, overlapped, blind, raced>>

\* Guard::drop reads the file: its own is to be removed ...
ReadOwn(p) ==
    /\ file = p
    /\ Goes(p, "dropping", "removing")
    /\ UNCHANGED <<file, opened, saw, stale, overlapped, blind, raced>>

\* ... and another's, or one it cannot read, is left.
LeaveFile(p) ==
    /\ at[p] = "dropping"
    /\ Leaves(p)
    /\ UNCHANGED <<file, opened, overlapped, blind>>

Remove(p) ==
    /\ Goes(p, "removing", "none")
    /\ file' = "absent"
    /\ opened' = {}
    /\ stale' = FALSE
    /\ raced' = raced \ {p}
    /\ UNCHANGED <<saw, overlapped, blind>>

\* remove_file fails, which is logged.
RemoveFails(p) ==
    /\ at[p] = "removing"
    /\ Leaves(p)
    /\ UNCHANGED <<file, opened, overlapped, blind>>

\* Killed, or the machine loses power, anywhere.
Crash(p) ==
    /\ at[p] # "none"
    /\ Leaves(p)
    /\ opened' = opened \ {p}
    /\ UNCHANGED <<file, overlapped, blind>>

Next ==
    \E p \in Pids :
        \/ Start(p) \/ ReadHolder(p) \/ LeaveAlone(p) \/ TakeOver(p)
        \/ Create(p) \/ CreateFails(p) \/ Write(p) \/ WriteFails(p)
        \/ Exit(p) \/ ReadOwn(p) \/ LeaveFile(p) \/ Remove(p) \/ RemoveFails(p) \/ Crash(p)

Spec == Init /\ [][Next]_vars

-----------------------------------------------------------------------------
(* Properties *)

\* The file belongs to whoever took it first: as long as a copy that took it
\* runs, it names that copy, whoever else starts, stops or crashes.  The reads
\* and writes of claim and drop are no transaction, so this is so only until two
\* copies are between two of theirs at once, or one cannot read what it finds.
NamesTheHolder ==
    ~overlapped /\ ~blind => \A p \in Pids : at[p] = "running" => file = p

\* A file that names a copy names a live one, unless the copy crashed or failed to
\* remove it: no order of starts and exits leaves the pid of a copy that could
\* have taken it away (Guard::drop).
NoGhost ==
    file \in Pids /\ ~stale => Alive(file)

\* A guard is about to remove a file that names another copy only if that copy
\* wrote its pid after the guard had looked: however many copies have claimed the
\* file, one that stops hides none that was there before (Guard::drop).
HidesNobody ==
    \A p \in Pids : at[p] = "removing" /\ file \in Pids \ {p} => p \in raced

\* A copy that stops leaves neither its own pid behind nor another's file gone.
LeavesCleanly == NoGhost /\ HidesNobody
==============================================================================
