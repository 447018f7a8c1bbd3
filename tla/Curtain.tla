------------------------------- MODULE Curtain -------------------------------
(***************************************************************************)
(* What wlrix-idle promises the person in front of the screens, with none  *)
(* of the machinery: things come over the screen one or several at a time, *)
(* they are only ever taken away all together, and taking them away never  *)
(* takes the locker away.  Once the daemon is gone nothing is left over    *)
(* the screen.  Idle.tla is shown to implement this module.                *)
(***************************************************************************)
VARIABLES
    shown,      \* what is over the screen: a subset of Veils
    locked,     \* the locker is running
    up          \* the daemon is running

vars == <<shown, locked, up>>

\* The monitors switched off, and the fade drawn over every output.
Veils == {"dark", "dim"}

Init ==
    /\ shown = {}
    /\ locked = FALSE
    /\ up = TRUE

\* Something comes over the screen, the locker is started, or both.
Fall ==
    /\ up
    /\ \E veils \in SUBSET Veils : shown' = shown \cup veils
    /\ locked' \in {locked, TRUE}
    /\ UNCHANGED up

\* The screen comes back, whole, and whoever locked it still has it locked.
Rise ==
    /\ up
    /\ shown' = {}
    /\ UNCHANGED <<locked, up>>

\* The locker ends of its own accord, and shows nothing that was not shown.
Unlock ==
    /\ locked
    /\ locked' = FALSE
    /\ UNCHANGED <<shown, up>>

\* The daemon ends; the screens do not stay off, and the locker lives on.
End ==
    /\ up
    /\ up' = FALSE
    /\ shown' = {}
    /\ UNCHANGED locked

Next == Fall \/ Rise \/ Unlock \/ End

Spec == Init /\ [][Next]_vars
=============================================================================
