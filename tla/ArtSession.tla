----------------------------- MODULE ArtSession -----------------------------
(***************************************************************************)
(* What the plugin promises the player (docs/INSTALLATION.md, "Using       *)
(* Artemis"): holding START activates a code list on one process; from     *)
(* then on the very same list is written to the very same process, again   *)
(* and again, until the session ends; nothing is written outside a         *)
(* session, and a stopped plugin never starts another.                     *)
(***************************************************************************)
CONSTANTS Pids, Texts, NoSession, NoWrite

VARIABLES
    session,    \* NoSession, or the process and the list in force
    wrote,      \* the pass over a list just made, or NoWrite
    stopped

vars == <<session, wrote, stopped>>

Init == session = NoSession /\ wrote = NoWrite /\ stopped = FALSE

Activate(p, t) ==
    /\ ~stopped
    /\ session = NoSession
    /\ session' = [pid |-> p, text |-> t]
    /\ wrote' = [pid |-> p, text |-> t, force |-> TRUE]
    /\ UNCHANGED stopped

Repeat ==
    /\ session # NoSession
    /\ wrote' = [pid |-> session.pid, text |-> session.text, force |-> FALSE]
    /\ UNCHANGED <<session, stopped>>

End ==
    /\ session' = NoSession
    /\ wrote' = NoWrite
    /\ UNCHANGED stopped

Stop ==
    /\ session' = NoSession
    /\ stopped' = TRUE
    /\ UNCHANGED wrote

Rest ==
    /\ wrote' = NoWrite
    /\ UNCHANGED <<session, stopped>>

Next == (\E p \in Pids, t \in Texts : Activate(p, t)) \/ Repeat \/ Rest \/ End \/ Stop

Spec == Init /\ [][Next]_vars
=============================================================================
