------------------------------ MODULE MCCopies ------------------------------
(***************************************************************************)
(* Small instances of the copies the backend keeps in its own memory:      *)
(* SnapshotCache, Results and EnforcementSwitch.  They share no state, so  *)
(* a behaviour exercises one of them and the others stand still.           *)
(***************************************************************************)
EXTENDS SnapshotCache, Results, EnforcementSwitch, TLC

VARIABLE exercised

vars == <<snapshotVars, resultsVars, switch, exercised>>

Init ==
    /\ SnapshotInit /\ ResultsInit /\ SwitchInit
    /\ exercised \in {"snapshot", "results", "switch"}

Next ==
    /\ UNCHANGED exercised
    /\ \/ exercised = "snapshot" /\ SnapshotNext /\ UNCHANGED <<resultsVars, switch>>
       \/ exercised = "results" /\ ResultsNext /\ UNCHANGED <<snapshotVars, switch>>
       \/ exercised = "switch" /\ (SwitchNext \/ SwitchRestarted) /\ UNCHANGED <<snapshotVars, resultsVars>>

\* The worker of the switch runs every minute, and a request that has written the row
\* goes on to the copy.
Reread == exercised = "switch" /\ RefreshRead /\ UNCHANGED <<snapshotVars, resultsVars, exercised>>
Restore == exercised = "switch" /\ RefreshStore /\ UNCHANGED <<snapshotVars, resultsVars, exercised>>

Spec == Init /\ [][Next]_vars /\ WF_vars(Reread) /\ WF_vars(Restore)

MCTypeOK == SnapshotTypeOK /\ ResultsTypeOK /\ switch \in Switch
=============================================================================
