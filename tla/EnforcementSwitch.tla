-------------------------- MODULE EnforcementSwitch --------------------------
(***************************************************************************)
(* The licence kill switch: a row of system_settings, and the copy of it   *)
(* that every gate of the backend reads (Enforcing).  An admin's change    *)
(* writes the row and then the copy; a worker re-reads the row each minute.*)
(***************************************************************************)
EXTENDS Naturals

CONSTANTS
    Setters,      \* admins changing the switch at a time
    EnvPinned,    \* LICENSE_ENFORCEMENT=true: on for good, never written
    MaxUpsets,    \* bound on the changes of the row and the restarts
    NoValue

ASSUME SwitchAssumption == EnvPinned \in BOOLEAN /\ MaxUpsets \in Nat /\ NoValue \notin BOOLEAN

VARIABLE switch

Switch == [row: BOOLEAN,                              \* the stored setting
           cache: BOOLEAN,                            \* what the gates read
           reread: BOOLEAN \cup {NoValue},               \* read by the worker, not stored yet
           setting: [Setters -> BOOLEAN \cup {NoValue}], \* written to the row, not the cache
           upsets: 0..MaxUpsets]

SwitchInit ==
    \E row \in BOOLEAN :
        switch = [row |-> row, cache |-> row \/ EnvPinned, reread |-> NoValue,
                  setting |-> [a \in Setters |-> NoValue], upsets |-> 0]

Enforcing == switch.cache

\* SetEnforcement, first half: settings.SetBool has committed the row.  A setting
\* that cannot be saved ends the request there; AdminSetEnforcement refuses to turn
\* it on before the readiness check passes, unless forced.
SetRow(a, v) ==
    /\ ~EnvPinned
    /\ switch.setting[a] = NoValue
    /\ switch.upsets < MaxUpsets
    /\ switch' = [switch EXCEPT !.row = v, !.setting[a] = v, !.upsets = @ + 1]

\* SetEnforcement, second half.
SetCache(a) ==
    /\ switch.setting[a] # NoValue
    /\ switch' = [switch EXCEPT !.cache = switch.setting[a], !.setting[a] = NoValue]

\* The row changed by hand, in psql.
SetByHand(v) ==
    /\ ~EnvPinned
    /\ switch.upsets < MaxUpsets
    /\ switch.row # v
    /\ switch' = [switch EXCEPT !.row = v, !.upsets = @ + 1]

\* RefreshEnforcement in two halves; a failed read keeps the last value.
RefreshRead ==
    /\ ~EnvPinned
    /\ switch.reread = NoValue
    /\ switch' = [switch EXCEPT !.reread = switch.row]

\* Mutant: the worker only ever arms the gates.
RefreshStoreOn ==
    /\ switch.reread # NoValue
    /\ switch' = [switch EXCEPT !.cache = @ \/ switch.reread, !.reread = NoValue]

RefreshStore ==
    /\ switch.reread # NoValue
    /\ switch' = [switch EXCEPT !.cache = switch.reread, !.reread = NoValue]

\* InitEnforcement after a restart: the row, or off when it cannot be read.
SwitchRestarted ==
    /\ switch.upsets < MaxUpsets
    /\ \E v \in {switch.row, FALSE} :
        switch' = [switch EXCEPT !.upsets = @ + 1, !.cache = v \/ EnvPinned, !.reread = NoValue,
                                 !.setting = [a \in Setters |-> NoValue]]

SwitchNext ==
    \/ \E a \in Setters, v \in BOOLEAN : SetRow(a, v)
    \/ \E a \in Setters : SetCache(a)
    \/ \E v \in BOOLEAN : SetByHand(v)
    \/ RefreshRead
    \/ RefreshStore

\* The gates end up following the stored switch, whichever of an admin's request, a
\* second admin, the worker or a restart stored its copy last (RefreshEnforcement).
GatesFollowTheRow == <>[](~EnvPinned => Enforcing = switch.row)

==============================================================================
