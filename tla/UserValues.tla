----------------------------- MODULE UserValues -----------------------------
(***************************************************************************)
(* What the timestamp server promises its clients: one value per user; a   *)
(* get answers the value that was set last; a death of the process takes   *)
(* back, user by user, at most what was not yet saved.                     *)
(***************************************************************************)
CONSTANTS Users, Stamps, NoStamp

VARIABLES value, saved, reply

vars == <<value, saved, reply>>

Init ==
    /\ value = [u \in Users |-> NoStamp]
    /\ saved = value
    /\ reply = <<"none">>

Set(u, t) ==
    /\ value' = [value EXCEPT ![u] = t]
    /\ reply' = <<"set", u, t>>
    /\ UNCHANGED saved

Get(u) ==
    /\ reply' = <<"get", u, value[u]>>
    /\ UNCHANGED <<value, saved>>

\* The database failed: nothing has changed.
Refuse ==
    /\ reply' = <<"error">>
    /\ UNCHANGED <<value, saved>>

Save(u) ==
    /\ saved' = [saved EXCEPT ![u] = value[u]]
    /\ UNCHANGED <<value, reply>>

\* An end in order saves everything; a death does not.
Restart ==
    /\ reply' = <<"none">>
    /\ \/ saved' = value /\ UNCHANGED value
       \/ value' = saved /\ UNCHANGED saved

Next ==
    \/ \E u \in Users : Get(u) \/ Save(u) \/ (\E t \in Stamps : Set(u, t))
    \/ Refuse
    \/ Restart

Spec == Init /\ [][Next]_vars
=============================================================================
