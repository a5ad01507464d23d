---------------------------- MODULE AuthRegistry ----------------------------
(* What the authorization registry promises, without files, clocks, pending *)
(* enrollments or retries: a set of member credentials and one recovery     *)
(* code.  The first member enters once, a member can only be added while    *)
(* there is one to vouch for it, a recovery replaces everything at once,    *)
(* and every change of membership opens a new epoch.                        *)
EXTENDS Integers, FiniteSets

CONSTANTS Secret, MaxDevices

VARIABLES
    members,    \* credentials that authorize a request
    recovery,   \* the recovery code
    fresh,      \* no phone has ever been enrolled
    epoch       \* counts the changes of membership
vars == <<members, recovery, fresh, epoch>>

Init ==
    /\ members = {}
    /\ recovery \in Secret
    /\ fresh = TRUE
    /\ epoch = 1

EnrollFirst(c) ==
    /\ fresh /\ c # recovery
    /\ members' = {c}
    /\ fresh' = FALSE
    /\ epoch' = epoch + 1
    /\ UNCHANGED recovery

Enroll(c) ==
    /\ members # {}
    /\ c \notin members \cup {recovery}
    /\ Cardinality(members) < MaxDevices
    /\ members' = members \cup {c}
    /\ epoch' = epoch + 1
    /\ UNCHANGED <<recovery, fresh>>

Recover(c, r) ==
    /\ c \notin members \cup {recovery, r}
    /\ r \notin members \cup {recovery}
    /\ members' = {c}
    /\ recovery' = r
    /\ fresh' = FALSE
    /\ epoch' = epoch + 1

Remove(c) ==
    /\ c \in members
    /\ members' = members \ {c}
    /\ epoch' = epoch + 1
    /\ UNCHANGED <<recovery, fresh>>

Next ==
    \E c \in Secret :
        \/ EnrollFirst(c)
        \/ Enroll(c)
        \/ Remove(c)
        \/ \E r \in Secret : Recover(c, r)

Spec == Init /\ [][Next]_vars
=============================================================================
