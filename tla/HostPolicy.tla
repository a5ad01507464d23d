----------------------------- MODULE HostPolicy -----------------------------
(* The policy of the Mac server that keeps mobile data off: the services it  *)
(* blocked, its file, the guard that blocks again every five seconds, and    *)
(* the repair that renews a lease of the module's network service whenever   *)
(* the AT link reopens (cmd/djonehub-macos/main.go).  networkPolicyMu        *)
(* serialises the policy's operations, networkRepairMu the repairs; nothing  *)
(* orders the one with the other.                                            *)
EXTENDS Naturals, FiniteSets

CONSTANTS Service, MaxFaults
VARIABLES
    route,      \* of a service: "none", "up" with a gateway, "blocked"
    enabled,    \* of a service: "absent", "off", "on"
    policy,     \* force4GOff and disabled4GServices, or Unloaded
    saved,      \* what the file holds of them
    step,       \* the operation that holds networkPolicyMu
    repair,     \* the repair that holds networkRepairMu
    toldForce,  \* what the last request that succeeded asked for
    denied,     \* a request failed since
    orphans,    \* blocked by an operation that was not saved
    faults      \* saves that failed and crashes so far

policyVars == <<route, enabled, policy, saved, step, repair, toldForce, denied,
                orphans, faults>>

Policy == [force : BOOLEAN, list : SUBSET Service]
Unloaded == [force |-> FALSE, list |-> {}, unloaded |-> TRUE]
Idle == [kind |-> "idle"]
NoRepair == [left |-> 0]

TypeOK ==
    /\ route \in [Service -> {"none", "up", "blocked"}]
    /\ enabled \in [Service -> {"absent", "off", "on"}]
    /\ policy \in Policy \cup {Unloaded} /\ saved \in Policy
    /\ step.kind \in {"idle", "block", "unblock", "save"}
    /\ repair = NoRepair \/ repair \in [service : Service, left : 1..2]
    /\ toldForce \in BOOLEAN /\ denied \in BOOLEAN /\ orphans \subseteq Service
    /\ faults \in 0..MaxFaults

Init ==
    /\ route = [s \in Service |-> "up"]
    /\ enabled \in [Service -> {"absent", "on"}]
    /\ saved = [force |-> FALSE, list |-> {}]
    /\ policy = Unloaded /\ step = Idle /\ repair = NoRepair
    /\ toldForce = FALSE /\ denied = FALSE /\ orphans = {} /\ faults = 0

\* loadNetworkPolicyLocked
Loaded == IF policy = Unloaded THEN saved ELSE policy

\* applyCellularPolicyLocked: what it goes over.  A disabled service is not the
\* module's to block; to restore, only the list counts.
Targets(p) == IF p.force THEN {s \in Service : enabled[s] = "on"} ELSE p.list

Apply(user, p) ==
    /\ step = Idle
    /\ policy' = p
    /\ step' = [kind |-> IF p.force THEN "block" ELSE "unblock", user |-> user,
                todo |-> Targets(p), applied |-> FALSE, failed |-> FALSE,
                before |-> IF user THEN Loaded ELSE Unloaded]
    /\ UNCHANGED <<route, enabled, saved, repair, toldForce, denied, orphans, faults>>

\* setCellularPolicy and a round of startCellularPolicyGuard.
Set(force) == Apply(TRUE, [Loaded EXCEPT !.force = force])
Guard == Loaded.force /\ Apply(FALSE, Loaded)

\* A request that failed puts back what memory held before it, not what it did.
\* Its blocking of services it could not save is known to nobody.
Fails ==
    /\ IF step.user
       THEN /\ policy' = step.before /\ denied' = TRUE
            /\ orphans' = orphans \cup (policy.list \ (step.before.list \cup saved'.list))
       ELSE UNCHANGED <<policy, denied, orphans>>
    /\ step' = Idle

\* The services could not be listed.
FailsToList ==
    /\ step.kind \in {"block", "unblock"}
    /\ UNCHANGED <<route, enabled, saved, repair, toldForce, faults>> /\ Fails

\* readMacIPv4ServiceInfo and blockMacNetworkServiceRoute; a service without an
\* address, or one that is refused, is passed over.
Block(s) ==
    /\ step.kind = "block" /\ s \in step.todo
    /\ \/ /\ route[s] # "none"
          /\ route' = [route EXCEPT ![s] = "blocked"]
          /\ policy' = [policy EXCEPT !.list = @ \cup {s}]
          /\ step' = [step EXCEPT !.todo = @ \ {s}, !.applied = TRUE]
       \/ step' = [step EXCEPT !.todo = @ \ {s}] /\ UNCHANGED <<route, policy>>
    /\ UNCHANGED <<enabled, saved, repair, toldForce, denied, orphans, faults>>

\* renewMacNetworkServiceDHCP of a service it recorded; the lease may not come.
Renewed(s) ==
    \E r \in {"up", "none"} : route' = [route EXCEPT ![s] = r]
Unblock(s) ==
    /\ step.kind = "unblock" /\ s \in step.todo
    /\ \/ Renewed(s) /\ step' = [step EXCEPT !.todo = @ \ {s}]
       \/ step' = [step EXCEPT !.todo = @ \ {s}, !.failed = TRUE] /\ UNCHANGED route
    /\ UNCHANGED <<enabled, policy, saved, repair, toldForce, denied, orphans, faults>>

AppliedForgetting ==  \* mutant: the list is cleared although not all was restored
    /\ step.kind \in {"block", "unblock"} /\ step.todo = {}
    /\ UNCHANGED <<route, enabled, saved, repair, toldForce, faults>>
    /\ IF step.kind = "block" /\ ~step.applied
       THEN Fails
       ELSE /\ policy' = IF step.kind = "unblock"
                         THEN [policy EXCEPT !.list = {}] ELSE policy
            /\ step' = [step EXCEPT !.kind = "save"]
            /\ UNCHANGED <<denied, orphans>>
\* A list that was not restored whole is kept whole, and saved.
Applied ==
    /\ step.kind \in {"block", "unblock"} /\ step.todo = {}
    /\ UNCHANGED <<route, enabled, saved, repair, toldForce, faults>>
    /\ IF step.kind = "block" /\ ~step.applied
       THEN Fails
       ELSE /\ policy' = IF step.kind = "unblock" /\ ~step.failed
                         THEN [policy EXCEPT !.list = {}] ELSE policy
            /\ step' = [step EXCEPT !.kind = "save"]
            /\ UNCHANGED <<denied, orphans>>

\* persistNetworkPolicyLocked: a temporary file, renamed.
Save ==
    /\ step.kind = "save"
    /\ saved' = policy
    /\ IF step.failed THEN Fails /\ UNCHANGED toldForce
       ELSE /\ step' = Idle
            /\ IF step.user THEN toldForce' = policy.force /\ denied' = FALSE
                            ELSE UNCHANGED <<toldForce, denied>>
            /\ UNCHANGED <<policy, orphans>>
    /\ UNCHANGED <<route, enabled, repair, faults>>

SaveFails ==
    /\ step.kind = "save" /\ faults < MaxFaults
    /\ saved' = saved /\ Fails
    /\ faults' = faults + 1 /\ UNCHANGED <<route, enabled, repair, toldForce>>

\* The process ends, and starts again; commands it began are done or not.
Crash ==
    /\ faults < MaxFaults
    /\ faults' = faults + 1
    /\ policy' = Unloaded /\ step' = Idle /\ repair' = NoRepair
    /\ orphans' = orphans \cup (Loaded.list \ saved.list)
    /\ denied' = (denied \/ step # Idle)
    /\ UNCHANGED <<route, enabled, saved, toldForce>>

\* ensureCellularDHCP: the first service of the module, enabled if need be and
\* created if there is none.
RepairBegins(s) ==
    /\ repair = NoRepair
    /\ enabled[s] = "absent" => \A t \in Service : enabled[t] = "absent"
    /\ enabled' = [enabled EXCEPT ![s] = "on"]
    /\ repair' = [service |-> s, left |-> 2]
    /\ UNCHANGED <<route, policy, saved, step, toldForce, denied, orphans, faults>>

\* It leaves a service alone that has an address, a blocked one too.
RepairEnds ==
    /\ repair # NoRepair
    /\ repair' = NoRepair
    /\ UNCHANGED <<route, enabled, policy, saved, step, toldForce, denied, orphans, faults>>

\* No address, or the reading of it failed: then a blocked service is renewed too.
Renew ==
    /\ repair # NoRepair
    /\ repair.left < 2 => route[repair.service] = "none"
    /\ Renewed(repair.service)
    /\ repair' = IF repair.left = 2 THEN [repair EXCEPT !.left = 1] ELSE NoRepair
    /\ UNCHANGED <<enabled, policy, saved, step, toldForce, denied, orphans, faults>>

\* The user disables a service; a lease comes or ends.
Outside(s) ==
    /\ \/ enabled[s] = "on" /\ enabled' = [enabled EXCEPT ![s] = "off"] /\ UNCHANGED route
       \/ route[s] # "blocked" /\ Renewed(s) /\ UNCHANGED enabled
    /\ UNCHANGED <<policy, saved, step, repair, toldForce, denied, orphans, faults>>

Next ==
    \/ \E f \in BOOLEAN : Set(f)
    \/ Guard \/ FailsToList \/ Applied \/ Save \/ SaveFails \/ Crash
    \/ RepairEnds \/ Renew
    \/ \E s \in Service : Block(s) \/ Unblock(s) \/ RepairBegins(s) \/ Outside(s)

\* What the server blocked it can give back: a blocked service is on a list, in
\* memory or in the file, unless what blocked it was not saved.  And the policy
\* in memory and in the file is what the user was last told, but for a request
\* that failed since: setCellularPolicy, its guard and the repair beside them.
BlockedIsRecorded ==
    /\ \A s \in Service :
          route[s] = "blocked" => s \in Loaded.list \cup saved.list \cup orphans
    /\ denied \/ step # Idle \/ (saved.force = toldForce /\ Loaded.force = toldForce)
=============================================================================
