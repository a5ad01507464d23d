---------------------------- MODULE PairingStore ----------------------------
(* The Store of internal/modulepairing/store.go under requests of any caller *)
(* with any secret, at any reading of the module's clock: the operations are *)
(* serialized by Store.mu and each rereads the file, so one action is one    *)
(* operation.  An operation whose write fails leaves the file as it was.     *)
EXTENDS PairingRegistry

CONSTANTS
    MaxTime,        \* bound: the clock reads 1..MaxTime
    MaxGeneration   \* bound: changes of membership in a behaviour

ASSUME BoundsAssumption == MaxTime \in Nat \ {0} /\ MaxGeneration \in Nat

VARIABLES
    disk,   \* the registry file, or NoRegistry
    now     \* the module's clock, in units of five minutes

vars == <<disk, now>>

Clock == 1..MaxTime

Init == disk = NoRegistry /\ now \in Clock

\* write(): an invalid state is refused, and nothing is replaced.
Write(st) == ValidState(st) /\ disk' = st /\ UNCHANGED now

Initialize(bootstrap, recovery) ==
    /\ disk = NoRegistry
    /\ bootstrap # recovery
    /\ Write(InitialRegistry(bootstrap, recovery, now))

Prepare(req, id) ==
    /\ disk # NoRegistry
    /\ PrepareStarts(disk, req, now)
    /\ id \notin Ids(disk)
    /\ Write(PrepareResult(disk, req, id, now))

Commit(credential) ==
    /\ disk # NoRegistry
    /\ disk.generation < MaxGeneration
    /\ CommitApplies(disk, credential, now)
    /\ Write(CommitResult(disk))

Revoke(credential, id) ==
    /\ disk # NoRegistry
    /\ disk.generation < MaxGeneration
    /\ RevokeApplies(disk, credential, id)
    /\ Write(RevokeResult(disk, id))

Cancel(credential) ==
    /\ disk # NoRegistry
    /\ CancelAccepted(disk, credential)
    /\ disk.pending # NoPending
    /\ Write(CancelResult(disk))

\* time.Now() of the next request: the clock may also have been set back.
SetClock(t) == now' = t /\ UNCHANGED disk

Next ==
    \/ \E b, r \in Secret : Initialize(b, r)
    \/ \E req \in PrepareRequest, id \in DeviceId : Prepare(req, id)
    \/ \E c \in Secret : Commit(c) \/ Cancel(c)
    \/ \E c \in Secret, id \in DeviceId : Revoke(c, id)
    \/ \E t \in Clock : SetClock(t)

Spec == Init /\ [][Next]_vars

-----------------------------------------------------------------------------
TypeOK ==
    /\ disk \in Registry \cup {NoRegistry}
    /\ now \in Clock

\* write() never turns down a change a request is entitled to: the checks of
\* Prepare, Commit, Revoke and Cancel already imply validState of the outcome,
\* so that an owner is never answered storage_unavailable by a sound disk.
EntitledChangesAreValid ==
    disk # NoRegistry =>
        /\ \A req \in PrepareRequest, id \in DeviceId \ Ids(disk) :
             PrepareStarts(disk, req, now) =>
               ValidState(PrepareResult(disk, req, id, now))
        /\ \A c \in Secret :
             CommitApplies(disk, c, now) => ValidState(CommitResult(disk))
        /\ \A c \in Secret, id \in DeviceId :
             RevokeApplies(disk, c, id) => ValidState(RevokeResult(disk, id))
        /\ ValidState(CancelResult(disk))

\* A credential begins to authorize only by the commit of its own unexpired
\* enrollment, and a phone leaves only by revocation or by a recovery, which
\* removes every other phone and the old recovery code in the same step.
MembershipChanges ==
    disk # NoRegistry /\ Hashes(disk') # Hashes(disk) =>
        LET granted == Hashes(disk') \ Hashes(disk)
            removed == Hashes(disk) \ Hashes(disk')
        IN  /\ disk'.generation = disk.generation + 1
            /\ granted # {} =>
                 /\ disk.pending # NoPending
                 /\ granted = {disk.pending.hash}
                 /\ now < disk.pending.expiresAt
                 /\ disk'.recovery # disk.recovery <=>
                      disk.pending.kind = "recovery"
                 /\ disk.pending.kind = "recovery" => Hashes(disk') = granted
                 /\ disk.pending.kind # "recovery" => removed = {}
            /\ granted = {} =>
                 Cardinality(removed) = 1 /\ disk'.recovery = disk.recovery
OnlyConfirmedGrants == [][MembershipChanges]_vars

\* The registry implements AuthRegistry once the Mac tool has created it.
Created == disk # NoRegistry
Abs == INSTANCE AuthRegistry WITH
    members <- Hashes(disk), recovery <- disk.recovery,
    fresh <- disk.bootstrap # NoSecret, epoch <- disk.generation

\* Every step of the registry is a step of AuthRegistry or leaves it alone,
\* and the file the tool writes maps to one of its initial states.
ImplementsAuthRegistry ==
    [][/\ ~Created /\ Created' => Abs!Init'
       /\ Created => Created' /\ [Abs!Next]_(Abs!vars)]_vars
=============================================================================
