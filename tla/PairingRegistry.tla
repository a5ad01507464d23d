-------------------------- MODULE PairingRegistry --------------------------
(* The durable authorization registry of a module, internal/modulepairing/   *)
(* store.go, as data: what a registry file holds, when it is valid, and what *)
(* each request of the Store turns it into.  The modules that use it supply  *)
(* the behaviours: PairingStore (any caller) and PairingProtocol (iPhones).  *)
(*                                                                           *)
(* Abstractions.  A 256-bit secret and its SHA-256 hash are the same value   *)
(* of Secret; a device or pending record keeps what requests compare.  The   *)
(* unit of time is five minutes, so the code's 15, 10 and 5 minutes are 3, 2 *)
(* and 1.  A refused request leaves the registry alone whatever the error.   *)
EXTENDS Integers, FiniteSets

CONSTANTS
    Secret,             \* credentials, bootstrap codes and recovery codes
    NoSecret,           \* the empty string where a hash may be absent
    DeviceId,           \* random identifiers given to enrolled phones
    MaxDevices,         \* MaxDevices of store.go
    BootstrapLifetime,  \* BootstrapLifetime of store.go
    PendingLifetime,    \* PendingLifetime of store.go
    ClockTolerance,     \* the rollback of the clock that is forgiven (300 s)
    NoPending,          \* Pending == nil
    NoRegistry          \* no registry file yet

ASSUME NoSecretAssumption == NoSecret \notin Secret
ASSUME LimitsAssumption ==
    /\ MaxDevices \in Nat \ {0}
    /\ BootstrapLifetime \in Nat \ {0}
    /\ PendingLifetime \in Nat \ {0}
    /\ ClockTolerance \in Nat

Kind == {"bootstrap", "recovery", "add-device"}

Device == [id : DeviceId, hash : Secret]

Pending ==
    [kind : Kind, authority : Secret, recovery : Secret \cup {NoSecret},
     id : DeviceId, hash : Secret, createdAt : Int, expiresAt : Int]

Registry ==
    [bootstrap : Secret \cup {NoSecret}, bootstrapExpires : Int,
     recovery : Secret, generation : Nat, devices : SUBSET Device,
     pending : Pending \cup {NoPending}]

ASSUME NothingAssumption == NoPending \notin Pending /\ NoRegistry \notin Registry

\* A request as the handlers decode it; the bearer token is the authority.
PrepareRequest ==
    [kind : Kind, authority : Secret, credential : Secret,
     newRecovery : Secret \cup {NoSecret}]

-----------------------------------------------------------------------------
Hashes(st) == {d.hash : d \in st.devices}
Ids(st) == {d.id : d \in st.devices}
DeviceOf(st, credential) == CHOOSE d \in st.devices : d.hash = credential
Authorized(st, credential) == credential \in Hashes(st)

\* The pending part of validState: where its authority must come from.
ValidPending(st) ==
    LET p == st.pending IN
    /\ p.hash \notin Hashes(st) \cup {st.recovery}
    /\ p.id \notin Ids(st)
    /\ p.createdAt > 0
    /\ p.expiresAt > p.createdAt
    /\ p.expiresAt - p.createdAt =< PendingLifetime
    /\ \/ /\ p.kind = "bootstrap"
          /\ p.authority = st.bootstrap
          /\ p.recovery = NoSecret
       \/ /\ p.kind = "recovery"
          /\ p.authority = st.recovery
          /\ p.recovery # NoSecret
          /\ p.recovery \notin Hashes(st) \cup {st.recovery, p.hash}
       \/ /\ p.kind = "add-device"
          /\ p.authority \in Hashes(st)
          /\ p.recovery = NoSecret
          /\ Cardinality(st.devices) < MaxDevices

\* validState: read() refuses a file, and write() a change, that fails it.
ValidState(st) ==
    /\ Cardinality(st.devices) =< MaxDevices
    /\ st.generation > 0
    /\ st.bootstrap # NoSecret => st.devices = {} /\ st.bootstrapExpires > 0
    /\ st.recovery \notin Hashes(st) \cup {NoSecret}
    /\ \A d, e \in st.devices : d.hash = e.hash \/ d.id = e.id => d = e
    /\ st.pending # NoPending => ValidPending(st)

-----------------------------------------------------------------------------
\* Initialize: the file the Mac tool writes for a new module.
InitialRegistry(bootstrap, recovery, t) ==
    [bootstrap |-> bootstrap, bootstrapExpires |-> t + BootstrapLifetime,
     recovery |-> recovery, generation |-> 1, devices |-> {},
     pending |-> NoPending]

\* The switch of Prepare: what each kind of enrollment asks of its authority.
AuthorityAllows(st, req, t) ==
    \/ /\ req.kind = "bootstrap"
       /\ st.devices = {}
       /\ t < st.bootstrapExpires
       /\ t >= st.bootstrapExpires - (BootstrapLifetime + ClockTolerance)
       /\ req.authority = st.bootstrap
       /\ req.newRecovery = NoSecret
    \/ /\ req.kind = "recovery"
       /\ req.authority = st.recovery
       /\ req.newRecovery # NoSecret
       /\ req.newRecovery \notin {req.credential, req.authority, st.bootstrap}
       /\ req.newRecovery \notin Hashes(st)
    \/ /\ req.kind = "add-device"
       /\ Authorized(st, req.authority)
       /\ req.newRecovery = NoSecret

\* Everything Prepare checks before it looks at the pending enrollment.
PrepareAllowed(st, req, t) ==
    /\ req.credential \notin {req.authority, st.recovery, st.bootstrap}
    /\ AuthorityAllows(st, req, t)
    /\ req.credential \notin Hashes(st)

PendingLive(st, t) == st.pending # NoPending /\ st.pending.expiresAt > t

\* A retry of the live enrollment answers with what was saved.
PrepareRepeats(st, req, t) ==
    /\ PrepareAllowed(st, req, t)
    /\ PendingLive(st, t)
    /\ st.pending.hash = req.credential
    /\ st.pending.kind = req.kind
    /\ st.pending.authority = req.authority
    /\ st.pending.recovery = req.newRecovery

\* Only a recovery may replace a live enrollment, and not another recovery.
PrepareStarts(st, req, t) ==
    /\ PrepareAllowed(st, req, t)
    /\ ~PrepareRepeats(st, req, t)
    /\ PendingLive(st, t) =>
         req.kind = "recovery" /\ st.pending.kind # "recovery"
    /\ req.kind # "recovery" => Cardinality(st.devices) < MaxDevices

PrepareResult(st, req, id, t) ==
    [st EXCEPT !.pending =
        [kind |-> req.kind, authority |-> req.authority,
         recovery |-> req.newRecovery, id |-> id, hash |-> req.credential,
         createdAt |-> t, expiresAt |-> t + PendingLifetime]]

\* Commit: the retry of an authorized credential changes nothing; otherwise
\* the live enrollment of this credential becomes a device.
CommitAppliesLate(st, credential, t) ==  \* mutant: expiry is not checked
    /\ ~Authorized(st, credential)
    /\ st.pending # NoPending
    /\ t >= st.pending.createdAt - ClockTolerance
    /\ st.pending.hash = credential

CommitApplies(st, credential, t) ==
    /\ ~Authorized(st, credential)
    /\ PendingLive(st, t)
    /\ t >= st.pending.createdAt - ClockTolerance
    /\ st.pending.hash = credential

\* Mutant: the pending record itself is appended, not its device.
CommitAppendsPending(st) ==
    [st EXCEPT !.bootstrap = NoSecret, !.bootstrapExpires = 0,
               !.generation = @ + 1, !.devices = @ \cup {st.pending},
               !.pending = NoPending]

\* Mutant: a recovery replaces the code and keeps the phones.
CommitKeepsPhones(st) ==
    LET p == st.pending IN
    [bootstrap |-> NoSecret, bootstrapExpires |-> 0,
     recovery |-> IF p.kind = "recovery" THEN p.recovery ELSE st.recovery,
     generation |-> st.generation + 1,
     devices |-> st.devices \cup {[id |-> p.id, hash |-> p.hash]},
     pending |-> NoPending]

CommitResult(st) ==
    LET p == st.pending
        new == [id |-> p.id, hash |-> p.hash]
        recovers == p.kind = "recovery"
    IN  [bootstrap |-> NoSecret, bootstrapExpires |-> 0,
         recovery |-> IF recovers THEN p.recovery ELSE st.recovery,
         generation |-> st.generation + 1,
         devices |-> IF recovers THEN {new} ELSE st.devices \cup {new},
         pending |-> NoPending]

\* Revoke: any authorized phone removes a device, itself included, together
\* with the enrollment the removed device had authorized.
RevokeApplies(st, credential, id) ==
    Authorized(st, credential) /\ id \in Ids(st)

RevokeKeepsPending(st, id) ==  \* mutant: the orphan enrollment stays
    [st EXCEPT !.devices = {d \in @ : d.id # id}, !.generation = @ + 1]

RevokeResult(st, id) ==
    LET removed == CHOOSE d \in st.devices : d.id = id
        orphan == st.pending # NoPending /\ st.pending.authority = removed.hash
    IN  [st EXCEPT !.devices = @ \ {removed},
                   !.generation = @ + 1,
                   !.pending = IF orphan THEN NoPending ELSE @]

\* Cancel: idempotent, never undoes a commit, and only the phone that
\* prepared the enrollment may drop it.
CancelUndoesCommit(st, credential) ==  \* mutant: an authorized phone may cancel
    st.pending # NoPending => st.pending.hash = credential

CancelAccepted(st, credential) ==
    /\ ~Authorized(st, credential)
    /\ st.pending # NoPending => st.pending.hash = credential

CancelResult(st) == [st EXCEPT !.pending = NoPending]
=============================================================================
