-------------------------- MODULE PairingProtocol --------------------------
(* iPhones binding to a module: ModuleAuthorizationModel of the iOS app (the *)
(* Keychain record and its begin/prepare/confirm/commit/cancel/revoke tasks) *)
(* talking to the registry through Server of internal/modulepairing/         *)
(* server.go, which serves one connection at a time.                         *)
(*                                                                           *)
(* A request may never reach the module, its answer may never reach the      *)
(* phone, and the module may still serve a request its phone has given up    *)
(* on.  The app may be killed at any time; the Keychain record survives.  A  *)
(* Keychain save that fails leaves the record as a lost answer would.        *)
EXTENDS PairingRegistry

CONSTANTS
    Phone,
    Bootstrap, Recovery,    \* the two codes the Mac tool prints
    None,           \* a nil field of the Keychain record
    MaxTime,        \* bound: the clock reads 1..MaxTime
    MaxGeneration,  \* bound: changes of membership in a behaviour
    SyncCanFail     \* whether the directory sync after a rename may fail

ASSUME ProtocolAssumption ==
    /\ {Bootstrap, Recovery} \subseteq Secret /\ Bootstrap # Recovery
    /\ None \notin Secret \cup DeviceId
    /\ MaxTime \in Nat /\ MaxGeneration \in Nat /\ SyncCanFail \in BOOLEAN

VARIABLES
    disk,       \* the registry the module's next request reads
    synced,     \* the registry a power loss falls back to
    now,        \* the module's clock
    active,     \* active[p]: the phone's long-term credential, or None
    pending,    \* pending[p]: the enrollment saved in the Keychain, or None
    task,       \* task[p]: the request phone p awaits or its answer, or None
    conns,      \* connections the server has accepted and not yet served
    issued,     \* secrets and identifiers generated so far
    backups,    \* recovery codes the owner keeps offline
    retired     \* credentials and codes that have stopped being valid

registry == <<disk, synced, now, retired>>
keychain == <<active, pending, backups>>
vars == <<registry, keychain, task, conns, issued>>

Clock == 1..MaxTime

Fresh(pool) == CHOOSE x \in pool : x \notin issued
CanGenerate(pool, n) == Cardinality(pool \ issued) >= n

Init ==
    /\ now \in Clock
    /\ disk = InitialRegistry(Bootstrap, Recovery, now)
    /\ synced = disk
    /\ active = [p \in Phone |-> None]
    /\ pending = [p \in Phone |-> None]
    /\ task = [p \in Phone |-> None]
    /\ conns = {}
    /\ issued = {Bootstrap, Recovery}
    /\ backups = {Recovery}
    /\ retired = {}

-----------------------------------------------------------------------------
(* The phone: isBusy lets one task run, and the record changes only at its   *)
(* beginning and when its answer arrives.                                    *)

Busy(p) == task[p] # None

\* begin: a code the owner holds starts an enrollment, saved before any request.
Begin(p, code) ==
    /\ ~Busy(p)
    /\ pending[p] = None
    /\ code \in backups \cup {Bootstrap}
    /\ CanGenerate(Secret, IF code = Bootstrap THEN 1 ELSE 2)
    /\ LET recovers == code # Bootstrap
           credential == Fresh(Secret)
           next == CHOOSE s \in Secret : s \notin issued \cup {credential}
       IN  /\ pending' = [pending EXCEPT ![p] =
                [kind |-> IF recovers THEN "recovery" ELSE "bootstrap",
                 authority |-> code, credential |-> credential,
                 newRecovery |-> IF recovers THEN next ELSE NoSecret,
                 prepared |-> None, backedUp |-> FALSE]]
           /\ issued' = issued \cup
                IF recovers THEN {credential, next} ELSE {credential}
    /\ UNCHANGED <<registry, active, backups, task, conns>>

\* confirmRecoveryBackup: the owner has stored the replacement recovery code.
ConfirmRecoveryBackup(p) ==
    /\ ~Busy(p)
    /\ pending[p] # None
    /\ pending' = [pending EXCEPT ![p].backedUp = TRUE]
    /\ backups' = backups \cup ({pending[p].newRecovery} \ {NoSecret})
    /\ UNCHANGED <<registry, active, task, conns, issued>>

\* The server's single slot: a connection made while it is taken is closed.
TwoSlots == Cardinality(conns) < 2  \* mutant: two connections are served
SlotFree == conns = {}

Send(p, request) ==
    /\ ~Busy(p)
    /\ SlotFree
    /\ task' = [task EXCEPT ![p] = [op |-> request.op, answer |-> None]]
    /\ conns' = conns \cup {request}
    /\ UNCHANGED <<registry, keychain, issued>>

SendPrepare(p) ==
    /\ pending[p] # None
    /\ Send(p, [from |-> p, op |-> "prepare", body |->
                  [kind |-> pending[p].kind, authority |-> pending[p].authority,
                   credential |-> pending[p].credential,
                   newRecovery |-> pending[p].newRecovery]])

CommitUnconfirmed(p) == pending[p].prepared # None  \* mutant: no backup asked
MayCommit(p) == pending[p].prepared # None /\ pending[p].backedUp

SendCommit(p) ==
    /\ pending[p] # None
    /\ MayCommit(p)
    /\ Send(p, [from |-> p, op |-> "commit",
                body |-> [credential |-> pending[p].credential]])

SendCancel(p) ==
    /\ pending[p] # None
    /\ Send(p, [from |-> p, op |-> "cancel",
                body |-> [credential |-> pending[p].credential]])

SendRevoke(p, id) ==
    /\ active[p] # None
    /\ id \in issued  \* an identifier some answer has shown
    /\ id # active[p].id \/ pending[p] = None
    /\ Send(p, [from |-> p, op |-> "revoke",
                body |-> [credential |-> active[p].credential, id |-> id]])

\* The task ends without an answer: it timed out, the link or the Keychain
\* failed, or the app was killed.  The request may still be served.
GiveUp(p) ==
    /\ Busy(p)
    /\ task' = [task EXCEPT ![p] = None]
    /\ UNCHANGED <<registry, keychain, conns, issued>>

Answered(p, op) == Busy(p) /\ task[p].op = op /\ task[p].answer # None

FinishPrepare(p) ==
    /\ Answered(p, "prepare")
    /\ pending' = [pending EXCEPT ![p].prepared = task[p].answer]
    /\ task' = [task EXCEPT ![p] = None]
    /\ UNCHANGED <<registry, active, backups, conns, issued>>

\* commit: an answer for another identifier throws identityMismatch and the
\* record stays as it is.
FinishCommit(p) ==
    /\ Answered(p, "commit")
    /\ IF task[p].answer = pending[p].prepared
       THEN /\ active' = [active EXCEPT ![p] =
                 [credential |-> pending[p].credential,
                  id |-> pending[p].prepared]]
            /\ pending' = [pending EXCEPT ![p] = None]
       ELSE UNCHANGED <<active, pending>>
    /\ task' = [task EXCEPT ![p] = None]
    /\ UNCHANGED <<registry, backups, conns, issued>>

FinishCancel(p) ==
    /\ Answered(p, "cancel")
    /\ pending' = [pending EXCEPT ![p] = None]
    /\ task' = [task EXCEPT ![p] = None]
    /\ UNCHANGED <<registry, active, backups, conns, issued>>

\* revoke: only a confirmed revocation of itself lets the phone forget.
FinishRevoke(p) ==
    /\ Answered(p, "revoke")
    /\ IF task[p].answer = active[p].id
       THEN /\ active' = [active EXCEPT ![p] = None]
            /\ pending' = [pending EXCEPT ![p] = None]
       ELSE UNCHANGED <<active, pending>>
    /\ task' = [task EXCEPT ![p] = None]
    /\ UNCHANGED <<registry, backups, conns, issued>>

-----------------------------------------------------------------------------
(* The module: ServeHTTP reads the registry, changes it and answers.         *)

Valid(st) == Hashes(st) \cup ({st.recovery, st.bootstrap} \ {NoSecret})

\* write(): the new file, its sync and its rename; then the directory's sync.
StoreWithoutSync(st) ==  \* mutant: neither the file nor the directory is synced
    /\ ValidState(st)
    /\ disk' = st
    /\ retired' = retired \cup (Valid(disk) \ Valid(st))
    /\ UNCHANGED synced

Store(st) ==
    /\ ValidState(st)
    /\ disk' = st
    /\ synced' = st
    /\ retired' = retired \cup (Valid(disk) \ Valid(st))

\* The rename took effect but the directory sync reported an error.
StoreUnsynced(st) ==
    /\ SyncCanFail
    /\ ValidState(st)
    /\ disk' = st
    /\ retired' = retired \cup (Valid(disk) \ Valid(st))
    /\ UNCHANGED synced

Unchanged == UNCHANGED <<disk, synced, retired>>

\* The response, if the phone still waits for it; an error ends the task.
Answer(c, answer) ==
    /\ conns' = conns \ {c}
    /\ task' = IF Busy(c.from) /\ task[c.from].op = c.op
               THEN [task EXCEPT ![c.from] =
                       IF answer = None THEN None ELSE [@ EXCEPT !.answer = answer]]
               ELSE task
    /\ UNCHANGED <<now, keychain>>

\* The three ways a change ends: done, failed, or done and reported as failed.
ChangeIgnoresError(c, st, answer) ==  \* mutant: a failed write is reported done
    \/ Store(st) /\ Answer(c, answer)
    \/ Unchanged /\ Answer(c, answer)

Change(c, st, answer) ==
    \/ Store(st) /\ Answer(c, answer)
    \/ Unchanged /\ Answer(c, None)
    \/ StoreUnsynced(st) /\ Answer(c, None)

ServePrepare(c) ==
    LET req == c.body IN
    /\ c.op = "prepare"
    /\ \/ /\ PrepareRepeats(disk, req, now)
          /\ Unchanged /\ Answer(c, disk.pending.id)
          /\ UNCHANGED issued
       \/ /\ PrepareStarts(disk, req, now)
          /\ CanGenerate(DeviceId, 1)
          /\ issued' = issued \cup {Fresh(DeviceId)}
          /\ Change(c, PrepareResult(disk, req, Fresh(DeviceId), now),
                    Fresh(DeviceId))
       \/ /\ ~PrepareRepeats(disk, req, now) /\ ~PrepareStarts(disk, req, now)
          /\ Unchanged /\ Answer(c, None)
          /\ UNCHANGED issued

ServeCommit(c) ==
    LET credential == c.body.credential IN
    /\ c.op = "commit"
    /\ \/ /\ Authorized(disk, credential)
          /\ Unchanged /\ Answer(c, DeviceOf(disk, credential).id)
       \/ /\ CommitApplies(disk, credential, now)
          /\ disk.generation < MaxGeneration
          /\ Change(c, CommitResult(disk), disk.pending.id)
       \/ /\ ~Authorized(disk, credential)
          /\ ~CommitApplies(disk, credential, now)
          /\ Unchanged /\ Answer(c, None)
    /\ UNCHANGED issued

ServeRevoke(c) ==
    LET credential == c.body.credential
        id == c.body.id
    IN
    /\ c.op = "revoke"
    /\ \/ /\ RevokeApplies(disk, credential, id)
          /\ disk.generation < MaxGeneration
          /\ Change(c, RevokeResult(disk, id), id)
       \/ /\ Authorized(disk, credential) /\ id \notin Ids(disk)
          /\ Unchanged /\ Answer(c, id)
       \/ /\ ~Authorized(disk, credential)
          /\ Unchanged /\ Answer(c, None)
    /\ UNCHANGED issued

ServeCancel(c) ==
    LET credential == c.body.credential IN
    /\ c.op = "cancel"
    /\ \/ /\ CancelAccepted(disk, credential)
          /\ IF disk.pending = NoPending
             THEN Unchanged /\ Answer(c, c.from)
             ELSE Change(c, CancelResult(disk), c.from)
       \/ /\ ~CancelAccepted(disk, credential)
          /\ Unchanged /\ Answer(c, None)
    /\ UNCHANGED issued

\* The connection breaks before its request is read.
DropConnection(c) ==
    /\ conns' = conns \ {c}
    /\ UNCHANGED <<registry, keychain, task, issued>>

\* The module loses power: a change that was not synced may be undone.
Reboot ==
    /\ conns' = {}
    /\ disk' \in {disk, synced}
    /\ synced' = disk'
    /\ UNCHANGED <<now, retired, keychain, task, issued>>

SetClock(t) ==
    /\ now' = t
    /\ UNCHANGED <<disk, synced, retired, keychain, task, conns, issued>>

PhoneStep(p) ==
    \/ \E code \in Secret : Begin(p, code)
    \/ ConfirmRecoveryBackup(p)
    \/ SendPrepare(p) \/ SendCommit(p) \/ SendCancel(p)
    \/ \E id \in DeviceId : SendRevoke(p, id)
    \/ FinishPrepare(p) \/ FinishCommit(p) \/ FinishCancel(p) \/ FinishRevoke(p)
    \/ GiveUp(p)

ModuleStep ==
    \/ \E c \in conns :
        \/ ServePrepare(c) \/ ServeCommit(c) \/ ServeRevoke(c) \/ ServeCancel(c)
        \/ DropConnection(c)
    \/ Reboot
    \/ \E t \in Clock : SetClock(t)

Next == ModuleStep \/ \E p \in Phone : PhoneStep(p)

Spec == Init /\ [][Next]_vars

-----------------------------------------------------------------------------
Enrollment ==
    [kind : Kind, authority : Secret, credential : Secret,
     newRecovery : Secret \cup {NoSecret}, prepared : DeviceId \cup {None},
     backedUp : BOOLEAN]

Op == {"prepare", "commit", "cancel", "revoke"}

Membership == [credential : Secret, id : DeviceId]
Task == [op : Op, answer : DeviceId \cup Phone \cup {None}]

\* A nil field is no record that could be in its place.
ASSUME NoneAssumption == None \notin Enrollment \cup Membership \cup Task

TypeOK ==
    /\ disk \in Registry /\ synced \in Registry /\ now \in Clock
    /\ active \in [Phone -> Membership \cup {None}]
    /\ pending \in [Phone -> Enrollment \cup {None}]
    /\ Cardinality(conns) =< 1
    /\ issued \subseteq Secret \cup DeviceId
    /\ backups \subseteq Secret /\ retired \subseteq Secret

Holds(p, credential) ==
    \/ active[p] # None /\ active[p].credential = credential
    \/ pending[p] # None /\ pending[p].credential = credential

\* Every credential the module accepts is in the Keychain of a phone, whatever
\* answers are lost and whichever of commit, cancel and revoke they belong to:
\* the module never ends up owned by a credential nobody has.
AuthorizedCredentialIsHeld ==
    \A c \in Hashes(disk) : \E p \in Phone : Holds(p, c)

\* The owner always has the recovery code in force: a recovery replaces it only
\* after the replacement was confirmed to be stored (backupConfirmed).
OwnerHasRecoveryCode == disk.recovery \in backups

\* A credential or code that was revoked or replaced is never accepted again,
\* although phones keep their records and retry with them.
RetiredStaysOut == Valid(disk) \cap retired = {}

\* A phone that was told it is bound is bound on stable storage, until a later
\* change of membership: "Retrying after a lost response is safe, even after
\* reboot" (Commit).
BoundSurvivesReboot ==
    \A p \in Phone : active[p] # None =>
        active[p].credential \in Hashes(synced) \cup retired

\* "If the response is lost ... the saved enrollment can commit again": what
\* the module answers to a commit is what the phone's record expects.
CommitAnswerIsAccepted ==
    \A p \in Phone : Answered(p, "commit") =>
        task[p].answer = pending[p].prepared
=============================================================================
