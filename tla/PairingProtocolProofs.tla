----------------------- MODULE PairingProtocolProofs -----------------------
(* Proofs about PairingProtocol, for any phones, secrets and identifiers.    *)
(* PhoneInv says what the phones know of their own enrollments, CodeInv adds *)
(* the recovery code, and both hold whether directory syncs fail or not.     *)
(* ModuleInv relates the phones' records to the registry where they succeed: *)
(* the three results that rest on it are false where one may fail.           *)
EXTENDS PairingProtocol, FiniteSetTheorems, TLAPS

Fields(p, body) ==
    /\ body.kind = pending[p].kind
    /\ body.authority = pending[p].authority
    /\ body.credential = pending[p].credential
    /\ body.newRecovery = pending[p].newRecovery

\* What a connection asks is what the record of its phone still says.
Asks(c) ==
    \/ /\ c.op = "prepare"
       /\ pending[c.from] # None
       /\ Fields(c.from, c.body)
    \/ /\ c.op = "commit"
       /\ pending[c.from] # None
       /\ c.body.credential = pending[c.from].credential
       /\ pending[c.from].prepared # None /\ pending[c.from].backedUp
    \/ /\ c.op = "cancel"
       /\ pending[c.from] # None
       /\ c.body.credential = pending[c.from].credential
    \/ /\ c.op = "revoke"
       /\ active[c.from] # None
       /\ c.body.credential = active[c.from].credential
       /\ c.body.id \in DeviceId
       /\ Busy(c.from) /\ c.body.id = active[c.from].id =>
            pending[c.from] = None

\* The server's slot, and the task that still waits for it or has given up.
Connections ==
    /\ \A c, d \in conns : c = d
    /\ \A c \in conns :
        /\ c.from \in Phone
        /\ task[c.from] \in {None, [op |-> c.op, answer |-> None]}
        /\ Asks(c)

\* A running task has the record it was started from, and its kind of answer.
Tasks ==
    /\ task \in [Phone -> Task \cup {None}]
    /\ \A p \in Phone : task[p] # None =>
        /\ task[p].op \in {"prepare", "commit", "cancel"} => pending[p] # None
        /\ task[p].op \in {"prepare", "commit"} =>
             task[p].answer \in DeviceId \cup {None}
        /\ task[p].op = "commit" => pending[p].prepared # None
        /\ task[p].op = "revoke" => active[p] # None

\* An enrollment has the authority of its kind, and a confirmed backup is one.
Records ==
    \A p \in Phone : pending[p] # None =>
        /\ \/ /\ pending[p].kind = "bootstrap"
              /\ pending[p].authority = Bootstrap
              /\ pending[p].newRecovery = NoSecret
           \/ /\ pending[p].kind = "recovery"
              /\ pending[p].authority \in backups
              /\ pending[p].newRecovery \in Secret
        /\ pending[p].backedUp =>
             pending[p].newRecovery \in backups \cup {NoSecret}

\* What opens an enrollment is not what one grants ...
Codes == backups \cup {Bootstrap}

\* ... and no two phones, nor a phone's binding and its enrollment, share a
\* secret: each was generated once.
Apart ==
    /\ Codes \subseteq issued /\ Bootstrap \notin backups
    /\ \A p \in Phone : active[p] # None =>
        active[p].credential \in issued \ Codes
    /\ \A p \in Phone : pending[p] # None =>
        /\ pending[p].credential \in issued \ Codes
        /\ pending[p].newRecovery \in (issued \ {Bootstrap}) \cup {NoSecret}
    /\ \A p, q \in Phone : active[p] # None /\ active[q] # None /\ p # q =>
        active[p].credential # active[q].credential
    /\ \A p, q \in Phone : pending[p] # None /\ pending[q] # None =>
        /\ pending[p].newRecovery # pending[q].credential
        /\ p # q => /\ pending[p].credential # pending[q].credential
                    /\ pending[p].newRecovery # NoSecret =>
                         pending[p].newRecovery # pending[q].newRecovery
    /\ \A p, q \in Phone : active[p] # None /\ pending[q] # None =>
        active[p].credential \notin
            {pending[q].credential, pending[q].newRecovery}

PhoneInv == TypeOK /\ Connections /\ Tasks /\ Records /\ Apart

-----------------------------------------------------------------------------
\* An enrollment a registry offers is the one its phone has saved.
Matches(st) ==
    /\ st.recovery \in backups
    /\ st.pending # NoPending =>
         /\ st.pending.hash \in issued
         /\ \A p \in Phone :
             pending[p] # None /\ pending[p].credential = st.pending.hash =>
               /\ st.pending.kind = pending[p].kind
               /\ st.pending.recovery = pending[p].newRecovery

CodeInv == Matches(disk) /\ Matches(synced)

-----------------------------------------------------------------------------
\* The registry is sound, durable, and of one phone at a time.
Disk ==
    /\ synced = disk /\ ValidState(disk)
    /\ disk.bootstrap \in {Bootstrap, NoSecret}
    /\ disk.recovery \in backups
    /\ \A d, e \in disk.devices : d = e

\* RetiredStaysOut, and only what was generated retires.
Retired == retired \subseteq issued /\ Valid(disk) \cap retired = {}

\* The enrollment the registry offers is new to it, and its phone's own.
Offered ==
    disk.pending # NoPending =>
        /\ disk.pending.hash \in issued
        /\ \A p \in Phone :
            active[p] # None => active[p].credential # disk.pending.hash
        /\ \A p \in Phone : 
            pending[p] # None /\ pending[p].credential = disk.pending.hash =>
                /\ disk.pending.kind = pending[p].kind
                /\ disk.pending.authority = pending[p].authority
                /\ disk.pending.recovery = pending[p].newRecovery

\* An enrollment that was once granted can not be granted again: its authority
\* retired with it.
Spent ==
    \A p \in Phone : pending[p] # None =>
        /\ pending[p].credential \in Hashes(disk) \cup retired =>
             pending[p].authority \in retired
        /\ pending[p].newRecovery \in {disk.recovery} \cup retired =>
             pending[p].authority \in retired

\* x does not authorize and will not: nothing offers it.
Gone(x) == 
    /\ x \notin Hashes(disk)
    /\ disk.pending # NoPending => disk.pending.hash # x

\* x was granted, to the device id.
Bound(x, id) ==
    /\ x \in Hashes(disk) \cup retired
    /\ \A d \in disk.devices : d.hash = x => d.id = id

Bindings == 
    \A p \in Phone : active[p] # None =>
        Bound(active[p].credential, active[p].id)

\* An answer on its way to phone p is still true when it gets there.
AnswerIsTrue(p) ==
    /\ Answered(p, "commit") =>
         /\ Bound(pending[p].credential, task[p].answer)
         /\ disk.pending # NoPending =>
              disk.pending.hash # pending[p].credential
         /\ active[p] # None => Gone(active[p].credential)
    /\ Answered(p, "cancel") => Gone(pending[p].credential)
    /\ Answered(p, "revoke") /\ task[p].answer = active[p].id =>
         Gone(active[p].credential) /\ pending[p] = None

Answers == \A p \in Phone : AnswerIsTrue(p)

ModuleInv ==
    /\ Disk /\ AuthorizedCredentialIsHeld /\ Retired /\ Offered /\ Spent
    /\ Bindings /\ Answers
-----------------------------------------------------------------------------
(* What the operations of the model do, stated once. *)

LEMMA OneIsFresh ==
  ASSUME NEW pool, CanGenerate(pool, 1)
  PROVE  Fresh(pool) \in pool \ issued
  <1>1. Cardinality({}) = 0
    BY FS_EmptySet
  <1>2. pool \ issued # {}
    BY <1>1 DEF CanGenerate
  <1>3. \E x \in pool : x \notin issued
    BY <1>2
  <1> QED  BY <1>3 DEF Fresh

LEMMA TwoAreFresh ==
  ASSUME NEW pool, CanGenerate(pool, 2)
  PROVE  /\ Fresh(pool) \in pool \ issued
         /\ (CHOOSE s \in pool : s \notin issued \cup {Fresh(pool)})
              \in pool \ (issued \cup {Fresh(pool)})
  <1> DEFINE f == Fresh(pool)
  <1>1. Cardinality({}) = 0 /\ Cardinality({f}) = 1
    BY FS_EmptySet, FS_Singleton
  <1>2. pool \ issued # {} /\ pool \ issued # {f}
    BY <1>1 DEF CanGenerate
  <1>3. \E x \in pool : x \notin issued
    BY <1>2
  <1>4. f \in pool \ issued
    BY <1>3 DEF Fresh
  <1>5. \E x \in pool : x \notin issued \cup {f}
    BY <1>2, <1>4
  <1> QED  BY <1>4, <1>5

\* The answer reaches the task that asked for it, or nobody.
LEMMA AnswerReachesTask ==
  ASSUME PhoneInv, NEW c \in conns, NEW a, Answer(c, a),
         a \in DeviceId \cup Phone \cup {None}, c.op \in Op
  PROVE  /\ conns' = {}
         /\ task' \in [Phone -> Task \cup {None}]
         /\ \A p \in Phone \ {c.from} : task'[p] = task[p]
         /\ c.from \in Phone
         /\ task'[c.from] \in {None, [op |-> c.op, answer |-> a]}
         /\ task'[c.from] # None => Busy(c.from)
         /\ UNCHANGED <<now, active, pending, backups>>
  <1>1. /\ c.from \in Phone
        /\ task[c.from] \in {None, [op |-> c.op, answer |-> None]}
        /\ \A d \in conns : c = d
        /\ task \in [Phone -> Task \cup {None}]
    BY DEF PhoneInv, Connections, Tasks
  <1>2. conns' = {}
    BY <1>1 DEF Answer
  <1>3. /\ UNCHANGED <<now, active, pending, backups>>
        /\ task' = IF Busy(c.from) /\ task[c.from].op = c.op
                   THEN [task EXCEPT ![c.from] =
                     IF a = None THEN None ELSE [@ EXCEPT !.answer = a]]
                   ELSE task
    BY DEF Answer, keychain
  <1>4. CASE task[c.from] = None
    BY <1>1, <1>2, <1>3, <1>4 DEF Busy
  <1>5. CASE task[c.from] = [op |-> c.op, answer |-> None] /\ ~<1>4!1
    <2> DEFINE r == [op |-> c.op, answer |-> a]
    <2>1. [task[c.from] EXCEPT !.answer = a] = r
      BY <1>5
    <2>2. task[c.from].op = c.op
      BY <1>5
    <2>3. r \in Task
      BY DEF Task
    <2>4. task' = [task EXCEPT ![c.from] = IF a = None THEN None ELSE r]
      BY <1>1, <1>3, <1>5, <2>1, <2>2 DEF Busy
    <2> HIDE DEF r
    <2>5. task' \in [Phone -> Task \cup {None}]
      BY <1>1, <2>3, <2>4
    <2>6. task'[c.from] \in {None, r}
      BY <1>1, <2>4
    <2>7. Busy(c.from)
      BY <1>5 DEF Busy
    <2> USE DEF r
    <2> QED  BY <1>1, <1>2, <1>3, <2>4, <2>5, <2>6, <2>7
  <1> QED  BY <1>1, <1>4, <1>5

\* The registry each operation leaves behind, field by field.
LEMMA PrepareFields ==
  ASSUME NEW st \in Registry, NEW req, NEW id \in DeviceId, NEW t \in Clock,
         req.kind \in Kind, req.authority \in Secret, req.credential \in Secret,
         req.newRecovery \in Secret \cup {NoSecret}
  PROVE  LET new == PrepareResult(st, req, id, t) IN
         /\ new \in Registry /\ new.pending # NoPending
         /\ new.bootstrap = st.bootstrap /\ new.recovery = st.recovery
         /\ new.devices = st.devices
         /\ new.pending.kind = req.kind
         /\ new.pending.authority = req.authority
         /\ new.pending.recovery = req.newRecovery
         /\ new.pending.hash = req.credential
  <1> DEFINE p == [kind |-> req.kind, authority |-> req.authority,
                   recovery |-> req.newRecovery, id |-> id,
                   hash |-> req.credential, createdAt |-> t,
                   expiresAt |-> t + PendingLifetime]
  <1>1. t \in Int /\ t + PendingLifetime \in Int
    BY LimitsAssumption, ProtocolAssumption DEF Clock
  <1>2. p \in Pending
    BY <1>1 DEF Pending
  <1>3. p # NoPending
    BY <1>2, NothingAssumption
  <1>4. PrepareResult(st, req, id, t) = [st EXCEPT !.pending = p]
    BY DEF PrepareResult
  <1>5. /\ p.kind = req.kind /\ p.authority = req.authority
        /\ p.recovery = req.newRecovery /\ p.hash = req.credential
    OBVIOUS
  <1> HIDE DEF p
  <1>6. [st EXCEPT !.pending = p] \in Registry
    BY <1>2 DEF Registry
  <1>7. LET new == [st EXCEPT !.pending = p] IN
        /\ new.pending = p
        /\ new.bootstrap = st.bootstrap /\ new.recovery = st.recovery
        /\ new.devices = st.devices
    BY DEF Registry
  <1> QED  BY <1>3, <1>4, <1>5, <1>6, <1>7

LEMMA CommitFields ==
  ASSUME NEW st \in Registry, NEW c, NEW t, CommitApplies(st, c, t),
         ValidState(CommitResult(st))
  PROVE  LET new == CommitResult(st) IN
         /\ st.pending \in Pending /\ st.pending.hash = c
         /\ new \in Registry /\ new.pending = NoPending
         /\ new.bootstrap = NoSecret
         /\ new.recovery = IF st.pending.kind = "recovery"
                           THEN st.pending.recovery ELSE st.recovery
         /\ new.devices = IF st.pending.kind = "recovery"
                          THEN {[id |-> st.pending.id, hash |-> c]}
                          ELSE st.devices
                                 \cup {[id |-> st.pending.id, hash |-> c]}
  <1> DEFINE p == st.pending
             d == [id |-> p.id, hash |-> p.hash]
             new == CommitResult(st)
  <1>1. p \in Pending /\ p.hash = c
    BY DEF CommitApplies, PendingLive, Registry
  <1>2. d \in Device
    BY <1>1 DEF Pending, Device
  <1>3. new.recovery # NoSecret
    BY DEF ValidState
  <1>4. /\ new.pending = NoPending /\ new.bootstrap = NoSecret
        /\ new.recovery = IF p.kind = "recovery" THEN p.recovery ELSE st.recovery
        /\ new.devices = IF p.kind = "recovery" THEN {d} ELSE st.devices \cup {d}
    BY DEF CommitResult
  <1>5. /\ (IF p.kind = "recovery" THEN p.recovery ELSE st.recovery) \in Secret
        /\ (IF p.kind = "recovery" THEN {d} ELSE st.devices \cup {d})
             \in SUBSET Device
        /\ st.generation + 1 \in Nat
    BY <1>1, <1>2, <1>3, <1>4 DEF Registry, Pending
  <1>6. new \in Registry
    BY <1>5 DEF Registry, CommitResult
  <1> QED  BY <1>1, <1>4, <1>6

LEMMA RevokeFields ==
  ASSUME NEW st \in Registry, NEW id
  PROVE  LET new == RevokeResult(st, id) IN
         /\ new \in Registry /\ new.pending \in {NoPending, st.pending}
         /\ new.bootstrap = st.bootstrap /\ new.recovery = st.recovery
         /\ new.devices = st.devices \ {CHOOSE d \in st.devices : d.id = id}
  <1> DEFINE removed == CHOOSE d \in st.devices : d.id = id
             orphan == st.pending # NoPending
                         /\ st.pending.authority = removed.hash
             pending1 == IF orphan THEN NoPending ELSE st.pending
             devices == st.devices \ {removed}
             generation == st.generation + 1
  <1>1. RevokeResult(st, id) =
          [[[st EXCEPT !.devices = devices]
              EXCEPT !.generation = generation]
              EXCEPT !.pending = pending1]
    BY DEF RevokeResult, Registry
  <1>2. /\ devices \in SUBSET Device /\ generation \in Nat
        /\ pending1 \in {NoPending, st.pending}
        /\ pending1 \in Pending \cup {NoPending}
    BY DEF Registry
  <1> HIDE DEF devices, generation, pending1
  <1>3. LET new == [[[st EXCEPT !.devices = devices]
                       EXCEPT !.generation = generation]
                       EXCEPT !.pending = pending1]
        IN  /\ new \in Registry
            /\ new.pending = pending1 /\ new.devices = devices
            /\ new.bootstrap = st.bootstrap /\ new.recovery = st.recovery
    BY <1>2 DEF Registry
  <1> QED  BY <1>1, <1>2, <1>3 DEF devices

LEMMA CancelFields ==
  ASSUME NEW st \in Registry
  PROVE  LET new == CancelResult(st) IN
         /\ new \in Registry /\ new.pending = NoPending
         /\ new.bootstrap = st.bootstrap /\ new.recovery = st.recovery
         /\ new.devices = st.devices
  BY DEF CancelResult, Registry

LEMMA ValidAreSecrets ==
  ASSUME NEW st \in Registry
  PROVE  Hashes(st) \subseteq Secret /\ Valid(st) \subseteq Secret
  BY DEF Valid, Hashes, Registry, Device

Typed ==
    /\ disk' \in Registry /\ synced' \in Registry
    /\ retired \subseteq retired' /\ retired' \subseteq Secret

LEMMA ChangeTyped ==
  ASSUME TypeOK, NEW c, NEW st, NEW a, Change(c, st, a),
         ValidState(st) => st \in Registry
  PROVE  Typed /\ \E b \in {a, None} : Answer(c, b)
  <1>1. Valid(disk) \subseteq Secret
    BY ValidAreSecrets DEF TypeOK
  <1> QED  BY <1>1 DEF Typed, Change, Store, StoreUnsynced, Unchanged, TypeOK

LEMMA UnchangedTyped == TypeOK /\ Unchanged => Typed
  BY DEF TypeOK, Unchanged, Typed

Serve(c) == ServePrepare(c) \/ ServeCommit(c) \/ ServeRevoke(c) \/ ServeCancel(c)

\* Whatever the module does with a request, its registry stays one, only
\* identifiers are generated, and the phone is told an identifier or an error.
LEMMA ServeEffect ==
  ASSUME PhoneInv, NEW c \in conns, Serve(c)
  PROVE  /\ Typed
         /\ issued \subseteq issued' /\ issued' \subseteq Secret \cup DeviceId
         /\ c.op \in Op
         /\ \E a \in DeviceId \cup Phone \cup {None} :
              /\ Answer(c, a)
              /\ c.op \in {"prepare", "commit"} => a \in DeviceId \cup {None}
  <1> DEFINE Goal ==
        /\ Typed
        /\ issued \subseteq issued' /\ issued' \subseteq Secret \cup DeviceId
        /\ c.op \in Op
        /\ \E a \in DeviceId \cup Phone \cup {None} :
             /\ Answer(c, a)
             /\ c.op \in {"prepare", "commit"} => a \in DeviceId \cup {None}
  <1>1. /\ TypeOK /\ disk \in Registry /\ now \in Clock /\ Asks(c)
        /\ c.from \in Phone /\ issued \subseteq Secret \cup DeviceId
    BY DEF PhoneInv, TypeOK, Connections
  <1>2. CASE ServePrepare(c)
    <2>0. c.op = "prepare" /\ c.op \in Op
      BY <1>2 DEF ServePrepare, Op
    <2>1. CASE /\ PrepareRepeats(disk, c.body, now)
               /\ Unchanged /\ Answer(c, disk.pending.id)
               /\ UNCHANGED issued
      <3>1. disk.pending.id \in DeviceId
        BY <1>1, <2>1 DEF PrepareRepeats, PendingLive, Registry, Pending
      <3> QED  BY <1>1, <2>0, <2>1, <3>1, UnchangedTyped
    <2>2. CASE /\ PrepareStarts(disk, c.body, now)
               /\ CanGenerate(DeviceId, 1)
               /\ issued' = issued \cup {Fresh(DeviceId)}
               /\ Change(c, PrepareResult(disk, c.body, Fresh(DeviceId), now),
                         Fresh(DeviceId))
      <3>1. Fresh(DeviceId) \in DeviceId
        BY <2>2, OneIsFresh
      <3>2. /\ pending[c.from] \in Enrollment
            /\ Fields(c.from, c.body)
        BY <1>1, <2>0 DEF Asks, TypeOK
      <3>3. /\ c.body.kind \in Kind /\ c.body.authority \in Secret
            /\ c.body.credential \in Secret
            /\ c.body.newRecovery \in Secret \cup {NoSecret}
        BY <3>2 DEF Fields, Enrollment
      <3>4. PrepareResult(disk, c.body, Fresh(DeviceId), now) \in Registry
        BY <1>1, <3>1, <3>3, PrepareFields
      <3>5. /\ Typed
            /\ \E b \in {Fresh(DeviceId), None} : Answer(c, b)
        BY <1>1, <2>2, <3>4, ChangeTyped
      <3> QED  BY <1>1, <2>0, <2>2, <3>1, <3>5
    <2>3. CASE Unchanged /\ Answer(c, None) /\ UNCHANGED issued
      BY <1>1, <2>0, <2>3, UnchangedTyped
    <2> QED  BY <1>2, <2>1, <2>2, <2>3 DEF ServePrepare
  <1>3. CASE ServeCommit(c)
    <2> DEFINE x == c.body.credential
    <2>0. c.op = "commit" /\ c.op \in Op /\ UNCHANGED issued
      BY <1>3 DEF ServeCommit, Op
    <2>1. CASE /\ Authorized(disk, x)
               /\ Unchanged /\ Answer(c, DeviceOf(disk, x).id)
      <3>1. DeviceOf(disk, x).id \in DeviceId
        BY <1>1, <2>1 DEF Authorized, Hashes, DeviceOf, Registry, Device
      <3> QED  BY <1>1, <2>0, <2>1, <3>1, UnchangedTyped
    <2>2. CASE /\ CommitApplies(disk, x, now)
               /\ Change(c, CommitResult(disk), disk.pending.id)
      <3>1. disk.pending.id \in DeviceId
        BY <1>1, <2>2 DEF CommitApplies, PendingLive, Registry, Pending
      <3>2. ValidState(CommitResult(disk)) => CommitResult(disk) \in Registry
        BY <1>1, <2>2, CommitFields
      <3>3. /\ Typed
            /\ \E b \in {disk.pending.id, None} : Answer(c, b)
        BY <1>1, <2>2, <3>2, ChangeTyped
      <3> QED  BY <1>1, <2>0, <3>1, <3>3
    <2>3. CASE Unchanged /\ Answer(c, None)
      BY <1>1, <2>0, <2>3, UnchangedTyped
    <2> QED  BY <1>3, <2>1, <2>2, <2>3 DEF ServeCommit
  <1>4. CASE ServeRevoke(c)
    <2> DEFINE x == c.body.credential
               id == c.body.id
    <2>0. c.op = "revoke" /\ c.op \in Op /\ UNCHANGED issued
      BY <1>4 DEF ServeRevoke, Op
    <2>1. id \in DeviceId
      BY <1>1, <2>0 DEF Asks
    <2>2. CASE Change(c, RevokeResult(disk, id), id)
      <3>1. RevokeResult(disk, id) \in Registry
        BY <1>1, RevokeFields
      <3>2. Typed /\ \E b \in {id, None} : Answer(c, b)
        BY <1>1, <2>2, <3>1, ChangeTyped
      <3> QED  BY <1>1, <2>0, <2>1, <3>2
    <2>3. CASE Unchanged /\ Answer(c, id)
      BY <1>1, <2>0, <2>1, <2>3, UnchangedTyped
    <2>4. CASE Unchanged /\ Answer(c, None)
      BY <1>1, <2>0, <2>4, UnchangedTyped
    <2> QED  BY <1>4, <2>2, <2>3, <2>4 DEF ServeRevoke
  <1>5. CASE ServeCancel(c)
    <2>0. c.op = "cancel" /\ c.op \in Op /\ UNCHANGED issued
      BY <1>5 DEF ServeCancel, Op
    <2>1. CASE Unchanged /\ Answer(c, c.from)
      BY <1>1, <2>0, <2>1, UnchangedTyped
    <2>2. CASE Change(c, CancelResult(disk), c.from)
      <3>1. CancelResult(disk) \in Registry
        BY <1>1, CancelFields
      <3>2. Typed /\ \E b \in {c.from, None} : Answer(c, b)
        BY <1>1, <2>2, <3>1, ChangeTyped
      <3> QED  BY <1>1, <2>0, <3>2
    <2>3. CASE Unchanged /\ Answer(c, None)
      BY <1>1, <2>0, <2>3, UnchangedTyped
    <2> QED  BY <1>5, <2>1, <2>2, <2>3 DEF ServeCancel
  <1> QED  BY <1>2, <1>3, <1>4, <1>5 DEF Serve

-----------------------------------------------------------------------------
(* PhoneInv holds in every state, whether directory syncs fail or not. *)

LEMMA InitialPhones == Init => PhoneInv
  <1> SUFFICES ASSUME Init PROVE PhoneInv
    OBVIOUS
  <1>1. /\ disk \in Registry /\ synced \in Registry /\ now \in Clock
    BY LimitsAssumption, ProtocolAssumption
       DEF Init, InitialRegistry, Registry, Clock
  <1>2. Cardinality(conns) =< 1
    BY FS_EmptySet DEF Init
  <1>3. TypeOK
    BY <1>1, <1>2, ProtocolAssumption DEF Init, TypeOK
  <1>4. Connections /\ Tasks /\ Records
    BY DEF Init, Connections, Tasks, Records
  <1>5. Apart
    BY ProtocolAssumption DEF Init, Apart, Codes
  <1> QED  BY <1>3, <1>4, <1>5 DEF PhoneInv

LEMMA SameRecords == Records /\ UNCHANGED <<pending, backups>> => Records'
  BY DEF Records

LEMMA SameApart ==
  ASSUME Apart, UNCHANGED keychain, issued \subseteq issued'
  PROVE  Apart'
  BY DEF Apart, Codes, keychain

\* A phone that has its answer has no connection left.
LEMMA AnsweredIsServed ==
  ASSUME Connections, NEW p, task[p] # None, task[p].answer # None
  PROVE  \A c \in conns : c.from # p
  <1> SUFFICES ASSUME NEW c \in conns, c.from = p PROVE FALSE
    OBVIOUS
  <1>1. task[p] = [op |-> c.op, answer |-> None]
    BY DEF Connections
  <1> QED  BY <1>1

LEMMA OthersConnect ==
  ASSUME Connections, NEW p, \A c \in conns : c.from # p, conns' = conns,
         \A q \in Phone \ {p} :
           /\ active'[q] = active[q] /\ pending'[q] = pending[q]
           /\ task'[q] = task[q]
  PROVE  Connections'
  <1>1. \A c \in conns :
          /\ c.from \in Phone
          /\ active'[c.from] = active[c.from]
          /\ pending'[c.from] = pending[c.from]
          /\ task'[c.from] = task[c.from]
    BY DEF Connections
  <1>2. \A c \in conns : Asks(c) => Asks(c)'
    BY <1>1 DEF Asks, Fields, Busy
  <1> QED  BY <1>1, <1>2 DEF Connections

LEMMA ServedPhones ==
  ASSUME PhoneInv, NEW c \in conns, Serve(c)
  PROVE  PhoneInv'
  <1>1. /\ Typed /\ issued \subseteq issued'
        /\ issued' \subseteq Secret \cup DeviceId /\ c.op \in Op
    BY ServeEffect
  <1>2. PICK a \in DeviceId \cup Phone \cup {None} :
          /\ Answer(c, a)
          /\ c.op \in {"prepare", "commit"} => a \in DeviceId \cup {None}
    BY ServeEffect
  <1>3. /\ conns' = {}
        /\ task' \in [Phone -> Task \cup {None}]
        /\ \A p \in Phone \ {c.from} : task'[p] = task[p]
        /\ task'[c.from] \in {None, [op |-> c.op, answer |-> a]}
        /\ UNCHANGED <<now, active, pending, backups>>
    BY <1>1, <1>2, AnswerReachesTask
  <1>4. TypeOK /\ Asks(c) /\ Tasks /\ Records /\ Apart /\ c.from \in Phone
    BY DEF PhoneInv, Connections
  <1>5. TypeOK'
    <2>1. Cardinality(conns') =< 1
      BY <1>3, FS_EmptySet
    <2> QED  BY <1>1, <1>3, <1>4, <2>1 DEF TypeOK, Typed
  <1>6. Connections'
    BY <1>3 DEF Connections
  <1>7. Tasks'
    <2> SUFFICES ASSUME NEW p \in Phone, task'[p] # None
                 PROVE
        /\ task'[p].op \in {"prepare", "commit", "cancel"} => pending'[p] # None
        /\ task'[p].op \in {"prepare", "commit"} =>
             task'[p].answer \in DeviceId \cup {None}
        /\ task'[p].op = "commit" => pending'[p].prepared # None
        /\ task'[p].op = "revoke" => active'[p] # None
      BY <1>3 DEF Tasks
    <2>1. CASE p # c.from
      BY <1>3, <1>4, <2>1 DEF Tasks
    <2>2. CASE p = c.from
      <3>1. task'[p].op = c.op /\ task'[p].answer = a
        BY <1>3, <2>2
      <3> QED  BY <1>2, <1>3, <1>4, <2>2, <3>1 DEF Asks
    <2> QED  BY <2>1, <2>2
  <1>8. Records' /\ Apart'
    BY <1>1, <1>3, <1>4, SameRecords, SameApart DEF keychain
  <1> QED  BY <1>5, <1>6, <1>7, <1>8 DEF PhoneInv

LEMMA SentPhones ==
  ASSUME PhoneInv, NEW p \in Phone, NEW r, Send(p, r), r.from = p, r.op \in Op,
         Asks(r),
         r.op = "revoke" /\ r.body.id = active[p].id => pending[p] = None
  PROVE  PhoneInv'
  <1> DEFINE t == [op |-> r.op, answer |-> None]
  <1>1. TypeOK /\ Connections /\ Tasks /\ Records /\ Apart
    BY DEF PhoneInv
  <1>2. /\ conns' = {r} /\ task[p] = None
        /\ task' = [task EXCEPT ![p] = t]
        /\ UNCHANGED <<disk, synced, now, retired, active, pending, backups, issued>>
    BY DEF Send, SlotFree, Busy, registry, keychain
  <1>3. t \in Task /\ t.op = r.op /\ t.answer = None
    BY DEF Task
  <1> HIDE DEF t
  <1>4. /\ task' \in [Phone -> Task \cup {None}] /\ task'[p] = t
        /\ \A q \in Phone \ {p} : task'[q] = task[q]
    BY <1>1, <1>2, <1>3 DEF Tasks
  <1>5. TypeOK'
    <2>1. Cardinality(conns') =< 1
      BY <1>2, FS_Singleton
    <2> QED  BY <1>1, <1>2, <2>1 DEF TypeOK
  <1>6. Connections'
    <2>1. Asks(r)'
      BY <1>2 DEF Asks, Fields, Busy
    <2>2. task'[p] \in {None, [op |-> r.op, answer |-> None]}
      BY <1>4 DEF t
    <2> QED  BY <1>2, <2>1, <2>2 DEF Connections
  <1>7. Tasks'
    <2>1. /\ t.op \in {"prepare", "commit", "cancel"} => pending[p] # None
          /\ t.answer \in DeviceId \cup {None}
          /\ t.op = "commit" => pending[p].prepared # None
          /\ t.op = "revoke" => active[p] # None
      BY <1>3 DEF Asks
    <2> QED  BY <1>1, <1>2, <1>4, <2>1 DEF Tasks
  <1>8. Records' /\ Apart'
    BY <1>1, <1>2, SameRecords, SameApart DEF keychain
  <1> QED  BY <1>5, <1>6, <1>7, <1>8 DEF PhoneInv

Sends(p) ==
    \/ SendPrepare(p) \/ SendCommit(p) \/ SendCancel(p)
    \/ \E id \in DeviceId : SendRevoke(p, id)

LEMMA SendsPhones ==
  ASSUME PhoneInv, NEW p \in Phone, Sends(p)
  PROVE  PhoneInv'
  <1>1. CASE SendPrepare(p)
    <2> DEFINE r == [from |-> p, op |-> "prepare", body |->
                  [kind |-> pending[p].kind, authority |-> pending[p].authority,
                   credential |-> pending[p].credential,
                   newRecovery |-> pending[p].newRecovery]]
    <2>1. Send(p, r) /\ r.from = p /\ r.op = "prepare" /\ Asks(r)
      BY <1>1 DEF SendPrepare, Asks, Fields
    <2> HIDE DEF r
    <2> QED  BY <2>1, SentPhones DEF Op
  <1>2. CASE SendCommit(p)
    <2> DEFINE r == [from |-> p, op |-> "commit",
                     body |-> [credential |-> pending[p].credential]]
    <2>1. Send(p, r) /\ r.from = p /\ r.op = "commit" /\ Asks(r)
      BY <1>2 DEF SendCommit, Asks, MayCommit
    <2> HIDE DEF r
    <2> QED  BY <2>1, SentPhones DEF Op
  <1>3. CASE SendCancel(p)
    <2> DEFINE r == [from |-> p, op |-> "cancel",
                     body |-> [credential |-> pending[p].credential]]
    <2>1. Send(p, r) /\ r.from = p /\ r.op = "cancel" /\ Asks(r)
      BY <1>3 DEF SendCancel, Asks
    <2> HIDE DEF r
    <2> QED  BY <2>1, SentPhones DEF Op
  <1>4. ASSUME NEW id \in DeviceId, SendRevoke(p, id)
        PROVE  PhoneInv'
    <2> DEFINE r == [from |-> p, op |-> "revoke",
                     body |-> [credential |-> active[p].credential, id |-> id]]
    <2>1. Send(p, r) /\ r.from = p /\ r.op = "revoke" /\ r.body.id = id
      BY <1>4 DEF SendRevoke
    <2>2. Asks(r) /\ (id = active[p].id => pending[p] = None)
      BY <1>4 DEF SendRevoke, Asks, Send
    <2> HIDE DEF r
    <2> QED  BY <2>1, <2>2, SentPhones DEF Op
  <1> QED  BY <1>1, <1>2, <1>3, <1>4 DEF Sends

\* The owner starts enrollment e with code: its secrets are nobody else's.
Begun(p, code, e) ==
    /\ pending' = [pending EXCEPT ![p] = e]
    /\ e.authority = code /\ code \in Codes
    /\ e.credential \in Secret \ issued
    /\ \/ /\ code = Bootstrap
          /\ e.kind = "bootstrap" /\ e.newRecovery = NoSecret
          /\ issued' = issued \cup {e.credential}
       \/ /\ code # Bootstrap
          /\ e.kind = "recovery"
          /\ e.newRecovery \in Secret \ (issued \cup {e.credential})
          /\ issued' = issued \cup {e.credential, e.newRecovery}
    /\ e.backedUp = FALSE
    /\ ~Busy(p) /\ pending[p] = None
    /\ UNCHANGED <<disk, synced, now, retired, active, backups, task, conns>>

LEMMA BeginFields ==
  ASSUME TypeOK, Apart, NEW p \in Phone, NEW code \in Secret, Begin(p, code)
  PROVE  \E e \in Enrollment : Begun(p, code, e)
  <1> DEFINE f == Fresh(Secret)
             n == CHOOSE s \in Secret : s \notin issued \cup {f}
             e == [kind |-> IF code # Bootstrap THEN "recovery" ELSE "bootstrap",
                   authority |-> code, credential |-> f,
                   newRecovery |-> IF code # Bootstrap THEN n ELSE NoSecret,
                   prepared |-> None, backedUp |-> FALSE]
  <1>1. /\ pending' = [pending EXCEPT ![p] = e]
        /\ issued' = issued \cup IF code # Bootstrap THEN {f, n} ELSE {f}
        /\ code \in Codes /\ ~Busy(p) /\ pending[p] = None
        /\ UNCHANGED <<disk, synced, now, retired, active, backups, task, conns>>
    BY DEF Begin, registry, Codes
  <1>2. CASE code = Bootstrap
    <2>1. f \in Secret \ issued
      BY <1>2, OneIsFresh DEF Begin
    <2> HIDE DEF f, n
    <2>2. e \in Enrollment
      BY <1>2, <2>1 DEF Enrollment, Kind
    <2>3. /\ e.authority = code /\ e.credential = f /\ e.kind = "bootstrap"
          /\ e.newRecovery = NoSecret /\ e.backedUp = FALSE
      BY <1>2
    <2> HIDE DEF e
    <2> QED  BY <1>1, <1>2, <2>1, <2>2, <2>3 DEF Begun
  <1>3. CASE code # Bootstrap
    <2>1. f \in Secret \ issued /\ n \in Secret \ (issued \cup {f})
      BY <1>3, TwoAreFresh DEF Begin
    <2> HIDE DEF f, n
    <2>2. e \in Enrollment
      BY <1>3, <2>1 DEF Enrollment, Kind
    <2>3. /\ e.authority = code /\ e.credential = f /\ e.kind = "recovery"
          /\ e.newRecovery = n /\ e.backedUp = FALSE
      BY <1>3
    <2> HIDE DEF e
    <2> QED  BY <1>1, <1>3, <2>1, <2>2, <2>3 DEF Begun
  <1> QED  BY <1>2, <1>3

LEMMA BeginPhones ==
  ASSUME PhoneInv, NEW p \in Phone, NEW code \in Secret, Begin(p, code)
  PROVE  PhoneInv'
  <1>1. TypeOK /\ Connections /\ Tasks /\ Records /\ Apart
    BY DEF PhoneInv
  <1>a. PICK e \in Enrollment : Begun(p, code, e)
    BY <1>1, BeginFields
  <1>2.
           /\ pending' = [pending EXCEPT ![p] = e]
           /\ e.authority = code /\ code \in Codes
           /\ e.credential \in Secret \ issued
           /\ \/ /\ code = Bootstrap
                 /\ e.kind = "bootstrap" /\ e.newRecovery = NoSecret
                 /\ issued' = issued \cup {e.credential}
              \/ /\ code # Bootstrap
                 /\ e.kind = "recovery"
                 /\ e.newRecovery \in Secret \ (issued \cup {e.credential})
                 /\ issued' = issued \cup {e.credential, e.newRecovery}
           /\ e.backedUp = FALSE
           /\ ~Busy(p) /\ pending[p] = None
           /\ UNCHANGED <<disk, synced, now, retired, active, backups, task, conns>>
    BY <1>a DEF Begun
  <1>3. /\ pending' \in [Phone -> Enrollment \cup {None}] /\ pending'[p] = e
        /\ \A q \in Phone \ {p} : pending'[q] = pending[q]
        /\ e # None
    BY <1>1, <1>2, NoneAssumption DEF TypeOK
  <1>4. issued \subseteq issued' /\ issued' \subseteq Secret \cup DeviceId
    BY <1>1, <1>2 DEF TypeOK
  <1>5. TypeOK'
    BY <1>1, <1>2, <1>3, <1>4 DEF TypeOK
  <1>6. Connections'
    <2>1. \A c \in conns : Asks(c) => Asks(c)'
      BY <1>2, <1>3 DEF Asks, Fields, Busy
    <2> QED  BY <1>1, <1>2, <2>1 DEF Connections
  <1>7. Tasks'
    BY <1>1, <1>2, <1>3 DEF Tasks, Busy
  <1>8. Records'
    BY <1>1, <1>2, <1>3 DEF Records, Codes
  <1>9. Apart'
    <2>1. Codes' = Codes /\ active' = active /\ backups' = backups
      BY <1>2 DEF Codes
    <2>2. Codes' \subseteq issued' /\ Bootstrap \notin backups'
      BY <1>1, <1>4, <2>1 DEF Apart
    <2>3. \A q \in Phone : active'[q] # None =>
            active'[q].credential \in issued' \ Codes'
      BY <1>1, <1>4, <2>1 DEF Apart
    <2>4. /\ e.credential \in issued' \ (issued \cup Codes)
          /\ e.newRecovery \in {NoSecret}
               \cup (issued' \ (issued \cup {Bootstrap, e.credential}))
      BY <1>1, <1>2, NoSecretAssumption DEF Apart, Codes
    <2>5. \A q \in Phone : pending'[q] # None =>
            /\ pending'[q].credential \in issued' \ Codes'
            /\ pending'[q].newRecovery \in (issued' \ {Bootstrap}) \cup {NoSecret}
      BY <1>1, <1>3, <1>4, <2>1, <2>4 DEF Apart
    <2>6. e.credential # NoSecret /\ \A q \in Phone \ {p} : pending[q] # None =>
            /\ e.newRecovery # pending[q].credential
            /\ pending[q].newRecovery # e.credential
            /\ pending[q].credential # e.credential
            /\ e.newRecovery # NoSecret => pending[q].newRecovery # e.newRecovery
      <3>1. \A q \in Phone : pending[q] # None => pending[q].credential \in Secret
        BY <1>1 DEF TypeOK, Enrollment
      <3> QED  BY <1>1, <1>2, <2>4, <3>1, NoSecretAssumption DEF Apart
    <2>7. \A q, u \in Phone : pending'[q] # None /\ pending'[u] # None =>
            /\ pending'[q].newRecovery # pending'[u].credential
            /\ q # u => /\ pending'[q].credential # pending'[u].credential
                        /\ pending'[q].newRecovery # NoSecret =>
                             pending'[q].newRecovery # pending'[u].newRecovery
      BY <1>1, <1>3, <2>4, <2>6 DEF Apart
    <2>8. \A q, u \in Phone : active'[q] # None /\ pending'[u] # None =>
            active'[q].credential \notin
                {pending'[u].credential, pending'[u].newRecovery}
      <3>1. \A q \in Phone : active[q] # None => active[q].credential \in Secret
        BY <1>1 DEF TypeOK, Membership
      <3> QED  BY <1>1, <1>3, <2>1, <2>4, <3>1, NoSecretAssumption DEF Apart
    <2> QED  BY <1>1, <2>1, <2>2, <2>3, <2>5, <2>7, <2>8 DEF Apart
  <1> QED  BY <1>5, <1>6, <1>7, <1>8, <1>9 DEF PhoneInv

\* The record keeps everything but what a task learns about it.
LEMMA SameSecrets ==
  ASSUME TypeOK, Connections, Tasks, Records, Apart, NEW p \in Phone,
         pending[p] # None, NEW e \in Enrollment,
         pending' = [pending EXCEPT ![p] = e],
         e.kind = pending[p].kind, e.authority = pending[p].authority,
         e.credential = pending[p].credential,
         e.newRecovery = pending[p].newRecovery,
         e.backedUp => e.newRecovery \in backups' \cup {NoSecret},
         backups \subseteq backups',
         backups' \subseteq backups \cup ({e.newRecovery} \ {NoSecret}),
         UNCHANGED <<active, issued>>
  PROVE  /\ pending' \in [Phone -> Enrollment \cup {None}] /\ pending'[p] = e
         /\ \A q \in Phone \ {p} : pending'[q] = pending[q]
         /\ e # None /\ Records' /\ Apart'
  <1>1. /\ pending' \in [Phone -> Enrollment \cup {None}] /\ pending'[p] = e
        /\ \A q \in Phone \ {p} : pending'[q] = pending[q]
        /\ e # None
    BY NoneAssumption DEF TypeOK
  <1>2. \A q \in Phone :
          /\ (pending'[q] # None) <=> (pending[q] # None)
          /\ pending'[q] # None =>
               /\ pending'[q].kind = pending[q].kind
               /\ pending'[q].authority = pending[q].authority
               /\ pending'[q].credential = pending[q].credential
               /\ pending'[q].newRecovery = pending[q].newRecovery
    BY <1>1
  <1>3. Records'
    BY <1>1, <1>2 DEF Records
  <1>4. /\ Codes' \subseteq Codes \cup ({e.newRecovery} \ {NoSecret})
        /\ Codes' \subseteq issued' /\ Bootstrap \notin backups'
    BY DEF Codes, Apart
  <1>5. \A q \in Phone : active'[q] # None =>
          active'[q].credential \in issued' \ Codes'
    BY <1>4 DEF Apart
  <1>6. \A q \in Phone : pending'[q] # None =>
          /\ pending'[q].credential \in issued' \ Codes'
          /\ pending'[q].newRecovery \in (issued' \ {Bootstrap}) \cup {NoSecret}
    BY <1>2, <1>4 DEF Apart
  <1>7. Apart'
    BY <1>2, <1>4, <1>5, <1>6 DEF Apart
  <1> QED  BY <1>1, <1>3, <1>7

LEMMA ConfirmedPhones ==
  ASSUME PhoneInv, NEW p \in Phone, ConfirmRecoveryBackup(p)
  PROVE  PhoneInv'
  <1> DEFINE e == [pending[p] EXCEPT !.backedUp = TRUE]
  <1>1. TypeOK /\ Connections /\ Tasks /\ Records /\ Apart
    BY DEF PhoneInv
  <1>2. /\ ~Busy(p) /\ pending[p] # None
        /\ pending' = [pending EXCEPT ![p] = e]
        /\ backups' = backups \cup ({pending[p].newRecovery} \ {NoSecret})
        /\ UNCHANGED <<disk, synced, now, retired, active, task, conns, issued>>
    BY DEF ConfirmRecoveryBackup, registry
  <1>3. /\ pending[p] \in Enrollment /\ e \in Enrollment
        /\ e.kind = pending[p].kind /\ e.authority = pending[p].authority
        /\ e.credential = pending[p].credential
        /\ e.newRecovery = pending[p].newRecovery
        /\ e.prepared = pending[p].prepared
        /\ e.backedUp
    BY <1>1, <1>2 DEF TypeOK, Enrollment
  <1> HIDE DEF e
  <1>4. /\ pending' \in [Phone -> Enrollment \cup {None}] /\ pending'[p] = e
        /\ \A q \in Phone \ {p} : pending'[q] = pending[q]
        /\ e # None /\ Records' /\ Apart'
    <2>1. /\ backups \subseteq backups'
          /\ backups' \subseteq backups \cup ({e.newRecovery} \ {NoSecret})
          /\ e.newRecovery \in backups' \cup {NoSecret}
      BY <1>2, <1>3
    <2> QED  BY <1>1, <1>2, <1>3, <2>1, SameSecrets
  <1>5. backups' \subseteq Secret
    BY <1>1, <1>2, <1>3 DEF TypeOK, Enrollment
  <1>6. TypeOK'
    BY <1>1, <1>2, <1>4, <1>5 DEF TypeOK
  <1>7. Connections'
    <2>1. \A c \in conns : Asks(c) => Asks(c)'
      <3> SUFFICES ASSUME NEW c \in conns, Asks(c) PROVE Asks(c)'
        OBVIOUS
      <3>1. c.from \in Phone
        BY <1>1 DEF Connections
      <3>2. CASE c.from # p
        BY <1>2, <1>4, <3>1, <3>2 DEF Asks, Fields, Busy
      <3>3. CASE c.from = p
        BY <1>2, <1>3, <1>4, <3>3 DEF Asks, Fields, Busy
      <3> QED  BY <3>2, <3>3
    <2> QED  BY <1>1, <1>2, <2>1 DEF Connections
  <1>8. Tasks'
    BY <1>1, <1>2, <1>4 DEF Tasks, Busy
  <1> QED  BY <1>4, <1>6, <1>7, <1>8 DEF PhoneInv

\* A task ends: what the phone learned is in its record, and it is free.
LEMMA FinishedTask ==
  ASSUME Connections, Tasks, NEW p \in Phone, Busy(p),
         task' = [task EXCEPT ![p] = None]
  PROVE  /\ task' \in [Phone -> Task \cup {None}] /\ task'[p] = None
         /\ \A q \in Phone \ {p} : task'[q] = task[q]
  BY DEF Tasks

LEMMA GaveUpPhones ==
  ASSUME PhoneInv, NEW p \in Phone, GiveUp(p)
  PROVE  PhoneInv'
  <1>1. TypeOK /\ Connections /\ Tasks /\ Records /\ Apart
    BY DEF PhoneInv
  <1>2. /\ Busy(p) /\ task' = [task EXCEPT ![p] = None]
        /\ UNCHANGED <<disk, synced, now, retired, active, pending, backups,
                       conns, issued>>
    BY DEF GiveUp, registry, keychain
  <1>3. /\ task' \in [Phone -> Task \cup {None}] /\ task'[p] = None
        /\ \A q \in Phone \ {p} : task'[q] = task[q]
    BY <1>1, <1>2, FinishedTask
  <1>4. TypeOK'
    BY <1>1, <1>2 DEF TypeOK
  <1>5. Connections'
    <2>1. \A c \in conns : Asks(c) /\ c.from \in Phone => Asks(c)'
      BY <1>2, <1>3 DEF Asks, Fields, Busy
    <2> QED  BY <1>1, <1>2, <1>3, <2>1 DEF Connections
  <1>6. Tasks'
    BY <1>1, <1>2, <1>3 DEF Tasks
  <1>7. Records' /\ Apart'
    BY <1>1, <1>2, SameRecords, SameApart DEF keychain
  <1> QED  BY <1>4, <1>5, <1>6, <1>7 DEF PhoneInv

LEMMA FinishedPreparePhones ==
  ASSUME PhoneInv, NEW p \in Phone, FinishPrepare(p)
  PROVE  PhoneInv'
  <1> DEFINE e == [pending[p] EXCEPT !.prepared = task[p].answer]
  <1>1. TypeOK /\ Connections /\ Tasks /\ Records /\ Apart
    BY DEF PhoneInv
  <1>2. /\ Busy(p) /\ task[p].op = "prepare" /\ task[p].answer # None
        /\ pending' = [pending EXCEPT ![p] = e]
        /\ task' = [task EXCEPT ![p] = None]
        /\ UNCHANGED <<disk, synced, now, retired, active, backups, conns, issued>>
    BY DEF FinishPrepare, Answered, registry
  <1>3. /\ task' \in [Phone -> Task \cup {None}] /\ task'[p] = None
        /\ \A q \in Phone \ {p} : task'[q] = task[q]
    BY <1>1, <1>2, FinishedTask
  <1>4. pending[p] # None /\ task[p].answer \in DeviceId
    BY <1>1, <1>2 DEF Tasks, Busy
  <1>5. /\ pending[p] \in Enrollment /\ e \in Enrollment
        /\ e.kind = pending[p].kind /\ e.authority = pending[p].authority
        /\ e.credential = pending[p].credential
        /\ e.newRecovery = pending[p].newRecovery
        /\ e.backedUp = pending[p].backedUp
    BY <1>1, <1>4 DEF TypeOK, Enrollment
  <1> HIDE DEF e
  <1>6. /\ pending' \in [Phone -> Enrollment \cup {None}] /\ pending'[p] = e
        /\ \A q \in Phone \ {p} : pending'[q] = pending[q]
        /\ e # None /\ Records' /\ Apart'
    <2>1. e.backedUp => e.newRecovery \in backups' \cup {NoSecret}
      BY <1>1, <1>2, <1>4, <1>5 DEF Records
    <2> QED  BY <1>1, <1>2, <1>4, <1>5, <2>1, SameSecrets
  <1>7. TypeOK'
    BY <1>1, <1>2, <1>6 DEF TypeOK
  <1>8. Connections'
    BY <1>1, <1>2, <1>3, <1>6, AnsweredIsServed, OthersConnect DEF Busy
  <1>9. Tasks'
    BY <1>1, <1>2, <1>3, <1>6 DEF Tasks
  <1> QED  BY <1>6, <1>7, <1>8, <1>9 DEF PhoneInv

\* The phone drops its enrollment, and may keep a binding it had or gained.
LEMMA DroppedPhones ==
  ASSUME PhoneInv, NEW p \in Phone, Busy(p), task[p].answer # None,
         task' = [task EXCEPT ![p] = None],
         pending' = [pending EXCEPT ![p] = None],
         NEW m \in Membership \cup {None},
         active' = [active EXCEPT ![p] = m],
         \/ m \in {None, active[p]}
         \/ pending[p] # None /\ m.credential = pending[p].credential,
         UNCHANGED <<disk, synced, now, retired, backups, conns, issued>>
  PROVE  PhoneInv'
  <1>1. TypeOK /\ Connections /\ Tasks /\ Records /\ Apart
    BY DEF PhoneInv
  <1>2. /\ task' \in [Phone -> Task \cup {None}] /\ task'[p] = None
        /\ \A q \in Phone \ {p} : task'[q] = task[q]
    BY <1>1, FinishedTask
  <1>3. /\ pending' \in [Phone -> Enrollment \cup {None}] /\ pending'[p] = None
        /\ \A q \in Phone \ {p} : pending'[q] = pending[q]
        /\ active' \in [Phone -> Membership \cup {None}] /\ active'[p] = m
        /\ \A q \in Phone \ {p} : active'[q] = active[q]
    BY <1>1 DEF TypeOK
  <1>4. TypeOK'
    BY <1>1, <1>3 DEF TypeOK
  <1>5. Connections'
    <2>1. \A c \in conns : c.from # p
      BY <1>1, AnsweredIsServed DEF Busy
    <2> QED  BY <1>1, <1>2, <1>3, <2>1, OthersConnect
  <1>6. Tasks'
    BY <1>1, <1>2, <1>3 DEF Tasks
  <1>7. Records'
    BY <1>1, <1>3 DEF Records
  <1>8. Apart'
    <2>1. Codes' = Codes
      BY DEF Codes
    <2>2. \A q \in Phone : active'[q] # None =>
            active'[q].credential \in issued' \ Codes'
      BY <1>1, <1>3, <2>1 DEF Apart
    <2>3. \A q, u \in Phone : active'[q] # None /\ active'[u] # None /\ q # u =>
            active'[q].credential # active'[u].credential
      BY <1>1, <1>3 DEF Apart
    <2>4. \A q, u \in Phone : active'[q] # None /\ pending'[u] # None =>
            active'[q].credential \notin
                {pending'[u].credential, pending'[u].newRecovery}
      BY <1>1, <1>3 DEF Apart
    <2>5. /\ \A q \in Phone : pending'[q] # None =>
               pending'[q] = pending[q] /\ pending[q] # None
      BY <1>3
    <2> QED  BY <1>1, <2>1, <2>2, <2>3, <2>4, <2>5 DEF Apart
  <1> QED  BY <1>4, <1>5, <1>6, <1>7, <1>8 DEF PhoneInv

\* The answer is for something else: the record stays and the phone is free.
LEMMA IgnoredPhones ==
  ASSUME PhoneInv, NEW p \in Phone, Busy(p),
         task' = [task EXCEPT ![p] = None],
         UNCHANGED <<registry, active, pending, backups, conns, issued>>
  PROVE  PhoneInv'
  BY GaveUpPhones DEF GiveUp, keychain

LEMMA FinishesPhones ==
  ASSUME PhoneInv, NEW p \in Phone,
         FinishCommit(p) \/ FinishCancel(p) \/ FinishRevoke(p)
  PROVE  PhoneInv'
  <1>1. /\ Busy(p) /\ task[p].answer # None
        /\ task' = [task EXCEPT ![p] = None]
        /\ UNCHANGED <<disk, synced, now, retired, backups, conns, issued>>
    BY DEF FinishCommit, FinishCancel, FinishRevoke, Answered, registry
  <1>2. TypeOK /\ Tasks /\ UNCHANGED registry
    BY <1>1 DEF PhoneInv, registry
  <1>3. CASE FinishCommit(p)
    <2>1. pending[p] # None /\ pending[p].prepared # None
      BY <1>2, <1>3 DEF FinishCommit, Answered, Tasks, Busy
    <2>2. CASE task[p].answer = pending[p].prepared
      <3> DEFINE m == [credential |-> pending[p].credential,
                       id |-> pending[p].prepared]
      <3>1. m \in Membership /\ m.credential = pending[p].credential
        BY <1>2, <2>1 DEF TypeOK, Enrollment, Membership
      <3>2. active' = [active EXCEPT ![p] = m]
            /\ pending' = [pending EXCEPT ![p] = None]
        BY <1>3, <2>2 DEF FinishCommit
      <3> HIDE DEF m
      <3> QED  BY <1>1, <2>1, <3>1, <3>2, DroppedPhones
    <2>3. CASE task[p].answer # pending[p].prepared
      <3>1. UNCHANGED <<active, pending>>
        BY <1>3, <2>3 DEF FinishCommit
      <3> QED  BY <1>1, <1>2, <3>1, IgnoredPhones
    <2> QED  BY <2>2, <2>3
  <1>4. CASE FinishCancel(p)
    <2>1. /\ pending' = [pending EXCEPT ![p] = None]
          /\ active[p] \in Membership \cup {None}
          /\ active' = [active EXCEPT ![p] = active[p]]
      BY <1>2, <1>4 DEF FinishCancel, TypeOK
    <2> QED  BY <1>1, <2>1, DroppedPhones
  <1>5. CASE FinishRevoke(p)
    <2>1. CASE task[p].answer = active[p].id
      <3>1. /\ active' = [active EXCEPT ![p] = None]
            /\ pending' = [pending EXCEPT ![p] = None]
        BY <1>5, <2>1 DEF FinishRevoke
      <3> QED  BY <1>1, <3>1, DroppedPhones
    <2>2. CASE task[p].answer # active[p].id
      <3>1. UNCHANGED <<active, pending>>
        BY <1>5, <2>2 DEF FinishRevoke
      <3> QED  BY <1>1, <1>2, <3>1, IgnoredPhones
    <2> QED  BY <2>1, <2>2
  <1> QED  BY <1>3, <1>4, <1>5

LEMMA ModulePhones ==
  ASSUME PhoneInv,
         \/ \E c \in conns : DropConnection(c)
         \/ Reboot
         \/ \E t \in Clock : SetClock(t)
         \/ UNCHANGED vars
  PROVE  PhoneInv'
  <1>1. TypeOK /\ Connections /\ Tasks /\ Records /\ Apart
    BY DEF PhoneInv
  <1>2. /\ UNCHANGED <<active, pending, backups, task, issued>>
        /\ conns' \in {{}, conns}
    <2>1. ASSUME NEW c \in conns, DropConnection(c)
          PROVE  conns' = {} /\ UNCHANGED <<active, pending, backups, task, issued>>
      BY <1>1, <2>1 DEF DropConnection, Connections, keychain
    <2> QED  BY <2>1 DEF Reboot, SetClock, vars, keychain
  <1>3. /\ disk' \in Registry /\ synced' \in Registry /\ now' \in Clock
        /\ retired' \subseteq Secret
    BY <1>1 DEF DropConnection, Reboot, SetClock, vars, registry, TypeOK
  <1>4. TypeOK'
    <2>1. Cardinality(conns') =< 1
      BY <1>1, <1>2, FS_EmptySet DEF TypeOK
    <2> QED  BY <1>1, <1>2, <1>3, <2>1 DEF TypeOK
  <1>5. Connections'
    <2>1. \A c \in conns : Asks(c) => Asks(c)'
      BY <1>2 DEF Asks, Fields, Busy
    <2> QED  BY <1>1, <1>2, <2>1 DEF Connections
  <1>6. Tasks'
    BY <1>1, <1>2 DEF Tasks
  <1>7. Records' /\ Apart'
    BY <1>1, <1>2, SameRecords, SameApart DEF keychain
  <1> QED  BY <1>4, <1>5, <1>6, <1>7 DEF PhoneInv

LEMMA Steps ==
  ASSUME [Next]_vars
  PROVE  \/ \E c \in conns : Serve(c)
         \/ \E p \in Phone :
              \/ \E code \in Secret : Begin(p, code)
              \/ ConfirmRecoveryBackup(p) \/ Sends(p) \/ GiveUp(p)
              \/ FinishPrepare(p) \/ FinishCommit(p)
              \/ FinishCancel(p) \/ FinishRevoke(p)
         \/ \E c \in conns : DropConnection(c)
         \/ Reboot
         \/ \E t \in Clock : SetClock(t)
         \/ UNCHANGED vars
  BY DEF Next, PhoneStep, ModuleStep, Serve, Sends

LEMMA NextPhones == PhoneInv /\ [Next]_vars => PhoneInv'
  BY Steps, ServedPhones, BeginPhones, ConfirmedPhones, SendsPhones, GaveUpPhones,
     FinishedPreparePhones, FinishesPhones, ModulePhones

\* For any phones, secrets and identifiers, and whether directory syncs fail
\* or not, every variable keeps its type and the server its single slot.
THEOREM TypeCorrect == Spec => []TypeOK
  <1>1. PhoneInv => TypeOK
    BY DEF PhoneInv
  <1> QED  BY <1>1, InitialPhones, NextPhones, PTL DEF Spec

-----------------------------------------------------------------------------
(* CodeInv holds in every state, whether directory syncs fail or not. *)

\* A registry stays in step with records that lose enrollments or gain fresh ones.
LEMMA StillMatches ==
  ASSUME issued \subseteq issued', backups \subseteq backups',
         \A q \in Phone : pending'[q] # None =>
           \/ pending'[q].credential \notin issued
           \/ /\ pending[q] # None
              /\ pending'[q].kind = pending[q].kind
              /\ pending'[q].credential = pending[q].credential
              /\ pending'[q].newRecovery = pending[q].newRecovery,
         NEW st, Matches(st)
  PROVE  Matches(st)'
  BY DEF Matches

LEMMA StillInStep ==
  ASSUME CodeInv, issued \subseteq issued', backups \subseteq backups',
         \A q \in Phone : pending'[q] # None =>
           \/ pending'[q].credential \notin issued
           \/ /\ pending[q] # None
              /\ pending'[q].kind = pending[q].kind
              /\ pending'[q].credential = pending[q].credential
              /\ pending'[q].newRecovery = pending[q].newRecovery,
         NEW st, Matches(st),
         disk' \in {disk, synced, st}, synced' \in {disk, synced, st}
  PROVE  CodeInv'
  <1>1. PICK d, s : d = disk' /\ s = synced'
    OBVIOUS
  <1>2. Matches(d) /\ Matches(s)
    BY <1>1 DEF CodeInv
  <1>3. Matches(d)' /\ Matches(s)'
    BY <1>2, StillMatches
  <1> QED  BY <1>1, <1>3 DEF CodeInv, Matches

\* Whatever is stored matches the records, if what a request asks for does.
LEMMA ServedCodes ==
  ASSUME PhoneInv, CodeInv, NEW c \in conns, Serve(c)
  PROVE  CodeInv'
  <1>1. /\ TypeOK /\ Records /\ Apart /\ Asks(c) /\ c.from \in Phone
        /\ disk \in Registry /\ now \in Clock
    BY DEF PhoneInv, Connections, TypeOK
  <1>2. issued \subseteq issued' /\ UNCHANGED <<active, pending, backups>>
    BY ServeEffect DEF Answer, keychain
  <1>3. ASSUME NEW st, ValidState(st) => Matches(st),
               disk' \in {disk, st}, synced' \in {synced, st},
               ValidState(st) \/ (disk' = disk /\ synced' = synced)
        PROVE  CodeInv'
    <2>1. CASE Matches(st)
      BY <1>2, <1>3, <2>1, StillInStep
    <2>2. CASE disk' = disk /\ synced' = synced
      <3>1. Matches(disk)
        BY DEF CodeInv
      <3> QED  BY <1>2, <2>2, <3>1, StillInStep
    <2> QED  BY <1>3, <2>1, <2>2
  <1>4. CASE Unchanged
    BY <1>2, <1>3, <1>4 DEF Unchanged, CodeInv
  <1>5. ASSUME NEW st, NEW a, Change(c, st, a), ValidState(st) => Matches(st)
        PROVE  CodeInv'
    BY <1>3, <1>5 DEF Change, Store, StoreUnsynced, Unchanged
  <1>6. CASE ServePrepare(c)
    <2>1. CASE /\ CanGenerate(DeviceId, 1)
               /\ Change(c, PrepareResult(disk, c.body, Fresh(DeviceId), now),
                         Fresh(DeviceId))
      <3> DEFINE p == c.from
      <3>1. /\ pending[p] # None /\ Fields(p, c.body)
            /\ pending[p] \in Enrollment
        BY <1>1, <1>6 DEF ServePrepare, Asks, TypeOK
      <3>2. /\ c.body.kind \in Kind /\ c.body.authority \in Secret
            /\ c.body.credential \in Secret
            /\ c.body.newRecovery \in Secret \cup {NoSecret}
        BY <3>1 DEF Fields, Enrollment
      <3>3. Fresh(DeviceId) \in DeviceId
        BY <2>1, OneIsFresh
      <3>4. PICK st : st = PrepareResult(disk, c.body, Fresh(DeviceId), now)
        OBVIOUS
      <3>5. /\ st.recovery = disk.recovery
            /\ st.pending.kind = c.body.kind
            /\ st.pending.recovery = c.body.newRecovery
            /\ st.pending.hash = c.body.credential
        BY <1>1, <3>2, <3>3, <3>4, PrepareFields
      <3>6. Matches(st)
        BY <1>1, <3>1, <3>5 DEF Matches, CodeInv, Fields, Apart
      <3> QED  BY <1>5, <2>1, <3>4, <3>6
    <2> QED  BY <1>4, <1>6, <2>1 DEF ServePrepare
  <1>7. CASE ServeCommit(c)
    <2>1. CASE /\ CommitApplies(disk, c.body.credential, now)
               /\ Change(c, CommitResult(disk), disk.pending.id)
      <3> DEFINE p == c.from
      <3>1. PICK st : st = CommitResult(disk)
        OBVIOUS
      <3>2. /\ pending[p] # None /\ pending[p].backedUp
            /\ c.body.credential = pending[p].credential
        BY <1>1, <1>7 DEF ServeCommit, Asks
      <3>3. ASSUME ValidState(st)
            PROVE  Matches(st)
        <4>1. /\ disk.pending.hash = c.body.credential
              /\ st.pending = NoPending
              /\ st.recovery = IF disk.pending.kind = "recovery"
                               THEN disk.pending.recovery ELSE disk.recovery
          BY <1>1, <2>1, <3>1, <3>3, CommitFields
        <4>2. disk.pending # NoPending
          BY <2>1 DEF CommitApplies, PendingLive
        <4>3. /\ disk.recovery \in backups
              /\ disk.pending.recovery = pending[p].newRecovery
          BY <1>1, <3>2, <4>1, <4>2 DEF CodeInv, Matches
        <4>4. st.recovery # NoSecret
          BY <3>3 DEF ValidState
        <4>5. pending[p].newRecovery \in backups \cup {NoSecret}
          BY <1>1, <3>2 DEF Records
        <4> QED  BY <4>1, <4>3, <4>4, <4>5 DEF Matches
      <3> QED  BY <1>5, <2>1, <3>1, <3>3
    <2> QED  BY <1>4, <1>7, <2>1 DEF ServeCommit
  <1>8. CASE ServeRevoke(c)
    <2>1. CASE Change(c, RevokeResult(disk, c.body.id), c.body.id)
      <3>1. PICK st : st = RevokeResult(disk, c.body.id)
        OBVIOUS
      <3>2. /\ st.pending \in {NoPending, disk.pending}
            /\ st.recovery = disk.recovery
        BY <1>1, <3>1, RevokeFields
      <3>3. Matches(st)
        BY <3>2 DEF Matches, CodeInv
      <3> QED  BY <1>5, <2>1, <3>1, <3>3
    <2> QED  BY <1>4, <1>8, <2>1 DEF ServeRevoke
  <1>9. CASE ServeCancel(c)
    <2>1. CASE Change(c, CancelResult(disk), c.from)
      <3>1. PICK st : st = CancelResult(disk)
        OBVIOUS
      <3>2. st.pending = NoPending /\ st.recovery = disk.recovery
        BY <1>1, <3>1, CancelFields
      <3>3. Matches(st)
        BY <3>2 DEF Matches, CodeInv
      <3> QED  BY <1>5, <2>1, <3>1, <3>3
    <2> QED  BY <1>4, <1>9, <2>1 DEF ServeCancel
  <1> QED  BY <1>6, <1>7, <1>8, <1>9 DEF Serve

LEMMA PhoneCodes ==
  ASSUME PhoneInv, CodeInv, NEW p \in Phone,
         \/ \E code \in Secret : Begin(p, code)
         \/ ConfirmRecoveryBackup(p) \/ Sends(p) \/ GiveUp(p)
         \/ FinishPrepare(p) \/ FinishCommit(p)
         \/ FinishCancel(p) \/ FinishRevoke(p)
  PROVE  CodeInv'
  <1>1. TypeOK /\ Apart /\ Matches(disk)
    BY DEF PhoneInv, CodeInv
  <1>2. ASSUME issued \subseteq issued', backups \subseteq backups',
               UNCHANGED <<disk, synced>>, NEW e,
               pending' = pending \/ pending' = [pending EXCEPT ![p] = e],
               \/ e = None \/ e.credential \notin issued
               \/ /\ pending[p] # None /\ e.kind = pending[p].kind
                  /\ e.credential = pending[p].credential
                  /\ e.newRecovery = pending[p].newRecovery
        PROVE  CodeInv'
    <2>1. \A q \in Phone : pending'[q] # None =>
             \/ pending'[q].credential \notin issued
             \/ /\ pending[q] # None
                /\ pending'[q].kind = pending[q].kind
                /\ pending'[q].credential = pending[q].credential
                /\ pending'[q].newRecovery = pending[q].newRecovery
      BY <1>1, <1>2 DEF TypeOK
    <2> QED  BY <1>1, <1>2, <2>1, StillInStep
  <1>3. ASSUME NEW code \in Secret, Begin(p, code)
        PROVE  CodeInv'
    <2>1. PICK e \in Enrollment : Begun(p, code, e)
      BY <1>1, <1>3, BeginFields
    <2> QED  BY <1>2, <2>1 DEF Begun
  <1>4. CASE ConfirmRecoveryBackup(p)
    <2> DEFINE e == [pending[p] EXCEPT !.backedUp = TRUE]
    <2>1. /\ pending[p] # None /\ pending' = [pending EXCEPT ![p] = e]
          /\ UNCHANGED <<disk, synced, issued>> /\ backups \subseteq backups'
      BY <1>4 DEF ConfirmRecoveryBackup, registry
    <2>2. /\ e.kind = pending[p].kind /\ e.credential = pending[p].credential
          /\ e.newRecovery = pending[p].newRecovery
      BY <1>1, <2>1 DEF TypeOK, Enrollment
    <2> QED  BY <1>2, <2>1, <2>2
  <1>5. CASE FinishPrepare(p)
    <2> DEFINE e == [pending[p] EXCEPT !.prepared = task[p].answer]
    <2>1. /\ pending[p] # None /\ pending' = [pending EXCEPT ![p] = e]
          /\ UNCHANGED <<disk, synced, issued, backups>>
      BY <1>5 DEF FinishPrepare, Answered, Busy, registry, PhoneInv, Tasks
    <2>2. /\ e.kind = pending[p].kind /\ e.credential = pending[p].credential
          /\ e.newRecovery = pending[p].newRecovery
      BY <1>1, <2>1 DEF TypeOK, Enrollment
    <2> QED  BY <1>2, <2>1, <2>2
  <1>6. CASE Sends(p) \/ GiveUp(p)
    BY <1>2, <1>6 DEF Sends, SendPrepare, SendCommit, SendCancel, SendRevoke,
       Send, GiveUp, registry, keychain
  <1>7. CASE FinishCommit(p) \/ FinishCancel(p) \/ FinishRevoke(p)
    BY <1>2, <1>7 DEF FinishCommit, FinishCancel, FinishRevoke, registry
  <1> QED  BY <1>3, <1>4, <1>5, <1>6, <1>7

LEMMA NextCodes ==
  ASSUME PhoneInv, CodeInv, [Next]_vars
  PROVE  CodeInv'
  <1>1. CASE \/ \E c \in conns : DropConnection(c)
             \/ Reboot
             \/ \E t \in Clock : SetClock(t)
             \/ UNCHANGED vars
    <2>1. /\ UNCHANGED <<pending, backups, issued>> /\ Matches(disk)
          /\ disk' \in {disk, synced} /\ synced' \in {disk, synced}
      BY <1>1 DEF CodeInv, DropConnection, Reboot, SetClock, vars, registry,
                  keychain
    <2> QED  BY <2>1, StillInStep
  <1> QED  BY <1>1, Steps, ServedCodes, PhoneCodes

\* The recovery code in force is one the owner has been shown and has stored,
\* whatever is lost, repeated or undone by a loss of power.
THEOREM RecoveryIsStored == Spec => []OwnerHasRecoveryCode
  <1>1. Init => PhoneInv /\ CodeInv
    BY InitialPhones DEF Init, InitialRegistry, CodeInv, Matches
  <1>2. PhoneInv /\ CodeInv /\ [Next]_vars => PhoneInv' /\ CodeInv'
    BY NextPhones, NextCodes
  <1>3. CodeInv => OwnerHasRecoveryCode
    BY DEF CodeInv, Matches, OwnerHasRecoveryCode
  <1> QED  BY <1>1, <1>2, <1>3, PTL DEF Spec

-----------------------------------------------------------------------------
(* ModuleInv holds where every directory sync succeeds. *)

LEMMA InitialModule == Init => ModuleInv
  <1> SUFFICES ASSUME Init PROVE ModuleInv
    OBVIOUS
  <1>1. /\ now \in Clock /\ synced = disk /\ retired = {} /\ backups = {Recovery}
        /\ disk = [bootstrap |-> Bootstrap,
                   bootstrapExpires |-> now + BootstrapLifetime,
                   recovery |-> Recovery, generation |-> 1, devices |-> {},
                   pending |-> NoPending]
        /\ task = [p \in Phone |-> None] /\ active = [p \in Phone |-> None]
        /\ pending = [p \in Phone |-> None]
    BY DEF Init, InitialRegistry
  <1>2. /\ disk.bootstrap = Bootstrap /\ disk.recovery = Recovery
        /\ disk.generation = 1 /\ disk.devices = {} /\ disk.pending = NoPending
        /\ disk.bootstrapExpires > 0
    BY <1>1, LimitsAssumption, ProtocolAssumption DEF Clock
  <1>3. Hashes(disk) = {}
    BY <1>2 DEF Hashes
  <1>4. ValidState(disk)
    BY <1>2, <1>3, FS_EmptySet, LimitsAssumption, ProtocolAssumption,
       NoSecretAssumption DEF ValidState
  <1>5. Disk
    BY <1>1, <1>2, <1>4 DEF Disk
  <1>6. AuthorizedCredentialIsHeld /\ Offered
    BY <1>2, <1>3 DEF AuthorizedCredentialIsHeld, Offered
  <1>7. Retired
    BY <1>1 DEF Retired
  <1>8. Spent /\ Bindings /\ Answers
    BY <1>1 DEF Spent, Bindings, Answers, AnswerIsTrue, Answered, Busy
  <1> QED  BY <1>5, <1>6, <1>7, <1>8 DEF ModuleInv

\* Everything the module accepts has been generated, and what a phone of
\* another authority holds is not among it.
LEMMA Accepted ==
  ASSUME PhoneInv, ModuleInv
  PROVE  /\ Hashes(disk) \subseteq Secret \cap (issued \ Codes)
         /\ Valid(disk) \subseteq issued
         /\ \A q \in Phone : pending[q] # None =>
              /\ pending[q].credential \in Valid(disk) \cup retired =>
                   pending[q].authority \in retired
              /\ pending[q].newRecovery \in Valid(disk) \cup retired =>
                   pending[q].authority \in retired
  <1>1. TypeOK /\ Apart /\ Disk /\ AuthorizedCredentialIsHeld /\ Spent
    BY DEF PhoneInv, ModuleInv
  <1>2. Hashes(disk) \subseteq Secret
    BY <1>1, ValidAreSecrets DEF TypeOK
  <1>3. Hashes(disk) \subseteq issued \ Codes
    BY <1>1 DEF AuthorizedCredentialIsHeld, Holds, Apart
  <1>4. Valid(disk) \subseteq Hashes(disk) \cup {disk.recovery, Bootstrap}
        /\ NoSecret \notin Valid(disk)
    BY <1>1, <1>2, NoSecretAssumption DEF Valid, Disk
  <1>5. Valid(disk) \subseteq issued
    BY <1>1, <1>3, <1>4 DEF Disk, Apart, Codes
  <1>6. ASSUME NEW q \in Phone, pending[q] # None
        PROVE  /\ pending[q].credential \in Valid(disk) \cup retired =>
                    pending[q].authority \in retired
               /\ pending[q].newRecovery \in Valid(disk) \cup retired =>
                    pending[q].authority \in retired
    <2>1. pending[q].credential \notin {disk.recovery, Bootstrap}
      BY <1>1, <1>6 DEF Apart, Codes, Disk
    <2>2. pending[q].newRecovery # Bootstrap
      BY <1>1, <1>6, NoSecretAssumption, ProtocolAssumption DEF Apart
    <2>3. pending[q].newRecovery \notin Hashes(disk)
      BY <1>1, <1>6 DEF AuthorizedCredentialIsHeld, Holds, Apart
    <2> QED  BY <1>1, <1>4, <1>6, <2>1, <2>2, <2>3 DEF Spent
  <1> QED  BY <1>2, <1>3, <1>5, <1>6

\* Steps that leave the registry, the bindings and the secrets alone.
LEMMA QuietModule ==
  ASSUME PhoneInv, ModuleInv,
         UNCHANGED <<disk, synced, retired, active>>,
         issued \subseteq issued', backups \subseteq backups',
         \A q \in Phone :
           /\ (pending'[q] # None) <=> (pending[q] # None)
           /\ pending[q] # None =>
                /\ pending'[q].kind = pending[q].kind
                /\ pending'[q].authority = pending[q].authority
                /\ pending'[q].credential = pending[q].credential
                /\ pending'[q].newRecovery = pending[q].newRecovery
           /\ \/ task'[q] = task[q] \/ task'[q] = None
              \/ task'[q].op = "prepare" \/ task'[q].answer = None
  PROVE  ModuleInv'
  <1>1. /\ Disk /\ AuthorizedCredentialIsHeld /\ Retired /\ Offered /\ Spent
        /\ Bindings /\ Answers
    BY DEF ModuleInv
  <1>2. Disk'
    BY <1>1 DEF Disk, ValidState, ValidPending, Hashes, Ids
  <1>3. AuthorizedCredentialIsHeld'
    BY <1>1 DEF AuthorizedCredentialIsHeld, Holds, Hashes
  <1>4. Retired' /\ Bindings'
    BY <1>1 DEF Retired, Bindings, Bound, Valid, Hashes
  <1>5. Offered'
    BY <1>1 DEF Offered
  <1>6. Spent'
    BY <1>1 DEF Spent, Hashes
  <1>7. ASSUME NEW q \in Phone PROVE AnswerIsTrue(q)'
    <2>1. \A op \in {"commit", "cancel", "revoke"} :
            Answered(q, op)' => Answered(q, op) /\ task'[q] = task[q]
      BY DEF Answered, Busy
    <2>2. AnswerIsTrue(q)
      BY <1>1 DEF Answers
    <2>3. \A op \in {"commit", "cancel"} : 
            Answered(q, op) => pending[q] # None
      BY DEF PhoneInv, Tasks, Answered, Busy
    <2>4. \A x, id : Bound(x, id)' = Bound(x, id) /\ Gone(x)' = Gone(x)
      BY DEF Bound, Gone, Hashes
    <2> QED  BY <2>1, <2>2, <2>3, <2>4 DEF AnswerIsTrue
  <1> QED  BY <1>2, <1>3, <1>4, <1>5, <1>6, <1>7 DEF ModuleInv, Answers

LEMMA BeginModule ==
  ASSUME PhoneInv, ModuleInv, NEW p \in Phone, NEW code \in Secret, Begin(p, code)
  PROVE  ModuleInv'
  <1>1. /\ TypeOK /\ Apart
        /\ Disk /\ AuthorizedCredentialIsHeld /\ Retired /\ Offered /\ Spent
        /\ Bindings /\ Answers
    BY DEF PhoneInv, ModuleInv
  <1>2. PICK e \in Enrollment : Begun(p, code, e)
    BY <1>1, BeginFields
  <1>3. /\ e.credential \notin issued /\ e.newRecovery \notin issued \ {NoSecret}
        /\ issued \subseteq issued' /\ ~Busy(p) /\ pending[p] = None
        /\ UNCHANGED <<disk, synced, now, retired, active, backups, task>>
    BY <1>2 DEF Begun
  <1>4. /\ pending'[p] = e /\ e # None
        /\ \A q \in Phone \ {p} : pending'[q] = pending[q]
    BY <1>1, <1>2, NoneAssumption DEF TypeOK, Begun
  <1>5. Disk'
    BY <1>1, <1>3 DEF Disk, ValidState, ValidPending, Hashes, Ids
  <1>6. AuthorizedCredentialIsHeld'
    BY <1>1, <1>3, <1>4 DEF AuthorizedCredentialIsHeld, Holds, Hashes
  <1>7. Retired' /\ Bindings'
    BY <1>1, <1>3 DEF Retired, Bindings, Bound, Valid, Hashes
  <1>8. Offered'
    BY <1>1, <1>3, <1>4 DEF Offered
  <1>9. Spent'
    <2>1. e.credential \notin Hashes(disk) \cup retired
      BY <1>1, <1>3, Accepted DEF Retired
    <2>2. e.newRecovery \notin {disk.recovery} \cup retired
      <3>1. disk.recovery \in issued \cap Secret /\ retired \subseteq issued \cap Secret
        BY <1>1 DEF Disk, Apart, Codes, Retired, TypeOK
      <3> QED  BY <1>3, <3>1, NoSecretAssumption
    <2>3. Hashes(disk)' = Hashes(disk)
      BY <1>3 DEF Hashes
    <2> QED  BY <1>1, <1>3, <1>4, <2>1, <2>2, <2>3 DEF Spent
  <1>10. ASSUME NEW q \in Phone PROVE AnswerIsTrue(q)'
    <2>1. \A x, id : Bound(x, id)' = Bound(x, id) /\ Gone(x)' = Gone(x)
      BY <1>3 DEF Bound, Gone, Hashes
    <2>2. CASE q = p
      BY <1>3, <2>2 DEF AnswerIsTrue, Answered, Busy
    <2>3. CASE q # p
      BY <1>1, <1>3, <1>4, <2>1, <2>3 DEF AnswerIsTrue, Answers, Answered, Busy
    <2> QED  BY <2>2, <2>3
  <1> QED  BY <1>5, <1>6, <1>7, <1>8, <1>9, <1>10 DEF ModuleInv, Answers

\* The phone's record changes at the end of a task, to a binding m or to none.
LEMMA FinishedModule ==
  ASSUME PhoneInv, ModuleInv, NEW p \in Phone,
         task' = [task EXCEPT ![p] = None],
         pending' = [pending EXCEPT ![p] = None],
         NEW m \in Membership \cup {None},
         active' = [active EXCEPT ![p] = m],
         \A x \in Hashes(disk) :
           Holds(p, x) => m # None /\ m.credential = x,
         m # None => /\ Bound(m.credential, m.id)
                     /\ disk.pending # NoPending =>
                          disk.pending.hash # m.credential,
         UNCHANGED <<disk, synced, now, retired, backups, conns, issued>>
  PROVE  ModuleInv'
  <1>1. /\ TypeOK /\ Connections /\ Tasks /\ Apart
        /\ Disk /\ AuthorizedCredentialIsHeld /\ Retired /\ Offered /\ Spent
        /\ Bindings /\ Answers
    BY DEF PhoneInv, ModuleInv
  <1>2. /\ pending'[p] = None /\ active'[p] = m /\ task'[p] = None
        /\ \A q \in Phone \ {p} :
             /\ pending'[q] = pending[q] /\ active'[q] = active[q]
             /\ task'[q] = task[q]
    BY <1>1 DEF TypeOK, Tasks
  <1>3. /\ Hashes(disk)' = Hashes(disk)
        /\ \A x, id : Bound(x, id)' = Bound(x, id) /\ Gone(x)' = Gone(x)
    BY DEF Bound, Gone, Hashes
  <1>4. Disk' /\ Retired'
    BY <1>1 DEF Disk, ValidState, ValidPending, Hashes, Ids, Retired, Valid
  <1>5. AuthorizedCredentialIsHeld'
    <2> SUFFICES ASSUME NEW x \in Hashes(disk)
                 PROVE  \E q \in Phone : Holds(q, x)'
      BY <1>3 DEF AuthorizedCredentialIsHeld
    <2>1. PICK q \in Phone : Holds(q, x)
      BY <1>1 DEF AuthorizedCredentialIsHeld
    <2>2. Holds(q, x)'
      BY <1>2, <2>1 DEF Holds
    <2> QED  BY <2>2
  <1>6. Offered' /\ Spent'
    BY <1>1, <1>2, <1>3 DEF Offered, Spent
  <1>7. Bindings'
    BY <1>1, <1>2, <1>3 DEF Bindings
  <1>8. ASSUME NEW q \in Phone PROVE AnswerIsTrue(q)'
    <2>1. CASE q = p
      BY <1>2, <2>1 DEF AnswerIsTrue, Answered, Busy
    <2>2. CASE q # p
      BY <1>1, <1>2, <1>3, <2>2 DEF AnswerIsTrue, Answers, Answered, Busy
    <2> QED  BY <2>1, <2>2
  <1> QED  BY <1>4, <1>5, <1>6, <1>7, <1>8 DEF ModuleInv, Answers

LEMMA FinishesModule ==
  ASSUME PhoneInv, ModuleInv, NEW p \in Phone,
         FinishCommit(p) \/ FinishCancel(p) \/ FinishRevoke(p)
  PROVE  ModuleInv'
  <1>1. /\ Busy(p) /\ task[p].answer # None
        /\ task' = [task EXCEPT ![p] = None]
        /\ UNCHANGED <<disk, synced, now, retired, backups, conns, issued>>
    BY DEF FinishCommit, FinishCancel, FinishRevoke, Answered, registry
  <1>2. TypeOK /\ Tasks /\ Offered /\ Bindings /\ Answers /\ AnswerIsTrue(p)
    BY DEF PhoneInv, ModuleInv, Answers
  <1>3. ASSUME UNCHANGED <<active, pending>>
        PROVE  ModuleInv'
    BY <1>1, <1>2, <1>3, QuietModule DEF Tasks
  <1>4. CASE FinishCommit(p)
    <2>1. /\ Answered(p, "commit")
          /\ pending[p] # None /\ pending[p].prepared # None
      BY <1>2, <1>4 DEF FinishCommit, Answered, Tasks, Busy
    <2>2. CASE task[p].answer = pending[p].prepared
      <3> DEFINE m == [credential |-> pending[p].credential,
                       id |-> pending[p].prepared]
      <3>1. /\ m \in Membership /\ m.credential = pending[p].credential
            /\ m.id = task[p].answer
        BY <1>2, <2>1, <2>2 DEF TypeOK, Enrollment, Membership
      <3>2. active' = [active EXCEPT ![p] = m]
            /\ pending' = [pending EXCEPT ![p] = None]
        BY <1>4, <2>2 DEF FinishCommit
      <3> HIDE DEF m
      <3>3. m # None
        BY <3>1, NoneAssumption
      <3>4. \A x \in Hashes(disk) : Holds(p, x) => m.credential = x
        BY <1>2, <2>1, <3>1 DEF AnswerIsTrue, Gone, Holds
      <3>5. /\ Bound(m.credential, m.id)
            /\ disk.pending # NoPending => disk.pending.hash # m.credential
        BY <1>2, <2>1, <3>1 DEF AnswerIsTrue
      <3> QED  BY <1>1, <3>1, <3>2, <3>3, <3>4, <3>5, FinishedModule
    <2>3. CASE task[p].answer # pending[p].prepared
      BY <1>3, <1>4, <2>3 DEF FinishCommit
    <2> QED  BY <2>2, <2>3
  <1>5. CASE FinishCancel(p)
    <2>1. /\ pending' = [pending EXCEPT ![p] = None]
          /\ active[p] \in Membership \cup {None}
          /\ active' = [active EXCEPT ![p] = active[p]]
      BY <1>2, <1>5 DEF FinishCancel, TypeOK
    <2>2. \A x \in Hashes(disk) :
            Holds(p, x) => active[p] # None /\ active[p].credential = x
      BY <1>2, <1>5 DEF FinishCancel, AnswerIsTrue, Gone, Holds
    <2>3. active[p] # None =>
            /\ Bound(active[p].credential, active[p].id)
            /\ disk.pending # NoPending =>
                 disk.pending.hash # active[p].credential
      BY <1>2 DEF Bindings, Offered
    <2> QED  BY <1>1, <2>1, <2>2, <2>3, FinishedModule
  <1>6. CASE FinishRevoke(p)
    <2>1. CASE task[p].answer = active[p].id
      <3>1. /\ active' = [active EXCEPT ![p] = None]
            /\ pending' = [pending EXCEPT ![p] = None]
        BY <1>6, <2>1 DEF FinishRevoke
      <3>2. \A x \in Hashes(disk) : ~Holds(p, x)
        BY <1>2, <1>6, <2>1 DEF FinishRevoke, AnswerIsTrue, Gone, Holds
      <3> QED  BY <1>1, <3>1, <3>2, FinishedModule
    <2>2. CASE task[p].answer # active[p].id
      BY <1>3, <1>6, <2>2 DEF FinishRevoke
    <2> QED  BY <2>1, <2>2
  <1> QED  BY <1>4, <1>5, <1>6

\* A change that was stored, or an answer that needed none: c's phone may
\* learn a, and disk' with retired' is what the module works with from now on.
Stored(c, a) ==
    /\ Answer(c, a)
    /\ ValidState(disk') /\ synced' = disk'
    /\ retired' = retired \cup (Valid(disk) \ Valid(disk'))

\* What is bound stays bound or is retired, whatever is stored.
LEMMA BoundStays ==
  ASSUME PhoneInv, ModuleInv, NEW c, NEW a, Stored(c, a),
         disk'.bootstrap \in {Bootstrap, NoSecret}, disk'.recovery \in backups,
         NEW x \in Secret \ Codes, x \in Hashes(disk) \cup retired
  PROVE  x \in Hashes(disk') \cup retired'
  <1>1. x \notin {disk'.recovery, disk'.bootstrap}
    BY NoSecretAssumption DEF Codes
  <1> QED  BY <1>1 DEF Stored, Valid

\* The phone of c learned a, the others nothing.
LEMMA StoredAnswer ==
  ASSUME PhoneInv, NEW c \in conns, NEW a \in DeviceId \cup Phone \cup {None},
         c.op \in Op, Stored(c, a)
  PROVE  /\ c.from \in Phone /\ Asks(c)
         /\ UNCHANGED <<active, pending, backups>>
         /\ \A q \in Phone, op \in Op : Answered(q, op)' =>
              \/ q # c.from /\ Answered(q, op) /\ task'[q] = task[q]
              \/ /\ q = c.from /\ op = c.op /\ task'[q].answer = a
                 /\ Busy(q)
  <1>1. Answer(c, a) /\ c.from \in Phone /\ Asks(c)
    BY DEF Stored, PhoneInv, Connections
  <1>2. /\ \A q \in Phone \ {c.from} : task'[q] = task[q]
        /\ task'[c.from] \in {None, [op |-> c.op, answer |-> a]}
        /\ task'[c.from] # None => Busy(c.from)
        /\ UNCHANGED <<now, active, pending, backups>>
    BY <1>1, AnswerReachesTask
  <1>3. ASSUME NEW q \in Phone, NEW op \in Op, Answered(q, op)'
        PROVE  \/ q # c.from /\ Answered(q, op) /\ task'[q] = task[q]
               \/ /\ q = c.from /\ op = c.op /\ task'[q].answer = a
                  /\ Busy(q)
    <2>1. CASE q # c.from
      BY <1>2, <1>3, <2>1 DEF Answered, Busy
    <2>2. CASE q = c.from
      <3>1. task'[q] # None /\ task'[q].op = op
        BY <1>3 DEF Answered, Busy
      <3>2. task'[q] = [op |-> c.op, answer |-> a]
        BY <1>2, <2>2, <3>1
      <3> QED  BY <1>2, <2>2, <3>1, <3>2
    <2> QED  BY <2>1, <2>2
  <1> QED  BY <1>1, <1>2, <1>3

\* Revocations, cancellations and retries: nothing new is accepted.
LEMMA ShrunkModule ==
  ASSUME PhoneInv, ModuleInv, NEW c \in conns,
         NEW a \in DeviceId \cup Phone \cup {None}, c.op \in Op,
         Stored(c, a), issued' = issued,
         disk'.devices \subseteq disk.devices,
         disk'.pending \in {NoPending, disk.pending},
         disk'.bootstrap = disk.bootstrap, disk'.recovery = disk.recovery,
         Answered(c.from, c.op)' /\ task'[c.from].answer = a =>
           AnswerIsTrue(c.from)'
  PROVE  ModuleInv'
  <1>1. /\ TypeOK /\ Tasks /\ Apart
        /\ Disk /\ AuthorizedCredentialIsHeld /\ Retired /\ Offered /\ Spent
        /\ Bindings /\ Answers
    BY DEF PhoneInv, ModuleInv
  <1>2. /\ ValidState(disk') /\ synced' = disk'
        /\ retired' = retired \cup (Valid(disk) \ Valid(disk'))
    BY DEF Stored
  <1>3. /\ UNCHANGED <<active, pending, backups>>
        /\ \A q \in Phone, op \in Op : Answered(q, op)' =>
             \/ q # c.from /\ Answered(q, op) /\ task'[q] = task[q]
             \/ q = c.from /\ op = c.op /\ task'[q].answer = a
    BY StoredAnswer
  <1>4. Hashes(disk') \subseteq Hashes(disk) /\ Valid(disk') \subseteq Valid(disk)
    BY DEF Hashes, Valid
  <1>5. Disk'
    BY <1>1, <1>2, <1>3 DEF Disk, ValidState, ValidPending, Hashes, Ids
  <1>6. AuthorizedCredentialIsHeld'
    BY <1>1, <1>3, <1>4 DEF AuthorizedCredentialIsHeld, Holds, Hashes
  <1>7. Retired'
    <2>1. retired' \subseteq issued' /\ Valid(disk') \cap retired' = {}
      BY <1>1, <1>2, <1>4, Accepted DEF Retired
    <2> QED  BY <2>1 DEF Retired, Valid, Hashes
  <1>8. Offered'
    BY <1>1, <1>3 DEF Offered
  <1>9. Spent'
    <2>1. retired' \subseteq retired \cup Valid(disk) /\ retired \subseteq retired'
      BY <1>2
    <2>2. disk.recovery \in Valid(disk)
      BY <1>1, NoSecretAssumption DEF Valid, Disk, ValidState
    <2>3. ASSUME NEW q \in Phone, pending[q] # None
          PROVE  /\ pending[q].credential \in Hashes(disk') \cup retired' =>
                      pending[q].authority \in retired'
                 /\ pending[q].newRecovery \in {disk'.recovery} \cup retired' =>
                      pending[q].authority \in retired'
      <3>1. Hashes(disk) \subseteq Valid(disk)
        BY DEF Valid
      <3>2. /\ pending[q].credential \in Valid(disk) \cup retired =>
                 pending[q].authority \in retired
            /\ pending[q].newRecovery \in Valid(disk) \cup retired =>
                 pending[q].authority \in retired
        BY <2>3, Accepted
      <3> QED  BY <1>4, <2>1, <2>2, <3>1, <3>2
    <2> QED  BY <1>3, <2>3 DEF Spent, Hashes
  <1>10. \A x \in Secret \ Codes : \A id :
           Bound(x, id) => Bound(x, id)'
    <2> SUFFICES ASSUME NEW x \in Secret \ Codes, NEW id, Bound(x, id)
                 PROVE  Bound(x, id)'
      OBVIOUS
    <2>1. x \in Hashes(disk') \cup retired'
      BY <1>1, BoundStays DEF Bound, Disk
    <2> QED  BY <2>1 DEF Bound, Hashes
  <1>11. \A x : Gone(x) => Gone(x)'
    BY <1>4 DEF Gone, Hashes
  <1>12. \A q \in Phone :
           /\ active[q] # None => active[q].credential \in Secret \ Codes
           /\ pending[q] # None => pending[q].credential \in Secret \ Codes
    BY <1>1 DEF TypeOK, Membership, Enrollment, Apart
  <1>13. Bindings'
    BY <1>1, <1>3, <1>10, <1>12 DEF Bindings
  <1>14. ASSUME NEW q \in Phone PROVE AnswerIsTrue(q)'
    <2>1. CASE \E op \in Op : q = c.from /\ Answered(q, op)'
      <3>1. Answered(c.from, c.op)' /\ task'[c.from].answer = a
        BY <1>3, <2>1
      <3> QED  BY <2>1, <3>1
    <2>2. CASE q = c.from /\ ~\E op \in Op : Answered(q, op)'
      BY <2>2 DEF AnswerIsTrue, Op
    <2>3. CASE q # c.from
      <3>1. \A op \in Op : Answered(q, op)' => Answered(q, op) /\ task'[q] = task[q]
        BY <1>3, <2>3
      <3>2. AnswerIsTrue(q)
        BY <1>1 DEF Answers
      <3>3. \A op \in {"commit", "cancel"} : Answered(q, op) => pending[q] # None
        BY <1>1 DEF Tasks, Answered, Busy
      <3>4. PICK x, y, b : /\ x = pending[q].credential
                           /\ y = active[q].credential /\ b = task[q].answer
        OBVIOUS
      <3>5. CASE Answered(q, "commit")'
        <4>1. Answered(q, "commit") /\ task'[q] = task[q]
          BY <3>1, <3>5 DEF Op
        <4>2. /\ Bound(x, b) /\ x \in Secret \ Codes
              /\ disk.pending # NoPending => disk.pending.hash # x
              /\ active[q] # None => Gone(y) /\ y \in Secret \ Codes
          BY <1>12, <3>2, <3>3, <3>4, <4>1 DEF AnswerIsTrue
        <4>3. /\ Bound(x, b)' /\ task'[q].answer = b
              /\ disk'.pending # NoPending => disk'.pending.hash # x
              /\ active[q] # None => Gone(y)'
          BY <1>10, <1>11, <3>4, <4>1, <4>2
        <4>4. ~Answered(q, "cancel")' /\ ~Answered(q, "revoke")'
          BY <3>5 DEF Answered
        <4> QED  BY <1>3, <3>4, <4>3, <4>4 DEF AnswerIsTrue, Bound, Gone, Hashes
      <3>6. CASE Answered(q, "cancel")'
        <4>1. Gone(x)
          BY <3>1, <3>2, <3>4, <3>6 DEF AnswerIsTrue, Op
        <4>2. Gone(x)'
          BY <1>11, <4>1
        <4>3. ~Answered(q, "commit")' /\ ~Answered(q, "revoke")'
          BY <3>6 DEF Answered
        <4> QED  BY <1>3, <3>4, <4>2, <4>3 DEF AnswerIsTrue, Gone, Hashes
      <3>7. CASE Answered(q, "revoke")'
        <4>1. Answered(q, "revoke") /\ task'[q] = task[q]
          BY <3>1, <3>7 DEF Op
        <4>2. task[q].answer = active[q].id => Gone(y)' /\ pending[q] = None
          BY <1>11, <3>2, <3>4, <4>1 DEF AnswerIsTrue
        <4>3. ~Answered(q, "commit")' /\ ~Answered(q, "cancel")'
          BY <3>7 DEF Answered
        <4> QED  BY <1>3, <3>4, <4>1, <4>2, <4>3 DEF AnswerIsTrue, Gone, Hashes
      <3> QED  BY <3>5, <3>6, <3>7 DEF AnswerIsTrue
    <2> QED  BY <2>1, <2>2, <2>3
  <1> QED  BY <1>5, <1>6, <1>7, <1>8, <1>9, <1>13, <1>14 DEF ModuleInv, Answers

\* An error, or the answer to a repeated prepare, leaves everything alone.
LEMMA ToldModule ==
  ASSUME PhoneInv, ModuleInv, NEW c \in conns,
         NEW a \in DeviceId \cup Phone \cup {None}, c.op \in Op,
         Answer(c, a), Unchanged, issued \subseteq issued',
         a = None \/ c.op = "prepare"
  PROVE  ModuleInv'
  <1>1. /\ \A q \in Phone \ {c.from} : task'[q] = task[q]
        /\ task'[c.from] \in {None, [op |-> c.op, answer |-> a]}
        /\ UNCHANGED <<active, pending, backups>>
    BY AnswerReachesTask
  <1>2. \A q \in Phone :
          \/ task'[q] = task[q] \/ task'[q] = None
          \/ task'[q].op = "prepare" \/ task'[q].answer = None
    BY <1>1
  <1> QED  BY <1>1, <1>2, QuietModule DEF Unchanged

LEMMA NothingStored ==
  ASSUME ModuleInv, NEW c, NEW a, Answer(c, a), Unchanged
  PROVE  /\ Stored(c, a)
         /\ disk'.devices \subseteq disk.devices /\ disk'.pending = disk.pending
         /\ disk'.bootstrap = disk.bootstrap /\ disk'.recovery = disk.recovery
  <1>1. disk' = disk /\ synced' = synced /\ retired' = retired
    BY DEF Unchanged
  <1>2. ValidState(disk) /\ synced = disk
    BY DEF ModuleInv, Disk
  <1>3. ValidState(disk') /\ Valid(disk') = Valid(disk)
    BY <1>1, <1>2
  <1> QED  BY <1>1, <1>2, <1>3 DEF Stored

LEMMA ChangeStored ==
  ASSUME ~SyncCanFail, NEW c, NEW st, NEW a, Change(c, st, a)
  PROVE  \/ Stored(c, a) /\ disk' = st
         \/ Unchanged /\ Answer(c, None)
  BY DEF Change, Store, StoreUnsynced, Stored

LEMMA CancelledModule ==
  ASSUME ~SyncCanFail, PhoneInv, ModuleInv, NEW c \in conns, ServeCancel(c)
  PROVE  ModuleInv'
  <1> DEFINE x == c.body.credential
  <1>1. /\ TypeOK /\ c.from \in Phone /\ Asks(c) /\ c.op = "cancel" /\ c.op \in Op
        /\ UNCHANGED issued
    BY DEF PhoneInv, Connections, ServeCancel, Op
  <1>2. x = pending[c.from].credential
    BY <1>1 DEF Asks
  <1>3. ASSUME CancelAccepted(disk, x), Stored(c, c.from),
               disk'.pending = NoPending, disk'.devices = disk.devices,
               disk'.bootstrap = disk.bootstrap, disk'.recovery = disk.recovery
        PROVE  ModuleInv'
    <2>1. pending' = pending
      BY <1>1, <1>3, StoredAnswer
    <2>2. Gone(x)'
      BY <1>3 DEF Gone, CancelAccepted, Authorized, Hashes
    <2>3. Answered(c.from, c.op)' => AnswerIsTrue(c.from)'
      BY <1>1, <1>2, <2>1, <2>2 DEF AnswerIsTrue, Answered, Gone, Hashes
    <2> QED  BY <1>1, <1>3, <2>3, ShrunkModule
  <1>4. CASE /\ CancelAccepted(disk, x)
             /\ disk.pending = NoPending
             /\ Unchanged /\ Answer(c, c.from)
    <2>1. /\ Stored(c, c.from) /\ disk'.pending = NoPending
          /\ disk'.devices = disk.devices
          /\ disk'.bootstrap = disk.bootstrap /\ disk'.recovery = disk.recovery
      BY <1>4, NothingStored DEF Unchanged
    <2> QED  BY <1>3, <1>4, <2>1
  <1>5. CASE /\ CancelAccepted(disk, x)
             /\ Change(c, CancelResult(disk), c.from)
    <2>1. CASE Stored(c, c.from) /\ disk' = CancelResult(disk)
      <3>1. /\ disk'.pending = NoPending /\ disk'.devices = disk.devices
            /\ disk'.bootstrap = disk.bootstrap /\ disk'.recovery = disk.recovery
        BY <1>1, <2>1, CancelFields DEF TypeOK
      <3> QED  BY <1>3, <1>5, <2>1, <3>1
    <2>2. CASE Unchanged /\ Answer(c, None)
      BY <1>1, <2>2, ToldModule
    <2> QED  BY <1>5, <2>1, <2>2, ChangeStored
  <1>6. CASE Unchanged /\ Answer(c, None)
    BY <1>1, <1>6, ToldModule
  <1> QED  BY <1>4, <1>5, <1>6 DEF ServeCancel

LEMMA RevokedModule ==
  ASSUME ~SyncCanFail, PhoneInv, ModuleInv, NEW c \in conns, ServeRevoke(c)
  PROVE  ModuleInv'
  <1> DEFINE p == c.from
             x == c.body.credential
             id == c.body.id
  <1>1. /\ TypeOK /\ p \in Phone /\ Asks(c) /\ c.op = "revoke" /\ c.op \in Op
        /\ UNCHANGED issued
        /\ Disk /\ Offered /\ Bindings
    BY DEF PhoneInv, ModuleInv, Connections, ServeRevoke, Op
  <1>2. /\ active[p] # None /\ x = active[p].credential /\ id \in DeviceId
        /\ Busy(p) /\ id = active[p].id => pending[p] = None
    BY <1>1 DEF Asks
  <1>3. ASSUME Stored(c, id), id = active[p].id => x \notin Hashes(disk'),
               disk'.pending \in {NoPending, disk.pending},
               disk'.devices \subseteq disk.devices,
               disk'.bootstrap = disk.bootstrap, disk'.recovery = disk.recovery
        PROVE  ModuleInv'
    <2>1. UNCHANGED <<active, pending>>
      BY <1>1, <1>2, <1>3, StoredAnswer
    <2>2. \A q \in Phone, op \in Op : Answered(q, op)' =>
            q # p \/ Busy(p)
      BY <1>1, <1>2, <1>3, StoredAnswer
    <2>3. id = active[p].id => Gone(x)'
      BY <1>1, <1>2, <1>3 DEF Gone, Offered, Hashes
    <2>4. Answered(p, c.op)' /\ task'[p].answer = id => AnswerIsTrue(p)'
      <3> SUFFICES ASSUME Answered(p, c.op)', task'[p].answer = id
                   PROVE  AnswerIsTrue(p)'
        OBVIOUS
      <3>1. Busy(p)
        BY <1>1, <2>2
      <3>2. ~Answered(p, "commit")' /\ ~Answered(p, "cancel")'
        BY <1>1 DEF Answered
      <3>3. id = active[p].id => Gone(x)' /\ pending[p] = None
        BY <1>2, <2>3, <3>1
      <3>4. PICK y : y = x
        OBVIOUS
      <3>5. id = active[p].id => Gone(y)'
        BY <2>3, <3>4, <2>1, <1>2 DEF Gone, Hashes
      <3> QED  BY <1>2, <2>1, <3>2, <3>3, <3>4, <3>5 DEF AnswerIsTrue, Gone, Hashes
    <2> QED  BY <1>1, <1>2, <1>3, <2>4, ShrunkModule
  <1>4. CASE /\ RevokeApplies(disk, x, id)
             /\ Change(c, RevokeResult(disk, id), id)
    <2>1. CASE Stored(c, id) /\ disk' = RevokeResult(disk, id)
      <3>1. /\ disk'.devices = disk.devices \ {CHOOSE d \in disk.devices : d.id = id}
            /\ disk'.pending \in {NoPending, disk.pending}
            /\ disk'.bootstrap = disk.bootstrap /\ disk'.recovery = disk.recovery
        BY <1>1, <2>1, RevokeFields DEF TypeOK
      <3>2. (CHOOSE d \in disk.devices : d.id = id) \in disk.devices
        BY <1>4 DEF RevokeApplies, Ids
      <3>3. disk'.devices = {}
        BY <1>1, <3>1, <3>2 DEF Disk
      <3>4. x \notin Hashes(disk')
        BY <3>3 DEF Hashes
      <3> QED  BY <1>3, <2>1, <3>1, <3>4
    <2>2. CASE Unchanged /\ Answer(c, None)
      BY <1>1, <2>2, ToldModule
    <2> QED  BY <1>4, <2>1, <2>2, ChangeStored
  <1>5. CASE /\ Authorized(disk, x) /\ id \notin Ids(disk)
             /\ Unchanged /\ Answer(c, id)
    <2>1. /\ Stored(c, id) /\ disk'.devices \subseteq disk.devices
          /\ disk'.pending = disk.pending
          /\ disk'.bootstrap = disk.bootstrap /\ disk'.recovery = disk.recovery
      BY <1>5, NothingStored
    <2>2. id # active[p].id
      BY <1>1, <1>2, <1>5 DEF Authorized, Hashes, Ids, Bindings, Bound
    <2> QED  BY <1>3, <2>1, <2>2
  <1>6. CASE Unchanged /\ Answer(c, None)
    BY <1>1, <1>6, ToldModule
  <1> QED  BY <1>4, <1>5, <1>6 DEF ServeRevoke

\* A commit that is answered again: the phone was bound by an earlier one.
LEMMA CommittedAgain ==
  ASSUME PhoneInv, ModuleInv, NEW c \in conns, c.op = "commit",
         NEW a \in DeviceId, Unchanged, Answer(c, a), UNCHANGED issued,
         NEW d \in disk.devices, d.hash = c.body.credential, a = d.id
  PROVE  ModuleInv'
  <1> DEFINE p == c.from
  <1>1. /\ TypeOK /\ Apart /\ p \in Phone /\ Asks(c) /\ c.op \in Op
        /\ Disk /\ Offered /\ UNCHANGED <<disk, retired>>
    BY DEF PhoneInv, ModuleInv, Connections, Op, Unchanged
  <1>2. /\ Stored(c, a) /\ disk'.devices \subseteq disk.devices
        /\ disk'.pending = disk.pending
        /\ disk'.bootstrap = disk.bootstrap /\ disk'.recovery = disk.recovery
    BY NothingStored
  <1>3. UNCHANGED <<active, pending>>
    BY <1>1, <1>2, StoredAnswer
  <1>4. /\ pending[p] # None
        /\ c.body.credential = pending[p].credential
    BY <1>1 DEF Asks
  <1>5. Hashes(disk) = {pending[p].credential}
    BY <1>1, <1>4 DEF Disk, Hashes
  <1>6. Bound(pending[p].credential, a)
    BY <1>1, <1>4, <1>5 DEF Bound, Disk
  <1>7. disk.pending # NoPending => disk.pending.hash # pending[p].credential
    BY <1>1, <1>5 DEF Disk, ValidState, ValidPending
  <1>8. active[p] # None => Gone(active[p].credential)
    BY <1>1, <1>4, <1>5 DEF Gone, Apart, Offered
  <1>9. Answered(p, c.op)' /\ task'[p].answer = a => AnswerIsTrue(p)'
    <2> SUFFICES ASSUME Answered(p, c.op)', task'[p].answer = a
                 PROVE  AnswerIsTrue(p)'
      OBVIOUS
    <2>1. ~Answered(p, "revoke")' /\ ~Answered(p, "cancel")'
      BY DEF Answered
    <2> QED  BY <1>1, <1>3, <1>6, <1>7, <1>8, <2>1
             DEF AnswerIsTrue, Bound, Gone, Hashes
  <1> QED  BY <1>1, <1>2, <1>9, ShrunkModule

\* A new enrollment: what is offered is what one phone's record says.
LEMMA PreparedModule ==
  ASSUME PhoneInv, ModuleInv, NEW c \in conns, c.op = "prepare",
         NEW a \in DeviceId, NEW id \in DeviceId,
         Stored(c, a), disk' = PrepareResult(disk, c.body, id, now),
         issued \subseteq issued'
  PROVE  ModuleInv'
  <1> DEFINE p == c.from
  <1>1. /\ TypeOK /\ Tasks /\ Apart /\ p \in Phone /\ Asks(c) /\ c.op \in Op
        /\ Disk /\ AuthorizedCredentialIsHeld /\ Retired /\ Offered /\ Spent
        /\ Bindings /\ Answers
    BY DEF PhoneInv, ModuleInv, Connections, Op
  <1>2. pending[p] # None /\ Fields(p, c.body) /\ pending[p] \in Enrollment
    BY <1>1 DEF Asks, TypeOK
  <1>3. /\ disk'.pending # NoPending
        /\ disk'.bootstrap = disk.bootstrap /\ disk'.recovery = disk.recovery
        /\ disk'.devices = disk.devices
        /\ disk'.pending.kind = pending[p].kind
        /\ disk'.pending.authority = pending[p].authority
        /\ disk'.pending.recovery = pending[p].newRecovery
        /\ disk'.pending.hash = pending[p].credential
    <2>1. /\ c.body.kind \in Kind /\ c.body.authority \in Secret
          /\ c.body.credential \in Secret
          /\ c.body.newRecovery \in Secret \cup {NoSecret}
      BY <1>2 DEF Fields, Enrollment
    <2>2. disk \in Registry /\ now \in Clock
      BY <1>1 DEF TypeOK
    <2>3. /\ disk'.pending # NoPending
          /\ disk'.bootstrap = disk.bootstrap /\ disk'.recovery = disk.recovery
          /\ disk'.devices = disk.devices
          /\ disk'.pending.kind = c.body.kind
          /\ disk'.pending.authority = c.body.authority
          /\ disk'.pending.recovery = c.body.newRecovery
          /\ disk'.pending.hash = c.body.credential
      BY <2>1, <2>2, PrepareFields
    <2> QED  BY <1>2, <2>3 DEF Fields
  <1>4. /\ Hashes(disk') = Hashes(disk) /\ Valid(disk') = Valid(disk)
        /\ ValidState(disk') /\ synced' = disk' /\ retired' = retired
    BY <1>3 DEF Hashes, Valid, Stored
  <1>5. /\ UNCHANGED <<active, pending, backups>>
        /\ \A q \in Phone, op \in Op : Answered(q, op)' =>
             \/ q # p /\ Answered(q, op) /\ task'[q] = task[q]
             \/ q = p /\ op = c.op
    BY <1>1, StoredAnswer
  <1>6. Disk'
    BY <1>1, <1>3, <1>4, <1>5 DEF Disk, ValidState, ValidPending, Hashes, Ids
  <1>7. AuthorizedCredentialIsHeld'
    BY <1>1, <1>3, <1>5 DEF AuthorizedCredentialIsHeld, Holds, Hashes
  <1>8. Retired' /\ Bindings'
    BY <1>1, <1>3, <1>4, <1>5 DEF Retired, Bindings, Bound, Valid, Hashes
  <1>9. \A q \in Phone :
          /\ active[q] # None => active[q].credential # pending[p].credential
          /\ pending[q] # None /\ q # p =>
               pending[q].credential # pending[p].credential
    BY <1>1, <1>2 DEF Apart
  <1>10. Offered'
    BY <1>1, <1>2, <1>3, <1>5, <1>9 DEF Offered, Apart
  <1>11. Spent'
    BY <1>1, <1>3, <1>4, <1>5 DEF Spent, Hashes
  <1>12. ASSUME NEW q \in Phone PROVE AnswerIsTrue(q)'
    <2>1. CASE q = p
      <3>1. \A op \in Op : Answered(q, op)' => op = "prepare"
        BY <1>5, <2>1
      <3>2. /\ ~Answered(q, "commit")' /\ ~Answered(q, "cancel")'
            /\ ~Answered(q, "revoke")'
        BY <3>1 DEF Op
      <3> QED  BY <3>2 DEF AnswerIsTrue
    <2>2. CASE q # p
      <3>1. \A op \in Op : Answered(q, op)' => Answered(q, op) /\ task'[q] = task[q]
        BY <1>5, <2>2
      <3>2. /\ Answered(q, "commit")' => Answered(q, "commit") /\ task'[q] = task[q]
            /\ Answered(q, "cancel")' => Answered(q, "cancel")
            /\ Answered(q, "revoke")' => Answered(q, "revoke") /\ task'[q] = task[q]
        BY <3>1 DEF Op
      <3>3. AnswerIsTrue(q)
        BY <1>1 DEF Answers
      <3>4. /\ Answered(q, "commit") => pending[q] # None
            /\ Answered(q, "cancel") => pending[q] # None
            /\ Answered(q, "revoke") => active[q] # None
        BY <1>1 DEF Tasks, Answered, Busy
      <3> QED  BY <1>3, <1>4, <1>5, <1>9, <2>2, <3>2, <3>3, <3>4
               DEF AnswerIsTrue, Bound, Gone, Hashes
    <2> QED  BY <2>1, <2>2
  <1> QED  BY <1>6, <1>7, <1>8, <1>10, <1>11, <1>12 DEF ModuleInv, Answers

LEMMA ServedPrepareModule ==
  ASSUME ~SyncCanFail, PhoneInv, ModuleInv, NEW c \in conns, ServePrepare(c)
  PROVE  ModuleInv'
  <1>1. TypeOK /\ c.op = "prepare" /\ c.op \in Op
    BY DEF ServePrepare, Op, PhoneInv
  <1>2. CASE /\ PrepareRepeats(disk, c.body, now)
             /\ Unchanged /\ Answer(c, disk.pending.id)
             /\ UNCHANGED issued
    <2>1. disk.pending.id \in DeviceId
      BY <1>1, <1>2 DEF PrepareRepeats, PendingLive, TypeOK, Registry, Pending
    <2> QED  BY <1>1, <1>2, <2>1, ToldModule
  <1>3. CASE /\ CanGenerate(DeviceId, 1)
             /\ issued' = issued \cup {Fresh(DeviceId)}
             /\ Change(c, PrepareResult(disk, c.body, Fresh(DeviceId), now),
                       Fresh(DeviceId))
    <2>1. Fresh(DeviceId) \in DeviceId /\ issued \subseteq issued'
      BY <1>3, OneIsFresh
    <2>2. CASE /\ Stored(c, Fresh(DeviceId))
               /\ disk' = PrepareResult(disk, c.body, Fresh(DeviceId), now)
      BY <1>1, <2>1, <2>2, PreparedModule
    <2>3. CASE Unchanged /\ Answer(c, None)
      BY <1>1, <2>1, <2>3, ToldModule
    <2> QED  BY <1>3, <2>2, <2>3, ChangeStored
  <1>4. CASE Unchanged /\ Answer(c, None) /\ UNCHANGED issued
    BY <1>1, <1>4, ToldModule
  <1> QED  BY <1>2, <1>3, <1>4 DEF ServePrepare

\* The enrollment that is committed is its phone's: its authority was in force
\* until now, and neither its credential nor its code ever was.
LEMMA CommitsOnce ==
  ASSUME PhoneInv, ModuleInv, NEW c \in conns, c.op = "commit",
         disk.pending # NoPending, disk.pending.hash = c.body.credential
  PROVE  LET p == c.from
             b == disk.pending IN
         /\ p \in Phone /\ pending[p] # None
         /\ b.hash = pending[p].credential /\ b.authority = pending[p].authority
         /\ b.authority \in Valid(disk) \cap Codes
         /\ b.hash \notin Valid(disk) \cup retired \cup Codes
         /\ \/ /\ b.kind = "recovery" /\ b.authority = disk.recovery
               /\ b.recovery = pending[p].newRecovery
               /\ b.recovery \in backups
               /\ b.recovery \notin Valid(disk) \cup retired
            \/ /\ b.kind = "bootstrap" /\ b.authority = Bootstrap
               /\ disk.devices = {}
  <1> DEFINE p == c.from
             b == disk.pending
  <1>1. /\ TypeOK /\ Records /\ Apart /\ p \in Phone /\ Asks(c)
        /\ Disk /\ Retired /\ Offered /\ Spent
    BY DEF PhoneInv, ModuleInv, Connections
  <1>2. /\ pending[p] # None /\ b.hash = pending[p].credential
        /\ pending[p].backedUp
    BY <1>1 DEF Asks
  <1>3. /\ b.kind = pending[p].kind /\ b.authority = pending[p].authority
        /\ b.recovery = pending[p].newRecovery
    BY <1>1, <1>2 DEF Offered
  <1>4. ValidPending(disk) /\ disk.recovery \in Valid(disk)
    BY <1>1, NoSecretAssumption DEF Disk, ValidState, Valid
  <1>5. \/ /\ b.kind = "recovery" /\ b.authority = disk.recovery
           /\ b.authority \in Valid(disk) \cap Codes
           /\ b.recovery # NoSecret
        \/ /\ b.kind = "bootstrap" /\ b.authority = Bootstrap
           /\ b.authority \in Valid(disk) \cap Codes
           /\ disk.devices = {}
    <2>1. CASE pending[p].kind = "recovery"
      BY <1>1, <1>3, <1>4, <2>1 DEF ValidPending, Disk, Codes
    <2>2. CASE pending[p].kind = "bootstrap"
      <3>1. disk.bootstrap = Bootstrap /\ b.authority = Bootstrap
        BY <1>1, <1>2, <1>3, <1>4, <2>2, NoSecretAssumption, ProtocolAssumption
           DEF ValidPending, Disk, Records
      <3>2. Bootstrap # NoSecret
        BY NoSecretAssumption, ProtocolAssumption
      <3> QED  BY <1>1, <1>3, <2>2, <3>1, <3>2 DEF Disk, ValidState, Valid, Codes
    <2> QED  BY <1>1, <1>2, <2>1, <2>2 DEF Records
  <1>6. b.authority \notin retired
    BY <1>1, <1>5 DEF Retired
  <1>7. /\ b.hash \notin Valid(disk) \cup retired
        /\ b.recovery \notin Valid(disk) \cup retired
    BY <1>1, <1>2, <1>3, <1>6, Accepted
  <1>8. b.hash \notin Codes
    BY <1>1, <1>2 DEF Apart
  <1>9. b.recovery # NoSecret => b.recovery \in backups
    BY <1>1, <1>2, <1>3 DEF Records
  <1> QED  BY <1>1, <1>2, <1>3, <1>5, <1>7, <1>8, <1>9

LEMMA CommittedModule ==
  ASSUME PhoneInv, ModuleInv, NEW c \in conns, c.op = "commit",
         CommitApplies(disk, c.body.credential, now),
         Stored(c, disk.pending.id), disk' = CommitResult(disk),
         UNCHANGED issued
  PROVE  ModuleInv'
  <1> DEFINE p == c.from
             b == disk.pending
             x == b.hash
             new == [id |-> b.id, hash |-> x]
  <1>1. /\ TypeOK /\ Tasks /\ Apart /\ Asks(c) /\ c.op \in Op
        /\ Disk /\ AuthorizedCredentialIsHeld /\ Retired /\ Offered /\ Spent
        /\ Bindings /\ Answers
    BY DEF PhoneInv, ModuleInv, Connections, Op
  <1>2. b # NoPending /\ x = c.body.credential
    BY DEF CommitApplies, PendingLive
  <1>3. /\ p \in Phone /\ pending[p] # None
        /\ x = pending[p].credential /\ b.authority = pending[p].authority
        /\ b.authority \in Valid(disk) \cap Codes
        /\ x \notin Valid(disk) \cup retired \cup Codes
        /\ \/ /\ b.kind = "recovery" /\ b.authority = disk.recovery
              /\ b.recovery = pending[p].newRecovery
              /\ b.recovery \in backups
              /\ b.recovery \notin Valid(disk) \cup retired
           \/ /\ b.kind = "bootstrap" /\ b.authority = Bootstrap
              /\ disk.devices = {}
    BY <1>2, CommitsOnce
  <1>4. /\ b \in Pending
        /\ disk'.pending = NoPending /\ disk'.bootstrap = NoSecret
        /\ disk'.recovery = IF b.kind = "recovery" THEN b.recovery
                            ELSE disk.recovery
        /\ disk'.devices = IF b.kind = "recovery" THEN {new}
                           ELSE disk.devices \cup {new}
    BY <1>1, <1>2, CommitFields DEF TypeOK, Stored
  <1>5. disk'.devices = {new}
    BY <1>3, <1>4
  <1>6. new.hash = x /\ new.id = b.id /\ b.id \in DeviceId
    BY <1>4 DEF Pending
  <1> HIDE DEF new, x
  <1>7. Hashes(disk') = {x}
    BY <1>5, <1>6 DEF Hashes
  <1>8. disk.recovery \in Valid(disk) /\ disk'.recovery \in backups
    BY <1>1, <1>3, <1>4, NoSecretAssumption DEF Valid, Disk, ValidState
  <1>9. Valid(disk') = {x, disk'.recovery} /\ disk'.recovery # NoSecret
    BY <1>1, <1>4, <1>7, <1>8, NoSecretAssumption DEF Valid, TypeOK
  <1>10. /\ ValidState(disk') /\ synced' = disk'
         /\ retired' = retired \cup (Valid(disk) \ Valid(disk'))
    BY DEF Stored
  <1>11. /\ UNCHANGED <<active, pending, backups>>
         /\ \A q \in Phone, op \in Op : Answered(q, op)' =>
              \/ q # p /\ Answered(q, op) /\ task'[q] = task[q]
              \/ q = p /\ op = "commit" /\ task'[q].answer = b.id
    BY <1>1, <1>6, StoredAnswer
  <1>12. Disk'
    BY <1>1, <1>4, <1>5, <1>8, <1>10, <1>11 DEF Disk
  <1>13. AuthorizedCredentialIsHeld'
    BY <1>3, <1>5, <1>6, <1>11 DEF AuthorizedCredentialIsHeld, Holds, Hashes
  <1>14. Retired'
    <2>1. x \notin retired' /\ disk'.recovery \notin retired'
      BY <1>1, <1>3, <1>4, <1>8, <1>9, <1>10 DEF Retired
    <2>2. retired' \subseteq issued
      BY <1>1, <1>10, Accepted DEF Retired
    <2>3. Valid(disk') \cap retired' = {}
      BY <1>9, <2>1
    <2> QED  BY <2>2, <2>3 DEF Retired, Valid, Hashes
  <1>15. Offered'
    BY <1>4 DEF Offered
  <1>16. b.authority \in retired'
    BY <1>1, <1>3, <1>4, <1>8, <1>9, <1>10, ProtocolAssumption DEF Apart, Disk
  <1>17. \A q \in Phone \ {p} : pending[q] # None =>
           /\ pending[q].credential # x
           /\ pending[q].newRecovery = disk'.recovery =>
                pending[q].newRecovery = disk.recovery
    BY <1>1, <1>3, <1>4, <1>9 DEF Apart
  <1>18. Spent'
    <2>1. retired' \subseteq retired \cup Valid(disk) /\ retired \subseteq retired'
      BY <1>10
    <2>2. ASSUME NEW q \in Phone, pending[q] # None
          PROVE  /\ pending[q].credential \in {x} \cup retired' =>
                      pending[q].authority \in retired'
                 /\ pending[q].newRecovery \in {disk'.recovery} \cup retired' =>
                      pending[q].authority \in retired'
      <3>1. CASE q = p
        BY <1>3, <1>16, <3>1
      <3>2. CASE q # p
        <4>1. /\ pending[q].credential \in Valid(disk) \cup retired =>
                   pending[q].authority \in retired
              /\ pending[q].newRecovery \in Valid(disk) \cup retired =>
                   pending[q].authority \in retired
          BY <2>2, Accepted
        <4> QED  BY <1>8, <1>17, <2>1, <2>2, <3>2, <4>1
      <3> QED  BY <3>1, <3>2
    <2> QED  BY <1>7, <1>11, <2>2 DEF Spent, Hashes
  <1>19. \A y \in (Secret \ Codes) \ {x} : \A id :
           Bound(y, id) => y \in retired'
    <2> SUFFICES ASSUME NEW y \in (Secret \ Codes) \ {x}, NEW id, Bound(y, id)
                 PROVE  y \in retired'
      OBVIOUS
    <2>1. y \in Hashes(disk') \cup retired'
      BY <1>4, <1>8, BoundStays DEF Bound
    <2> QED  BY <1>7, <2>1
  <1>20. \A q \in Phone :
           /\ active[q] # None => active[q].credential \in (Secret \ Codes) \ {x}
           /\ pending[q] # None => pending[q].credential \in Secret \ Codes
    BY <1>1, <1>2 DEF TypeOK, Membership, Enrollment, Apart, Offered, x
  <1>21. Bindings'
    <2>1. \A q \in Phone : active[q] # None =>
            active[q].credential \in retired' /\ active[q].credential # new.hash
      BY <1>1, <1>6, <1>19, <1>20 DEF Bindings
    <2> QED  BY <1>5, <1>11, <2>1 DEF Bindings, Bound
  <1>22. ASSUME NEW q \in Phone PROVE AnswerIsTrue(q)'
    <2>1. /\ Answered(q, "commit")' =>
               \/ q # p /\ Answered(q, "commit") /\ task'[q] = task[q]
               \/ q = p /\ task'[q].answer = b.id
          /\ Answered(q, "cancel")' => q # p /\ Answered(q, "cancel")
          /\ Answered(q, "revoke")' =>
               q # p /\ Answered(q, "revoke") /\ task'[q] = task[q]
      BY <1>11 DEF Op
    <2>2. AnswerIsTrue(q)
      BY <1>1 DEF Answers
    <2>3. /\ Answered(q, "commit") => pending[q] # None
          /\ Answered(q, "cancel") => pending[q] # None
          /\ Answered(q, "revoke") => active[q] # None
      BY <1>1 DEF Tasks, Answered, Busy
    <2>4. active[q] # None => Gone(active[q].credential)'
      BY <1>4, <1>5, <1>6, <1>11, <1>20 DEF Gone, Hashes
    <2>5. Answered(q, "cancel")' => Gone(pending[q].credential)'
      BY <1>4, <1>5, <1>6, <1>11, <1>17, <2>1, <2>3 DEF Gone, Hashes
    <2>6. Answered(q, "commit")' => Bound(pending[q].credential, task[q].answer)'
      <3>1. CASE q = p /\ Answered(q, "commit")'
        BY <1>3, <1>5, <1>6, <1>11, <2>1, <3>1 DEF Bound, Hashes
      <3>2. CASE q # p /\ Answered(q, "commit")'
        <4>1. /\ Bound(pending[q].credential, task[q].answer)
              /\ pending[q].credential \in (Secret \ Codes) \ {x}
          BY <1>17, <1>20, <2>1, <2>2, <2>3, <3>2 DEF AnswerIsTrue
        <4>2. pending[q].credential \in retired'
          BY <1>19, <4>1
        <4> QED  BY <1>5, <1>6, <1>11, <4>1, <4>2 DEF Bound
      <3> QED  BY <3>1, <3>2
    <2>7. Answered(q, "revoke")' /\ task'[q].answer = active'[q].id =>
            active[q] # None /\ pending'[q] = None
      BY <1>11, <2>1, <2>2, <2>3 DEF AnswerIsTrue
    <2> QED  BY <1>4, <1>11, <2>4, <2>5, <2>6, <2>7 DEF AnswerIsTrue
  <1> QED  BY <1>12, <1>13, <1>14, <1>15, <1>18, <1>21, <1>22 DEF ModuleInv, Answers

LEMMA ServedCommitModule ==
  ASSUME ~SyncCanFail, PhoneInv, ModuleInv, NEW c \in conns, ServeCommit(c)
  PROVE  ModuleInv'
  <1> DEFINE x == c.body.credential
  <1>1. TypeOK /\ c.op = "commit" /\ c.op \in Op /\ UNCHANGED issued
    BY DEF ServeCommit, Op, PhoneInv
  <1>2. CASE /\ Authorized(disk, x)
             /\ Unchanged /\ Answer(c, DeviceOf(disk, x).id)
    <2> DEFINE d == DeviceOf(disk, x)
    <2>1. d \in disk.devices /\ d.hash = x
      BY <1>2 DEF Authorized, Hashes, DeviceOf
    <2>2. d.id \in DeviceId
      BY <1>1, <2>1 DEF TypeOK, Registry, Device
    <2> HIDE DEF d
    <2>3. Answer(c, d.id)
      BY <1>2 DEF d
    <2> QED  BY <1>1, <1>2, <2>1, <2>2, <2>3, CommittedAgain
  <1>3. CASE /\ CommitApplies(disk, x, now)
             /\ Change(c, CommitResult(disk), disk.pending.id)
    <2>1. CASE Stored(c, disk.pending.id) /\ disk' = CommitResult(disk)
      BY <1>1, <1>3, <2>1, CommittedModule
    <2>2. CASE Unchanged /\ Answer(c, None)
      BY <1>1, <2>2, ToldModule
    <2> QED  BY <1>3, <2>1, <2>2, ChangeStored
  <1>4. CASE Unchanged /\ Answer(c, None)
    BY <1>1, <1>4, ToldModule
  <1> QED  BY <1>2, <1>3, <1>4 DEF ServeCommit

\* Steps that change no record and no registry.
LEMMA IdleModule ==
  ASSUME PhoneInv, ModuleInv,
         \/ \E p \in Phone : ConfirmRecoveryBackup(p) \/ Sends(p) \/ GiveUp(p)
                               \/ FinishPrepare(p)
         \/ \E c \in conns : DropConnection(c)
         \/ Reboot
         \/ \E t \in Clock : SetClock(t)
         \/ UNCHANGED vars
  PROVE  ModuleInv'
  <1>1. TypeOK /\ Tasks /\ synced = disk
    BY DEF PhoneInv, ModuleInv, Disk
  <1>2. CASE \E p \in Phone : Sends(p) \/ GiveUp(p)
    <2>1. PICK p \in Phone : Sends(p) \/ GiveUp(p)
      BY <1>2
    <2>2. PICK t : /\ task' = [task EXCEPT ![p] = t]
                   /\ t = None \/ t.answer = None
                   /\ UNCHANGED <<registry, keychain, issued>>
      <3>1. CASE GiveUp(p)
        BY <3>1 DEF GiveUp
      <3>2. CASE Sends(p)
        <4>1. PICK r : Send(p, r)
          BY <3>2 DEF Sends, SendPrepare, SendCommit, SendCancel, SendRevoke
        <4>2. [op |-> r.op, answer |-> None].answer = None
          OBVIOUS
        <4> QED  BY <4>1, <4>2 DEF Send
      <3> QED  BY <2>1, <3>1, <3>2
    <2>3. \A q \in Phone : task'[q] = task[q] \/ task'[q] = None
                             \/ task'[q].answer = None
      BY <1>1, <2>2 DEF Tasks
    <2>4. UNCHANGED <<disk, synced, retired, active, pending, backups, issued>>
      BY <2>2 DEF registry, keychain
    <2> QED  BY <2>3, <2>4, QuietModule
  <1>3. ASSUME NEW p \in Phone, ConfirmRecoveryBackup(p)
        PROVE  ModuleInv'
    <2> DEFINE e == [pending[p] EXCEPT !.backedUp = TRUE]
    <2>1. /\ pending[p] # None /\ pending' = [pending EXCEPT ![p] = e]
          /\ backups \subseteq backups'
          /\ UNCHANGED <<disk, synced, retired, active, task, issued>>
      BY <1>3 DEF ConfirmRecoveryBackup, registry
    <2>2. /\ e \in Enrollment
          /\ e.kind = pending[p].kind /\ e.authority = pending[p].authority
          /\ e.credential = pending[p].credential
          /\ e.newRecovery = pending[p].newRecovery
      BY <1>1, <2>1 DEF TypeOK, Enrollment
    <2> HIDE DEF e
    <2>3. /\ pending'[p] = e /\ e # None
          /\ \A q \in Phone \ {p} : pending'[q] = pending[q]
      BY <1>1, <2>1, <2>2, NoneAssumption DEF TypeOK
    <2> QED  BY <2>1, <2>2, <2>3, QuietModule
  <1>4. ASSUME NEW p \in Phone, FinishPrepare(p)
        PROVE  ModuleInv'
    <2> DEFINE e == [pending[p] EXCEPT !.prepared = task[p].answer]
    <2>1. /\ pending[p] # None /\ pending' = [pending EXCEPT ![p] = e]
          /\ task[p].answer \in DeviceId
          /\ task' = [task EXCEPT ![p] = None]
          /\ UNCHANGED <<disk, synced, retired, active, backups, issued>>
      BY <1>1, <1>4 DEF FinishPrepare, Answered, Busy, Tasks, registry
    <2>2. /\ e \in Enrollment
          /\ e.kind = pending[p].kind /\ e.authority = pending[p].authority
          /\ e.credential = pending[p].credential
          /\ e.newRecovery = pending[p].newRecovery
      BY <1>1, <2>1 DEF TypeOK, Enrollment
    <2> HIDE DEF e
    <2>3. /\ pending'[p] = e /\ e # None
          /\ \A q \in Phone \ {p} : pending'[q] = pending[q]
      BY <1>1, <2>1, <2>2, NoneAssumption DEF TypeOK
    <2>4. \A q \in Phone : task'[q] = task[q] \/ task'[q] = None
      BY <1>1, <2>1 DEF Tasks
    <2> QED  BY <2>1, <2>2, <2>3, <2>4, QuietModule
  <1>5. CASE \/ \E c \in conns : DropConnection(c)
             \/ Reboot
             \/ \E t \in Clock : SetClock(t)
             \/ UNCHANGED vars
    <2>1. UNCHANGED <<disk, synced, retired, active, pending, backups, task, issued>>
      BY <1>1, <1>5 DEF DropConnection, Reboot, SetClock, vars, registry, keychain
    <2> QED  BY <2>1, QuietModule
  <1> QED  BY <1>2, <1>3, <1>4, <1>5

LEMMA NextModule ==
  ASSUME ~SyncCanFail, PhoneInv, ModuleInv, [Next]_vars
  PROVE  ModuleInv'
  BY Steps, ServedPrepareModule, ServedCommitModule, RevokedModule,
     CancelledModule, BeginModule, FinishesModule, IdleModule DEF Serve

\* Where directory syncs succeed, PhoneInv and ModuleInv hold in every state.
LEMMA Invariance == ~SyncCanFail => (Spec => [](PhoneInv /\ ModuleInv))
  <1> SUFFICES ASSUME ~SyncCanFail PROVE Spec => [](PhoneInv /\ ModuleInv)
    OBVIOUS
  <1>1. Init => PhoneInv /\ ModuleInv
    BY InitialPhones, InitialModule
  <1>2. PhoneInv /\ ModuleInv /\ [Next]_vars => PhoneInv' /\ ModuleInv'
    BY NextPhones, NextModule
  <1> QED  BY <1>1, <1>2, PTL DEF Spec

\* The module is never owned by a credential that no phone holds, whatever
\* requests and answers are lost and whenever apps are killed or power fails.
THEOREM CredentialsAreHeld ==
    ~SyncCanFail => (Spec => []AuthorizedCredentialIsHeld)
  <1>1. ModuleInv => AuthorizedCredentialIsHeld
    BY DEF ModuleInv
  <1> QED  BY <1>1, Invariance, PTL

\* What was revoked or replaced is never accepted again.
THEOREM RetiredIsNeverValid == ~SyncCanFail => (Spec => []RetiredStaysOut)
  <1>1. ModuleInv => RetiredStaysOut
    BY DEF ModuleInv, Retired, RetiredStaysOut
  <1> QED  BY <1>1, Invariance, PTL

\* A phone that was told it is bound is so on stable storage, until it is
\* revoked or replaced.
THEOREM BoundForGood == ~SyncCanFail => (Spec => []BoundSurvivesReboot)
  <1>1. ModuleInv => BoundSurvivesReboot
    BY DEF ModuleInv, Disk, Bindings, Bound, BoundSurvivesReboot
  <1> QED  BY <1>1, Invariance, PTL

=============================================================================
