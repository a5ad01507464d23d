------------------------- MODULE PairingStoreProofs -------------------------
(* Proofs about PairingStore, for any secrets, identifiers, limits and clock *)
(* readings: every change a caller is entitled to is one write() accepts,    *)
(* membership changes only as OnlyConfirmedGrants says, and the store        *)
(* implements AuthRegistry.                                                  *)
EXTENDS PairingStore, FiniteSetTheorems, TLAPS

\* What a registry file is at any time: of the right type, finite and valid.
Sound(st) == st \in Registry /\ IsFiniteSet(st.devices) /\ ValidState(st)

Inv ==
    /\ now \in Clock
    /\ disk # NoRegistry => Sound(disk)

-----------------------------------------------------------------------------
(* The outcome of each operation on a sound registry is a sound registry. *)

LEMMA ClockIsPositive == ASSUME NEW t \in Clock PROVE t \in Nat /\ t > 0
  BY BoundsAssumption DEF Clock

LEMMA InitialSound ==
  ASSUME NEW b \in Secret, NEW r \in Secret, NEW t \in Clock
  PROVE  Sound(InitialRegistry(b, r, t))
  <1> DEFINE st == InitialRegistry(b, r, t)
  <1>1. st \in Registry
    BY ClockIsPositive, LimitsAssumption DEF InitialRegistry, Registry
  <1>2. IsFiniteSet(st.devices) /\ Cardinality(st.devices) = 0
    BY FS_EmptySet DEF InitialRegistry
  <1>3. ValidState(st)
    BY <1>2, ClockIsPositive, LimitsAssumption, NoSecretAssumption
       DEF InitialRegistry, ValidState, Hashes
  <1> QED  BY <1>1, <1>2, <1>3 DEF Sound

LEMMA PrepareSound ==
  ASSUME NEW st, Sound(st),
         NEW req \in PrepareRequest, NEW id \in DeviceId \ Ids(st),
         NEW t \in Clock, PrepareStarts(st, req, t)
  PROVE  Sound(PrepareResult(st, req, id, t))
  <1> DEFINE p == [kind |-> req.kind, authority |-> req.authority,
                   recovery |-> req.newRecovery, id |-> id,
                   hash |-> req.credential, createdAt |-> t,
                   expiresAt |-> t + PendingLifetime]
             new == PrepareResult(st, req, id, t)
  <1>1. p \in Pending
    BY ClockIsPositive, LimitsAssumption DEF PrepareRequest, Pending
  <1>2. new = [st EXCEPT !.pending = p]
    BY DEF PrepareResult
  <1>3. new \in Registry
    BY <1>1, <1>2 DEF Sound, Registry
  <1>4. /\ new.pending = p
        /\ new.devices = st.devices /\ new.recovery = st.recovery
        /\ new.bootstrap = st.bootstrap
        /\ new.bootstrapExpires = st.bootstrapExpires
        /\ new.generation = st.generation
    BY <1>2 DEF Sound, Registry
  <1>5. Hashes(new) = Hashes(st) /\ Ids(new) = Ids(st)
    BY <1>4 DEF Hashes, Ids
  <1>6. ValidPending(new)
    <2>1. p.createdAt > 0 /\ p.expiresAt > p.createdAt
          /\ p.expiresAt - p.createdAt =< PendingLifetime
      BY ClockIsPositive, LimitsAssumption
    <2>2. PrepareAllowed(st, req, t)
      BY DEF PrepareStarts
    <2>3. p.hash \notin Hashes(st) \cup {st.recovery} /\ p.id \notin Ids(st)
      BY <2>2 DEF PrepareAllowed
    <2>4. \/ p.kind = "bootstrap" /\ p.authority = st.bootstrap
             /\ p.recovery = NoSecret
          \/ /\ p.kind = "recovery" /\ p.authority = st.recovery
             /\ p.recovery # NoSecret
             /\ p.recovery \notin Hashes(st) \cup {st.recovery, p.hash}
          \/ /\ p.kind = "add-device" /\ p.authority \in Hashes(st)
             /\ p.recovery = NoSecret
             /\ Cardinality(st.devices) < MaxDevices
      BY <2>2 DEF PrepareAllowed, AuthorityAllows, PrepareStarts, Authorized
    <2> QED  BY <1>4, <1>5, <2>1, <2>3, <2>4 DEF ValidPending
  <1>7. ValidState(new)
    BY <1>4, <1>5, <1>6 DEF Sound, ValidState
  <1> QED  BY <1>3, <1>4, <1>7 DEF Sound

LEMMA CancelSound ==
  ASSUME NEW st, Sound(st)
  PROVE  Sound(CancelResult(st))
  <1> DEFINE new == CancelResult(st)
  <1>1. new \in Registry
    BY DEF CancelResult, Sound, Registry
  <1>2. /\ new.pending = NoPending
        /\ new.devices = st.devices /\ new.recovery = st.recovery
        /\ new.bootstrap = st.bootstrap
        /\ new.bootstrapExpires = st.bootstrapExpires
        /\ new.generation = st.generation
    BY DEF CancelResult, Sound, Registry
  <1>3. ValidState(new)
    BY <1>2 DEF Sound, ValidState, Hashes
  <1> QED  BY <1>1, <1>2, <1>3 DEF Sound

LEMMA CommitSound ==
  ASSUME NEW st, Sound(st), NEW c, NEW t \in Clock, CommitApplies(st, c, t)
  PROVE  Sound(CommitResult(st))
  <1> DEFINE p == st.pending
             d == [id |-> p.id, hash |-> p.hash]
             new == CommitResult(st)
  <1>1. p \in Pending /\ ValidPending(st)
    BY DEF CommitApplies, PendingLive, Sound, Registry, ValidState
  <1>2. d \in Device
    BY <1>1 DEF Pending, Device
  <1>3. /\ new.bootstrap = NoSecret
        /\ new.generation = st.generation + 1
        /\ new.pending = NoPending
        /\ new.devices = IF p.kind = "recovery" THEN {d}
                         ELSE st.devices \cup {d}
        /\ new.recovery = IF p.kind = "recovery" THEN p.recovery
                          ELSE st.recovery
    BY DEF CommitResult
  <1>4. IsFiniteSet(new.devices) /\ Cardinality(new.devices) =< MaxDevices
    <2>1. /\ IsFiniteSet(st.devices)
          /\ Cardinality(st.devices) \in Nat
      BY FS_CardinalityType DEF Sound
    <2>2. IsFiniteSet({d}) /\ Cardinality({d}) = 1
      BY FS_Singleton
    <2>3. CASE p.kind = "recovery"
      <3> HIDE DEF new, d, p
      <3> QED  BY <1>3, <2>2, <2>3, LimitsAssumption
    <2>4. CASE p.kind = "bootstrap"
      <3>1. st.bootstrap # NoSecret
        BY <1>1, <2>4, NoSecretAssumption DEF ValidPending, Pending
      <3>2. st.devices = {}
        BY <3>1 DEF Sound, ValidState
      <3> HIDE DEF new, d, p
      <3>3. new.devices = {d}
        BY <1>3, <2>4, <3>2
      <3> QED  BY <2>2, <3>3, LimitsAssumption
    <2>5. CASE p.kind = "add-device"
      <3>1. Cardinality(st.devices) < MaxDevices
        BY <1>1, <2>5 DEF ValidPending
      <3> HIDE DEF new, d, p
      <3>2. /\ IsFiniteSet(st.devices \cup {d})
            /\ \/ Cardinality(st.devices \cup {d}) = Cardinality(st.devices)
               \/ Cardinality(st.devices \cup {d}) = Cardinality(st.devices) + 1
        BY <2>1, FS_AddElement
      <3> QED  BY <1>3, <2>1, <2>5, <3>1, <3>2, LimitsAssumption
    <2> QED  BY <1>1, <2>3, <2>4, <2>5 DEF Pending, Kind
  <1>5. new \in Registry
    <2>1. new.recovery \in Secret
      BY <1>1, <1>3, NoSecretAssumption DEF Sound, Registry, Pending, ValidPending
    <2>2. new.devices \in SUBSET Device
      BY <1>2, <1>3 DEF Sound, Registry
    <2> QED  BY <2>1, <2>2 DEF CommitResult, Registry, Sound
  <1>6. new.recovery \notin Hashes(new) \cup {NoSecret}
    <2>1. CASE p.kind = "recovery"
      BY <1>1, <1>3, <2>1 DEF ValidPending, Hashes
    <2>2. CASE p.kind # "recovery"
      BY <1>1, <1>3, <2>2 DEF ValidPending, Hashes, Sound, ValidState
    <2> QED  BY <2>1, <2>2
  <1>7. \A x, y \in new.devices : x.hash = y.hash \/ x.id = y.id => x = y
    BY <1>1, <1>3 DEF ValidPending, Hashes, Ids, Sound, ValidState
  <1>8. new.generation > 0
    BY <1>3 DEF Sound, Registry, ValidState
  <1>9. ValidState(new)
    BY <1>3, <1>4, <1>6, <1>7, <1>8 DEF ValidState
  <1> QED  BY <1>4, <1>5, <1>9 DEF Sound

LEMMA RevokeSound ==
  ASSUME NEW st, Sound(st), NEW c, NEW id \in DeviceId,
         RevokeApplies(st, c, id)
  PROVE  Sound(RevokeResult(st, id))
  <1> DEFINE removed == CHOOSE d \in st.devices : d.id = id
             orphan == st.pending # NoPending
                         /\ st.pending.authority = removed.hash
             new == RevokeResult(st, id)
  <1>1. removed \in st.devices /\ removed.id = id
    BY DEF RevokeApplies, Ids
  <1>2. /\ new.devices = st.devices \ {removed}
        /\ new.generation = st.generation + 1
        /\ new.pending = IF orphan THEN NoPending ELSE st.pending
        /\ new.recovery = st.recovery
        /\ new.bootstrap = st.bootstrap
        /\ new.bootstrapExpires = st.bootstrapExpires
    BY DEF RevokeResult, Sound, Registry
  <1>3. /\ IsFiniteSet(new.devices)
        /\ Cardinality(new.devices) < Cardinality(st.devices)
        /\ Cardinality(st.devices) \in Nat
        /\ Cardinality(new.devices) \in Nat
    <2>1. IsFiniteSet(st.devices)
      BY DEF Sound
    <2>2. Cardinality(st.devices) \in Nat
      BY <2>1, FS_CardinalityType
    <2>3. /\ IsFiniteSet(st.devices \ {removed})
          /\ Cardinality(st.devices \ {removed}) = Cardinality(st.devices) - 1
      BY <1>1, <2>1, FS_RemoveElement
    <2>4. Cardinality(st.devices \ {removed}) \in Nat
      BY <2>3, FS_CardinalityType
    <2> HIDE DEF removed, new
    <2> QED  BY <1>2, <2>2, <2>3, <2>4
  <1>4. new \in Registry
    <2> DEFINE pending == IF orphan THEN NoPending ELSE st.pending
               devices == st.devices \ {removed}
               generation == st.generation + 1
    <2>1. new = [[[st EXCEPT !.devices = devices]
                     EXCEPT !.generation = generation]
                     EXCEPT !.pending = pending]
      BY DEF RevokeResult
    <2>2. /\ devices \in SUBSET Device /\ generation \in Nat
          /\ pending \in Pending \cup {NoPending}
      BY DEF Sound, Registry
    <2>3. st \in Registry
      BY DEF Sound
    <2> HIDE DEF devices, generation, pending, new
    <2> QED  BY <2>1, <2>2, <2>3 DEF Registry
  <1>5. Hashes(new) \subseteq Hashes(st) /\ Ids(new) \subseteq Ids(st)
    BY <1>2 DEF Hashes, Ids
  <1>6. ASSUME new.pending # NoPending  PROVE ValidPending(new)
    <2>1. new.pending = st.pending /\ ~orphan /\ ValidPending(st)
      BY <1>2, <1>6 DEF Sound, ValidState
    <2>2. st.pending.authority \in Hashes(st) =>
            st.pending.authority \in Hashes(new)
      BY <1>2, <1>6, <2>1 DEF Hashes
    <2> QED
      BY <1>2, <1>3, <1>5, <2>1, <2>2, LimitsAssumption DEF ValidPending
  <1>7. ValidState(new)
    <2>1. Cardinality(new.devices) =< MaxDevices
      BY <1>3, LimitsAssumption DEF Sound, ValidState
    <2>2. new.generation > 0
      BY <1>2 DEF Sound, Registry, ValidState
    <2>3. \A x, y \in new.devices : x.hash = y.hash \/ x.id = y.id => x = y
      BY <1>2 DEF Sound, ValidState
    <2>4. new.bootstrap # NoSecret =>
            new.devices = {} /\ new.bootstrapExpires > 0
      BY <1>2 DEF Sound, ValidState
    <2>5. new.recovery \notin Hashes(new) \cup {NoSecret}
      BY <1>2, <1>5 DEF Sound, ValidState
    <2> QED  BY <1>6, <2>1, <2>2, <2>3, <2>4, <2>5 DEF ValidState
  <1> QED  BY <1>3, <1>4, <1>7 DEF Sound

-----------------------------------------------------------------------------
(* What commit and revocation do to the set of authorized credentials. *)

LEMMA CommitHashes ==
  ASSUME NEW st, Sound(st), NEW c, NEW t \in Clock, CommitApplies(st, c, t)
  PROVE  LET p == st.pending
             new == CommitResult(st)
         IN  /\ p \in Pending /\ ValidPending(st)
             /\ Hashes(new) = IF p.kind = "recovery" THEN {p.hash}
                              ELSE Hashes(st) \cup {p.hash}
             /\ new.recovery = IF p.kind = "recovery" THEN p.recovery
                               ELSE st.recovery
             /\ new.generation = st.generation + 1
             /\ new.bootstrap = NoSecret
  <1> DEFINE p == st.pending
             d == [id |-> p.id, hash |-> p.hash]
             new == CommitResult(st)
  <1>1. p \in Pending /\ ValidPending(st)
    BY DEF CommitApplies, PendingLive, Sound, Registry, ValidState
  <1>2. /\ new.devices = IF p.kind = "recovery" THEN {d}
                         ELSE st.devices \cup {d}
        /\ new.recovery = IF p.kind = "recovery" THEN p.recovery
                          ELSE st.recovery
        /\ new.generation = st.generation + 1
        /\ new.bootstrap = NoSecret
    BY DEF CommitResult
  <1>3. d.hash = p.hash
    OBVIOUS
  <1>4. Hashes(new) = IF p.kind = "recovery" THEN {p.hash}
                      ELSE Hashes(st) \cup {p.hash}
    <2> HIDE DEF new, d, p
    <2> QED  BY <1>2, <1>3 DEF Hashes
  <1> QED  BY <1>1, <1>2, <1>4

LEMMA RevokeHashes ==
  ASSUME NEW st, Sound(st), NEW c, NEW id \in DeviceId,
         RevokeApplies(st, c, id)
  PROVE  \E h \in Hashes(st) :
            /\ Hashes(RevokeResult(st, id)) = Hashes(st) \ {h}
            /\ RevokeResult(st, id).recovery = st.recovery
            /\ RevokeResult(st, id).bootstrap = st.bootstrap
            /\ RevokeResult(st, id).generation = st.generation + 1
  <1> DEFINE removed == CHOOSE d \in st.devices : d.id = id
             new == RevokeResult(st, id)
  <1>1. removed \in st.devices /\ removed.id = id
    BY DEF RevokeApplies, Ids
  <1>2. /\ new.devices = st.devices \ {removed}
        /\ new.recovery = st.recovery
        /\ new.bootstrap = st.bootstrap
        /\ new.generation = st.generation + 1
    BY DEF RevokeResult, Sound, Registry
  <1>3. \A x, y \in st.devices : x.hash = y.hash => x = y
    BY DEF Sound, ValidState
  <1> HIDE DEF removed, new
  <1>4. Hashes(new) = Hashes(st) \ {removed.hash}
    BY <1>1, <1>2, <1>3 DEF Hashes
  <1>5. removed.hash \in Hashes(st)
    BY <1>1 DEF Hashes
  <1>6. new = RevokeResult(st, id)
    BY DEF new
  <1> QED  BY <1>2, <1>4, <1>5, <1>6

\* The other operations leave membership alone.
LEMMA PrepareHashes ==
  ASSUME NEW st, Sound(st), NEW req, NEW id, NEW t
  PROVE  LET new == PrepareResult(st, req, id, t)
         IN  /\ Hashes(new) = Hashes(st) /\ new.recovery = st.recovery
             /\ new.bootstrap = st.bootstrap
             /\ new.generation = st.generation
  BY DEF PrepareResult, Hashes, Sound, Registry

LEMMA CancelHashes ==
  ASSUME NEW st, Sound(st)
  PROVE  LET new == CancelResult(st)
         IN  /\ Hashes(new) = Hashes(st) /\ new.recovery = st.recovery
             /\ new.bootstrap = st.bootstrap
             /\ new.generation = st.generation
  BY DEF CancelResult, Hashes, Sound, Registry

-----------------------------------------------------------------------------
(* Invariants *)

LEMMA SoundIsSomething == ASSUME NEW st, Sound(st) PROVE st # NoRegistry
  BY NothingAssumption DEF Sound

\* Every registry the store ever has on disk is sound: write() alone would
\* ensure validity, this shows that finiteness and types are kept as well.
THEOREM Invariance == Spec => []Inv
  <1>1. Init => Inv
    BY DEF Init, Inv
  <1>2. Inv /\ [Next]_vars => Inv'
    <2> SUFFICES ASSUME Inv, [Next]_vars  PROVE Inv'
      OBVIOUS
    <2>1. ASSUME NEW b \in Secret, NEW r \in Secret, Initialize(b, r)
          PROVE  Inv'
      BY <2>1, InitialSound DEF Initialize, Write, Inv
    <2>2. ASSUME NEW req \in PrepareRequest, NEW id \in DeviceId,
                 Prepare(req, id)
          PROVE  Inv'
      BY <2>2, PrepareSound DEF Prepare, Write, Inv
    <2>3. ASSUME NEW c \in Secret, Commit(c)  PROVE Inv'
      BY <2>3, CommitSound DEF Commit, Write, Inv
    <2>4. ASSUME NEW c \in Secret, Cancel(c)  PROVE Inv'
      BY <2>4, CancelSound DEF Cancel, Write, Inv
    <2>5. ASSUME NEW c \in Secret, NEW id \in DeviceId, Revoke(c, id)
          PROVE  Inv'
      BY <2>5, RevokeSound DEF Revoke, Write, Inv
    <2>6. ASSUME NEW t \in Clock, SetClock(t)  PROVE Inv'
      BY <2>6 DEF SetClock, Inv
    <2>7. CASE UNCHANGED vars
      BY <2>7 DEF Inv, vars
    <2> QED
      BY <2>1, <2>2, <2>3, <2>4, <2>5, <2>6, <2>7 DEF Next
  <1> QED  BY <1>1, <1>2, PTL DEF Spec

\* The file always has the type of a registry, and the clock is in range.
THEOREM TypeCorrect == Spec => []TypeOK
  <1>1. Inv => TypeOK
    BY DEF Inv, Sound, TypeOK
  <1> QED  BY <1>1, Invariance, PTL

\* No request that passes the checks of its handler is turned down by write().
THEOREM EntitledChanges == Spec => []EntitledChangesAreValid
  <1>1. Inv => EntitledChangesAreValid
    <2> SUFFICES ASSUME Inv, disk # NoRegistry
                 PROVE  EntitledChangesAreValid
      BY DEF EntitledChangesAreValid
    <2>1. Sound(disk) /\ now \in Clock
      BY DEF Inv
    <2>2. ASSUME NEW req \in PrepareRequest, NEW id \in DeviceId \ Ids(disk),
                 PrepareStarts(disk, req, now)
          PROVE  ValidState(PrepareResult(disk, req, id, now))
      BY <2>1, <2>2, PrepareSound DEF Sound
    <2>3. ASSUME NEW c \in Secret, CommitApplies(disk, c, now)
          PROVE  ValidState(CommitResult(disk))
      BY <2>1, <2>3, CommitSound DEF Sound
    <2>4. ASSUME NEW c \in Secret, NEW id \in DeviceId,
                 RevokeApplies(disk, c, id)
          PROVE  ValidState(RevokeResult(disk, id))
      BY <2>1, <2>4, RevokeSound DEF Sound
    <2>5. ValidState(CancelResult(disk))
      BY <2>1, CancelSound DEF Sound
    <2> QED  BY <2>2, <2>3, <2>4, <2>5 DEF EntitledChangesAreValid
  <1> QED  BY <1>1, Invariance, PTL

\* Authorization is granted and withdrawn only as MembershipChanges says.
THEOREM ConfirmedGrants == Spec => OnlyConfirmedGrants
  <1>1. Inv /\ [Next]_vars => [MembershipChanges]_vars
    <2> SUFFICES ASSUME Inv, Next, disk # NoRegistry,
                        Hashes(disk') # Hashes(disk)
                 PROVE  MembershipChanges
      BY DEF MembershipChanges
    <2>1. Sound(disk) /\ now \in Clock
      BY DEF Inv
    <2>2. ASSUME NEW b \in Secret, NEW r \in Secret, Initialize(b, r)
          PROVE  FALSE
      BY <2>2 DEF Initialize
    <2>3. ASSUME NEW req \in PrepareRequest, NEW id \in DeviceId,
                 Prepare(req, id)
          PROVE  FALSE
      BY <2>1, <2>3, PrepareHashes DEF Prepare, Write
    <2>4. ASSUME NEW c \in Secret, Commit(c)  PROVE MembershipChanges
      <3>1. CommitApplies(disk, c, now) /\ disk' = CommitResult(disk)
        BY <2>4 DEF Commit, Write
      <3> DEFINE p == disk.pending
      <3>2. /\ ValidPending(disk)
            /\ Hashes(disk') = IF p.kind = "recovery" THEN {p.hash}
                               ELSE Hashes(disk) \cup {p.hash}
            /\ disk'.recovery = IF p.kind = "recovery" THEN p.recovery
                                ELSE disk.recovery
            /\ disk'.generation = disk.generation + 1
        BY <2>1, <3>1, CommitHashes
      <3>3. p # NoPending /\ p.expiresAt > now
        BY <3>1 DEF CommitApplies, PendingLive
      <3>4. p.hash \notin Hashes(disk)
        BY <3>2 DEF ValidPending
      <3>5. p.kind = "recovery" => p.recovery # disk.recovery
        BY <3>2 DEF ValidPending
      <3>6. Hashes(disk') \ Hashes(disk) = {p.hash}
        BY <3>2, <3>4
      <3>7. p.kind # "recovery" => Hashes(disk) \ Hashes(disk') = {}
        BY <3>2
      <3>8. now < p.expiresAt
        BY <2>1, <3>3, <3>1, CommitHashes, ClockIsPositive DEF Pending
      <3> QED
        BY <3>2, <3>3, <3>5, <3>6, <3>7, <3>8 DEF MembershipChanges
    <2>5. ASSUME NEW c \in Secret, Cancel(c)  PROVE FALSE
      BY <2>1, <2>5, CancelHashes DEF Cancel, Write
    <2>6. ASSUME NEW c \in Secret, NEW id \in DeviceId, Revoke(c, id)
          PROVE  MembershipChanges
      <3>1. RevokeApplies(disk, c, id) /\ disk' = RevokeResult(disk, id)
        BY <2>6 DEF Revoke, Write
      <3>2. PICK h \in Hashes(disk) :
              /\ Hashes(disk') = Hashes(disk) \ {h}
              /\ disk'.recovery = disk.recovery
              /\ disk'.generation = disk.generation + 1
        BY <2>1, <3>1, RevokeHashes
      <3>3. Hashes(disk') \ Hashes(disk) = {}
        BY <3>2
      <3>4. Hashes(disk) \ Hashes(disk') = {h}
        BY <3>2
      <3>5. Cardinality(Hashes(disk) \ Hashes(disk')) = 1
        BY <3>4, FS_Singleton
      <3> QED  BY <3>2, <3>3, <3>5 DEF MembershipChanges
    <2>7. ASSUME NEW t \in Clock, SetClock(t)  PROVE FALSE
      BY <2>7 DEF SetClock
    <2> QED  BY <2>2, <2>3, <2>4, <2>5, <2>6, <2>7 DEF Next
  <1> QED  BY <1>1, Invariance, PTL DEF Spec, OnlyConfirmedGrants

-----------------------------------------------------------------------------
(* Refinement *)

LEMMA HashesBounded ==
  ASSUME NEW st, IsFiniteSet(st.devices)
  PROVE  /\ IsFiniteSet(Hashes(st))
         /\ Cardinality(Hashes(st)) =< Cardinality(st.devices)
  <1> DEFINE f == [d \in st.devices |-> d.hash]
  <1>1. f \in Surjection(st.devices, Hashes(st))
    BY DEF Surjection, Hashes
  <1> QED  BY <1>1, FS_Surjection

\* The store implements AuthRegistry: its files and pending enrollments are
\* one way to keep a set of members that changes as the abstract one may.
THEOREM Implementation == Spec => ImplementsAuthRegistry
  <1> DEFINE Step == /\ ~Created /\ Created' => Abs!Init'
                     /\ Created => Created' /\ [Abs!Next]_(Abs!vars)
  <1>1. Inv /\ [Next]_vars => [Step]_vars
    <2> SUFFICES ASSUME Inv, Next  PROVE Step
      OBVIOUS
    <2>1. now \in Clock /\ (Created => Sound(disk))
      BY DEF Inv, Created
    <2>2. ASSUME NEW b \in Secret, NEW r \in Secret, Initialize(b, r)
          PROVE  Step
      <3>1. /\ disk' = InitialRegistry(b, r, now) /\ ~Created
        BY <2>2 DEF Initialize, Write, Created
      <3>2. /\ Hashes(disk') = {} /\ disk'.recovery = r
            /\ disk'.bootstrap # NoSecret /\ disk'.generation = 1
        BY <3>1, NoSecretAssumption DEF InitialRegistry, Hashes
      <3>3. Abs!Init'
        BY <3>2 DEF Abs!Init
      <3> QED  BY <3>1, <3>3
    <2>3. ASSUME Created, Created', Sound(disk),
                 Hashes(disk') = Hashes(disk), disk'.recovery = disk.recovery,
                 disk'.bootstrap = disk.bootstrap,
                 disk'.generation = disk.generation
          PROVE  Step
      BY <2>3 DEF Abs!vars
    <2>4. ASSUME NEW req \in PrepareRequest, NEW id \in DeviceId,
                 Prepare(req, id)
          PROVE  Step
      <3>1. /\ Created /\ disk' = PrepareResult(disk, req, id, now)
            /\ PrepareStarts(disk, req, now) /\ id \notin Ids(disk)
        BY <2>4 DEF Prepare, Write, Created
      <3>2. Sound(disk) /\ Sound(disk')
        BY <2>1, <3>1, PrepareSound
      <3> QED  BY <2>3, <3>1, <3>2, PrepareHashes, SoundIsSomething DEF Created
    <2>5. ASSUME NEW c \in Secret, Cancel(c)  PROVE Step
      <3>1. Created /\ disk' = CancelResult(disk)
        BY <2>5 DEF Cancel, Write, Created
      <3>2. Sound(disk) /\ Sound(disk')
        BY <2>1, <3>1, CancelSound
      <3> QED  BY <2>3, <3>1, <3>2, CancelHashes, SoundIsSomething DEF Created
    <2>6. ASSUME NEW c \in Secret, Commit(c)  PROVE Step
      <3>1. /\ Created /\ CommitApplies(disk, c, now)
            /\ disk' = CommitResult(disk)
        BY <2>6 DEF Commit, Write, Created
      <3>2. Sound(disk) /\ Sound(disk')
        BY <2>1, <3>1, CommitSound
      <3> DEFINE p == disk.pending
      <3>3. /\ p \in Pending /\ ValidPending(disk)
            /\ Hashes(disk') = IF p.kind = "recovery" THEN {p.hash}
                               ELSE Hashes(disk) \cup {p.hash}
            /\ disk'.recovery = IF p.kind = "recovery" THEN p.recovery
                                ELSE disk.recovery
            /\ disk'.generation = disk.generation + 1
            /\ disk'.bootstrap = NoSecret
        BY <2>1, <3>1, <3>2, CommitHashes
      <3>4. Created'
        BY <3>2, SoundIsSomething DEF Created
      <3>5. p.hash \in Secret /\ p.hash \notin Hashes(disk) \cup {disk.recovery}
        BY <3>3 DEF Pending, ValidPending
      <3>6. CASE p.kind = "recovery"
        <4>1. /\ p.recovery \in Secret
              /\ p.recovery \notin Hashes(disk) \cup {disk.recovery, p.hash}
          BY <3>3, <3>6 DEF Pending, ValidPending
        <4>2. Abs!Recover(p.hash, p.recovery)
          BY <3>3, <3>5, <3>6, <4>1 DEF Abs!Recover
        <4> QED  BY <3>1, <3>4, <3>5, <4>1, <4>2 DEF Abs!Next
      <3>7. CASE p.kind = "bootstrap"
        <4>1. disk.bootstrap # NoSecret
          BY <3>3, <3>7, NoSecretAssumption DEF ValidPending, Pending
        <4>2. Hashes(disk) = {}
          BY <3>2, <4>1 DEF Sound, ValidState, Hashes
        <4>3. Abs!EnrollFirst(p.hash)
          BY <3>3, <3>5, <3>7, <4>1, <4>2 DEF Abs!EnrollFirst
        <4> QED  BY <3>1, <3>4, <3>5, <4>3 DEF Abs!Next
      <3>8. CASE p.kind = "add-device"
        <4>1. /\ p.authority \in Hashes(disk)
              /\ Cardinality(disk.devices) < MaxDevices
          BY <3>3, <3>8 DEF ValidPending
        <4>2. disk.bootstrap = NoSecret
          BY <3>2, <4>1 DEF Sound, ValidState, Hashes
        <4>3. /\ IsFiniteSet(disk.devices)
              /\ Cardinality(Hashes(disk)) =< Cardinality(disk.devices)
              /\ IsFiniteSet(Hashes(disk))
          BY <3>2, HashesBounded DEF Sound
        <4>4. Cardinality(Hashes(disk)) < MaxDevices
          BY <4>1, <4>3, FS_CardinalityType, LimitsAssumption
        <4>5. (disk'.bootstrap # NoSecret) = (disk.bootstrap # NoSecret)
          BY <3>3, <4>2
        <4>6. /\ Hashes(disk') = Hashes(disk) \cup {p.hash}
              /\ disk'.recovery = disk.recovery
              /\ disk'.generation = disk.generation + 1
          BY <3>3, <3>8
        <4> HIDE DEF p
        <4>7. Abs!Cardinality(Hashes(disk)) = Cardinality(Hashes(disk))
          BY DEF Cardinality, Abs!Cardinality
        <4>8. Abs!Enroll(p.hash)
          BY <3>5, <4>1, <4>4, <4>5, <4>6, <4>7 DEF Abs!Enroll
        <4> QED  BY <3>1, <3>4, <3>5, <4>8 DEF Abs!Next
      <3> QED  BY <3>3, <3>6, <3>7, <3>8 DEF Pending, Kind
    <2>7. ASSUME NEW c \in Secret, NEW id \in DeviceId, Revoke(c, id)
          PROVE  Step
      <3>1. /\ Created /\ RevokeApplies(disk, c, id)
            /\ disk' = RevokeResult(disk, id)
        BY <2>7 DEF Revoke, Write, Created
      <3>2. Sound(disk) /\ Sound(disk')
        BY <2>1, <3>1, RevokeSound
      <3>3. PICK h \in Hashes(disk) :
              /\ Hashes(disk') = Hashes(disk) \ {h}
              /\ disk'.recovery = disk.recovery
              /\ disk'.bootstrap = disk.bootstrap
              /\ disk'.generation = disk.generation + 1
        BY <3>1, <3>2, RevokeHashes
      <3>4. h \in Secret
        BY <3>2 DEF Hashes, Sound, Registry, Device
      <3>5. Abs!Remove(h)
        BY <3>3 DEF Abs!Remove
      <3> QED  BY <3>1, <3>2, <3>4, <3>5, SoundIsSomething DEF Created, Abs!Next
    <2>8. ASSUME NEW t \in Clock, SetClock(t)  PROVE Step
      BY <2>8 DEF SetClock, Created, Abs!vars
    <2> QED  BY <2>2, <2>4, <2>5, <2>6, <2>7, <2>8 DEF Next
  <1> QED  BY <1>1, Invariance, PTL DEF Spec, ImplementsAuthRegistry
=============================================================================
