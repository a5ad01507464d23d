-------------------------- MODULE ApduArbiterProofs --------------------------
(* Proofs about ApduArbiter for any number of tickets, classes, channels and *)
(* limits: the sharing of the card by leases, the exclusion by barriers, the *)
(* order in which waiters are served and what a watchdog may take.           *)
EXTENDS ApduArbiter, FiniteSetTheorems, TLAPS

\* Only a barrier blocks classes (normalizeRequest clears the list of others).
OnlyBarriersBlock ==
    \A t \in Queued \cup active : req[t].type # "barrier" => req[t].blocked = {}

Inv ==
    /\ TypeOK
    /\ OnlyBarriersBlock
    /\ LeasesAreCompatible
    /\ BarrierExcludesBlocked

-----------------------------------------------------------------------------
LEMMA NormalizeType ==
  ASSUME NEW raw \in RawRequest
  PROVE  /\ Normalize(raw) \in Request
         /\ Normalize(raw) # NoRequest
         /\ Normalize(raw).type # "barrier" => Normalize(raw).blocked = {}
  <1>1. raw \in [type : LeaseType, class : Class \cup {NoClass},
                 channel : Channel \cup {0}, scope : Scope,
                 blocked : SUBSET Class]
    BY RequestAssumption
  <1>2. /\ Normalize(raw).type = raw.type
        /\ Normalize(raw).channel = raw.channel
        /\ Normalize(raw).scope \in Scope
        /\ Normalize(raw).blocked \in SUBSET Class
        /\ raw.type # "barrier" => Normalize(raw).blocked = {}
    BY <1>1, ArbiterAssumption DEF Normalize, Blocked, Scope
  <1>3. Normalize(raw).class \in Class
    BY <1>1, ArbiterAssumption DEF Normalize
  <1>4. Normalize(raw) \in Request
    BY <1>1, <1>2, <1>3 DEF Normalize, Request
  <1> QED  BY <1>2, <1>4, NoRequestAssumption

\* What TypeOK says of a ticket that is queued or holds a lease.
LEMMA RequestOf ==
  ASSUME TypeOK, NEW t \in Queued \cup active
  PROVE  req[t] \in Request
  BY DEF TypeOK, Queued

LEMMA TicketsFinite ==
  ASSUME NEW S \in SUBSET Ticket
  PROVE  IsFiniteSet(S) /\ Cardinality(S) \in Nat
  BY FS_Subset, FS_CardinalityType, ArbiterAssumption

-----------------------------------------------------------------------------
(* Types *)

LEMMA TypeInit == Init => TypeOK
  BY DEF Init, TypeOK, State, Queued, Leases, Active

LEMMA TypeEnqueue ==
  ASSUME TypeOK, NEW t \in Ticket, NEW raw \in RawRequest, Enqueue(t, raw)
  PROVE  TypeOK'
  <1>1. t \notin Queued \cup active
    BY DEF TypeOK, Queued, Enqueue
  <1>2. state' \in [Ticket -> State]
    BY DEF TypeOK, Enqueue, Signalled, State
  <1>3. \A u \in Ticket \ {t} : req'[u] = req[u]
    BY DEF TypeOK, Enqueue
  <1>4. req'[t] = Normalize(raw) /\ req' \in [Ticket -> Request \cup {NoRequest}]
    BY NormalizeType DEF TypeOK, Enqueue
  <1>5. Queued' = Queued \cup {t} /\ active' = active
    BY DEF TypeOK, Enqueue, Queued, Signalled, State
  <1>6. ASSUME NEW u \in (Queued \cup active)'  PROVE req'[u] # NoRequest
    <2>1. CASE u = t
      BY <1>4, <2>1, NormalizeType
    <2>2. CASE u # t
      <3>1. u \in Queued \cup active /\ u \in Ticket
        BY <1>5, <2>2 DEF Queued, TypeOK
      <3> QED  BY <1>3, <2>2, <3>1 DEF TypeOK
    <2> QED  BY <2>1, <2>2
  <1>7. place' \in [Ticket -> Nat]
    <2>1. Cardinality(Queued) + 1 \in Nat
      BY TicketsFinite DEF Queued
    <2> QED  BY <2>1 DEF TypeOK, Enqueue
  <1>8. active' \subseteq {u \in Ticket : state'[u] = "using"}
    BY <1>1, <1>5 DEF TypeOK, Enqueue, Signalled
  <1>9. Leases' = Leases
    BY <1>1, <1>3, <1>5 DEF TypeOK, Leases, Active
  <1> QED
    BY <1>2, <1>4, <1>6, <1>7, <1>8, <1>9 DEF TypeOK, Enqueue

LEMMA DequeueType ==
  ASSUME TypeOK, NEW t \in Ticket, Dequeue(t)
  PROVE  place' \in [Ticket -> Nat] /\ aged' \subseteq Ticket
  BY DEF TypeOK, Dequeue

\* A step that leaves the queue to fewer tickets and takes leases back.
LEMMA TypeShrink ==
  ASSUME TypeOK, place' \in [Ticket -> Nat], aged' \subseteq Ticket,
         state' \in [Ticket -> State],
         req' \in [Ticket -> Request \cup {NoRequest}],
         Queued' \subseteq Queued, active' \subseteq active,
         \A u \in Queued' \cup active' : req'[u] = req[u],
         \A u \in active' : state'[u] = "using",
         overdue' \subseteq overdue \cap active',
         fired' \subseteq fired \cap active'
  PROVE  TypeOK'
  <1>1. \A u \in active' : u \in Leases => u \in Leases'
    BY DEF Leases, Active
  <1>2. overdue' \subseteq Leases' /\ fired' \subseteq Leases'
    BY <1>1 DEF TypeOK
  <1>3. \A u \in (Queued \cup active)' : req'[u] # NoRequest
    BY DEF TypeOK
  <1>4. active' \subseteq {u \in Ticket : state'[u] = "using"}
    BY DEF TypeOK
  <1> QED  BY <1>2, <1>3, <1>4 DEF TypeOK

LEMMA TypeAcquire ==
  ASSUME TypeOK, NEW t \in Ticket, Acquire(t)
  PROVE  TypeOK'
  <1>1. t \in Queued /\ t \notin active
    BY DEF TypeOK, Acquire, Queued
  <1>2. state' \in [Ticket -> State]
    BY DEF TypeOK, Acquire, Signalled, State
  <1>3. Queued' = Queued \ {t} /\ req' = req
    BY DEF TypeOK, Acquire, Queued, Signalled
  <1>4. \A u \in (Queued \cup active)' : req'[u] # NoRequest
    BY <1>1, <1>3 DEF TypeOK, Acquire
  <1>5. active' \subseteq {u \in Ticket : state'[u] = "using"}
    BY DEF TypeOK, Acquire, Signalled
  <1>6. Leases \subseteq Leases'
    BY <1>1, <1>3 DEF Leases, Active, Acquire
  <1>7. place' \in [Ticket -> Nat] /\ aged' \subseteq Ticket
    BY DequeueType DEF Acquire
  <1> QED
    BY <1>2, <1>3, <1>4, <1>5, <1>6, <1>7 DEF TypeOK, Acquire

LEMMA TypeSleep ==
  ASSUME TypeOK, NEW t \in Ticket, Sleep(t)
  PROVE  TypeOK'
  <1>1. Queued' = Queued
    BY DEF TypeOK, Sleep, Queued
  <1>2. Leases' = Leases
    BY DEF Sleep, Leases, Active
  <1> QED  BY <1>1, <1>2 DEF TypeOK, Sleep, State

LEMMA TypeAbandon ==
  ASSUME TypeOK, NEW t \in Ticket, Abandon(t)
  PROVE  TypeOK'
  <1>1. t \notin active
    BY DEF TypeOK, Abandon
  <1>2. state' \in [Ticket -> State]
    BY DEF TypeOK, Abandon, Signalled, State
  <1>3. Queued' = Queued \ {t}
    BY DEF TypeOK, Abandon, Queued, Signalled
  <1>4. /\ req' \in [Ticket -> Request \cup {NoRequest}]
        /\ \A u \in Queued' \cup active' : req'[u] = req[u]
    BY <1>1, <1>3 DEF TypeOK, Abandon, Queued
  <1>5. \A u \in active' : state'[u] = "using"
    BY <1>1 DEF TypeOK, Abandon, Signalled
  <1>6. overdue' \subseteq overdue \cap active' /\ fired' \subseteq fired \cap active'
    BY DEF TypeOK, Abandon, Leases
  <1>7. place' \in [Ticket -> Nat] /\ aged' \subseteq Ticket
    BY DequeueType DEF Abandon
  <1>8. active' \subseteq active
    BY DEF Abandon
  <1> QED  BY <1>2, <1>3, <1>4, <1>5, <1>6, <1>7, <1>8, TypeShrink

LEMMA TypeRelease ==
  ASSUME TypeOK, NEW t \in Ticket, Release(t)
  PROVE  TypeOK'
  <1>1. t \notin Queued
    BY DEF TypeOK, Release, Queued
  <1>2. state' \in [Ticket -> State]
    BY DEF TypeOK, Release, Signalled, State
  <1>3. Queued' = Queued
    BY DEF TypeOK, Release, Queued, Signalled
  <1>4. active' = active \ {t}
    BY DEF Release, Forget
  <1>5. /\ req' \in [Ticket -> Request \cup {NoRequest}]
        /\ \A u \in Queued' \cup active' : req'[u] = req[u]
    BY <1>1, <1>3, <1>4 DEF TypeOK, Release, Queued
  <1>6. \A u \in active' : state'[u] = "using"
    BY <1>4 DEF TypeOK, Release, Signalled
  <1>7. overdue' \subseteq overdue \cap active' /\ fired' \subseteq fired \cap active'
    BY <1>4 DEF TypeOK, Release, Forget, Leases
  <1> QED  BY <1>2, <1>3, <1>4, <1>5, <1>6, <1>7, TypeShrink DEF TypeOK, Release

LEMMA TypeExpire ==
  ASSUME TypeOK, NEW t \in Ticket, Expire(t)
  PROVE  TypeOK'
  <1>1. state' \in [Ticket -> State] /\ Queued' = Queued
    BY DEF TypeOK, Expire, Signalled, State, Queued
  <1>2. active' \subseteq active
    BY DEF Expire, Forget
  <1>3. \A u \in active' : state'[u] = "using"
    BY <1>2 DEF TypeOK, Expire, Signalled
  <1>4. overdue' \subseteq overdue \cap active' /\ fired' \subseteq fired \cap active'
    BY DEF TypeOK, Expire, Forget, Leases
  <1> QED  BY <1>1, <1>2, <1>3, <1>4, TypeShrink DEF TypeOK, Expire

\* Touches and time change marks only.
LEMMA TypeMarks ==
  ASSUME TypeOK, NEW t \in Ticket,
         Touch(t) \/ Age(t) \/ Overstay(t) \/ FireTimer(t)
  PROVE  TypeOK' /\ UNCHANGED <<state, req, place, active>>
  <1>1. UNCHANGED <<state, req, place, active>>
    BY DEF Touch, Age, Overstay, FireTimer
  <1>2. Queued' = Queued /\ Leases' = Leases
    BY <1>1 DEF Queued, Leases, Active
  <1>3. aged' \subseteq Ticket /\ overdue' \subseteq Leases /\ fired' \subseteq Leases
    BY DEF TypeOK, Touch, Age, Overstay, FireTimer
  <1> QED  BY <1>1, <1>2, <1>3 DEF TypeOK

LEMMA TypeNext == TypeOK /\ [Next]_vars => TypeOK'
  <1> SUFFICES ASSUME TypeOK, [Next]_vars  PROVE TypeOK'
    OBVIOUS
  <1>1. CASE UNCHANGED vars
    BY <1>1 DEF TypeOK, vars, Queued, Leases, Active
  <1>2. ASSUME NEW t \in Ticket, NEW raw \in RawRequest, Enqueue(t, raw)
        PROVE  TypeOK'
    BY <1>2, TypeEnqueue
  <1>3. ASSUME NEW t \in Ticket,
               Acquire(t) \/ Sleep(t) \/ Abandon(t) \/ Release(t) \/ Expire(t)
        PROVE  TypeOK'
    BY <1>3, TypeAcquire, TypeSleep, TypeAbandon, TypeRelease, TypeExpire
  <1>4. ASSUME NEW t \in Ticket,
               Touch(t) \/ Age(t) \/ Overstay(t) \/ FireTimer(t)
        PROVE  TypeOK'
    BY <1>4, TypeMarks
  <1> QED  BY <1>1, <1>2, <1>3, <1>4 DEF Next

\* The queue, the leases and the marks have the shape the operations rely on.
THEOREM TypeCorrect == Spec => []TypeOK
  BY TypeInit, TypeNext, PTL DEF Spec

-----------------------------------------------------------------------------
(* Only barriers block *)

LEMMA BlockNext ==
  ASSUME TypeOK, OnlyBarriersBlock, [Next]_vars
  PROVE  OnlyBarriersBlock'
  <1>1. CASE UNCHANGED vars
    BY <1>1 DEF OnlyBarriersBlock, vars, Queued
  <1>2. ASSUME NEW t \in Ticket, NEW raw \in RawRequest, Enqueue(t, raw)
        PROVE  OnlyBarriersBlock'
    <2>1. Queued' = Queued \cup {t} /\ active' = active
      BY <1>2 DEF TypeOK, Enqueue, Queued, Signalled, State
    <2>2. /\ req'[t] = Normalize(raw)
          /\ \A u \in Ticket \ {t} : req'[u] = req[u]
      BY <1>2 DEF TypeOK, Enqueue
    <2>3. Queued \cup active \subseteq Ticket
      BY DEF TypeOK, Queued
    <2>4. ASSUME NEW u \in Queued' \cup active', req'[u].type # "barrier"
          PROVE  req'[u].blocked = {}
      <3>1. CASE u = t
        BY <2>2, <2>4, <3>1, NormalizeType
      <3>2. CASE u # t
        BY <2>1, <2>2, <2>3, <2>4, <3>2 DEF OnlyBarriersBlock
      <3> QED  BY <3>1, <3>2
    <2> QED  BY <2>4 DEF OnlyBarriersBlock
  <1>3. ASSUME NEW t \in Ticket,
               Acquire(t) \/ Sleep(t) \/ Abandon(t) \/ Release(t) \/ Expire(t)
        PROVE  OnlyBarriersBlock'
    <2>1. Queued' \cup active' \subseteq Queued \cup active
      BY <1>3 DEF TypeOK, Acquire, Sleep, Abandon, Release, Expire, Forget,
                  Signalled, Queued
    <2>2. \A u \in Queued' \cup active' : req'[u] = req[u]
      BY <1>3 DEF TypeOK, Acquire, Sleep, Abandon, Release, Expire, Forget,
                  Signalled, Queued
    <2> QED  BY <2>1, <2>2 DEF OnlyBarriersBlock
  <1>4. ASSUME NEW t \in Ticket,
               Touch(t) \/ Age(t) \/ Overstay(t) \/ FireTimer(t)
        PROVE  OnlyBarriersBlock'
    BY <1>4, TypeMarks DEF OnlyBarriersBlock, Queued
  <1> QED  BY <1>1, <1>2, <1>3, <1>4 DEF Next

-----------------------------------------------------------------------------
(* Sharing and exclusion *)

\* Both properties look at granted requests only.
LEMMA SharingShrinks ==
  ASSUME TypeOK, LeasesAreCompatible, BarrierExcludesBlocked,
         active' \subseteq active, \A t \in active' : req'[t] = req[t]
  PROVE  LeasesAreCompatible' /\ BarrierExcludesBlocked'
  <1>1. /\ Leases' \subseteq Leases
        /\ OnQMI' \subseteq OnQMI
        /\ Active("session")' \subseteq Active("session")
        /\ Active("barrier")' \subseteq Active("barrier")
    BY DEF Leases, OnQMI, Active
  <1>2. \A t \in Leases' \cup OnQMI' \cup Active("barrier")' :
          t \in active' /\ req'[t] = req[t]
    BY DEF Leases, OnQMI, Active
  <1>3. \A t, u \in Leases' : t # u => Compatible(t, u)'
    BY <1>1, <1>2 DEF LeasesAreCompatible, Compatible, OnQMI, Active
  <1>4. /\ IsFiniteSet(OnQMI) /\ IsFiniteSet(Active("session"))
        /\ Cardinality(OnQMI) \in Nat /\ Cardinality(Active("session")) \in Nat
    BY TicketsFinite DEF TypeOK, OnQMI, Active
  <1>5. /\ Cardinality(OnQMI') =< Cardinality(OnQMI)
        /\ Cardinality(OnQMI') \in Nat
    BY <1>1, <1>4, FS_Subset, FS_CardinalityType
  <1>6. /\ Cardinality(Active("session")') =< Cardinality(Active("session"))
        /\ Cardinality(Active("session")') \in Nat
    BY <1>1, <1>4, FS_Subset, FS_CardinalityType
  <1>7. LeasesAreCompatible'
    BY <1>3, <1>4, <1>5, <1>6, ArbiterAssumption DEF LeasesAreCompatible
  <1>8. BarrierExcludesBlocked'
    BY <1>1, <1>2 DEF BarrierExcludesBlocked
  <1> QED  BY <1>7, <1>8

LEMMA AcquireExcludes ==
  ASSUME TypeOK, BarrierExcludesBlocked, NEW t \in Ticket, Acquire(t)
  PROVE  BarrierExcludesBlocked'
  <1>1. t \notin active /\ active' = active \cup {t} /\ req' = req
    BY DEF TypeOK, Acquire
  <1>2. CASE req[t].type = "barrier"
    <2>1. Leases = {}
      BY <1>2 DEF Acquire, MayAcquire
    <2>2. Leases' = {}
      BY <1>1, <1>2, <2>1 DEF Leases, Active
    <2> QED  BY <2>2 DEF BarrierExcludesBlocked
  <1>3. CASE req[t].type # "barrier"
    <2>1. ~BlockedByActiveBarrier(req[t].class)
      BY <1>3 DEF Acquire, MayAcquire
    <2>2. Active("barrier")' = Active("barrier") /\ Leases' = Leases \cup {t}
      BY <1>1, <1>3 DEF Leases, Active
    <2> QED
      BY <1>1, <2>1, <2>2 DEF BarrierExcludesBlocked, BlockedByActiveBarrier
  <1> QED  BY <1>2, <1>3

LEMMA LeaseTypes ==
  ASSUME TypeOK
  PROVE  Leases = Active("session") \cup Active("oneshot") \cup Active("transport")
  <1>1. \A t \in active : req[t].type \in LeaseType
    BY RequestOf DEF Request
  <1> QED  BY <1>1 DEF Leases, Active, LeaseType

LEMMA AcquireCompatible ==
  ASSUME TypeOK, LeasesAreCompatible, NEW t \in Ticket, Acquire(t)
  PROVE  LeasesAreCompatible'
  <1>1. /\ t \notin active /\ active' = active \cup {t} /\ req' = req
        /\ MayAcquire(t) /\ t \in Queued
    BY DEF TypeOK, Acquire, Queued
  <1>2. \A type : Active(type)' = IF req[t].type = type
                                  THEN Active(type) \cup {t} ELSE Active(type)
    BY <1>1 DEF Active
  <1>3. /\ Leases' = IF req[t].type = "barrier" THEN Leases ELSE Leases \cup {t}
        /\ OnQMI' = IF req[t].type = "transport" /\ req[t].scope = "qmi_channel"
                    THEN OnQMI \cup {t} ELSE OnQMI
    BY <1>1, <1>2 DEF Leases, OnQMI, Active
  <1>4. /\ IsFiniteSet(OnQMI) /\ IsFiniteSet(Active("session"))
        /\ Cardinality(OnQMI) \in Nat /\ Cardinality(Active("session")) \in Nat
        /\ t \notin OnQMI /\ t \notin Active("session")
    BY <1>1, TicketsFinite DEF TypeOK, OnQMI, Active
  <1>5. /\ Cardinality(OnQMI \cup {t}) = Cardinality(OnQMI) + 1
        /\ Cardinality(Active("session") \cup {t})
             = Cardinality(Active("session")) + 1
    BY <1>4, FS_AddElement
  <1>6. \A u, v \in Leases : u # v => Compatible(u, v)'
    BY <1>1, <1>3 DEF LeasesAreCompatible, Compatible, OnQMI, Active
  <1>7. CASE req[t].type = "barrier"
    BY <1>2, <1>3, <1>6, <1>7 DEF LeasesAreCompatible
  <1>8. CASE req[t].type = "session"
    <2>1. /\ Active("oneshot") = {} /\ Active("transport") = {}
          /\ Cardinality(Active("session")) < MaxSessions
      BY <1>1, <1>8 DEF MayAcquire
    <2>2. Leases = Active("session")
      BY <2>1, LeaseTypes
    <2>3. \A u \in Leases' : req'[u].type = "session"
      BY <1>1, <1>3, <1>8, <2>2 DEF Active
    <2>4. \A u, v \in Leases' : u # v => Compatible(u, v)'
      BY <2>3 DEF Compatible
    <2>5. Cardinality(Active("session")') =< MaxSessions
      BY <1>2, <1>4, <1>5, <1>8, <2>1, ArbiterAssumption
    <2> QED  BY <1>3, <1>8, <2>4, <2>5 DEF LeasesAreCompatible
  <1>9. CASE req[t].type = "oneshot"
    <2>1. Leases = {}
      BY <1>1, <1>9 DEF MayAcquire
    <2>2. Leases' = {t}
      BY <1>3, <1>9, <2>1
    <2> QED  BY <1>2, <1>3, <1>9, <2>2 DEF LeasesAreCompatible
  <1>10. CASE req[t].type = "transport"
    <2>1. /\ Active("session") = {} /\ Active("oneshot") = {}
          /\ t \in SelectedTransport
      BY <1>1, <1>10 DEF MayAcquire
    <2>2. TransportFits(t)
      BY <2>1 DEF SelectedTransport, Oldest, Eligible
    <2>3. Leases = Active("transport")
      BY <2>1, LeaseTypes
    <2>4. Active("session")' = Active("session")
      BY <1>2, <1>10
    <2>5. CASE req[t].scope = "qmi_channel"
      <3>1. /\ Active("transport") = OnQMI
            /\ Cardinality(OnQMI) < MaxQMITransports
            /\ \A u \in OnQMI : req[u].channel # req[t].channel
        BY <2>2, <2>5 DEF TransportFits, ExclusiveActive
      <3>2. Leases' = OnQMI \cup {t} /\ OnQMI' = OnQMI \cup {t}
        BY <1>3, <1>10, <2>3, <2>5, <3>1
      <3>3. \A u, v \in Leases' : u # v => Compatible(u, v)'
        BY <1>1, <1>6, <2>3, <3>1, <3>2 DEF Compatible
      <3>4. Cardinality(OnQMI') =< MaxQMITransports
        BY <1>4, <1>5, <3>1, <3>2, ArbiterAssumption
      <3> QED  BY <2>4, <3>3, <3>4 DEF LeasesAreCompatible
    <2>6. CASE req[t].scope # "qmi_channel"
      <3>1. Leases = {}
        BY <2>2, <2>3, <2>6 DEF TransportFits
      <3>2. Leases' = {t} /\ OnQMI' = OnQMI
        BY <1>3, <1>10, <2>6, <3>1
      <3> QED  BY <2>4, <3>2 DEF LeasesAreCompatible
    <2> QED  BY <2>5, <2>6
  <1>11. req[t].type \in LeaseType
    BY <1>1, RequestOf DEF Request
  <1> QED  BY <1>7, <1>8, <1>9, <1>10, <1>11 DEF LeaseType

LEMMA InvNext == Inv /\ [Next]_vars => Inv'
  <1> SUFFICES ASSUME Inv, [Next]_vars
               PROVE  LeasesAreCompatible' /\ BarrierExcludesBlocked'
    BY TypeNext, BlockNext DEF Inv
  <1> USE DEF Inv
  <1>1. ASSUME NEW t \in Ticket, Acquire(t)
        PROVE  LeasesAreCompatible' /\ BarrierExcludesBlocked'
    BY <1>1, AcquireCompatible, AcquireExcludes
  <1>2. ASSUME NEW t \in Ticket, NEW raw \in RawRequest, Enqueue(t, raw)
        PROVE  LeasesAreCompatible' /\ BarrierExcludesBlocked'
    <2>1. t \notin active /\ active' = active
      BY <1>2 DEF TypeOK, Enqueue
    <2>2. \A u \in active : req'[u] = req[u]
      BY <1>2, <2>1 DEF TypeOK, Enqueue
    <2> QED  BY <2>1, <2>2, SharingShrinks
  <1>3. ASSUME NEW t \in Ticket,
               Sleep(t) \/ Abandon(t) \/ Release(t) \/ Expire(t)
        PROVE  LeasesAreCompatible' /\ BarrierExcludesBlocked'
    <2>1. active' \subseteq active
      BY <1>3 DEF Sleep, Abandon, Release, Expire, Forget
    <2>2. \A u \in active' : req'[u] = req[u]
      BY <1>3 DEF TypeOK, Sleep, Abandon, Release, Expire, Forget
    <2> QED  BY <2>1, <2>2, SharingShrinks
  <1>4. ASSUME NEW t \in Ticket,
               Touch(t) \/ Age(t) \/ Overstay(t) \/ FireTimer(t)
        PROVE  LeasesAreCompatible' /\ BarrierExcludesBlocked'
    BY <1>4, TypeMarks, SharingShrinks
  <1>5. CASE UNCHANGED vars
    BY <1>5, SharingShrinks DEF vars
  <1> QED  BY <1>1, <1>2, <1>3, <1>4, <1>5 DEF Next

LEMMA InvInit == Init => Inv
  <1> SUFFICES ASSUME Init  PROVE Inv
    OBVIOUS
  <1>1. Queued = {} /\ active = {}
    BY DEF Init, Queued
  <1>2. Leases = {} /\ OnQMI = {} /\ Active("session") = {} /\ Active("barrier") = {}
    BY <1>1 DEF Leases, OnQMI, Active
  <1>3. LeasesAreCompatible
    <2>1. Cardinality({}) = 0
      BY FS_EmptySet
    <2>2. 0 =< MaxQMITransports /\ 0 =< MaxSessions
      BY ArbiterAssumption
    <2> QED  BY <1>2, <2>1, <2>2 DEF LeasesAreCompatible
  <1> QED
    BY <1>1, <1>2, <1>3, TypeInit DEF Inv, OnlyBarriersBlock, BarrierExcludesBlocked

LEMMA Invariance == Spec => []Inv
  BY InvInit, InvNext, PTL DEF Spec

\* Leases that hold the card together can share it, and keep to the limits.
THEOREM Sharing == Spec => []LeasesAreCompatible
  <1>1. Inv => LeasesAreCompatible
    BY DEF Inv
  <1> QED  BY <1>1, Invariance, PTL

\* No lease of a blocked class is held during a profile switch.
THEOREM Exclusion == Spec => []BarrierExcludesBlocked
  <1>1. Inv => BarrierExcludesBlocked
    BY DEF Inv
  <1> QED  BY <1>1, Invariance, PTL

-----------------------------------------------------------------------------
(* Order of service *)

LEMMA SelectedIsFirst ==
  ASSUME TypeOK, NEW t \in SelectedTransport, NEW u \in Ahead(t), u \in Eligible
  PROVE  Priority(t) > Priority(u)
  <1> DEFINE ageing == {v \in Eligible : v \in aged /\ req[v].class # USIMAKA}
             aka == {v \in Eligible : req[v].class = USIMAKA}
  <1>1. place[u] < place[t] /\ place[u] \in Nat /\ place[t] \in Nat
    BY DEF TypeOK, Ahead, Queued, SelectedTransport, Oldest, Eligible
  <1>2. CASE ageing # {}
    <2>1. t \in ageing /\ u \notin ageing
      BY <1>1, <1>2 DEF SelectedTransport, Oldest
    <2> QED  BY <2>1 DEF Priority
  <1>3. CASE ageing = {} /\ aka # {}
    <2>1. t \in aka /\ u \notin aka
      BY <1>1, <1>3 DEF SelectedTransport, Oldest
    <2>2. u \notin aged
      BY <1>3, <2>1
    <2> QED  BY <2>1, <2>2 DEF Priority
  <1>4. CASE ageing = {} /\ aka = {}
    <2>1. t \in Oldest(Eligible)
      BY <1>4 DEF SelectedTransport
    <2> QED  BY <1>1, <2>1 DEF Oldest
  <1> QED  BY <1>2, <1>3, <1>4

\* A request is passed only by a later transport, for one of the three
\* reasons NoOvertaking allows.
THEOREM Order == Spec => NoOvertaking
  <1> DEFINE Step == \A t \in active' \ active :
                       req[t].type # "barrier" =>
                         \A u \in Ahead(t) : MayPass(t, u)
  <1>1. ASSUME Inv, NEW t \in Ticket, Acquire(t), req[t].type # "barrier",
               NEW u \in Ahead(t)
        PROVE  MayPass(t, u)
    <2>1. MayAcquire(t) /\ Ahead(t) # {}
      BY <1>1 DEF Acquire
    <2>2. req[t].type = "transport" /\ t \in SelectedTransport
      BY <1>1, <2>1 DEF MayAcquire
    <2>3. t \in Eligible
      BY <2>2 DEF SelectedTransport, Oldest
    <2>4. ~EndsScan(u)
      BY <2>3 DEF Eligible
    <2>5. req[u].type = "transport" /\ u \in Queued
      BY <2>4 DEF EndsScan, Ahead
    <2>6. req[t].class \notin req[u].blocked
      BY <1>1, <2>5 DEF Inv, OnlyBarriersBlock
    <2>7. CASE BlockedByActiveBarrier(req[u].class)
      BY <2>5, <2>6, <2>7 DEF MayPass
    <2>8. CASE ~BlockedByActiveBarrier(req[u].class) /\ TransportFits(u)
      <3>1. Ahead(u) \subseteq Ahead(t)
        BY <1>1, <2>5 DEF Ahead, Inv, TypeOK, Queued
      <3>2. u \in Eligible
        BY <2>3, <2>5, <2>8, <3>1 DEF Eligible
      <3>3. Priority(t) > Priority(u)
        BY <1>1, <2>2, <3>2, SelectedIsFirst DEF Inv
      <3> QED  BY <2>5, <2>6, <2>8, <3>3 DEF MayPass
    <2>9. CASE ~BlockedByActiveBarrier(req[u].class) /\ ~TransportFits(u)
      <3>1. ~GatesQueue(u)
        BY <2>4, <2>9 DEF EndsScan
      <3>2. /\ req[u].scope = "qmi_channel" /\ ~ExclusiveActive
            /\ ~(Cardinality(OnQMI) >= MaxQMITransports)
        BY <3>1 DEF GatesQueue
      <3>3. Cardinality(OnQMI) < MaxQMITransports
        BY <1>1, <3>2, TicketsFinite, ArbiterAssumption
           DEF Inv, TypeOK, OnQMI, Active
      <3>4. \E v \in OnQMI : req[v].channel = req[u].channel
        BY <2>5, <2>9, <3>2, <3>3 DEF TransportFits
      <3> QED  BY <2>5, <2>6, <3>2, <3>4 DEF MayPass
    <2> QED  BY <2>7, <2>8, <2>9
  <1>2. Inv /\ [Next]_vars => [Step]_vars
    <2> SUFFICES ASSUME Inv, Next  PROVE Step
      OBVIOUS
    <2>1. ASSUME NEW t \in Ticket, Acquire(t)  PROVE Step
      <3>1. active' \ active \subseteq {t}
        BY <2>1 DEF Acquire
      <3>2. req[t].type # "barrier" => \A u \in Ahead(t) : MayPass(t, u)
        BY <1>1, <2>1
      <3> QED  BY <3>1, <3>2
    <2>2. ASSUME ~\E t \in Ticket : Acquire(t)  PROVE active' \subseteq active
      BY <2>2 DEF Next, Enqueue, Sleep, Abandon, Release, Touch, Expire, Forget,
                  Age, Overstay, FireTimer
    <2> QED  BY <2>1, <2>2
  <1> QED  BY <1>2, Invariance, PTL DEF Spec, NoOvertaking

\* A lease leaves the arbiter under its holder only when it is overdue.
THEOREM Watchdog == Spec => OnlyOverdueIsTaken
  <1> DEFINE Step == \A t \in active \ active' : state'[t] = "using" => t \in overdue
  <1>1. Inv /\ [Next]_vars => [Step]_vars
    <2> SUFFICES ASSUME Inv, Next,
                        NEW t \in active \ active', state'[t] = "using"
                 PROVE  t \in overdue
      OBVIOUS
    <2>1. ASSUME NEW u \in Ticket, Release(u)  PROVE FALSE
      <3>1. t = u
        BY <2>1 DEF Release, Forget
      <3>2. state'[u] = "done"
        BY <2>1 DEF Release, Signalled, Inv, TypeOK
      <3> QED  BY <3>1, <3>2
    <2>2. ASSUME NEW u \in Ticket, Expire(u)  PROVE t \in overdue
      BY <2>2 DEF Expire, Forget
    <2>3. ASSUME NEW u \in Ticket,
                 \/ \E raw \in RawRequest : Enqueue(u, raw)
                 \/ Acquire(u) \/ Sleep(u) \/ Abandon(u) \/ Touch(u)
                 \/ Age(u) \/ Overstay(u) \/ FireTimer(u)
          PROVE  FALSE
      BY <2>3 DEF Enqueue, Acquire, Sleep, Abandon, Touch, Age, Overstay, FireTimer
    <2> QED  BY <2>1, <2>2, <2>3 DEF Next
  <1> QED  BY <1>1, Invariance, PTL DEF Spec, OnlyOverdueIsTaken

-----------------------------------------------------------------------------
(* Wakeups *)

\* Whose turn it is depends on the queue, on what is granted, and on age only
\* where it changes a priority.
LEMMA SameTurn ==
  ASSUME TypeOK, UNCHANGED <<active, place>>, Queued' = Queued,
         \A u \in Queued \cup active : req'[u] = req[u],
         \A u \in Queued : req[u].class # USIMAKA => (u \in aged' <=> u \in aged),
         NEW t \in Queued
  PROVE  MayAcquire(t)' <=> MayAcquire(t)
  <1>1. /\ \A type : Active(type)' = Active(type)
        /\ Leases' = Leases /\ OnQMI' = OnQMI
        /\ ExclusiveActive' = ExclusiveActive
    BY DEF Active, Leases, OnQMI, ExclusiveActive
  <1>2. \A u \in Queued : Ahead(u)' = Ahead(u) /\ Ahead(u) \subseteq Queued
    BY DEF Ahead
  <1>3. \A class : BlockedByActiveBarrier(class)' <=> BlockedByActiveBarrier(class)
    BY <1>1 DEF BlockedByActiveBarrier, Active
  <1>4. PendingBarrierAhead(t)' <=> PendingBarrierAhead(t)
    BY <1>2 DEF PendingBarrierAhead
  <1>5. \A u \in Queued : TransportFits(u)' <=> TransportFits(u)
    <2> SUFFICES ASSUME NEW u \in Queued
                 PROVE  TransportFits(u)' <=> TransportFits(u)
      OBVIOUS
    <2>1. req'[u] = req[u] /\ \A v \in OnQMI : req'[v] = req[v]
      BY DEF OnQMI, Active
    <2>2. PICK ask : ask = req[u]
      OBVIOUS
    <2>3. PICK busy : busy = OnQMI
      OBVIOUS
    <2>4. busy' = busy /\ ask' = ask /\ OnQMI' = busy /\ req'[u] = ask
      BY <1>1, <2>1, <2>2, <2>3
    <2>5. Active("transport")' = Active("transport")
      BY <1>1
    <2>6. (\A v \in OnQMI : req[v].channel # req[u].channel)'
             <=> (\A v \in OnQMI : req[v].channel # req[u].channel)
      BY <2>1, <2>3, <2>4
    <2> QED  BY <1>1, <2>1, <2>2, <2>3, <2>4, <2>5, <2>6 DEF TransportFits
  <1>6. \A u \in Queued : EndsScan(u)' <=> EndsScan(u)
    <2> SUFFICES ASSUME NEW u \in Queued PROVE EndsScan(u)' <=> EndsScan(u)
      OBVIOUS
    <2>1. req'[u] = req[u]
      OBVIOUS
    <2>2. PICK class : class = req[u].class
      OBVIOUS
    <2>3. GatesQueue(u)' <=> GatesQueue(u)
      BY <1>1, <2>1 DEF GatesQueue
    <2>4. BlockedByActiveBarrier(class)' <=> BlockedByActiveBarrier(class)
      BY <1>3
    <2>5. BlockedByActiveBarrier(req[u].class)' <=> BlockedByActiveBarrier(req[u].class)
      BY <1>1, <2>1, <2>2, <2>4 DEF BlockedByActiveBarrier, Active
    <2> QED  BY <1>5, <2>1, <2>3, <2>5 DEF EndsScan
  <1>7. \A u \in Queued :
          BlockedByActiveBarrier(req[u].class)' <=> BlockedByActiveBarrier(req[u].class)
    BY <1>1 DEF BlockedByActiveBarrier, Active
  <1>8. Eligible' = Eligible
    <2>1. \A u \in Queued : u \in Eligible' <=> u \in Eligible
      <3> SUFFICES ASSUME NEW u \in Queued PROVE u \in Eligible' <=> u \in Eligible
        OBVIOUS
      <3>1. /\ TransportFits(u)' <=> TransportFits(u)
            /\ BlockedByActiveBarrier(req[u].class)'
                 <=> BlockedByActiveBarrier(req[u].class)
            /\ Ahead(u)' = Ahead(u)
            /\ \A v \in Ahead(u) : EndsScan(v)' <=> EndsScan(v)
        BY <1>2, <1>5, <1>6, <1>7
      <3>2. u \in Ticket
        BY DEF Queued
      <3> QED  BY <3>1, <3>2 DEF Eligible
    <2> QED  BY <2>1 DEF Eligible
  <1>9. /\ {u \in Eligible : u \in aged /\ req[u].class # USIMAKA}'
             = {u \in Eligible : u \in aged /\ req[u].class # USIMAKA}
        /\ {u \in Eligible : req[u].class = USIMAKA}'
             = {u \in Eligible : req[u].class = USIMAKA}
        /\ Eligible \subseteq Queued
    BY <1>8 DEF Eligible
  <1>10. SelectedTransport' = SelectedTransport
    BY <1>8, <1>9 DEF SelectedTransport, Oldest
  <1> QED
    BY <1>1, <1>2, <1>3, <1>4, <1>7, <1>10 DEF MayAcquire

\* A sleeper has looked since the last change: it could not acquire.
SleepersMayNot ==
    \A t \in Ticket : state[t] = "asleep" /\ ~AgeChangesPriority => ~MayAcquire(t)

LEMMA SleepersNext ==
  ASSUME TypeOK, SleepersMayNot, [Next]_vars
  PROVE  SleepersMayNot'
  <1>1. ASSUME UNCHANGED <<active, place>>, Queued' = Queued,
               \A u \in Queued \cup active : req'[u] = req[u],
               aged \subseteq aged',
               \A u \in Ticket : state'[u] = "asleep" =>
                 u \in Queued /\ (state[u] = "asleep" \/ ~MayAcquire(u))
        PROVE  SleepersMayNot'
    <2> SUFFICES ASSUME NEW t \in Ticket, state'[t] = "asleep",
                        ~AgeChangesPriority'
                 PROVE  ~MayAcquire(t)'
      BY DEF SleepersMayNot
    <2>1. /\ \A u \in Queued : req[u].class # USIMAKA => (u \in aged' <=> u \in aged)
          /\ ~AgeChangesPriority
      BY <1>1 DEF AgeChangesPriority
    <2>2. t \in Queued /\ ~MayAcquire(t)
      BY <1>1, <2>1 DEF SleepersMayNot
    <2> QED  BY <1>1, <2>1, <2>2, SameTurn
  <1>2. ASSUME \A u \in Ticket : state'[u] # "asleep"
        PROVE  SleepersMayNot'
    BY <1>2 DEF SleepersMayNot
  <1>3. ASSUME NEW t \in Ticket,
               \/ \E raw \in RawRequest : Enqueue(t, raw)
               \/ Acquire(t) \/ Abandon(t)
               \/ Release(t) /\ t \in active
               \/ Expire(t) /\ t \in overdue
        PROVE  SleepersMayNot'
    BY <1>2, <1>3 DEF TypeOK, Enqueue, Acquire, Abandon, Release, Expire, Signalled
  <1>4. ASSUME NEW t \in Ticket, Sleep(t)
        PROVE  SleepersMayNot'
    <2>1. Queued' = Queued
      BY <1>4 DEF TypeOK, Sleep, Queued
    <2>2. \A u \in Ticket : state'[u] = "asleep" =>
            u \in Queued /\ (state[u] = "asleep" \/ ~MayAcquire(u))
      BY <1>4 DEF TypeOK, Sleep, Queued
    <2>3. UNCHANGED <<active, place, req, aged>>
      BY <1>4 DEF Sleep
    <2> QED  BY <1>1, <2>1, <2>2, <2>3
  <1>5. ASSUME NEW t \in Ticket, Release(t), t \notin active
        PROVE  SleepersMayNot'
    <2>1. t \notin Queued /\ Queued' = Queued /\ active' = active
      BY <1>5 DEF TypeOK, Release, Forget, Queued
    <2>2. /\ \A u \in Queued \cup active : req'[u] = req[u]
          /\ UNCHANGED <<place, aged>>
      BY <1>5, <2>1 DEF TypeOK, Release, Queued
    <2>3. \A u \in Ticket : state'[u] = "asleep" => state[u] = "asleep"
      BY <1>5 DEF TypeOK, Release
    <2>4. \A u \in Ticket : state'[u] = "asleep" =>
            u \in Queued /\ (state[u] = "asleep" \/ ~MayAcquire(u))
      BY <2>3 DEF Queued
    <2> QED  BY <1>1, <2>1, <2>2, <2>4
  <1>6. CASE \/ \E t \in Ticket :
                  \/ Touch(t) \/ Age(t) \/ Overstay(t) \/ FireTimer(t)
                  \/ Expire(t) /\ t \notin overdue
             \/ UNCHANGED vars
    <2>1. UNCHANGED <<state, req, place, active>> /\ aged \subseteq aged'
      BY <1>6 DEF Touch, Age, Overstay, FireTimer, Expire, vars
    <2>2. /\ Queued' = Queued
          /\ \A u \in Ticket : state'[u] = "asleep" =>
               u \in Queued /\ (state[u] = "asleep" \/ ~MayAcquire(u))
      BY <2>1 DEF Queued
    <2> QED  BY <1>1, <2>1, <2>2
  <1> QED  BY <1>3, <1>4, <1>5, <1>6 DEF Next

\* No wakeup is lost: notifyC is closed under the mutex at every change that can
\* make a sleeper's turn (arbiter.go, signalLocked and its callers).
THEOREM Wakeups == Spec => []NoMissedWakeup
  <1>1. Init => SleepersMayNot
    BY DEF Init, SleepersMayNot
  <1>2. TypeOK /\ SleepersMayNot /\ [Next]_vars => TypeOK' /\ SleepersMayNot'
    BY TypeNext, SleepersNext
  <1>3. SleepersMayNot => NoMissedWakeup
    BY DEF SleepersMayNot, NoMissedWakeup, Queued
  <1> QED  BY <1>1, <1>2, <1>3, TypeInit, PTL DEF Spec
=============================================================================
