---------------------------- MODULE ApduArbiter ----------------------------
(* The arbiter of a SIM card's APDU transports, internal/apduarbiter/        *)
(* arbiter.go.  A request takes a ticket, is queued, and its goroutine looks *)
(* for its turn under Arbiter.mu each time notifyC is closed; every step     *)
(* below is one critical section.  The queue is the set of tickets that look *)
(* or sleep, in the order of their place.  A lease that is held too long is  *)
(* taken back by its watchdog while its holder may still believe to have it. *)
EXTENDS Integers, FiniteSets

CONSTANTS
    Ticket,             \* bound: the requests of a behaviour, one ticket each
    Class,              \* APDUClass
    USIMAKA,            \* the class transports of which go first
    SMSC, EUICCWrite, SwitchBarrier,  \* the classes the defaults name
    NoClass,            \* an empty class in a request
    Channel,            \* logical channels; channels are positive
    RawRequest,         \* the requests callers make
    MaxSessions,        \* Options.MaxSessions
    MaxQMITransports,   \* Options.MaxQMITransports
    NoRequest           \* a ticket not taken yet, or finished

ASSUME ArbiterAssumption ==
    /\ {USIMAKA, SMSC, EUICCWrite, SwitchBarrier} \subseteq Class
    /\ NoClass \notin Class
    /\ 0 \notin Channel
    /\ MaxSessions \in Nat \ {0} /\ MaxQMITransports \in Nat \ {0}
    /\ IsFiniteSet(Ticket)

LeaseType == {"session", "oneshot", "transport", "barrier"}
Scope == {"exclusive", "qmi_channel"}

ASSUME RequestAssumption ==
    RawRequest \subseteq
        [type : LeaseType, class : Class \cup {NoClass},
         channel : Channel \cup {0}, scope : Scope, blocked : SUBSET Class]

Request ==
    [type : LeaseType, class : Class, channel : Channel \cup {0},
     scope : Scope, blocked : SUBSET Class]

ASSUME NoRequestAssumption == NoRequest \notin Request

\* The classes a barrier keeps out, with the default of BeginBarrier.
Blocked(raw) ==
    IF raw.type # "barrier" THEN {}
    ELSE IF raw.blocked = {} THEN {USIMAKA, SMSC} ELSE raw.blocked

\* normalizeRequest
Normalize(raw) ==
    [type |-> raw.type,
     class |->
        IF raw.class # NoClass THEN raw.class
        ELSE CASE raw.type = "barrier" -> SwitchBarrier
               [] raw.type = "oneshot" -> USIMAKA
               [] OTHER -> EUICCWrite,
     channel |-> raw.channel,
     scope |->
        IF raw.type = "transport" /\ raw.scope = "qmi_channel"
             /\ raw.channel # 0
        THEN "qmi_channel" ELSE "exclusive",
     blocked |-> Blocked(raw)]

VARIABLES
    state,      \* state[t]: where the goroutine of ticket t is
    req,        \* req[t]: its normalized request
    place,      \* place[t]: its place in the queue
    active,     \* leases and barriers the arbiter has granted
    aged,       \* tickets queued for transportPriorityAging or longer
    overdue,    \* leases whose expiresAt has passed
    fired       \* leases whose watchdog timer has run out and waits for mu

vars == <<state, req, place, active, aged, overdue, fired>>

State == {"new", "looking", "asleep", "using", "done"}

Init ==
    /\ state = [t \in Ticket |-> "new"]
    /\ req = [t \in Ticket |-> NoRequest]
    /\ place = [t \in Ticket |-> 0]
    /\ active = {} /\ aged = {} /\ overdue = {} /\ fired = {}

-----------------------------------------------------------------------------
Queued == {t \in Ticket : state[t] \in {"looking", "asleep"}}
Ahead(t) == {u \in Queued : place[u] < place[t]}
Oldest(S) == {t \in S : \A u \in S : place[t] =< place[u]}

Active(type) == {t \in active : req[t].type = type}
Leases == active \ Active("barrier")
OnQMI == {t \in Active("transport") : req[t].scope = "qmi_channel"}
ExclusiveActive == Active("transport") # OnQMI

BlockedByActiveBarrier(class) ==
    \E b \in Active("barrier") : class \in req[b].blocked

PendingBarrierAhead(t) ==
    \E b \in Ahead(t) : req[b].type = "barrier" /\ req[t].class \in req[b].blocked

\* Mutant: a channel transport looks at its own channel only.
TransportFitsChannel(t) ==
    /\ req[t].type = "transport"
    /\ IF req[t].scope = "qmi_channel"
       THEN \A u \in OnQMI : req[u].channel # req[t].channel
       ELSE Active("transport") = {}

\* canAcquireTransportNowLocked
TransportFits(t) ==
    /\ req[t].type = "transport"
    /\ IF req[t].scope = "qmi_channel"
       THEN /\ ~ExclusiveActive
            /\ Cardinality(OnQMI) < MaxQMITransports
            /\ \A u \in OnQMI : req[u].channel # req[t].channel
       ELSE Active("transport") = {}

\* transportWaitGatesQueueLocked
GatesQueue(t) ==
    \/ req[t].scope # "qmi_channel"
    \/ ExclusiveActive
    \/ Cardinality(OnQMI) >= MaxQMITransports

\* The scan of selectedTransportLocked ends at such a ticket.
EndsScan(t) ==
    \/ req[t].type # "transport"
    \/ /\ ~BlockedByActiveBarrier(req[t].class)
       /\ ~TransportFits(t)
       /\ GatesQueue(t)

Eligible ==
    {t \in Queued :
        /\ TransportFits(t)
        /\ ~BlockedByActiveBarrier(req[t].class)
        /\ \A u \in Ahead(t) : ~EndsScan(u)}

\* selectedTransportLocked, as the set of the ticket it selects: the oldest of
\* the aged ones of other classes, or else of class USIMAKA, or else of all.
SelectedByClass ==  \* mutant: class USIMAKA goes first whatever has aged
    LET aka == {t \in Eligible : req[t].class = USIMAKA}
    IN  IF aka # {} THEN Oldest(aka) ELSE Oldest(Eligible)

SelectedTransport ==
    LET ageing == {t \in Eligible : t \in aged /\ req[t].class # USIMAKA}
        aka == {t \in Eligible : req[t].class = USIMAKA}
    IN  IF ageing # {} THEN Oldest(ageing)
        ELSE IF aka # {} THEN Oldest(aka)
        ELSE Oldest(Eligible)

\* canAcquireLeaseLocked and canAcquireBarrierLocked
MayAcquireUnblocked(t) ==  \* mutant: a barrier need not wait for leases
    \/ /\ req[t].type # "barrier"
       /\ ~BlockedByActiveBarrier(req[t].class)
       /\ ~PendingBarrierAhead(t)
       /\ Ahead(t) = {}
       /\ Leases = {}
    \/ /\ req[t].type = "barrier"
       /\ \A u \in Ahead(t) : req[u].type # "barrier"

MayAcquire(t) ==
    \/ /\ req[t].type # "barrier"
       /\ ~BlockedByActiveBarrier(req[t].class)
       /\ ~PendingBarrierAhead(t)
       /\ \/ /\ req[t].type = "session"
             /\ Ahead(t) = {}
             /\ Active("oneshot") = {} /\ Active("transport") = {}
             /\ Cardinality(Active("session")) < MaxSessions
          \/ /\ req[t].type = "oneshot"
             /\ Ahead(t) = {}
             /\ Leases = {}
          \/ /\ req[t].type = "transport"
             /\ Active("session") = {} /\ Active("oneshot") = {}
             /\ t \in SelectedTransport
    \/ /\ req[t].type = "barrier"
       /\ Leases = {}
       /\ \A u \in Ahead(t) : req[u].type # "barrier"

-----------------------------------------------------------------------------
\* signalLocked: every sleeping goroutine looks again.
Signalled(f) == [t \in Ticket |-> IF f[t] = "asleep" THEN "looking" ELSE f[t]]

Enqueue(t, raw) ==
    /\ state[t] = "new"
    /\ req' = [req EXCEPT ![t] = Normalize(raw)]
    /\ place' = [place EXCEPT ![t] = Cardinality(Queued) + 1]
    /\ state' = [Signalled(state) EXCEPT ![t] = "looking"]
    /\ UNCHANGED <<active, aged, overdue, fired>>

\* removeTicketLocked: the tickets behind it move up.
Dequeue(t) ==
    /\ place' = [u \in Ticket |->
         IF u = t THEN 0
         ELSE IF u \in Queued /\ place[u] > place[t] THEN place[u] - 1
         ELSE place[u]]
    /\ aged' = aged \ {t}

Acquire(t) ==
    /\ state[t] = "looking"
    /\ MayAcquire(t)
    /\ active' = active \cup {t}
    /\ Dequeue(t)
    /\ state' = [Signalled(state) EXCEPT ![t] = "using"]
    /\ UNCHANGED <<req, overdue, fired>>

Sleep(t) ==
    /\ state[t] = "looking"
    /\ ~MayAcquire(t)
    /\ state' = [state EXCEPT ![t] = "asleep"]
    /\ UNCHANGED <<req, place, active, aged, overdue, fired>>

\* The context ends while the goroutine sleeps: the ticket leaves the queue.
Abandon(t) ==
    /\ state[t] = "asleep"
    /\ Dequeue(t)
    /\ req' = [req EXCEPT ![t] = NoRequest]
    /\ state' = [Signalled(state) EXCEPT ![t] = "done"]
    /\ UNCHANGED <<active, overdue, fired>>

ForgetKeepsTimer(t) ==  \* mutant: timer.Stop is forgotten
    active' = active \ {t} /\ UNCHANGED <<overdue, fired>>

Forget(t) ==
    /\ active' = active \ {t}
    /\ overdue' = overdue \ {t}
    /\ fired' = fired \ {t}

\* Release of a lease or a barrier; after a forced release it does nothing.
ReleaseWithoutSignal(t) ==  \* mutant: signalLocked is forgotten
    /\ state[t] = "using"
    /\ Forget(t)
    /\ req' = [req EXCEPT ![t] = NoRequest]
    /\ state' = [state EXCEPT ![t] = "done"]
    /\ UNCHANGED <<place, aged>>

Release(t) ==
    /\ state[t] = "using"
    /\ Forget(t)
    /\ state' = [IF t \in active THEN Signalled(state) ELSE state
                 EXCEPT ![t] = "done"]
    /\ req' = [req EXCEPT ![t] = NoRequest]
    /\ UNCHANGED <<place, aged>>

Touch(t) ==
    /\ state[t] = "using"
    /\ t \in Leases
    /\ overdue' = overdue \ {t}
    /\ UNCHANGED <<state, req, place, active, aged, fired>>

\* The watchdog's callback: the timer is armed again if Touch moved expiresAt.
ExpireTouched(t) ==  \* mutant: expiresAt is not looked at again
    /\ t \in fired
    /\ state' = Signalled(state) /\ Forget(t)
    /\ UNCHANGED <<req, place, aged>>

Expire(t) ==
    /\ t \in fired
    /\ IF t \in overdue
       THEN state' = Signalled(state) /\ Forget(t)
       ELSE /\ fired' = fired \ {t}
            /\ UNCHANGED <<state, active, overdue>>
    /\ UNCHANGED <<req, place, aged>>

\* Time passes: a queued ticket ages, a lease reaches expiresAt, and the timer
\* of an overdue lease runs out.
Age(t) ==
    /\ t \in Queued
    /\ aged' = aged \cup {t}
    /\ UNCHANGED <<state, req, place, active, overdue, fired>>

Overstay(t) ==
    /\ t \in Leases
    /\ overdue' = overdue \cup {t}
    /\ UNCHANGED <<state, req, place, active, aged, fired>>

FireTimer(t) ==
    /\ t \in overdue
    /\ fired' = fired \cup {t}
    /\ UNCHANGED <<state, req, place, active, aged, overdue>>

Next ==
    \E t \in Ticket :
        \/ \E raw \in RawRequest : Enqueue(t, raw)
        \/ Acquire(t) \/ Sleep(t) \/ Abandon(t)
        \/ Release(t) \/ Touch(t) \/ Expire(t)
        \/ Age(t) \/ Overstay(t) \/ FireTimer(t)

Spec == Init /\ [][Next]_vars

-----------------------------------------------------------------------------
TypeOK ==
    /\ state \in [Ticket -> State]
    /\ req \in [Ticket -> Request \cup {NoRequest}]
    /\ \A t \in Queued \cup active : req[t] # NoRequest
    /\ place \in [Ticket -> Nat]
    /\ active \subseteq {t \in Ticket : state[t] = "using"}
    /\ aged \subseteq Ticket
    /\ overdue \subseteq Leases /\ fired \subseteq Leases

\* Two leases the card may serve at the same time: sessions of the legacy
\* interface, or QMI transports on different channels.
Compatible(t, u) ==
    \/ req[t].type = "session" /\ req[u].type = "session"
    \/ /\ {t, u} \subseteq OnQMI
       /\ req[t].channel # req[u].channel

\* However requests, timeouts, touches and watchdogs interleave, leases that
\* hold the card together are compatible and within their limits.
LeasesAreCompatible ==
    /\ \A t, u \in Leases : t # u => Compatible(t, u)
    /\ Cardinality(OnQMI) =< MaxQMITransports
    /\ Cardinality(Active("session")) =< MaxSessions

\* While a barrier is held (an eSIM profile switch) no lease of a class it
\* blocks is held: neither one from before it nor one that came after.
BarrierExcludesBlocked ==
    \A b \in Active("barrier"), t \in Leases :
        req[t].class \notin req[b].blocked

\* A lease is not taken past an earlier barrier that blocks it, nor past any
\* earlier request that is not a transport; and past an earlier transport only
\* if a barrier holds that one back, its own QMI channel is busy, or the card
\* is free for both and the later one has the higher priority.
Priority(t) == IF req[t].class = USIMAKA THEN 1 ELSE IF t \in aged THEN 2 ELSE 0
MayPass(t, u) ==
    /\ req[t].class \notin req[u].blocked
    /\ req[u].type = "transport"
    /\ \/ BlockedByActiveBarrier(req[u].class)
       \/ \E v \in OnQMI :
            req[u].scope = "qmi_channel" /\ req[v].channel = req[u].channel
       \/ TransportFits(u) /\ Priority(t) > Priority(u)

NoOvertaking ==
    [][\A t \in active' \ active :
         req[t].type # "barrier" => \A u \in Ahead(t) : MayPass(t, u)]_vars

\* The watchdog takes back only a lease that is overdue at that moment: one
\* whose holder has touched it in time is kept.
OnlyOverdueIsTaken ==
    [][\A t \in active \ active' : state'[t] = "using" => t \in overdue]_vars

\* No wakeup is lost: when every waiter sleeps, none of them could acquire
\* (as long as the priority of none has changed with age, see FreeCardIsTaken).
AgeChangesPriority == \E t \in Queued : t \in aged /\ req[t].class # USIMAKA
NoMissedWakeup ==
    (\A t \in Queued : state[t] = "asleep") /\ ~AgeChangesPriority =>
        \A t \in Queued : ~MayAcquire(t)

\* Ageing "prevents EUICC starvation": a card nobody uses is not left idle
\* while every waiter sleeps.
FreeCardIsTaken ==
    (\A t \in Queued : state[t] = "asleep") /\ active = {} => Queued = {}
=============================================================================
