----------------------------- MODULE ModemStatus -----------------------------
(* What the modem manager knows of the modem and its SIM, and whom it tells   *)
(* (internal/modem/manager.go): the start, the collection of device data in   *)
(* many commands and one update, the watch on the SIM that alerts after three *)
(* failed looks, and the one-shot subscriptions to the modem's restart.       *)
(* Collections and looks may overlap, as nothing but the update is locked.    *)
EXTENDS Naturals, FiniteSets

CONSTANTS
    Card, NoCard,
    Collector,      \* goroutines in collectDeviceInfo
    Watcher,        \* goroutines in RefreshStatus
    Subscriber,     \* callers of SubscribeRDY, each once
    MaxEvents       \* bound: restarts, changes of the card
VARIABLES
    card,           \* in the modem
    phase,          \* of initModem: "probe", "configure", "ready"
    status,         \* iccid, imsi and simInserted
    blurred,        \* the last update was not of one card alone
    collecting,     \* of a collector: what it has read
    watching,       \* of a watcher: what its look found
    misses,         \* simFailCount
    alerting,       \* simAlerting
    calls,          \* goroutines that will tell of an alert or of its end
    toldSim,        \* what was told last
    crossed,        \* both were under way at once
    waiters,        \* rdySubs
    woken,          \* subscribers whose channel was closed
    signalled,      \* subscribers since whose subscription the modem restarted,
    asked,          \*   or answered READY to a question
    events

collects == <<phase, status, blurred, collecting>>
alerts == <<watching, misses, alerting, calls, toldSim, crossed>>
subscriptions == <<waiters, woken, signalled, asked>>
vars == <<card, collects, alerts, subscriptions, events>>

Limit == 3
Resting == [at |-> "idle"]

TypeOK ==
    /\ card \in Card \cup {NoCard} /\ phase \in {"probe", "configure", "ready"}
    /\ {status.iccid, status.imsi} \subseteq Card \cup {NoCard}
    /\ {status.inserted, blurred, alerting, crossed} \subseteq BOOLEAN
    /\ \A c \in Collector : collecting[c].at \in {"idle", "sim", "imsi", "iccid", "update"}
    /\ watching \in [Watcher -> {"idle", "seen", "missed"}] /\ misses \in 0..Limit
    /\ calls \subseteq {"alert", "recovery"} /\ toldSim \in {"nothing", "alert", "recovery"}
    /\ waiters \cup woken \cup signalled \cup asked \subseteq Subscriber
    /\ events \in 0..MaxEvents

Init ==
    /\ card \in Card \cup {NoCard} /\ phase = "probe"
    /\ status = [iccid |-> NoCard, imsi |-> NoCard, inserted |-> FALSE]
    /\ blurred = TRUE /\ collecting = [c \in Collector |-> Resting]
    /\ watching = [w \in Watcher |-> "idle"] /\ misses = 0 /\ alerting = FALSE
    /\ calls = {} /\ toldSim = "nothing" /\ crossed = FALSE
    /\ waiters = {} /\ woken = {} /\ signalled = {} /\ asked = {} /\ events = 0
-----------------------------------------------------------------------------
\* initModem: without an answer to AT the manager is ready all the same; with one
\* it sends its configuration, whose answers it does not look at.
Probe ==
    /\ phase = "probe"
    /\ phase' \in {"configure", "ready"}
    /\ UNCHANGED <<card, status, blurred, collecting, alerts, subscriptions, events>>

Begun == [at |-> "sim", clean |-> TRUE, imsi |-> NoCard, iccid |-> NoCard, inserted |-> FALSE]
Reads(c, what) == collecting' = [collecting EXCEPT ![c] = what]

\* The collection that follows, and RefreshDeviceInfo.
Collect(c) ==
    /\ collecting[c] = Resting /\ phase # "probe"
    /\ phase' = "ready" /\ Reads(c, Begun)
    /\ UNCHANGED <<card, status, blurred, alerts, subscriptions, events>>

\* handleURC of RDY, and of +CPIN: READY, which some modems send in its place: all
\* who have subscribed are woken, and forgotten.
DispatchRDY == woken' = woken \cup waiters /\ waiters' = {}

\* QuerySIMInserted asks AT+CPIN? in the end, and +CPIN: READY is dispatched as if
\* nobody had asked.
Answered(inserted) ==
    IF inserted
    THEN /\ DispatchRDY /\ asked' = asked \cup waiters /\ UNCHANGED signalled
    ELSE UNCHANGED subscriptions
Asks(c) ==
    /\ collecting[c].at = "sim"
    /\ \/ /\ Answered(card # NoCard)
          /\ Reads(c, [collecting[c] EXCEPT !.inserted = (card # NoCard),
                          !.at = IF card # NoCard THEN "imsi" ELSE "iccid"])
       \/ /\ Reads(c, [collecting[c] EXCEPT !.clean = FALSE, !.at = "iccid"])
          /\ UNCHANGED subscriptions
    /\ UNCHANGED <<card, phase, status, blurred, alerts, events>>

\* AT+CIMI and AT+QCCID; a failure leaves nothing, and no trace.
Learns(c) ==
    /\ \/ /\ collecting[c].at = "imsi"
          /\ \/ Reads(c, [collecting[c] EXCEPT !.at = "iccid", !.imsi = card])
             \/ Reads(c, [collecting[c] EXCEPT !.at = "iccid", !.clean = FALSE])
       \/ /\ collecting[c].at = "iccid"
          /\ \/ Reads(c, [collecting[c] EXCEPT !.at = "update", !.iccid = card])
             \/ Reads(c, [collecting[c] EXCEPT !.at = "update", !.clean = FALSE])
    /\ UNCHANGED <<card, phase, status, blurred, alerts, subscriptions, events>>

\* collectDeviceInfo under infoMu: what could not be read stays as it was.
Or(new, old) == IF new # NoCard THEN new ELSE old
Update(c) ==
    /\ collecting[c].at = "update"
    /\ status' = [iccid |-> Or(collecting[c].iccid, status.iccid),
                  imsi |-> Or(collecting[c].imsi, status.imsi),
                  inserted |-> collecting[c].inserted]
    /\ blurred' = ~(collecting[c].clean /\ collecting[c].inserted)
    /\ Reads(c, Resting)
    /\ UNCHANGED <<card, phase, alerts, subscriptions, events>>
-----------------------------------------------------------------------------
\* RefreshStatus: the look, which may fail, and the update under infoMu.
Look(w) ==
    /\ watching[w] = "idle" /\ phase = "ready"
    /\ \/ /\ watching' = [watching EXCEPT ![w] = IF card # NoCard THEN "seen" ELSE "missed"]
          /\ Answered(card # NoCard)
       \/ /\ watching' = [watching EXCEPT ![w] = "missed"]
          /\ UNCHANGED subscriptions
    /\ UNCHANGED <<card, collects, misses, alerting, calls, toldSim, crossed, events>>

\* The callbacks run in goroutines of their own.
Tells(what) ==
    /\ calls' = calls \cup {what}
    /\ crossed' = (crossed \/ calls # {})
Missed(w) ==
    /\ watching[w] = "missed" /\ watching' = [watching EXCEPT ![w] = "idle"]
    /\ misses' = IF misses < Limit THEN misses + 1 ELSE misses
    /\ IF misses' = Limit /\ ~alerting THEN alerting' = TRUE /\ Tells("alert")
       ELSE UNCHANGED <<alerting, calls, crossed>>
    /\ UNCHANGED <<card, collects, toldSim, subscriptions, events>>

Seen(w) ==
    /\ watching[w] = "seen" /\ watching' = [watching EXCEPT ![w] = "idle"]
    /\ misses' = 0 /\ alerting' = FALSE
    /\ IF alerting THEN Tells("recovery") ELSE UNCHANGED <<calls, crossed>>
    /\ UNCHANGED <<card, collects, toldSim, subscriptions, events>>

Calls(what) ==
    /\ what \in calls /\ calls' = calls \ {what} /\ toldSim' = what
    /\ UNCHANGED <<card, collects, watching, misses, alerting, crossed, subscriptions, events>>
-----------------------------------------------------------------------------
SubscribeRDY(s) ==
    /\ s \notin waiters \cup woken
    /\ waiters' = waiters \cup {s}
    /\ UNCHANGED <<card, collects, alerts, woken, signalled, asked, events>>

\* The modem restarts and says RDY; or a card is put in or taken out, and one put
\* in may make it say +CPIN: READY.
Happens == events < MaxEvents /\ events' = events + 1
Stained == [c \in Collector |-> IF collecting[c] = Resting THEN Resting
                                ELSE [collecting[c] EXCEPT !.clean = FALSE]]
Restarts ==
    /\ Happens /\ DispatchRDY /\ signalled' = signalled \cup waiters
    /\ UNCHANGED <<card, collects, alerts, asked>>
ChangesCard ==
    /\ Happens /\ card' \in (Card \cup {NoCard}) \ {card}
    /\ blurred' = TRUE /\ collecting' = Stained
    /\ Answered(card' # NoCard) \/ UNCHANGED subscriptions
    /\ UNCHANGED <<phase, status, alerts>>

Next ==
    \/ Probe
    \/ \E c \in Collector : Collect(c) \/ Asks(c) \/ Learns(c) \/ Update(c)
    \/ \E w \in Watcher : Look(w) \/ Missed(w) \/ Seen(w)
    \/ \E what \in {"alert", "recovery"} : Calls(what)
    \/ \E s \in Subscriber : SubscribeRDY(s)
    \/ Restarts \/ ChangesCard

\* The status after a collection that no failure and no change of the card met is
\* of that card alone, also when an older collection was overtaken: an IMSI with
\* the ICCID of another card is left only by those that met one.
StatusIsOfOneCard ==
    ~blurred => status.iccid = card /\ status.imsi = card /\ status.inserted

\* When nothing is left to tell, what was told last of the SIM is what the watch
\* holds of it, unless the goroutines of an alert and of its end ran together:
\* RefreshStatus.
LastToldIsSo ==
    calls = {} /\ ~crossed => (alerting <=> toldSim = "alert")

\* A subscriber is woken by a restart, or by an answer READY that somebody's
\* question had, and stays subscribed until then: SubscribeRDY, dispatchRDY.
WokenBySomething ==
    /\ woken = signalled \cup asked
    /\ waiters \cap woken = {}

StatusIsTrue == StatusIsOfOneCard /\ LastToldIsSo /\ WokenBySomething
=============================================================================
