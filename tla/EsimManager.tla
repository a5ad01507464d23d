---------------------------- MODULE EsimManager ----------------------------
(* The eSIM manager, internal/esim/manager.go: one operation at a time holds  *)
(* opMu, opens an LPA client, for a change of profile takes a barrier of the  *)
(* APDU arbiter and tells its owner before and after, changes the card and    *)
(* throws away or patches the cached overview.  Overviews are loaded without  *)
(* opMu, one flight per generation, and may overlap an operation that begins  *)
(* after they have looked at the lock.  The card's profiles are a version of  *)
(* them, that every change raises.                                            *)
EXTENDS Naturals

CONSTANTS
    NoOverview,     \* overviewCache is nil
    NoWork,         \* nobody holds opMu
    NoFlight,       \* nothing is loaded
    Reading,        \* something is, and nothing of it was read
    MaxGeneration,  \* bound: overviewGeneration
    MaxVersion,     \* bound: changes of the card
    MaxToken        \* bound: changes of profile that were announced

VARIABLES
    card,       \* the version of its profiles
    cache,      \* overviewCache: the version it shows
    generation, \* overviewGeneration
    floor,      \* history: the card's version when generation was last raised
    flight,     \* flight[g]: the load for generation g: not there, reading, or
                \* what it has read
    reloader,   \* overviewReloading unless "no": where its goroutine is
    joined,     \* the generation whose flight it waits for
    refresh,    \* what RefreshProfiles is about: none, reading, or what it has read
    overtaken,  \* history: the cache is of a refresh that read before floor was set
    suppressed, \* suppressOverviewReloadUntil is in the future
    work,       \* the operation that holds opMu
    client,     \* its LPA client, which it has not tried to close
    barrier,    \* it holds the barrier
    context,    \* downloadCtx is set
    token,      \* the last token of onBeforeSwitch
    due,        \* tokens whose onAfterSwitch or onSwitchFailed is about to run
    told        \* told[t]: how often one of the two was called for t

profiles == <<refresh, overtaken>>
overview == <<cache, generation, floor, flight, reloader, joined, profiles>>
lease == <<client, barrier, context>>
hooks == <<token, due, told>>
vars == <<card, overview, suppressed, work, lease, hooks>>

Generation == 1..MaxGeneration
Token == 1..MaxToken
Version == 0..MaxVersion
Switching == {"switch", "disable"}
Kind == Switching \cup {"rename", "delete", "download", "list"}
Work ==
    [kind : Kind, announced : BOOLEAN, accepted : BOOLEAN,
     pc : {"locked", "open", "announced", "blocked", "done", "failed", "trigger",
           "leaving"}]

Init ==
    /\ card = 0 /\ cache = NoOverview /\ generation = 1 /\ floor = 0
    /\ flight = [g \in Generation |-> NoFlight]
    /\ reloader = "no" /\ joined = 1 /\ suppressed = FALSE
    /\ refresh = NoFlight /\ overtaken = FALSE
    /\ work = NoWork
    /\ client = FALSE /\ barrier = FALSE /\ context = FALSE
    /\ token = 0 /\ due = {} /\ told = [t \in Token |-> 0]
-----------------------------------------------------------------------------
\* Loads.  A caller may have read the generation long before its flight begins;
\* the flight goes on without opMu once the lock was seen free.
StartLoad(g) ==
    /\ g <= generation /\ flight[g] = NoFlight
    /\ cache = NoOverview /\ work = NoWork /\ ~barrier
    /\ flight' = [flight EXCEPT ![g] = Reading]
    /\ UNCHANGED <<card, cache, generation, floor, reloader, joined, profiles,
                   suppressed, work, lease, hooks>>

Read(g) ==
    /\ flight[g] = Reading
    /\ flight' = [flight EXCEPT ![g] = card]
    /\ UNCHANGED <<card, cache, generation, floor, reloader, joined, profiles,
                   suppressed, work, lease, hooks>>

StoreAny(g) ==  \* mutant: the generation is not compared
    /\ flight[g] \in Version
    /\ cache' = flight[g] /\ overtaken' = FALSE
    /\ flight' = [flight EXCEPT ![g] = NoFlight]
    /\ UNCHANGED <<card, generation, floor, reloader, joined, refresh, suppressed,
                   work, lease, hooks>>

\* setOverviewCache.
Store(g) ==
    /\ flight[g] \in Version
    /\ cache' = IF g = generation THEN flight[g] ELSE cache
    /\ overtaken' = (overtaken /\ g # generation)
    /\ flight' = [flight EXCEPT ![g] = NoFlight]
    /\ UNCHANGED <<card, generation, floor, reloader, joined, refresh, suppressed,
                   work, lease, hooks>>

LoadFails(g) ==
    /\ flight[g] # NoFlight
    /\ cache' = IF g = generation THEN NoOverview ELSE cache
    /\ overtaken' = (overtaken /\ g # generation)
    /\ flight' = [flight EXCEPT ![g] = NoFlight]
    /\ UNCHANGED <<card, generation, floor, reloader, joined, refresh, suppressed,
                   work, lease, hooks>>

\* RefreshProfiles reads the profiles as a load does, whatever is cached, and
\* stores them whatever the generation is, in an overview of their own if there
\* is none.  Bound: one at a time.
RefreshBegins ==
    /\ refresh = NoFlight /\ work = NoWork /\ ~barrier
    /\ refresh' = Reading
    /\ UNCHANGED <<card, cache, generation, floor, flight, reloader, joined,
                   overtaken, suppressed, work, lease, hooks>>

RefreshReads ==
    /\ refresh = Reading
    /\ refresh' = card
    /\ UNCHANGED <<card, cache, generation, floor, flight, reloader, joined,
                   overtaken, suppressed, work, lease, hooks>>

RefreshStores ==
    /\ refresh \in Version
    /\ cache' = refresh /\ overtaken' = (refresh < floor)
    /\ refresh' = NoFlight
    /\ UNCHANGED <<card, generation, floor, flight, reloader, joined, suppressed,
                   work, lease, hooks>>

RefreshFails ==
    /\ refresh # NoFlight /\ refresh' = NoFlight
    /\ UNCHANGED <<card, cache, generation, floor, flight, reloader, joined,
                   overtaken, suppressed, work, lease, hooks>>

\* The overview is thrown away and later flights have a key of their own.
Raise ==
    /\ generation < MaxGeneration
    /\ generation' = generation + 1
    /\ floor' = card
    /\ cache' = NoOverview /\ overtaken' = FALSE
    /\ UNCHANGED <<flight, refresh>>

\* triggerOverviewReload.
Trigger ==
    /\ reloader' = IF reloader = "no" THEN "waiting" ELSE reloader
    /\ UNCHANGED joined

\* Its goroutine waits for the window, then joins the flight of the generation
\* or starts it, and is done when that flight is.
ReloaderGoes ==
    /\ reloader = "waiting" /\ ~suppressed
    /\ \/ /\ cache # NoOverview \/ work # NoWork \/ barrier
          /\ reloader' = "no" /\ UNCHANGED <<flight, joined>>
       \/ /\ cache = NoOverview
          /\ flight[generation] # NoFlight \/ (work = NoWork /\ ~barrier)
          /\ reloader' = "loading" /\ joined' = generation
          /\ flight' = [flight EXCEPT ![generation] =
                            IF @ = NoFlight THEN Reading ELSE @]
    /\ UNCHANGED <<card, cache, generation, floor, profiles, suppressed, work,
                   lease, hooks>>

ReloaderEnds ==
    /\ reloader = "loading" /\ flight[joined] = NoFlight
    /\ reloader' = "no" /\ joined' = 1
    /\ UNCHANGED <<card, cache, generation, floor, flight, profiles, suppressed,
                   work, lease, hooks>>

\* RefreshOverview, when no reload is in progress.
RefreshOverview ==
    /\ ~suppressed /\ reloader = "no"
    /\ Raise
    /\ UNCHANGED <<card, reloader, joined, suppressed, work, lease, hooks>>

\* NotifyUIMIndication leaves the overview alone within the window;
\* NotifyModemReset only does not reload it.
NotifyUIMIndication ==
    /\ ~suppressed
    /\ Raise /\ Trigger
    /\ UNCHANGED <<card, suppressed, work, lease, hooks>>

NotifyModemReset ==
    /\ Raise
    /\ IF suppressed THEN UNCHANGED <<reloader, joined>> ELSE Trigger
    /\ UNCHANGED <<card, suppressed, work, lease, hooks>>

WindowEnds ==
    /\ suppressed /\ suppressed' = FALSE
    /\ UNCHANGED <<card, overview, work, lease, hooks>>
-----------------------------------------------------------------------------
\* Operations.
At(kinds, pc) == work # NoWork /\ work.kind \in kinds /\ work.pc = pc
GoTo(pc) == work' = [work EXCEPT !.pc = pc]

Begin(kind) ==
    /\ work = NoWork
    /\ work' = [kind |-> kind, pc |-> "locked",
                announced |-> FALSE, accepted |-> FALSE]
    /\ context' = (kind = "download")
    /\ UNCHANGED <<card, overview, suppressed, client, barrier, hooks>>

\* An unknown ICCID, AID or server, or a client that cannot be opened.
Refuse ==
    /\ At(Kind, "locked") \/ At({"download", "list"}, "open")
    /\ GoTo("leaving")
    /\ UNCHANGED <<card, overview, suppressed, lease, hooks>>

Open ==
    /\ At(Kind, "locked")
    /\ GoTo("open") /\ client' = TRUE
    /\ UNCHANGED <<card, overview, suppressed, barrier, context, hooks>>

Announce ==
    /\ At(Switching, "open") /\ token < MaxToken
    /\ token' = token + 1
    /\ work' = [work EXCEPT !.pc = "announced", !.announced = TRUE]
    /\ UNCHANGED <<card, overview, suppressed, lease, due, told>>

\* The barrier is had, and the window of a switch begins before its command; or
\* the caller's context ends first.
Block ==
    /\ At(Switching, "announced")
    /\ \/ /\ barrier' = TRUE /\ GoTo("blocked")
          /\ suppressed' = (suppressed \/ work.kind = "switch")
       \/ GoTo("leaving") /\ UNCHANGED <<barrier, suppressed>>
    /\ UNCHANGED <<card, overview, client, context, hooks>>

\* The command.  An error may mean that the card did not do it, or that only
\* its answer is missing.
Change == IF work.kind = "list" THEN card ELSE card + 1

Command ==
    /\ At(Switching, "blocked") \/ At(Kind \ Switching, "open")
    /\ card < MaxVersion \/ work.kind = "list"
    /\ \/ card' = Change /\ GoTo("done")
       \/ card' \in {card, Change} /\ GoTo("failed")
    /\ UNCHANGED <<overview, suppressed, lease, hooks>>

\* After a change of profile the client is closed and the barrier released.
Release ==
    /\ work # NoWork /\ work.kind \in Switching /\ barrier
    /\ work.pc \in {"done", "failed"}
    /\ client' = FALSE /\ barrier' = FALSE
    /\ UNCHANGED <<card, overview, suppressed, work, context, hooks>>

\* A switch makes its own change in the overview, if there is one that lists the
\* profile, and leaves the generation as it is.
Accept ==
    /\ At({"switch"}, "done") /\ ~barrier
    /\ cache' \in {cache, IF cache = card - 1 THEN card ELSE cache}
    /\ due' = due \cup {token}
    /\ work' = [work EXCEPT !.pc = "leaving", !.accepted = TRUE]
    /\ UNCHANGED <<card, generation, floor, flight, reloader, joined, profiles,
                   suppressed, lease, token, told>>

Invalidate ==
    /\ \/ At({"disable"}, "done") /\ ~barrier /\ suppressed' = TRUE
          /\ GoTo("trigger")
       \/ At({"rename", "delete"}, "done") /\ GoTo("trigger") /\ UNCHANGED suppressed
       \/ At({"download"}, "done") /\ GoTo("trigger") /\ suppressed' = TRUE
       \/ At({"download"}, "failed") /\ GoTo("leaving") /\ UNCHANGED suppressed
    /\ Raise
    /\ UNCHANGED <<card, reloader, joined, lease, hooks>>

Reload ==
    /\ At(Kind, "trigger")
    /\ Trigger
    /\ due' = IF work.announced THEN due \cup {token} ELSE due
    /\ work' = [work EXCEPT !.pc = "leaving", !.accepted = TRUE]
    /\ UNCHANGED <<card, cache, generation, floor, flight, profiles, suppressed,
                   lease, token, told>>

GiveUp ==
    /\ \/ At(Switching, "failed") /\ ~barrier
       \/ At({"rename", "delete", "list"}, "failed")
       \/ At({"list"}, "done")
    /\ GoTo("leaving")
    /\ UNCHANGED <<card, overview, suppressed, lease, hooks>>

LeaveUnreleased ==  \* mutant: a failure leaves the barrier and tells nobody
    /\ At(Kind, "leaving")
    /\ work' = NoWork
    /\ client' = FALSE /\ context' = FALSE
    /\ UNCHANGED <<card, overview, suppressed, barrier, hooks>>

\* The deferred calls: barrier, client, context, opMu; a change of profile that
\* was announced and not accepted is then told to have failed.
Leave ==
    /\ At(Kind, "leaving")
    /\ work' = NoWork
    /\ client' = FALSE /\ barrier' = FALSE /\ context' = FALSE
    /\ due' = IF work.announced /\ ~work.accepted THEN due \cup {token} ELSE due
    /\ UNCHANGED <<card, overview, suppressed, token, told>>

\* finishPostSwitchHook, or onSwitchFailed.
Tell(t) ==
    /\ t \in due
    /\ due' = due \ {t}
    /\ told' = [told EXCEPT ![t] = @ + 1]
    /\ UNCHANGED <<card, overview, suppressed, work, lease, token>>

Loads ==
    \/ \E g \in Generation : StartLoad(g) \/ Read(g) \/ Store(g) \/ LoadFails(g)
    \/ \/ ReloaderGoes \/ ReloaderEnds
    \/ RefreshBegins \/ RefreshReads \/ RefreshStores \/ RefreshFails
    \/ RefreshOverview \/ NotifyUIMIndication \/ NotifyModemReset \/ WindowEnds
Operations ==
    \/ \E kind \in Kind : Begin(kind)
    \/ Refuse \/ Open \/ Announce \/ Block \/ Command \/ Release \/ Accept
    \/ Invalidate \/ Reload \/ GiveUp \/ Leave
    \/ \E t \in Token : Tell(t)
Next == Loads \/ Operations

Spec == Init /\ [][Next]_vars
-----------------------------------------------------------------------------
TypeOK ==
    /\ card \in Version /\ cache \in {NoOverview} \cup Version
    /\ generation \in Generation /\ floor \in Version
    /\ flight \in [Generation -> {NoFlight, Reading} \cup Version]
    /\ reloader \in {"no", "waiting", "loading"} /\ joined \in Generation
    /\ refresh \in {NoFlight, Reading} \cup Version
    /\ {overtaken, suppressed, client, barrier, context} \subseteq BOOLEAN
    /\ work \in {NoWork} \cup Work
    /\ token \in 0..MaxToken /\ due \subseteq Token /\ told \in [Token -> Nat]

\* An overview that was read before a change of the card is not served once that
\* change has thrown the overview away, although loads run without the lock and
\* may end long after: what is stored is compared with the generation.  Except
\* by RefreshProfiles, which does not compare: what it has read before such a
\* change is served until the overview is thrown away or stored again.
OverviewIsCurrent == cache # NoOverview /\ ~overtaken => cache >= floor

\* Whatever fails, an operation that is over holds no barrier, no client and no
\* context of a download, and of every change of profile that was announced the
\* owner hears exactly once how it ended.
NothingIsHeld ==
    /\ client \/ barrier => work # NoWork
    /\ barrier => work.announced
    /\ context => work # NoWork /\ work.kind = "download"
EndIsTold ==
    \A t \in Token :
        told[t] + (IF t \in due THEN 1 ELSE 0) =
          IF t > token \/ (t = token /\ work # NoWork /\ work.announced /\ ~work.accepted)
          THEN 0 ELSE 1
OperationsEndCleanly == NothingIsHeld /\ EndIsTold
=============================================================================
