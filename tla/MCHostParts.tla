---------------------------- MODULE MCHostParts -----------------------------
(* Parts that share no state: the reception of messages by the modem manager *)
(* (SMSStorage, of MCSMSStorage), and those named below.  A behaviour is one *)
(* of one part, as nothing is gained by interleaving them, so that the parts *)
(* also have their variables in common: those of a part are the first ones   *)
(* of x1, x2, ..., as many as Width says, and the others stay 0.             *)
EXTENDS MCSMSStorage

CONSTANTS
    Messages, Parts, Whole, Kept, Services, MaxFaults, Profiles, Note,
    MaxFailed, Slots, MaxTroubles, Workers, MaxSeconds, NoProfile, Requests,
    MaxSwitches, MaxLosses, Cards, Eid, Elements, Branded, NoEid, NoCard, Watched,
    MaxGeneration, MaxSwaps, MaxScans, Collectors, Watchers,
    Subscribers, MaxEvents, MaxMutex, MaxChannelStops, NoOne, Clients,
    Authenticators, MaxDisturbances, MaxUssd, Callers, MaxCommands, MaxLost,
    Room, Dialers, Network, NoText, MaxDials, MaxWords, MaxCalls, MaxClients,
    Segments, MaxTimeouts, MaxOthers, UimRequests, UimChannels, Waiters,
    MaxInvalidations, LastChannel
VARIABLES
    part, x1, x2, x3, x4, x5, x6, x7, x8, x9, x10, x11, x12, x13, x14, x15, x16

ASSUME InboxAssumption ==
    /\ IsFiniteSet(Messages) /\ Kept \in Nat /\ Parts # {}
    /\ Messages \cap Parts = {} /\ Whole \notin Messages \cup Parts
ASSUME PolicyAssumption == MaxFaults \in Nat
ASSUME SetupAssumption == MaxSeconds \in Nat \ {0}
ASSUME PhonebookAssumption ==
    /\ Note \cap {"none", "unknown"} = {} /\ Profiles \cap {"free", "contact"} = {}
    /\ Slots \in Nat \ {0} /\ MaxTroubles \in Nat
ASSUME NotesAssumption == "absent" \notin Note /\ MaxFailed \in Nat
ASSUME UimAssumption ==
    /\ NoOne \notin UimRequests
    /\ MaxMutex \in Nat /\ MaxChannelStops \in Nat

ASSUME AtAssumption ==
    /\ LastChannel \in Nat \ {0} /\ MaxDisturbances \in Nat
    /\ "closed" \notin Clients \cup Authenticators

\* An EID is of one eUICC, and so of one card; a card need not answer every AID.
ASSUME ChipAssumption ==
    /\ MaxGeneration \in Nat \ {0} /\ NoEid \notin Eid
    /\ Elements \in [Cards -> Seq(Eid \cup {NoEid})]
    /\ \A k, l \in Cards :
          /\ Len(Elements[k]) = Len(Elements[l])
          /\ \A a \in DOMAIN Elements[k], b \in DOMAIN Elements[l] :
                Elements[k][a] = Elements[l][b] /\ Elements[k][a] # NoEid => k = l
ASSUME StatusAssumption == Watched \subseteq Cards /\ NoCard \notin Cards
ASSUME PagesBounds ==
    {MaxSwitches, MaxLosses, MaxSwaps, MaxScans, MaxEvents} \subseteq Nat
ASSUME TransportBounds ==
    {MaxUssd, MaxDials, MaxWords, MaxCommands, MaxLost, Room, MaxCalls, MaxClients,
     Segments, MaxTimeouts, MaxOthers} \subseteq Nat
ASSUME CallersAssumption ==
    /\ NoText \notin Dialers \cup {Network} /\ "nobody" \notin Callers
    /\ Segments # 0 /\ MaxClients # 0

MCElements == [k1 |-> <<"e1", "e2">>, k2 |-> <<"e3", "e3">>]

I == INSTANCE HostInbox WITH
        store <- x1, selected <- x2, unsent <- x3, locked <- x4, at <- x5,
        memory <- x6, read <- x7, parts <- x8, inbox <- x9, autoClean <- x10,
        listed <- x11, shown <- x12, lost <- x13, forgotten <- x14,
        cut <- x15
P == INSTANCE HostPolicy WITH
        route <- x1, enabled <- x2, policy <- x3, saved <- x4, step <- x5,
        repair <- x6, toldForce <- x7, denied <- x8, orphans <- x9,
        faults <- x10, Service <- Services
N == INSTANCE ProfileNotes WITH
        noted <- x1, notesFile <- x2, legacy <- x3, toldNote <- x4, maybe <- x5,
        failed <- x6, Profile <- Profiles
B == INSTANCE ModulePhonebook WITH
        book <- x1, selected <- x2, saver <- x3, prober <- x4, disturbed <- x5,
        spoiled <- x6, toldEntry <- x7, troubles <- x8, Profile <- Profiles
W == INSTANCE ModuleSetup WITH
        stored <- x1, inUse <- x2, setup <- x3, place <- x4, original <- x5,
        backup <- x6, second <- x7, last <- x8, mixed <- x9, changing <- x10,
        Worker <- Workers
E == INSTANCE HostEsim WITH
        installed <- x1, enabled <- x2, session <- x3, usb <- x4, request <- x5,
        page <- x6, warned <- x7, unsaid <- x8, restarting <- x9,
        switches <- x10, losses <- x11, Profile <- Profiles
C == INSTANCE EuiccChip WITH
        card <- x1, noticed <- x2, generation <- x3, chip <- x4, shown <- x5,
        discovered <- x6, scan <- x7, late <- x8, swaps <- x9, scans <- x10,
        Card <- Cards, Estk <- {1, 2}
S == INSTANCE ModemStatus WITH
        card <- x1, phase <- x2, status <- x3, blurred <- x4, collecting <- x5,
        watching <- x6, misses <- x7, alerting <- x8, calls <- x9,
        toldSim <- x10, crossed <- x11, waiters <- x12, woken <- x13,
        signalled <- x14, asked <- x15, events <- x16, Card <- Cards,
        Collector <- Collectors, Watcher <- {}, Subscriber <- Subscribers
\* The watch on the SIM, without the collections of the part before.
R == INSTANCE ModemStatus WITH
        card <- x1, phase <- x2, status <- x3, blurred <- x4, collecting <- x5,
        watching <- x6, misses <- x7, alerting <- x8, calls <- x9,
        toldSim <- x10, crossed <- x11, waiters <- x12, woken <- x13,
        signalled <- x14, asked <- x15, events <- x16, Card <- Watched,
        Collector <- {}, Watcher <- Watchers, Subscriber <- Subscribers,
        MaxEvents <- MaxEvents + 1
H == INSTANCE EsimChannel WITH
        running <- x1, chanMu <- x2, made <- x3, holder <- x4, stops <- x5,
        born <- x6, stopping <- x7, sessions <- x8, open <- x9, call <- x10,
        pc <- x11, mine <- x12, Request <- UimRequests, Channel <- UimChannels,
        MaxStops <- MaxChannelStops
G == INSTANCE SimReadiness WITH
        generation <- x1, isReady <- x2, pc <- x3, snapshot <- x4, proven <- x5,
        Waiter <- Waiters, MaxGeneration <- MaxInvalidations
L == INSTANCE ATChannels WITH
        open <- x1, bound <- x2, at <- x3, mine <- x4, clearer <- x5,
        disturbed <- x6, owed <- x7, leased <- x8, basic <- x9, waiting <- x10,
        disturbances <- x11, Client <- Clients, Authenticator <- Authenticators,
        Channel <- 1..LastChannel
U == INSTANCE UssdSession WITH
        ussd <- x1, await <- x2, results <- x3, errors <- x4, releases <- x5,
        domain <- x6, session <- x7, events <- x8, told <- x9, gaveUp <- x10,
        mistaken <- x11
T == INSTANCE ATUssd WITH
        dial <- x1, ussdChan <- x2, due <- x3, said <- x4, excused <- x5,
        halted <- x6, dials <- x7, words <- x8, Dialer <- Dialers
D == INSTANCE MbimDevice WITH
        nextTx <- x1, writer <- x2, at <- x3, tx <- x4, sent <- x5,
        pending <- x6, box <- x7, got <- x8, reading <- x9, collector <- x10,
        indications <- x11, closed <- x12, toModem <- x13, fromModem <- x14,
        taken <- x15, lost <- x16
A == INSTANCE AdbClient WITH
        client <- x1, call <- x2, result <- x3, toModule <- x4,
        fromModule <- x5, streams <- x6, nextRemote <- x7, stored <- x8
V == INSTANCE SmsSending WITH
        sender <- x1, holder <- x2, heard <- x3, tasks <- x4, pipe <- x5,
        editor <- x6, accepted <- x7, toldSent <- x8, excused <- x9,
        timeouts <- x10, others <- x11, Message <- Callers

Width ==
    [sms |-> 0, inbox |-> 15, policy |-> 10, notes |-> 6, phonebook |-> 8,
    setup |-> 10, esim |-> 11, chip |-> 10, status |-> 16, watch |-> 16,
    uim |-> 12, gate |-> 5, at |-> 11, ussd |-> 11, dial |-> 8, mbim |-> 16,
    adb |-> 8, send |-> 11]

\* The variables that a part of so many leaves alone.
after14 == <<x15, x16>>
after12 == <<x13, x14, after14>>
after11 == <<x12, after12>>
after10 == <<x11, after11>>
after8 == <<x9, x10, after10>>
after6 == <<x7, x8, after8>>
after5 == <<x6, after6>>
after0 == <<x1, x2, x3, x4, x5, after5>>

Spare(n, x) == IF n <= Width[part] THEN TRUE ELSE x = 0
PartsInit ==
    /\ part \in DOMAIN Width
    /\ Init /\ (part = "sms" \/ Stored = {})
    /\ Spare(1, x1) /\ Spare(2, x2) /\ Spare(3, x3) /\ Spare(4, x4)
    /\ Spare(5, x5) /\ Spare(6, x6) /\ Spare(7, x7) /\ Spare(8, x8)
    /\ Spare(9, x9) /\ Spare(10, x10) /\ Spare(11, x11) /\ Spare(12, x12)
    /\ Spare(13, x13) /\ Spare(14, x14) /\ Spare(15, x15) /\ Spare(16, x16)
    /\ \/ part = "sms"
       \/ part = "inbox" /\ I!Init
       \/ part = "policy" /\ P!Init
       \/ part = "notes" /\ N!Init
       \/ part = "phonebook" /\ B!Init
       \/ part = "setup" /\ W!Init
       \/ part = "esim" /\ E!Init
       \/ part = "chip" /\ C!Init
       \/ part = "status" /\ S!Init
       \/ part = "watch" /\ R!Init
       \/ part = "uim" /\ H!Init
       \/ part = "gate" /\ G!Init
       \/ part = "at" /\ L!Init
       \/ part = "ussd" /\ U!Init
       \/ part = "dial" /\ T!Init
       \/ part = "mbim" /\ D!Init
       \/ part = "adb" /\ A!Init
       \/ part = "send" /\ V!Init

\* Bound: no more than two readers and sweeps of the storages run at a time.
TwoAtATime == Cardinality(Running') =< 2
PartsNext ==
    \/ part = "sms" /\ Next /\ TwoAtATime /\ UNCHANGED <<part, after0>>
    \/ part = "inbox" /\ I!Next /\ UNCHANGED <<part, vars, x16>>
    \/ part = "policy" /\ P!Next /\ UNCHANGED <<part, vars, after10>>
    \/ part = "notes" /\ N!Next /\ UNCHANGED <<part, vars, after6>>
    \/ part = "phonebook" /\ B!Next /\ UNCHANGED <<part, vars, after8>>
    \/ part = "setup" /\ ~W!Met /\ W!Next /\ UNCHANGED <<part, vars, after10>>
    \/ part = "esim" /\ E!Next /\ UNCHANGED <<part, vars, after11>>
    \/ part = "chip" /\ C!Next /\ UNCHANGED <<part, vars, after10>>
    \/ part = "status" /\ S!Next /\ UNCHANGED <<part, vars>>
    \/ part = "watch" /\ R!Next /\ UNCHANGED <<part, vars>>
    \/ part = "uim" /\ H!Next /\ UNCHANGED <<part, vars, after12>>
    \/ part = "gate" /\ G!Next /\ UNCHANGED <<part, vars, after5>>
    \/ part = "at" /\ L!Next /\ UNCHANGED <<part, vars, after11>>
    \/ part = "ussd" /\ U!Next /\ UNCHANGED <<part, vars, after11>>
    \/ part = "dial" /\ T!Next /\ UNCHANGED <<part, vars, after8>>
    \/ part = "mbim" /\ D!Next /\ UNCHANGED <<part, vars>>
    \/ part = "adb" /\ A!Next /\ UNCHANGED <<part, vars, after8>>
    \/ part = "send" /\ V!Next /\ UNCHANGED <<part, vars, after11>>
everything == <<part, vars, after0>>
PartsSpec == PartsInit /\ [][PartsNext]_everything

\* What the user's inbox shows, and what the server erases of it: see HostInbox.
InboxIsFaithful == part = "inbox" => I!TypeOK /\ I!InboxIsFaithful

\* What was set is kept, and what is said of it is so: the policy of the mobile
\* network, the notes of profiles in the file and in the phonebook, the set-up of
\* the module, each see its module.
SettingsAreKept ==
    /\ part = "policy" => P!TypeOK /\ P!BlockedIsRecorded
    /\ part = "notes" => N!TypeOK /\ N!NotesAreSaved
    /\ part = "phonebook" => B!TypeOK /\ B!PhonebookIsKept
    /\ part = "setup" => W!TypeOK /\ W!SetupIsHonest

\* What the pages tell of the card is of the card in the modem: the health page,
\* the data of the eUICC, the status of the modem and its SIM, each see its
\* module.
PagesAreTrue ==
    /\ part = "esim" => E!TypeOK /\ E!HealthIsHonest
    /\ part = "chip" => C!TypeOK /\ C!ChipIsOfCard
    /\ part = "status" => S!TypeOK /\ S!StatusIsTrue
    /\ part = "watch" => R!TypeOK /\ R!StatusIsTrue

\* A channel carries what its owner sent, one exchange at a time, and SIM
\* authentication goes on only on a probe's fresh evidence: see EsimChannel,
\* ATChannels and SimReadiness.
CardAccessIsSound ==
    /\ part = "uim" => H!TypeOK /\ H!ChannelIsSerial
    /\ part = "at" => L!TypeOK /\ L!ChannelsAreKept
    /\ part = "gate" => G!TypeOK /\ G!GateIsSound

\* Each transport tells a caller only what is of its own request: USSD over QMI
\* and over AT, the MBIM device, the ADB client and the USB AT link with a text
\* message to send, each see its module.
AnswersAreOwn ==
    /\ part = "ussd" => U!TypeOK /\ U!AnswersAreOwn
    /\ part = "dial" => T!TypeOK /\ T!AnswersAreOwn
    /\ part = "mbim" => D!TypeOK /\ D!AnswersAreOwn
    /\ part = "adb" => A!TypeOK /\ A!ToldIsDone
    /\ part = "send" => V!TypeOK /\ V!SentIsAccepted
=============================================================================
