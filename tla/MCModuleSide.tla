---------------------------- MODULE MCModuleSide ----------------------------
(* Parts that share no state: the notification daemon on the module, its     *)
(* configuration, the eSIM manager with what it does for notifications of    *)
(* the eUICC, and what the host deploys on the module.  A behaviour is one   *)
(* of one part, as nothing is gained by interleaving them.                   *)
EXTENDS NotifyDaemon, TLC

CONSTANTS m1, m2, call1, bark, SIM, NV
CONSTANTS NoOverview, Default, NoOne, NoWork, NoFlight, Reading, MaxGeneration, MaxVersion, MaxToken,
    Profiles, Values, MaxSeq, Idle
VARIABLES
    part,
    card, overview, generation, floor, flight, reloader, joined, refresh, overtaken,
    suppressed, work, client, barrier, context, token, due, told,
    installed, issued, pending, received, op, clean, withheld,
    file, key, once, voice, guard, link, sentinelLink, temp, sentinel, voiceDaemon,
    launcher, req, left

\* The daemon has two messages in the storages of the SIM and the module, a call
\* ID and one transport.
MCSms == {m1, m2}
MCCall == {call1}
MCTransport == {bark}
MCStorage == {SIM, NV}
MCContents == {{}, {m1}, {m1, m2}}
MCSettings ==
    {[on |-> {bark}, show |-> Kind], [on |-> {bark}, show |-> {}],
     [on |-> {}, show |-> Kind]}
MCInstalled == {[on |-> {bark}, show |-> Kind]}

E == INSTANCE EsimManager WITH cache <- overview
N == INSTANCE EsimNotifications WITH Profile <- Profiles
D == INSTANCE ModuleDeploy WITH session <- voice, daemon <- voiceDaemon
\* The configuration has its variables in some of the deployment's.
K == INSTANCE NotifyControl WITH Slot <- Profiles, Setting <- Values,
        daemon <- voiceDaemon, sender <- once, conn <- link, turn <- guard,
        importing <- temp, inEffect <- voice, doubtful <- left, misled <- req

manager == <<card, overview, generation, floor, flight, reloader, joined, refresh,
             overtaken, suppressed, work, client, barrier, context, token, due, told>>
notes == <<installed, issued, pending, received, op, clean, withheld>>
deployed == <<file, key, once, voice, guard, link, sentinelLink, temp, sentinel,
              voiceDaemon, launcher, req, left>>

ASSUME ManagerAssumption ==
    /\ MaxGeneration \in Nat \ {0} /\ MaxVersion \in Nat /\ MaxToken \in Nat
    /\ {NoOverview, NoFlight, Reading} \cap (0..MaxVersion) = {}
    /\ NoFlight # Reading /\ NoWork \notin E!Work
ASSUME NotesAssumption == MaxSeq \in Nat
ASSUME ControlAssumption == NoOne \notin Profiles

\* The variables of the parts a behaviour is not one of.
NoManager ==
    /\ card = 0 /\ overview = 0 /\ generation = 0 /\ floor = 0 /\ flight = 0
    /\ reloader = 0 /\ joined = 0 /\ refresh = 0 /\ overtaken = 0
    /\ suppressed = 0 /\ work = 0 /\ client = 0
    /\ barrier = 0 /\ context = 0 /\ token = 0 /\ due = 0 /\ told = 0
NoNotes ==
    /\ installed = 0 /\ issued = 0 /\ pending = 0 /\ received = 0 /\ op = 0
    /\ clean = 0 /\ withheld = 0
NoDeploy ==
    /\ file = 0 /\ key = 0 /\ once = 0 /\ voice = 0 /\ guard = 0 /\ link = 0
    /\ sentinelLink = 0 /\ temp = 0 /\ sentinel = 0 /\ voiceDaemon = 0
    /\ launcher = 0 /\ req = 0 /\ left = 0

SideInit ==
    \/ /\ part = "daemon" /\ Init
       /\ NoManager /\ NoNotes /\ NoDeploy
    \/ /\ Init /\ config = CHOOSE c \in Installed : TRUE
       /\ \/ part = "manager" /\ E!Init /\ NoNotes /\ NoDeploy
          \/ part = "notes" /\ NoManager /\ N!Init /\ NoDeploy
          \/ /\ part = "deploy" /\ NoManager /\ NoNotes
             /\ D!Init /\ link = sentinelLink
          \/ /\ part = "control" /\ NoManager /\ NoNotes
             /\ K!Init /\ key = 0 /\ sentinelLink = 0 /\ sentinel = 0 /\ launcher = 0

\* The bounds of the eSIM manager end its behaviours.
Rest ==
    /\ part = "manager"
    /\ UNCHANGED <<part, vars, manager, notes, deployed>>

SideNext ==
    \/ part = "daemon" /\ Next /\ UNCHANGED <<part, manager, notes, deployed>>
    \/ part = "manager" /\ E!Next /\ UNCHANGED <<part, vars, notes, deployed>>
    \/ part = "notes" /\ N!Next /\ UNCHANGED <<part, vars, manager, deployed>>
    \/ part = "deploy" /\ D!Next /\ UNCHANGED <<part, vars, manager, notes>>
    \/ /\ part = "control" /\ K!Next
       /\ UNCHANGED <<part, vars, manager, notes, key, sentinelLink, sentinel, launcher>>
    \/ Rest
SideSymmetry == Permutations(MCStorage) \cup Permutations(Profiles)
SideSpec == SideInit /\ [][SideNext]_<<part, vars, manager, notes, deployed>>

\* Bounds of the run.  The settings change before the restart.  RefreshProfiles
\* does not run beside the goroutine of a reload, and does not begin when the
\* generation can be raised no more.  The start scripts of a boot do not wait
\* beside daemons left in /tmp, and a request begins while at most one thing was
\* left without its cleanup.
SettingsBeforeStop == stops' > 0 => settings' = settings
RefreshOrReload ==
    /\ refresh' # NoFlight => reloader' = "no"
    /\ refresh' = Reading /\ refresh # Reading => generation' < MaxGeneration
OnlyScriptsOrTries == temp' # {} => launcher' = {}
FewLeft == req.op = "none" /\ req'.op # "none" => Cardinality(left) =< 1
Bounds ==
    /\ part = "daemon" => SettingsBeforeStop
    /\ part = "manager" => RefreshOrReload
    /\ part = "deploy" => OnlyScriptsOrTries /\ FewLeft
BoundedSpec ==
    SideInit /\ [][SideNext /\ Bounds]_<<part, vars, manager, notes, deployed>>

\* The cached overview is not older than what threw the last one away: see
\* EsimManager.
OverviewIsCurrent == part = "manager" => E!TypeOK /\ E!OverviewIsCurrent

\* What an eSIM operation held is given back and what it announced is told to
\* have ended, whatever fails: see EsimManager.
OperationsEndCleanly == part = "manager" => E!OperationsEndCleanly

\* No notification of the eUICC is lost, and none of an earlier operation is
\* taken for that of this one: see EsimNotifications.
NotificationsAreKept == part = "notes" => N!TypeOK /\ N!NotificationsAreKept

\* What a start on the module finds is whole and is what was set: see ModuleDeploy
\* and NotifyControl.
StartsAreSound ==
    /\ part = "deploy" => D!TypeOK /\ D!ArmedIsWhole
    /\ part = "control" => K!TypeOK /\ K!ConfigurationIsKept
=============================================================================
