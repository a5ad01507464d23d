# TLA+ models of DJOneHub

DJOneHub lets a computer and an iPhone use a USB cellular module: calls, short
messages, eSIM profiles, push notifications. Go programs run on the host
(`cmd/djonehub-macos` over `internal/*`, `pkg/*`) and on the module
(`cmd/djonehub-notify`, the pairing server of `internal/modulepairing`), with C
daemons on the module (`module/`) and a Swift application on the phone (`ios/`).
This directory holds TLA+ models of the parts where order, failure and
concurrency decide whether the program is right, the TLC configurations that
check them, and TLAPS proofs about the most important of them.

    tlc -workers 2 -config MCApduArbiter.cfg MCApduArbiter
    tlapm ApduArbiterProofs.tla

`PROJECT.json` lists the components, the runs, for each definition of a model
the source lines it stands for, for each property a mutant of the code that
breaks it, the hazards with the properties about them, the findings and the
theorems. Section 5 says how long the proofs take.

## 1. Inventory

| Part | State it keeps | Operations | What is hard |
|---|---|---|---|
| Registry, `internal/modulepairing/store.go` | `registry.json`: devices, bootstrap and recovery hashes, one pending enrollment | prepare, commit, cancel, revoke, status | read-modify-write of a file, expiry, the only credential or the last device going |
| Pairing service and client, `server.go`, `ModuleAuthorizationClient.swift`, `ModuleAuthorizationModel` | Keychain record of each phone; connections served one at a time | begin, prepare, confirm backup, commit, cancel, revoke | requests and answers lost or late, the app killed, power loss |
| APDU arbiter, `internal/apduarbiter/arbiter.go` | sessions, transports, barrier, queue of tickets, watchdog timers | Begin*, End, ForceRelease, Touch, expiry | wake-ups, priority with ageing, a lease taken from a holder |
| Readiness gate, `simauth_ready.go` | readiness, its generation, one probe and its waiters | wait, invalidate | a probe that runs while the gate is invalidated |
| AT engine, `internal/modem/manager.go` | two command queues, pooled requests, receive channel, health flags | executeAT, SendSMS, the loop, the reader, the watchdog, Stop | late replies, recycled requests, who stops and who is told |
| Status and channels over AT, `manager.go`, `commands.go` | what is known of modem and SIM; logical channels and their sessions; one USSD channel | collections, the watch on the SIM, OpenLogicalChannel, Transmit, Clear, ExecuteUSSD | collections overlap; a channel's number is given again |
| SMS reception, `manager.go`, `pkg/smscodec/reassembler.go` | the module's selected storage and cells, parts that wait | a goroutine for each `+CMTI`, CheckAllSMS, Cleanup | goroutines interleave on one selected storage |
| Host server, `cmd/djonehub-macos/main.go` | inbox, USB AT link, mobile-data policy, notes of profiles, eSIM pages | poll, erase, open, recover, block, unblock, save, switch | files, several mutexes, a module that restarts at any moment |
| Module set-up, `module_setup.go` | one status, a backup named by the second | start, worker, roll back | check-then-act, a profile request beside it |
| Call poller and voice route, `calls.go`, `module_voice_upstream.go` | active call, teardown timer and its generation, route flags | poll, dial, answer, prewarm, teardown | a timer and a prewarm goroutine against a new call |
| USB AT exchange, `usbat_darwin.go` | the link's mutex, what is left to be read | Command, CommandWithPrompt | an exchange that gives up leaves the module at work |
| ADB client and deployment, `adb_darwin.go`, `module_voice_daemon_*.go`, `module_sentinel_darwin.go`, `module_sms_gateway_*.go` | streams; files and markers on the module | shell, push, pull; arm, disarm, install, try | a call that timed out; power lost between two files |
| eSIM manager, `internal/esim` | cached overview with generation, chip and product data, channel mutexes, notifications | enable, disable, download, delete, overview, notifications | caches and loads overlap, ways out of an operation |
| MBIM, `pkg/mbim` | transactions, fragment collectors | command, indications, end | answers against contexts, lost fragments |
| USSD of the QMI backend, `qmi_backend_ussd.go` | three channels of one place, a session to wait for | ExecuteUSSD, callbacks | the answer of a command that gave up |
| Notification daemon, `cmd/djonehub-notify`, `internal/modulepush` | state file (seen messages, queue), settings file, sends in flight | snapshots, results, ticks, control operations, start, stop | crash between file and send, full queue, two connections and a command line on one configuration |
| Parsers, codecs, configuration, logging, scripts, C daemons, user interfaces, other Swift code | little or none, or another program | conversions, pages | not modelled, see the last section |

How they interact: the host's HTTP handlers call the AT engine or the USB AT
link and, for the card, take leases of the arbiter; the engine's reader starts
the SMS goroutines, which call back into the engine; the eSIM manager works on
channels of the card under its own mutexes and under leases that may be refused;
the daemon on the module reads snapshots from a C monitor and is configured over
a socket; the phone reaches the pairing server through the module's network. In
this repository the arbiter and the serial AT engine are constructed by tests
and by library code; the models are of the packages.

What makes each part right: the registry never loses its last owner and changes
only for who is entitled; a phone the module authorized holds its credential;
leases held together are compatible and nobody overtakes; a command gets its own
answer and every call returns; a message that was received is told whole and not
erased unread; a call keeps its route; a status says what is so; what was
blocked, noted or set is kept through failures; caches and pages are of the card
that is in; operations release what they took; what starts at a boot is whole; a
notification is neither forgotten nor repeated.

## 2. Modules

| Module | Models |
|---|---|
| `PairingRegistry` | the registry's values and the pure part of each operation of the store |
| `AuthRegistry` | abstract: a set of valid secrets, granted and retired; refined by `PairingStore` |
| `PairingStore` | the store with its clock, any request in any order |
| `PairingProtocol` | phones with a Keychain, lossy requests to the server, power loss |
| `ApduArbiter`, `SimReadiness` | the arbiter and the gate, one action per critical section |
| `ATEngine` | callers, queues, `runLoop`, `readLoop`, watchdog, `Stop` |
| `ModemStatus` | collections of the status, the watch on the SIM, subscriptions to the restart |
| `ATChannels`, `ATUssd` | logical channels and USSD over AT commands |
| `SMSStorage` | `+CMTI` readers, the sweep, the reassembler, over the module's storages |
| `HostInbox`, `HostLink`, `HostPolicy`, `ProfileNotes`, `ModulePhonebook`, `ModuleSetup`, `HostEsim` | the parts of the host server |
| `SmsSending` | the segments of text messages over the USB AT link |
| `VoiceRoute` | the call poller, its goroutines, the timer, the route |
| `AdbClient`, `ModuleDeploy` | the ADB client; what is deployed on the module and starts there |
| `EsimManager`, `EsimNotifications`, `EsimChannel`, `EuiccChip` | operations with the overview; notifications; mutexes of channels; what is known of the chip |
| `MbimDevice`, `UssdSession` | commands over MBIM; USSD over QMI |
| `NotifyDaemon`, `NotifyControl` | `serveObserved` with its state; the operations on its configuration |

Each module's header says what is modelled and what is external.

Four modules compose. `MCHostSide` has the AT engine and the voice route,
`MCHostLive` these and the USB AT link, `MCModuleSide` the notification daemon
with its configuration, the eSIM manager with its notifications, and the
deployment; `MCHostParts` has SMS reception and seventeen further parts, whose
variables are the slots `x1` to `x16`, in common. In each a behaviour is one of
one part, chosen initially: the parts share no state, so that interleaving them
would add states and no behaviour of any part. Where parts do interact the
modules model both sides, as `PairingProtocol` does with phone and server,
`ATEngine` with callers, loop and reader, `EsimManager` with the owner's hooks
and the barrier, `VoiceRoute` with poller, timer and handlers.

How state and actions correspond to the code:

**Registry.** A secret stands for its SHA-256 hash and is drawn from a finite
set; `Sound(disk)` is `validState`. `disk` is the file between two requests, or
`NoRegistry` before it was made; the store locks it around each one. Time is a
counter; the three lifetimes are constants. `AuthRegistry` says what the store
is for, without pending enrollments, retries or clocks: members and a recovery
code, a first enrollment, further ones while there is a member, a recovery that
replaces everything at once; `PairingStore` implements it.

**Protocol.** A phone's task is one request: `begin` saves an enrollment before
anything is sent, a request waits in `conns`, the server takes them one at a
time, the answer may be lost, and the app may be killed with the record
surviving. `synced` is the registry that a power loss falls back to. With
`SyncCanFail = FALSE` a directory sync always succeeds after the rename. That is
a real assumption: with `TRUE`, `BoundSurvivesReboot` fails, because the store
answers an error for a rename that readers already see, and a retry is answered
from the file that was never synced (hazard at `store.go:336`).

**Arbiter.** A request is a ticket; its goroutine looks, sleeps until `notifyC`
is closed, and looks again. The watchdog may take a lease from a holder that
does not know. Age is two marks, aged and overdue, that appear at any moment.

**AT engine.** A line of the module is known by the command it replies to, so
that a late reply is seen as such. Pooled request objects, the two channels of
each, the priority of the queues and the second `select` of `runLoop` are kept.
A command that times out is followed by an ESC (`manager.go:651`), which the
module may answer with a line of its own: up to two replies that nobody waits
for. Left out: intermediate lines, URCs, silent commands.

**SMS.** A command of the engine is one step that succeeds or fails before or
after the module acted. Every message has a reassembly key of its own, the
engine gives every call its own reply (what `AnswerIsOwn` is about), `+CMTI`
always names the storage, an empty text counts as not complete. In `HostInbox`
an `ERROR` is an answer like others, as `usbAT.Command` has it.

**Notification daemon.** One pass of the loop is: an event, then reconciliation
with the settings and expiry (`Pass`), the file (`Persist`), the sends
(`Dispatch`). The settings, which the loop reads twice in a pass, are read once.
Expiry may hit any delivery queued before. A restart loses the memory and reads
both files. In `NotifyControl` a connection has one request and a deadline; an
operation goes on when its client has given up. At a start any message of the
file may have expired, before the redaction looks (`outlived`).

**eSIM.** The card's profiles are a version of them, that every change raises;
an overview is the version it was read at, with the generation it was begun in.
`RefreshProfiles` reads beside the loads and stores whatever the generation is;
`overtaken` says that the cache is of one that read too early. The card of
`EsimNotifications` numbers what it issues, as SGP.22 has it; it may list a
notification and retrieve it as nothing (`withheld`).

**Host.** Mutexes are variables where holding them is what matters
(`usbATOpenMu`, `usbProfileMu`, `callMu`, `moduleVoiceOpMu`, `performMu`,
`smsSendMu`, the channel mutexes); an operation that holds its mutex throughout
and touches nothing unlocked is one step, or has a variable for where it is. The
module, the card, macOS's services and the ADB daemon are external: what they
may answer, and when they may restart, is nondeterministic within the bounds. In
`VoiceRoute` the module may restart or be unplugged at any moment and takes its
call, helper and route with it (`ModuleRestarts`).

**Set-up and phonebook.** Both have a variable that remembers that two who are
not meant to meet have met: `mixed` (two set-ups, or one and a profile's
request) and `disturbed` (the selected phonebook changed under a request). The
properties say what holds without; the code does not prevent it, see Hazards.

## 3. Runs

| Run | Question | Bounds, and why they are enough |
|---|---|---|
| `registry_store` | can any order of requests corrupt the registry or admit the wrong credential; does the store implement the abstract registry | 6 secrets, 3 device ids, 2 devices, 6 instants: room for a bootstrap, a second device, a recovery, an expiry and a full registry |
| `pairing_protocol` | do loss, kill, late service and power loss leave a phone or the owner without what it needs | 2 phones, 4 secrets and 2 identifiers to generate, lifetime 1: a phone bound and replaced by a recovery, an enrollment retried after it expired |
| `commit_retry` | violation: a commit answer the phone cannot accept | as above |
| `apdu_arbiter` | are leases compatible, in order and taken back only when overdue; does everybody wake up | 4 tickets, 2 channels: a holder, a barrier, an aged request and a younger one |
| `idle_card` | violation: a free card with sleeping requests | as above |
| `at_engine` | whose answer does a caller take; is the voice route's status true, and kept for a call | 3 calls, 2 pooled requests, queues of one: reuse of a request and a full queue happen; one call after another, with requests by hand |
| `at_engine_live` | does every call return, an active call get its route, the radio come on again | 2 calls, 1 profile request, 1 trouble of the link; fair |
| `reader_end` | violation: the reader ended and nobody knows | as `at_engine` |
| `sms_storage` | reception of messages and seventeen parts of the host and its packages | a long and a short message, 2 storages, 1 sweep: two readers and the sweep overlap; for the parts see below |
| `readers_race` | violation: a delete in the wrong storage | no sweep, two readers |
| `notify_daemon` | is a message forgotten or told twice; is a call pushed out; is hidden text erased; caches, ways out, notifications of the eSIM manager; deployment and configuration | 2 messages in 2 storages, 1 call, a queue of 2, 2 attempts, 1 change of the settings, 1 restart: the queue overflows, a message moves, a retry meets a restart; 2 generations and versions, 2 notifications, 2 connections |
| `profile_freeze` | violation: a request that waits for itself | 1 profile request, 1 trouble |

The parts of `sms_storage` have two or three actors each (two clients of a
channel and an authenticator, two set-ups, two collections of the status, two
senders, three waiters at the gate) and a count of what the environment may do
(one fault, one restart, one lost message, two switches). One fault at any step
is what separates the orders in which a file, a memory and a module are left;
two actors are what a missing lock needs, and a third at the gate sleeps while
another's probe is invalidated.

Bounds that restrict behaviours: in `MCHostParts`, `TwoAtATime` (of the readers
and the sweep two run at a time) and `~W!Met` (a set-up that met another is not
followed further); the counts named `Max*` in the configurations; and two
operators `Bounds`, of which the specifications that are proved about
(`HostSpec`, `SideSpec`) know nothing, as only `BoundedHostSpec` and
`BoundedSpec` have them:

- in `MCHostSide`, `FewOwed` (at most two replies are still to be read),
  `OneEscAnswered` (the module answers the ESC of the first timeout only: its two
  replies are then met by what the other callers send) and `NoAudioWhenLost` (no
  audio by hand or of the Swift host while the module has lost the route, as
  neither takes part in what the status says). `MCHostLive` has the second only,
  which keeps no step of the loop from being taken;
- in `MCModuleSide`, `SettingsBeforeStop` (the one change of the settings is
  before the one stop of the daemon), `RefreshOrReload` (`RefreshProfiles` does
  not run beside the goroutine of a reload, and does not begin in the last
  generation, where nothing can overtake it), `OnlyScriptsOrTries` (the start
  scripts of a boot do not wait beside daemons tried by hand) and `FewLeft` (a
  request begins while at most one thing was left without its cleanup).
  `EsimManager` itself has one `RefreshProfiles` at a time.

Several of the properties are conjunctions of what one run asks of one part:
`AnswerIsOwn` has the engine's type; `PartsMakeMessages` has the type, that
messages are told whole and that what was read is kept; `QueueFollowsCalls` has
the type, that only live deliveries are sent and that a ringing call is queued.
In `MCHostParts` a property is that of the parts a behaviour may be of:
`InboxIsFaithful` (`HostInbox`), `SettingsAreKept` (`HostPolicy`,
`ProfileNotes`, `ModulePhonebook`, `ModuleSetup`), `PagesAreTrue` (`HostEsim`,
`EuiccChip`, `ModemStatus`), `CardAccessIsSound` (`EsimChannel`, `ATChannels`,
`SimReadiness`), `AnswersAreOwn` (`UssdSession`, `ATUssd`, `MbimDevice`,
`AdbClient`, `SmsSending`); in `MCModuleSide`, `StartsAreSound` is
`ModuleDeploy` and the configuration of `NotifyControl`, and `OverviewIsCurrent`,
`OperationsEndCleanly` and `NotificationsAreKept` are the eSIM manager's; in
`MCHostLive`, `CallAndRadioComeThrough` has the voice route and the link.

Deadlock is not checked where a bound on calls, tickets or messages ends a
behaviour; it is checked in the pairing runs and in `notify_daemon`, where the
eSIM manager may rest (`Rest`). Symmetry is declared on sets whose members no
operator chooses between in an order that a property sees; liveness is checked
without it.

**Fairness.** `FairSpec` of the engine has weak fairness of the steps of each
call that was begun, of `runLoop` and of the rest of `Stop`. These are
goroutines that Go's scheduler runs, and their timeouts are timers of the
process. The module and the reader have none: a module that never answers is
allowed, and so is one that keeps sending. Of the voice route, strong fairness
of the poller, of what it applies, of the prewarm and of the teardown: each
waits for a mutex that others take and give back again and again, and Go's
mutexes hand over to a waiter that starves; weak fairness of the end of a
request, which has a deadline. The poller's fairness is of polls that the module
answers: one that never answers any would leave an active call unknown. Of the
link, weak fairness of the signal loop, the other callers, the timers and the
plugging in again.

## 4. Findings

Each is the counterexample of a violation run.

1. `commit_retry`: `ModuleAuthorizationClient.swift:175`. A prepare that is
   retried after its enrollment expired gets a new device id; if that answer is
   lost, the commit succeeds on the module and the phone refuses its answer for
   ever, where the lifecycle document says that commit can be retried.
2. `idle_card`: `arbiter.go:557`. Ageing wakes nobody: two waiters that look at
   different moments each see the other selected and sleep on a free card.
3. `reader_end`: `manager.go:659`. The EOF error that ends the reader is only a
   command's failure if a command is running; the engine goes on, healthy and
   deaf.
4. `readers_race`: `manager.go:1382`. Two `+CMTI` goroutines switch the selected
   storage under each other, and one deletes a part that nobody has read.
5. `profile_freeze`: `cmd/djonehub-macos/main.go:2675`. `setUSBProfile` holds
   `usbProfileMu` over AT commands; if the link has to be opened, the open takes
   `usbProfileMu` again. The request waits for itself with `usbATOpenMu` held.

The properties have exceptions where the code is known to do otherwise; they are
part of the models and listed here, most under the hazards of `PROJECT.json`.

- Notifications: calls of the last run, and messages that expired while the
  daemon was down, leave the memory (`cmd/djonehub-notify/main.go:341-346`)
  before the redaction looks at what is left (348), so that a state file with
  numbers or texts that are to be hidden is not rewritten at the start (against
  `docs/module-notifications.md:38-40`); for messages it is `outlived` in
  `HiddenTextIsErased`, which is empty again after the next write. A configuration whose file was replaced is
  answered `Internal` when the sync of the directory or the reloading of the
  certificates fails; an import on the command line takes no lock and is
  overwritten by the next operation; an operation may be performed after its
  client's eight seconds, when a newer one was asked for already.
- AT engine: the ESC after a timeout may cause a reply of its own
  (`manager.go:651`), so that `RepliesStayInStep` counts two for each timeout.
- Voice route: `markUSBATDetached` (`main.go:991`) clears `callConfigured` and
  not `moduleVoiceReady`, so that a route stays ready after the module has
  restarted or was unplugged, and is prepared for no later call until it is
  stopped. `StatusIsHonest`, `CallKeepsRoute` and `ActiveCallGetsRoute`
  except it (`lost`).
- eSIM manager: `RefreshProfiles` stores what it has read without a look at the
  generation (`internal/esim/manager.go:1755`), so that a refresh that began
  before a profile was enabled, disabled or deleted brings back the old list; it is
  `overtaken` in `OverviewIsCurrent`.
- eSIM notifications: a retrieval that answers with an empty list and no error
  (`internal/esim/manager.go:3374` and 3522) sends nothing and warns of nothing;
  it is `withheld` in `NotificationsAreKept`. The notification stays on the
  card.
- Inbox: a message that is older than the 500 that the inbox keeps is dropped
  when it is read (`main.go:760`) and erased from ME all the same, unseen; it is
  `cut` in `InboxIsFaithful`. The poll erases ME though its listing failed or was
  cut short or a message arrived in between; `ERROR` counts as success; parts
  that the cleanup of ME erased die with the reassembler's ten minutes.
- Link: `resetUSBATIfGone` with an error of an earlier device may close a newer
  one; after `AT+CFUN=0` a link that is lost leaves the radio off until a
  reboot of the recovery; UAC mode is armed although its write was answered
  `ERROR`; a mode set by the user is undone when the link is opened again.
- Policy: a service that was blocked when the save fails is on no list; a
  restore that fails has `force` off in the file and on in memory; a repair of
  DHCP may take a blocking away.
- Set-up: the start looks at the status before its inspection and not after;
  the backup is named by the second; IMS is not rolled back; the answer to
  `AT+CFUN=1,1` is not looked at; the profile's request is not locked out.
- Phonebook: the probe of the SIM's phonebook (`main.go:3050`) selects SM
  without `moduleNotesMu`, and a note may then be written over a contact of the
  SIM.
- eSIM pages: `ok` of the health page does not compare the active profile with
  the module's ICCID; a link that was gone already is taken for the restart.
- Channels over AT: `ClearLogicalChannels` closes 1 to 4 whoever owns them; a
  number is given again; a close whose lease is refused leaves the channel open
  and unbound; without an arbiter basic exchanges mix.
- Chip: what a scan or a read of product data found is stored without a look at
  the generation.
- USSD: the release of an earlier session ends the next command with an empty
  result. Over AT the one channel is drained, and an answer that comes after is
  taken for the next command's.
- MBIM: a lost fragment leaves the collector of indications stuck; a command
  that begins after the read loop ended waits for its context.
- ADB: `pushContext` keeps `connected` after an error of receiving; any `CLSE`
  while the reply to a push is read ends it.
- Deployment: the cleanup of an arming that failed runs after `adb.Close`
  (`module_voice_daemon_darwin.go:951`); arming again, with power lost in
  between, boots files of two pushes; the sentinel's installation does not
  refuse when a voice marker is armed
  (against `docs/ios-module-gateway-design.md:46-48`).
- Text messages over USB AT: an exchange that times out before the prompt
  writes no ESC, and `CommandWithPrompt` judges everything read since it began.

Read while modelling and outside of the models: `isPureAsyncURC` drops `+QPCMV`
and `+QSIMSTAT` lines in `handleCommand`, so that `QueryUSBAudioMode` always
fails; `isURC` does not accept `CONNECT`, so that `connectCallback` is never
called; `+CPIN: READY` in an answer wakes the subscribers to a restart;
`decodeUSSDText` treats the coding groups otherwise than 3GPP TS 23.038.

## 5. Proofs

For every value of the constants that satisfies the named assumptions (distinct
names, positive limits, finite sets of tickets, messages), tlapm proves the
following. Each `*Proofs` module has the inductive invariant, one lemma for each
action or group of actions, and the theorems at its end.

**`PairingStoreProofs`.** `Invariance`: the registry on disk, if there is one,
is sound and the clock in its range. Soundness makes the others inductive: that
hashes are distinct, that a pending enrollment has the fields of its kind and
that there are at most `MaxDevices` devices. `TypeCorrect`, `EntitledChanges`
and `ConfirmedGrants` are the properties of `registry_store`.
`EntitledChanges` says that what an entitled request makes of the registry is
never refused by the `validState` of `write()`; `ConfirmedGrants`, that a
credential is valid only through the commit of its enrollment. Both rest
on lemmas about which hashes each operation adds and removes. `Implementation`:
`Spec => ImplementsAuthRegistry`, initial states to initial states and each step
to a step of `AuthRegistry` or a stutter.

**`PairingProtocolProofs`.** `TypeCorrect` and `RecoveryIsStored` hold whether
directory syncs fail or not; `CredentialsAreHeld`, `RetiredIsNeverValid` and
`BoundForGood` under `~SyncCanFail`, and TLC shows that the hypothesis is
needed: the commit of the first sync that failed is answered as done when it is
repeated, and a loss of power undoes it. The invariant has three parts. `PhoneInv`: what a phone's
task, its record and its request have to do with each other, and that no two
phones have a secret in common. `CodeInv`: the registry on disk, and the one
that power loss falls back to, are explained by the codes that exist.
`ModuleInv`: an enrollment that was granted can not be granted again, because
the authority that vouched for it retired with the grant (`Spent`); an answer
that is under way stays true until the phone has it (`Answers`), although the
server may serve others meanwhile.

**`ApduArbiterProofs`.** `TypeCorrect`, `Sharing`, `Exclusion`, `Order`,
`Watchdog` and `Wakeups`. The invariant adds that only barriers block and that
sharing and exclusion hold together: a lease that joins is compatible with those
that are held only because each of them is so with the others and no barrier
blocks it. For the order, the selected ticket is the first of those it may have
to wait for. For the wake-ups: each sleeper has looked since the last change
that closes `notifyC`, and every change that can make it somebody's turn closes
it. Ageing does not, which is finding 2 and the exception that
`NoMissedWakeup` names.

**`HostSideProofs`**, about the two parts of `MCHostSide`. Of the AT engine:
`OwnAnswers`, `InStep`, `HighIsNext`, `DisconnectedOnce`, `AnswersAreKept`. A request object is pooled and may be used again while the
loop holds a copy of it; so the invariant says that entries of the queues, the
command that runs and what lies in a channel belong to the present owner of the
object, that an answered command is not queued, and that one that is queued has
empty channels. For `RepliesStayInStep` the replies that nobody waits for are
counted against the timeouts that caused them, two at most for each (the
command's own, late, and the one to the ESC), and a fault is the last thing the
reader sends. That a lost connection is told once follows from which steps of
the loop, the watchdog and `Stop` can reach the telling.

Of the voice route: `StatusHonest` and `RouteKept`: a route that is called ready
is up unless the module has restarted under it, and the host itself takes none
away that it calls ready. Whoever holds `moduleVoiceOpMu` found the route not ready and leaves
it so to the end; a stop has opened the retry window, which nobody else can close
before the stop ends; and the timer's callback holds `callMu` from its look at
the active call to the end of its stop, so that no call becomes known meanwhile.

**`SMSStorageProofs`.** `TypeCorrect`, `PartsAreKept`, `StorageKept`,
`NothingLostAlone`. What waits in the reassembler are different parts, and too
few; when the last one comes, their sorted sequence is 1 to the total, by the
cardinalities of intervals. `Beside`: a call that was never in `overlapped` is
the only one that runs, so that what it listed is what it deletes.

**`ModuleSideProofs`**, about the parts of `MCModuleSide`:

- `OverviewCurrent`. What is cached, and what the flight of the present
  generation has read, is at least as new as the moment the generation was last
  raised, unless the cache is of a `RefreshProfiles` that read before; no later
  generation has a flight. An operation raises it after its change of the card,
  so a load that overlaps it stores nothing.
- `OperationsEnd`. A switch that was announced is known to be so until it is
  accepted, which is the last thing before the operation leaves; a token is told
  once or is due, never both.
- `NotificationsKept`. A download or deletion that has listed the card before
  finds no notification but its own, because all that was there is numbered at
  most as its baseline; a listing removes only what it has sent. So one that ends
  without a warning has sent its own, unless the card retrieved it as nothing.
- `StartsSound`. An arming has the files that it has pushed, and its key unless
  a late start script took it; where a request is tells which it is; the markers
  are gone before an uninstallation removes the files. Of the configuration:
  while an operation is between its file and the Sender the files differ already
  in its field, and only there; only one operation is there.
- `SmsNotForgotten`, `CallsAreFollowed`, `TextIsErased` and `SilenceKept`, of the
  notification daemon. `NoSmsIsForgotten` speaks of the file, which is written a
  step after memory has changed; so `DaemonInv` says the same of memory
  (`MemoryOwes`), that memory which is not dirty says of the messages what the
  file does (`FileFollows`), that nothing the file knows is queued in memory only
  (`NothingNew`), and for the hidden texts that none is in memory once the
  settings were taken note of (`MemoryHides`). What the file still has of messages
  that expired before a start is told apart from what memory has, until the next
  write. A process that ended leaves what a
  start finds (`NothingRuns`). `GoodQueue` is the bound of the queue, with
  nothing in it twice; that a call stays when the queue is trimmed is a lemma
  about trimming, by the cardinality of what calls can occupy. The recursive
  functions that apply a scan's or a queue's elements one after another are shown
  to exist, and to keep what they should, from a least index at which they would
  not.

**`HostPartsProofs`**, about parts of `MCHostParts`:

- `CardAccess`. `EsimChannel`: a channel's mutex is that of the time between two
  stops it was made in, and who works on a channel holds the one it looked up.
  `ATChannels`: an open channel with an owner is bound to the session of that
  owner and of no other, unless it was disturbed; a response that waits is of the
  last exchange. `SimReadiness`: a probe runs only while the gate is shut, and
  what opened it is the evidence of the present generation.
- `InboxKept`. The poll and the user's erasing take turns under
  `smsOperationMu`; a message is in one place, in a memory, in the listing or in
  the inbox; what a listing had was shown, is beyond the limit of the inbox, or is
  held for its other parts, before ME is erased; what the user erased can not be read again.
- `SettingsKept`. `HostPolicy`: the file's list is within the one memory has or
  the request would go back to, and a restoring has given back what it is
  through with. `ProfileNotes`: file and memory have for each profile the note
  answered last, or one of a save that failed since. `ModulePhonebook`: what a
  request has read is what the module's phonebook has while it is selected, and
  it is going to write over the profile's own entry or a free one; a profile has
  one entry at most. `ModuleSetup`: a set-up that met nobody is the only one,
  the status is its, and what it read, saved and read back holds until it writes
  again.
- `PagesTrue`. `HostEsim`: the module has the session of another profile than
  the card's only while the restart after the switch is to come or was not
  confirmed, and a health request counts as settled only while no switch is under
  way. `EuiccChip`: what a scan has found so far is of the card that is in, if
  the card's exchange was noticed and the scan is not from before it; a merge of
  two scans is then of one card, as an EID is of one card only
  (`ChipAssumption`). `ModemStatus`: a collection that met no
  failure and no change of the card has read this card, and as long as an alert
  and its end were never under way together the one that is says what the watch
  holds. `PagesBounds` says that the bounds are numbers.

A behaviour of the sum stays in its part, so that its invariant is that of the
part; the last section of this module, and of `ModuleSideProofs` and
`TransportProofs`, shows it.

**`TransportProofs`**, about the transports in `MCHostParts`: `AnswersOwn`, with
an invariant for each of them.

- `UssdSession`: while no release was mistaken, what is still to be answered is of
  the command under way or of the one whose release is waited for; a session is
  answered once and nothing comes after its release.
- `ATUssd`: while a caller that is not excused is under way nobody else is, and
  the network owes an answer to no other.
- `MbimDevice`: a transaction's channel is empty before it is registered and holds
  one whole answer at most; of a command that is half written the last thing sent
  is its first fragment.
- `SmsSending`: an exchange that found the module at rest is in one of the places
  of `ModeExchange`, `PromptExchange` and `AnswerExchange`, each with what the
  module still has to work on, what it has said and which segments the network
  has; what is left at work of an earlier exchange is of an excused message, or
  the segment after those that were counted.
- `AdbClient` needs the most, see below.

`TransportBounds` and `CallersAssumption` say that the bounds are numbers, that a
message has a segment and there is a client, and that the names for nobody and
nothing are no caller's.

The ADB client's stream numbers start at 1 again with each client, and what a
call that timed out left in the pipe is still read, so that `ToldIsDone` can not
be had from the call under way alone. `AdbInv` says what is in the two
directions of the pipe: no two streams, and no stream and an `OPEN` under way,
are of one call (`StreamsApart`); between a stream and the client there is one
record, or its acknowledgement, in each direction (`OneRecord`, `OneAnswer`);
behind the last `CNXN` there is no `OPEN` with the number of this call but its
own (`OldStreamsEnd`), and a record reaches the stream of its call or none
(`RecordsReach`); the call holds its own stream, whose state, records and answers
fit together, or it took one of before for its own and then hears nothing that
is of itself (`StreamHeld`); the file of a push that was told a success is whole
and nothing under way touches it (`ToldRightly`). The proof goes step by step over
what the client reads and says, and over what the module reads and says
(`ModuleStep`); lemmas about what is up to the first and behind the last of
certain messages in a queue (`Dequeued`, `Enqueued`) serve both.

**Model-checked only.** Every invariant and every safety property of steps that a
passing run checks is stated by a theorem. What stays with TLC is liveness under
fairness, which like `ENABLED` can not be proved with the installed provers.

From nothing, `TransportProofs` takes about fifteen minutes to check,
`HostPartsProofs` twelve, `ModuleSideProofs` six, each of the others less than
four.

## 6. Plan

Done: every module of section 2 with its runs; the refinement of
`AuthRegistry`; the proofs of section 5.

Next: the parts of `HostLink`, whose liveness only is checked, as a component
with safety properties of its own; an abstract specification of the transports,
in which each request has one answer, with the five models of `AnswersAreOwn`
refining it.

## 7. Not modelled, and why

- The C daemons of the module and the audio of the iPhone are other programs,
  single-threaded loops or callbacks of the platform; what the host and the
  phone see of them is external in the models.
- The audio router of the host: the repository has a shim whose
  `dj_mavo_uac_bridge_start` always answers NULL, so that the rings and gains
  behind it never run.
- `qmi_backend.go` but for USSD passes calls through; `wbxml_omacp.go`,
  `at_parse.go`, `pdu.go` and other decoders are pure conversions, and writers
  of the configuration without a caller have no behaviour.
- Of `VoiceRoute`: the test bypass of the PCM bridge; the prewarm of an answer
  whose `ATA` then fails.
- Of the serial engine: the sending of messages with its twenty seconds over the
  deadline of the caller (`manager.go:2004`).
- Two hazards are described by the models' abstractions only: a clock that is
  set back by less than the tolerance (`store.go:302`), and two unfinished long
  messages with one reassembly key (`reassembler.go:36`).
- The cryptography is taken as ideal.
