------------------------------- MODULE HostLink -------------------------------
(* The Mac host's USB AT link when it talks to the module itself              *)
(* (cmd/djonehub-macos/main.go, usbat_darwin.go): any caller opens it when it *)
(* is not open, the signal loop watches the registration and recovers it, and *)
(* a request changes the USB profile.  usbATOpenMu serializes the opens,      *)
(* usbProfileMu the profile; a.usbAT itself has no lock.                      *)

EXTENDS Naturals

CONSTANTS
    MaxProfiles,  \* bound: profile requests
    MaxTroubles   \* bound: the module is plugged out or restarts by itself, and
                  \* a command or an open fails that might have gone well

VARIABLES
    handle,    \* a.usbAT: nil, open, or stale: of a module that has gone
    late,      \* an open that timed out goes on in the background
    backoff,   \* usbATBackoffUntil
    openMu, profileMu,  \* their holders
    at, cmd,   \* of a caller: where it is, and the command it is to send
    armed,     \* usbProfileMobileArmed: in memory, on disk
    present, radio, uac, lost, throttled,
               \* the module: on USB; its radio; its UAC field.  The signal
               \* loop's lostSignalCount; it rebooted the module a while ago
    profiles, troubles    \* bounds

linkVars == <<handle, late, backoff, openMu, profileMu, at, cmd, armed, present,
              radio, uac, lost, throttled, profiles, troubles>>

\* The signal loop, and one other: a poll of the messages or a request.
Callers == {"signal", "other"}
Nobody == "nobody"
locks == <<openMu, profileMu>>
module == <<present, radio, uac>>
bounds == <<profiles, troubles>>

Init ==
    /\ handle = "nil" /\ late = FALSE /\ backoff = FALSE
    /\ openMu = Nobody /\ profileMu = Nobody
    /\ at = [c \in Callers |-> "idle"] /\ cmd = [c \in Callers |-> "none"]
    /\ armed = [memory |-> FALSE, disk |-> FALSE]
    /\ present = TRUE /\ radio = "on" /\ uac \in BOOLEAN
    /\ lost = 0 /\ throttled = FALSE
    /\ profiles = 0 /\ troubles = 0

Goes(c, where) == at' = [at EXCEPT ![c] = where]
Sends(c, command) == Goes(c, "ensure") /\ cmd' = [cmd EXCEPT ![c] = command]

\* A caller gives up: what it holds is released.
Quits(c) ==
    /\ Goes(c, "idle") /\ cmd' = [cmd EXCEPT ![c] = "none"]
    /\ profileMu' = IF profileMu = c THEN Nobody ELSE profileMu
    /\ openMu' = IF openMu = c THEN Nobody ELSE openMu

\* markUSBATDetached
Detached == handle' = "nil" /\ backoff' = TRUE

Trouble == troubles < MaxTroubles /\ troubles' = troubles + 1
-----------------------------------------------------------------------------
Begin ==
    /\ at["signal"] = "idle" /\ Sends("signal", "probe")
    /\ UNCHANGED <<handle, late, backoff, locks, armed, module, lost, throttled,
                   bounds>>

BeginPoll ==
    /\ at["other"] = "idle" /\ Sends("other", "list")
    /\ UNCHANGED <<handle, late, backoff, locks, armed, module, lost, throttled,
                   bounds>>

\* setUSBProfile, all of it under usbProfileMu.
BeginProfile ==
    /\ at["other"] = "idle" /\ \E r \in {"read mac", "read mobile"} : Sends("other", r)
    /\ profiles < MaxProfiles /\ profiles' = profiles + 1
    /\ profileMu = Nobody /\ profileMu' = "other"
    /\ UNCHANGED <<handle, late, backoff, openMu, armed, module, lost, throttled, troubles>>

\* ensureUSBAT: the checks before usbATOpenMu.
Ensure(c) ==
    /\ at[c] = "ensure"
    /\ \/ handle # "nil" /\ Goes(c, "run") /\ UNCHANGED <<locks, cmd>>
       \/ handle = "nil" /\ (~present \/ backoff) /\ Quits(c)
       \/ handle = "nil" /\ present /\ ~backoff
          /\ Goes(c, "lock") /\ UNCHANGED <<locks, cmd>>
    /\ UNCHANGED <<handle, late, backoff, armed, module, lost, throttled, bounds>>

LockOpen(c) ==
    /\ at[c] = "lock" /\ openMu = Nobody
    /\ IF handle # "nil" THEN Goes(c, "run") /\ UNCHANGED openMu
       ELSE Goes(c, "open") /\ openMu' = c
    /\ UNCHANGED <<handle, late, backoff, profileMu, cmd, armed, module, lost,
                   throttled, bounds>>

\* openUSBATWithTimeout: the interface can be claimed once.
Opens(c) ==
    /\ at[c] = "open" /\ present /\ ~late
    /\ handle' = "open" /\ backoff' = FALSE
    /\ Goes(c, "auto")
    /\ UNCHANGED <<late, locks, cmd, armed, module, lost, throttled, bounds>>

OpenFails(c) ==
    /\ at[c] = "open"
    /\ \/ (~present \/ late) /\ UNCHANGED <<late, backoff, troubles>>
       \/ Trouble /\ UNCHANGED <<late, backoff>>
       \/ Trouble /\ ~late /\ late' = TRUE /\ backoff' = TRUE   \* after 12 seconds
    /\ Quits(c)
    /\ UNCHANGED <<handle, armed, module, lost, throttled, profiles>>

\* The background waits for the open and closes what it gets.
LateEnds ==
    /\ late /\ late' = FALSE
    /\ UNCHANGED <<handle, backoff, locks, at, cmd, armed, module, lost,
                   throttled, bounds>>

BackoffEnds ==
    /\ backoff /\ backoff' = FALSE
    /\ UNCHANGED <<handle, late, locks, at, cmd, armed, module, lost, throttled,
                   bounds>>

\* autoEnableMacAudioProfile: usbProfileMu is taken twice, for a moment each.
Opened(c) == Goes(c, "run") /\ openMu' = Nobody

Auto(c) ==
    /\ at[c] = "auto" /\ profileMu = Nobody
    /\ \/ (~armed.memory \/ uac) /\ Opened(c) /\ UNCHANGED uac
       \/ Opened(c) /\ UNCHANGED uac                         \* a command fails
       \/ armed.memory /\ ~uac /\ uac' \in {TRUE, uac}       \* OK or ERROR
          /\ Goes(c, "disarm") /\ UNCHANGED openMu
    /\ UNCHANGED <<handle, late, backoff, profileMu, cmd, armed, present, radio,
                   lost, throttled, bounds>>

Disarm(c) ==
    /\ at[c] = "disarm" /\ profileMu = Nobody
    /\ \/ armed' = [memory |-> FALSE, disk |-> FALSE] /\ Goes(c, "restart")
          /\ UNCHANGED openMu
       \/ armed' = [armed EXCEPT !.memory = FALSE] /\ Opened(c)   \* not saved
    /\ UNCHANGED <<handle, late, backoff, profileMu, cmd, module, lost, throttled,
                   bounds>>

Restart(c) ==
    /\ at[c] = "restart"
    /\ \/ Detached /\ radio' = "on"
       \/ UNCHANGED <<handle, backoff, radio>>
    /\ Opened(c)
    /\ UNCHANGED <<late, profileMu, cmd, armed, present, uac, lost, throttled,
                   bounds>>

-----------------------------------------------------------------------------
\* usbAT.Command: it fails when the handle is stale or the module does not
\* answer, and resetUSBATIfGone then lets go of the handle there is.
Sent(c) == at[c] = "run" /\ handle = "open" /\ present

Fails(c) ==
    /\ at[c] = "run" /\ cmd[c] \notin {"off", "on", "reset"}
    /\ \/ handle = "stale" /\ Detached /\ UNCHANGED troubles
       \/ handle = "nil" /\ UNCHANGED <<handle, backoff, troubles>>
       \/ Trouble /\ (Detached \/ UNCHANGED <<handle, backoff>>)
    /\ Quits(c)
    /\ UNCHANGED <<late, armed, module, lost, throttled, profiles>>

Listed(c) ==
    /\ Sent(c) /\ cmd[c] = "list"
    /\ Quits(c)
    /\ UNCHANGED <<handle, late, backoff, armed, module, lost, throttled, bounds>>

RecoverOnce == <<"none", "off", "none">>  \* mutant: no reboot

\* signalRecoveryOnce: the registration; without a radio there is none.  Checks
\* that lost it are counted in threes, as recoverSignal acts at 3 (an attach that
\* changes nothing here), 6 and from 9 on.
Recover == <<"none", "off", "reset">>

Probed(c) ==
    /\ Sent(c) /\ cmd[c] = "probe"
    /\ \/ /\ radio = "on" /\ lost' = 0 /\ Quits(c)
       \/ /\ lost' = IF lost < 3 THEN lost + 1 ELSE lost
          /\ IF Recover[lost'] = "none" \/ (Recover[lost'] = "reset" /\ throttled)
             THEN Quits(c)
             ELSE cmd' = [cmd EXCEPT ![c] = Recover[lost']] /\ UNCHANGED <<at, locks>>
    /\ UNCHANGED <<handle, late, backoff, armed, module, throttled, bounds>>

\* recoverSignal: AT+CFUN=0, three seconds, AT+CFUN=1 unless the link was let go;
\* the results are not looked at.
RadioOff(c) ==
    /\ at[c] = "run" /\ cmd[c] = "off"
    /\ radio' \in IF Sent(c) THEN {"off", radio} ELSE {radio}
    /\ cmd' = [cmd EXCEPT ![c] = "on"]
    /\ UNCHANGED <<handle, late, backoff, locks, at, armed, present, uac, lost,
                   throttled, bounds>>

RadioOn(c) ==
    /\ at[c] = "run" /\ cmd[c] = "on"
    /\ radio' \in IF Sent(c) THEN {"on", radio} ELSE {radio}
    /\ Quits(c)
    /\ UNCHANGED <<handle, late, backoff, armed, present, uac, lost, throttled,
                   bounds>>

\* AT+CFUN=1,1; whether it reached the module or not, the link is let go and the
\* next one is ten minutes later.
Resets(c) ==
    /\ at[c] = "run" /\ cmd[c] = "reset"
    /\ throttled' = TRUE
    /\ Detached /\ Quits(c)
    /\ UNCHANGED <<late, armed, present, uac, lost, profiles>>

Reset(c) == Sent(c) /\ Resets(c) /\ radio' = "on" /\ UNCHANGED troubles
ResetIsLost(c) ==
    Resets(c) /\ UNCHANGED radio /\ (Trouble \/ (~Sent(c) /\ UNCHANGED troubles))

ThrottleEnds ==
    /\ throttled /\ throttled' = FALSE
    /\ UNCHANGED <<handle, late, backoff, locks, at, cmd, armed, module, lost, bounds>>

-----------------------------------------------------------------------------
\* The intent is saved, or not.
Saved(c, mobile) ==
    /\ armed' \in {[memory |-> mobile, disk |-> mobile], [armed EXCEPT !.memory = mobile]}

ReadProfile(c) ==
    /\ Sent(c) /\ cmd[c] \in {"read mac", "read mobile"}
    /\ LET mac == cmd[c] = "read mac" IN
       IF uac = mac THEN Saved(c, ~mac) /\ Quits(c)
       ELSE Sends(c, IF mac THEN "write mac" ELSE "quiet") /\ UNCHANGED <<armed, locks>>
    /\ UNCHANGED <<handle, late, backoff, module, lost, throttled, bounds>>

\* Its failure ends the request.
QuietVoice(c) ==
    /\ Sent(c) /\ cmd[c] = "quiet"
    /\ Sends(c, "write mobile")
    /\ UNCHANGED <<handle, late, backoff, locks, armed, module, lost, throttled, bounds>>

WriteProfile(c) ==
    /\ Sent(c) /\ cmd[c] \in {"write mac", "write mobile"}
    /\ LET mac == cmd[c] = "write mac" IN
       /\ uac' \in {mac, uac}
       /\ Saved(c, ~mac)
       /\ (IF mac /\ ~armed'.disk THEN Sends(c, "reboot") /\ UNCHANGED locks
           ELSE Quits(c))
    /\ UNCHANGED <<handle, late, backoff, present, radio, lost, throttled, bounds>>

RebootForProfile(c) ==
    /\ Sent(c) /\ cmd[c] = "reboot"
    /\ handle' = "stale" /\ radio' = "on"
    /\ Quits(c)
    /\ UNCHANGED <<late, backoff, armed, present, uac, lost, throttled, bounds>>

\* The module is taken off and put back, to this Mac or another device first.
Unplug ==
    /\ present /\ Trouble
    /\ present' = FALSE /\ radio' = "on"
    /\ handle' = IF handle = "open" THEN "stale" ELSE handle
    /\ UNCHANGED <<late, backoff, locks, at, cmd, armed, uac, lost, throttled, profiles>>

Plug ==
    /\ ~present /\ present' = TRUE
    /\ UNCHANGED <<handle, late, backoff, locks, at, cmd, armed, radio, uac, lost,
                   throttled, bounds>>

Opening(c) ==
    \/ Ensure(c) \/ LockOpen(c) \/ Opens(c) \/ OpenFails(c)
    \/ Auto(c) \/ Disarm(c) \/ Restart(c)
Command(c) ==
    \/ Fails(c) \/ Listed(c) \/ Probed(c)
    \/ RadioOff(c) \/ RadioOn(c) \/ Reset(c) \/ ResetIsLost(c)
    \/ ReadProfile(c) \/ QuietVoice(c) \/ WriteProfile(c) \/ RebootForProfile(c)
Signal == Begin \/ Opening("signal") \/ Command("signal")
Other == Opening("other") \/ Command("other")
Timers == LateEnds \/ BackoffEnds \/ ThrottleEnds

Next == Signal \/ BeginPoll \/ BeginProfile \/ Other \/ Timers \/ Unplug \/ Plug

\* The goroutines run, the signal loop's ticker ticks, timers end, and the module
\* is plugged in again.
LinkFairness ==
    WF_linkVars(Signal) /\ WF_linkVars(Other) /\ WF_linkVars(Timers) /\ WF_linkVars(Plug)

LinkSpec == Init /\ [][Next]_linkVars /\ LinkFairness

TypeOK ==
    /\ handle \in {"nil", "open", "stale"}
    /\ {openMu, profileMu} \subseteq Callers \cup {Nobody}
    /\ at \in [Callers -> {"idle", "ensure", "lock", "open", "auto", "disarm",
                           "restart", "run"}]
    /\ lost \in 0..3 /\ troubles \in 0..MaxTroubles

\* A caller never waits for a lock that it holds itself, nor for one whose
\* holder waits for what it holds: an open that is stuck does not stop every
\* caller.
NobodyIsFrozen ==
    /\ \A c \in Callers : at[c] \in {"auto", "disarm"} => profileMu # c
    /\ ~(/\ openMu # Nobody /\ at[openMu] \in {"auto", "disarm"}
         /\ profileMu # Nobody /\ at[profileMu] = "lock")

RadioIsBack == radio = "on" \/ ~NobodyIsFrozen

\* A radio that the recovery switched off comes on again, although the link may
\* be let go between AT+CFUN=0 and AT+CFUN=1, unless the callers are frozen.
RadioComesBack == radio = "off" ~> RadioIsBack
=============================================================================
