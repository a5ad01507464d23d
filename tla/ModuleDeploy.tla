---------------------------- MODULE ModuleDeploy ----------------------------
(* What the Mac host puts on the module over ADB and the module starts at a   *)
(* boot: the iOS test daemons (module_voice_daemon_darwin.go with its start   *)
(* script in module_voice_daemon_common.go), the sentinel                     *)
(* (module_sentinel_darwin.go) and the daemons that are only tried from /tmp  *)
(* (also module_sms_gateway_darwin.go).  Every request holds moduleVoiceOpMu, *)
(* so there is one at a time; the module goes on beside it, and may lose its  *)
(* power at any step.  A request gives up at any step: a command fails, the   *)
(* HTTP client goes away, or ADB is gone, when its cleanup fails as well.     *)

VARIABLES
    file,     \* the files of the voice test and the sentinel's, on flash
    key,      \* pairing.key on flash
    once, session, guard,
              \* the markers run-status-once, run-control-session, and the
              \* sentinel's run-once
    link, sentinelLink,
              \* the two links in rc5.d
    temp,     \* the tried daemons that are in /tmp, with their keys
    sentinel, \* the sentinel runs
    daemon,   \* the authenticated daemon that runs, and what for
    launcher, \* the start scripts that wait for the module's address
    req,      \* the request under way: what, where, wasSentinelRunning
    left      \* history: of "kit", "sentinel" and "temp", what the last request
              \* for it left without its cleanup; "key" when a start script
              \* removed the key while it was replaced or since

vars == <<file, key, once, session, guard, link, sentinelLink, temp, sentinel,
          daemon, launcher, req, left>>

flash == <<file, key, once, session, guard, link, sentinelLink>>
running == <<temp, sentinel, daemon, launcher>>

Arm == {"status", "control"}                 \* voiceStatusOnceMode and the other
Try == {"try voice", "try sms"}
\* What an arming pushes in this order, and the sentinel's file.  The companions of
\* a session's daemon (uplink, SMS gateway, sound card) and its parameters are
\* pushed as one with it.
Pushed == {"daemon", "key", "script", "sentinel"}
During == [daemon |-> "in daemon", key |-> "in key", script |-> "in script",
           sentinel |-> "in sentinel"]
After == [daemon |-> "key", key |-> "script", script |-> "pushed", sentinel |-> "pushed"]
NoRequest == [op |-> "none", at |-> "done", was |-> FALSE]

Init ==
    /\ file = [f \in {"daemon", "script", "sentinel"} |-> "none"]
    /\ key = "none"
    /\ once = FALSE /\ session = FALSE /\ guard = FALSE
    /\ link \in {"absent", "foreign"} /\ sentinelLink \in {"absent", "foreign"}
    /\ temp = {} /\ sentinel = FALSE /\ daemon = "no" /\ launcher = {}
    /\ req = NoRequest /\ left = {}

At(op, at) == req.op = op /\ req.at = at
Go(at) == req' = [req EXCEPT !.at = at]
Done == req' = NoRequest
-----------------------------------------------------------------------------
\* Start of a request: the mutex, ADB, root.  An arming is refused while the
\* sentinel is armed.
Begin(op) ==
    /\ req = NoRequest
    /\ op \in Arm => ~guard
    /\ req' = [op |-> op, at |-> "begun", was |-> FALSE]
    /\ UNCHANGED <<flash, running, left>>

\* wasSentinelRunning, and the sentinel is stopped: the port is the same.
StopSentinel ==
    /\ req.op \in Arm \cup {"try voice"} /\ req.at = "begun"
    /\ req' = [req EXCEPT !.at = "alone", !.was = sentinel]
    /\ sentinel' = FALSE
    /\ UNCHANGED <<flash, temp, daemon, launcher, left>>

\* stopTemporaryVoiceDaemon, stopVoiceTestProcess and the two like it.  The
\* start scripts are not stopped.
StopOld ==
    /\ req.op \in Arm /\ req.at = "alone"
    /\ temp' = temp \ {"try voice"} /\ daemon' = "no"
    /\ Go("daemon")
    /\ UNCHANGED <<flash, sentinel, launcher, left>>

\* adb.pushContext: the file is cut short, then written.
Torn(f) ==
    IF f = "key" THEN key' = "part" /\ UNCHANGED file
    ELSE file' = [file EXCEPT ![f] = "part"] /\ UNCHANGED key

Pushes(f) ==
    /\ req.at = f
    /\ Torn(f)
    /\ req' = [req EXCEPT !.at = During[f]]
    /\ UNCHANGED <<once, session, guard, link, sentinelLink, running, left>>

\* The key of an arming serves one start, or those of a session.
KeyOf(op) == IF op = "status" THEN "once" ELSE "stable"

PushEnds(f) ==
    /\ req.at = During[f]
    /\ IF f = "key"
       THEN key' = KeyOf(req.op) /\ UNCHANGED file
       ELSE file' = [file EXCEPT ![f] = "whole"] /\ UNCHANGED key
    /\ left' = IF f = "key" THEN left \ {"key"} ELSE left
    /\ Go(After[f])
    /\ UNCHANGED <<once, session, guard, link, sentinelLink, running>>

\* The hashes are compared, then the voice runtime is prepared and the daemon
\* started for one STATUS; ADB is closed for it.
Validate ==
    /\ req.op \in Arm /\ req.at = "pushed" /\ daemon = "no" /\ ~sentinel
    /\ daemon' = "check"
    /\ Go("asking")
    /\ UNCHANGED <<flash, temp, sentinel, launcher, left>>

\* queryTemporaryVoiceDaemon: an answer, or for a session no route to it; ADB
\* is opened again and the daemon stopped.
Asked ==
    /\ req.op \in Arm /\ req.at = "asking"
    /\ req.op = "status" => daemon = "check"
    /\ daemon' = "no"
    /\ Go("link")
    /\ UNCHANGED <<flash, temp, sentinel, launcher, left>>

\* installVoiceTestLink and sentinelInstallInitLink refuse what is not theirs.
InstallLink ==
    /\ req.op \in Arm /\ req.at = "link"
    /\ link # "foreign"
    /\ link' = "ours"
    /\ Go("marker")
    /\ UNCHANGED <<file, key, once, session, guard, sentinelLink, running, left>>

SetMarkerKeeping ==  \* mutant: the other marker is not removed
    /\ req.op \in Arm /\ req.at = "marker"
    /\ once' = (once \/ req.op = "status") /\ session' = (session \/ req.op = "control")
    /\ left' = left \ {"kit"}
    /\ IF req.op = "control" THEN Go("start") ELSE Done
    /\ UNCHANGED <<file, key, guard, link, sentinelLink, running>>

SetMarker ==
    /\ req.op \in Arm /\ req.at = "marker"
    /\ once' = (req.op = "status") /\ session' = (req.op = "control")
    /\ left' = left \ {"kit"}
    /\ IF req.op = "control" THEN Go("start") ELSE Done
    /\ UNCHANGED <<file, key, guard, link, sentinelLink, running>>

\* startNow: the start script runs with the session's marker.
StartNow ==
    /\ At("control", "start")
    /\ launcher' = launcher \cup {"session"}
    /\ once' = FALSE
    /\ Done
    /\ UNCHANGED <<file, key, session, guard, link, sentinelLink, temp, sentinel, daemon, left>>

\* An arming fails once its cleanup is deferred: with the ADB client it began
\* with, the key and the markers are removed and the sentinel is started again,
\* unless ADB is gone.  The client opened after the STATUS is closed before the
\* cleanup runs, which therefore does nothing.
Early == {"daemon", "in daemon", "key", "in key", "script", "in script", "pushed"}

CleansUp ==
    /\ key' = "none" /\ once' = FALSE /\ session' = FALSE
    /\ sentinel' = (sentinel \/ req.was)
    /\ UNCHANGED left

LeavesAll ==
    /\ left' = left \cup {"kit"}
    /\ UNCHANGED <<key, once, session, sentinel>>

ArmFails ==
    /\ req.op \in Arm
    /\ \/ req.at \in {"begun", "alone"}      \* nothing was changed yet
          /\ sentinel' \in {sentinel, sentinel \/ req.was}
          /\ UNCHANGED <<key, once, session, left>>
       \/ req.at \in Early /\ (CleansUp \/ LeavesAll)
       \/ req.at \in {"asking", "link", "marker", "start"} /\ LeavesAll
    /\ Done
    /\ UNCHANGED <<file, guard, link, sentinelLink, temp, daemon, launcher>>

-----------------------------------------------------------------------------
\* voiceTestUninstallAPI: the link first, then the processes, then the stock
\* sound card and the files, the markers before the rest.
RemoveLink ==
    /\ At("uninstall", "begun") /\ link # "foreign"
    /\ link' = "absent"
    /\ Go("stop")
    /\ UNCHANGED <<file, key, once, session, guard, sentinelLink, running, left>>

StopAll ==
    /\ At("uninstall", "stop")
    /\ daemon' = "no"
    /\ Go("markers")
    /\ UNCHANGED <<flash, temp, sentinel, launcher, left>>

RemoveMarkers ==
    /\ At("uninstall", "markers")
    /\ once' = FALSE /\ session' = FALSE
    /\ Go("files")
    /\ UNCHANGED <<file, key, guard, link, sentinelLink, running, left>>

RemoveFiles ==
    /\ At("uninstall", "files")
    /\ file' = [f \in DOMAIN file |-> IF f = "sentinel" THEN file[f] ELSE "none"]
    /\ key' = "none"
    /\ left' = left \ {"kit"}
    /\ Done
    /\ UNCHANGED <<once, session, guard, link, sentinelLink, running>>

\* sentinelInstallOnceAPI; it fails without a cleanup.
ArmSentinel ==
    /\ At("sentinel", "pushed")
    /\ sentinelLink # "foreign" /\ ~sentinel /\ daemon = "no"
    /\ sentinelLink' = "ours" /\ guard' = TRUE
    /\ Done
    /\ left' = left \ {"sentinel"}
    /\ UNCHANGED <<file, key, once, session, link, running>>

\* sentinelUninstallAPI
RemoveSentinel ==
    /\ At("unsentinel", "begun") /\ sentinelLink # "foreign"
    /\ sentinelLink' = "absent" /\ guard' = FALSE /\ sentinel' = FALSE
    /\ file' = [file EXCEPT !.sentinel = "none"]
    /\ left' = left \ {"sentinel"}
    /\ Done
    /\ UNCHANGED <<key, once, session, link, temp, daemon, launcher>>

\* qmiVoiceDaemonStatusAPI and qmiSMSGatewayStatusAPI: a daemon is put in /tmp,
\* started, asked and removed with its key.
TryBegins ==
    /\ \/ At("try voice", "alone")
       \/ At("try sms", "begun")
    /\ temp' = temp \cup {req.op}
    /\ Go("trying")
    /\ UNCHANGED <<flash, sentinel, daemon, launcher, left>>

TryEnds ==
    /\ req.op \in Try /\ req.at = "trying"
    /\ temp' = temp \ {req.op}
    /\ left' = IF temp' = {} THEN left \ {"temp"} ELSE left
    /\ sentinel' = (sentinel \/ req.was)
    /\ Done
    /\ UNCHANGED <<flash, daemon, launcher>>

\* A request other than an arming gives up, or the cleanup of a try fails.
OtherFails ==
    /\ req # NoRequest /\ req.op \notin Arm
    /\ left' = left \cup (IF req.at = "trying" THEN {"temp"} ELSE {})
                    \cup (IF req.at = "in sentinel" THEN {"sentinel"} ELSE {})
    /\ sentinel' \in {sentinel, sentinel \/ req.was}
    /\ Done
    /\ UNCHANGED <<flash, temp, daemon, launcher>>

-----------------------------------------------------------------------------
\* The module loses its power and boots: the links are run in their order.  The
\* start scripts consume the markers that are for one start before they wait.
BootedWith(mode) == link = "ours" /\ file.script = "whole" /\ mode

Reboot ==
    /\ temp' = {} /\ daemon' = "no"
    /\ sentinel' = (sentinelLink = "ours" /\ guard /\ file.sentinel = "whole")
    /\ guard' = (guard /\ sentinelLink # "ours")
    /\ launcher' = (IF BootedWith(once) THEN {"once"}
                    ELSE IF BootedWith(session) THEN {"session"} ELSE {})
    /\ once' = (once /\ ~BootedWith(once))
    /\ session' = (session /\ ~BootedWith(once))
    /\ left' = (left \ {"temp"})
          \cup (IF req.op \in Arm /\ req.at \notin {"begun", "alone"} THEN {"kit"} ELSE {})
          \cup (IF req.at = "in sentinel" THEN {"sentinel"} ELSE {})
    /\ Done
    /\ UNCHANGED <<file, key, link, sentinelLink>>

\* The start script has its address and starts the daemon, or gives up; either
\* way it removes the key of a single start.
Starts(mode, ok) ==
    /\ mode \in launcher
    /\ launcher' = launcher \ {mode}
    /\ ok => /\ key # "none" /\ file.daemon = "whole"
             /\ daemon = "no" /\ ~sentinel
    /\ daemon' = IF ok THEN mode ELSE daemon
    /\ key' = IF mode = "once" THEN "none" ELSE key
    /\ left' = IF mode = "once" /\ (once \/ session \/ req.op \in Arm)
               THEN left \cup {"key"} ELSE left
    /\ UNCHANGED <<file, once, session, guard, link, sentinelLink, temp, sentinel,
                   req>>

\* A daemon ends: after its one STATUS, or of itself.
DaemonEnds ==
    /\ daemon # "no" /\ daemon' = "no"
    /\ UNCHANGED <<flash, temp, sentinel, launcher, req, left>>

-----------------------------------------------------------------------------
Arming ==
    \/ StopSentinel \/ StopOld \/ Validate \/ Asked
    \/ InstallLink \/ SetMarker \/ StartNow \/ ArmFails
Removing == RemoveLink \/ StopAll \/ RemoveMarkers \/ RemoveFiles
Sentinel ==
    \/ At("sentinel", "begun") /\ Go("sentinel")
       /\ UNCHANGED <<flash, running, left>>
    \/ ArmSentinel \/ RemoveSentinel
Module ==
    \/ Reboot \/ DaemonEnds
    \/ \E mode \in {"once", "session"}, ok \in BOOLEAN : Starts(mode, ok)

Next ==
    \/ \E op \in Arm \cup Try \cup {"uninstall", "sentinel", "unsentinel"} : Begin(op)
    \/ \E f \in Pushed : Pushes(f) \/ PushEnds(f)
    \/ Arming \/ Removing \/ Sentinel
    \/ TryBegins \/ TryEnds \/ OtherFails
    \/ Module

Spec == Init /\ [][Next]_vars

TypeOK ==
    /\ file \in [{"daemon", "script", "sentinel"} -> {"none", "part", "whole"}]
    /\ key \in {"none", "part", "once", "stable"}
    /\ {once, session, guard, sentinel} \subseteq BOOLEAN
    /\ left \subseteq {"kit", "key", "sentinel", "temp"}
    /\ {link, sentinelLink} \subseteq {"absent", "ours", "foreign"}
    /\ temp \subseteq Try /\ launcher \subseteq {"once", "session"}
    /\ daemon \in {"no", "check", "once", "session"}
    /\ req.op \in Arm \cup Try \cup {"none", "uninstall", "sentinel", "unsentinel"}

Kit(files, k) == (\A f \in files : file[f] = "whole") /\ key = k

\* Between the requests, what the module would start at a boot is whole, was
\* verified and has the key its mode is for, and nothing tried from /tmp is
\* there any more: through failures at any step, losses of power, and armings
\* over one another, unless a cleanup could not run or a late start script took
\* the key away.
ArmedIsWhole ==
    /\ left \cap {"kit", "key"} = {} /\ (req.op \notin Arm \/ req.at \in {"begun", "alone"}) =>
         /\ once => Kit({"daemon", "script"}, "once")
         /\ session => Kit({"daemon", "script"}, "stable")
    /\ "sentinel" \notin left /\ guard => file.sentinel = "whole" \/ req.op = "sentinel"
    /\ "temp" \notin left => \A t \in temp : req.op = t
=============================================================================
