----------------------------- MODULE VoiceRoute -----------------------------
(* The call poller of the Mac host and the module's voice route, cmd/        *)
(* djonehub-macos/calls.go and module_voice_upstream.go: the goroutine that  *)
(* polls CLCC, the one that prewarms the route, the teardown timer with its  *)
(* generation, and the HTTP handlers.  callMu is held by the timer's         *)
(* callback for as long as it stops the route, moduleVoiceOpMu by whoever    *)
(* starts or stops it; every other critical section is one step.  The call   *)
(* handlers run one at a time (bound), and so do the route's own requests.   *)
(* AT+CLIP and the wake-up of the poller only change when it polls.          *)

CONSTANT ByHand \* bound: whether the route and the Go audio are also started
                \* and stopped by requests of their own, and the native host
                \* comes and goes; otherwise it never comes

VARIABLES
    call,       \* the call the module has: "none" or its CLCC state
    known,      \* activeCall
    poll,       \* where the poller is
    seen,       \* the CLCC answer the poller works on
    timer,      \* moduleVoiceStopTimer: "none" or "armed"
    callback,   \* the timer's callback that waits for callMu, by generation
    tear,       \* the callback inside stopModuleVoiceRoute, callMu held
    op,         \* who holds moduleVoiceOpMu
    warm,       \* the prewarm goroutine; moduleVoiceWarming unless "no"
    handler,    \* the call request under way
    ready, blocked, recent, failed,
                \* moduleVoiceReady, moduleVoiceBlocked, moduleVoiceLast within
                \* the retry window, moduleVoiceErr not empty
    up,         \* "up": the helper runs on the module and the route is set;
                \* "lost": it was, or was being set, when the module restarted
    swift,      \* swiftAudioHost
    manual,     \* audioManualSet
    playing     \* audio.isRunning()

poller == <<poll, seen>>
stopper == <<timer, callback, tear>>
status == <<ready, blocked, recent, failed>>
audio == <<swift, manual, playing>>
vars == <<call, known, poller, stopper, op, warm, handler, status, up, audio>>

Setup == {"incoming", "dialing"}     \* shouldFastPollCallState

Init ==
    /\ call = "none" /\ known = "none"
    /\ poll = "idle" /\ seen = "none"
    /\ timer = "none" /\ callback = "none" /\ tear = "no"
    /\ op = "none" /\ warm = "no" /\ handler = "no"
    /\ ready = FALSE /\ blocked = FALSE /\ recent = FALSE /\ failed = FALSE
    /\ up = "down"
    /\ swift = FALSE /\ manual = FALSE /\ playing = FALSE

CallMuFree == tear = "no"
-----------------------------------------------------------------------------
\* The teardown timer and its generation.
CancelStop ==  \* cancelModuleVoiceRouteStopLocked
    /\ timer' = "none"
    /\ callback' = IF callback = "current" THEN "stale" ELSE callback

ScheduleStop ==
    /\ poll = "ended" /\ CallMuFree
    /\ callback' = (IF callback = "current" THEN "stale" ELSE callback)
    /\ timer' = "armed"
    /\ poll' = "idle"
    /\ UNCHANGED <<call, known, seen, tear, op, warm, handler, status, up, audio>>

TimerFires ==
    /\ timer = "armed" /\ callback = "none"
    /\ timer' = "none" /\ callback' = "current"
    /\ UNCHANGED <<call, known, poller, tear, op, warm, handler, status, up, audio>>

\* The callback gives up, or goes on to stopModuleVoiceRoute with callMu held.
Callback ==
    /\ callback # "none" /\ CallMuFree
    /\ callback' = "none"
    /\ tear' = IF callback = "stale" \/ known # "none" THEN "no" ELSE "wait"
    /\ UNCHANGED <<call, known, poller, timer, op, warm, handler, status, up, audio>>

-----------------------------------------------------------------------------
\* stopModuleVoiceRoute: a route that is not ready only gets a fresh attempt.
\* The inner stop may fail with the helper still running.
StopBegins(owner) ==
    /\ op = "none"
    /\ op' = IF ready THEN owner ELSE "none"
    /\ ready' = FALSE /\ blocked' = FALSE /\ recent' = FALSE
    /\ UNCHANGED <<failed, up>>

StopEndsPublishing(owner) ==  \* mutant: ready is taken back at the end only
    /\ op = owner /\ op' = "none"
    /\ up' \in {"down", up}
    /\ ready' = TRUE /\ UNCHANGED <<blocked, recent, failed>>

StopEnds(owner) ==
    /\ op = owner /\ op' = "none"
    /\ up' \in {"down", up}
    /\ UNCHANGED status

\* ensureModuleVoiceRouteLocked up to the start; "starts" when it goes on.
Answer ==
    IF ready THEN "ok"
    ELSE IF blocked THEN "refused"
    ELSE IF recent THEN (IF failed THEN "refused" ELSE "ok")
    ELSE "starts"

\* startModuleVoiceRoute: the route is up, or one of its steps failed, perhaps
\* after the helper was launched, perhaps on the legacy voice card.  A restart
\* of the module after the step that passed last is not noticed.
StartSucceeds(owner) ==
    /\ op = owner /\ op' = "none"
    /\ up' \in {"up"} \cup ({up} \cap {"lost"})
    /\ ready' = TRUE /\ blocked' = FALSE /\ recent' = TRUE /\ failed' = FALSE

StartFails(owner) ==
    /\ op = owner /\ op' = "none"
    /\ up' \in {up, "up"}
    /\ blocked' \in BOOLEAN
    /\ ready' = FALSE /\ recent' = TRUE /\ failed' = TRUE

RetryWindowEnds ==
    /\ recent /\ op = "none"
    /\ recent' = FALSE
    /\ UNCHANGED <<call, known, poller, stopper, op, warm, handler, ready,
                   blocked, failed, up, audio>>

TeardownUnlocks ==  \* mutant: callMu is not held across the slow stop
    /\ tear = "wait"
    /\ StopBegins("timer")
    /\ tear' = "no"
    /\ UNCHANGED <<call, known, poller, timer, callback, warm, handler, audio>>

TeardownBegins ==
    /\ tear = "wait"
    /\ StopBegins("timer")
    /\ tear' = IF ready THEN "stopping" ELSE "no"
    /\ UNCHANGED <<call, known, poller, timer, callback, warm, handler, audio>>

TeardownEnds ==
    /\ StopEnds("timer")
    /\ tear' = "no"
    /\ UNCHANGED <<call, known, poller, timer, callback, warm, handler, audio>>

\* prewarmModuleVoiceRoute: it cancels the teardown and starts the goroutine.
Prewarm ==
    /\ CallMuFree
    /\ CancelStop
    /\ warm' = IF warm = "no" /\ ~ready /\ ~blocked THEN "waiting" ELSE warm

WarmBegins ==
    /\ warm = "waiting" /\ op = "none"
    /\ IF Answer = "starts" THEN warm' = "starting" /\ op' = "warm"
       ELSE warm' = "no" /\ UNCHANGED op
    /\ UNCHANGED <<call, known, poller, stopper, handler, status, up, audio>>

WarmEnds ==
    /\ StartSucceeds("warm") \/ StartFails("warm")
    /\ warm' = "no"
    /\ UNCHANGED <<call, known, poller, stopper, handler, audio>>

-----------------------------------------------------------------------------
\* pollCallOnce: CLCC is asked; the answer may be lost.
PollReads ==
    /\ poll = "idle" /\ CallMuFree
    /\ poll' = "apply" /\ seen' = call
    /\ UNCHANGED <<call, known, stopper, op, warm, handler, status, up, audio>>

PollFails ==
    /\ poll = "apply"
    /\ poll' = "idle" /\ seen' = "none"
    /\ UNCHANGED <<call, known, stopper, op, warm, handler, status, up, audio>>

\* applyCallPoll without a call, up to the second lock.
ApplyNone ==
    /\ poll = "apply" /\ seen = "none" /\ CallMuFree
    /\ known' = "none"
    /\ poll' = IF known # "none" THEN "ended" ELSE "idle"
    /\ playing' = (playing /\ (manual \/ swift))
    /\ UNCHANGED <<call, seen, stopper, op, warm, handler, status, up, swift, manual>>

ApplyCall ==
    /\ poll = "apply" /\ seen # "none" /\ CallMuFree
    /\ CancelStop
    /\ known' = seen
    /\ poll' = "route"
    /\ UNCHANGED <<call, seen, tear, op, warm, handler, status, up, audio>>

PollPrewarms ==
    /\ poll = "route" /\ seen \in Setup
    /\ Prewarm
    /\ poll' = "idle" /\ seen' = "none"
    /\ UNCHANGED <<call, known, tear, op, handler, status, up, audio>>

PollRoutes ==
    /\ poll = "route" /\ seen = "active" /\ CallMuFree
    /\ poll' = IF blocked THEN "idle"
               ELSE IF swift THEN "ensure"
               ELSE IF ~manual /\ ~playing THEN "ensureAudio"
               ELSE "idle"
    /\ seen' = "none"
    /\ UNCHANGED <<call, known, stopper, op, warm, handler, status, up, audio>>

\* The poller itself ensures the route; the Go audio starts after it, or fails.
AudioAfter(ok) ==
    IF ok /\ poll \in {"ensureAudio", "startingAudio"}
    THEN playing' \in {playing, TRUE} ELSE UNCHANGED playing

PollEnsures ==
    /\ poll \in {"ensure", "ensureAudio"} /\ op = "none"
    /\ IF Answer = "starts"
       THEN /\ op' = "poller"
            /\ poll' = (IF poll = "ensure" THEN "starting" ELSE "startingAudio")
            /\ UNCHANGED playing
       ELSE /\ poll' = "idle"
            /\ AudioAfter(Answer = "ok")
            /\ UNCHANGED op
    /\ UNCHANGED <<call, known, seen, stopper, warm, handler, status, up, swift, manual>>

PollStarted ==
    /\ \/ StartSucceeds("poller") /\ AudioAfter(TRUE)
       \/ StartFails("poller") /\ AudioAfter(FALSE)
    /\ poll' = "idle"
    /\ UNCHANGED <<call, known, seen, stopper, warm, handler, swift, manual>>

-----------------------------------------------------------------------------
\* answerCall prewarms before ATA, dialCall after ATD.
AnswerBegins ==
    /\ handler = "no"
    /\ Prewarm
    /\ handler' = "answer"
    /\ UNCHANGED <<call, known, poller, tear, op, status, up, audio>>

AnswerEnds ==
    /\ handler = "answer" /\ handler' = "no"
    /\ call' \in {call, IF call = "incoming" THEN "active" ELSE call}
    /\ UNCHANGED <<known, poller, stopper, op, warm, status, up, audio>>

DialBegins ==
    /\ handler = "no" /\ call = "none"
    /\ call' = "dialing" /\ handler' = "dial"
    /\ UNCHANGED <<known, poller, stopper, op, warm, status, up, audio>>

DialEnds ==
    /\ handler = "dial" /\ handler' = "no"
    /\ Prewarm
    /\ UNCHANGED <<call, known, poller, tear, op, status, up, audio>>

\* hangupCall, rejectCall, and what the network and the other party do.
CallEnds ==
    /\ call # "none" /\ call' = "none"
    /\ UNCHANGED <<known, poller, stopper, op, warm, handler, status, up, audio>>

CallChanges ==
    /\ \/ call = "none" /\ call' = "incoming"
       \/ call = "dialing" /\ call' = "active"
    /\ UNCHANGED <<known, poller, stopper, op, warm, handler, status, up, audio>>

\* markUSBATDetached: the module reboots or is unplugged, and its call, helper
\* and route go with it.  The host clears callConfigured and nothing else here:
\* it learns of the call's end from CLCC, of the route's never.
ModuleRestarts ==
    /\ call' = "none"
    /\ up' = IF up = "up" \/ op # "none" THEN "lost" ELSE up
    /\ UNCHANGED <<known, poller, stopper, op, warm, handler, status, audio>>

\* audioStart, audioStop and audioHostRegister.
AudioStart ==
    /\ ByHand /\ CallMuFree /\ known # "none"
    /\ manual' = TRUE /\ playing' \in {playing, TRUE}
    /\ UNCHANGED <<call, known, poller, stopper, op, warm, handler, status, up, swift>>

AudioStop ==
    /\ ByHand /\ CallMuFree
    /\ manual' = FALSE /\ playing' = FALSE
    /\ UNCHANGED <<call, known, poller, stopper, op, warm, handler, status, up, swift>>

AudioHostRegister(enabled) ==
    /\ ByHand /\ CallMuFree
    /\ swift' = enabled /\ playing' = (playing /\ ~enabled)
    /\ UNCHANGED <<call, known, poller, stopper, op, warm, handler, status, up, manual>>

\* voiceStartAPI and voiceStopAPI.
StartRequest ==
    /\ ByHand /\ op = "none" /\ Answer = "starts"
    /\ op' = "start"
    /\ UNCHANGED <<call, known, poller, stopper, warm, handler, status, up, audio>>

StopRequest ==
    /\ ByHand /\ StopBegins("stop")
    /\ UNCHANGED <<call, known, poller, stopper, warm, handler, audio>>

RequestEnds ==
    /\ StartSucceeds("start") \/ StartFails("start") \/ StopEnds("stop")
    /\ UNCHANGED <<call, known, poller, stopper, warm, handler, audio>>

-----------------------------------------------------------------------------
Poller ==
    \/ PollReads \/ PollFails \/ ApplyNone \/ ScheduleStop \/ ApplyCall
    \/ PollPrewarms \/ PollRoutes \/ PollEnsures \/ PollStarted
Stopper == TimerFires \/ Callback \/ TeardownBegins \/ TeardownEnds
Handlers ==
    \/ AnswerBegins \/ AnswerEnds \/ DialBegins \/ DialEnds
    \/ AudioStart \/ AudioStop \/ StartRequest \/ StopRequest \/ RequestEnds
    \/ \E enabled \in BOOLEAN : AudioHostRegister(enabled)

Next ==
    \/ Poller \/ Stopper \/ Handlers
    \/ WarmBegins \/ WarmEnds
    \/ CallEnds \/ CallChanges \/ RetryWindowEnds \/ ModuleRestarts

\* The goroutines and the timer's callback run, and a mutex many want is had in
\* turn (that of Go is handed over in order once a waiter has been passed by);
\* not every CLCC exchange fails.
Fairness ==
    /\ SF_vars(Poller /\ ~PollFails)
    /\ SF_vars(ApplyNone \/ ApplyCall)
    /\ SF_vars(WarmBegins \/ WarmEnds)
    /\ SF_vars(TeardownBegins \/ TeardownEnds)
    /\ WF_vars(RequestEnds)

Spec == Init /\ [][Next]_vars
FairSpec == Spec /\ Fairness

-----------------------------------------------------------------------------
Place == {"idle", "apply", "ended", "route", "ensure", "ensureAudio",
          "starting", "startingAudio"}
State == {"none", "incoming", "dialing", "active"}
TypeOK ==
    /\ call \in State /\ known \in State /\ seen \in State
    /\ poll \in Place
    /\ timer \in {"none", "armed"}
    /\ callback \in {"none", "current", "stale"}
    /\ tear \in {"no", "wait", "stopping"}
    /\ op \in {"none", "timer", "warm", "poller", "start", "stop"}
    /\ warm \in {"no", "waiting", "starting"}
    /\ handler \in {"no", "answer", "dial"}
    /\ {ready, blocked, recent, failed, swift, manual, playing} \subseteq BOOLEAN
    /\ up \in {"down", "up", "lost"}
    /\ tear = "stopping" <=> op = "timer"
    /\ poll \in {"starting", "startingAudio"} <=> op = "poller"
    /\ warm = "starting" <=> op = "warm"

\* What the status of the route says of the module is so, whoever starts and
\* stops it meanwhile: a route that is called ready is up, or the module has
\* restarted or was unplugged under it, which clears no moduleVoiceReady; the
\* host itself never takes down a route it calls ready.  And an attempt that is
\* not repeated within the retry window is one that has failed, never one the
\* caller would take for a success.
StatusIsHonest ==
    /\ ready => up \in {"up", "lost"}
    /\ recent /\ ~ready => failed

\* The host does not take the route away from a call the poller knows, except by
\* the request to stop it: the timer of the call before, and a callback of it
\* that has already fired, see the new call or are seen to be stale.
CallKeepsRoute ==
    [][(ready /\ ~ready') \/ (up # "down" /\ up' = "down") =>
         known = "none" \/ op = "stop" \/ op' = "stop"]_vars

IsRouted ==
    call # "active" \/ ready \/ recent \/ blocked \/ manual \/ playing

\* An active call gets its route, or an attempt was made for it; unless the Go
\* audio was started by hand or plays already, when nobody tries, or the route
\* is called ready: also one the module has lost since.  So callMu and
\* moduleVoiceOpMu are taken in an order in which the poller, the prewarm and the
\* teardown are never kept from their ends.
ActiveCallGetsRoute == call = "active" ~> IsRouted
=============================================================================
