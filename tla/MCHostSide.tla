----------------------------- MODULE MCHostSide -----------------------------
(* Two parts of the Mac host that share no state: the AT engine, and the     *)
(* poller of calls with the voice route.  A behaviour is one of either part, *)
(* as nothing is gained by interleaving them.                                *)
EXTENDS ATEngine, TLC

CONSTANT ByHand
VARIABLES part, call, known, poll, seen, timer, callback, tear, op, warm, handler,
    ready, blocked, recent, failed, up, swift, manual, playing
Symmetry == Permutations(Caller \ Interactive) \cup Permutations(Request)

V == INSTANCE VoiceRoute
voice == <<call, known, poll, seen, timer, callback, tear, op, warm, handler,
           ready, blocked, recent, failed, up, swift, manual, playing>>

HostInit == Init /\ V!Init /\ part \in {"engine", "voice"}
HostNext ==
    \/ part = "engine" /\ Next /\ UNCHANGED <<part, voice>>
    \/ part = "voice" /\ V!Next /\ UNCHANGED <<part, vars>>
HostSpec == HostInit /\ [][HostNext]_<<part, vars, voice>>

\* Bounds: two replies wait to be read, with those in rxChan; the module answers
\* the ESC of the first timeout only; and the audio is not started by hand or
\* taken by the Swift host while the module is without the route it had.
FewOwed == Len(owed') + Len(rx') =< 2
OneEscAnswered == timedOut' # timedOut /\ owed' # owed => timedOut = {}
NoAudioWhenLost == up' = "lost" => ~swift' /\ ~manual' /\ ~playing'

Bounds == FewOwed /\ OneEscAnswered /\ NoAudioWhenLost
BoundedHostSpec == HostInit /\ [][HostNext /\ Bounds]_<<part, vars, voice>>

\* The fairness of either part, in its own behaviours.
HostFairness ==
    /\ \A c \in Caller : WF_vars(part = "engine" /\ pc[c] # "new" /\ CallerStep(c))
    /\ WF_vars(part = "engine" /\ LoopStep)
    /\ WF_vars(part = "engine" /\ FinishStop)
    /\ SF_voice(part = "voice" /\ V!Poller /\ ~V!PollFails)
    /\ SF_voice(part = "voice" /\ (V!ApplyNone \/ V!ApplyCall))
    /\ SF_voice(part = "voice" /\ (V!WarmBegins \/ V!WarmEnds))
    /\ SF_voice(part = "voice" /\ (V!TeardownBegins \/ V!TeardownEnds))
    /\ WF_voice(part = "voice" /\ V!RequestEnds)

\* What the status of the voice route says of the module is so: see VoiceRoute.
StatusIsHonest == V!TypeOK /\ V!StatusIsHonest

\* The route is not taken from a call the poller knows: see VoiceRoute.
CallKeepsRoute == V!CallKeepsRoute
=============================================================================
