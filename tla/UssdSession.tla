------------------------------ MODULE UssdSession -----------------------------
(* ExecuteUSSD of internal/backend/qmi_backend_ussd.go.  One command at a time *)
(* (ussdMu); the modem's answers and the release of its USSD session come by   *)
(* callbacks that write, without waiting, to three channels of one place.      *)
(* After a command gave up, the next is refused until the session was released *)
(* (ussdAwaitRelease), so that a late answer is not told to it.  The modem is  *)
(* external: one session at a time, an answer comes once and before the        *)
(* release.                                                                    *)

EXTENDS Sequences, Naturals

CONSTANT MaxUssd   \* bound: commands

VARIABLES
    ussd,      \* the command under way or the last: n, at
    await,     \* ussdAwaitRelease
    results, errors, releases,  \* the channels; each value with its command
    domain,    \* the modem's NAS preference: its service and voice domains
    session,   \* the modem's session: 0, or the command it is of; and whether
               \* the answer was given
    events,    \* indications on their way to the callbacks
    told,      \* history: the last answer told: to which command, of which
    gaveUp,    \* history: the command await is for
    mistaken   \* history: a release was taken for that of another session, or
               \* a command was left without await while its session lived

ussdVars == <<ussd, await, results, errors, releases, domain, session, events, told,
              gaveUp, mistaken>>

Init ==
    /\ ussd = [n |-> 0, at |-> "idle"] /\ await = FALSE
    /\ results = <<>> /\ errors = <<>> /\ releases = <<>>
    /\ domain \in [service : {"CS", "PS only"}, voice : {"CS preferred", "PS preferred"}]
    /\ session = [n |-> 0, answered |-> FALSE] /\ events = <<>>
    /\ told = [to |-> 0, of |-> 0] /\ gaveUp = 0 /\ mistaken = FALSE

channels == <<results, errors, releases>>
Goes(where) == ussd' = [ussd EXCEPT !.at = where]
-----------------------------------------------------------------------------
ExecuteAnyway ==  \* mutant: the session of before is not waited for
    /\ ussd.at = "idle" /\ ussd.n < MaxUssd
    /\ results' = <<>> /\ errors' = <<>> /\ releases' = <<>>
    /\ await' = FALSE
    /\ ussd' = [n |-> ussd.n + 1, at |-> "prepare"]
    /\ mistaken' = (mistaken \/ (await /\ releases # <<>> /\ releases # <<gaveUp>>))
    /\ UNCHANGED <<domain, session, events, told, gaveUp>>

\* The mutex is taken and resetUSSDChannelsLocked empties the channels; a
\* release that waits there ends the refusal.
Execute ==
    /\ ussd.at = "idle" /\ ussd.n < MaxUssd
    /\ results' = <<>> /\ errors' = <<>> /\ releases' = <<>>
    /\ await' = (await /\ releases = <<>>)
    /\ ussd' = [n |-> ussd.n + 1, at |-> IF await' THEN "idle" ELSE "prepare"]
    /\ mistaken' = (mistaken \/ (await /\ releases # <<>> /\ releases # <<gaveUp>>))
    /\ UNCHANGED <<domain, session, events, told, gaveUp>>

\* prepareQMIUSSDVoiceState: what keeps USSD off the circuit switched domain is
\* changed until the next power cycle; a failure is ignored.
Prepare ==
    /\ ussd.at = "prepare"
    /\ domain' \in {domain, [service |-> "CS", voice |-> "CS preferred"]}
    /\ Goes("originate")
    /\ UNCHANGED <<await, channels, session, events, told, gaveUp, mistaken>>

GivesUp ==
    /\ await' = TRUE /\ gaveUp' = ussd.n
    /\ Goes("idle")

Opened == session.n = 0 /\ session' = [n |-> ussd.n, answered |-> FALSE]

\* VOICEOriginateUSSDNoWait, or VOICEOriginateUSSD where the modem does not know
\* it, whose response may hold the answer.
Originate ==
    /\ ussd.at = "originate"
    /\ \/ Opened /\ Goes("wait") /\ UNCHANGED <<await, told, gaveUp, mistaken>>
       \/ /\ session.n = 0 /\ session' = [n |-> ussd.n, answered |-> TRUE]
          /\ Goes("idle") /\ told' = [to |-> ussd.n, of |-> ussd.n]
          /\ UNCHANGED <<await, gaveUp, mistaken>>
       \* refused: the modem is busy, or the request is wrong
       \/ Goes("idle") /\ UNCHANGED <<session, await, told, gaveUp, mistaken>>
       \* the deadline: the modem may have taken the request
       \/ GivesUp /\ (Opened \/ UNCHANGED session) /\ UNCHANGED <<told, mistaken>>
       \* any other error, the caller's cancellation among them
       \/ /\ Opened /\ Goes("idle") /\ mistaken' = TRUE
          /\ UNCHANGED <<await, told, gaveUp>>
    /\ UNCHANGED <<channels, domain, events>>

\* waitQMIUSSDResult: the select takes any that is ready.
TakeResult ==
    /\ ussd.at = "wait" /\ results # <<>>
    /\ told' = [to |-> ussd.n, of |-> results[1]]
    /\ results' = <<>> /\ Goes("idle")
    /\ UNCHANGED <<await, errors, releases, domain, session, events, gaveUp, mistaken>>

TakeError ==
    /\ ussd.at = "wait" /\ errors # <<>>
    /\ errors' = <<>> /\ Goes("idle")
    /\ UNCHANGED <<await, results, releases, domain, session, events, told, gaveUp,
                   mistaken>>

TakeRelease ==
    /\ ussd.at = "wait" /\ releases # <<>>
    /\ await' = FALSE
    /\ mistaken' = (mistaken \/ releases # <<ussd.n>>)
    /\ releases' = <<>> /\ Goes("idle")
    /\ UNCHANGED <<results, errors, domain, session, events, told, gaveUp>>

\* The context's end: VOICECancelUSSD, which may not reach the modem.
ContextEnds ==
    /\ ussd.at = "wait"
    /\ GivesUp
    /\ UNCHANGED <<channels, domain, session, events, told, mistaken>>

\* The callbacks: a channel that is full keeps what it has.
Into(channel, n) == IF channel = <<>> THEN <<n>> ELSE channel

Callback ==
    /\ events # <<>> /\ events' = Tail(events)
    /\ LET e == Head(events)
       IN  /\ results'  = IF e[1] = "result" THEN Into(results, e[2]) ELSE results
           /\ errors'   = IF e[1] = "error" THEN Into(errors, e[2]) ELSE errors
           /\ releases' = IF e[1] = "release" THEN Into(releases, e[2]) ELSE releases
    /\ UNCHANGED <<ussd, await, domain, session, told, gaveUp, mistaken>>

\* The modem (external); CancelUSSD only makes it end the session.
ModemAnswers ==
    /\ session.n # 0 /\ ~session.answered
    /\ \E what \in {"result", "error"} : events' = Append(events, <<what, session.n>>)
    /\ session' = [session EXCEPT !.answered = TRUE]
    /\ UNCHANGED <<ussd, await, channels, domain, told, gaveUp, mistaken>>

ModemReleases ==
    /\ session.n # 0
    /\ events' = Append(events, <<"release", session.n>>)
    /\ session' = [n |-> 0, answered |-> FALSE]
    /\ UNCHANGED <<ussd, await, channels, domain, told, gaveUp, mistaken>>

Next ==
    \/ Execute \/ Prepare \/ Originate
    \/ TakeResult \/ TakeError \/ TakeRelease \/ ContextEnds \/ Callback
    \/ ModemAnswers \/ ModemReleases

UssdSpec == Init /\ [][Next]_ussdVars

TypeOK ==
    /\ ussd.n \in 0..MaxUssd /\ ussd.at \in {"idle", "prepare", "originate", "wait"}
    /\ await \in BOOLEAN /\ mistaken \in BOOLEAN
    /\ session.n \in 0..MaxUssd

\* The answer told to a command is its own, although commands give up while the
\* modem still works on them and callbacks come late; except once a release of
\* an earlier session was taken for this one's, or a command was left while it
\* was sent.
AnswersAreOwn == mistaken \/ told.to = told.of
=============================================================================
