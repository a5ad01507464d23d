------------------------------- MODULE ATUssd -------------------------------
(* USSD over AT commands (ExecuteUSSD, CancelUSSD and the dispatch of +CUSD  *)
(* in internal/modem/manager.go): one channel of one place, ussdChan, between *)
(* the network's answers and whoever waits, and no lock between callers.      *)
EXTENDS Naturals

CONSTANTS
    Dialer,         \* callers of ExecuteUSSD
    Network,        \* who the network's own messages are for
    NoText,         \* ussdChan is empty
    MaxDials,       \* bound: calls of ExecuteUSSD
    MaxWords        \* bound: messages of the network that nobody asked for
VARIABLES
    dial,           \* where each caller is
    ussdChan,       \* whom the answer in it is for
    due,            \* callers the network will answer, if it is not told to stop
    said,           \* whose answer a caller returned last, or "failed"
    excused,        \* callers whose answer could be taken for another's
    halted,         \* m.stop is closed
    dials, words

vars == <<dial, ussdChan, due, said, excused, halted, dials, words>>

TypeOK ==
    /\ dial \in [Dialer -> {"idle", "charset", "send", "wait", "cancel"}]
    /\ ussdChan \in Dialer \cup {Network, NoText} /\ due \subseteq Dialer
    /\ said \in [Dialer -> Dialer \cup {Network, "nothing", "failed"}]
    /\ excused \subseteq Dialer /\ halted \in BOOLEAN
    /\ dials \in 0..MaxDials /\ words \in 0..MaxWords

Init ==
    /\ dial = [d \in Dialer |-> "idle"] /\ ussdChan = NoText /\ due = {}
    /\ said = [d \in Dialer |-> "nothing"] /\ excused = {} /\ halted = FALSE
    /\ dials = 0 /\ words = 0

Busy == {d \in Dialer : dial[d] # "idle"}
To(d, where) == dial' = [dial EXCEPT ![d] = where]
Returns(d, what) == To(d, "idle") /\ said' = [said EXCEPT ![d] = what]
-----------------------------------------------------------------------------
\* ExecuteUSSD throws away what is left in the channel of an earlier call.
Begin(d) ==
    /\ dial[d] = "idle" /\ dials < MaxDials /\ dials' = dials + 1 /\ To(d, "charset")
    /\ excused' = IF Busy # {} THEN excused \cup Busy \cup {d}
                  ELSE IF due # {} THEN excused \cup {d} ELSE excused \ {d}
    /\ said' = [said EXCEPT ![d] = "nothing"]
    /\ ussdChan' = NoText
    /\ UNCHANGED <<due, halted, words>>

\* AT+CSCS, whose result is not looked at.
Charset(d) ==
    /\ dial[d] = "charset" /\ To(d, "send")
    /\ UNCHANGED <<ussdChan, due, said, excused, halted, dials, words>>

\* AT+CUSD=1: an error, of the modem or of the engine, leaves open whether the
\* network will answer.
Send(d) ==
    /\ dial[d] = "send"
    /\ \/ ~halted /\ due' = due \cup {d} /\ To(d, "wait") /\ UNCHANGED said
       \/ due' \in {due, due \cup {d}} /\ Returns(d, "failed")
    /\ UNCHANGED <<ussdChan, excused, halted, dials, words>>

\* The three ways out of the wait; a timeout cancels the session.
Take(d) ==
    /\ dial[d] = "wait" /\ ussdChan # NoText
    /\ Returns(d, ussdChan) /\ ussdChan' = NoText
    /\ UNCHANGED <<due, excused, halted, dials, words>>
Timeout(d) ==
    /\ dial[d] = "wait" /\ To(d, "cancel")
    /\ UNCHANGED <<ussdChan, due, said, excused, halted, dials, words>>
Halted(d) ==
    /\ dial[d] = "wait" /\ halted /\ Returns(d, "failed")
    /\ UNCHANGED <<ussdChan, due, excused, halted, dials, words>>

\* CancelUSSD, also on its own: AT+CUSD=2 may fail, or come too late.
CancelUSSD(d) ==
    /\ \/ dial[d] = "cancel" /\ Returns(d, "failed")
       \/ dial[d] = "idle" /\ dials > 0 /\ UNCHANGED <<dial, said>>
    /\ due' \in {due, {}}
    /\ UNCHANGED <<ussdChan, excused, halted, dials, words>>
-----------------------------------------------------------------------------
\* handleURC of +CUSD: the send does not wait, so that a full channel keeps the
\* older message.
Dispatch(who) == ussdChan' = IF ussdChan = NoText THEN who ELSE ussdChan
Answers(d) ==
    /\ d \in due /\ due' = due \ {d} /\ Dispatch(d)
    /\ UNCHANGED <<dial, said, excused, halted, dials, words>>
Speaks ==
    /\ words < MaxWords /\ words' = words + 1
    /\ Dispatch(Network) /\ excused' = excused \cup Busy
    /\ UNCHANGED <<dial, due, said, halted, dials>>
Stop ==
    /\ ~halted /\ halted' = TRUE
    /\ UNCHANGED <<dial, ussdChan, due, said, excused, dials, words>>

Next ==
    \/ \E d \in Dialer :
          \/ Begin(d) \/ Charset(d) \/ Send(d) \/ Take(d) \/ Timeout(d) \/ Halted(d)
          \/ CancelUSSD(d) \/ Answers(d)
    \/ Speaks \/ Stop

\* A caller of ExecuteUSSD returns the answer to its own code, unless callers
\* overlapped, the network still owed an answer to an earlier one when it began,
\* or the network spoke unasked meanwhile: what an earlier call left in ussdChan
\* is never taken for it.
AnswersAreOwn ==
    \A d \in Dialer \ excused : said[d] \in {d, "nothing", "failed"}
=============================================================================
