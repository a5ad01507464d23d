----------------------------- MODULE SmsSending -----------------------------
(* The sending of text messages over the USB AT link: the segments of a      *)
(* message one after another under smsSendMu (cmd/djonehub-macos/main.go),   *)
(* each an exchange with a prompt under the link's own mutex, which throws   *)
(* away what an earlier exchange left to be read                             *)
(* (cmd/djonehub-macos/usbat_darwin.go).  Other commands come in between,    *)
(* and an exchange that gives up leaves the module at work.                  *)
EXTENDS Naturals, Sequences

CONSTANTS
    Message,        \* requests for a message
    Segments,       \* of every message
    MaxTimeouts,    \* bound: exchanges that give up
    MaxOthers       \* bound: commands of others
VARIABLES
    sender,         \* the request that holds smsSendMu
    holder,         \* whose exchange holds the link: "sender", "other", "none"
    heard,          \* what the exchange has read
    tasks,          \* written to the module and not yet worked on
    pipe,           \* said by the module and not yet read
    editor,         \* the module takes what it is sent for a message: "off", "on",
                    \*   or "soiled" by a command
    accepted,       \* by the network: of a message, its segments
    toldSent,       \* of a message: the segments its request counted
    excused,        \* messages that met what an earlier exchange left at work
    timeouts, others

vars == <<sender, holder, heard, tasks, pipe, editor, accepted, toldSent, excused,
          timeouts, others>>

Nobody == [at |-> "idle"]
Segment == 1..Segments
Line == {"OK", "ERROR", "+CMGS", ">"}
Pdu == {"PDU"} \X Message \X Segment
AT == <<"AT">>
CMGS == <<"AT+CMGS">>
ESC == <<"ESC">>
Unanswered == Segments + 1

TypeOK ==
    /\ sender.at \in {"idle", "mode", "segment", "prompt", "answer"}
    /\ holder \in {"sender", "other", "none"} /\ heard \subseteq Line
    /\ pipe \in Seq(Line) /\ editor \in {"off", "on", "soiled"}
    /\ tasks \in Seq({AT, CMGS, ESC} \cup Pdu)
    /\ accepted \in [Message -> SUBSET Segment] /\ excused \subseteq Message
    /\ toldSent \in [Message -> 0..Unanswered]
    /\ timeouts \in 0..MaxTimeouts /\ others \in 0..MaxOthers

Init ==
    /\ sender = Nobody /\ holder = "none" /\ heard = {}
    /\ tasks = <<>> /\ pipe = <<>> /\ editor = "off"
    /\ accepted = [m \in Message |-> {}] /\ toldSent = [m \in Message |-> Unanswered]
    /\ excused = {} /\ timeouts = 0 /\ others = 0
-----------------------------------------------------------------------------
\* sendUSBATSMS
Send(m) ==
    /\ sender = Nobody /\ toldSent[m] = Unanswered
    /\ sender' = [at |-> "mode", message |-> m, segment |-> 1]
    /\ UNCHANGED <<holder, heard, tasks, pipe, editor, accepted, toldSent, excused,
                   timeouts, others>>

\* Command and CommandWithPrompt begin alike: drainLocked, and the line is written.
Writes(who, task) ==
    /\ holder = "none" /\ holder' = who
    /\ heard' = {} /\ pipe' = <<>> /\ tasks' = Append(tasks, task)

Exchange ==
    /\ \/ sender.at = "mode" /\ Writes("sender", AT) /\ UNCHANGED sender
       \/ sender.at = "segment" /\ Writes("sender", CMGS)
          /\ sender' = [sender EXCEPT !.at = "prompt"]
    /\ excused' = IF tasks # <<>> \/ editor # "off" THEN excused \cup {sender.message}
                  ELSE excused
    /\ UNCHANGED <<editor, accepted, toldSent, timeouts, others>>

\* runATCommand of anybody else, between two exchanges of the message.
OtherCommand ==
    /\ others < MaxOthers /\ others' = others + 1 /\ Writes("other", AT)
    /\ UNCHANGED <<sender, editor, accepted, toldSent, excused, timeouts>>

Answers(count) ==
    /\ sender' = Nobody /\ holder' = "none"
    /\ toldSent' = [toldSent EXCEPT ![sender.message] = count]
Fails == Answers(sender.segment - 1)

\* What is read is judged with all that was read before it: a command ends with OK
\* or an error, a segment needs +CMGS and OK at the end and no error.
Complete(all) == all \cap {"OK", "ERROR", "+CMGS"} # {}
Reads ==
    /\ holder # "none" /\ pipe # <<>>
    /\ pipe' = Tail(pipe) /\ heard' = heard \cup {Head(pipe)}
    /\ UNCHANGED <<editor, accepted, excused, timeouts, others>>

HearsOther ==
    /\ holder = "other" /\ Reads
    /\ holder' = IF Complete(heard') THEN "none" ELSE "other"
    /\ UNCHANGED <<sender, tasks, toldSent>>

HearsMode ==
    /\ holder = "sender" /\ sender.at = "mode" /\ Reads /\ UNCHANGED tasks
    /\ CASE ~Complete(heard') -> UNCHANGED <<sender, holder, toldSent>>
         [] Complete(heard') /\ Head(pipe) \in {"OK", "+CMGS"} ->
              /\ sender' = [sender EXCEPT !.at = "segment"] /\ holder' = "none"
              /\ UNCHANGED toldSent
         [] OTHER -> Fails

HearsPrompt ==
    /\ sender.at = "prompt" /\ holder = "sender" /\ Reads
    /\ CASE "ERROR" \in heard' -> Fails /\ UNCHANGED tasks
         [] "ERROR" \notin heard' /\ Head(pipe) = ">" ->
              /\ tasks' = Append(tasks, <<"PDU", sender.message, sender.segment>>)
              /\ sender' = [sender EXCEPT !.at = "answer"] /\ UNCHANGED <<holder, toldSent>>
         [] OTHER -> UNCHANGED <<sender, holder, tasks, toldSent>>

HearsAnswer ==
    /\ sender.at = "answer" /\ holder = "sender" /\ Reads /\ UNCHANGED tasks
    /\ CASE ~Complete(heard') -> UNCHANGED <<sender, holder, toldSent>>
         [] /\ Complete(heard') /\ "ERROR" \notin heard' /\ "+CMGS" \in heard'
            /\ Head(pipe) \in {"OK", "+CMGS"} ->
              IF sender.segment = Segments THEN Answers(Segments)
              ELSE /\ sender' = [sender EXCEPT !.at = "segment", !.segment = @ + 1]
                   /\ holder' = "none" /\ UNCHANGED toldSent
         [] OTHER -> Fails

\* A time is over, or a transfer fails; only after the prompt an ESC may be written.
GivesUp ==
    /\ holder # "none" /\ timeouts < MaxTimeouts /\ timeouts' = timeouts + 1
    /\ IF holder = "other" THEN holder' = "none" /\ UNCHANGED <<sender, toldSent>> ELSE Fails
    /\ \/ UNCHANGED tasks
       \/ /\ holder = "sender" /\ sender.at = "answer" /\ tasks' = Append(tasks, ESC)
    /\ UNCHANGED <<heard, pipe, editor, accepted, excused, others>>
-----------------------------------------------------------------------------
\* The module works on what it was sent in its order.
Says(lines) == pipe' = pipe \o lines /\ tasks' = Tail(tasks)
Takes(task) == tasks # <<>> /\ Head(tasks) \in task

WorksCommand ==
    /\ editor = "off"
    /\ \/ /\ Takes({AT}) /\ UNCHANGED editor
          /\ Says(<<"OK">>) \/ Says(<<"ERROR">>)
       \/ /\ Takes({CMGS})
          /\ \/ Says(<<">">>) /\ editor' = "on"
             \/ Says(<<"ERROR">>) /\ UNCHANGED editor
       \/ /\ Takes(Pdu) /\ UNCHANGED editor
          /\ Says(<<>>) \/ Says(<<"ERROR">>)
       \/ Takes({ESC}) /\ Says(<<>>) /\ UNCHANGED editor
    /\ UNCHANGED <<sender, holder, heard, accepted, toldSent, excused, timeouts, others>>

WorksEditor ==
    /\ editor # "off"
    /\ \/ /\ Takes({AT, CMGS}) /\ editor' = "soiled" /\ UNCHANGED accepted
          /\ Says(<<>>) \/ Says(<<">">>)
       \/ Takes({ESC}) /\ Says(<<>>) /\ editor' = "off" /\ UNCHANGED accepted
       \/ /\ Takes(Pdu) /\ editor' = "off"
          /\ \/ Says(<<"ERROR">>) /\ UNCHANGED accepted
             \/ /\ editor = "on" /\ Says(<<"+CMGS">>)
                /\ accepted' = [accepted EXCEPT ![Head(tasks)[2]] = @ \cup {Head(tasks)[3]}]
    /\ UNCHANGED <<sender, holder, heard, toldSent, excused, timeouts, others>>

Next ==
    \/ \E m \in Message : Send(m)
    \/ Exchange \/ OtherCommand
    \/ HearsOther \/ HearsMode \/ HearsPrompt \/ HearsAnswer \/ GivesUp
    \/ WorksCommand \/ WorksEditor

\* Of a message the network has at least the segments its request counted, and at
\* most the one more whose answer was not had: the requests of sendUSBATSMS, with
\* commands between the segments and exchanges that gave up before - unless the
\* module was still at work on what an earlier exchange had left to it, when its
\* late prompt or answer may be taken for the next one's.
SentIsAccepted ==
    \A m \in Message \ excused : toldSent[m] # Unanswered =>
        /\ 1..toldSent[m] \subseteq accepted[m]
        /\ accepted[m] \subseteq 1..(toldSent[m] + 1)
=============================================================================
