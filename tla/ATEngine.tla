------------------------------ MODULE ATEngine ------------------------------
(* The AT engine of internal/modem/manager.go from Start to the end of its   *)
(* goroutines: callers of executeAT and SendSMSWithOptions, the two command  *)
(* queues, runLoop with handleCommand, readLoop, the timeout watchdog and    *)
(* Stop.  A line from the module is known by the command it answers; lines   *)
(* that only add to a response, and URCs, are left out.                      *)
EXTENDS Integers, Sequences, FiniteSets

CONSTANTS
    Caller,         \* bound: the calls of a behaviour, one command each
    High,           \* calls of the high priority queue
    Interactive,    \* calls of SendSMSWithOptions: a prompt, then the text
    Request,        \* the commandRequest objects of reqPool
    QueueCap, HighCap, RxCap,   \* capacities of cmdChan, cmdChanHigh, rxChan
    TimeoutThreshold,           \* atTimeoutWatchdogThreshold
    NoEntry, NoAnswer,
    Engine          \* the source of an error the engine itself answers

ASSUME CallerAssumption == Interactive \subseteq High /\ High \subseteq Caller
ASSUME CapacityAssumption ==
    /\ QueueCap \in Nat \ {0} /\ HighCap \in Nat \ {0} /\ RxCap \in Nat \ {0}
    /\ TimeoutThreshold \in Nat \ {0}

Chan == {"resp", "err"}
\* An answer is put in a channel when the engine ends command "for"; the line
\* that ended it was the module's reply to command "from".
Answer == [for : Caller, from : Caller \cup {Engine}]
Entry == [cmd : Caller, req : Request \cup Interactive]
Reply == [of : Caller, kind : {"prompt", "final"}]
Line == Reply \cup [kind : {"fatal", "fault"}]
ASSUME NamesAssumption ==
    /\ Request \cap Caller = {}
    /\ NoEntry \notin Entry \cup Request \cup Caller /\ NoAnswer \notin Answer

VARIABLES
    pc,         \* pc[c]: where the goroutine of call c is, or what it returned
    reqOf,      \* reqOf[c]: its request object
    pool,       \* request objects nobody uses
    box,        \* box[r]: the buffered respChan and errChan of a request
    queue, queueHigh,   \* cmdChan and cmdChanHigh
    loop,       \* where runLoop is
    cur,        \* the command of handleCommand
    waitPrompt, \* req.waitPrompt of that command
    owed,       \* replies of the module that readLoop has not read
    rx,         \* rxChan
    reader,     \* where readLoop is
    stage,      \* Stop: not called, m.stop closed, done
    running, healthy,
    streak,     \* atTimeoutStreak
    told,       \* calls of the disconnect callback
    timedOut,   \* history: commands that timed out
    passed      \* history: normal commands taken while call c was queued

callers == <<pc, reqOf, pool>>
serial == <<owed, rx, reader>>
status == <<stage, running, healthy, streak, told>>
history == <<timedOut, passed>>
vars == <<callers, box, queue, queueHigh, loop, cur, waitPrompt, serial,
          status, history>>

EmptyBox == [ch \in Chan |-> NoAnswer]
Stopping == stage # "not called"
Fault(line) == line.kind \in {"fatal", "fault"}

Init ==
    /\ pc = [c \in Caller |-> "new"]
    /\ reqOf = [c \in Caller |-> NoEntry]
    /\ pool = Request
    /\ box = [r \in Request \cup Interactive |-> EmptyBox]
    /\ queue = <<>> /\ queueHigh = <<>>
    /\ loop = "poll" /\ cur = NoEntry /\ waitPrompt = FALSE
    /\ owed = <<>> /\ rx = <<>> /\ reader = "reading"
    /\ stage = "not called" /\ running = TRUE /\ healthy = TRUE
    /\ streak = 0 /\ told = 0
    /\ timedOut = {} /\ passed = [c \in Caller |-> 0]

-----------------------------------------------------------------------------
(* Callers *)

\* The guards of executeAT, and a request from the pool.
BeginAT(c) ==
    /\ pc[c] = "new" /\ c \notin Interactive
    /\ IF running /\ healthy
       THEN \E r \in pool :
              /\ reqOf' = [reqOf EXCEPT ![c] = r]
              /\ pool' = pool \ {r}
              /\ pc' = [pc EXCEPT ![c] = "enqueue"]
       ELSE /\ pc' = [pc EXCEPT ![c] = "failed"]
            /\ UNCHANGED <<reqOf, pool>>
    /\ UNCHANGED <<box, queue, queueHigh, loop, cur, waitPrompt, serial,
                   status, history>>

\* SendSMSWithOptions makes a request of its own and looks at no flag.
BeginSMS(c) ==
    /\ pc[c] = "new" /\ c \in Interactive
    /\ pc' = [pc EXCEPT ![c] = "enqueue"]
    /\ reqOf' = [reqOf EXCEPT ![c] = c]
    /\ UNCHANGED <<pool, box, queue, queueHigh, loop, cur, waitPrompt,
                   serial, status, history>>

\* Mutant: the request goes back to the pool while it is still waited for.
PoolTooEarly(c) ==
    /\ pc[c] = "enqueue"
    /\ LET entry == [cmd |-> c, req |-> reqOf[c]] IN
       IF c \in High
       THEN /\ Len(queueHigh) < HighCap
            /\ queueHigh' = Append(queueHigh, entry)
            /\ UNCHANGED queue
       ELSE /\ Len(queue) < QueueCap
            /\ queue' = Append(queue, entry)
            /\ UNCHANGED queueHigh
    /\ pc' = [pc EXCEPT ![c] = "wait"]
    /\ pool' = pool \cup ({reqOf[c]} \cap Request)
    /\ UNCHANGED <<reqOf, box, loop, cur, waitPrompt, serial,
                   status, history>>

Enqueue(c) ==
    /\ pc[c] = "enqueue"
    /\ LET entry == [cmd |-> c, req |-> reqOf[c]] IN
       IF c \in High
       THEN /\ Len(queueHigh) < HighCap
            /\ queueHigh' = Append(queueHigh, entry)
            /\ UNCHANGED queue
       ELSE /\ Len(queue) < QueueCap
            /\ queue' = Append(queue, entry)
            /\ UNCHANGED queueHigh
    /\ pc' = [pc EXCEPT ![c] = "wait"]
    /\ UNCHANGED <<reqOf, pool, box, loop, cur, waitPrompt, serial,
                   status, history>>

\* The call returns; executeAT drains both channels and pools the request.
Return(c, outcome) ==
    /\ pc' = [pc EXCEPT ![c] = outcome]
    /\ reqOf' = [reqOf EXCEPT ![c] = NoEntry]
    /\ passed' = [passed EXCEPT ![c] = 0]
    /\ box' = [box EXCEPT ![reqOf[c]] = EmptyBox]
    /\ pool' = pool \cup ({reqOf[c]} \cap Request)
    /\ UNCHANGED <<queue, queueHigh, loop, cur, waitPrompt, serial, status,
                   timedOut>>

TakeAnswer(c, ch) ==
    /\ pc[c] \in {"wait", "last look"}
    /\ box[reqOf[c]][ch] # NoAnswer
    /\ Return(c, "answered")

QueueFull(c) == pc[c] = "enqueue" /\ Return(c, "failed")
StopBeforeQueued(c) ==
    pc[c] = "enqueue" /\ c \notin Interactive /\ Stopping /\ Return(c, "failed")

\* m.stop is closed while executeAT waits: it looks at the channels once more.
NoticeStop(c) ==
    /\ pc[c] = "wait" /\ c \notin Interactive
    /\ Stopping
    /\ pc' = [pc EXCEPT ![c] = "last look"]
    /\ UNCHANGED <<reqOf, pool, box, queue, queueHigh, loop, cur,
                   waitPrompt, serial, status, history>>

StopWithoutLook(c) ==  \* mutant: "manager stopped" without the last look
    pc[c] = "last look" /\ Return(c, "failed")

StopWhileWaiting(c) ==
    /\ pc[c] = "last look"
    /\ box[reqOf[c]] = EmptyBox
    /\ Return(c, "failed")

GiveUp(c) == pc[c] = "wait" /\ c \in Interactive /\ Return(c, "failed")

CallerStep(c) ==
    \/ BeginAT(c) \/ BeginSMS(c) \/ Enqueue(c)
    \/ \E ch \in Chan : TakeAnswer(c, ch)
    \/ QueueFull(c) \/ StopBeforeQueued(c) \/ NoticeStop(c)
    \/ StopWhileWaiting(c) \/ GiveUp(c)

-----------------------------------------------------------------------------
(* runLoop *)

Exit ==
    /\ loop \in {"poll", "select"}
    /\ Stopping
    /\ loop' = "ended"
    /\ UNCHANGED <<callers, box, queue, queueHigh, cur, waitPrompt, serial,
                   status, history>>

TakeHigh ==
    /\ loop \in {"poll", "select"}
    /\ queueHigh # <<>>
    /\ cur' = Head(queueHigh) /\ queueHigh' = Tail(queueHigh)
    /\ loop' = "write"
    /\ UNCHANGED <<callers, box, queue, waitPrompt, serial, status, history>>

PollAlways ==  \* mutant: the first select is missing
    /\ loop = "poll"
    /\ loop' = "select"
    /\ UNCHANGED <<callers, box, queue, queueHigh, cur, waitPrompt, serial,
                   status, history>>

Poll ==
    /\ loop = "poll"
    /\ ~Stopping /\ queueHigh = <<>>
    /\ loop' = "select"
    /\ UNCHANGED <<callers, box, queue, queueHigh, cur, waitPrompt, serial,
                   status, history>>

QueuedHigh == {queueHigh[i].cmd : i \in 1..Len(queueHigh)}

TakeNormal ==
    /\ loop = "select"
    /\ queue # <<>>
    /\ cur' = Head(queue) /\ queue' = Tail(queue)
    /\ loop' = "write"
    /\ passed' = [c \in Caller |->
                    IF c \in QueuedHigh THEN passed[c] + 1 ELSE passed[c]]
    /\ UNCHANGED <<callers, box, queueHigh, waitPrompt, serial, status, timedOut>>

\* An idle loop drops a line nobody waits for; an error ends it.
IdleLine ==
    /\ loop = "select"
    /\ rx # <<>>
    /\ rx' = Tail(rx)
    /\ loop' = IF Fault(Head(rx)) THEN "stop and end" ELSE "poll"
    /\ UNCHANGED <<callers, box, queue, queueHigh, cur, waitPrompt, owed,
                   reader, status, history>>

-----------------------------------------------------------------------------
(* handleCommand *)

Write ==
    /\ loop = "write"
    /\ stage # "done"
    /\ owed' = Append(owed, [of |-> cur.cmd,
          kind |-> IF cur.cmd \in Interactive THEN "prompt" ELSE "final"])
    /\ waitPrompt' = (cur.cmd \in Interactive)
    /\ loop' = "wait"
    /\ UNCHANGED <<callers, box, queue, queueHigh, cur, rx, reader, status,
                   history>>

\* The command ends with an answer; an error that isFatalSerialRuntimeErr
\* knows, or a tripped watchdog, goes on to "failing".
End(ch, from, failing) ==
    /\ box[cur.req][ch] = NoAnswer
    /\ box' = [box EXCEPT ![cur.req][ch] = [for |-> cur.cmd, from |-> from]]
    /\ loop' = IF failing THEN "failing" ELSE "poll"
    /\ cur' = NoEntry /\ waitPrompt' = FALSE
    /\ UNCHANGED <<callers, queue, queueHigh>>

WriteError ==
    /\ loop = "write"
    /\ \E fatal \in BOOLEAN : End("err", Engine, fatal)
    /\ UNCHANGED <<serial, status, history>>

\* The ESC that is written then is answered with a line of its own, as the end of
\* the command or of the prompt it cancels, or with none.
Timeout ==
    /\ loop = "wait"
    /\ LET normal == cur.cmd \notin High IN
       /\ streak' = IF normal THEN streak + 1 ELSE streak
       /\ End("err", Engine, normal /\ streak + 1 >= TimeoutThreshold)
    /\ timedOut' = timedOut \cup {cur.cmd}
    /\ owed' \in {owed} \cup (IF stage = "done" THEN {}
          ELSE {Append(owed, [of |-> cur.cmd, kind |-> "final"])})
    /\ UNCHANGED <<rx, reader, stage, running, healthy, told, passed>>

ReadErrorSilent ==  \* mutant: the caller is not told of a read error
    /\ loop = "wait"
    /\ rx # <<>> /\ Fault(Head(rx))
    /\ rx' = Tail(rx)
    /\ loop' = IF Head(rx).kind = "fatal" THEN "failing" ELSE "poll"
    /\ cur' = NoEntry /\ waitPrompt' = FALSE
    /\ UNCHANGED <<callers, box, queue, queueHigh, owed, reader, status, history>>

ReadError ==
    /\ loop = "wait"
    /\ rx # <<>> /\ Fault(Head(rx))
    /\ rx' = Tail(rx)
    /\ End("err", Engine, Head(rx).kind = "fatal")
    /\ UNCHANGED <<owed, reader, status, history>>

FollowUpEnds ==  \* mutant: the prompt ends the command after the text is sent
    /\ loop = "wait"
    /\ rx # <<>> /\ Head(rx).kind = "prompt"
    /\ waitPrompt
    /\ rx' = Tail(rx)
    /\ streak' = 0
    /\ owed' = Append(owed, [of |-> cur.cmd, kind |-> "final"])
    /\ End("resp", cur.cmd, FALSE)
    /\ UNCHANGED <<reader, stage, running, healthy, told, history>>

FollowUp ==
    /\ loop = "wait"
    /\ rx # <<>> /\ Head(rx).kind = "prompt"
    /\ waitPrompt
    /\ rx' = Tail(rx)
    /\ waitPrompt' = FALSE
    /\ streak' = 0
    /\ owed' = IF stage = "done" THEN owed
               ELSE Append(owed, [of |-> cur.cmd, kind |-> "final"])
    /\ UNCHANGED <<callers, box, queue, queueHigh, loop, cur, reader, stage,
                   running, healthy, told, history>>

\* OK, ERROR or a prompt ends the command, whichever command it answers.
Final ==
    /\ loop = "wait"
    /\ rx # <<>> /\ ~Fault(Head(rx))
    /\ Head(rx).kind = "prompt" => ~waitPrompt
    /\ rx' = Tail(rx)
    /\ streak' = 0
    /\ \E ch \in Chan :
         /\ Head(rx).kind = "prompt" => ch = "resp"
         /\ End(ch, Head(rx).of, FALSE)
    /\ UNCHANGED <<owed, reader, stage, running, healthy, told, history>>

\* tripATTimeoutWatchdog and handleFatalSerialRuntimeErr
FailAnyway ==  \* mutant: m.running is not looked at
    /\ loop = "failing"
    /\ healthy' = FALSE
    /\ loop' = "stop"
    /\ UNCHANGED <<callers, box, queue, queueHigh, cur, waitPrompt, serial,
                   stage, running, streak, told, history>>

Fail ==
    /\ loop = "failing"
    /\ IF running THEN healthy' = FALSE /\ loop' = "stop"
                  ELSE loop' = "poll" /\ UNCHANGED healthy
    /\ UNCHANGED <<callers, box, queue, queueHigh, cur, waitPrompt, serial,
                   stage, running, streak, told, history>>

-----------------------------------------------------------------------------
(* Stop, by the owner of the manager or by its loop *)

CloseStop ==
    /\ stage = "not called"
    /\ stage' = "closed"
    /\ UNCHANGED <<callers, box, queue, queueHigh, loop, cur, waitPrompt, serial,
                   running, healthy, streak, told, history>>

LoopStops == loop \in {"stop", "stop and end"} /\ CloseStop

FinishStop ==
    /\ stage = "closed"
    /\ stage' = "done" /\ running' = FALSE
    /\ UNCHANGED <<callers, box, queue, queueHigh, loop, cur, waitPrompt, serial,
                   healthy, streak, told, history>>

NotifyDisconnect ==
    /\ loop \in {"stop", "stop and end"}
    /\ stage = "done"
    /\ told' = told + 1
    /\ loop' = IF loop = "stop" THEN "poll" ELSE "ended"
    /\ UNCHANGED <<callers, box, queue, queueHigh, cur, waitPrompt, serial,
                   stage, running, healthy, streak, history>>

LoopStep ==
    \/ Exit \/ TakeHigh \/ Poll \/ TakeNormal \/ IdleLine
    \/ Write \/ WriteError \/ Timeout \/ ReadError \/ FollowUp \/ Final
    \/ Fail \/ LoopStops \/ NotifyDisconnect

-----------------------------------------------------------------------------
(* The module and readLoop *)

Lose ==
    /\ owed # <<>>
    /\ owed' = Tail(owed)
    /\ UNCHANGED <<callers, box, queue, queueHigh, loop, cur, waitPrompt, rx,
                   reader, status, history>>

ReadLine ==
    /\ reader = "reading"
    /\ owed # <<>> /\ Len(rx) < RxCap
    /\ rx' = Append(rx, Head(owed)) /\ owed' = Tail(owed)
    /\ UNCHANGED <<callers, box, queue, queueHigh, loop, cur, waitPrompt,
                   reader, status, history>>

ReaderStops ==
    /\ reader = "reading" /\ Stopping
    /\ reader' = "ended"
    /\ UNCHANGED <<callers, box, queue, queueHigh, loop, cur, waitPrompt, owed,
                   rx, status, history>>

\* A read fails before the stop: the error is sent whatever happens next.
ReaderFails(kind) ==
    /\ reader = "reading" /\ ~Stopping
    /\ reader' = kind
    /\ UNCHANGED <<callers, box, queue, queueHigh, loop, cur, waitPrompt, owed,
                   rx, status, history>>

ReportFault ==
    /\ reader \in {"fatal", "fault"}
    /\ Len(rx) < RxCap
    /\ rx' = Append(rx, [kind |-> reader])
    /\ reader' = "ended"
    /\ UNCHANGED <<callers, box, queue, queueHigh, loop, cur, waitPrompt, owed,
                   status, history>>

ReaderStep == ReadLine \/ ReaderStops \/ ReportFault

Next ==
    \/ \E c \in Caller : CallerStep(c)
    \/ LoopStep \/ ReaderStep \/ CloseStop \/ FinishStop \/ Lose
    \/ \E kind \in {"fatal", "fault"} : ReaderFails(kind)

\* The goroutines and their timers run; the module and the owner need not act.
Fairness ==
    /\ \A c \in Caller : WF_vars(pc[c] # "new" /\ CallerStep(c))
    /\ WF_vars(LoopStep) /\ WF_vars(FinishStop)

Spec == Init /\ [][Next]_vars
FairSpec == Spec /\ Fairness
-----------------------------------------------------------------------------
TypeOK ==
    /\ pc \in [Caller -> {"new", "enqueue", "wait", "last look", "answered",
                         "failed"}]
    /\ reqOf \in [Caller -> Request \cup Interactive \cup {NoEntry}]
    /\ pool \subseteq Request
    /\ box \in [Request \cup Interactive -> [Chan -> Answer \cup {NoAnswer}]]
    /\ queue \in Seq(Entry) /\ Len(queue) =< QueueCap
    /\ queueHigh \in Seq(Entry) /\ Len(queueHigh) =< HighCap
    /\ loop \in {"poll", "select", "write", "wait", "failing", "stop",
                 "stop and end", "ended"}
    /\ cur \in Entry \cup {NoEntry}
    /\ loop \in {"write", "wait"} <=> cur # NoEntry
    /\ waitPrompt \in BOOLEAN
    /\ owed \in Seq(Reply)
    /\ rx \in Seq(Line) /\ Len(rx) =< RxCap
    /\ reader \in {"reading", "fatal", "fault", "ended"}
    /\ stage \in {"not called", "closed", "done"}
    /\ running \in BOOLEAN /\ healthy \in BOOLEAN
    /\ streak \in Nat /\ told \in Nat
    /\ timedOut \subseteq Caller
    /\ passed \in [Caller -> Nat]

\* The answers a waiting call can take.
Waiting(c) == pc[c] \in {"wait", "last look"}
AnswersFor(c) == {box[reqOf[c]][ch] : ch \in Chan} \ {NoAnswer}

\* As long as nobody stops the manager, no call is given the answer of another
\* although requests and their channels are recycled through reqPool while
\* runLoop works on copies of them.  (After m.stop is closed a recycled request
\* may still be answered for its former owner.)
AnswerIsOwn ==
    /\ TypeOK
    /\ ~Stopping =>
         \A c \in Caller : Waiting(c) => \A a \in AnswersFor(c) : a.for = c

\* rxChan is not drained before a command is written, so that a reply the module
\* sent to another command may end one, but only after some command has timed
\* out; and the replies nobody waits for come from timeouts only, two at most of
\* each (the command's own, late, and the one to the ESC), so that engine and
\* module are in step again once those have been read.
RepliesStayInStep ==
    /\ timedOut = {} =>
         \A c \in Caller :
             Waiting(c) => \A a \in AnswersFor(c) : a.from \in {a.for, Engine}
    /\ reader = "reading" =>
         Len(owed) + Len(rx) =<
             2 * Cardinality(timedOut) + (IF loop = "wait" THEN 1 ELSE 0)

\* A command of the high priority queue lets at most one normal command pass,
\* the one runLoop's second select may pick.
HighWaitsForOne == \A c \in Caller : passed[c] =< 1

\* The disconnect callback runs once at most, whichever of the watchdog, a
\* fatal serial error and an error on the idle loop meets which other, and
\* commands that fail after the stop do not call it again.
ToldOnce == told =< 1

\* An answer executeAT could still take is never replaced by "manager stopped":
\* a caller learns the serial error that made the engine stop.
AnswerIsNotLost ==
    [][\A c \in Caller \ Interactive :
         /\ Waiting(c) /\ AnswersFor(c) # {}
         => pc'[c] # "failed"]_vars

\* Every call that was begun returns, whatever the module does.
EveryCallReturns ==
    \A c \in Caller : pc[c] # "new" ~> pc[c] \in {"answered", "failed"}

\* "More EOFs in a row than the threshold: the device is disconnected": the end
\* of readLoop by an error stops the engine.
ReaderEndIsNoticed ==
    reader = "ended" /\ ~Stopping =>
        \/ \E i \in 1..Len(rx) : Fault(rx[i])
        \/ loop \in {"failing", "stop", "stop and end"}
=============================================================================
