--------------------------- MODULE HostSideProofs ---------------------------
(* The two parts of MCHostSide: the AT engine keeps its promises for any     *)
(* number of callers, requests and any capacities of its channels, and the   *)
(* voice route of the Mac host in every order of those who work on it.       *)
EXTENDS MCHostSide, FiniteSetTheorems, TLAPS

-----------------------------------------------------------------------------
(* The AT engine *)

Holding(c) == pc[c] \in {"enqueue", "wait", "last look"}

\* A caller that has not returned holds a request of its own.
OwnRequests ==
    /\ \A c \in Caller : Holding(c) =>
         IF c \in Interactive THEN reqOf[c] = c ELSE reqOf[c] \in Request \ pool
    /\ \A c, d \in Caller :
         Holding(c) /\ Holding(d) /\ reqOf[c] = reqOf[d] => c = d

\* A command is queued once, in the queue of its priority, and never again
\* after it has timed out.
Pending(c) == pc[c] \notin {"new", "enqueue"} /\ c \notin timedOut
QueuedOnce ==
    /\ \A i \in 1..Len(queue) : Pending(queue[i].cmd)
    /\ \A i \in 1..Len(queueHigh) :
         Pending(queueHigh[i].cmd) /\ queueHigh[i].cmd \in High
    /\ \A i \in 1..Len(queue) : queue[i].cmd \notin High
    /\ \A i, j \in 1..Len(queue) : queue[i].cmd = queue[j].cmd => i = j
    /\ \A i, j \in 1..Len(queueHigh) :
         queueHigh[i].cmd = queueHigh[j].cmd => i = j
    /\ cur # NoEntry =>
         /\ Pending(cur.cmd)
         /\ \A i \in 1..Len(queue) : queue[i].cmd # cur.cmd
         /\ \A i \in 1..Len(queueHigh) : queueHigh[i].cmd # cur.cmd
    /\ \A c \in timedOut : pc[c] \notin {"new", "enqueue"}

\* Until the stop, what is queued or worked on is for the owner of its request.
ForOwner(e) ==
    IF e.cmd \in Interactive THEN e.req = e.cmd
    ELSE pc[e.cmd] = "wait" /\ reqOf[e.cmd] = e.req
EntriesForOwner ==
    ~Stopping =>
        /\ \A i \in 1..Len(queue) : ForOwner(queue[i])
        /\ \A i \in 1..Len(queueHigh) : ForOwner(queueHigh[i])
        /\ cur # NoEntry => ForOwner(cur)

\* Until the stop, an answer is for the owner of its request, and its command
\* is neither queued nor worked on.
Worked(c) ==
    \/ \E i \in 1..Len(queue) : queue[i].cmd = c
    \/ \E i \in 1..Len(queueHigh) : queueHigh[i].cmd = c
    \/ cur # NoEntry /\ cur.cmd = c
ForHolder(r, a) ==
    IF r \in Interactive THEN a.for = r
    ELSE /\ pc[a.for] = "wait" /\ reqOf[a.for] = r
         /\ a.for \notin Interactive /\ ~Worked(a.for)
BoxesForOwner ==
    ~Stopping => \A r \in Request \cup Interactive, ch \in Chan :
        box[r][ch] # NoAnswer => ForHolder(r, box[r][ch])

OwnInv == TypeOK /\ OwnRequests /\ QueuedOnce /\ EntriesForOwner /\ BoxesForOwner
-----------------------------------------------------------------------------
\* What is left of a queue when its head is taken.
LEMMA Taken ==
    ASSUME NEW S, NEW s \in Seq(S), s # <<>>
    PROVE  /\ Len(s) \in Nat \ {0} /\ Head(s) = s[1] /\ Head(s) \in S
           /\ Tail(s) \in Seq(S) /\ Len(Tail(s)) = Len(s) - 1
           /\ \A i \in 1..Len(Tail(s)) :
                i + 1 \in 1..Len(s) /\ Tail(s)[i] = s[i + 1]
  OBVIOUS

\* What a queue holds when an element has been added.
LEMMA Added ==
    ASSUME NEW S, NEW s \in Seq(S), NEW e \in S
    PROVE  /\ Append(s, e) \in Seq(S) /\ Len(Append(s, e)) = Len(s) + 1
           /\ \A i \in 1..Len(Append(s, e)) :
                Append(s, e)[i] = IF i = Len(s) + 1 THEN e ELSE s[i]
           /\ \A i \in 1..Len(Append(s, e)) : i # Len(s) + 1 => i \in 1..Len(s)
  OBVIOUS

\* The state is of its type after every step of callers that hold requests.
LEMMA TypePreserved == TypeOK /\ OwnRequests /\ [Next]_vars => TypeOK'
<1>a. SUFFICES ASSUME TypeOK, OwnRequests, [Next]_vars PROVE TypeOK'
  OBVIOUS
<1> USE DEF callers, serial, status, history
<1>b. EmptyBox \in [Chan -> Answer \cup {NoAnswer}]
  BY DEF EmptyBox
<1>c. /\ queue \in Seq(Entry) /\ queueHigh \in Seq(Entry) /\ owed \in Seq(Reply)
      /\ rx \in Seq(Line) /\ cur \in Entry \cup {NoEntry}
      /\ Len(queue) =< QueueCap /\ Len(queueHigh) =< HighCap /\ Len(rx) =< RxCap
      /\ QueueCap \in Nat /\ HighCap \in Nat /\ RxCap \in Nat
  BY <1>a, CapacityAssumption DEF TypeOK
<1>1. ASSUME NEW c \in Caller, BeginAT(c) PROVE TypeOK'
  BY <1>a, <1>1 DEF BeginAT, TypeOK
<1>2. ASSUME NEW c \in Caller, BeginSMS(c) PROVE TypeOK'
  BY <1>a, <1>2 DEF BeginSMS, TypeOK
<1>3. ASSUME NEW c \in Caller, Enqueue(c) PROVE TypeOK'
  <2> DEFINE entry == [cmd |-> c, req |-> reqOf[c]]
  <2>1. entry \in Entry
    BY <1>a, <1>3 DEF Enqueue, Entry, OwnRequests, Holding, TypeOK
  <2> HIDE DEF entry
  <2>2. /\ queue' \in Seq(Entry) /\ queueHigh' \in Seq(Entry)
        /\ Len(queue') =< QueueCap /\ Len(queueHigh') =< HighCap
    <3>1. CASE c \in High
      <4>1. queueHigh' = Append(queueHigh, entry) /\ Len(queueHigh) < HighCap
            /\ queue' = queue
        BY <1>3, <3>1 DEF Enqueue, entry
      <4>2. queueHigh' \in Seq(Entry) /\ Len(queueHigh') = Len(queueHigh) + 1
        BY ONLY <1>c, <2>1, <4>1, Added
      <4> QED
        BY <1>c, <4>1, <4>2
    <3>2. CASE c \notin High
      <4>1. queue' = Append(queue, entry) /\ Len(queue) < QueueCap
            /\ queueHigh' = queueHigh
        BY <1>3, <3>2 DEF Enqueue, entry
      <4>2. queue' \in Seq(Entry) /\ Len(queue') = Len(queue) + 1
        BY ONLY <1>c, <2>1, <4>1, Added
      <4> QED
        BY <1>c, <4>1, <4>2
    <3> QED
      BY <3>1, <3>2
  <2> QED
    BY <1>a, <1>3, <2>2 DEF Enqueue, TypeOK
<1>4. ASSUME NEW c \in Caller, NEW outcome \in {"answered", "failed"},
             Return(c, outcome)
      PROVE TypeOK'
  BY <1>a, <1>b, <1>4 DEF Return, TypeOK
<1>5. ASSUME NEW c \in Caller, NoticeStop(c) PROVE TypeOK'
  BY <1>a, <1>5 DEF NoticeStop, TypeOK
<1>6. ASSUME NEW c \in Caller, CallerStep(c) PROVE TypeOK'
  BY <1>1, <1>2, <1>3, <1>4, <1>5, <1>6
     DEF CallerStep, TakeAnswer, QueueFull, StopBeforeQueued,
         StopWhileWaiting, GiveUp
<1>7. CASE Exit \/ Poll
  BY <1>a, <1>7 DEF Exit, Poll, TypeOK
<1>8. CASE TakeHigh
  <2>1. cur' \in Entry /\ queueHigh' \in Seq(Entry) /\ Len(queueHigh') =< HighCap
    <3>1. cur' = Head(queueHigh) /\ queueHigh' = Tail(queueHigh) /\ queueHigh # <<>>
      BY <1>8 DEF TakeHigh
    <3>2. Len(queueHigh') = Len(queueHigh) - 1 /\ Len(queueHigh) \in Nat
          /\ cur' \in Entry /\ queueHigh' \in Seq(Entry)
      BY ONLY <1>c, <3>1, Taken
    <3> QED
      BY <1>c, <3>2
  <2> QED
    BY <1>a, <1>8, <2>1, NamesAssumption DEF TakeHigh, TypeOK
<1>9. CASE TakeNormal
  <2>1. cur' \in Entry /\ queue' \in Seq(Entry) /\ Len(queue') =< QueueCap
    <3>1. cur' = Head(queue) /\ queue' = Tail(queue) /\ queue # <<>>
      BY <1>9 DEF TakeNormal
    <3>2. Len(queue') = Len(queue) - 1 /\ Len(queue) \in Nat
          /\ cur' \in Entry /\ queue' \in Seq(Entry)
      BY ONLY <1>c, <3>1, Taken
    <3> QED
      BY <1>c, <3>2
  <2>2. passed' \in [Caller -> Nat]
    <3>1. passed \in [Caller -> Nat]
      BY <1>a DEF TypeOK
    <3>2. passed' = [c \in Caller |->
                       IF c \in QueuedHigh THEN passed[c] + 1 ELSE passed[c]]
      BY <1>9 DEF TakeNormal
    <3> QED
      BY <3>1, <3>2
  <2> QED
    BY <1>a, <1>9, <2>1, <2>2, NamesAssumption DEF TakeNormal, TypeOK
<1>10. ASSUME rx # <<>>
       PROVE /\ Head(rx) \in Line /\ Tail(rx) \in Seq(Line)
             /\ Len(Tail(rx)) =< RxCap
             /\ ~Fault(Head(rx)) => Head(rx).of \in Caller
  <2>1. /\ Head(rx) \in Line /\ Tail(rx) \in Seq(Line)
        /\ Len(Tail(rx)) = Len(rx) - 1 /\ Len(rx) \in Nat
    BY ONLY <1>c, <1>10, Taken
  <2>2. ~Fault(Head(rx)) => Head(rx) \in Reply
    BY <2>1 DEF Line, Fault
  <2>3. ~Fault(Head(rx)) => Head(rx).of \in Caller
    BY <2>2 DEF Reply
  <2> QED
    BY <1>c, <2>1, <2>3
<1>11. CASE IdleLine
  BY <1>a, <1>10, <1>11 DEF IdleLine, TypeOK
<1>12. ASSUME cur # NoEntry
       PROVE /\ cur.cmd \in Caller /\ cur.req \in Request \cup Interactive
             /\ \A kind \in {"prompt", "final"} : [of |-> cur.cmd, kind |-> kind] \in Reply
             /\ \A from \in Caller \cup {Engine} :
                  [for |-> cur.cmd, from |-> from] \in Answer
  BY <1>c, <1>12 DEF Entry, Reply, Answer
<1>d. ASSUME cur # NoEntry, NEW kind \in {"prompt", "final"}
      PROVE  Append(owed, [of |-> cur.cmd, kind |-> kind]) \in Seq(Reply)
  <2>1. [of |-> cur.cmd, kind |-> kind] \in Reply
    BY <1>12, <1>d
  <2> QED
    BY ONLY <1>c, <2>1, Added
<1>13. CASE Write
  <2>1. cur # NoEntry
    BY <1>a, <1>13 DEF Write, TypeOK
  <2>2. owed' \in Seq(Reply)
    BY <1>13, <1>d, <2>1 DEF Write
  <2>3. waitPrompt' \in BOOLEAN
    BY <1>13 DEF Write
  <2>4. /\ loop' = "wait"
        /\ UNCHANGED <<callers, box, queue, queueHigh, cur, rx, reader, status,
                       history>>
    BY <1>13 DEF Write
  <2> QED
    BY <1>a, <2>1, <2>2, <2>3, <2>4 DEF TypeOK
<1>14. ASSUME NEW ch \in Chan, NEW from \in Caller \cup {Engine},
              NEW failing \in BOOLEAN, cur # NoEntry, End(ch, from, failing)
       PROVE /\ box' \in [Request \cup Interactive -> [Chan -> Answer \cup {NoAnswer}]]
             /\ loop' \in {"failing", "poll"} /\ cur' = NoEntry /\ waitPrompt' = FALSE
             /\ UNCHANGED <<callers, queue, queueHigh>>
  BY <1>a, <1>12, <1>14 DEF End, TypeOK
<1>e. loop \in {"write", "wait"} => cur # NoEntry
  BY <1>a DEF TypeOK
<1>15. CASE WriteError
  <2>1. \E failing \in BOOLEAN : End("err", Engine, failing)
    BY <1>15 DEF WriteError
  <2> QED
    BY <1>a, <1>e, <1>14, <1>15, <2>1 DEF WriteError, Chan, TypeOK
<1>16. CASE Timeout
  <2>1. \E failing \in BOOLEAN : End("err", Engine, failing)
    BY <1>16 DEF Timeout
  <2>2. streak' \in Nat /\ timedOut' \subseteq Caller
    <3>1. streak \in Nat /\ timedOut \subseteq Caller /\ cur.cmd \in Caller
      BY <1>a, <1>e, <1>12, <1>16 DEF Timeout, TypeOK
    <3>2. timedOut' = timedOut \cup {cur.cmd}
          /\ (streak' = streak \/ streak' = streak + 1)
      BY <1>16 DEF Timeout
    <3> QED
      BY <3>1, <3>2
  <2>3. /\ box' \in [Request \cup Interactive -> [Chan -> Answer \cup {NoAnswer}]]
        /\ loop' \in {"failing", "poll"} /\ cur' = NoEntry /\ waitPrompt' = FALSE
        /\ UNCHANGED <<callers, queue, queueHigh>>
    BY <1>e, <1>14, <1>16, <2>1 DEF Timeout, Chan
  <2>4. owed' \in Seq(Reply)
    BY <1>c, <1>d, <1>e, <1>16 DEF Timeout
  <2>5. UNCHANGED <<rx, reader, stage, running, healthy, told, passed>>
    BY <1>16 DEF Timeout
  <2> QED
    BY <1>a, <2>2, <2>3, <2>4, <2>5 DEF callers, TypeOK
<1>17. CASE ReadError
  <2>1. \E failing \in BOOLEAN : End("err", Engine, failing)
    BY <1>17 DEF ReadError
  <2> QED
    BY <1>a, <1>e, <1>10, <1>14, <1>17, <2>1 DEF ReadError, Chan, TypeOK
<1>18. CASE FollowUp
  <2>1. owed' \in Seq(Reply)
    BY <1>c, <1>d, <1>e, <1>18 DEF FollowUp
  <2> QED
    BY <1>a, <1>10, <1>18, <2>1 DEF FollowUp, TypeOK
<1>19. CASE Final
  <2>1. PICK ch \in Chan : End(ch, Head(rx).of, FALSE)
    BY <1>19 DEF Final
  <2>2. /\ box' \in [Request \cup Interactive -> [Chan -> Answer \cup {NoAnswer}]]
        /\ loop' \in {"failing", "poll"} /\ cur' = NoEntry /\ waitPrompt' = FALSE
        /\ UNCHANGED <<callers, queue, queueHigh>>
    BY <1>e, <1>10, <1>14, <1>19, <2>1 DEF Final
  <2> QED
    BY <1>a, <1>10, <1>19, <2>2 DEF Final, TypeOK
<1>20. CASE Fail \/ LoopStops \/ CloseStop \/ FinishStop
  BY <1>a, <1>20 DEF Fail, LoopStops, CloseStop, FinishStop, TypeOK
<1>f. CASE NotifyDisconnect
  <2>1. told' \in Nat
    <3>1. told \in Nat
      BY <1>a DEF TypeOK
    <3>2. told' = told + 1
      BY <1>f DEF NotifyDisconnect
    <3> QED
      BY <3>1, <3>2
  <2> QED
    BY <1>a, <1>f, <2>1 DEF NotifyDisconnect, TypeOK
<1>g. ASSUME owed # <<>> PROVE Head(owed) \in Reply /\ Tail(owed) \in Seq(Reply)
  BY ONLY <1>c, <1>g, Taken
<1>21. CASE Lose
  BY <1>a, <1>g, <1>21 DEF Lose, TypeOK
<1>h. ASSUME NEW line \in Line, Len(rx) < RxCap
      PROVE  Append(rx, line) \in Seq(Line) /\ Len(Append(rx, line)) =< RxCap
  <2>1. Append(rx, line) \in Seq(Line) /\ Len(Append(rx, line)) = Len(rx) + 1
    BY ONLY <1>c, Added
  <2> QED
    BY <1>c, <1>h, <2>1
<1>22. CASE ReadLine
  <2>1. Head(owed) \in Line /\ Tail(owed) \in Seq(Reply)
    BY <1>g, <1>22 DEF ReadLine, Line
  <2> QED
    BY <1>a, <1>h, <1>22, <2>1 DEF ReadLine, TypeOK
<1>23. CASE ReaderStops \/ \E kind \in {"fatal", "fault"} : ReaderFails(kind)
  BY <1>a, <1>23 DEF ReaderStops, ReaderFails, TypeOK
<1>24. CASE ReportFault
  <2>1. [kind |-> reader] \in Line
    BY <1>24 DEF ReportFault, Line
  <2> QED
    BY <1>a, <1>h, <1>24, <2>1 DEF ReportFault, TypeOK
<1>25. CASE UNCHANGED vars
  BY <1>a, <1>25 DEF vars, TypeOK
<1> QED
  BY <1>a, <1>6, <1>7, <1>8, <1>9, <1>11, <1>13, <1>15, <1>16, <1>17, <1>18, <1>19,
     <1>20, <1>f, <1>21, <1>22, <1>23, <1>24, <1>25 DEF Next, LoopStep, ReaderStep
-----------------------------------------------------------------------------
\* The steps that leave callers and their requests alone.
LEMMA CallersLeft ==
    ASSUME TypeOK, [Next]_vars, \A c \in Caller : ~CallerStep(c)
    PROVE  UNCHANGED callers
BY DEF Next, LoopStep, ReaderStep, vars, Exit, Poll, TakeHigh, TakeNormal, IdleLine,
       Write, WriteError, Timeout, ReadError, FollowUp, Final, End, Fail, LoopStops,
       NotifyDisconnect, CloseStop, FinishStop, Lose, ReadLine, ReaderStops,
       ReportFault, ReaderFails

\* Requests are handed out one by one and come back when their call returns.
LEMMA RequestsPreserved == TypeOK /\ OwnRequests /\ [Next]_vars => OwnRequests'
<1>a. SUFFICES ASSUME TypeOK, OwnRequests, [Next]_vars PROVE OwnRequests'
  OBVIOUS
<1>b. /\ pc \in [Caller -> {"new", "enqueue", "wait", "last look", "answered",
                            "failed"}]
      /\ reqOf \in [Caller -> Request \cup Interactive \cup {NoEntry}]
      /\ pool \subseteq Request
      /\ Interactive \subseteq Caller /\ Request \cap Caller = {}
  BY <1>a, CallerAssumption, NamesAssumption DEF TypeOK
<1>1. ASSUME NEW c \in Caller, BeginAT(c) PROVE OwnRequests'
  <2>1. CASE \E r \in pool :
               /\ reqOf' = [reqOf EXCEPT ![c] = r] /\ pool' = pool \ {r}
               /\ pc' = [pc EXCEPT ![c] = "enqueue"]
    <3>1. PICK r \in pool :
             /\ reqOf' = [reqOf EXCEPT ![c] = r] /\ pool' = pool \ {r}
             /\ pc' = [pc EXCEPT ![c] = "enqueue"]
      BY <2>1
    <3>2. c \notin Interactive
      BY <1>1 DEF BeginAT
    <3>3. \A d \in Caller : d # c => pc'[d] = pc[d] /\ reqOf'[d] = reqOf[d]
      BY <1>b, <3>1
    <3>4. pc'[c] = "enqueue" /\ reqOf'[c] = r /\ r \in Request \ pool'
          /\ pool' \subseteq pool
      BY <1>b, <3>1
    <3>5. ASSUME NEW d \in Caller, Holding(d) PROVE reqOf[d] # r
      <4>1. r \in pool /\ r \in Request /\ r \notin Caller
        BY <1>b, <3>1
      <4>2. reqOf[d] = d \/ reqOf[d] \in Request \ pool
        BY <1>a, <3>5 DEF OwnRequests
      <4> QED
        BY <4>1, <4>2
    <3>6. ASSUME NEW d \in Caller, Holding(d)'
          PROVE  IF d \in Interactive THEN reqOf'[d] = d
                 ELSE reqOf'[d] \in Request \ pool'
      BY <1>a, <3>2, <3>3, <3>4, <3>6 DEF OwnRequests, Holding
    <3>7. ASSUME NEW d \in Caller, NEW e \in Caller, Holding(d)', Holding(e)',
                 reqOf'[d] = reqOf'[e]
          PROVE  d = e
      BY <1>a, <3>3, <3>4, <3>5, <3>7 DEF OwnRequests, Holding
    <3> QED
      BY <3>6, <3>7 DEF OwnRequests
  <2>2. CASE pc' = [pc EXCEPT ![c] = "failed"] /\ UNCHANGED <<reqOf, pool>>
    BY <1>a, <1>b, <2>2 DEF OwnRequests, Holding
  <2> QED
    BY <1>1, <2>1, <2>2 DEF BeginAT
<1>2. ASSUME NEW c \in Caller, BeginSMS(c) PROVE OwnRequests'
  <2>1. /\ c \in Interactive /\ pool' = pool
        /\ reqOf' = [reqOf EXCEPT ![c] = c] /\ pc' = [pc EXCEPT ![c] = "enqueue"]
    BY <1>2 DEF BeginSMS
  <2> QED
    BY <1>a, <1>b, <2>1 DEF OwnRequests, Holding
<1>3. ASSUME NEW c \in Caller, Enqueue(c) PROVE OwnRequests'
  <2>1. /\ pc[c] = "enqueue" /\ pc' = [pc EXCEPT ![c] = "wait"]
        /\ UNCHANGED <<reqOf, pool>>
    BY <1>3 DEF Enqueue
  <2> QED
    BY <1>a, <1>b, <2>1 DEF OwnRequests, Holding
<1>4. ASSUME NEW c \in Caller, NEW outcome \in {"answered", "failed"},
             Return(c, outcome), Holding(c)
      PROVE OwnRequests'
  <2>1. /\ pc' = [pc EXCEPT ![c] = outcome]
        /\ reqOf' = [reqOf EXCEPT ![c] = NoEntry]
        /\ pool' = pool \cup ({reqOf[c]} \cap Request)
    BY <1>4 DEF Return
  <2> QED
    BY <1>a, <1>b, <1>4, <2>1 DEF OwnRequests, Holding
<1>5. ASSUME NEW c \in Caller, NoticeStop(c) PROVE OwnRequests'
  <2>1. /\ pc[c] = "wait" /\ pc' = [pc EXCEPT ![c] = "last look"]
        /\ UNCHANGED <<reqOf, pool>>
    BY <1>5 DEF NoticeStop
  <2> QED
    BY <1>a, <1>b, <2>1 DEF OwnRequests, Holding
<1>6. ASSUME NEW c \in Caller, CallerStep(c) PROVE OwnRequests'
  BY <1>1, <1>2, <1>3, <1>4, <1>5, <1>6
     DEF CallerStep, TakeAnswer, QueueFull, StopBeforeQueued,
         StopWhileWaiting, GiveUp, Holding
<1>7. CASE UNCHANGED callers
  BY <1>a, <1>7 DEF callers, OwnRequests, Holding
<1> QED
  BY <1>a, <1>6, <1>7, CallersLeft
-----------------------------------------------------------------------------
\* The steps that put nothing in a queue and take nothing out of one, and that
\* do not time out, end a command at most.
LEMMA QueuesLeft ==
    ASSUME TypeOK, [Next]_vars, \A c \in Caller : ~Enqueue(c),
           ~TakeHigh, ~TakeNormal, ~Timeout
    PROVE  /\ UNCHANGED <<queue, queueHigh, timedOut>> /\ cur' \in {cur, NoEntry}
           /\ \A c \in Caller :
                pc[c] \notin {"new", "enqueue"} => pc'[c] \notin {"new", "enqueue"}
<1> USE DEF callers, serial, status, history
<1>0. pc \in [Caller -> {"new", "enqueue", "wait", "last look", "answered",
                         "failed"}]
  BY DEF TypeOK
<1>1. ASSUME NEW c \in Caller, NEW outcome \in {"answered", "failed"},
             Return(c, outcome)
      PROVE  /\ UNCHANGED <<queue, queueHigh, timedOut, cur>>
             /\ pc' = [pc EXCEPT ![c] = outcome]
  BY <1>1 DEF Return
<1>2. ASSUME NEW c \in Caller, CallerStep(c)
      PROVE  /\ UNCHANGED <<queue, queueHigh, timedOut, cur>>
             /\ \E where \in {"enqueue", "last look", "answered", "failed"} :
                  /\ pc' = [pc EXCEPT ![c] = where]
                  /\ where = "enqueue" => pc[c] = "new"
  BY <1>1, <1>2 DEF CallerStep, BeginAT, BeginSMS, NoticeStop, TakeAnswer,
       QueueFull, StopBeforeQueued, StopWhileWaiting, GiveUp
<1>3. CASE \E c \in Caller : CallerStep(c)
  BY <1>0, <1>2, <1>3
<1>4. CASE \A c \in Caller : ~CallerStep(c)
  <2>1. UNCHANGED <<queue, queueHigh, timedOut>> /\ cur' \in {cur, NoEntry}
    BY <1>4 DEF Next, LoopStep, ReaderStep, vars, Exit, Poll, IdleLine, Write,
         WriteError, ReadError, FollowUp, Final, End, Fail, LoopStops,
         NotifyDisconnect, CloseStop, FinishStop, Lose, ReadLine, ReaderStops,
         ReportFault, ReaderFails
  <2> QED
    BY <1>4, <2>1, CallersLeft
<1> QED
  BY <1>3, <1>4

\* A command is queued, worked on and given up once, in this order.
LEMMA QueuedPreserved ==
    ASSUME TypeOK, QueuedOnce, [Next]_vars PROVE QueuedOnce'
<1>a. /\ queue \in Seq(Entry) /\ queueHigh \in Seq(Entry)
      /\ cur \in Entry \cup {NoEntry} /\ NoEntry \notin Entry
      /\ \A e \in Entry : e.cmd \in Caller
      /\ timedOut \subseteq Caller
      /\ \A i \in 1..Len(queue) : queue[i] \in Entry
      /\ \A i \in 1..Len(queueHigh) : queueHigh[i] \in Entry
  <2>1. /\ queue \in Seq(Entry) /\ queueHigh \in Seq(Entry)
        /\ cur \in Entry \cup {NoEntry} /\ NoEntry \notin Entry
        /\ timedOut \subseteq Caller
    BY NamesAssumption DEF TypeOK
  <2>2. \A e \in Entry : e.cmd \in Caller
    BY DEF Entry
  <2> QED
    BY <2>1, <2>2
<1>b. pc \in [Caller -> {"new", "enqueue", "wait", "last look", "answered",
                         "failed"}]
  BY DEF TypeOK
<1>1. ASSUME NEW c \in Caller, Enqueue(c) PROVE QueuedOnce'
  <2> DEFINE entry == [cmd |-> c, req |-> reqOf[c]]
  <2>1. /\ pc[c] = "enqueue" /\ pc' = [pc EXCEPT ![c] = "wait"]
        /\ UNCHANGED <<cur, timedOut>> /\ entry.cmd = c
    BY <1>1 DEF Enqueue, history
  <2>2. \A d \in Caller : (Pending(d) => Pending(d)' /\ d # c) 
    BY <1>b, <2>1 DEF Pending
  <2>3. Pending(c)'
    BY <1>b, <2>1 DEF Pending, QueuedOnce
  <2>4. \A d \in timedOut : pc'[d] \notin {"new", "enqueue"}
    BY <1>a, <1>b, <2>1 DEF QueuedOnce
  <2>5. CASE c \in High
    <3>1. queueHigh' = Append(queueHigh, entry) /\ queue' = queue
      BY <1>1, <2>5 DEF Enqueue
    <3>2. Len(queueHigh) \in Nat /\ Len(queueHigh') = Len(queueHigh) + 1
          /\ \A i \in 1..Len(queueHigh) : queueHigh'[i] = queueHigh[i]
          /\ queueHigh'[Len(queueHigh) + 1] = entry
      BY <1>a, <3>1
    <3> HIDE DEF entry
    <3> QED
      BY <1>a, <2>1, <2>2, <2>3, <2>4, <2>5, <3>1, <3>2 DEF QueuedOnce
  <2>6. CASE c \notin High
    <3>1. queue' = Append(queue, entry) /\ queueHigh' = queueHigh
      BY <1>1, <2>6 DEF Enqueue
    <3>2. Len(queue) \in Nat /\ Len(queue') = Len(queue) + 1
          /\ \A i \in 1..Len(queue) : queue'[i] = queue[i]
          /\ queue'[Len(queue) + 1] = entry
      BY <1>a, <3>1
    <3> HIDE DEF entry
    <3> QED
      BY <1>a, <2>1, <2>2, <2>3, <2>4, <2>6, <3>1, <3>2 DEF QueuedOnce
  <2> QED
    BY <2>5, <2>6
<1>2. CASE TakeHigh
  <2>1. /\ queueHigh # <<>> /\ cur' = Head(queueHigh) /\ queueHigh' = Tail(queueHigh)
        /\ UNCHANGED <<queue, pc, timedOut>>
    BY <1>2 DEF TakeHigh, callers, history
  <2>2. /\ cur' = queueHigh[1] /\ 1 \in 1..Len(queueHigh)
        /\ \A i \in 1..Len(queueHigh') :
             i + 1 \in 1..Len(queueHigh) /\ queueHigh'[i] = queueHigh[i + 1]
             /\ i + 1 # 1
    BY <1>a, <2>1
  <2>3. \A i, j \in 1..Len(queueHigh') : i + 1 = j + 1 => i = j
    OBVIOUS
  <2>4. \A i \in 1..Len(queue) : queue[i].cmd # queueHigh[1].cmd
    BY <2>2 DEF QueuedOnce
  <2>5. \A d : Pending(d)' <=> Pending(d)
    BY <2>1 DEF Pending
  <2> QED
    BY <1>a, <2>1, <2>2, <2>3, <2>4, <2>5 DEF QueuedOnce
<1>3. CASE TakeNormal
  <2>1. /\ queue # <<>> /\ cur' = Head(queue) /\ queue' = Tail(queue)
        /\ UNCHANGED <<queueHigh, pc, timedOut>>
    BY <1>3 DEF TakeNormal, callers
  <2>2. /\ cur' = queue[1] /\ 1 \in 1..Len(queue)
        /\ \A i \in 1..Len(queue') :
             i + 1 \in 1..Len(queue) /\ queue'[i] = queue[i + 1] /\ i + 1 # 1
    BY <1>a, <2>1
  <2>3. \A i, j \in 1..Len(queue') : i + 1 = j + 1 => i = j
    OBVIOUS
  <2>4. \A i \in 1..Len(queueHigh) : queueHigh[i].cmd # queue[1].cmd
    BY <2>2 DEF QueuedOnce
  <2>5. \A d : Pending(d)' <=> Pending(d)
    BY <2>1 DEF Pending
  <2> QED
    BY <1>a, <2>1, <2>2, <2>3, <2>4, <2>5 DEF QueuedOnce
<1>4. CASE Timeout
  <2>1. /\ cur # NoEntry /\ cur' = NoEntry /\ timedOut' = timedOut \cup {cur.cmd}
        /\ UNCHANGED <<queue, queueHigh, pc>>
    BY <1>4 DEF Timeout, End, callers, TypeOK
  <2>2. \A d : Pending(d) /\ d # cur.cmd => Pending(d)'
    BY <2>1 DEF Pending
  <2> QED
    BY <1>a, <2>1, <2>2 DEF QueuedOnce, Pending
<1>5. ASSUME UNCHANGED <<queue, queueHigh, timedOut>>, cur' \in {cur, NoEntry},
             \A c \in Caller :
                pc[c] \notin {"new", "enqueue"} => pc'[c] \notin {"new", "enqueue"}
      PROVE QueuedOnce'
  <2>1. \A d \in Caller : Pending(d) => Pending(d)'
    BY <1>5 DEF Pending
  <2> QED
    BY <1>a, <1>5, <2>1 DEF QueuedOnce
<1> QED
  BY <1>1, <1>2, <1>3, <1>4, <1>5, QueuesLeft
-----------------------------------------------------------------------------
\* Other steps than those of the commands' ends leave the requests' channels.
LEMMA BoxesLeft ==
    ASSUME TypeOK, [Next]_vars, \A c \in Caller : ~CallerStep(c),
           ~WriteError, ~Timeout, ~ReadError, ~Final
    PROVE  UNCHANGED box
BY DEF Next, LoopStep, ReaderStep, vars, Exit, Poll, TakeHigh, TakeNormal, IdleLine,
       Write, FollowUp, Fail, LoopStops, NotifyDisconnect, CloseStop, FinishStop,
       Lose, ReadLine, ReaderStops, ReportFault, ReaderFails

\* What the facts of this part are about, by type.
LEMMA Types ==
    ASSUME TypeOK
    PROVE  /\ queue \in Seq(Entry) /\ queueHigh \in Seq(Entry)
           /\ cur \in Entry \cup {NoEntry} /\ NoEntry \notin Entry
           /\ \A e \in Entry : e.cmd \in Caller /\ e.req \in Request \cup Interactive
           /\ \A i \in 1..Len(queue) : queue[i] \in Entry
           /\ \A i \in 1..Len(queueHigh) : queueHigh[i] \in Entry
           /\ pc \in [Caller -> {"new", "enqueue", "wait", "last look",
                                 "answered", "failed"}]
           /\ reqOf \in [Caller -> Request \cup Interactive \cup {NoEntry}]
           /\ box \in [Request \cup Interactive -> [Chan -> Answer \cup {NoAnswer}]]
           /\ \A a \in Answer : a.for \in Caller
           /\ Interactive \subseteq Caller /\ Request \cap Caller = {}
           /\ pool \subseteq Request
<1>1. /\ queue \in Seq(Entry) /\ queueHigh \in Seq(Entry)
      /\ cur \in Entry \cup {NoEntry} /\ NoEntry \notin Entry
      /\ pc \in [Caller -> {"new", "enqueue", "wait", "last look",
                            "answered", "failed"}]
      /\ reqOf \in [Caller -> Request \cup Interactive \cup {NoEntry}]
      /\ box \in [Request \cup Interactive -> [Chan -> Answer \cup {NoAnswer}]]
      /\ Interactive \subseteq Caller /\ Request \cap Caller = {}
      /\ pool \subseteq Request
  BY NamesAssumption, CallerAssumption DEF TypeOK
<1>2. /\ \A e \in Entry : e.cmd \in Caller /\ e.req \in Request \cup Interactive
      /\ \A a \in Answer : a.for \in Caller
  BY DEF Entry, Answer
<1>3. /\ \A i \in 1..Len(queue) : queue[i] \in Entry
      /\ \A i \in 1..Len(queueHigh) : queueHigh[i] \in Entry
  <2>1. queue \in Seq(Entry) /\ queueHigh \in Seq(Entry)
    BY <1>1
  <2> QED
    BY ONLY <2>1
<1> QED
  BY <1>1, <1>2, <1>3

\* What a command that returns was waiting for is worked on no more.
LEMMA ReturnedIsUnowned ==
    ASSUME TypeOK, OwnRequests, EntriesForOwner, BoxesForOwner, QueuedOnce,
           ~Stopping,
           NEW c \in Caller, c \notin Interactive, NEW outcome, CallerStep(c),
           Return(c, outcome)
    PROVE  ~Worked(c)
<1>1. CASE \E ch \in Chan : TakeAnswer(c, ch)
  <2>1. PICK ch \in Chan : TakeAnswer(c, ch)
    BY <1>1
  <2> DEFINE r == reqOf[c]
             a == box[r][ch]
  <2>2. a # NoAnswer /\ r \in Request \ pool /\ Holding(c)
    BY <2>1 DEF TakeAnswer, OwnRequests, Holding
  <2>3. r \in Request /\ r \notin Interactive
    BY <2>2, Types
  <2>4. pc[a.for] = "wait" /\ reqOf[a.for] = r /\ ~Worked(a.for)
    BY <2>2, <2>3 DEF BoxesForOwner, ForHolder
  <2>5. a \in Answer /\ a.for \in Caller
    <3>1. box[r] \in [Chan -> Answer \cup {NoAnswer}]
      BY <2>3, Types
    <3>2. a \in Answer
      BY <2>2, <3>1
    <3> QED
      BY <3>2, Types
  <2>6. a.for = c
    BY <2>2, <2>4, <2>5 DEF OwnRequests, Holding
  <2> QED
    BY <2>4, <2>6
<1>2. CASE pc[c] \in {"new", "enqueue"}
  BY <1>2, Types DEF Worked, QueuedOnce, Pending
<1>3. CASE pc[c] = "last look"
  <2>1. \A e : ForOwner(e) /\ e.cmd = c => FALSE
    BY <1>3 DEF ForOwner
  <2> QED
    BY <2>1 DEF Worked, EntriesForOwner
<1> QED
  BY <1>1, <1>2, <1>3
     DEF CallerStep, BeginAT, BeginSMS, Enqueue, QueueFull, StopBeforeQueued,
         NoticeStop, StopWhileWaiting, GiveUp

\* A stop is not undone.
LEMMA StopStays == ASSUME [Next]_vars, Stopping PROVE Stopping'
BY DEF Next, CallerStep, LoopStep, ReaderStep, vars, BeginAT, BeginSMS, Enqueue,
       NoticeStop, TakeAnswer, QueueFull, StopBeforeQueued, StopWhileWaiting,
       GiveUp, Return, Exit, Poll, TakeHigh, TakeNormal, IdleLine, Write,
       WriteError, Timeout, ReadError, FollowUp, Final, End, Fail, LoopStops,
       NotifyDisconnect, CloseStop, FinishStop, Lose, ReadLine, ReaderStops,
       ReportFault, ReaderFails, Stopping, status

\* Until the stop a request is worked on for its owner.
LEMMA EntriesPreserved ==
    ASSUME OwnInv, [Next]_vars PROVE EntriesForOwner'
<1>a. SUFFICES ASSUME ~Stopping' PROVE
        /\ \A i \in 1..Len(queue') : ForOwner(queue[i])'
        /\ \A i \in 1..Len(queueHigh') : ForOwner(queueHigh[i])'
        /\ cur' # NoEntry => ForOwner(cur)'
  BY DEF EntriesForOwner
<1>b. TypeOK /\ OwnRequests /\ QueuedOnce /\ EntriesForOwner /\ BoxesForOwner
  BY DEF OwnInv
<1>c. ~Stopping
  BY <1>a, StopStays
<1>d. /\ \A i \in 1..Len(queue) : ForOwner(queue[i])
      /\ \A i \in 1..Len(queueHigh) : ForOwner(queueHigh[i])
      /\ cur # NoEntry => ForOwner(cur)
  BY <1>b, <1>c DEF EntriesForOwner
<1>1. ASSUME UNCHANGED <<queue, queueHigh>>, cur' \in {cur, NoEntry},
             NEW c \in Caller, c \in Interactive \/ ~Worked(c),
             \A d \in Caller \ {c} : pc'[d] = pc[d] /\ reqOf'[d] = reqOf[d]
      PROVE EntriesForOwner'
  <2>1. \A e \in Entry : ForOwner(e) /\ (e.cmd = c => c \in Interactive) => ForOwner(e)'
    BY <1>b, <1>1, Types DEF ForOwner
  <2>2. \A i \in 1..Len(queue) : queue[i].cmd = c => c \in Interactive
    BY <1>1 DEF Worked
  <2>3. \A i \in 1..Len(queueHigh) : queueHigh[i].cmd = c => c \in Interactive
    BY <1>1 DEF Worked
  <2>4. cur # NoEntry /\ cur.cmd = c => c \in Interactive
    BY <1>1 DEF Worked
  <2> QED
    BY <1>b, <1>d, <1>1, <2>1, <2>2, <2>3, <2>4, Types DEF EntriesForOwner
<1>2. ASSUME NEW c \in Caller, pc[c] \in {"new", "enqueue"} PROVE ~Worked(c)
  BY <1>b, <1>2, Types DEF Worked, QueuedOnce, Pending
<1>3. ASSUME NEW c \in Caller, Enqueue(c) PROVE EntriesForOwner'
  <2> DEFINE entry == [cmd |-> c, req |-> reqOf[c]]
  <2>1. /\ pc[c] = "enqueue" /\ pc' = [pc EXCEPT ![c] = "wait"]
        /\ UNCHANGED <<cur, reqOf>> /\ entry.cmd = c /\ entry.req = reqOf[c]
    BY <1>3 DEF Enqueue, history
  <2>2. ~Worked(c)
    BY <1>2, <2>1
  <2>3. \A e \in Entry : ForOwner(e) /\ e.cmd # c => ForOwner(e)'
    BY <1>b, <2>1, Types DEF ForOwner
  <2>a. /\ \A i \in 1..Len(queue) : queue[i] \in Entry /\ queue[i].cmd # c
        /\ \A i \in 1..Len(queueHigh) : queueHigh[i] \in Entry /\ queueHigh[i].cmd # c
        /\ cur # NoEntry => cur \in Entry /\ cur.cmd # c
    BY <1>b, <2>2, Types DEF Worked
  <2> DEFINE Owned(e) == IF e.cmd \in Interactive THEN e.req = e.cmd
                         ELSE pc'[e.cmd] = "wait" /\ reqOf'[e.cmd] = e.req
  <2>b. \A e : ForOwner(e)' <=> Owned(e)
    BY DEF ForOwner
  <2>4. Owned(entry)
    BY <1>b, <2>1, Types DEF OwnRequests, Holding
  <2>c. /\ \A i \in 1..Len(queue) : Owned(queue[i])
        /\ \A i \in 1..Len(queueHigh) : Owned(queueHigh[i])
        /\ cur # NoEntry => Owned(cur)
        /\ Owned(entry)
    <3> HIDE DEF Owned, entry
    <3> QED
      BY <1>d, <2>3, <2>4, <2>a, <2>b
  <2>d. SUFFICES /\ \A i \in 1..Len(queue') : Owned(queue'[i])
                 /\ \A i \in 1..Len(queueHigh') : Owned(queueHigh'[i])
                 /\ cur' # NoEntry => Owned(cur')
    BY DEF EntriesForOwner, ForOwner
  <2> HIDE DEF Owned
  <2>5. CASE c \in High
    <3>1. queueHigh' = Append(queueHigh, entry) /\ queue' = queue
      BY <1>3, <2>5 DEF Enqueue
    <3>2. queueHigh \in Seq(Entry)
      BY <1>b, Types
    <3>3. Len(queueHigh) \in Nat /\ Len(queueHigh') = Len(queueHigh) + 1
          /\ \A i \in 1..Len(queueHigh) : queueHigh'[i] = queueHigh[i]
          /\ queueHigh'[Len(queueHigh) + 1] = entry
      BY <3>1, <3>2
    <3> HIDE DEF entry
    <3> QED
      BY <2>1, <2>c, <3>1, <3>3
  <2>6. CASE c \notin High
    <3>1. queue' = Append(queue, entry) /\ queueHigh' = queueHigh
      BY <1>3, <2>6 DEF Enqueue
    <3>2. queue \in Seq(Entry)
      BY <1>b, Types
    <3>3. Len(queue) \in Nat /\ Len(queue') = Len(queue) + 1
          /\ \A i \in 1..Len(queue) : queue'[i] = queue[i]
          /\ queue'[Len(queue) + 1] = entry
      BY <3>1, <3>2
    <3> HIDE DEF entry
    <3> QED
      BY <2>1, <2>c, <3>1, <3>3
  <2> QED
    BY <2>5, <2>6
<1>4. ASSUME NEW c \in Caller, CallerStep(c) PROVE EntriesForOwner'
  <2>1. CASE Enqueue(c)
    BY <1>3, <2>1
  <2>2. CASE BeginAT(c) \/ BeginSMS(c)
    <3>1. /\ pc[c] = "new" /\ UNCHANGED <<queue, queueHigh, cur>>
          /\ \A d \in Caller \ {c} : pc'[d] = pc[d] /\ reqOf'[d] = reqOf[d]
      BY <1>b, <2>2, Types DEF BeginAT, BeginSMS
    <3> QED
      BY <1>1, <1>2, <3>1
  <2>3. CASE NoticeStop(c)
    BY <1>c, <2>3 DEF NoticeStop
  <2>4. ASSUME NEW outcome, Return(c, outcome) PROVE EntriesForOwner'
    <3>1. /\ UNCHANGED <<queue, queueHigh, cur>>
          /\ \A d \in Caller \ {c} : pc'[d] = pc[d] /\ reqOf'[d] = reqOf[d]
      BY <1>b, <2>4, Types DEF Return
    <3>2. c \in Interactive \/ ~Worked(c)
      BY <1>b, <1>c, <1>4, <2>4, ReturnedIsUnowned
    <3> QED
      BY <1>1, <3>1, <3>2
  <2> QED
    BY <1>4, <2>1, <2>2, <2>3, <2>4
       DEF CallerStep, TakeAnswer, QueueFull, StopBeforeQueued, StopWhileWaiting,
           GiveUp
<1>5. CASE TakeHigh
  <2>1. /\ queueHigh # <<>> /\ cur' = Head(queueHigh) /\ queueHigh' = Tail(queueHigh)
        /\ UNCHANGED <<queue, pc, reqOf>> /\ queueHigh \in Seq(Entry)
    BY <1>b, <1>5, Types DEF TakeHigh, callers
  <2>2. /\ cur' = queueHigh[1] /\ 1 \in 1..Len(queueHigh)
        /\ \A i \in 1..Len(queueHigh') :
             i + 1 \in 1..Len(queueHigh) /\ queueHigh'[i] = queueHigh[i + 1]
    BY <2>1
  <2>3. \A e : ForOwner(e)' <=> ForOwner(e)
    BY <2>1 DEF ForOwner
  <2> QED
    BY <1>d, <2>1, <2>2, <2>3
<1>6. CASE TakeNormal
  <2>1. /\ queue # <<>> /\ cur' = Head(queue) /\ queue' = Tail(queue)
        /\ UNCHANGED <<queueHigh, pc, reqOf>> /\ queue \in Seq(Entry)
    BY <1>b, <1>6, Types DEF TakeNormal, callers
  <2>2. /\ cur' = queue[1] /\ 1 \in 1..Len(queue)
        /\ \A i \in 1..Len(queue') :
             i + 1 \in 1..Len(queue) /\ queue'[i] = queue[i + 1]
    BY <2>1
  <2>3. \A e : ForOwner(e)' <=> ForOwner(e)
    BY <2>1 DEF ForOwner
  <2> QED
    BY <1>d, <2>1, <2>2, <2>3
<1>7. CASE (\A c \in Caller : ~CallerStep(c)) /\ ~TakeHigh /\ ~TakeNormal
  <2>1. UNCHANGED <<pc, reqOf>>
    BY <1>b, <1>7, CallersLeft DEF callers
  <2>2. UNCHANGED <<queue, queueHigh>> /\ cur' \in {cur, NoEntry}
    <3>1. CASE Timeout
      BY <3>1 DEF Timeout, End
    <3>2. CASE ~Timeout
      BY <1>b, <1>7, <3>2, QueuesLeft DEF CallerStep
    <3> QED
      BY <3>1, <3>2
  <2>3. \A e : ForOwner(e)' <=> ForOwner(e)
    BY <2>1 DEF ForOwner
  <2> QED
    BY <1>d, <2>2, <2>3
<1> QED
  BY <1>a, <1>4, <1>5, <1>6, <1>7 DEF EntriesForOwner

\* Until the stop an answer is for the owner of its request, who is still waiting.
LEMMA BoxesPreserved ==
    ASSUME OwnInv, [Next]_vars PROVE BoxesForOwner'
<1> DEFINE Still(c) ==      \* the call c waits on, and is not worked on anew
             /\ pc'[c] = pc[c] /\ reqOf'[c] = reqOf[c]
             /\ Worked(c)' => Worked(c)
<1>a. SUFFICES ASSUME ~Stopping' PROVE BoxesForOwner'
  BY DEF BoxesForOwner
<1>b. TypeOK /\ OwnRequests /\ QueuedOnce /\ EntriesForOwner /\ BoxesForOwner
  BY DEF OwnInv
<1>c. ~Stopping
  BY <1>a, StopStays
<1>d. \A r \in Request \cup Interactive, ch \in Chan :
        box[r][ch] # NoAnswer => ForHolder(r, box[r][ch])
  BY <1>b, <1>c DEF BoxesForOwner
<1>e. \A r \in Request \cup Interactive, ch \in Chan :
        box[r][ch] # NoAnswer => box[r][ch] \in Answer /\ box[r][ch].for \in Caller
  <2>1. ASSUME NEW r \in Request \cup Interactive, NEW ch \in Chan,
               box[r][ch] # NoAnswer
        PROVE  box[r][ch] \in Answer
    <3>1. box[r] \in [Chan -> Answer \cup {NoAnswer}]
      BY <1>b, Types
    <3> QED
      BY <2>1, <3>1
  <2> QED
    BY <1>b, <2>1, Types
\* Boxes as they were, of callers who wait as they did.
<1>1. ASSUME NEW r \in Request \cup Interactive, NEW ch \in Chan,
             box'[r][ch] = box[r][ch], box[r][ch] # NoAnswer,
             \A d \in Caller : pc[d] = "wait" /\ reqOf[d] = r => Still(d)
      PROVE  ForHolder(r, box[r][ch])'
  <2> DEFINE a == box[r][ch]
  <2>1. ForHolder(r, a) /\ a.for \in Caller
    BY <1>d, <1>e, <1>1
  <2>2. box'[r][ch] = a
    BY <1>1
  <2>3. r \in Interactive \/ (r \notin Interactive /\ pc[a.for] = "wait" /\ Still(a.for))
    BY <1>1, <2>1 DEF ForHolder
  <2> QED
    BY <1>1, <2>1, <2>2, <2>3 DEF ForHolder
<1>f. ASSUME UNCHANGED <<queue, queueHigh>>, cur' \in {cur, NoEntry}, NEW d
      PROVE  Worked(d)' => Worked(d)
  BY <1>f DEF Worked
<1>2. ASSUME NEW c \in Caller, UNCHANGED box, pc[c] # "wait",
             \A d \in Caller \ {c} : Still(d)
      PROVE  BoxesForOwner'
  BY <1>1, <1>2 DEF BoxesForOwner
<1>3. ASSUME NEW c \in Caller, Enqueue(c) PROVE BoxesForOwner'
  <2>1. /\ pc[c] = "enqueue" /\ pc' = [pc EXCEPT ![c] = "wait"]
        /\ UNCHANGED <<cur, reqOf, box>>
    BY <1>3 DEF Enqueue, history
  <2>2. ASSUME NEW d \in Caller, d # c, Worked(d)' PROVE Worked(d)
    <3> DEFINE entry == [cmd |-> c, req |-> reqOf[c]]
    <3>1. entry.cmd = c /\ queue \in Seq(Entry) /\ queueHigh \in Seq(Entry)
      BY <1>b, Types
    <3>2. CASE c \in High
      <4>1. queueHigh' = Append(queueHigh, entry) /\ queue' = queue
        BY <1>3, <3>2 DEF Enqueue
      <4> HIDE DEF entry
      <4>2. \A i \in 1..Len(queueHigh') :
              \/ queueHigh'[i] = entry
              \/ i \in 1..Len(queueHigh) /\ queueHigh'[i] = queueHigh[i]
        BY <3>1, <4>1
      <4> QED
        BY <2>1, <2>2, <3>1, <4>1, <4>2 DEF Worked
    <3>3. CASE c \notin High
      <4>1. queue' = Append(queue, entry) /\ queueHigh' = queueHigh
        BY <1>3, <3>3 DEF Enqueue
      <4> HIDE DEF entry
      <4>2. \A i \in 1..Len(queue') :
              \/ queue'[i] = entry
              \/ i \in 1..Len(queue) /\ queue'[i] = queue[i]
        BY <3>1, <4>1
      <4> QED
        BY <2>1, <2>2, <3>1, <4>1, <4>2 DEF Worked
    <3> QED
      BY <3>2, <3>3
  <2>3. \A d \in Caller \ {c} : pc'[d] = pc[d] /\ reqOf'[d] = reqOf[d]
    BY <1>b, <2>1, Types
  <2> QED
    BY <1>2, <2>1, <2>2, <2>3
<1>4. ASSUME NEW c \in Caller, CallerStep(c) PROVE BoxesForOwner'
  <2>1. CASE Enqueue(c)
    BY <1>3, <2>1
  <2>2. CASE BeginAT(c) \/ BeginSMS(c)
    <3>1. /\ pc[c] = "new" /\ UNCHANGED <<queue, queueHigh, cur, box>>
          /\ \A d \in Caller \ {c} : pc'[d] = pc[d] /\ reqOf'[d] = reqOf[d]
      BY <1>b, <2>2, Types DEF BeginAT, BeginSMS
    <3> QED
      BY <1>2, <1>f, <3>1
  <2>3. CASE NoticeStop(c)
    BY <1>c, <2>3 DEF NoticeStop
  <2>4. ASSUME NEW outcome, Return(c, outcome) PROVE BoxesForOwner'
    <3>1. /\ UNCHANGED <<queue, queueHigh, cur>>
          /\ box' = [box EXCEPT ![reqOf[c]] = EmptyBox]
          /\ \A d \in Caller \ {c} : pc'[d] = pc[d] /\ reqOf'[d] = reqOf[d]
      BY <1>b, <2>4, Types DEF Return
    <3>2. ASSUME NEW r \in Request \cup Interactive, NEW ch \in Chan,
                 box'[r][ch] # NoAnswer
          PROVE  ForHolder(r, box[r][ch])'
      <4>1. r # reqOf[c] /\ box'[r] = box[r]
        BY <1>b, <3>1, <3>2, Types DEF EmptyBox
      <4> QED
        BY <1>1, <1>f, <3>1, <3>2, <4>1
    <3> QED
      BY <3>2 DEF BoxesForOwner
  <2> QED
    BY <1>4, <2>1, <2>2, <2>3, <2>4
       DEF CallerStep, TakeAnswer, QueueFull, StopBeforeQueued, StopWhileWaiting,
           GiveUp
<1>5. CASE TakeHigh \/ TakeNormal
  <2>1. /\ queue \in Seq(Entry) /\ queueHigh \in Seq(Entry)
        /\ UNCHANGED <<pc, reqOf, box>>
        /\ \/ queueHigh # <<>> /\ cur' = Head(queueHigh)
              /\ queueHigh' = Tail(queueHigh) /\ queue' = queue
           \/ queue # <<>> /\ cur' = Head(queue)
              /\ queue' = Tail(queue) /\ queueHigh' = queueHigh
    BY <1>b, <1>5, Types DEF TakeHigh, TakeNormal, callers
  <2>2. ASSUME NEW d, Worked(d)' PROVE Worked(d)
    <3>1. CASE queueHigh # <<>> /\ cur' = Head(queueHigh)
              /\ queueHigh' = Tail(queueHigh) /\ queue' = queue
      <4>1. /\ cur' = queueHigh[1] /\ 1 \in 1..Len(queueHigh)
            /\ \A i \in 1..Len(queueHigh') :
                 i + 1 \in 1..Len(queueHigh) /\ queueHigh'[i] = queueHigh[i + 1]
        BY <2>1, <3>1
      <4> QED
        BY <2>2, <3>1, <4>1 DEF Worked
    <3>2. CASE queue # <<>> /\ cur' = Head(queue)
              /\ queue' = Tail(queue) /\ queueHigh' = queueHigh
      <4>1. /\ cur' = queue[1] /\ 1 \in 1..Len(queue)
            /\ \A i \in 1..Len(queue') :
                 i + 1 \in 1..Len(queue) /\ queue'[i] = queue[i + 1]
        BY <2>1, <3>2
      <4> QED
        BY <2>2, <3>2, <4>1 DEF Worked
    <3> QED
      BY <2>1, <3>1, <3>2
  <2>3. \A d \in Caller : Still(d)
    BY <2>1, <2>2
  <2> HIDE DEF Still
  <2> QED
    BY <1>1, <2>1, <2>3 DEF BoxesForOwner
<1>6. ASSUME NEW way \in Chan, NEW from \in Caller \cup {Engine}, NEW failing,
             End(way, from, failing), loop \in {"write", "wait"}
      PROVE  BoxesForOwner'
  <2>1. /\ cur # NoEntry /\ cur' = NoEntry
        /\ box' = [box EXCEPT ![cur.req][way] = [for |-> cur.cmd, from |-> from]]
        /\ UNCHANGED <<queue, queueHigh, pc, reqOf>>
    BY <1>b, <1>6 DEF End, callers, TypeOK
  <2>2. PICK e \in Entry :
          /\ e = cur /\ e.cmd \in Caller /\ e.req \in Request \cup Interactive
          /\ ForOwner(e)
    BY <1>b, <1>c, <2>1, Types DEF EntriesForOwner
  <2>3. ~Worked(e.cmd)'
    BY <1>b, <2>1, <2>2 DEF Worked, QueuedOnce
  <2>4. /\ box'[e.req][way].for = e.cmd
        /\ \A r \in Request \cup Interactive, ch \in Chan :
             \/ r = e.req /\ ch = way
             \/ box'[r][ch] = box[r][ch]
    BY <1>b, <2>1, <2>2, Types
  <2>5. IF e.req \in Interactive THEN e.cmd = e.req
        ELSE /\ pc'[e.cmd] = "wait" /\ reqOf'[e.cmd] = e.req
             /\ e.cmd \notin Interactive
    BY <1>b, <2>1, <2>2, Types DEF ForOwner, OwnRequests, Holding
  <2>6. ForHolder(e.req, box[e.req][way])'
    BY <2>3, <2>4, <2>5 DEF ForHolder
  <2>7. \A d \in Caller : Still(d)
    BY <1>f, <2>1
  <2> HIDE DEF Still
  <2>8. ASSUME NEW r \in Request \cup Interactive, NEW ch \in Chan,
               box'[r][ch] # NoAnswer
        PROVE  ForHolder(r, box[r][ch])'
    <3>1. CASE r = e.req /\ ch = way
      BY <2>6, <3>1
    <3>2. CASE box'[r][ch] = box[r][ch]
      BY <1>1, <2>7, <2>8, <3>2
    <3> QED
      BY <2>4, <3>1, <3>2
  <2> QED
    BY <2>8 DEF BoxesForOwner
<1>7. CASE /\ \A c \in Caller : ~CallerStep(c)
           /\ ~TakeHigh /\ ~TakeNormal
           /\ ~WriteError /\ ~Timeout /\ ~ReadError /\ ~Final
  <2>1. UNCHANGED <<pc, reqOf, box>>
    BY <1>b, <1>7, CallersLeft, BoxesLeft DEF callers
  <2>2. UNCHANGED <<queue, queueHigh>> /\ cur' \in {cur, NoEntry}
    BY <1>b, <1>7, QueuesLeft DEF CallerStep
  <2>3. \A d \in Caller : Still(d)
    BY <1>f, <2>1, <2>2
  <2> HIDE DEF Still
  <2> QED
    BY <1>1, <2>1, <2>3 DEF BoxesForOwner
<1>8. CASE WriteError \/ Timeout \/ ReadError \/ Final
  <2>1. CASE WriteError
    BY <1>6, <2>1 DEF WriteError, Chan
  <2>2. CASE Timeout
    BY <1>6, <2>2 DEF Timeout, Chan
  <2>3. CASE ReadError
    BY <1>6, <2>3 DEF ReadError, Chan
  <2>4. CASE Final
    <3>1. Head(rx).of \in Caller
      <4>1. rx \in Seq(Line) /\ rx # <<>> /\ ~Fault(Head(rx))
        BY <1>b, <2>4 DEF Final, TypeOK
      <4>2. Head(rx) \in Line
        BY ONLY <4>1, Taken
      <4> QED
        BY <4>1, <4>2 DEF Line, Fault, Reply
    <3> QED
      BY <1>6, <2>4, <3>1 DEF Final
  <2> QED
    BY <1>8, <2>1, <2>2, <2>3, <2>4
<1> QED
  BY <1>4, <1>5, <1>7, <1>8

\* The engine's answers stay with the callers whose commands they end.
LEMMA OwnStep == OwnInv /\ [Next]_vars => OwnInv'
BY TypePreserved, RequestsPreserved, QueuedPreserved, EntriesPreserved,
   BoxesPreserved DEF OwnInv

LEMMA OwnInit == Init => OwnInv
<1> SUFFICES ASSUME Init PROVE OwnInv
  OBVIOUS
<1>1. TypeOK
  <2>1. EmptyBox \in [Chan -> Answer \cup {NoAnswer}]
    BY DEF EmptyBox
  <2>2. Len(queue) = 0 /\ Len(queueHigh) = 0 /\ Len(rx) = 0
    BY DEF Init
  <2>3. Len(queue) =< QueueCap /\ Len(queueHigh) =< HighCap /\ Len(rx) =< RxCap
    BY <2>2, CapacityAssumption
  <2>4. /\ queue \in Seq(Entry) /\ queueHigh \in Seq(Entry)
        /\ owed \in Seq(Reply) /\ rx \in Seq(Line)
    <3>1. queue = <<>> /\ queueHigh = <<>> /\ owed = <<>> /\ rx = <<>>
      BY DEF Init
    <3> QED
      BY ONLY <3>1
  <2>5. streak \in Nat /\ told \in Nat /\ passed \in [Caller -> Nat]
    BY DEF Init
  <2> QED
    BY <2>1, <2>3, <2>4, <2>5 DEF Init, TypeOK
<1>2. OwnRequests /\ QueuedOnce /\ EntriesForOwner
  <2>1. queue = <<>> /\ queueHigh = <<>> /\ cur = NoEntry
        /\ timedOut = {} /\ \A c \in Caller : pc[c] = "new"
    BY DEF Init
  <2>2. 1..Len(queue) = {} /\ 1..Len(queueHigh) = {}
    BY ONLY <2>1
  <2> QED
    BY <2>1, <2>2 DEF OwnRequests, Holding, QueuedOnce, EntriesForOwner
<1>3. BoxesForOwner
  BY DEF Init, BoxesForOwner, EmptyBox
<1> QED
  BY <1>1, <1>2, <1>3 DEF OwnInv

LEMMA OwnAlways == Spec => []OwnInv
BY OwnInit, OwnStep, PTL DEF Spec

LEMMA OwnMeansOwn == OwnInv => AnswerIsOwn
<1> SUFFICES ASSUME OwnInv, ~Stopping, NEW c \in Caller, Waiting(c),
                    NEW ch \in Chan, box[reqOf[c]][ch] # NoAnswer
             PROVE  box[reqOf[c]][ch].for = c
  BY DEF OwnInv, AnswerIsOwn, AnswersFor
<1>1. TypeOK /\ OwnRequests /\ BoxesForOwner /\ Holding(c)
  BY DEF OwnInv, Waiting, Holding
<1>2. CASE c \in Interactive
  BY <1>1, <1>2 DEF OwnRequests, BoxesForOwner, ForHolder
<1>3. CASE c \notin Interactive
  <2>1. reqOf[c] \in Request /\ reqOf[c] \notin Interactive
    BY <1>1, <1>3, Types DEF OwnRequests
  <2>2. /\ pc[box[reqOf[c]][ch].for] = "wait"
        /\ reqOf[box[reqOf[c]][ch].for] = reqOf[c]
    BY <1>1, <2>1 DEF BoxesForOwner, ForHolder
  <2>3. box[reqOf[c]][ch].for \in Caller
    <3>1. box[reqOf[c]] \in [Chan -> Answer \cup {NoAnswer}]
      BY <1>1, <2>1, Types
    <3>2. box[reqOf[c]][ch] \in Answer
      BY <3>1
    <3> QED
      BY <1>1, <3>2, Types
  <2> QED
    BY <1>1, <2>2, <2>3 DEF OwnRequests, Holding
<1> QED
  BY <1>2, <1>3

\* A caller is given the answer to its own command, whichever callers share the
\* pooled requests, as long as nobody stops the engine (manager.go, executeAT and
\* handleCommand).
THEOREM OwnAnswers == Spec => []AnswerIsOwn
BY OwnAlways, OwnMeansOwn, PTL
-----------------------------------------------------------------------------
\* The disconnect callback is called by the one run of the loop that goes on to
\* "stop" or "stop and end" while the manager runs; afterwards it does not run.
ToldInv ==
    /\ TypeOK /\ told =< 1
    /\ stage = "done" => ~running
    /\ told = 1 => stage = "done" /\ loop \notin {"select", "stop", "stop and end"}

LEMMA ToldStep == ToldInv /\ TypeOK' /\ [Next]_vars => ToldInv'
<1>a. SUFFICES ASSUME ToldInv, TypeOK', [Next]_vars PROVE ToldInv'
  OBVIOUS
<1>b. told \in {0, 1}
  <2>1. told \in Nat /\ told =< 1
    BY <1>a DEF ToldInv, TypeOK
  <2> QED
    BY ONLY <2>1
<1>1. CASE UNCHANGED <<told, stage, running, loop>>
  BY <1>a, <1>1 DEF ToldInv
<1>2. CASE UNCHANGED <<told, stage, running>> /\ loop # "select"
           /\ loop' \in {"poll", "write", "wait", "failing", "ended"}
  BY <1>a, <1>2 DEF ToldInv
<1>3. CASE IdleLine
  <2>1. told # 1 /\ UNCHANGED <<told, stage, running>>
    BY <1>a, <1>3 DEF IdleLine, ToldInv, status
  <2> QED
    BY <1>a, <2>1 DEF ToldInv
<1>4. CASE Poll
  <2>1. told # 1 /\ UNCHANGED <<told, stage, running>>
    BY <1>a, <1>4 DEF Poll, ToldInv, status, Stopping
  <2> QED
    BY <1>a, <2>1 DEF ToldInv
<1>5. CASE Fail
  <2>1. running => told # 1
    BY <1>a DEF ToldInv
  <2>2. UNCHANGED <<told, stage, running>>
        /\ (loop' = "poll" \/ running)
    BY <1>5 DEF Fail
  <2> QED
    BY <1>a, <2>1, <2>2 DEF ToldInv
<1>6. CASE CloseStop \/ LoopStops
  <2>1. told # 1 /\ told' = told /\ stage' = "closed"
    BY <1>a, <1>6 DEF LoopStops, CloseStop, ToldInv
  <2> QED
    BY <1>a, <2>1 DEF ToldInv
<1>7. CASE FinishStop
  <2>1. told # 1 /\ told' = told /\ running' = FALSE
    BY <1>a, <1>7 DEF FinishStop, ToldInv
  <2> QED
    BY <1>a, <2>1 DEF ToldInv
<1>8. CASE NotifyDisconnect
  <2>1. told # 1
    BY <1>a, <1>8 DEF NotifyDisconnect, ToldInv
  <2>2. told' = told + 1 /\ stage = "done" /\ loop' \in {"poll", "ended"}
        /\ UNCHANGED <<stage, running>>
    BY <1>8 DEF NotifyDisconnect
  <2>3. told' = 1 /\ told' =< 1
    BY ONLY <1>b, <2>1, <2>2
  <2> QED
    BY <1>a, <2>2, <2>3 DEF ToldInv
<1>9. CASE TakeNormal
  <2>1. told # 1 /\ UNCHANGED <<told, stage, running>>
    BY <1>a, <1>9 DEF TakeNormal, ToldInv, status
  <2> QED
    BY <1>a, <2>1 DEF ToldInv
<1>10. CASE Exit \/ TakeHigh
  <2>1. UNCHANGED <<told, stage, running>> /\ loop' \in {"ended", "write"}
    BY <1>10 DEF Exit, TakeHigh, status
  <2> QED
    BY <1>a, <2>1 DEF ToldInv
<1>11. CASE \E c \in Caller : CallerStep(c)
  BY <1>1, <1>11 DEF CallerStep, BeginAT, BeginSMS, Enqueue, NoticeStop, TakeAnswer,
     QueueFull, StopBeforeQueued, StopWhileWaiting, GiveUp, Return, status
<1>12. CASE Write \/ WriteError \/ Timeout \/ ReadError \/ FollowUp \/ Final
  <2>1. UNCHANGED <<told, stage, running>> /\ loop # "select"
    BY <1>12 DEF Write, WriteError, Timeout, ReadError, FollowUp, Final, status
  <2>2. loop' \in {"poll", "write", "wait", "failing", "ended"}
    BY <1>12 DEF Write, WriteError, Timeout, ReadError, FollowUp, Final, End
  <2> QED
    BY <1>2, <2>1, <2>2
<1>13. CASE ReaderStep \/ Lose \/ \E kind \in {"fatal", "fault"} : ReaderFails(kind)
  BY <1>1, <1>13 DEF ReaderStep, ReadLine, ReaderStops, ReportFault, Lose,
     ReaderFails, status
<1>14. CASE UNCHANGED vars
  BY <1>1, <1>14 DEF vars, status
<1> QED
  BY <1>a, <1>3, <1>4, <1>5, <1>6, <1>7, <1>8, <1>9, <1>10, <1>11, <1>12, <1>13,
     <1>14 DEF Next, LoopStep

\* The owner is told of a lost device at most once, whichever of the watchdog, a
\* fatal error and the idle loop find it (manager.go, handleFatalSerialRuntimeErr
\* and tripATTimeoutWatchdog).
THEOREM DisconnectedOnce == Spec => []ToldOnce
<1>1. OwnInv => TypeOK
  BY DEF OwnInv
<1>2. Init /\ TypeOK => ToldInv
  <2>1. Init => told = 0
    BY DEF Init
  <2>2. told = 0 => told =< 1 /\ told # 1
    OBVIOUS
  <2>3. Init => stage # "done"
    BY DEF Init
  <2> QED
    BY <2>1, <2>2, <2>3 DEF ToldInv
<1>3. ToldInv => ToldOnce
  BY DEF ToldInv, ToldOnce
<1> QED
  BY <1>1, <1>2, <1>3, OwnAlways, ToldStep, PTL DEF Spec
-----------------------------------------------------------------------------
\* In the second select the queue of high priority holds only commands that came
\* after it was found empty, and none of them has let one pass.
HighInv ==
    /\ \A c \in Caller : passed[c] =< 1
    /\ \A c \in Caller : pc[c] \in {"new", "enqueue"} => passed[c] = 0
    /\ loop = "select" =>
         \A i \in 1..Len(queueHigh) : passed[queueHigh[i].cmd] = 0

LEMMA HighStep == OwnInv /\ HighInv /\ OwnInv' /\ [Next]_vars => HighInv'
<1>a. SUFFICES ASSUME OwnInv, HighInv, OwnInv', [Next]_vars PROVE HighInv'
  OBVIOUS
<1>b. TypeOK /\ QueuedOnce /\ TypeOK' /\ QueuedOnce'
  BY <1>a DEF OwnInv
<1>c. /\ passed \in [Caller -> Nat] /\ Caller = DOMAIN pc
      /\ queueHigh \in Seq(Entry) /\ queueHigh' \in Seq(Entry)
      /\ \A i \in 1..Len(queueHigh) : queueHigh[i].cmd \in Caller
                                       /\ pc[queueHigh[i].cmd] \notin {"new", "enqueue"}
  BY <1>b, Types DEF TypeOK, QueuedOnce, Pending
\* Steps that leave the queue and the marks alone, and do not go to the select.
<1>1. ASSUME UNCHANGED <<queueHigh, passed>>, loop' # "select" \/ loop = "select",
             \A c \in Caller :
                pc[c] \notin {"new", "enqueue"} => pc'[c] \notin {"new", "enqueue"}
      PROVE  HighInv'
  BY <1>a, <1>1 DEF HighInv
<1>2. CASE \A c \in Caller : ~CallerStep(c)
  <2>1. pc' = pc
    BY <1>a, <1>b, <1>2, CallersLeft DEF callers
  <2>2. CASE Poll
    <3>1. 1..Len(queueHigh) = {}
      BY <2>2 DEF Poll
    <3> QED
      BY <1>a, <2>1, <2>2, <3>1 DEF Poll, HighInv, history
  <2>3. CASE TakeHigh
    BY <1>a, <2>1, <2>3 DEF TakeHigh, HighInv, history
  <2>4. CASE TakeNormal
    <3>1. passed' = [c \in Caller |->
                       IF c \in QueuedHigh THEN passed[c] + 1 ELSE passed[c]]
          /\ loop = "select" /\ loop' = "write"
      BY <2>4 DEF TakeNormal
    <3>2. \A c \in QueuedHigh : passed[c] = 0 /\ pc[c] \notin {"new", "enqueue"}
      BY <1>a, <1>c, <3>1 DEF HighInv, QueuedHigh
    <3>3. ASSUME NEW c \in Caller
          PROVE  passed'[c] =< 1 /\ (pc'[c] \in {"new", "enqueue"} => passed'[c] = 0)
      BY <1>a, <2>1, <3>1, <3>2 DEF HighInv
    <3> QED
      BY <3>1, <3>3 DEF HighInv
  <2>5. CASE ~Poll /\ ~TakeHigh /\ ~TakeNormal
    <3>1. UNCHANGED <<queueHigh, passed>> /\ (loop' # "select" \/ loop = "select")
      BY <1>a, <1>2, <2>5 DEF Next, LoopStep, ReaderStep, vars, Exit, IdleLine, Write,
         WriteError, Timeout, ReadError, FollowUp, Final, End, Fail, LoopStops,
         NotifyDisconnect, CloseStop, FinishStop, Lose, ReadLine, ReaderStops,
         ReportFault, ReaderFails, history
    <3> QED
      BY <1>1, <2>1, <3>1
  <2> QED
    BY <2>2, <2>3, <2>4, <2>5
<1>3. ASSUME NEW c \in Caller, Enqueue(c) PROVE HighInv'
  <2> DEFINE entry == [cmd |-> c, req |-> reqOf[c]]
  <2>1. /\ pc[c] = "enqueue" /\ pc' = [pc EXCEPT ![c] = "wait"]
        /\ UNCHANGED <<loop, passed>> /\ entry.cmd = c
    BY <1>3 DEF Enqueue, history
  <2>2. passed[c] = 0
    BY <1>a, <2>1 DEF HighInv
  <2>3. \A d \in Caller : pc'[d] \in {"new", "enqueue"} => passed'[d] = 0
    BY <1>a, <1>c, <2>1 DEF HighInv
  <2>4. queueHigh' = queueHigh \/ queueHigh' = Append(queueHigh, entry)
    BY <1>3 DEF Enqueue
  <2> HIDE DEF entry
  <2>5. \A i \in 1..Len(queueHigh') :
          \/ queueHigh'[i] = entry
          \/ i \in 1..Len(queueHigh) /\ queueHigh'[i] = queueHigh[i]
    BY <1>c, <2>4
  <2> QED
    BY <1>a, <2>1, <2>2, <2>3, <2>5 DEF HighInv
<1>4. ASSUME NEW c \in Caller, NEW outcome \in {"answered", "failed"},
             Return(c, outcome)
      PROVE  HighInv'
  <2>1. /\ pc' = [pc EXCEPT ![c] = outcome] /\ passed' = [passed EXCEPT ![c] = 0]
        /\ UNCHANGED <<loop, queueHigh>>
    BY <1>4 DEF Return
  <2>2. ASSUME NEW d \in Caller
        PROVE  passed'[d] \in {0, passed[d]} /\ passed'[d] =< 1
               /\ (pc'[d] \in {"new", "enqueue"} => passed'[d] = 0)
    BY <1>a, <1>c, <2>1 DEF HighInv
  <2> QED
    BY <1>a, <1>c, <2>1, <2>2 DEF HighInv
<1>5. ASSUME NEW c \in Caller, BeginAT(c) \/ BeginSMS(c) \/ NoticeStop(c)
      PROVE  HighInv'
  <2>1. UNCHANGED <<queueHigh, passed, loop>>
    BY <1>5 DEF BeginAT, BeginSMS, NoticeStop, history
  <2>2. \A d \in Caller :
           pc[d] \notin {"new", "enqueue"} => pc'[d] \notin {"new", "enqueue"}
    BY <1>b, <1>5, Types DEF BeginAT, BeginSMS, NoticeStop
  <2> QED
    BY <1>1, <2>1, <2>2
<1>6. ASSUME NEW c \in Caller, CallerStep(c) PROVE HighInv'
  BY <1>3, <1>4, <1>5, <1>6 DEF CallerStep, TakeAnswer, QueueFull, StopBeforeQueued,
     StopWhileWaiting, GiveUp
<1> QED
  BY <1>2, <1>6

\* A command of the queue of high priority lets one normal command pass at most
\* (manager.go, runLoop).
THEOREM HighIsNext == Spec => []HighWaitsForOne
<1>1. Init => HighInv
  <2>1. Init => (\A c \in Caller : passed[c] = 0) /\ loop # "select"
    BY DEF Init
  <2> QED
    BY <2>1 DEF HighInv
<1>2. HighInv => HighWaitsForOne
  BY DEF HighInv, HighWaitsForOne
<1> QED
  BY <1>1, <1>2, OwnAlways, HighStep, PTL DEF Spec
-----------------------------------------------------------------------------
\* An answer that waits in a channel is taken, not replaced by the news of a stop
\* (manager.go, executeAT's last look at respChan and errChan).
THEOREM AnswersAreKept == Spec => AnswerIsNotLost
<1> DEFINE Kept ==
             \A c \in Caller \ Interactive :
                /\ Waiting(c) /\ AnswersFor(c) # {}
                => pc'[c] # "failed"
<1>1. ASSUME TypeOK, [Next]_vars, NEW c \in Caller \ Interactive
      PROVE  Waiting(c) /\ AnswersFor(c) # {} => pc'[c] # "failed"
  <2>1. pc \in [Caller -> {"new", "enqueue", "wait", "last look", "answered",
                          "failed"}]
    BY <1>1, Types
  <2>2. SUFFICES ASSUME Waiting(c), AnswersFor(c) # {}, pc'[c] = "failed" PROVE FALSE
    OBVIOUS
  <2>3. \E d \in Caller : CallerStep(d)
    BY <1>1, <2>1, <2>2, CallersLeft DEF callers, Waiting
  <2>4. PICK d \in Caller : CallerStep(d)
    BY <2>3
  <2>5. d = c
    BY <2>1, <2>2, <2>4 DEF CallerStep, BeginAT, BeginSMS, Enqueue, NoticeStop,
       TakeAnswer, QueueFull, StopBeforeQueued, StopWhileWaiting, GiveUp, Return,
       Waiting
  <2>6. StopWhileWaiting(c)
    BY <1>1, <2>1, <2>2, <2>4, <2>5 DEF CallerStep, BeginAT, BeginSMS, Enqueue,
       NoticeStop, TakeAnswer, QueueFull, StopBeforeQueued, GiveUp, Return, Waiting
  <2>7. AnswersFor(c) = {}
    BY <2>6 DEF StopWhileWaiting, AnswersFor, EmptyBox
  <2> QED
    BY <2>2, <2>7
<1>2. OwnInv => TypeOK
  BY DEF OwnInv
<1>3. TypeOK /\ [Next]_vars => [Kept]_vars
  BY <1>1
<1> QED
  BY <1>2, <1>3, OwnAlways, PTL DEF Spec, AnswerIsNotLost
-----------------------------------------------------------------------------
\* A read error is the last line of rxChan, and nobody reads after it.
FaultIsLast ==
    \A i \in 1..Len(rx) : Fault(rx[i]) => i = Len(rx) /\ reader = "ended"

\* While the engine reads, each reply that nobody waits for is of a timeout: the
\* one to the command, or the one to the ESC.
RepliesCounted ==
    /\ IsFiniteSet(timedOut)
    /\ reader = "reading" =>
         Len(owed) + Len(rx) =<
             2 * Cardinality(timedOut) + (IF loop = "wait" THEN 1 ELSE 0)

\* Before the first timeout all replies are to the command that is worked on.
RepliesMatch ==
    timedOut = {} =>
        /\ \A i \in 1..Len(rx) :
             ~Fault(rx[i]) => i = 1 /\ loop = "wait" /\ rx[i].of = cur.cmd
        /\ reader = "reading" => \A i \in 1..Len(owed) : owed[i].of = cur.cmd
        /\ \A r \in Request \cup Interactive, ch \in Chan :
             box[r][ch] # NoAnswer => box[r][ch].from \in {box[r][ch].for, Engine}

StepInv == FaultIsLast /\ RepliesCounted /\ RepliesMatch

LEMMA SerialTypes ==
    ASSUME TypeOK
    PROVE  rx \in Seq(Line) /\ owed \in Seq(Reply) /\ Len(rx) \in Nat /\ Len(owed) \in Nat
<1>1. rx \in Seq(Line) /\ owed \in Seq(Reply)
  BY DEF TypeOK
<1> QED
  BY ONLY <1>1

\* What is read is the first line; the others move up.
LEMMA LineTaken ==
    ASSUME TypeOK, rx # <<>>, rx' = Tail(rx)
    PROVE  /\ Len(rx') = Len(rx) - 1 /\ Head(rx) = rx[1] /\ 1 \in 1..Len(rx)
           /\ \A i \in 1..Len(rx') : i + 1 \in 1..Len(rx) /\ rx'[i] = rx[i + 1]
                                     /\ i + 1 # 1 /\ (i + 1 = Len(rx) => i = Len(rx'))
<1>1. rx \in Seq(Line)
  BY SerialTypes
<1> QED
  BY ONLY <1>1, rx # <<>>, rx' = Tail(rx)

\* The steps that leave the lines and the replies alone.
LEMMA SerialLeft ==
    ASSUME TypeOK, [Next]_vars, ~IdleLine, ~Write, ~ReadError, ~FollowUp, ~Final,
           ~ReaderStep, ~Lose, \A kind \in {"fatal", "fault"} : ~ReaderFails(kind),
           ~Timeout
    PROVE  UNCHANGED serial
BY DEF Next, LoopStep, vars, CallerStep, BeginAT, BeginSMS, Enqueue, NoticeStop,
       TakeAnswer, QueueFull, StopBeforeQueued, StopWhileWaiting, GiveUp, Return,
       Exit, Poll, TakeHigh, TakeNormal, WriteError, Fail, LoopStops,
       NotifyDisconnect, CloseStop, FinishStop, Lose

LEMMA FaultStaysLast == ASSUME TypeOK, FaultIsLast, [Next]_vars PROVE FaultIsLast'
<1>1. CASE IdleLine \/ ReadError \/ FollowUp \/ Final
  <2>1. rx # <<>> /\ rx' = Tail(rx) /\ reader' = reader
    BY <1>1 DEF IdleLine, ReadError, FollowUp, Final
  <2> QED
    BY <2>1, LineTaken DEF FaultIsLast, Fault
<1>2. CASE Write \/ Lose \/ Timeout
  BY <1>2 DEF Write, Lose, Timeout, FaultIsLast, Fault
<1>3. CASE ReadLine
  <2>1. owed # <<>> /\ rx' = Append(rx, Head(owed)) /\ reader' = reader
        /\ reader = "reading"
    BY <1>3 DEF ReadLine
  <2>2. rx \in Seq(Line) /\ owed \in Seq(Reply)
    BY SerialTypes
  <2>3. Head(owed) \in Reply
    BY ONLY <2>1, <2>2, Taken
  <2>4. ~Fault(Head(owed))
    BY <2>3 DEF Fault, Reply
  <2>5. \A i \in 1..Len(rx') :
          \/ rx'[i] = Head(owed)
          \/ i \in 1..Len(rx) /\ rx'[i] = rx[i]
    BY ONLY <2>1, <2>2, Added
  <2> QED
    BY <2>1, <2>4, <2>5 DEF FaultIsLast, Fault
<1>4. CASE ReaderStops \/ \E kind \in {"fatal", "fault"} : ReaderFails(kind)
  BY <1>4 DEF ReaderStops, ReaderFails, FaultIsLast, Fault
<1>5. CASE ReportFault
  <2>1. rx' = Append(rx, [kind |-> reader]) /\ reader # "ended" /\ reader' = "ended"
    BY <1>5 DEF ReportFault
  <2>2. rx \in Seq(Line)
    BY SerialTypes
  <2>3. /\ Len(rx') = Len(rx) + 1
        /\ \A i \in 1..Len(rx') : i = Len(rx') \/ (i \in 1..Len(rx) /\ rx'[i] = rx[i])
    BY ONLY <2>1, <2>2
  <2> QED
    BY <2>1, <2>3 DEF FaultIsLast, Fault
<1>6. CASE UNCHANGED serial
  BY <1>6 DEF serial, FaultIsLast, Fault
<1> QED
  BY <1>1, <1>2, <1>3, <1>4, <1>5, <1>6, SerialLeft DEF ReaderStep

LEMMA CountKept ==
    ASSUME OwnInv, TypeOK', FaultIsLast, RepliesCounted, [Next]_vars
    PROVE  RepliesCounted'
<1>a. TypeOK /\ QueuedOnce
  BY DEF OwnInv
<1> DEFINE n == Len(owed) + Len(rx)
           k == 2 * Cardinality(timedOut)
           w == IF loop = "wait" THEN 1 ELSE 0
<1>b. /\ IsFiniteSet(timedOut) /\ Cardinality(timedOut) \in Nat /\ k \in Nat
      /\ Len(rx) \in Nat /\ Len(owed) \in Nat
      /\ Len(rx') \in Nat /\ Len(owed') \in Nat
      /\ (reader = "reading" => n =< k + w)
  BY <1>a, SerialTypes, FS_CardinalityType DEF RepliesCounted
<1>1. CASE Timeout
  <2>1. /\ timedOut' = timedOut \cup {cur.cmd} /\ loop = "wait" /\ loop' # "wait"
        /\ (owed' = owed \/ \E e : owed' = Append(owed, e))
        /\ UNCHANGED <<rx, reader>> /\ cur # NoEntry
    BY <1>a, <1>1 DEF Timeout, End, TypeOK
  <2>2. cur.cmd \notin timedOut
    BY <1>a, <2>1 DEF QueuedOnce, Pending
  <2>3. IsFiniteSet(timedOut') /\ Cardinality(timedOut') = Cardinality(timedOut) + 1
    BY <1>b, <2>1, <2>2, FS_AddElement
  <2>4. owed \in Seq(Reply)
    BY <1>a, SerialTypes
  <2>5. Len(owed') =< Len(owed) + 1
    BY ONLY <2>1, <2>4
  <2> QED
    BY <1>b, <2>1, <2>3, <2>5 DEF RepliesCounted
<1>2. CASE UNCHANGED timedOut /\ reader' # "reading"
  BY <1>b, <1>2 DEF RepliesCounted
<1>3. ASSUME UNCHANGED timedOut, reader = "reading",
             Len(owed') + Len(rx') - (IF loop' = "wait" THEN 1 ELSE 0) =< n - w
      PROVE  RepliesCounted'
  BY <1>b, <1>3 DEF RepliesCounted
<1>c. ASSUME rx # <<>>, rx' = Tail(rx) PROVE Len(rx') = Len(rx) - 1 /\ Head(rx) = rx[1]
                                              /\ 1 \in 1..Len(rx)
  BY <1>a, <1>c, LineTaken
<1>d. ASSUME owed # <<>>, owed' = Tail(owed) PROVE Len(owed') = Len(owed) - 1
  <2>1. owed \in Seq(Reply)
    BY <1>a, SerialTypes
  <2> QED
    BY ONLY <1>d, <2>1
<1>4. CASE IdleLine
  <2>1. /\ rx # <<>> /\ rx' = Tail(rx) /\ loop = "select" /\ loop' # "wait"
        /\ UNCHANGED <<owed, reader, timedOut>>
    BY <1>4 DEF IdleLine, history
  <2> QED
    BY <1>b, <1>c, <1>2, <1>3, <2>1
<1>5. CASE Write
  <2>1. /\ \E e : owed' = Append(owed, e)
        /\ loop = "write" /\ loop' = "wait" /\ UNCHANGED <<rx, reader, timedOut>>
    BY <1>5 DEF Write, history
  <2>2. owed \in Seq(Reply)
    BY <1>a, SerialTypes
  <2>3. Len(owed') = Len(owed) + 1
    BY ONLY <2>1, <2>2
  <2> QED
    BY <1>b, <1>2, <1>3, <2>1, <2>3
<1>6. CASE ReadError
  <2>1. /\ rx # <<>> /\ rx' = Tail(rx) /\ Fault(Head(rx)) /\ reader' = reader
        /\ timedOut' = timedOut
    BY <1>6 DEF ReadError, history
  <2>2. reader = "ended"
    BY <1>c, <2>1 DEF FaultIsLast
  <2> QED
    BY <1>2, <2>1, <2>2
<1>7. CASE FollowUp
  <2>1. /\ rx # <<>> /\ rx' = Tail(rx) /\ loop' = loop
        /\ (owed' = owed \/ \E e : owed' = Append(owed, e))
        /\ UNCHANGED <<reader, timedOut>>
    BY <1>7 DEF FollowUp, history
  <2>2. owed \in Seq(Reply)
    BY <1>a, SerialTypes
  <2>3. Len(owed') =< Len(owed) + 1
    BY ONLY <2>1, <2>2
  <2> QED
    BY <1>b, <1>c, <1>2, <1>3, <2>1, <2>3
<1>8. CASE Final
  <2>1. /\ rx # <<>> /\ rx' = Tail(rx) /\ loop = "wait" /\ loop' # "wait"
        /\ UNCHANGED <<owed, reader, timedOut>>
    BY <1>8 DEF Final, End, history
  <2> QED
    BY <1>b, <1>c, <1>2, <1>3, <2>1
<1>9. CASE ReadLine
  <2>1. /\ owed # <<>> /\ owed' = Tail(owed) /\ \E e : rx' = Append(rx, e)
        /\ UNCHANGED <<loop, reader, timedOut>>
    BY <1>9 DEF ReadLine, history
  <2>2. rx \in Seq(Line)
    BY <1>a, SerialTypes
  <2>3. Len(rx') = Len(rx) + 1
    BY ONLY <2>1, <2>2
  <2> QED
    BY <1>b, <1>d, <1>2, <1>3, <2>1, <2>3
<1>10. CASE Lose
  <2>1. /\ owed # <<>> /\ owed' = Tail(owed) /\ UNCHANGED <<rx, loop, reader, timedOut>>
    BY <1>10 DEF Lose, history
  <2> QED
    BY <1>b, <1>d, <1>2, <1>3, <2>1
<1>11. CASE ReaderStops \/ ReportFault \/ \E kind \in {"fatal", "fault"} : ReaderFails(kind)
  BY <1>2, <1>11 DEF ReaderStops, ReportFault, ReaderFails, history
<1>12. CASE UNCHANGED serial /\ ~Timeout /\ ~Write /\ ~Final /\ ~ReadError
  <2>1. timedOut' = timedOut /\ (loop' = "wait" <=> loop = "wait")
    BY <1>12 DEF Next, LoopStep, ReaderStep, vars, CallerStep, BeginAT, BeginSMS, Enqueue,
       NoticeStop, TakeAnswer, QueueFull, StopBeforeQueued, StopWhileWaiting, GiveUp,
       Return, Exit, Poll, TakeHigh, TakeNormal, IdleLine, WriteError, FollowUp, End,
       Fail, LoopStops, NotifyDisconnect, CloseStop, FinishStop, Lose, ReadLine,
       ReaderStops, ReportFault, ReaderFails, history
  <2>2. UNCHANGED <<owed, rx, reader>>
    BY <1>12 DEF serial
  <2> QED
    BY <1>b, <1>2, <1>3, <2>1, <2>2
<1> QED
  BY <1>a, <1>1, <1>4, <1>5, <1>6, <1>7, <1>8, <1>9, <1>10, <1>11, <1>12, SerialLeft
     DEF ReaderStep

\* Other steps than those that write, take a command or end one leave the
\* command that is worked on, and go on waiting if they did.
LEMMA WorkLeft ==
    ASSUME [Next]_vars, ~TakeHigh, ~TakeNormal, ~Write, ~WriteError, ~Timeout,
           ~ReadError, ~Final
    PROVE  cur' = cur /\ (loop = "wait" => loop' = "wait") /\ UNCHANGED timedOut
BY DEF Next, LoopStep, ReaderStep, vars, CallerStep, BeginAT, BeginSMS, Enqueue,
       NoticeStop, TakeAnswer, QueueFull, StopBeforeQueued, StopWhileWaiting, GiveUp,
       Return, Exit, Poll, IdleLine, FollowUp, Fail, LoopStops, NotifyDisconnect,
       CloseStop, FinishStop, Lose, ReadLine, ReaderStops, ReportFault, ReaderFails,
       history

LEMMA MatchKept ==
    ASSUME OwnInv, FaultIsLast, RepliesCounted, RepliesMatch, TypeOK', [Next]_vars
    PROVE  RepliesMatch'
<1> DEFINE LinesMatch == \A i \in 1..Len(rx) :
                           ~Fault(rx[i]) => i = 1 /\ loop = "wait" /\ rx[i].of = cur.cmd
           OwedMatch == reader = "reading" => \A i \in 1..Len(owed) : owed[i].of = cur.cmd
           BoxesMatch == \A r \in Request \cup Interactive, ch \in Chan :
             box[r][ch] # NoAnswer => box[r][ch].from \in {box[r][ch].for, Engine}
<1>a. TypeOK /\ QueuedOnce
  BY DEF OwnInv
<1>b. SUFFICES ASSUME timedOut' = {} PROVE LinesMatch' /\ OwedMatch' /\ BoxesMatch'
  BY DEF RepliesMatch
<1>c. ~Timeout
  BY <1>b DEF Timeout
<1>d. timedOut = {} /\ LinesMatch /\ OwedMatch /\ BoxesMatch
  <2>1. timedOut = {}
    BY <1>b DEF Next, LoopStep, ReaderStep, vars, CallerStep, BeginAT, BeginSMS, Enqueue,
       NoticeStop, TakeAnswer, QueueFull, StopBeforeQueued, StopWhileWaiting, GiveUp,
       Return, Exit, Poll, TakeHigh, TakeNormal, IdleLine, Write, WriteError, Timeout,
       ReadError, FollowUp, Final, Fail, LoopStops, NotifyDisconnect,
       CloseStop, FinishStop, Lose, ReadLine, ReaderStops, ReportFault, ReaderFails,
       history
  <2> QED
    BY <2>1 DEF RepliesMatch
\* While the engine reads and waits, at most one line or reply is under way.
<1>e. ASSUME reader = "reading"
      PROVE  /\ Len(owed) + Len(rx) =< IF loop = "wait" THEN 1 ELSE 0
             /\ Len(owed) \in Nat /\ Len(rx) \in Nat
  <2>1. Cardinality(timedOut) = 0
    BY <1>d, FS_EmptySet
  <2> QED
    BY <1>a, <1>d, <1>e, <2>1, SerialTypes DEF RepliesCounted
<1>f. loop # "wait" => \A i \in 1..Len(rx) : Fault(rx[i])
  BY <1>d
<1>g. rx \in Seq(Line) /\ owed \in Seq(Reply)
  BY <1>a, SerialTypes
<1>h. ASSUME NEW from \in {cur.cmd, Engine}, NEW way \in Chan, NEW failing,
             End(way, from, failing), loop \in {"write", "wait"}
      PROVE  BoxesMatch'
  <2>1. box' = [box EXCEPT ![cur.req][way] = [for |-> cur.cmd, from |-> from]]
    BY <1>h DEF End
  <2>2. ASSUME NEW r \in Request \cup Interactive, NEW ch \in Chan
        PROVE  \/ box'[r][ch] = box[r][ch]
               \/ box'[r][ch].for = cur.cmd /\ box'[r][ch].from = from
    <3>1. box \in [Request \cup Interactive -> [Chan -> Answer \cup {NoAnswer}]]
      BY <1>a, Types
    <3>2. box[r] \in [Chan -> Answer \cup {NoAnswer}]
      BY <3>1
    <3>3. CASE r = cur.req /\ ch = way
      BY <2>1, <3>1, <3>2, <3>3
    <3>4. CASE r # cur.req \/ ch # way
      BY <2>1, <3>1, <3>2, <3>4
    <3> QED
      BY <3>3, <3>4
  <2> QED
    BY <1>d, <1>h, <2>2
<1>1. ASSUME rx # <<>>, rx' = Tail(rx), reader' = reader PROVE LinesMatch'
  <2>1. \A i \in 1..Len(rx') : i + 1 \in 1..Len(rx) /\ rx'[i] = rx[i + 1] /\ i + 1 # 1
    BY <1>a, <1>1, LineTaken
  <2> QED
    BY <1>d, <2>1 DEF Fault
<1>2. ASSUME reader = "reading", loop # "wait" \/ rx # <<>>, owed' = owed
      PROVE  OwedMatch'
  <2>1. Len(owed) = 0
    <3>1. rx # <<>> => Len(rx) > 0
      BY ONLY <1>g
    <3> QED
      BY <1>e, <1>2, <3>1
  <2>2. 1..Len(owed) = {}
    BY ONLY <2>1
  <2> QED
    BY <1>2, <2>2
\* The steps that take a command or end one.
<1>3. CASE TakeHigh \/ TakeNormal \/ WriteError
  <2>1. /\ loop # "wait" /\ UNCHANGED <<rx, owed, reader>>
    BY <1>3 DEF TakeHigh, TakeNormal, WriteError, serial
  <2>2. LinesMatch'
    BY <1>f, <2>1 DEF Fault
  <2>3. OwedMatch'
    BY <1>2, <2>1
  <2>4. BoxesMatch'
    <3>1. CASE TakeHigh \/ TakeNormal
      BY <1>d, <3>1 DEF TakeHigh, TakeNormal
    <3>2. CASE WriteError
      BY <1>h, <3>2 DEF WriteError, Chan
    <3> QED
      BY <1>3, <3>1, <3>2
  <2> QED
    BY <2>2, <2>3, <2>4
<1>4. CASE ReadError \/ Final
  <2>1. /\ rx # <<>> /\ rx' = Tail(rx) /\ loop = "wait" /\ UNCHANGED <<owed, reader>>
    BY <1>4 DEF ReadError, Final
  <2>2. OwedMatch'
    BY <1>2, <2>1
  <2>3. BoxesMatch'
    <3>1. CASE ReadError
      BY <1>h, <3>1 DEF ReadError, Chan
    <3>2. CASE Final
      <4>1. Head(rx) = rx[1] /\ 1 \in 1..Len(rx)
        BY <1>a, <2>1, LineTaken
      <4>2. Head(rx).of = cur.cmd
        BY <1>d, <3>2, <4>1 DEF Final
      <4> QED
        BY <1>h, <3>2, <4>2 DEF Final
    <3> QED
      BY <1>4, <3>1, <3>2
  <2> QED
    BY <1>1, <2>1, <2>2, <2>3
\* A line that is sent is of the command that is worked on.
<1>i. ASSUME NEW kind, owed' = Append(owed, [of |-> cur.cmd, kind |-> kind]),
             cur' = cur, reader = "reading", loop # "wait" \/ rx # <<>>
      PROVE  OwedMatch'
  <2>1. Len(owed) = 0
    <3>1. rx # <<>> => Len(rx) > 0
      BY ONLY <1>g
    <3> QED
      BY <1>e, <1>i, <3>1
  <2> DEFINE reply == [of |-> cur.cmd, kind |-> kind]
  <2>2. reply.of = cur.cmd
    OBVIOUS
  <2> HIDE DEF reply
  <2>3. owed' = Append(owed, reply)
    BY <1>i DEF reply
  <2>4. Len(owed') = 1 /\ owed'[1] = reply
    BY ONLY <1>g, <2>1, <2>3
  <2> QED
    BY <1>i, <2>2, <2>4
<1>5. CASE Write
  <2>1. /\ loop = "write" /\ UNCHANGED <<box, cur, rx, reader>>
        /\ \E kind : owed' = Append(owed, [of |-> cur.cmd, kind |-> kind])
    BY <1>5 DEF Write
  <2> QED
    BY <1>d, <1>f, <1>i, <2>1 DEF Fault
<1>6. CASE FollowUp
  <2>1. /\ rx # <<>> /\ rx' = Tail(rx) /\ UNCHANGED <<box, cur, reader>>
        /\ \/ owed' = owed
           \/ \E kind : owed' = Append(owed, [of |-> cur.cmd, kind |-> kind])
    BY <1>6 DEF FollowUp
  <2> QED
    BY <1>d, <1>1, <1>2, <1>i, <2>1
\* The steps that leave the command that is worked on.
<1>7. CASE ~TakeHigh /\ ~TakeNormal /\ ~Write /\ ~WriteError /\ ~ReadError /\ ~Final
           /\ ~FollowUp
  <2>1. cur' = cur /\ (loop = "wait" => loop' = "wait")
    BY <1>c, <1>7, WorkLeft
  <2>2. BoxesMatch'
    <3>1. CASE \E c \in Caller : \E outcome : Return(c, outcome)
      <4>1. PICK c \in Caller : box' = [box EXCEPT ![reqOf[c]] = EmptyBox]
        BY <3>1 DEF Return
      <4>2. ASSUME NEW r \in Request \cup Interactive, NEW ch \in Chan
            PROVE  box'[r][ch] = NoAnswer \/ box'[r][ch] = box[r][ch]
        BY <1>a, <4>1, Types DEF EmptyBox
      <4> QED
        BY <1>d, <4>2
    <3>2. CASE \A c \in Caller : \A outcome : ~Return(c, outcome)
      <4>1. UNCHANGED box
        BY <1>a, <1>c, <1>7, <3>2, BoxesLeft DEF CallerStep, BeginAT, BeginSMS,
           Enqueue, NoticeStop, TakeAnswer, QueueFull, StopBeforeQueued,
           StopWhileWaiting, GiveUp
      <4> QED
        BY <1>d, <4>1
    <3> QED
      BY <3>1, <3>2
  <2>3. CASE IdleLine
    <3>1. rx # <<>> /\ rx' = Tail(rx) /\ UNCHANGED <<owed, reader>>
      BY <2>3 DEF IdleLine
    <3> QED
      BY <1>1, <1>2, <2>2, <3>1
  <2>4. CASE Lose
    <3>1. owed # <<>> /\ owed' = Tail(owed) /\ UNCHANGED <<rx, reader>>
      BY <2>4 DEF Lose
    <3>2. \A i \in 1..Len(owed') : i + 1 \in 1..Len(owed) /\ owed'[i] = owed[i + 1]
      BY ONLY <1>g, <3>1
    <3> QED
      BY <1>d, <2>1, <2>2, <3>1, <3>2 DEF Fault
  <2>5. CASE ReadLine
    <3>1. /\ owed # <<>> /\ owed' = Tail(owed) /\ rx' = Append(rx, Head(owed))
          /\ reader = "reading"
      BY <2>5 DEF ReadLine
    <3>2. Len(owed) \in Nat \ {0} /\ Head(owed) = owed[1]
          /\ \A i \in 1..Len(owed') : i + 1 \in 1..Len(owed) /\ owed'[i] = owed[i + 1]
      BY ONLY <1>g, <3>1
    <3>3. loop = "wait" /\ Len(rx) = 0
      BY <1>e, <3>1, <3>2
    <3>4. Len(rx') = 1 /\ rx'[1] = owed[1]
      BY ONLY <1>g, <3>1, <3>2, <3>3
    <3>5. 1 \in 1..Len(owed)
      BY ONLY <3>2
    <3>6. owed[1].of = cur.cmd
      BY <1>d, <3>1, <3>5
    <3>7. LinesMatch'
      BY <2>1, <3>3, <3>4, <3>6
    <3>8. OwedMatch'
      BY <1>d, <2>1, <3>1, <3>2
    <3> QED
      BY <2>2, <3>7, <3>8
  <2>6. CASE ReaderStops \/ \E kind \in {"fatal", "fault"} : ReaderFails(kind)
    BY <1>d, <2>1, <2>2, <2>6 DEF ReaderStops, ReaderFails, Fault
  <2>7. CASE ReportFault
    <3>1. /\ rx' = Append(rx, [kind |-> reader]) /\ reader \in {"fatal", "fault"}
          /\ reader' = "ended" /\ owed' = owed
      BY <2>7 DEF ReportFault
    <3> DEFINE line == [kind |-> reader]
    <3>2. Fault(line)
      BY <3>1 DEF Fault
    <3> HIDE DEF line
    <3>3. rx' = Append(rx, line)
      BY <3>1 DEF line
    <3>4. \A i \in 1..Len(rx') :
            rx'[i] = line \/ (i \in 1..Len(rx) /\ rx'[i] = rx[i])
      BY ONLY <1>g, <3>3
    <3> QED
      BY <1>d, <2>1, <2>2, <3>1, <3>2, <3>4 DEF Fault
  <2>8. CASE UNCHANGED serial
    BY <1>d, <2>1, <2>2, <2>8 DEF serial, Fault
  <2> QED
    BY <1>a, <1>c, <1>7, <2>3, <2>4, <2>5, <2>6, <2>7, <2>8, SerialLeft DEF ReaderStep
<1> QED
  BY <1>3, <1>4, <1>5, <1>6, <1>7

LEMMA StepStep == OwnInv /\ StepInv /\ OwnInv' /\ [Next]_vars => StepInv'
<1>1. OwnInv => TypeOK
  BY DEF OwnInv
<1>2. OwnInv' => TypeOK'
  BY DEF OwnInv
<1> QED
  BY <1>1, <1>2, FaultStaysLast, CountKept, MatchKept DEF StepInv

\* Before a command timed out, every answer is of the module's reply to that very
\* command or of the engine; and a reply nobody waits for is of a timeout, two of
\* each at most (the late one to the command, and the one to the ESC written
\* then), so that engine and module are in step again once these are read
\* (manager.go, handleCommand and readLoop over rxChan).
THEOREM InStep == Spec => []RepliesStayInStep
<1>1. Init => StepInv
  <2>1. Init => timedOut = {} /\ rx = <<>> /\ owed = <<>> /\ loop # "wait"
    BY DEF Init
  <2>2. Init => \A r \in Request \cup Interactive, ch \in Chan : box[r][ch] = NoAnswer
    <3>1. Init => box = [r \in Request \cup Interactive |-> EmptyBox]
      BY DEF Init
    <3> QED
      BY <3>1 DEF EmptyBox
  <2>3. rx = <<>> /\ owed = <<>> => Len(rx) = 0 /\ Len(owed) = 0
                                   /\ 1..Len(rx) = {} /\ 1..Len(owed) = {}
    OBVIOUS
  <2>4. timedOut = {} => IsFiniteSet(timedOut) /\ Cardinality(timedOut) = 0
    BY FS_EmptySet
  <2> QED
    BY <2>1, <2>2, <2>3, <2>4 DEF StepInv, FaultIsLast, RepliesCounted, RepliesMatch
<1>2. OwnInv /\ StepInv => RepliesStayInStep
  <2> SUFFICES ASSUME OwnInv, StepInv PROVE RepliesStayInStep
    OBVIOUS
  <2>1. ASSUME timedOut = {}, NEW c \in Caller, Waiting(c), NEW a \in AnswersFor(c)
        PROVE  a.from \in {a.for, Engine}
    <3>1. PICK ch \in Chan : a = box[reqOf[c]][ch] /\ a # NoAnswer
      BY <2>1 DEF AnswersFor
    <3>2. TypeOK /\ OwnRequests /\ Holding(c)
      BY <2>1 DEF OwnInv, Waiting, Holding
    <3>3. reqOf[c] \in Request \cup Interactive
      BY <3>2 DEF OwnRequests
    <3> QED
      BY <2>1, <3>1, <3>3 DEF StepInv, RepliesMatch
  <2> QED
    BY <2>1 DEF RepliesStayInStep, StepInv, RepliesCounted
<1> QED
  BY <1>1, <1>2, OwnAlways, StepStep, PTL DEF Spec

-----------------------------------------------------------------------------
(* The voice route *)

\* Whoever holds moduleVoiceOpMu found the route not ready and leaves it so until
\* the end; a stop has also opened the retry window, and nobody closes it before
\* the stop ends, as the others who publish an attempt wait for the mutex.
OwnerFoundItDown ==
    /\ op # "none" => ~ready
    /\ op \in {"timer", "stop"} => ~recent

\* The timer's callback holds callMu from its look at activeCall to the end of its
\* stop, so that the poller learns of no call meanwhile.
StopsBetweenCalls == tear # "no" => known = "none"

\* The types, one by one, and who holds moduleVoiceOpMu.
RouteTypes ==
    /\ call \in V!State /\ known \in V!State /\ seen \in V!State
    /\ poll \in V!Place
    /\ timer \in {"none", "armed"}
    /\ callback \in {"none", "current", "stale"}
    /\ tear \in {"no", "wait", "stopping"}
    /\ op \in {"none", "timer", "warm", "poller", "start", "stop"}
    /\ warm \in {"no", "waiting", "starting"}
    /\ handler \in {"no", "answer", "dial"}
RouteFlags ==
    /\ ready \in BOOLEAN /\ blocked \in BOOLEAN /\ recent \in BOOLEAN
    /\ failed \in BOOLEAN /\ up \in {"down", "up", "lost"}
AudioFlags == swift \in BOOLEAN /\ manual \in BOOLEAN /\ playing \in BOOLEAN
OwnerIsThere ==
    /\ tear = "stopping" <=> op = "timer"
    /\ poll \in {"starting", "startingAudio"} <=> op = "poller"
    /\ warm = "starting" <=> op = "warm"

RouteInv ==
    /\ RouteTypes /\ RouteFlags /\ AudioFlags /\ OwnerIsThere
    /\ V!StatusIsHonest /\ OwnerFoundItDown /\ StopsBetweenCalls

LEMMA RouteTyped == ASSUME RouteInv  PROVE V!TypeOK
  BY DEF RouteInv, RouteTypes, RouteFlags, AudioFlags, OwnerIsThere, V!TypeOK

LEMMA RouteInit == V!Init => RouteInv
  BY DEF V!Init, RouteInv, RouteTypes, RouteFlags, AudioFlags, OwnerIsThere,
         V!StatusIsHonest, OwnerFoundItDown, StopsBetweenCalls, V!State, V!Place

USE DEF V!State, V!Place, V!CallMuFree, V!poller, V!stopper, V!status, V!audio,
        V!Setup

\* The poller: CLCC, the calls it learns of and forgets, the route it ensures.
LEMMA RoutePolls ==
  ASSUME RouteInv, V!Poller  PROVE RouteInv'
  <1> USE DEF RouteInv, RouteTypes, RouteFlags, AudioFlags, OwnerIsThere,
             OwnerFoundItDown, StopsBetweenCalls, V!StatusIsHonest
  <1>1. CASE V!PollReads
    BY <1>1 DEF V!PollReads
  <1>2. CASE V!PollFails
    BY <1>2 DEF V!PollFails
  <1>3. CASE V!ApplyNone
    BY <1>3 DEF V!ApplyNone
  <1>4. CASE V!ScheduleStop
    BY <1>4 DEF V!ScheduleStop
  <1>5. CASE V!ApplyCall
    BY <1>5 DEF V!ApplyCall, V!CancelStop
  <1>6. CASE V!PollPrewarms
    BY <1>6 DEF V!PollPrewarms, V!Prewarm, V!CancelStop
  <1>7. CASE V!PollRoutes
    BY <1>7 DEF V!PollRoutes
  <1>8. CASE V!PollEnsures
    <2>1. RouteTypes' /\ OwnerIsThere'
      BY <1>8 DEF V!PollEnsures
    <2>2. RouteFlags' /\ AudioFlags'
      BY <1>8 DEF V!PollEnsures, V!AudioAfter, V!Answer
    <2>3. V!StatusIsHonest' /\ OwnerFoundItDown'
      BY <1>8 DEF V!PollEnsures, V!AudioAfter, V!Answer
    <2>4. StopsBetweenCalls'
      BY <1>8 DEF V!PollEnsures, V!AudioAfter, V!Answer
    <2> QED  BY <2>1, <2>2, <2>3, <2>4
  <1>9. CASE V!PollStarted
    <2>0. op = "poller" /\ op' = "none"
      BY <1>9 DEF V!PollStarted, V!StartSucceeds, V!StartFails, V!AudioAfter
    <2>1. RouteTypes' /\ OwnerIsThere'
      BY <1>9, <2>0 DEF V!PollStarted
    <2>2. RouteFlags' /\ AudioFlags'
      BY <1>9 DEF V!PollStarted, V!StartSucceeds, V!StartFails, V!AudioAfter
    <2>3. V!StatusIsHonest' /\ OwnerFoundItDown'
      BY <1>9 DEF V!PollStarted, V!StartSucceeds, V!StartFails, V!AudioAfter
    <2>4. StopsBetweenCalls'
      BY <1>9 DEF V!PollStarted, V!StartSucceeds, V!StartFails, V!AudioAfter
    <2> QED  BY <2>1, <2>2, <2>3, <2>4
  <1> QED
    BY <1>1, <1>2, <1>3, <1>4, <1>5, <1>6, <1>7, <1>8, <1>9 DEF V!Poller

\* The teardown timer, its callback, and the stop it makes.
LEMMA RouteStops ==
  ASSUME RouteInv, V!Stopper  PROVE RouteInv'
  <1> USE DEF RouteInv, RouteTypes, RouteFlags, AudioFlags, OwnerIsThere,
             OwnerFoundItDown, StopsBetweenCalls, V!StatusIsHonest
  <1>1. CASE V!TimerFires
    BY <1>1 DEF V!TimerFires
  <1>2. CASE V!Callback
    BY <1>2 DEF V!Callback
  <1>3. CASE V!TeardownBegins
    <2>1. RouteTypes' /\ OwnerIsThere'
      BY <1>3 DEF V!TeardownBegins, V!StopBegins
    <2>2. RouteFlags' /\ AudioFlags'
      BY <1>3 DEF V!TeardownBegins, V!StopBegins
    <2>3. V!StatusIsHonest' /\ OwnerFoundItDown'
      BY <1>3 DEF V!TeardownBegins, V!StopBegins
    <2>4. StopsBetweenCalls'
      BY <1>3 DEF V!TeardownBegins, V!StopBegins
    <2> QED  BY <2>1, <2>2, <2>3, <2>4
  <1>4. CASE V!TeardownEnds
    <2>1. RouteTypes' /\ OwnerIsThere'
      BY <1>4 DEF V!TeardownEnds, V!StopEnds
    <2>2. RouteFlags' /\ AudioFlags'
      BY <1>4 DEF V!TeardownEnds, V!StopEnds
    <2>3. V!StatusIsHonest' /\ OwnerFoundItDown'
      BY <1>4 DEF V!TeardownEnds, V!StopEnds
    <2>4. StopsBetweenCalls'
      BY <1>4 DEF V!TeardownEnds, V!StopEnds
    <2> QED  BY <2>1, <2>2, <2>3, <2>4
  <1> QED  BY <1>1, <1>2, <1>3, <1>4 DEF V!Stopper

\* The HTTP handlers of calls, of the Go audio and of the route.
LEMMA RouteHandlers ==
  ASSUME RouteInv, V!Handlers  PROVE RouteInv'
  <1> USE DEF RouteInv, RouteTypes, RouteFlags, AudioFlags, OwnerIsThere,
             OwnerFoundItDown, StopsBetweenCalls, V!StatusIsHonest
  <1>1. CASE V!AnswerBegins
    BY <1>1 DEF V!AnswerBegins, V!Prewarm, V!CancelStop
  <1>2. CASE V!AnswerEnds
    BY <1>2 DEF V!AnswerEnds
  <1>3. CASE V!DialBegins
    BY <1>3 DEF V!DialBegins
  <1>4. CASE V!DialEnds
    BY <1>4 DEF V!DialEnds, V!Prewarm, V!CancelStop
  <1>5. CASE V!AudioStart
    <2>1. RouteTypes' /\ OwnerIsThere'
      BY <1>5 DEF V!AudioStart
    <2>2. RouteFlags' /\ AudioFlags'
      BY <1>5 DEF V!AudioStart
    <2>3. V!StatusIsHonest' /\ OwnerFoundItDown'
      BY <1>5 DEF V!AudioStart
    <2>4. StopsBetweenCalls'
      BY <1>5 DEF V!AudioStart
    <2> QED  BY <2>1, <2>2, <2>3, <2>4
  <1>6. CASE V!AudioStop
    <2>1. RouteTypes' /\ OwnerIsThere'
      BY <1>6 DEF V!AudioStop
    <2>2. RouteFlags' /\ AudioFlags'
      BY <1>6 DEF V!AudioStop
    <2>3. V!StatusIsHonest' /\ OwnerFoundItDown'
      BY <1>6 DEF V!AudioStop
    <2>4. StopsBetweenCalls'
      BY <1>6 DEF V!AudioStop
    <2> QED  BY <2>1, <2>2, <2>3, <2>4
  <1>7. CASE V!StartRequest
    BY <1>7 DEF V!StartRequest, V!Answer
  <1>8. CASE V!StopRequest
    <2>1. RouteTypes' /\ OwnerIsThere'
      BY <1>8 DEF V!StopRequest, V!StopBegins
    <2>2. RouteFlags' /\ AudioFlags'
      BY <1>8 DEF V!StopRequest, V!StopBegins
    <2>3. V!StatusIsHonest' /\ OwnerFoundItDown'
      BY <1>8 DEF V!StopRequest, V!StopBegins
    <2>4. StopsBetweenCalls'
      BY <1>8 DEF V!StopRequest, V!StopBegins
    <2> QED  BY <2>1, <2>2, <2>3, <2>4
  <1>9. CASE V!RequestEnds
    <2>0. op \in {"start", "stop"} /\ op' = "none"
      BY <1>9 DEF V!RequestEnds, V!StartSucceeds, V!StartFails, V!StopEnds
    <2>1. RouteTypes' /\ OwnerIsThere'
      BY <1>9, <2>0 DEF V!RequestEnds
    <2>2. RouteFlags' /\ AudioFlags'
      BY <1>9 DEF V!RequestEnds, V!StartSucceeds, V!StartFails, V!StopEnds
    <2>3. V!StatusIsHonest' /\ OwnerFoundItDown'
      <3>1. CASE V!StartSucceeds("start")
        BY <2>0, <3>1 DEF V!StartSucceeds
      <3>2. CASE V!StartFails("start")
        BY <2>0, <3>2 DEF V!StartFails
      <3>3. CASE V!StopEnds("stop")
        BY <2>0, <3>3 DEF V!StopEnds
      <3> QED  BY <1>9, <3>1, <3>2, <3>3 DEF V!RequestEnds
    <2>4. StopsBetweenCalls'
      BY <1>9 DEF V!RequestEnds, V!StartSucceeds, V!StartFails, V!StopEnds
    <2> QED  BY <2>1, <2>2, <2>3, <2>4
  <1>10. ASSUME NEW enabled \in BOOLEAN, V!AudioHostRegister(enabled)
         PROVE  RouteInv'
    BY <1>10 DEF V!AudioHostRegister
  <1> QED
    BY <1>1, <1>2, <1>3, <1>4, <1>5, <1>6, <1>7, <1>8, <1>9, <1>10 DEF V!Handlers

LEMMA RouteNext ==
  ASSUME RouteInv, V!Next  PROVE RouteInv'
  <1> USE DEF RouteInv, RouteTypes, RouteFlags, AudioFlags, OwnerIsThere,
             OwnerFoundItDown, StopsBetweenCalls, V!StatusIsHonest
  <1>1. CASE V!WarmBegins
    BY <1>1 DEF V!WarmBegins, V!Answer
  <1>2. CASE V!WarmEnds
    <2>0. op = "warm" /\ op' = "none"
      BY <1>2 DEF V!WarmEnds, V!StartSucceeds, V!StartFails
    <2>1. RouteTypes' /\ OwnerIsThere'
      BY <1>2, <2>0 DEF V!WarmEnds
    <2>2. RouteFlags' /\ AudioFlags'
      BY <1>2 DEF V!WarmEnds, V!StartSucceeds, V!StartFails
    <2>3. V!StatusIsHonest' /\ OwnerFoundItDown'
      BY <1>2 DEF V!WarmEnds, V!StartSucceeds, V!StartFails
    <2>4. StopsBetweenCalls'
      BY <1>2 DEF V!WarmEnds, V!StartSucceeds, V!StartFails
    <2> QED  BY <2>1, <2>2, <2>3, <2>4
  <1>3. CASE V!CallEnds
    BY <1>3 DEF V!CallEnds
  <1>4. CASE V!CallChanges \/ V!ModuleRestarts
    BY <1>4 DEF V!CallChanges, V!ModuleRestarts
  <1>5. CASE V!RetryWindowEnds
    <2>1. RouteTypes' /\ OwnerIsThere'
      BY <1>5 DEF V!RetryWindowEnds
    <2>2. RouteFlags' /\ AudioFlags'
      BY <1>5 DEF V!RetryWindowEnds
    <2>3. V!StatusIsHonest' /\ OwnerFoundItDown'
      BY <1>5 DEF V!RetryWindowEnds
    <2>4. StopsBetweenCalls'
      BY <1>5 DEF V!RetryWindowEnds
    <2> QED  BY <2>1, <2>2, <2>3, <2>4
  <1> QED
    BY <1>1, <1>2, <1>3, <1>4, <1>5, RoutePolls, RouteStops, RouteHandlers DEF V!Next

LEMMA RouteUnchanged ==
  ASSUME RouteInv, UNCHANGED voice  PROVE RouteInv'
  BY DEF voice, RouteInv, RouteTypes, RouteFlags, AudioFlags, OwnerIsThere,
         OwnerFoundItDown, StopsBetweenCalls, V!StatusIsHonest

\* The host takes the route from a call only for the request that asks it to: every
\* other way to take it back goes through the timer's callback, with callMu held.
LEMMA RouteIsKept ==
  ASSUME RouteInv, V!Next
  PROVE  (ready /\ ~ready') \/ (up # "down" /\ up' = "down") =>
           known = "none" \/ op = "stop" \/ op' = "stop"
  <1> USE DEF RouteInv, RouteTypes, RouteFlags, OwnerIsThere, OwnerFoundItDown,
              StopsBetweenCalls
  <1>1. CASE UNCHANGED <<ready, up>>
    BY <1>1
  <1>2. CASE V!TeardownBegins
    BY <1>2 DEF V!TeardownBegins
  <1>3. CASE V!TeardownEnds
    <2>1. op = "timer"
      BY <1>3 DEF V!TeardownEnds, V!StopEnds
    <2> QED  BY <2>1
  <1>4. CASE V!StopRequest
    <2>1. CASE ready
      BY <1>4, <2>1 DEF V!StopRequest, V!StopBegins
    <2>2. CASE ~ready
      BY <1>4, <2>2 DEF V!StopRequest, V!StopBegins
    <2> QED  BY <2>1, <2>2
  <1>5. CASE V!RequestEnds
    <2>1. CASE V!StartSucceeds("start")
      BY <2>1 DEF V!StartSucceeds
    <2>2. CASE V!StartFails("start")
      BY <2>2 DEF V!StartFails
    <2>3. CASE V!StopEnds("stop")
      BY <2>3 DEF V!StopEnds
    <2> QED  BY <1>5, <2>1, <2>2, <2>3 DEF V!RequestEnds
  <1>6. CASE V!WarmEnds
    <2>1. CASE V!StartSucceeds("warm")
      BY <2>1 DEF V!StartSucceeds
    <2>2. CASE V!StartFails("warm")
      BY <2>2 DEF V!StartFails
    <2> QED  BY <1>6, <2>1, <2>2 DEF V!WarmEnds
  <1>7. CASE V!PollStarted
    <2>1. CASE V!StartSucceeds("poller")
      BY <2>1 DEF V!StartSucceeds
    <2>2. CASE V!StartFails("poller")
      BY <2>2 DEF V!StartFails
    <2> QED  BY <1>7, <2>1, <2>2 DEF V!PollStarted
  <1>8. CASE V!Poller /\ ~V!PollStarted
    BY <1>1, <1>8
       DEF V!Poller, V!PollReads, V!PollFails, V!ApplyNone, V!ScheduleStop,
           V!ApplyCall, V!PollPrewarms, V!PollRoutes, V!PollEnsures
  <1>9. CASE V!TimerFires \/ V!Callback
    BY <1>1, <1>9 DEF V!TimerFires, V!Callback
  <1>10. CASE V!Handlers /\ ~V!StopRequest /\ ~V!RequestEnds
    BY <1>1, <1>10
       DEF V!Handlers, V!AnswerBegins, V!AnswerEnds, V!DialBegins, V!DialEnds,
           V!AudioStart, V!AudioStop, V!StartRequest, V!AudioHostRegister
  <1>11. CASE V!WarmBegins \/ V!CallEnds \/ V!CallChanges \/ V!RetryWindowEnds
    BY <1>1, <1>11 DEF V!WarmBegins, V!CallEnds, V!CallChanges, V!RetryWindowEnds
  <1>12. CASE V!ModuleRestarts
    BY <1>12 DEF V!ModuleRestarts
  <1> QED
    BY <1>2, <1>3, <1>4, <1>5, <1>6, <1>7, <1>8, <1>9, <1>10, <1>11, <1>12
       DEF V!Next, V!Stopper

LEMMA RouteHolds == HostSpec => []RouteInv
  <1>1. HostInit => RouteInv
    BY RouteInit DEF HostInit
  <1>2. RouteInv /\ [HostNext]_<<part, vars, voice>> => RouteInv'
    BY RouteNext, RouteUnchanged DEF HostNext
  <1> QED  BY <1>1, <1>2, PTL DEF HostSpec

\* A route called ready is up on the module, unless the module restarted under it,
\* which the host does not notice: the host itself has never taken it down.  And an
\* attempt that is not repeated within the retry window is one that failed, whoever
\* starts and stops the route meanwhile: VoiceRoute.
THEOREM StatusHonest == HostSpec => []StatusIsHonest
  <1>1. RouteInv => StatusIsHonest
    BY RouteTyped DEF RouteInv, StatusIsHonest
  <1> QED  BY <1>1, RouteHolds, PTL

\* The host never takes the route from a call the poller knows, except by the request to
\* stop it, although the timer of the call before has fired or fires meanwhile:
\* VoiceRoute.
THEOREM RouteKept == HostSpec => CallKeepsRoute
  <1>1. RouteInv /\ [HostNext]_<<part, vars, voice>> =>
          [(ready /\ ~ready') \/ (up # "down" /\ up' = "down") =>
             known = "none" \/ op = "stop" \/ op' = "stop"]_(V!vars)
    <2>1. CASE HostNext /\ V!Next
      BY <2>1, RouteIsKept
    <2>2. ASSUME UNCHANGED voice  PROVE UNCHANGED V!vars
      BY <2>2 DEF voice, V!vars
    <2> QED  BY <2>1, <2>2 DEF HostNext
  <1> QED  BY <1>1, RouteHolds, PTL DEF HostSpec, CallKeepsRoute, V!CallKeepsRoute
=============================================================================
