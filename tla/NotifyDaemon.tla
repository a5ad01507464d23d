---------------------------- MODULE NotifyDaemon ----------------------------
(* The notification daemon of the module: cmd/djonehub-notify/main.go with   *)
(* the State of internal/modulepush.  One goroutine takes snapshots of the   *)
(* ringing calls and of the stored messages, results of pushes and ticks; it *)
(* keeps a queue of deliveries, persists it before it dispatches, and sends  *)
(* at most one push per transport at a time.  The control server changes the *)
(* settings beside it; the process may end at any moment and start again.    *)
EXTENDS Integers, Sequences, FiniteSets, SequencesExt

CONSTANTS
    Sms,                \* fingerprints of received messages
    Call,               \* modem call IDs
    Transport, Storage,
    Contents,           \* the sets of messages a storage may hold
    Settings, Installed,    \* settings that are ever saved; those it starts with
    Cap,                \* the bound of the queue (256)
    MaxAttempts,        \* sends of one delivery (10)
    MaxRings, MaxSettings, MaxStops,    \* bounds of a behaviour
    NoSend, Unscanned

ASSUME CapAssumption ==
    /\ IsFiniteSet(Call) /\ IsFiniteSet(Transport)
    /\ Cap \in Nat /\ Cap > Cardinality(Call) * Cardinality(Transport)
ASSUME BoundsAssumption == MaxAttempts \in Nat \ {0} /\ MaxRings \in Nat
ASSUME SubjectsAssumption == Sms \cap Call = {}

Kind == {"call", "sms"}
Subject == Sms \cup Call
KindOf(x) == IF x \in Call THEN "call" ELSE "sms"
\* "ring" is 0 for a message; it keeps two rings of one call ID apart, as the
\* Sequence does in Delivery.ID.  "detail" says that a number or a text is in.
Delivery == [of : Subject, ring : 0..MaxRings, to : Transport,
             attempts : 0..MaxAttempts, detail : BOOLEAN]
Config == [on : SUBSET Transport, show : SUBSET Kind]
Send == [of : Subject, ring : 0..MaxRings, to : Transport, live : BOOLEAN]
ASSUME SendAssumption == NoSend \notin Send
ASSUME ContentsAssumption ==
    /\ Contents \subseteq SUBSET Sms /\ \A now \in Contents : IsFiniteSet(now)
    /\ \A now \in SUBSET Sms : now # Unscanned
ASSUME SettingsAssumption == Settings \cup Installed \subseteq Config

VARIABLES
    pc,         \* where serveObserved is
    seen, queue, rings, calls,  \* the State in memory
    dirty,      \* "changed"
    opts,       \* the settings that the loop read last
    disk,       \* the state file
    config,     \* the settings of the Sender
    saved,      \* the file of the settings
    inflight,   \* inflight[t]: the send of transport t
    settings, stops,    \* counters of the bounds
    excused,    \* history: <<x, t>> that no delivery is owed for any more
    outlived    \* history: what the file still has of what had expired when
                \* the daemon started

state == <<seen, queue, rings, calls>>
control == <<config, saved, settings>>
history == <<excused, outlived>>
vars == <<pc, state, dirty, opts, disk, control, inflight, stops, history>>

NothingSeen == [s \in Storage |-> Unscanned]
Known(scan) == UNION {scan[s] : s \in {r \in Storage : scan[r] # Unscanned}}
Keys(q) == {<<d.of, d.to>> : d \in ToSet(q)}
SmsOf(q) == {d \in ToSet(q) : d.of \in Sms}
SameDelivery(d, e) == d.of = e.of /\ d.ring = e.ring /\ d.to = e.to
Queued(q, d) == \E e \in ToSet(q) : SameDelivery(d, e)
\* What of q is in keep, in its order.
Only(q, keep) ==
    LET kept[n \in 0..Len(q)] ==
            IF n = 0 THEN <<>>
            ELSE IF q[n] \in keep THEN Append(kept[n - 1], q[n]) ELSE kept[n - 1]
    IN  kept[Len(q)]

Init ==
    /\ pc = "select"
    /\ seen = NothingSeen /\ queue = <<>> /\ rings = 0 /\ calls = {}
    /\ dirty = FALSE
    /\ disk = [seen |-> NothingSeen, queue |-> <<>>, rings |-> 0]
    /\ config \in Installed /\ saved = config /\ opts = config
    /\ inflight = [t \in Transport |-> NoSend]
    /\ settings = 0 /\ stops = 0 /\ excused = {} /\ outlived = {}

-----------------------------------------------------------------------------
(* State.Apply *)

\* Mutant: a full queue loses its oldest delivery, a call too.
TrimOldest(q) == IF Len(q) < Cap THEN q ELSE Tail(q)

\* A full queue loses its oldest message, or its head when it holds only calls.
Trim(q) ==
    IF Len(q) < Cap THEN q
    ELSE RemoveAt(q, LET sms == {i \in 1..Len(q) : q[i].of \in Sms}
                     IN  IF sms = {} THEN 1
                         ELSE CHOOSE i \in sms : \A j \in sms : i =< j)

Enqueue(q, d) == IF d.of \in Sms /\ Queued(q, d) THEN q ELSE Append(Trim(q), d)

\* A delivery of x for every transport that is on, and those of all xs, queued one
\* after another; calls are numbered.
Deliveries(x, ring) ==
    LET to == SetToSeq(config.on)
    IN  [i \in 1..Cardinality(config.on) |->
           [of |-> x, ring |-> ring, to |-> to[i], attempts |-> 0,
            detail |-> KindOf(x) \in config.show]]
EnqueueAll(q, ds) ==
    LET after[n \in 0..Len(ds)] ==
            IF n = 0 THEN q ELSE Enqueue(after[n - 1], ds[n])
    IN  after[Len(ds)]
Announce(q, xs) ==
    LET Ring(n) == IF xs[n] \in Call THEN rings + n ELSE 0
        after[n \in 0..Len(xs)] ==
            IF n = 0 THEN q ELSE EnqueueAll(after[n - 1], Deliveries(xs[n], Ring(n)))
    IN  after[Len(xs)]

\* Deliveries that a full queue lost: only a message may go that way.
Evicted(before, after) ==
    {k \in Keys(before) \ Keys(after) : k[1] \in Sms}

-----------------------------------------------------------------------------
(* One pass of the loop: after the event, Reconcile and Expire *)

\* What is left of queue q: the transports that are on, the details that may
\* be shown, and nothing that has expired.
Reconciled(q, expired) ==
    LET kept == Only(q, {d \in ToSet(q) : d.to \in config.on} \ expired)
    IN  [i \in 1..Len(kept) |->
           [kept[i] EXCEPT !.detail = @ /\ KindOf(kept[i].of) \in config.show]]

\* q is the queue after the event; "forgiven" are the keys the event settled,
\* "owed" those it enqueued.  What has expired was queued before this pass.
Pass(q, changed, forgiven, owed) ==
    /\ \E expired \in SUBSET {d \in ToSet(q) : Queued(queue, d)} :
         /\ queue' = Reconciled(q, expired)
         /\ dirty' = (changed \/ queue' # q)
         /\ excused' =
              {k \in (excused \ owed) \cup forgiven \cup (Keys(q) \ Keys(queue')) :
                 k[1] \in Known(seen') \cup Known(disk.seen) \cup calls'}
    /\ opts' = config
    /\ pc' = "persist"
    /\ UNCHANGED <<disk, control, stops, outlived>>

\* A complete snapshot of the ringing calls: one event for a continuous ring,
\* and what waits for a call that stopped is removed.
TakeCalls(now) ==
    LET added == now \ calls
        announced == Announce(queue, SetToSeq(added))
        left == Only(announced, {d \in ToSet(announced) : d.of \notin calls \ now})
    IN  /\ pc = "select"
        /\ rings + Cardinality(added) =< MaxRings
        /\ calls' = now
        /\ rings' = rings + Cardinality(added)
        /\ UNCHANGED <<seen, inflight>>
        /\ Pass(left, now # calls,
                Evicted(queue, announced)
                  \cup (added \X (Transport \ config.on)),
                added \X config.on)

\* Mutant: a message that moved to another storage is announced again.
TakeSmsAnew(s, now) ==
    LET new == IF seen[s] = Unscanned THEN {} ELSE now \ seen[s]
        silent == IF seen[s] = Unscanned THEN now \ Known(seen) ELSE {}
        announced == Announce(queue, SetToSeq(new))
    IN  /\ pc = "select"
        /\ seen' = [seen EXCEPT ![s] = now]
        /\ UNCHANGED <<calls, rings, inflight>>
        /\ Pass(announced, seen[s] # now,
                Evicted(queue, announced)
                  \cup ((new \X Transport) \ Keys(announced))
                  \cup (silent \X Transport),
                new \X config.on)

\* A complete snapshot of a storage: the first one is silent, later ones
\* announce what is neither in the last one nor in the other storage.
TakeSms(s, now) ==
    LET new == IF seen[s] = Unscanned THEN {} ELSE now \ Known(seen)
        silent == IF seen[s] = Unscanned THEN now \ Known(seen) ELSE {}
        announced == Announce(queue, SetToSeq(new))
    IN  /\ pc = "select"
        /\ seen' = [seen EXCEPT ![s] = now]
        /\ UNCHANGED <<calls, rings, inflight>>
        /\ Pass(announced, seen[s] # now,
                Evicted(queue, announced)
                  \cup ((new \X Transport) \ Keys(announced))
                  \cup (silent \X Transport),
                new \X config.on)

\* State.Finish: a push that was accepted or refused for good is done with; a
\* failed one waits, unless it was the last attempt.
Finish(q, send, outcome) ==
    LET i == SelectInSeq(q, LAMBDA d : SameDelivery(d, send))
        again == [q EXCEPT ![i].attempts = @ + 1]
    IN  IF i = 0 THEN q
        ELSE IF outcome = "final" \/ again[i].attempts = MaxAttempts
             THEN RemoveAt(q, i)
        ELSE again

\* Sender.Send returns: accepted, refused, or a failure to try again; a send
\* that was cancelled may have been accepted before.
Outcome == {"final", "retry"}

\* A send ends at any time; that it did is not seen before this step.
TakeResult(t, outcome) ==
    LET left == Finish(queue, inflight[t], outcome) IN
    /\ pc = "select"
    /\ inflight[t] # NoSend
    /\ inflight' = [inflight EXCEPT ![t] = NoSend]
    /\ UNCHANGED <<seen, calls, rings>>
    /\ Pass(left, left # queue, Keys(queue) \ Keys(left), {})

Tick ==
    /\ pc = "select"
    /\ UNCHANGED <<seen, calls, rings, inflight>>
    /\ Pass(queue, FALSE, {}, {})

-----------------------------------------------------------------------------
(* The rest of a pass: the state file, then the sends *)

InMemory == [seen |-> seen, queue |-> queue, rings |-> rings]

Persist ==
    /\ pc = "persist"
    /\ disk' = IF dirty THEN InMemory ELSE disk
    /\ outlived' = IF dirty THEN {} ELSE outlived
    /\ dirty' = FALSE
    /\ pc' = "dispatch"
    /\ UNCHANGED <<state, opts, control, inflight, stops, excused>>

\* A send whose delivery left the queue is cancelled; its transport stays busy
\* until the result is in.
Cancelled(send) ==
    IF send = NoSend THEN send
    ELSE [send EXCEPT !.live = @ /\ Queued(queue, send)]

\* What a free transport may send: calls before messages, in the order of the
\* queue.  A new delivery is due; one that failed is due after its delay.
Candidates(t) ==
    LET mine == {d \in ToSet(queue) : d.to = t}
        order == Only(queue, mine \ SmsOf(queue)) \o Only(queue, mine \cap SmsOf(queue))
        Passed(i) == \A j \in 1..(i - 1) : order[j].attempts > 0
    IN  {order[i] : i \in {j \in 1..Len(order) : Passed(j)}}
          \cup (IF Passed(Len(order) + 1) THEN {NoSend} ELSE {})

Begun(d) ==
    IF d = NoSend THEN NoSend
    ELSE [of |-> d.of, ring |-> d.ring, to |-> d.to, live |-> TRUE]

Dispatch ==
    /\ pc = "dispatch"
    /\ inflight' \in
         {f \in [Transport -> {Cancelled(inflight[t]) : t \in Transport}
                   \cup {Begun(d) : d \in ToSet(queue) \cup {NoSend}}] :
            \A t \in Transport :
              IF inflight[t] # NoSend THEN f[t] = Cancelled(inflight[t])
              ELSE \E d \in Candidates(t) : f[t] = Begun(d)}
    /\ pc' = "select"
    /\ UNCHANGED <<state, dirty, opts, disk, control, stops, history>>

-----------------------------------------------------------------------------
(* The control server, and the life of the process *)

\* perform writes the file of the settings, then updates the Sender.
SaveSettings(c) ==
    /\ pc # "down" /\ saved = config /\ c # saved
    /\ settings < MaxSettings /\ settings' = settings + 1
    /\ saved' = c
    /\ UNCHANGED <<pc, state, dirty, opts, disk, config, inflight, stops, history>>

UpdateConfig ==
    /\ pc # "down" /\ config # saved
    /\ config' = saved
    /\ UNCHANGED <<pc, state, dirty, opts, disk, saved, settings, inflight,
                   stops, history>>

\* The process ends: a signal, a reboot, an error of the monitor or of a
\* write.  The state file is replaced as a whole, so that a write that was
\* under way is in it or not.  The next run reads the file of the settings.
Stop ==
    /\ pc # "down" /\ stops < MaxStops
    /\ stops' = stops + 1
    /\ pc' = "down"
    /\ disk' \in {disk} \cup (IF pc = "persist" /\ dirty THEN {InMemory} ELSE {})
    /\ seen' = NothingSeen /\ queue' = <<>> /\ rings' = 0 /\ calls' = {}
    /\ dirty' = FALSE
    /\ inflight' = [t \in Transport |-> NoSend]
    /\ excused' = {k \in excused : k[1] \in Sms} \ Keys(disk'.queue)
    /\ outlived' = {}
    /\ config' = saved /\ opts' = saved
    /\ UNCHANGED <<saved, settings>>

\* Mutant: the queue is started afresh.
StartEmpty ==
    /\ pc = "down"
    /\ pc' = "select"
    /\ seen' = disk.seen /\ rings' = disk.rings
    /\ queue' = <<>>
    /\ UNCHANGED <<disk, calls, dirty, opts, control, inflight, stops, history>>

\* Mutant: details are not erased when the daemon starts.
StartAsIs ==
    /\ pc = "down"
    /\ pc' = "select"
    /\ seen' = disk.seen /\ rings' = disk.rings
    /\ queue' = Only(disk.queue, SmsOf(disk.queue))
    /\ UNCHANGED <<disk, calls, dirty, opts, control, inflight, stops, history>>

\* serveObserved before its loop: the calls of the last run and the messages
\* whose time is over expire, and what is left is redacted; the file is written
\* only if the redaction changed something.
StartWith(expired) ==
    LET kept == Only(disk.queue, SmsOf(disk.queue) \ expired)
        redacted == [i \in 1..Len(kept) |->
                       [kept[i] EXCEPT !.detail = @ /\ "sms" \in saved.show]]
    IN  /\ pc = "down"
        /\ pc' = "select"
        /\ seen' = disk.seen /\ rings' = disk.rings
        /\ queue' = redacted
        /\ disk' = IF redacted = kept THEN disk ELSE [disk EXCEPT !.queue = redacted]
        /\ outlived' = IF redacted = kept THEN expired ELSE {}
        /\ excused' = excused \cup {k \in Keys(disk.queue) \ Keys(redacted) :
                                      k[1] \in Known(disk.seen)}
        /\ UNCHANGED <<calls, dirty, opts, control, inflight, stops>>
Start == \E expired \in SUBSET SmsOf(disk.queue) : StartWith(expired)

Next ==
    \/ \E now \in SUBSET Call : TakeCalls(now)
    \/ \E s \in Storage, now \in Contents : TakeSms(s, now)
    \/ \E t \in Transport, outcome \in Outcome : TakeResult(t, outcome)
    \/ Tick \/ Persist \/ Dispatch
    \/ \E c \in Settings : SaveSettings(c)
    \/ UpdateConfig \/ Stop \/ Start

Spec == Init /\ [][Next]_vars

-----------------------------------------------------------------------------
(* Properties *)

Scan == [Storage -> (SUBSET Sms) \cup {Unscanned}]

\* The state keeps its type, and the queue its bound, in memory and on disk.
TypeOK ==
    /\ pc \in {"down", "select", "persist", "dispatch"}
    /\ seen \in Scan /\ disk.seen \in Scan
    /\ \A q \in {queue, disk.queue} : Len(q) =< Cap /\ ToSet(q) \subseteq Delivery
    /\ rings \in 0..MaxRings /\ disk.rings \in 0..MaxRings
    /\ calls \subseteq Call /\ dirty \in BOOLEAN
    /\ {opts, config, saved} \subseteq Config
    /\ \A t \in Transport : inflight[t] \in Send \cup {NoSend}
    /\ excused \subseteq Subject \X Transport /\ outlived \subseteq Delivery

\* "A reboot can retry, never silently mark a new message delivered": a message
\* that the file knows is queued in the file for every transport, or there was
\* a reason not to - it was there at the first scan, the transport was off, it
\* expired, was pushed out, or a send of it came to a final result.
NoSmsIsForgotten ==
    \A x \in Known(disk.seen), t \in Transport :
        <<x, t>> \in Keys(disk.queue) \cup excused

\* What the file knows and does not have in its queue is not queued again as
\* long as it is known: no message is announced twice, across storages,
\* restarts and changes of the settings.
SilenceIsKept ==
    [][\A x \in Known(disk.seen) \cap Known(disk'.seen), t \in Transport :
         <<x, t>> \in Keys(disk'.queue) => <<x, t>> \in Keys(disk.queue)]_vars

\* The queue follows the calls: a call that rings is queued for every transport,
\* or it expired, was sent, or the transport was off, and no number of messages
\* pushes it out ("Prefer live calls over SMS"); once a pass is over, a call in
\* the queue rings, nothing is queued twice for a transport, and a send that was
\* not cancelled is of a queued delivery.
QueueFollowsCalls ==
    /\ TypeOK
    /\ \A x \in calls, t \in Transport : <<x, t>> \in Keys(queue) \cup excused
    /\ pc = "select" =>
         /\ \A d \in ToSet(queue) : d.of \in Call => d.of \in calls
         /\ Cardinality(Keys(queue)) = Len(queue)
         /\ \A t \in Transport : inflight[t] # NoSend /\ inflight[t].live =>
              Queued(queue, inflight[t])

Settled == pc \in {"select", "dispatch"}
\* Once the daemon has taken note that texts are hidden, none is in the file,
\* also when it ended between the change and the note.  Except, until the file
\* is written again, of a message that had expired before the daemon started:
\* memory drops it first, and the redaction then finds nothing to change.
HiddenTextIsErased ==
    Settled /\ "sms" \notin opts.show =>
        \A d \in ToSet(disk.queue) : d.of \in Sms => ~d.detail \/ d \in outlived
=============================================================================
