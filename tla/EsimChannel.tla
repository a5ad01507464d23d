---------------------------- MODULE EsimChannel ----------------------------
(* The APDU transports to an eUICC, internal/esim/apdu_coordinator.go with    *)
(* qmi_uim_transport.go and mbim_apdu_transport.go: logical channels are      *)
(* opened and closed under the mutex of channel 0 and used under their own,   *)
(* which are made when they are first looked up and forgotten by Stop.  The   *)
(* lease of the APDU arbiter may be refused, and its watchdog may take it     *)
(* back, so that it excludes nobody here.                                     *)
EXTENDS Naturals

CONSTANTS
    Request,    \* goroutines in a call of the transport
    Channel,    \* logical channels the card has, without 0
    MaxMutex,   \* bound: mutexes made
    MaxStops,   \* bound: stops of the transport
    NoOne

VARIABLES
    running,    \* the client and the UIM service are there
    chanMu,     \* chanMu[k]: the mutex of channel k, 0 if there is none
    made,       \* how many mutexes were made
    holder,     \* holder[m]: who holds mutex m
    stops,      \* how often the mutexes were forgotten
    born,       \* born[m]: stops when m was made
    stopping,   \* Stop has forgotten the mutexes and not yet the service
    sessions,   \* channels that are registered
    open,       \* channels that the card has open
    call,       \* call[r]: what r does: [kind, channel]
    pc,         \* pc[r]
    mine        \* mine[r]: the mutex r has looked up

mutexes == <<chanMu, made, holder, born>>
service == <<running, stopping, stops>>
vars == <<mutexes, service, sessions, open, call, pc, mine>>

Key == Channel \cup {0}
Mutex == 1..MaxMutex
Opening == [kind |-> "open", channel |-> 0]
Exchanges == {Opening} \cup [kind : {"close", "transmit"}, channel : Channel]
\* The channel whose mutex a call takes.
KeyOf(c) == IF c.kind = "transmit" THEN c.channel ELSE 0

Init ==
    /\ running = FALSE /\ stopping = FALSE /\ stops = 0
    /\ chanMu = [k \in Key |-> 0] /\ made = 0
    /\ holder = [m \in Mutex |-> NoOne] /\ born = [m \in Mutex |-> 0]
    /\ sessions = {} /\ open = {}
    /\ call = [r \in Request |-> Opening]
    /\ pc = [r \in Request |-> "idle"] /\ mine = [r \in Request |-> 0]

GoTo(r, place) == pc' = [pc EXCEPT ![r] = place]
-----------------------------------------------------------------------------
\* A call, as far as the lease, which may be refused; a closing has left the
\* register by then.
Begin(r, c) ==
    /\ pc[r] = "idle"
    /\ c.kind # "open" => c.channel \in open
    /\ sessions' = IF c.kind = "close" THEN sessions \ {c.channel} ELSE sessions
    /\ \/ GoTo(r, "look") /\ call' = [call EXCEPT ![r] = c]
       \/ UNCHANGED <<pc, call>>
    /\ UNCHANGED <<mutexes, service, open, mine>>

\* getOrCreateChanMu, with the read lock and then with the write lock.
Look(r) ==
    /\ pc[r] = "look"
    /\ mine' = [mine EXCEPT ![r] = chanMu[KeyOf(call[r])]]
    /\ GoTo(r, IF mine'[r] = 0 THEN "create" ELSE "lock")
    /\ UNCHANGED <<mutexes, service, sessions, open, call>>

Make(r) ==
    /\ made < MaxMutex
    /\ made' = made + 1
    /\ chanMu' = [chanMu EXCEPT ![KeyOf(call[r])] = made + 1]
    /\ born' = [born EXCEPT ![made + 1] = stops]
    /\ mine' = [mine EXCEPT ![r] = made + 1]
    /\ UNCHANGED holder

CreateUnseen(r) ==  \* mutant: the second look is left out
    /\ pc[r] = "create"
    /\ Make(r)
    /\ GoTo(r, "lock")
    /\ UNCHANGED <<service, sessions, open, call>>

Create(r) ==
    /\ pc[r] = "create"
    /\ \/ chanMu[KeyOf(call[r])] = 0 /\ Make(r)
       \/ /\ chanMu[KeyOf(call[r])] # 0
          /\ mine' = [mine EXCEPT ![r] = chanMu[KeyOf(call[r])]]
          /\ UNCHANGED mutexes
    /\ GoTo(r, "lock")
    /\ UNCHANGED <<service, sessions, open, call>>

Lock(r) ==
    /\ pc[r] = "lock" /\ holder[mine[r]] = NoOne
    /\ holder' = [holder EXCEPT ![mine[r]] = r]
    /\ GoTo(r, "locked")
    /\ UNCHANGED <<chanMu, made, born, service, sessions, open, call, mine>>

Unlock(r) ==
    /\ holder' = [holder EXCEPT ![mine[r]] = NoOne]
    /\ mine' = [mine EXCEPT ![r] = 0]
    /\ call' = [call EXCEPT ![r] = Opening]
    /\ GoTo(r, "idle")
    /\ UNCHANGED <<chanMu, made, born>>

\* getUIM, and the exchange begins.
Exchange(r) ==
    /\ pc[r] = "locked"
    /\ \/ running /\ GoTo(r, "card") /\ UNCHANGED <<mutexes, call, mine>>
       \/ ~running /\ Unlock(r)
    /\ UNCHANGED <<service, sessions, open>>

\* It ends, perhaps with an error and then perhaps unknown to the caller.
Opened(r) ==
    /\ pc[r] = "card" /\ call[r].kind = "open"
    /\ \E c \in Channel \ open :
        /\ open' = open \cup {c}
        /\ sessions' \in {sessions, sessions \cup {c}}
    /\ Unlock(r)
    /\ UNCHANGED service

Closed(r) ==
    /\ pc[r] = "card" /\ call[r].kind = "close"
    /\ open' = open \ {call[r].channel}
    /\ Unlock(r)
    /\ UNCHANGED <<service, sessions>>

Ended(r) ==
    /\ pc[r] = "card"
    /\ Unlock(r)
    /\ UNCHANGED <<service, sessions, open>>

\* The card resets itself, as it does when a profile is enabled.
CardResets ==
    /\ open # {} /\ open' = {}
    /\ UNCHANGED <<mutexes, service, sessions, call, pc, mine>>

\* Start and the two halves of Stop.
Start ==
    /\ ~running /\ ~stopping
    /\ running' = TRUE
    /\ UNCHANGED <<mutexes, stopping, stops, sessions, open, call, pc, mine>>

StopForgets ==
    /\ stops < MaxStops /\ ~stopping
    /\ stopping' = TRUE /\ stops' = stops + 1
    /\ sessions' = {}
    /\ chanMu' = [k \in Key |-> 0]
    /\ UNCHANGED <<running, made, holder, born, open, call, pc, mine>>

StopEnds ==
    /\ stopping
    /\ stopping' = FALSE /\ running' = FALSE
    /\ UNCHANGED <<mutexes, stops, sessions, open, call, pc, mine>>

Next ==
    \/ \E r \in Request :
        \/ \E c \in Exchanges : Begin(r, c)
        \/ Look(r) \/ Create(r) \/ Lock(r) \/ Exchange(r)
        \/ Opened(r) \/ Closed(r) \/ Ended(r)
    \/ CardResets \/ Start \/ StopForgets \/ StopEnds

Spec == Init /\ [][Next]_vars
-----------------------------------------------------------------------------
TypeOK ==
    /\ {running, stopping} \subseteq BOOLEAN /\ stops \in 0..MaxStops
    /\ chanMu \in [Key -> 0..MaxMutex] /\ made \in 0..MaxMutex
    /\ holder \in [Mutex -> Request \cup {NoOne}] /\ born \in [Mutex -> 0..MaxStops]
    /\ sessions \subseteq Channel /\ open \subseteq Channel
    /\ call \in [Request -> Exchanges] /\ mine \in [Request -> 0..MaxMutex]
    /\ pc \in [Request -> {"idle", "look", "create", "lock", "locked", "card"}]

\* Two exchanges on one logical channel, or two openings and closings, are
\* never under way at once: the mutexes that are made on demand are one for each
\* channel, whoever asks first.  Only a stop, which forgets them, sets those who
\* ask after it free of those who asked before.
ChannelIsSerial ==
    \A r, s \in Request :
        /\ pc[r] = "card" /\ pc[s] = "card" /\ r # s
        /\ KeyOf(call[r]) = KeyOf(call[s])
        => born[mine[r]] # born[mine[s]]
=============================================================================
