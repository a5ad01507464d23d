-------------------------- MODULE ModuleSideProofs --------------------------
(* Proofs about the parts of the sum in MCModuleSide, each with an inductive *)
(* invariant of its own, for any messages, calls, transports, profiles,      *)
(* slots, values and bounds.  The last section puts them together.           *)
EXTENDS MCModuleSide, FiniteSetTheorems, WellFoundedInduction, TLAPS

-----------------------------------------------------------------------------
(* The eSIM manager: its cached overview *)

\* What is cached was read after the generation was raised for the last time, and so
\* was what the flight of that generation has read; later ones have no flight yet.
CacheIsNew == overview # NoOverview /\ ~overtaken => overview >= floor
FlightIsNew == flight[generation] \in E!Version => flight[generation] >= floor
NoneAhead == \A g \in E!Generation : g > generation => flight[g] = NoFlight
CacheInv == E!TypeOK /\ floor <= card /\ CacheIsNew /\ FlightIsNew /\ NoneAhead

\* What an operation and the hooks of a switch keep: the type of their variables.
CardTypes ==
    /\ card \in E!Version /\ overview \in {NoOverview} \cup E!Version
    /\ generation \in E!Generation /\ floor \in E!Version
    /\ flight \in [E!Generation -> {NoFlight, Reading} \cup E!Version]
    /\ reloader \in {"no", "waiting", "loading"} /\ joined \in E!Generation
    /\ refresh \in {NoFlight, Reading} \cup E!Version
    /\ overtaken \in BOOLEAN /\ suppressed \in BOOLEAN
WorkTypes ==
    /\ client \in BOOLEAN /\ barrier \in BOOLEAN /\ context \in BOOLEAN
    /\ work \in {NoWork} \cup E!Work
    /\ token \in 0..MaxToken /\ due \subseteq E!Token /\ told \in [E!Token -> Nat]

LEMMA ManagerTypes == E!TypeOK <=> CardTypes /\ WorkTypes
  BY DEF E!TypeOK, CardTypes, WorkTypes

\* A flight that is over, and a generation that is raised, leave what is cached new.
LEMMA FlightOver ==
  ASSUME CacheInv, NEW g \in E!Generation, flight' = [flight EXCEPT ![g] = NoFlight],
         \/ overview' = overview /\ (overtaken' <=> overtaken)
         \/ overview' = NoOverview
         \/ g = generation /\ flight[g] \in E!Version /\ overview' = flight[g],
         UNCHANGED <<card, generation, floor>>
  PROVE  CacheIsNew' /\ FlightIsNew' /\ NoneAhead' /\ floor' <= card'
  <1> USE DEF CacheInv, E!TypeOK
  <1>1. CacheIsNew'
    BY DEF CacheIsNew, FlightIsNew
  <1>2. \A h \in E!Generation : flight'[h] = flight[h] \/ flight'[h] = NoFlight
    OBVIOUS
  <1>3. NoFlight \notin E!Version
    BY ManagerAssumption DEF E!Version
  <1>4. FlightIsNew' /\ NoneAhead'
    BY <1>2, <1>3 DEF FlightIsNew, NoneAhead
  <1> QED  BY <1>1, <1>4

LEMMA Raised ==
  ASSUME CacheInv, E!Raise, card' = card
  PROVE  CacheIsNew' /\ FlightIsNew' /\ NoneAhead' /\ floor' <= card'
  <1> USE DEF CacheInv, E!TypeOK, E!Raise
  <1>1. generation \in 1..MaxGeneration /\ generation + 1 \in E!Generation
    BY ManagerAssumption DEF E!Generation
  <1>2. flight'[generation'] = NoFlight
    BY <1>1 DEF NoneAhead
  <1>3. NoFlight \notin E!Version /\ card \in Nat
    BY ManagerAssumption DEF E!Version
  <1>4. NoneAhead'
    BY <1>1 DEF NoneAhead, E!Generation
  <1> QED  BY <1>2, <1>3, <1>4 DEF CacheIsNew, FlightIsNew

\* What changes neither the cache nor the flights keeps them new, when the card only
\* gets newer.
LEMMA CacheAlone ==
  ASSUME CacheInv, UNCHANGED <<overview, generation, floor, flight, overtaken>>,
         card' = card \/ card' = card + 1
  PROVE  CacheIsNew' /\ FlightIsNew' /\ NoneAhead' /\ floor' <= card'
  <1>1. card \in Nat /\ floor \in Nat
    BY ManagerAssumption DEF CacheInv, E!TypeOK, E!Version
  <1>2. floor' <= card'
    BY <1>1 DEF CacheInv
  <1>3. CacheIsNew' = CacheIsNew /\ FlightIsNew' = FlightIsNew /\ NoneAhead' = NoneAhead
    BY DEF CacheIsNew, FlightIsNew, NoneAhead
  <1> QED  BY <1>2, <1>3 DEF CacheInv

\* A flight begins for no later generation than the current one.
LEMMA FlightBegins ==
  ASSUME CacheInv, NEW g \in E!Generation, g <= generation,
         NEW read, read = Reading \/ read = card,
         flight' = [flight EXCEPT ![g] = read],
         UNCHANGED <<card, overview, generation, floor, overtaken>>
  PROVE  CacheIsNew' /\ FlightIsNew' /\ NoneAhead' /\ floor' <= card'
  <1> USE DEF CacheInv, E!TypeOK
  <1>1. Reading \notin E!Version
    BY ManagerAssumption DEF E!Version
  <1>2. \A h \in E!Generation : flight'[h] = IF h = g THEN read ELSE flight[h]
    OBVIOUS
  <1>3. NoneAhead'
    BY <1>2 DEF NoneAhead, E!Generation
  <1>4. FlightIsNew'
    BY <1>1, <1>2 DEF FlightIsNew
  <1>5. CacheIsNew'
    BY DEF CacheIsNew
  <1> QED  BY <1>3, <1>4, <1>5

LEMMA LoadTypes ==
  ASSUME CardTypes, E!Loads  PROVE CardTypes' /\ UNCHANGED <<card, work, client, barrier,
                                             context, token, due, told>>
  <1> USE DEF CardTypes, E!lease, E!hooks, E!profiles
  <1>1. ASSUME NEW g \in E!Generation,
               E!StartLoad(g) \/ E!Read(g) \/ E!Store(g) \/ E!LoadFails(g)
        PROVE  CardTypes' /\ UNCHANGED <<card, work, client, barrier, context, token, due, told>>
    BY <1>1 DEF E!StartLoad, E!Read, E!Store, E!LoadFails
  <1>2. CASE E!ReloaderGoes \/ E!ReloaderEnds
    <2>1. 1 \in E!Generation
      BY ManagerAssumption DEF E!Generation
    <2> QED  BY <1>2, <2>1 DEF E!ReloaderGoes, E!ReloaderEnds
  <1>3. CASE E!RefreshOverview \/ E!NotifyUIMIndication \/ E!NotifyModemReset
    <2>1. E!Raise /\ UNCHANGED <<card, suppressed, work, client, barrier, context, token, due, told>>
      BY <1>3 DEF E!RefreshOverview, E!NotifyUIMIndication, E!NotifyModemReset
    <2>2. generation' \in E!Generation
      BY <2>1, ManagerAssumption DEF E!Raise, E!Generation
    <2>3. reloader' \in {"no", "waiting", "loading"} /\ joined' \in E!Generation
      BY <1>3 DEF E!RefreshOverview, E!NotifyUIMIndication, E!NotifyModemReset, E!Trigger
    <2> QED  BY <2>1, <2>2, <2>3 DEF E!Raise
  <1>4. CASE E!WindowEnds
    BY <1>4 DEF E!WindowEnds, E!overview
  <1>5. CASE E!RefreshBegins \/ E!RefreshReads \/ E!RefreshStores \/ E!RefreshFails
    <2>1. CASE E!RefreshBegins \/ E!RefreshReads \/ E!RefreshFails
      BY <2>1 DEF E!RefreshBegins, E!RefreshReads, E!RefreshFails
    <2>2. CASE E!RefreshStores
      <3>1. overtaken' \in BOOLEAN
        BY <2>2 DEF E!RefreshStores
      <3> QED  BY <2>2, <3>1 DEF E!RefreshStores
    <2> QED  BY <1>5, <2>1, <2>2
  <1> QED  BY <1>1, <1>2, <1>3, <1>4, <1>5 DEF E!Loads

LEMMA LoadsKeepCache ==
  ASSUME CacheInv, E!Loads  PROVE CacheInv'
  <1>0. CardTypes /\ WorkTypes
    BY ManagerTypes DEF CacheInv
  <1>1. CardTypes' /\ WorkTypes' /\ card' = card
    BY <1>0, LoadTypes DEF WorkTypes
  <1>2. ASSUME CacheIsNew' /\ FlightIsNew' /\ NoneAhead' /\ floor' <= card'
        PROVE  CacheInv'
    BY <1>1, <1>2, ManagerTypes DEF CacheInv, E!TypeOK, CardTypes, WorkTypes
  <1>3. ASSUME NEW g \in E!Generation, E!StartLoad(g)  PROVE CacheInv'
    BY <1>2, <1>3, FlightBegins DEF E!StartLoad, E!profiles
  <1>4. ASSUME NEW g \in E!Generation, E!Read(g)  PROVE CacheInv'
    <2>1. g <= generation
      <3>1. flight[g] # NoFlight
        BY <1>4, ManagerAssumption DEF E!Read
      <3> QED  BY <1>0, <3>1 DEF CacheInv, NoneAhead, CardTypes, E!Generation
    <2> QED  BY <1>2, <1>4, <2>1, FlightBegins DEF E!Read, E!profiles
  <1>5. ASSUME NEW g \in E!Generation, E!Store(g) \/ E!LoadFails(g)  PROVE CacheInv'
    <2>1. /\ flight' = [flight EXCEPT ![g] = NoFlight]
          /\ UNCHANGED <<card, generation, floor>>
          /\ \/ overview' = overview /\ (overtaken' <=> overtaken)
             \/ overview' = NoOverview
             \/ g = generation /\ flight[g] \in E!Version /\ overview' = flight[g]
      BY <1>5 DEF E!Store, E!LoadFails
    <2> QED  BY <1>2, <2>1, FlightOver
  <1>6. CASE E!ReloaderGoes
    <2>1. CASE flight' = flight
      BY <1>2, <1>6, <2>1, CacheAlone DEF E!ReloaderGoes, E!profiles
    <2>2. CASE flight' = [flight EXCEPT ![generation] = Reading]
      <3>1. generation \in E!Generation /\ generation <= generation
        BY <1>0, ManagerAssumption DEF CardTypes, E!Generation
      <3>2. UNCHANGED <<card, overview, generation, floor, overtaken>>
        BY <1>6 DEF E!ReloaderGoes, E!profiles
      <3> QED  BY <1>2, <2>2, <3>1, <3>2, FlightBegins
    <2>3. flight' = flight \/ flight' = [flight EXCEPT ![generation] = Reading]
      BY <1>0, <1>6 DEF E!ReloaderGoes, CardTypes
    <2> QED  BY <2>1, <2>2, <2>3
  <1>7. CASE E!ReloaderEnds \/ E!WindowEnds
    BY <1>2, <1>7, CacheAlone DEF E!ReloaderEnds, E!WindowEnds, E!overview, E!profiles
  <1>8. CASE E!RefreshOverview \/ E!NotifyUIMIndication \/ E!NotifyModemReset
    BY <1>1, <1>2, <1>8, Raised DEF E!RefreshOverview, E!NotifyUIMIndication, E!NotifyModemReset
  <1>9. CASE E!RefreshBegins \/ E!RefreshReads \/ E!RefreshFails
    BY <1>2, <1>9, CacheAlone DEF E!RefreshBegins, E!RefreshReads, E!RefreshFails
  <1>10. CASE E!RefreshStores
    <2>1. CacheIsNew'
      <3>1. overview' = refresh /\ floor' = floor /\ overtaken' = (refresh < floor)
        BY <1>10 DEF E!RefreshStores
      <3>2. refresh \in Nat /\ floor \in Nat
        BY <1>0, <1>10, ManagerAssumption DEF E!RefreshStores, CardTypes, E!Version
      <3>3. refresh < floor \/ refresh >= floor
        BY <3>2
      <3>4. ~overtaken' => refresh >= floor
        BY <3>1, <3>3
      <3> QED  BY <3>1, <3>4 DEF CacheIsNew
    <2>2. FlightIsNew' /\ NoneAhead' /\ floor' <= card'
      BY <1>10 DEF E!RefreshStores, CacheInv, FlightIsNew, NoneAhead
    <2> QED  BY <1>2, <2>1, <2>2
  <1> QED  BY <1>3, <1>4, <1>5, <1>6, <1>7, <1>8, <1>9, <1>10 DEF E!Loads

-----------------------------------------------------------------------------
(* The eSIM manager: its operations *)

\* A switch that was announced is known to have been, until it is accepted, which is
\* the last thing an operation does before it leaves.
WorkKnows ==
    work # NoWork =>
        /\ work.kind \in E!Switching /\ work.pc \in {"announced", "blocked", "done", "failed",
                                                     "trigger"}
              => work.announced
        /\ work.pc \in {"announced", "blocked"} => work.kind \in E!Switching
        /\ work.pc \in {"locked", "open"} => ~work.announced
        /\ work.accepted => work.pc = "leaving"
        /\ work.announced => token >= 1 /\ work.kind \in E!Switching
WorkInv == WorkTypes /\ WorkKnows /\ E!NothingIsHeld /\ E!EndIsTold

LEMMA TokenGiven ==
  ASSUME WorkTypes, WorkKnows, work # NoWork, work.announced
  PROVE  token \in E!Token
  BY ManagerAssumption DEF WorkTypes, WorkKnows, E!Token

LEMMA OperationTypes ==
  ASSUME CardTypes, WorkTypes, WorkKnows, E!Operations  PROVE CardTypes' /\ WorkTypes'
  <1> USE DEF CardTypes, WorkTypes, E!Work
  <1>1. ASSUME NEW kind \in E!Kind, E!Begin(kind)  PROVE CardTypes' /\ WorkTypes'
    BY <1>1 DEF E!Begin, E!overview, E!profiles, E!hooks
  <1>2. CASE E!Refuse \/ E!Open \/ E!Release \/ E!GiveUp
    BY <1>2 DEF E!Refuse, E!Open, E!Release, E!GiveUp, E!At, E!GoTo, E!overview, E!profiles, E!hooks,
                E!lease
  <1>3. CASE E!Announce
    <2>1. token' \in 0..MaxToken
      BY <1>3, ManagerAssumption DEF E!Announce
    <2> QED  BY <1>3, <2>1 DEF E!Announce, E!At, E!overview, E!profiles, E!lease
  <1>4. CASE E!Block
    BY <1>4 DEF E!Block, E!At, E!GoTo, E!overview, E!profiles, E!hooks
  <1>5. CASE E!Command
    <2>1. card' \in E!Version
      BY <1>5, ManagerAssumption DEF E!Command, E!Change, E!Version
    <2> QED  BY <1>5, <2>1 DEF E!Command, E!At, E!GoTo, E!overview, E!profiles, E!hooks, E!lease
  <1>6. CASE E!Accept
    <2>1. overview' \in {NoOverview} \cup E!Version
      BY <1>6 DEF E!Accept
    <2>2. work' \in {NoWork} \cup E!Work
      BY <1>6 DEF E!Accept, E!At
    <2>3. token \in E!Token
      <3>1. work # NoWork /\ work.kind = "switch" /\ work.pc = "done"
        BY <1>6 DEF E!Accept, E!At
      <3> QED  BY <3>1, TokenGiven DEF WorkKnows, E!Switching
    <2>4. due' \subseteq E!Token
      BY <1>6, <2>3 DEF E!Accept
    <2> QED  BY <1>6, <2>1, <2>2, <2>4 DEF E!Accept, E!lease, E!profiles
  <1>7. CASE E!Invalidate
    <2>1. generation' \in E!Generation
      BY <1>7, ManagerAssumption DEF E!Invalidate, E!Raise, E!Generation
    <2>2. work' \in {NoWork} \cup E!Work /\ suppressed' \in BOOLEAN
      BY <1>7 DEF E!Invalidate, E!At, E!GoTo
    <2> QED  BY <1>7, <2>1, <2>2 DEF E!Invalidate, E!Raise, E!lease, E!hooks
  <1>8. CASE E!Reload
    <2>1. work # NoWork /\ work' \in {NoWork} \cup E!Work
      BY <1>8 DEF E!Reload, E!At
    <2>2. due' \subseteq E!Token
      BY <1>8, <2>1, TokenGiven DEF E!Reload
    <2>3. reloader' \in {"no", "waiting", "loading"} /\ joined' = joined
      BY <1>8 DEF E!Reload, E!Trigger
    <2> QED  BY <1>8, <2>1, <2>2, <2>3 DEF E!Reload, E!lease, E!profiles
  <1>9. CASE E!Leave
    <2>1. due' \subseteq E!Token
      BY <1>9, TokenGiven DEF E!Leave, E!At
    <2> QED  BY <1>9, <2>1 DEF E!Leave, E!overview, E!profiles
  <1>10. ASSUME NEW t \in E!Token, E!Tell(t)  PROVE CardTypes' /\ WorkTypes'
    BY <1>10 DEF E!Tell, E!overview, E!profiles, E!lease
  <1> QED  BY <1>1, <1>2, <1>3, <1>4, <1>5, <1>6, <1>7, <1>8, <1>9, <1>10 DEF E!Operations

\* A step of the operation that leaves its announcement, its acceptance and its kind
\* leaves what is known of it and what was told.
LEMMA WorkGoesOn ==
  ASSUME WorkInv, work # NoWork, NEW stage, work' = [work EXCEPT !.pc = stage],
         work' # NoWork, UNCHANGED <<token, due, told>>
  PROVE  E!EndIsTold'
  <1>1. work'.announced = work.announced /\ work'.accepted = work.accepted
    BY DEF WorkInv, WorkTypes, E!Work
  <1> QED  BY <1>1 DEF WorkInv, E!EndIsTold

\* A change of profile that was announced is over, and its token due.
LEMMA EndIsDue ==
  ASSUME WorkInv, work # NoWork, work.announced, ~work.accepted, due' = due \cup {token},
         work' = NoWork \/ work'.accepted, UNCHANGED <<token, told>>
  PROVE  E!EndIsTold'
  <1>1. SUFFICES ASSUME NEW t \in E!Token
                 PROVE  told[t] + (IF t \in due' THEN 1 ELSE 0) = IF t > token THEN 0 ELSE 1
    BY DEF E!EndIsTold
  <1>2. told[t] + (IF t \in due THEN 1 ELSE 0) = IF t >= token THEN 0 ELSE 1
    BY DEF WorkInv, WorkTypes, E!EndIsTold, E!Token
  <1>3. CASE t = token
    <2>1. told[t] \in Nat /\ token \in Nat
      BY ManagerAssumption DEF WorkInv, WorkTypes
    <2>2. t >= token /\ ~(t > token)
      BY <1>3, <2>1
    <2>3. told[t] = 0 /\ t \notin due
      BY <1>2, <2>1, <2>2
    <2>4. t \in due'
      BY <1>3
    <2> QED  BY <2>2, <2>3, <2>4
  <1>4. CASE t # token
    <2>1. t >= token <=> t > token
      BY <1>4 DEF WorkInv, WorkTypes, E!Token
    <2> QED  BY <1>2, <1>4, <2>1
  <1> QED  BY <1>3, <1>4

\* An operation that never announced anything is over.
LEMMA NoEndDue ==
  ASSUME WorkInv, work # NoWork, ~work.announced \/ work.accepted, UNCHANGED <<due, token, told>>,
         work' = NoWork \/ work'.accepted
  PROVE  E!EndIsTold'
  BY DEF WorkInv, E!EndIsTold

LEMMA OperationsKeepWork ==
  ASSUME CardTypes, WorkInv, E!Operations  PROVE WorkInv'
  <1>0. WorkTypes' /\ NoWork \notin E!Work
    BY OperationTypes, ManagerAssumption DEF WorkInv
  <1> USE DEF WorkInv, WorkKnows, E!NothingIsHeld
  <1>1. ASSUME NEW kind \in E!Kind, E!Begin(kind)  PROVE WorkInv'
    <2>1. /\ work' = [kind |-> kind, pc |-> "locked", announced |-> FALSE, accepted |-> FALSE]
          /\ work = NoWork /\ UNCHANGED <<client, barrier, token, due, told>>
          /\ context' = (kind = "download")
      BY <1>1 DEF E!Begin, E!hooks
    <2>2. work' # NoWork
      <3>1. work' \in E!Work
        BY <2>1 DEF E!Work
      <3> QED  BY <1>0, <3>1
    <2>3. E!EndIsTold'
      BY <2>1 DEF E!EndIsTold
    <2> QED  BY <1>0, <2>1, <2>2, <2>3
  <1>2. ASSUME work # NoWork, NEW stage \in {"open", "blocked", "done", "failed", "trigger",
                                         "leaving"},
               work' = [work EXCEPT !.pc = stage], UNCHANGED <<token, due, told>>
        PROVE  /\ work \in E!Work /\ work' \in E!Work /\ work' # NoWork
               /\ work'.pc = stage /\ work'.kind = work.kind
               /\ work'.announced = work.announced /\ work'.accepted = work.accepted
               /\ E!EndIsTold'
    <2>1. work \in E!Work /\ work' \in E!Work
      BY <1>2 DEF WorkTypes, E!Work
    <2>2. work' # NoWork
      BY <1>0, <2>1
    <2> QED  BY <1>2, <2>1, <2>2, WorkGoesOn DEF E!Work
  <1>3. CASE E!Refuse \/ E!GiveUp
    <2>1. /\ work # NoWork /\ work' = [work EXCEPT !.pc = "leaving"]
          /\ UNCHANGED <<client, barrier, context, token, due, told>>
      BY <1>3 DEF E!Refuse, E!GiveUp, E!At, E!GoTo, E!lease, E!hooks
    <2>2. /\ work' # NoWork /\ work'.pc = "leaving" /\ work'.kind = work.kind
          /\ work'.announced = work.announced /\ E!EndIsTold'
      BY <1>2, <2>1
    <2> QED  BY <1>0, <2>1, <2>2
  <1>4. CASE E!Open
    <2>1. /\ work # NoWork /\ work' = [work EXCEPT !.pc = "open"] /\ work.pc = "locked"
          /\ UNCHANGED <<barrier, context, token, due, told>>
      BY <1>4 DEF E!Open, E!At, E!GoTo, E!hooks
    <2>2. /\ work' # NoWork /\ work'.pc = "open" /\ work'.kind = work.kind
          /\ work'.announced = work.announced /\ work'.accepted = work.accepted
          /\ E!EndIsTold'
      BY <1>2, <2>1
    <2> QED  BY <1>0, <2>1, <2>2
  <1>5. CASE E!Release
    <2>1. UNCHANGED <<work, context, token, due, told>> /\ work # NoWork /\ ~client' /\ ~barrier'
      BY <1>5 DEF E!Release, E!hooks
    <2> QED  BY <1>0, <2>1 DEF E!EndIsTold
  <1>6. CASE E!Block
    <2>1. PICK stage \in {"blocked", "leaving"} : work' = [work EXCEPT !.pc = stage]
      BY <1>6 DEF E!Block, E!GoTo
    <2>2. /\ work # NoWork /\ work.pc = "announced"
          /\ UNCHANGED <<client, context, token, due, told>>
      BY <1>6 DEF E!Block, E!At, E!hooks
    <2>3. /\ work' # NoWork /\ work'.pc = stage /\ work'.kind = work.kind
          /\ work'.announced = work.announced /\ work'.accepted = work.accepted
          /\ E!EndIsTold'
      BY <1>2, <2>1, <2>2
    <2> QED  BY <1>0, <2>1, <2>2, <2>3
  <1>7. CASE E!Command
    <2>1. PICK stage \in {"done", "failed"} : work' = [work EXCEPT !.pc = stage]
      BY <1>7 DEF E!Command, E!GoTo
    <2>2. /\ work # NoWork /\ UNCHANGED <<client, barrier, context, token, due, told>>
          /\ work.pc \in {"blocked", "open"}
          /\ work.pc = "open" => work.kind \notin E!Switching
      BY <1>7 DEF E!Command, E!At, E!hooks, E!lease
    <2>3. /\ work' # NoWork /\ work'.pc = stage /\ work'.kind = work.kind
          /\ work'.announced = work.announced /\ work'.accepted = work.accepted
          /\ E!EndIsTold'
      BY <1>2, <2>1, <2>2
    <2> QED  BY <1>0, <2>1, <2>2, <2>3
  <1>8. CASE E!Invalidate
    <2>1. PICK stage \in {"trigger", "leaving"} : work' = [work EXCEPT !.pc = stage]
      BY <1>8 DEF E!Invalidate, E!GoTo
    <2>2. /\ work # NoWork /\ UNCHANGED <<client, barrier, context, token, due, told>>
          /\ work.pc \in {"done", "failed"}
      BY <1>8 DEF E!Invalidate, E!At, E!hooks, E!lease
    <2>3. /\ work' # NoWork /\ work'.pc = stage /\ work'.kind = work.kind
          /\ work'.announced = work.announced /\ work'.accepted = work.accepted
          /\ E!EndIsTold'
      BY <1>2, <2>1, <2>2
    <2> QED  BY <1>0, <2>1, <2>2, <2>3
  <1>9. CASE E!Announce
    <2>1. /\ work # NoWork /\ work.pc = "open" /\ work.kind \in E!Switching
          /\ work' = [work EXCEPT !.pc = "announced", !.announced = TRUE]
          /\ token < MaxToken /\ token' = token + 1
          /\ UNCHANGED <<client, barrier, context, due, told>>
      BY <1>9 DEF E!Announce, E!At, E!lease
    <2>2. work \in E!Work /\ token \in Nat /\ ~work.announced
      BY <2>1 DEF WorkTypes
    <2>3. /\ work' \in E!Work /\ work'.pc = "announced" /\ work'.announced
          /\ work'.kind = work.kind /\ work'.accepted = work.accepted
      BY <2>1, <2>2 DEF E!Work
    <2>4. E!EndIsTold'
      <3>1. SUFFICES ASSUME NEW t \in E!Token
                     PROVE  told[t] + (IF t \in due THEN 1 ELSE 0) =
                              IF t >= token + 1 THEN 0 ELSE 1
        BY <1>0, <2>1, <2>2, <2>3 DEF E!EndIsTold, E!Token
      <3>2. told[t] + (IF t \in due THEN 1 ELSE 0) = IF t > token THEN 0 ELSE 1
        BY <2>2 DEF E!EndIsTold
      <3> QED  BY <2>2, <3>2 DEF E!Token
    <2> QED  BY <1>0, <2>1, <2>2, <2>3, <2>4
  <1>10. CASE E!Accept
    <2>1. /\ work # NoWork /\ work.pc = "done" /\ work.kind = "switch"
          /\ work' = [work EXCEPT !.pc = "leaving", !.accepted = TRUE]
          /\ due' = due \cup {token}
          /\ UNCHANGED <<client, barrier, context, token, told>>
      BY <1>10 DEF E!Accept, E!At, E!lease
    <2>2. /\ work' \in E!Work /\ work'.pc = "leaving" /\ work'.accepted
          /\ work'.announced = work.announced /\ work'.kind = work.kind
      BY <2>1 DEF WorkTypes, E!Work
    <2>3. E!EndIsTold'
      BY <2>1, <2>2, EndIsDue DEF E!Switching
    <2> QED  BY <1>0, <2>1, <2>2, <2>3
  <1>11. CASE E!Reload
    <2>1. /\ work # NoWork /\ work.pc = "trigger"
          /\ work' = [work EXCEPT !.pc = "leaving", !.accepted = TRUE]
          /\ due' = IF work.announced THEN due \cup {token} ELSE due
          /\ UNCHANGED <<client, barrier, context, token, told>>
      BY <1>11 DEF E!Reload, E!At, E!lease
    <2>2. /\ work' \in E!Work /\ work'.pc = "leaving" /\ work'.accepted
          /\ work'.announced = work.announced /\ work'.kind = work.kind
      BY <2>1 DEF WorkTypes, E!Work
    <2>3. E!EndIsTold'
      BY <2>1, <2>2, EndIsDue, NoEndDue
    <2> QED  BY <1>0, <2>1, <2>2, <2>3
  <1>12. CASE E!Leave
    <2>1. /\ work # NoWork /\ work' = NoWork
          /\ due' = IF work.announced /\ ~work.accepted THEN due \cup {token} ELSE due
          /\ ~client' /\ ~barrier' /\ ~context' /\ UNCHANGED <<token, told>>
      BY <1>12 DEF E!Leave, E!At
    <2>2. E!EndIsTold'
      BY <2>1, EndIsDue, NoEndDue
    <2> QED  BY <1>0, <2>1, <2>2
  <1>13. ASSUME NEW t \in E!Token, E!Tell(t)  PROVE WorkInv'
    <2>1. /\ t \in due /\ due' = due \ {t} /\ told' = [told EXCEPT ![t] = @ + 1]
          /\ UNCHANGED <<work, client, barrier, context, token>>
      BY <1>13 DEF E!Tell, E!lease
    <2>2. E!EndIsTold'
      <3>1. SUFFICES ASSUME NEW o \in E!Token
                     PROVE  told'[o] + (IF o \in due' THEN 1 ELSE 0) =
                            told[o] + (IF o \in due THEN 1 ELSE 0)
        BY <2>1 DEF E!EndIsTold
      <3> QED  BY <2>1 DEF WorkTypes
    <2> QED  BY <1>0, <2>1, <2>2
  <1> QED  BY <1>1, <1>3, <1>4, <1>5, <1>6, <1>7, <1>8, <1>9, <1>10, <1>11, <1>12, <1>13
           DEF E!Operations

\* Operations leave the flights alone, and the cache too, but for a switch that makes
\* its own change in it and for what throws it away.
LEMMA OperationsKeepCache ==
  ASSUME CacheInv, WorkInv, E!Operations  PROVE CacheInv'
  <1>1. CardTypes' /\ WorkTypes'
    BY OperationTypes, ManagerTypes DEF CacheInv, WorkInv
  <1>2. ASSUME CacheIsNew' /\ FlightIsNew' /\ NoneAhead' /\ floor' <= card'
        PROVE  CacheInv'
    BY <1>1, <1>2, ManagerTypes DEF CacheInv, E!TypeOK, CardTypes, WorkTypes
  <1>3. CASE E!Accept
    <2>1. /\ UNCHANGED <<card, generation, floor, flight, overtaken>>
          /\ overview' \in {overview, card}
      BY <1>3 DEF E!Accept, E!profiles
    <2>2. CacheIsNew' /\ FlightIsNew' = FlightIsNew /\ NoneAhead' = NoneAhead
      BY <2>1 DEF CacheInv, CacheIsNew, FlightIsNew, NoneAhead
    <2> QED  BY <1>2, <2>1, <2>2 DEF CacheInv
  <1>4. CASE E!Invalidate
    BY <1>2, <1>4, Raised DEF E!Invalidate
  <1>5. ASSUME UNCHANGED <<overview, generation, floor, flight, overtaken>>,
               card' = card \/ card' = card + 1
        PROVE  CacheInv'
    BY <1>2, <1>5, CacheAlone
  <1>6. CASE E!Command
    BY <1>5, <1>6 DEF E!Command, E!Change, E!overview, E!profiles
  <1>7. CASE E!Reload
    BY <1>5, <1>7 DEF E!Reload, E!profiles
  <1>8. CASE \/ \E kind \in E!Kind : E!Begin(kind)
             \/ E!Refuse \/ E!Open \/ E!Announce \/ E!Block \/ E!Release \/ E!GiveUp
             \/ E!Leave \/ \E t \in E!Token : E!Tell(t)
    BY <1>5, <1>8 DEF E!Begin, E!Refuse, E!Open, E!Announce, E!Block, E!Release, E!GiveUp,
                      E!Leave, E!Tell, E!overview, E!profiles
  <1> QED  BY <1>3, <1>4, <1>6, <1>7, <1>8 DEF E!Operations

ManagerInv == CacheInv /\ WorkInv

LEMMA ManagerInit ==
  ASSUME E!Init  PROVE ManagerInv
  <1>1. CardTypes /\ WorkTypes
    <2>1. 0 \in E!Version /\ 1 \in E!Generation /\ 0 \in 0..MaxToken
      BY ManagerAssumption DEF E!Version, E!Generation
    <2> QED  BY <2>1 DEF E!Init, CardTypes, WorkTypes
  <1>2. CacheIsNew /\ NoneAhead /\ floor <= card
    BY DEF E!Init, CacheIsNew, NoneAhead
  <1>3. FlightIsNew
    BY <1>1, ManagerAssumption DEF E!Init, FlightIsNew, E!Version, CardTypes
  <1>4. WorkKnows /\ E!NothingIsHeld
    BY DEF E!Init, WorkKnows, E!NothingIsHeld
  <1>5. E!EndIsTold
    BY DEF E!Init, E!EndIsTold, E!Token
  <1> QED  BY <1>1, <1>2, <1>3, <1>4, <1>5, ManagerTypes DEF ManagerInv, CacheInv, WorkInv

LEMMA ManagerNext ==
  ASSUME ManagerInv, E!Next  PROVE ManagerInv'
  <1> USE DEF ManagerInv
  <1>1. CASE E!Loads
    <2>1. UNCHANGED <<work, client, barrier, context, token, due, told>>
      BY <1>1, LoadTypes, ManagerTypes DEF CacheInv
    <2>2. WorkInv'
      BY <2>1 DEF WorkInv, WorkTypes, WorkKnows, E!NothingIsHeld, E!EndIsTold
    <2> QED  BY <1>1, <2>2, LoadsKeepCache
  <1>2. CASE E!Operations
    BY <1>2, ManagerTypes, OperationsKeepWork, OperationsKeepCache DEF CacheInv
  <1> QED  BY <1>1, <1>2 DEF E!Next

-----------------------------------------------------------------------------
(* The notifications of the eUICC *)

LEMMA LeastOf ==
  ASSUME NEW some \in SUBSET Nat, some # {}
  PROVE  \E n \in some : \A m \in some : n <= m
  <1>1. PICK n \in some : \A m \in some : ~ (<<m, n>> \in OpToRel(<, Nat))
    BY NatLessThanWellFounded, WFMin
  <1>2. \A m \in some : ~ (m < n)
    BY <1>1 DEF OpToRel
  <1> QED  BY <1>2

LEMMA GreatestOf ==
  ASSUME NEW top \in Nat, NEW some \in SUBSET (0..top), some # {}
  PROVE  N!Max(some) \in some /\ \A n \in some : n <= N!Max(some)
  <1> DEFINE away == {n \in Nat : top - n \in some}
  <1>1. away \subseteq Nat /\ away # {}
    <2>1. PICK i \in some : i \in 0..top
      OBVIOUS
    <2>2. top - i \in Nat /\ top - (top - i) = i
      BY <2>1
    <2> QED  BY <2>1, <2>2
  <1>2. PICK n \in away : \A m \in away : n <= m
    BY <1>1, LeastOf
  <1>3. \A j \in some : top - n >= j
    <2>1. SUFFICES ASSUME NEW j \in some  PROVE top - n >= j
      OBVIOUS
    <2>2. j \in 0..top /\ n \in Nat
      OBVIOUS
    <2>3. top - j \in Nat /\ top - (top - j) = j
      BY <2>2
    <2>4. n <= top - j
      BY <1>2, <2>3
    <2> QED  BY <2>2, <2>4
  <1>4. top - n \in some
    OBVIOUS
  <1>5. N!Max(some) \in some /\ \A j \in some : N!Max(some) >= j
    BY <1>3, <1>4 DEF N!Max
  <1>6. \A j \in some : j \in Nat
    OBVIOUS
  <1> QED  BY <1>5, <1>6

\* What is on the card was issued, and so was what the server has got.
NoteTypes ==
    /\ installed \subseteq Profiles /\ issued \in 0..MaxSeq
    /\ pending \subseteq N!Note /\ \A n \in pending : n.seq <= issued
    /\ received \subseteq 1..issued /\ withheld \subseteq 1..issued
Changing ==
    [kind : {"download", "delete"}, profile : Profiles, pc : {"act", "find", "send"},
     listed : BOOLEAN, own : Nat, found : Nat, todo : {{}}, baseline : Nat]
Listing ==
    [kind : {"list"}, pc : {"next", "send", "remove"}, todo : SUBSET N!Note, found : Nat]
\* A download or a deletion that has listed the card before finds only its own
\* notification, and a listing removes only what it has sent.
ChangeKnows ==
    op \in Changing =>
        /\ op.pc = "act" /\ op.listed =>
             \A n \in pending : op.kind = "delete" \/ n.event = "install" => n.seq <= op.baseline
        /\ op.pc = "find" /\ op.listed /\ op.own > 0 =>
             \A n \in pending : N!Matches(n) => n.seq = op.own
        /\ op.pc = "send" =>
             op.found \in 1..issued /\ (op.listed /\ op.own > 0 => op.found = op.own)
ListKnows ==
    op \in Listing =>
        /\ \A n \in op.todo : n.seq <= issued
        /\ op.pc \in {"send", "remove"} => op.found \in 1..issued
        /\ op.pc = "remove" => op.found \in received
NoteInv ==
    /\ NoteTypes
    /\ op # Idle => op \in Changing \cup Listing /\ ChangeKnows /\ ListKnows
    /\ N!NotificationsAreKept

LEMMA NoteFacts ==
  /\ \A n \in N!Note : n.seq \in 1..MaxSeq
  /\ \A o \in Changing : o \notin Listing
  BY DEF N!Note, Changing, Listing

\* What the card issues is new, and on it.
LEMMA Issued ==
  ASSUME NoteTypes, N!NotificationsAreKept, NEW e \in N!Event, NEW p \in Profiles,
         N!Issue(e, p), UNCHANGED <<received, clean, withheld>>, installed' \subseteq Profiles
  PROVE  /\ NoteTypes' /\ N!NotificationsAreKept'
         /\ \A n \in pending' \ pending : n.seq = issued' /\ issued' > issued
         /\ issued' >= issued
  <1> USE DEF NoteTypes
  <1>1. issued \in Nat /\ issued <= MaxSeq
    BY NotesAssumption
  <1>2. CASE UNCHANGED <<issued, pending>>
    BY <1>1, <1>2 DEF N!NotificationsAreKept
  <1>3. CASE /\ issued < MaxSeq /\ issued' = issued + 1
             /\ pending' = pending \cup {[seq |-> issued + 1, event |-> e, profile |-> p]}
    <2>1. [seq |-> issued + 1, event |-> e, profile |-> p] \in N!Note
      BY <1>1, <1>3, NotesAssumption DEF N!Note
    <2>2. \A n \in pending : n.seq \in 1..MaxSeq
      BY NoteFacts
    <2>3. NoteTypes'
      <3>1. \A n \in pending' : n.seq <= issued'
        BY <1>1, <1>3, <2>2
      <3>2. /\ issued' \in 0..MaxSeq /\ received' \subseteq 1..issued'
            /\ withheld' \subseteq 1..issued'
        BY <1>1, <1>3, NotesAssumption
      <3> QED  BY <1>3, <2>1, <3>1, <3>2
    <2>4. \A seq \in 1..issued' : seq \in received' \/ \E n \in pending' : n.seq = seq
      <3>1. SUFFICES ASSUME NEW seq \in 1..issued'
                     PROVE  seq \in received' \/ \E n \in pending' : n.seq = seq
        OBVIOUS
      <3>2. seq \in 1..issued \/ seq = issued + 1
        BY <1>1, <1>3
      <3>3. CASE seq \in 1..issued
        BY <1>3, <3>3 DEF N!NotificationsAreKept
      <3>4. CASE seq = issued + 1
        <4>1. [seq |-> issued + 1, event |-> e, profile |-> p].seq = seq
          BY <3>4
        <4> QED  BY <1>3, <4>1
      <3> QED  BY <3>2, <3>3, <3>4
    <2> QED  BY <1>1, <1>3, <2>3, <2>4 DEF N!NotificationsAreKept
  <1> QED  BY <1>2, <1>3 DEF N!Issue

LEMMA LargestIs ==
  ASSUME NEW some \in SUBSET N!Note
  PROVE  N!Largest(some) \in Nat /\ \A n \in some : n.seq <= N!Largest(some)
  <1> DEFINE seqs == {n.seq : n \in some} \cup {0}
  <1>1. seqs \in SUBSET (0..MaxSeq) /\ seqs # {}
    BY NoteFacts, NotesAssumption
  <1>2. N!Max(seqs) \in seqs /\ \A i \in seqs : i <= N!Max(seqs)
    BY <1>1, GreatestOf, NotesAssumption
  <1> QED  BY <1>1, <1>2, NotesAssumption DEF N!Largest

LEMMA ChangeBegins ==
  ASSUME NoteInv, NEW kind \in {"download", "delete"}, NEW p \in Profiles, N!Begin(kind, p)
  PROVE  NoteInv'
  <1> USE DEF NoteInv
  <1>1. UNCHANGED <<installed, issued, pending, received, clean, withheld>> /\ pending \subseteq N!Note
    BY DEF N!history, N!Begin, N!card, NoteTypes
  <1>2. NoteTypes' /\ N!NotificationsAreKept'
    BY <1>1 DEF NoteTypes, N!NotificationsAreKept
  <1> DEFINE installs == {n \in pending : n.event = "install"}
  <1>3. PICK listed \in BOOLEAN :
          op' = [kind |-> kind, profile |-> p, pc |-> "act", listed |-> listed,
                 own |-> 0, found |-> 0, todo |-> {},
                 baseline |-> IF ~listed THEN 0
                              ELSE IF kind = "delete" THEN N!Largest(pending)
                              ELSE N!Largest(installs)]
    BY DEF N!Begin
  <1>4. /\ N!Largest(pending) \in Nat /\ \A n \in pending : n.seq <= N!Largest(pending)
        /\ N!Largest(installs) \in Nat /\ \A n \in installs : n.seq <= N!Largest(installs)
    BY <1>1, LargestIs
  <1>5. op' \in Changing
    BY <1>3, <1>4 DEF Changing
  <1>6. ChangeKnows'
    BY <1>1, <1>3, <1>4 DEF ChangeKnows
  <1>7. ListKnows'
    BY <1>5, NoteFacts DEF ListKnows
  <1> QED  BY <1>2, <1>5, <1>6, <1>7

LEMMA ChangeStages ==
  ASSUME NoteInv, NEW stage, N!At({"download", "delete"}, stage)
  PROVE  op # Idle /\ op \in Changing /\ op \notin Listing /\ op.pc = stage /\ ChangeKnows
  BY NoteFacts DEF NoteInv, N!At, Changing, Listing

LEMMA ListStages ==
  ASSUME NoteInv, NEW stage, N!At({"list"}, stage)
  PROVE  op # Idle /\ op \in Listing /\ op \notin Changing /\ op.pc = stage /\ ListKnows
  BY NoteFacts DEF NoteInv, N!At, Changing, Listing

\* A change that the card has made looks for its notification.
LEMMA ChangeDone ==
  ASSUME NoteInv, op \in Changing, op # Idle, op.pc = "act", NEW e \in {"install", "delete"},
         e = "delete" <=> op.kind = "delete", N!Issue(e, op.profile),
         UNCHANGED <<received, clean, withheld>>, installed' \subseteq Profiles,
         NEW base \in Nat, base >= op.baseline,
         op' = [op EXCEPT !.pc = "find", !.own = N!OwnSeq, !.baseline = base]
  PROVE  NoteInv'
  <1> USE DEF NoteInv
  <1>1. op.profile \in Profiles /\ e \in N!Event
    BY DEF Changing, N!Event
  <1>2. /\ NoteTypes' /\ N!NotificationsAreKept'
        /\ \A n \in pending' \ pending : n.seq = issued' /\ issued' > issued
        /\ issued' >= issued
    BY <1>1, Issued
  <1>3. issued \in Nat /\ issued' \in Nat /\ N!OwnSeq \in Nat
    BY <1>2, NotesAssumption DEF NoteTypes, N!OwnSeq
  <1>4. op' \in Changing /\ op'.pc = "find" /\ op'.own = N!OwnSeq /\ op'.listed = op.listed
        /\ op'.kind = op.kind /\ op'.baseline = base
    BY <1>3 DEF Changing
  <1>5. ASSUME op.listed, N!OwnSeq > 0, NEW n \in pending', N!Matches(n)'
        PROVE  n.seq = N!OwnSeq
    <2>1. issued' > issued /\ N!OwnSeq = issued'
      BY <1>3, <1>5 DEF N!OwnSeq
    <2>2. n.seq > base /\ (op.kind = "delete" \/ n.event = "install")
      BY <1>4, <1>5 DEF N!Matches
    <2>3. n.seq \in Nat /\ n.seq <= issued'
      BY <1>2, NoteFacts, NotesAssumption DEF NoteTypes
    <2>4. CASE n \in pending
      <3>1. n.seq <= op.baseline
        BY <1>5, <2>2, <2>4 DEF ChangeKnows
      <3> QED  BY <2>2, <2>3, <3>1 DEF Changing
    <2>5. CASE n \notin pending
      BY <1>2, <2>1, <2>5
    <2> QED  BY <2>4, <2>5
  <1>6. ChangeKnows'
    BY <1>4, <1>5 DEF ChangeKnows
  <1>7. ListKnows'
    BY <1>4, NoteFacts DEF ListKnows
  <1> QED  BY <1>2, <1>4, <1>6, <1>7

LEMMA ChangeNext ==
  ASSUME NoteInv,
         N!ActFails \/ N!Delete \/ N!Install \/ N!InstallUnsure \/ N!Find \/ N!NotSent \/ N!Send
  PROVE  NoteInv'
  <1> USE DEF NoteInv
  <1>1. CASE N!ActFails \/ N!NotSent
    BY <1>1 DEF N!history, N!ActFails, N!NotSent, N!Answer, N!card, NoteTypes, N!NotificationsAreKept
  <1>2. CASE N!Delete
    <2>1. op # Idle /\ op \in Changing /\ op.pc = "act" /\ op.kind = "delete"
      BY <1>2, ChangeStages DEF N!Delete, N!At
    <2>2. /\ N!Issue("delete", op.profile) /\ UNCHANGED <<received, clean, withheld>>
          /\ installed' \subseteq Profiles
      BY <1>2 DEF N!history, N!Delete, NoteTypes
    <2>3. op.baseline \in Nat /\ op.baseline >= op.baseline
      BY <2>1 DEF Changing
    <2>4. op' = [op EXCEPT !.pc = "find", !.own = N!OwnSeq, !.baseline = op.baseline]
      BY <1>2, <2>1 DEF N!Delete, Changing
    <2> QED  BY <2>1, <2>2, <2>3, <2>4, ChangeDone
  <1>3. CASE N!Install \/ N!InstallUnsure
    <2>1. op # Idle /\ op \in Changing /\ op.pc = "act" /\ op.kind = "download"
      BY <1>3, ChangeStages DEF N!Install, N!InstallUnsure, N!At, Changing
    <2>2. /\ N!Issue("install", op.profile) /\ UNCHANGED <<received, clean, withheld>>
          /\ installed' \subseteq Profiles
      BY <1>3, <2>1 DEF N!history, N!Install, N!InstallUnsure, NoteTypes, Changing
    <2>3. op.baseline \in Nat
      BY <2>1 DEF Changing
    <2>4. CASE op' = Idle
      <3>1. NoteTypes' /\ N!NotificationsAreKept'
        BY <2>1, <2>2, Issued DEF Changing, N!Event
      <3> QED  BY <2>4, <3>1
    <2>5. CASE op' = [op EXCEPT !.pc = "find", !.own = N!OwnSeq]
      <3>1. op' = [op EXCEPT !.pc = "find", !.own = N!OwnSeq, !.baseline = op.baseline]
        BY <2>1, <2>5 DEF Changing
      <3>2. op.baseline >= op.baseline
        BY <2>3
      <3> QED  BY <2>1, <2>2, <2>3, <3>1, <3>2, ChangeDone
    <2>6. CASE N!Install
      <3> DEFINE least == IF N!OwnSeq > 0 THEN N!OwnSeq - 1 ELSE 0
                 both == {op.baseline, least}
      <3>1. issued' \in Nat
        BY <2>1, <2>2, Issued, NotesAssumption DEF Changing, N!Event, NoteTypes
      <3>2. N!OwnSeq \in Nat /\ least \in Nat
        <4>1. N!OwnSeq \in Nat
          BY <3>1 DEF N!OwnSeq
        <4> QED  BY <4>1
      <3>3. PICK top \in Nat : both \subseteq 0..top
        <4>1. CASE least <= op.baseline
          BY <2>3, <3>2, <4>1
        <4>2. CASE op.baseline <= least
          BY <2>3, <3>2, <4>2
        <4> QED  BY <2>3, <3>2, <4>1, <4>2
      <3>4. N!Max(both) \in both /\ op.baseline <= N!Max(both)
        BY <3>3, GreatestOf
      <3>5. op' = [op EXCEPT !.pc = "find", !.own = N!OwnSeq, !.baseline = N!Max(both)]
        BY <2>1, <2>6 DEF N!Install, Changing
      <3>6. N!Max(both) \in Nat /\ N!Max(both) >= op.baseline
        BY <2>3, <3>2, <3>4
      <3> QED  BY <2>1, <2>2, <3>5, <3>6, ChangeDone
    <2> QED  BY <1>3, <2>4, <2>5, <2>6 DEF N!InstallUnsure
  <1>4. CASE N!Find
    <2>1. op # Idle /\ op \in Changing /\ op.pc = "find"
      BY <1>4, ChangeStages DEF N!Find
    <2>2. PICK n \in pending : N!Matches(n) /\ op' = [op EXCEPT !.pc = "send", !.found = n.seq]
      BY <1>4 DEF N!Find
    <2>3. UNCHANGED <<installed, issued, pending, received, clean, withheld>>
      BY <1>4 DEF N!history, N!Find, N!card
    <2>4. n.seq \in 1..issued /\ n.seq \in Nat
      BY NoteFacts, NotesAssumption DEF NoteTypes
    <2>5. /\ op' \in Changing /\ op'.pc = "send" /\ op'.found = n.seq
          /\ op'.listed = op.listed /\ op'.own = op.own
      BY <2>1, <2>2, <2>4 DEF Changing
    <2>6. ChangeKnows'
      BY <2>1, <2>2, <2>3, <2>4, <2>5 DEF ChangeKnows
    <2>7. ListKnows'
      BY <2>5, NoteFacts DEF ListKnows
    <2> QED  BY <2>3, <2>5, <2>6, <2>7 DEF NoteTypes, N!NotificationsAreKept
  <1>5. CASE N!Send
    <2>1. op # Idle /\ op \in Changing /\ op.pc = "send" /\ ChangeKnows /\ op' = Idle
      BY <1>5, ChangeStages DEF N!Send, N!Answer
    <2>2. UNCHANGED <<installed, issued, pending>>
      BY <1>5 DEF N!Send, N!card
    <2>3. received' \in {received, received \cup {op.found}} /\ op.found \in 1..issued
      BY <1>5, <2>1 DEF N!Send, N!Delivered, N!Undelivered, ChangeKnows
    <2> DEFINE own == {seq \in {op.own} : op.listed /\ seq > 0}
    <2>4. own \subseteq {op.found}
      BY <2>1 DEF ChangeKnows
    <2>5. /\ clean' \subseteq received' \cup withheld'
          /\ withheld' \subseteq withheld \cup own
      <3>1. CASE N!Delivered(op.found) /\ clean' = clean \cup own /\ withheld' = withheld
        BY <2>4, <3>1 DEF N!Delivered, N!NotificationsAreKept
      <3>2. CASE clean' = clean /\ withheld' = withheld
        BY <2>3, <3>2 DEF N!NotificationsAreKept
      <3>3. CASE received' = received /\ clean' = clean \cup own /\ withheld' = withheld \cup own
        BY <3>3 DEF N!NotificationsAreKept
      <3> QED  BY <1>5, <3>1, <3>2, <3>3 DEF N!Send, N!Own, N!Answer, N!history
    <2>7. NoteTypes'
      BY <2>2, <2>3, <2>4, <2>5 DEF NoteTypes
    <2>6. N!NotificationsAreKept'
      BY <2>2, <2>3, <2>5 DEF N!NotificationsAreKept
    <2> QED  BY <2>1, <2>6, <2>7
  <1> QED  BY <1>1, <1>2, <1>3, <1>4, <1>5

LEMMA ListNext ==
  ASSUME NoteInv, N!ListNotifications \/ N!CleanOne \/ N!CleanSend \/ N!CleanRemove \/ N!ListEnds
  PROVE  NoteInv'
  <1> USE DEF NoteInv
  <1>1. CASE N!ListEnds
    BY <1>1 DEF N!history, N!ListEnds, N!Answer, N!card, NoteTypes, N!NotificationsAreKept
  <1>2. CASE N!ListNotifications
    <2>1. PICK some \in SUBSET pending :
            op' = [kind |-> "list", pc |-> "next", todo |-> some, found |-> 0]
      BY <1>2 DEF N!ListNotifications
    <2>2. UNCHANGED <<installed, issued, pending, received, clean, withheld>>
      BY <1>2 DEF N!history, N!ListNotifications, N!card
    <2>3. op' \in Listing
      BY <2>1 DEF Listing, NoteTypes
    <2>4. ListKnows'
      BY <2>1, <2>2 DEF ListKnows, NoteTypes
    <2>5. ChangeKnows'
      BY <2>3, NoteFacts DEF ChangeKnows
    <2> QED  BY <2>2, <2>3, <2>4, <2>5 DEF NoteTypes, N!NotificationsAreKept
  <1>3. CASE N!CleanOne
    <2>1. op # Idle /\ op \in Listing /\ op.pc = "next" /\ ListKnows
      BY <1>3, ListStages DEF N!CleanOne
    <2>2. PICK n \in op.todo :
            op' = [op EXCEPT !.pc = "send", !.found = n.seq, !.todo = op.todo \ {n}]
      BY <1>3 DEF N!CleanOne
    <2>3. UNCHANGED <<installed, issued, pending, received, clean, withheld>>
      BY <1>3 DEF N!history, N!CleanOne, N!card
    <2>4. n \in N!Note /\ n.seq <= issued
      BY <2>1 DEF Listing, ListKnows
    <2>5. n.seq \in 1..issued /\ n.seq \in Nat
      BY <2>4, NoteFacts, NotesAssumption DEF NoteTypes
    <2>6. /\ op' \in Listing /\ op'.pc = "send" /\ op'.found = n.seq
          /\ op'.todo = op.todo \ {n}
      BY <2>1, <2>2, <2>5 DEF Listing
    <2>7. ListKnows'
      BY <2>1, <2>3, <2>5, <2>6 DEF ListKnows
    <2>8. ChangeKnows'
      BY <2>6, NoteFacts DEF ChangeKnows
    <2> QED  BY <2>3, <2>6, <2>7, <2>8 DEF NoteTypes, N!NotificationsAreKept
  <1>4. CASE N!CleanSend
    <2>1. op # Idle /\ op \in Listing /\ op.pc = "send" /\ ListKnows
      BY <1>4, ListStages DEF N!CleanSend
    <2>2. UNCHANGED <<installed, issued, pending, clean, withheld>>
      BY <1>4 DEF N!history, N!CleanSend, N!card
    <2>3. received' \in {received, received \cup {op.found}} /\ op.found \in 1..issued
      BY <1>4, <2>1 DEF N!history, N!CleanSend, N!Delivered, N!Undelivered, ListKnows
    <2>4. PICK stage \in {"remove", "next"} :
            /\ op' = [op EXCEPT !.pc = stage]
            /\ stage = "remove" => op.found \in received'
      BY <1>4 DEF N!history, N!CleanSend, N!Delivered, N!GoTo
    <2>5. /\ op' \in Listing /\ op'.pc = stage /\ op'.found = op.found /\ op'.todo = op.todo
      BY <2>1, <2>4 DEF Listing
    <2>6. ListKnows'
      BY <2>1, <2>2, <2>3, <2>4, <2>5 DEF ListKnows
    <2>7. ChangeKnows'
      BY <2>5, NoteFacts DEF ChangeKnows
    <2>8. NoteTypes' /\ N!NotificationsAreKept'
      BY <2>2, <2>3 DEF NoteTypes, N!NotificationsAreKept
    <2> QED  BY <2>5, <2>6, <2>7, <2>8
  <1>5. CASE N!CleanRemove
    <2>1. op # Idle /\ op \in Listing /\ op.pc = "remove" /\ ListKnows
      BY <1>5, ListStages DEF N!CleanRemove
    <2>2. /\ UNCHANGED <<installed, issued, received, clean, withheld>>
          /\ pending' \subseteq pending /\ op.found \in received
          /\ \A n \in pending : n.seq # op.found => n \in pending'
      BY <1>5, <2>1 DEF N!history, N!CleanRemove, ListKnows
    <2>3. op' = [op EXCEPT !.pc = "next"]
      BY <1>5 DEF N!CleanRemove, N!GoTo
    <2>4. op' \in Listing /\ op'.pc = "next" /\ op'.found = op.found /\ op'.todo = op.todo
      BY <2>1, <2>3 DEF Listing
    <2>5. ListKnows'
      BY <2>1, <2>2, <2>4 DEF ListKnows
    <2>6. ChangeKnows'
      BY <2>4, NoteFacts DEF ChangeKnows
    <2>7. NoteTypes' /\ N!NotificationsAreKept'
      BY <2>2 DEF NoteTypes, N!NotificationsAreKept
    <2> QED  BY <2>4, <2>5, <2>6, <2>7
  <1> QED  BY <1>1, <1>2, <1>3, <1>4, <1>5

LEMMA NoteInit ==
  ASSUME N!Init  PROVE NoteInv
  BY NotesAssumption DEF N!Init, NoteInv, NoteTypes, N!NotificationsAreKept

LEMMA NoteNext ==
  ASSUME NoteInv, N!Next  PROVE NoteInv'
  <1>1. ASSUME NEW e \in N!Event, NEW p \in Profiles, N!Switch(e, p)  PROVE NoteInv'
    <2>1. /\ N!Issue(e, p) /\ op = Idle /\ op' = op
          /\ UNCHANGED <<installed, received, clean, withheld>>
      BY <1>1 DEF N!history, N!Switch
    <2>2. NoteTypes' /\ N!NotificationsAreKept'
      BY <2>1, Issued DEF NoteInv, NoteTypes
    <2> QED  BY <2>1, <2>2 DEF NoteInv
  <1>2. ASSUME NEW seq \in 1..MaxSeq, N!Retry(seq)  PROVE NoteInv'
    <2>1. /\ op = Idle /\ UNCHANGED <<installed, issued, pending, op, clean, withheld>>
          /\ received' \in {received, received \cup {seq}}
      BY <1>2 DEF N!history, N!Retry, N!card, N!Delivered, N!Undelivered
    <2>2. seq <= issued
      BY <1>2 DEF N!history, N!Retry, NoteInv, NoteTypes
    <2>3. seq \in 1..issued
      BY <2>2, NotesAssumption DEF NoteInv, NoteTypes
    <2> QED  BY <2>1, <2>3 DEF NoteInv, NoteTypes, N!NotificationsAreKept
  <1> QED  BY <1>1, <1>2, ChangeBegins, ChangeNext, ListNext DEF N!Next

\* The types that NoteInv gives are those of EsimNotifications.
LEMMA NotesKept ==
  ASSUME NoteInv  PROVE N!TypeOK /\ N!NotificationsAreKept
  <1>1. clean \subseteq 1..issued /\ received \subseteq 1..issued
    BY DEF NoteInv, NoteTypes, N!NotificationsAreKept
  <1>2. op # Idle => op.pc \in {"act", "find", "send", "next", "remove"}
    BY DEF NoteInv, Changing, Listing
  <1> QED  BY <1>1, <1>2 DEF NoteInv, NoteTypes, N!TypeOK

-----------------------------------------------------------------------------
(* What the host deploys *)

Pushing == {"daemon", "in daemon", "key", "in key", "script", "in script"}
Checking == {"asking", "link", "marker", "start"}
DeployTypes ==
    /\ D!TypeOK
    /\ once \in BOOLEAN /\ voice \in BOOLEAN /\ guard \in BOOLEAN /\ sentinel \in BOOLEAN
    /\ req.was \in BOOLEAN

\* Where a request is tells which one it is, and how far it came: an arming has the
\* files that it has pushed, and the key unless a late start script took it.
Whose ==
    /\ req = [op |-> req.op, at |-> req.at, was |-> req.was]
    /\ req.at \in Pushing \cup Checking => req.op \in D!Arm
    /\ req.at \in {"sentinel", "in sentinel"} => req.op = "sentinel"
    /\ req.at = "pushed" => req.op \in D!Arm \cup {"sentinel"}
    /\ req.at = "files" => req.op = "uninstall" /\ ~once /\ ~voice
    /\ req.op = "none" => req = D!NoRequest
Arrived ==
    /\ req.at \in {"key", "in key", "script", "in script"} \cup Checking => file["daemon"] = "whole"
    /\ req.at \in Checking => file["script"] = "whole"
    /\ req.at \in {"script", "in script"} \cup Checking => "key" \in left \/ key = D!KeyOf(req.op)
    /\ req.at = "pushed" /\ req.op \in D!Arm =>
         /\ file["daemon"] = "whole" /\ file["script"] = "whole"
         /\ "key" \in left \/ key = D!KeyOf(req.op)
    /\ req.at = "pushed" /\ req.op = "sentinel" => file["sentinel"] = "whole"
\* ArmedIsWhole, between the requests and, of the sentinel and the daemons in /tmp,
\* at every step of one.
KitIsWhole ==
    left \cap {"kit", "key"} = {} /\ (req.op \notin D!Arm \/ req.at \in {"begun", "alone"}) =>
        /\ once => D!Kit({"daemon", "script"}, "once")
        /\ voice => D!Kit({"daemon", "script"}, "stable")
SentinelIsWhole ==
    "sentinel" \notin left /\ guard /\ req.at # "in sentinel" => file["sentinel"] = "whole"
NoneLeftInTemp ==
    "temp" \notin left => temp = {} \/ (req.at = "trying" /\ temp = {req.op})
DeployInv ==
    DeployTypes /\ Whose /\ Arrived /\ KitIsWhole /\ SentinelIsWhole /\ NoneLeftInTemp

LEMMA Goes ==
  ASSUME DeployInv, NEW at, req' = [req EXCEPT !.at = at]
  PROVE  req'.op = req.op /\ req'.at = at /\ req'.was = req.was
         /\ req' = [op |-> req'.op, at |-> req'.at, was |-> req'.was]
  <1> DEFINE r == [op |-> req.op, at |-> req.at, was |-> req.was]
  <1>1. req = r
    BY DEF DeployInv, Whose
  <1>2. req' = [r EXCEPT !.at = at]
    BY <1>1
  <1>3. req' = [op |-> req.op, at |-> at, was |-> req.was]
    BY <1>2
  <1> QED  BY <1>3

\* Nobody has requested anything.
LEMMA NoneAsked ==
  /\ D!NoRequest.op = "none" /\ D!NoRequest.at = "done" /\ D!NoRequest.was = FALSE
  /\ D!NoRequest = [op |-> D!NoRequest.op, at |-> D!NoRequest.at, was |-> D!NoRequest.was]
  /\ "none" \notin D!Arm
  BY DEF D!NoRequest, D!Arm

\* A request is over: what it leaves whole stays so without it.
LEMMA Over ==
  ASSUME DeployInv, D!Done
  PROVE  Whose' /\ Arrived' /\ req'.was \in BOOLEAN
         /\ req'.op \notin D!Arm /\ req'.op = "none" /\ req'.at = "done"
  BY NoneAsked DEF D!Done, Whose, Arrived, Pushing, Checking, D!Arm

LEMMA ArmBegins ==
  ASSUME DeployInv,
         \/ \E o \in D!Arm \cup D!Try \cup {"uninstall", "sentinel", "unsentinel"} : D!Begin(o)
         \/ D!StopSentinel \/ D!StopOld
  PROVE  DeployInv'
  <1> USE DEF DeployInv, DeployTypes, D!TypeOK, D!flash, D!running
  <1>1. ASSUME NEW o \in D!Arm \cup D!Try \cup {"uninstall", "sentinel", "unsentinel"}, D!Begin(o)
        PROVE  DeployInv'
    <2>1. /\ req = D!NoRequest /\ req' = [op |-> o, at |-> "begun", was |-> FALSE]
          /\ UNCHANGED <<file, key, once, voice, guard, link, sentinelLink, temp, sentinel,
                         voiceDaemon, launcher, left>>
      BY <1>1 DEF D!Begin
    <2>2. /\ req'.op = o /\ req'.at = "begun" /\ req'.was = FALSE /\ o # "none"
          /\ req' = [op |-> req'.op, at |-> req'.at, was |-> req'.was]
      BY <2>1 DEF D!Arm, D!Try
    <2>5. DeployTypes'
      BY <2>1, <2>2
    <2>6. Whose' /\ Arrived'
      BY <2>2 DEF Whose, Arrived, Pushing, Checking
    <2>3. KitIsWhole'
      BY <2>1, NoneAsked DEF KitIsWhole, D!Kit
    <2>4. SentinelIsWhole' /\ NoneLeftInTemp'
      BY <2>1, NoneAsked DEF SentinelIsWhole, NoneLeftInTemp
    <2> QED  BY <2>3, <2>4, <2>5, <2>6
  <1>2. CASE D!StopSentinel
    <2>1. /\ req' = [req EXCEPT !.at = "alone", !.was = sentinel] /\ req.at = "begun"
          /\ req.op \in D!Arm \cup {"try voice"} /\ sentinel' = FALSE
          /\ UNCHANGED <<file, key, once, voice, guard, link, sentinelLink, temp,
                         voiceDaemon, launcher, left>>
      BY <1>2 DEF D!StopSentinel
    <2>2. /\ req'.op = req.op /\ req'.at = "alone" /\ req'.was = sentinel
          /\ req' = [op |-> req'.op, at |-> req'.at, was |-> req'.was]
      <3> DEFINE r == [op |-> req.op, at |-> req.at, was |-> req.was]
      <3>1. req = r
        BY DEF Whose
      <3>2. req' = [r EXCEPT !.at = "alone", !.was = sentinel]
        BY <2>1, <3>1
      <3>3. req' = [op |-> req.op, at |-> "alone", was |-> sentinel]
        BY <3>2
      <3> QED  BY <3>3
    <2>3. DeployTypes' /\ Whose' /\ Arrived'
      BY <2>1, <2>2 DEF Whose, Arrived, Pushing, Checking, D!Arm
    <2>4. KitIsWhole'
      BY <2>1, <2>2 DEF KitIsWhole, D!Kit
    <2>5. SentinelIsWhole' /\ NoneLeftInTemp'
      BY <2>1, <2>2 DEF SentinelIsWhole, NoneLeftInTemp
    <2> QED  BY <2>3, <2>4, <2>5
  <1>3. CASE D!StopOld
    <2>1. /\ req.at = "alone" /\ req.op \in D!Arm /\ temp' = temp \ {"try voice"}
          /\ voiceDaemon' = "no"
          /\ UNCHANGED <<file, key, once, voice, guard, link, sentinelLink, sentinel,
                         launcher, left>>
      BY <1>3 DEF D!StopOld
    <2>2. /\ req'.op = req.op /\ req'.at = "daemon" /\ req'.was = req.was
          /\ req' = [op |-> req'.op, at |-> req'.at, was |-> req'.was]
      BY <1>3, Goes DEF D!StopOld, D!Go
    <2>3. DeployTypes' /\ Whose' /\ Arrived'
      BY <2>1, <2>2 DEF Whose, Arrived, Pushing, Checking, D!Arm
    <2>4. KitIsWhole' /\ SentinelIsWhole' /\ NoneLeftInTemp'
      BY <2>1, <2>2 DEF KitIsWhole, SentinelIsWhole, NoneLeftInTemp
    <2> QED  BY <2>3, <2>4
  <1> QED  BY <1>1, <1>2, <1>3

LEMMA PushStages ==
  /\ D!During["daemon"] = "in daemon" /\ D!During["key"] = "in key"
  /\ D!During["script"] = "in script" /\ D!During["sentinel"] = "in sentinel"
  /\ D!After["daemon"] = "key" /\ D!After["key"] = "script"
  /\ D!After["script"] = "pushed" /\ D!After["sentinel"] = "pushed"
  BY DEF D!During, D!After

\* A file is cut short while it is pushed, and whole after it.
LEMMA PushGoesOn ==
  ASSUME DeployInv, NEW f \in D!Pushed, D!Pushes(f) \/ D!PushEnds(f)
  PROVE  DeployInv'
  <1> USE DEF DeployInv, DeployTypes, D!TypeOK, D!running
  <1>1. CASE D!Pushes(f)
    <2>1. /\ req.at = f /\ D!Torn(f)
          /\ UNCHANGED <<once, voice, guard, link, sentinelLink, temp, sentinel,
                         voiceDaemon, launcher, left>>
      BY <1>1 DEF D!Pushes
    <2>2. /\ req'.op = req.op /\ req'.at = D!During[f] /\ req'.was = req.was
          /\ req' = [op |-> req'.op, at |-> req'.at, was |-> req'.was]
      BY <1>1, Goes DEF D!Pushes
    <2>3. CASE f = "key"
      <3>1. key' = "part" /\ file' = file /\ req'.at = "in key" /\ req.op \in D!Arm
        BY <2>1, <2>2, <2>3, PushStages DEF D!Torn, Whose, Pushing
      <3>2. Whose'
        BY <2>1, <2>2, <2>3, <3>1 DEF Whose, Pushing, Checking, D!Arm
      <3>3. Arrived'
        BY <2>1, <2>2, <2>3, <3>1 DEF Whose, Arrived, Pushing, Checking, D!KeyOf, D!Arm
      <3>4. KitIsWhole' /\ SentinelIsWhole' /\ NoneLeftInTemp'
        BY <2>1, <2>2, <2>3, <3>1 DEF KitIsWhole, D!Kit, SentinelIsWhole, NoneLeftInTemp, D!Arm
      <3>5. DeployTypes'
        BY <2>1, <2>2, <2>3, <3>1 DEF D!KeyOf
      <3> QED  BY <3>2, <3>3, <3>4, <3>5
    <2>4. CASE f = "daemon"
      <3>1. /\ file' = [file EXCEPT !["daemon"] = "part"] /\ key' = key /\ req'.at = "in daemon"
            /\ req.op \in D!Arm
        BY <2>1, <2>2, <2>4, PushStages DEF D!Torn, Whose, Pushing
      <3>2. Whose'
        BY <2>1, <2>2, <2>4, <3>1 DEF Whose, Pushing, Checking, D!Arm
      <3>3. Arrived'
        BY <2>1, <2>2, <2>4, <3>1 DEF Whose, Arrived, Pushing, Checking, D!KeyOf, D!Arm
      <3>4. KitIsWhole' /\ SentinelIsWhole' /\ NoneLeftInTemp'
        BY <2>1, <2>2, <2>4, <3>1 DEF KitIsWhole, D!Kit, SentinelIsWhole, NoneLeftInTemp, D!Arm
      <3>5. DeployTypes'
        BY <2>1, <2>2, <2>4, <3>1 DEF D!KeyOf
      <3> QED  BY <3>2, <3>3, <3>4, <3>5
    <2>5. CASE f = "script"
      <3>1. /\ file' = [file EXCEPT !["script"] = "part"] /\ key' = key /\ req'.at = "in script"
            /\ req.op \in D!Arm
        BY <2>1, <2>2, <2>5, PushStages DEF D!Torn, Whose, Pushing
      <3>2. Whose'
        BY <2>1, <2>2, <2>5, <3>1 DEF Whose, Pushing, Checking, D!Arm
      <3>3. Arrived'
        BY <2>1, <2>2, <2>5, <3>1 DEF Whose, Arrived, Pushing, Checking, D!KeyOf, D!Arm
      <3>4. KitIsWhole' /\ SentinelIsWhole' /\ NoneLeftInTemp'
        BY <2>1, <2>2, <2>5, <3>1 DEF KitIsWhole, D!Kit, SentinelIsWhole, NoneLeftInTemp, D!Arm
      <3>5. DeployTypes'
        BY <2>1, <2>2, <2>5, <3>1 DEF D!KeyOf
      <3> QED  BY <3>2, <3>3, <3>4, <3>5
    <2>6. CASE f = "sentinel"
      <3>1. /\ file' = [file EXCEPT !["sentinel"] = "part"] /\ key' = key /\ req'.at = "in sentinel"
            /\ req.op = "sentinel"
        <4>1. file' = [file EXCEPT !["sentinel"] = "part"] /\ key' = key
          BY <2>1, <2>6 DEF D!Torn
        <4>2. req'.at = "in sentinel"
          BY <2>1, <2>2, <2>6, PushStages
        <4>3. req.op = "sentinel"
          BY <2>1, <2>2, <2>6, PushStages DEF Whose
        <4> QED  BY <4>1, <4>2, <4>3
      <3>2. Whose'
        BY <2>1, <2>2, <2>6, <3>1 DEF Whose, Pushing, Checking, D!Arm
      <3>3. Arrived'
        BY <2>1, <2>2, <2>6, <3>1 DEF Whose, Arrived, Pushing, Checking, D!KeyOf, D!Arm
      <3>4. KitIsWhole' /\ SentinelIsWhole' /\ NoneLeftInTemp'
        BY <2>1, <2>2, <2>6, <3>1 DEF KitIsWhole, D!Kit, SentinelIsWhole, NoneLeftInTemp, D!Arm
      <3>5. DeployTypes'
        BY <2>1, <2>2, <2>6, <3>1 DEF D!KeyOf
      <3> QED  BY <3>2, <3>3, <3>4, <3>5
    <2> QED  BY <2>3, <2>4, <2>5, <2>6 DEF D!Pushed
  <1>2. CASE D!PushEnds(f)
    <2>1. /\ req.at = D!During[f]
          /\ UNCHANGED <<once, voice, guard, link, sentinelLink, temp, sentinel,
                         voiceDaemon, launcher>>
      BY <1>2 DEF D!PushEnds
    <2>2. /\ req'.op = req.op /\ req'.at = D!After[f] /\ req'.was = req.was
          /\ req' = [op |-> req'.op, at |-> req'.at, was |-> req'.was]
      BY <1>2, Goes DEF D!PushEnds, D!Go
    <2>3. CASE f = "key"
      <3>1. /\ key' = D!KeyOf(req.op) /\ file' = file /\ left' = left \ {"key"} /\ req'.at = "script"
            /\ req.at = "in key" /\ req.op \in D!Arm
        BY <1>2, <2>1, <2>2, <2>3, PushStages DEF D!PushEnds, Whose, Pushing
      <3>2. Whose'
        BY <2>1, <2>2, <2>3, <3>1 DEF Whose, Pushing, Checking, D!Arm
      <3>3. Arrived'
        BY <2>1, <2>2, <2>3, <3>1 DEF Whose, Arrived, Pushing, Checking, D!KeyOf, D!Arm
      <3>4. KitIsWhole' /\ SentinelIsWhole' /\ NoneLeftInTemp'
        BY <2>1, <2>2, <2>3, <3>1 DEF KitIsWhole, D!Kit, SentinelIsWhole, NoneLeftInTemp, D!Arm
      <3>5. DeployTypes'
        BY <2>1, <2>2, <2>3, <3>1 DEF D!KeyOf
      <3> QED  BY <3>2, <3>3, <3>4, <3>5
    <2>4. CASE f = "daemon"
      <3>1. /\ file' = [file EXCEPT !["daemon"] = "whole"] /\ key' = key /\ left' = left
            /\ req'.at = "key" /\ req.at = "in daemon" /\ req.op \in D!Arm
        BY <1>2, <2>1, <2>2, <2>4, PushStages DEF D!PushEnds, Whose, Pushing
      <3>2. Whose'
        BY <2>1, <2>2, <2>4, <3>1 DEF Whose, Pushing, Checking, D!Arm
      <3>3. Arrived'
        BY <2>1, <2>2, <2>4, <3>1 DEF Whose, Arrived, Pushing, Checking, D!KeyOf, D!Arm
      <3>4. KitIsWhole' /\ SentinelIsWhole' /\ NoneLeftInTemp'
        BY <2>1, <2>2, <2>4, <3>1 DEF KitIsWhole, D!Kit, SentinelIsWhole, NoneLeftInTemp, D!Arm
      <3>5. DeployTypes'
        BY <2>1, <2>2, <2>4, <3>1 DEF D!KeyOf
      <3> QED  BY <3>2, <3>3, <3>4, <3>5
    <2>5. CASE f = "script"
      <3>1. /\ file' = [file EXCEPT !["script"] = "whole"] /\ key' = key /\ left' = left
            /\ req'.at = "pushed" /\ req.at = "in script" /\ req.op \in D!Arm
        BY <1>2, <2>1, <2>2, <2>5, PushStages DEF D!PushEnds, Whose, Pushing
      <3>2. Whose'
        BY <2>1, <2>2, <2>5, <3>1 DEF Whose, Pushing, Checking, D!Arm
      <3>3. Arrived'
        BY <2>1, <2>2, <2>5, <3>1 DEF Whose, Arrived, Pushing, Checking, D!KeyOf, D!Arm
      <3>4. KitIsWhole' /\ SentinelIsWhole' /\ NoneLeftInTemp'
        BY <2>1, <2>2, <2>5, <3>1 DEF KitIsWhole, D!Kit, SentinelIsWhole, NoneLeftInTemp, D!Arm
      <3>5. DeployTypes'
        BY <2>1, <2>2, <2>5, <3>1 DEF D!KeyOf
      <3> QED  BY <3>2, <3>3, <3>4, <3>5
    <2>6. CASE f = "sentinel"
      <3>1. /\ file' = [file EXCEPT !["sentinel"] = "whole"] /\ key' = key /\ left' = left
            /\ req'.at = "pushed" /\ req.at = "in sentinel" /\ req.op = "sentinel"
        BY <1>2, <2>1, <2>2, <2>6, PushStages DEF D!PushEnds, Whose
      <3>2. Whose'
        BY <2>1, <2>2, <2>6, <3>1 DEF Whose, Pushing, Checking, D!Arm
      <3>3. Arrived'
        BY <2>1, <2>2, <2>6, <3>1 DEF Whose, Arrived, Pushing, Checking, D!KeyOf, D!Arm
      <3>4. KitIsWhole' /\ SentinelIsWhole' /\ NoneLeftInTemp'
        BY <2>1, <2>2, <2>6, <3>1 DEF KitIsWhole, D!Kit, SentinelIsWhole, NoneLeftInTemp, D!Arm
      <3>5. DeployTypes'
        BY <2>1, <2>2, <2>6, <3>1 DEF D!KeyOf
      <3> QED  BY <3>2, <3>3, <3>4, <3>5
    <2> QED  BY <2>3, <2>4, <2>5, <2>6 DEF D!Pushed
  <1> QED  BY <1>1, <1>2

\* An arming that goes on after its files are pushed.
LEMMA ArmGoesOn ==
  ASSUME DeployInv, D!Validate \/ D!Asked \/ D!InstallLink \/ D!SetMarker \/ D!StartNow
  PROVE  DeployInv'
  <1> USE DEF DeployInv, DeployTypes, D!TypeOK, D!flash, D!running
  <1>1. ASSUME NEW at \in Checking, D!Go(at), req.at \in Checking \cup {"pushed"},
               req.op \in D!Arm, UNCHANGED <<file, key, guard>>, left' = left \/ left' = left \ {"kit"}
        PROVE  /\ Whose' /\ Arrived' /\ KitIsWhole' /\ SentinelIsWhole'
               /\ req'.op = req.op /\ req'.was = req.was /\ req'.at = at
    <2>1. /\ req'.op = req.op /\ req'.at = at /\ req'.was = req.was
          /\ req' = [op |-> req'.op, at |-> req'.at, was |-> req'.was]
      BY <1>1, Goes DEF D!Go
    <2>2. req.at # "in sentinel"
      BY <1>1 DEF Checking
    <2> QED  BY <1>1, <2>1, <2>2, NoneAsked DEF Whose, Arrived, KitIsWhole, SentinelIsWhole, Pushing, Checking
  <1>2. CASE D!Validate \/ D!Asked \/ D!InstallLink
    <2>1. PICK at \in Checking : D!Go(at)
      BY <1>2 DEF D!Validate, D!Asked, D!InstallLink, Checking
    <2>2. /\ UNCHANGED <<file, key, once, voice, guard, sentinelLink, temp, sentinel, launcher, left>>
          /\ req.op \in D!Arm /\ req.at \in Checking \cup {"pushed"}
          /\ link' \in {link, "ours"} /\ voiceDaemon' \in {voiceDaemon, "check", "no"}
      BY <1>2 DEF D!Validate, D!Asked, D!InstallLink, Checking
    <2>3. req.at # "trying"
      BY <2>2 DEF Checking
    <2> QED  BY <1>1, <2>1, <2>2, <2>3 DEF NoneLeftInTemp
  <1>3. CASE D!SetMarker
    <2>1. /\ req.op \in D!Arm /\ req.at = "marker" /\ left' = left \ {"kit"}
          /\ once' = (req.op = "status") /\ voice' = (req.op = "control")
          /\ UNCHANGED <<file, key, guard, link, sentinelLink, temp, sentinel, voiceDaemon, launcher>>
      BY <1>3 DEF D!SetMarker
    <2>2. NoneLeftInTemp'
      BY <2>1 DEF NoneLeftInTemp
    <2>3. CASE D!Go("start")
      BY <1>1, <2>1, <2>2, <2>3 DEF Checking
    <2>4. CASE D!Done
      <3>1. KitIsWhole'
        BY <2>1, <2>4, Over DEF D!Arm, Arrived, Checking, KitIsWhole, D!Kit, D!KeyOf
      <3>2. SentinelIsWhole'
        BY <2>1 DEF SentinelIsWhole
      <3> QED  BY <2>1, <2>2, <2>4, <3>1, <3>2, Over
    <2> QED  BY <1>3, <2>3, <2>4 DEF D!SetMarker
  <1>4. CASE D!StartNow
    <2>1. /\ req.op = "control" /\ req.at = "start" /\ once' = FALSE
          /\ launcher' = launcher \cup {"session"}
          /\ UNCHANGED <<file, key, voice, guard, link, sentinelLink, temp, sentinel,
                         voiceDaemon, left>>
      BY <1>4 DEF D!StartNow, D!At
    <2>2. KitIsWhole'
      BY <2>1 DEF Arrived, Checking, KitIsWhole, D!Kit, D!KeyOf
    <2>3. SentinelIsWhole' /\ NoneLeftInTemp'
      BY <2>1 DEF SentinelIsWhole, NoneLeftInTemp
    <2> QED  BY <1>4, <2>1, <2>2, <2>3, Over DEF D!StartNow
  <1> QED  BY <1>2, <1>3, <1>4

\* An arming that fails leaves nothing to be started, or is known to leave a part.
LEMMA ArmIsGivenUp ==
  ASSUME DeployInv, D!ArmFails
  PROVE  DeployInv'
  <1> USE DEF DeployInv, DeployTypes, D!TypeOK
  <1>1. /\ req.op \in D!Arm /\ D!Done
        /\ UNCHANGED <<file, guard, link, sentinelLink, temp, voiceDaemon, launcher>>
    BY DEF D!ArmFails
  <1>2. \/ /\ req.at \in {"begun", "alone"} /\ UNCHANGED <<key, once, voice, left>>
           /\ sentinel' \in BOOLEAN
        \/ /\ req.at \in D!Early \cup {"asking", "link", "marker", "start"}
           /\ D!CleansUp \/ D!LeavesAll
    BY DEF D!ArmFails
  <1>3. KitIsWhole'
    BY <1>1, <1>2, Over DEF KitIsWhole, D!Kit, D!CleansUp, D!LeavesAll, D!Early
  <1>4. req.at \notin {"in sentinel", "trying"} /\ {"sentinel", "temp"} \cap left' = {"sentinel", "temp"} \cap left
    BY <1>1, <1>2 DEF Whose, D!CleansUp, D!LeavesAll, D!Early, D!Arm
  <1>5. SentinelIsWhole' /\ NoneLeftInTemp'
    BY <1>1, <1>4 DEF SentinelIsWhole, NoneLeftInTemp
  <1>6. DeployTypes'
    BY <1>1, <1>2, Over DEF D!CleansUp, D!LeavesAll
  <1> QED  BY <1>1, <1>3, <1>5, <1>6, Over

\* Nothing is started while the files are removed, whose markers went before them.
LEMMA RemovalGoesOn ==
  ASSUME DeployInv, D!Removing
  PROVE  DeployInv'
  <1> USE DEF DeployInv, DeployTypes, D!TypeOK, D!flash, D!running
  <1>1. ASSUME NEW at \in {"stop", "markers", "files"}, D!Go(at), req.op = "uninstall",
               UNCHANGED <<file, key, guard, temp, left>>, req.at \in {"begun", "stop", "markers"},
               at = "files" => ~once' /\ ~voice', once' => once, voice' => voice
        PROVE  /\ Whose' /\ Arrived' /\ KitIsWhole' /\ SentinelIsWhole' /\ NoneLeftInTemp'
               /\ req'.op = req.op /\ req'.was = req.was
    <2>1. /\ req'.op = req.op /\ req'.at = at /\ req'.was = req.was
          /\ req' = [op |-> req'.op, at |-> req'.at, was |-> req'.was]
      BY <1>1, Goes DEF D!Go
    <2>2. Whose' /\ Arrived'
      BY <1>1, <2>1 DEF Whose, Arrived, Pushing, Checking
    <2>3. KitIsWhole'
      BY <1>1, <2>1 DEF KitIsWhole, D!Kit, D!Arm
    <2>4. SentinelIsWhole' /\ NoneLeftInTemp'
      BY <1>1, <2>1 DEF SentinelIsWhole, NoneLeftInTemp
    <2> QED  BY <2>1, <2>2, <2>3, <2>4
  <1>2. CASE D!RemoveLink
    BY <1>1, <1>2 DEF D!RemoveLink, D!At
  <1>3. CASE D!StopAll
    BY <1>1, <1>3 DEF D!StopAll, D!At
  <1>4. CASE D!RemoveMarkers
    BY <1>1, <1>4 DEF D!RemoveMarkers, D!At
  <1>5. CASE D!RemoveFiles
    <2>1. /\ req.at = "files" /\ left' = left \ {"kit"} /\ key' = "none" /\ D!Done
          /\ UNCHANGED <<once, voice, guard, link, sentinelLink, temp, sentinel, voiceDaemon, launcher>>
      BY <1>5 DEF D!RemoveFiles, D!At
    <2>2. /\ file' \in [{"daemon", "script", "sentinel"} -> {"none", "part", "whole"}]
          /\ file'["sentinel"] = file["sentinel"]
      BY <1>5 DEF D!RemoveFiles
    <2>3. KitIsWhole' /\ SentinelIsWhole' /\ NoneLeftInTemp'
      BY <2>1, <2>2 DEF Whose, KitIsWhole, SentinelIsWhole, NoneLeftInTemp
    <2>4. DeployTypes'
      BY <2>1, <2>2, Over
    <2> QED  BY <2>1, <2>3, <2>4, Over
  <1> QED  BY <1>2, <1>3, <1>4, <1>5 DEF D!Removing

\* The sentinel is armed with its file whole.
LEMMA SentinelGoesOn ==
  ASSUME DeployInv, D!Sentinel
  PROVE  DeployInv'
  <1> USE DEF DeployInv, DeployTypes, D!TypeOK, D!flash, D!running
  <1>1. CASE D!At("sentinel", "begun") /\ D!Go("sentinel") /\ UNCHANGED <<D!flash, D!running, left>>
    <2>1. /\ req'.op = req.op /\ req'.at = "sentinel" /\ req'.was = req.was
          /\ req' = [op |-> req'.op, at |-> req'.at, was |-> req'.was]
      BY <1>1, Goes DEF D!Go
    <2>2. /\ req.op = "sentinel" /\ req.at = "begun"
          /\ UNCHANGED <<file, key, once, voice, guard, link, sentinelLink, temp, sentinel,
                         voiceDaemon, launcher, left>>
      BY <1>1 DEF D!At
    <2>3. Whose' /\ Arrived'
      BY <2>1, <2>2 DEF Whose, Arrived, Pushing, Checking
    <2>4. KitIsWhole'
      BY <2>1, <2>2 DEF KitIsWhole, D!Kit
    <2>5. SentinelIsWhole' /\ NoneLeftInTemp'
      BY <2>1, <2>2 DEF SentinelIsWhole, NoneLeftInTemp
    <2>6. DeployTypes'
      BY <2>1, <2>2
    <2> QED  BY <2>3, <2>4, <2>5, <2>6
  <1>2. CASE D!ArmSentinel
    <2>1. /\ req.op = "sentinel" /\ req.at = "pushed" /\ D!Done /\ left' = left \ {"sentinel"}
          /\ sentinelLink' = "ours" /\ guard' = TRUE
          /\ UNCHANGED <<file, key, once, voice, link, temp, sentinel, voiceDaemon, launcher>>
      BY <1>2 DEF D!ArmSentinel, D!At
    <2>2. KitIsWhole'
      BY <2>1 DEF KitIsWhole, D!Kit, D!Arm
    <2>3. SentinelIsWhole' /\ NoneLeftInTemp'
      BY <2>1 DEF Arrived, SentinelIsWhole, NoneLeftInTemp
    <2>4. DeployTypes'
      BY <2>1, Over
    <2> QED  BY <2>1, <2>2, <2>3, <2>4, Over
  <1>3. CASE D!RemoveSentinel
    <2>1. /\ req.op = "unsentinel" /\ req.at = "begun" /\ D!Done /\ left' = left \ {"sentinel"}
          /\ sentinelLink' = "absent" /\ guard' = FALSE /\ sentinel' = FALSE
          /\ file' = [file EXCEPT !["sentinel"] = "none"]
          /\ UNCHANGED <<key, once, voice, link, temp, voiceDaemon, launcher>>
      BY <1>3 DEF D!RemoveSentinel, D!At
    <2>2. KitIsWhole'
      BY <2>1 DEF KitIsWhole, D!Kit, D!Arm
    <2>3. SentinelIsWhole' /\ NoneLeftInTemp'
      BY <2>1 DEF SentinelIsWhole, NoneLeftInTemp
    <2>4. DeployTypes'
      BY <2>1, Over
    <2> QED  BY <2>1, <2>2, <2>3, <2>4, Over
  <1> QED  BY <1>1, <1>2, <1>3 DEF D!Sentinel

\* What is tried is removed from /tmp, or is known to be left there.
LEMMA TryGoesOn ==
  ASSUME DeployInv, D!TryBegins \/ D!TryEnds \/ D!OtherFails
  PROVE  DeployInv'
  <1> USE DEF DeployInv, DeployTypes, D!TypeOK, D!flash, D!running
  <1>1. CASE D!TryBegins
    <2>1. /\ req'.op = req.op /\ req'.at = "trying" /\ req'.was = req.was
          /\ req' = [op |-> req'.op, at |-> req'.at, was |-> req'.was]
      BY <1>1, Goes DEF D!TryBegins, D!Go
    <2>2. /\ req.op \in D!Try /\ req.at \in {"alone", "begun"} /\ temp' = temp \cup {req.op}
          /\ UNCHANGED <<file, key, once, voice, guard, link, sentinelLink, sentinel,
                         voiceDaemon, launcher, left>>
      BY <1>1 DEF D!TryBegins, D!At, D!Try
    <2>3. Whose' /\ Arrived'
      BY <2>1, <2>2 DEF Whose, Arrived, Pushing, Checking, D!Try
    <2>4. KitIsWhole'
      BY <2>1, <2>2 DEF KitIsWhole, D!Kit
    <2>5. SentinelIsWhole' /\ NoneLeftInTemp'
      BY <2>1, <2>2 DEF SentinelIsWhole, NoneLeftInTemp
    <2>6. DeployTypes'
      BY <2>1, <2>2
    <2> QED  BY <2>3, <2>4, <2>5, <2>6
  <1>2. CASE D!TryEnds
    <2>1. /\ req.op \in D!Try /\ req.at = "trying" /\ temp' = temp \ {req.op} /\ D!Done
          /\ left' = IF temp' = {} THEN left \ {"temp"} ELSE left
          /\ sentinel' = (sentinel \/ req.was)
          /\ UNCHANGED <<file, key, once, voice, guard, link, sentinelLink, voiceDaemon, launcher>>
      BY <1>2 DEF D!TryEnds
    <2>2. KitIsWhole'
      BY <2>1 DEF KitIsWhole, D!Kit, D!Arm, D!Try
    <2>3. SentinelIsWhole' /\ NoneLeftInTemp'
      BY <2>1 DEF SentinelIsWhole, NoneLeftInTemp
    <2>4. DeployTypes'
      BY <2>1, Over
    <2> QED  BY <2>1, <2>2, <2>3, <2>4, Over
  <1>3. CASE D!OtherFails
    <2>1. /\ req.op \notin D!Arm /\ D!Done
          /\ left' = left \cup (IF req.at = "trying" THEN {"temp"} ELSE {})
                           \cup (IF req.at = "in sentinel" THEN {"sentinel"} ELSE {})
          /\ sentinel' \in BOOLEAN
          /\ UNCHANGED <<file, key, once, voice, guard, link, sentinelLink, temp, voiceDaemon, launcher>>
      BY <1>3 DEF D!OtherFails
    <2>2. KitIsWhole'
      BY <2>1 DEF KitIsWhole, D!Kit
    <2>3. SentinelIsWhole' /\ NoneLeftInTemp'
      BY <2>1 DEF SentinelIsWhole, NoneLeftInTemp
    <2>4. DeployTypes'
      BY <2>1, Over
    <2> QED  BY <2>1, <2>2, <2>3, <2>4, Over
  <1> QED  BY <1>1, <1>2, <1>3

\* The module loses its power, starts what is armed, or a daemon on it ends.
LEMMA ModuleGoesOn ==
  ASSUME DeployInv, D!Module
  PROVE  DeployInv'
  <1> USE DEF DeployInv, DeployTypes, D!TypeOK, D!flash, D!running
  <1>1. CASE D!Reboot
    <2>1. /\ temp' = {} /\ voiceDaemon' = "no" /\ D!Done
          /\ sentinel' \in BOOLEAN /\ guard' \in BOOLEAN /\ once' \in BOOLEAN /\ voice' \in BOOLEAN
          /\ (guard' => guard) /\ (once' => once) /\ (voice' => voice)
          /\ launcher' \subseteq {"once", "session"} /\ UNCHANGED <<file, key, link, sentinelLink>>
      BY <1>1 DEF D!Reboot, D!BootedWith
    <2>2. left' = (left \ {"temp"})
          \cup (IF req.op \in D!Arm /\ req.at \notin {"begun", "alone"} THEN {"kit"} ELSE {})
          \cup (IF req.at = "in sentinel" THEN {"sentinel"} ELSE {})
      BY <1>1 DEF D!Reboot
    <2>3. KitIsWhole'
      BY <2>1, <2>2 DEF KitIsWhole, D!Kit
    <2>4. SentinelIsWhole' /\ NoneLeftInTemp'
      BY <2>1, <2>2 DEF SentinelIsWhole, NoneLeftInTemp
    <2>5. DeployTypes'
      BY <2>1, <2>2, Over
    <2> QED  BY <2>1, <2>3, <2>4, <2>5, Over
  <1>2. CASE D!DaemonEnds
    <2>1. /\ voiceDaemon' = "no"
          /\ UNCHANGED <<file, key, once, voice, guard, link, sentinelLink, temp, sentinel,
                         launcher, req, left>>
      BY <1>2 DEF D!DaemonEnds
    <2>2. DeployTypes'
      BY <2>1
    <2>3. Whose' /\ Arrived'
      BY <2>1 DEF Whose, Arrived
    <2>4. KitIsWhole' /\ SentinelIsWhole' /\ NoneLeftInTemp'
      BY <2>1 DEF KitIsWhole, D!Kit, SentinelIsWhole, NoneLeftInTemp
    <2> QED  BY <2>2, <2>3, <2>4
  <1>3. ASSUME NEW mode \in {"once", "session"}, NEW ok \in BOOLEAN, D!Starts(mode, ok)
        PROVE  DeployInv'
    <2>1. /\ voiceDaemon' \in {voiceDaemon, mode} /\ launcher' \subseteq launcher
          /\ UNCHANGED <<file, once, voice, guard, link, sentinelLink, temp, sentinel, req>>
      BY <1>3 DEF D!Starts
    <2>2. \/ key' = "none" /\ left' = left \cup {"key"}
          \/ key' = "none" /\ left' = left /\ ~once /\ ~voice /\ req.op \notin D!Arm
          \/ key' = key /\ left' = left
      BY <1>3 DEF D!Starts
    <2>3. Whose' /\ Arrived'
      BY <2>1, <2>2 DEF Whose, Arrived, Pushing, Checking
    <2>4. KitIsWhole' /\ SentinelIsWhole' /\ NoneLeftInTemp'
      BY <2>1, <2>2 DEF KitIsWhole, D!Kit, SentinelIsWhole, NoneLeftInTemp
    <2>5. DeployTypes'
      <3>1. voiceDaemon' \in {"no", "check", "once", "session"}
        BY <2>1
      <3>2. left' \subseteq {"kit", "key", "sentinel", "temp"} /\ key' \in {"none", "part", "once", "stable"}
        BY <2>2
      <3> QED  BY <2>1, <3>1, <3>2
    <2> QED  BY <2>3, <2>4, <2>5
  <1> QED  BY <1>1, <1>2, <1>3 DEF D!Module

LEMMA DeployInit ==
  ASSUME D!Init  PROVE DeployInv
  BY NoneAsked DEF D!Init, DeployInv, DeployTypes, D!TypeOK, Whose, Arrived, Pushing, Checking,
     KitIsWhole, SentinelIsWhole, NoneLeftInTemp

LEMMA DeployNext ==
  ASSUME DeployInv, D!Next  PROVE DeployInv'
  <1>1. CASE D!Arming
    BY <1>1, ArmBegins, ArmGoesOn, ArmIsGivenUp DEF D!Arming
  <1> QED  BY <1>1, ArmBegins, PushGoesOn, RemovalGoesOn, SentinelGoesOn, TryGoesOn, ModuleGoesOn DEF D!Next

LEMMA DeployedIsWhole ==
  ASSUME DeployInv  PROVE D!TypeOK /\ D!ArmedIsWhole
  <1>1. D!TypeOK
    BY DEF DeployInv, DeployTypes
  <1>2. "sentinel" \notin left /\ guard => file["sentinel"] = "whole" \/ req.op = "sentinel"
    BY DEF DeployInv, SentinelIsWhole, Whose
  <1>3. "temp" \notin left => \A t \in temp : req.op = t
    BY DEF DeployInv, NoneLeftInTemp
  <1> QED  BY <1>1, <1>2, <1>3 DEF D!ArmedIsWhole, DeployInv, KitIsWhole

-----------------------------------------------------------------------------
(* The configuration.  Its variables are in some of the deployment's: daemon *)
(* is voiceDaemon, sender is once, conn is link, turn is guard, importing is *)
(* temp, inEffect is voice, doubtful is left and misled is req.              *)

Performing == {"chosen", "write", "apply", "sending"}

\* While the daemon runs it works with what is in effect, and performMu has the one
\* operation that is performed: what that will save differs from it in the field it
\* sets, and so do the files once it has saved it.
Works ==
    /\ voiceDaemon = "up" => once = voice
    /\ voiceDaemon = "down" => guard = NoOne /\ \A c \in Profiles : link[c] = K!Free
OneTurn == \A c \in Profiles : link[c].at \in Performing => guard = c
Saving ==
    \A c \in Profiles : link[c].at \in {"write", "apply"} =>
        link[c].new = [once EXCEPT ![link[c].op.field] = link[c].op.value]
Saves ==
    \A c \in Profiles : link[c].at = "apply" =>
        \/ file[link[c].op.field] = link[c].op.value
        \/ link[c].op.field \in left \cap K!Config
FilesHold ==
    \A f \in K!Field \ left :
        (\A c \in Profiles : link[c].at = "apply" => link[c].op.field # f)
            => file[f] = voice[f]
ControlHolds == Works /\ OneTurn /\ Saving /\ Saves /\ FilesHold /\ req = {}
ControlInv == K!TypeOK /\ ControlHolds
-----------------------------------------------------------------------------
\* What a connection is at each of its stages: see handle and perform.
LEMMA ControlStages ==
    ASSUME NEW c \in Profiles, link \in [Profiles -> K!Connection]
    PROVE  /\ link[c].at \in {"waiting", "chosen", "sending"} =>
                link[c] \in [at : {"waiting", "chosen", "sending"}, op : K!Operation]
           /\ link[c].at \in {"write", "apply"} =>
                link[c] \in [at : {"write", "apply"}, op : K!Sets, new : [K!Field -> K!Value]]
BY DEF K!Connection

\* The variables keep their types, whatever step is taken.
LEMMA ControlTyped == K!TypeOK /\ K!Next => K!TypeOK'
<1> SUFFICES ASSUME K!TypeOK, K!Next PROVE K!TypeOK'
  OBVIOUS
<1> USE DEF K!TypeOK
<1>1. ASSUME NEW c \in Profiles, K!Accept(c) PROVE K!TypeOK'
  BY <1>1 DEF K!Accept, K!kept, K!Free, K!Connection
<1>2. ASSUME NEW c \in Profiles, NEW asked \in K!Operation, K!Ask(c, asked) PROVE K!TypeOK'
  <2>1. [at |-> "waiting", op |-> asked] \in K!Connection
    BY DEF K!Connection
  <2>2. QED
    BY <1>2, <2>1 DEF K!Ask, K!kept
<1>3. K!Free \in K!Connection
  BY DEF K!Free, K!Connection
<1>4. ASSUME NEW c \in Profiles, K!NothingAsked(c) PROVE K!TypeOK'
  BY <1>3, <1>4 DEF K!NothingAsked, K!kept
<1>5. ASSUME NEW c \in Profiles, K!TakeTurn(c) PROVE K!TypeOK'
  <2>1. [link[c] EXCEPT !.at = "chosen"] \in K!Connection
    BY <1>5, ControlStages DEF K!TakeTurn, K!Connection
  <2>2. QED
    BY <1>5, <2>1 DEF K!TakeTurn, K!kept
<1>6. ASSUME NEW c \in Profiles, K!Status(c) PROVE K!TypeOK'
  BY <1>3, <1>6 DEF K!Status, K!Answers, K!kept
<1>7. ASSUME NEW c \in Profiles, K!TestSend(c) PROVE K!TypeOK'
  <2>1. CASE link[c].at = "sending" /\ K!Answers(c)
    BY <1>3, <1>7, <2>1 DEF K!TestSend, K!Answers, K!kept
  <2>2. CASE link[c].at = "chosen" /\ link' = [link EXCEPT ![c].at = "sending"] /\ UNCHANGED guard
    <3>1. [link[c] EXCEPT !.at = "sending"] \in K!Connection
      BY <2>2, ControlStages DEF K!Connection
    <3>2. QED
      BY <1>7, <2>2, <3>1 DEF K!TestSend, K!kept
  <2>3. QED
    BY <1>7, <2>1, <2>2 DEF K!TestSend
<1>8. ASSUME NEW c \in Profiles, K!Validated(c) PROVE K!TypeOK'
  <2>1. CASE K!Answers(c)
    BY <1>3, <1>8, <2>1 DEF K!Validated, K!Answers, K!kept
  <2>2. CASE link[c].op \in K!Sets /\ UNCHANGED guard /\ ~K!Answers(c)
    <3>1. [at |-> "write", op |-> link[c].op,
           new |-> [once EXCEPT ![link[c].op.field] = link[c].op.value]] \in K!Connection
      BY <2>2 DEF K!Connection, K!Sets
    <3>2. QED
      BY <1>8, <2>2, <3>1 DEF K!Validated, K!kept
  <2>3. QED
    BY <1>8, <2>1, <2>2 DEF K!Validated
<1>9. ASSUME NEW c \in Profiles, K!Write(c) PROVE K!TypeOK'
  <2>1. /\ link[c].op \in K!Sets /\ link[c].new \in [K!Field -> K!Value]
        /\ [link[c] EXCEPT !.at = "apply"] \in K!Connection
    BY <1>9, ControlStages DEF K!Write, K!Connection
  <2>2. K!Saved(c) \in [K!Field -> K!Value]
    BY <2>1 DEF K!Saved, K!Field, K!Config
  <2>3. QED
    BY <1>3, <1>9, <2>1, <2>2 DEF K!Write, K!Answers
<1>10. ASSUME NEW c \in Profiles, K!Apply(c) PROVE K!TypeOK'
  <2>1. link[c].op \in K!Sets /\ link[c].new \in [K!Field -> K!Value]
    BY <1>10, ControlStages DEF K!Apply
  <2>2. link[c].op.field \in K!Field /\ link[c].op.value \in K!Value
    BY <2>1 DEF K!Sets
  <2>3. QED
    BY <1>3, <1>10, <2>1, <2>2 DEF K!Apply, K!Answers, K!Field
<1>11. ASSUME K!ImportReads PROVE K!TypeOK'
  BY <1>11 DEF K!ImportReads, K!Field
<1>12. ASSUME NEW f \in K!Config, NEW v \in Values, K!ImportWrites(f, v) PROVE K!TypeOK'
  BY <1>12 DEF K!ImportWrites, K!Field, K!Value
<1>13. ASSUME K!Ends PROVE K!TypeOK'
  BY <1>3, <1>13 DEF K!Ends
<1>14. ASSUME K!Starts PROVE K!TypeOK'
  BY <1>14 DEF K!Starts
<1>15. QED
  BY <1>1, <1>2, <1>4, <1>5, <1>6, <1>7, <1>8, <1>9, <1>10, <1>11, <1>12, <1>13,
     <1>14 DEF K!Next

-----------------------------------------------------------------------------
\* While one operation has performMu, no other is past waiting for it.
LEMMA OnlyOne ==
    ASSUME OneTurn, NEW c \in Profiles, link[c].at \in Performing
    PROVE  \A d \in Profiles : link[d].at \in Performing => d = c
BY DEF OneTurn

\* A step of a daemon that runs, which keeps what it keeps and in which connection c
\* neither comes to save nor ends doing so, keeps the invariant.
LEMMA KeptIsKept ==
    ASSUME ControlInv, UNCHANGED K!kept, req' = req, voiceDaemon = "up", OneTurn',
           NEW c \in Profiles, \A d \in Profiles \ {c} : link'[d] = link[d],
           link'[c].at \notin {"write", "apply"}, link[c].at # "apply"
    PROVE  ControlHolds'
<1> USE DEF ControlInv, ControlHolds
<1>1. Works'
  BY DEF Works, K!kept
<1>2. Saving'
  BY DEF Saving, K!kept
<1>3. Saves'
  BY DEF Saves, K!kept
<1>4. FilesHold'
  <2> SUFFICES ASSUME NEW f \in K!Field \ left',
                      \A d \in Profiles : link'[d].at = "apply" => link'[d].op.field # f
               PROVE  file'[f] = voice'[f]
    BY DEF FilesHold
  <2>1. \A d \in Profiles : link[d].at = "apply" => link[d].op.field # f
    OBVIOUS
  <2>2. QED
    BY <2>1 DEF FilesHold, K!kept
<1>5. QED
  BY <1>1, <1>2, <1>3, <1>4

\* A step of connection c, which had performMu or takes it from nobody: it is the
\* one whose operation is performed.
LEMMA TurnIsKept ==
    ASSUME K!TypeOK, OneTurn,
           NEW c \in Profiles, \A d \in Profiles \ {c} : link'[d] = link[d],
           guard \in {c, NoOne} \/ guard' = guard,
           link'[c].at \in Performing => guard' = c
    PROVE  OneTurn'
BY ControlAssumption DEF OneTurn, K!TypeOK, Performing

\* Only a daemon that runs has connections that are not free.
LEMMA UpWhenBusy ==
    ASSUME K!TypeOK, Works, NEW c \in Profiles, link[c].at # "free"
    PROVE  voiceDaemon = "up"
BY DEF K!TypeOK, Works, K!Free
-----------------------------------------------------------------------------
\* Every step of a connection, of a command line and of the daemon keeps it.
LEMMA ControlStep ==
    ASSUME ControlInv, K!Next
    PROVE  ControlHolds'
<1> USE DEF ControlInv
<1>1. K!TypeOK /\ Works /\ OneTurn /\ req = {}
  BY DEF ControlHolds
<1>2. ASSUME NEW c \in Profiles, K!Accept(c) PROVE ControlHolds'
  <2>1. /\ \A d \in Profiles \ {c} : link'[d] = link[d]
        /\ link[c].at = "free" /\ link'[c].at = "hello"
    BY <1>2, ControlStages DEF K!Accept, K!Free, K!TypeOK
  <2>2. OneTurn' /\ voiceDaemon = "up"
    BY <1>1, <1>2, <2>1, TurnIsKept, UpWhenBusy DEF K!Accept, Performing
  <2>3. QED
    BY <1>2, <2>1, <2>2, KeptIsKept DEF K!Accept
<1>3. ASSUME NEW c \in Profiles, NEW asked \in K!Operation, K!Ask(c, asked) PROVE ControlHolds'
  <2>1. /\ \A d \in Profiles \ {c} : link'[d] = link[d]
        /\ link[c].at = "hello" /\ link'[c].at = "waiting"
    BY <1>3, ControlStages DEF K!Ask, K!TypeOK
  <2>2. OneTurn' /\ voiceDaemon = "up"
    BY <1>1, <1>3, <2>1, TurnIsKept, UpWhenBusy DEF K!Ask, Performing
  <2>3. QED
    BY <1>3, <2>1, <2>2, KeptIsKept DEF K!Ask
<1>4. ASSUME NEW c \in Profiles, K!NothingAsked(c) PROVE ControlHolds'
  <2>1. /\ \A d \in Profiles \ {c} : link'[d] = link[d]
        /\ link[c].at = "hello" /\ link'[c].at = "free"
    BY <1>4, ControlStages DEF K!NothingAsked, K!Free, K!TypeOK
  <2>2. OneTurn' /\ voiceDaemon = "up"
    BY <1>1, <1>4, <2>1, TurnIsKept, UpWhenBusy DEF K!NothingAsked, Performing
  <2>3. QED
    BY <1>4, <2>1, <2>2, KeptIsKept DEF K!NothingAsked
<1>5. ASSUME NEW c \in Profiles, K!TakeTurn(c) PROVE ControlHolds'
  <2>1. /\ \A d \in Profiles \ {c} : link'[d] = link[d]
        /\ link[c].at = "waiting" /\ link'[c].at = "chosen"
    BY <1>5, ControlStages DEF K!TakeTurn, K!TypeOK
  <2>2. OneTurn' /\ voiceDaemon = "up"
    BY <1>1, <1>5, <2>1, TurnIsKept, UpWhenBusy DEF K!TakeTurn, Performing
  <2>3. QED
    BY <1>5, <2>1, <2>2, KeptIsKept DEF K!TakeTurn
<1>6. ASSUME NEW c \in Profiles, K!Status(c) PROVE ControlHolds'
  <2>1. /\ \A d \in Profiles \ {c} : link'[d] = link[d]
        /\ link[c].at = "chosen" /\ link'[c].at = "free" /\ guard = c
    BY <1>1, <1>6 DEF K!Status, K!Answers, K!Free, K!TypeOK, OneTurn, Performing
  <2>2. OneTurn' /\ voiceDaemon = "up"
    BY <1>1, <1>6, <2>1, TurnIsKept, UpWhenBusy DEF K!Status, K!Answers, Performing
  <2>3. once = voice /\ ("ca" \in left \/ file["ca"] = voice["ca"])
    <3>1. \A d \in Profiles : link[d].at # "apply"
      BY <1>1, <2>1 DEF OneTurn, Performing
    <3>2. QED
      BY <2>2, <3>1 DEF ControlHolds, Works, FilesHold, K!Field
  <2>4. req' = req
    BY <1>6, <2>3 DEF K!Status, K!TypeOK
  <2>5. QED
    BY <1>6, <2>1, <2>2, <2>4, KeptIsKept DEF K!Status
<1>7. ASSUME NEW c \in Profiles, K!TestSend(c) PROVE ControlHolds'
  <2>1. /\ \A d \in Profiles \ {c} : link'[d] = link[d]
        /\ link[c].at \in {"chosen", "sending"} /\ guard = c
        /\ \/ link'[c].at = "sending" /\ guard' = guard
           \/ link'[c].at = "free" /\ guard' = NoOne
    BY <1>1, <1>7, ControlStages DEF K!TestSend, K!Answers, K!Free, K!TypeOK, OneTurn, Performing
  <2>2. OneTurn' /\ voiceDaemon = "up"
    BY <1>1, <2>1, TurnIsKept, UpWhenBusy DEF Performing
  <2>3. QED
    BY <1>7, <2>1, <2>2, KeptIsKept DEF K!TestSend
<1>8. ASSUME NEW c \in Profiles, K!Validated(c) PROVE ControlHolds'
  <2>1. /\ \A d \in Profiles \ {c} : link'[d] = link[d]
        /\ link[c].at = "chosen" /\ guard = c
    BY <1>1, <1>8 DEF K!Validated, K!Answers, K!TypeOK, OneTurn, Performing
  <2>2. CASE link[c].op.field = "invalid" /\ K!Answers(c)
    <3>1. link'[c].at = "free" /\ guard' = NoOne
      BY <2>2 DEF K!Answers, K!Free, K!TypeOK
    <3>2. OneTurn' /\ voiceDaemon = "up"
      BY <1>1, <2>1, <3>1, TurnIsKept, UpWhenBusy DEF Performing
    <3>3. QED
      BY <1>8, <2>1, <3>1, <3>2, KeptIsKept DEF K!Validated
  <2>3. CASE /\ link[c].op \in K!Sets /\ UNCHANGED guard
             /\ link' = [link EXCEPT ![c] = [at |-> "write", op |-> @.op,
                           new |-> [once EXCEPT ![link[c].op.field] = link[c].op.value]]]
    <3>1. link'[c] = [at |-> "write", op |-> link[c].op,
                      new |-> [once EXCEPT ![link[c].op.field] = link[c].op.value]]
      BY <1>8, <2>3 DEF K!Validated, K!TypeOK
    <3>2. OneTurn'
      BY <1>1, <2>1, <2>3, TurnIsKept DEF Performing
    <3>3. Works' /\ Saving' /\ Saves' /\ req' = {}
      BY <1>1, <1>8, <2>1, <2>3, <3>1, UpWhenBusy
         DEF K!Validated, K!kept, ControlHolds, Works, Saving, Saves
    <3>4. FilesHold'
      BY <1>8, <2>1, <3>1 DEF K!Validated, K!kept, ControlHolds, FilesHold
    <3>5. QED
      BY <3>2, <3>3, <3>4 DEF ControlHolds
  <2>4. QED
    BY <1>8, <2>2, <2>3 DEF K!Validated
<1>9. ASSUME NEW c \in Profiles, K!Write(c) PROVE ControlHolds'
  <2>1. /\ \A d \in Profiles \ {c} : link'[d] = link[d] /\ link[d].at # "apply"
        /\ link[c].at = "write" /\ guard = c /\ voiceDaemon = "up" /\ once = voice
    BY <1>1, <1>9, UpWhenBusy DEF K!Write, K!Answers, K!TypeOK, OneTurn, Performing, Works
  <2>2. link[c].op \in K!Sets /\ link[c].op.field \in K!Field
    BY <2>1, ControlStages DEF K!TypeOK, K!Sets
  <2>3. link[c].new = [once EXCEPT ![link[c].op.field] = link[c].op.value]
    BY <2>1 DEF ControlHolds, Saving
  <2>4. Works' /\ req' = {} /\ UNCHANGED <<once, voice>>
    BY <1>1, <1>9, <2>1 DEF K!Write, Works
  <2>5. CASE /\ file' = K!Saved(c) /\ link' = [link EXCEPT ![c].at = "apply"]
             /\ UNCHANGED <<guard, left>>
    <3>1. /\ link'[c].at = "apply" /\ link'[c].op = link[c].op /\ link'[c].new = link[c].new
      BY <2>1, <2>5, ControlStages DEF K!TypeOK
    <3>2. OneTurn'
      BY <1>1, <2>1, <2>5, TurnIsKept DEF Performing
    <3>3. Saving'
      BY <2>1, <2>3, <2>4, <3>1 DEF ControlHolds, Saving
    <3>4. file'[link[c].op.field] = link[c].op.value
      BY <2>2, <2>3, <2>5 DEF K!Saved, K!TypeOK, K!Field, K!Config
    <3>5. \A f \in K!Field \ {link[c].op.field} : file'[f] = voice[f] \/ file'[f] = file[f]
      BY <2>1, <2>2, <2>3, <2>5 DEF K!Saved, K!TypeOK, K!Field, K!Config
    <3>6. FilesHold'
      BY <1>9, <2>1, <2>5, <3>1, <3>5 DEF K!Write, ControlHolds, FilesHold
    <3>7. Saves'
      BY <2>1, <3>1, <3>4 DEF Saves
    <3>8. QED
      BY <2>4, <3>2, <3>3, <3>6, <3>7 DEF ControlHolds
  <2>6. CASE K!Answers(c) /\ UNCHANGED <<file, left>>
    <3>1. link'[c].at = "free" /\ guard' = NoOne
      BY <2>6 DEF K!Answers, K!Free, K!TypeOK
    <3>2. OneTurn'
      BY <1>1, <2>1, <3>1, TurnIsKept DEF Performing
    <3>3. Saving' /\ Saves' /\ FilesHold'
      BY <1>9, <2>1, <2>6, <3>1 DEF K!Write, ControlHolds, Saving, Saves, FilesHold
    <3>4. QED
      BY <2>4, <3>2, <3>3 DEF ControlHolds
  <2>7. CASE /\ K!Answers(c) /\ file' = K!Saved(c)
             /\ left' = left \cup {f \in K!Field : file'[f] # voice[f]}
    <3>1. link'[c].at = "free" /\ guard' = NoOne
      BY <2>7 DEF K!Answers, K!Free, K!TypeOK
    <3>2. OneTurn'
      BY <1>1, <2>1, <3>1, TurnIsKept DEF Performing
    <3>3. Saving' /\ Saves'
      BY <2>1, <2>4, <3>1 DEF ControlHolds, Saving, Saves
    <3>4. FilesHold'
      BY <2>4, <2>7 DEF FilesHold
    <3>5. QED
      BY <2>4, <3>2, <3>3, <3>4 DEF ControlHolds
  <2>8. QED
    BY <1>9, <2>5, <2>6, <2>7 DEF K!Write
<1>10. ASSUME NEW c \in Profiles, K!Apply(c) PROVE ControlHolds'
  <2>1. /\ \A d \in Profiles \ {c} : link'[d] = link[d] /\ link[d].at \notin Performing
        /\ link[c].at = "apply" /\ guard = c /\ voiceDaemon = "up" /\ once = voice
        /\ link'[c].at = "free" /\ guard' = NoOne
    BY <1>1, <1>10, UpWhenBusy
       DEF K!Apply, K!Answers, K!TypeOK, OneTurn, Performing, Works, K!Free
  <2>2. /\ link[c].op.field \in K!Field
        /\ link[c].new = [once EXCEPT ![link[c].op.field] = link[c].op.value]
        /\ \/ file[link[c].op.field] = link[c].op.value
           \/ link[c].op.field \in left \cap K!Config
    BY <2>1, ControlStages DEF K!TypeOK, K!Sets, ControlHolds, Saving, Saves
  <2>3. OneTurn'
    BY <1>1, <2>1, TurnIsKept DEF Performing
  <2>4. Saving' /\ Saves'
    BY <2>1 DEF Saving, Saves, Performing
  <2>5. \A f \in K!Field \ left : f # link[c].op.field => file[f] = voice[f]
    BY <2>1 DEF ControlHolds, FilesHold, Performing
  <2>6. ASSUME link[c].op.field = "ca" PROVE once' = voice' /\ FilesHold'
    <3>1. file["ca"] = link[c].op.value
      BY <2>2, <2>6 DEF K!Config
    <3>2. once' = voice'
      <4>1. \/ once' = [once EXCEPT !["ca"] = file["ca"]]
               /\ voice' = [voice EXCEPT !["ca"] = link[c].op.value]
            \/ UNCHANGED <<once, voice>>
        BY <1>10, <2>6 DEF K!Apply, K!Config
      <4>2. QED
        BY <2>1, <3>1, <4>1 DEF K!TypeOK
    <3>3. FilesHold'
      BY <1>10, <2>2, <2>5, <2>6 DEF K!Apply, K!TypeOK, FilesHold, K!Field, K!Config
    <3>4. QED
      BY <3>2, <3>3
  <2>7. ASSUME link[c].op.field \in K!Config PROVE once' = voice' /\ FilesHold'
    <3>1. /\ voice' = [voice EXCEPT ![link[c].op.field] = link[c].op.value]
          /\ once' = [link[c].new EXCEPT !["ca"] = once["ca"]]
          /\ left' = {f \in left : f = "ca" \/ file[f] # voice'[f]} /\ file' = file
      BY <1>10, <2>7 DEF K!Apply, K!Config
    <3>2. once' = voice'
      BY <2>1, <2>2, <2>7, <3>1 DEF K!TypeOK, K!Field, K!Config
    <3>3. FilesHold'
      BY <2>2, <2>5, <2>7, <3>1 DEF K!TypeOK, FilesHold, K!Field, K!Config
    <3>4. QED
      BY <3>2, <3>3
  <2>8. QED
    BY <1>1, <1>10, <2>1, <2>2, <2>3, <2>4, <2>6, <2>7 DEF K!Apply, ControlHolds, Works, K!Field
<1>11. ASSUME K!ImportReads PROVE ControlHolds'
  BY <1>11 DEF K!ImportReads, ControlHolds, Works, OneTurn, Saving, Saves, FilesHold
<1>12. ASSUME NEW f \in K!Config, NEW v \in Values, K!ImportWrites(f, v) PROVE ControlHolds'
  <2>1. file'["ca"] = file["ca"] /\ K!Config \subseteq left' /\ left \subseteq left'
    BY <1>12 DEF K!ImportWrites, K!Field, K!Config
  <2>2. Saves' /\ FilesHold'
    BY <1>12, <2>1, ControlStages DEF K!ImportWrites, K!TypeOK, K!Sets, ControlHolds, Saves, FilesHold, K!Field
  <2>3. QED
    BY <1>12, <2>2 DEF K!ImportWrites, ControlHolds, Works, OneTurn, Saving
<1>13. ASSUME K!Ends PROVE ControlHolds'
  <2>1. \A d \in Profiles : link'[d] = K!Free /\ link'[d].at = "free"
    BY <1>13 DEF K!Ends, K!Free
  <2>2. FilesHold'
    <3>1. CASE guard # NoOne /\ link[guard].at = "apply"
      BY <1>13, <3>1 DEF K!Ends, FilesHold
    <3>2. CASE ~(guard # NoOne /\ link[guard].at = "apply")
      <4>1. \A d \in Profiles : link[d].at # "apply"
        BY <1>1, <3>2, ControlAssumption DEF OneTurn, Performing
      <4>2. QED
        BY <1>13, <3>2, <4>1 DEF K!Ends, ControlHolds, FilesHold
    <3>3. QED
      BY <3>1, <3>2
  <2>3. QED
    BY <1>13, <2>1, <2>2 DEF K!Ends, ControlHolds, Works, OneTurn, Saving, Saves, Performing
<1>14. ASSUME K!Starts PROVE ControlHolds'
  <2>1. \A d \in Profiles : link'[d] = K!Free /\ link'[d].at = "free"
    BY <1>1, <1>14 DEF K!Starts, Works, K!Free
  <2>2. QED
    BY <1>14, <2>1 DEF K!Starts, ControlHolds, Works, OneTurn, Saving, Saves, FilesHold, Performing
<1>15. QED
  BY <1>2, <1>3, <1>4, <1>5, <1>6, <1>7, <1>8, <1>9, <1>10, <1>11, <1>12, <1>13,
     <1>14 DEF K!Next

LEMMA ControlInit ==
  ASSUME K!Init  PROVE ControlInv
  <1>1. K!TypeOK
    BY DEF K!Init, K!TypeOK, K!Free, K!Connection, K!Field, K!Value
  <1>2. ControlHolds
    BY DEF K!Init, ControlHolds, Works, OneTurn, Saving, Saves, FilesHold, K!Free, Performing
  <1> QED  BY <1>1, <1>2 DEF ControlInv

LEMMA ControlNext ==
  ASSUME ControlInv, K!Next  PROVE ControlInv'
  BY ControlStep, ControlTyped DEF ControlInv

LEMMA ConfigurationKept ==
  ASSUME ControlInv  PROVE K!TypeOK /\ K!ConfigurationIsKept
  <1>1. ASSUME guard = NoOne  PROVE \A f \in K!Field \ left : file[f] = voice[f]
    BY <1>1, ControlAssumption DEF ControlInv, ControlHolds, OneTurn, FilesHold, Performing
  <1> QED  BY <1>1 DEF ControlInv, ControlHolds, Works, K!ConfigurationIsKept

-----------------------------------------------------------------------------
(* What the daemon's operators on queues do *)

\* Induction up to n, for a set of numbers.
LEMMA Climbs ==
  ASSUME NEW n \in Nat, NEW good, 0 \in good,
         \A i \in 1..n : i - 1 \in good => i \in good
  PROVE  0..n \subseteq good
  <1>1. SUFFICES ASSUME (0..n) \ good # {}  PROVE FALSE
    OBVIOUS
  <1>2. PICK i \in (0..n) \ good : \A m \in (0..n) \ good : i <= m
    <2>1. (0..n) \ good \in SUBSET Nat
      OBVIOUS
    <2> QED  BY <1>1, <2>1, LeastOf
  <1>3. i \in 1..n /\ i - 1 \in 0..n
    BY <1>2
  <1>4. i - 1 \in good
    BY <1>2, <1>3
  <1> QED  BY <1>2, <1>3, <1>4

\* f goes from base through n steps.
Steps(f, n, T, base, step) ==
    f \in [0..n -> T] /\ f[0] = base /\ \A i \in 1..n : f[i] = step[i][f[i - 1]]

LEMMA StepsExist ==
  ASSUME NEW n \in Nat, NEW T, NEW base \in T, NEW step \in [1..n -> [T -> T]]
  PROVE  \E f : Steps(f, n, T, base, step)
  <1> DEFINE good == {k \in 0..n : \E f \in [0..k -> T] :
                        f[0] = base /\ \A i \in 1..k : f[i] = step[i][f[i - 1]]}
  <1>1. 0 \in good
    <2> DEFINE f == [i \in 0..0 |-> base]
    <2>1. f \in [0..0 -> T] /\ f[0] = base /\ 1..0 = {} /\ 0 \in 0..n
      OBVIOUS
    <2> HIDE DEF f
    <2> QED  BY <2>1
  <1>2. ASSUME NEW k \in 1..n, k - 1 \in good  PROVE k \in good
    <2>1. PICK f \in [0..(k - 1) -> T] :
            f[0] = base /\ \A i \in 1..(k - 1) : f[i] = step[i][f[i - 1]]
      BY <1>2
    <2> DEFINE g == [i \in 0..k |-> IF i = k THEN step[k][f[k - 1]] ELSE f[i]]
    <2>2. f[k - 1] \in T /\ step[k][f[k - 1]] \in T
      BY <2>1
    <2>3. g \in [0..k -> T] /\ g[0] = base
      BY <2>1, <2>2
    <2>4. ASSUME NEW i \in 1..k  PROVE g[i] = step[i][g[i - 1]]
      <3>1. CASE i = k
        BY <3>1
      <3>2. CASE i # k
        <4>1. i \in 1..(k - 1) /\ i - 1 \in 0..(k - 1)
          BY <3>2
        <4> QED  BY <4>1, <2>1
      <3> QED  BY <3>1, <3>2
    <2>5. k \in 0..n
      OBVIOUS
    <2> HIDE DEF g
    <2> QED  BY <2>3, <2>4, <2>5
  <1> HIDE DEF good
  <1>3. 0..n \subseteq good
    BY <1>1, <1>2, Climbs
  <1>4. n \in good
    BY <1>3
  <1> QED  BY <1>4 DEF good, Steps

Queues == Seq(Delivery)
\* No two deliveries of one subject to one transport.
Apart(q) ==
    \A i, j \in 1..Len(q) : q[i].of = q[j].of /\ q[i].to = q[j].to => i = j

LEMMA OnlyIs ==
  ASSUME NEW q \in Queues, NEW keep
  PROVE  \E kept \in [0..Len(q) -> Queues] :
            /\ kept[0] = <<>> /\ Only(q, keep) = kept[Len(q)]
            /\ \A n \in 1..Len(q) :
                 kept[n] = IF q[n] \in keep THEN Append(kept[n - 1], q[n])
                           ELSE kept[n - 1]
  <1> DEFINE step == [n \in 1..Len(q) |-> [r \in Queues |->
                        IF q[n] \in keep THEN Append(r, q[n]) ELSE r]]
             Kept(f) == [n \in 0..Len(q) |->
                           IF n = 0 THEN <<>>
                           ELSE IF q[n] \in keep THEN Append(f[n - 1], q[n]) ELSE f[n - 1]]
             kept == CHOOSE f : f = Kept(f)
  <1>1. step \in [1..Len(q) -> [Queues -> Queues]] /\ <<>> \in Queues /\ Len(q) \in Nat
    BY DEF Queues
  <1>2. PICK f \in [0..Len(q) -> Queues] :
          f[0] = <<>> /\ \A n \in 1..Len(q) : f[n] = step[n][f[n - 1]]
    <2> HIDE DEF step
    <2>1. PICK f : Steps(f, Len(q), Queues, <<>>, step)
      BY <1>1, StepsExist
    <2> QED  BY <2>1 DEF Steps
  <1>3. ASSUME NEW n \in 1..Len(q)
        PROVE  f[n] = IF q[n] \in keep THEN Append(f[n - 1], q[n]) ELSE f[n - 1]
    <2>1. f[n - 1] \in Queues
      BY <1>2
    <2> QED  BY <1>2, <2>1
  <1>4. f = Kept(f)
    <2>1. f = [n \in 0..Len(q) |-> f[n]]
      BY <1>2
    <2>2. \A n \in 0..Len(q) : n = 0 \/ n \in 1..Len(q)
      BY <1>1
    <2> QED  BY <1>2, <1>3, <2>1, <2>2
  <1>5. kept = Kept(kept)
    BY <1>4
  <1>6. Only(q, keep) = kept[Len(q)]
    BY DEF Only
  <1> HIDE DEF kept
  <1>7. /\ kept[0] = <<>>
        /\ \A n \in 1..Len(q) :
             kept[n] = IF q[n] \in keep THEN Append(kept[n - 1], q[n]) ELSE kept[n - 1]
    <2>1. 0 \in 0..Len(q) /\ 1..Len(q) \subseteq (0..Len(q)) \ {0}
      BY <1>1
    <2>2. \A n \in 0..Len(q) : kept[n] = Kept(kept)[n]
      BY <1>5
    <2> QED  BY <2>1, <2>2
  <1>8. kept \in [0..Len(q) -> Queues]
    <2>1. DOMAIN kept = 0..Len(q) /\ kept = [n \in 0..Len(q) |-> kept[n]]
      BY <1>5
    <2> DEFINE good == {n \in 0..Len(q) : kept[n] \in Queues}
    <2>2. 0 \in good
      BY <1>1, <1>7
    <2>3. ASSUME NEW n \in 1..Len(q), n - 1 \in good  PROVE n \in good
      <3>1. kept[n - 1] \in Queues /\ q[n] \in Delivery
        BY <2>3 DEF Queues
      <3>2. kept[n] = Append(kept[n - 1], q[n]) \/ kept[n] = kept[n - 1]
        BY <1>7
      <3>3. kept[n] \in Queues
        <4>1. kept[n - 1] \in Seq(Delivery) /\ q[n] \in Delivery
              => Append(kept[n - 1], q[n]) \in Seq(Delivery)
          OBVIOUS
        <4> QED  BY <3>1, <3>2, <4>1 DEF Queues
      <3>4. n \in 0..Len(q)
        BY <1>1
      <3> QED  BY <3>3, <3>4
    <2>4. 0..Len(q) \subseteq good
      <3> HIDE DEF good
      <3> QED  BY <1>1, <2>2, <2>3, Climbs
    <2> QED  BY <2>1, <2>4
  <1> QED  BY <1>6, <1>7, <1>8

LEMMA ToSetIs ==
  ASSUME NEW q \in Queues
  PROVE  ToSet(q) = {q[i] : i \in 1..Len(q)} /\ ToSet(q) \subseteq Delivery /\ Len(q) \in Nat
  BY DEF ToSet, Queues

LEMMA OnlyFacts ==
  ASSUME NEW q \in Queues, NEW keep
  PROVE  /\ Only(q, keep) \in Queues /\ Len(Only(q, keep)) <= Len(q)
         /\ ToSet(Only(q, keep)) = ToSet(q) \cap keep
         /\ Apart(q) => Apart(Only(q, keep))
  <1>1. PICK kept \in [0..Len(q) -> Queues] :
            /\ kept[0] = <<>> /\ Only(q, keep) = kept[Len(q)]
            /\ \A n \in 1..Len(q) :
                 kept[n] = IF q[n] \in keep THEN Append(kept[n - 1], q[n])
                           ELSE kept[n - 1]
    BY OnlyIs
  <1>2. Len(q) \in Nat /\ \A n \in 1..Len(q) : q[n] \in Delivery
    BY DEF Queues
  <1> DEFINE Before(n) == {q[i] : i \in 1..n} \cap keep
             good == {n \in 0..Len(q) :
                        /\ Len(kept[n]) <= n
                        /\ {kept[n][i] : i \in 1..Len(kept[n])} = Before(n)
                        /\ Apart(q) => Apart(kept[n])}
  <1>3. 0 \in good
    <2>1. Len(kept[0]) = 0 /\ Before(0) = {}
      BY <1>1
    <2> QED  BY <1>2, <2>1 DEF Apart
  <1>4. ASSUME NEW n \in 1..Len(q), n - 1 \in good  PROVE n \in good
    <2> DEFINE r == kept[n - 1]
    <2>1. r \in Seq(Delivery) /\ n - 1 \in 0..Len(q) /\ n \in 0..Len(q)
      BY <1>1, <1>2 DEF Queues
    <2>2. Before(n) = Before(n - 1) \cup ({q[n]} \cap keep)
      <3>1. 1..n = (1..(n - 1)) \cup {n}
        BY <1>2
      <3> QED  BY <3>1
    <2>3. CASE q[n] \notin keep
      <3>1. kept[n] = r /\ Before(n) = Before(n - 1)
        BY <1>1, <2>2, <2>3
      <3> QED  BY <1>4, <2>1, <3>1
    <2>4. CASE q[n] \in keep
      <3>1. kept[n] = Append(r, q[n])
        BY <1>1, <2>4
      <3> HIDE DEF r
      <3>2. /\ Len(kept[n]) = Len(r) + 1 /\ Len(r) \in Nat
            /\ kept[n][Len(r) + 1] = q[n] /\ \A i \in 1..Len(r) : kept[n][i] = r[i]
        BY <1>2, <2>1, <3>1
      <3>3. /\ Len(r) <= n - 1 /\ {r[i] : i \in 1..Len(r)} = Before(n - 1)
            /\ Apart(q) => Apart(r)
        BY <1>4 DEF r
      <3>4. {kept[n][i] : i \in 1..Len(kept[n])} = {r[i] : i \in 1..Len(r)} \cup {q[n]}
        BY <3>2
      <3>5. ASSUME Apart(q)  PROVE Apart(kept[n])
        <4>1. ASSUME NEW i \in 1..Len(r)  PROVE <<r[i].of, r[i].to>> # <<q[n].of, q[n].to>>
          <5>1. PICK j \in 1..(n - 1) : r[i] = q[j]
            BY <3>3
          <5>2. j \in 1..Len(q) /\ j # n
            BY <1>2
          <5> QED  BY <3>5, <5>1, <5>2 DEF Apart
        <4>2. SUFFICES ASSUME NEW i \in 1..(Len(r) + 1), NEW j \in 1..(Len(r) + 1),
                              kept[n][i].of = kept[n][j].of, kept[n][i].to = kept[n][j].to
                       PROVE  i = j
          BY <3>2 DEF Apart
        <4>3. CASE i \in 1..Len(r) /\ j \in 1..Len(r)
          BY <3>2, <3>3, <3>5, <4>2, <4>3 DEF Apart
        <4>4. CASE i \in 1..Len(r) /\ j = Len(r) + 1
          BY <3>2, <4>1, <4>2, <4>4
        <4>5. CASE j \in 1..Len(r) /\ i = Len(r) + 1
          BY <3>2, <4>1, <4>2, <4>5
        <4> QED  BY <3>2, <4>3, <4>4, <4>5
      <3> HIDE DEF Before
      <3>6. Before(n) = Before(n - 1) \cup {q[n]}
        BY <2>2, <2>4
      <3> QED  BY <2>1, <3>2, <3>3, <3>4, <3>5, <3>6
    <2> QED  BY <2>3, <2>4
  <1>5. Len(q) \in good
    <2> HIDE DEF good
    <2>1. 0..Len(q) \subseteq good
      BY <1>2, <1>3, <1>4, Climbs
    <2> QED  BY <1>2, <2>1
  <1> QED  BY <1>1, <1>2, <1>5, ToSetIs

LEMMA RemoveAtFacts ==
  ASSUME NEW q \in Queues, NEW i \in 1..Len(q)
  PROVE  /\ RemoveAt(q, i) \in Queues /\ Len(RemoveAt(q, i)) = Len(q) - 1
         /\ \A j \in 1..(Len(q) - 1) :
              RemoveAt(q, i)[j] = IF j < i THEN q[j] ELSE q[j + 1]
         /\ ToSet(RemoveAt(q, i)) \subseteq ToSet(q)
         /\ ToSet(q) \subseteq ToSet(RemoveAt(q, i)) \cup {q[i]}
         /\ Apart(q) => Apart(RemoveAt(q, i)) /\ q[i] \notin ToSet(RemoveAt(q, i))
  <1> DEFINE r == RemoveAt(q, i)
             from(j) == IF j < i THEN j ELSE j + 1
  <1>1. q \in Seq(Delivery) /\ Len(q) \in Nat /\ i \in Nat
    BY DEF Queues
  <1> DEFINE a == SubSeq(q, 1, i - 1)
             b == SubSeq(q, i + 1, Len(q))
  <1>a. a \in Seq(Delivery) /\ Len(a) = i - 1 /\ \A j \in 1..(i - 1) : a[j] = q[j]
    BY <1>1
  <1>b. /\ b \in Seq(Delivery) /\ Len(b) = Len(q) - i
        /\ \A j \in 1..(Len(q) - i) : b[j] = q[j + i]
    <2>1. \A j \in (i + 1)..Len(q) : q[j] \in Delivery
      BY <1>1
    <2> QED  BY <1>1, <2>1
  <1>c. r = a \o b
    BY DEF RemoveAt
  <1> HIDE DEF a, b
  <1>2. r \in Seq(Delivery) /\ Len(r) = Len(q) - 1
    <2>1. a \in Seq(Delivery) /\ b \in Seq(Delivery)
      BY <1>a, <1>b
    <2>2. r \in Seq(Delivery) /\ Len(r) = Len(a) + Len(b)
      BY <1>c, <2>1
    <2> QED  BY <1>1, <1>a, <1>b, <2>2
  <1>3. ASSUME NEW j \in 1..(Len(q) - 1)  PROVE r[j] = q[from(j)]
    <2>1. CASE j < i
      <3>1. j \in 1..(i - 1) /\ r[j] = a[j]
        BY <1>1, <1>a, <1>b, <1>c, <2>1
      <3> QED  BY <1>a, <2>1, <3>1
    <2>2. CASE ~ (j < i)
      <3>1. j - (i - 1) \in 1..(Len(q) - i) /\ r[j] = b[j - (i - 1)]
        BY <1>1, <1>a, <1>b, <1>c, <2>2
      <3>2. b[j - (i - 1)] = q[j - (i - 1) + i] /\ j - (i - 1) + i = j + 1
        BY <1>1, <1>b, <3>1
      <3> QED  BY <2>2, <3>1, <3>2
    <2> QED  BY <2>1, <2>2
  <1>4. r \in Queues
    BY <1>2 DEF Queues
  <1> HIDE DEF r
  <1>5. /\ ToSet(r) = {r[j] : j \in 1..(Len(q) - 1)}
        /\ ToSet(q) = {q[j] : j \in 1..Len(q)}
    BY <1>2, <1>4, ToSetIs
  <1>6. \A j \in 1..(Len(q) - 1) : from(j) \in (1..Len(q)) \ {i}
    BY <1>1
  <1>7. \A j \in (1..Len(q)) \ {i} : \E k \in 1..(Len(q) - 1) : j = from(k)
    <2>1. SUFFICES ASSUME NEW j \in (1..Len(q)) \ {i}
                   PROVE  \E k \in 1..(Len(q) - 1) : j = from(k)
      OBVIOUS
    <2>2. CASE j < i
      <3>1. j \in 1..(Len(q) - 1) /\ j = from(j)
        BY <1>1, <2>2
      <3> QED  BY <3>1
    <2>3. CASE j > i
      <3>1. j - 1 \in 1..(Len(q) - 1) /\ j = from(j - 1)
        BY <1>1, <2>3
      <3> QED  BY <3>1
    <2> QED  BY <1>1, <2>2, <2>3
  <1>8. \A j, k \in 1..(Len(q) - 1) : from(j) = from(k) => j = k
    BY <1>1
  <1>9. ToSet(r) \subseteq ToSet(q)
    <2> HIDE DEF from
    <2> QED  BY <1>3, <1>5, <1>6
  <1>10. ToSet(q) \subseteq ToSet(r) \cup {q[i]}
    <2> HIDE DEF from
    <2>1. SUFFICES ASSUME NEW j \in 1..Len(q), j # i  PROVE q[j] \in ToSet(r)
      BY <1>5
    <2>2. PICK k \in 1..(Len(q) - 1) : j = from(k)
      BY <1>7, <2>1
    <2>3. r[k] = q[j]
      BY <1>3, <2>2
    <2> QED  BY <1>5, <2>3
  <1>11. ASSUME Apart(q)  PROVE Apart(r) /\ q[i] \notin ToSet(r)
    <2> HIDE DEF from
    <2>1. Apart(r)
      <3>1. SUFFICES ASSUME NEW j \in 1..(Len(q) - 1), NEW k \in 1..(Len(q) - 1),
                            r[j].of = r[k].of, r[j].to = r[k].to
                     PROVE  j = k
        BY <1>2 DEF Apart
      <3>2. from(j) = from(k)
        BY <1>3, <1>6, <1>11, <3>1 DEF Apart
      <3> QED  BY <1>8, <3>2
    <2>2. q[i] \notin ToSet(r)
      <3>1. SUFFICES ASSUME NEW j \in 1..(Len(q) - 1), r[j] = q[i]  PROVE FALSE
        BY <1>5
      <3>2. q[from(j)] = q[i] /\ from(j) \in 1..Len(q) /\ from(j) # i
        BY <1>3, <1>6, <3>1
      <3> QED  BY <1>11, <3>2 DEF Apart
    <2> QED  BY <2>1, <2>2
  <1>12. \A j \in 1..(Len(q) - 1) : r[j] = IF j < i THEN q[j] ELSE q[j + 1]
    BY <1>3
  <1> QED  BY <1>2, <1>4, <1>9, <1>10, <1>11, <1>12 DEF r

LEMMA KeysIs ==
  ASSUME NEW q \in Queues
  PROVE  /\ Keys(q) = {<<q[i].of, q[i].to>> : i \in 1..Len(q)}
         /\ Keys(q) \subseteq Subject \X Transport
  <1>1. ToSet(q) = {q[i] : i \in 1..Len(q)} /\ ToSet(q) \subseteq Delivery
    BY ToSetIs
  <1>2. \A d \in Delivery : d.of \in Subject /\ d.to \in Transport
    BY DEF Delivery
  <1> QED  BY <1>1, <1>2 DEF Keys

\* In a queue that is apart every delivery has a key of its own.
LEMMA ApartCounts ==
  ASSUME NEW q \in Queues, Apart(q)
  PROVE  IsFiniteSet(Keys(q)) /\ Cardinality(Keys(q)) = Len(q)
  <1> DEFINE f == [i \in 1..Len(q) |-> <<q[i].of, q[i].to>>]
  <1>1. Len(q) \in Nat /\ Keys(q) = {f[i] : i \in 1..Len(q)}
    BY KeysIs DEF Queues
  <1>2. f \in Surjection(1..Len(q), Keys(q)) /\ f \in Injection(1..Len(q), Keys(q))
    BY <1>1 DEF Surjection, Injection, IsInjective, Apart
  <1> HIDE DEF f
  <1>3. IsFiniteSet(1..Len(q)) /\ Cardinality(1..Len(q)) = Len(q)
    <2> DEFINE n == Len(q)
    <2>1. n \in Int /\ 1 \in Int /\ n >= 0
      BY <1>1
    <2> HIDE DEF n
    <2>2. IsFiniteSet(1..n) /\ Cardinality(1..n) = n
      BY <2>1, FS_Interval
    <2> QED  BY <2>2 DEF n
  <1> QED  BY <1>2, <1>3, FS_Surjection

\* A queue of calls only is not full.
LEMMA CallsFit ==
  ASSUME NEW q \in Queues, Apart(q), \A i \in 1..Len(q) : q[i].of \in Call
  PROVE  Len(q) < Cap
  <1>1. IsFiniteSet(Call) /\ IsFiniteSet(Transport)
        /\ Cap \in Nat /\ Cap > Cardinality(Call) * Cardinality(Transport)
    BY CapAssumption
  <1>2. IsFiniteSet(Call \X Transport)
        /\ Cardinality(Call \X Transport) = Cardinality(Call) * Cardinality(Transport)
    BY <1>1, FS_Product
  <1>3. Keys(q) \in SUBSET (Call \X Transport)
    <2>1. \A i \in 1..Len(q) : q[i].to \in Transport
      <3>1. \A i \in 1..Len(q) : q[i] \in Delivery
        BY DEF Queues
      <3> QED  BY <3>1 DEF Delivery
    <2> QED  BY <2>1, KeysIs
  <1>4. Cardinality(Keys(q)) <= Cardinality(Call \X Transport)
    BY <1>2, <1>3, FS_Subset
  <1>5. Cardinality(Keys(q)) = Len(q)
    BY ApartCounts
  <1>6. Cardinality(Call) \in Nat /\ Cardinality(Transport) \in Nat /\ Len(q) \in Nat
        /\ Cardinality(Call \X Transport) \in Nat
    BY <1>1, <1>2, FS_CardinalityType DEF Queues
  <1> QED  BY <1>1, <1>2, <1>4, <1>5, <1>6

GoodQueue(q) ==
    /\ q \in Queues /\ Len(q) <= Cap /\ Apart(q)
    /\ \A i \in 1..Len(q) :
         q[i].attempts < MaxAttempts /\ (q[i].of \in Sms => q[i].ring = 0)

\* There is room after Trim, and only a message made it.
LEMMA TrimFacts ==
  ASSUME NEW q, GoodQueue(q)
  PROVE  /\ GoodQueue(Trim(q)) /\ Len(Trim(q)) < Cap
         /\ ToSet(Trim(q)) \subseteq ToSet(q)
         /\ \A d \in ToSet(q) : d.of \in Call => d \in ToSet(Trim(q))
  <1>1. q \in Queues /\ Len(q) \in Nat /\ Cap \in Nat
    BY CapAssumption DEF GoodQueue, Queues
  <1>2. CASE Len(q) < Cap
    BY <1>2 DEF Trim
  <1>3. CASE ~ (Len(q) < Cap)
    <2> DEFINE sms == {i \in 1..Len(q) : q[i].of \in Sms}
               first == CHOOSE i \in sms : \A j \in sms : i =< j
    <2>1. sms # {}
      <3>1. SUFFICES ASSUME sms = {}  PROVE FALSE
        OBVIOUS
      <3>2. \A i \in 1..Len(q) : q[i].of \in Call
        <4>1. \A i \in 1..Len(q) : q[i] \in Delivery
          BY <1>1 DEF Queues
        <4> QED  BY <3>1, <4>1 DEF Delivery, Subject
      <3> QED  BY <1>1, <1>3, <3>2, CallsFit DEF GoodQueue
    <2>2. \E i \in sms : \A j \in sms : i <= j
      <3>1. sms \in SUBSET Nat
        BY <1>1
      <3> HIDE DEF sms
      <3> QED  BY <2>1, <3>1, LeastOf
    <2>3. first \in sms
      BY <2>2
    <2>4. Trim(q) = RemoveAt(q, first)
      BY <1>3, <2>1 DEF Trim
    <2> HIDE DEF first
    <2>5. first \in 1..Len(q) /\ q[first].of \in Sms
      BY <2>3
    <2> DEFINE r == RemoveAt(q, first)
    <2>6. /\ r \in Queues /\ Len(r) = Len(q) - 1
          /\ \A j \in 1..(Len(q) - 1) : r[j] = IF j < first THEN q[j] ELSE q[j + 1]
          /\ ToSet(r) \subseteq ToSet(q)
          /\ ToSet(q) \subseteq ToSet(r) \cup {q[first]}
          /\ Apart(r)
      BY <1>1, <2>5, RemoveAtFacts DEF GoodQueue
    <2> HIDE DEF r
    <2>7. Len(r) < Cap
      BY <1>1, <2>6 DEF GoodQueue
    <2>8. GoodQueue(r)
      <3>1. \A j \in 1..(Len(q) - 1) : j \in 1..Len(q) /\ j + 1 \in 1..Len(q)
        BY <1>1
      <3>2. \A j \in 1..(Len(q) - 1) : r[j] = q[j] \/ r[j] = q[j + 1]
        BY <2>6
      <3>3. \A j \in 1..(Len(q) - 1) :
              r[j].attempts < MaxAttempts /\ (r[j].of \in Sms => r[j].ring = 0)
        BY <3>1, <3>2 DEF GoodQueue
      <3> QED  BY <1>1, <2>6, <2>7, <3>3 DEF GoodQueue
    <2>9. \A d \in ToSet(q) : d.of \in Call => d \in ToSet(r)
      BY <2>5, <2>6, SubjectsAssumption
    <2> QED  BY <2>4, <2>6, <2>7, <2>8, <2>9 DEF r
  <1> QED  BY <1>2, <1>3

LEMMA TrimType ==
  ASSUME NEW q \in Queues
  PROVE  Trim(q) \in Queues
  <1>1. Len(q) \in Nat /\ Cap \in Nat \ {0}
    <2>1. IsFiniteSet(Call) /\ IsFiniteSet(Transport)
          /\ Cap \in Nat /\ Cap > Cardinality(Call) * Cardinality(Transport)
      BY CapAssumption
    <2>2. IsFiniteSet(Call \X Transport)
          /\ Cardinality(Call \X Transport) = Cardinality(Call) * Cardinality(Transport)
      BY <2>1, FS_Product
    <2>3. Cardinality(Call \X Transport) \in Nat
      BY <2>2, FS_CardinalityType
    <2> QED  BY <2>1, <2>2, <2>3 DEF Queues
  <1>2. CASE Len(q) < Cap
    BY <1>2 DEF Trim
  <1>3. CASE ~ (Len(q) < Cap)
    <2> DEFINE sms == {i \in 1..Len(q) : q[i].of \in Sms}
               first == CHOOSE i \in sms : \A j \in sms : i =< j
               at == IF sms = {} THEN 1 ELSE first
    <2>1. at \in 1..Len(q)
      <3>1. CASE sms = {}
        BY <1>1, <1>3, <3>1
      <3>2. CASE sms # {}
        <4>1. \E i \in sms : \A j \in sms : i <= j
          <5>1. sms \in SUBSET Nat
            BY <1>1
          <5> HIDE DEF sms
          <5> QED  BY <3>2, <5>1, LeastOf
        <4>2. first \in sms
          BY <4>1
        <4> HIDE DEF first
        <4> QED  BY <3>2, <4>2
      <3> QED  BY <3>1, <3>2
    <2>2. Trim(q) = RemoveAt(q, at)
      BY <1>3 DEF Trim
    <2> HIDE DEF at
    <2> QED  BY <2>1, <2>2, RemoveAtFacts
  <1> QED  BY <1>2, <1>3

LEMMA EnqueueType ==
  ASSUME NEW q \in Queues, NEW d \in Delivery
  PROVE  Enqueue(q, d) \in Queues
  <1>1. Trim(q) \in Seq(Delivery)
    BY TrimType DEF Queues
  <1>2. Append(Trim(q), d) \in Seq(Delivery)
    BY <1>1
  <1> QED  BY <1>2 DEF Enqueue, Queues

\* What is enqueued with no attempt is new to the queue, when it is of a call.
Fresh(q, d) ==
    /\ d \in Delivery /\ d.attempts = 0
    /\ d.of \in Sms => d.ring = 0
    /\ d.of \in Call => <<d.of, d.to>> \notin Keys(q)

LEMMA EnqueueFacts ==
  ASSUME NEW q, GoodQueue(q), NEW d, Fresh(q, d)
  PROVE  /\ GoodQueue(Enqueue(q, d))
         /\ ToSet(Enqueue(q, d)) \subseteq ToSet(q) \cup {d}
         /\ \A e \in ToSet(q) \cup {d} : e.of \in Call => e \in ToSet(Enqueue(q, d))
  <1>1. q \in Queues /\ d \in Delivery /\ Len(q) \in Nat /\ Cap \in Nat
        /\ \A e \in Delivery : e.of \in Subject
    BY CapAssumption DEF GoodQueue, Fresh, Queues, Delivery
  <1>2. CASE d.of \in Sms /\ Queued(q, d)
    <2>1. Enqueue(q, d) = q /\ d.of \notin Call
      BY <1>2, SubjectsAssumption DEF Enqueue
    <2> QED  BY <2>1
  <1>3. CASE ~ (d.of \in Sms /\ Queued(q, d))
    <2> DEFINE r == Trim(q)
               a == Enqueue(q, d)
    <2>1. a = Append(r, d)
      BY <1>3 DEF Enqueue
    <2>2. /\ GoodQueue(r) /\ Len(r) < Cap /\ ToSet(r) \subseteq ToSet(q)
          /\ \A e \in ToSet(q) : e.of \in Call => e \in ToSet(r)
      BY TrimFacts
    <2> HIDE DEF r, a
    <2>3. r \in Seq(Delivery) /\ r \in Queues /\ Len(r) \in Nat
      BY <2>2 DEF GoodQueue, Queues
    <2>4. /\ a \in Seq(Delivery) /\ Len(a) = Len(r) + 1 /\ a[Len(r) + 1] = d
          /\ \A i \in 1..Len(r) : a[i] = r[i]
      BY <1>1, <2>1, <2>3
    <2>5. a \in Queues
      BY <2>4 DEF Queues
    <2>6. ToSet(a) = ToSet(r) \cup {d}
      <3>1. ToSet(r) = {r[i] : i \in 1..Len(r)} /\ ToSet(a) = {a[i] : i \in 1..Len(a)}
        BY <2>3, <2>5, ToSetIs
      <3>2. 1..Len(a) = (1..Len(r)) \cup {Len(r) + 1}
        BY <2>3, <2>4
      <3> QED  BY <2>4, <3>1, <3>2
    <2>7. ASSUME NEW i \in 1..Len(r)  PROVE ~ (r[i].of = d.of /\ r[i].to = d.to)
      <3>1. SUFFICES ASSUME r[i].of = d.of, r[i].to = d.to  PROVE FALSE
        OBVIOUS
      <3>2. r[i] \in ToSet(q)
        BY <2>2, <2>3, ToSetIs
      <3>3. CASE d.of \in Call
        <4>1. <<d.of, d.to>> \in Keys(q)
          BY <3>1, <3>2 DEF Keys
        <4> QED  BY <3>3, <4>1 DEF Fresh
      <3>4. CASE d.of \in Sms
        <4>1. r[i].ring = 0 /\ d.ring = 0
          BY <2>2, <3>1, <3>4 DEF GoodQueue, Fresh
        <4>2. Queued(q, d)
          BY <3>1, <3>2, <4>1 DEF Queued, SameDelivery
        <4> QED  BY <1>3, <3>4, <4>2
      <3> QED  BY <1>1, <3>3, <3>4 DEF Subject
    <2>8. Apart(a)
      <3>1. SUFFICES ASSUME NEW i \in 1..(Len(r) + 1), NEW j \in 1..(Len(r) + 1),
                            a[i].of = a[j].of, a[i].to = a[j].to
                     PROVE  i = j
        BY <2>4 DEF Apart
      <3>2. CASE i \in 1..Len(r) /\ j \in 1..Len(r)
        BY <2>2, <2>4, <3>1, <3>2 DEF Apart, GoodQueue
      <3>3. CASE i \in 1..Len(r) /\ j = Len(r) + 1
        BY <2>4, <2>7, <3>1, <3>3
      <3>4. CASE j \in 1..Len(r) /\ i = Len(r) + 1
        BY <2>4, <2>7, <3>1, <3>4
      <3> QED  BY <2>3, <3>2, <3>3, <3>4
    <2>9. GoodQueue(a)
      <3>1. Len(a) <= Cap
        BY <1>1, <2>2, <2>3, <2>4
      <3>2. ASSUME NEW i \in 1..Len(a)
            PROVE  a[i].attempts < MaxAttempts /\ (a[i].of \in Sms => a[i].ring = 0)
        <4>1. CASE i \in 1..Len(r)
          BY <2>2, <2>4, <4>1 DEF GoodQueue
        <4>2. CASE i = Len(r) + 1
          BY <2>4, <4>2, BoundsAssumption DEF Fresh
        <4> QED  BY <2>3, <2>4, <4>1, <4>2
      <3> QED  BY <2>5, <2>8, <3>1, <3>2 DEF GoodQueue
    <2> QED  BY <2>2, <2>6, <2>9 DEF a
  <1> QED  BY <1>2, <1>3

LEMMA EnqueueAllIs ==
  ASSUME NEW q \in Queues, NEW ds \in Queues
  PROVE  \E after \in [0..Len(ds) -> Queues] :
            /\ after[0] = q /\ EnqueueAll(q, ds) = after[Len(ds)]
            /\ \A n \in 1..Len(ds) : after[n] = Enqueue(after[n - 1], ds[n])
  <1> DEFINE step == [n \in 1..Len(ds) |-> [r \in Queues |-> Enqueue(r, ds[n])]]
             Rec(f) == [n \in 0..Len(ds) |->
                           IF n = 0 THEN q ELSE Enqueue(f[n - 1], ds[n])]
             after == CHOOSE f : f = Rec(f)
  <1>1. step \in [1..Len(ds) -> [Queues -> Queues]] /\ Len(ds) \in Nat
    <2>1. Len(ds) \in Nat /\ \A n \in 1..Len(ds) : ds[n] \in Delivery
      BY DEF Queues
    <2> QED  BY <2>1, EnqueueType
  <1>2. PICK f \in [0..Len(ds) -> Queues] :
          f[0] = q /\ \A n \in 1..Len(ds) : f[n] = step[n][f[n - 1]]
    <2> HIDE DEF step
    <2>1. PICK f : Steps(f, Len(ds), Queues, q, step)
      BY <1>1, StepsExist
    <2> QED  BY <2>1 DEF Steps
  <1>3. ASSUME NEW n \in 1..Len(ds)  PROVE f[n] = Enqueue(f[n - 1], ds[n])
    <2>1. f[n - 1] \in Queues
      BY <1>2
    <2> QED  BY <1>2, <2>1
  <1>4. f = Rec(f)
    <2>1. f = [n \in 0..Len(ds) |-> f[n]]
      BY <1>2
    <2>2. \A n \in 0..Len(ds) : n = 0 \/ n \in 1..Len(ds)
      BY <1>1
    <2> QED  BY <1>2, <1>3, <2>1, <2>2
  <1>5. after = Rec(after)
    BY <1>4
  <1>6. EnqueueAll(q, ds) = after[Len(ds)]
    BY DEF EnqueueAll
  <1> HIDE DEF after
  <1>7. after[0] = q /\ \A n \in 1..Len(ds) : after[n] = Enqueue(after[n - 1], ds[n])
    <2>1. 0 \in 0..Len(ds) /\ 1..Len(ds) \subseteq (0..Len(ds)) \ {0}
      BY <1>1
    <2>2. \A n \in 0..Len(ds) : after[n] = Rec(after)[n]
      BY <1>5
    <2> QED  BY <2>1, <2>2
  <1>8. after \in [0..Len(ds) -> Queues]
    <2>1. DOMAIN after = 0..Len(ds) /\ after = [n \in 0..Len(ds) |-> after[n]]
      BY <1>5
    <2> DEFINE good == {n \in 0..Len(ds) : after[n] \in Queues}
    <2>2. 0 \in good
      BY <1>1, <1>7
    <2>3. ASSUME NEW n \in 1..Len(ds), n - 1 \in good  PROVE n \in good
      <3>1. after[n - 1] \in Queues /\ ds[n] \in Delivery /\ n \in 0..Len(ds)
        BY <1>1, <2>3 DEF Queues
      <3>2. Enqueue(after[n - 1], ds[n]) \in Queues
        BY <3>1, EnqueueType
      <3> QED  BY <1>7, <3>1, <3>2
    <2>4. 0..Len(ds) \subseteq good
      <3> HIDE DEF good
      <3> QED  BY <1>1, <2>2, <2>3, Climbs
    <2> QED  BY <2>1, <2>4
  <1> QED  BY <1>6, <1>7, <1>8

LEMMA EnqueueAllFacts ==
  ASSUME NEW q, GoodQueue(q), NEW ds \in Queues, Apart(ds),
         \A i \in 1..Len(ds) : Fresh(q, ds[i])
  PROVE  /\ GoodQueue(EnqueueAll(q, ds))
         /\ ToSet(EnqueueAll(q, ds)) \subseteq ToSet(q) \cup ToSet(ds)
         /\ \A d \in ToSet(q) \cup ToSet(ds) :
              d.of \in Call => d \in ToSet(EnqueueAll(q, ds))
  <1>1. q \in Queues /\ Len(ds) \in Nat
    BY DEF GoodQueue, Queues
  <1>2. PICK after \in [0..Len(ds) -> Queues] :
            /\ after[0] = q /\ EnqueueAll(q, ds) = after[Len(ds)]
            /\ \A n \in 1..Len(ds) : after[n] = Enqueue(after[n - 1], ds[n])
    BY <1>1, EnqueueAllIs
  <1> DEFINE First(n) == {ds[i] : i \in 1..n}
             good == {n \in 0..Len(ds) :
                        /\ GoodQueue(after[n])
                        /\ ToSet(after[n]) \subseteq ToSet(q) \cup First(n)
                        /\ \A d \in ToSet(q) \cup First(n) :
                             d.of \in Call => d \in ToSet(after[n])}
  <1>3. 0 \in good
    <2>1. First(0) = {} /\ 0 \in 0..Len(ds)
      BY <1>1
    <2> QED  BY <1>2, <2>1
  <1>4. ASSUME NEW n \in 1..Len(ds), n - 1 \in good  PROVE n \in good
    <2> DEFINE r == after[n - 1]
    <2>1. n \in 0..Len(ds) /\ n - 1 \in 0..Len(ds) /\ after[n] = Enqueue(r, ds[n])
      BY <1>1, <1>2
    <2>2. First(n) = First(n - 1) \cup {ds[n]}
      <3>1. 1..n = (1..(n - 1)) \cup {n}
        BY <1>1
      <3> QED  BY <3>1
    <2>3. /\ GoodQueue(r) /\ ToSet(r) \subseteq ToSet(q) \cup First(n - 1)
          /\ \A d \in ToSet(q) \cup First(n - 1) : d.of \in Call => d \in ToSet(r)
      BY <1>4
    <2>4. Fresh(r, ds[n])
      <3>1. SUFFICES ASSUME ds[n].of \in Call, <<ds[n].of, ds[n].to>> \in Keys(r)
                     PROVE  FALSE
        BY DEF Fresh
      <3>2. PICK d \in ToSet(r) : d.of = ds[n].of /\ d.to = ds[n].to
        BY <3>1 DEF Keys
      <3>3. CASE d \in ToSet(q)
        <4>1. <<ds[n].of, ds[n].to>> \in Keys(q)
          BY <3>2, <3>3 DEF Keys
        <4> QED  BY <3>1, <4>1 DEF Fresh
      <3>4. CASE d \in First(n - 1)
        <4>1. PICK i \in 1..(n - 1) : d = ds[i]
          BY <3>4
        <4>2. i \in 1..Len(ds) /\ i # n
          BY <1>1
        <4> QED  BY <3>2, <4>1, <4>2 DEF Apart
      <3> QED  BY <2>3, <3>2, <3>3, <3>4
    <2>5. /\ GoodQueue(after[n]) /\ ToSet(after[n]) \subseteq ToSet(r) \cup {ds[n]}
          /\ \A d \in ToSet(r) \cup {ds[n]} : d.of \in Call => d \in ToSet(after[n])
      BY <2>1, <2>3, <2>4, EnqueueFacts
    <2> HIDE DEF First, r
    <2> QED  BY <2>1, <2>2, <2>3, <2>5
  <1>5. Len(ds) \in good
    <2> HIDE DEF good
    <2>1. 0..Len(ds) \subseteq good
      BY <1>1, <1>3, <1>4, Climbs
    <2> QED  BY <1>1, <2>1
  <1>6. First(Len(ds)) = ToSet(ds)
    BY ToSetIs
  <1> QED  BY <1>2, <1>5, <1>6

LEMMA SetToSeqIs ==
  ASSUME NEW S, IsFiniteSet(S)
  PROVE  /\ Cardinality(S) \in Nat /\ SetToSeq(S) \in [1..Cardinality(S) -> S]
         /\ \A i, j \in 1..Cardinality(S) : SetToSeq(S)[i] = SetToSeq(S)[j] => i = j
         /\ S = {SetToSeq(S)[i] : i \in 1..Cardinality(S)}
  <1> DEFINE n == Cardinality(S)
             f == SetToSeq(S)
  <1>1. n \in Nat /\ ExistsBijection(1..n, S)
    BY FS_CardinalityType
  <1>2. PICK g : g \in Bijection(1..n, S)
    BY <1>1 DEF ExistsBijection
  <1>3. g \in [1..n -> S] /\ IsInjective(g)
    BY <1>2 DEF Bijection, Injection
  <1>4. f \in [1..n -> S] /\ IsInjective(f)
    BY <1>3 DEF SetToSeq
  <1>5. \A i, j \in 1..n : f[i] = f[j] => i = j
    BY <1>4 DEF IsInjective
  <1> HIDE DEF f, n
  <1>6. f \in Injection(1..n, S)
    BY <1>4 DEF Injection
  <1>7. IsFiniteSet(1..n) /\ Cardinality(1..n) = n
    <2>1. n \in Int /\ 1 \in Int
      BY <1>1
    <2>2. IsFiniteSet(1..n) /\ Cardinality(1..n) = IF 1 > n THEN 0 ELSE n - 1 + 1
      BY <2>1, FS_Interval
    <2> QED  BY <1>1, <2>2
  <1>8. f \in Surjection(1..n, S)
    BY <1>6, <1>7, FS_Injection DEF n
  <1>9. S = {f[i] : i \in 1..n}
    BY <1>4, <1>8 DEF Surjection
  <1> QED  BY <1>1, <1>4, <1>5, <1>9 DEF f, n

LEMMA DeliveriesFacts ==
  ASSUME config \in Config, NEW x \in Subject, NEW ring \in 0..MaxRings
  PROVE  /\ Deliveries(x, ring) \in Queues /\ Apart(Deliveries(x, ring))
         /\ \A i \in 1..Len(Deliveries(x, ring)) :
              /\ Deliveries(x, ring)[i].of = x /\ Deliveries(x, ring)[i].ring = ring
              /\ Deliveries(x, ring)[i].to \in config.on
              /\ Deliveries(x, ring)[i].attempts = 0
         /\ \A t \in config.on : \E d \in ToSet(Deliveries(x, ring)) : d.of = x /\ d.to = t
  <1> DEFINE n == Cardinality(config.on)
             to == SetToSeq(config.on)
             ds == Deliveries(x, ring)
  <1>1. IsFiniteSet(config.on) /\ config.on \subseteq Transport
    <2>1. config.on \in SUBSET Transport
      BY DEF Config
    <2> QED  BY <2>1, CapAssumption, FS_Subset
  <1>2. /\ n \in Nat /\ to \in [1..n -> config.on]
        /\ \A i, j \in 1..n : to[i] = to[j] => i = j
        /\ config.on = {to[i] : i \in 1..n}
    BY <1>1, SetToSeqIs
  <1>3. ds = [i \in 1..n |->
                [of |-> x, ring |-> ring, to |-> to[i], attempts |-> 0,
                 detail |-> KindOf(x) \in config.show]]
    BY DEF Deliveries
  <1> HIDE DEF n, to, ds
  <1>4. \A i \in 1..n : ds[i] \in Delivery
    <2>1. 0 \in 0..MaxAttempts /\ (KindOf(x) \in config.show) \in BOOLEAN
      BY BoundsAssumption
    <2> DEFINE b == KindOf(x) \in config.show
    <2> HIDE DEF b
    <2>2. b \in BOOLEAN
      BY <2>1 DEF b
    <2>3. \A i \in 1..n : to[i] \in Transport
      BY <1>1, <1>2
    <2>4. ds = [i \in 1..n |->
                  [of |-> x, ring |-> ring, to |-> to[i], attempts |-> 0, detail |-> b]]
      BY <1>3 DEF b
    <2> QED  BY <2>1, <2>2, <2>3, <2>4 DEF Delivery
  <1>5. ds \in Seq(Delivery) /\ Len(ds) = n
    <2>1. ds \in [1..n -> Delivery]
      BY <1>3, <1>4
    <2> QED  BY <1>2, <2>1
  <1>6. \A i \in 1..n : ds[i].of = x /\ ds[i].ring = ring /\ ds[i].to = to[i]
                         /\ ds[i].attempts = 0
    BY <1>3
  <1>7. ds \in Queues
    BY <1>5 DEF Queues
  <1>8. Apart(ds)
    BY <1>2, <1>5, <1>6 DEF Apart
  <1>9. ASSUME NEW t \in config.on  PROVE \E d \in ToSet(ds) : d.of = x /\ d.to = t
    <2>1. PICK i \in 1..n : t = to[i]
      BY <1>2
    <2>2. ds[i] \in ToSet(ds)
      BY <1>5, <1>7, ToSetIs
    <2> QED  BY <1>6, <2>1, <2>2
  <1> QED  BY <1>2, <1>5, <1>6, <1>7, <1>8, <1>9 DEF ds

\* The number that the n-th announcement of xs bears.
RingOf(xs, n) == IF xs[n] \in Call THEN rings + n ELSE 0

LEMMA AnnounceIs ==
  ASSUME config \in Config, NEW q \in Queues, NEW xs \in Seq(Subject),
         \A n \in 1..Len(xs) : RingOf(xs, n) \in 0..MaxRings
  PROVE  \E after \in [0..Len(xs) -> Queues] :
            /\ after[0] = q /\ Announce(q, xs) = after[Len(xs)]
            /\ \A n \in 1..Len(xs) :
                 after[n] = EnqueueAll(after[n - 1], Deliveries(xs[n], RingOf(xs, n)))
  <1> DEFINE ds(n) == Deliveries(xs[n], RingOf(xs, n))
             step == [n \in 1..Len(xs) |-> [r \in Queues |-> EnqueueAll(r, ds(n))]]
             Rec(f) == [n \in 0..Len(xs) |->
                           IF n = 0 THEN q ELSE EnqueueAll(f[n - 1], ds(n))]
             after == CHOOSE f : f = Rec(f)
  <1>1. \A n \in 1..Len(xs), r \in Queues : EnqueueAll(r, ds(n)) \in Queues
    <2>1. SUFFICES ASSUME NEW n \in 1..Len(xs), NEW r \in Queues
                   PROVE  EnqueueAll(r, ds(n)) \in Queues
      OBVIOUS
    <2>2. ds(n) \in Queues
      BY DeliveriesFacts
    <2> HIDE DEF ds
    <2>3. PICK a \in [0..Len(ds(n)) -> Queues] : EnqueueAll(r, ds(n)) = a[Len(ds(n))]
      BY <2>2, EnqueueAllIs
    <2>4. Len(ds(n)) \in 0..Len(ds(n))
      BY <2>2 DEF Queues
    <2> QED  BY <2>3, <2>4
  <1>2. Announce(q, xs) = after[Len(xs)]
    BY DEF Announce, RingOf
  <1> HIDE DEF ds
  <1>3. step \in [1..Len(xs) -> [Queues -> Queues]] /\ Len(xs) \in Nat
    BY <1>1
  <1>4. PICK f \in [0..Len(xs) -> Queues] :
          f[0] = q /\ \A n \in 1..Len(xs) : f[n] = step[n][f[n - 1]]
    <2> HIDE DEF step
    <2>1. PICK f : Steps(f, Len(xs), Queues, q, step)
      BY <1>3, StepsExist
    <2> QED  BY <2>1 DEF Steps
  <1>5. ASSUME NEW n \in 1..Len(xs)  PROVE f[n] = EnqueueAll(f[n - 1], ds(n))
    <2>1. f[n - 1] \in Queues
      BY <1>4
    <2> QED  BY <1>4, <2>1
  <1>6. f = Rec(f)
    <2>1. f = [n \in 0..Len(xs) |-> f[n]]
      BY <1>4
    <2>2. \A n \in 0..Len(xs) : n = 0 \/ n \in 1..Len(xs)
      BY <1>3
    <2> QED  BY <1>4, <1>5, <2>1, <2>2
  <1>7. after = Rec(after)
    BY <1>6
  <1> HIDE DEF after
  <1>8. after[0] = q /\ \A n \in 1..Len(xs) : after[n] = EnqueueAll(after[n - 1], ds(n))
    <2>1. 0 \in 0..Len(xs) /\ 1..Len(xs) \subseteq (0..Len(xs)) \ {0}
      BY <1>3
    <2>2. \A n \in 0..Len(xs) : after[n] = Rec(after)[n]
      BY <1>7
    <2> QED  BY <2>1, <2>2
  <1>9. after \in [0..Len(xs) -> Queues]
    <2>1. DOMAIN after = 0..Len(xs) /\ after = [n \in 0..Len(xs) |-> after[n]]
      BY <1>7
    <2> DEFINE good == {n \in 0..Len(xs) : after[n] \in Queues}
    <2>2. 0 \in good
      BY <1>3, <1>8
    <2>3. ASSUME NEW n \in 1..Len(xs), n - 1 \in good  PROVE n \in good
      <3>1. after[n - 1] \in Queues /\ n \in 0..Len(xs)
        BY <1>3, <2>3
      <3>2. EnqueueAll(after[n - 1], ds(n)) \in Queues
        BY <1>1, <3>1
      <3> QED  BY <1>8, <3>1, <3>2
    <2>4. 0..Len(xs) \subseteq good
      <3> HIDE DEF good
      <3> QED  BY <1>3, <2>2, <2>3, Climbs
    <2> QED  BY <2>1, <2>4
  <1> QED  BY <1>2, <1>8, <1>9 DEF ds

\* What is announced of different subjects is added to the queue, calls for every
\* transport that is on, and no call that was there is lost.
LEMMA AnnounceFacts ==
  ASSUME config \in Config, NEW q, GoodQueue(q), NEW xs \in Seq(Subject),
         \A n \in 1..Len(xs) : RingOf(xs, n) \in 0..MaxRings,
         \A m, n \in 1..Len(xs) : xs[m] = xs[n] => m = n,
         \A n \in 1..Len(xs), t \in Transport : xs[n] \in Call => <<xs[n], t>> \notin Keys(q)
  PROVE  /\ GoodQueue(Announce(q, xs))
         /\ \A d \in ToSet(Announce(q, xs)) :
              d \in ToSet(q) \/ \E n \in 1..Len(xs) : d.of = xs[n] /\ d.to \in config.on
         /\ \A d \in ToSet(q) : d.of \in Call => d \in ToSet(Announce(q, xs))
         /\ \A n \in 1..Len(xs), t \in config.on :
              xs[n] \in Call => <<xs[n], t>> \in Keys(Announce(q, xs))
  <1>1. q \in Queues /\ Len(xs) \in Nat
    BY DEF GoodQueue, Queues
  <1>2. PICK after \in [0..Len(xs) -> Queues] :
            /\ after[0] = q /\ Announce(q, xs) = after[Len(xs)]
            /\ \A n \in 1..Len(xs) :
                 after[n] = EnqueueAll(after[n - 1], Deliveries(xs[n], RingOf(xs, n)))
    BY <1>1, AnnounceIs
  <1> DEFINE New(d, k) == \E n \in 1..k : d.of = xs[n] /\ d.to \in config.on
             good == {k \in 0..Len(xs) :
                        /\ GoodQueue(after[k])
                        /\ \A d \in ToSet(after[k]) : d \in ToSet(q) \/ New(d, k)
                        /\ \A d \in ToSet(q) : d.of \in Call => d \in ToSet(after[k])
                        /\ \A n \in 1..k, t \in config.on :
                             xs[n] \in Call => <<xs[n], t>> \in Keys(after[k])}
  <1>3. 0 \in good
    <2>1. 1..0 = {} /\ 0 \in 0..Len(xs)
      BY <1>1
    <2> QED  BY <1>2, <2>1
  <1>4. ASSUME NEW k \in 1..Len(xs), k - 1 \in good  PROVE k \in good
    <2> DEFINE r == after[k - 1]
               ds == Deliveries(xs[k], RingOf(xs, k))
               a == after[k]
    <2>1. k \in 0..Len(xs) /\ k - 1 \in 0..Len(xs) /\ a = EnqueueAll(r, ds)
          /\ 1..k = (1..(k - 1)) \cup {k} /\ 1..(k - 1) \subseteq 1..Len(xs)
      BY <1>1, <1>2
    <2>2. /\ GoodQueue(r) /\ \A d \in ToSet(r) : d \in ToSet(q) \/ New(d, k - 1)
          /\ \A d \in ToSet(q) : d.of \in Call => d \in ToSet(r)
          /\ \A n \in 1..(k - 1), t \in config.on :
               xs[n] \in Call => <<xs[n], t>> \in Keys(r)
      BY <1>4
    <2>3. xs[k] \in Subject /\ RingOf(xs, k) \in 0..MaxRings
      OBVIOUS
    <2>4. /\ ds \in Queues /\ Apart(ds)
          /\ \A i \in 1..Len(ds) :
              /\ ds[i].of = xs[k] /\ ds[i].ring = RingOf(xs, k)
              /\ ds[i].to \in config.on /\ ds[i].attempts = 0
          /\ \A t \in config.on : \E d \in ToSet(ds) : d.of = xs[k] /\ d.to = t
      <3> DEFINE x == xs[k]
                 ring == RingOf(xs, k)
      <3>1. x \in Subject /\ ring \in 0..MaxRings /\ ds = Deliveries(x, ring)
        BY <2>3
      <3> HIDE DEF x, ring, ds
      <3>2. /\ ds \in Queues /\ Apart(ds)
            /\ \A i \in 1..Len(ds) :
                /\ ds[i].of = x /\ ds[i].ring = ring
                /\ ds[i].to \in config.on /\ ds[i].attempts = 0
            /\ \A t \in config.on : \E d \in ToSet(ds) : d.of = x /\ d.to = t
        BY <3>1, DeliveriesFacts
      <3> QED  BY <3>2 DEF x, ring
    <2> HIDE DEF r, ds, a
    <2>5. ASSUME NEW i \in 1..Len(ds)  PROVE Fresh(r, ds[i])
      <3>1. ds[i] \in Delivery
        BY <2>4 DEF Queues
      <3>2. ds[i].of \in Sms => ds[i].ring = 0
        BY <2>4, SubjectsAssumption DEF RingOf
      <3>3. ASSUME ds[i].of \in Call, <<ds[i].of, ds[i].to>> \in Keys(r)  PROVE FALSE
        <4>1. PICK d \in ToSet(r) : d.of = xs[k] /\ d.to = ds[i].to
          BY <2>4, <3>3 DEF Keys
        <4>2. d.to \in Transport
          BY <3>1, <4>1 DEF Delivery
        <4>3. CASE d \in ToSet(q)
          <5>1. <<xs[k], d.to>> \in Keys(q)
            BY <4>1, <4>3 DEF Keys
          <5> QED  BY <2>4, <3>3, <4>2, <5>1
        <4>4. CASE New(d, k - 1)
          <5>1. PICK n \in 1..(k - 1) : d.of = xs[n]
            BY <4>4
          <5>2. n \in 1..Len(xs) /\ n # k
            BY <1>1
          <5> QED  BY <4>1, <5>1, <5>2
        <4> QED  BY <2>2, <4>1, <4>3, <4>4
      <3> QED  BY <2>4, <3>1, <3>2, <3>3 DEF Fresh
    <2>6. /\ GoodQueue(a) /\ ToSet(a) \subseteq ToSet(r) \cup ToSet(ds)
          /\ \A d \in ToSet(r) \cup ToSet(ds) : d.of \in Call => d \in ToSet(a)
      BY <2>1, <2>2, <2>4, <2>5, EnqueueAllFacts
    <2>7. \A d \in ToSet(ds) : d.of = xs[k] /\ d.to \in config.on
      BY <2>4, ToSetIs
    <2>8. \A d \in ToSet(a) : d \in ToSet(q) \/ New(d, k)
      <3>1. SUFFICES ASSUME NEW d \in ToSet(a)  PROVE d \in ToSet(q) \/ New(d, k)
        OBVIOUS
      <3>2. CASE d \in ToSet(r)
        <4>1. d \in ToSet(q) \/ New(d, k - 1)
          BY <2>2, <3>2
        <4> QED  BY <2>1, <4>1
      <3>3. CASE d \in ToSet(ds)
        BY <2>1, <2>7, <3>3
      <3> QED  BY <2>6, <3>2, <3>3
    <2>9. ASSUME NEW n \in 1..k, NEW t \in config.on, xs[n] \in Call
          PROVE  <<xs[n], t>> \in Keys(a)
      <3>1. CASE n \in 1..(k - 1)
        <4>1. PICK d \in ToSet(r) : d.of = xs[n] /\ d.to = t
          BY <2>2, <2>9, <3>1 DEF Keys
        <4>2. d \in ToSet(a)
          BY <2>6, <2>9, <4>1
        <4> QED  BY <4>1, <4>2 DEF Keys
      <3>2. CASE n = k
        <4>1. PICK d \in ToSet(ds) : d.of = xs[k] /\ d.to = t
          BY <2>4
        <4>2. d \in ToSet(a)
          BY <2>6, <2>9, <3>2, <4>1
        <4> QED  BY <3>2, <4>1, <4>2 DEF Keys
      <3> QED  BY <2>1, <3>1, <3>2
    <2>10. \A d \in ToSet(q) : d.of \in Call => d \in ToSet(a)
      BY <2>2, <2>6
    <2> HIDE DEF New
    <2> QED  BY <2>1, <2>6, <2>8, <2>9, <2>10 DEF a
  <1>5. Len(xs) \in good
    <2> HIDE DEF good
    <2>1. 0..Len(xs) \subseteq good
      BY <1>1, <1>3, <1>4, Climbs
    <2> QED  BY <1>1, <2>1
  <1> QED  BY <1>2, <1>5

\* Some details of a queue are erased.
Erased(q, b) == [i \in 1..Len(q) |-> [q[i] EXCEPT !.detail = @ /\ b[i]]]

LEMMA ErasedFacts ==
  ASSUME NEW q, GoodQueue(q), NEW b \in [1..Len(q) -> BOOLEAN], NEW r, r = Erased(q, b)
  PROVE  /\ GoodQueue(r) /\ Len(r) = Len(q) /\ Keys(r) = Keys(q)
         /\ \A i \in 1..Len(q) : r[i].of = q[i].of /\ r[i].to = q[i].to /\ (r[i].detail => b[i])
  <1>1. q \in Queues /\ Len(q) \in Nat /\ \A i \in 1..Len(q) : q[i] \in Delivery
    BY DEF GoodQueue, Queues
  <1>2. ASSUME NEW i \in 1..Len(q)
        PROVE  /\ r[i] \in Delivery
               /\ r[i].of = q[i].of /\ r[i].to = q[i].to /\ r[i].ring = q[i].ring
               /\ r[i].attempts = q[i].attempts /\ (r[i].detail => b[i])
    <2> DEFINE d == q[i]
               v == d.detail /\ b[i]
    <2>1. r[i] = [d EXCEPT !.detail = v]
      BY DEF Erased
    <2>2. v \in BOOLEAN /\ (v => b[i])
      OBVIOUS
    <2>3. d \in Delivery
      BY <1>1
    <2> HIDE DEF d, v
    <2>4. /\ r[i].of = d.of /\ r[i].to = d.to /\ r[i].ring = d.ring
          /\ r[i].attempts = d.attempts /\ r[i].detail = v /\ r[i] \in Delivery
      BY <2>1, <2>2, <2>3 DEF Delivery
    <2> QED  BY <2>2, <2>4 DEF d
  <1>3. r \in Seq(Delivery) /\ Len(r) = Len(q)
    <2>1. r \in [1..Len(q) -> Delivery]
      <3>1. r = [i \in 1..Len(q) |-> r[i]]
        BY DEF Erased
      <3> QED  BY <1>2, <3>1
    <2> QED  BY <1>1, <2>1
  <1>4. r \in Queues
    BY <1>3 DEF Queues
  <1>5. Keys(r) = Keys(q)
    <2>1. /\ Keys(r) = {<<r[i].of, r[i].to>> : i \in 1..Len(q)}
          /\ Keys(q) = {<<q[i].of, q[i].to>> : i \in 1..Len(q)}
      BY <1>1, <1>3, <1>4, KeysIs
    <2>2. \A i \in 1..Len(q) : <<r[i].of, r[i].to>> = <<q[i].of, q[i].to>>
      BY <1>2
    <2> QED  BY <2>1, <2>2
  <1>6. Apart(r)
    BY <1>2, <1>3 DEF GoodQueue, Apart
  <1>7. GoodQueue(r)
    BY <1>2, <1>3, <1>4, <1>6 DEF GoodQueue
  <1> QED  BY <1>2, <1>3, <1>5, <1>7

LEMMA OnlyIsGood ==
  ASSUME NEW q, GoodQueue(q), NEW keep
  PROVE  GoodQueue(Only(q, keep)) /\ Keys(Only(q, keep)) \subseteq Keys(q)
  <1>1. q \in Queues /\ Len(q) \in Nat /\ Cap \in Nat
    BY CapAssumption DEF GoodQueue, Queues
  <1> DEFINE r == Only(q, keep)
  <1>2. r \in Queues /\ Len(r) <= Len(q) /\ ToSet(r) = ToSet(q) \cap keep /\ Apart(r)
    BY <1>1, OnlyFacts DEF GoodQueue
  <1> HIDE DEF r
  <1>3. Len(r) \in Nat
    BY <1>2 DEF Queues
  <1>4. ASSUME NEW i \in 1..Len(r)
        PROVE  r[i].attempts < MaxAttempts /\ (r[i].of \in Sms => r[i].ring = 0)
    <2>1. r[i] \in ToSet(q)
      BY <1>2, ToSetIs
    <2>2. PICK j \in 1..Len(q) : r[i] = q[j]
      BY <1>1, <2>1, ToSetIs
    <2> QED  BY <2>2 DEF GoodQueue
  <1>5. Keys(r) \subseteq Keys(q)
    BY <1>2 DEF Keys
  <1> QED  BY <1>1, <1>2, <1>3, <1>4, <1>5 DEF GoodQueue, r

LEMMA ReconciledFacts ==
  ASSUME config \in Config, NEW q, GoodQueue(q), NEW expired
  PROVE  /\ GoodQueue(Reconciled(q, expired))
         /\ Keys(Reconciled(q, expired)) \subseteq Keys(q)
         /\ \A d \in ToSet(Reconciled(q, expired)) : d.detail => KindOf(d.of) \in config.show
  <1> DEFINE kept == Only(q, {d \in ToSet(q) : d.to \in config.on} \ expired)
             b == [i \in 1..Len(kept) |-> KindOf(kept[i].of) \in config.show]
             r == Reconciled(q, expired)
  <1>1. GoodQueue(kept) /\ Keys(kept) \subseteq Keys(q)
    BY OnlyIsGood
  <1>2. b \in [1..Len(kept) -> BOOLEAN]
    OBVIOUS
  <1>3. r = Erased(kept, b)
    BY DEF Reconciled, Erased
  <1>4. \A i \in 1..Len(kept) : b[i] <=> KindOf(kept[i].of) \in config.show
    OBVIOUS
  <1> HIDE DEF kept, b, r
  <1>5. /\ GoodQueue(r) /\ Len(r) = Len(kept) /\ Keys(r) = Keys(kept)
        /\ \A i \in 1..Len(kept) : r[i].of = kept[i].of /\ (r[i].detail => b[i])
    BY <1>1, <1>2, <1>3, ErasedFacts
  <1>6. ASSUME NEW d \in ToSet(r), d.detail  PROVE KindOf(d.of) \in config.show
    <2>1. PICK i \in 1..Len(r) : d = r[i]
      BY <1>5, ToSetIs DEF GoodQueue
    <2>2. r[i].of = kept[i].of /\ b[i]
      BY <1>5, <1>6, <2>1
    <2>3. KindOf(kept[i].of) \in config.show
      BY <1>4, <1>5, <2>2
    <2> QED  BY <2>1, <2>2, <2>3
  <1> QED  BY <1>1, <1>5, <1>6 DEF r

LEMMA FinishFacts ==
  ASSUME NEW q, GoodQueue(q), NEW send, NEW outcome
  PROVE  /\ GoodQueue(Finish(q, send, outcome))
         /\ Keys(Finish(q, send, outcome)) \subseteq Keys(q)
  <1> DEFINE at == {i \in 1..Len(q) : SameDelivery(q[i], send)}
             i == SelectInSeq(q, LAMBDA d : SameDelivery(d, send))
             again == [q EXCEPT ![i].attempts = @ + 1]
             r == Finish(q, send, outcome)
  <1>1. q \in Queues /\ q \in Seq(Delivery) /\ Len(q) \in Nat /\ MaxAttempts \in Nat
    BY BoundsAssumption DEF GoodQueue, Queues
  <1>2. i = 0 \/ i \in 1..Len(q)
    <2>1. i = IF at # {} THEN Min(at) ELSE 0
      BY DEF SelectInSeq
    <2>2. ASSUME at # {}  PROVE Min(at) \in at
      <3>1. \E x \in at : \A y \in at : x <= y
        <4>1. at \in SUBSET Nat
          BY <1>1
        <4> HIDE DEF at
        <4> QED  BY <2>2, <4>1, LeastOf
      <3> HIDE DEF at
      <3>2. (CHOOSE x \in at : \A y \in at : x <= y) \in at
        BY <3>1
      <3> QED  BY <3>2 DEF Min
    <2> QED  BY <2>1, <2>2
  <1>3. r = IF i = 0 THEN q
            ELSE IF outcome = "final" \/ again[i].attempts = MaxAttempts
                 THEN RemoveAt(q, i)
            ELSE again
    BY DEF Finish
  <1> HIDE DEF i, r, at
  <1>4. CASE r = q
    BY <1>4 DEF r
  <1>5. CASE i \in 1..Len(q) /\ r = RemoveAt(q, i)
    <2>1. /\ r \in Queues /\ Len(r) = Len(q) - 1
          /\ \A j \in 1..(Len(q) - 1) : r[j] = IF j < i THEN q[j] ELSE q[j + 1]
          /\ ToSet(r) \subseteq ToSet(q) /\ Apart(r)
      BY <1>1, <1>5, RemoveAtFacts DEF GoodQueue
    <2>2. \A j \in 1..(Len(q) - 1) :
             j \in 1..Len(q) /\ j + 1 \in 1..Len(q) /\ (r[j] = q[j] \/ r[j] = q[j + 1])
      BY <1>1, <2>1
    <2>3. \A j \in 1..(Len(q) - 1) :
              r[j].attempts < MaxAttempts /\ (r[j].of \in Sms => r[j].ring = 0)
      BY <2>2 DEF GoodQueue
    <2>4. Len(r) <= Cap /\ Len(q) <= Cap /\ Cap \in Nat
      BY <1>1, <2>1, CapAssumption DEF GoodQueue
    <2>5. Keys(r) \subseteq Keys(q)
      BY <2>1 DEF Keys
    <2> QED  BY <2>1, <2>3, <2>4, <2>5 DEF GoodQueue, r
  <1>6. CASE i \in 1..Len(q) /\ r = again /\ again[i].attempts # MaxAttempts
    <2>1. \A j \in 1..Len(q) : q[j] \in Delivery /\ q[j].attempts < MaxAttempts
      BY <1>1 DEF GoodQueue
    <2>2. \A j \in 1..Len(q) : j # i => r[j] = q[j]
      BY <1>1, <1>6
    <2>3. r[i] = [q[i] EXCEPT !.attempts = @ + 1]
      BY <1>1, <1>6
    <2>4. q[i].attempts \in Nat
      BY <1>6, <2>1 DEF Delivery
    <2>5. r[i].attempts = q[i].attempts + 1 /\ r[i].attempts < MaxAttempts
      BY <1>1, <1>6, <2>1, <2>3, <2>4 DEF Delivery
    <2>6. /\ r[i] \in Delivery
          /\ r[i].of = q[i].of /\ r[i].to = q[i].to /\ r[i].ring = q[i].ring
      <3>1. q[i].attempts + 1 \in 0..MaxAttempts /\ q[i] \in Delivery
        BY <1>1, <1>6, <2>1, <2>4
      <3> QED  BY <2>3, <3>1 DEF Delivery
    <2>7. \A j \in 1..Len(q) :
             r[j] \in Delivery /\ r[j].of = q[j].of /\ r[j].to = q[j].to
             /\ r[j].ring = q[j].ring /\ r[j].attempts < MaxAttempts
      BY <2>1, <2>2, <2>5, <2>6
    <2>8. r \in Seq(Delivery) /\ Len(r) = Len(q)
      <3>1. r \in [1..Len(q) -> Delivery]
        <4>1. DOMAIN q = 1..Len(q)
          BY <1>1
        <4>2. r = [j \in 1..Len(q) |-> r[j]]
          BY <1>6, <4>1
        <4> QED  BY <2>7, <4>2
      <3> QED  BY <1>1, <3>1
    <2>9. r \in Queues
      BY <2>8 DEF Queues
    <2>10. Keys(r) = Keys(q)
      <3>1. /\ Keys(r) = {<<r[j].of, r[j].to>> : j \in 1..Len(q)}
            /\ Keys(q) = {<<q[j].of, q[j].to>> : j \in 1..Len(q)}
        BY <1>1, <2>8, <2>9, KeysIs
      <3>2. \A j \in 1..Len(q) : <<r[j].of, r[j].to>> = <<q[j].of, q[j].to>>
        BY <2>7
      <3> QED  BY <3>1, <3>2
    <2>11. Apart(r)
      BY <2>7, <2>8 DEF GoodQueue, Apart
    <2> QED  BY <2>7, <2>8, <2>9, <2>10, <2>11 DEF GoodQueue, r
  <1> QED  BY <1>2, <1>3, <1>4, <1>5, <1>6

\* What a free transport may send is in the queue.
LEMMA CandidatesFacts ==
  ASSUME NEW q, q = queue, GoodQueue(q), NEW t \in Transport, NEW d \in Candidates(t), d # NoSend
  PROVE  d \in ToSet(queue)
  <1> DEFINE mine == {e \in ToSet(queue) : e.to = t}
             a == Only(queue, mine \ SmsOf(queue))
             b == Only(queue, mine \cap SmsOf(queue))
             order == a \o b
  <1>1. q \in Queues
    BY DEF GoodQueue
  <1>2. a \in Queues /\ b \in Queues /\ ToSet(a) \subseteq ToSet(q) /\ ToSet(b) \subseteq ToSet(q)
    BY <1>1, OnlyFacts
  <1>3. PICK i \in 1..Len(order) : d = order[i]
    <2>1. d \in {order[i] : i \in {j \in 1..Len(order) : \A k \in 1..(j - 1) : order[k].attempts > 0}}
      BY DEF Candidates
    <2> HIDE DEF order
    <2> QED  BY <2>1
  <1> HIDE DEF a, b
  <1>4. a \in Seq(Delivery) /\ b \in Seq(Delivery) /\ Len(a) \in Nat /\ Len(b) \in Nat
    BY <1>2 DEF Queues
  <1>5. CASE i \in 1..Len(a)
    <2>1. d = a[i]
      BY <1>3, <1>4, <1>5
    <2> QED  BY <1>2, <1>5, <2>1, ToSetIs
  <1>6. CASE i \notin 1..Len(a)
    <2>1. i - Len(a) \in 1..Len(b) /\ d = b[i - Len(a)]
      BY <1>3, <1>4, <1>6
    <2> QED  BY <1>2, <2>1, ToSetIs
  <1> QED  BY <1>5, <1>6

-----------------------------------------------------------------------------
(* The daemon: what is queued, owed and hidden, in memory and in the file *)

DiskFile == [seen : Scan, queue : Queues, rings : 0..MaxRings]
DaemonTypes ==
    /\ pc \in {"down", "select", "persist", "dispatch"}
    /\ seen \in Scan /\ disk \in DiskFile
    /\ rings \in 0..MaxRings /\ calls \subseteq Call /\ dirty \in BOOLEAN
    /\ opts \in Config /\ config \in Config /\ saved \in Config
    /\ inflight \in [Transport -> Send \cup {NoSend}]
    /\ excused \subseteq Subject \X Transport /\ outlived \subseteq Delivery

\* A call that rings is queued or excused, and a call that is queued rings.
CallsOwed == \A x \in calls, t \in Transport : <<x, t>> \in Keys(queue) \cup excused
CallsRing == \A d \in ToSet(queue) : d.of \in Call => d.of \in calls
LiveIsQueued ==
    pc = "select" => \A t \in Transport :
        inflight[t] # NoSend /\ inflight[t].live => Queued(queue, inflight[t])
\* A message is owed in memory as it is in the file, and memory that was not changed
\* says of the messages what the file does, but for what had expired at the start.
MemoryOwes == \A x \in Known(seen), t \in Transport : <<x, t>> \in Keys(queue) \cup excused
FileFollows ==
    pc # "down" /\ ~dirty =>
        disk.seen = seen /\ SmsOf(disk.queue) = SmsOf(queue) \cup outlived
NothingNew ==
    \A x \in Known(disk.seen) \cap Known(seen), t \in Transport :
        <<x, t>> \in Keys(queue) => <<x, t>> \in Keys(disk.queue)
MemoryHides ==
    pc # "down" /\ "sms" \notin opts.show => \A d \in SmsOf(queue) : ~d.detail
NothingRuns ==
    pc = "down" =>
        /\ opts = saved /\ queue = <<>> /\ calls = {} /\ seen = NothingSeen
        /\ \A t \in Transport : inflight[t] = NoSend
DaemonInv ==
    /\ DaemonTypes /\ GoodQueue(queue) /\ GoodQueue(disk.queue)
    /\ dirty => pc = "persist"
    /\ CallsOwed /\ CallsRing /\ LiveIsQueued
    /\ NoSmsIsForgotten /\ MemoryOwes /\ FileFollows /\ NothingNew
    /\ HiddenTextIsErased /\ MemoryHides /\ NothingRuns

LEMMA KnownIs ==
  ASSUME NEW scan \in Scan
  PROVE  /\ Known(scan) \subseteq Sms
         /\ \A x : x \in Known(scan) <=> \E s \in Storage : scan[s] # Unscanned /\ x \in scan[s]
  <1>1. \A x : x \in Known(scan) <=> \E s \in Storage : scan[s] # Unscanned /\ x \in scan[s]
    BY DEF Known
  <1>2. \A s \in Storage : scan[s] # Unscanned => scan[s] \subseteq Sms
    BY DEF Scan
  <1> QED  BY <1>1, <1>2

LEMMA NothingKnown == NothingSeen \in Scan /\ Known(NothingSeen) = {}
  BY DEF NothingSeen, Scan, Known

LEMMA NoKeys == Keys(<<>>) = {} /\ ToSet(<<>>) = {} /\ SmsOf(<<>>) = {} /\ GoodQueue(<<>>)
  <1>1. <<>> \in Queues /\ Len(<<>>) = 0
    BY DEF Queues
  <1>2. ToSet(<<>>) = {}
    BY <1>1, ToSetIs
  <1>3. GoodQueue(<<>>)
    BY <1>1, CapAssumption DEF GoodQueue, Apart
  <1> QED  BY <1>2, <1>3 DEF Keys, SmsOf

\* The keys of the messages are those of the messages of the queue.
LEMMA SmsKeys ==
  ASSUME NEW q, NEW x \in Sms, NEW t
  PROVE  <<x, t>> \in Keys(q) <=> \E d \in SmsOf(q) : d.of = x /\ d.to = t
  BY DEF Keys, SmsOf

\* What a pass of the loop does to the queue and to what is excused.
LEMMA PassFacts ==
  ASSUME DaemonTypes, NEW q, GoodQueue(q), NEW changed \in BOOLEAN,
         NEW forgiven \in SUBSET (Subject \X Transport), NEW owed,
         Pass(q, changed, forgiven, owed)
  PROVE  /\ GoodQueue(queue') /\ Keys(queue') \subseteq Keys(q)
         /\ \A d \in ToSet(queue') : d.detail => KindOf(d.of) \in opts'.show
         /\ dirty' \in BOOLEAN /\ (~dirty' => ~changed /\ queue' = q)
         /\ excused' \subseteq Subject \X Transport
         /\ \A x \in Known(seen') \cup Known(disk.seen) \cup calls', t \in Transport :
              <<x, t>> \in (excused \ owed) \cup forgiven \cup Keys(q)
                => <<x, t>> \in Keys(queue') \cup excused'
         /\ \A x \in Known(disk.seen), t \in Transport :
              <<x, t>> \in excused \ owed => <<x, t>> \in excused'
         /\ opts' = config /\ pc' = "persist"
         /\ UNCHANGED <<disk, config, saved, outlived>>
  <1>1. config \in Config
    BY DEF DaemonTypes
  <1>2. PICK expired \in SUBSET {d \in ToSet(q) : Queued(queue, d)} :
           /\ queue' = Reconciled(q, expired)
           /\ dirty' = (changed \/ queue' # q)
    BY DEF Pass
  <1>3. /\ excused' = {k \in (excused \ owed) \cup forgiven \cup (Keys(q) \ Keys(queue')) :
                         k[1] \in Known(seen') \cup Known(disk.seen) \cup calls'}
        /\ opts' = config /\ pc' = "persist" /\ UNCHANGED <<disk, config, saved, outlived>>
    BY DEF Pass, control
  <1>4. /\ GoodQueue(queue') /\ Keys(queue') \subseteq Keys(q)
        /\ \A d \in ToSet(queue') : d.detail => KindOf(d.of) \in config.show
    BY <1>1, <1>2, ReconciledFacts
  <1>5. dirty' \in BOOLEAN /\ (~dirty' => ~changed /\ queue' = q)
    BY <1>2
  <1>6. Keys(q) \subseteq Subject \X Transport
    BY KeysIs DEF GoodQueue
  <1>7. excused' \subseteq Subject \X Transport
    BY <1>3, <1>6 DEF DaemonTypes
  <1>8. \A x \in Known(seen') \cup Known(disk.seen) \cup calls', t \in Transport :
          <<x, t>> \in (excused \ owed) \cup forgiven \cup Keys(q)
            => <<x, t>> \in Keys(queue') \cup excused'
    BY <1>3
  <1>9. \A x \in Known(disk.seen), t \in Transport :
              <<x, t>> \in excused \ owed => <<x, t>> \in excused'
    BY <1>3
  <1> QED  BY <1>3, <1>4, <1>5, <1>7, <1>8, <1>9

\* An event that owes what it finds new keeps the invariant, with the pass after it.
LEMMA PassKeeps ==
  ASSUME DaemonInv, pc = "select", NEW q, GoodQueue(q), NEW changed \in BOOLEAN,
         NEW forgiven \in SUBSET (Subject \X Transport), NEW owed,
         Pass(q, changed, forgiven, owed),
         seen' \in Scan, calls' \subseteq Call, rings' \in 0..MaxRings,
         inflight' \in [Transport -> Send \cup {NoSend}],
         ~changed => seen' = seen /\ SmsOf(q) = SmsOf(queue),
         \A d \in ToSet(q) : d.of \in Call => d.of \in calls',
         \A x \in calls' \cup Known(seen'), t \in Transport :
             <<x, t>> \in (excused \ owed) \cup forgiven \cup Keys(q),
         \A x \in Known(seen), t \in Transport : <<x, t>> \notin owed,
         \A x \in Known(seen) \cap Known(seen'), t \in Transport :
             <<x, t>> \in Keys(q) => <<x, t>> \in Keys(queue)
  PROVE  DaemonInv'
  <1>1. DaemonTypes /\ GoodQueue(disk.queue) /\ ~dirty
    BY DEF DaemonInv
  <1>2. disk.seen = seen /\ SmsOf(disk.queue) = SmsOf(queue) \cup outlived
    BY <1>1 DEF DaemonInv, FileFollows
  <1>3. /\ GoodQueue(queue') /\ Keys(queue') \subseteq Keys(q)
        /\ \A d \in ToSet(queue') : d.detail => KindOf(d.of) \in opts'.show
        /\ dirty' \in BOOLEAN /\ (~dirty' => ~changed /\ queue' = q)
        /\ excused' \subseteq Subject \X Transport
        /\ \A x \in Known(seen') \cup Known(disk.seen) \cup calls', t \in Transport :
              <<x, t>> \in (excused \ owed) \cup forgiven \cup Keys(q)
                => <<x, t>> \in Keys(queue') \cup excused'
        /\ \A x \in Known(disk.seen), t \in Transport :
              <<x, t>> \in excused \ owed => <<x, t>> \in excused'
        /\ opts' = config /\ pc' = "persist"
        /\ UNCHANGED <<disk, config, saved, outlived>>
    BY <1>1, PassFacts
  <1>4. DaemonTypes'
    BY <1>1, <1>3 DEF DaemonTypes
  <1>5. CallsOwed' /\ MemoryOwes'
    BY <1>3 DEF CallsOwed, MemoryOwes
  <1>6. CallsRing'
    <2>1. SUFFICES ASSUME NEW d \in ToSet(queue'), d.of \in Call  PROVE d.of \in calls'
      BY DEF CallsRing
    <2>2. <<d.of, d.to>> \in Keys(q)
      BY <1>3 DEF Keys
    <2>3. PICK e \in ToSet(q) : e.of = d.of
      BY <2>2 DEF Keys
    <2> QED  BY <2>1, <2>3
  <1>7. NoSmsIsForgotten'
    <2>1. SUFFICES ASSUME NEW x \in Known(disk.seen), NEW t \in Transport,
                          <<x, t>> \notin Keys(disk.queue)
                   PROVE  <<x, t>> \in excused'
      BY <1>3 DEF NoSmsIsForgotten
    <2>2. <<x, t>> \in excused
      BY <2>1 DEF DaemonInv, NoSmsIsForgotten
    <2> QED  BY <1>2, <1>3, <2>2
  <1>8. FileFollows'
    <2>1. SUFFICES ASSUME ~dirty'
                   PROVE  disk.seen = seen' /\ SmsOf(disk.queue) = SmsOf(queue') \cup outlived
      BY <1>3 DEF FileFollows
    <2>2. ~changed /\ queue' = q
      BY <1>3, <2>1
    <2> QED  BY <1>2, <2>2
  <1>9. NothingNew'
    <2>1. SUFFICES ASSUME NEW x \in Known(disk.seen) \cap Known(seen'), NEW t \in Transport,
                          <<x, t>> \in Keys(queue')
                   PROVE  <<x, t>> \in Keys(disk.queue)
      BY <1>3 DEF NothingNew
    <2>2. x \in Known(seen) /\ <<x, t>> \in Keys(queue)
      BY <1>2, <1>3, <2>1
    <2> QED  BY <2>1, <2>2 DEF DaemonInv, NothingNew
  <1>10. MemoryHides'
    <2>1. SUFFICES ASSUME "sms" \notin opts'.show, NEW d \in SmsOf(queue')  PROVE ~d.detail
      BY DEF MemoryHides
    <2>2. KindOf(d.of) = "sms" /\ d \in ToSet(queue')
      BY SubjectsAssumption DEF SmsOf, KindOf
    <2> QED  BY <1>3, <2>1, <2>2
  <1>11. LiveIsQueued' /\ HiddenTextIsErased' /\ NothingRuns'
    BY <1>3 DEF LiveIsQueued, HiddenTextIsErased, Settled, NothingRuns
  <1> QED  BY <1>1, <1>3, <1>4, <1>5, <1>6, <1>7, <1>8, <1>9, <1>10, <1>11 DEF DaemonInv

LEMMA SendTypes ==
  ASSUME DaemonTypes, GoodQueue(queue), NEW t \in Transport
  PROVE  /\ Cancelled(inflight[t]) \in Send \cup {NoSend}
         /\ \A d \in ToSet(queue) \cup {NoSend} : Begun(d) \in Send \cup {NoSend}
         /\ inflight[t] # NoSend => Cancelled(inflight[t]) # NoSend
         /\ Cancelled(inflight[t]) # NoSend /\ Cancelled(inflight[t]).live
              => Queued(queue, Cancelled(inflight[t]))
         /\ \A d \in ToSet(queue) : Begun(d) # NoSend => Queued(queue, Begun(d))
  <1>1. inflight[t] \in Send \cup {NoSend}
    BY DEF DaemonTypes
  <1>2. NoSend \notin Send
    BY SendAssumption
  <1>3. ASSUME inflight[t] # NoSend
        PROVE  /\ Cancelled(inflight[t]) \in Send
               /\ Cancelled(inflight[t]).live => Queued(queue, Cancelled(inflight[t]))
    <2> DEFINE s == inflight[t]
               v == s.live /\ Queued(queue, s)
               c == Cancelled(s)
    <2>1. c = [s EXCEPT !.live = v]
      BY <1>3 DEF Cancelled
    <2>2. v \in BOOLEAN /\ (v => Queued(queue, s))
      OBVIOUS
    <2>3. s \in Send
      BY <1>1, <1>3
    <2> HIDE DEF s, v, c
    <2>4. c \in Send /\ c.of = s.of /\ c.ring = s.ring /\ c.to = s.to /\ c.live = v
      BY <2>1, <2>2, <2>3 DEF Send
    <2>5. Queued(queue, s) => Queued(queue, c)
      BY <2>4 DEF Queued, SameDelivery
    <2> QED  BY <2>2, <2>4, <2>5 DEF s, c
  <1>4. inflight[t] = NoSend => Cancelled(inflight[t]) = NoSend
    BY DEF Cancelled
  <1>5. ASSUME NEW d \in ToSet(queue), d # NoSend
        PROVE  Begun(d) \in Send /\ Queued(queue, Begun(d))
    <2>1. d \in Delivery
      BY ToSetIs DEF GoodQueue
    <2>2. Begun(d) = [of |-> d.of, ring |-> d.ring, to |-> d.to, live |-> TRUE]
      BY <1>5 DEF Begun
    <2>3. Begun(d) \in Send
      BY <2>1, <2>2 DEF Delivery, Send
    <2>4. Begun(d).of = d.of /\ Begun(d).ring = d.ring /\ Begun(d).to = d.to
      BY <2>2
    <2> QED  BY <2>3, <2>4 DEF Queued, SameDelivery
  <1>6. Begun(NoSend) = NoSend
    BY DEF Begun
  <1> QED  BY <1>1, <1>2, <1>3, <1>4, <1>5, <1>6

\* The numbers of the calls that begin.
LEMMA RingsFit ==
  ASSUME DaemonTypes, NEW added \in SUBSET Call, rings + Cardinality(added) =< MaxRings
  PROVE  /\ IsFiniteSet(added) /\ rings + Cardinality(added) \in 0..MaxRings
         /\ SetToSeq(added) \in Seq(Subject) /\ Len(SetToSeq(added)) = Cardinality(added)
         /\ \A n \in 1..Len(SetToSeq(added)) : RingOf(SetToSeq(added), n) \in 0..MaxRings
  <1>1. IsFiniteSet(added)
    BY CapAssumption, FS_Subset
  <1> DEFINE c == Cardinality(added)
             xs == SetToSeq(added)
  <1>2. c \in Nat /\ xs \in [1..c -> added]
    BY <1>1, SetToSeqIs
  <1> HIDE DEF c, xs
  <1>3. rings \in Nat /\ MaxRings \in Nat
    BY BoundsAssumption DEF DaemonTypes
  <1>4. rings + c =< MaxRings
    BY DEF c
  <1>5. xs \in Seq(added) /\ Len(xs) = c
    BY <1>2
  <1>6. added \subseteq Subject
    BY DEF Subject
  <1>7. xs \in Seq(Subject)
    BY <1>5, <1>6
  <1>8. \A n \in 1..Len(xs) : RingOf(xs, n) \in 0..MaxRings
    BY <1>2, <1>3, <1>4, <1>5 DEF RingOf
  <1> QED  BY <1>1, <1>2, <1>3, <1>4, <1>5, <1>7, <1>8 DEF c, xs

LEMMA AnnounceNone ==
  ASSUME config \in Config, NEW q \in Queues, NEW xs \in Seq(Subject), Len(xs) = 0
  PROVE  Announce(q, xs) = q
  <1>1. \A n \in 1..Len(xs) : RingOf(xs, n) \in 0..MaxRings
    OBVIOUS
  <1>2. PICK after \in [0..Len(xs) -> Queues] :
          after[0] = q /\ Announce(q, xs) = after[Len(xs)]
    BY <1>1, AnnounceIs
  <1> QED  BY <1>2

LEMMA CallsTaken ==
  ASSUME DaemonInv, NEW now \in SUBSET Call, TakeCalls(now)
  PROVE  DaemonInv'
  <1> DEFINE added == now \ calls
             xs == SetToSeq(added)
             announced == Announce(queue, xs)
             kept == Only(announced, {d \in ToSet(announced) : d.of \notin calls \ now})
             forgiven == Evicted(queue, announced) \cup (added \X (Transport \ config.on))
             owed == added \X config.on
             changed == now # calls
  <1>1. /\ pc = "select" /\ rings + Cardinality(added) =< MaxRings
        /\ calls' = now /\ rings' = rings + Cardinality(added)
        /\ UNCHANGED <<seen, inflight>>
        /\ Pass(kept, changed, forgiven, owed)
    BY DEF TakeCalls
  <1>2. DaemonTypes /\ GoodQueue(queue) /\ config \in Config /\ added \in SUBSET Call
        /\ inflight \in [Transport -> Send \cup {NoSend}] /\ seen \in Scan
    BY DEF DaemonInv, DaemonTypes
  <1>3. /\ IsFiniteSet(added) /\ rings + Cardinality(added) \in 0..MaxRings
        /\ xs \in Seq(Subject) /\ Len(xs) = Cardinality(added)
        /\ \A n \in 1..Len(xs) : RingOf(xs, n) \in 0..MaxRings
    BY <1>1, <1>2, RingsFit
  <1>4. /\ \A m, n \in 1..Len(xs) : xs[m] = xs[n] => m = n
        /\ added = {xs[n] : n \in 1..Len(xs)}
    BY <1>3, SetToSeqIs
  <1>5. \A x \in added, t \in Transport : <<x, t>> \notin Keys(queue)
    BY DEF DaemonInv, CallsRing, Keys
  <1>6. ASSUME ~changed  PROVE added = {} /\ calls \ now = {}
    <2>1. now = calls
      BY <1>6
    <2> QED  BY <2>1
  <1>7. Known(seen) \subseteq Sms /\ \A x \in Sms : x \notin Call
    BY <1>2, KnownIs, SubjectsAssumption
  <1>8. changed \in BOOLEAN /\ added \subseteq now /\ now \subseteq added \cup (calls \cap now)
    OBVIOUS
  <1>9. added \cap calls = {} /\ forgiven = Evicted(queue, announced) \cup (added \X (Transport \ config.on))
        /\ owed = added \X config.on
    OBVIOUS
  <1> HIDE DEF added, xs, announced, forgiven, owed, changed
  <1>10. /\ GoodQueue(announced)
         /\ \A d \in ToSet(announced) :
              d \in ToSet(queue) \/ \E n \in 1..Len(xs) : d.of = xs[n] /\ d.to \in config.on
         /\ \A d \in ToSet(queue) : d.of \in Call => d \in ToSet(announced)
         /\ \A n \in 1..Len(xs), t \in config.on :
              xs[n] \in Call => <<xs[n], t>> \in Keys(announced)
    <2>1. \A n \in 1..Len(xs), t \in Transport : xs[n] \in Call => <<xs[n], t>> \notin Keys(queue)
      BY <1>4, <1>5
    <2> QED  BY <1>2, <1>3, <1>4, <2>1, AnnounceFacts DEF announced
  <1>11. /\ GoodQueue(kept)
         /\ \A d : d \in ToSet(kept) <=> d \in ToSet(announced) /\ d.of \notin calls \ now
    <2> DEFINE keep == {d \in ToSet(announced) : d.of \notin calls \ now}
    <2>1. kept = Only(announced, keep)
      OBVIOUS
    <2>2. \A d : d \in keep <=> d \in ToSet(announced) /\ d.of \notin calls \ now
      OBVIOUS
    <2> HIDE DEF kept, keep
    <2>3. GoodQueue(kept) /\ ToSet(kept) = ToSet(announced) \cap keep
      BY <1>10, <2>1, OnlyIsGood, OnlyFacts DEF GoodQueue
    <2> QED  BY <2>2, <2>3
  <1> HIDE DEF kept
  <1>12. ASSUME ~changed  PROVE seen' = seen /\ SmsOf(kept) = SmsOf(queue)
    <2>2. added = {} /\ calls \ now = {} /\ Cardinality(added) = 0
      BY <1>6, <1>12, FS_EmptySet
    <2>3. announced = queue
      BY <1>2, <1>3, <2>2, AnnounceNone DEF announced, GoodQueue
    <2> QED  BY <1>1, <1>11, <2>2, <2>3 DEF SmsOf
  <1>13. ASSUME NEW d \in ToSet(kept), d.of \in Call  PROVE d.of \in calls'
    <2>1. d \in ToSet(announced) /\ d.of \notin calls \ now
      BY <1>11
    <2>2. CASE d \in ToSet(queue)
      BY <1>1, <1>13, <2>1, <2>2 DEF DaemonInv, CallsRing
    <2>3. CASE \E n \in 1..Len(xs) : d.of = xs[n]
      BY <1>1, <1>4, <1>8, <2>3
    <2> QED  BY <1>10, <2>1, <2>2, <2>3
  <1>14. ASSUME NEW x, NEW t \in Transport, <<x, t>> \in Keys(announced), x \notin calls \ now
         PROVE  <<x, t>> \in Keys(kept)
    BY <1>11, <1>14 DEF Keys
  <1>15. ASSUME NEW x \in calls', NEW t \in Transport
         PROVE  <<x, t>> \in (excused \ owed) \cup forgiven \cup Keys(kept)
    <2>1. CASE x \in calls \cap now
      <3>1. x \notin added /\ x \in Call
        BY <1>1, <1>9, <2>1
      <3>2. CASE <<x, t>> \in Keys(queue)
        <4>1. PICK d \in ToSet(queue) : d.of = x /\ d.to = t
          BY <3>2 DEF Keys
        <4>2. <<x, t>> \in Keys(announced)
          BY <1>10, <3>1, <4>1 DEF Keys
        <4> QED  BY <1>14, <2>1, <4>2
      <3>3. CASE <<x, t>> \in excused
        BY <1>9, <3>1, <3>3
      <3> QED  BY <2>1, <3>2, <3>3 DEF DaemonInv, CallsOwed
    <2>2. CASE x \in added
      <3>1. CASE t \in config.on
        <4>1. PICK n \in 1..Len(xs) : x = xs[n]
          BY <1>4, <2>2
        <4>2. <<x, t>> \in Keys(announced)
          BY <1>2, <1>10, <2>2, <3>1, <4>1
        <4>3. x \notin calls \ now
          BY <1>9, <2>2
        <4> QED  BY <1>14, <4>2, <4>3
      <3>2. CASE t \notin config.on
        BY <1>9, <2>2, <3>2
      <3> QED  BY <3>1, <3>2
    <2> QED  BY <1>1, <1>8, <2>1, <2>2
  <1>16. ASSUME NEW x \in Known(seen), NEW t \in Transport
         PROVE  /\ <<x, t>> \in (excused \ owed) \cup forgiven \cup Keys(kept)
                /\ <<x, t>> \notin owed
                /\ <<x, t>> \in Keys(kept) => <<x, t>> \in Keys(queue)
    <2>1. x \in Sms /\ x \notin Call /\ x \notin added /\ x \notin calls
      BY <1>2, <1>7 DEF DaemonTypes
    <2>2. CASE <<x, t>> \in Keys(queue)
      <3>1. CASE <<x, t>> \in Keys(announced)
        BY <1>14, <2>1, <2>2, <3>1, <1>9
      <3>2. CASE <<x, t>> \notin Keys(announced)
        <4>1. <<x, t>> \in Evicted(queue, announced)
          BY <2>1, <2>2, <3>2 DEF Evicted
        <4> QED  BY <1>9, <2>1, <2>2, <4>1
      <3> QED  BY <3>1, <3>2
    <2>3. CASE <<x, t>> \notin Keys(queue)
      <3>1. <<x, t>> \in excused
        BY <2>3 DEF DaemonInv, MemoryOwes
      <3>2. <<x, t>> \notin Keys(kept)
        <4>1. SUFFICES ASSUME NEW d \in ToSet(kept), d.of = x, d.to = t  PROVE FALSE
          BY DEF Keys
        <4>2. d \notin ToSet(queue)
          BY <2>3, <4>1 DEF Keys
        <4>3. \E n \in 1..Len(xs) : x = xs[n]
          BY <1>10, <1>11, <4>1, <4>2
        <4> QED  BY <1>4, <2>1, <4>3
      <3> QED  BY <1>9, <2>1, <3>1, <3>2
    <2> QED  BY <2>2, <2>3
  <1>17. forgiven \in SUBSET (Subject \X Transport)
    <2>1. Keys(queue) \subseteq Subject \X Transport
      BY <1>2, KeysIs DEF GoodQueue
    <2>2. Evicted(queue, announced) \subseteq Keys(queue)
      BY DEF Evicted
    <2>3. added \subseteq Subject
      BY <1>2 DEF Subject
    <2> QED  BY <1>9, <2>1, <2>2, <2>3
  <1>18. seen' \in Scan /\ calls' \subseteq Call /\ rings' \in 0..MaxRings
         /\ inflight' \in [Transport -> Send \cup {NoSend}]
    BY <1>1, <1>2, <1>3 DEF added
  <1>19. /\ \A x \in calls' \cup Known(seen'), t \in Transport :
             <<x, t>> \in (excused \ owed) \cup forgiven \cup Keys(kept)
         /\ \A x \in Known(seen), t \in Transport : <<x, t>> \notin owed
         /\ \A x \in Known(seen) \cap Known(seen'), t \in Transport :
             <<x, t>> \in Keys(kept) => <<x, t>> \in Keys(queue)
    BY <1>1, <1>15, <1>16
  <1>20. ~changed => seen' = seen /\ SmsOf(kept) = SmsOf(queue)
    BY <1>12
  <1>21. \A d \in ToSet(kept) : d.of \in Call => d.of \in calls'
    BY <1>13
  <1>22. pc = "select" /\ GoodQueue(kept) /\ changed \in BOOLEAN
         /\ Pass(kept, changed, forgiven, owed)
    BY <1>1, <1>8, <1>11
  <1> QED  BY <1>17, <1>18, <1>19, <1>20, <1>21, <1>22, PassKeeps

LEMMA SmsTaken ==
  ASSUME DaemonInv, NEW s \in Storage, NEW now \in Contents, TakeSms(s, now)
  PROVE  DaemonInv'
  <1> DEFINE new == IF seen[s] = Unscanned THEN {} ELSE now \ Known(seen)
             silent == IF seen[s] = Unscanned THEN now \ Known(seen) ELSE {}
             xs == SetToSeq(new)
             announced == Announce(queue, xs)
             forgiven == Evicted(queue, announced)
                  \cup ((new \X Transport) \ Keys(announced))
                  \cup (silent \X Transport)
             owed == new \X config.on
             changed == seen[s] # now
  <1>1. /\ pc = "select" /\ seen' = [seen EXCEPT ![s] = now]
        /\ UNCHANGED <<calls, rings, inflight>>
        /\ Pass(announced, changed, forgiven, owed)
    BY DEF TakeSms
  <1>2. DaemonTypes /\ GoodQueue(queue) /\ config \in Config /\ seen \in Scan
        /\ inflight \in [Transport -> Send \cup {NoSend}]
    BY DEF DaemonInv, DaemonTypes
  <1>3. now \subseteq Sms /\ IsFiniteSet(now) /\ now # Unscanned
    BY ContentsAssumption
  <1>4. /\ Known(seen) \subseteq Sms
        /\ \A x : x \in Known(seen) <=> \E r \in Storage : seen[r] # Unscanned /\ x \in seen[r]
    BY <1>2, KnownIs
  <1>5. new \subseteq now /\ silent \subseteq now /\ new \cap Known(seen) = {}
        /\ now \subseteq new \cup silent \cup Known(seen)
    OBVIOUS
  <1>6. ASSUME ~changed  PROVE new = {} /\ seen' = seen
    <2>1. seen[s] = now /\ seen[s] # Unscanned
      BY <1>3, <1>6
    <2>2. now \subseteq Known(seen)
      BY <1>4, <2>1
    <2> HIDE DEF changed
    <2>3. seen' = seen
      BY <1>1, <1>2, <2>1 DEF Scan
    <2> QED  BY <2>2, <2>3
  <1>7. changed \in BOOLEAN
    OBVIOUS
  <1>8. /\ forgiven = Evicted(queue, announced)
                  \cup ((new \X Transport) \ Keys(announced))
                  \cup (silent \X Transport)
        /\ owed = new \X config.on
    OBVIOUS
  <1> HIDE DEF new, silent, xs, announced, forgiven, owed, changed
  <1>9. IsFiniteSet(new)
    BY <1>3, <1>5, FS_Subset
  <1>10. /\ xs \in Seq(new) /\ Len(xs) = Cardinality(new)
         /\ \A m, n \in 1..Len(xs) : xs[m] = xs[n] => m = n
         /\ new = {xs[n] : n \in 1..Len(xs)}
    <2> DEFINE c == Cardinality(new)
    <2>1. /\ c \in Nat /\ xs \in [1..c -> new]
          /\ \A m, n \in 1..c : xs[m] = xs[n] => m = n
          /\ new = {xs[n] : n \in 1..c}
      BY <1>9, SetToSeqIs DEF xs
    <2> HIDE DEF c
    <2>2. xs \in Seq(new) /\ Len(xs) = c
      BY <2>1
    <2> QED  BY <2>1, <2>2 DEF c
  <1>11. \A x \in Sms : x \notin Call /\ x \in Subject
    BY SubjectsAssumption DEF Subject
  <1>12. xs \in Seq(Subject) /\ \A n \in 1..Len(xs) : xs[n] \notin Call
    <2>1. new \subseteq Subject
      BY <1>3, <1>5, <1>11
    <2>2. \A n \in 1..Len(xs) : xs[n] \notin Call
      BY <1>3, <1>5, <1>10, <1>11
    <2>3. xs \in Seq(Subject)
      <3>1. xs \in Seq(new)
        BY <1>10
      <3> QED  BY <2>1, <3>1
    <2> QED  BY <2>2, <2>3
  <1>13. \A n \in 1..Len(xs) : RingOf(xs, n) \in 0..MaxRings
    BY <1>12, BoundsAssumption DEF RingOf
  <1>14. /\ GoodQueue(announced)
         /\ \A d \in ToSet(announced) :
              d \in ToSet(queue) \/ \E n \in 1..Len(xs) : d.of = xs[n] /\ d.to \in config.on
         /\ \A d \in ToSet(queue) : d.of \in Call => d \in ToSet(announced)
    <2>1. \A n \in 1..Len(xs), t \in Transport : xs[n] \in Call => <<xs[n], t>> \notin Keys(queue)
      BY <1>12
    <2> QED  BY <1>2, <1>10, <1>12, <1>13, <2>1, AnnounceFacts DEF announced
  <1>15. ~changed => seen' = seen /\ SmsOf(announced) = SmsOf(queue)
    <2>1. SUFFICES ASSUME ~changed  PROVE seen' = seen /\ SmsOf(announced) = SmsOf(queue)
      OBVIOUS
    <2>2. new = {} /\ seen' = seen /\ Cardinality(new) = 0
      BY <1>6, <2>1, FS_EmptySet
    <2>3. announced = queue
      BY <1>2, <1>10, <1>12, <2>2, AnnounceNone DEF announced, GoodQueue
    <2> QED  BY <2>2, <2>3
  <1>16. ASSUME NEW d \in ToSet(announced), d.of \notin new  PROVE d \in ToSet(queue)
    BY <1>10, <1>14, <1>16
  <1>17. \A d \in ToSet(announced) : d.of \in Call => d.of \in calls'
    BY <1>1, <1>3, <1>5, <1>11, <1>16 DEF DaemonInv, CallsRing
  <1>18. ASSUME NEW x, x \notin new, NEW t \in Transport
         PROVE  <<x, t>> \in Keys(announced) => <<x, t>> \in Keys(queue)
    <2>1. SUFFICES ASSUME NEW d \in ToSet(announced), d.of = x, d.to = t
                   PROVE  <<x, t>> \in Keys(queue)
      BY DEF Keys
    <2> QED  BY <1>16, <1>18, <2>1 DEF Keys
  <1>19. ASSUME NEW x \in Known(seen), NEW t \in Transport
         PROVE  /\ <<x, t>> \in (excused \ owed) \cup forgiven \cup Keys(announced)
                /\ <<x, t>> \notin owed
    <2>1. x \in Sms /\ x \notin new
      BY <1>4, <1>5
    <2>2. CASE <<x, t>> \in Keys(queue) /\ <<x, t>> \notin Keys(announced)
      <3>1. <<x, t>> \in Evicted(queue, announced)
        BY <2>1, <2>2 DEF Evicted
      <3> QED  BY <1>8, <2>1, <3>1
    <2>3. CASE <<x, t>> \in excused
      BY <1>8, <2>1, <2>3
    <2>4. CASE <<x, t>> \in Keys(announced)
      BY <1>8, <2>1, <2>4
    <2> QED  BY <2>2, <2>3, <2>4 DEF DaemonInv, MemoryOwes
  <1>20. ASSUME NEW x \in calls', NEW t \in Transport
         PROVE  <<x, t>> \in (excused \ owed) \cup forgiven \cup Keys(announced)
    <2>1. x \in calls /\ x \in Call
      BY <1>1, <1>2 DEF DaemonTypes
    <2>2. x \notin new
      BY <1>3, <1>5, <1>11, <2>1
    <2>3. CASE <<x, t>> \in Keys(queue)
      <3>1. PICK d \in ToSet(queue) : d.of = x /\ d.to = t
        BY <2>3 DEF Keys
      <3>2. <<x, t>> \in Keys(announced)
        BY <1>14, <2>1, <3>1 DEF Keys
      <3> QED  BY <3>2
    <2>4. CASE <<x, t>> \in excused
      BY <1>8, <2>2, <2>4
    <2> QED  BY <2>1, <2>3, <2>4 DEF DaemonInv, CallsOwed
  <1>21. seen' \in Scan
    <2>1. now \in (SUBSET Sms) \cup {Unscanned}
      BY <1>3
    <2> QED  BY <1>1, <1>2, <2>1 DEF Scan
  <1>22. ASSUME NEW x \in Known(seen'), NEW t \in Transport
         PROVE  <<x, t>> \in (excused \ owed) \cup forgiven \cup Keys(announced)
    <2>1. PICK r \in Storage : seen'[r] # Unscanned /\ x \in seen'[r]
      BY <1>21, KnownIs
    <2>2. x \in now \/ x \in Known(seen)
      BY <1>1, <1>2, <1>4, <2>1 DEF Scan
    <2>3. x \in new \/ x \in silent \/ x \in Known(seen)
      BY <1>5, <2>2
    <2>4. CASE x \in new \/ x \in silent
      BY <1>8, <2>4
    <2> QED  BY <1>19, <2>3, <2>4
  <1>23. forgiven \in SUBSET (Subject \X Transport)
    <2>1. Keys(queue) \subseteq Subject \X Transport
      BY <1>2, KeysIs DEF GoodQueue
    <2>2. Evicted(queue, announced) \subseteq Keys(queue)
      BY DEF Evicted
    <2>3. new \subseteq Subject /\ silent \subseteq Subject
      BY <1>3, <1>5, <1>11
    <2> QED  BY <1>8, <2>1, <2>2, <2>3
  <1>24. calls' \subseteq Call /\ rings' \in 0..MaxRings
         /\ inflight' \in [Transport -> Send \cup {NoSend}]
    BY <1>1, <1>2 DEF DaemonTypes
  <1>25. \A x \in Known(seen) \cap Known(seen'), t \in Transport :
             <<x, t>> \in Keys(announced) => <<x, t>> \in Keys(queue)
    BY <1>5, <1>18
  <1>26. /\ \A x \in calls' \cup Known(seen'), t \in Transport :
             <<x, t>> \in (excused \ owed) \cup forgiven \cup Keys(announced)
         /\ \A x \in Known(seen), t \in Transport : <<x, t>> \notin owed
    BY <1>19, <1>20, <1>22
  <1>27. pc = "select" /\ GoodQueue(announced) /\ changed \in BOOLEAN
         /\ Pass(announced, changed, forgiven, owed)
    BY <1>1, <1>7, <1>14
  <1> QED  BY <1>15, <1>17, <1>21, <1>23, <1>24, <1>25, <1>26, <1>27, PassKeeps

LEMMA ResultTaken ==
  ASSUME DaemonInv, NEW t \in Transport, NEW outcome \in Outcome, TakeResult(t, outcome)
  PROVE  DaemonInv'
  <1> DEFINE kept == Finish(queue, inflight[t], outcome)
             changed == kept # queue
  <1>1. /\ pc = "select" /\ inflight' = [inflight EXCEPT ![t] = NoSend]
        /\ UNCHANGED <<seen, calls, rings>>
        /\ Pass(kept, changed, Keys(queue) \ Keys(kept), {})
    BY DEF TakeResult
  <1>2. DaemonTypes /\ GoodQueue(queue)
    BY DEF DaemonInv
  <1>3. GoodQueue(kept) /\ Keys(kept) \subseteq Keys(queue)
    BY <1>2, FinishFacts
  <1>4. changed \in BOOLEAN
    OBVIOUS
  <1>5. ASSUME ~changed  PROVE kept = queue
    BY <1>5
  <1> HIDE DEF kept, changed
  <1>6. ~changed => seen' = seen /\ SmsOf(kept) = SmsOf(queue)
    BY <1>1, <1>5
  <1>7. \A d \in ToSet(kept) : d.of \in Call => d.of \in calls'
    <2>1. SUFFICES ASSUME NEW d \in ToSet(kept), d.of \in Call  PROVE d.of \in calls
      BY <1>1
    <2>2. <<d.of, d.to>> \in Keys(queue)
      BY <1>3 DEF Keys
    <2>3. PICK e \in ToSet(queue) : e.of = d.of
      BY <2>2 DEF Keys
    <2> QED  BY <2>1, <2>3 DEF DaemonInv, CallsRing
  <1>8. /\ seen' \in Scan /\ calls' \subseteq Call /\ rings' \in 0..MaxRings
        /\ inflight' \in [Transport -> Send \cup {NoSend}]
    BY <1>1, <1>2 DEF DaemonTypes
  <1>9. \A x \in calls' \cup Known(seen'), s \in Transport :
             <<x, s>> \in (excused \ {}) \cup (Keys(queue) \ Keys(kept)) \cup Keys(kept)
    BY <1>1 DEF DaemonInv, CallsOwed, MemoryOwes
  <1>10. \A x \in Known(seen) \cap Known(seen'), s \in Transport :
             <<x, s>> \in Keys(kept) => <<x, s>> \in Keys(queue)
    BY <1>3
  <1>11. Keys(queue) \ Keys(kept) \in SUBSET (Subject \X Transport)
    <2>1. Keys(queue) \subseteq Subject \X Transport
      BY <1>2, KeysIs DEF GoodQueue
    <2> QED  BY <2>1
  <1>12. \A x \in Known(seen), s \in Transport : <<x, s>> \notin {}
    OBVIOUS
  <1> QED  BY <1>1, <1>3, <1>4, <1>6, <1>7, <1>8, <1>9, <1>10, <1>11, <1>12, PassKeeps

LEMMA Ticked ==
  ASSUME DaemonInv, Tick
  PROVE  DaemonInv'
  <1> DEFINE changed == FALSE
             none == {}
  <1>1. /\ pc = "select" /\ UNCHANGED <<seen, calls, rings, inflight>>
        /\ Pass(queue, changed, none, none)
    BY DEF Tick
  <1>2. DaemonTypes /\ GoodQueue(queue) /\ changed \in BOOLEAN
        /\ none \in SUBSET (Subject \X Transport)
    BY DEF DaemonInv
  <1>3. /\ seen' \in Scan /\ calls' \subseteq Call /\ rings' \in 0..MaxRings
        /\ inflight' \in [Transport -> Send \cup {NoSend}]
    BY <1>1, <1>2 DEF DaemonTypes
  <1>4. /\ ~changed => seen' = seen /\ SmsOf(queue) = SmsOf(queue)
        /\ \A d \in ToSet(queue) : d.of \in Call => d.of \in calls'
        /\ \A x \in calls' \cup Known(seen'), t \in Transport :
             <<x, t>> \in (excused \ none) \cup none \cup Keys(queue)
        /\ \A x \in Known(seen), t \in Transport : <<x, t>> \notin none
        /\ \A x \in Known(seen) \cap Known(seen'), t \in Transport :
             <<x, t>> \in Keys(queue) => <<x, t>> \in Keys(queue)
    BY <1>1 DEF DaemonInv, CallsRing, CallsOwed, MemoryOwes
  <1> HIDE DEF changed, none
  <1> QED  BY <1>1, <1>2, <1>3, <1>4, PassKeeps

LEMMA Persisted ==
  ASSUME DaemonInv, Persist
  PROVE  DaemonInv'
  <1>1. /\ pc = "persist" /\ pc' = "dispatch" /\ dirty' = FALSE
        /\ disk' = IF dirty THEN InMemory ELSE disk
        /\ outlived' = IF dirty THEN {} ELSE outlived
        /\ UNCHANGED <<seen, queue, rings, calls, opts, config, saved, inflight, excused>>
    BY DEF Persist, state, control
  <1>2. DaemonTypes /\ GoodQueue(queue) /\ GoodQueue(disk.queue)
    BY DEF DaemonInv
  <1>3. CASE dirty
    <2>1. disk'.seen = seen /\ disk'.queue = queue /\ disk'.rings = rings
          /\ disk' = [seen |-> seen, queue |-> queue, rings |-> rings]
          /\ outlived' = {}
      BY <1>1, <1>3 DEF InMemory
    <2>2. DaemonTypes'
      BY <1>1, <1>2, <2>1 DEF DaemonTypes, DiskFile, GoodQueue
    <2>3. NoSmsIsForgotten'
      BY <1>1, <2>1 DEF NoSmsIsForgotten, DaemonInv, MemoryOwes
    <2>4. FileFollows' /\ NothingNew' /\ NothingRuns' /\ LiveIsQueued'
      BY <1>1, <2>1 DEF FileFollows, NothingNew, NothingRuns, LiveIsQueued
    <2>5. MemoryHides' /\ HiddenTextIsErased'
      BY <1>1, <2>1 DEF DaemonInv, MemoryHides, HiddenTextIsErased, SmsOf
    <2>6. CallsOwed' /\ CallsRing' /\ MemoryOwes'
      BY <1>1 DEF DaemonInv, CallsOwed, CallsRing, MemoryOwes
    <2> QED  BY <1>1, <1>2, <2>1, <2>2, <2>3, <2>4, <2>5, <2>6 DEF DaemonInv
  <1>4. CASE ~dirty
    <2>1. /\ disk' = disk /\ disk.seen = seen /\ outlived' = outlived
          /\ SmsOf(disk.queue) = SmsOf(queue) \cup outlived
      BY <1>1, <1>4 DEF DaemonInv, FileFollows
    <2>2. DaemonTypes'
      BY <1>1, <1>2, <2>1 DEF DaemonTypes
    <2>3. NoSmsIsForgotten' /\ FileFollows' /\ NothingNew' /\ NothingRuns' /\ LiveIsQueued'
      BY <1>1, <2>1 DEF NoSmsIsForgotten, DaemonInv, FileFollows, NothingNew, NothingRuns, LiveIsQueued
    <2>5. MemoryHides' /\ HiddenTextIsErased'
      BY <1>1, <2>1 DEF DaemonInv, MemoryHides, HiddenTextIsErased, SmsOf
    <2>6. CallsOwed' /\ CallsRing' /\ MemoryOwes'
      BY <1>1 DEF DaemonInv, CallsOwed, CallsRing, MemoryOwes
    <2> QED  BY <1>1, <1>2, <2>1, <2>2, <2>3, <2>5, <2>6 DEF DaemonInv
  <1> QED  BY <1>2, <1>3, <1>4 DEF DaemonTypes

LEMMA Dispatched ==
  ASSUME DaemonInv, Dispatch
  PROVE  DaemonInv'
  <1>1. /\ pc = "dispatch" /\ pc' = "select"
        /\ UNCHANGED <<seen, queue, rings, calls, dirty, opts, disk, config, saved, excused,
                       outlived>>
    BY DEF Dispatch, state, control, history
  <1>2. DaemonTypes /\ GoodQueue(queue) /\ GoodQueue(disk.queue)
    BY DEF DaemonInv
  <1>3. /\ inflight' \in [Transport -> {Cancelled(inflight[t]) : t \in Transport}
                   \cup {Begun(d) : d \in ToSet(queue) \cup {NoSend}}]
        /\ \A t \in Transport :
              IF inflight[t] # NoSend THEN inflight'[t] = Cancelled(inflight[t])
              ELSE \E d \in Candidates(t) : inflight'[t] = Begun(d)
    BY DEF Dispatch
  <1>4. inflight' \in [Transport -> Send \cup {NoSend}]
    BY <1>2, <1>3, SendTypes
  <1>5. ASSUME NEW t \in Transport, inflight'[t] # NoSend, inflight'[t].live
        PROVE  Queued(queue, inflight'[t])
    <2>1. CASE inflight[t] # NoSend
      BY <1>2, <1>3, <1>5, <2>1, SendTypes
    <2>2. CASE inflight[t] = NoSend
      <3>1. PICK d \in Candidates(t) : inflight'[t] = Begun(d)
        BY <1>3, <2>2
      <3>2. d # NoSend
        BY <1>5, <3>1 DEF Begun
      <3>3. d \in ToSet(queue)
        BY <1>2, <3>2, CandidatesFacts
      <3> QED  BY <1>2, <1>5, <3>1, <3>3, SendTypes
    <2> QED  BY <2>1, <2>2
  <1>6. DaemonTypes'
    BY <1>1, <1>2, <1>4 DEF DaemonTypes
  <1>7. LiveIsQueued'
    BY <1>1, <1>5 DEF LiveIsQueued
  <1>8. NoSmsIsForgotten' /\ FileFollows' /\ NothingNew' /\ NothingRuns'
    BY <1>1 DEF DaemonInv, NoSmsIsForgotten, FileFollows, NothingNew, NothingRuns
  <1>9. MemoryHides' /\ HiddenTextIsErased'
    BY <1>1 DEF DaemonInv, MemoryHides, HiddenTextIsErased, Settled
  <1>10. CallsOwed' /\ CallsRing' /\ MemoryOwes'
    BY <1>1 DEF DaemonInv, CallsOwed, CallsRing, MemoryOwes
  <1> QED  BY <1>1, <1>2, <1>6, <1>7, <1>8, <1>9, <1>10 DEF DaemonInv

\* The control server leaves the loop and its State alone.
LEMMA SettingsChanged ==
  ASSUME DaemonInv, pc # "down", config' \in Config, saved' \in Config,
         UNCHANGED <<pc, seen, queue, rings, calls, dirty, opts, disk, inflight, excused,
                   outlived>>
  PROVE  DaemonInv'
  <1>1. DaemonTypes'
    BY DEF DaemonInv, DaemonTypes
  <1>2. LiveIsQueued' /\ NoSmsIsForgotten' /\ FileFollows' /\ NothingNew' /\ NothingRuns'
    BY DEF DaemonInv, LiveIsQueued, NoSmsIsForgotten, FileFollows, NothingNew, NothingRuns
  <1>3. MemoryHides' /\ HiddenTextIsErased'
    BY DEF DaemonInv, MemoryHides, HiddenTextIsErased, Settled
  <1>4. CallsOwed' /\ CallsRing' /\ MemoryOwes'
    BY DEF DaemonInv, CallsOwed, CallsRing, MemoryOwes
  <1> QED  BY <1>1, <1>2, <1>3, <1>4 DEF DaemonInv

LEMMA Stopped ==
  ASSUME DaemonInv, Stop
  PROVE  DaemonInv'
  <1>1. /\ pc # "down" /\ pc' = "down"
        /\ disk' = disk \/ disk' = InMemory
        /\ seen' = NothingSeen /\ queue' = <<>> /\ rings' = 0 /\ calls' = {}
        /\ dirty' = FALSE /\ inflight' = [t \in Transport |-> NoSend]
        /\ excused' = {k \in excused : k[1] \in Sms} \ Keys(disk'.queue)
        /\ config' = saved /\ opts' = saved /\ saved' = saved /\ outlived' = {}
    BY DEF Stop
  <1>2. DaemonTypes /\ GoodQueue(queue) /\ GoodQueue(disk.queue)
    BY DEF DaemonInv
  <1>3. /\ disk' \in DiskFile /\ GoodQueue(disk'.queue)
        /\ \A x \in Known(disk'.seen), t \in Transport : <<x, t>> \in Keys(disk'.queue) \cup excused
    <2>1. CASE disk' = disk
      BY <1>2, <2>1 DEF DaemonTypes, DaemonInv, NoSmsIsForgotten
    <2>2. CASE disk' = InMemory
      <3>1. disk'.seen = seen /\ disk'.queue = queue /\ disk'.rings = rings
            /\ disk' = [seen |-> seen, queue |-> queue, rings |-> rings]
        BY <2>2 DEF InMemory
      <3> QED  BY <1>2, <3>1 DEF DaemonTypes, DiskFile, GoodQueue, DaemonInv, MemoryOwes
    <2> QED  BY <1>1, <2>1, <2>2
  <1>4. disk'.seen \in Scan /\ Known(disk'.seen) \subseteq Sms
    BY <1>3, KnownIs DEF DiskFile
  <1>5. DaemonTypes'
    <2>1. seen' \in Scan /\ calls' \subseteq Call /\ dirty' \in BOOLEAN
      BY <1>1, NothingKnown
    <2>2. rings' \in 0..MaxRings
      BY <1>1, BoundsAssumption
    <2>3. inflight' \in [Transport -> Send \cup {NoSend}]
      BY <1>1
    <2>4. excused' \subseteq Subject \X Transport
      BY <1>1, <1>2 DEF DaemonTypes
    <2> QED  BY <1>1, <1>2, <1>3, <2>1, <2>2, <2>3, <2>4 DEF DaemonTypes
  <1>6. NoSmsIsForgotten'
    BY <1>1, <1>3, <1>4 DEF NoSmsIsForgotten
  <1>7. CallsOwed' /\ CallsRing' /\ MemoryOwes' /\ NothingNew'
    BY <1>1, NoKeys, NothingKnown DEF CallsOwed, CallsRing, MemoryOwes, NothingNew
  <1>8. FileFollows' /\ MemoryHides' /\ HiddenTextIsErased' /\ LiveIsQueued' /\ NothingRuns'
    BY <1>1 DEF FileFollows, MemoryHides, HiddenTextIsErased, Settled, LiveIsQueued, NothingRuns
  <1>9. GoodQueue(queue')
    BY <1>1, NoKeys
  <1> QED  BY <1>1, <1>3, <1>5, <1>6, <1>7, <1>8, <1>9 DEF DaemonInv

LEMMA Started ==
  ASSUME DaemonInv, Start
  PROVE  DaemonInv'
  <1>0. PICK expired \in SUBSET SmsOf(disk.queue) : StartWith(expired)
    BY DEF Start
  <1> DEFINE kept == Only(disk.queue, SmsOf(disk.queue) \ expired)
             show == "sms" \in saved.show
             shown == [i \in 1..Len(kept) |-> show]
             redacted == Erased(kept, shown)
  <1>1. /\ pc = "down" /\ pc' = "select" /\ seen' = disk.seen /\ rings' = disk.rings
        /\ queue' = redacted
        /\ disk' = IF redacted = kept THEN disk ELSE [disk EXCEPT !.queue = redacted]
        /\ outlived' = IF redacted = kept THEN expired ELSE {}
        /\ excused' = excused \cup {k \in Keys(disk.queue) \ Keys(redacted) :
                                      k[1] \in Known(disk.seen)}
        /\ UNCHANGED <<calls, dirty, opts, config, saved, inflight>>
    <2>1. redacted = [i \in 1..Len(kept) |->
                       [kept[i] EXCEPT !.detail = @ /\ "sms" \in saved.show]]
      BY DEF Erased
    <2> QED  BY <1>0, <2>1 DEF StartWith, control
  <1>2. DaemonTypes /\ GoodQueue(disk.queue)
    BY DEF DaemonInv
  <1>3. /\ GoodQueue(kept) /\ ToSet(kept) = SmsOf(disk.queue) \ expired
        /\ SmsOf(disk.queue) \subseteq Delivery
    <2>1. SmsOf(disk.queue) \subseteq ToSet(disk.queue)
      BY DEF SmsOf
    <2>2. ToSet(disk.queue) \subseteq Delivery
      BY <1>2, ToSetIs DEF GoodQueue
    <2> QED  BY <1>2, <2>1, <2>2, OnlyIsGood, OnlyFacts DEF GoodQueue
  <1>4. shown \in [1..Len(kept) -> BOOLEAN]
        /\ \A i \in 1..Len(kept) : shown[i] => "sms" \in saved.show
    <2>1. show \in BOOLEAN /\ (show => "sms" \in saved.show)
      OBVIOUS
    <2> HIDE DEF show, kept
    <2>2. shown \in [1..Len(kept) -> BOOLEAN] /\ \A i \in 1..Len(kept) : shown[i] => show
      BY <2>1
    <2> HIDE DEF shown
    <2> QED  BY <2>1, <2>2
  <1> HIDE DEF kept, shown, redacted
  <1>5. /\ GoodQueue(redacted) /\ Len(redacted) = Len(kept) /\ Keys(redacted) = Keys(kept)
        /\ \A i \in 1..Len(kept) : redacted[i].of = kept[i].of /\ (redacted[i].detail => shown[i])
    BY <1>3, <1>4, ErasedFacts DEF redacted
  <1>6. /\ \A d \in ToSet(kept) : d.of \in Sms
        /\ \A d \in ToSet(redacted) : d.of \in Sms /\ (d.detail => "sms" \in saved.show)
    <2>1. \A d \in ToSet(kept) : d.of \in Sms
      BY <1>3 DEF SmsOf
    <2>2. ASSUME NEW d \in ToSet(redacted)  PROVE d.of \in Sms /\ (d.detail => "sms" \in saved.show)
      <3>1. PICK i \in 1..Len(redacted) : d = redacted[i]
        BY <1>5, ToSetIs DEF GoodQueue
      <3>2. kept[i] \in ToSet(kept)
        BY <1>3, <1>5, ToSetIs DEF GoodQueue
      <3> QED  BY <1>4, <1>5, <2>1, <3>1, <3>2
    <2> QED  BY <2>1, <2>2
  <1>7. SmsOf(redacted) = ToSet(redacted)
    BY <1>6 DEF SmsOf
  \* The file is what memory has, and what had expired if it was not written.
  <1>8. /\ disk' \in DiskFile /\ disk'.seen = disk.seen /\ GoodQueue(disk'.queue)
        /\ SmsOf(disk'.queue) = ToSet(redacted) \cup outlived'
        /\ outlived' \subseteq Delivery
        /\ disk'.queue = disk.queue \/ disk'.queue = redacted
    <2>1. CASE redacted = kept
      BY <1>1, <1>2, <1>3, <2>1 DEF DaemonTypes
    <2>2. CASE redacted # kept
      <3>1. disk' = [disk EXCEPT !.queue = redacted]
        BY <1>1, <2>2
      <3>2. disk' \in DiskFile /\ disk'.seen = disk.seen /\ disk'.queue = redacted
        BY <1>2, <1>5, <3>1 DEF DaemonTypes, DiskFile, GoodQueue
      <3> QED  BY <1>1, <1>5, <1>7, <2>2, <3>2
    <2> QED  BY <2>1, <2>2
  <1>9. Known(disk.seen) \subseteq Sms
    BY <1>2, KnownIs DEF DaemonTypes, DiskFile
  <1>10. /\ Keys(redacted) \subseteq Keys(disk.queue)
         /\ Keys(redacted) \subseteq Keys(disk'.queue)
         /\ Keys(disk.queue) \subseteq Subject \X Transport
    <2>1. ToSet(kept) \subseteq ToSet(disk.queue)
      BY <1>3 DEF SmsOf
    <2>2. Keys(redacted) \subseteq Keys(disk.queue)
      BY <1>5, <2>1 DEF Keys
    <2> QED  BY <1>2, <1>8, <2>2, KeysIs DEF GoodQueue
  <1>11. /\ opts = saved /\ calls = {} /\ \A t \in Transport : inflight[t] = NoSend
         /\ ~dirty /\ \A x \in Known(disk.seen), t \in Transport :
                         <<x, t>> \in Keys(disk.queue) \cup excused
    BY <1>1, <1>2 DEF DaemonInv, NothingRuns, NoSmsIsForgotten, DaemonTypes
  <1>12. DaemonTypes'
    <2>1. excused' \subseteq Subject \X Transport
      BY <1>1, <1>2, <1>10 DEF DaemonTypes
    <2> QED  BY <1>1, <1>2, <1>8, <2>1 DEF DaemonTypes, DiskFile
  <1>13. NoSmsIsForgotten' /\ MemoryOwes' /\ NothingNew'
    <2>1. \A x \in Known(disk.seen), t \in Transport : <<x, t>> \in Keys(redacted) \cup excused'
      <3>1. SUFFICES ASSUME NEW x \in Known(disk.seen), NEW t \in Transport,
                            <<x, t>> \in Keys(disk.queue) \ Keys(redacted)
                     PROVE  <<x, t>> \in excused'
        BY <1>1, <1>11
      <3>2. <<x, t>>[1] \in Known(disk.seen)
        OBVIOUS
      <3> QED  BY <1>1, <3>1, <3>2
    <2> QED  BY <1>1, <1>8, <1>10, <2>1 DEF NoSmsIsForgotten, MemoryOwes, NothingNew
  <1>14. FileFollows'
    BY <1>1, <1>7, <1>8 DEF FileFollows
  <1>15. MemoryHides'
    BY <1>1, <1>6, <1>7, <1>11 DEF MemoryHides
  <1>16. HiddenTextIsErased'
    <2>1. SUFFICES ASSUME "sms" \notin opts'.show, NEW d \in ToSet(disk'.queue), d.of \in Sms,
                          d \notin outlived'
                   PROVE  ~d.detail
      BY DEF HiddenTextIsErased
    <2>2. d \in ToSet(redacted)
      BY <1>8, <2>1 DEF SmsOf
    <2> QED  BY <1>1, <1>6, <1>11, <2>1, <2>2
  <1>17. CallsOwed' /\ LiveIsQueued' /\ NothingRuns' /\ CallsRing'
    BY <1>1, <1>6, <1>11, SubjectsAssumption DEF CallsOwed, LiveIsQueued, NothingRuns, CallsRing
  <1> QED  BY <1>1, <1>5, <1>8, <1>11, <1>12, <1>13, <1>14, <1>15, <1>16, <1>17 DEF DaemonInv

LEMMA DaemonInit ==
  ASSUME Init  PROVE DaemonInv
  <1>1. /\ pc = "select" /\ seen = NothingSeen /\ queue = <<>> /\ rings = 0 /\ calls = {}
        /\ dirty = FALSE /\ disk = [seen |-> NothingSeen, queue |-> <<>>, rings |-> 0]
        /\ disk.seen = NothingSeen /\ disk.queue = <<>>
        /\ config \in Config /\ saved \in Config /\ opts \in Config
        /\ inflight = [t \in Transport |-> NoSend] /\ excused = {} /\ outlived = {}
    BY SettingsAssumption DEF Init
  <1>2. /\ Keys(<<>>) = {} /\ ToSet(<<>>) = {} /\ SmsOf(<<>>) = {} /\ GoodQueue(<<>>)
        /\ Known(NothingSeen) = {} /\ NothingSeen \in Scan /\ 0 \in 0..MaxRings
    BY NoKeys, NothingKnown, BoundsAssumption
  <1>3. DaemonTypes
    BY <1>1, <1>2 DEF DaemonTypes, DiskFile, GoodQueue
  <1>4. CallsOwed /\ CallsRing /\ MemoryOwes /\ NothingNew /\ NoSmsIsForgotten
    BY <1>1, <1>2 DEF CallsOwed, CallsRing, MemoryOwes, NothingNew, NoSmsIsForgotten
  <1>5. FileFollows /\ MemoryHides /\ HiddenTextIsErased /\ LiveIsQueued /\ NothingRuns
    BY <1>1, <1>2 DEF FileFollows, MemoryHides, HiddenTextIsErased, LiveIsQueued, NothingRuns
  <1> QED  BY <1>1, <1>2, <1>3, <1>4, <1>5 DEF DaemonInv

LEMMA DaemonAlone ==
  ASSUME DaemonInv, UNCHANGED vars  PROVE DaemonInv'
  <1>1. UNCHANGED <<pc, seen, queue, rings, calls, dirty, opts, disk, config, saved,
                    inflight, excused, outlived>>
    BY DEF vars, state, control, history
  <1>2. DaemonTypes'
    BY <1>1 DEF DaemonInv, DaemonTypes
  <1>3. LiveIsQueued' /\ NoSmsIsForgotten' /\ FileFollows' /\ NothingNew' /\ NothingRuns'
    BY <1>1 DEF DaemonInv, LiveIsQueued, NoSmsIsForgotten, FileFollows, NothingNew, NothingRuns
  <1>4. MemoryHides' /\ HiddenTextIsErased'
    BY <1>1 DEF DaemonInv, MemoryHides, HiddenTextIsErased, Settled
  <1>5. CallsOwed' /\ CallsRing' /\ MemoryOwes'
    BY <1>1 DEF DaemonInv, CallsOwed, CallsRing, MemoryOwes
  <1> QED  BY <1>1, <1>2, <1>3, <1>4, <1>5 DEF DaemonInv

LEMMA DaemonNext ==
  ASSUME DaemonInv, Next  PROVE DaemonInv'
  <1>1. CASE \E now \in SUBSET Call : TakeCalls(now)
    BY <1>1, CallsTaken
  <1>2. CASE \E s \in Storage, now \in Contents : TakeSms(s, now)
    BY <1>2, SmsTaken
  <1>3. CASE \E t \in Transport, outcome \in Outcome : TakeResult(t, outcome)
    BY <1>3, ResultTaken
  <1>4. CASE Tick
    BY <1>4, Ticked
  <1>5. CASE Persist
    BY <1>5, Persisted
  <1>6. CASE Dispatch
    BY <1>6, Dispatched
  <1>7. ASSUME NEW c \in Settings, SaveSettings(c)  PROVE DaemonInv'
    <2>1. config \in Config /\ c \in Config
      BY SettingsAssumption DEF DaemonInv, DaemonTypes
    <2> QED  BY <1>7, <2>1, SettingsChanged DEF SaveSettings, state, history
  <1>8. CASE UpdateConfig
    <2>1. saved \in Config
      BY DEF DaemonInv, DaemonTypes
    <2> QED  BY <1>8, <2>1, SettingsChanged DEF UpdateConfig, state, history
  <1>9. CASE Stop
    BY <1>9, Stopped
  <1>10. CASE Start
    BY <1>10, Started
  <1> QED  BY <1>1, <1>2, <1>3, <1>4, <1>5, <1>6, <1>7, <1>8, <1>9, <1>10 DEF Next

LEMMA DaemonFollowsCalls ==
  ASSUME DaemonInv  PROVE QueueFollowsCalls
  <1>1. DaemonTypes /\ GoodQueue(queue) /\ GoodQueue(disk.queue)
    BY DEF DaemonInv
  <1>2. TypeOK
    <2>1. \A q \in {queue, disk.queue} : Len(q) =< Cap /\ ToSet(q) \subseteq Delivery
      BY <1>1, ToSetIs DEF GoodQueue
    <2>2. \A t \in Transport : inflight[t] \in Send \cup {NoSend}
      BY <1>1 DEF DaemonTypes
    <2>3. disk.seen \in Scan /\ disk.rings \in 0..MaxRings
      BY <1>1 DEF DaemonTypes, DiskFile
    <2> QED  BY <1>1, <2>1, <2>2, <2>3 DEF DaemonTypes, TypeOK
  <1>3. Cardinality(Keys(queue)) = Len(queue)
    BY <1>1, ApartCounts DEF GoodQueue
  <1> QED  BY <1>2, <1>3 DEF QueueFollowsCalls, DaemonInv, CallsOwed, CallsRing, LiveIsQueued

\* What a step writes to the file was in its queue before, when the file knew it.
LEMMA NothingTwice ==
  ASSUME DaemonInv, Next,
         NEW x \in Known(disk.seen) \cap Known(disk'.seen), NEW t \in Transport,
         <<x, t>> \in Keys(disk'.queue)
  PROVE  <<x, t>> \in Keys(disk.queue)
  <1>1. x \in Sms
    BY KnownIs DEF DaemonInv, DaemonTypes, DiskFile
  <1>2. CASE disk' = disk
    BY <1>2
  <1>3. CASE disk' = InMemory
    <2>1. disk'.seen = seen /\ disk'.queue = queue
      BY <1>3 DEF InMemory
    <2> QED  BY <2>1 DEF DaemonInv, NothingNew
  <1>4. CASE Start
    <2>0. PICK expired \in SUBSET SmsOf(disk.queue) : StartWith(expired)
      BY <1>4 DEF Start
    <2> DEFINE kept == Only(disk.queue, SmsOf(disk.queue) \ expired)
               show == "sms" \in saved.show
               shown == [i \in 1..Len(kept) |-> show]
               redacted == Erased(kept, shown)
    <2>1. disk' = disk \/ disk' = [disk EXCEPT !.queue = redacted]
      BY <2>0 DEF StartWith, Erased
    <2>2. GoodQueue(kept) /\ Keys(kept) \subseteq Keys(disk.queue)
      BY OnlyIsGood DEF DaemonInv
    <2>3. shown \in [1..Len(kept) -> BOOLEAN]
      <3>1. show \in BOOLEAN
        OBVIOUS
      <3> HIDE DEF show
      <3> QED  BY <3>1
    <2> HIDE DEF kept, shown, redacted
    <2>4. Keys(redacted) = Keys(kept)
      BY <2>2, <2>3, ErasedFacts DEF redacted
    <2>5. disk'.queue = disk.queue \/ disk'.queue = redacted
      BY <2>1 DEF DaemonInv, DaemonTypes, DiskFile
    <2> QED  BY <2>2, <2>4, <2>5
  <1>5. disk' = disk \/ disk' = InMemory \/ Start
    <2>1. CASE \E now \in SUBSET Call : TakeCalls(now)
      BY <2>1 DEF TakeCalls, Pass
    <2>2. CASE \E s \in Storage, now \in Contents : TakeSms(s, now)
      BY <2>2 DEF TakeSms, Pass
    <2>3. CASE \E r \in Transport, outcome \in Outcome : TakeResult(r, outcome)
      BY <2>3 DEF TakeResult, Pass
    <2>4. CASE Tick
      BY <2>4 DEF Tick, Pass
    <2>5. CASE Persist
      BY <2>5 DEF Persist, DaemonInv, DaemonTypes
    <2>6. CASE Dispatch
      BY <2>6 DEF Dispatch
    <2>7. CASE \E c \in Settings : SaveSettings(c)
      BY <2>7 DEF SaveSettings
    <2>8. CASE UpdateConfig
      BY <2>8 DEF UpdateConfig
    <2>9. CASE Stop
      BY <2>9 DEF Stop
    <2> QED  BY <2>1, <2>2, <2>3, <2>4, <2>5, <2>6, <2>7, <2>8, <2>9 DEF Next
  <1> QED  BY <1>2, <1>3, <1>4, <1>5

-----------------------------------------------------------------------------
(* The parts together: a behaviour is one of one part, and the others' do not *)
(* begin in it.                                                               *)

SideInv ==
    /\ DaemonInv
    /\ part = "manager" => ManagerInv
    /\ part = "notes" => NoteInv
    /\ part = "deploy" => DeployInv
    /\ part = "control" => ControlInv

LEMMA SideBegins ==
  ASSUME SideInit  PROVE SideInv
  <1>0. DaemonInv
    BY DaemonInit DEF SideInit
  <1>1. CASE part = "daemon"
    BY <1>0, <1>1 DEF SideInv
  <1>2. CASE part = "manager" /\ E!Init
    BY <1>0, <1>2, ManagerInit DEF SideInv
  <1>3. CASE part = "notes" /\ N!Init
    BY <1>0, <1>3, NoteInit DEF SideInv
  <1>4. CASE part = "deploy" /\ D!Init
    BY <1>0, <1>4, DeployInit DEF SideInv
  <1>5. CASE part = "control" /\ K!Init
    BY <1>0, <1>5, ControlInit DEF SideInv
  <1> QED  BY <1>1, <1>2, <1>3, <1>4, <1>5 DEF SideInit

\* A step that leaves a part alone keeps what is known of it.
LEMMA ManagerAlone ==
  ASSUME ManagerInv, UNCHANGED manager  PROVE ManagerInv'
  <1>1. UNCHANGED <<card, overview, generation, floor, flight, reloader, joined, refresh,
                    overtaken, suppressed, work, client, barrier, context, token, due, told>>
    BY DEF manager
  <1>2. CacheInv'
    BY <1>1 DEF ManagerInv, CacheInv, E!TypeOK, CacheIsNew, FlightIsNew, NoneAhead
  <1>3. WorkInv'
    BY <1>1 DEF ManagerInv, WorkInv, WorkTypes, WorkKnows, E!NothingIsHeld, E!EndIsTold
  <1> QED  BY <1>2, <1>3 DEF ManagerInv

LEMMA NotesAlone ==
  ASSUME NoteInv, UNCHANGED notes  PROVE NoteInv'
  BY DEF notes, NoteInv, NoteTypes, ChangeKnows, ListKnows, N!Matches, N!NotificationsAreKept

LEMMA DeployedAlone ==
  ASSUME DeployInv, UNCHANGED deployed  PROVE DeployInv'
  <1> USE DEF deployed, DeployInv
  <1>1. DeployTypes'
    BY DEF DeployTypes, D!TypeOK
  <1>2. Whose' /\ Arrived'
    BY DEF Whose, Arrived
  <1>3. KitIsWhole' /\ SentinelIsWhole' /\ NoneLeftInTemp'
    BY DEF KitIsWhole, D!Kit, SentinelIsWhole, NoneLeftInTemp
  <1> QED  BY <1>1, <1>2, <1>3

LEMMA ControlAlone ==
  ASSUME ControlInv, UNCHANGED deployed  PROVE ControlInv'
  BY DEF deployed, ControlInv, K!TypeOK, ControlHolds, Works, OneTurn, Saving, Saves, FilesHold

LEMMA SideGoesOn ==
  ASSUME SideInv, [SideNext]_<<part, vars, manager, notes, deployed>>  PROVE SideInv'
  <1>0. DaemonInv'
    <2>1. Next \/ UNCHANGED vars
      BY DEF SideNext, Rest
    <2> QED  BY <2>1, DaemonNext, DaemonAlone DEF SideInv
  <1>1. CASE UNCHANGED <<part, manager, notes, deployed>>
    BY <1>0, <1>1, ManagerAlone, NotesAlone, DeployedAlone, ControlAlone DEF SideInv
  <1>2. CASE part = "manager" /\ E!Next /\ part' = part
    BY <1>0, <1>2, ManagerNext DEF SideInv
  <1>3. CASE part = "notes" /\ N!Next /\ part' = part
    BY <1>0, <1>3, NoteNext DEF SideInv
  <1>4. CASE part = "deploy" /\ D!Next /\ part' = part
    BY <1>0, <1>4, DeployNext DEF SideInv
  <1>5. CASE part = "control" /\ K!Next /\ part' = part
    BY <1>0, <1>5, ControlNext DEF SideInv
  <1> QED  BY <1>1, <1>2, <1>3, <1>4, <1>5 DEF SideNext, Rest

LEMMA SideHolds == SideSpec => []SideInv
  BY SideBegins, SideGoesOn, PTL DEF SideSpec

\* For any number of generations, changes and announced switches: the cached overview
\* is not older than what threw the last one away, whatever loads overlap an operation
\* (loadOverviewShared, setOverviewCache and the invalidations of
\* internal/esim/manager.go), unless RefreshProfiles stored it, which compares nothing
\* and had read before.
THEOREM OverviewCurrent == SideSpec => []OverviewIsCurrent
  <1>1. SideInv => OverviewIsCurrent
    BY DEF SideInv, ManagerInv, CacheInv, CacheIsNew, OverviewIsCurrent, E!OverviewIsCurrent
  <1> QED  BY <1>1, SideHolds, PTL

\* Likewise: an eSIM operation that is over holds no client, barrier or context, and
\* each switch that was announced is told once to have ended, or is about to be,
\* whichever step of it failed (the deferred calls of SwitchProfile, DisableProfile
\* and the others).
THEOREM OperationsEnd == SideSpec => []OperationsEndCleanly
  <1>1. SideInv => OperationsEndCleanly
    BY DEF SideInv, ManagerInv, WorkInv, OperationsEndCleanly, E!OperationsEndCleanly
  <1> QED  BY <1>1, SideHolds, PTL

\* For any profiles and any number of notifications: none that the eUICC has issued is
\* removed before its server has got it, and none of an earlier operation is taken for
\* that of this one (the notification part of internal/esim/manager.go), but for one
\* that the eUICC lists and then gives as nothing.
THEOREM NotificationsKept == SideSpec => []NotificationsAreKept
  <1>1. SideInv => NotificationsAreKept
    BY NotesKept DEF SideInv, NotificationsAreKept
  <1> QED  BY <1>1, SideHolds, PTL

\* What a boot of the module starts is whole and has its key, through failures of a
\* request at any step, losses of power and late start scripts, and what a start of
\* the daemon reads is what the operations of the phone have set, for any number of
\* connections and any values (module_voice_daemon_darwin.go,
\* module_sentinel_darwin.go and internal/modulepush/control.go).
THEOREM StartsSound == SideSpec => []StartsAreSound
  <1>1. SideInv => StartsAreSound
    BY DeployedIsWhole, ConfigurationKept DEF SideInv, StartsAreSound
  <1> QED  BY <1>1, SideHolds, PTL

\* For any messages, calls, transports, storages and settings: a message that the state
\* file knows is queued in it for every transport, or there was a reason not to, through
\* scans, pushes and their failures, evictions, changes of the settings and the end of
\* the process at any moment (serveObserved and State of the notification daemon).
THEOREM SmsNotForgotten == SideSpec => []NoSmsIsForgotten
  <1>1. SideInv => NoSmsIsForgotten
    BY DEF SideInv, DaemonInv
  <1> QED  BY <1>1, SideHolds, PTL

\* Likewise: a call that rings is queued for every transport or was let go, no number of
\* messages pushes it out of the bounded queue, nothing is queued twice for a transport,
\* and a send that is still wanted is of a delivery in the queue (State.enqueue, trim and
\* Finish of internal/modulepush/state.go).
THEOREM CallsAreFollowed == SideSpec => []QueueFollowsCalls
  <1>1. SideInv => QueueFollowsCalls
    BY DaemonFollowsCalls DEF SideInv
  <1> QED  BY <1>1, SideHolds, PTL

\* Likewise: once the daemon has taken note that texts are hidden, none is in its file,
\* also when it ended between the change and the note (State.Reconcile and the start of
\* serveObserved); but of a message that had expired when the daemon started, until the
\* file is written again.
THEOREM TextIsErased == SideSpec => []HiddenTextIsErased
  <1>1. SideInv => HiddenTextIsErased
    BY DEF SideInv, DaemonInv
  <1> QED  BY <1>1, SideHolds, PTL

\* Likewise, of every step: it queues in the file nothing of a message that the file
\* knows and keeps and has not queued, so that no message is announced twice, across
\* storages, restarts and changes of the settings (State.Apply).
THEOREM SilenceKept == SideSpec => SilenceIsKept
  <1>1. ASSUME SideInv, [SideNext]_<<part, vars, manager, notes, deployed>>
        PROVE  [\A x \in Known(disk.seen) \cap Known(disk'.seen), t \in Transport :
                  <<x, t>> \in Keys(disk'.queue) => <<x, t>> \in Keys(disk.queue)]_vars
    <2>1. Next \/ UNCHANGED vars
      BY <1>1 DEF SideNext, Rest
    <2> QED  BY <1>1, <2>1, NothingTwice DEF SideInv
  <1> QED  BY <1>1, SideHolds, PTL DEF SideSpec, SilenceIsKept
=============================================================================
