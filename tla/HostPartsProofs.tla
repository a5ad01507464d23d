--------------------------- MODULE HostPartsProofs ---------------------------
(* Proofs about the parts of the sum in MCHostParts, each with an inductive  *)
(* invariant of its own, for any clients, messages, services, profiles,      *)
(* readers and workers: the parts that give access to the card, the inbox,   *)
(* the parts that keep settings, and the pages that tell of the card.  The   *)
(* last section puts them together.                                          *)
EXTENDS MCHostParts, FiniteSetTheorems, WellFoundedInduction, TLAPS

-----------------------------------------------------------------------------
(* The readiness gate of SIM authentication *)

\* A probe runs only while the gate is shut, and for a generation that was.
GateInv ==
    /\ G!TypeOK
    /\ G!GateIsSound
    /\ G!Probers # {} => ~x2

LEMMA GateInit ==
  ASSUME G!Init  PROVE GateInv
  <1>1. G!TypeOK
    <2>1. x1 \in Nat \ {0} /\ x4 \in [Waiters -> Nat] /\ x5 \in Nat
      BY DEF G!Init
    <2>2. x3 \in [Waiters -> {"out", "look", "asleep", "probing", "passed"}]
      BY DEF G!Init
    <2>3. x2 \in BOOLEAN
      BY DEF G!Init
    <2> QED  BY <2>1, <2>2, <2>3 DEF G!TypeOK
  <1>2. G!Probers = {} /\ ~x2 /\ \A w \in Waiters : x3[w] = "out"
    BY DEF G!Init, G!Probers
  <1> QED
    BY <1>1, <1>2 DEF GateInv, G!GateIsSound, G!GateIsCurrent, G!ProbesAlone,
                      G!SleepersHaveProbe

LEMMA GateNext ==
  ASSUME GateInv, G!Next  PROVE GateInv'
  <1> USE DEF GateInv, G!GateIsSound, G!GateIsCurrent, G!ProbesAlone,
              G!SleepersHaveProbe, G!TypeOK
  <1>1. CASE G!Invalidate
    <2>1. x1' \in Nat \ {0} /\ x2' = FALSE /\ UNCHANGED <<x3, x4, x5>>
      BY <1>1 DEF G!Invalidate
    <2>2. G!Probers' = G!Probers
      BY <2>1 DEF G!Probers
    <2> QED  BY <2>1, <2>2
  <1>2. ASSUME NEW w \in Waiters, G!Ask(w) \/ G!Pass(w) \/ G!SleepOn(w) \/ G!GiveUp(w)
        PROVE  GateInv'
    <2>1. PICK place \in {"look", "passed", "asleep", "out"} :
            x3' = [x3 EXCEPT ![w] = place] /\ (place = "asleep" => G!Probers # {})
      BY <1>2 DEF G!Ask, G!Pass, G!SleepOn, G!GiveUp
    <2>2. x3[w] # "probing" /\ UNCHANGED <<x1, x2, x4, x5>>
      BY <1>2 DEF G!Ask, G!Pass, G!SleepOn, G!GiveUp
    <2>3. G!Probers' = G!Probers
      BY <2>1, <2>2 DEF G!Probers
    <2> QED  BY <2>1, <2>2, <2>3
  <1>3. ASSUME NEW w \in Waiters, G!BeginProbe(w)  PROVE GateInv'
    <2>1. G!Probers' = {w}
      BY <1>3 DEF G!BeginProbe, G!Probers
    <2> QED  BY <1>3, <2>1 DEF G!BeginProbe
  <1>4. ASSUME NEW w \in Waiters, NEW found \in BOOLEAN, G!EndProbe(w, found)
        PROVE  GateInv'
    <2>1. G!Probers = {w}
      BY <1>4 DEF G!EndProbe, G!Probers
    <2>2. \A v \in Waiters : x3'[v] \in {"out", "look", "passed"}
      BY <1>4, <2>1 DEF G!EndProbe, G!Probers, G!Woken
    <2>3. x3' \in [Waiters -> {"out", "look", "asleep", "probing", "passed"}]
      BY <1>4, <2>2 DEF G!EndProbe, G!Woken
    <2>4. G!Probers' = {}
      BY <2>2 DEF G!Probers
    <2>5. ~x2 /\ x2' \in BOOLEAN /\ x5' \in Nat /\ UNCHANGED <<x1, x4>>
      BY <1>4, <2>1 DEF G!EndProbe
    <2>6. x2' => x5' = x1'
      BY <1>4, <2>5 DEF G!EndProbe
    <2> QED  BY <2>2, <2>3, <2>4, <2>5, <2>6
  <1> QED  BY <1>1, <1>2, <1>3, <1>4 DEF G!Next
-----------------------------------------------------------------------------
(* The mutexes of the eUICC's channels *)

\* Those who have looked a mutex up, and the place of the one it is for.
Asked(r) == x11[r] \in {"lock", "locked", "card"}
PlaceOf(r) == H!KeyOf(x10[r])

\* A mutex is of the time between two stops in which it was made: until the next
\* stop it is the one its channel has, and whoever asked for it has that one.
MutexInv ==
    /\ H!TypeOK
    /\ \A r \in UimRequests : x11[r] \in {"locked", "card"} => x4[x12[r]] = r
    /\ \A r \in UimRequests : Asked(r) => x12[r] \in 1..x3
    /\ \A m \in 1..x3 : x6[m] <= x5
    /\ \A k \in H!Key : x2[k] # 0 => x2[k] \in 1..x3 /\ x6[x2[k]] = x5
    /\ \A r \in UimRequests :
          Asked(r) /\ x6[x12[r]] = x5 => x2[PlaceOf(r)] = x12[r]
    /\ \A r, s \in UimRequests :
          /\ Asked(r) /\ Asked(s) /\ PlaceOf(r) = PlaceOf(s)
          /\ x6[x12[r]] = x6[x12[s]]
          => x12[r] = x12[s]

LEMMA PlaceIsKey ==
  ASSUME NEW c \in H!Exchanges  PROVE H!KeyOf(c) \in H!Key
  BY DEF H!Exchanges, H!KeyOf, H!Key, H!Opening

LEMMA MutexInit ==
  ASSUME H!Init  PROVE MutexInv
  <1>1. H!TypeOK
    <2>1. {x1, x7} \subseteq BOOLEAN
      BY DEF H!Init
    <2>5. x5 \in 0..MaxChannelStops /\ x3 \in 0..MaxMutex
      BY UimAssumption DEF H!Init
    <2>2. x2 \in [H!Key -> 0..MaxMutex] /\ x12 \in [UimRequests -> 0..MaxMutex]
      BY UimAssumption DEF H!Init
    <2>3. x4 \in [H!Mutex -> UimRequests \cup {NoOne}]
          /\ x6 \in [H!Mutex -> 0..MaxChannelStops]
      BY UimAssumption DEF H!Init
    <2>4. x8 \subseteq UimChannels /\ x9 \subseteq UimChannels
          /\ x10 \in [UimRequests -> H!Exchanges]
          /\ x11 \in [UimRequests -> {"idle", "look", "create", "lock", "locked", "card"}]
      BY DEF H!Init, H!Exchanges
    <2> QED  BY <2>1, <2>2, <2>3, <2>4, <2>5 DEF H!TypeOK
  <1> QED
    BY <1>1 DEF H!Init, MutexInv, Asked

LEMMA MutexSerial ==
  ASSUME MutexInv  PROVE H!ChannelIsSerial
  <1>1. SUFFICES ASSUME NEW r \in UimRequests, NEW s \in UimRequests, r # s,
                        x11[r] = "card", x11[s] = "card", PlaceOf(r) = PlaceOf(s),
                        x6[x12[r]] = x6[x12[s]]
                 PROVE  FALSE
    BY DEF H!ChannelIsSerial, PlaceOf
  <1>2. x12[r] = x12[s]
    BY <1>1 DEF MutexInv, Asked
  <1> QED  BY <1>1, <1>2 DEF MutexInv

LEMMA MutexUnlock ==
  ASSUME MutexInv, NEW r \in UimRequests, x11[r] \in {"locked", "card"}, H!Unlock(r),
         x1' \in BOOLEAN, x7' \in BOOLEAN, x5' = x5, x8' \subseteq UimChannels,
         x9' \subseteq UimChannels
  PROVE  MutexInv'
  <1> USE DEF MutexInv
  <1>1. /\ x4' = [x4 EXCEPT ![x12[r]] = NoOne]
        /\ x12' = [x12 EXCEPT ![r] = 0]
        /\ x10' = [x10 EXCEPT ![r] = H!Opening]
        /\ x11' = [x11 EXCEPT ![r] = "idle"]
        /\ UNCHANGED <<x2, x3, x6>>
    BY DEF H!Unlock, H!GoTo
  <1>2. H!TypeOK'
    <2>1. {x1', x7'} \subseteq BOOLEAN /\ x8' \subseteq UimChannels
          /\ x9' \subseteq UimChannels
      OBVIOUS
    <2>2. x10' \in [UimRequests -> H!Exchanges]
      BY <1>1 DEF H!TypeOK, H!Exchanges
    <2>3. x12' \in [UimRequests -> 0..MaxMutex]
      BY <1>1, UimAssumption DEF H!TypeOK
    <2>4. x4' \in [H!Mutex -> UimRequests \cup {NoOne}]
          /\ x11' \in [UimRequests -> {"idle", "look", "create", "lock", "locked", "card"}]
      BY <1>1 DEF H!TypeOK
    <2> QED  BY <1>1, <2>1, <2>2, <2>3, <2>4 DEF H!TypeOK
  <1>3. ~Asked(r)'
    BY <1>1 DEF Asked, H!TypeOK
  <1>4. \A s \in UimRequests : s # r =>
          /\ x11'[s] = x11[s] /\ x12'[s] = x12[s]
          /\ Asked(s)' = Asked(s) /\ PlaceOf(s)' = PlaceOf(s)
    BY <1>1 DEF Asked, PlaceOf, H!TypeOK
  <1>5. \A s \in UimRequests : x11'[s] \in {"locked", "card"} => x4'[x12'[s]] = s
    <2>1. SUFFICES ASSUME NEW s \in UimRequests, x11'[s] \in {"locked", "card"}
                   PROVE  x4'[x12'[s]] = s
      OBVIOUS
    <2>2. s # r
      BY <2>1, <1>3 DEF Asked
    <2>3. x4[x12[s]] = s /\ x4[x12[r]] = r /\ x12'[s] = x12[s]
      BY <2>1, <2>2, <1>4
    <2> QED  BY <2>2, <2>3, <1>1
  <1> QED  BY <1>1, <1>2, <1>3, <1>4, <1>5

\* A caller that has found the mutex of its channel, or made it.
LEMMA MutexFound ==
  ASSUME MutexInv, NEW r \in UimRequests, x11[r] \in {"look", "create"},
         H!GoTo(r, "lock"), x12' = [x12 EXCEPT ![r] = x2[PlaceOf(r)]],
         x2[PlaceOf(r)] # 0,
         UNCHANGED <<x1, x2, x3, x4, x5, x6, x7, x8, x9, x10>>
  PROVE  MutexInv'
  <1> USE DEF MutexInv
  <1>1. PlaceOf(r) \in H!Key
    BY PlaceIsKey DEF PlaceOf, H!TypeOK
  <1>2. x2[PlaceOf(r)] \in 1..x3 /\ x6[x2[PlaceOf(r)]] = x5
    BY <1>1
  <1>3. H!TypeOK'
    BY <1>1 DEF H!TypeOK, H!GoTo
  <1>4. \A s \in UimRequests : PlaceOf(s)' = PlaceOf(s)
    BY DEF PlaceOf
  <1>5. x12'[r] = x2[PlaceOf(r)] /\ x11'[r] = "lock"
    BY DEF H!TypeOK, H!GoTo
  <1>6. \A s \in UimRequests : s # r =>
          x11'[s] = x11[s] /\ x12'[s] = x12[s] /\ Asked(s)' = Asked(s)
    BY DEF Asked, H!TypeOK, H!GoTo
  <1>7. \A s \in UimRequests :
           s # r /\ Asked(s) /\ PlaceOf(s) = PlaceOf(r) /\ x6[x12[s]] = x5
           => x12[s] = x2[PlaceOf(r)]
    OBVIOUS
  <1> QED  BY <1>2, <1>3, <1>4, <1>5, <1>6, <1>7

LEMMA MutexMade ==
  ASSUME MutexInv, NEW r \in UimRequests, x11[r] = "create", x2[PlaceOf(r)] = 0,
         H!Make(r), H!GoTo(r, "lock"), UNCHANGED <<x1, x5, x7, x8, x9, x10>>
  PROVE  MutexInv'
  <1> USE DEF MutexInv
  <1>1. /\ x3 < MaxMutex /\ x3' = x3 + 1
        /\ x2' = [x2 EXCEPT ![PlaceOf(r)] = x3 + 1]
        /\ x6' = [x6 EXCEPT ![x3 + 1] = x5]
        /\ x12' = [x12 EXCEPT ![r] = x3 + 1]
        /\ x11' = [x11 EXCEPT ![r] = "lock"] /\ x4' = x4
    BY DEF H!Make, H!GoTo, PlaceOf
  <1>2. PlaceOf(r) \in H!Key
    BY PlaceIsKey DEF PlaceOf, H!TypeOK
  <1>3. x3 \in Nat /\ MaxMutex \in Nat /\ x3 + 1 \in 1..MaxMutex /\ x5 \in Nat
    BY <1>1, UimAssumption DEF H!TypeOK
  <1>4. H!TypeOK'
    <2>1. x3' \in 0..MaxMutex /\ x5' \in 0..MaxChannelStops
      BY <1>1, <1>3 DEF H!TypeOK
    <2>2. x2' \in [H!Key -> 0..MaxMutex] /\ x12' \in [UimRequests -> 0..MaxMutex]
      <3>1. x3 + 1 \in 0..MaxMutex
        BY <1>3
      <3>2. x2 \in [H!Key -> 0..MaxMutex] /\ x12 \in [UimRequests -> 0..MaxMutex]
        BY DEF H!TypeOK
      <3>3. x2' \in [H!Key -> 0..MaxMutex]
        BY ONLY <1>1, <3>1, <3>2
      <3> QED  BY <1>1, <3>1, <3>2, <3>3
    <2>3. x6' \in [H!Mutex -> 0..MaxChannelStops]
      BY <1>1, <1>3 DEF H!TypeOK, H!Mutex
    <2>4. x11' \in [UimRequests -> {"idle", "look", "create", "lock", "locked", "card"}]
      BY <1>1 DEF H!TypeOK
    <2>5. {x1', x7'} \subseteq BOOLEAN /\ x4' \in [H!Mutex -> UimRequests \cup {NoOne}]
          /\ x8' \subseteq UimChannels /\ x9' \subseteq UimChannels
          /\ x10' \in [UimRequests -> H!Exchanges]
      BY <1>1 DEF H!TypeOK
    <2> QED  BY <2>1, <2>2, <2>3, <2>4, <2>5 DEF H!TypeOK
  <1>5. \A s \in UimRequests : PlaceOf(s)' = PlaceOf(s)
    BY DEF PlaceOf
  <1>6. x12'[r] = x3 + 1 /\ x11'[r] = "lock"
    BY <1>1 DEF H!TypeOK
  <1>7. \A s \in UimRequests : s # r =>
          x11'[s] = x11[s] /\ x12'[s] = x12[s] /\ Asked(s)' = Asked(s)
    BY <1>1 DEF Asked, H!TypeOK
  <1>8. x6'[x3 + 1] = x5 /\ \A m \in 1..x3 : x6'[m] = x6[m]
    BY <1>1, <1>3 DEF H!TypeOK, H!Mutex
  <1>9. /\ x2'[PlaceOf(r)] = x3 + 1
        /\ \A k \in H!Key : k # PlaceOf(r) => x2'[k] = x2[k]
    BY <1>1, <1>2 DEF H!TypeOK
  <1>10. \A s \in UimRequests :
            s # r /\ Asked(s) /\ PlaceOf(s) = PlaceOf(r) => x6[x12[s]] # x5
    <2>1. SUFFICES ASSUME NEW s \in UimRequests, Asked(s), PlaceOf(s) = PlaceOf(r),
                          x6[x12[s]] = x5
                   PROVE  FALSE
      OBVIOUS
    <2>2. x12[s] = 0
      BY <2>1
    <2>3. x12[s] \in 1..x3
      BY <2>1
    <2> QED  BY <2>2, <2>3, <1>3
  <1>11. \A s \in UimRequests : x11'[s] \in {"locked", "card"} => x4'[x12'[s]] = s
    BY <1>1, <1>6, <1>7
  <1>12. \A s \in UimRequests : Asked(s)' => x12'[s] \in 1..x3'
    BY <1>1, <1>3, <1>6, <1>7
  <1>13. \A m \in 1..x3' : x6'[m] <= x5'
    BY <1>1, <1>3, <1>8
  <1>14. \A k \in H!Key : x2'[k] # 0 => x2'[k] \in 1..x3' /\ x6'[x2'[k]] = x5'
    BY <1>1, <1>3, <1>8, <1>9
  <1>15. \A s \in UimRequests :
            Asked(s)' /\ x6'[x12'[s]] = x5' => x2'[PlaceOf(s)'] = x12'[s]
    <2>1. SUFFICES ASSUME NEW s \in UimRequests, s # r, Asked(s), x6'[x12[s]] = x5
                   PROVE  x2'[PlaceOf(s)] = x12[s]
      BY <1>5, <1>6, <1>7, <1>9
    <2>2. x6[x12[s]] = x5
      BY <2>1, <1>8
    <2>3. PlaceOf(s) \in H!Key
      BY PlaceIsKey DEF PlaceOf, H!TypeOK
    <2> QED  BY <2>1, <2>2, <2>3, <1>9, <1>10
  <1>16. \A s, t \in UimRequests :
            /\ Asked(s)' /\ Asked(t)' /\ PlaceOf(s)' = PlaceOf(t)'
            /\ x6'[x12'[s]] = x6'[x12'[t]]
            => x12'[s] = x12'[t]
    <2>1. SUFFICES ASSUME NEW s \in UimRequests, NEW t \in UimRequests,
                          Asked(s)', Asked(t)', PlaceOf(s) = PlaceOf(t),
                          x6'[x12'[s]] = x6'[x12'[t]]
                   PROVE  x12'[s] = x12'[t]
      BY <1>5
    <2>2. \A v \in UimRequests : v # r /\ Asked(v) =>
            x12'[v] = x12[v] /\ x6'[x12'[v]] = x6[x12[v]]
      BY <1>7, <1>8
    <2>3. x6'[x12'[r]] = x5
      BY <1>6, <1>8
    <2>4. CASE s # r /\ t # r
      BY <2>1, <2>2, <2>4, <1>7
    <2>5. CASE s = r /\ t # r
      BY <2>1, <2>2, <2>3, <2>5, <1>7, <1>10
    <2>6. CASE s # r /\ t = r
      BY <2>1, <2>2, <2>3, <2>6, <1>7, <1>10
    <2> QED  BY <2>4, <2>5, <2>6
  <1> QED  BY <1>4, <1>11, <1>12, <1>13, <1>14, <1>15, <1>16

LEMMA MutexNext ==
  ASSUME MutexInv, H!Next  PROVE MutexInv'
  <1> USE DEF MutexInv
  <1>1. ASSUME NEW r \in UimRequests, NEW c \in H!Exchanges, H!Begin(r, c)
        PROVE  MutexInv'
    <2>1. x8' \subseteq UimChannels
      BY <1>1 DEF H!Begin, H!TypeOK
    <2>2. H!TypeOK'
      BY <1>1, <2>1 DEF H!Begin, H!TypeOK, H!GoTo, H!mutexes, H!service
    <2>3. UNCHANGED <<x2, x3, x4, x5, x6, x12>>
      BY <1>1 DEF H!Begin, H!mutexes, H!service
    <2>4. \A s \in UimRequests :
            (x11'[s] = "card") = (x11[s] = "card") /\ (x11'[s] = "locked") = (x11[s] = "locked")
            /\ Asked(s)' = Asked(s)
      BY <1>1 DEF H!Begin, H!TypeOK, H!GoTo, Asked
    <2>5. \A s \in UimRequests : Asked(s) => PlaceOf(s)' = PlaceOf(s)
      BY <1>1 DEF H!Begin, H!TypeOK, Asked, PlaceOf
    <2> QED  BY <2>2, <2>3, <2>4, <2>5
  <1>2. ASSUME NEW r \in UimRequests, H!Look(r)  PROVE MutexInv'
    <2>1. x12' = [x12 EXCEPT ![r] = x2[PlaceOf(r)]] /\ x12'[r] = x2[PlaceOf(r)]
      BY <1>2 DEF H!Look, PlaceOf, H!TypeOK
    <2>2. CASE x12'[r] = 0
      <3>1. H!GoTo(r, "create") /\ x11[r] = "look"
        BY <1>2, <2>2 DEF H!Look
      <3>2. UNCHANGED <<x1, x2, x3, x4, x5, x6, x7, x8, x9, x10>>
        BY <1>2 DEF H!Look, H!mutexes, H!service
      <3>3. PlaceOf(r) \in H!Key
        BY PlaceIsKey DEF PlaceOf, H!TypeOK
      <3>4. H!TypeOK'
        BY <2>1, <3>1, <3>2, <3>3 DEF H!TypeOK, H!GoTo
      <3>5. ~Asked(r)' /\ ~Asked(r)
        BY <3>1 DEF Asked, H!GoTo, H!TypeOK
      <3>6. \A s \in UimRequests : PlaceOf(s)' = PlaceOf(s)
        BY <3>2 DEF PlaceOf
      <3>7. \A s \in UimRequests : s # r =>
              x11'[s] = x11[s] /\ x12'[s] = x12[s] /\ Asked(s)' = Asked(s)
        BY <2>1, <3>1 DEF Asked, H!GoTo, H!TypeOK
      <3>8. x11'[r] = "create"
        BY <3>1 DEF H!GoTo, H!TypeOK
      <3> QED  BY <3>2, <3>4, <3>5, <3>6, <3>7, <3>8
    <2>3. CASE x12'[r] # 0
      <3>1. H!GoTo(r, "lock") /\ x11[r] = "look"
        BY <1>2, <2>3 DEF H!Look
      <3>2. UNCHANGED <<x1, x2, x3, x4, x5, x6, x7, x8, x9, x10>>
        BY <1>2 DEF H!Look, H!mutexes, H!service
      <3> QED  BY <2>1, <2>3, <3>1, <3>2, MutexFound
    <2> QED  BY <2>2, <2>3
  <1>3. ASSUME NEW r \in UimRequests, H!Create(r)  PROVE MutexInv'
    <2>1. x11[r] = "create" /\ H!GoTo(r, "lock") /\ UNCHANGED <<x1, x5, x7, x8, x9, x10>>
      BY <1>3 DEF H!Create, H!service
    <2>2. CASE x2[PlaceOf(r)] = 0 /\ H!Make(r)
      BY <2>1, <2>2, MutexMade
    <2>3. CASE x2[PlaceOf(r)] # 0 /\ x12' = [x12 EXCEPT ![r] = x2[PlaceOf(r)]]
               /\ UNCHANGED H!mutexes
      <3>1. UNCHANGED <<x2, x3, x4, x6>>
        BY <2>3 DEF H!mutexes
      <3> QED  BY <2>1, <2>3, <3>1, MutexFound
    <2> QED  BY <1>3, <2>2, <2>3 DEF H!Create, PlaceOf
  <1>4. ASSUME NEW r \in UimRequests, H!Lock(r)  PROVE MutexInv'
    <2>1. /\ x11[r] = "lock" /\ x4[x12[r]] = NoOne
          /\ x4' = [x4 EXCEPT ![x12[r]] = r] /\ x11' = [x11 EXCEPT ![r] = "locked"]
          /\ UNCHANGED <<x1, x2, x3, x5, x6, x7, x8, x9, x10, x12>>
      BY <1>4 DEF H!Lock, H!GoTo, H!service
    <2>2. x12[r] \in 1..x3 /\ x3 \in 0..MaxMutex /\ MaxMutex \in Nat
      BY <2>1, UimAssumption DEF Asked, H!TypeOK
    <2>3. x12[r] \in H!Mutex
      BY <2>2 DEF H!Mutex
    <2>4. H!TypeOK'
      BY <2>1, <2>3 DEF H!TypeOK
    <2>5. \A s \in UimRequests : Asked(s)' = Asked(s) /\ PlaceOf(s)' = PlaceOf(s)
      BY <2>1 DEF Asked, PlaceOf, H!TypeOK
    <2>6. ASSUME NEW s \in UimRequests, x11'[s] \in {"locked", "card"}
          PROVE  x4'[x12'[s]] = s
      <3>1. CASE s = r
        BY <3>1, <2>1, <2>3 DEF H!TypeOK
      <3>2. CASE s # r
        <4>1. x11[s] \in {"locked", "card"}
          BY <3>2, <2>1, <2>6 DEF H!TypeOK
        <4>2. x4[x12[s]] = s /\ x12[s] # x12[r]
          BY <4>1, <2>1, UimAssumption
        <4>3. x12[s] \in 1..x3
          BY <4>1 DEF Asked
        <4> QED  BY <4>2, <4>3, <2>1, <2>2 DEF H!TypeOK, H!Mutex
      <3> QED  BY <3>1, <3>2
    <2> QED  BY <2>1, <2>4, <2>5, <2>6
  <1>5. ASSUME NEW r \in UimRequests, H!Exchange(r)  PROVE MutexInv'
    <2>1. x11[r] = "locked" /\ UNCHANGED <<x1, x5, x7, x8, x9>>
      BY <1>5 DEF H!Exchange, H!service
    <2>2. CASE H!GoTo(r, "card") /\ UNCHANGED <<H!mutexes, x10, x12>>
      <3>1. x11' = [x11 EXCEPT ![r] = "card"] /\ UNCHANGED <<x2, x3, x4, x6, x10, x12>>
        BY <2>2 DEF H!GoTo, H!mutexes
      <3>2. H!TypeOK'
        BY <2>1, <3>1 DEF H!TypeOK
      <3>3. \A s \in UimRequests :
              /\ x11'[s] \in {"locked", "card"} => x11[s] \in {"locked", "card"}
              /\ Asked(s)' = Asked(s) /\ PlaceOf(s)' = PlaceOf(s)
        BY <2>1, <3>1 DEF Asked, PlaceOf, H!TypeOK
      <3> QED  BY <2>1, <3>1, <3>2, <3>3
    <2>3. CASE H!Unlock(r)
      <3>1. x1' \in BOOLEAN /\ x7' \in BOOLEAN /\ x8' \subseteq UimChannels
            /\ x9' \subseteq UimChannels
        BY <2>1 DEF H!TypeOK
      <3> QED  BY <2>1, <2>3, <3>1, MutexUnlock
    <2> QED  BY <1>5, <2>2, <2>3 DEF H!Exchange
  <1>6. ASSUME NEW r \in UimRequests, H!Opened(r) \/ H!Closed(r) \/ H!Ended(r)
        PROVE  MutexInv'
    <2>1. x11[r] = "card" /\ H!Unlock(r) /\ UNCHANGED <<x1, x7, x5>>
      BY <1>6 DEF H!Opened, H!Closed, H!Ended, H!service
    <2>2. x8' \subseteq UimChannels /\ x9' \subseteq UimChannels
      BY <1>6 DEF H!Opened, H!Closed, H!Ended, H!TypeOK
    <2>3. x1' \in BOOLEAN /\ x7' \in BOOLEAN
      BY <2>1 DEF H!TypeOK
    <2> QED  BY <2>1, <2>2, <2>3, MutexUnlock
  <1>7. CASE H!CardResets \/ H!Start \/ H!StopEnds
    <2>1. UNCHANGED <<x2, x3, x4, x5, x6, x8, x10, x11, x12>>
      BY <1>7 DEF H!CardResets, H!Start, H!StopEnds, H!mutexes, H!service
    <2>2. x1' \in BOOLEAN /\ x7' \in BOOLEAN /\ x9' \subseteq UimChannels
      BY <1>7 DEF H!CardResets, H!Start, H!StopEnds, H!service, H!TypeOK
    <2>3. H!TypeOK'
      BY <2>1, <2>2 DEF H!TypeOK
    <2>4. \A s \in UimRequests : Asked(s)' = Asked(s) /\ PlaceOf(s)' = PlaceOf(s)
      BY <2>1 DEF Asked, PlaceOf
    <2> QED  BY <2>1, <2>3, <2>4
  <1>8. CASE H!StopForgets
    <2>1. /\ x5 < MaxChannelStops /\ x5' = x5 + 1 /\ x2' = [k \in H!Key |-> 0]
          /\ x7' = TRUE /\ x8' = {}
          /\ UNCHANGED <<x1, x3, x4, x6, x9, x10, x11, x12>>
      BY <1>8 DEF H!StopForgets
    <2>2. H!TypeOK'
      BY <2>1, UimAssumption DEF H!TypeOK
    <2>3. \A s \in UimRequests : Asked(s)' = Asked(s) /\ PlaceOf(s)' = PlaceOf(s)
      BY <2>1 DEF Asked, PlaceOf
    <2>4. x3 \in 0..MaxMutex /\ x5 \in Nat /\ MaxMutex \in Nat
          /\ \A m \in 1..x3 : x6[m] \in Nat
      BY UimAssumption DEF H!TypeOK, H!Mutex
    <2>5. \A m \in 1..x3 : x6'[m] < x5'
      BY <2>1, <2>4
    <2> QED  BY <2>1, <2>2, <2>3, <2>4, <2>5
  <1> QED
    BY <1>1, <1>2, <1>3, <1>4, <1>5, <1>6, <1>7, <1>8 DEF H!Next

-----------------------------------------------------------------------------
(* The channels opened by AT commands, and the basic channel *)

Given == {"answered", "open", "closing"}

\* Until something took it away, the channel a caller was given is open on the
\* card for that caller, and registered as its own while the caller uses it.
SessionInv ==
    /\ x1 \in [1..LastChannel -> L!Caller \cup {L!Closed}]
    /\ x2 \in [1..LastChannel -> {"esim", "sim_aka", L!Closed}]
    /\ x3 \in [L!Caller -> {"idle", "opening"} \cup Given]
    /\ x4 \in [L!Caller -> 1..LastChannel \cup {0}]
    /\ x5 \in 1..LastChannel \cup {0}
    /\ x6 \subseteq L!Caller /\ x7 \subseteq 1..LastChannel
    /\ x11 \in 0..MaxDisturbances
    /\ \A u \in L!Caller : x4[u] # 0 <=> x3[u] \in Given
    /\ \A u \in L!Caller \ x6 : x3[u] \in Given => x1[x4[u]] = u
    /\ \A u \in L!Caller \ x6 : x3[u] = "open" => x2[x4[u]] = L!Owner(u)
    /\ L!NoneIsLost

Exchanging == [at : {"hex", "byte"}, fetch : BOOLEAN, left : 0..L!FollowUps]

\* With an arbiter one caller at a time is in an exchange on the basic channel.
BasicInv ==
    /\ x8 \in BOOLEAN
    /\ x9 \in [L!Caller -> {L!Quiet} \cup Exchanging]
    /\ x10 \in L!Caller \cup {L!NoCaller}
    /\ x8 => \A u, v \in L!Caller : x9[u] # L!Quiet /\ x9[v] # L!Quiet => u = v
    /\ L!FetchesItsOwn

LEMMA ChannelsInit ==
  ASSUME L!Init  PROVE SessionInv /\ BasicInv
  <1>1. SessionInv
    BY AtAssumption DEF L!Init, SessionInv, Given, L!NoneIsLost
  <1>2. BasicInv
    BY DEF L!Init, BasicInv, L!FetchesItsOwn
  <1> QED  BY <1>1, <1>2

LEMMA ChannelsKept ==
  ASSUME SessionInv, BasicInv  PROVE L!TypeOK /\ L!ChannelsAreKept
  <1>1. \A u \in L!Caller :
          \/ x9[u] = L!Quiet
          \/ x9[u].at \in {"hex", "byte"} /\ x9[u].left <= L!FollowUps
    BY DEF BasicInv, Exchanging, L!FollowUps
  <1>2. L!TypeOK
    BY <1>1 DEF L!TypeOK, SessionInv, BasicInv, Given
  <1>3. L!ReachesItsOwn
    <2>1. SUFFICES ASSUME NEW u \in L!Caller \ x6, x3[u] = "open"
                   PROVE  x1[x4[u]] = u /\ L!Class(u) = L!Owner(u)
      BY DEF L!ReachesItsOwn, L!Reached
    <2>2. x1[x4[u]] = u /\ x2[x4[u]] = L!Owner(u)
      BY <2>1 DEF SessionInv, Given
    <2> QED  BY <2>2 DEF L!Class, L!Owner, L!Closed
  <1> QED  BY <1>2, <1>3 DEF L!ChannelsAreKept, SessionInv, BasicInv

LEMMA ClosedIsNobody == L!Closed \notin L!Caller
  BY AtAssumption DEF L!Closed, L!Caller

LEMMA LastIsLast == L!Last = LastChannel
  <1>1. LastChannel \in 1..LastChannel /\ \A d \in 1..LastChannel : d <= LastChannel
    BY AtAssumption
  <1>2. L!Last \in 1..LastChannel /\ \A d \in 1..LastChannel : d <= L!Last
    BY <1>1 DEF L!Last
  <1> QED  BY <1>1, <1>2, AtAssumption

\* A caller that has come by no channel, or has done with its own.
LEMMA SessionMoves ==
  ASSUME SessionInv, NEW u \in L!Caller, x4[u] = 0,
         NEW place \in {"idle", "opening"}, x3' = [x3 EXCEPT ![u] = place],
         x7 \subseteq x7', x7' \subseteq 1..LastChannel,
         \E d \in SUBSET x7' :
            /\ x1' \in [1..LastChannel -> L!Caller \cup {L!Closed}]
            /\ \A c \in 1..LastChannel \ d : x1'[c] = x1[c]
            /\ \A c \in d : x1[c] = L!Closed,
         UNCHANGED <<x2, x4, x5, x6, x11>>
  PROVE  SessionInv'
  <1> USE DEF SessionInv
  <1>1. PICK d \in SUBSET x7' :
            /\ x1' \in [1..LastChannel -> L!Caller \cup {L!Closed}]
            /\ \A c \in 1..LastChannel \ d : x1'[c] = x1[c]
            /\ \A c \in d : x1[c] = L!Closed
    OBVIOUS
  <1>2. x3' \in [L!Caller -> {"idle", "opening"} \cup Given]
    OBVIOUS
  <1>3. \A v \in L!Caller : (x3'[v] \in Given) = (x3[v] \in Given)
          /\ (x3'[v] = "open") = (x3[v] = "open")
    BY DEF Given
  <1>4. \A v \in L!Caller \ x6 : x3[v] \in Given => x1'[x4[v]] = v
    <2>1. SUFFICES ASSUME NEW v \in L!Caller \ x6, x3[v] \in Given
                   PROVE  x1'[x4[v]] = v
      OBVIOUS
    <2>2. x4[v] \in 1..LastChannel /\ x1[x4[v]] = v
      BY <2>1
    <2>3. x4[v] \notin d
      BY <1>1, <2>2, ClosedIsNobody
    <2> QED  BY <1>1, <2>2, <2>3
  <1>5. L!NoneIsLost'
    BY <1>1 DEF L!NoneIsLost, L!HoldersOf
  <1> QED  BY <1>1, <1>2, <1>3, <1>4, <1>5

LEMMA SessionNext ==
  ASSUME SessionInv, L!Next  PROVE SessionInv'
  <1> USE DEF SessionInv
  <1>1. ASSUME NEW u \in L!Caller, L!Open(u) \/ L!OpenFails(u)  PROVE SessionInv'
    <2>1. x4[u] = 0 /\ UNCHANGED <<x1, x2, x4, x5, x6, x7, x11>>
      BY <1>1 DEF L!Open, L!OpenFails, Given
    <2>2. PICK place \in {"idle", "opening"} : x3' = [x3 EXCEPT ![u] = place]
      BY <1>1 DEF L!Open, L!OpenFails, L!Goes
    <2>3. {} \in SUBSET x7' /\ \A c \in 1..LastChannel \ {} : x1'[c] = x1[c]
      BY <2>1
    <2> QED  BY <2>1, <2>2, <2>3, SessionMoves
  <1>2. ASSUME NEW u \in L!Caller, NEW c \in 1..LastChannel, L!Opened(u, c)
        PROVE  SessionInv'
    <2>1. /\ x3[u] = "opening" /\ x1[c] = L!Closed /\ x1' = [x1 EXCEPT ![c] = u]
          /\ x4[u] = 0 /\ UNCHANGED <<x2, x5, x11>>
      BY <1>2 DEF L!Opened, Given
    <2>2. CASE /\ x3' = [x3 EXCEPT ![u] = "answered"] /\ x4' = [x4 EXCEPT ![u] = c]
               /\ x6' = x6 \ {u} /\ x7' = x7
      <3>1. x3' \in [L!Caller -> {"idle", "opening"} \cup Given]
            /\ x4' \in [L!Caller -> 1..LastChannel \cup {0}]
            /\ x1' \in [1..LastChannel -> L!Caller \cup {L!Closed}]
        BY <2>1, <2>2 DEF Given
      <3>2. x3'[u] = "answered" /\ x4'[u] = c /\ c # 0 /\ x1'[c] = u
        BY <2>1, <2>2, AtAssumption
      <3>3. \A v \in L!Caller : v # u => x3'[v] = x3[v] /\ x4'[v] = x4[v]
        BY <2>2
      <3>4. \A v \in L!Caller : x4'[v] # 0 <=> x3'[v] \in Given
        BY <3>2, <3>3 DEF Given
      <3>5. \A v \in L!Caller \ x6 : x3[v] \in Given => x4[v] # c
        BY <2>1, ClosedIsNobody
      <3>6. \A v \in L!Caller \ x6' : x3'[v] \in Given => x1'[x4'[v]] = v
        BY <2>1, <2>2, <3>2, <3>3, <3>5
      <3>7. \A v \in L!Caller \ x6' : x3'[v] = "open" => x2'[x4'[v]] = L!Owner(v)
        BY <2>1, <2>2, <3>2, <3>3
      <3>8. L!NoneIsLost'
        BY <2>1, <2>2, <3>2, <3>3, AtAssumption DEF L!NoneIsLost, L!HoldersOf
      <3> QED  BY <2>1, <2>2, <3>1, <3>4, <3>6, <3>7, <3>8
    <2>3. CASE x3' = [x3 EXCEPT ![u] = "idle"] /\ x7' = x7 \cup {c} /\ UNCHANGED <<x4, x6>>
      <3>1. {c} \in SUBSET x7' /\ x1' \in [1..LastChannel -> L!Caller \cup {L!Closed}]
            /\ (\A d \in 1..LastChannel \ {c} : x1'[d] = x1[d])
            /\ (\A d \in {c} : x1[d] = L!Closed)
        BY <2>1, <2>3
      <3>2. x7 \subseteq x7' /\ x7' \subseteq 1..LastChannel
        BY <2>3
      <3>3. UNCHANGED <<x2, x4, x5, x6, x11>>
        BY <2>1, <2>3
      <3> QED  BY <2>1, <2>3, <3>1, <3>2, <3>3, SessionMoves
    <2> QED  BY <1>2, <2>2, <2>3 DEF L!Opened, L!Goes
  <1>3. ASSUME NEW u \in L!Caller, L!Bind(u) \/ L!Close(u)  PROVE SessionInv'
    <2>1. x3[u] \in {"answered", "open"} /\ x4[u] \in 1..LastChannel
          /\ UNCHANGED <<x1, x4, x5, x7, x11>>
      BY <1>3 DEF L!Bind, L!Close, Given
    <2>2. PICK place \in {"open", "closing"}, b \in {"esim", "sim_aka", L!Closed} :
             /\ x3' = [x3 EXCEPT ![u] = place] /\ x2' = [x2 EXCEPT ![x4[u]] = b]
             /\ place = "open" => b = L!Owner(u)
      BY <1>3 DEF L!Bind, L!Close, L!Goes, L!Owner
    <2>3. x6' = x6 \cup {v \in L!Caller : x4[v] = x4[u] /\ u \in x6}
      BY <1>3 DEF L!Bind, L!Close, L!Spreads, L!HoldersOf
    <2>4. x3' \in [L!Caller -> {"idle", "opening"} \cup Given]
          /\ x2' \in [1..LastChannel -> {"esim", "sim_aka", L!Closed}]
          /\ x6' \subseteq L!Caller
      BY <2>1, <2>2, <2>3 DEF Given
    <2>5. \A v \in L!Caller : (x3'[v] \in Given) = (x3[v] \in Given)
      BY <2>1, <2>2 DEF Given
    <2>6. \A v \in L!Caller \ x6' : x3[v] \in Given => x1[x4[v]] = v
      BY <2>3
    <2>7. \A v \in L!Caller \ x6' : v # u /\ x3[v] \in Given => x4[v] # x4[u]
      BY <2>1, <2>3, <2>6 DEF Given
    <2>8. \A v \in L!Caller \ x6' : x3'[v] = "open" => x2'[x4[v]] = L!Owner(v)
      <3>1. SUFFICES ASSUME NEW v \in L!Caller \ x6', x3'[v] = "open"
                     PROVE  x2'[x4[v]] = L!Owner(v)
        OBVIOUS
      <3>2. CASE v = u
        BY <3>1, <3>2, <2>1, <2>2
      <3>3. CASE v # u
        <4>1. x3[v] = "open" /\ x4[v] \in 1..LastChannel /\ v \notin x6
          BY <3>1, <3>3, <2>2, <2>3 DEF Given
        <4>2. x4[v] # x4[u]
          BY <3>1, <3>3, <4>1, <2>7 DEF Given
        <4> QED  BY <4>1, <4>2, <2>2
      <3> QED  BY <3>2, <3>3
    <2>9. L!NoneIsLost'
      BY <2>1 DEF L!NoneIsLost, L!HoldersOf
    <2> QED  BY <2>1, <2>4, <2>5, <2>6, <2>8, <2>9
  <1>4. ASSUME NEW u \in L!Caller, L!Closes(u) \/ L!CloseFails(u)  PROVE SessionInv'
    <2>1. /\ x3[u] = "closing" /\ x4[u] \in 1..LastChannel
          /\ x3' = [x3 EXCEPT ![u] = "idle"] /\ x4' = [x4 EXCEPT ![u] = 0]
          /\ UNCHANGED <<x2, x5, x11>>
      BY <1>4 DEF L!Closes, L!CloseFails, L!Forgets, L!Goes, Given
    <2>2. x3' \in [L!Caller -> {"idle", "opening"} \cup Given]
          /\ x4' \in [L!Caller -> 1..LastChannel \cup {0}]
      BY <2>1
    <2>3. x3'[u] = "idle" /\ x4'[u] = 0 /\ \A v \in L!Caller : v # u =>
            x3'[v] = x3[v] /\ x4'[v] = x4[v]
      BY <2>1
    <2>4. \A v \in L!Caller : x4'[v] # 0 <=> x3'[v] \in Given
      BY <2>3 DEF Given
    <2>5. CASE L!Shuts(x4[u], {u})
      <3>1. /\ x1' = [x1 EXCEPT ![x4[u]] = L!Closed] /\ x7' = x7 \ {x4[u]}
            /\ x6' = x6 \cup ({v \in L!Caller : x4[v] = x4[u]} \ {u})
        BY <2>5 DEF L!Shuts, L!HoldersOf
      <3>2. x1' \in [1..LastChannel -> L!Caller \cup {L!Closed}] /\ x6' \subseteq L!Caller
            /\ x7' \subseteq 1..LastChannel
        BY <3>1
      <3>3. \A v \in L!Caller \ x6' : x3'[v] \in Given => x1'[x4'[v]] = v
        BY <2>3, <3>1 DEF Given
      <3>4. \A v \in L!Caller \ x6' : x3'[v] = "open" => x2'[x4'[v]] = L!Owner(v)
        BY <2>1, <2>3, <3>1
      <3>5. ASSUME NEW c \in 1..LastChannel, x1'[c] # L!Closed
            PROVE  (\E v \in L!Caller : x4'[v] = c) \/ c \in x7'
        <4>1. c # x4[u] /\ x1[c] # L!Closed
          BY <3>1, <3>5, <2>1
        <4>2. (\E v \in L!Caller : x4[v] = c) \/ c \in x7
          BY <4>1 DEF L!NoneIsLost, L!HoldersOf
        <4> QED  BY <4>1, <4>2, <2>3, <3>1
      <3>6. L!NoneIsLost'
        BY <3>5 DEF L!NoneIsLost, L!HoldersOf
      <3> QED  BY <2>1, <2>2, <2>4, <3>2, <3>3, <3>4, <3>6
    <2>6. CASE x7' = x7 \cup {c \in {x4[u]} : x1[c] # L!Closed} /\ UNCHANGED <<x1, x6>>
      <3>1. x7' \subseteq 1..LastChannel
        BY <2>6, <2>1
      <3>2. \A v \in L!Caller \ x6' :
               /\ x3'[v] \in Given => x1'[x4'[v]] = v
               /\ x3'[v] = "open" => x2'[x4'[v]] = L!Owner(v)
        BY <2>1, <2>3, <2>6 DEF Given
      <3>3. ASSUME NEW c \in 1..LastChannel, x1'[c] # L!Closed
            PROVE  (\E v \in L!Caller : x4'[v] = c) \/ c \in x7'
        <4>1. (\E v \in L!Caller : x4[v] = c) \/ c \in x7
          BY <2>6, <3>3 DEF L!NoneIsLost, L!HoldersOf
        <4> QED  BY <4>1, <2>3, <2>6, <3>3
      <3>4. L!NoneIsLost'
        BY <3>3 DEF L!NoneIsLost, L!HoldersOf
      <3> QED  BY <2>1, <2>2, <2>4, <2>6, <3>1, <3>2, <3>4
    <2> QED  BY <1>4, <2>5, <2>6 DEF L!Closes, L!CloseFails
  <1>5. CASE L!ClearBegins
    <2>1. /\ x11' = x11 + 1 /\ x11 < MaxDisturbances /\ x5' = 1
          /\ x2' = [x2 EXCEPT ![1] = L!Closed]
          /\ x6' = x6 \cup {u \in L!Caller : x4[u] = 1} /\ UNCHANGED <<x1, x3, x4, x7>>
      BY <1>5 DEF L!ClearBegins, L!HoldersOf
    <2>2. 1 \in 1..LastChannel /\ x11' \in 0..MaxDisturbances
      BY <2>1, AtAssumption
    <2>3. \A u \in L!Caller \ x6' : x3'[u] = "open" => x2'[x4'[u]] = L!Owner(u)
      BY <2>1, <2>2 DEF Given
    <2>4. L!NoneIsLost'
      BY <2>1 DEF L!NoneIsLost, L!HoldersOf
    <2>5. x2' \in [1..LastChannel -> {"esim", "sim_aka", L!Closed}] /\ x6' \subseteq L!Caller
      BY <2>1
    <2> QED  BY <2>1, <2>2, <2>3, <2>4, <2>5
  <1>6. CASE L!ClearGoes
    <2> DEFINE next == IF x5 = L!Last THEN 0 ELSE x5 + 1
    <2>1. PICK shut \in BOOLEAN :
             /\ x1' = [x1 EXCEPT ![x5] = IF shut THEN L!Closed ELSE @]
             /\ x7' = IF shut THEN x7 \ {x5} ELSE x7
             /\ x6' = x6 \cup L!HoldersOf(next) \cup (IF shut THEN L!HoldersOf(x5) ELSE {})
      BY <1>6 DEF L!ClearGoes
    <2>2. /\ x5 \in 1..LastChannel /\ x5' = next
          /\ x2' = [c \in 1..LastChannel |-> IF c = next THEN L!Closed ELSE x2[c]]
          /\ UNCHANGED <<x3, x4, x11>>
      BY <1>6 DEF L!ClearGoes
    <2>3. next \in 1..LastChannel \cup {0}
      BY <2>2, LastIsLast, AtAssumption
    <2> HIDE DEF next
    <2>4. x6 \subseteq x6' /\ x6' \subseteq L!Caller
          /\ \A u \in L!Caller \ x6' : x4[u] # next /\ (shut => x4[u] # x5)
      BY <2>1 DEF L!HoldersOf
    <2>5. \A u \in L!Caller \ x6' : x3'[u] = "open" => x2'[x4'[u]] = L!Owner(u)
      <3>1. SUFFICES ASSUME NEW u \in L!Caller \ x6', x3[u] = "open"
                     PROVE  x2'[x4[u]] = L!Owner(u)
        BY <2>2
      <3>2. x4[u] \in 1..LastChannel /\ x4[u] # next /\ x2[x4[u]] = L!Owner(u)
        BY <3>1, <2>4 DEF Given
      <3> QED  BY <3>2, <2>2
    <2>6. \A u \in L!Caller \ x6' : x3'[u] \in Given => x1'[x4'[u]] = u
      <3>1. SUFFICES ASSUME NEW u \in L!Caller \ x6', x3[u] \in Given
                     PROVE  x1'[x4[u]] = u
        BY <2>2
      <3>2. x4[u] \in 1..LastChannel /\ (shut => x4[u] # x5) /\ x1[x4[u]] = u
        BY <3>1, <2>4
      <3> QED  BY <3>2, <2>1, <2>2
    <2>7. \A c \in 1..LastChannel :
             x1'[c] # L!Closed => x1[c] # L!Closed /\ (c \in x7 => c \in x7')
      BY <2>1, <2>2
    <2>8. L!NoneIsLost'
      BY <2>2, <2>7 DEF L!NoneIsLost, L!HoldersOf
    <2>9. /\ x1' \in [1..LastChannel -> L!Caller \cup {L!Closed}] /\ x7' \subseteq 1..LastChannel
          /\ x2' \in [1..LastChannel -> {"esim", "sim_aka", L!Closed}]
      BY <2>1, <2>2
    <2> QED  BY <2>2, <2>3, <2>4, <2>5, <2>6, <2>8, <2>9
  <1>7. CASE L!Disturbs
    <2>1. /\ x11' = x11 + 1 /\ x11 < MaxDisturbances /\ UNCHANGED <<x3, x4, x5>>
          /\ x6' = {u \in L!Caller : x3[u] # "idle"}
          /\ \/ x1' = [c \in 1..LastChannel |-> L!Closed] /\ x7' = {} /\ x2' = x2
             \/ x2' = [c \in 1..LastChannel |-> L!Closed] /\ UNCHANGED <<x1, x7>>
      BY <1>7 DEF L!Disturbs
    <2>2. \A u \in L!Caller \ x6' : x3'[u] = "idle"
      BY <2>1
    <2>3. L!NoneIsLost'
      BY <2>1 DEF L!NoneIsLost, L!HoldersOf
    <2>4. x11' \in 0..MaxDisturbances /\ x6' \subseteq L!Caller
      BY <2>1, AtAssumption
    <2>5. /\ x1' \in [1..LastChannel -> L!Caller \cup {L!Closed}] /\ x7' \subseteq 1..LastChannel
          /\ x2' \in [1..LastChannel -> {"esim", "sim_aka", L!Closed}]
      BY <2>1
    <2> QED  BY <2>1, <2>2, <2>3, <2>4, <2>5 DEF Given
  <1>8. ASSUME NEW u \in L!Caller, L!Basic(u) \/ L!Send(u)  PROVE SessionInv'
    <2>1. UNCHANGED <<x1, x2, x3, x4, x5, x6, x7, x11>>
      BY <1>8 DEF L!Basic, L!Send, L!channelVars
    <2> QED  BY <2>1 DEF L!NoneIsLost, L!HoldersOf
  <1> QED
    BY <1>1, <1>2, <1>3, <1>4, <1>5, <1>6, <1>7, <1>8 DEF L!Next

LEMMA BasicNext ==
  ASSUME BasicInv, L!Next  PROVE BasicInv'
  <1> USE DEF BasicInv, L!FetchesItsOwn
  <1>1. ASSUME UNCHANGED <<x8, x9>>, x10' \in {x10, L!NoCaller}  PROVE BasicInv'
    BY <1>1
  <1>2. ASSUME NEW u \in L!Caller, L!Basic(u)  PROVE BasicInv'
    <2>1. PICK e \in Exchanging : ~e.fetch /\ x9' = [x9 EXCEPT ![u] = e]
      <3>1. [at |-> "hex", fetch |-> FALSE, left |-> L!FollowUps] \in Exchanging
        BY DEF Exchanging, L!FollowUps
      <3> QED  BY <1>2, <3>1 DEF L!Basic
    <2>2. UNCHANGED <<x8, x10>> /\ (x8 => \A v \in L!Caller : x9[v] = L!Quiet)
      BY <1>2 DEF L!Basic
    <2>3. x9' \in [L!Caller -> {L!Quiet} \cup Exchanging]
      BY <2>1
    <2>4. x8 => \A v \in L!Caller : v # u => x9'[v] = L!Quiet
      BY <2>1, <2>2
    <2>5. x9'[u] = e
      BY <2>1
    <2> QED  BY <2>1, <2>2, <2>3, <2>4, <2>5
  <1>3. ASSUME NEW u \in L!Caller, L!Send(u)  PROVE BasicInv'
    <2>1. x9[u] # L!Quiet /\ x8' = x8 /\ x9[u] \in Exchanging
      BY <1>3 DEF L!Send
    <2>2. PICK e \in {L!Quiet} \cup Exchanging :
             /\ x9' = [x9 EXCEPT ![u] = e]
             /\ x10' \in L!Caller \cup {L!NoCaller}
             /\ \/ e = L!Quiet
                \/ x10' = u
                \/ e.fetch = x9[u].fetch /\ x10' \in {x10, L!NoCaller}
      <3>1. CASE L!Answers(u)
        <4>1. CASE /\ x9[u].left > 0
                   /\ L!Says(u, [at |-> "hex", fetch |-> TRUE, left |-> x9[u].left - 1])
                   /\ x10' = u
          <5>1. [at |-> "hex", fetch |-> TRUE, left |-> x9[u].left - 1] \in Exchanging
            BY <4>1, <2>1 DEF Exchanging, L!FollowUps
          <5> QED  BY <4>1, <5>1 DEF L!Says
        <4>2. CASE L!Says(u, L!Quiet) /\ x10' = L!NoCaller
          BY <4>2 DEF L!Says
        <4> QED  BY <3>1, <4>1, <4>2 DEF L!Answers
      <3>2. CASE L!Says(u, [x9[u] EXCEPT !.at = "byte"]) /\ x10' \in {x10, L!NoCaller}
        <4>1. [x9[u] EXCEPT !.at = "byte"] \in Exchanging
              /\ [x9[u] EXCEPT !.at = "byte"].fetch = x9[u].fetch
          BY <2>1 DEF Exchanging
        <4> QED  BY <3>2, <4>1 DEF L!Says
      <3>3. CASE L!Says(u, L!Quiet) /\ x10' \in {x10, L!NoCaller}
        BY <3>3 DEF L!Says
      <3> QED  BY <1>3, <3>1, <3>2, <3>3 DEF L!Send
    <2>3. x9' \in [L!Caller -> {L!Quiet} \cup Exchanging]
      BY <2>2
    <2>4. x8 => \A v \in L!Caller : v # u => x9'[v] = L!Quiet
      BY <2>1, <2>2
    <2>5. x9'[u] = e
      BY <2>2
    <2>6. x8 /\ e # L!Quiet /\ e.fetch => x10' \in {u, L!NoCaller}
      BY <2>1, <2>2
    <2> QED  BY <2>1, <2>2, <2>3, <2>4, <2>5, <2>6
  <1>4. ASSUME NEW u \in L!Caller,
               \/ L!Open(u) \/ L!OpenFails(u) \/ L!Bind(u) \/ L!Close(u) \/ L!Closes(u)
               \/ L!CloseFails(u) \/ \E c \in 1..LastChannel : L!Opened(u, c)
        PROVE  BasicInv'
    <2>1. UNCHANGED <<x8, x9, x10>>
      BY <1>4 DEF L!Open, L!OpenFails, L!Bind, L!Close, L!Closes, L!CloseFails,
                  L!Opened, L!basicVars
    <2> QED  BY <2>1, <1>1
  <1>5. CASE L!ClearBegins \/ L!ClearGoes \/ L!Disturbs
    <2>1. UNCHANGED <<x8, x9>> /\ x10' \in {x10, L!NoCaller}
      BY <1>5 DEF L!ClearBegins, L!ClearGoes, L!Disturbs, L!basicVars
    <2> QED  BY <2>1, <1>1
  <1> QED
    BY <1>2, <1>3, <1>4, <1>5 DEF L!Next

-----------------------------------------------------------------------------
(* The inbox of the host *)

Polling == x5["poll"] \in {"select", "list", "merge"}
\* What the module has or will get; a long message by its parts.
Ahead == x1["SM"] \cup x1["ME"] \cup x3
IsAhead(x) == IF x = Whole THEN Parts \cap Ahead # {} ELSE x \in Ahead

InboxTypes ==
    /\ x1 \in [I!Memory -> SUBSET I!Stored] /\ x2 \in I!Memory /\ x3 \subseteq I!Stored
    /\ x4 \in BOOLEAN
    /\ x5 \in [I!Ops -> {"idle", "select", "list", "merge", "clean", "erase", "forget"}]
    /\ x6 \in [I!Ops -> I!Memory]
    /\ x7 \subseteq Messages \cup {Whole} /\ x8 \subseteq Parts
    /\ x9 \subseteq x12 /\ x12 \subseteq Messages \cup {Whole}
    /\ IsFiniteSet(x9) /\ Cardinality(x9) <= Kept
    /\ x11 \subseteq I!Stored /\ x15 \subseteq Messages \cup {Whole}
\* The poll and the user's clear take turns.
TakeTurns ==
    /\ x5["poll"] \in {"idle", "select", "list", "merge", "clean"}
    /\ x5["clear"] \in {"idle", "select", "erase", "forget"}
    /\ x5["poll"] # "idle" => x4 /\ x5["clear"] = "idle"
    /\ x5["clear"] # "idle" => x4 /\ x5["poll"] = "idle"
\* A message is at one place, and nowhere again once it is erased.
OncePresent ==
    /\ x1["SM"] \cap x1["ME"] = {} /\ (x1["SM"] \cup x1["ME"]) \cap x3 = {}
    /\ x13 \cap Ahead = {}
\* What a listing had is held for its other parts, was shown or fell to the limit,
\* or will by this poll, before anything is erased.
ListedIsSeen ==
    /\ \A x \in x11 :
          \/ I!Seen(x) \/ I!BeyondLimit(x)
          \/ Polling /\ (x \in x7 \/ (x \in Parts /\ Whole \in x7))
    /\ \A x \in x13 \cap x11 : I!BeyondLimit(x)
\* Only what has come is held, read or shown.
HasCome ==
    /\ x8 \cap x3 = {} /\ ~(Parts \subseteq x8)
    /\ \A x \in x7 \cup x12 \cup x15 : x # Whole => x \notin x3
    /\ Whole \in x7 \cup x12 \cup x15 => Parts \cap x3 = {}
\* What was forgotten can not be read any more.
StaysForgotten ==
    /\ \A x \in x14 : ~IsAhead(x)
    /\ x14 \cap x9 = {}
    /\ Polling => x14 \cap x7 = {}
InboxInv ==
    /\ InboxTypes /\ TakeTurns /\ OncePresent /\ ListedIsSeen /\ HasCome
    /\ StaysForgotten

LEMMA CountIs == ASSUME NEW some  PROVE I!Cardinality(some) = Cardinality(some)
  BY DEF I!Cardinality, Cardinality

LEMMA InboxInit ==
  ASSUME I!Init  PROVE InboxInv
  <1>1. InboxTypes
    <2>1. IsFiniteSet({}) /\ Cardinality({}) = 0
      BY FS_EmptySet
    <2>2. x4 \in BOOLEAN
      BY DEF I!Init
    <2>3. x9 = {} /\ Cardinality(x9) <= Kept
      BY <2>1, InboxAssumption DEF I!Init
    <2>4. x5 \in [I!Ops -> {"idle", "select", "list", "merge", "clean", "erase", "forget"}]
          /\ x6 \in [I!Ops -> I!Memory] /\ x1 \in [I!Memory -> SUBSET I!Stored]
      BY DEF I!Init, I!Memory
    <2> QED  BY <2>1, <2>2, <2>3, <2>4 DEF I!Init, InboxTypes
  <1>2. TakeTurns
    BY DEF I!Init, TakeTurns, I!Ops
  <1>3. OncePresent /\ ListedIsSeen
    BY DEF I!Init, OncePresent, ListedIsSeen, Ahead, I!Memory
  <1>4. HasCome /\ StaysForgotten
    BY InboxAssumption DEF I!Init, HasCome, StaysForgotten
  <1> QED  BY <1>1, <1>2, <1>3, <1>4 DEF InboxInv

LEMMA InboxFaithful ==
  ASSUME InboxInv  PROVE I!TypeOK /\ I!InboxIsFaithful
  <1>1. I!TypeOK
    BY CountIs DEF InboxInv, InboxTypes, I!TypeOK
  <1>2. I!InboxIsFaithful
    BY DEF InboxInv, ListedIsSeen, StaysForgotten, I!InboxIsFaithful
  <1> QED  BY <1>1, <1>2

LEMMA InModuleIs == I!InModule = x1["SM"] \cup x1["ME"]
  BY DEF I!InModule, I!Memory

\* Something is erased, or nothing is.
LEMMA InboxShrinks ==
  ASSUME InboxInv, \A m \in I!Memory : x1'[m] \subseteq x1[m],
         UNCHANGED <<x3, x7, x8, x12, x14, x15>>,
         x13' \subseteq x13 \cup ((x1["SM"] \cup x1["ME"]) \ (x1'["SM"] \cup x1'["ME"]))
  PROVE  OncePresent' /\ HasCome' /\ \A x \in x14' : ~IsAhead(x)'
  <1>1. x1'["SM"] \subseteq x1["SM"] /\ x1'["ME"] \subseteq x1["ME"]
    BY DEF I!Memory
  <1>2. Ahead' \subseteq Ahead
    BY <1>1 DEF Ahead
  <1>3. OncePresent'
    BY <1>1, <1>2 DEF InboxInv, OncePresent, Ahead
  <1>4. HasCome'
    BY DEF InboxInv, HasCome
  <1>5. \A x \in x14' : ~IsAhead(x)'
    BY <1>2 DEF InboxInv, StaysForgotten, IsAhead
  <1> QED  BY <1>3, <1>4, <1>5

\* The poll or the clear goes on, and nothing but its place changes.
LEMMA InboxGoes ==
  ASSUME InboxInv, InboxTypes', TakeTurns', UNCHANGED <<x1, x3, x7, x8, x9, x11, x12, x13, x14, x15>>,
         Polling => Polling' \/ x7 = {}, Polling' => Polling \/ x7 = {}
  PROVE  InboxInv'
  <1>1. Ahead' = Ahead
    BY DEF Ahead
  <1>2. OncePresent'
    BY <1>1 DEF InboxInv, OncePresent
  <1>3. \A x : I!Seen(x)' = I!Seen(x) /\ I!BeyondLimit(x)' = I!BeyondLimit(x)
    BY DEF I!Seen, I!BeyondLimit
  <1>4. ListedIsSeen'
    BY <1>3 DEF InboxInv, ListedIsSeen
  <1>5. HasCome'
    BY DEF InboxInv, HasCome
  <1>6. StaysForgotten'
    BY <1>1 DEF InboxInv, StaysForgotten, IsAhead
  <1> QED  BY <1>2, <1>4, <1>5, <1>6 DEF InboxInv

LEMMA InboxNext ==
  ASSUME InboxInv, I!Next  PROVE InboxInv'
  <1>1. CASE I!Arrives
    <2>1. PICK x \in x3, m \in I!Memory :
            x3' = x3 \ {x} /\ x1' = [x1 EXCEPT ![m] = @ \cup {x}]
      BY <1>1 DEF I!Arrives
    <2>2. UNCHANGED <<x2, x4, x5, x6, x7, x8, x9, x10, x11, x12, x13, x14, x15>>
      BY <1>1 DEF I!Arrives, I!history
    <2>3. InboxTypes'
      BY <2>1, <2>2 DEF InboxInv, InboxTypes
    <2>4. TakeTurns'
      BY <2>2 DEF InboxInv, TakeTurns
    <2>5. /\ x1'["SM"] \cup x1'["ME"] = x1["SM"] \cup x1["ME"] \cup {x}
          /\ x1'["SM"] \cap x1'["ME"] = {}
      BY <2>1 DEF InboxInv, InboxTypes, OncePresent, I!Memory
    <2>6. Ahead' = Ahead
      BY <2>1, <2>5 DEF Ahead
    <2>7. OncePresent'
      BY <2>1, <2>2, <2>5, <2>6 DEF InboxInv, OncePresent
    <2>8. ListedIsSeen'
      BY <2>2 DEF InboxInv, ListedIsSeen, I!Seen, I!BeyondLimit, Polling
    <2>9. HasCome'
      BY <2>1, <2>2 DEF InboxInv, HasCome
    <2>10. StaysForgotten'
      BY <2>2, <2>6 DEF InboxInv, StaysForgotten, IsAhead, Polling
    <2> QED  BY <2>3, <2>4, <2>7, <2>8, <2>9, <2>10 DEF InboxInv
  <1>2. CASE I!SetAutoClean
    <2>1. UNCHANGED <<x1, x2, x3, x4, x5, x6, x7, x8, x9, x11, x12, x13, x14, x15>>
      BY <1>2 DEF I!SetAutoClean, I!history
    <2>2. InboxTypes' /\ TakeTurns' /\ Polling' = Polling
      BY <2>1 DEF InboxInv, InboxTypes, TakeTurns, Polling
    <2> QED  BY <2>1, <2>2, InboxGoes
  <1>3. ASSUME NEW o \in I!Ops, I!Begin(o)  PROVE InboxInv'
    <2>1. /\ x5[o] = "idle" /\ ~x4 /\ x4' = TRUE
          /\ x5' = [x5 EXCEPT ![o] = "select"] /\ x6' = [x6 EXCEPT ![o] = "SM"]
          /\ x7' = (IF o = "poll" THEN {} ELSE x7)
          /\ UNCHANGED <<x1, x2, x3, x8, x9, x10, x11, x12, x13, x14, x15>>
      BY <1>3 DEF I!Begin, I!Goes, I!history
    <2>2. TakeTurns' /\ ~Polling
      BY <2>1 DEF InboxInv, InboxTypes, TakeTurns, Polling, I!Ops
    <2>3. x6' \in [I!Ops -> I!Memory] /\ x7' \subseteq x7 /\ x4' \in BOOLEAN
      BY <2>1 DEF InboxInv, InboxTypes, I!Memory
    <2>4. x5' \in [I!Ops -> {"idle", "select", "list", "merge", "clean", "erase", "forget"}]
      BY <2>1 DEF InboxInv, InboxTypes
    <2>5. InboxTypes'
      BY <2>1, <2>3, <2>4 DEF InboxInv, InboxTypes
    <2>6. Polling' => x7' = {}
      BY <2>1 DEF InboxInv, InboxTypes, TakeTurns, Polling, I!Ops
    <2>7. OncePresent' /\ HasCome'
      BY <2>1, <2>3 DEF InboxInv, OncePresent, HasCome, Ahead
    <2>8. ListedIsSeen'
      BY <2>1, <2>2 DEF InboxInv, ListedIsSeen, I!Seen, I!BeyondLimit
    <2>9. StaysForgotten'
      BY <2>1, <2>6 DEF InboxInv, StaysForgotten, IsAhead, Ahead
    <2> QED  BY <2>2, <2>5, <2>7, <2>8, <2>9 DEF InboxInv
  <1>4. ASSUME NEW o \in I!Ops, I!Select(o)  PROVE InboxInv'
    <2>1. /\ x5[o] = "select" /\ x2' \in {x2, x6[o]}
          /\ x5' = [x5 EXCEPT ![o] = IF o = "poll" THEN "list" ELSE "erase"]
          /\ x6' = [x6 EXCEPT ![o] = x6[o]]
          /\ UNCHANGED <<x1, x3, x4, x7, x8, x9, x10, x11, x12, x13, x14, x15>>
      BY <1>4 DEF I!Select, I!Goes, I!history
    <2>2. TakeTurns' /\ Polling' = Polling
      BY <2>1 DEF InboxInv, InboxTypes, TakeTurns, Polling, I!Ops
    <2>3. x6' \in [I!Ops -> I!Memory] /\ x2' \in I!Memory
      BY <2>1 DEF InboxInv, InboxTypes
    <2>4. x5' \in [I!Ops -> {"idle", "select", "list", "merge", "clean", "erase", "forget"}]
      BY <2>1 DEF InboxInv, InboxTypes
    <2>5. InboxTypes'
      BY <2>1, <2>3, <2>4 DEF InboxInv, InboxTypes
    <2> QED  BY <2>1, <2>2, <2>5, InboxGoes
  <1>5. CASE I!List
    <2> DEFINE next == IF x6["poll"] = "SM" THEN "select" ELSE "merge"
    <2>1. PICK got \in SUBSET x1[x2] :
            LET held == x8 \cup (got \cap Parts)
                complete == Parts \subseteq held
            IN  /\ x8' = IF complete THEN {} ELSE held
                /\ x7' = x7 \cup (got \ Parts) \cup (IF complete THEN {Whole} ELSE {})
                /\ x11' = x11 \cup got
      BY <1>5 DEF I!List
    <2>2. /\ x5["poll"] = "list" /\ x5' = [x5 EXCEPT !["poll"] = next]
          /\ x6' = [x6 EXCEPT !["poll"] = "ME"]
          /\ UNCHANGED <<x1, x2, x3, x4, x9, x10, x12, x13, x14, x15>>
      BY <1>5 DEF I!List, I!AfterMemory, I!Goes
    <2>3. TakeTurns' /\ Polling' /\ Polling
      BY <2>2 DEF InboxInv, InboxTypes, TakeTurns, Polling, I!Ops
    <2>4. x6' \in [I!Ops -> I!Memory]
          /\ x5' \in [I!Ops -> {"idle", "select", "list", "merge", "clean", "erase", "forget"}]
      BY <2>2 DEF InboxInv, InboxTypes, I!Memory
    <2>5. got \subseteq I!Stored /\ got \subseteq Ahead /\ got \cap x3 = {}
      BY <2>1 DEF InboxInv, InboxTypes, OncePresent, Ahead, I!Memory
    <2>6. x7' \subseteq Messages \cup {Whole} /\ x8' \subseteq Parts /\ x11' \subseteq I!Stored
      BY <2>1, <2>5 DEF InboxInv, InboxTypes, I!Stored
    <2>7. InboxTypes'
      BY <2>2, <2>4, <2>6 DEF InboxInv, InboxTypes
    <2>8. OncePresent' /\ Ahead' = Ahead
      BY <2>2 DEF InboxInv, OncePresent, Ahead
    <2>9. HasCome'
      <3>1. x8' \cap x3' = {} /\ ~(Parts \subseteq x8')
        BY <2>1, <2>2, <2>5, InboxAssumption DEF InboxInv, HasCome
      <3>2. \A x \in x7' \cup x12' \cup x15' : x # Whole => x \notin x3'
        BY <2>1, <2>2, <2>5 DEF InboxInv, HasCome
      <3>3. Whole \in got \ Parts => FALSE
        BY <2>5, InboxAssumption DEF I!Stored
      <3>4. Whole \in x7' => Whole \in x7 \/ Parts \subseteq x8 \cup (got \cap Parts)
        BY <2>1, <3>3
      <3>5. Whole \in x7' \cup x12' \cup x15' => Parts \cap x3' = {}
        BY <2>2, <2>5, <3>4 DEF InboxInv, HasCome
      <3> QED  BY <3>1, <3>2, <3>5 DEF HasCome
    <2>10. ListedIsSeen'
      <3>1. ASSUME NEW x \in x11'
            PROVE  \/ I!Seen(x)' \/ I!BeyondLimit(x)'
                   \/ Polling' /\ (x \in x7' \/ (x \in Parts /\ Whole \in x7'))
        <4>1. CASE x \in got
          <5>1. CASE x \in Parts
            <6>1. x \in x8' \/ Whole \in x7'
              BY <4>1, <5>1, <2>1
            <6> QED  BY <5>1, <6>1, <2>3 DEF I!Seen
          <5>2. CASE x \notin Parts
            <6>1. x \in x7'
              BY <4>1, <5>2, <2>1
            <6> QED  BY <6>1, <2>3
          <5> QED  BY <5>1, <5>2
        <4>2. CASE x \notin got
          <5>1. x \in x11
            BY <4>2, <2>1
          <5>2. \/ I!Seen(x) \/ I!BeyondLimit(x)
                \/ x \in x7 \/ (x \in Parts /\ Whole \in x7)
            BY <5>1 DEF InboxInv, ListedIsSeen
          <5>3. x7 \subseteq x7' /\ (x \in Parts /\ x \in x8 => x \in x8' \/ Whole \in x7')
            BY <2>1
          <5> QED  BY <5>2, <5>3, <2>2, <2>3 DEF I!Seen, I!BeyondLimit
        <4> QED  BY <4>1, <4>2
      <3>2. x13' \cap x11' = x13 \cap x11
        BY <2>1, <2>2, <2>5 DEF InboxInv, OncePresent
      <3>3. \A x \in x13' \cap x11' : I!BeyondLimit(x)'
        BY <2>2, <3>2 DEF InboxInv, ListedIsSeen, I!BeyondLimit
      <3> QED  BY <3>1, <3>3 DEF ListedIsSeen
    <2>11. StaysForgotten'
      <3>1. \A x \in x14' : ~IsAhead(x)'
        BY <2>2, <2>8 DEF InboxInv, StaysForgotten, IsAhead
      <3>2. ASSUME NEW x \in x14, x \in x7'  PROVE FALSE
        <4>1. x \notin x7 /\ ~IsAhead(x)
          BY <2>3, <3>2 DEF InboxInv, StaysForgotten
        <4>2. CASE x = Whole
          <5>1. Parts \cap Ahead = {}
            BY <4>1, <4>2 DEF IsAhead
          <5>2. x8 \cup (got \cap Parts) = x8
            BY <5>1, <2>5
          <5>3. ~(Parts \subseteq x8 \cup (got \cap Parts))
            BY <5>2 DEF InboxInv, HasCome
          <5>4. Whole \notin got
            BY <2>5, InboxAssumption DEF I!Stored
          <5> QED  BY <2>1, <3>2, <4>1, <4>2, <5>3, <5>4
        <4>3. CASE x # Whole
          <5>1. x \notin Ahead
            BY <4>1, <4>3 DEF IsAhead
          <5> QED  BY <2>1, <2>5, <3>2, <4>1, <4>3, <5>1
        <4> QED  BY <4>2, <4>3
      <3>3. x14' \cap x9' = {}
        BY <2>2 DEF InboxInv, StaysForgotten
      <3> QED  BY <3>1, <3>2, <3>3, <2>2 DEF StaysForgotten
    <2> QED  BY <2>3, <2>7, <2>8, <2>9, <2>10, <2>11 DEF InboxInv
  <1>6. CASE I!ListFails
    <2>1. x5["poll"] \in {"select", "list"}
          /\ UNCHANGED <<x1, x2, x3, x7, x8, x9, x10, x11, x12, x13, x14, x15>>
      BY <1>6 DEF I!ListFails, I!history
    <2>2. CASE x7 = {} /\ I!Ends("poll")
      <3>1. /\ x4' = FALSE /\ x5' = [x5 EXCEPT !["poll"] = "idle"]
            /\ x6' = [x6 EXCEPT !["poll"] = "SM"]
        BY <2>2 DEF I!Ends, I!Goes
      <3>2. TakeTurns'
        BY <2>1, <3>1 DEF InboxInv, InboxTypes, TakeTurns, I!Ops
      <3>3. /\ x6' \in [I!Ops -> I!Memory]
            /\ x5' \in [I!Ops -> {"idle", "select", "list", "merge", "clean", "erase", "forget"}]
        BY <3>1 DEF InboxInv, InboxTypes, I!Memory
      <3>4. x4' \in BOOLEAN
        BY <3>1
      <3>5. InboxTypes'
        BY <2>1, <3>3, <3>4 DEF InboxInv, InboxTypes
      <3> QED  BY <2>1, <2>2, <3>2, <3>5, InboxGoes
    <2>3. CASE I!AfterMemory /\ x4' = x4
      <3>1. PICK place \in {"select", "merge"} :
              /\ x5' = [x5 EXCEPT !["poll"] = place]
              /\ x6' = [x6 EXCEPT !["poll"] = "ME"]
        BY <2>3 DEF I!AfterMemory, I!Goes
      <3>2. TakeTurns' /\ Polling /\ Polling'
        BY <2>1, <2>3, <3>1 DEF InboxInv, InboxTypes, TakeTurns, I!Ops, Polling
      <3>3. /\ x6' \in [I!Ops -> I!Memory]
            /\ x5' \in [I!Ops -> {"idle", "select", "list", "merge", "clean", "erase", "forget"}]
        BY <3>1 DEF InboxInv, InboxTypes, I!Memory
      <3>4. InboxTypes'
        BY <2>1, <2>3, <3>3 DEF InboxInv, InboxTypes
      <3> QED  BY <2>1, <3>2, <3>4, InboxGoes
    <2> QED  BY <1>6, <2>2, <2>3 DEF I!ListFails
  <1>7. CASE I!Merge
    <2>1. PICK new \in SUBSET (x9 \cup x7) :
            /\ Cardinality(new) = IF Cardinality(x9 \cup x7) > Kept THEN Kept
                                  ELSE Cardinality(x9 \cup x7)
            /\ x9' = new
      BY <1>7, CountIs DEF I!Merge
    <2>2. /\ x5["poll"] = "merge"
          /\ x12' = x12 \cup x9' /\ x15' = x15 \cup (x7 \ x9')
          /\ UNCHANGED <<x1, x2, x3, x7, x8, x10, x11, x13, x14>>
      BY <1>7 DEF I!Merge
    <2>3. PICK place \in {"clean", "idle"}, m \in I!Memory :
            /\ x5' = [x5 EXCEPT !["poll"] = place] /\ x6' = [x6 EXCEPT !["poll"] = m]
            /\ (x4' = x4 \/ (place = "idle" /\ x4' = FALSE))
      <3>1. CASE I!Goes("poll", "clean", "ME") /\ UNCHANGED x4
        BY <3>1 DEF I!Goes, I!Memory
      <3>2. CASE I!Ends("poll")
        BY <3>2 DEF I!Goes, I!Ends, I!Memory
      <3> QED  BY <1>7, <3>1, <3>2, Zenon DEF I!Merge
    <2>4. TakeTurns' /\ Polling /\ ~Polling'
      BY <2>2, <2>3 DEF InboxInv, InboxTypes, TakeTurns, I!Ops, Polling
    <2>5. x4' \in BOOLEAN
      BY <2>3 DEF InboxInv, InboxTypes
    <2>6. /\ x6' \in [I!Ops -> I!Memory]
          /\ x5' \in [I!Ops -> {"idle", "select", "list", "merge", "clean", "erase", "forget"}]
      BY <2>3 DEF InboxInv, InboxTypes
    <2>7. IsFiniteSet(x9') /\ Cardinality(x9') <= Kept
      <3>1. IsFiniteSet(Messages \cup {Whole})
        BY InboxAssumption, FS_AddElement
      <3>2. IsFiniteSet(x9 \cup x7)
        BY <3>1, FS_Subset DEF InboxInv, InboxTypes
      <3>3. Cardinality(x9 \cup x7) \in Nat
        BY <3>2, FS_CardinalityType
      <3>4. IsFiniteSet(x9')
        BY <2>1, <3>2, FS_Subset
      <3> QED  BY <2>1, <3>3, <3>4, InboxAssumption
    <2>8. /\ x9' \subseteq x12' /\ x12' \subseteq x12 \cup x9 \cup x7
          /\ x15' \subseteq x15 \cup x7 /\ x7 \subseteq x12' \cup x15'
          /\ x12 \subseteq x12' /\ x15 \subseteq x15'
      BY <2>1, <2>2
    <2>9. InboxTypes'
      BY <2>2, <2>5, <2>6, <2>7, <2>8 DEF InboxInv, InboxTypes
    <2>10. OncePresent' /\ Ahead' = Ahead
      BY <2>2 DEF InboxInv, OncePresent, Ahead
    <2>11. HasCome'
      BY <2>2, <2>8 DEF InboxInv, InboxTypes, HasCome
    <2>12. ListedIsSeen'
      <3>1. \A x \in x11 : I!Seen(x)' \/ I!BeyondLimit(x)'
        BY <2>2, <2>8 DEF InboxInv, ListedIsSeen, I!Seen, I!BeyondLimit
      <3>2. \A x \in x13 \cap x11 : I!BeyondLimit(x)'
        BY <2>8 DEF InboxInv, ListedIsSeen, I!BeyondLimit
      <3> QED  BY <2>2, <3>1, <3>2 DEF ListedIsSeen
    <2>13. StaysForgotten'
      BY <2>1, <2>2, <2>4, <2>10 DEF InboxInv, StaysForgotten, IsAhead
    <2> QED  BY <2>4, <2>9, <2>10, <2>11, <2>12, <2>13 DEF InboxInv
  <1>8. CASE I!Clean
    <2>1. /\ x5["poll"] = "clean" /\ x2' \in {x2, "ME"}
          /\ x4' = FALSE /\ x5' = [x5 EXCEPT !["poll"] = "idle"]
          /\ x6' = [x6 EXCEPT !["poll"] = "SM"]
          /\ UNCHANGED <<x3, x7, x8, x9, x10, x11, x12, x14, x15>>
      BY <1>8 DEF I!Clean, I!Ends, I!Goes
    <2>2. \/ /\ x1' = [x1 EXCEPT ![x2'] = {}]
             /\ x13' = x13 \cup {x \in x1[x2'] : ~I!Seen(x)}
          \/ UNCHANGED <<x1, x13>>
      BY <1>8 DEF I!Clean
    <2>3. x2' \in I!Memory
      BY <2>1 DEF InboxInv, InboxTypes, I!Memory
    <2>4. TakeTurns' /\ ~Polling /\ ~Polling'
      BY <2>1 DEF InboxInv, InboxTypes, TakeTurns, I!Ops, Polling
    <2>5. x1' \in [I!Memory -> SUBSET I!Stored] /\ x4' \in BOOLEAN
      BY <2>1, <2>2 DEF InboxInv, InboxTypes
    <2>6. /\ x6' \in [I!Ops -> I!Memory]
          /\ x5' \in [I!Ops -> {"idle", "select", "list", "merge", "clean", "erase", "forget"}]
      BY <2>1 DEF InboxInv, InboxTypes, I!Memory
    <2>7. InboxTypes'
      BY <2>1, <2>3, <2>5, <2>6 DEF InboxInv, InboxTypes
    <2>8. \A m \in I!Memory : x1'[m] \subseteq x1[m]
      BY <2>2 DEF InboxInv, InboxTypes
    <2>9. x13' \subseteq x13 \cup ((x1["SM"] \cup x1["ME"]) \ (x1'["SM"] \cup x1'["ME"]))
      BY <2>2, <2>3 DEF InboxInv, InboxTypes, OncePresent, I!Memory
    <2>10. OncePresent' /\ HasCome' /\ \A x \in x14' : ~IsAhead(x)'
      BY <2>1, <2>8, <2>9, InboxShrinks
    <2>11. ListedIsSeen'
      <3>1. \A x \in x11 : I!Seen(x) \/ I!BeyondLimit(x)
        BY <2>4 DEF InboxInv, ListedIsSeen
      <3>2. \A x \in x11' : I!Seen(x)' \/ I!BeyondLimit(x)'
        BY <2>1, <3>1 DEF I!Seen, I!BeyondLimit
      <3>3. \A x \in x13' \cap x11' : I!BeyondLimit(x)'
        BY <2>1, <2>2, <3>1 DEF InboxInv, ListedIsSeen, I!BeyondLimit
      <3> QED  BY <3>2, <3>3 DEF ListedIsSeen
    <2>12. StaysForgotten'
      BY <2>1, <2>4, <2>10 DEF InboxInv, StaysForgotten
    <2> QED  BY <2>4, <2>7, <2>10, <2>11, <2>12 DEF InboxInv
  <1>9. CASE I!Erase
    <2>1. /\ x5["clear"] = "erase"
          /\ x1' \in {x1, [x1 EXCEPT ![x2] = {}]}
          /\ UNCHANGED <<x2, x3, x4, x7, x8, x9, x10, x11, x12, x13, x14, x15>>
      BY <1>9 DEF I!Erase, I!history
    <2>2. PICK place \in {"select", "forget"} :
            /\ x5' = [x5 EXCEPT !["clear"] = place]
            /\ x6' = [x6 EXCEPT !["clear"] = "ME"]
      BY <1>9 DEF I!Erase, I!Goes
    <2>3. TakeTurns' /\ Polling' = Polling
      BY <2>1, <2>2 DEF InboxInv, InboxTypes, TakeTurns, I!Ops, Polling
    <2>4. x1' \in [I!Memory -> SUBSET I!Stored]
      BY <2>1 DEF InboxInv, InboxTypes
    <2>5. /\ x6' \in [I!Ops -> I!Memory]
          /\ x5' \in [I!Ops -> {"idle", "select", "list", "merge", "clean", "erase", "forget"}]
      BY <2>2 DEF InboxInv, InboxTypes, I!Memory
    <2>6. InboxTypes'
      BY <2>1, <2>4, <2>5 DEF InboxInv, InboxTypes
    <2>7. \A m \in I!Memory : x1'[m] \subseteq x1[m]
      BY <2>1 DEF InboxInv, InboxTypes
    <2>8. OncePresent' /\ HasCome' /\ \A x \in x14' : ~IsAhead(x)'
      BY <2>1, <2>7, InboxShrinks
    <2>9. ListedIsSeen'
      BY <2>1, <2>3 DEF InboxInv, ListedIsSeen, I!Seen, I!BeyondLimit
    <2>10. StaysForgotten'
      BY <2>1, <2>3, <2>8 DEF InboxInv, StaysForgotten
    <2> QED  BY <2>3, <2>6, <2>8, <2>9, <2>10 DEF InboxInv
  <1>10. CASE I!ClearFails \/ I!Forget
    <2>1. /\ x5["clear"] # "idle" /\ x4' = FALSE /\ x5' = [x5 EXCEPT !["clear"] = "idle"]
          /\ x6' = [x6 EXCEPT !["clear"] = "SM"]
          /\ UNCHANGED <<x1, x2, x3, x7, x8, x10, x11, x12, x13, x15>>
      BY <1>10 DEF I!ClearFails, I!Forget, I!Ends, I!Goes, I!history
    <2>2. TakeTurns' /\ ~Polling /\ ~Polling'
      BY <2>1 DEF InboxInv, InboxTypes, TakeTurns, I!Ops, Polling
    <2>3. x4' \in BOOLEAN
      BY <2>1
    <2>4. /\ x6' \in [I!Ops -> I!Memory]
          /\ x5' \in [I!Ops -> {"idle", "select", "list", "merge", "clean", "erase", "forget"}]
      BY <2>1 DEF InboxInv, InboxTypes, I!Memory
    <2>5. CASE UNCHANGED <<x9, x14>>
      <3>1. InboxTypes'
        BY <2>1, <2>3, <2>4, <2>5 DEF InboxInv, InboxTypes
      <3> QED  BY <2>1, <2>2, <2>5, <3>1, InboxGoes
    <2>6. CASE x9' = {} /\ x14' = x14 \cup {x \in x12 \cup x15 : I!Gone(x)}
      <3>1. IsFiniteSet({}) /\ Cardinality({}) = 0
        BY FS_EmptySet
      <3>2. IsFiniteSet(x9') /\ Cardinality(x9') <= Kept /\ x9' \subseteq x12'
        BY <2>6, <3>1, InboxAssumption
      <3>3. InboxTypes'
        BY <2>1, <2>3, <2>4, <3>2 DEF InboxInv, InboxTypes
      <3>4. OncePresent' /\ HasCome' /\ Ahead' = Ahead
        BY <2>1 DEF InboxInv, OncePresent, HasCome, Ahead
      <3>5. ListedIsSeen'
        BY <2>1, <2>2 DEF InboxInv, ListedIsSeen, I!Seen, I!BeyondLimit
      <3>6. \A x \in x12 \cup x15 : I!Gone(x) => ~IsAhead(x)
        BY InModuleIs DEF I!Gone, IsAhead, Ahead, InboxInv, HasCome
      <3>7. StaysForgotten'
        BY <2>2, <2>6, <3>4, <3>6 DEF InboxInv, StaysForgotten, IsAhead
      <3> QED  BY <2>2, <3>3, <3>4, <3>5, <3>7 DEF InboxInv
    <2> QED  BY <1>10, <2>5, <2>6 DEF I!ClearFails, I!Forget, I!history
  <1>11. CASE I!Age
    <2>1. /\ x8' = {} /\ x11' = x11 \ x8 /\ x5["poll"] \in {"select", "merge"}
          /\ UNCHANGED <<x1, x2, x3, x4, x5, x6, x7, x9, x10, x12, x13, x14, x15>>
      BY <1>11 DEF I!Age
    <2>2. InboxTypes' /\ TakeTurns' /\ Polling' = Polling
      BY <2>1 DEF InboxInv, InboxTypes, TakeTurns, Polling
    <2>3. OncePresent' /\ HasCome'
      BY <2>1, InboxAssumption DEF InboxInv, OncePresent, HasCome, Ahead
    <2>4. ListedIsSeen'
      BY <2>1, <2>2 DEF InboxInv, ListedIsSeen, I!Seen, I!BeyondLimit
    <2>5. StaysForgotten'
      BY <2>1, <2>2 DEF InboxInv, StaysForgotten, IsAhead, Ahead
    <2> QED  BY <2>2, <2>3, <2>4, <2>5 DEF InboxInv
  <1> QED
    BY <1>1, <1>2, <1>3, <1>4, <1>5, <1>6, <1>7, <1>8, <1>9, <1>10, <1>11 DEF I!Next

-----------------------------------------------------------------------------
(* The notes of profiles in the host's file *)

\* A note is what was answered or what a save that failed asked for since, in the
\* file and in memory, which the next save writes whole.
NotesInv ==
    /\ N!TypeOK
    /\ \A p \in Profiles : N!OnFile[p] \in {x4[p]} \cup x5[p]
    /\ \A p \in Profiles : N!LoadedNotes[p] \in {x4[p]} \cup x5[p]

LEMMA NoneAbsent ==
  ASSUME NEW notes \in N!Notes, NEW p \in Profiles  PROVE notes # N!NotLoaded
  BY NotesAssumption DEF N!Notes, N!NotLoaded, N!None

LEMMA NotesInit ==
  ASSUME N!Init  PROVE NotesInv
  <1>1. /\ x3 \in N!Notes /\ x4 \in N!Notes /\ x1 = N!NotLoaded
        /\ x5 = [p \in Profiles |-> {}] /\ x6 = 0
        /\ x2 \in {N!NotLoaded, x4}
    BY DEF N!Init
  <1>2. N!TypeOK
    BY <1>1, NotesAssumption DEF N!TypeOK
  <1>3. (x2 = N!NotLoaded /\ x4 = x3) \/ x2 = x4
    BY DEF N!Init
  <1>4. ASSUME NEW p \in Profiles  PROVE N!OnFile = x4 /\ N!LoadedNotes = x4
    <2>1. x4 # N!NotLoaded
      BY <1>1, NoneAbsent
    <2> QED  BY <1>1, <1>3, <2>1 DEF N!OnFile, N!LoadedNotes
  <1> QED  BY <1>2, <1>4 DEF NotesInv

LEMMA LoadedIsNotes ==
  ASSUME N!TypeOK  PROVE N!LoadedNotes \in N!Notes
  BY DEF N!TypeOK, N!LoadedNotes

LEMMA NotesNext ==
  ASSUME NotesInv, N!Next  PROVE NotesInv'
  <1> USE DEF NotesInv
  <1>1. CASE N!List
    <2>1. x1' = N!LoadedNotes /\ UNCHANGED <<x2, x3, x4, x5, x6>>
      BY <1>1 DEF N!List
    <2>2. N!TypeOK'
      BY <2>1, LoadedIsNotes DEF N!TypeOK
    <2>3. ASSUME NEW p \in Profiles
          PROVE  N!OnFile' = N!OnFile /\ N!LoadedNotes' = N!LoadedNotes
      <3>1. x1' # N!NotLoaded
        BY <2>1, LoadedIsNotes, NoneAbsent
      <3> QED  BY <2>1, <3>1 DEF N!OnFile, N!LoadedNotes
    <2> QED  BY <2>1, <2>2, <2>3
  <1>2. CASE N!Restart
    <2>1. x1' = N!NotLoaded /\ UNCHANGED <<x2, x3, x4, x5, x6>>
      BY <1>2 DEF N!Restart
    <2>2. N!TypeOK'
      BY <2>1 DEF N!TypeOK
    <2>3. N!OnFile' = N!OnFile /\ N!LoadedNotes' = N!OnFile
      BY <2>1 DEF N!OnFile, N!LoadedNotes
    <2> QED  BY <2>1, <2>2, <2>3
  <1>3. ASSUME NEW p \in Profiles, NEW n \in Note \cup {N!None}, N!SaveNote(p, n)
        PROVE  NotesInv'
    <2>1. x1' = [N!LoadedNotes EXCEPT ![p] = n] /\ x3' = x3
      BY <1>3 DEF N!SaveNote
    <2>2. N!LoadedNotes \in N!Notes /\ x1' \in N!Notes
      BY <2>1, LoadedIsNotes DEF N!Notes
    <2>3. N!LoadedNotes' = x1'
      <3>1. x1' # N!NotLoaded
        BY <2>2, NoneAbsent
      <3> QED  BY <3>1 DEF N!LoadedNotes
    <2>4. /\ x1'[p] = n
          /\ \A q \in Profiles : q # p => x1'[q] = N!LoadedNotes[q]
      BY <2>1, <2>2 DEF N!Notes
    <2>5. CASE /\ x2' = x1' /\ x4' = [x4 EXCEPT ![p] = n] /\ x5' = [x5 EXCEPT ![p] = {}]
               /\ x6' = x6
      <3>1. N!TypeOK'
        BY <2>1, <2>2, <2>5 DEF N!TypeOK, N!Notes
      <3>2. N!OnFile' = x1'
        BY <2>2, <2>5, NoneAbsent DEF N!OnFile
      <3>3. \A q \in Profiles : x1'[q] \in {x4'[q]} \cup x5'[q]
        BY <2>4, <2>5 DEF N!TypeOK, N!Notes
      <3> QED  BY <2>3, <3>1, <3>2, <3>3
    <2>6. CASE /\ x5' = [x5 EXCEPT ![p] = @ \cup {n}] /\ UNCHANGED <<x2, x4>>
               /\ x6 < MaxFailed /\ x6' = x6 + 1
      <3>1. x6' \in 0..MaxFailed
        BY <2>6, NotesAssumption DEF N!TypeOK
      <3>2. N!TypeOK'
        BY <2>1, <2>2, <2>6, <3>1 DEF N!TypeOK
      <3>3. \A q \in Profiles : x5[q] \subseteq x5'[q] /\ n \in x5'[p]
        BY <2>6 DEF N!TypeOK
      <3>4. N!OnFile' = N!OnFile
        BY <2>1, <2>6 DEF N!OnFile
      <3> QED  BY <2>3, <2>4, <2>6, <3>2, <3>3, <3>4
    <2> QED  BY <1>3, <2>5, <2>6 DEF N!SaveNote
  <1> QED  BY <1>1, <1>2, <1>3 DEF N!Next

-----------------------------------------------------------------------------
(* The policy that keeps mobile data off *)

PolicyStep ==
    [kind : {"block", "unblock", "save"}, user : BOOLEAN, todo : SUBSET Services,
     applied : BOOLEAN, failed : BOOLEAN, before : P!Policy \cup {P!Unloaded}]

PolicyTypes ==
    /\ x1 \in [Services -> {"none", "up", "blocked"}]
    /\ x2 \in [Services -> {"absent", "off", "on"}]
    /\ x3 \in P!Policy \cup {P!Unloaded} /\ x4 \in P!Policy
    /\ x5 \in {P!Idle} \cup PolicyStep
    /\ x6 \in {P!NoRepair} \cup [service : Services, left : 1..2]
    /\ x7 \in BOOLEAN /\ x8 \in BOOLEAN /\ x9 \subseteq Services
    /\ x10 \in 0..MaxFaults
\* An operation works on a policy it has loaded, and a request can put back what
\* was there before.
PolicyLoaded ==
    x5 # P!Idle => x3 \in P!Policy /\ (x5.user => x5.before \in P!Policy)
PolicyBlocks == x5 # P!Idle /\ x5.kind = "block" => ~x5.failed
\* A restoring has given back what it is through with; only a request restores.
PolicyGivesBack ==
    x5 # P!Idle /\ (x5.kind = "unblock" \/ x5.failed) =>
        /\ x5.user /\ x3.list \subseteq x5.before.list
        /\ ~x5.failed => \A s \in x3.list \ x5.todo : x1[s] # "blocked"
\* What is on the file's list is on the one that memory has, or goes back to.
PolicyKeepsList ==
    IF x5 # P!Idle /\ x5.user THEN x4.list \subseteq x5.before.list
    ELSE x4.list \subseteq P!Loaded.list
PolicyRecorded == \A s \in Services : x1[s] = "blocked" => s \in P!Loaded.list \cup x9
PolicyTold ==
    \/ x8
    \/ /\ x4.force = x7
       /\ (x5 # P!Idle /\ x5.user) \/ P!Loaded.force = x7
PolicyInv ==
    /\ PolicyTypes /\ PolicyLoaded /\ PolicyBlocks /\ PolicyGivesBack
    /\ PolicyKeepsList /\ PolicyRecorded /\ PolicyTold

LEMMA PolicyIsLoaded ==
  ASSUME NEW p \in P!Policy  PROVE p # P!Unloaded
  <1>1. DOMAIN p = {"force", "list"}
    BY DEF P!Policy
  <1>2. DOMAIN P!Unloaded = {"force", "list", "unloaded"}
    BY DEF P!Unloaded
  <1> QED  BY <1>1, <1>2

LEMMA LoadedPolicy ==
  ASSUME PolicyTypes
  PROVE  /\ P!Loaded \in P!Policy
         /\ x3 \in P!Policy => P!Loaded = x3
         /\ x3 = P!Unloaded => P!Loaded = x4
  BY PolicyIsLoaded DEF PolicyTypes, P!Loaded

LEMMA StepIsBusy ==
  ASSUME NEW s \in PolicyStep  PROVE s # P!Idle
  BY DEF PolicyStep, P!Idle

LEMMA PolicyInit ==
  ASSUME P!Init  PROVE PolicyInv
  <1>1. /\ x1 = [s \in Services |-> "up"] /\ x2 \in [Services -> {"absent", "on"}]
        /\ x4 = [force |-> FALSE, list |-> {}]
        /\ x3 = P!Unloaded /\ x5 = P!Idle /\ x6 = P!NoRepair /\ x9 = {} /\ x10 = 0
    BY DEF P!Init
  <1>2. x7 = FALSE /\ x8 = FALSE
    BY DEF P!Init
  <1>3. x4 \in P!Policy
    BY <1>1 DEF P!Policy
  <1>4. PolicyTypes
    <2>1. x7 \in BOOLEAN /\ x8 \in BOOLEAN
      BY <1>2
    <2>2. x10 \in 0..MaxFaults
      BY <1>1, PolicyAssumption
    <2>3. x1 \in [Services -> {"none", "up", "blocked"}]
          /\ x2 \in [Services -> {"absent", "off", "on"}]
      BY <1>1
    <2> QED  BY <1>1, <1>3, <2>1, <2>2, <2>3 DEF PolicyTypes
  <1>5. P!Loaded = x4
    BY <1>1, <1>4, LoadedPolicy
  <1>6. x4.force = x7
    BY <1>1, <1>2
  <1> QED
    BY <1>1, <1>4, <1>5, <1>6
    DEF PolicyInv, PolicyLoaded, PolicyBlocks, PolicyGivesBack, PolicyKeepsList,
        PolicyRecorded, PolicyTold

LEMMA PolicyHonest ==
  ASSUME PolicyInv  PROVE P!TypeOK /\ P!BlockedIsRecorded
  <1>1. x5.kind \in {"idle", "block", "unblock", "save"}
    BY DEF PolicyInv, PolicyTypes, PolicyStep, P!Idle
  <1>2. P!TypeOK
    BY <1>1 DEF PolicyInv, PolicyTypes, P!TypeOK
  <1>3. \A s \in Services : x1[s] = "blocked" => s \in P!Loaded.list \cup x4.list \cup x9
    BY DEF PolicyInv, PolicyRecorded
  <1>4. x8 \/ x5 # P!Idle \/ (x4.force = x7 /\ P!Loaded.force = x7)
    BY DEF PolicyInv, PolicyTold
  <1> QED  BY <1>2, <1>3, <1>4 DEF P!BlockedIsRecorded

\* Nothing that the policy is about changes, but services lose their blocking.
LEMMA PolicyOutside ==
  ASSUME PolicyInv, PolicyTypes', UNCHANGED <<x3, x4, x5, x7, x8, x9>>,
         \A s \in Services : x1'[s] = "blocked" => x1[s] = "blocked"
  PROVE  PolicyInv'
  <1>1. P!Loaded' = P!Loaded
    BY DEF P!Loaded
  <1>2. PolicyLoaded' /\ PolicyBlocks' /\ PolicyKeepsList'
    BY <1>1 DEF PolicyInv, PolicyLoaded, PolicyBlocks, PolicyKeepsList
  <1>3. PolicyGivesBack'
    BY DEF PolicyInv, PolicyTypes, PolicyGivesBack, P!Policy, P!Unloaded
  <1>4. PolicyRecorded'
    BY <1>1 DEF PolicyInv, PolicyRecorded
  <1>5. PolicyTold'
    BY <1>1 DEF PolicyInv, PolicyTold
  <1> QED  BY <1>2, <1>3, <1>4, <1>5 DEF PolicyInv

\* An operation ends without what it did; memory is what it was, for a request.
LEMMA PolicyFails ==
  ASSUME PolicyInv, x5 # P!Idle, P!Fails,
         x4' = x4 \/ (x4' = x3 /\ x5.failed),
         UNCHANGED <<x1, x2, x6, x7>>, x10' \in 0..MaxFaults
  PROVE  PolicyInv'
  <1>1. x5 \in PolicyStep /\ x3 \in P!Policy /\ x4 \in P!Policy /\ x4' \in P!Policy
        /\ (x5.user => x5.before \in P!Policy)
    BY DEF PolicyInv, PolicyTypes, PolicyLoaded
  <1>2. x5' = P!Idle
    BY DEF P!Fails
  <1>3. CASE x5.user
    <2>1. /\ x3' = x5.before /\ x8' = TRUE
          /\ x9' = x9 \cup (x3.list \ (x5.before.list \cup x4'.list))
      BY <1>3 DEF P!Fails
    <2>2. x3.list \subseteq Services /\ x9' \subseteq Services
      BY <1>1, <2>1 DEF P!Policy, PolicyInv, PolicyTypes
    <2>3. PolicyTypes'
      BY <1>1, <1>2, <1>3, <2>1, <2>2 DEF PolicyInv, PolicyTypes
    <2>4. P!Loaded' = x5.before /\ P!Loaded = x3
      BY <1>1, <1>3, <2>1, PolicyIsLoaded DEF P!Loaded
    <2>5. x4.list \subseteq x5.before.list
      BY <1>3 DEF PolicyInv, PolicyKeepsList
    <2>6. x5.failed => x3.list \subseteq x5.before.list
      BY DEF PolicyInv, PolicyGivesBack
    <2>7. x4'.list \subseteq x5.before.list
      BY <2>5, <2>6
    <2>8. PolicyKeepsList'
      BY <1>2, <2>4, <2>7 DEF PolicyKeepsList
    <2>9. PolicyRecorded'
      BY <2>1, <2>4, <2>7 DEF PolicyInv, PolicyRecorded
    <2>10. PolicyTold'
      BY <2>1 DEF PolicyTold
    <2> QED  BY <1>2, <2>3, <2>8, <2>9, <2>10
             DEF PolicyInv, PolicyLoaded, PolicyBlocks, PolicyGivesBack
  <1>4. CASE ~x5.user
    <2>1. UNCHANGED <<x3, x8, x9>>
      BY <1>4 DEF P!Fails
    <2>2. ~x5.failed
      BY <1>4 DEF PolicyInv, PolicyGivesBack
    <2>3. x4' = x4
      BY <2>2
    <2>4. PolicyTypes'
      BY <1>1, <1>2, <2>1, <2>3 DEF PolicyInv, PolicyTypes
    <2>5. P!Loaded' = P!Loaded
      BY <2>1, <2>3 DEF P!Loaded
    <2>6. PolicyKeepsList'
      BY <1>2, <1>4, <2>3, <2>5 DEF PolicyInv, PolicyKeepsList
    <2>7. PolicyRecorded'
      BY <2>1, <2>5 DEF PolicyInv, PolicyRecorded
    <2>8. PolicyTold'
      BY <1>4, <2>1, <2>3, <2>5 DEF PolicyInv, PolicyTold
    <2> QED  BY <1>2, <2>4, <2>6, <2>7, <2>8
             DEF PolicyInv, PolicyLoaded, PolicyBlocks, PolicyGivesBack
  <1>5. x5.user \in BOOLEAN
    BY <1>1 DEF PolicyStep
  <1> QED  BY <1>3, <1>4, <1>5

\* An operation begins, with what it goes over.
LEMMA PolicyApplies ==
  ASSUME PolicyInv, NEW user \in BOOLEAN, NEW p \in P!Policy, P!Apply(user, p),
         p.list = P!Loaded.list, ~user => p = P!Loaded /\ p.force
  PROVE  PolicyInv'
  <1> DEFINE before == IF user THEN P!Loaded ELSE P!Unloaded
             kind == IF p.force THEN "block" ELSE "unblock"
  <1>1. /\ x5 = P!Idle /\ x3' = p
        /\ x5' = [kind |-> kind, user |-> user, todo |-> P!Targets(p), applied |-> FALSE,
                  failed |-> FALSE, before |-> before]
        /\ UNCHANGED <<x1, x2, x4, x6, x7, x8, x9, x10>>
    BY DEF P!Apply
  <1>2. P!Loaded \in P!Policy
    BY LoadedPolicy DEF PolicyInv
  <1>3. p.force \in BOOLEAN /\ p.list \subseteq Services
    BY DEF P!Policy
  <1>4. P!Targets(p) \subseteq Services /\ (~p.force => P!Targets(p) = p.list)
    BY <1>3 DEF P!Targets
  <1>5. before \in P!Policy \cup {P!Unloaded} /\ (user => before = P!Loaded)
    BY <1>2
  <1>6. kind \in {"block", "unblock", "save"} /\ (kind = "unblock" => ~p.force)
    OBVIOUS
  <1> HIDE DEF before, kind
  <1>7. x5' \in PolicyStep
    BY <1>1, <1>4, <1>5, <1>6 DEF PolicyStep
  <1>8. x5'.kind = kind /\ x5'.todo = P!Targets(p) /\ x5'.before = before
    BY <1>1
  <1>9. (x5'.user <=> user) /\ ~x5'.failed
    BY <1>1
  <1>10. PolicyTypes'
    BY <1>1, <1>7 DEF PolicyInv, PolicyTypes
  <1>11. P!Loaded' = p
    BY <1>1, <1>10, LoadedPolicy, PolicyIsLoaded DEF P!Loaded
  <1>12. PolicyLoaded' /\ PolicyBlocks'
    BY <1>1, <1>2, <1>5, <1>8, <1>9 DEF PolicyLoaded, PolicyBlocks
  <1>13. PolicyGivesBack'
    BY <1>1, <1>4, <1>5, <1>6, <1>8, <1>9 DEF PolicyGivesBack
  <1>14. x4.list \subseteq P!Loaded.list
    BY <1>1 DEF PolicyInv, PolicyKeepsList
  <1>15. PolicyKeepsList'
    BY <1>1, <1>5, <1>8, <1>9, <1>11, <1>14 DEF PolicyKeepsList
  <1>16. PolicyRecorded'
    BY <1>1, <1>11 DEF PolicyInv, PolicyRecorded
  <1>17. x8 \/ (x4.force = x7 /\ P!Loaded.force = x7)
    BY <1>1 DEF PolicyInv, PolicyTold
  <1>18. PolicyTold'
    <2>1. CASE user
      BY <1>1, <1>7, <1>9, <1>17, <2>1, StepIsBusy DEF PolicyTold
    <2>2. CASE ~user
      BY <1>1, <1>11, <1>17, <2>2 DEF PolicyTold
    <2> QED  BY <2>1, <2>2
  <1> QED  BY <1>10, <1>12, <1>13, <1>15, <1>16, <1>18 DEF PolicyInv

\* An operation that goes on over one service, or comes to the file.
LEMMA PolicyGoesOn ==
  ASSUME PolicyInv, x5 # P!Idle, x5' \in PolicyStep,
         PolicyTypes', x3' \in P!Policy, x3'.force = x3.force,
         x5'.user = x5.user, x5'.before = x5.before,
         UNCHANGED <<x4, x7, x8, x9>>,
         x4.list \subseteq x3'.list \/ x5.user,
         x5'.kind = "block" => ~x5'.failed,
         (x5'.kind = "unblock" \/ x5'.failed) =>
            /\ (x5.kind = "unblock" \/ x5.failed) /\ x3'.list \subseteq x3.list
            /\ ~x5'.failed => \A s \in x3'.list \ x5'.todo : x1'[s] # "blocked",
         \A s \in Services : x1'[s] = "blocked" => s \in x3'.list \cup x9
  PROVE  PolicyInv'
  <1>1. x5' # P!Idle
    BY StepIsBusy
  <1>2. P!Loaded' = x3' /\ P!Loaded = x3
    BY LoadedPolicy, PolicyIsLoaded DEF P!Loaded, PolicyInv, PolicyLoaded
  <1>3. PolicyLoaded' /\ PolicyBlocks'
    BY DEF PolicyInv, PolicyLoaded, PolicyBlocks
  <1>4. PolicyGivesBack'
    BY <1>1 DEF PolicyInv, PolicyGivesBack
  <1>5. PolicyKeepsList'
    BY <1>1, <1>2 DEF PolicyInv, PolicyKeepsList
  <1>6. PolicyRecorded'
    BY <1>2 DEF PolicyRecorded
  <1>7. PolicyTold'
    BY <1>1, <1>2 DEF PolicyInv, PolicyTold
  <1> QED  BY <1>3, <1>4, <1>5, <1>6, <1>7 DEF PolicyInv

LEMMA PolicyNext ==
  ASSUME PolicyInv, P!Next  PROVE PolicyInv'
  <1>1. PolicyTypes /\ P!Loaded \in P!Policy
    BY LoadedPolicy DEF PolicyInv
  <1>2. x5 # P!Idle =>
          /\ x5 \in PolicyStep /\ x3 \in P!Policy /\ P!Loaded = x3
          /\ x4.list \subseteq x3.list \/ x5.user
    BY <1>1, LoadedPolicy DEF PolicyInv, PolicyTypes, PolicyLoaded, PolicyKeepsList
  <1>3. ASSUME NEW f \in BOOLEAN, P!Set(f)  PROVE PolicyInv'
    <2>1. [P!Loaded EXCEPT !.force = f] \in P!Policy
          /\ [P!Loaded EXCEPT !.force = f].list = P!Loaded.list
      BY <1>1 DEF P!Policy
    <2>2. P!Apply(TRUE, [P!Loaded EXCEPT !.force = f])
      BY <1>3 DEF P!Set
    <2> QED  BY <2>1, <2>2, PolicyApplies
  <1>4. CASE P!Guard
    <2>1. P!Loaded.force /\ P!Apply(FALSE, P!Loaded)
      BY <1>4 DEF P!Guard
    <2> QED  BY <1>1, <2>1, PolicyApplies
  <1>5. CASE P!FailsToList
    <2>1. x5.kind \in {"block", "unblock"} /\ P!Fails /\ x4' = x4
          /\ UNCHANGED <<x1, x2, x6, x7, x10>>
      BY <1>5 DEF P!FailsToList
    <2>2. x5 # P!Idle
      BY <2>1 DEF P!Idle
    <2>3. x10' \in 0..MaxFaults
      BY <1>1, <2>1 DEF PolicyTypes
    <2> QED  BY <2>1, <2>2, <2>3, PolicyFails
  <1>6. ASSUME NEW s \in Services, P!Block(s)  PROVE PolicyInv'
    <2>1. x5.kind = "block" /\ UNCHANGED <<x2, x4, x6, x7, x8, x9, x10>>
      BY <1>6 DEF P!Block
    <2>2. x5 # P!Idle /\ x5 \in PolicyStep
      BY <1>2, <2>1 DEF P!Idle
    <2>3. ~x5.failed \/ x5.user
      BY <2>2 DEF PolicyInv, PolicyGivesBack
    <2>4. PICK applied \in BOOLEAN :
            x5' = [x5 EXCEPT !.todo = @ \ {s}, !.applied = applied]
      <3>1. CASE x5' = [x5 EXCEPT !.todo = @ \ {s}, !.applied = TRUE]
        BY <3>1
      <3>2. CASE x5' = [x5 EXCEPT !.todo = @ \ {s}]
        <4>1. x5.applied \in BOOLEAN /\ x5' = [x5 EXCEPT !.todo = @ \ {s}, !.applied = x5.applied]
          BY <2>2, <3>2 DEF PolicyStep
        <4> QED  BY <4>1
      <3> QED  BY <1>6, <3>1, <3>2 DEF P!Block
    <2>5. x5' \in PolicyStep
      BY <2>2, <2>4 DEF PolicyStep
    <2>6. x5'.kind = "block" /\ x5'.user = x5.user /\ x5'.before = x5.before
          /\ x5'.failed = x5.failed
      BY <2>1, <2>2, <2>4 DEF PolicyStep
    <2>7. /\ x3' \in P!Policy /\ x3'.force = x3.force /\ x3.list \subseteq x3'.list
          /\ x1' \in [Services -> {"none", "up", "blocked"}]
          /\ \A r \in Services : x1'[r] = "blocked" => x1[r] = "blocked" \/ r \in x3'.list
      <3>1. CASE x1' = [x1 EXCEPT ![s] = "blocked"] /\ x3' = [x3 EXCEPT !.list = @ \cup {s}]
        <4>1. x3' \in P!Policy /\ x3'.force = x3.force /\ x3'.list = x3.list \cup {s}
          BY <1>2, <2>2, <3>1 DEF P!Policy
        <4> QED  BY <1>1, <3>1, <4>1 DEF PolicyTypes
      <3>2. CASE UNCHANGED <<x1, x3>>
        BY <1>1, <1>2, <2>2, <3>2 DEF PolicyTypes
      <3> QED  BY <1>6, <3>1, <3>2 DEF P!Block
    <2>8. PolicyTypes'
      BY <1>1, <2>1, <2>5, <2>7 DEF PolicyTypes
    <2>9. \A r \in Services : x1'[r] = "blocked" => r \in x3'.list \cup x9
      BY <1>2, <2>2, <2>7 DEF PolicyInv, PolicyRecorded
    <2>10. x4.list \subseteq x3'.list \/ x5.user
      BY <1>2, <2>2, <2>7
    <2>11. ~x5.failed
      BY <2>1, <2>2 DEF PolicyInv, PolicyBlocks
    <2> QED  BY <2>1, <2>2, <2>5, <2>6, <2>7, <2>8, <2>9, <2>10, <2>11, PolicyGoesOn
  <1>7. ASSUME NEW s \in Services, P!Unblock(s)  PROVE PolicyInv'
    <2>1. x5.kind = "unblock" /\ s \in x5.todo /\ UNCHANGED <<x2, x3, x4, x6, x7, x8, x9, x10>>
      BY <1>7 DEF P!Unblock
    <2>2. x5 # P!Idle /\ x5 \in PolicyStep
      BY <1>2, <2>1 DEF P!Idle
    <2>3. /\ x5' \in PolicyStep /\ x5'.kind = "unblock" /\ x5'.user = x5.user
          /\ x5'.before = x5.before
      <3>1. CASE x5' = [x5 EXCEPT !.todo = @ \ {s}]
        BY <2>1, <2>2, <3>1 DEF PolicyStep
      <3>2. CASE x5' = [x5 EXCEPT !.todo = @ \ {s}, !.failed = TRUE]
        BY <2>1, <2>2, <3>2 DEF PolicyStep
      <3> QED  BY <1>7, <3>1, <3>2 DEF P!Unblock
    <2>4. x1' \in [Services -> {"none", "up", "blocked"}]
          /\ \A r \in Services : x1'[r] = "blocked" => x1[r] = "blocked"
      BY <1>1, <1>7 DEF P!Unblock, P!Renewed, PolicyTypes
    <2>5. x5'.failed \/ (/\ ~x5.failed /\ x5'.todo = x5.todo \ {s} /\ x1'[s] # "blocked")
      <3>1. CASE P!Renewed(s) /\ x5' = [x5 EXCEPT !.todo = @ \ {s}]
        <4>1. x1'[s] # "blocked"
          BY <1>1, <3>1 DEF P!Renewed, PolicyTypes
        <4>2. x5'.failed = x5.failed /\ x5'.todo = x5.todo \ {s}
          BY <2>2, <3>1 DEF PolicyStep
        <4> QED  BY <4>1, <4>2
      <3>2. CASE x5' = [x5 EXCEPT !.todo = @ \ {s}, !.failed = TRUE]
        BY <2>2, <3>2 DEF PolicyStep
      <3> QED  BY <1>7, <3>1, <3>2 DEF P!Unblock
    <2>6. ~x5'.failed => \A r \in x3.list \ x5'.todo : x1'[r] # "blocked"
      <3>1. SUFFICES ASSUME ~x5'.failed, NEW r \in x3.list \ x5'.todo
                     PROVE  x1'[r] # "blocked"
        OBVIOUS
      <3>2. r \in Services
        BY <1>2, <2>2 DEF P!Policy
      <3>3. CASE r = s
        BY <2>5, <3>1, <3>3
      <3>4. CASE r # s
        <4>1. ~x5.failed /\ r \in x3.list \ x5.todo
          BY <2>5, <3>1, <3>4
        <4>2. x1[r] # "blocked"
          BY <2>1, <2>2, <4>1 DEF PolicyInv, PolicyGivesBack
        <4> QED  BY <2>4, <3>2, <4>2
      <3> QED  BY <3>3, <3>4
    <2>7. PolicyTypes'
      BY <1>1, <2>1, <2>3, <2>4 DEF PolicyTypes
    <2>8. \A r \in Services : x1'[r] = "blocked" => r \in x3'.list \cup x9
      BY <1>2, <2>1, <2>2, <2>4 DEF PolicyInv, PolicyRecorded
    <2>9. x3' \in P!Policy /\ x3'.force = x3.force /\ (x4.list \subseteq x3'.list \/ x5.user)
      BY <1>2, <2>1, <2>2
    <2> QED  BY <2>1, <2>2, <2>3, <2>6, <2>7, <2>8, <2>9, PolicyGoesOn
  <1>8. CASE P!Applied
    <2>1. x5.kind \in {"block", "unblock"} /\ x5.todo = {}
          /\ UNCHANGED <<x1, x2, x4, x6, x7, x10>>
      BY <1>8 DEF P!Applied
    <2>2. x5 # P!Idle /\ x5 \in PolicyStep
      BY <1>2, <2>1 DEF P!Idle
    <2>3. CASE P!Fails
      <3>1. x10' \in 0..MaxFaults
        BY <1>1, <2>1 DEF PolicyTypes
      <3> QED  BY <2>1, <2>2, <2>3, <3>1, PolicyFails
    <2>4. CASE /\ x3' = IF x5.kind = "unblock" /\ ~x5.failed
                        THEN [x3 EXCEPT !.list = {}] ELSE x3
               /\ x5' = [x5 EXCEPT !.kind = "save"] /\ UNCHANGED <<x8, x9>>
      <3>1. x5' \in PolicyStep /\ x5'.user = x5.user /\ x5'.before = x5.before
            /\ x5'.kind = "save" /\ x5'.failed = x5.failed
        BY <2>2, <2>4 DEF PolicyStep
      <3>2. x3' \in P!Policy /\ x3'.force = x3.force /\ x3'.list \subseteq x3.list
        BY <1>2, <2>2, <2>4 DEF P!Policy
      <3>3. PolicyTypes'
        BY <1>1, <2>1, <2>4, <3>1, <3>2 DEF PolicyTypes
      <3>4. x3'.list = x3.list \/ (x5.kind = "unblock" /\ ~x5.failed)
        BY <2>4
      <3>5. x4.list \subseteq x3'.list \/ x5.user
        BY <1>2, <2>2, <3>4 DEF PolicyInv, PolicyGivesBack
      <3>6. \A s \in Services : x1'[s] = "blocked" => s \in x3'.list \cup x9
        <4>1. SUFFICES ASSUME NEW s \in Services, x1[s] = "blocked"
                       PROVE  s \in x3'.list \cup x9
          BY <2>1
        <4>2. s \in x3.list \cup x9
          BY <1>2, <2>2, <4>1 DEF PolicyInv, PolicyRecorded
        <4>3. x5.kind = "unblock" /\ ~x5.failed => s \notin x3.list
          BY <2>1, <2>2, <4>1 DEF PolicyInv, PolicyGivesBack
        <4> QED  BY <3>4, <4>2, <4>3
      <3> QED  BY <2>1, <2>2, <2>4, <3>1, <3>2, <3>3, <3>5, <3>6, PolicyGoesOn
    <2> QED  BY <1>8, <2>3, <2>4 DEF P!Applied
  <1>9. CASE P!Save
    <2>1. x5.kind = "save" /\ x4' = x3 /\ UNCHANGED <<x1, x2, x6, x10>>
      BY <1>9 DEF P!Save
    <2>2. x5 # P!Idle /\ x5 \in PolicyStep
      BY <1>2, <2>1 DEF P!Idle
    <2>3. CASE x5.failed
      <3>1. P!Fails /\ x7' = x7
        BY <1>9, <2>3 DEF P!Save
      <3>2. x10' \in 0..MaxFaults
        BY <1>1, <2>1 DEF PolicyTypes
      <3> QED  BY <2>1, <2>2, <2>3, <3>1, <3>2, PolicyFails
    <2>4. CASE ~x5.failed
      <3>1. /\ x5' = P!Idle /\ UNCHANGED <<x3, x9>>
            /\ IF x5.user THEN x7' = x3.force /\ x8' = FALSE ELSE UNCHANGED <<x7, x8>>
        BY <1>9, <2>4 DEF P!Save
      <3>2. x3 \in P!Policy /\ P!Loaded = x3 /\ x3.force \in BOOLEAN
        BY <1>2, <2>2 DEF P!Policy
      <3>3. P!Loaded' = x3
        BY <3>1, <3>2, PolicyIsLoaded DEF P!Loaded
      <3>4. x7' \in BOOLEAN /\ x8' \in BOOLEAN
        BY <1>1, <3>1, <3>2 DEF PolicyTypes
      <3>5. PolicyTypes'
        BY <1>1, <2>1, <3>1, <3>2, <3>4 DEF PolicyTypes
      <3>6. PolicyKeepsList'
        BY <2>1, <3>1, <3>3 DEF PolicyKeepsList
      <3>7. PolicyRecorded'
        BY <2>1, <3>1, <3>2, <3>3 DEF PolicyInv, PolicyRecorded
      <3>8. PolicyTold'
        <4>1. CASE x5.user
          BY <2>1, <3>1, <3>3, <4>1 DEF PolicyTold
        <4>2. CASE ~x5.user
          BY <2>1, <3>1, <3>2, <3>3, <4>2 DEF PolicyInv, PolicyTold
        <4> QED  BY <4>1, <4>2
      <3> QED  BY <3>1, <3>5, <3>6, <3>7, <3>8
               DEF PolicyInv, PolicyLoaded, PolicyBlocks, PolicyGivesBack
    <2> QED  BY <2>3, <2>4
  <1>10. CASE P!SaveFails
    <2>1. x5.kind = "save" /\ x4' = x4 /\ P!Fails /\ x10 < MaxFaults /\ x10' = x10 + 1
          /\ UNCHANGED <<x1, x2, x6, x7>>
      BY <1>10 DEF P!SaveFails
    <2>2. x5 # P!Idle
      BY <2>1 DEF P!Idle
    <2>3. x10' \in 0..MaxFaults
      BY <1>1, <2>1, PolicyAssumption DEF PolicyTypes
    <2> QED  BY <2>1, <2>2, <2>3, PolicyFails
  <1>11. CASE P!Crash
    <2>1. /\ x10 < MaxFaults /\ x10' = x10 + 1
          /\ x3' = P!Unloaded /\ x5' = P!Idle /\ x6' = P!NoRepair
          /\ x9' = x9 \cup (P!Loaded.list \ x4.list)
          /\ x8' = (x8 \/ x5 # P!Idle)
          /\ UNCHANGED <<x1, x2, x4, x7>>
      BY <1>11 DEF P!Crash
    <2>2. P!Loaded' = x4 /\ P!Loaded.list \subseteq Services
      BY <1>1, <2>1 DEF P!Loaded, P!Policy
    <2>3. x10' \in 0..MaxFaults
      BY <1>1, <2>1, PolicyAssumption DEF PolicyTypes
    <2>4. x8' \in BOOLEAN /\ x9' \subseteq Services
      BY <1>1, <2>1, <2>2 DEF PolicyTypes
    <2>5. PolicyTypes'
      BY <1>1, <2>1, <2>3, <2>4 DEF PolicyTypes
    <2>6. PolicyKeepsList'
      BY <2>1, <2>2 DEF PolicyKeepsList
    <2>7. PolicyRecorded'
      BY <2>1, <2>2 DEF PolicyInv, PolicyRecorded
    <2>8. x8' \/ x4.force = x7
      BY <2>1 DEF PolicyInv, PolicyTold
    <2>9. PolicyTold'
      BY <2>1, <2>2, <2>8 DEF PolicyTold
    <2> QED  BY <2>1, <2>5, <2>6, <2>7, <2>9 DEF PolicyInv, PolicyLoaded, PolicyBlocks, PolicyGivesBack
  <1>12. ASSUME NEW s \in Services, P!RepairBegins(s) \/ P!Outside(s)  PROVE PolicyInv'
    <2>1. UNCHANGED <<x3, x4, x5, x7, x8, x9, x10>>
      BY <1>12 DEF P!RepairBegins, P!Outside
    <2>2. x2' \in [Services -> {"absent", "off", "on"}]
      BY <1>1, <1>12 DEF P!RepairBegins, P!Outside, PolicyTypes
    <2>3. x6' \in {P!NoRepair} \cup [service : Services, left : 1..2]
      BY <1>1, <1>12 DEF P!RepairBegins, P!Outside, PolicyTypes
    <2>4. x1' \in [Services -> {"none", "up", "blocked"}]
          /\ \A r \in Services : x1'[r] = "blocked" => x1[r] = "blocked"
      BY <1>1, <1>12 DEF P!RepairBegins, P!Outside, P!Renewed, PolicyTypes
    <2>5. PolicyTypes'
      BY <1>1, <2>1, <2>2, <2>3, <2>4 DEF PolicyTypes
    <2> QED  BY <2>1, <2>4, <2>5, PolicyOutside
  <1>13. CASE P!RepairEnds \/ P!Renew
    <2>1. UNCHANGED <<x2, x3, x4, x5, x7, x8, x9, x10>>
      BY <1>13 DEF P!RepairEnds, P!Renew
    <2>2. x6 # P!NoRepair
      BY <1>13 DEF P!RepairEnds, P!Renew
    <2>3. x6.service \in Services /\ x6 \in [service : Services, left : 1..2]
      BY <1>1, <2>2 DEF PolicyTypes
    <2>4. x6' \in {P!NoRepair} \cup [service : Services, left : 1..2]
      BY <1>13, <2>3 DEF P!RepairEnds, P!Renew
    <2>5. x1' \in [Services -> {"none", "up", "blocked"}]
          /\ \A r \in Services : x1'[r] = "blocked" => x1[r] = "blocked"
      BY <1>1, <1>13, <2>3 DEF P!RepairEnds, P!Renew, P!Renewed, PolicyTypes
    <2>6. PolicyTypes'
      BY <1>1, <2>1, <2>4, <2>5 DEF PolicyTypes
    <2> QED  BY <2>1, <2>5, <2>6, PolicyOutside
  <1> QED
    BY <1>3, <1>4, <1>5, <1>6, <1>7, <1>8, <1>9, <1>10, <1>11, <1>12, <1>13 DEF P!Next

-----------------------------------------------------------------------------
(* The notes in the module's phonebook *)

SaverStep ==
    [at : {"status", "read", "decide", "write"}, profile : Profiles,
     note : Note \cup {B!None}, index : 0..Slots, free : SUBSET B!Place,
     has : SUBSET B!Place]
\* Where the module's phonebook has a note of a profile.
NotesOf(p) == {i \in B!Place : x1["ME"][i] \in {p} \X Note}

BookTypes ==
    /\ x1 \in [{"ME", "SM"} -> [B!Place -> B!Entry]] /\ x2 \in {"ME", "SM"}
    /\ x3 \in {B!Resting} \cup SaverStep /\ x4 \in {"idle", "select"}
    /\ x5 \in BOOLEAN /\ x6 \in BOOLEAN
    /\ x7 \in [Profiles -> Note \cup {B!None, "unknown"}] /\ x8 \in 0..MaxTroubles
\* What a request has read is what the module's phonebook has, while it is the
\* selected one, and it writes over no entry but the profile's or a free one.
SaverKnows ==
    x3 # B!Resting =>
        /\ x5 <=> x2 = "SM"
        /\ x3.at \in {"decide", "write"} /\ x2 = "ME" =>
              /\ x3.has = NotesOf(x3.profile)
              /\ x3.free = {i \in B!Place : x1["ME"][i] = B!Free}
        /\ x3.at \in {"status", "read"} => x3.has = {}
        /\ x3.at = "write" =>
              IF x3.has # {} THEN x3.index \in x3.has
              ELSE x3.index \in x3.free /\ x3.note # B!None
OneNoteEach ==
    \A p \in Profiles : \A i, j \in NotesOf(p) : i = j
ToldIsThere ==
    \A p \in Profiles :
        /\ x7[p] = B!None => NotesOf(p) = {}
        /\ x7[p] \in Note => \E i \in B!Place : x1["ME"][i] = <<p, x7[p]>>
OthersStay ==
    /\ x1["ME"][B!Held.ME] = B!Contact
    /\ x6 \/ \A i \in B!Place :
                x1["SM"][i] = IF i = B!Held.SM THEN B!Contact ELSE B!Free
BookInv == BookTypes /\ SaverKnows /\ OneNoteEach /\ ToldIsThere /\ OthersStay

LEMMA EntriesDiffer ==
  ASSUME NEW p \in Profiles, NEW n \in Note
  PROVE  <<p, n>> # B!Free /\ <<p, n>> # B!Contact /\ n # B!None /\ n # "unknown"
  BY PhonebookAssumption DEF B!Free, B!Contact, B!None

LEMMA NotNotes ==
  ASSUME NEW p \in Profiles
  PROVE  B!Free \notin {p} \X Note /\ B!Contact \notin {p} \X Note
         /\ B!Free # B!Contact
  BY PhonebookAssumption DEF B!Free, B!Contact

LEMMA SaverIsBusy ==
  ASSUME NEW s \in SaverStep  PROVE s # B!Resting
  BY DEF SaverStep, B!Resting

LEMMA BookCountIs == ASSUME NEW some  PROVE B!Cardinality(some) = Cardinality(some)
  BY DEF B!Cardinality, Cardinality

LEMMA BookInit ==
  ASSUME B!Init  PROVE BookInv
  <1>1. /\ x1 = [storage \in {"ME", "SM"} |->
                    [i \in B!Place |-> IF i = B!Held[storage] THEN B!Contact ELSE B!Free]]
        /\ x3 = B!Resting /\ x2 \in {"ME", "SM"} /\ x4 = "idle"
        /\ x7 = [p \in Profiles |-> "unknown"] /\ x8 = 0
    BY DEF B!Init
  <1>2. x5 = FALSE /\ x6 = FALSE
    BY DEF B!Init
  <1>3. \A i \in B!Place : x1["ME"][i] \in {B!Free, B!Contact}
          /\ x1["SM"][i] = IF i = B!Held.SM THEN B!Contact ELSE B!Free
    BY <1>1 DEF B!Held
  <1>4. B!Held.ME \in B!Place /\ x1["ME"][B!Held.ME] = B!Contact
    BY <1>1, PhonebookAssumption DEF B!Held, B!Place
  <1>5. BookTypes
    <2>1. x5 \in BOOLEAN /\ x6 \in BOOLEAN
      BY <1>2
    <2>2. x1 \in [{"ME", "SM"} -> [B!Place -> B!Entry]]
      BY <1>1 DEF B!Entry
    <2>3. x8 \in 0..MaxTroubles
      BY <1>1, PhonebookAssumption
    <2> QED  BY <1>1, <2>1, <2>2, <2>3 DEF BookTypes
  <1>6. \A p \in Profiles : NotesOf(p) = {}
    BY <1>3, NotNotes DEF NotesOf
  <1>7. \A p \in Profiles : x7[p] # B!None /\ x7[p] \notin Note
    BY <1>1, PhonebookAssumption DEF B!None
  <1> QED
    BY <1>1, <1>3, <1>4, <1>5, <1>6, <1>7
    DEF BookInv, SaverKnows, OneNoteEach, ToldIsThere, OthersStay

LEMMA BookKept ==
  ASSUME BookInv  PROVE B!TypeOK /\ B!PhonebookIsKept
  <1>1. \A storage \in {"ME", "SM"} : \A i \in B!Place : x1[storage][i] \in B!Entry
    BY DEF BookInv, BookTypes
  <1>2. x3.at \in {"idle", "status", "read", "decide", "write"}
    BY DEF BookInv, BookTypes, SaverStep, B!Resting
  <1>3. {x5, x6} \subseteq BOOLEAN
    BY DEF BookInv, BookTypes
  <1>4. B!TypeOK
    BY <1>1, <1>2, <1>3 DEF BookInv, BookTypes, B!TypeOK
  <1>5. ASSUME NEW p \in Profiles, x7[p] # "unknown"  PROVE B!OneEntry(p)
    <2>1. B!OneEntry(p) = (Cardinality(NotesOf(p)) = IF x7[p] = B!None THEN 0 ELSE 1)
      BY BookCountIs DEF B!OneEntry, NotesOf
    <2>2. CASE x7[p] = B!None
      <3>1. NotesOf(p) = {}
        BY <2>2 DEF BookInv, ToldIsThere
      <3> QED  BY <2>1, <2>2, <3>1, FS_EmptySet
    <2>3. CASE x7[p] # B!None
      <3>1. x7[p] \in Note
        BY <1>5, <2>3 DEF BookInv, BookTypes
      <3>2. PICK i \in B!Place : x1["ME"][i] = <<p, x7[p]>>
        BY <3>1 DEF BookInv, ToldIsThere
      <3>3. i \in NotesOf(p)
        BY <3>1, <3>2 DEF NotesOf
      <3>4. NotesOf(p) = {i}
        BY <3>3 DEF BookInv, OneNoteEach
      <3> QED  BY <2>1, <2>3, <3>4, FS_Singleton
    <2> QED  BY <2>2, <2>3
  <1>6. \A p \in Profiles : x7[p] \in Note =>
          <<p, x7[p]>> \in {x1["ME"][i] : i \in B!Place}
    BY DEF BookInv, ToldIsThere
  <1> QED  BY <1>4, <1>5, <1>6 DEF BookInv, OthersStay, B!PhonebookIsKept

LEMMA LeastOf ==
  ASSUME NEW some \in SUBSET Nat, some # {}
  PROVE  \E n \in some : \A m \in some : n <= m
  <1>1. \E n \in some : \A m \in some : ~ (<<m, n>> \in OpToRel(<, Nat))
    BY NatLessThanWellFounded, WFMin
  <1>2. PICK n \in some : \A m \in some : ~ (<<m, n>> \in OpToRel(<, Nat))
    BY <1>1
  <1>3. \A m \in some : ~ (m < n)
    BY <1>2 DEF OpToRel
  <1> QED  BY <1>3

LEMMA LastIndex ==
  ASSUME NEW some \in SUBSET B!Place, some # {}
  PROVE  B!Most(some) \in some
  <1> DEFINE away == {n \in Nat : Slots - n \in some}
  <1>1. away \subseteq Nat /\ away # {}
    <2>1. PICK i \in some : i \in 1..Slots
      BY DEF B!Place
    <2>2. Slots - i \in Nat /\ Slots - (Slots - i) = i
      BY <2>1, PhonebookAssumption
    <2> QED  BY <2>1, <2>2
  <1>2. PICK n \in away : \A m \in away : n <= m
    BY <1>1, LeastOf
  <1>3. \A j \in some : Slots - n >= j
    <2>1. SUFFICES ASSUME NEW j \in some  PROVE Slots - n >= j
      OBVIOUS
    <2>2. j \in 1..Slots /\ Slots \in Nat /\ n \in Nat
      BY PhonebookAssumption DEF B!Place
    <2>3. Slots - j \in Nat /\ Slots - (Slots - j) = j
      BY <2>2
    <2>4. n <= Slots - j
      BY <1>2, <2>3
    <2> QED  BY <2>2, <2>4
  <1>4. Slots - n \in some
    OBVIOUS
  <1> QED  BY <1>3, <1>4 DEF B!Most

LEMMA FirstIndex ==
  ASSUME NEW some \in SUBSET B!Place, some # {}
  PROVE  B!Fewest(some) \in some
  <1>1. some \subseteq Nat
    BY PhonebookAssumption DEF B!Place
  <1>2. \E n \in some : \A m \in some : n <= m
    BY <1>1, LeastOf
  <1> QED  BY <1>2 DEF B!Fewest

\* The entry of a request goes where it belongs, or a disturbed request spoils the
\* SIM's phonebook.
LEMMA BookPut ==
  ASSUME BookInv, x3 # B!Resting, x3.at = "write", B!Put, NEW p, p = x3.profile
  PROVE  /\ x1' \in [{"ME", "SM"} -> [B!Place -> B!Entry]] /\ x6' \in BOOLEAN
         /\ OthersStay' /\ OneNoteEach'
         /\ \A q \in Profiles : q # p =>
               \A i \in B!Place, n \in Note : (x1'["ME"][i] = <<q, n>>) = (x1["ME"][i] = <<q, n>>)
         /\ x2 = "ME" =>
               IF x3.note = B!None THEN NotesOf(p)' = {}
               ELSE \E i \in B!Place : x1'["ME"][i] = <<p, x3.note>>
         /\ x2 = "SM" => x5
  <1> DEFINE entry == IF x3.note = B!None THEN B!Free ELSE <<p, x3.note>>
             k == x3.index
  <1>1. /\ x1' = [x1 EXCEPT ![x2][k] = entry] /\ x6' = (x6 \/ x5)
        /\ x3 \in SaverStep /\ x2 \in {"ME", "SM"}
    BY DEF B!Put, BookInv, BookTypes
  <1>2. p \in Profiles /\ x3.note \in Note \cup {B!None}
        /\ x3.has \subseteq B!Place /\ x3.free \subseteq B!Place
    BY <1>1 DEF SaverStep
  <1>3. k \in B!Place /\ (x3.has # {} => k \in x3.has)
        /\ (x3.has = {} => k \in x3.free /\ x3.note # B!None)
    BY <1>2 DEF BookInv, SaverKnows
  <1>4. entry \in B!Entry
    BY <1>2 DEF B!Entry
  <1>5. /\ entry = B!Free \/ \E n \in Note : entry = <<p, n>>
        /\ x3.note = B!None => entry = B!Free
        /\ x3.note # B!None => x3.note \in Note /\ entry = <<p, x3.note>>
    BY <1>2
  <1> HIDE DEF entry, k
  <1>6. x1' \in [{"ME", "SM"} -> [B!Place -> B!Entry]]
    BY <1>1, <1>3, <1>4 DEF BookInv, BookTypes
  <1>7. x6' \in BOOLEAN
    BY <1>1 DEF BookInv, BookTypes
  <1>8. x5 <=> x2 = "SM"
    BY DEF BookInv, SaverKnows
  <1>9. CASE x2 = "SM"
    <2>1. x1'["ME"] = x1["ME"]
      BY <1>1, <1>9 DEF BookInv, BookTypes
    <2>2. \A q \in Profiles : NotesOf(q)' = NotesOf(q)
      BY <2>1 DEF NotesOf
    <2>3. x6'
      BY <1>1, <1>8, <1>9
    <2>4. OthersStay' /\ OneNoteEach'
      BY <2>1, <2>2, <2>3 DEF BookInv, OthersStay, OneNoteEach
    <2> QED  BY <1>6, <1>7, <1>8, <1>9, <2>1, <2>4
  <1>10. CASE x2 = "ME"
    <2>1. /\ x1'["SM"] = x1["SM"] /\ x1'["ME"] = [x1["ME"] EXCEPT ![k] = entry]
      BY <1>1, <1>10 DEF BookInv, BookTypes
    <2>2. x1'["ME"][k] = entry /\ \A i \in B!Place : i # k => x1'["ME"][i] = x1["ME"][i]
      BY <1>3, <2>1 DEF BookInv, BookTypes
    <2>3. x3.has = NotesOf(p) /\ x3.free = {i \in B!Place : x1["ME"][i] = B!Free}
      BY <1>10 DEF BookInv, SaverKnows
    <2>4. x1["ME"][k] = B!Free \/ x1["ME"][k] \in {p} \X Note
      BY <1>3, <2>3 DEF NotesOf
    <2>5. \A q \in Profiles : q # p => x1["ME"][k] \notin {q} \X Note /\ entry \notin {q} \X Note
      BY <1>2, <1>5, <2>4, NotNotes
    <2>6. \A q \in Profiles : q # p => NotesOf(q)' = NotesOf(q)
      BY <2>2, <2>5 DEF NotesOf
    <2>7. \A i \in NotesOf(p)' : i = k
      <3>1. SUFFICES ASSUME NEW i \in B!Place, i # k, x1'["ME"][i] \in {p} \X Note
                     PROVE  FALSE
        BY DEF NotesOf
      <3>2. i \in NotesOf(p)
        BY <2>2, <3>1 DEF NotesOf
      <3>3. k \in NotesOf(p)
        BY <1>3, <2>3, <3>2
      <3> QED  BY <1>2, <3>1, <3>2, <3>3 DEF BookInv, OneNoteEach
    <2>8. OneNoteEach'
      BY <2>6, <2>7 DEF BookInv, OneNoteEach
    <2>9. x1'["ME"][B!Held.ME] = B!Contact
      <3>1. x1["ME"][B!Held.ME] = B!Contact /\ B!Held.ME \in B!Place
        BY PhonebookAssumption DEF BookInv, OthersStay, B!Held, B!Place
      <3>2. x1["ME"][k] # B!Contact
        BY <1>2, <2>4, NotNotes
      <3> QED  BY <2>2, <3>1, <3>2
    <2>10. ~x5 /\ (x6' = x6)
      BY <1>1, <1>8, <1>10 DEF BookInv, BookTypes
    <2>11. OthersStay'
      BY <2>1, <2>9, <2>10 DEF BookInv, OthersStay
    <2>12. x3.note = B!None => NotesOf(p)' = {}
      <3>1. SUFFICES ASSUME x3.note = B!None, NEW i \in NotesOf(p)'  PROVE FALSE
        OBVIOUS
      <3>2. i = k /\ x1'["ME"][k] \in {p} \X Note
        BY <2>7, <3>1 DEF NotesOf
      <3> QED  BY <1>2, <1>5, <2>2, <3>1, <3>2, NotNotes
    <2>13. x3.note # B!None => x1'["ME"][k] = <<p, x3.note>>
      BY <1>5, <2>2
    <2>14. ASSUME NEW q \in Profiles, q # p, NEW i \in B!Place, NEW n \in Note
           PROVE  (x1'["ME"][i] = <<q, n>>) = (x1["ME"][i] = <<q, n>>)
      <3>1. CASE i = k
        <4>1. <<q, n>> \in {q} \X Note
          OBVIOUS
        <4> QED  BY <2>2, <2>5, <2>14, <3>1, <4>1
      <3>2. CASE i # k
        BY <2>2, <3>2
      <3> QED  BY <3>1, <3>2
    <2> QED  BY <1>3, <1>6, <1>7, <1>10, <2>8, <2>11, <2>12, <2>13, <2>14
  <1> QED  BY <1>1, <1>9, <1>10

\* What is told of the other profiles holds on, if their entries stay.
OthersKeep(p) ==
  \A q \in Profiles : q # p =>
     /\ x7'[q] = x7[q]
     /\ \A i \in B!Place, n \in Note : (x1'["ME"][i] = <<q, n>>) = (x1["ME"][i] = <<q, n>>)

LEMMA BookTold ==
  ASSUME BookInv, NEW p, OthersKeep(p),
         p \in Profiles =>
            \/ x7'[p] = "unknown"
            \/ /\ x7'[p] = B!None => NotesOf(p)' = {}
               /\ x7'[p] \in Note => \E i \in B!Place : x1'["ME"][i] = <<p, x7'[p]>>
  PROVE  ToldIsThere'
  <1>1. "unknown" # B!None /\ "unknown" \notin Note
    BY PhonebookAssumption DEF B!None
  <1>2. ASSUME NEW q \in Profiles, q # p, x7'[q] = B!None  PROVE NotesOf(q)' = {}
    <2>1. NotesOf(q) = {}
      BY <1>2 DEF BookInv, ToldIsThere, OthersKeep
    <2>2. ASSUME NEW i \in B!Place, NEW n \in Note  PROVE x1'["ME"][i] # <<q, n>>
      <3>1. <<q, n>> \in {q} \X Note
        OBVIOUS
      <3>2. x1["ME"][i] # <<q, n>>
        BY <2>1, <3>1 DEF NotesOf
      <3> QED  BY <1>2, <3>2 DEF OthersKeep
    <2>3. ASSUME NEW i \in B!Place  PROVE x1'["ME"][i] \notin {q} \X Note
      BY <2>2
    <2> QED  BY <2>3 DEF NotesOf
  <1>3. ASSUME NEW q \in Profiles, q # p, x7'[q] \in Note
        PROVE  \E i \in B!Place : x1'["ME"][i] = <<q, x7'[q]>>
    BY <1>3 DEF BookInv, ToldIsThere, OthersKeep
  <1> QED  BY <1>1, <1>2, <1>3 DEF ToldIsThere

\* The request ends, and knows nothing of its profile's entry; what is in the
\* module's phonebook is there for the other profiles.
LEMMA BookFails ==
  ASSUME BookInv, x3 # B!Resting, B!Fails,
         \/ UNCHANGED <<x1, x6>>
         \/ x3.at = "write" /\ B!Put
  PROVE  BookInv'
  <1>1. PICK p : p = x3.profile
    OBVIOUS
  <1>2. /\ x3' = B!Resting /\ x7' = [x7 EXCEPT ![p] = "unknown"]
        /\ UNCHANGED <<x2, x4, x5, x8>>
    BY <1>1 DEF B!Fails
  <1>3. /\ x1' \in [{"ME", "SM"} -> [B!Place -> B!Entry]] /\ x6' \in BOOLEAN
        /\ OthersStay' /\ OneNoteEach'
        /\ \A q \in Profiles : q # p =>
             \A i \in B!Place, n \in Note : (x1'["ME"][i] = <<q, n>>) = (x1["ME"][i] = <<q, n>>)
    <2>1. CASE UNCHANGED <<x1, x6>>
      BY <2>1 DEF BookInv, BookTypes, OthersStay, OneNoteEach, NotesOf
    <2>2. CASE x3.at = "write" /\ B!Put
      BY <1>1, <2>2, BookPut
    <2> QED  BY <2>1, <2>2
  <1>4. x7' \in [Profiles -> Note \cup {B!None, "unknown"}]
        /\ \A q \in Profiles : q # p => x7'[q] = x7[q]
    BY <1>2 DEF BookInv, BookTypes
  <1>5. p \in Profiles => x7'[p] = "unknown"
    BY <1>2 DEF BookInv, BookTypes
  <1>6. ToldIsThere'
    <2>1. OthersKeep(p)
      BY <1>3, <1>4 DEF OthersKeep
    <2> QED  BY <1>5, <2>1, BookTold, PhonebookAssumption DEF B!None
  <1>7. BookTypes'
    BY <1>2, <1>3, <1>4 DEF BookInv, BookTypes
  <1> QED  BY <1>2, <1>3, <1>6, <1>7 DEF BookInv, SaverKnows

\* The phonebook stays, and the request that holds it too or it ends.
LEMMA BookStays ==
  ASSUME BookInv, x1' = x1, x6' = x6, x7' = x7, BookTypes',
         \/ x3' = B!Resting
         \/ /\ x3' = x3
            /\ (x2' = x2 /\ x5' = x5) \/ (x2' = "SM" /\ x5' = TRUE)
  PROVE  BookInv'
  <1>1. \A p \in Profiles : NotesOf(p)' = NotesOf(p)
    BY DEF NotesOf
  <1>2. OneNoteEach' /\ ToldIsThere' /\ OthersStay'
    BY <1>1 DEF BookInv, OneNoteEach, ToldIsThere, OthersStay
  <1>3. SaverKnows'
    <2>1. CASE x3' = B!Resting
      BY <2>1 DEF SaverKnows
    <2>2. CASE x3' = x3 /\ x2' = x2 /\ x5' = x5
      BY <2>2 DEF BookInv, SaverKnows, NotesOf
    <2>3. CASE x3' = x3 /\ x2' = "SM" /\ x5' = TRUE
      BY <2>3 DEF BookInv, SaverKnows
    <2> QED  BY <2>1, <2>2, <2>3
  <1> QED  BY <1>2, <1>3 DEF BookInv

LEMMA BookNext ==
  ASSUME BookInv, B!Next  PROVE BookInv'
  <1>1. BookTypes
    BY DEF BookInv
  <1>2. ASSUME x3.at \in {"status", "read", "decide", "write"}
        PROVE  x3 \in SaverStep /\ x3 # B!Resting
    BY <1>1, <1>2 DEF BookTypes, B!Resting
  <1>3. ASSUME NEW p \in Profiles, NEW n \in Note \cup {B!None}, B!SaveEntry(p, n)
        PROVE  BookInv'
    <2>1. /\ x3' = [at |-> "status", profile |-> p, note |-> n, index |-> 0,
                    free |-> {}, has |-> {}]
          /\ x2' = "ME" /\ x5' = FALSE /\ UNCHANGED <<x1, x4, x6, x7, x8>>
      BY <1>3 DEF B!SaveEntry
    <2>2. x3' \in SaverStep /\ x3'.at = "status" /\ x3'.has = {}
      BY <2>1, PhonebookAssumption DEF SaverStep
    <2>3. BookTypes'
      <3>1. x5' \in BOOLEAN
        BY <2>1
      <3> QED  BY <1>1, <2>1, <2>2, <3>1 DEF BookTypes
    <2>4. SaverKnows'
      BY <2>1, <2>2 DEF SaverKnows
    <2>5. OneNoteEach' /\ ToldIsThere' /\ OthersStay'
      BY <2>1 DEF BookInv, OneNoteEach, ToldIsThere, OthersStay, NotesOf
    <2> QED  BY <2>3, <2>4, <2>5 DEF BookInv
  <1>4. ASSUME NEW s \in SaverStep, x3' = s, x3 \in SaverStep, s.profile = x3.profile,
               UNCHANGED <<x1, x2, x4, x5, x6, x7, x8>>,
               s.at \in {"decide", "write"} /\ x2 = "ME" =>
                  /\ s.has = NotesOf(s.profile)
                  /\ s.free = {i \in B!Place : x1["ME"][i] = B!Free},
               s.at = "write" => IF s.has # {} THEN s.index \in s.has
                                 ELSE s.index \in s.free /\ s.note # B!None,
               s.at \in {"status", "read"} => s.has = {}
        PROVE  BookInv'
    <2>1. BookTypes'
      BY <1>1, <1>4 DEF BookTypes
    <2>2. OneNoteEach' /\ ToldIsThere' /\ OthersStay'
      BY <1>4 DEF BookInv, OneNoteEach, ToldIsThere, OthersStay, NotesOf
    <2>3. x3 # B!Resting
      BY <1>4, SaverIsBusy
    <2>4. x5 <=> x2 = "SM"
      BY <2>3 DEF BookInv, SaverKnows
    <2>5. SaverKnows'
      BY <1>4, <2>4 DEF SaverKnows, NotesOf
    <2> QED  BY <2>1, <2>2, <2>5 DEF BookInv
  <1>5. CASE B!Status
    <2>1. x3.at = "status" /\ x3 \in SaverStep /\ x3 # B!Resting /\ x3.has = {}
      BY <1>2, <1>5 DEF B!Status, BookInv, SaverKnows
    <2>2. CASE x2 = "ME"
      <3>1. UNCHANGED <<x1, x2, x4, x5, x6, x7, x8>>
        BY <1>5, <2>2 DEF B!Status
      <3>2. CASE B!Used = {} /\ x3' = [x3 EXCEPT !.at = "decide", !.free = B!Place]
        <4>1. PICK s : s = [x3 EXCEPT !.at = "decide", !.free = B!Place]
          OBVIOUS
        <4>2. s \in SaverStep /\ s.at = "decide" /\ s.free = B!Place /\ s.has = x3.has
              /\ s.profile = x3.profile /\ s.note = x3.note
          BY <2>1, <4>1 DEF SaverStep
        <4>3. \A i \in B!Place : x1["ME"][i] = B!Free
          BY <2>2, <3>2 DEF B!Used
        <4>4. NotesOf(s.profile) = {}
          BY <4>2, <4>3, NotNotes DEF NotesOf, SaverStep
        <4> QED  BY <1>4, <2>1, <3>1, <3>2, <4>1, <4>2, <4>3, <4>4
      <3>3. CASE x3' = [x3 EXCEPT !.at = "read"]
        <4>1. PICK s : s = [x3 EXCEPT !.at = "read"]
          OBVIOUS
        <4>2. s \in SaverStep /\ s.at = "read" /\ s.has = {} /\ s.profile = x3.profile
          BY <2>1, <4>1 DEF SaverStep
        <4> QED  BY <1>4, <2>1, <3>1, <3>3, <4>1, <4>2
      <3> QED  BY <1>5, <2>2, <3>2, <3>3 DEF B!Status
    <2>3. CASE x2 # "ME"
      <3>1. B!Fails /\ UNCHANGED <<x1, x6>>
        BY <1>5, <2>3 DEF B!Status
      <3> QED  BY <2>1, <3>1, BookFails
    <2> QED  BY <2>2, <2>3
  <1>6. CASE B!Read
    <2>1. x3.at = "read" /\ x3 \in SaverStep /\ x3.profile \in Profiles
          /\ UNCHANGED <<x1, x2, x4, x5, x6, x7, x8>>
      BY <1>2, <1>6 DEF B!Read, SaverStep
    <2>2. PICK has : has = {i \in B!Used : x1[x2][i] \in {x3.profile} \X Note}
      OBVIOUS
    <2>3. x3' = [x3 EXCEPT !.at = "decide", !.free = B!Place \ B!Used, !.has = has]
      BY <1>6, <2>2 DEF B!Read
    <2>4. has \in SUBSET B!Place /\ B!Place \ B!Used \in SUBSET B!Place
      BY <2>2 DEF B!Used
    <2>5. PICK s : s = [x3 EXCEPT !.at = "decide", !.free = B!Place \ B!Used, !.has = has]
      OBVIOUS
    <2>6. s \in SaverStep /\ s.at = "decide" /\ s.free = B!Place \ B!Used /\ s.has = has
          /\ s.profile = x3.profile
      BY <2>1, <2>4, <2>5 DEF SaverStep
    <2>7. x2 = "ME" => s.free = {i \in B!Place : x1["ME"][i] = B!Free}
      BY <2>6 DEF B!Used
    <2>8. x2 = "ME" => has = NotesOf(x3.profile)
      <3>1. B!Free \notin {x3.profile} \X Note
        BY <2>1, NotNotes
      <3> QED  BY <2>2, <3>1 DEF B!Used, NotesOf
    <2> QED  BY <1>4, <2>1, <2>3, <2>5, <2>6, <2>7, <2>8
  <1>7. CASE B!Decide
    <2>1. x3.at = "decide" /\ x3 \in SaverStep /\ x3.profile \in Profiles /\ x3 # B!Resting
          /\ x3.has \in SUBSET B!Place /\ x3.free \in SUBSET B!Place
          /\ UNCHANGED <<x1, x2, x4, x5, x6, x8>>
      BY <1>2, <1>7 DEF B!Decide, SaverStep
    <2>2. (x5 <=> x2 = "SM") /\ (x2 = "ME" => x3.has = NotesOf(x3.profile))
      BY <2>1 DEF BookInv, SaverKnows
    <2>3. CASE x3.has = {} /\ (x3.note = B!None \/ x3.free = {})
      <3>1. PICK answer \in {B!None, "unknown"} :
              /\ x3' = B!Resting /\ x7' = [x7 EXCEPT ![x3.profile] = answer]
              /\ answer = B!None => ~x5
        BY <1>7, <2>3 DEF B!Decide, B!None
      <3>2. PICK p : p = x3.profile
        OBVIOUS
      <3>3. x7' \in [Profiles -> Note \cup {B!None, "unknown"}] /\ x7'[p] = answer
            /\ \A q \in Profiles : q # p => x7'[q] = x7[q]
        BY <1>1, <2>1, <3>1, <3>2 DEF BookTypes
      <3>4. BookTypes'
        BY <1>1, <2>1, <3>1, <3>3 DEF BookTypes
      <3>5. answer = B!None => NotesOf(p) = {}
        BY <1>1, <2>2, <2>3, <3>1, <3>2 DEF BookTypes
      <3>6. answer \notin Note
        BY PhonebookAssumption DEF B!None
      <3>7. \A q \in Profiles : NotesOf(q)' = NotesOf(q)
        BY <2>1 DEF NotesOf
      <3>8. ToldIsThere'
        <4>1. ASSUME NEW q \in Profiles
              PROVE  /\ x7'[q] = B!None => NotesOf(q)' = {}
                     /\ x7'[q] \in Note => \E i \in B!Place : x1'["ME"][i] = <<q, x7'[q]>>
          <5>1. CASE q = p
            BY <3>3, <3>5, <3>6, <3>7, <5>1
          <5>2. CASE q # p
            BY <2>1, <3>3, <3>7, <5>2 DEF BookInv, ToldIsThere
          <5> QED  BY <5>1, <5>2
        <4> QED  BY <4>1 DEF ToldIsThere
      <3>9. OneNoteEach' /\ OthersStay'
        BY <2>1, <3>7 DEF BookInv, OneNoteEach, OthersStay
      <3> QED  BY <3>1, <3>4, <3>8, <3>9 DEF BookInv, SaverKnows
    <2>4. CASE ~(x3.has = {} /\ (x3.note = B!None \/ x3.free = {}))
      <3>1. PICK k : k = IF x3.has # {} THEN B!Most(x3.has) ELSE B!Fewest(x3.free)
        OBVIOUS
      <3>2. x3' = [x3 EXCEPT !.at = "write", !.index = k] /\ x7' = x7
        BY <1>7, <2>4, <3>1 DEF B!Decide
      <3>3. IF x3.has # {} THEN k \in x3.has ELSE k \in x3.free /\ x3.note # B!None
        BY <2>1, <2>4, <3>1, LastIndex, FirstIndex
      <3>4. k \in 0..Slots
        BY <2>1, <3>3, PhonebookAssumption DEF B!Place
      <3>5. PICK s : s = [x3 EXCEPT !.at = "write", !.index = k]
        OBVIOUS
      <3>6. s \in SaverStep /\ s.at = "write" /\ s.index = k /\ s.profile = x3.profile
            /\ s.has = x3.has /\ s.free = x3.free /\ s.note = x3.note
        BY <2>1, <3>4, <3>5 DEF SaverStep
      <3>7. x2 = "ME" => x3.free = {i \in B!Place : x1["ME"][i] = B!Free}
        BY <2>1 DEF BookInv, SaverKnows
      <3> QED  BY <1>4, <2>1, <2>2, <3>2, <3>3, <3>5, <3>6, <3>7
    <2> QED  BY <2>3, <2>4
  <1>8. CASE B!Write
    <2>1. x3.at = "write" /\ B!Put /\ x3 \in SaverStep /\ x3 # B!Resting
          /\ x3' = B!Resting /\ UNCHANGED <<x2, x4, x5, x8>>
      BY <1>2, <1>8 DEF B!Write
    <2>2. PICK p, n : p = x3.profile /\ n = x3.note
      OBVIOUS
    <2>3. p \in Profiles /\ n \in Note \cup {B!None}
      BY <2>1, <2>2 DEF SaverStep
    <2>4. PICK answer : answer = IF x5 THEN "unknown" ELSE n
      OBVIOUS
    <2>5. x7' = [x7 EXCEPT ![p] = answer]
      BY <1>8, <2>2, <2>4 DEF B!Write
    <2>6. /\ x1' \in [{"ME", "SM"} -> [B!Place -> B!Entry]] /\ x6' \in BOOLEAN
          /\ OthersStay' /\ OneNoteEach'
          /\ \A q \in Profiles : q # p =>
               \A i \in B!Place, m \in Note : (x1'["ME"][i] = <<q, m>>) = (x1["ME"][i] = <<q, m>>)
          /\ x2 = "ME" =>
               IF n = B!None THEN NotesOf(p)' = {}
               ELSE \E i \in B!Place : x1'["ME"][i] = <<p, n>>
          /\ x2 = "SM" => x5
      BY <2>1, <2>2, BookPut
    <2>7. x7' \in [Profiles -> Note \cup {B!None, "unknown"}] /\ x7'[p] = answer
          /\ \A q \in Profiles : q # p => x7'[q] = x7[q]
      BY <1>1, <2>3, <2>4, <2>5 DEF BookTypes
    <2>8. BookTypes'
      BY <1>1, <2>1, <2>6, <2>7 DEF BookTypes
    <2>9. /\ answer = B!None => NotesOf(p)' = {}
          /\ answer \in Note => \E i \in B!Place : x1'["ME"][i] = <<p, answer>>
      <3>1. CASE x5
        BY <2>4, <3>1, PhonebookAssumption DEF B!None
      <3>2. CASE ~x5
        <4>1. x2 = "ME" /\ answer = n
          BY <1>1, <2>4, <2>6, <3>2 DEF BookTypes
        <4> QED  BY <2>3, <2>6, <4>1, PhonebookAssumption DEF B!None
      <3> QED  BY <3>1, <3>2
    <2>10. ToldIsThere'
      <3>1. OthersKeep(p)
        BY <2>6, <2>7 DEF OthersKeep
      <3> QED  BY <2>7, <2>9, <3>1, BookTold
    <2> QED  BY <2>1, <2>6, <2>8, <2>10 DEF BookInv, SaverKnows
  <1>9. CASE B!CommandFails
    BY <1>9, BookFails DEF B!CommandFails
  <1>10. CASE B!Restart
    <2>1. x3' = B!Resting /\ x4' = "idle" /\ UNCHANGED <<x1, x2, x5, x6, x8>>
      BY <1>10 DEF B!Restart
    <2>2. CASE x7' = x7
      <3>1. BookTypes'
        BY <1>1, <2>1, <2>2 DEF BookTypes
      <3> QED  BY <2>1, <2>2, <3>1, BookStays
    <2>3. CASE x7' = [x7 EXCEPT ![x3.profile] = "unknown"]
      <3>1. PICK p : p = x3.profile
        OBVIOUS
      <3>2. x7' \in [Profiles -> Note \cup {B!None, "unknown"}]
            /\ (p \in Profiles => x7'[p] = "unknown")
            /\ \A q \in Profiles : q # p => x7'[q] = x7[q]
        BY <1>1, <2>3, <3>1 DEF BookTypes
      <3>3. BookTypes'
        BY <1>1, <2>1, <3>2 DEF BookTypes
      <3>4. ToldIsThere'
        <4>1. OthersKeep(p)
          BY <2>1, <3>2 DEF OthersKeep
        <4> QED  BY <3>2, <4>1, BookTold
      <3>5. OneNoteEach' /\ OthersStay'
        BY <2>1 DEF BookInv, OneNoteEach, OthersStay, NotesOf
      <3> QED  BY <2>1, <3>3, <3>4, <3>5 DEF BookInv, SaverKnows
    <2> QED  BY <1>10, <2>2, <2>3 DEF B!Restart
  <1>11. CASE B!ProbeBegins \/ B!ProbeEnds
    <2>1. UNCHANGED <<x1, x2, x3, x5, x6, x7, x8>> /\ x4' \in {"idle", "select"}
      BY <1>11 DEF B!ProbeBegins, B!ProbeEnds
    <2>2. BookTypes'
      BY <1>1, <2>1 DEF BookTypes
    <2> QED  BY <2>1, <2>2, BookStays
  <1>12. CASE B!ProbeSelects \/ B!ModuleRestarts
    <2>1. /\ x2' = "SM" /\ x5' = (x3 # B!Resting) /\ UNCHANGED <<x1, x3, x6, x7>>
          /\ x4' \in {"idle", x4}
      BY <1>12 DEF B!ProbeSelects, B!ModuleRestarts, B!LeavesME
    <2>2. x8' \in 0..MaxTroubles
      BY <1>1, <1>12, PhonebookAssumption DEF B!ProbeSelects, B!ModuleRestarts, BookTypes
    <2>3. BookTypes'
      <3>1. x5' \in BOOLEAN
        BY <2>1
      <3> QED  BY <1>1, <2>1, <2>2, <3>1 DEF BookTypes
    <2>4. CASE x3 = B!Resting
      BY <2>1, <2>3, <2>4, BookStays
    <2>5. CASE x3 # B!Resting
      BY <2>1, <2>3, <2>5, BookStays
    <2> QED  BY <2>4, <2>5
  <1> QED
    BY <1>3, <1>5, <1>6, <1>7, <1>8, <1>9, <1>10, <1>11, <1>12 DEF B!Next

-----------------------------------------------------------------------------
(* The set-up of the module *)

Active(w) == x4[w] \notin {"new", "asked", "done"}
\* A worker that met nobody is the only one, and the status is its.
WorksAlone(w) ==
    /\ x8 = {w} /\ x10 = FALSE /\ x3 \in W!Transient
    /\ \A v \in Workers : v # w => x4[v] \in W!Ended
\* What it has read, saved and read back holds until it writes again.
WorkerKnows(w) ==
    /\ x4[w] # "read" => x5[w] \in W!Composition
    /\ x4[w] \notin {"read", "save"} => W!BackedUp(w)
    /\ x4[w] \in {"save", "again"} => x1.usb = x5[w]
    /\ x4[w] \in {"volte", "ims", "imsReadBack", "restart", "wait", "verify"} =>
          W!CallCapable(x1.usb)
    /\ x4[w] = "verify" => x1.ims = 1
SetupAlone ==
    /\ \A w \in Workers : Active(w) => WorksAlone(w) /\ WorkerKnows(w)
    /\ W!ReadyIsCapable /\ W!RolledBackIsRestored
SetupInv == W!TypeOK /\ (x9 \/ SetupAlone)

WorkerPlaces ==
    {"new", "asked", "read", "save", "write", "readBack", "volte", "ims", "imsReadBack",
     "restart", "wait", "verify", "rollBack", "reread", "again", "done"}
Originals == W!Composition \cup {W!NoComposition}

LEMMA SetupInit ==
  ASSUME W!Init  PROVE SetupInv
  <1>1. /\ x1 \in W!Settings /\ x2 = x1 /\ x3 = "" /\ x4 = [w \in Workers |-> "new"]
        /\ x5 = [w \in Workers |-> W!NoComposition]
        /\ x6 = [s \in 1..MaxSeconds |-> W!NoComposition] /\ x7 = 1 /\ x8 = {}
    BY DEF W!Init
  <1>2. x9 = FALSE /\ x10 = FALSE
    BY DEF W!Init
  <1>3. W!TypeOK
    <2>1. x7 \in 1..MaxSeconds
      <3>1. x7 = 1
        BY <1>1
      <3> QED  BY <3>1, SetupAssumption
    <2>2. {x9, x10} \subseteq BOOLEAN
      BY <1>2
    <2> QED  BY <1>1, <2>1, <2>2 DEF W!TypeOK
  <1> QED
    BY <1>1, <1>3
    DEF SetupInv, SetupAlone, Active, W!ReadyIsCapable, W!RolledBackIsRestored

LEMMA SetupHonest ==
  ASSUME SetupInv  PROVE W!TypeOK /\ W!SetupIsHonest
  <1>1. ASSUME SetupAlone  PROVE W!OverwritesBackedUp
    BY <1>1 DEF SetupAlone, Active, WorkerKnows, W!OverwritesBackedUp
  <1> QED  BY <1>1 DEF SetupInv, SetupAlone, W!SetupIsHonest, W!Met

\* The worker that is alone makes a step.
LEMMA WorkerMoves ==
  ASSUME SetupInv, ~x9, NEW w \in Workers, Active(w), NEW next \in WorkerPlaces,
         x4' = [x4 EXCEPT ![w] = next],
         x1' \in W!Settings, x2' \in W!Settings, UNCHANGED <<x7, x8, x9, x10>>,
         x5' \in [Workers -> Originals], x6' \in [1..MaxSeconds -> Originals],
         \/ /\ next = "done"
            /\ \/ x3' = "failed"
               \/ x3' = "ready" /\ W!CallCapable(x1'.usb) /\ x1'.ims = 1
               \/ x3' = "rolled_back" /\ x1'.usb = x5'[w]
         \/ x3' \in W!Transient /\ next \notin {"new", "asked", "done"} /\ WorkerKnows(w)'
  PROVE  SetupInv'
  <1>1. W!TypeOK /\ WorksAlone(w)
    BY DEF SetupInv, SetupAlone
  <1>2. x4 \in [Workers -> WorkerPlaces]
    BY <1>1 DEF W!TypeOK, WorkerPlaces
  <1>3. x4' \in [Workers -> WorkerPlaces] /\ x4'[w] = next
        /\ \A v \in Workers : v # w => x4'[v] = x4[v] /\ x4[v] \in W!Ended
    BY <1>1, <1>2 DEF WorksAlone
  <1>4. x3' \in W!Transient \cup {"", "ready", "failed", "rolled_back"}
    OBVIOUS
  <1>5. {x9', x10'} \subseteq BOOLEAN
    BY <1>1 DEF W!TypeOK
  <1>6. W!TypeOK'
    BY <1>1, <1>3, <1>4, <1>5 DEF W!TypeOK, WorkerPlaces, Originals
  <1>7. \A v \in Workers : v # w => ~Active(v)'
    BY <1>3 DEF Active, W!Ended
  <1>8. Active(w)' => WorksAlone(w)' /\ WorkerKnows(w)'
    BY <1>1, <1>3 DEF Active, WorksAlone
  <1>9. x8' = {w}
    BY <1>1 DEF WorksAlone
  <1>10. W!ReadyIsCapable' /\ W!RolledBackIsRestored'
    BY <1>9 DEF W!ReadyIsCapable, W!RolledBackIsRestored, W!Transient
  <1> QED  BY <1>6, <1>7, <1>8, <1>10 DEF SetupInv, SetupAlone

\* No worker is at work while the status is not of one.
LEMMA NobodyWorks ==
  ASSUME SetupInv, ~x9, x3 \notin W!Transient, NEW w \in Workers
  PROVE  ~Active(w)
  BY DEF SetupInv, SetupAlone, WorksAlone

LEMMA SettingsOf ==
  ASSUME NEW settings \in W!Settings, NEW usb \in W!Composition
  PROVE  /\ settings.usb \in W!Composition /\ settings.ims \in {0, 1}
         /\ [settings EXCEPT !.usb = usb] \in W!Settings
         /\ [settings EXCEPT !.ims = 1] \in W!Settings
  BY DEF W!Settings

LEMMA WorkerFails ==
  ASSUME SetupInv, ~x9, NEW w \in Workers, W!Fails(w),
         x1' \in W!Settings, x2' \in W!Settings
  PROVE  SetupInv'
  <1>1. /\ Active(w) /\ x4' = [x4 EXCEPT ![w] = "done"] /\ x3' = "failed"
        /\ UNCHANGED <<x5, x6, x7, x8, x9, x10>>
    BY DEF W!Fails, W!Goes, W!files, W!ghosts, Active
  <1>2. x5' \in [Workers -> Originals] /\ x6' \in [1..MaxSeconds -> Originals]
    BY <1>1 DEF SetupInv, W!TypeOK, Originals
  <1>3. "done" \in WorkerPlaces
    BY DEF WorkerPlaces
  <1> QED  BY <1>1, <1>2, <1>3, WorkerMoves

\* A step of a worker that changes neither what it read nor what it saved.
LEMMA WorkerSteps ==
  ASSUME SetupInv, ~x9, NEW w \in Workers, Active(w), NEW next \in WorkerPlaces,
         next \notin {"new", "asked", "done", "read", "save"},
         x4[w] \notin {"read", "save"},
         x4' = [x4 EXCEPT ![w] = next], x3' \in W!Transient,
         x1' \in W!Settings, x2' \in W!Settings, UNCHANGED <<x5, x6, x7, x8, x9, x10>>,
         next = "again" => x1'.usb = x5[w],
         next \in {"volte", "ims", "imsReadBack", "restart", "wait", "verify"} =>
            W!CallCapable(x1'.usb),
         next = "verify" => x1'.ims = 1
  PROVE  SetupInv'
  <1>1. WorkerKnows(w)
    BY DEF SetupInv, SetupAlone
  <1>2. x5[w] \in W!Composition /\ W!BackedUp(w)
    BY <1>1 DEF WorkerKnows
  <1>3. W!BackedUp(w)'
    BY <1>2 DEF W!BackedUp
  <1>4. x4'[w] = next
    BY DEF SetupInv, W!TypeOK
  <1>5. WorkerKnows(w)'
    BY <1>2, <1>3, <1>4 DEF WorkerKnows
  <1>6. x5' \in [Workers -> Originals] /\ x6' \in [1..MaxSeconds -> Originals]
    BY DEF SetupInv, W!TypeOK, Originals
  <1> QED  BY <1>5, <1>6, WorkerMoves

\* Nothing happens to the module or to a worker that is at work.
LEMMA SetupOutside ==
  ASSUME SetupInv, ~x9, W!TypeOK', UNCHANGED <<x1, x3, x5, x6, x8, x9, x10>>,
         x7' \in {x7, x7 + 1},
         \A v \in Workers : x4'[v] = x4[v]
            \/ (x4[v] \in {"new", "asked"} /\ x4'[v] \in {"asked", "done"}),
         x4' = x4 \/ x3 \notin W!Transient
  PROVE  SetupInv'
  <1>1. ASSUME NEW w \in Workers, Active(w)'  PROVE WorksAlone(w)' /\ WorkerKnows(w)'
    <2>1. Active(w) /\ x4'[w] = x4[w]
      BY <1>1 DEF Active
    <2>2. WorksAlone(w) /\ WorkerKnows(w)
      BY <2>1 DEF SetupInv, SetupAlone
    <2>3. x4' = x4
      BY <2>2 DEF WorksAlone
    <2>4. W!BackedUp(w) => W!BackedUp(w)'
      <3>1. x7 \in Int
        <4>1. x7 \in 1..MaxSeconds
          BY DEF SetupInv, W!TypeOK
        <4> QED  BY <4>1
      <3>2. 1..x7 \subseteq 1..(x7 + 1)
        BY <3>1
      <3>3. 1..x7 \subseteq 1..x7'
        BY <3>2
      <3> QED  BY <3>3 DEF W!BackedUp
    <2>5. WorkerKnows(w)'
      BY <2>2, <2>3, <2>4 DEF WorkerKnows
    <2> QED  BY <2>2, <2>3, <2>5 DEF WorksAlone
  <1>2. W!ReadyIsCapable' /\ W!RolledBackIsRestored'
    BY DEF SetupInv, SetupAlone, W!ReadyIsCapable, W!RolledBackIsRestored
  <1> QED  BY <1>1, <1>2 DEF SetupInv, SetupAlone

\* What a request does before its worker starts.
LEMMA RequestNext ==
  ASSUME SetupInv, ~x9, NEW w \in Workers, W!Ask(w) \/ W!Start(w) \/ W!Refused(w)
  PROVE  SetupInv'
  <1>1. W!TypeOK /\ x4 \in [Workers -> WorkerPlaces]
    BY DEF SetupInv, W!TypeOK, WorkerPlaces
  <1>2. ASSUME x4' = [x4 EXCEPT ![w] = "asked"] \/ x4' = [x4 EXCEPT ![w] = "done"],
               x4[w] \in {"new", "asked"}, x4[w] = "new" => x4'[w] = "asked",
               UNCHANGED <<x1, x2, x3, x5, x6, x7, x8, x9, x10>>,
               x3 \notin W!Transient \/ x4[w] = "asked"
        PROVE  SetupInv'
    <2>1. x4' \in [Workers -> WorkerPlaces]
      BY <1>1, <1>2 DEF WorkerPlaces
    <2>2. W!TypeOK'
      BY <1>1, <1>2, <2>1 DEF W!TypeOK, WorkerPlaces
    <2>3. \A v \in Workers : x4'[v] = x4[v]
             \/ (x4[v] \in {"new", "asked"} /\ x4'[v] \in {"asked", "done"})
      BY <1>1, <1>2
    <2>4. CASE x3 \notin W!Transient
      BY <1>2, <2>2, <2>3, <2>4, SetupOutside
    <2>5. CASE x4[w] = "asked"
      <3>1. ASSUME NEW v \in Workers  PROVE ~Active(v)
        BY <2>5 DEF SetupInv, SetupAlone, WorksAlone, Active, W!Ended
      <3>2. \A v \in Workers : ~Active(v)'
        BY <2>3, <3>1 DEF Active
      <3>3. W!ReadyIsCapable' /\ W!RolledBackIsRestored'
        BY <1>2 DEF SetupInv, SetupAlone, W!ReadyIsCapable, W!RolledBackIsRestored
      <3> QED  BY <2>2, <3>2, <3>3 DEF SetupInv, SetupAlone
    <2> QED  BY <1>2, <2>4, <2>5
  <1>3. CASE W!Ask(w)
    <2>1. /\ x3 \notin W!Transient /\ x4[w] = "new" /\ x4' = [x4 EXCEPT ![w] = "asked"]
          /\ UNCHANGED <<x1, x2, x3, x5, x6, x7, x8, x9, x10>>
      BY <1>3 DEF W!Ask, W!Steps, W!Goes, W!module, W!files, W!ghosts
    <2>2. x4'[w] = "asked"
      BY <1>1, <2>1
    <2> QED  BY <1>2, <2>1, <2>2
  <1>4. CASE W!Refused(w)
    <2>1. /\ x4[w] = "asked" /\ x4' = [x4 EXCEPT ![w] = "done"]
          /\ UNCHANGED <<x1, x2, x3, x5, x6, x7, x8, x9, x10>>
      BY <1>4 DEF W!Refused, W!Steps, W!Goes, W!module, W!files, W!ghosts
    <2> QED  BY <1>2, <2>1
  <1>5. CASE W!Start(w)
    <2>1. x4[w] = "asked" /\ UNCHANGED <<x1, x2, x5, x6, x7, x10>>
      BY <1>5 DEF W!Start, W!module, W!files
    <2>2. CASE ~W!CanInitialize
      <3>1. x4' = [x4 EXCEPT ![w] = "done"] /\ UNCHANGED <<x3, x8, x9>>
        BY <1>5, <2>2 DEF W!Start, W!Goes
      <3> QED  BY <1>2, <2>1, <3>1
    <2>3. CASE W!CanInitialize
      <3>1. x4' = [x4 EXCEPT ![w] = "read"] /\ x3' = "initializing" /\ x8' = {w}
        BY <1>5, <2>3 DEF W!Start, W!Goes
      <3>2. x9' = (x9 \/ x10 \/ \E v \in Workers \ {w} : x4[v] \notin W!Ended)
        BY <1>5, <2>3 DEF W!Start
      <3>3. x4' \in [Workers -> WorkerPlaces]
            /\ x4'[w] = "read" /\ \A v \in Workers : v # w => x4'[v] = x4[v]
        BY <1>1, <3>1 DEF WorkerPlaces
      <3>4. {x9', x10'} \subseteq BOOLEAN
        <4>1. x9' \in BOOLEAN
          BY <3>2
        <4> QED  BY <1>1, <2>1, <4>1 DEF W!TypeOK
      <3>5. W!TypeOK'
        BY <1>1, <2>1, <3>1, <3>3, <3>4 DEF W!TypeOK, WorkerPlaces, W!Transient
      <3>6. ASSUME ~x9'  PROVE SetupAlone'
        <4>1. ~x10 /\ \A v \in Workers : v # w => x4[v] \in W!Ended
          BY <3>2, <3>6
        <4>2. x10' = FALSE
          BY <1>1, <2>1, <4>1 DEF W!TypeOK
        <4>3. WorksAlone(w)'
          BY <3>1, <3>3, <4>1, <4>2 DEF WorksAlone, W!Transient
        <4>4. WorkerKnows(w)'
          BY <3>3 DEF WorkerKnows
        <4>5. \A v \in Workers : v # w => ~Active(v)'
          BY <3>3, <4>1 DEF Active, W!Ended
        <4>6. W!ReadyIsCapable' /\ W!RolledBackIsRestored'
          BY <3>1 DEF W!ReadyIsCapable, W!RolledBackIsRestored
        <4> QED  BY <4>3, <4>4, <4>5, <4>6 DEF SetupAlone
      <3> QED  BY <3>5, <3>6 DEF SetupInv
    <2> QED  BY <2>2, <2>3
  <1> QED  BY <1>3, <1>4, <1>5

\* Reading and saving the composition.
LEMMA WorkerSaves ==
  ASSUME SetupInv, ~x9, NEW w \in Workers, W!Read(w) \/ W!Save(w)
  PROVE  SetupInv'
  <1>1. W!TypeOK /\ x1.usb \in W!Composition
    BY DEF SetupInv, W!TypeOK, W!Settings
  <1>2. CASE W!Read(w)
    <2>1. /\ x4[w] = "read" /\ x4' = [x4 EXCEPT ![w] = "save"]
          /\ x5' = [x5 EXCEPT ![w] = x1.usb] /\ UNCHANGED <<x1, x2, x3, x6, x7, x8, x9, x10>>
      BY <1>2 DEF W!Read, W!Steps, W!Goes, W!module, W!files, W!ghosts
    <2>2. Active(w) /\ "save" \in WorkerPlaces
      BY <2>1 DEF Active, WorkerPlaces
    <2>3. x3 \in W!Transient
      BY <2>2 DEF SetupInv, SetupAlone, WorksAlone
    <2>4. x5' \in [Workers -> Originals] /\ x5'[w] = x1.usb
          /\ x6' \in [1..MaxSeconds -> Originals] /\ x4'[w] = "save"
      BY <1>1, <2>1 DEF W!TypeOK, Originals
    <2>5. WorkerKnows(w)'
      BY <1>1, <2>1, <2>4 DEF WorkerKnows
    <2>6. x1' \in W!Settings /\ x2' \in W!Settings
      BY <1>1, <2>1 DEF W!TypeOK
    <2> QED  BY <2>1, <2>2, <2>3, <2>4, <2>5, <2>6, WorkerMoves
  <1>3. CASE W!Save(w)
    <2>1. PICK next : next = IF W!CallCapable(x5[w]) THEN "volte" ELSE "write"
      OBVIOUS
    <2>2. /\ x4[w] = "save" /\ x4' = [x4 EXCEPT ![w] = next]
          /\ x6' = [x6 EXCEPT ![x7] = x5[w]] /\ UNCHANGED <<x1, x2, x3, x5, x7, x8, x9, x10>>
      BY <1>3, <2>1 DEF W!Save, W!Goes, W!module, W!ghosts
    <2>3. Active(w) /\ next \in WorkerPlaces /\ next \in {"volte", "write"}
      BY <2>1, <2>2 DEF Active, WorkerPlaces
    <2>4. x3 \in W!Transient /\ x5[w] \in W!Composition /\ x1.usb = x5[w]
      BY <2>2, <2>3 DEF SetupInv, SetupAlone, WorksAlone, WorkerKnows
    <2>5. x5' \in [Workers -> Originals] /\ x6' \in [1..MaxSeconds -> Originals]
          /\ x6'[x7] = x5[w] /\ x4'[w] = next /\ x7 \in 1..x7
      <3>1. x7 \in 1..MaxSeconds /\ x5 \in [Workers -> Originals]
            /\ x6 \in [1..MaxSeconds -> Originals] /\ x4 \in [Workers -> WorkerPlaces]
        BY <1>1 DEF W!TypeOK, Originals, WorkerPlaces
      <3>2. x7 \in 1..x7
        BY <3>1
      <3> QED  BY <2>2, <3>1, <3>2
    <2>6. W!BackedUp(w)'
      BY <2>2, <2>5 DEF W!BackedUp
    <2>7. WorkerKnows(w)'
      BY <2>1, <2>2, <2>3, <2>4, <2>5, <2>6 DEF WorkerKnows
    <2>8. x1' \in W!Settings /\ x2' \in W!Settings
      BY <1>1, <2>2 DEF W!TypeOK
    <2> QED  BY <2>2, <2>3, <2>4, <2>5, <2>7, <2>8, WorkerMoves
  <1> QED  BY <1>2, <1>3

\* The commands of the set-up, up to its end or to the rolling back.
LEMMA SetupCommands ==
  ASSUME SetupInv, ~x9, NEW w \in Workers,
         \/ W!Write(w) \/ W!ReadBack(w) \/ W!Volte(w) \/ W!Ims(w) \/ W!ImsReadBack(w)
         \/ W!Restart(w) \/ W!Wait(w) \/ W!Verify(w)
  PROVE  SetupInv'
  <1>1. PICK from \in WorkerPlaces \ {"new", "asked", "read", "save", "done"} : x4[w] = from
    BY DEF W!Write, W!ReadBack, W!Volte, W!Ims, W!ImsReadBack, W!Restart, W!Wait, W!Verify,
           W!Steps, WorkerPlaces
  <1>2. Active(w) /\ x4[w] \notin {"read", "save"}
    BY <1>1 DEF Active
  <1>3. x3 \in W!Transient /\ WorkerKnows(w)
    BY <1>2 DEF SetupInv, SetupAlone, WorksAlone
  <1>4. x1 \in W!Settings /\ x2 \in W!Settings /\ "uac" \in W!Composition
    BY DEF SetupInv, W!TypeOK, W!Composition
  <1>5. UNCHANGED <<x5, x6, x7, x8, x9, x10>>
    BY DEF W!Write, W!ReadBack, W!Volte, W!Ims, W!ImsReadBack, W!Restart, W!Wait, W!Verify,
           W!files, W!ghosts
  <1>6. ASSUME NEW next \in WorkerPlaces, x4' = [x4 EXCEPT ![w] = next],
               next \in {"readBack", "volte", "ims", "imsReadBack", "restart", "wait",
                         "verify", "rollBack"},
               x3' \in W!Transient, x1' \in W!Settings, x2' \in W!Settings,
               next \in {"readBack", "rollBack"} \/ W!CallCapable(x1'.usb),
               next = "verify" => x1'.ims = 1
        PROVE  SetupInv'
    BY <1>2, <1>5, <1>6, WorkerSteps
  <1>7. CASE W!Write(w)
    <2>1. x4' = [x4 EXCEPT ![w] = "readBack"] /\ x3' = x3 /\ x2' = x2
          /\ x1' \in {x1, [x1 EXCEPT !.usb = "uac"]}
      BY <1>7 DEF W!Write, W!Steps, W!Goes, W!Stores
    <2>2. x1' \in W!Settings
      BY <1>4, <2>1, SettingsOf
    <2>3. "readBack" \in WorkerPlaces
      BY DEF WorkerPlaces
    <2> QED  BY <1>3, <1>4, <1>6, <2>1, <2>2, <2>3
  <1>8. CASE W!ReadBack(w)
    <2>1. x4' = [x4 EXCEPT ![w] = "volte"] /\ UNCHANGED <<x1, x2, x3>> /\ W!CallCapable(x1.usb)
      BY <1>8 DEF W!ReadBack, W!Steps, W!Goes, W!module
    <2>2. "volte" \in WorkerPlaces /\ W!CallCapable(x1'.usb)
      BY <2>1 DEF WorkerPlaces, W!CallCapable
    <2> QED  BY <1>3, <1>4, <1>6, <2>1, <2>2
  <1>9. CASE W!Volte(w)
    <2>1. x4[w] = "volte" /\ x4' = [x4 EXCEPT ![w] = "ims"] /\ UNCHANGED <<x1, x2, x3>>
      BY <1>9 DEF W!Volte, W!Steps, W!Goes, W!module
    <2>2. "ims" \in WorkerPlaces /\ W!CallCapable(x1'.usb)
      BY <1>3, <2>1 DEF WorkerPlaces, WorkerKnows, W!CallCapable
    <2> QED  BY <1>3, <1>4, <1>6, <2>1, <2>2
  <1>10. CASE W!Ims(w)
    <2>1. x4[w] = "ims" /\ x4' = [x4 EXCEPT ![w] = "imsReadBack"] /\ x3' = x3 /\ x2' = x2
          /\ x1' \in {x1, [x1 EXCEPT !.ims = 1]}
      BY <1>10 DEF W!Ims, W!Steps, W!Goes, W!StoresIms
    <2>2. x1' \in W!Settings /\ x1'.usb = x1.usb
      BY <1>4, <2>1, SettingsOf DEF W!Settings
    <2>3. "imsReadBack" \in WorkerPlaces /\ W!CallCapable(x1'.usb)
      BY <1>3, <2>1, <2>2 DEF WorkerPlaces, WorkerKnows, W!CallCapable
    <2> QED  BY <1>3, <1>4, <1>6, <2>1, <2>2, <2>3
  <1>11. CASE W!ImsReadBack(w)
    <2>1. x4[w] = "imsReadBack" /\ x4' = [x4 EXCEPT ![w] = "restart"]
          /\ UNCHANGED <<x1, x2>> /\ x3' = "restarting"
      BY <1>11 DEF W!ImsReadBack, W!Steps, W!Goes, W!module
    <2>2. "restart" \in WorkerPlaces /\ W!CallCapable(x1'.usb) /\ x3' \in W!Transient
      BY <1>3, <2>1 DEF WorkerPlaces, WorkerKnows, W!CallCapable, W!Transient
    <2> QED  BY <1>4, <1>6, <2>1, <2>2
  <1>12. CASE W!Restart(w)
    <2>1. x4[w] = "restart" /\ x4' = [x4 EXCEPT ![w] = "wait"] /\ x3' = x3 /\ x1' = x1
          /\ x2' \in {x2, x1}
      BY <1>12 DEF W!Restart, W!Steps, W!Goes, W!Restarts
    <2>2. "wait" \in WorkerPlaces /\ W!CallCapable(x1'.usb) /\ x2' \in W!Settings
      BY <1>3, <1>4, <2>1 DEF WorkerPlaces, WorkerKnows, W!CallCapable
    <2> QED  BY <1>3, <1>4, <1>6, <2>1, <2>2
  <1>13. CASE W!Wait(w)
    <2>1. x4[w] = "wait" /\ UNCHANGED <<x1, x2>> /\ x3' = "verifying" /\ x3' \in W!Transient
      BY <1>13 DEF W!Wait, W!module, W!Transient
    <2>2. W!CallCapable(x1'.usb)
      BY <1>3, <2>1 DEF WorkerKnows, W!CallCapable
    <2>3. "verify" \in WorkerPlaces /\ "rollBack" \in WorkerPlaces
      BY DEF WorkerPlaces
    <2>4. CASE x1.ims = 1 /\ x4' = [x4 EXCEPT ![w] = "verify"]
      BY <1>4, <1>6, <2>1, <2>2, <2>3, <2>4
    <2>5. CASE x4' = [x4 EXCEPT ![w] = "rollBack"]
      BY <1>4, <1>6, <2>1, <2>3, <2>5
    <2> QED  BY <1>13, <2>4, <2>5 DEF W!Wait, W!Goes
  <1>14. CASE W!Verify(w)
    <2>1. x4[w] = "verify" /\ UNCHANGED <<x1, x2>>
      BY <1>14 DEF W!Verify, W!module
    <2>2. "done" \in WorkerPlaces /\ "rollBack" \in WorkerPlaces
      BY DEF WorkerPlaces
    <2>3. CASE x4' = [x4 EXCEPT ![w] = "rollBack"] /\ x3' = "verifying"
      <3>1. x3' \in W!Transient
        BY <2>3 DEF W!Transient
      <3> QED  BY <1>4, <1>6, <2>1, <2>2, <2>3, <3>1
    <2>4. CASE x4' = [x4 EXCEPT ![w] = "done"] /\ x3' = "ready"
      <3>1. W!CallCapable(x1'.usb) /\ x1'.ims = 1
        BY <1>3, <2>1 DEF WorkerKnows, W!CallCapable
      <3>2. x5' \in [Workers -> Originals] /\ x6' \in [1..MaxSeconds -> Originals]
        BY <1>5 DEF SetupInv, W!TypeOK, Originals
      <3> QED  BY <1>2, <1>4, <1>5, <2>1, <2>2, <2>4, <3>1, <3>2, WorkerMoves
    <2> QED  BY <1>14, <2>3, <2>4 DEF W!Verify, W!Goes
  <1> QED
    BY <1>7, <1>8, <1>9, <1>10, <1>11, <1>12, <1>13, <1>14

LEMMA SetupRollsBack ==
  ASSUME SetupInv, ~x9, NEW w \in Workers,
         W!RollBack(w) \/ W!Reread(w) \/ W!Again(w)
  PROVE  SetupInv'
  <1>1. Active(w) /\ x4[w] \in {"rollBack", "reread", "again"}
    BY DEF W!RollBack, W!Reread, W!Again, W!Steps, Active
  <1>2. x3 \in W!Transient /\ WorkerKnows(w)
    BY <1>1 DEF SetupInv, SetupAlone, WorksAlone
  <1>3. x5[w] \in W!Composition /\ x1 \in W!Settings /\ x2 \in W!Settings
    BY <1>1, <1>2 DEF SetupInv, W!TypeOK, WorkerKnows
  <1>4. UNCHANGED <<x5, x6, x7, x8, x9, x10>>
    BY DEF W!RollBack, W!Reread, W!Again, W!files, W!ghosts
  <1>5. {"reread", "again", "done"} \subseteq WorkerPlaces
    BY DEF WorkerPlaces
  <1>6. CASE W!RollBack(w)
    <2>1. x4' = [x4 EXCEPT ![w] = "reread"] /\ x3' = x3 /\ x2' = x2
          /\ x1' \in {x1, [x1 EXCEPT !.usb = x5[w]]}
      BY <1>6 DEF W!RollBack, W!Steps, W!Goes, W!Stores
    <2>2. x1' \in W!Settings
      BY <1>3, <2>1, SettingsOf
    <2> QED  BY <1>1, <1>2, <1>3, <1>4, <1>5, <2>1, <2>2, WorkerSteps
  <1>7. CASE W!Reread(w)
    <2>1. x4' = [x4 EXCEPT ![w] = "again"] /\ UNCHANGED <<x1, x2, x3>> /\ x1.usb = x5[w]
      BY <1>7 DEF W!Reread, W!Steps, W!Goes, W!module
    <2> QED  BY <1>1, <1>2, <1>3, <1>4, <1>5, <2>1, WorkerSteps
  <1>8. CASE W!Again(w)
    <2>1. x4[w] = "again" /\ x4' = [x4 EXCEPT ![w] = "done"] /\ x3' = "rolled_back"
          /\ x1' = x1 /\ x2' \in {x2, x1}
      BY <1>8 DEF W!Again, W!Steps, W!Goes, W!Restarts
    <2>2. x1'.usb = x5'[w]
      BY <1>2, <1>4, <2>1 DEF WorkerKnows
    <2>3. x5' \in [Workers -> Originals] /\ x6' \in [1..MaxSeconds -> Originals]
      BY <1>4 DEF SetupInv, W!TypeOK, Originals
    <2> QED  BY <1>1, <1>3, <1>4, <1>5, <2>1, <2>2, <2>3, WorkerMoves
  <1> QED  BY <1>6, <1>7, <1>8

\* A command that fails, whatever it did to the module.
LEMMA SetupFails ==
  ASSUME SetupInv, ~x9, NEW w \in Workers,
         \/ W!FailsBefore(w) \/ W!WriteFails(w) \/ W!ImsFails(w) \/ W!RestartFails(w)
         \/ W!RollBackFails(w)
  PROVE  SetupInv'
  <1>1. x1 \in W!Settings /\ x2 \in W!Settings /\ "uac" \in W!Composition
    BY DEF SetupInv, W!TypeOK, W!Composition
  <1>2. W!Fails(w)
    BY DEF W!FailsBefore, W!WriteFails, W!ImsFails, W!RestartFails, W!RollBackFails
  <1>3. CASE W!FailsBefore(w)
    <2>1. x1' = x1 /\ x2' = x2
      BY <1>3 DEF W!FailsBefore, W!module
    <2> QED  BY <1>1, <1>2, <2>1, WorkerFails
  <1>4. CASE W!WriteFails(w)
    <2>1. x2' = x2 /\ x1' \in {x1, [x1 EXCEPT !.usb = "uac"]}
      BY <1>4 DEF W!WriteFails, W!Stores
    <2> QED  BY <1>1, <1>2, <2>1, SettingsOf, WorkerFails
  <1>5. CASE W!ImsFails(w)
    <2>1. x2' = x2 /\ x1' \in {x1, [x1 EXCEPT !.ims = 1]}
      BY <1>5 DEF W!ImsFails, W!StoresIms
    <2> QED  BY <1>1, <1>2, <2>1, SettingsOf, WorkerFails
  <1>6. CASE W!RestartFails(w)
    <2>1. x1' = x1 /\ x2' \in {x2, x1}
      BY <1>6 DEF W!RestartFails, W!Restarts
    <2> QED  BY <1>1, <1>2, <2>1, WorkerFails
  <1>7. CASE W!RollBackFails(w)
    <2>1. x2' = x2 /\ x1' \in {x1, [x1 EXCEPT !.usb = x5[w]]} /\ x4[w] = "rollBack"
      BY <1>7 DEF W!RollBackFails, W!Stores
    <2>2. x5[w] \in W!Composition
      BY <2>1 DEF SetupInv, SetupAlone, Active, WorkerKnows
    <2> QED  BY <1>1, <1>2, <2>1, <2>2, SettingsOf, WorkerFails
  <1> QED  BY <1>3, <1>4, <1>5, <1>6, <1>7

\* The profile's request writes, the module restarts, the clock goes on.
LEMMA SetupMeets ==
  ASSUME SetupInv, ~x9, W!ProfileWrites \/ W!ModuleRestarts \/ W!Tick
  PROVE  SetupInv'
  <1>1. W!TypeOK /\ SetupAlone
    BY DEF SetupInv
  <1>2. CASE W!ProfileWrites
    <2>1. PICK c \in W!Composition : x1' = [x1 EXCEPT !.usb = c]
      BY <1>2 DEF W!ProfileWrites
    <2>2. x10' = TRUE /\ x8' = {} /\ UNCHANGED <<x2, x3, x4, x5, x6, x7>>
      BY <1>2 DEF W!ProfileWrites, W!files
    <2>3. x9' = (x9 \/ \E w \in Workers : x4[w] \notin W!Ended)
      BY <1>2 DEF W!ProfileWrites
    <2>4. x1' \in W!Settings
      BY <1>1, <2>1, SettingsOf DEF W!TypeOK
    <2>5. {x9', x10'} \subseteq BOOLEAN
      BY <2>2, <2>3
    <2>6. W!TypeOK'
      BY <1>1, <2>2, <2>4, <2>5 DEF W!TypeOK
    <2>7. ASSUME ~x9'  PROVE SetupAlone'
      <3>1. \A w \in Workers : ~Active(w)'
        BY <2>2, <2>3, <2>7 DEF Active, W!Ended
      <3>2. W!ReadyIsCapable' /\ W!RolledBackIsRestored'
        BY <2>2 DEF W!ReadyIsCapable, W!RolledBackIsRestored
      <3> QED  BY <3>1, <3>2 DEF SetupAlone
    <2> QED  BY <2>6, <2>7 DEF SetupInv
  <1>3. CASE W!ModuleRestarts
    <2>1. /\ x2' = x1 /\ x10' = FALSE /\ UNCHANGED <<x1, x4, x5, x6, x7, x8, x9>>
          /\ x3' = IF x3 = "ready" THEN "" ELSE x3
      BY <1>3 DEF W!ModuleRestarts, W!files
    <2>2. {x9', x10'} \subseteq BOOLEAN
      BY <1>1, <2>1 DEF W!TypeOK
    <2>3. W!TypeOK'
      BY <1>1, <2>1, <2>2 DEF W!TypeOK
    <2>4. ASSUME NEW w \in Workers, Active(w)'  PROVE WorksAlone(w)' /\ WorkerKnows(w)'
      <3>1. WorksAlone(w) /\ WorkerKnows(w)
        BY <1>1, <2>1, <2>4 DEF SetupAlone, Active
      <3>2. x3' = x3
        BY <2>1, <3>1 DEF WorksAlone, W!Transient
      <3>3. WorksAlone(w)'
        BY <2>1, <3>1, <3>2 DEF WorksAlone
      <3>4. WorkerKnows(w)'
        BY <2>1, <3>1 DEF WorkerKnows, W!BackedUp, W!CallCapable
      <3> QED  BY <3>3, <3>4
    <2>5. W!ReadyIsCapable' /\ W!RolledBackIsRestored'
      BY <1>1, <2>1 DEF SetupAlone, W!ReadyIsCapable, W!RolledBackIsRestored
    <2> QED  BY <2>3, <2>4, <2>5 DEF SetupInv, SetupAlone
  <1>4. CASE W!Tick
    <2>1. x7 < MaxSeconds /\ x7' = x7 + 1 /\ UNCHANGED <<x1, x2, x3, x4, x5, x6, x8, x9, x10>>
      BY <1>4 DEF W!Tick, W!module, W!ghosts
    <2>2. x7' \in 1..MaxSeconds
      <3>1. x7 \in 1..MaxSeconds
        BY <1>1 DEF W!TypeOK
      <3> QED  BY <2>1, <3>1, SetupAssumption
    <2>3. {x9', x10'} \subseteq BOOLEAN
      BY <1>1, <2>1 DEF W!TypeOK
    <2>4. W!TypeOK'
      BY <1>1, <2>1, <2>2, <2>3 DEF W!TypeOK
    <2> QED  BY <2>1, <2>4, SetupOutside
  <1> QED  BY <1>2, <1>3, <1>4

LEMMA SetupNext ==
  ASSUME SetupInv, ~W!Met, W!Next  PROVE SetupInv'
  <1>1. ~x9
    BY DEF W!Met
  <1>2. CASE W!ProfileWrites \/ W!ModuleRestarts \/ W!Tick
    BY <1>1, <1>2, SetupMeets
  <1>3. ASSUME NEW w \in Workers,
               \/ W!Ask(w) \/ W!Start(w) \/ W!Refused(w) \/ W!FailsBefore(w) \/ W!Read(w)
               \/ W!Save(w) \/ W!Write(w) \/ W!WriteFails(w) \/ W!ReadBack(w) \/ W!Volte(w)
               \/ W!Ims(w) \/ W!ImsFails(w) \/ W!ImsReadBack(w) \/ W!Restart(w)
               \/ W!RestartFails(w) \/ W!Wait(w) \/ W!Verify(w) \/ W!RollBack(w)
               \/ W!RollBackFails(w) \/ W!Reread(w) \/ W!Again(w)
        PROVE  SetupInv'
    <2>1. CASE W!Ask(w) \/ W!Start(w) \/ W!Refused(w)
      BY <1>1, <2>1, RequestNext
    <2>2. CASE W!Read(w) \/ W!Save(w)
      BY <1>1, <2>2, WorkerSaves
    <2>3. CASE W!RollBack(w) \/ W!Reread(w) \/ W!Again(w)
      BY <1>1, <2>3, SetupRollsBack
    <2>4. CASE \/ W!FailsBefore(w) \/ W!WriteFails(w) \/ W!ImsFails(w) \/ W!RestartFails(w)
               \/ W!RollBackFails(w)
      BY <1>1, <2>4, SetupFails
    <2>5. CASE \/ W!Write(w) \/ W!ReadBack(w) \/ W!Volte(w) \/ W!Ims(w) \/ W!ImsReadBack(w)
               \/ W!Restart(w) \/ W!Wait(w) \/ W!Verify(w)
      BY <1>1, <2>5, SetupCommands
    <2> QED  BY <1>3, <2>1, <2>2, <2>3, <2>4, <2>5
  <1> QED  BY <1>2, <1>3 DEF W!Next

-----------------------------------------------------------------------------
(* The pages that tell of the card and its SIM *)

LEMMA PagesBoundsNat ==
  /\ MaxSwitches \in Nat /\ MaxLosses \in Nat /\ MaxSwaps \in Nat
  /\ MaxScans \in Nat /\ MaxEvents \in Nat
  BY PagesBounds

-----------------------------------------------------------------------------
(* The health page of the eSIM: HostEsim *)

Handled ==
    [at : {"idle", "reboot"}] \cup [at : {"switch"}, to : Profiles]
        \cup [at : {"health"}, active : Profiles, settled : BOOLEAN]
HealthPages ==
    [ok : {FALSE}]
        \cup [ok : BOOLEAN, active : Profiles, module : Profiles \cup {NoProfile},
              settled : BOOLEAN]
HealthTypes ==
    /\ x1 \in {"no", "usb", "serial"} /\ x2 \in Profiles
    /\ x3 \in Profiles \cup {NoProfile}
    /\ x5 \in [Requests -> Handled]
    /\ x6 \in [Requests -> HealthPages]
    /\ x10 \in 0..MaxSwitches /\ x11 \in 0..MaxLosses
HealthFlags ==
    /\ x4 \in BOOLEAN /\ x7 \in BOOLEAN /\ x8 \in BOOLEAN /\ x9 \in BOOLEAN

\* The module holds a session of another profile than the card's only while the
\* restart after the switch is still to come, or was not confirmed.
SessionFollows ==
    \/ x3 = x2 \/ x3 = NoProfile
    \/ x7 \/ x8 \/ x9
    \/ \E r \in Requests : x5[r].at = "reboot"

\* A health request counts as settled only while no switch is under way.
SettledAlone ==
    \A r, o \in Requests :
        x5[r].at = "health" /\ x5[r].settled => x5[o].at \notin {"switch", "reboot"}

HealthInv == HealthTypes /\ HealthFlags /\ SessionFollows /\ SettledAlone /\ E!HealthIsHonest

LEMMA HealthTyped == ASSUME HealthInv  PROVE E!TypeOK
  <1>1. \A r \in Requests : x5[r].at \in {"idle", "switch", "reboot", "health"}
    BY DEF HealthInv, HealthTypes, Handled
  <1>2. {x4, x7, x8, x9} \subseteq BOOLEAN
    BY DEF HealthInv, HealthFlags
  <1> QED  BY <1>1, <1>2 DEF HealthInv, HealthTypes, E!TypeOK

LEMMA HealthInit == E!Init => HealthInv
  <1>1. SUFFICES ASSUME E!Init  PROVE HealthInv
    OBVIOUS
  <1>2. /\ x5 = [r \in Requests |-> [at |-> "idle"]]
        /\ x6 = [r \in Requests |-> [ok |-> FALSE]]
    BY <1>1 DEF E!Init, E!NoRequest, E!NoPage
  <1>3. [at |-> "idle"] \in Handled /\ [ok |-> FALSE] \in HealthPages
    BY DEF Handled, HealthPages
  <1>4. HealthTypes
    <2>1. x5 \in [Requests -> Handled] /\ x6 \in [Requests -> HealthPages]
      BY <1>2, <1>3
    <2>2. 0 \in 0..MaxSwitches /\ 0 \in 0..MaxLosses
      BY PagesBoundsNat
    <2> QED  BY <1>1, <2>1, <2>2 DEF E!Init, HealthTypes
  <1>5. HealthFlags /\ SessionFollows
    BY <1>1 DEF E!Init, HealthFlags, SessionFollows
  <1>6. SettledAlone /\ E!HealthIsHonest
    BY <1>2 DEF SettledAlone, E!HealthIsHonest
  <1> QED  BY <1>4, <1>5, <1>6 DEF HealthInv

\* A handler's step, which leaves the pages alone and begins no switch.
LEMMA HandlerMoves ==
  ASSUME HealthInv, NEW r \in Requests, NEW what \in Handled, E!Does(r, what),
         what.at = "health" /\ what.settled =>
             \A o \in Requests : x5[o].at \notin {"switch", "reboot"},
         what.at = "switch" => FALSE,
         what.at = "reboot" => x5[r].at = "switch"
  PROVE  x5' \in [Requests -> Handled] /\ SettledAlone'
  <1>1. x5' \in [Requests -> Handled]
    BY DEF HealthInv, HealthTypes, E!Does
  <1>2. x5'[r] = what /\ \A o \in Requests \ {r} : x5'[o] = x5[o]
    BY DEF HealthInv, HealthTypes, E!Does
  <1>3. ASSUME NEW s \in Requests, NEW o \in Requests,
               x5'[s].at = "health", x5'[s].settled
        PROVE  x5'[o].at \notin {"switch", "reboot"}
    <2>1. CASE s = r
      BY <1>2, <1>3, <2>1
    <2>2. CASE s # r
      BY <1>2, <1>3, <2>2 DEF HealthInv, SettledAlone
    <2> QED  BY <2>1, <2>2
  <1> QED  BY <1>1, <1>3 DEF SettledAlone

LEMMA HealthNext ==
  ASSUME HealthInv, E!Next  PROVE HealthInv'
  <1>1. CASE E!Install
    <2>1. UNCHANGED <<x2, x3, x4, x5, x6, x7, x8, x9, x10, x11>>
      BY <1>1 DEF E!Install
    <2>2. SessionFollows' /\ SettledAlone' /\ E!HealthIsHonest' /\ HealthFlags'
      BY <2>1 DEF HealthInv, SessionFollows, SettledAlone, E!HealthIsHonest, HealthFlags
    <2>3. HealthTypes'
      BY <1>1, <2>1 DEF E!Install, HealthInv, HealthTypes
    <2> QED  BY <2>2, <2>3 DEF HealthInv
  <1>2. CASE E!Restarts
    <2>1. UNCHANGED <<x1, x2, x5, x6, x7, x8, x9, x10, x11>> /\ x3' = NoProfile /\ x4' = FALSE
      BY <1>2 DEF E!Restarts
    <2>2. SessionFollows' /\ HealthFlags'
      BY <2>1 DEF HealthInv, SessionFollows, HealthFlags
    <2>3. SettledAlone' /\ E!HealthIsHonest'
      BY <2>1 DEF HealthInv, SettledAlone, E!HealthIsHonest
    <2>4. HealthTypes'
      BY <2>1 DEF HealthInv, HealthTypes
    <2> QED  BY <2>2, <2>3, <2>4 DEF HealthInv
  <1>3. CASE E!Loses
    <2>1. UNCHANGED <<x1, x2, x3, x5, x6, x7, x8, x9, x10>> /\ x4' = FALSE
      BY <1>3 DEF E!Loses
    <2>2. SessionFollows' /\ HealthFlags'
      BY <2>1 DEF HealthInv, SessionFollows, HealthFlags
    <2>3. SettledAlone' /\ E!HealthIsHonest'
      BY <2>1 DEF HealthInv, SettledAlone, E!HealthIsHonest
    <2>4. x11' \in 0..MaxLosses
      BY <1>3, PagesBoundsNat DEF E!Loses, HealthInv, HealthTypes
    <2>5. HealthTypes'
      BY <2>1, <2>4 DEF HealthInv, HealthTypes
    <2> QED  BY <2>2, <2>3, <2>5 DEF HealthInv
  <1>4. CASE E!Returns
    <2>1. UNCHANGED <<x1, x2, x5, x6, x10, x11>> /\ x4' = TRUE
      BY <1>4 DEF E!Returns
    <2>2. \/ x3' = x2 /\ x7' = FALSE /\ x8' = FALSE /\ x9' = FALSE
          \/ UNCHANGED <<x3, x7, x8, x9>>
      BY <1>4 DEF E!Returns
    <2>3. SessionFollows' /\ HealthFlags'
      BY <2>1, <2>2 DEF HealthInv, SessionFollows, HealthFlags
    <2>4. SettledAlone' /\ E!HealthIsHonest'
      BY <2>1 DEF HealthInv, SettledAlone, E!HealthIsHonest
    <2>5. HealthTypes'
      BY <2>1, <2>2 DEF HealthInv, HealthTypes
    <2> QED  BY <2>3, <2>4, <2>5 DEF HealthInv
  <1>5. ASSUME NEW r \in Requests, E!Switch(r)  PROVE HealthInv'
    <2>1. UNCHANGED <<x1, x2, x3, x4, x6, x7, x8, x9, x11>>
      BY <1>5 DEF E!Switch
    <2>2. PICK p \in Profiles :
             x5' = [[o \in Requests |-> E!Unsettled(o)] EXCEPT ![r] =
                        [at |-> "switch", to |-> p]]
      BY <1>5 DEF E!Switch
    <2>3. /\ x5[r].at = "idle"
          /\ x5'[r] = [at |-> "switch", to |-> p]
          /\ \A o \in Requests \ {r} : x5'[o] = E!Unsettled(o)
      BY <1>5, <2>2 DEF E!Switch, E!NoRequest
    <2>4. ASSUME NEW o \in Requests
          PROVE  /\ E!Unsettled(o) \in Handled
                 /\ E!Unsettled(o).at = x5[o].at
                 /\ E!Unsettled(o).at = "health" => E!Unsettled(o).settled = FALSE
      BY DEF E!Unsettled, HealthInv, HealthTypes, Handled
    <2>5. x5' \in [Requests -> Handled]
      <3>1. [at |-> "switch", to |-> p] \in Handled
        BY DEF Handled
      <3> QED  BY <2>2, <2>4, <3>1
    <2>6. x10' \in 0..MaxSwitches
      BY <1>5, PagesBoundsNat DEF E!Switch, HealthInv, HealthTypes
    <2>7. HealthTypes' /\ HealthFlags'
      BY <2>1, <2>5, <2>6 DEF HealthInv, HealthTypes, HealthFlags
    <2>8. SettledAlone'
      <3>1. ASSUME NEW o \in Requests, x5'[o].at = "health"  PROVE ~x5'[o].settled
        <4>1. CASE o = r
          BY <2>3, <3>1, <4>1
        <4>2. CASE o # r
          <5>1. x5'[o] = E!Unsettled(o)
            BY <2>3, <4>2
          <5>2. x5'[o].settled = FALSE
            BY <2>4, <3>1, <5>1
          <5> QED  BY <5>2
        <4> QED  BY <4>1, <4>2
      <3> QED  BY <3>1 DEF SettledAlone
    <2>9. SessionFollows'
      BY <2>1, <2>3, <2>4 DEF HealthInv, SessionFollows
    <2>10. E!HealthIsHonest'
      BY <2>1 DEF HealthInv, E!HealthIsHonest
    <2> QED  BY <2>7, <2>8, <2>9, <2>10 DEF HealthInv
  <1>6. ASSUME NEW r \in Requests, E!SwitchFails(r)  PROVE HealthInv'
    <2>1. /\ UNCHANGED <<x1, x3, x4, x6, x7, x9, x10, x11>>
          /\ E!Does(r, [at |-> "idle"])
          /\ x5[r].at = "switch"
          /\ \/ UNCHANGED <<x2, x8>>
             \/ x2' = x5[r].to /\ x8' = TRUE
      BY <1>6 DEF E!SwitchFails, E!NoRequest
    <2>2. x5' \in [Requests -> Handled] /\ SettledAlone'
      <3>1. [at |-> "idle"] \in Handled
        BY DEF Handled
      <3> QED  BY <2>1, <3>1, HandlerMoves
    <2>3. x5[r].to \in Profiles
      BY <2>1 DEF HealthInv, HealthTypes, Handled
    <2>4. HealthTypes' /\ HealthFlags'
      BY <2>1, <2>2, <2>3 DEF HealthInv, HealthTypes, HealthFlags
    <2>5. \A o \in Requests : x5[o].at = "reboot" => x5'[o].at = "reboot"
      BY <2>1 DEF E!Does, HealthInv, HealthTypes
    <2>6. SessionFollows' /\ E!HealthIsHonest'
      BY <2>1, <2>5 DEF HealthInv, SessionFollows, E!HealthIsHonest
    <2> QED  BY <2>2, <2>4, <2>6 DEF HealthInv
  <1>7. ASSUME NEW r \in Requests, E!Switched(r)  PROVE HealthInv'
    <2>1. /\ UNCHANGED <<x1, x3, x4, x6, x7, x8, x9, x10, x11>>
          /\ E!Does(r, [at |-> "reboot"])
          /\ x5[r].at = "switch" /\ x2' = x5[r].to
      BY <1>7 DEF E!Switched
    <2>2. x5' \in [Requests -> Handled] /\ SettledAlone'
      <3>1. [at |-> "reboot"] \in Handled
        BY DEF Handled
      <3> QED  BY <2>1, <3>1, HandlerMoves
    <2>3. x5[r].to \in Profiles
      BY <2>1 DEF HealthInv, HealthTypes, Handled
    <2>4. HealthTypes' /\ HealthFlags'
      BY <2>1, <2>2, <2>3 DEF HealthInv, HealthTypes, HealthFlags
    <2>5. x5'[r].at = "reboot"
      BY <2>1 DEF E!Does, HealthInv, HealthTypes
    <2>6. SessionFollows' /\ E!HealthIsHonest'
      BY <2>1, <2>5 DEF HealthInv, SessionFollows, E!HealthIsHonest
    <2> QED  BY <2>2, <2>4, <2>6 DEF HealthInv
  <1>8. ASSUME NEW r \in Requests, E!Reboot(r)  PROVE HealthInv'
    <2>1. /\ UNCHANGED <<x1, x2, x3, x4, x6, x10, x11>>
          /\ E!Does(r, [at |-> "idle"])
      BY <1>8 DEF E!Reboot, E!NoRequest
    <2>2. \/ x9' = TRUE /\ UNCHANGED <<x7, x8>>
          \/ x8' = TRUE /\ UNCHANGED <<x7, x9>>
          \/ x7' = TRUE /\ x9' \in {x9, TRUE} /\ UNCHANGED x8
      BY <1>8 DEF E!Reboot
    <2>3. x5' \in [Requests -> Handled] /\ SettledAlone'
      <3>1. [at |-> "idle"] \in Handled
        BY DEF Handled
      <3> QED  BY <2>1, <3>1, HandlerMoves
    <2>4. HealthFlags' /\ SessionFollows'
      BY <2>1, <2>2 DEF HealthInv, HealthFlags, SessionFollows
    <2>5. HealthTypes' /\ E!HealthIsHonest'
      BY <2>1, <2>3 DEF HealthInv, HealthTypes, E!HealthIsHonest
    <2> QED  BY <2>3, <2>4, <2>5 DEF HealthInv
  <1>9. ASSUME NEW r \in Requests, E!Health(r)  PROVE HealthInv'
    <2> DEFINE settled == ~x9 /\ \A o \in Requests : x5[o] = E!NoRequest
               what == [at |-> "health", active |-> x2, settled |-> settled]
    <2>1. UNCHANGED <<x1, x2, x3, x4, x6, x7, x8, x9, x10, x11>> /\ E!Does(r, what)
      BY <1>9 DEF E!Health
    <2>2. x5' \in [Requests -> Handled] /\ SettledAlone'
      <3>1. settled \in BOOLEAN
        BY DEF HealthInv, HealthFlags
      <3>2. what \in Handled
        BY <3>1 DEF HealthInv, HealthTypes, Handled
      <3>3. settled => \A o \in Requests : x5[o].at = "idle"
        BY DEF E!NoRequest
      <3>4. what.at = "health" /\ what.settled = settled
        OBVIOUS
      <3> HIDE DEF settled, what
      <3> QED  BY <2>1, <3>2, <3>3, <3>4, HandlerMoves
    <2>3. \A o \in Requests : x5[o].at = "reboot" => x5'[o].at = "reboot"
      <3>1. x5[r].at = "idle"
        BY <1>9 DEF E!Health, E!NoRequest
      <3> QED  BY <2>1, <3>1 DEF E!Does, HealthInv, HealthTypes
    <2>4. SessionFollows' /\ E!HealthIsHonest' /\ HealthFlags'
      BY <2>1, <2>3 DEF HealthInv, SessionFollows, E!HealthIsHonest, HealthFlags
    <2>5. HealthTypes'
      BY <2>1, <2>2 DEF HealthInv, HealthTypes
    <2> QED  BY <2>2, <2>4, <2>5 DEF HealthInv
  <1>10. ASSUME NEW r \in Requests, NEW answer \in HealthPages,
                x5[r].at = "health", E!Does(r, [at |-> "idle"]), E!Shows(r, answer),
                UNCHANGED <<x1, x2, x3, x4, x7, x8, x9, x10, x11>>,
                answer.ok /\ answer.settled => answer.active = answer.module
         PROVE  HealthInv'
    <2>1. x5' \in [Requests -> Handled] /\ SettledAlone'
      <3>1. [at |-> "idle"] \in Handled
        BY DEF Handled
      <3> QED  BY <1>10, <3>1, HandlerMoves
    <2>2. x6' \in [Requests -> HealthPages]
      BY <1>10 DEF E!Shows, HealthInv, HealthTypes
    <2>3. E!HealthIsHonest'
      <3>1. x6'[r] = answer /\ \A o \in Requests \ {r} : x6'[o] = x6[o]
        BY <1>10 DEF E!Shows, HealthInv, HealthTypes
      <3> QED  BY <1>10, <3>1 DEF HealthInv, E!HealthIsHonest
    <2>4. \A o \in Requests : x5[o].at = "reboot" => x5'[o].at = "reboot"
      BY <1>10 DEF E!Does, HealthInv, HealthTypes
    <2>5. SessionFollows' /\ HealthFlags'
      BY <1>10, <2>4 DEF HealthInv, SessionFollows, HealthFlags
    <2>6. HealthTypes'
      BY <1>10, <2>1, <2>2 DEF HealthInv, HealthTypes
    <2> QED  BY <2>1, <2>3, <2>5, <2>6 DEF HealthInv
  <1>11. ASSUME NEW r \in Requests, E!HealthFails(r)  PROVE HealthInv'
    <2>1. [ok |-> FALSE] \in HealthPages
      BY DEF HealthPages
    <2>2. /\ x5[r].at = "health" /\ E!Does(r, [at |-> "idle"])
          /\ E!Shows(r, [ok |-> FALSE])
          /\ UNCHANGED <<x1, x2, x3, x4, x7, x8, x9, x10, x11>>
      BY <1>11 DEF E!HealthFails, E!NoRequest, E!NoPage
    <2>3. ~[ok |-> FALSE].ok
      OBVIOUS
    <2> QED  BY <1>10, <2>1, <2>2, <2>3
  <1>12. ASSUME NEW r \in Requests, E!HealthAnswers(r)  PROVE HealthInv'
    <2> DEFINE settled == x5[r].settled /\ ~x7 /\ ~x8 /\ ~x9 /\ x5[r].active = x2
               ok == x3 # NoProfile
               answer == [ok |-> ok, active |-> x5[r].active, module |-> x3,
                          settled |-> settled]
    <2>1. /\ x5[r].at = "health" /\ E!Does(r, [at |-> "idle"]) /\ E!Shows(r, answer)
          /\ UNCHANGED <<x1, x2, x3, x4, x7, x8, x9, x10, x11>>
      BY <1>12 DEF E!HealthAnswers, E!NoRequest
    <2>2. x5[r].active \in Profiles /\ settled \in BOOLEAN /\ ok \in BOOLEAN
      BY <2>1 DEF HealthInv, HealthTypes, HealthFlags, Handled
    <2>3. ok /\ settled => x5[r].active = x3
      <3>1. settled => \A o \in Requests : x5[o].at # "reboot"
        BY <2>1 DEF HealthInv, SettledAlone
      <3> QED  BY <3>1 DEF HealthInv, SessionFollows
    <2>4. answer \in HealthPages
      <3> HIDE DEF settled, ok
      <3> QED  BY <2>2 DEF HealthInv, HealthTypes, HealthPages
    <2>5. /\ answer.ok = ok /\ answer.settled = settled
          /\ answer.active = x5[r].active /\ answer.module = x3
      OBVIOUS
    <2> HIDE DEF answer, ok, settled
    <2> QED  BY <1>10, <2>1, <2>3, <2>4, <2>5
  <1> QED
    BY <1>1, <1>2, <1>3, <1>4, <1>5, <1>6, <1>7, <1>8, <1>9, <1>11, <1>12 DEF E!Next
-----------------------------------------------------------------------------
(* What is kept of the eUICCs: EuiccChip *)

\* An entry that a reader found answered with the EID of some card.
Answering == {f \in C!Found : \E k \in Cards : f.eid \in C!EidsOf(k)}
ChipScans ==
    {C!NoScan}
        \cup [at : {"scan", "product", "store"}, aid : Nat, found : SUBSET Answering,
              product : Cards \cup {NoCard}, old : BOOLEAN]
ChipTypes ==
    /\ x1 \in Cards /\ x2 \in BOOLEAN /\ x3 \in C!Generation
    /\ x4 \in [eids : SUBSET C!Found, product : Cards \cup {NoCard}]
    /\ x5 \in [eids : SUBSET C!Found, product : Cards \cup {NoCard},
              groups : SUBSET C!Found]
    /\ x6 \in SUBSET C!Found
    /\ x7 \in [C!Reader -> ChipScans]
    /\ x8 \in SUBSET C!Cache
    /\ x9 \in 0..MaxSwaps /\ x10 \in 0..MaxScans

\* A reader asks for the product data only with an eUICC found.
ProductOfFound == \A r \in C!Reader : x7[r].at = "product" => x7[r].found # {}

\* What a reader that began after the last reset has read is of the card.
ScanIsOfCard(s) ==
    s.at # "none" /\ ~s.old => C!IsOfCard(s.found) /\ s.product \in {NoCard, x1}
ReadersOfCard == x2 => \A r \in C!Reader : ScanIsOfCard(x7[r])

ChipInv == ChipTypes /\ ProductOfFound /\ ReadersOfCard /\ C!ChipIsOfCard

LEMMA ChipTyped == ASSUME ChipInv  PROVE C!TypeOK
  <1>1. \A r \in C!Reader :
           x7[r] = C!NoScan \/ x7[r].at \in {"scan", "product", "store"}
    BY DEF ChipInv, ChipTypes, ChipScans
  <1> QED  BY <1>1 DEF ChipInv, ChipTypes, C!TypeOK

\* The candidates are the same for every card.
LEMMA AidIs == ASSUME NEW k \in Cards  PROVE C!Aid = DOMAIN Elements[k]
  <1>1. (CHOOSE l \in Cards : TRUE) \in Cards
    OBVIOUS
  <1>2. \A l \in Cards : Elements[l] \in Seq(Eid \cup {NoEid})
    BY ChipAssumption
  <1>3. \A l \in Cards : Len(Elements[l]) = Len(Elements[k])
    BY ChipAssumption
  <1>4. \A l \in Cards : DOMAIN Elements[l] = 1..Len(Elements[k])
    BY <1>2, <1>3
  <1> QED  BY <1>1, <1>4 DEF C!Aid

LEMMA AidsAreNumbers == ASSUME NEW k \in Cards  PROVE C!Aid \subseteq Nat \ {0}
  <1>1. Elements[k] \in Seq(Eid \cup {NoEid})
    BY ChipAssumption
  <1> QED  BY <1>1, AidIs

\* An eUICC that answers is of the card in the slot, and of no other.
LEMMA FoundIsOfCard ==
  ASSUME NEW k \in Cards, NEW a \in C!Aid, Elements[k][a] # NoEid
  PROVE  /\ Elements[k][a] \in Eid /\ Elements[k][a] \in C!EidsOf(k)
         /\ \A l \in Cards : Elements[k][a] \in C!EidsOf(l) => l = k
  <1>1. a \in DOMAIN Elements[k]
    BY AidIs
  <1>2. Elements[k][a] \in Eid
    BY <1>1, ChipAssumption
  <1>3. Elements[k][a] \in C!EidsOf(k)
    BY DEF C!EidsOf
  <1>4. ASSUME NEW l \in Cards, Elements[k][a] \in C!EidsOf(l)  PROVE l = k
    <2>1. PICK b \in C!Aid : Elements[k][a] = Elements[l][b]
      BY <1>4 DEF C!EidsOf
    <2>2. b \in DOMAIN Elements[l]
      BY AidIs
    <2> QED  BY <1>1, <2>1, <2>2, ChipAssumption
  <1> QED  BY <1>2, <1>3, <1>4

LEMMA FirstIsFound ==
  ASSUME ChipInv, NEW found \in SUBSET C!Found, found # {}
  PROVE  C!FirstOf(found) \in found
  <1>1. x1 \in Cards
    BY DEF ChipInv, ChipTypes
  <1>2. \E f \in found : \A g \in found : f.aid <= g.aid
    <2> DEFINE aids == {f.aid : f \in found}
    <2>1. \A f \in found : f.aid \in Nat
      BY <1>1, AidsAreNumbers DEF C!Found
    <2>2. aids \in SUBSET Nat
      BY <2>1
    <2>3. PICK n : n \in aids
      OBVIOUS
    <2>4. PICK m \in aids : \A k \in aids : m <= k
      <3> HIDE DEF aids
      <3> QED  BY <2>2, <2>3, LeastOf
    <2>5. PICK f \in found : f.aid = m
      OBVIOUS
    <2> QED  BY <2>4, <2>5
  <1> QED  BY <1>2 DEF C!FirstOf

\* The card that is guessed by the first eUICC found is the card they are of.
LEMMA GuessedIsCard ==
  ASSUME ChipInv, NEW found \in SUBSET C!Found, found # {}, C!IsOfCard(found)
  PROVE  C!CardOf(C!FirstOf(found)) = x1
  <1>1. x1 \in Cards
    BY DEF ChipInv, ChipTypes
  <1>3. C!FirstOf(found) \in found
    BY FirstIsFound
  <1>4. C!FirstOf(found).eid \in C!EidsOf(x1)
    BY <1>3 DEF C!IsOfCard
  <1>5. PICK a \in C!Aid : /\ C!FirstOf(found).eid = Elements[x1][a]
                           /\ Elements[x1][a] # NoEid
    BY <1>4 DEF C!EidsOf
  <1>6. \A l \in Cards : C!FirstOf(found).eid \in C!EidsOf(l) => l = x1
    BY <1>1, <1>5, FoundIsOfCard
  <1> QED  BY <1>1, <1>4, <1>6 DEF C!CardOf

LEMMA GuessedIsACard ==
  ASSUME ChipInv, NEW found \in SUBSET Answering, found # {}
  PROVE  C!CardOf(C!FirstOf(found)) \in Cards
  <1>1. C!FirstOf(found) \in found
    BY FirstIsFound DEF Answering
  <1>2. \E k \in Cards : C!FirstOf(found).eid \in C!EidsOf(k)
    BY <1>1 DEF Answering
  <1> QED  BY <1>2 DEF C!CardOf

LEMMA ReaderIs ==
  /\ C!Generation \subseteq C!Reader /\ C!ChipReader \in C!Reader
  /\ C!GroupReader \in C!Reader /\ C!GroupReader \notin C!Generation
  /\ C!Generation \subseteq Nat
  BY ChipAssumption DEF C!Reader, C!Generation, C!ChipReader, C!GroupReader

LEMMA ChipInit == C!Init => ChipInv
  <1>1. SUFFICES ASSUME C!Init  PROVE ChipInv
    OBVIOUS
  <1>2. /\ x4 = [eids |-> {}, product |-> NoCard]
        /\ x5 = [eids |-> {}, product |-> NoCard, groups |-> {}]
        /\ x6 = {} /\ x8 = {}
        /\ x7 = [r \in C!Reader |-> C!NoScan]
    BY <1>1 DEF C!Init, C!NoChip, C!NoView
  <1>3. C!NoScan \in ChipScans /\ C!NoScan.at = "none"
    BY DEF ChipScans, C!NoScan
  <1>4. ChipTypes
    <2>1. x3 \in C!Generation /\ x9 \in 0..MaxSwaps /\ x10 \in 0..MaxScans
      BY <1>1, ChipAssumption, PagesBoundsNat DEF C!Init, C!Generation
    <2>2. /\ x4 \in [eids : SUBSET C!Found, product : Cards \cup {NoCard}]
          /\ x5 \in [eids : SUBSET C!Found, product : Cards \cup {NoCard},
                   groups : SUBSET C!Found]
      BY <1>2
    <2>3. x7 \in [C!Reader -> ChipScans]
      BY <1>2, <1>3
    <2> QED  BY <1>1, <1>2, <2>1, <2>2, <2>3 DEF C!Init, ChipTypes
  <1>5. ProductOfFound /\ ReadersOfCard
    BY <1>2, <1>3 DEF ProductOfFound, ReadersOfCard, ScanIsOfCard
  <1>6. C!ChipIsOfCard
    BY <1>2 DEF C!ChipIsOfCard, C!IsOfCard
  <1> QED  BY <1>4, <1>5, <1>6 DEF ChipInv

\* A reader's step, with the card and what was noticed of it unchanged.
LEMMA ReaderMoves ==
  ASSUME ChipInv, NEW r \in C!Reader, NEW s \in ChipScans, C!Reads(r, s),
         s.at = "product" => s.found # {},
         x2 => ScanIsOfCard(s), UNCHANGED <<x1, x2>>
  PROVE  x7' \in [C!Reader -> ChipScans] /\ ProductOfFound' /\ ReadersOfCard'
  <1>1. x7' \in [C!Reader -> ChipScans]
    BY DEF ChipInv, ChipTypes, C!Reads
  <1>2. x7'[r] = s /\ \A o \in C!Reader \ {r} : x7'[o] = x7[o]
    BY DEF ChipInv, ChipTypes, C!Reads
  <1>3. ProductOfFound'
    BY <1>2 DEF ChipInv, ProductOfFound
  <1>4. ASSUME x2, NEW o \in C!Reader  PROVE ScanIsOfCard(x7'[o])
    BY <1>2, <1>4 DEF ChipInv, ReadersOfCard
  <1>5. ReadersOfCard'
    BY <1>4 DEF ReadersOfCard, ScanIsOfCard, C!IsOfCard
  <1> QED  BY <1>1, <1>3, <1>5

\* A scan that is under way, field by field.
LEMMA ScanIs ==
  ASSUME ChipInv, NEW r \in C!Reader, x7[r].at # "none"
  PROVE  /\ x7[r] \in [at : {"scan", "product", "store"}, aid : Nat,
                      found : SUBSET Answering, product : Cards \cup {NoCard},
                      old : BOOLEAN]
         /\ x7[r] # C!NoScan
  BY DEF ChipInv, ChipTypes, ChipScans, C!NoScan

\* What is merged into the list is the entry, or was there before.
LEMMA MergedIs ==
  ASSUME NEW known, NEW f  PROVE C!Merged(known, f) \subseteq known \cup {f}
  BY DEF C!Merged

LEMMA NothingBegins == C!NoScan \in ChipScans /\ C!NoScan.at = "none" /\ ScanIsOfCard(C!NoScan)
  BY DEF ChipScans, C!NoScan, ScanIsOfCard

LEMMA ChipBegins ==
  ASSUME ChipInv, NEW r \in C!Reader, C!Begins(r)  PROVE ChipInv'
  <1>1. /\ C!Reads(r, C!Begun) /\ x10' = x10 + 1 /\ x10 < MaxScans
        /\ UNCHANGED <<x1, x2, x3, x4, x5, x6, x8, x9>>
    BY DEF C!Begins, C!caches
  <1>2. C!Begun \in ChipScans /\ C!Begun.at = "scan" /\ ScanIsOfCard(C!Begun)
    BY DEF C!Begun, ChipScans, ScanIsOfCard, C!IsOfCard
  <1>3. x7' \in [C!Reader -> ChipScans] /\ ProductOfFound' /\ ReadersOfCard'
    BY <1>1, <1>2, ReaderMoves
  <1>4. x10' \in 0..MaxScans
    BY <1>1, PagesBoundsNat DEF ChipInv, ChipTypes
  <1>5. ChipTypes'
    BY <1>1, <1>3, <1>4 DEF ChipInv, ChipTypes
  <1>6. C!ChipIsOfCard'
    BY <1>1 DEF ChipInv, C!ChipIsOfCard, C!IsOfCard
  <1> QED  BY <1>3, <1>5, <1>6 DEF ChipInv

LEMMA ChipLooks ==
  ASSUME ChipInv, NEW r \in C!Reader, C!Look(r)  PROVE ChipInv'
  <1> DEFINE a == x7[r].aid
             f == [aid |-> a, eid |-> Elements[x1][a]]
  <1>1. x7[r].at = "scan" /\ C!Continues(x7[r].found, a)
    BY DEF C!Look
  <1>2. UNCHANGED <<x1, x2, x3, x4, x5, x9, x10>>
    BY DEF C!Look, C!bounds
  <1>3. /\ a \in C!Aid /\ a \in Nat /\ a + 1 \in Nat /\ x1 \in Cards
        /\ x7[r].found \in SUBSET Answering /\ x7[r].product \in Cards \cup {NoCard}
        /\ x7[r].old \in BOOLEAN
    BY <1>1, ScanIs DEF C!Continues, ChipInv, ChipTypes
  <1>4. CASE /\ f.eid # NoEid
             /\ C!Reads(r, [x7[r] EXCEPT !.aid = a + 1, !.found = @ \cup {f}])
             /\ x6' = C!Merged(x6, f)
             /\ x8' = IF x7[r].old THEN x8 \cup {"discovered"} ELSE x8
    <2> DEFINE s == [x7[r] EXCEPT !.aid = a + 1, !.found = x7[r].found \cup {f}]
    <2>1. f.eid \in Eid /\ f.eid \in C!EidsOf(x1)
      BY <1>3, <1>4, FoundIsOfCard
    <2>2. f \in C!Found /\ f \in Answering
      BY <1>3, <2>1 DEF C!Found, Answering
    <2>3. /\ s.at = "scan" /\ s.found = x7[r].found \cup {f} /\ s.old = x7[r].old
          /\ s.product = x7[r].product /\ s \in ChipScans
      <3> HIDE DEF f, a
      <3> QED  BY <1>1, <1>3, <2>2, ScanIs DEF ChipScans
    <2>4. x2 => ScanIsOfCard(s)
      <3>1. x2 => ScanIsOfCard(x7[r])
        BY DEF ChipInv, ReadersOfCard
      <3> HIDE DEF s, f
      <3> QED  BY <1>1, <2>1, <2>3, <3>1 DEF ScanIsOfCard, C!IsOfCard
    <2>5. x7' \in [C!Reader -> ChipScans] /\ ProductOfFound' /\ ReadersOfCard'
      <3>1. C!Reads(r, s)
        BY <1>4
      <3> HIDE DEF s
      <3> QED  BY <1>2, <2>3, <2>4, <3>1, ReaderMoves
    <2>6. x6' \subseteq x6 \cup {f}
      BY <1>4, MergedIs
    <2>7. x8' \in SUBSET C!Cache
      BY <1>4 DEF ChipInv, ChipTypes, C!Cache
    <2>8. ChipTypes'
      BY <1>2, <2>2, <2>5, <2>6, <2>7 DEF ChipInv, ChipTypes
    <2>9. "discovered" \notin x8' => "discovered" \notin x8 /\ ~x7[r].old
      BY <1>4
    <2>10. x2 /\ "discovered" \notin x8' => C!IsOfCard(x6)'
      BY <1>2, <2>1, <2>6, <2>9 DEF ChipInv, C!ChipIsOfCard, C!IsOfCard
    <2>11. "chip" \in x8' <=> "chip" \in x8
      BY <1>4
    <2>12. "shown" \in x8' <=> "shown" \in x8
      BY <1>4
    <2>13. C!ChipIsOfCard'
      BY <1>2, <2>10, <2>11, <2>12 DEF ChipInv, C!ChipIsOfCard, C!IsOfCard
    <2> QED  BY <2>5, <2>8, <2>13 DEF ChipInv
  <1>5. CASE /\ C!Reads(r, [x7[r] EXCEPT !.aid = a + 1])
             /\ UNCHANGED <<x6, x8>>
    <2> DEFINE s == [x7[r] EXCEPT !.aid = a + 1]
    <2>1. /\ s.at = "scan" /\ s.found = x7[r].found /\ s.old = x7[r].old
          /\ s.product = x7[r].product /\ s \in ChipScans
      <3> HIDE DEF a
      <3> QED  BY <1>1, <1>3, ScanIs DEF ChipScans
    <2>2. x2 => ScanIsOfCard(s)
      <3>1. x2 => ScanIsOfCard(x7[r])
        BY DEF ChipInv, ReadersOfCard
      <3> HIDE DEF s
      <3> QED  BY <1>1, <2>1, <3>1 DEF ScanIsOfCard, C!IsOfCard
    <2>3. x7' \in [C!Reader -> ChipScans] /\ ProductOfFound' /\ ReadersOfCard'
      <3>1. C!Reads(r, s)
        BY <1>5
      <3> HIDE DEF s
      <3> QED  BY <1>2, <2>1, <2>2, <3>1, ReaderMoves
    <2>4. ChipTypes'
      BY <1>2, <1>5, <2>3 DEF ChipInv, ChipTypes
    <2>5. C!ChipIsOfCard'
      BY <1>2, <1>5 DEF ChipInv, C!ChipIsOfCard, C!IsOfCard
    <2> QED  BY <2>3, <2>4, <2>5 DEF ChipInv
  <1> QED  BY <1>4, <1>5 DEF C!Look

LEMMA ChipFinds ==
  ASSUME ChipInv, NEW r \in C!Reader, C!Finds(r)  PROVE ChipInv'
  <1>1. x7[r].at = "scan" /\ UNCHANGED <<x1, x2, x3, x4, x6, x8, x9, x10>>
    BY DEF C!Finds, C!bounds
  <1>2. CASE x7[r].found = {}
    <2>1. C!Reads(r, C!NoScan) /\ x5' \in {x5, C!NoView}
      BY <1>2 DEF C!Finds
    <2>2. x7' \in [C!Reader -> ChipScans] /\ ProductOfFound' /\ ReadersOfCard'
      BY <1>1, <2>1, NothingBegins, ReaderMoves
    <2>3. C!NoView \in [eids : SUBSET C!Found, product : Cards \cup {NoCard},
                        groups : SUBSET C!Found]
      BY DEF C!NoView
    <2>4. ChipTypes'
      BY <1>1, <2>1, <2>2, <2>3 DEF ChipInv, ChipTypes
    <2>5. C!ChipIsOfCard'
      <3>1. CASE x5' = x5
        BY <1>1, <3>1 DEF ChipInv, C!ChipIsOfCard, C!IsOfCard
      <3>2. CASE x5' = C!NoView
        <4>1. x5'.eids = {} /\ x5'.groups = {} /\ x5'.product = NoCard
          BY <3>2 DEF C!NoView
        <4> QED  BY <1>1, <4>1 DEF ChipInv, C!ChipIsOfCard, C!IsOfCard
      <3> QED  BY <2>1, <3>1, <3>2
    <2> QED  BY <2>2, <2>4, <2>5 DEF ChipInv
  <1>3. CASE x7[r].found # {}
    <2> DEFINE next == IF r = C!GroupReader THEN "store" ELSE "product"
               s == [x7[r] EXCEPT !.at = next]
    <2>1. C!Reads(r, s) /\ x5' = x5
      BY <1>3 DEF C!Finds
    <2>2. /\ s.at = next /\ s.found = x7[r].found /\ s.old = x7[r].old
          /\ s.product = x7[r].product /\ s \in ChipScans
      <3>1. next \in {"store", "product"}
        OBVIOUS
      <3> HIDE DEF next
      <3> QED  BY <1>1, <3>1, ScanIs DEF ChipScans
    <2>3. x2 => ScanIsOfCard(s)
      <3>1. x2 => ScanIsOfCard(x7[r])
        BY DEF ChipInv, ReadersOfCard
      <3> HIDE DEF s, next
      <3> QED  BY <1>1, <2>2, <3>1 DEF ScanIsOfCard
    <2>4. x7' \in [C!Reader -> ChipScans] /\ ProductOfFound' /\ ReadersOfCard'
      <3> HIDE DEF s, next
      <3> QED  BY <1>1, <1>3, <2>1, <2>2, <2>3, ReaderMoves
    <2>5. ChipTypes'
      BY <1>1, <2>1, <2>4 DEF ChipInv, ChipTypes
    <2>6. C!ChipIsOfCard'
      BY <1>1, <2>1 DEF ChipInv, C!ChipIsOfCard, C!IsOfCard
    <2> QED  BY <2>4, <2>5, <2>6 DEF ChipInv
  <1> QED  BY <1>2, <1>3

LEMMA ChipProduct ==
  ASSUME ChipInv, NEW r \in C!Reader, C!Product(r)  PROVE ChipInv'
  <1>1. x7[r].at = "product"
        /\ UNCHANGED <<x1, x2, x3, x4, x5, x6, x8, x9, x10>>
    BY DEF C!Product, C!caches, C!bounds
  <1> DEFINE old == x7[r].old \/ (C!Reusable(x4) /\ "chip" \in x8)
  <1>2. PICK k \in IF C!Reusable(x4) THEN {x4.product}
                   ELSE C!Applet \cup C!Guess(x7[r].found) :
               C!Reads(r, [x7[r] EXCEPT !.at = "store", !.product = k, !.old = old])
    BY DEF C!Product
  <1>2a. ~C!Reusable(x4) =>
          k \in {x1, NoCard, C!CardOf(C!FirstOf(x7[r].found))}
    BY <1>2 DEF C!Applet, C!Guess
  <1>3. /\ x7[r].found # {} /\ x7[r].found \in SUBSET Answering
        /\ x7[r].found \in SUBSET C!Found
    BY <1>1, ScanIs DEF ChipInv, ProductOfFound, Answering
  <1>4. x2 /\ ~x7[r].old => C!IsOfCard(x7[r].found)
    BY <1>1 DEF ChipInv, ReadersOfCard, ScanIsOfCard
  <1>5. x2 /\ ~old => k \in {NoCard, x1}
    <2>1. ASSUME x2, ~old  PROVE k \in {NoCard, x1}
      <3>1. CASE C!Reusable(x4)
        BY <1>2, <2>1, <3>1 DEF ChipInv, C!ChipIsOfCard
      <3>2. CASE ~C!Reusable(x4)
        BY <1>2a, <1>3, <1>4, <2>1, <3>2, GuessedIsCard
      <3> QED  BY <3>1, <3>2
    <2> QED  BY <2>1
  <1>6. k \in Cards \cup {NoCard}
    <2>1. CASE C!Reusable(x4)
      BY <1>2, <2>1 DEF ChipInv, ChipTypes
    <2>2. CASE ~C!Reusable(x4)
      <3>1. C!CardOf(C!FirstOf(x7[r].found)) \in Cards
        BY <1>3, GuessedIsACard
      <3> QED  BY <1>2a, <2>2, <3>1 DEF ChipInv, ChipTypes
    <2> QED  BY <2>1, <2>2
  <1> DEFINE s == [x7[r] EXCEPT !.at = "store", !.product = k, !.old = old]
  <1>7. /\ s.at = "store" /\ s.found = x7[r].found /\ s.old = old /\ s.product = k
        /\ s \in ChipScans
    <2>1. old \in BOOLEAN
      BY <1>1, ScanIs
    <2> HIDE DEF old
    <2> QED  BY <1>1, <1>6, <2>1, ScanIs DEF ChipScans
  <1>8. x2 => ScanIsOfCard(s)
    <2>1. ~old => ~x7[r].old
      OBVIOUS
    <2> HIDE DEF s, old
    <2> QED  BY <1>4, <1>5, <1>7, <2>1 DEF ScanIsOfCard
  <1>9. x7' \in [C!Reader -> ChipScans] /\ ProductOfFound' /\ ReadersOfCard'
    <2>1. C!Reads(r, s)
      BY <1>2
    <2> HIDE DEF s, old
    <2> QED  BY <1>1, <1>7, <1>8, <2>1, ReaderMoves
  <1>10. ChipTypes'
    BY <1>1, <1>9 DEF ChipInv, ChipTypes
  <1>11. C!ChipIsOfCard'
    BY <1>1 DEF ChipInv, C!ChipIsOfCard, C!IsOfCard
  <1> QED  BY <1>9, <1>10, <1>11 DEF ChipInv

\* A reader stores what it has read; what began before the reset is late.
LEMMA ChipStores ==
  ASSUME ChipInv, C!StoreChip \/ C!StoreProfiles \/ \E g \in C!Generation : C!Store(g)
  PROVE  ChipInv'
  <1>1. PICK r \in C!Reader :
          /\ x7[r].at = "store" /\ C!Reads(r, C!NoScan)
          /\ \/ r = C!ChipReader /\ C!StoreChip
             \/ r = C!GroupReader /\ C!StoreProfiles
             \/ r \in C!Generation /\ C!Store(r)
    BY ReaderIs DEF C!StoreChip, C!StoreProfiles, C!Store
  <1>2. UNCHANGED <<x1, x2, x3, x6, x9, x10>>
    BY <1>1 DEF C!StoreChip, C!StoreProfiles, C!Store, C!bounds
  <1>3. x7' \in [C!Reader -> ChipScans] /\ ProductOfFound' /\ ReadersOfCard'
    BY <1>1, <1>2, NothingBegins, ReaderMoves
  <1> DEFINE found == x7[r].found
             product == x7[r].product
  <1>4. /\ found \in SUBSET C!Found /\ product \in Cards \cup {NoCard}
        /\ x7[r].old \in BOOLEAN
    BY <1>1, ScanIs DEF Answering
  <1>5. x2 /\ ~x7[r].old => C!IsOfCard(found) /\ product \in {NoCard, x1}
    BY <1>1 DEF ChipInv, ReadersOfCard, ScanIsOfCard
  <1> HIDE DEF found, product
  <1>6. CASE /\ x4' = [eids |-> found, product |-> product] /\ x5' = x5
             /\ x8' = (x8 \ {"chip"}) \cup (IF x7[r].old THEN {"chip"} ELSE {})
    <2>1. ChipTypes'
      BY <1>2, <1>3, <1>4, <1>6 DEF ChipInv, ChipTypes, C!Cache
    <2>2. x4'.eids = found /\ x4'.product = product
      BY <1>6
    <2>3. /\ "chip" \notin x8' => ~x7[r].old
          /\ "shown" \in x8' <=> "shown" \in x8
          /\ "discovered" \in x8' <=> "discovered" \in x8
      BY <1>6
    <2>4. C!ChipIsOfCard'
      BY <1>2, <1>5, <1>6, <2>2, <2>3 DEF ChipInv, C!ChipIsOfCard, C!IsOfCard
    <2> QED  BY <1>3, <2>1, <2>4 DEF ChipInv
  <1>7. CASE /\ x5' = [x5 EXCEPT !.groups = found] /\ x4' = x4
             /\ x8' = x8 \cup (IF x7[r].old THEN {"shown"} ELSE {})
    <2>1. /\ x5'.eids = x5.eids /\ x5'.product = x5.product /\ x5'.groups = found
          /\ x5' \in [eids : SUBSET C!Found, product : Cards \cup {NoCard},
                     groups : SUBSET C!Found]
      BY <1>4, <1>7 DEF ChipInv, ChipTypes
    <2>2. x8' \in SUBSET C!Cache
      BY <1>7 DEF ChipInv, ChipTypes, C!Cache
    <2>3. ChipTypes'
      BY <1>2, <1>3, <1>7, <2>1, <2>2 DEF ChipInv, ChipTypes
    <2>4. /\ "shown" \notin x8' => "shown" \notin x8 /\ ~x7[r].old
          /\ "chip" \in x8' <=> "chip" \in x8
          /\ "discovered" \in x8' <=> "discovered" \in x8
      BY <1>7
    <2>5. C!ChipIsOfCard'
      BY <1>2, <1>5, <1>7, <2>1, <2>4 DEF ChipInv, C!ChipIsOfCard, C!IsOfCard
    <2> QED  BY <1>3, <2>3, <2>5 DEF ChipInv
  <1>8. CASE /\ x4' = [eids |-> found, product |-> product]
             /\ x5' = [eids |-> found, product |-> product, groups |-> found]
             /\ x8' = (x8 \ {"chip", "shown"})
                         \cup (IF x7[r].old THEN {"chip", "shown"} ELSE {})
    <2>1. x8' \in SUBSET C!Cache
      BY <1>8 DEF ChipInv, ChipTypes, C!Cache
    <2>2. ChipTypes'
      BY <1>2, <1>3, <1>4, <1>8, <2>1 DEF ChipInv, ChipTypes
    <2>3. /\ x4'.eids = found /\ x4'.product = product
          /\ x5'.eids = found /\ x5'.product = product /\ x5'.groups = found
      BY <1>8
    <2>4. /\ "chip" \notin x8' => ~x7[r].old
          /\ "shown" \notin x8' => ~x7[r].old
          /\ "discovered" \in x8' <=> "discovered" \in x8
      BY <1>8
    <2>5. C!ChipIsOfCard'
      BY <1>2, <1>5, <2>3, <2>4 DEF ChipInv, C!ChipIsOfCard, C!IsOfCard
    <2> QED  BY <1>3, <2>2, <2>5 DEF ChipInv
  <1>9. CASE UNCHANGED <<x4, x5, x8>>
    <2>1. ChipTypes'
      BY <1>2, <1>3, <1>9 DEF ChipInv, ChipTypes
    <2>2. C!ChipIsOfCard'
      BY <1>2, <1>9 DEF ChipInv, C!ChipIsOfCard, C!IsOfCard
    <2> QED  BY <1>3, <2>1, <2>2 DEF ChipInv
  <1>10. CASE r = C!ChipReader /\ C!StoreChip
    BY <1>6, <1>10 DEF C!StoreChip, found, product
  <1>11. CASE r = C!GroupReader /\ C!StoreProfiles
    BY <1>7, <1>11 DEF C!StoreProfiles, found
  <1>12. CASE r \in C!Generation /\ C!Store(r)
    BY <1>8, <1>9, <1>12 DEF C!Store, found, product
  <1> QED  BY <1>1, <1>10, <1>11, <1>12

\* The overview is forgotten and a new generation begins.
LEMMA ChipRaises ==
  ASSUME ChipInv, C!Raise
  PROVE  /\ x3' \in C!Generation
         /\ x5' \in [eids : SUBSET C!Found, product : Cards \cup {NoCard},
                    groups : SUBSET C!Found]
         /\ x5'.eids = {} /\ x5'.groups = {} /\ x5'.product = NoCard
  <1>1. x3 < MaxGeneration /\ x3' = x3 + 1 /\ x5' = C!NoView
    BY DEF C!Raise
  <1>2. x3' \in C!Generation
    BY <1>1, ChipAssumption DEF ChipInv, ChipTypes, C!Generation
  <1> QED  BY <1>1, <1>2 DEF C!NoView

LEMMA NoChipIs ==
  /\ C!NoChip \in [eids : SUBSET C!Found, product : Cards \cup {NoCard}]
  /\ C!NoChip.eids = {} /\ C!NoChip.product = NoCard
  BY DEF C!NoChip

LEMMA ChipResets == ASSUME ChipInv, C!Reset  PROVE ChipInv'
  <1>1. /\ C!Raise /\ x4' = C!NoChip /\ x6' = {} /\ x2' = TRUE /\ x8' = {}
        /\ x7' = [r \in C!Reader |-> IF x7[r] = C!NoScan THEN C!NoScan
                                    ELSE [x7[r] EXCEPT !.old = TRUE]]
        /\ UNCHANGED <<x1, x9, x10>>
    BY DEF C!Reset, C!bounds
  <1>2. ASSUME NEW r \in C!Reader
        PROVE  /\ x7'[r] \in ChipScans
               /\ x7'[r].at = "product" => x7'[r].found # {}
               /\ x7'[r].at # "none" => x7'[r].old
    <2>1. CASE x7[r] = C!NoScan
      BY <1>1, <2>1, NothingBegins
    <2>2. CASE x7[r] # C!NoScan
      <3>1. x7[r] \in ChipScans /\ x7'[r] = [x7[r] EXCEPT !.old = TRUE]
        BY <1>1, <2>2 DEF ChipInv, ChipTypes
      <3>2. /\ x7'[r].at = x7[r].at /\ x7'[r].found = x7[r].found
            /\ x7'[r].old = TRUE /\ x7'[r] \in ChipScans
        BY <2>2, <3>1 DEF ChipScans
      <3> QED  BY <3>2 DEF ChipInv, ProductOfFound
    <2> QED  BY <2>1, <2>2
  <1>3. ProductOfFound' /\ ReadersOfCard'
    BY <1>2 DEF ProductOfFound, ReadersOfCard, ScanIsOfCard
  <1>4. x7' \in [C!Reader -> ChipScans]
    BY <1>1, <1>2
  <1>5. ChipTypes'
    BY <1>1, <1>4, ChipRaises, NoChipIs DEF ChipInv, ChipTypes
  <1>6. C!ChipIsOfCard'
    BY <1>1, ChipRaises, NoChipIs DEF C!ChipIsOfCard, C!IsOfCard
  <1> QED  BY <1>3, <1>5, <1>6 DEF ChipInv

LEMMA ChipForgets == ASSUME ChipInv, C!Invalidate \/ C!Refresh  PROVE ChipInv'
  <1>1. C!Raise /\ UNCHANGED <<x1, x2, x7, x9, x10>>
    BY DEF C!Invalidate, C!Refresh, C!bounds
  <1>2. x4' \in {x4, C!NoChip} /\ x6' \in {x6, {}}
    BY DEF C!Invalidate, C!Refresh
  <1>3. /\ x8' \subseteq x8
        /\ "chip" \in x8 /\ "chip" \notin x8' => x4' = C!NoChip
        /\ "discovered" \in x8 /\ "discovered" \notin x8' => x6' = {}
    <2>1. CASE C!Invalidate
      BY <2>1 DEF C!Invalidate
    <2>2. CASE C!Refresh
      BY <2>2 DEF C!Refresh
    <2> QED  BY <2>1, <2>2
  <1>4. ProductOfFound' /\ ReadersOfCard'
    BY <1>1 DEF ChipInv, ProductOfFound, ReadersOfCard, ScanIsOfCard, C!IsOfCard
  <1>5. ChipTypes'
    BY <1>1, <1>2, <1>3, ChipRaises, NoChipIs DEF ChipInv, ChipTypes
  <1>6. ASSUME x2, "chip" \notin x8'
        PROVE  C!IsOfCard(x4.eids)' /\ x4'.product \in {NoCard, x1}
    BY <1>1, <1>2, <1>3, <1>6, NoChipIs DEF ChipInv, C!ChipIsOfCard, C!IsOfCard
  <1>7. ASSUME x2, "discovered" \notin x8'  PROVE C!IsOfCard(x6)'
    BY <1>1, <1>2, <1>3, <1>7 DEF ChipInv, C!ChipIsOfCard, C!IsOfCard
  <1>8. C!ChipIsOfCard'
    BY <1>1, <1>6, <1>7, ChipRaises DEF C!ChipIsOfCard, C!IsOfCard
  <1> QED  BY <1>4, <1>5, <1>8 DEF ChipInv

LEMMA ChipNext == ASSUME ChipInv, C!Next  PROVE ChipInv'
  <1>1. CASE C!Swap
    <2>1. /\ x2' = FALSE /\ x1' \in Cards /\ x9' = x9 + 1 /\ x9 < MaxSwaps
          /\ UNCHANGED <<x3, x4, x5, x6, x7, x8, x10>>
      BY <1>1 DEF C!Swap, C!caches
    <2>2. x9' \in 0..MaxSwaps
      BY <2>1, PagesBoundsNat DEF ChipInv, ChipTypes
    <2>3. ChipTypes'
      BY <2>1, <2>2 DEF ChipInv, ChipTypes
    <2>4. ProductOfFound'
      BY <2>1 DEF ChipInv, ProductOfFound
    <2>5. ReadersOfCard' /\ C!ChipIsOfCard'
      BY <2>1 DEF ReadersOfCard, C!ChipIsOfCard
    <2> QED  BY <2>3, <2>4, <2>5 DEF ChipInv
  <1>2. ASSUME NEW g \in C!Generation, C!Load(g)  PROVE ChipInv'
    BY <1>2, ReaderIs, ChipBegins DEF C!Load
  <1>3. CASE C!GetChip \/ C!RefreshProfiles
    BY <1>3, ReaderIs, ChipBegins DEF C!GetChip, C!RefreshProfiles
  <1> QED
    BY <1>1, <1>2, <1>3, ChipLooks, ChipFinds, ChipProduct, ChipStores, ChipResets,
       ChipForgets DEF C!Next
-----------------------------------------------------------------------------
(* What the manager knows of the modem: ModemStatus *)

\* Who is woken, and by what: the same in both parts of the status.
WakingInv ==
    /\ x12 \subseteq Subscribers /\ x13 \subseteq Subscribers
    /\ x14 \subseteq Subscribers /\ x15 \subseteq Subscribers
    /\ x13 = x14 \cup x15 /\ x12 \cap x13 = {}

LEMMA AllAreWoken ==
  ASSUME WakingInv, x13' = x13 \cup x12, x12' = {},
         \/ x15' = x15 \cup x12 /\ x14' = x14
         \/ x14' = x14 \cup x12 /\ x15' = x15
  PROVE  WakingInv'
  BY DEF WakingInv

LEMMA OneSubscribes ==
  ASSUME WakingInv, NEW s \in Subscribers, s \notin x12 \cup x13, x12' = x12 \cup {s},
         UNCHANGED <<x13, x14, x15>>
  PROVE  WakingInv'
  BY DEF WakingInv

LEMMA NobodyWaits ==
  ASSUME WakingInv, UNCHANGED <<x12, x13, x14, x15>>  PROVE WakingInv'
  BY DEF WakingInv

LEMMA StatusWakes == ASSUME WakingInv, S!Next  PROVE WakingInv'
  <1>1. ASSUME NEW inserted, S!Answered(inserted)  PROVE WakingInv'
    <2>1. CASE inserted
      BY <1>1, <2>1, AllAreWoken DEF S!Answered, S!DispatchRDY
    <2>2. CASE ~inserted
      BY <1>1, <2>2, NobodyWaits DEF S!Answered, S!subscriptions
    <2> QED  BY <2>1, <2>2
  <1>2. CASE S!Probe
    BY <1>2, NobodyWaits DEF S!Probe, S!subscriptions
  <1>3. ASSUME NEW c \in Collectors, S!Collect(c) \/ S!Asks(c) \/ S!Learns(c) \/ S!Update(c)
        PROVE  WakingInv'
    <2>1. CASE S!Asks(c)
      BY <1>1, <2>1, NobodyWaits DEF S!Asks, S!subscriptions
    <2>2. CASE S!Collect(c) \/ S!Learns(c) \/ S!Update(c)
      BY <2>2, NobodyWaits DEF S!Collect, S!Learns, S!Update, S!subscriptions
    <2> QED  BY <1>3, <2>1, <2>2
  <1>4. ASSUME NEW what \in {"alert", "recovery"}, S!Calls(what)  PROVE WakingInv'
    BY <1>4, NobodyWaits DEF S!Calls, S!subscriptions
  <1>5. ASSUME NEW s \in Subscribers, S!SubscribeRDY(s)  PROVE WakingInv'
    BY <1>5, OneSubscribes DEF S!SubscribeRDY
  <1>6. CASE S!Restarts
    BY <1>6, AllAreWoken DEF S!Restarts, S!DispatchRDY
  <1>7. CASE S!ChangesCard
    BY <1>1, <1>7, NobodyWaits DEF S!ChangesCard, S!subscriptions
  <1> QED  BY <1>2, <1>3, <1>4, <1>5, <1>6, <1>7 DEF S!Next

LEMMA WatchWakes == ASSUME WakingInv, R!Next  PROVE WakingInv'
  <1>1. ASSUME NEW inserted, R!Answered(inserted)  PROVE WakingInv'
    <2>1. CASE inserted
      BY <1>1, <2>1, AllAreWoken DEF R!Answered, R!DispatchRDY
    <2>2. CASE ~inserted
      BY <1>1, <2>2, NobodyWaits DEF R!Answered, R!subscriptions
    <2> QED  BY <2>1, <2>2
  <1>2. CASE R!Probe
    BY <1>2, NobodyWaits DEF R!Probe, R!subscriptions
  <1>3. ASSUME NEW w \in Watchers, R!Look(w) \/ R!Missed(w) \/ R!Seen(w)
        PROVE  WakingInv'
    <2>1. CASE R!Look(w)
      BY <1>1, <2>1, NobodyWaits DEF R!Look, R!subscriptions
    <2>2. CASE R!Missed(w) \/ R!Seen(w)
      BY <2>2, NobodyWaits DEF R!Missed, R!Seen, R!subscriptions
    <2> QED  BY <1>3, <2>1, <2>2
  <1>4. ASSUME NEW what \in {"alert", "recovery"}, R!Calls(what)  PROVE WakingInv'
    BY <1>4, NobodyWaits DEF R!Calls, R!subscriptions
  <1>5. ASSUME NEW s \in Subscribers, R!SubscribeRDY(s)  PROVE WakingInv'
    BY <1>5, OneSubscribes DEF R!SubscribeRDY
  <1>6. CASE R!Restarts
    BY <1>6, AllAreWoken DEF R!Restarts, R!DispatchRDY
  <1>7. CASE R!ChangesCard
    BY <1>1, <1>7, NobodyWaits DEF R!ChangesCard, R!subscriptions
  <1> QED  BY <1>2, <1>3, <1>4, <1>5, <1>6, <1>7 DEF R!Next

\* The watch on the SIM, which the part with the collections leaves alone.
WatchIdles ==
    /\ x6 = [w \in {} |-> "idle"] /\ x7 = 0 /\ x8 = FALSE /\ x9 = {}
    /\ x10 = "nothing" /\ x11 = FALSE

Collections ==
    {S!Resting}
        \cup [at : {"sim", "imsi", "iccid", "update"}, clean : BOOLEAN,
              imsi : Cards \cup {NoCard}, iccid : Cards \cup {NoCard},
              inserted : BOOLEAN]
StatusTypes ==
    /\ x1 \in Cards \cup {NoCard} /\ x2 \in {"probe", "configure", "ready"}
    /\ x3 \in [iccid : Cards \cup {NoCard}, imsi : Cards \cup {NoCard},
              inserted : BOOLEAN]
    /\ x4 \in BOOLEAN
    /\ x5 \in [Collectors -> Collections]
    /\ x16 \in 0..MaxEvents

\* A collection that met no failure and no change of the card has read that card.
ReadSoFar(c) ==
    c.at # "idle" /\ c.clean =>
        /\ c.at = "sim" => c.imsi = NoCard
        /\ c.at = "imsi" => x1 # NoCard
        /\ c.at \in {"imsi", "iccid", "update"} => c.inserted = (x1 # NoCard)
        /\ c.at \in {"iccid", "update"} => c.imsi = x1
        /\ c.at = "update" => c.iccid = x1
CollectionsAreOfCard == \A c \in Collectors : ReadSoFar(x5[c])

StatusInv ==
    /\ WatchIdles /\ WakingInv /\ StatusTypes
    /\ CollectionsAreOfCard /\ S!StatusIsOfOneCard

LEMMA StatusTyped == ASSUME StatusInv  PROVE S!TypeOK /\ S!StatusIsTrue
  <1>1. \A c \in Collectors : x5[c].at \in {"idle", "sim", "imsi", "iccid", "update"}
    BY DEF StatusInv, StatusTypes, Collections, S!Resting
  <1>2. {x3.inserted, x4, x8, x11} \subseteq BOOLEAN
    BY DEF StatusInv, StatusTypes, WatchIdles
  <1>3. {x3.iccid, x3.imsi} \subseteq Cards \cup {NoCard}
    BY DEF StatusInv, StatusTypes
  <1>4. x12 \cup x13 \cup x14 \cup x15 \subseteq Subscribers
    BY DEF StatusInv, WakingInv
  <1>5. /\ x6 \in [{} -> {"idle", "seen", "missed"}] /\ x7 \in 0..S!Limit
        /\ x9 \subseteq {"alert", "recovery"} /\ x10 \in {"nothing", "alert", "recovery"}
    BY DEF StatusInv, WatchIdles, S!Limit
  <1>6. S!TypeOK
    BY <1>1, <1>2, <1>3, <1>4, <1>5 DEF StatusInv, StatusTypes, S!TypeOK
  <1>7. S!LastToldIsSo
    BY DEF StatusInv, WatchIdles, S!LastToldIsSo
  <1>8. S!WokenBySomething
    BY DEF StatusInv, WakingInv, S!WokenBySomething
  <1> QED  BY <1>6, <1>7, <1>8 DEF StatusInv, S!StatusIsTrue

LEMMA StatusInit == S!Init => StatusInv
  <1>1. SUFFICES ASSUME S!Init  PROVE StatusInv
    OBVIOUS
  <1>2. WatchIdles /\ WakingInv
    BY <1>1 DEF S!Init, WatchIdles, WakingInv
  <1>3. x5 = [c \in Collectors |-> S!Resting] /\ S!Resting.at = "idle"
    BY <1>1 DEF S!Init, S!Resting
  <1>4. x5 \in [Collectors -> Collections]
    BY <1>3 DEF Collections
  <1>5. StatusTypes
    BY <1>1, <1>4, PagesBoundsNat DEF S!Init, StatusTypes
  <1>6. CollectionsAreOfCard
    BY <1>3 DEF CollectionsAreOfCard, ReadSoFar
  <1>7. S!StatusIsOfOneCard
    BY <1>1 DEF S!Init, S!StatusIsOfOneCard
  <1> QED  BY <1>2, <1>5, <1>6, <1>7 DEF StatusInv

\* A step of a collection, with the card and the status as they were.
LEMMA CollectionMoves ==
  ASSUME StatusInv, NEW c \in Collectors, NEW s \in Collections, S!Reads(c, s),
         ReadSoFar(s), x1' = x1
  PROVE  x5' \in [Collectors -> Collections] /\ CollectionsAreOfCard'
  <1>1. x5' \in [Collectors -> Collections]
    BY DEF StatusInv, StatusTypes, S!Reads
  <1>2. x5'[c] = s /\ \A o \in Collectors \ {c} : x5'[o] = x5[o]
    BY DEF StatusInv, StatusTypes, S!Reads
  <1>3. \A o \in Collectors : ReadSoFar(x5'[o])
    BY <1>2 DEF StatusInv, CollectionsAreOfCard
  <1> QED  BY <1>1, <1>3 DEF CollectionsAreOfCard, ReadSoFar

LEMMA CollectionIs ==
  ASSUME StatusInv, NEW c \in Collectors, x5[c].at # "idle"
  PROVE  x5[c] \in [at : {"sim", "imsi", "iccid", "update"}, clean : BOOLEAN,
                    imsi : Cards \cup {NoCard}, iccid : Cards \cup {NoCard},
                    inserted : BOOLEAN]
  BY DEF StatusInv, StatusTypes, Collections, S!Resting

LEMMA StatusNext == ASSUME StatusInv, S!Next  PROVE StatusInv'
  <1> USE DEF S!alerts
  <1>1. WakingInv'
    BY StatusWakes DEF StatusInv
  <1>2. CASE S!Probe
    <2>1. /\ UNCHANGED <<x1, x3, x4, x5, x6, x7, x8, x9, x10, x11, x16>>
          /\ x2' \in {"configure", "ready"}
      BY <1>2 DEF S!Probe
    <2>2. WatchIdles' /\ StatusTypes'
      BY <2>1 DEF StatusInv, WatchIdles, StatusTypes
    <2>3. CollectionsAreOfCard' /\ S!StatusIsOfOneCard'
      BY <2>1 DEF StatusInv, CollectionsAreOfCard, ReadSoFar, S!StatusIsOfOneCard
    <2> QED  BY <1>1, <2>2, <2>3 DEF StatusInv
  <1>3. ASSUME NEW c \in Collectors, S!Collect(c) \/ S!Asks(c) \/ S!Learns(c)
        PROVE  StatusInv'
    <2>1. /\ UNCHANGED <<x1, x3, x4, x6, x7, x8, x9, x10, x11, x16>>
          /\ x2' \in {x2, "ready"}
      BY <1>3 DEF S!Collect, S!Asks, S!Learns
    <2>2. ASSUME NEW s \in Collections, S!Reads(c, s), ReadSoFar(s)
          PROVE  StatusInv'
      <3>1. x5' \in [Collectors -> Collections] /\ CollectionsAreOfCard'
        BY <2>1, <2>2, CollectionMoves
      <3>2. WatchIdles' /\ StatusTypes'
        BY <2>1, <3>1 DEF StatusInv, WatchIdles, StatusTypes
      <3>3. S!StatusIsOfOneCard'
        BY <2>1 DEF StatusInv, S!StatusIsOfOneCard
      <3> QED  BY <1>1, <3>1, <3>2, <3>3 DEF StatusInv
    <2>3. CASE S!Collect(c)
      <3>1. S!Begun \in Collections /\ ReadSoFar(S!Begun)
        BY DEF S!Begun, Collections, ReadSoFar
      <3> QED  BY <2>2, <2>3, <3>1 DEF S!Collect
    <2>4. CASE S!Asks(c)
      <3>1. x5[c].at = "sim"
        BY <2>4 DEF S!Asks
      <3>2. ReadSoFar(x5[c])
        BY DEF StatusInv, CollectionsAreOfCard
      <3> DEFINE has == x1 # NoCard
                 next == IF has THEN "imsi" ELSE "iccid"
                 s == [x5[c] EXCEPT !.inserted = has, !.at = next]
                 t == [x5[c] EXCEPT !.clean = FALSE, !.at = "iccid"]
      <3>3. S!Reads(c, s) \/ S!Reads(c, t)
        BY <2>4 DEF S!Asks
      <3>4. s \in Collections /\ ReadSoFar(s)
        <4>1. has \in BOOLEAN /\ next \in {"imsi", "iccid"}
          OBVIOUS
        <4>2. /\ s \in Collections /\ s.at = next /\ s.inserted = has
              /\ s.clean = x5[c].clean /\ s.imsi = x5[c].imsi
          <5> HIDE DEF has, next
          <5> QED  BY <3>1, <4>1, CollectionIs DEF Collections
        <4> HIDE DEF s
        <4> QED  BY <3>1, <3>2, <4>2 DEF ReadSoFar
      <3>5. t \in Collections /\ ReadSoFar(t)
        <4>1. t \in Collections /\ t.clean = FALSE
          BY <3>1, CollectionIs DEF Collections
        <4> HIDE DEF t
        <4> QED  BY <4>1 DEF ReadSoFar
      <3> HIDE DEF s, t
      <3> QED  BY <2>2, <3>3, <3>4, <3>5
    <2>5. CASE S!Learns(c)
      <3>1. x5[c].at \in {"imsi", "iccid"}
        BY <2>5 DEF S!Learns
      <3>2. ReadSoFar(x5[c]) /\ x1 \in Cards \cup {NoCard}
        BY DEF StatusInv, CollectionsAreOfCard, StatusTypes
      <3> DEFINE s == [x5[c] EXCEPT !.at = "iccid", !.imsi = x1]
                 t == [x5[c] EXCEPT !.at = "update", !.iccid = x1]
                 u(next) == [x5[c] EXCEPT !.at = next, !.clean = FALSE]
      <3>3. \/ x5[c].at = "imsi" /\ S!Reads(c, s)
            \/ x5[c].at = "iccid" /\ S!Reads(c, t)
            \/ S!Reads(c, u("iccid")) \/ S!Reads(c, u("update"))
        BY <2>5 DEF S!Learns
      <3>4. ASSUME x5[c].at = "imsi"  PROVE s \in Collections /\ ReadSoFar(s)
        <4>1. /\ s \in Collections /\ s.at = "iccid" /\ s.imsi = x1
              /\ s.clean = x5[c].clean /\ s.inserted = x5[c].inserted
          BY <3>1, <3>2, CollectionIs DEF Collections
        <4> HIDE DEF s
        <4> QED  BY <3>2, <3>4, <4>1 DEF ReadSoFar
      <3>5. ASSUME x5[c].at = "iccid"  PROVE t \in Collections /\ ReadSoFar(t)
        <4>1. /\ t \in Collections /\ t.at = "update" /\ t.imsi = x5[c].imsi
              /\ t.iccid = x1 /\ t.clean = x5[c].clean /\ t.inserted = x5[c].inserted
          BY <3>1, <3>2, CollectionIs DEF Collections
        <4> HIDE DEF t
        <4> QED  BY <3>2, <3>5, <4>1 DEF ReadSoFar
      <3>6. ASSUME NEW next \in {"iccid", "update"}
            PROVE  u(next) \in Collections /\ ReadSoFar(u(next))
        <4>1. u(next) \in Collections /\ u(next).clean = FALSE
          BY <3>1, CollectionIs DEF Collections
        <4> HIDE DEF u
        <4> QED  BY <4>1 DEF ReadSoFar
      <3> HIDE DEF s, t, u
      <3> QED  BY <2>2, <3>3, <3>4, <3>5, <3>6
    <2> QED  BY <1>3, <2>3, <2>4, <2>5
  <1>4. ASSUME NEW c \in Collectors, S!Update(c)  PROVE StatusInv'
    <2> DEFINE r == x5[c]
    <2>1. /\ r.at = "update" /\ S!Reads(c, S!Resting)
          /\ x3' = [iccid |-> S!Or(r.iccid, x3.iccid), imsi |-> S!Or(r.imsi, x3.imsi),
                    inserted |-> r.inserted]
          /\ x4' = ~(r.clean /\ r.inserted)
          /\ UNCHANGED <<x1, x2, x6, x7, x8, x9, x10, x11, x16>>
      BY <1>4 DEF S!Update
    <2>2. /\ r.iccid \in Cards \cup {NoCard} /\ r.imsi \in Cards \cup {NoCard}
          /\ r.inserted \in BOOLEAN
      BY <2>1, CollectionIs
    <2>3. ReadSoFar(r)
      BY DEF StatusInv, CollectionsAreOfCard
    <2>4. x5' \in [Collectors -> Collections] /\ CollectionsAreOfCard'
      <3>1. S!Resting \in Collections /\ ReadSoFar(S!Resting)
        BY DEF Collections, S!Resting, ReadSoFar
      <3> QED  BY <2>1, <3>1, CollectionMoves
    <2>5. /\ S!Or(r.iccid, x3.iccid) \in Cards \cup {NoCard}
          /\ S!Or(r.imsi, x3.imsi) \in Cards \cup {NoCard}
      BY <2>2 DEF StatusInv, StatusTypes, S!Or
    <2>6. StatusTypes' /\ WatchIdles'
      BY <2>1, <2>2, <2>4, <2>5 DEF StatusInv, StatusTypes, WatchIdles
    <2>7. S!StatusIsOfOneCard'
      <3>1. SUFFICES ASSUME ~x4'
                     PROVE  x3'.iccid = x1 /\ x3'.imsi = x1 /\ x3'.inserted
        BY <2>1 DEF S!StatusIsOfOneCard
      <3>2. r.clean /\ r.inserted
        BY <2>1, <3>1
      <3>3. r.iccid = x1 /\ r.imsi = x1 /\ x1 # NoCard
        BY <2>1, <2>3, <3>2 DEF ReadSoFar
      <3> QED  BY <2>1, <3>2, <3>3 DEF S!Or
    <2> QED  BY <1>1, <2>4, <2>6, <2>7 DEF StatusInv
  <1>5. ASSUME NEW what \in {"alert", "recovery"}, S!Calls(what)  PROVE StatusInv'
    BY <1>5 DEF S!Calls, StatusInv, WatchIdles
  <1>6. CASE S!Restarts \/ \E s \in Subscribers : S!SubscribeRDY(s)
    <2>1. /\ UNCHANGED <<x1, x2, x3, x4, x5, x6, x7, x8, x9, x10, x11>>
          /\ x16' = x16 \/ (x16 < MaxEvents /\ x16' = x16 + 1)
      <3>1. CASE S!Restarts
        BY <3>1 DEF S!Restarts, S!Happens, S!collects
      <3>2. ASSUME NEW s \in Subscribers, S!SubscribeRDY(s)
            PROVE  UNCHANGED <<x1, x2, x3, x4, x5, x6, x7, x8, x9, x10, x11, x16>>
        BY <3>2 DEF S!SubscribeRDY, S!collects
      <3> QED  BY <1>6, <3>1, <3>2
    <2>2. x16' \in 0..MaxEvents
      BY <2>1, PagesBoundsNat DEF StatusInv, StatusTypes
    <2>3. WatchIdles' /\ StatusTypes'
      BY <2>1, <2>2 DEF StatusInv, WatchIdles, StatusTypes
    <2>4. CollectionsAreOfCard' /\ S!StatusIsOfOneCard'
      BY <2>1 DEF StatusInv, CollectionsAreOfCard, ReadSoFar, S!StatusIsOfOneCard
    <2> QED  BY <1>1, <2>3, <2>4 DEF StatusInv
  <1>7. CASE S!ChangesCard
    <2>1. /\ x1' \in Cards \cup {NoCard} /\ x4' = TRUE /\ x5' = S!Stained
          /\ x16 < MaxEvents /\ x16' = x16 + 1
          /\ UNCHANGED <<x2, x3, x6, x7, x8, x9, x10, x11>>
      BY <1>7 DEF S!ChangesCard, S!Happens
    <2>2. ASSUME NEW c \in Collectors
          PROVE  x5'[c] \in Collections /\ (x5'[c].at = "idle" \/ ~x5'[c].clean)
      <3>1. CASE x5[c] = S!Resting
        BY <2>1, <3>1 DEF S!Stained, Collections, S!Resting
      <3>2. CASE x5[c] # S!Resting
        <4>1. x5'[c] = [x5[c] EXCEPT !.clean = FALSE]
          BY <2>1, <3>2 DEF S!Stained
        <4>2. x5[c].at # "idle"
          BY <3>2 DEF StatusInv, StatusTypes, Collections, S!Resting
        <4> QED  BY <4>1, <4>2, CollectionIs DEF Collections
      <3> QED  BY <3>1, <3>2
    <2>3. x5' \in [Collectors -> Collections]
      BY <2>1, <2>2 DEF S!Stained
    <2>4. x16' \in 0..MaxEvents
      BY <2>1, PagesBoundsNat DEF StatusInv, StatusTypes
    <2>5. WatchIdles' /\ StatusTypes'
      BY <2>1, <2>3, <2>4 DEF StatusInv, WatchIdles, StatusTypes
    <2>6. CollectionsAreOfCard'
      BY <2>2 DEF CollectionsAreOfCard, ReadSoFar
    <2>7. S!StatusIsOfOneCard'
      BY <2>1 DEF S!StatusIsOfOneCard
    <2> QED  BY <1>1, <2>5, <2>6, <2>7 DEF StatusInv
  <1> QED  BY <1>2, <1>3, <1>4, <1>5, <1>6, <1>7 DEF S!Next

\* The collections, which the part with the watch leaves alone.
CollectionsIdle ==
    /\ x3 = [iccid |-> NoCard, imsi |-> NoCard, inserted |-> FALSE]
    /\ x4 = TRUE /\ x5 = [c \in {} |-> R!Resting]

WatchTypes ==
    /\ x1 \in Watched \cup {NoCard} /\ x2 \in {"probe", "configure", "ready"}
    /\ x6 \in [Watchers -> {"idle", "seen", "missed"}] /\ x7 \in 0..3
    /\ x9 \subseteq {"alert", "recovery"} /\ x10 \in {"nothing", "alert", "recovery"}
    /\ x16 \in 0..(MaxEvents + 1)
WatchFlags == x8 \in BOOLEAN /\ x11 \in BOOLEAN

\* As long as an alert and its end were never under way together, the one that is
\* says what the watch holds, and with none the one told last does.
TellsWhatItHolds ==
    ~x11 => \/ x9 = {} /\ (x8 <=> x10 = "alert")
            \/ x9 = {"alert"} /\ x8
            \/ x9 = {"recovery"} /\ ~x8

WatchInv ==
    /\ CollectionsIdle /\ WakingInv /\ WatchTypes /\ WatchFlags /\ TellsWhatItHolds

LEMMA WatchTyped == ASSUME WatchInv  PROVE R!TypeOK /\ R!StatusIsTrue
  <1>1. \A c \in {} : x5[c].at \in {"idle", "sim", "imsi", "iccid", "update"}
    OBVIOUS
  <1>2. {x3.inserted, x4, x8, x11} \subseteq BOOLEAN
    BY DEF WatchInv, CollectionsIdle, WatchFlags
  <1>3. {x3.iccid, x3.imsi} \subseteq Watched \cup {NoCard}
    BY DEF WatchInv, CollectionsIdle
  <1>4. x12 \cup x13 \cup x14 \cup x15 \subseteq Subscribers
    BY DEF WatchInv, WakingInv
  <1>5. R!TypeOK
    BY <1>1, <1>2, <1>3, <1>4 DEF WatchInv, WatchTypes, R!TypeOK, R!Limit
  <1>6. R!StatusIsOfOneCard
    BY DEF WatchInv, CollectionsIdle, R!StatusIsOfOneCard
  <1>7. R!LastToldIsSo
    BY DEF WatchInv, TellsWhatItHolds, R!LastToldIsSo
  <1>8. R!WokenBySomething
    BY DEF WatchInv, WakingInv, R!WokenBySomething
  <1> QED  BY <1>5, <1>6, <1>7, <1>8 DEF R!StatusIsTrue

LEMMA WatchInit == R!Init => WatchInv
  <1>1. SUFFICES ASSUME R!Init  PROVE WatchInv
    OBVIOUS
  <1>2. CollectionsIdle /\ WakingInv
    BY <1>1 DEF R!Init, CollectionsIdle, WakingInv
  <1>3. WatchTypes
    BY <1>1, PagesBoundsNat DEF R!Init, WatchTypes
  <1>4. WatchFlags /\ TellsWhatItHolds
    BY <1>1 DEF R!Init, WatchFlags, TellsWhatItHolds
  <1> QED  BY <1>2, <1>3, <1>4 DEF WatchInv

LEMMA WatchNext == ASSUME WatchInv, R!Next  PROVE WatchInv'
  <1> USE DEF R!alerts, R!collects
  <1>1. WakingInv'
    BY WatchWakes DEF WatchInv
  <1>2. CASE R!Probe
    <2>1. /\ UNCHANGED <<x1, x3, x4, x5, x6, x7, x8, x9, x10, x11, x16>>
          /\ x2' \in {"configure", "ready"}
      BY <1>2 DEF R!Probe
    <2> QED
      BY <1>1, <2>1 DEF WatchInv, CollectionsIdle, WatchTypes, WatchFlags, TellsWhatItHolds
  <1>3. ASSUME NEW w \in Watchers, R!Look(w)  PROVE WatchInv'
    <2>1. UNCHANGED <<x1, x2, x3, x4, x5, x7, x8, x9, x10, x11, x16>>
      BY <1>3 DEF R!Look
    <2>2. x6' \in [Watchers -> {"idle", "seen", "missed"}]
      BY <1>3 DEF R!Look, WatchInv, WatchTypes
    <2>3. CollectionsIdle' /\ WatchTypes'
      BY <2>1, <2>2 DEF WatchInv, CollectionsIdle, WatchTypes
    <2>4. WatchFlags' /\ TellsWhatItHolds'
      BY <2>1 DEF WatchInv, WatchFlags, TellsWhatItHolds
    <2> QED  BY <1>1, <2>3, <2>4 DEF WatchInv
  <1>4. ASSUME NEW w \in Watchers, R!Missed(w)  PROVE WatchInv'
    <2>1. /\ UNCHANGED <<x1, x2, x3, x4, x5, x10, x16>>
          /\ x6' = [x6 EXCEPT ![w] = "idle"]
          /\ x7' = IF x7 < 3 THEN x7 + 1 ELSE x7
      BY <1>4 DEF R!Missed, R!Limit
    <2>2. \/ UNCHANGED <<x8, x9, x11>>
          \/ /\ ~x8 /\ x8' = TRUE /\ x9' = x9 \cup {"alert"}
             /\ x11' = (x11 \/ x9 # {})
      BY <1>4 DEF R!Missed, R!Tells
    <2>3. /\ x6' \in [Watchers -> {"idle", "seen", "missed"}] /\ x7' \in 0..3
          /\ x9' \subseteq {"alert", "recovery"}
      <3>1. x9' \subseteq x9 \cup {"alert"}
        BY <2>2
      <3> QED  BY <2>1, <3>1 DEF WatchInv, WatchTypes
    <2>4. CollectionsIdle' /\ WatchTypes'
      BY <2>1, <2>3 DEF WatchInv, CollectionsIdle, WatchTypes
    <2>5. WatchFlags'
      BY <2>2 DEF WatchInv, WatchFlags
    <2>6. TellsWhatItHolds'
      BY <2>1, <2>2 DEF WatchInv, TellsWhatItHolds
    <2> QED  BY <1>1, <2>4, <2>5, <2>6 DEF WatchInv
  <1>5. ASSUME NEW w \in Watchers, R!Seen(w)  PROVE WatchInv'
    <2>1. /\ UNCHANGED <<x1, x2, x3, x4, x5, x10, x16>>
          /\ x6' = [x6 EXCEPT ![w] = "idle"] /\ x7' = 0 /\ x8' = FALSE
      BY <1>5 DEF R!Seen
    <2>2. \/ ~x8 /\ UNCHANGED <<x9, x11>>
          \/ x8 /\ x9' = x9 \cup {"recovery"} /\ x11' = (x11 \/ x9 # {})
      BY <1>5 DEF R!Seen, R!Tells
    <2>3. /\ x6' \in [Watchers -> {"idle", "seen", "missed"}]
          /\ x9' \subseteq {"alert", "recovery"}
      <3>1. x9' \subseteq x9 \cup {"recovery"}
        BY <2>2
      <3> QED  BY <2>1, <3>1 DEF WatchInv, WatchTypes
    <2>4. CollectionsIdle' /\ WatchTypes'
      BY <2>1, <2>3 DEF WatchInv, CollectionsIdle, WatchTypes
    <2>5. WatchFlags'
      BY <2>1, <2>2 DEF WatchInv, WatchFlags
    <2>6. TellsWhatItHolds'
      BY <2>1, <2>2 DEF WatchInv, TellsWhatItHolds
    <2> QED  BY <1>1, <2>4, <2>5, <2>6 DEF WatchInv
  <1>6. ASSUME NEW what \in {"alert", "recovery"}, R!Calls(what)  PROVE WatchInv'
    <2>1. /\ what \in x9 /\ x9' = x9 \ {what} /\ x10' = what
          /\ UNCHANGED <<x1, x2, x3, x4, x5, x6, x7, x8, x11, x16>>
      BY <1>6 DEF R!Calls
    <2>2. CollectionsIdle' /\ WatchTypes'
      BY <2>1 DEF WatchInv, CollectionsIdle, WatchTypes
    <2>3. WatchFlags'
      BY <2>1 DEF WatchInv, WatchFlags
    <2>4. TellsWhatItHolds'
      BY <2>1 DEF WatchInv, TellsWhatItHolds
    <2> QED  BY <1>1, <2>2, <2>3, <2>4 DEF WatchInv
  <1>7. ASSUME UNCHANGED <<x2, x3, x4, x5, x6, x7, x8, x9, x10, x11>>,
               x1' \in Watched \cup {NoCard},
               x16' = x16 \/ (x16 < MaxEvents + 1 /\ x16' = x16 + 1)
        PROVE  WatchInv'
    <2>1. x16' \in 0..(MaxEvents + 1)
      BY <1>7, PagesBoundsNat DEF WatchInv, WatchTypes
    <2>2. CollectionsIdle' /\ WatchTypes'
      BY <1>7, <2>1 DEF WatchInv, CollectionsIdle, WatchTypes
    <2>3. WatchFlags' /\ TellsWhatItHolds'
      BY <1>7 DEF WatchInv, WatchFlags, TellsWhatItHolds
    <2> QED  BY <1>1, <2>2, <2>3 DEF WatchInv
  <1>8. x1 \in Watched \cup {NoCard}
    BY DEF WatchInv, WatchTypes
  <1>9. ASSUME NEW s \in Subscribers, R!SubscribeRDY(s)  PROVE WatchInv'
    BY <1>7, <1>8, <1>9 DEF R!SubscribeRDY
  <1>10. CASE R!Restarts
    BY <1>7, <1>8, <1>10 DEF R!Restarts, R!Happens
  <1>11. CASE R!ChangesCard
    <2>1. x5' = x5
      <3>1. x5' = R!Stained /\ x5 = [c \in {} |-> R!Resting]
        BY <1>11 DEF R!ChangesCard, WatchInv, CollectionsIdle
      <3>2. R!Stained = [c \in {} |-> R!Resting]
        BY DEF R!Stained
      <3> QED  BY <3>1, <3>2
    <2>2. x4' = x4
      BY <1>11 DEF R!ChangesCard, WatchInv, CollectionsIdle
    <2> QED  BY <1>7, <1>11, <2>1, <2>2 DEF R!ChangesCard, R!Happens
  <1> QED  BY <1>2, <1>3, <1>4, <1>5, <1>6, <1>9, <1>10, <1>11 DEF R!Next

-----------------------------------------------------------------------------
(* The properties of the sum *)

ChannelsInv ==
    /\ part = "uim" => MutexInv
    /\ part = "at" => SessionInv /\ BasicInv
    /\ part = "gate" => GateInv
ReceptionInv == part = "inbox" => InboxInv

LEMMA PartsStutter ==
  ASSUME UNCHANGED everything
  PROVE  UNCHANGED <<part, x1, x2, x3, x4, x5, x6, x7, x8, x9, x10, x11, x12, x13, x14,
                     x15, x16>>
  BY DEF everything, after0, after5, after6, after8, after10, after11, after12, after14

LEMMA ChannelsStep ==
  ASSUME ChannelsInv, [PartsNext]_everything  PROVE ChannelsInv'
  <1>1. CASE PartsNext
    <2>1. part' = part
      BY <1>1 DEF PartsNext
    <2>2. ASSUME part = "uim"  PROVE MutexInv'
      <3>1. H!Next
        BY <1>1, <2>2 DEF PartsNext
      <3> QED  BY <2>2, <3>1, MutexNext DEF ChannelsInv
    <2>3. ASSUME part = "at"  PROVE SessionInv' /\ BasicInv'
      <3>1. L!Next
        BY <1>1, <2>3 DEF PartsNext
      <3> QED  BY <2>3, <3>1, SessionNext, BasicNext DEF ChannelsInv
    <2>4. ASSUME part = "gate"  PROVE GateInv'
      <3>1. G!Next
        BY <1>1, <2>4 DEF PartsNext
      <3> QED  BY <2>4, <3>1, GateNext DEF ChannelsInv
    <2> QED  BY <2>1, <2>2, <2>3, <2>4 DEF ChannelsInv
  <1>2. CASE UNCHANGED everything
    <2>1. MutexInv' = MutexInv
      BY <1>2, PartsStutter DEF MutexInv, H!TypeOK, Asked, PlaceOf
    <2>2. SessionInv' = SessionInv
      BY <1>2, PartsStutter DEF SessionInv, L!NoneIsLost, L!HoldersOf
    <2>3. BasicInv' = BasicInv
      BY <1>2, PartsStutter DEF BasicInv, L!FetchesItsOwn
    <2>4. GateInv' = GateInv
      BY <1>2, PartsStutter
         DEF GateInv, G!TypeOK, G!GateIsSound, G!GateIsCurrent, G!ProbesAlone,
             G!SleepersHaveProbe, G!Probers
    <2>5. part' = part
      BY <1>2, PartsStutter
    <2> QED  BY <2>1, <2>2, <2>3, <2>4, <2>5 DEF ChannelsInv
  <1> QED  BY <1>1, <1>2

\* A channel of the card carries one exchange at a time and what its owner sent,
\* however the transports' callers, the clearings, the resets and the refused
\* leases meet; and SIM authentication passes only on a probe's fresh evidence:
\* EsimChannel, ATChannels and SimReadiness.
THEOREM CardAccess == PartsSpec => []CardAccessIsSound
  <1>1. PartsInit => ChannelsInv
    <2>1. SUFFICES ASSUME PartsInit  PROVE ChannelsInv
      OBVIOUS
    <2>2. part = "uim" => H!Init
      BY <2>1 DEF PartsInit
    <2>3. part = "at" => L!Init
      BY <2>1 DEF PartsInit
    <2>4. part = "gate" => G!Init
      BY <2>1 DEF PartsInit
    <2> QED  BY <2>2, <2>3, <2>4, MutexInit, ChannelsInit, GateInit DEF ChannelsInv
  <1>2. ChannelsInv /\ [PartsNext]_everything => ChannelsInv'
    BY ChannelsStep
  <1>3. ChannelsInv => CardAccessIsSound
    <2>1. SUFFICES ASSUME ChannelsInv  PROVE CardAccessIsSound
      OBVIOUS
    <2>2. part = "uim" => H!TypeOK /\ H!ChannelIsSerial
      BY <2>1, MutexSerial DEF ChannelsInv, MutexInv
    <2>3. part = "at" => L!TypeOK /\ L!ChannelsAreKept
      BY <2>1, ChannelsKept DEF ChannelsInv
    <2>4. part = "gate" => G!TypeOK /\ G!GateIsSound
      BY <2>1 DEF ChannelsInv, GateInv
    <2> QED  BY <2>2, <2>3, <2>4 DEF CardAccessIsSound
  <1> QED  BY <1>1, <1>2, <1>3, PTL DEF PartsSpec

\* The poll's cleanup erases nothing a listing had that was not shown or held, except
\* what the inbox's limit kept out of it; and what the user erased does not come
\* back, whatever fails or arrives between the commands: HostInbox.
THEOREM InboxKept == PartsSpec => []InboxIsFaithful
  <1>1. PartsInit => ReceptionInv
    <2>1. ASSUME PartsInit, part = "inbox"  PROVE I!Init
      BY <2>1 DEF PartsInit
    <2> QED  BY <2>1, InboxInit DEF ReceptionInv
  <1>2. ReceptionInv /\ [PartsNext]_everything => ReceptionInv'
    <2>1. SUFFICES ASSUME ReceptionInv, [PartsNext]_everything  PROVE ReceptionInv'
      OBVIOUS
    <2>2. CASE PartsNext
      <3>1. part' = part /\ (part = "inbox" => I!Next)
        BY <2>2 DEF PartsNext
      <3> QED  BY <2>1, <3>1, InboxNext DEF ReceptionInv
    <2>3. CASE UNCHANGED everything
      <3>1. InboxTypes' = InboxTypes /\ TakeTurns' = TakeTurns
        BY <2>3, PartsStutter DEF InboxTypes, TakeTurns
      <3>2. OncePresent' = OncePresent /\ HasCome' = HasCome
        BY <2>3, PartsStutter DEF OncePresent, HasCome, Ahead
      <3>3. ListedIsSeen' = ListedIsSeen
        BY <2>3, PartsStutter DEF ListedIsSeen, I!Seen, I!BeyondLimit, Polling
      <3>4. StaysForgotten' = StaysForgotten
        BY <2>3, PartsStutter DEF StaysForgotten, IsAhead, Ahead, Polling
      <3> QED  BY <2>1, <2>3, <3>1, <3>2, <3>3, <3>4, PartsStutter DEF ReceptionInv, InboxInv
    <2> QED  BY <2>1, <2>2, <2>3
  <1>3. ReceptionInv => InboxIsFaithful
    BY InboxFaithful DEF ReceptionInv, InboxIsFaithful
  <1> QED  BY <1>1, <1>2, <1>3, PTL DEF PartsSpec

SettingsInv ==
    /\ part = "policy" => PolicyInv
    /\ part = "notes" => NotesInv
    /\ part = "phonebook" => BookInv
    /\ part = "setup" => SetupInv

\* A policy, a note and a set-up are what was answered, in the file, the phonebook
\* and the module, whatever fails between the steps that keep them: HostPolicy,
\* ProfileNotes, ModulePhonebook and ModuleSetup.
THEOREM SettingsKept == PartsSpec => []SettingsAreKept
  <1>1. PartsInit => SettingsInv
    <2>1. SUFFICES ASSUME PartsInit  PROVE SettingsInv
      OBVIOUS
    <2>2. /\ part = "policy" => P!Init
          /\ part = "notes" => N!Init
      BY <2>1 DEF PartsInit
    <2>3. /\ part = "phonebook" => B!Init
          /\ part = "setup" => W!Init
      BY <2>1 DEF PartsInit
    <2> QED  BY <2>2, <2>3, PolicyInit, NotesInit, BookInit, SetupInit DEF SettingsInv
  <1>2. SettingsInv /\ [PartsNext]_everything => SettingsInv'
    <2>1. SUFFICES ASSUME SettingsInv, [PartsNext]_everything  PROVE SettingsInv'
      OBVIOUS
    <2>2. CASE PartsNext
      <3>1. part' = part
        BY <2>2 DEF PartsNext
      <3>2. /\ part = "policy" => P!Next
            /\ part = "notes" => N!Next
        BY <2>2 DEF PartsNext
      <3>3. /\ part = "phonebook" => B!Next
            /\ part = "setup" => ~W!Met /\ W!Next
        BY <2>2 DEF PartsNext
      <3>4. part = "policy" => PolicyInv'
        BY <2>1, <3>2, PolicyNext DEF SettingsInv
      <3>5. part = "notes" => NotesInv'
        BY <2>1, <3>2, NotesNext DEF SettingsInv
      <3>6. part = "phonebook" => BookInv'
        BY <2>1, <3>3, BookNext DEF SettingsInv
      <3>7. part = "setup" => SetupInv'
        BY <2>1, <3>3, SetupNext DEF SettingsInv
      <3> QED  BY <3>1, <3>4, <3>5, <3>6, <3>7 DEF SettingsInv
    <2>3. CASE UNCHANGED everything
      <3>1. PolicyInv' = PolicyInv
        BY <2>3, PartsStutter
           DEF PolicyInv, PolicyTypes, PolicyLoaded, PolicyBlocks, PolicyGivesBack,
               PolicyKeepsList, PolicyRecorded, PolicyTold, P!Loaded
      <3>2. NotesInv' = NotesInv
        BY <2>3, PartsStutter DEF NotesInv, N!TypeOK, N!OnFile, N!LoadedNotes
      <3>3. BookTypes' = BookTypes /\ SaverKnows' = SaverKnows
        BY <2>3, PartsStutter DEF BookTypes, SaverKnows, NotesOf
      <3>4. OneNoteEach' = OneNoteEach /\ ToldIsThere' = ToldIsThere
            /\ OthersStay' = OthersStay
        BY <2>3, PartsStutter DEF OneNoteEach, ToldIsThere, OthersStay, NotesOf
      <3>5. BookInv' = BookInv
        BY <3>3, <3>4 DEF BookInv
      <3>6. W!TypeOK' = W!TypeOK
        BY <2>3, PartsStutter DEF W!TypeOK
      <3>7. SetupAlone' = SetupAlone
        BY <2>3, PartsStutter
           DEF SetupAlone, Active, WorksAlone, WorkerKnows, W!BackedUp, W!ReadyIsCapable,
               W!RolledBackIsRestored
      <3> QED  BY <2>1, <2>3, <3>1, <3>2, <3>5, <3>6, <3>7, PartsStutter
               DEF SettingsInv, SetupInv
    <2> QED  BY <2>1, <2>2, <2>3
  <1>3. SettingsInv => SettingsAreKept
    <2>1. SUFFICES ASSUME SettingsInv  PROVE SettingsAreKept
      OBVIOUS
    <2> QED  BY <2>1, PolicyHonest, BookKept, SetupHonest
             DEF SettingsInv, SettingsAreKept, NotesInv, N!NotesAreSaved
  <1> QED  BY <1>1, <1>2, <1>3, PTL DEF PartsSpec

PagesInv ==
    /\ part = "esim" => HealthInv
    /\ part = "chip" => ChipInv
    /\ part = "status" => StatusInv
    /\ part = "watch" => WatchInv

\* What the pages tell of the card and its SIM is of the card in the modem, with
\* whatever restart, exchange of cards or failure comes in between; but for what
\* HostEsim, EuiccChip and ModemStatus name.
THEOREM PagesTrue == PartsSpec => []PagesAreTrue
  <1>1. PartsInit => PagesInv
    <2>1. SUFFICES ASSUME PartsInit  PROVE PagesInv
      OBVIOUS
    <2>2. /\ part = "esim" => E!Init
          /\ part = "chip" => C!Init
      BY <2>1 DEF PartsInit
    <2>3. /\ part = "status" => S!Init
          /\ part = "watch" => R!Init
      BY <2>1 DEF PartsInit
    <2> QED  BY <2>2, <2>3, HealthInit, ChipInit, StatusInit, WatchInit DEF PagesInv
  <1>2. PagesInv /\ [PartsNext]_everything => PagesInv'
    <2>1. SUFFICES ASSUME PagesInv, [PartsNext]_everything  PROVE PagesInv'
      OBVIOUS
    <2>2. CASE PartsNext
      <3>1. part' = part
        BY <2>2 DEF PartsNext
      <3>2. /\ part = "esim" => E!Next
            /\ part = "chip" => C!Next
        BY <2>2 DEF PartsNext
      <3>3. /\ part = "status" => S!Next
            /\ part = "watch" => R!Next
        BY <2>2 DEF PartsNext
      <3>4. part = "esim" => HealthInv'
        BY <2>1, <3>2, HealthNext DEF PagesInv
      <3>5. part = "chip" => ChipInv'
        BY <2>1, <3>2, ChipNext DEF PagesInv
      <3>6. part = "status" => StatusInv'
        BY <2>1, <3>3, StatusNext DEF PagesInv
      <3>7. part = "watch" => WatchInv'
        BY <2>1, <3>3, WatchNext DEF PagesInv
      <3> QED  BY <3>1, <3>4, <3>5, <3>6, <3>7 DEF PagesInv
    <2>3. CASE UNCHANGED everything
      <3>1. HealthInv' = HealthInv
        BY <2>3, PartsStutter
           DEF HealthInv, HealthTypes, HealthFlags, SessionFollows, SettledAlone,
               E!HealthIsHonest
      <3>2. ChipTypes' = ChipTypes /\ ProductOfFound' = ProductOfFound
        BY <2>3, PartsStutter DEF ChipTypes, ProductOfFound
      <3>3. ReadersOfCard' = ReadersOfCard /\ C!ChipIsOfCard' = C!ChipIsOfCard
        BY <2>3, PartsStutter DEF ReadersOfCard, ScanIsOfCard, C!ChipIsOfCard, C!IsOfCard
      <3>4. WakingInv' = WakingInv
        BY <2>3, PartsStutter DEF WakingInv
      <3>5. StatusInv' = StatusInv
        BY <2>3, <3>4, PartsStutter
           DEF StatusInv, WatchIdles, StatusTypes, CollectionsAreOfCard, ReadSoFar,
               S!StatusIsOfOneCard
      <3>6. WatchInv' = WatchInv
        BY <2>3, <3>4, PartsStutter
           DEF WatchInv, CollectionsIdle, WatchTypes, WatchFlags, TellsWhatItHolds
      <3>7. ChipInv' = ChipInv
        BY <3>2, <3>3 DEF ChipInv
      <3> QED  BY <2>1, <2>3, <3>1, <3>5, <3>6, <3>7, PartsStutter DEF PagesInv
    <2> QED  BY <2>1, <2>2, <2>3
  <1>3. PagesInv => PagesAreTrue
    <2>1. SUFFICES ASSUME PagesInv  PROVE PagesAreTrue
      OBVIOUS
    <2>2. /\ part = "esim" => E!TypeOK /\ E!HealthIsHonest
          /\ part = "chip" => C!TypeOK /\ C!ChipIsOfCard
      BY <2>1, HealthTyped, ChipTyped DEF PagesInv, HealthInv, ChipInv
    <2>3. /\ part = "status" => S!TypeOK /\ S!StatusIsTrue
          /\ part = "watch" => R!TypeOK /\ R!StatusIsTrue
      BY <2>1, StatusTyped, WatchTyped DEF PagesInv
    <2> QED  BY <2>2, <2>3 DEF PagesAreTrue
  <1> QED  BY <1>1, <1>2, <1>3, PTL DEF PartsSpec
=============================================================================
