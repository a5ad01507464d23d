-------------------------- MODULE SMSStorageProofs --------------------------
(* Proofs about SMSStorage, for any messages, storages, readers and sweeps.  *)
(* That messages are told whole rests on what the reassembler keeps: the     *)
(* parts that wait are different ones, and too few.  That nothing is lost    *)
(* without a race rests on Beside: a call that was never in overlapped is    *)
(* the only one that runs, so that what it read stays as it read it.         *)
EXTENDS SMSStorage, FunctionTheorems, FiniteSetTheorems, TLAPS

ReaderSteps == {"idle", "query", "switch", "read", "decode", "delete",
                "restore", "done"}
Steps == ReaderSteps \cup {"list", "each", "clear"}

\* What TypeOK leaves open, and that a reader restores a storage it knows.
Shape ==
    /\ TypeOK
    /\ pc \in [Call -> Steps]
    /\ cache \in [Message -> Seq(Nat)]
    /\ \A m \in Message : IsInjective(cache[m])
    /\ \A p \in Pdu : pc[p] = "restore" => previous[p] # NoStorage

\* A call that is not in overlapped is the only one that runs.
Beside == \A c, d \in Running : c # d => c \in overlapped /\ d \in overlapped

\* Such a reader deletes what it read, where +CMTI said ...
ReaderAlone ==
    \A p \in Pdu \ overlapped :
      /\ pc[p] \in {"read", "decode", "delete"} => selected = at[p].storage
      /\ pc[p] = "decode" => hand[p] \subseteq {cell[selected][at[p].index]}
      /\ pc[p] = "delete" => cell[selected][at[p].index] \in decoded \cup {NoPdu}

\* ... and such a sweep what it listed.
SweepAlone ==
    \A k \in Sweep \ overlapped, i \in Index :
      /\ pc[k] = "each" =>
           cell[selected][i] \in decoded \cup hand[k] \cup {NoPdu}
      /\ pc[k] = "clear" => cell[selected][i] \in decoded \cup {NoPdu}

\* What is selected once a running reader has restored it
Left(p) == IF pc[p] # "query" /\ previous[p] # NoStorage THEN previous[p]
           ELSE selected

Homeward ==
    overlapped = {} /\ ~failed =>
      /\ Running \cap Pdu = {} => selected = Home
      /\ \A p \in Running \cap Pdu :
           /\ Left(p) = Home
           /\ pc[p] = "switch" => previous[p] # NoStorage

Alone == Shape /\ Beside /\ ReaderAlone /\ SweepAlone /\ Homeward
-----------------------------------------------------------------------------
(* The reassembler *)

\* A part belongs to a message of the module and is one of its parts.
LEMMA Parts ==
  ASSUME NEW p \in Pdu
  PROVE  /\ p.msg \in Message /\ Total[p.msg] \in Nat \ {0}
         /\ p.seq \in 1..Total[p.msg]
  BY TotalAssumption DEF Pdu

\* An order that does not decrease and repeats nothing goes up step by step.
LEMMA Increasing ==
  ASSUME NEW n \in Nat, NEW g \in [1..n -> 1..n], IsInjective(g),
         \A i, j \in 1..n : i < j => g[i] =< g[j]
  PROVE  \A i \in 1..n : g[i] = i
  <1>1. \A i, j \in 1..n : i < j => g[i] < g[j]
    BY DEF IsInjective
  <1> SUFFICES ASSUME NEW i \in 1..n  PROVE g[i] = i
    OBVIOUS
  <1>2. i =< g[i]
    <2> DEFINE low == [j \in 1..i |-> g[j]]
    <2>1. \A j \in 1..i : j \in 1..n /\ g[j] \in 1..g[i]
      BY <1>1
    <2>2. low \in [1..i -> 1..g[i]]
      BY <2>1
    <2>3. \A a, b \in 1..i : low[a] = low[b] => a = b
      BY <2>1 DEF IsInjective
    <2>4. low \in Injection(1..i, 1..g[i])
      BY ONLY <2>2, <2>3, Fun_IsInj
    <2>5. /\ IsFiniteSet(1..i) /\ Cardinality(1..i) = i
          /\ IsFiniteSet(1..g[i]) /\ Cardinality(1..g[i]) = g[i]
      <3>1. i \in Int /\ g[i] \in Int /\ ~(1 > i) /\ ~(1 > g[i])
        OBVIOUS
      <3> QED  BY <3>1, FS_Interval
    <2> QED  BY ONLY <2>4, <2>5, FS_Injection
  <1>3. g[i] =< i
    <2> DEFINE high == [j \in i..n |-> g[j]]
    <2>1. \A j \in i..n : j \in 1..n /\ g[j] \in g[i]..n
      BY <1>1
    <2>2. high \in [i..n -> g[i]..n]
      BY <2>1
    <2>3. \A a, b \in i..n : high[a] = high[b] => a = b
      BY <2>1 DEF IsInjective
    <2>4. high \in Injection(i..n, g[i]..n)
      BY ONLY <2>2, <2>3, Fun_IsInj
    <2>5. /\ IsFiniteSet(i..n) /\ Cardinality(i..n) = n - i + 1
          /\ IsFiniteSet(g[i]..n) /\ Cardinality(g[i]..n) = n - g[i] + 1
      <3>1. i \in Int /\ g[i] \in Int /\ n \in Int /\ ~(i > n) /\ ~(g[i] > n)
        OBVIOUS
      <3> QED  BY <3>1, FS_Interval
    <2>6. Cardinality(i..n) =< Cardinality(g[i]..n)
      BY ONLY <2>4, <2>5, FS_Injection
    <2>7. g[i] \in Int
      OBVIOUS
    <2> QED  BY <2>5, <2>6, <2>7
  <1> QED  BY <1>2, <1>3

\* As many different parts as the message has are told from the first to the
\* last, in whatever order they came.
LEMMA SortedIsWhole ==
  ASSUME NEW n \in Nat, NEW f \in [1..n -> 1..n], IsInjective(f)
  PROVE  Sorted(f) = [i \in 1..n |-> i]
  <1> DEFINE InOrder(p) == \A i, j \in 1..n : i < j => f[p[i]] =< f[p[j]]
             order == CHOOSE p \in Bijection(1..n, 1..n) : InOrder(p)
             back == Inverse(f, 1..n, 1..n)
  <1>1. f \in Bijection(1..n, 1..n)
    <2>1. IsFiniteSet(1..n)
      BY FS_Interval
    <2>2. f \in Injection(1..n, 1..n)
      BY DEF Injection
    <2>3. f \in Surjection(1..n, 1..n)
      BY <2>1, <2>2, FS_Injection
    <2> QED  BY <2>2, <2>3 DEF Bijection
  <1>2. back \in Bijection(1..n, 1..n) /\ InOrder(back)
    <2>1. back \in Bijection(1..n, 1..n)
      BY <1>1, Fun_BijInverse
    <2>2. \A t \in 1..n : f[back[t]] = t
      <3>1. \A t \in 1..n : \E s \in 1..n : f[s] = t
        BY <1>1 DEF Bijection, Surjection
      <3>2. \A s \in 1..n : back[f[s]] = s
        BY <1>1, Fun_BijInverse
      <3> QED  BY <3>1, <3>2
    <2> QED  BY <2>1, <2>2
  <1>3. order \in Bijection(1..n, 1..n) /\ InOrder(order)
    BY <1>2
  <1>4. Sorted(f) = [i \in 1..n |-> f[order[i]]]
    BY DEF Sorted
  <1> DEFINE g == [i \in 1..n |-> f[order[i]]]
  <1>5. order \in [1..n -> 1..n] /\ \A a, b \in 1..n : order[a] = order[b] => a = b
    BY <1>3 DEF Bijection, Injection, IsInjective
  <1>6. g \in [1..n -> 1..n] /\ IsInjective(g)
    <2> HIDE DEF order
    <2>1. \A i \in 1..n : order[i] \in 1..n /\ g[i] = f[order[i]]
      BY <1>5
    <2>2. g \in [1..n -> 1..n]
      BY <2>1
    <2>3. \A a, b \in 1..n : g[a] = g[b] => a = b
      BY <1>5, <2>1 DEF IsInjective
    <2> HIDE DEF g
    <2> QED  BY <2>2, <2>3 DEF IsInjective
  <1>7. \A i, j \in 1..n : i < j => g[i] =< g[j]
    <2> HIDE DEF order
    <2> QED  BY <1>3
  <1>8. \A i \in 1..n : g[i] = i
    <2> HIDE DEF g
    <2> QED  BY <1>6, <1>7, Increasing
  <1> HIDE DEF order
  <1> QED  BY <1>4, <1>8

\* A part is appended unless it is there.
LEMMA Added ==
  ASSUME NEW fragments \in Seq(Nat), IsInjective(fragments), NEW seq \in Nat
  PROVE  /\ Add(fragments, seq) \in Seq(Nat)
         /\ IsInjective(Add(fragments, seq))
         /\ ToSet(Add(fragments, seq)) = ToSet(fragments) \cup {seq}
         /\ Len(Add(fragments, seq)) =< Len(fragments) + 1
  <1>1. CASE seq \in ToSet(fragments)
    BY <1>1 DEF Add, ToSet
  <1>2. CASE seq \notin ToSet(fragments)
    <2> DEFINE longer == Append(fragments, seq)
    <2>1. /\ longer \in Seq(Nat) /\ Len(longer) = Len(fragments) + 1
          /\ DOMAIN longer = 1..(Len(fragments) + 1)
          /\ DOMAIN fragments = 1..Len(fragments)
          /\ longer[Len(fragments) + 1] = seq
          /\ \A i \in 1..Len(fragments) : longer[i] = fragments[i]
      OBVIOUS
    <2>2. \A i \in 1..Len(fragments) : fragments[i] # seq
      BY <1>2, <2>1 DEF ToSet
    <2>3. ToSet(longer) = ToSet(fragments) \cup {seq}
      BY <2>1 DEF ToSet
    <2>4. IsInjective(longer)
      BY <2>1, <2>2 DEF IsInjective
    <2>5. Add(fragments, seq) = longer
      BY <1>2 DEF Add
    <2> QED  BY <2>1, <2>3, <2>4, <2>5
  <1> QED  BY <1>1, <1>2
\* What decoding a part does: the waiting parts stay different parts of their
\* message and too few to complete it, a message is told whole, and the part is
\* told or waits.
LEMMA Received ==
  ASSUME Shape, NEW q \in Pdu, Receive(q)
  PROVE  /\ cache' \in [Message -> Seq(Nat)]
         /\ \A m \in Message : /\ IsInjective(cache'[m])
                               /\ ToSet(cache'[m]) \subseteq 1..Total[m]
                               /\ Len(cache'[m]) < Total[m]
         /\ decoded' = decoded \cup {q} /\ expired' = expired
         /\ told \subseteq told'
         /\ \A t \in told' \ told : t.text = [n \in 1..Total[t.msg] |-> n]
         /\ \A m \in Message : \/ \E t \in told' : t.msg = m
                               \/ ToSet(cache[m]) \subseteq ToSet(cache'[m])
         /\ \/ \E t \in told' : t.msg = q.msg
            \/ q.seq \in ToSet(cache'[q.msg])
  <1> DEFINE m == q.msg
             fragments == Add(cache[m], q.seq)
             complete == fragments # cache[m] /\ Len(fragments) = Total[m]
  <1>1. m \in Message /\ Total[m] \in Nat \ {0} /\ q.seq \in 1..Total[m]
    BY Parts
  <1>2. /\ cache \in [Message -> Seq(Nat)]
        /\ \A k \in Message : /\ IsInjective(cache[k])
                              /\ ToSet(cache[k]) \subseteq 1..Total[k]
                              /\ Len(cache[k]) < Total[k]
    BY DEF Shape, TypeOK
  <1>3. cache[m] \in Seq(Nat) /\ IsInjective(cache[m]) /\ q.seq \in Nat
    BY <1>1, <1>2
  <1>4. /\ fragments \in Seq(Nat) /\ IsInjective(fragments)
        /\ ToSet(fragments) = ToSet(cache[m]) \cup {q.seq}
        /\ Len(fragments) =< Len(cache[m]) + 1
    BY <1>3, Added
  <1>5. ToSet(fragments) \subseteq 1..Total[m]
    BY <1>1, <1>2, <1>4
  <1>6. /\ cache' = [cache EXCEPT ![m] = IF complete THEN <<>> ELSE fragments]
        /\ told' = IF complete
                   THEN told \cup {[msg |-> m, text |-> Sorted(fragments)]}
                   ELSE told
        /\ decoded' = decoded \cup {q} /\ expired' = expired
    BY DEF Receive
  <1> HIDE DEF m, fragments, complete
  <1>7. CASE complete
    <2>1. /\ cache'[m] = <<>>
          /\ \A k \in Message \ {m} : cache'[k] = cache[k]
          /\ cache' \in [Message -> Seq(Nat)]
      BY <1>1, <1>2, <1>6, <1>7
    <2>2. IsInjective(<<>>) /\ ToSet(<<>>) = {} /\ Len(<<>>) = 0
      BY DEF IsInjective, ToSet
    <2>3. Sorted(fragments) = [n \in 1..Total[m] |-> n]
      <3>1. Len(fragments) = Total[m]
        BY <1>7 DEF complete
      <3>2. fragments \in [1..Total[m] -> 1..Total[m]]
        <4>1. \A i \in 1..Total[m] : fragments[i] \in ToSet(fragments)
          BY <1>1, <1>4, <3>1 DEF ToSet
        <4>2. /\ DOMAIN fragments = 1..Total[m]
              /\ fragments = [i \in 1..Total[m] |-> fragments[i]]
          BY <1>4, <3>1
        <4> QED  BY ONLY <1>5, <4>1, <4>2
      <3>3. Total[m] \in Nat
        BY <1>1
      <3> QED  BY <1>4, <3>2, <3>3, SortedIsWhole
    <2>4. PICK whole : whole = [msg |-> m, text |-> Sorted(fragments)]
      OBVIOUS
    <2>told. /\ told' = told \cup {whole}
           /\ whole.msg = m /\ whole.text = Sorted(fragments)
      BY <1>6, <1>7, <2>4
    <2>5. \A t \in told' \ told : t.text = [n \in 1..Total[t.msg] |-> n]
      BY ONLY <2>3, <2>told
    <2>6. \E t \in told' : t.msg = m
      BY <2>told
    <2>7. \A k \in Message : /\ IsInjective(cache'[k])
                             /\ ToSet(cache'[k]) \subseteq 1..Total[k]
                             /\ Len(cache'[k]) < Total[k]
      <3> SUFFICES ASSUME NEW k \in Message
                   PROVE  /\ IsInjective(cache'[k])
                          /\ ToSet(cache'[k]) \subseteq 1..Total[k]
                          /\ Len(cache'[k]) < Total[k]
        OBVIOUS
      <3>1. CASE k = m
        BY <1>1, <2>1, <2>2, <3>1
      <3>2. CASE k # m
        BY <1>2, <2>1, <3>2
      <3> QED  BY <3>1, <3>2
    <2>8. \A k \in Message : \/ \E t \in told' : t.msg = k
                             \/ ToSet(cache[k]) \subseteq ToSet(cache'[k])
      BY <2>1, <2>6
    <2> QED  BY <1>6, <2>1, <2>5, <2>6, <2>7, <2>8, <2>told DEF m
  <1>8. CASE ~complete
    <2>1. /\ cache'[m] = fragments
          /\ \A k \in Message \ {m} : cache'[k] = cache[k]
          /\ cache' \in [Message -> Seq(Nat)] /\ told' = told
      BY <1>1, <1>2, <1>4, <1>6, <1>8
    <2>2. Len(fragments) < Total[m]
      <3>1. Len(fragments) \in Nat /\ Len(cache[m]) \in Nat /\ Len(cache[m]) < Total[m]
        BY <1>1, <1>2, <1>4
      <3>2. CASE fragments = cache[m]
        BY <3>1, <3>2
      <3>3. CASE Len(fragments) # Total[m]
        BY <1>1, <1>4, <3>1, <3>3
      <3> QED  BY <1>8, <3>2, <3>3 DEF complete
    <2>3. \A k \in Message : /\ IsInjective(cache'[k])
                             /\ ToSet(cache'[k]) \subseteq 1..Total[k]
                             /\ Len(cache'[k]) < Total[k]
                             /\ ToSet(cache[k]) \subseteq ToSet(cache'[k])
      <3> SUFFICES ASSUME NEW k \in Message
                   PROVE  /\ IsInjective(cache'[k])
                          /\ ToSet(cache'[k]) \subseteq 1..Total[k]
                          /\ Len(cache'[k]) < Total[k]
                          /\ ToSet(cache[k]) \subseteq ToSet(cache'[k])
        OBVIOUS
      <3>1. CASE k = m
        BY <1>4, <1>5, <2>1, <2>2, <3>1
      <3>2. CASE k # m
        BY <1>2, <2>1, <3>2
      <3> QED  BY <3>1, <3>2
    <2>4. q.seq \in ToSet(cache'[m])
      BY <1>4, <2>1
    <2> QED  BY <1>6, <2>1, <2>3, <2>4 DEF m
  <1> QED  BY <1>7, <1>8
-----------------------------------------------------------------------------
(* Types *)

\* A command selects a storage, or none.
LEMMA Selected ==
  ASSUME selected \in Storage, NEW s \in Storage, NEW ok, Select(s, ok)
  PROVE  selected' \in Storage
  BY DEF Select

\* AT+CMGD empties cells, and changes no other.
LEMMA Emptied ==
  ASSUME TypeOK, NEW where, NEW ok, Erase(where, ok)
  PROVE  /\ cell' \in [Storage -> [Index -> Pdu \cup {NoPdu}]]
         /\ \A s \in Storage, i \in Index :
              \/ cell'[s][i] = cell[s][i]
              \/ s = selected /\ i \in where /\ cell'[s][i] = NoPdu
  BY DEF TypeOK, Erase

LEMMA ShapeInit ==
  ASSUME Init PROVE Shape
  <1>1. PICK early \in [Cells -> Pdu \cup {NoPdu}] :
          cell = [s \in Storage |-> [i \in Index |-> early[s, i]]]
    BY Zenon DEF Init
  <1>2. cell \in [Storage -> [Index -> Pdu \cup {NoPdu}]]
    BY <1>1 DEF Cells
  <1>3. at \in [Pdu -> [storage : Storage, index : Index]]
    <2>1. Nowhere \in [storage : Storage, index : Index]
      BY PlacesAssumption DEF Nowhere
    <2> HIDE DEF Nowhere
    <2> QED  BY <2>1 DEF Init
  <1>4. /\ cache \in [Message -> Seq(Nat)]
        /\ \A m \in Message : /\ IsInjective(cache[m]) /\ Len(cache[m]) < Total[m]
                              /\ ToSet(cache[m]) \subseteq 1..Total[m]
    <2>1. cache \in [Message -> Seq(Nat)] /\ \A m \in Message : cache[m] = <<>>
      <3>1. cache = [m \in Message |-> <<>>]
        BY Zenon DEF Init
      <3> QED  BY ONLY <3>1
    <2>2. IsInjective(<<>>) /\ ToSet(<<>>) = {} /\ Len(<<>>) = 0
      BY DEF IsInjective, ToSet
    <2>3. \A m \in Message : Total[m] \in Nat \ {0}
      BY TotalAssumption
    <2> HIDE DEF Init
    <2> QED  BY <2>1, <2>2, <2>3
  <1>5. pc \in [Call -> Steps] /\ \A c \in Call : pc[c] = "idle"
    BY DEF Init, Steps, ReaderSteps
  <1>6. \A c \in Pdu \cup Sweep : c \in Call
    BY DEF Call
  <1>7. /\ selected \in Storage
        /\ previous \in [Pdu -> Storage \cup {NoStorage}]
        /\ hand \in [Call -> SUBSET Pdu]
        /\ decoded \subseteq Pdu /\ expired \subseteq Message
        /\ overlapped \subseteq Call /\ failed \in BOOLEAN
    BY PlacesAssumption DEF Init
  <1> QED  BY <1>2, <1>3, <1>4, <1>5, <1>6, <1>7 DEF Shape, TypeOK

\* The step of a reader keeps the sweeps where they are.
LEMMA StepsOfReader ==
  ASSUME Shape, NEW p \in Pdu, NEW step \in ReaderSteps,
         pc' = [pc EXCEPT ![p] = step],
         previous' \in [Pdu -> Storage \cup {NoStorage}],
         \A q \in Pdu \ {p} : previous'[q] = previous[q],
         step = "restore" => previous'[p] # NoStorage
  PROVE  /\ pc' \in [Call -> Steps]
         /\ \A q \in Pdu : pc'[q] \in ReaderSteps
         /\ \A k \in Sweep : pc'[k] = pc[k]
         /\ \A q \in Pdu : pc'[q] = "restore" => previous'[q] # NoStorage
  BY NamesAssumption DEF Shape, TypeOK, Steps, Call, ReaderSteps

\* Nor does the step of a sweep move a reader.
LEMMA StepsOfSweep ==
  ASSUME Shape, NEW k \in Sweep, NEW step \in {"idle", "list", "each", "clear", "done"},
         pc' = [pc EXCEPT ![k] = step]
  PROVE  /\ pc' \in [Call -> Steps]
         /\ \A q \in Pdu : pc'[q] = pc[q]
         /\ \A j \in Sweep : pc'[j] \in {"idle", "list", "each", "clear", "done"}
  BY NamesAssumption DEF Shape, TypeOK, Steps, Call, ReaderSteps

\* A call that begins is counted among those that overlap if another runs.
LEMMA Begins ==
  ASSUME Shape, NEW c \in Call, NEW step, Begin(c, step)
  PROVE  overlapped' \subseteq Call
  BY DEF Begin, Shape, TypeOK, Running

\* An indication is kept until its reader has ended.
LEMMA Indicated ==
  ASSUME Shape, NEW p \in Pdu, Forgets(p)
  PROVE  /\ at' \in [Pdu -> [storage : Storage, index : Index]]
         /\ pc'[p] # "done" => at' = at
         /\ \A q \in Pdu \ {p} : at'[q] = at[q]
  <1>1. Nowhere \in [storage : Storage, index : Index]
    BY PlacesAssumption DEF Nowhere
  <1> HIDE DEF Nowhere
  <1> QED  BY <1>1 DEF Forgets, Shape, TypeOK

LEMMA ShapeReader ==
  ASSUME Shape, NEW p \in Pdu, ReaderStep(p)  PROVE Shape'
  <1> USE DEF Shape
  <1>1. p \in Call /\ pc[p] \in ReaderSteps
    BY DEF Call, TypeOK, ReaderSteps
  <1>2. ASSUME NEW s \in Storage, NEW i \in Index, Arrive(p, s, i)  PROVE Shape'
    <2>1. pc' = [pc EXCEPT ![p] = "query"] /\ overlapped' \subseteq Call
      BY <1>1, <1>2, Begins DEF Arrive, Begin
    <2>2. previous' = previous
      BY <1>2 DEF Arrive
    <2>3. /\ pc' \in [Call -> Steps]
          /\ \A q \in Pdu : pc'[q] \in ReaderSteps
          /\ \A k \in Sweep : pc'[k] = pc[k]
          /\ \A q \in Pdu : pc'[q] = "restore" => previous'[q] # NoStorage
      BY <2>1, <2>2, StepsOfReader DEF TypeOK, ReaderSteps
    <2>4. /\ cell' \in [Storage -> [Index -> Pdu \cup {NoPdu}]]
          /\ at' \in [Pdu -> [storage : Storage, index : Index]]
      BY <1>2 DEF Arrive, TypeOK
    <2> QED  BY <1>2, <2>1, <2>3, <2>4 DEF Arrive, joining, TypeOK, ReaderSteps
  <1>3. CASE QueryStorage(p)
    <2>1. PICK ok \in BOOLEAN :
            LET there == ok /\ selected = at[p].storage IN
            /\ Outcome(ok)
            /\ pc' = [pc EXCEPT ![p] = IF there THEN "read" ELSE "switch"]
            /\ previous' = [previous EXCEPT ![p] = IF ok /\ ~there THEN selected
                                                   ELSE NoStorage]
      BY <1>3 DEF QueryStorage
    <2>2. PICK step \in {"read", "switch"} : pc' = [pc EXCEPT ![p] = step]
      BY <2>1
    <2>3. /\ previous' \in [Pdu -> Storage \cup {NoStorage}]
          /\ \A q \in Pdu \ {p} : previous'[q] = previous[q]
      BY <2>1 DEF TypeOK
    <2>4. /\ pc' \in [Call -> Steps]
          /\ \A q \in Pdu : pc'[q] \in ReaderSteps
          /\ \A k \in Sweep : pc'[k] = pc[k]
          /\ \A q \in Pdu : pc'[q] = "restore" => previous'[q] # NoStorage
      BY <2>2, <2>3, StepsOfReader DEF ReaderSteps
    <2>5. failed' \in BOOLEAN
      BY <2>1 DEF Outcome, TypeOK
    <2> QED
      BY <1>3, <2>3, <2>4, <2>5 DEF QueryStorage, modem, joining, TypeOK, ReaderSteps
  <1>4. CASE SwitchStorage(p)
    <2>1. PICK ok \in BOOLEAN :
            /\ Outcome(ok)
            /\ Select(at[p].storage, ok)
            /\ pc' = [pc EXCEPT ![p] = IF ok THEN "read" ELSE "done"]
            /\ previous' = [previous EXCEPT ![p] = IF ok THEN @ ELSE NoStorage]
      BY <1>4 DEF SwitchStorage
    <2>2. PICK step \in {"read", "done"} : pc' = [pc EXCEPT ![p] = step]
      BY <2>1
    <2>3. /\ previous' \in [Pdu -> Storage \cup {NoStorage}]
          /\ \A q \in Pdu \ {p} : previous'[q] = previous[q]
      BY <2>1 DEF TypeOK
    <2>4. /\ pc' \in [Call -> Steps]
          /\ \A q \in Pdu : pc'[q] \in ReaderSteps
          /\ \A k \in Sweep : pc'[k] = pc[k]
          /\ \A q \in Pdu : pc'[q] = "restore" => previous'[q] # NoStorage
      BY <2>2, <2>3, StepsOfReader DEF ReaderSteps
    <2>5. failed' \in BOOLEAN /\ selected' \in Storage
      <3>1. at[p].storage \in Storage /\ selected \in Storage
        BY DEF TypeOK
      <3> QED  BY <2>1, <3>1, Selected DEF Outcome, TypeOK
    <2>6. at' \in [Pdu -> [storage : Storage, index : Index]]
      BY <1>4, Indicated DEF SwitchStorage
    <2> QED
      BY <1>4, <2>3, <2>4, <2>5, <2>6 DEF SwitchStorage, joining, TypeOK, ReaderSteps
  <1>5. CASE Read(p)
    <2> DEFINE found == {cell[selected][at[p].index]} \ {NoPdu}
    <2>1. PICK ok \in BOOLEAN :
            /\ Outcome(ok)
            /\ hand' = [hand EXCEPT ![p] = IF ok THEN found ELSE {}]
            /\ pc' = [pc EXCEPT ![p] = IF ok /\ found # {} THEN "decode"
                                       ELSE Leave[p]]
      BY <1>5 DEF Read
    <2>2. found \subseteq Pdu
      BY DEF TypeOK
    <2> HIDE DEF found
    <2>3. PICK step \in {"decode", "done", "restore"} :
            /\ pc' = [pc EXCEPT ![p] = step]
            /\ step = "restore" => previous[p] # NoStorage
      BY <2>1 DEF Leave
    <2>4. /\ pc' \in [Call -> Steps]
          /\ \A q \in Pdu : pc'[q] \in ReaderSteps
          /\ \A k \in Sweep : pc'[k] = pc[k]
          /\ \A q \in Pdu : pc'[q] = "restore" => previous'[q] # NoStorage
      BY <1>5, <2>3, StepsOfReader DEF Read, TypeOK, ReaderSteps
    <2>5. failed' \in BOOLEAN /\ hand' \in [Call -> SUBSET Pdu]
      BY <1>1, <2>1, <2>2 DEF Outcome, TypeOK
    <2>6. at' \in [Pdu -> [storage : Storage, index : Index]]
      BY <1>5, Indicated DEF Read
    <2> QED
      BY <1>5, <2>4, <2>5, <2>6 DEF Read, modem, joining, TypeOK, ReaderSteps
  <1>6. CASE Decode(p)
    <2>1. PICK q \in hand[p] : Receive(q)
      BY <1>6 DEF Decode
    <2>2. q \in Pdu
      BY <1>1, <2>1 DEF TypeOK
    <2>3. /\ cache' \in [Message -> Seq(Nat)]
          /\ \A m \in Message : /\ IsInjective(cache'[m])
                                /\ ToSet(cache'[m]) \subseteq 1..Total[m]
                                /\ Len(cache'[m]) < Total[m]
          /\ decoded' = decoded \cup {q} /\ expired' = expired
      BY <2>1, <2>2, Received
    <2>4. /\ pc' \in [Call -> Steps]
          /\ \A r \in Pdu : pc'[r] \in ReaderSteps
          /\ \A k \in Sweep : pc'[k] = pc[k]
          /\ \A r \in Pdu : pc'[r] = "restore" => previous'[r] # NoStorage
      <3>1. pc' = [pc EXCEPT ![p] = "delete"] /\ previous' = previous
        BY <1>6 DEF Decode
      <3> QED  BY <3>1, StepsOfReader DEF TypeOK, ReaderSteps
    <2>5. hand' \in [Call -> SUBSET Pdu]
      BY <1>1, <1>6 DEF Decode, TypeOK
    <2> QED
      BY <1>6, <2>2, <2>3, <2>4, <2>5 DEF Decode, modem, TypeOK, ReaderSteps
  <1>7. CASE Delete(p)
    <2>1. PICK ok \in BOOLEAN : Outcome(ok) /\ Erase({at[p].index}, ok)
      BY <1>7 DEF Delete
    <2>2. PICK step \in {"done", "restore"} :
            /\ pc' = [pc EXCEPT ![p] = step]
            /\ step = "restore" => previous[p] # NoStorage
      BY <1>7 DEF Delete, Leave
    <2>3. /\ pc' \in [Call -> Steps]
          /\ \A q \in Pdu : pc'[q] \in ReaderSteps
          /\ \A k \in Sweep : pc'[k] = pc[k]
          /\ \A q \in Pdu : pc'[q] = "restore" => previous'[q] # NoStorage
      BY <1>7, <2>2, StepsOfReader DEF Delete, TypeOK, ReaderSteps
    <2>4. failed' \in BOOLEAN /\ cell' \in [Storage -> [Index -> Pdu \cup {NoPdu}]]
      BY <2>1, Emptied DEF Outcome, TypeOK
    <2>5. at' \in [Pdu -> [storage : Storage, index : Index]]
      BY <1>7, Indicated DEF Delete
    <2> QED
      BY <1>7, <2>3, <2>4, <2>5 DEF Delete, joining, TypeOK, ReaderSteps
  <1>8. CASE Restore(p)
    <2>1. PICK ok \in BOOLEAN : Outcome(ok) /\ Select(previous[p], ok)
      BY <1>8 DEF Restore
    <2>2. previous[p] \in Storage /\ selected \in Storage
      BY <1>8 DEF Restore, TypeOK
    <2>3. failed' \in BOOLEAN /\ selected' \in Storage
      BY <2>1, <2>2, Selected DEF Outcome, TypeOK
    <2>4. /\ previous' \in [Pdu -> Storage \cup {NoStorage}]
          /\ \A q \in Pdu \ {p} : previous'[q] = previous[q]
      BY <1>8 DEF Restore, TypeOK
    <2>5. /\ pc' \in [Call -> Steps]
          /\ \A q \in Pdu : pc'[q] \in ReaderSteps
          /\ \A k \in Sweep : pc'[k] = pc[k]
          /\ \A q \in Pdu : pc'[q] = "restore" => previous'[q] # NoStorage
      BY <1>8, <2>4, StepsOfReader DEF Restore, ReaderSteps
    <2>6. at' \in [Pdu -> [storage : Storage, index : Index]]
      BY <1>8, Indicated DEF Restore
    <2> QED
      BY <1>8, <2>3, <2>4, <2>5, <2>6 DEF Restore, joining, TypeOK, ReaderSteps
  <1> QED  BY <1>2, <1>3, <1>4, <1>5, <1>6, <1>7, <1>8 DEF ReaderStep

LEMMA ShapeSweep ==
  ASSUME Shape, NEW k \in Sweep, SweepStep(k)  PROVE Shape'
  <1> USE DEF Shape
  <1>1. k \in Call
    BY DEF Call
  <1>2. CASE BeginSweep(k)
    <2>1. pc' = [pc EXCEPT ![k] = "list"] /\ overlapped' \subseteq Call
      BY <1>1, <1>2, Begins DEF BeginSweep, Begin
    <2>2. /\ pc' \in [Call -> Steps]
          /\ \A q \in Pdu : pc'[q] = pc[q]
          /\ \A j \in Sweep : pc'[j] \in {"idle", "list", "each", "clear", "done"}
      BY <2>1, StepsOfSweep
    <2> QED  BY <1>2, <2>1, <2>2 DEF BeginSweep, modem, joining, TypeOK
  <1>3. CASE List(k)
    <2> DEFINE found == {cell[selected][i] : i \in Index} \ {NoPdu}
    <2>1. PICK ok \in BOOLEAN :
            /\ Outcome(ok)
            /\ hand' = [hand EXCEPT ![k] = IF ok THEN found ELSE {}]
            /\ pc' = [pc EXCEPT ![k] = IF ok /\ found # {} THEN "each" ELSE "done"]
      BY <1>3 DEF List
    <2>2. found \subseteq Pdu
      BY DEF TypeOK
    <2> HIDE DEF found
    <2>3. PICK step \in {"each", "done"} : pc' = [pc EXCEPT ![k] = step]
      BY <2>1
    <2>4. /\ pc' \in [Call -> Steps]
          /\ \A q \in Pdu : pc'[q] = pc[q]
          /\ \A j \in Sweep : pc'[j] \in {"idle", "list", "each", "clear", "done"}
      BY <2>3, StepsOfSweep
    <2>5. failed' \in BOOLEAN /\ hand' \in [Call -> SUBSET Pdu]
      BY <1>1, <2>1, <2>2 DEF Outcome, TypeOK
    <2> QED  BY <1>3, <2>4, <2>5 DEF List, modem, joining, TypeOK
  <1>4. CASE DecodeNext(k)
    <2>1. PICK q \in hand[k] :
            /\ Receive(q)
            /\ hand' = [hand EXCEPT ![k] = @ \ {q}]
            /\ pc' = IF hand[k] = {q} THEN [pc EXCEPT ![k] = "clear"] ELSE pc
      BY <1>4 DEF DecodeNext
    <2>2. q \in Pdu
      BY <1>1, <2>1 DEF TypeOK
    <2>3. /\ cache' \in [Message -> Seq(Nat)]
          /\ \A m \in Message : /\ IsInjective(cache'[m])
                                /\ ToSet(cache'[m]) \subseteq 1..Total[m]
                                /\ Len(cache'[m]) < Total[m]
          /\ decoded' = decoded \cup {q} /\ expired' = expired
      BY <2>1, <2>2, Received
    <2>4. PICK step \in {"clear", "each"} : pc' = [pc EXCEPT ![k] = step]
      <3>1. pc = [pc EXCEPT ![k] = "each"]
        BY <1>1, <1>4 DEF DecodeNext
      <3> QED  BY <2>1, <3>1
    <2>5. /\ pc' \in [Call -> Steps]
          /\ \A r \in Pdu : pc'[r] = pc[r]
          /\ \A j \in Sweep : pc'[j] \in {"idle", "list", "each", "clear", "done"}
      BY <2>4, StepsOfSweep
    <2>6. hand' \in [Call -> SUBSET Pdu]
      BY <1>1, <2>1 DEF TypeOK
    <2> QED  BY <1>4, <2>2, <2>3, <2>5, <2>6 DEF DecodeNext, modem, TypeOK
  <1>5. CASE Clear(k)
    <2>1. PICK ok \in BOOLEAN : Outcome(ok) /\ Erase(Index, ok)
      BY <1>5 DEF Clear
    <2>2. failed' \in BOOLEAN /\ cell' \in [Storage -> [Index -> Pdu \cup {NoPdu}]]
      BY <2>1, Emptied DEF Outcome, TypeOK
    <2>3. /\ pc' \in [Call -> Steps]
          /\ \A q \in Pdu : pc'[q] = pc[q]
          /\ \A j \in Sweep : pc'[j] \in {"idle", "list", "each", "clear", "done"}
      BY <1>5, StepsOfSweep DEF Clear
    <2> QED  BY <1>5, <2>2, <2>3 DEF Clear, joining, TypeOK
  <1> QED  BY <1>2, <1>3, <1>4, <1>5 DEF SweepStep

LEMMA ShapeNext ==
  ASSUME Shape, [Next]_vars  PROVE Shape'
  <1>1. ASSUME NEW m \in Message, Cleanup(m)  PROVE Shape'
    <2>1. cache' = [cache EXCEPT ![m] = <<>>]
      BY <1>1 DEF Cleanup
    <2>2. IsInjective(<<>>) /\ ToSet(<<>>) = {} /\ Len(<<>>) = 0
      BY DEF IsInjective, ToSet
    <2>3. cache' \in [Message -> Seq(Nat)]
      BY <2>1 DEF Shape
    <2>4. \A k \in Message : /\ IsInjective(cache'[k])
                             /\ ToSet(cache'[k]) \subseteq 1..Total[k]
                             /\ Len(cache'[k]) < Total[k]
      <3> SUFFICES ASSUME NEW k \in Message
                   PROVE  /\ IsInjective(cache'[k])
                          /\ ToSet(cache'[k]) \subseteq 1..Total[k]
                          /\ Len(cache'[k]) < Total[k]
        OBVIOUS
      <3>1. Total[k] \in Nat \ {0}
        BY TotalAssumption
      <3>2. cache'[k] = IF k = m THEN <<>> ELSE cache[k]
        BY <2>1 DEF Shape
      <3> QED  BY <2>2, <3>1, <3>2 DEF Shape, TypeOK
    <2> QED  BY <1>1, <2>3, <2>4 DEF Cleanup, modem, Shape, TypeOK
  <1>2. CASE UNCHANGED vars
    BY <1>2 DEF vars, modem, joining, Shape, TypeOK
  <1> QED  BY <1>1, <1>2, ShapeReader, ShapeSweep DEF Next

\* The types, and the storages that readers remember, keep.
THEOREM TypeCorrect == Spec => []Shape
  BY ShapeInit, ShapeNext, PTL DEF Spec
-----------------------------------------------------------------------------
(* Messages *)

\* Only decoding a part, and the ticker, touch what waits and what is told.
LEMMA Joins ==
  ASSUME Shape, [Next]_vars
  PROVE  \/ UNCHANGED joining
         \/ \E q \in Pdu : Receive(q)
         \/ \E m \in Message : Cleanup(m)
  <1>1. ASSUME NEW p \in Pdu, ReaderStep(p)
        PROVE  UNCHANGED joining \/ \E q \in Pdu : Receive(q)
    <2>1. hand[p] \subseteq Pdu
      BY DEF Shape, TypeOK, Call
    <2> QED
      BY <1>1, <2>1 DEF ReaderStep, Arrive, QueryStorage, SwitchStorage, Read,
                        Decode, Delete, Restore
  <1>2. ASSUME NEW k \in Sweep, SweepStep(k)
        PROVE  UNCHANGED joining \/ \E q \in Pdu : Receive(q)
    <2>1. hand[k] \subseteq Pdu
      BY DEF Shape, TypeOK, Call
    <2> QED
      BY <1>2, <2>1 DEF SweepStep, BeginSweep, List, DecodeNext, Clear
  <1>3. CASE UNCHANGED vars
    BY <1>3 DEF vars
  <1> QED  BY <1>1, <1>2, <1>3 DEF Next

LEMMA PartsInit ==
  ASSUME Init PROVE PartsMakeMessages
  <1>1. told = {} /\ decoded = {}
    BY Zenon DEF Init
  <1>2. TypeOK
    BY ShapeInit DEF Shape
  <1> QED  BY <1>1, <1>2 DEF PartsMakeMessages

LEMMA PartsNext ==
  ASSUME Shape, PartsMakeMessages, [Next]_vars  PROVE PartsMakeMessages'
  <1>1. TypeOK'
    BY ShapeNext DEF Shape
  <1>2. CASE UNCHANGED joining
    BY <1>1, <1>2 DEF joining, PartsMakeMessages
  <1>3. ASSUME NEW q \in Pdu, Receive(q)  PROVE PartsMakeMessages'
    <2>1. /\ decoded' = decoded \cup {q} /\ expired' = expired
          /\ told \subseteq told'
          /\ \A t \in told' \ told : t.text = [n \in 1..Total[t.msg] |-> n]
          /\ \A m \in Message : \/ \E t \in told' : t.msg = m
                                \/ ToSet(cache[m]) \subseteq ToSet(cache'[m])
          /\ \/ \E t \in told' : t.msg = q.msg
             \/ q.seq \in ToSet(cache'[q.msg])
      BY <1>3, Received
    <2>2. \A t \in told' : t.text = [n \in 1..Total[t.msg] |-> n]
      BY <2>1 DEF PartsMakeMessages
    <2>3. ASSUME NEW p \in decoded'
          PROVE  \/ \E t \in told' : t.msg = p.msg
                 \/ p.seq \in ToSet(cache'[p.msg])
                 \/ p.msg \in expired'
      <3>1. CASE p = q
        BY <2>1, <3>1
      <3>2. CASE p \in decoded
        <4>1. p.msg \in Message
          BY <3>2, Parts DEF Shape, TypeOK
        <4>2. \/ \E t \in told : t.msg = p.msg
              \/ p.seq \in ToSet(cache[p.msg])
              \/ p.msg \in expired
          BY <3>2 DEF PartsMakeMessages
        <4> QED  BY <2>1, <4>1, <4>2
      <3> QED  BY <2>1, <2>3, <3>1, <3>2
    <2> QED  BY <1>1, <2>2, <2>3 DEF PartsMakeMessages
  <1>4. ASSUME NEW m \in Message, Cleanup(m)  PROVE PartsMakeMessages'
    <2>1. /\ cache' = [cache EXCEPT ![m] = <<>>]
          /\ expired' = expired \cup {m}
          /\ told' = told /\ decoded' = decoded
      BY <1>4 DEF Cleanup
    <2>2. ASSUME NEW p \in decoded
          PROVE  \/ \E t \in told : t.msg = p.msg
                 \/ p.seq \in ToSet(cache'[p.msg])
                 \/ p.msg \in expired'
      <3>1. p.msg \in Message
        BY Parts DEF Shape, TypeOK
      <3>2. p.msg # m => cache'[p.msg] = cache[p.msg]
        BY <2>1, <3>1 DEF Shape
      <3> QED  BY <2>1, <3>2 DEF PartsMakeMessages
    <2> QED  BY <1>1, <2>1, <2>2 DEF PartsMakeMessages
  <1> QED  BY <1>2, <1>3, <1>4, Joins

\* PartsMakeMessages: for any messages, storages, readers and sweeps, and
\* whatever commands fail, a message is told whole and in order, and a part that
\* was read is told, waits, or was dropped by the ticker.
THEOREM PartsAreKept == Spec => []PartsMakeMessages
  BY ShapeInit, ShapeNext, PartsInit, PartsNext, PTL DEF Spec

-----------------------------------------------------------------------------
(* Readers and sweeps on their own *)

\* A step of call c moves no other call, and one that begins is counted.
Moves(c) ==
    \/ \E step : Begin(c, step)
    \/ /\ c \in Running /\ overlapped' = overlapped
       /\ \A d \in Call \ {c} : pc'[d] = pc[d]

LEMMA ReaderMoves ==
  ASSUME Shape, NEW p \in Pdu, ReaderStep(p)  PROVE Moves(p)
  <1>1. p \in Call /\ pc \in [Call -> Steps]
    BY DEF Call, Shape
  <1>2. CASE \E s \in Storage, i \in Index : Arrive(p, s, i)
    BY <1>2 DEF Arrive, Moves
  <1>3. CASE ~(\E s \in Storage, i \in Index : Arrive(p, s, i))
    <2>1. /\ pc[p] \in {"query", "switch", "read", "decode", "delete", "restore"}
          /\ overlapped' = overlapped
      BY <1>3 DEF ReaderStep, QueryStorage, SwitchStorage, Read, Decode, Delete,
                  Restore
    <2>2. \E step : pc' = [pc EXCEPT ![p] = step]
      BY <1>3 DEF ReaderStep, QueryStorage, SwitchStorage, Read, Decode, Delete,
                  Restore
    <2> QED  BY <1>1, <2>1, <2>2 DEF Moves, Running
  <1> QED  BY <1>2, <1>3

LEMMA SweepMoves ==
  ASSUME Shape, NEW k \in Sweep, SweepStep(k)  PROVE Moves(k)
  <1>1. k \in Call /\ pc \in [Call -> Steps]
    BY DEF Call, Shape
  <1>2. CASE BeginSweep(k)
    BY <1>2 DEF BeginSweep, Moves
  <1>3. CASE ~BeginSweep(k)
    <2>1. pc[k] \in {"list", "each", "clear"} /\ overlapped' = overlapped
      BY <1>3 DEF SweepStep, List, DecodeNext, Clear
    <2>2. pc' = pc \/ \E step : pc' = [pc EXCEPT ![k] = step]
      BY <1>3 DEF SweepStep, List, DecodeNext, Clear
    <2> QED  BY <1>1, <2>1, <2>2 DEF Moves, Running
  <1> QED  BY <1>2, <1>3

\* A call that is not in overlapped still runs alone, and nobody else's step is
\* taken while it runs.
LEMMA OnlyOne ==
  ASSUME Shape, Beside, NEW c \in Call, Moves(c)
  PROVE  /\ Beside' /\ overlapped \subseteq overlapped'
         /\ \A d \in Call \ {c} : d \notin overlapped' => d \notin Running'
  <1>1. CASE \E step : Begin(c, step)
    <2>1. PICK step : Begin(c, step)
      BY <1>1
    <2>2. /\ \A d \in Call \ {c} : pc'[d] = pc[d]
          /\ c \notin Running
          /\ overlapped' = IF Running = {} THEN overlapped
                           ELSE overlapped \cup Running \cup {c}
      BY <2>1 DEF Begin, Shape, Running
    <2>3. Running' \subseteq Running \cup {c}
      BY <2>2 DEF Running
    <2>4. Running \subseteq Call
      BY DEF Running
    <2> QED  BY <2>2, <2>3, <2>4 DEF Beside
  <1>2. CASE /\ c \in Running /\ overlapped' = overlapped
             /\ \A d \in Call \ {c} : pc'[d] = pc[d]
    <2>1. Running' \subseteq Running
      BY <1>2 DEF Running
    <2> QED  BY <1>2, <2>1 DEF Beside
  <1> QED  BY <1>1, <1>2 DEF Moves

LEMMA ReaderAloneStep ==
  ASSUME Alone, NEW p \in Pdu, ReaderStep(p)
  PROVE  Beside' /\ ReaderAlone' /\ SweepAlone'
  <1> USE DEF Alone
  <1>1. /\ p \in Call /\ p \notin Sweep
        /\ \A q \in Pdu : q \in Call
        /\ \A k \in Sweep : k \in Call
    BY NamesAssumption DEF Call
  <1>2. /\ Beside' /\ overlapped \subseteq overlapped'
        /\ \A d \in Call \ {p} : d \notin overlapped' => d \notin Running'
    BY <1>1, ReaderMoves, OnlyOne
  <1>3. SweepAlone'
    BY <1>1, <1>2 DEF SweepAlone, Running
  <1>4. /\ pc \in [Call -> Steps] /\ hand \in [Call -> SUBSET Pdu]
        /\ selected \in Storage
        /\ cell \in [Storage -> [Index -> Pdu \cup {NoPdu}]]
    BY DEF Shape, TypeOK
  <1>5. ASSUME p \notin overlapped'
        PROVE  /\ pc'[p] \in {"read", "decode", "delete"} => selected' = at'[p].storage
               /\ pc'[p] = "decode" =>
                    hand'[p] \subseteq {cell'[selected'][at'[p].index]}
               /\ pc'[p] = "delete" =>
                    cell'[selected'][at'[p].index] \in decoded' \cup {NoPdu}
    <2>1. /\ pc[p] \in {"read", "decode", "delete"} => selected = at[p].storage
          /\ pc[p] = "decode" => hand[p] \subseteq {cell[selected][at[p].index]}
      BY <1>2, <1>5 DEF ReaderAlone
    <2>2. CASE \E s \in Storage, i \in Index : Arrive(p, s, i)
      <3>1. pc'[p] = "query"
        BY <1>1, <1>4, <2>2 DEF Arrive, Begin
      <3> QED  BY <3>1
    <2>3. CASE QueryStorage(p)
      <3>1. /\ pc'[p] \in {"read", "switch"} /\ UNCHANGED <<at, selected>>
            /\ pc'[p] = "read" => selected = at[p].storage
        BY <1>1, <1>4, <2>3 DEF QueryStorage, modem
      <3> QED  BY <3>1
    <2>4. CASE SwitchStorage(p)
      <3>1. /\ pc'[p] \in {"read", "done"}
            /\ pc'[p] = "read" => selected' = at[p].storage /\ at' = at
        BY <1>1, <1>4, <2>4 DEF SwitchStorage, Select, Forgets
      <3> QED  BY <3>1
    <2>5. CASE Read(p)
      <3>1. /\ pc'[p] \in {"decode", "done", "restore"} /\ UNCHANGED modem
            /\ pc'[p] = "decode" =>
                 hand'[p] \subseteq {cell[selected][at[p].index]} /\ at' = at
        BY <1>1, <1>4, <2>5 DEF Read, Leave, Forgets
      <3>2. pc[p] = "read"
        BY <2>5 DEF Read
      <3> QED  BY <2>1, <3>1, <3>2 DEF modem
    <2>6. CASE Decode(p)
      <3>1. PICK q \in hand[p] : Receive(q)
        BY <2>6 DEF Decode
      <3>2. /\ pc[p] = "decode" /\ pc'[p] = "delete"
            /\ UNCHANGED <<modem, at>> /\ decoded' = decoded \cup {q}
        BY <1>1, <1>4, <2>6, <3>1 DEF Decode, Receive
      <3>3. q = cell[selected][at[p].index]
        BY <2>1, <3>1, <3>2
      <3> QED  BY <2>1, <3>2, <3>3 DEF modem
    <2>7. CASE Delete(p) \/ Restore(p)
      <3>1. pc'[p] \in {"done", "restore"}
        BY <1>1, <1>4, <2>7 DEF Delete, Restore, Leave
      <3> QED  BY <3>1
    <2> QED  BY <2>2, <2>3, <2>4, <2>5, <2>6, <2>7 DEF ReaderStep
  <1>6. ReaderAlone'
    BY <1>1, <1>2, <1>5 DEF ReaderAlone, Running
  <1> QED  BY <1>2, <1>3, <1>6

LEMMA SweepAloneStep ==
  ASSUME Alone, NEW k \in Sweep, SweepStep(k)
  PROVE  Beside' /\ ReaderAlone' /\ SweepAlone'
  <1> USE DEF Alone
  <1>1. /\ k \in Call /\ k \notin Pdu
        /\ \A q \in Pdu : q \in Call
        /\ \A j \in Sweep : j \in Call
    BY NamesAssumption DEF Call
  <1>2. /\ Beside' /\ overlapped \subseteq overlapped'
        /\ \A d \in Call \ {k} : d \notin overlapped' => d \notin Running'
    BY <1>1, SweepMoves, OnlyOne
  <1>3. ReaderAlone'
    BY <1>1, <1>2 DEF ReaderAlone, Running
  <1>4. /\ pc \in [Call -> Steps] /\ hand \in [Call -> SUBSET Pdu]
    BY DEF Shape, TypeOK
  <1>5. ASSUME k \notin overlapped', NEW i \in Index
        PROVE  /\ pc'[k] = "each" =>
                    cell'[selected'][i] \in decoded' \cup hand'[k] \cup {NoPdu}
               /\ pc'[k] = "clear" =>
                    cell'[selected'][i] \in decoded' \cup {NoPdu}
    <2>1. pc[k] = "each" => cell[selected][i] \in decoded \cup hand[k] \cup {NoPdu}
      BY <1>2, <1>5 DEF SweepAlone
    <2>2. CASE BeginSweep(k)
      <3>1. pc'[k] = "list"
        BY <1>1, <1>4, <2>2 DEF BeginSweep, Begin
      <3> QED  BY <3>1
    <2>3. CASE List(k)
      <3>1. /\ pc'[k] \in {"each", "done"} /\ UNCHANGED modem
            /\ pc'[k] = "each" =>
                 hand'[k] = {cell[selected][j] : j \in Index} \ {NoPdu}
        BY <1>1, <1>4, <2>3 DEF List
      <3> QED  BY <1>5, <3>1 DEF modem
    <2>4. CASE DecodeNext(k)
      <3>1. PICK q \in hand[k] :
              /\ Receive(q)
              /\ hand' = [hand EXCEPT ![k] = @ \ {q}]
              /\ pc' = IF hand[k] = {q} THEN [pc EXCEPT ![k] = "clear"] ELSE pc
        BY <2>4 DEF DecodeNext
      <3>2. /\ pc[k] = "each" /\ UNCHANGED modem
            /\ decoded' = decoded \cup {q} /\ hand'[k] = hand[k] \ {q}
        BY <1>1, <1>4, <2>4, <3>1 DEF DecodeNext, Receive
      <3>3. pc'[k] = "clear" => hand[k] = {q}
        BY <3>1, <3>2
      <3> QED  BY <2>1, <3>2, <3>3 DEF modem
    <2>5. CASE Clear(k)
      <3>1. pc'[k] = "done"
        BY <1>1, <1>4, <2>5 DEF Clear
      <3> QED  BY <3>1
    <2> QED  BY <2>2, <2>3, <2>4, <2>5 DEF SweepStep
  <1>6. SweepAlone'
    BY <1>1, <1>2, <1>5 DEF SweepAlone, Running
  <1> QED  BY <1>2, <1>3, <1>6
LEMMA HomewardReader ==
  ASSUME Alone, NEW p \in Pdu, ReaderStep(p)  PROVE Homeward'
  <1> USE DEF Alone
  <1>1. p \in Call /\ \A q \in Pdu : q \in Call
    BY DEF Call
  <1>2. /\ overlapped \subseteq overlapped'
        /\ \A d \in Call \ {p} : d \notin overlapped' => d \notin Running'
    BY <1>1, ReaderMoves, OnlyOne
  <1>3. /\ pc \in [Call -> Steps] /\ selected \in Storage
        /\ previous \in [Pdu -> Storage \cup {NoStorage}]
        /\ failed \in BOOLEAN
    BY DEF Shape, TypeOK
  <1> SUFFICES ASSUME overlapped' = {}, ~failed'
               PROVE  /\ Running' \cap Pdu = {} => selected' = Home
                      /\ \A q \in Running' \cap Pdu :
                           /\ Left(q)' = Home
                           /\ pc'[q] = "switch" => previous'[q] # NoStorage
    BY DEF Homeward, Left
  <1>4. ~failed /\ overlapped = {}
    <2>1. ASSUME NEW ok, Outcome(ok)  PROVE failed => failed'
      BY <1>3, <2>1 DEF Outcome
    <2>2. failed => failed'
      BY <2>1 DEF ReaderStep, Arrive, QueryStorage, SwitchStorage, Read, Decode,
                  Delete, Restore
    <2> QED  BY <1>2, <2>2
  <1>5. Running' \cap Pdu \subseteq {p}
    BY <1>1, <1>2
  <1>6. /\ Running \cap Pdu = {} => selected = Home
        /\ p \in Running => /\ Left(p) = Home
                            /\ pc[p] = "switch" => previous[p] # NoStorage
    BY <1>4 DEF Homeward
  <1>7. SUFFICES /\ pc'[p] = "done" => selected' = Home
                 /\ pc'[p] # "done" =>
                      /\ p \in Running'
                      /\ IF pc'[p] # "query" /\ previous'[p] # NoStorage
                         THEN previous'[p] = Home ELSE selected' = Home
                      /\ pc'[p] = "switch" => previous'[p] # NoStorage
    <2>1. pc'[p] = "done" => p \notin Running'
      BY DEF Running
    <2> QED  BY <1>5, <1>7, <2>1 DEF Left
  <1>8. pc[p] # "idle" => p \in Running /\ \A ok : Outcome(ok) => ok
    <2>1. pc[p] # "idle" => p \in Running
      BY <1>1 DEF Running, ReaderStep, Arrive, Begin, QueryStorage, SwitchStorage,
                  Read, Decode, Delete, Restore
    <2>2. \A ok : Outcome(ok) => ok
      BY DEF Outcome
    <2> QED  BY <2>1, <2>2
  <1>9. CASE \E s \in Storage, i \in Index : Arrive(p, s, i)
    <2>1. /\ pc[p] = "idle" /\ pc'[p] = "query" /\ selected' = selected
          /\ Running = {}
      BY <1>1, <1>3, <1>9 DEF Arrive, Begin
    <2>2. p \in Running'
      BY <1>1, <2>1 DEF Running
    <2> QED  BY <1>6, <2>1, <2>2
  <1>10. CASE QueryStorage(p)
    <2>1. PICK ok \in BOOLEAN :
            LET there == ok /\ selected = at[p].storage IN
            /\ Outcome(ok)
            /\ pc' = [pc EXCEPT ![p] = IF there THEN "read" ELSE "switch"]
            /\ previous' = [previous EXCEPT ![p] = IF ok /\ ~there THEN selected
                                                   ELSE NoStorage]
      BY <1>10 DEF QueryStorage
    <2>2. pc[p] = "query" /\ selected' = selected
      BY <1>10 DEF QueryStorage, modem
    <2>3. ok /\ selected = Home
      BY <1>6, <1>8, <2>1, <2>2 DEF Left
    <2>4. /\ pc'[p] \in {"read", "switch"}
          /\ pc'[p] = "read" => previous'[p] = NoStorage
          /\ pc'[p] = "switch" => previous'[p] = selected
      BY <1>1, <1>3, <2>1, <2>3
    <2>5. p \in Running'
      BY <1>1, <2>4 DEF Running
    <2> QED  BY <1>3, <2>2, <2>3, <2>4, <2>5, NamesAssumption
  <1>11. CASE SwitchStorage(p)
    <2>1. /\ pc[p] = "switch" /\ pc'[p] = "read" /\ previous'[p] = previous[p]
      BY <1>1, <1>3, <1>8, <1>11 DEF SwitchStorage
    <2>2. p \in Running'
      BY <1>1, <2>1 DEF Running
    <2> QED  BY <1>6, <1>8, <2>1, <2>2 DEF Left
  <1>12. CASE Read(p) \/ Decode(p) \/ Delete(p)
    <2>1. /\ pc[p] \in {"read", "decode", "delete"}
          /\ UNCHANGED <<selected, previous>>
          /\ pc'[p] \in {"decode", "delete", Leave[p]}
      BY <1>1, <1>3, <1>12 DEF Read, Decode, Delete, modem
    <2>2. /\ pc'[p] \in {"decode", "delete", "done", "restore"}
          /\ pc'[p] = "done" => previous[p] = NoStorage
      BY <2>1 DEF Leave
    <2>3. pc'[p] # "done" => p \in Running'
      BY <1>1, <2>2 DEF Running
    <2>4. IF previous[p] # NoStorage THEN previous[p] = Home ELSE selected = Home
      BY <1>6, <1>8, <2>1 DEF Left
    <2> QED  BY <2>1, <2>2, <2>3, <2>4
  <1>13. CASE Restore(p)
    <2>1. pc[p] = "restore" /\ pc'[p] = "done" /\ previous[p] # NoStorage
      BY <1>1, <1>3, <1>13 DEF Restore, Shape
    <2>2. selected' = previous[p]
      BY <1>8, <1>13, <2>1 DEF Restore, Select
    <2> QED  BY <1>6, <1>8, <2>1, <2>2 DEF Left
  <1> QED  BY <1>9, <1>10, <1>11, <1>12, <1>13 DEF ReaderStep

LEMMA HomewardSweep ==
  ASSUME Alone, NEW k \in Sweep, SweepStep(k)  PROVE Homeward'
  <1> USE DEF Alone
  <1>1. /\ UNCHANGED <<selected, previous>>
        /\ \A q \in Pdu : pc'[q] = pc[q]
    <2>1. UNCHANGED <<selected, previous>>
      BY DEF SweepStep, BeginSweep, List, DecodeNext, Clear, modem
    <2>2. pc' = pc \/ \E step : pc' = [pc EXCEPT ![k] = step]
      BY DEF SweepStep, BeginSweep, Begin, List, DecodeNext, Clear
    <2> QED  BY <2>1, <2>2, NamesAssumption DEF Shape, Call
  <1>2. overlapped \subseteq overlapped' /\ (failed => failed')
    <2>1. k \in Call
      BY DEF Call
    <2>2. ASSUME NEW ok, Outcome(ok)  PROVE failed => failed'
      BY <2>2 DEF Outcome, Shape, TypeOK
    <2>3. failed => failed'
      BY <2>2 DEF SweepStep, BeginSweep, List, DecodeNext, Clear
    <2> QED  BY <2>1, <2>3, SweepMoves, OnlyOne
  <1>3. Running' \cap Pdu = Running \cap Pdu
    BY <1>1 DEF Running, Call
  <1> QED  BY <1>1, <1>2, <1>3 DEF Homeward, Left

LEMMA AloneInit ==
  ASSUME Init PROVE Alone
  <1>1. /\ pc = [c \in Call |-> "idle"] /\ selected = Home
        /\ overlapped = {} /\ failed = FALSE
    BY Zenon DEF Init
  <1>2. Running = {} /\ \A c \in Pdu \cup Sweep : pc[c] = "idle"
    BY <1>1 DEF Running, Call
  <1> HIDE DEF Init
  <1> QED
    BY <1>1, <1>2, ShapeInit DEF Alone, Beside, ReaderAlone, SweepAlone, Homeward

LEMMA AloneNext ==
  ASSUME Alone, [Next]_vars  PROVE Alone'
  <1>1. Shape'
    BY ShapeNext DEF Alone
  <1>2. ASSUME NEW p \in Pdu, ReaderStep(p)  PROVE Alone'
    BY <1>1, <1>2, ReaderAloneStep, HomewardReader DEF Alone
  <1>3. ASSUME NEW k \in Sweep, SweepStep(k)  PROVE Alone'
    BY <1>1, <1>3, SweepAloneStep, HomewardSweep DEF Alone
  <1>4. ASSUME UNCHANGED <<modem, pc, at, previous, hand, decoded, overlapped, failed>>
        PROVE  Alone'
    BY <1>1, <1>4 DEF modem, Alone, Beside, ReaderAlone, SweepAlone, Homeward,
                      Running, Left
  <1>5. ASSUME NEW m \in Message, Cleanup(m)  PROVE Alone'
    BY <1>4, <1>5 DEF Cleanup
  <1>6. CASE UNCHANGED vars
    BY <1>4, <1>6 DEF vars, joining
  <1> QED  BY <1>2, <1>3, <1>5, <1>6 DEF Next

LEMMA AloneAlways == Spec => []Alone
  BY AloneInit, AloneNext, PTL DEF Spec

\* StorageIsKept: a reader that nothing ran beside works in the storage that
\* +CMTI named, and where nothing overlapped or failed the first storage is
\* selected again, for any storages and however many readers and sweeps.
THEOREM StorageKept == Spec => []StorageIsKept
  <1>1. Alone => StorageIsKept
    BY DEF Alone, ReaderAlone, Homeward, StorageIsKept
  <1> QED  BY <1>1, AloneAlways, PTL

\* NothingIsLostAlone: a call that nothing runs beside erases only what was
\* decoded, whichever of its commands fail.
THEOREM NothingLostAlone == Spec => NothingIsLostAlone
  <1> DEFINE Lossless ==
        cell' # cell /\ Running \cap overlapped = {} => Erased \subseteq decoded
  <1>1. ASSUME Alone, [Next]_vars  PROVE [Lossless]_vars
    <2> SUFFICES ASSUME cell' # cell, Running \cap overlapped = {},
                        NEW p \in Erased
                 PROVE  p \in decoded
      OBVIOUS
    <2> USE <1>1 DEF Alone
    <2>1. PICK s \in Storage, i \in Index :
            cell[s][i] = p /\ p # NoPdu /\ cell'[s][i] # p
      BY DEF Erased, Stored
    <2>2. CASE \E q \in Pdu, t \in Storage, j \in Index : Arrive(q, t, j)
      <3>1. PICK q \in Pdu, t \in Storage, j \in Index :
              cell[t][j] = NoPdu /\ cell' = [cell EXCEPT ![t][j] = q]
        BY <2>2 DEF Arrive
      <3>2. cell \in [Storage -> [Index -> Pdu \cup {NoPdu}]]
        BY DEF Shape, TypeOK
      <3> QED  BY <2>1, <3>1, <3>2
    <2>3. ASSUME NEW q \in Pdu, Delete(q)  PROVE p \in decoded
      <3>1. q \in Running /\ pc[q] = "delete"
        BY <2>3 DEF Delete, Running, Call
      <3>2. cell[selected][at[q].index] \in decoded \cup {NoPdu}
        BY <3>1 DEF ReaderAlone
      <3>3. s = selected /\ i \in {at[q].index}
        BY <2>1, <2>3, Emptied DEF Delete, Shape
      <3> QED  BY <2>1, <3>2, <3>3
    <2>4. ASSUME NEW k \in Sweep, Clear(k)  PROVE p \in decoded
      <3>1. k \in Running /\ pc[k] = "clear"
        BY <2>4 DEF Clear, Running, Call
      <3>2. cell[selected][i] \in decoded \cup {NoPdu}
        BY <3>1 DEF SweepAlone
      <3>3. s = selected
        BY <2>1, <2>4, Emptied DEF Clear, Shape
      <3> QED  BY <2>1, <3>2, <3>3
    <2>5. ASSUME NEW q \in Pdu, ReaderStep(q)  PROVE p \in decoded
      BY <2>2, <2>3, <2>5 DEF ReaderStep, QueryStorage, SwitchStorage, Read,
                              Decode, Restore, modem
    <2>6. ASSUME NEW k \in Sweep, SweepStep(k)  PROVE p \in decoded
      BY <2>4, <2>6 DEF SweepStep, BeginSweep, List, DecodeNext, modem
    <2> QED  BY <2>5, <2>6 DEF Next, Cleanup, vars, modem
  <1> QED  BY <1>1, AloneAlways, PTL DEF Spec, NothingIsLostAlone
=============================================================================
