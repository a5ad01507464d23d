--------------------------- MODULE TransportProofs ---------------------------
(* Proofs about the transports in the sum of MCHostParts, each with an        *)
(* inductive invariant of its own, for any callers, commands and calls: USSD   *)
(* over AT and over QMI, the MBIM device, text messages over the USB AT link   *)
(* and the ADB client.  The last section puts them together.                  *)
EXTENDS MCHostParts, FiniteSetTheorems, TLAPS

-----------------------------------------------------------------------------
(* USSD over AT *)

\* While a caller that is not excused is under way, nobody else is, and the network
\* owes an answer to no other and has left none in the channel.
DialsApart ==
    \A d \in Dialers \ x5 :
        /\ x4[d] \in {d, "nothing", "failed"}
        /\ x1[d] # "idle" =>
              /\ \A e \in Dialers : x1[e] # "idle" => e = d
              /\ x3 \subseteq {d} /\ x2 \in {NoText, d}

DialInv == T!TypeOK /\ DialsApart

LEMMA DialInit == T!Init => DialInv
  <1>1. SUFFICES ASSUME T!Init  PROVE DialInv
    OBVIOUS
  <1>2. x7 \in 0..MaxDials /\ x8 \in 0..MaxWords
    BY <1>1, TransportBounds DEF T!Init
  <1> QED  BY <1>1, <1>2 DEF T!Init, DialInv, DialsApart, T!TypeOK

LEMMA DialTypes == ASSUME DialInv, T!Next  PROVE T!TypeOK'
  <1> USE DEF T!TypeOK
  <1>1. T!TypeOK
    BY DEF DialInv
  <1>2. ASSUME NEW d \in Dialers, T!Begin(d)  PROVE T!TypeOK'
    <2>1. x7' \in 0..MaxDials
      BY <1>1, <1>2, TransportBounds DEF T!Begin
    <2>2. x5' \subseteq Dialers
      BY <1>1, <1>2 DEF T!Begin, T!Busy
    <2> QED  BY <1>1, <1>2, <2>1, <2>2 DEF T!Begin, T!To
  <1>3. ASSUME NEW d \in Dialers,
               T!Charset(d) \/ T!Send(d) \/ T!Timeout(d) \/ T!Halted(d) \/ T!CancelUSSD(d)
        PROVE  T!TypeOK'
    BY <1>1, <1>3 DEF T!Charset, T!Send, T!Timeout, T!Halted, T!CancelUSSD, T!To, T!Returns
  <1>4. ASSUME NEW d \in Dialers, T!Take(d) \/ T!Answers(d)  PROVE T!TypeOK'
    BY <1>1, <1>4 DEF T!Take, T!Answers, T!To, T!Returns, T!Dispatch
  <1>5. CASE T!Speaks
    <2>1. x8' \in 0..MaxWords
      BY <1>1, <1>5, TransportBounds DEF T!Speaks
    <2>2. x5' \subseteq Dialers
      BY <1>1, <1>5 DEF T!Speaks, T!Busy
    <2> QED  BY <1>1, <1>5, <2>1, <2>2 DEF T!Speaks, T!Dispatch
  <1>6. CASE T!Stop
    BY <1>1, <1>6 DEF T!Stop
  <1> QED  BY <1>2, <1>3, <1>4, <1>5, <1>6 DEF T!Next

LEMMA DialNext == ASSUME DialInv, T!Next  PROVE DialInv'
  <1>1. T!TypeOK /\ DialsApart
    BY DEF DialInv
  <1>t. T!TypeOK'
    BY DialTypes
  <1> SUFFICES ASSUME NEW e \in Dialers \ x5'
               PROVE  /\ x4'[e] \in {e, "nothing", "failed"}
                      /\ x1'[e] # "idle" =>
                            /\ \A f \in Dialers : x1'[f] # "idle" => f = e
                            /\ x3' \subseteq {e} /\ x2' \in {NoText, e}
    BY <1>t DEF DialInv, DialsApart
  <1> USE DEF T!TypeOK
  <1>2. ASSUME NEW d \in Dialers, T!Begin(d)
        PROVE  /\ x4'[e] \in {e, "nothing", "failed"}
               /\ x1'[e] # "idle" =>
                     /\ \A f \in Dialers : x1'[f] # "idle" => f = e
                     /\ x3' \subseteq {e} /\ x2' \in {NoText, e}
    <2>1. CASE e = d
      <3>1. T!Busy = {} /\ x3 = {}
        BY <1>1, <1>2, <2>1 DEF T!Begin
      <3> QED  BY <1>1, <1>2, <2>1, <3>1 DEF T!Begin, T!To, T!Busy
    <2>2. CASE e # d
      <3>1. e \notin x5 /\ x1[e] = "idle"
        BY <1>1, <1>2, <2>2 DEF T!Begin, T!Busy
      <3> QED  BY <1>1, <1>2, <2>2, <3>1 DEF T!Begin, T!To, DialsApart
    <2> QED  BY <2>1, <2>2
  <1>3. ASSUME NEW d \in Dialers,
               T!Charset(d) \/ T!Send(d) \/ T!Timeout(d) \/ T!Halted(d) \/ T!CancelUSSD(d)
        PROVE  /\ x4'[e] \in {e, "nothing", "failed"}
               /\ x1'[e] # "idle" =>
                     /\ \A f \in Dialers : x1'[f] # "idle" => f = e
                     /\ x3' \subseteq {e} /\ x2' \in {NoText, e}
    BY <1>1, <1>3
       DEF T!Charset, T!Send, T!Timeout, T!Halted, T!CancelUSSD, T!To, T!Returns, DialsApart
  <1>4. ASSUME NEW d \in Dialers, T!Take(d) \/ T!Answers(d)
        PROVE  /\ x4'[e] \in {e, "nothing", "failed"}
               /\ x1'[e] # "idle" =>
                     /\ \A f \in Dialers : x1'[f] # "idle" => f = e
                     /\ x3' \subseteq {e} /\ x2' \in {NoText, e}
    BY <1>1, <1>4 DEF T!Take, T!Answers, T!To, T!Returns, T!Dispatch, DialsApart
  <1>5. CASE T!Speaks
    BY <1>1, <1>5 DEF T!Speaks, T!Dispatch, T!Busy, DialsApart
  <1>6. CASE T!Stop
    BY <1>1, <1>6 DEF T!Stop, DialsApart
  <1> QED  BY <1>2, <1>3, <1>4, <1>5, <1>6 DEF T!Next

LEMMA DialTyped == ASSUME DialInv  PROVE T!TypeOK /\ T!AnswersAreOwn
  BY DEF DialInv, DialsApart, T!AnswersAreOwn
-----------------------------------------------------------------------------
(* USSD over QMI *)

UssdEvent == {"result", "error", "release"} \X (1..MaxUssd)
UssdSlot == {<<>>} \cup {<<n>> : n \in 1..MaxUssd}
UssdSession == [n : 0..MaxUssd, answered : BOOLEAN]
UssdTypes ==
    /\ x1 \in [n : 0..MaxUssd, at : {"idle", "prepare", "originate", "wait"}]
    /\ x2 \in BOOLEAN /\ x11 \in BOOLEAN /\ x10 \in 0..MaxUssd
    /\ x3 \in UssdSlot /\ x4 \in UssdSlot /\ x5 \in UssdSlot
    /\ x7 \in UssdSession
    /\ x8 \in Seq(UssdEvent)

\* The last command that the modem, the callbacks and the channels can know of.
Sent == IF x1.at \in {"prepare", "originate"} THEN x1.n - 1 ELSE x1.n
UssdCounted ==
    /\ x7.n <= Sent
    /\ \A i \in 1..Len(x8) : x8[i][2] <= Sent
    /\ \A n \in 1..MaxUssd : <<n>> \in {x3, x4, x5} => n <= Sent

\* After a session's release nothing of it comes any more.
ReleaseIsLast ==
    /\ \A i, j \in 1..Len(x8) : i < j /\ x8[i][1] = "release" => x8[j][2] # x8[i][2]
    /\ \A i \in 1..Len(x8) : x8[i][1] = "release" => x7.n # x8[i][2]
    /\ \A n \in 1..MaxUssd : x5 = <<n>> =>
          x7.n # n /\ \A i \in 1..Len(x8) : x8[i][2] # n

\* A session is answered once.
AnsweredOnce ==
    /\ \A i, j \in 1..Len(x8) :
          i < j /\ x8[i][1] # "release" /\ x8[j][1] # "release" => x8[j][2] # x8[i][2]
    /\ \A i \in 1..Len(x8) : x8[i][1] # "release" /\ x7.n = x8[i][2] => x7.answered
    /\ \A n \in 1..MaxUssd : <<n>> \in {x3, x4} =>
          /\ x7.n = n => x7.answered
          /\ \A i \in 1..Len(x8) : x8[i][1] # "release" => x8[i][2] # n

\* An answer of the modem that is still to come is of the command under way, or of
\* the one whose release is waited for.
ComesFrom(n) ==
    /\ x1.at # "idle" => n = x1.n
    /\ x1.at = "idle" => x2 /\ n = x10
AnswersAhead == \A i \in 1..Len(x8) : x8[i][1] # "release" => ComesFrom(x8[i][2])
AnswersExpected ==
    ~x11 =>
      /\ x1.at # "idle" => ~x2
      /\ x7.n # 0 /\ ~x7.answered => ComesFrom(x7.n)
      /\ AnswersAhead
      /\ x1.at # "idle" => \A n \in 1..MaxUssd : <<n>> \in {x3, x4} => n = x1.n
      /\ x9.to = x9.of

UssdInv == UssdTypes /\ UssdCounted /\ ReleaseIsLast /\ AnsweredOnce /\ AnswersExpected

LEMMA SessionOf ==
  ASSUME NEW n \in 0..MaxUssd, NEW b \in BOOLEAN, NEW s, s = [n |-> n, answered |-> b]
  PROVE  s \in UssdSession /\ s.n = n /\ (s.answered <=> b)
  BY DEF UssdSession

LEMMA SessionAnswered ==
  ASSUME NEW s \in UssdSession, NEW b \in BOOLEAN, NEW t, t = [s EXCEPT !.answered = b]
  PROVE  t \in UssdSession /\ t.n = s.n /\ (t.answered <=> b)
  BY DEF UssdSession

LEMMA UssdInit == U!Init => UssdInv
  <1> SUFFICES ASSUME U!Init  PROVE UssdInv
    OBVIOUS
  <1>0. MaxUssd \in Nat
    BY TransportBounds
  <1>i. x8 = <<>> /\ x3 = <<>> /\ x4 = <<>> /\ x5 = <<>>
    BY DEF U!Init
  <1>1. x8 = <<>> /\ Len(x8) = 0 /\ x8 \in Seq(UssdEvent)
    BY <1>i
  <1>2. x3 = <<>> /\ x4 = <<>> /\ x5 = <<>>
    BY <1>i
  <1> DEFINE no == FALSE
  <1>n. no \in BOOLEAN /\ x7 = [n |-> 0, answered |-> no] /\ x2 = no /\ x11 = no /\ ~no
    BY DEF U!Init
  <1> HIDE DEF no
  <1>s. x7 \in UssdSession /\ x7.n = 0
    BY <1>0, <1>n, SessionOf
  <1>r. x1 = [n |-> 0, at |-> "idle"] /\ x10 = 0 /\ x9 = [to |-> 0, of |-> 0]
    BY DEF U!Init
  <1>c. x1 \in [n : 0..MaxUssd, at : {"idle", "prepare", "originate", "wait"}]
        /\ x1.n = 0 /\ x1.at = "idle" /\ x9.to = x9.of
    BY <1>0, <1>r
  <1>3. \A n \in 1..MaxUssd : <<n>> # <<>>
    OBVIOUS
  <1>4. UssdTypes
    BY <1>0, <1>1, <1>2, <1>n, <1>s, <1>r, <1>c DEF UssdTypes, UssdSlot
  <1>5. UssdCounted
    BY <1>0, <1>1, <1>2, <1>3, <1>s, <1>c DEF UssdCounted, Sent
  <1>6. ReleaseIsLast /\ AnsweredOnce
    BY <1>1, <1>2, <1>3 DEF ReleaseIsLast, AnsweredOnce
  <1>7. AnswersExpected
    BY <1>1, <1>2, <1>3, <1>s, <1>c DEF AnswersExpected, AnswersAhead
  <1> QED  BY <1>4, <1>5, <1>6, <1>7 DEF UssdInv

LEMMA SlotIs ==
  ASSUME NEW s \in UssdSlot
  PROVE  /\ s # <<>> => s[1] \in 1..MaxUssd /\ s = <<s[1]>>
         /\ \A n \in 1..MaxUssd : s = <<n>> => s # <<>> /\ s[1] = n
  BY DEF UssdSlot

\* What takes the channels, sends or gives up, and leaves the events on their way.
LEMMA UssdExecutes ==
  ASSUME UssdInv, U!Execute  PROVE UssdInv'
  <1>0. MaxUssd \in Nat /\ \A n \in 1..MaxUssd : <<n>> # <<>>
    BY TransportBounds
  <1>1. /\ x3' = <<>> /\ x4' = <<>> /\ x5' = <<>> /\ x7' = x7 /\ x8' = x8 /\ x9' = x9
        /\ x10' = x10 /\ x2' = (x2 /\ x5 = <<>>)
        /\ x1.at = "idle" /\ x1'.n = x1.n + 1 /\ x1.n < MaxUssd
        /\ x1'.at = IF x2' THEN "idle" ELSE "prepare"
        /\ x11' = (x11 \/ (x2 /\ x5 # <<>> /\ x5 # <<x10>>))
    BY DEF U!Execute
  <1>2. UssdTypes'
    BY <1>0, <1>1 DEF U!Execute, UssdInv, UssdTypes, UssdSlot
  <1>3. UssdCounted'
    <2>1. Sent = x1.n /\ Sent' = x1'.n + (IF x2' THEN 0 ELSE 0 - 1) /\ x1.n \in Nat
      BY <1>0, <1>1 DEF UssdInv, UssdTypes, Sent
    <2>2. Sent <= Sent' /\ Sent \in Int /\ Sent' \in Int
      BY <1>1, <2>1
    <2>3. \A i \in 1..Len(x8) : x8[i] \in UssdEvent /\ x8[i][2] \in Int
      BY <1>0 DEF UssdInv, UssdTypes, UssdEvent
    <2>4. x7.n \in Int
      BY DEF UssdInv, UssdTypes, UssdSession
    <2> QED  BY <1>0, <1>1, <2>2, <2>3, <2>4 DEF UssdInv, UssdCounted
  <1>4. ReleaseIsLast' /\ AnsweredOnce'
    BY <1>0, <1>1 DEF UssdInv, ReleaseIsLast, AnsweredOnce
  <1>5. AnswersExpected'
    <2>1. SUFFICES ASSUME ~x11'  PROVE AnswersExpected'
      BY DEF AnswersExpected
    <2>2. ~x11 /\ (x2 /\ x5 # <<>> => x5 = <<x10>>)
      BY <1>1, <2>1
    <2>3. CASE x2 /\ x5 # <<>>
      <3>1. x10 \in 1..MaxUssd /\ x5 = <<x10>>
        BY <2>2, <2>3, SlotIs DEF UssdInv, UssdTypes
      <3>2. x7.n # x10 /\ \A i \in 1..Len(x8) : x8[i][2] # x10
        BY <3>1 DEF UssdInv, ReleaseIsLast
      <3>3. (x7.n = 0 \/ x7.answered) /\ \A i \in 1..Len(x8) : x8[i][1] = "release"
        BY <1>1, <2>2, <3>2 DEF UssdInv, AnswersExpected, AnswersAhead, ComesFrom
      <3> QED  BY <1>0, <1>1, <2>2, <2>3, <3>3 DEF UssdInv, AnswersExpected, AnswersAhead, ComesFrom
    <2>4. CASE x2 /\ x5 = <<>>
      BY <1>0, <1>1, <2>2, <2>4 DEF UssdInv, AnswersExpected, AnswersAhead, ComesFrom
    <2>5. CASE ~x2
      <3>3. (x7.n = 0 \/ x7.answered) /\ \A i \in 1..Len(x8) : x8[i][1] = "release"
        BY <1>1, <2>2, <2>5 DEF UssdInv, AnswersExpected, AnswersAhead, ComesFrom
      <3> QED  BY <1>0, <1>1, <2>2, <2>5, <3>3 DEF UssdInv, AnswersExpected, AnswersAhead, ComesFrom
    <2> QED  BY <2>3, <2>4, <2>5
  <1> QED  BY <1>2, <1>3, <1>4, <1>5 DEF UssdInv

LEMMA UssdSends ==
  ASSUME UssdInv, U!Prepare \/ U!Originate  PROVE UssdInv'
  <1>0. MaxUssd \in Nat
    BY TransportBounds
  <1>1. /\ x3' = x3 /\ x4' = x4 /\ x5' = x5 /\ x8' = x8
        /\ x1'.n = x1.n /\ x1.at \in {"prepare", "originate"} /\ x1' = [x1 EXCEPT !.at = x1'.at]
    BY DEF U!Prepare, U!Originate, U!Goes, U!GivesUp, U!channels, UssdInv, UssdTypes
  <1>o. ASSUME U!Originate, x7' # x7
        PROVE  /\ x7 \in UssdSession /\ x7.n = 0 /\ x7' \in UssdSession /\ x7'.n = x1.n
               /\ x1'.at = "wait" \/ x7'.answered \/ x11' \/ (x2' /\ x10' = x1.n)
    <2>1. x1.n \in 0..MaxUssd /\ x7 \in UssdSession
      BY DEF UssdInv, UssdTypes
    <2> DEFINE no == FALSE  yes == TRUE
    <2>2. no \in BOOLEAN /\ yes \in BOOLEAN /\ yes
      OBVIOUS
    <2>3. \/ x7' = [n |-> x1.n, answered |-> no]
             /\ (x1'.at = "wait" \/ x11' \/ (x2' /\ x10' = x1.n))
          \/ x7' = [n |-> x1.n, answered |-> yes]
      BY <1>o, <1>1 DEF U!Originate, U!Opened, U!Goes, U!GivesUp, UssdInv, UssdTypes
    <2>4. x7.n = 0
      BY <1>o DEF U!Originate, U!Opened
    <2> HIDE DEF no, yes
    <2> QED  BY <2>1, <2>2, <2>3, <2>4, SessionOf
  <1>2. /\ x7' = x7 \/ (U!Originate /\ x7.n = 0 /\ x7'.n = x1.n)
        /\ U!Originate => x1'.at \in {"wait", "idle"}
        /\ U!Prepare => x1'.at = "originate"
    <2>1. U!Prepare => x7' = x7
      BY DEF U!Prepare
    <2>2. U!Originate => x1'.at \in {"wait", "idle"}
      BY DEF U!Originate, U!Goes, U!GivesUp, UssdInv, UssdTypes
    <2>3. U!Prepare => x1'.at = "originate"
      BY DEF U!Prepare, U!Goes, UssdInv, UssdTypes
    <2> QED  BY <1>o, <2>1, <2>2, <2>3
  <1>3. UssdTypes'
    <2>1. x1' \in [n : 0..MaxUssd, at : {"idle", "prepare", "originate", "wait"}]
      BY <1>1, <1>2 DEF UssdInv, UssdTypes, U!Goes
    <2>2. x2' \in BOOLEAN
      BY DEF U!Prepare, U!Originate, U!GivesUp, UssdInv, UssdTypes
    <2>3. x11' \in BOOLEAN
      BY DEF U!Prepare, U!Originate, U!GivesUp, UssdInv, UssdTypes
    <2>4. x10' \in 0..MaxUssd
      BY DEF U!Prepare, U!Originate, U!GivesUp, UssdInv, UssdTypes
    <2>5. x7' \in UssdSession
      BY <1>o DEF U!Prepare, UssdInv, UssdTypes
    <2> QED  BY <1>1, <2>1, <2>2, <2>3, <2>4, <2>5 DEF UssdInv, UssdTypes
  <1>4. Sent = x1.n - 1 /\ (U!Prepare => Sent' = Sent) /\ (U!Originate => Sent' = x1.n)
    BY <1>1, <1>2 DEF Sent
  <1>5. UssdCounted'
    <2>1. x7'.n <= Sent'
      <3>1. x7.n \in Int /\ x1.n \in Int
        BY <1>0 DEF UssdInv, UssdTypes, UssdSession
      <3> QED  BY <1>2, <1>4, <3>1, <1>1 DEF UssdInv, UssdCounted
    <2>2. Sent <= Sent' /\ Sent \in Int /\ Sent' \in Int
      BY <1>0, <1>4 DEF UssdInv, UssdTypes
    <2>3. \A i \in 1..Len(x8) : x8[i] \in UssdEvent /\ x8[i][2] \in Int
      BY <1>0 DEF UssdInv, UssdTypes, UssdEvent
    <2>4. \A i \in 1..Len(x8) : x8[i][2] <= Sent'
      BY <2>2, <2>3 DEF UssdInv, UssdCounted
    <2>5. \A n \in 1..MaxUssd : <<n>> \in {x3, x4, x5} => n <= Sent'
      BY <2>2 DEF UssdInv, UssdCounted
    <2> QED  BY <1>1, <2>1, <2>4, <2>5 DEF UssdCounted
  <1>6. \A i \in 1..Len(x8) : x8[i] \in UssdEvent /\ x8[i][2] \in Int /\ x8[i][2] # x1.n
                              /\ x8[i][2] # 0
    BY <1>0, <1>4 DEF UssdInv, UssdTypes, UssdCounted, UssdEvent
  <1>7. \A n \in 1..MaxUssd : <<n>> \in {x3, x4, x5} => n # x1.n /\ n # 0
    BY <1>0, <1>4 DEF UssdInv, UssdTypes, UssdCounted
  <1>8. ReleaseIsLast'
    BY <1>1, <1>2, <1>6, <1>7 DEF UssdInv, ReleaseIsLast
  <1>9. AnsweredOnce'
    BY <1>1, <1>2, <1>6, <1>7 DEF UssdInv, AnsweredOnce
  <1>10. AnswersExpected'
    <2>1. SUFFICES ASSUME ~x11'  PROVE AnswersExpected'
      BY DEF AnswersExpected
    <2>2. ~x11
      BY <2>1 DEF U!Prepare, U!Originate, UssdInv, UssdTypes
    <2>3. /\ \A i \in 1..Len(x8) : x8[i][1] = "release"
          /\ \A n \in 1..MaxUssd : <<n>> \notin {x3, x4}
          /\ x7.n = 0 \/ x7.answered
      <3>1. x1.at # "idle"
        BY <1>1
      <3>2. x7.n # x1.n
        BY <1>0, <1>4 DEF UssdInv, UssdTypes, UssdCounted
      <3> QED  BY <2>2, <3>1, <3>2, <1>6, <1>7 DEF UssdInv, AnswersExpected, AnswersAhead, ComesFrom
    <2>4. CASE U!Prepare
      BY <1>1, <1>2, <2>2, <2>3, <2>4 DEF U!Prepare, UssdInv, AnswersExpected, AnswersAhead, ComesFrom
    <2>5. CASE U!Originate
      <3>1. x9'.to = x9'.of
        BY <2>2, <2>5 DEF U!Originate, UssdInv, AnswersExpected
      <3>2. ~x2
        BY <1>1, <2>2 DEF UssdInv, AnswersExpected
      <3>3. x1'.at # "idle" => ~x2'
        BY <2>5, <3>2, <1>1 DEF U!Originate, U!GivesUp, U!Goes, UssdInv, UssdTypes
      <3>4. (x7.n # 0 /\ ~x7.answered => ComesFrom(x7.n))'
        BY <1>o, <1>1, <1>2, <2>1, <2>3, <2>5 DEF ComesFrom
      <3> QED  BY <1>1, <2>3, <3>1, <3>3, <3>4 DEF AnswersExpected, AnswersAhead
    <2> QED  BY <2>4, <2>5
  <1> QED  BY <1>3, <1>5, <1>8, <1>9, <1>10 DEF UssdInv

LEMMA UssdTakes ==
  ASSUME UssdInv, U!TakeResult \/ U!TakeError \/ U!TakeRelease \/ U!ContextEnds
  PROVE  UssdInv'
  <1>0. MaxUssd \in Nat /\ \A n \in 1..MaxUssd : <<n>> # <<>>
    BY TransportBounds
  <1>1. /\ x7' = x7 /\ x8' = x8 /\ x1.at = "wait" /\ x1' = [x1 EXCEPT !.at = "idle"]
        /\ x3' \in {x3, <<>>} /\ x4' \in {x4, <<>>} /\ x5' \in {x5, <<>>}
    BY DEF U!TakeResult, U!TakeError, U!TakeRelease, U!ContextEnds, U!Goes, U!GivesUp, U!channels
  <1>2. x1'.n = x1.n /\ x1'.at = "idle" /\ Sent' = Sent
    BY <1>1 DEF UssdInv, UssdTypes, Sent
  <1>3. UssdTypes'
    <2>1. x2' \in BOOLEAN /\ x10' \in 0..MaxUssd
      BY DEF U!TakeResult, U!TakeError, U!TakeRelease, U!ContextEnds, U!GivesUp, UssdInv, UssdTypes
    <2>2. x11' \in BOOLEAN
      BY DEF U!TakeResult, U!TakeError, U!TakeRelease, U!ContextEnds, U!GivesUp, UssdInv, UssdTypes
    <2>3. x1' \in [n : 0..MaxUssd, at : {"idle", "prepare", "originate", "wait"}]
      BY <1>1 DEF UssdInv, UssdTypes
    <2> QED  BY <1>1, <2>1, <2>2, <2>3 DEF UssdInv, UssdTypes, UssdSlot
  <1>4. UssdCounted'
    BY <1>0, <1>1, <1>2 DEF UssdInv, UssdCounted
  <1>5. ReleaseIsLast' /\ AnsweredOnce'
    BY <1>0, <1>1 DEF UssdInv, ReleaseIsLast, AnsweredOnce
  <1>6. AnswersExpected'
    <2>1. SUFFICES ASSUME ~x11'  PROVE AnswersExpected'
      BY DEF AnswersExpected
    <2>2. ~x11
      BY <2>1 DEF U!TakeResult, U!TakeError, U!TakeRelease, U!ContextEnds, UssdInv, UssdTypes
    <2>3. /\ \A i \in 1..Len(x8) : x8[i][1] # "release" => x8[i][2] = x1.n
          /\ x7.n # 0 /\ ~x7.answered => x7.n = x1.n
          /\ \A n \in 1..MaxUssd : <<n>> \in {x3, x4} => n = x1.n
          /\ x9.to = x9.of
      BY <1>1, <2>2 DEF UssdInv, AnswersExpected, AnswersAhead, ComesFrom
    <2>4. CASE U!ContextEnds
      <3>1. x2' = TRUE /\ x10' = x1.n /\ x9' = x9
        BY <2>4 DEF U!ContextEnds, U!GivesUp
      <3> QED  BY <1>1, <1>2, <2>3, <3>1 DEF AnswersExpected, AnswersAhead, ComesFrom
    <2>5. ASSUME x7.n = 0 \/ x7.answered, \A i \in 1..Len(x8) : x8[i][1] = "release",
                 x9'.to = x9'.of
          PROVE  AnswersExpected'
      BY <1>1, <1>2, <2>5 DEF AnswersExpected, AnswersAhead
    <2>6. CASE U!TakeResult
      <3>1. x3 # <<>> /\ x9'.to = x1.n /\ x9'.of = x3[1]
        BY <2>6 DEF U!TakeResult
      <3>2. x3[1] \in 1..MaxUssd /\ <<x3[1]>> = x3 /\ x3[1] = x1.n
        BY <2>3, <3>1, SlotIs DEF UssdInv, UssdTypes
      <3>3. x7.n = 0 \/ x7.answered
        BY <2>3, <3>2 DEF UssdInv, AnsweredOnce
      <3>4. \A i \in 1..Len(x8) : x8[i][1] = "release"
        BY <2>3, <3>2 DEF UssdInv, AnsweredOnce
      <3> QED  BY <2>5, <3>1, <3>2, <3>3, <3>4
    <2>7. CASE U!TakeError
      <3>1. x4 # <<>> /\ x9' = x9
        BY <2>7 DEF U!TakeError
      <3>2. x4[1] \in 1..MaxUssd /\ <<x4[1]>> = x4 /\ x4[1] = x1.n
        BY <2>3, <3>1, SlotIs DEF UssdInv, UssdTypes
      <3>3. x7.n = 0 \/ x7.answered
        BY <2>3, <3>2 DEF UssdInv, AnsweredOnce
      <3>4. \A i \in 1..Len(x8) : x8[i][1] = "release"
        BY <2>3, <3>2 DEF UssdInv, AnsweredOnce
      <3> QED  BY <2>3, <2>5, <3>1, <3>2, <3>3, <3>4
    <2>8. CASE U!TakeRelease
      <3>1. x5 # <<>> /\ x9' = x9 /\ x5 = <<x1.n>>
        BY <2>1, <2>8 DEF U!TakeRelease
      <3>2. x1.n \in 1..MaxUssd
        BY <3>1, SlotIs DEF UssdInv, UssdTypes
      <3>3. x7.n # x1.n /\ \A i \in 1..Len(x8) : x8[i][2] # x1.n
        BY <3>1, <3>2 DEF UssdInv, ReleaseIsLast
      <3> QED  BY <2>3, <2>5, <3>1, <3>3
    <2> QED  BY <2>4, <2>6, <2>7, <2>8
  <1> QED  BY <1>3, <1>4, <1>5, <1>6 DEF UssdInv

LEMMA UssdCalls == ASSUME UssdInv, U!Callback  PROVE UssdInv'
  <1>0. MaxUssd \in Nat /\ \A n \in 1..MaxUssd : <<n>> # <<>>
    BY TransportBounds
  <1>1. /\ x8 \in Seq(UssdEvent) /\ x8 # <<>> /\ x8' = Tail(x8)
        /\ x1' = x1 /\ x2' = x2 /\ x7' = x7 /\ x9' = x9 /\ x10' = x10 /\ x11' = x11
    BY DEF U!Callback, UssdInv, UssdTypes
  <1>2. /\ Len(x8) \in Nat \ {0} /\ Len(x8') = Len(x8) - 1 /\ x8' \in Seq(UssdEvent)
        /\ \A i \in 1..Len(x8') : x8'[i] = x8[i + 1] /\ i + 1 \in 1..Len(x8) /\ 1 < i + 1
        /\ Head(x8) = x8[1] /\ 1 \in 1..Len(x8)
    BY <1>1
  <1> DEFINE e == x8[1]
  <1>3. e \in UssdEvent /\ e[1] \in {"result", "error", "release"} /\ e[2] \in 1..MaxUssd
    BY <1>1, <1>2 DEF UssdEvent
  <1>4. /\ x3' \in {x3, <<e[2]>>} /\ x4' \in {x4, <<e[2]>>} /\ x5' \in {x5, <<e[2]>>}
        /\ x3' # x3 => e[1] # "release"
        /\ x4' # x4 => e[1] # "release"
        /\ x5' # x5 => e[1] = "release"
    <2>1. /\ x3' = IF e[1] = "result" THEN U!Into(x3, e[2]) ELSE x3
          /\ x4' = IF e[1] = "error" THEN U!Into(x4, e[2]) ELSE x4
          /\ x5' = IF e[1] = "release" THEN U!Into(x5, e[2]) ELSE x5
      BY <1>2 DEF U!Callback
    <2> QED  BY <2>1 DEF U!Into
  <1>e. \A n \in 1..MaxUssd : <<n>> = <<e[2]>> => n = e[2]
    OBVIOUS
  <1> HIDE DEF e
  <1>5. UssdTypes'
    <2>1. <<e[2]>> \in UssdSlot
      BY <1>3 DEF UssdSlot
    <2> QED  BY <1>1, <1>2, <1>4, <2>1 DEF UssdInv, UssdTypes
  <1>6. UssdCounted'
    <2>1. Sent' = Sent /\ e[2] <= Sent
      BY <1>1, <1>2 DEF Sent, UssdInv, UssdCounted, e
    <2> QED  BY <1>1, <1>2, <1>4, <1>e, <2>1 DEF UssdInv, UssdCounted
  <1>7. ReleaseIsLast'
    <2>1. \A i, j \in 1..Len(x8') : i < j /\ x8'[i][1] = "release" => x8'[j][2] # x8'[i][2]
      <3>1. SUFFICES ASSUME NEW i \in 1..Len(x8'), NEW j \in 1..Len(x8'), i < j,
                            x8'[i][1] = "release"
                     PROVE  x8'[j][2] # x8'[i][2]
        OBVIOUS
      <3>2. i + 1 < j + 1 /\ x8'[i] = x8[i + 1] /\ x8'[j] = x8[j + 1]
            /\ i + 1 \in 1..Len(x8) /\ j + 1 \in 1..Len(x8)
        BY <1>2, <3>1
      <3> QED  BY <3>1, <3>2 DEF UssdInv, ReleaseIsLast
    <2>2. \A i \in 1..Len(x8') : x8'[i][1] = "release" => x7.n # x8'[i][2]
      BY <1>2 DEF UssdInv, ReleaseIsLast
    <2>3. ASSUME NEW n \in 1..MaxUssd, x5' = <<n>>
          PROVE  x7.n # n /\ \A i \in 1..Len(x8') : x8'[i][2] # n
      <3>1. CASE x5' = x5
        BY <1>2, <2>3, <3>1 DEF UssdInv, ReleaseIsLast
      <3>2. CASE x5' # x5
        <4>1. n = e[2] /\ e[1] = "release"
          BY <1>4, <1>e, <2>3, <3>2
        <4> QED  BY <1>2, <4>1 DEF UssdInv, ReleaseIsLast, e
      <3> QED  BY <3>1, <3>2
    <2> QED  BY <1>1, <2>1, <2>2, <2>3 DEF ReleaseIsLast
  <1>8. AnsweredOnce'
    <2>1. \A i, j \in 1..Len(x8') :
             i < j /\ x8'[i][1] # "release" /\ x8'[j][1] # "release" => x8'[j][2] # x8'[i][2]
      <3>1. SUFFICES ASSUME NEW i \in 1..Len(x8'), NEW j \in 1..Len(x8'), i < j,
                            x8'[i][1] # "release", x8'[j][1] # "release"
                     PROVE  x8'[j][2] # x8'[i][2]
        OBVIOUS
      <3>a. x8'[i] = x8[i + 1] /\ i + 1 \in 1..Len(x8)
        BY <1>2
      <3>b. x8'[j] = x8[j + 1] /\ j + 1 \in 1..Len(x8)
        BY <1>2
      <3>c. Len(x8') \in Int
        BY <1>2
      <3>d. i + 1 < j + 1
        BY <3>1, <3>c
      <3>2. i + 1 < j + 1 /\ x8'[i] = x8[i + 1] /\ x8'[j] = x8[j + 1]
            /\ i + 1 \in 1..Len(x8) /\ j + 1 \in 1..Len(x8)
        BY <3>a, <3>b, <3>d
      <3>3. \A k, l \in 1..Len(x8) :
               k < l /\ x8[k][1] # "release" /\ x8[l][1] # "release" => x8[l][2] # x8[k][2]
        BY DEF UssdInv, AnsweredOnce
      <3> HIDE DEF e
      <3>4. x8[i + 1][1] # "release" /\ x8[j + 1][1] # "release"
        BY <3>1, <3>2
      <3>5. x8[j + 1][2] # x8[i + 1][2]
        BY <3>2, <3>3, <3>4
      <3> QED  BY <3>2, <3>5
    <2>2. \A i \in 1..Len(x8') : x8'[i][1] # "release" /\ x7.n = x8'[i][2] => x7.answered
      BY <1>2 DEF UssdInv, AnsweredOnce
    <2>3. ASSUME NEW n \in 1..MaxUssd, <<n>> \in {x3', x4'}
          PROVE  /\ x7.n = n => x7.answered
                 /\ \A i \in 1..Len(x8') : x8'[i][1] # "release" => x8'[i][2] # n
      <3>1. CASE <<n>> \in {x3, x4}
        BY <1>2, <3>1 DEF UssdInv, AnsweredOnce
      <3>2. CASE <<n>> \notin {x3, x4}
        <4>1. n = e[2] /\ e[1] # "release"
          BY <1>4, <1>e, <2>3, <3>2
        <4> QED  BY <1>2, <4>1 DEF UssdInv, AnsweredOnce, e
      <3> QED  BY <3>1, <3>2
    <2> QED  BY <1>1, <2>1, <2>2, <2>3 DEF AnsweredOnce
  <1>9. AnswersExpected'
    <2>1. SUFFICES ASSUME ~x11'  PROVE AnswersExpected'
      BY DEF AnswersExpected
    <2>2. ~x11 /\ ComesFrom(x7.n)' = ComesFrom(x7.n)
      BY <1>1, <2>1 DEF ComesFrom
    <2>3. AnswersAhead'
      BY <1>1, <1>2, <2>2 DEF UssdInv, AnswersExpected, AnswersAhead, ComesFrom
    <2>4. ASSUME x1.at # "idle", NEW n \in 1..MaxUssd, <<n>> \in {x3', x4'}
          PROVE  n = x1.n
      <3>1. CASE <<n>> \in {x3, x4}
        BY <2>2, <2>4, <3>1 DEF UssdInv, AnswersExpected
      <3>2. CASE <<n>> \notin {x3, x4}
        <4>1. n = e[2] /\ e[1] # "release"
          BY <1>4, <1>e, <2>4, <3>2
        <4> QED  BY <1>2, <2>2, <2>4, <4>1 DEF UssdInv, AnswersExpected, AnswersAhead, ComesFrom, e
      <3> QED  BY <3>1, <3>2
    <2> QED  BY <1>1, <2>2, <2>3, <2>4 DEF UssdInv, AnswersExpected, AnswersAhead, ComesFrom
  <1> QED  BY <1>5, <1>6, <1>7, <1>8, <1>9 DEF UssdInv

LEMMA UssdModem ==
  ASSUME UssdInv, U!ModemAnswers \/ U!ModemReleases  PROVE UssdInv'
  <1>0. MaxUssd \in Nat
    BY TransportBounds
  <1>1. PICK what \in {"result", "error", "release"} :
          /\ x7.n # 0 /\ x8' = Append(x8, <<what, x7.n>>)
          /\ what # "release" => ~x7.answered /\ x7' = [x7 EXCEPT !.answered = TRUE]
          /\ what = "release" => x7' = [n |-> 0, answered |-> FALSE]
    BY DEF U!ModemAnswers, U!ModemReleases
  <1>2. /\ x1' = x1 /\ x2' = x2 /\ x3' = x3 /\ x4' = x4 /\ x5' = x5 /\ x9' = x9
        /\ x10' = x10 /\ x11' = x11
    BY DEF U!ModemAnswers, U!ModemReleases, U!channels
  <1> DEFINE e == <<what, x7.n>>
  <1>3. e \in UssdEvent /\ e[1] = what /\ e[2] = x7.n /\ x7.n \in 1..MaxUssd
    BY <1>0, <1>1 DEF UssdInv, UssdTypes, UssdEvent, UssdSession
  <1> HIDE DEF e
  <1>4. x8 \in Seq(UssdEvent) /\ x8' = Append(x8, e)
    BY <1>1 DEF UssdInv, UssdTypes, e
  <1>5. /\ Len(x8) \in Nat /\ Len(x8') = Len(x8) + 1 /\ x8' \in Seq(UssdEvent)
        /\ \A i \in 1..Len(x8') : \/ i \in 1..Len(x8) /\ x8'[i] = x8[i]
                                  \/ i = Len(x8) + 1 /\ x8'[i] = e
    BY <1>3, <1>4
  <1>6. /\ what # "release" => x7'.n = x7.n /\ x7'.answered /\ ~x7.answered
        /\ what = "release" => x7'.n = 0 /\ ~x7'.answered
        /\ x7' \in UssdSession
    <2> DEFINE no == FALSE  yes == TRUE
    <2>2. no \in BOOLEAN /\ yes \in BOOLEAN /\ yes /\ ~no
      OBVIOUS
    <2>3. x7 \in UssdSession /\ 0 \in 0..MaxUssd
      BY <1>0 DEF UssdInv, UssdTypes
    <2>4. /\ what # "release" => ~x7.answered /\ x7' = [x7 EXCEPT !.answered = yes]
          /\ what = "release" => x7' = [n |-> 0, answered |-> no]
      BY <1>1
    <2> HIDE DEF no, yes
    <2> QED  BY <2>2, <2>3, <2>4, SessionOf, SessionAnswered
  <1>7. UssdTypes'
    BY <1>2, <1>5, <1>6 DEF UssdInv, UssdTypes
  <1>8. UssdCounted'
    <2>1. Sent' = Sent /\ x7.n <= Sent
      BY <1>2 DEF Sent, UssdInv, UssdCounted
    <2>2. x7'.n <= Sent
      BY <1>0, <1>3, <1>6, <2>1 DEF UssdInv, UssdTypes, Sent
    <2> QED  BY <1>2, <1>3, <1>5, <2>1, <2>2 DEF UssdInv, UssdCounted
  <1>e. \A i \in 1..Len(x8) : x8[i] \in UssdEvent /\ x8[i][2] \in 1..MaxUssd
    BY <1>4 DEF UssdEvent
  <1>9. ReleaseIsLast'
    <2>1. \A i \in 1..Len(x8) : x8[i][1] = "release" => x8[i][2] # x7.n /\ x8[i][2] # x7'.n
      BY <1>0, <1>3, <1>6, <1>e DEF UssdInv, ReleaseIsLast
    <2>2. \A i, j \in 1..Len(x8') : i < j /\ x8'[i][1] = "release" => x8'[j][2] # x8'[i][2]
      <3>1. SUFFICES ASSUME NEW i \in 1..Len(x8'), NEW j \in 1..Len(x8'), i < j,
                            x8'[i][1] = "release"
                     PROVE  x8'[j][2] # x8'[i][2]
        OBVIOUS
      <3>2. i \in 1..Len(x8) /\ x8'[i] = x8[i]
        BY <1>5, <3>1
      <3> QED  BY <1>3, <1>5, <2>1, <3>1, <3>2 DEF UssdInv, ReleaseIsLast
    <2>3. \A i \in 1..Len(x8') : x8'[i][1] = "release" => x7'.n # x8'[i][2]
      BY <1>3, <1>5, <1>6, <2>1
    <2>4. \A n \in 1..MaxUssd : x5 = <<n>> =>
             x7'.n # n /\ \A i \in 1..Len(x8') : x8'[i][2] # n
      BY <1>3, <1>5, <1>6 DEF UssdInv, ReleaseIsLast
    <2> QED  BY <1>2, <2>2, <2>3, <2>4 DEF ReleaseIsLast
  <1>10. AnsweredOnce'
    <2>1. what # "release" => \A i \in 1..Len(x8) : x8[i][1] # "release" => x8[i][2] # x7.n
      BY <1>6 DEF UssdInv, AnsweredOnce
    <2>2. \A i, j \in 1..Len(x8') :
             i < j /\ x8'[i][1] # "release" /\ x8'[j][1] # "release" => x8'[j][2] # x8'[i][2]
      <3>1. SUFFICES ASSUME NEW i \in 1..Len(x8'), NEW j \in 1..Len(x8'), i < j,
                            x8'[i][1] # "release", x8'[j][1] # "release"
                     PROVE  x8'[j][2] # x8'[i][2]
        OBVIOUS
      <3>2. i \in 1..Len(x8) /\ x8'[i] = x8[i]
        BY <1>5, <3>1
      <3> QED  BY <1>3, <1>5, <2>1, <3>1, <3>2 DEF UssdInv, AnsweredOnce
    <2>3. \A i \in 1..Len(x8') : x8'[i][1] # "release" /\ x7'.n = x8'[i][2] => x7'.answered
      BY <1>0, <1>3, <1>5, <1>6, <1>e DEF UssdInv, AnsweredOnce
    <2>4. \A n \in 1..MaxUssd : <<n>> \in {x3, x4} =>
             /\ x7'.n = n => x7'.answered
             /\ \A i \in 1..Len(x8') : x8'[i][1] # "release" => x8'[i][2] # n
      BY <1>3, <1>5, <1>6 DEF UssdInv, AnsweredOnce
    <2> QED  BY <1>2, <2>2, <2>3, <2>4 DEF AnsweredOnce
  <1>11. AnswersExpected'
    <2>1. SUFFICES ASSUME ~x11'  PROVE AnswersExpected'
      BY DEF AnswersExpected
    <2>0. ~x11 /\ (what # "release" => x7.n # 0 /\ ~x7.answered)
      BY <1>0, <1>2, <1>3, <1>6, <2>1
    <2>2. AnswersAhead'
      BY <1>2, <1>3, <1>5, <2>0 DEF UssdInv, AnswersExpected, AnswersAhead, ComesFrom
    <2>3. x7'.n = 0 \/ x7'.answered
      BY <1>6
    <2> QED  BY <1>2, <2>1, <2>2, <2>3 DEF UssdInv, AnswersExpected
  <1> QED  BY <1>7, <1>8, <1>9, <1>10, <1>11 DEF UssdInv

LEMMA UssdNext == ASSUME UssdInv, U!Next  PROVE UssdInv'
  BY UssdExecutes, UssdSends, UssdTakes, UssdCalls, UssdModem DEF U!Next

LEMMA UssdTyped == ASSUME UssdInv  PROVE U!TypeOK /\ U!AnswersAreOwn
  BY DEF UssdInv, UssdTypes, UssdSession, AnswersExpected, U!TypeOK, U!AnswersAreOwn
-----------------------------------------------------------------------------
(* Commands to the MBIM device *)

MbimTx == 0..MaxCommands
MbimFragment == [tx : MbimTx, i : 0..1]
MbimAnswer(t) == <<D!Fragment(t, 0), D!Fragment(t, 1)>>
MbimBox == {<<>>, <<D!Error>>} \cup {<<MbimAnswer(t)>> : t \in MbimTx}
MbimCollected == {<<>>} \cup {<<D!Fragment(t, 0)>> : t \in MbimTx}
MbimTypes ==
    /\ D!TypeOK
    /\ x4 \in [Callers -> MbimTx] /\ x5 \in [Callers -> 0..2] /\ DOMAIN x8 = Callers
    /\ x8 \in [Callers -> {<<>>, D!Error} \cup {MbimAnswer(t) : t \in MbimTx}]
    /\ x7 \in [D!Txs -> MbimBox] /\ x10 \in [MbimTx -> MbimCollected]
    /\ x13 \in Seq(MbimFragment) /\ x14 \in Seq(MbimFragment)
    /\ x15 \in MbimTx \X (0..2)

\* A transaction is waited for before it is answered, and each answer is whole.
TransactionsKept ==
    /\ \A c \in Callers : x3[c] # "idle" => x4[c] \in 1..x1
    /\ x6 \subseteq 1..x1
    /\ \A t \in D!Txs : t \in x6 \/ t > x1 => x7[t] = <<>>
    /\ \A t \in D!Txs : x7[t] \in {<<>>, <<D!Error>>, <<MbimAnswer(t)>>}
    /\ \A t \in MbimTx : x10[t] \in {<<>>, <<D!Fragment(t, 0)>>}
    /\ \A c \in Callers : x8[c] \in {<<>>, D!Error, MbimAnswer(x4[c])}

\* One command is written at a time, and what was written last is its first part.
WritersApart ==
    /\ \A c \in Callers : x3[c] = "lock" => x5[c] = 0
    /\ \A c \in Callers : x3[c] = "write" => x2 = c /\ x5[c] \in 0..1
    /\ \A c \in Callers : x3[c] = "write" /\ x5[c] = 1 /\ Len(x13) > 0 =>
          x13[Len(x13)] = D!Fragment(x4[c], 0)
InOnePiece ==
    \A i \in 1..Len(x13) - 1 :
        x13[i].i = 0 /\ x13[i + 1].i = 1 => x13[i].tx = x13[i + 1].tx

MbimInv == MbimTypes /\ TransactionsKept /\ WritersApart /\ InOnePiece

LEMMA MbimNat ==
  /\ MaxCommands \in Nat /\ Room \in Nat /\ "nobody" \notin Callers /\ D!None = "nobody"
  /\ D!Txs = 1..MaxCommands /\ D!Txs \subseteq MbimTx /\ {D!Indication} \cup D!Txs = MbimTx
  /\ D!Fragments = 2 /\ D!Indication = 0
  BY TransportBounds, CallersAssumption
     DEF D!None, D!Txs, MbimTx, D!Indication, D!Fragments

LEMMA MbimInit == D!Init => MbimInv
  <1> SUFFICES ASSUME D!Init  PROVE MbimInv
    OBVIOUS
  <1> USE MbimNat
  <1>1. /\ x1 = 0 /\ x2 = "nobody" /\ x3 = [c \in Callers |-> "idle"]
        /\ x4 = [c \in Callers |-> 0] /\ x5 = [c \in Callers |-> 0]
        /\ x6 = {} /\ x8 = [c \in Callers |-> <<>>]
    BY DEF D!Init
  <1>2. /\ x7 = [t \in D!Txs |-> <<>>] /\ x10 = [t \in MbimTx |-> <<>>]
    BY DEF D!Init, D!NoCollector
  <1>3. /\ x11 = 0 /\ x13 = <<>> /\ x14 = <<>> /\ x15 = <<0, 0>>
    BY DEF D!Init
  <1>4. D!TypeOK
    BY <1>1, <1>3 DEF D!TypeOK
  <1>5. x13 \in Seq(MbimFragment) /\ x14 \in Seq(MbimFragment) /\ Len(x13) = 0
    BY <1>3
  <1>6. x15 \in MbimTx \X (0..2)
    BY <1>3 DEF MbimTx
  <1>7. x7 \in [D!Txs -> MbimBox] /\ x10 \in [MbimTx -> MbimCollected]
    BY <1>2 DEF MbimBox, MbimCollected
  <1>8. x4 \in [Callers -> MbimTx] /\ x5 \in [Callers -> 0..2]
    BY <1>1 DEF MbimTx
  <1>9. MbimTypes
    BY <1>1, <1>4, <1>5, <1>6, <1>7, <1>8 DEF MbimTypes
  <1>10. TransactionsKept
    BY <1>1, <1>2 DEF TransactionsKept
  <1>11. WritersApart /\ InOnePiece
    BY <1>1, <1>5 DEF WritersApart, InOnePiece
  <1> QED  BY <1>9, <1>10, <1>11 DEF MbimInv

\* What a caller does with its own transaction.
LEMMA CallerMoves ==
  ASSUME NEW X, NEW f \in [Callers -> X], NEW c \in Callers, NEW v \in X, NEW g,
         g = [f EXCEPT ![c] = v]
  PROVE  /\ g \in [Callers -> X] /\ g[c] = v
         /\ \A d \in Callers : d # c => g[d] = f[d]
  OBVIOUS

LEMMA OneItem ==
  ASSUME NEW q, NEW a, q = <<a>>
  PROVE  Head(q) = a /\ Tail(q) = <<>> /\ Len(q) = 1
  <1>1. Head(<<a>>) = a /\ Len(<<a>>) = 1
    OBVIOUS
  <1>2. Tail(<<a>>) = <<>>
    OBVIOUS
  <1> QED  BY <1>1, <1>2

LEMMA TwoItems ==
  ASSUME NEW X, NEW a \in X, NEW b \in X
  PROVE  Append(<<a>>, b) = <<a, b>>
  <1>1. <<a>> \in Seq(X) /\ Len(<<a>>) = 1 /\ <<a>>[1] = a
    OBVIOUS
  <1> DEFINE p == Append(<<a>>, b)
  <1>3. p \in Seq(X) /\ Len(p) = 2 /\ p[1] = a /\ p[2] = b
    BY <1>1
  <1>4. \A q \in Seq(X) : Len(q) = 2 => q = <<q[1], q[2]>>
    OBVIOUS
  <1> HIDE DEF p
  <1>5. p = <<a, b>>
    BY <1>3, <1>4
  <1> QED  BY <1>5 DEF p

LEMMA FewItems == ASSUME NEW n, n \in {0, 1}  PROVE n \in Int /\ n <= 1
  <1>1. n = 0 \/ n = 1
    OBVIOUS
  <1>2. n \in Int
    BY <1>1
  <1> QED  BY <1>1, <1>2


LEMMA MbimBegins ==
  ASSUME MbimInv, NEW c \in Callers, D!Begin(c)  PROVE MbimInv'
  <1> USE MbimNat
  <1>1. /\ x3[c] = "idle" /\ x1 < MaxCommands /\ x1' = x1 + 1
        /\ x4' = [x4 EXCEPT ![c] = x1 + 1] /\ x5' = [x5 EXCEPT ![c] = 0]
        /\ x6' = x6 \cup {x1 + 1} /\ x8' = [x8 EXCEPT ![c] = <<>>]
        /\ x3' = [x3 EXCEPT ![c] = "lock"]
        /\ UNCHANGED <<x2, x7, x9, x10, x11, x12, x13, x14, x15, x16>>
    BY DEF D!Begin, D!Goes
  <1>2. x1 \in Nat /\ x1' \in 0..MaxCommands /\ x1' \in D!Txs /\ x1' \in MbimTx
    BY <1>1 DEF MbimInv, MbimTypes, D!TypeOK
  <1>3. /\ x3 \in [Callers -> {"idle", "lock", "write", "wait"}]
        /\ x4 \in [Callers -> MbimTx] /\ x5 \in [Callers -> 0..2]
        /\ x8 \in [Callers -> {<<>>, D!Error} \cup {MbimAnswer(t) : t \in MbimTx}]
        /\ x6 \subseteq 1..x1
    BY DEF MbimInv, MbimTypes, D!TypeOK, TransactionsKept
  <1>4. /\ x3' \in [Callers -> {"idle", "lock", "write", "wait"}]
        /\ x4' \in [Callers -> MbimTx] /\ x5' \in [Callers -> 0..2]
        /\ x8' \in [Callers -> {<<>>, D!Error} \cup {MbimAnswer(t) : t \in MbimTx}]
    BY <1>1, <1>2, <1>3
  <1>5. /\ x3'[c] = "lock" /\ x4'[c] = x1' /\ x5'[c] = 0 /\ x8'[c] = <<>>
        /\ \A d \in Callers : d # c => x3'[d] = x3[d] /\ x4'[d] = x4[d] /\ x5'[d] = x5[d]
                                       /\ x8'[d] = x8[d]
    BY <1>1, <1>3
  <1>6. MbimTypes'
    <2>1. x6' \subseteq D!Txs
      BY <1>1, <1>2 DEF MbimInv, MbimTypes, D!TypeOK
    <2> QED  BY <1>1, <1>2, <1>4, <2>1 DEF MbimInv, MbimTypes, D!TypeOK
  <1>7. TransactionsKept'
    <2>1. \A d \in Callers : x3'[d] # "idle" => x4'[d] \in 1..x1'
      BY <1>1, <1>2, <1>5 DEF MbimInv, TransactionsKept
    <2>2. x6' \subseteq 1..x1'
      BY <1>1, <1>2, <1>3
    <2>3. \A t \in D!Txs : t \in x6' \/ t > x1' => x7[t] = <<>>
      BY <1>1, <1>2 DEF MbimInv, TransactionsKept
    <2>4. \A d \in Callers : x8'[d] \in {<<>>, D!Error, MbimAnswer(x4'[d])}
      BY <1>5 DEF MbimInv, TransactionsKept
    <2> QED  BY <1>1, <2>1, <2>2, <2>3, <2>4 DEF MbimInv, TransactionsKept
  <1>8. WritersApart' /\ InOnePiece'
    BY <1>1, <1>5 DEF MbimInv, WritersApart, InOnePiece
  <1> QED  BY <1>6, <1>7, <1>8 DEF MbimInv

LEMMA MbimLocks ==
  ASSUME MbimInv, NEW c \in Callers, D!Lock(c)  PROVE MbimInv'
  <1> USE MbimNat
  <1>1. /\ x3[c] = "lock" /\ x2 = "nobody" /\ x2' = c
        /\ x3' = [x3 EXCEPT ![c] = "write"]
        /\ UNCHANGED <<x1, x4, x5, x6, x7, x8, x9, x10, x11, x12, x13, x14, x15, x16>>
    BY DEF D!Lock, D!Goes
  <1>2. x3 \in [Callers -> {"idle", "lock", "write", "wait"}]
    BY DEF MbimInv, MbimTypes, D!TypeOK
  <1>3. /\ x3' \in [Callers -> {"idle", "lock", "write", "wait"}] /\ x3'[c] = "write"
        /\ \A d \in Callers : d # c => x3'[d] = x3[d]
    BY <1>1, <1>2
  <1>4. MbimTypes'
    BY <1>1, <1>3 DEF MbimInv, MbimTypes, D!TypeOK
  <1>5. TransactionsKept'
    BY <1>1, <1>3 DEF MbimInv, TransactionsKept
  <1>6. WritersApart'
    BY <1>1, <1>3 DEF MbimInv, WritersApart
  <1>7. InOnePiece'
    BY <1>1 DEF MbimInv, InOnePiece
  <1> QED  BY <1>4, <1>5, <1>6, <1>7 DEF MbimInv

LEMMA MbimWrites ==
  ASSUME MbimInv, NEW c \in Callers, D!WriteFragment(c)  PROVE MbimInv'
  <1> USE MbimNat
  <1> DEFINE m == D!Fragment(x4[c], x5[c])
  <1>1. /\ x3[c] = "write" /\ x5[c] < 2
        /\ x5' = [x5 EXCEPT ![c] = @ + 1] /\ x13' = Append(x13, m)
        /\ \/ x5[c] + 1 = 2 /\ x2' = "nobody" /\ x3' = [x3 EXCEPT ![c] = "wait"]
           \/ x5[c] + 1 # 2 /\ x2' = x2 /\ x3' = x3
        /\ UNCHANGED <<x1, x4, x6, x7, x8, x9, x10, x11, x12, x14, x15, x16>>
    BY DEF D!WriteFragment, D!Goes
  <1>2. /\ x3 \in [Callers -> {"idle", "lock", "write", "wait"}]
        /\ x4 \in [Callers -> MbimTx] /\ x5 \in [Callers -> 0..2]
        /\ x13 \in Seq(MbimFragment)
    BY DEF MbimInv, MbimTypes, D!TypeOK
  <1>3. /\ x3' \in [Callers -> {"idle", "lock", "write", "wait"}]
        /\ x3'[c] = (IF x5[c] = 1 THEN "wait" ELSE "write")
        /\ \A d \in Callers : d # c => x3'[d] = x3[d]
        /\ x5' \in [Callers -> 0..2] /\ x5'[c] = x5[c] + 1
        /\ \A d \in Callers : d # c => x5'[d] = x5[d]
    BY <1>1, <1>2
  <1>4. m \in MbimFragment /\ m.tx = x4[c] /\ m.i = x5[c]
    BY <1>1, <1>2 DEF D!Fragment, MbimFragment
  <1>m. x5[c] = 0 => m = D!Fragment(x4[c], 0)
    OBVIOUS
  <1> HIDE DEF m
  <1>5. /\ x13' \in Seq(MbimFragment) /\ Len(x13') = Len(x13) + 1 /\ Len(x13) \in Nat
        /\ \A i \in 1..Len(x13) : x13'[i] = x13[i]
        /\ x13'[Len(x13) + 1] = m
    BY <1>1, <1>2, <1>4
  <1>6. x2 = c /\ x5[c] \in 0..1 /\ \A d \in Callers : d # c => x3[d] # "write"
    BY <1>1 DEF MbimInv, WritersApart
  <1>7. MbimTypes'
    BY <1>1, <1>3, <1>5 DEF MbimInv, MbimTypes, D!TypeOK
  <1>8. TransactionsKept'
    BY <1>1, <1>3 DEF MbimInv, TransactionsKept
  <1>9. WritersApart'
    BY <1>1, <1>3, <1>5, <1>6, <1>m DEF MbimInv, WritersApart
  <1>10. InOnePiece'
    <2>1. SUFFICES ASSUME NEW i \in 1..Len(x13),
                          x13'[i].i = 0, x13'[i + 1].i = 1
                   PROVE  x13'[i].tx = x13'[i + 1].tx
      BY <1>5 DEF InOnePiece
    <2>2. CASE i < Len(x13)
      BY <1>5, <2>1, <2>2 DEF MbimInv, InOnePiece
    <2>3. CASE i = Len(x13)
      <3>1. x5[c] = 1 /\ x13[i] = D!Fragment(x4[c], 0)
        BY <1>1, <1>4, <1>5, <1>6, <2>1, <2>3 DEF MbimInv, WritersApart
      <3> QED  BY <1>4, <1>5, <2>3, <3>1 DEF D!Fragment
    <2> QED  BY <1>5, <2>2, <2>3
  <1> QED  BY <1>7, <1>8, <1>9, <1>10 DEF MbimInv

LEMMA MbimEnds ==
  ASSUME MbimInv, NEW c \in Callers, D!WriteFails(c) \/ D!ContextEnds(c) \/ D!Takes(c)
  PROVE  MbimInv'
  <1> USE MbimNat
  <1>1. /\ x3[c] \in {"write", "wait"} /\ x3' = [x3 EXCEPT ![c] = "idle"]
        /\ x2' = IF x3[c] = "write" THEN "nobody" ELSE x2
        /\ x6' \subseteq x6
        /\ UNCHANGED <<x1, x4, x5, x9, x10, x11, x12, x13, x14, x15, x16>>
    BY DEF D!WriteFails, D!ContextEnds, D!Takes, D!Goes
  <1>2. /\ x3 \in [Callers -> {"idle", "lock", "write", "wait"}]
        /\ x4 \in [Callers -> MbimTx] /\ x7 \in [D!Txs -> MbimBox]
        /\ x8 \in [Callers -> {<<>>, D!Error} \cup {MbimAnswer(t) : t \in MbimTx}]
    BY DEF MbimInv, MbimTypes, D!TypeOK
  <1>3. x4[c] \in D!Txs
    BY <1>1 DEF MbimInv, MbimTypes, D!TypeOK, TransactionsKept
  <1>4. PICK v \in {D!Error, MbimAnswer(x4[c])} :
          /\ x8' = [x8 EXCEPT ![c] = v]
          /\ x7' = x7 \/ x7' = [x7 EXCEPT ![x4[c]] = <<>>]
    <2>1. CASE D!WriteFails(c) \/ D!ContextEnds(c)
      BY <2>1 DEF D!WriteFails, D!ContextEnds
    <2>2. CASE D!Takes(c)
      <3>1. x7[x4[c]] \in {<<D!Error>>, <<MbimAnswer(x4[c])>>}
        BY <1>3, <2>2 DEF MbimInv, TransactionsKept, D!Takes
      <3>2. Head(x7[x4[c]]) \in {D!Error, MbimAnswer(x4[c])} /\ Tail(x7[x4[c]]) = <<>>
        BY <3>1, OneItem
      <3> QED  BY <2>2, <3>2 DEF D!Takes
    <2> QED  BY <2>1, <2>2
  <1>5. /\ x3' \in [Callers -> {"idle", "lock", "write", "wait"}] /\ x3'[c] = "idle"
        /\ \A d \in Callers : d # c => x3'[d] = x3[d]
    BY <1>1, <1>2
  <1>6. /\ x8' \in [Callers -> {<<>>, D!Error} \cup {MbimAnswer(t) : t \in MbimTx}]
        /\ x8'[c] = v /\ \A d \in Callers : d # c => x8'[d] = x8[d]
    BY <1>2, <1>4
  <1>7. /\ x7' \in [D!Txs -> MbimBox]
        /\ \A t \in D!Txs : x7'[t] = x7[t] \/ x7'[t] = <<>>
    BY <1>2, <1>3, <1>4 DEF MbimBox
  <1>8. MbimTypes'
    BY <1>1, <1>5, <1>6, <1>7 DEF MbimInv, MbimTypes, D!TypeOK
  <1>9. TransactionsKept'
    <2>1. \A t \in D!Txs : t \in x6' \/ t > x1 => x7'[t] = <<>>
      BY <1>1, <1>7 DEF MbimInv, TransactionsKept
    <2>2. \A t \in D!Txs : x7'[t] \in {<<>>, <<D!Error>>, <<MbimAnswer(t)>>}
      BY <1>7 DEF MbimInv, TransactionsKept
    <2>3. \A d \in Callers : x8'[d] \in {<<>>, D!Error, MbimAnswer(x4[d])}
      BY <1>4, <1>6 DEF MbimInv, TransactionsKept
    <2>4. \A d \in Callers : x3'[d] # "idle" => x4[d] \in 1..x1
      BY <1>5 DEF MbimInv, TransactionsKept
    <2> QED  BY <1>1, <2>1, <2>2, <2>3, <2>4 DEF MbimInv, TransactionsKept
  <1>10. WritersApart' /\ InOnePiece'
    BY <1>1, <1>5 DEF MbimInv, WritersApart, InOnePiece
  <1> QED  BY <1>8, <1>9, <1>10 DEF MbimInv

LEMMA CollectedIs ==
  ASSUME MbimInv, NEW t \in MbimTx, NEW m \in MbimFragment, m.tx = t, m.i = Len(x10[t])
  PROVE  \/ x10[t] = <<>> /\ Append(x10[t], m) = <<D!Fragment(t, 0)>> /\ Len(x10[t]) = 0
         \/ Len(x10[t]) = 1 /\ Append(x10[t], m) = MbimAnswer(t)
  <1>1. x10[t] \in {<<>>, <<D!Fragment(t, 0)>>}
    BY DEF MbimInv, TransactionsKept
  <1>2. CASE x10[t] = <<>>
    <2>1. m = D!Fragment(t, 0)
      BY <1>2 DEF D!Fragment, MbimFragment
    <2> QED  BY <1>2, <2>1
  <1>3. CASE x10[t] = <<D!Fragment(t, 0)>>
    <2>1. m = D!Fragment(t, 1)
      BY <1>3 DEF D!Fragment, MbimFragment
    <2>2. D!Fragment(t, 0) \in MbimFragment
      BY DEF D!Fragment, MbimFragment
    <2> QED  BY <1>3, <2>1, <2>2, OneItem, TwoItems DEF MbimAnswer
  <1> QED  BY <1>1, <1>2, <1>3

LEMMA MbimReads == ASSUME MbimInv, D!Read  PROVE MbimInv'
  <1> USE MbimNat
  <1> DEFINE m == Head(x14)
  <1>1. /\ x14 # <<>> /\ x14' = Tail(x14)
        /\ UNCHANGED <<x1, x2, x3, x4, x5, x8, x9, x12, x13, x15, x16>>
    BY DEF D!Read
  <1>2. x14 \in Seq(MbimFragment) /\ x7 \in [D!Txs -> MbimBox]
        /\ x10 \in [MbimTx -> MbimCollected]
    BY DEF MbimInv, MbimTypes
  <1>3. m \in MbimFragment /\ x14' \in Seq(MbimFragment)
    BY <1>1, <1>2
  <1>4. m.tx \in MbimTx /\ (m.tx # 0 => m.tx \in D!Txs)
    BY <1>3 DEF MbimFragment, MbimTx
  <1>5. \/ UNCHANGED <<x6, x7, x10, x11>>
        \/ /\ m.i = Len(x10[m.tx]) /\ Len(x10[m.tx]) + 1 < 2
           /\ x10' = [x10 EXCEPT ![m.tx] = Append(@, m)] /\ UNCHANGED <<x6, x7, x11>>
        \/ /\ m.i = Len(x10[m.tx]) /\ x10' = [x10 EXCEPT ![m.tx] = <<>>]
           /\ ~(Len(x10[m.tx]) + 1 < 2)
           /\ \/ x11' = (IF x11 < Room THEN x11 + 1 ELSE x11) /\ UNCHANGED <<x6, x7>>
              \/ m.tx # 0 /\ D!Deliver(m.tx, Append(x10[m.tx], m)) /\ x11' = x11
    BY DEF D!Read, D!Drop, D!Adds, D!NoCollector
  <1> HIDE DEF m
  <1>6. /\ x10' \in [MbimTx -> MbimCollected]
        /\ \A t \in MbimTx : x10'[t] \in {<<>>, <<D!Fragment(t, 0)>>}
    <2>1. \A t \in MbimTx : x10[t] \in {<<>>, <<D!Fragment(t, 0)>>}
      BY DEF MbimInv, TransactionsKept
    <2>2. CASE x10' = x10
      BY <1>2, <2>1, <2>2
    <2>3. CASE x10' = [x10 EXCEPT ![m.tx] = <<>>]
      BY <1>2, <2>1, <2>3 DEF MbimCollected
    <2>4. CASE /\ m.i = Len(x10[m.tx]) /\ Len(x10[m.tx]) + 1 < 2
               /\ x10' = [x10 EXCEPT ![m.tx] = Append(@, m)]
      <3>1. Append(x10[m.tx], m) = <<D!Fragment(m.tx, 0)>>
        <4>0. \A n : n = 1 => ~(n + 1 < 2)
          OBVIOUS
        <4>1. ~(Len(x10[m.tx]) = 1)
          BY <2>4, <4>0
        <4> QED  BY <1>3, <1>4, <2>4, <4>1, CollectedIs
      <3>2. x10' = [x10 EXCEPT ![m.tx] = <<D!Fragment(m.tx, 0)>>]
        BY <2>4, <3>1
      <3> QED  BY <1>2, <1>4, <2>1, <3>2 DEF MbimCollected
    <2> QED  BY <1>5, <2>2, <2>3, <2>4
  <1>7. /\ x6' \subseteq x6 /\ x11' \in 0..Room
        /\ x7' \in [D!Txs -> MbimBox]
        /\ \A t \in D!Txs : x7'[t] = x7[t] \/ (t \in x6 /\ t \notin x6' /\ x7'[t] = <<MbimAnswer(t)>>)
    <2>0. x11 \in 0..Room
      BY DEF MbimInv, MbimTypes, D!TypeOK
    <2>1. CASE UNCHANGED <<x6, x7>>
      BY <1>2, <1>5, <2>0, <2>1
    <2>2. CASE /\ m.i = Len(x10[m.tx]) /\ ~(Len(x10[m.tx]) + 1 < 2) /\ x11' = x11
               /\ m.tx # 0 /\ D!Deliver(m.tx, Append(x10[m.tx], m))
      <3>1. Append(x10[m.tx], m) = MbimAnswer(m.tx)
        BY <1>3, <1>4, <2>2, CollectedIs
      <3>2. x6' = x6 \ {m.tx} /\ m.tx \in D!Txs
        BY <1>4, <2>2 DEF D!Deliver
      <3>3. CASE m.tx \notin x6
        BY <1>2, <2>0, <2>2, <3>2, <3>3 DEF D!Deliver
      <3>4. CASE m.tx \in x6
        <4>1. x7[m.tx] = <<>>
          BY <3>2, <3>4 DEF MbimInv, TransactionsKept
        <4>2. Append(x7[m.tx], MbimAnswer(m.tx)) = <<MbimAnswer(m.tx)>>
          BY <4>1
        <4>3. x7' = [x7 EXCEPT ![m.tx] = <<MbimAnswer(m.tx)>>]
          BY <2>2, <3>1, <3>4, <4>2 DEF D!Deliver
        <4>4. <<MbimAnswer(m.tx)>> \in MbimBox
          BY <1>4 DEF MbimBox
        <4>5. x7' \in [D!Txs -> MbimBox] /\ x7'[m.tx] = <<MbimAnswer(m.tx)>>
              /\ \A t \in D!Txs : t # m.tx => x7'[t] = x7[t]
          BY <1>2, <3>2, <4>3, <4>4
        <4> QED  BY <2>0, <2>2, <3>2, <3>4, <4>5
      <3> QED  BY <3>3, <3>4
    <2> QED  BY <1>5, <2>1, <2>2
  <1>8. MbimTypes'
    BY <1>1, <1>3, <1>6, <1>7 DEF MbimInv, MbimTypes, D!TypeOK
  <1>9. TransactionsKept'
    <2>1. \A t \in D!Txs : t \in x6' \/ t > x1 => x7'[t] = <<>>
      <3>1. \A t \in x6 : t \in 1..x1 /\ t <= x1
        BY DEF MbimInv, MbimTypes, D!TypeOK, TransactionsKept
      <3>2. x1 \in Int /\ \A t \in D!Txs : t \in Int
        BY DEF MbimInv, MbimTypes, D!TypeOK
      <3> QED  BY <1>7, <3>1, <3>2 DEF MbimInv, TransactionsKept
    <2>2. \A t \in D!Txs : x7'[t] \in {<<>>, <<D!Error>>, <<MbimAnswer(t)>>}
      BY <1>7 DEF MbimInv, TransactionsKept
    <2> QED  BY <1>1, <1>6, <1>7, <2>1, <2>2 DEF MbimInv, TransactionsKept
  <1>10. WritersApart' /\ InOnePiece'
    BY <1>1 DEF MbimInv, WritersApart, InOnePiece
  <1> QED  BY <1>8, <1>9, <1>10 DEF MbimInv

LEMMA MbimLoopEnds == ASSUME MbimInv, D!ReadFails  PROVE MbimInv'
  <1> USE MbimNat
  <1>1. /\ UNCHANGED <<x1, x2, x3, x4, x5, x8, x11, x12, x13, x14, x15, x16>>
        /\ x6' = {} /\ x10' = [t \in DOMAIN x10 |-> <<>>]
        /\ x7' = [t \in D!Txs |-> IF t \in x6 THEN Append(x7[t], D!Error) ELSE x7[t]]
    BY DEF D!ReadFails, D!NoCollector
  <1>2. x7 \in [D!Txs -> MbimBox] /\ DOMAIN x10 = MbimTx
    BY DEF MbimInv, MbimTypes
  <1>3. \A t \in D!Txs : x7'[t] = IF t \in x6 THEN <<D!Error>> ELSE x7[t]
    <2>1. \A t \in D!Txs : t \in x6 => x7[t] = <<>>
      BY DEF MbimInv, TransactionsKept
    <2>2. Append(<<>>, D!Error) = <<D!Error>>
      OBVIOUS
    <2> QED  BY <1>1, <2>1, <2>2
  <1>4. x7' \in [D!Txs -> MbimBox]
    BY <1>1, <1>2, <1>3 DEF MbimBox
  <1>5. x10' \in [MbimTx -> MbimCollected] /\ \A t \in MbimTx : x10'[t] = <<>>
    BY <1>1, <1>2 DEF MbimCollected
  <1>6. MbimTypes'
    BY <1>1, <1>4, <1>5 DEF MbimInv, MbimTypes, D!TypeOK
  <1>7. TransactionsKept'
    <2>1. \A t \in D!Txs : t > x1 => t \notin x6
      BY DEF MbimInv, MbimTypes, D!TypeOK, TransactionsKept
    <2> QED  BY <1>1, <1>3, <1>5, <2>1 DEF MbimInv, TransactionsKept
  <1>8. WritersApart' /\ InOnePiece'
    BY <1>1 DEF MbimInv, WritersApart, InOnePiece
  <1> QED  BY <1>6, <1>7, <1>8 DEF MbimInv

LEMMA MbimModemReads == ASSUME MbimInv, D!ModemReads  PROVE MbimInv'
  <1> USE MbimNat
  <1>1. /\ x13 # <<>> /\ x13' = Tail(x13)
        /\ UNCHANGED <<x1, x2, x3, x4, x5, x6, x7, x8, x9, x10, x11, x12, x16>>
    BY DEF D!ModemReads
  <1> DEFINE m == Head(x13)
  <1>2. x13 \in Seq(MbimFragment) /\ x14 \in Seq(MbimFragment)
    BY DEF MbimInv, MbimTypes
  <1>3. m \in MbimFragment /\ x13' \in Seq(MbimFragment)
    BY <1>1, <1>2
  <1>4. /\ x15' = IF m.i = 0 THEN <<m.tx, 1>>
                  ELSE IF x15 = <<m.tx, m.i>> THEN <<m.tx, m.i + 1>> ELSE <<0, 0>>
        /\ x14' = IF x15'[2] = 2 THEN x14 \o MbimAnswer(x15'[1]) ELSE x14
    BY DEF D!ModemReads, MbimAnswer
  <1>5. m.tx \in MbimTx /\ m.i \in 0..1
    BY <1>3 DEF MbimFragment
  <1> HIDE DEF m
  <1>6. x15' \in MbimTx \X (0..2)
    <2>1. 0 \in MbimTx /\ m.i + 1 \in 0..2
      BY <1>5 DEF MbimTx
    <2> QED  BY <1>4, <1>5, <2>1
  <1>7. x14' \in Seq(MbimFragment)
    <2>1. x15'[1] \in MbimTx
      BY <1>6
    <2>2. D!Fragment(x15'[1], 0) \in MbimFragment /\ D!Fragment(x15'[1], 1) \in MbimFragment
      BY <2>1 DEF D!Fragment, MbimFragment
    <2>3. MbimAnswer(x15'[1]) \in Seq(MbimFragment)
      BY <2>2 DEF MbimAnswer
    <2>4. x14 \o MbimAnswer(x15'[1]) \in Seq(MbimFragment)
      BY <1>2, <2>3
    <2> QED  BY <1>2, <1>4, <2>4
  <1>8. /\ Len(x13') = Len(x13) - 1 /\ Len(x13) \in Nat \ {0}
        /\ \A i \in 1..Len(x13') : x13'[i] = x13[i + 1]
    BY <1>1, <1>2
  <1>9. MbimTypes'
    BY <1>1, <1>3, <1>6, <1>7 DEF MbimInv, MbimTypes, D!TypeOK
  <1>10. TransactionsKept'
    BY <1>1 DEF MbimInv, TransactionsKept
  <1>11. WritersApart'
    <2>1. Len(x13') > 0 => x13'[Len(x13')] = x13[Len(x13)] /\ Len(x13) > 0
      BY <1>8
    <2> QED  BY <1>1, <2>1 DEF MbimInv, WritersApart
  <1>12. InOnePiece'
    <2>1. SUFFICES ASSUME NEW i \in 1..Len(x13') - 1,
                          x13'[i].i = 0, x13'[i + 1].i = 1
                   PROVE  x13'[i].tx = x13'[i + 1].tx
      BY DEF InOnePiece
    <2>2. x13'[i] = x13[i + 1] /\ x13'[i + 1] = x13[(i + 1) + 1] /\ i + 1 \in 1..Len(x13) - 1
      BY <1>8
    <2> QED  BY <2>1, <2>2 DEF MbimInv, InOnePiece
  <1> QED  BY <1>9, <1>10, <1>11, <1>12 DEF MbimInv

LEMMA MbimOthers ==
  ASSUME MbimInv, D!Close \/ D!TakeIndication \/ D!ModemIndicates \/ D!Lose
  PROVE  MbimInv'
  <1> USE MbimNat
  <1>1. UNCHANGED <<x1, x2, x3, x4, x5, x6, x7, x8, x10, x13, x15>>
    BY DEF D!Close, D!TakeIndication, D!ModemIndicates, D!Lose
  <1>2. x11' \in 0..Room
    <2>1. x11 \in 0..Room
      BY DEF MbimInv, MbimTypes, D!TypeOK
    <2> QED  BY <2>1 DEF D!Close, D!TakeIndication, D!ModemIndicates, D!Lose
  <1>3. x14' \in Seq(MbimFragment)
    <2>1. x14 \in Seq(MbimFragment)
      BY DEF MbimInv, MbimTypes
    <2>2. x14 # <<>> => Tail(x14) \in Seq(MbimFragment)
      BY <2>1
    <2>3. D!Fragment(0, 0) \in MbimFragment /\ D!Fragment(0, 1) \in MbimFragment
      BY DEF D!Fragment, MbimFragment, MbimTx
    <2>4. <<D!Fragment(0, 0), D!Fragment(0, 1)>> \in Seq(MbimFragment)
      BY <2>3
    <2> QED  BY <2>1, <2>2, <2>4 DEF D!Close, D!TakeIndication, D!ModemIndicates, D!Lose
  <1>4. MbimTypes' /\ TransactionsKept'
    <2>1. x2' = x2
      BY <1>1
    <2> QED  BY <1>1, <1>2, <1>3 DEF MbimInv, MbimTypes, D!TypeOK, TransactionsKept
  <1>5. WritersApart' /\ InOnePiece'
    BY <1>1 DEF MbimInv, WritersApart, InOnePiece
  <1> QED  BY <1>4, <1>5 DEF MbimInv

LEMMA MbimNext == ASSUME MbimInv, D!Next  PROVE MbimInv'
  BY MbimBegins, MbimLocks, MbimWrites, MbimEnds, MbimReads, MbimLoopEnds, MbimModemReads,
     MbimOthers DEF D!Next

LEMMA MbimTyped == ASSUME MbimInv  PROVE D!TypeOK /\ D!AnswersAreOwn
  <1>1. ASSUME NEW t \in D!Txs  PROVE Len(x7[t]) <= 1
    <2>1. x7[t] \in {<<>>, <<D!Error>>, <<MbimAnswer(t)>>}
      BY DEF MbimInv, TransactionsKept
    <2>2. Len(<<>>) = 0 /\ \A a : Len(<<a>>) = 1
      OBVIOUS
    <2>3. Len(x7[t]) \in {0, 1}
      BY <2>1, <2>2
    <2> QED  BY <2>3, FewItems
  <1>2. D!TypeOK
    BY DEF MbimInv, MbimTypes
  <1>3. \A c \in Callers : x8[c] \in {<<>>, D!Error, <<D!Fragment(x4[c], 0), D!Fragment(x4[c], 1)>>}
    BY DEF MbimInv, TransactionsKept, MbimAnswer
  <1> QED  BY <1>1, <1>2, <1>3 DEF MbimInv, InOnePiece, D!AnswersAreOwn
-----------------------------------------------------------------------------
(* Sending text messages over the USB AT link *)

SendRequest ==
    [at : {"mode", "segment", "prompt", "answer"}, message : Callers, segment : 1..Segments]
SendTypes ==
    /\ V!TypeOK /\ (x1 = V!Nobody \/ x1 \in SendRequest)
    /\ x1.at \in {"prompt", "answer"} => x2 = "sender"
    /\ x2 = "sender" => x1.at \in {"mode", "prompt", "answer"}

\* The messages' parts that wait for the module.
PdusIn(q) == {q[i] : i \in {j \in 1..Len(q) : q[j] \in V!Pdu}}

Own(m) == x1.at # "idle" /\ x1.message = m
CountedBefore(m) == x7[m] = 1..(x1.segment - 1)

\* What an exchange that found the module at rest is in the middle of.
ModeExchange ==
    /\ x1.at = "mode" /\ x3 = {} /\ x6 = "off" /\ CountedBefore(x1.message)
    /\ \/ x4 = <<V!AT>> /\ x5 = <<>>
       \/ x4 = <<>> /\ x5 \in {<<"OK">>, <<"ERROR">>}
PromptExchange ==
    /\ x1.at = "prompt" /\ x3 = {} /\ CountedBefore(x1.message)
    /\ \/ x4 = <<V!CMGS>> /\ x5 = <<>> /\ x6 = "off"
       \/ x4 = <<>> /\ x5 = <<">">> /\ x6 = "on"
       \/ x4 = <<>> /\ x5 = <<"ERROR">> /\ x6 = "off"
AnswerExchange ==
    /\ x1.at = "answer" /\ x3 = {">"}
    /\ \/ /\ x4 = <<<<"PDU", x1.message, x1.segment>>>> /\ x5 = <<>> /\ x6 = "on"
          /\ CountedBefore(x1.message)
       \/ /\ x4 = <<>> /\ x5 = <<"ERROR">> /\ x6 = "off" /\ CountedBefore(x1.message)
       \/ /\ x4 = <<>> /\ x5 = <<"+CMGS">> /\ x6 = "off"
          /\ x7[x1.message] = 1..x1.segment
ExchangeAlone ==
    \A m \in Callers \ x9 : Own(m) =>
        /\ x8[m] = V!Unanswered
        /\ x2 # "sender" => CountedBefore(m)
        /\ x2 = "sender" => ModeExchange \/ PromptExchange \/ AnswerExchange

\* A part that still waits for the module is the one under way, or the one after
\* those that were counted.
PdusFollow ==
    \A p \in PdusIn(x4) : p[2] \notin x9 =>
        \/ x1.at = "answer" /\ p[2] = x1.message /\ p[3] = x1.segment
        \/ x8[p[2]] # V!Unanswered /\ p[3] = x8[p[2]] + 1

CountsAccepted ==
    \A m \in Callers \ x9 :
        /\ x8[m] # V!Unanswered => 1..x8[m] \subseteq x7[m] /\ x7[m] \subseteq 1..(x8[m] + 1)
        /\ x8[m] = V!Unanswered /\ ~Own(m) => x7[m] = {}

SendInv == SendTypes /\ ExchangeAlone /\ PdusFollow /\ CountsAccepted

LEMMA SegmentsNat == Segments \in Nat /\ MaxTimeouts \in Nat /\ MaxOthers \in Nat
  BY TransportBounds

Task == {V!AT, V!CMGS, V!ESC} \cup V!Pdu
LEMMA NoPdus == V!AT \notin V!Pdu /\ V!CMGS \notin V!Pdu /\ V!ESC \notin V!Pdu
  BY DEF V!AT, V!CMGS, V!ESC, V!Pdu

LEMMA PduIs ==
  ASSUME NEW m \in Callers, NEW k \in 1..Segments
  PROVE  /\ <<"PDU", m, k>> \in V!Pdu
         /\ <<"PDU", m, k>>[2] = m /\ <<"PDU", m, k>>[3] = k
  BY DEF V!Pdu, V!Segment

LEMMA PduParts ==
  ASSUME NEW p \in V!Pdu
  PROVE  p[2] \in Callers /\ p[3] \in 1..Segments
  BY DEF V!Pdu, V!Segment

LEMMA PdusAppend ==
  ASSUME NEW q \in Seq(Task), NEW t \in Task
  PROVE  /\ Append(q, t) \in Seq(Task)
         /\ t \notin V!Pdu => PdusIn(Append(q, t)) = PdusIn(q)
         /\ t \in V!Pdu => PdusIn(Append(q, t)) = PdusIn(q) \cup {t}
  <1>1. /\ Append(q, t) \in Seq(Task) /\ Len(Append(q, t)) = Len(q) + 1 /\ Len(q) \in Nat
        /\ \A i \in 1..Len(q) : Append(q, t)[i] = q[i]
        /\ Append(q, t)[Len(q) + 1] = t
    OBVIOUS
  <1> DEFINE r == Append(q, t)
  <1> HIDE DEF r
  <1>2. /\ Len(r) = Len(q) + 1 /\ Len(q) \in Nat
        /\ \A i \in 1..Len(q) : r[i] = q[i]
        /\ r[Len(q) + 1] = t
    BY <1>1 DEF r
  <1>3. PdusIn(q) \subseteq PdusIn(r)
    BY <1>2 DEF PdusIn
  <1>4. PdusIn(r) \subseteq PdusIn(q) \cup {t}
    BY <1>2 DEF PdusIn
  <1>5. t \notin V!Pdu => t \notin PdusIn(r)
    BY DEF PdusIn
  <1>6. t \in V!Pdu => t \in PdusIn(r)
    BY <1>2 DEF PdusIn
  <1> QED  BY <1>1, <1>3, <1>4, <1>5, <1>6 DEF r

LEMMA PdusTail ==
  ASSUME NEW q \in Seq(Task), q # <<>>
  PROVE  /\ Tail(q) \in Seq(Task) /\ Head(q) \in Task
         /\ PdusIn(Tail(q)) \subseteq PdusIn(q)
         /\ Head(q) \in V!Pdu => Head(q) \in PdusIn(q)
  <1>1. /\ Tail(q) \in Seq(Task) /\ Len(Tail(q)) = Len(q) - 1 /\ Len(q) \in Nat \ {0}
        /\ \A i \in 1..Len(Tail(q)) : Tail(q)[i] = q[i + 1]
        /\ Head(q) = q[1] /\ q[1] \in Task
    OBVIOUS
  <1> DEFINE r == Tail(q)
  <1> HIDE DEF r
  <1>2. /\ Len(r) = Len(q) - 1 /\ Len(q) \in Nat \ {0}
        /\ \A i \in 1..Len(r) : r[i] = q[i + 1] /\ i + 1 \in 1..Len(q)
    BY <1>1 DEF r
  <1>3. PdusIn(r) \subseteq PdusIn(q)
    BY <1>2 DEF PdusIn
  <1>4. q[1] \in V!Pdu => q[1] \in PdusIn(q)
    BY <1>2 DEF PdusIn
  <1> QED  BY <1>1, <1>3, <1>4 DEF r

LEMMA SenderIs ==
  ASSUME SendTypes
  PROVE  /\ x1.at = "idle" <=> x1 = V!Nobody
         /\ x1.at # "idle" => x1 \in SendRequest /\ x1.message \in Callers
                              /\ x1.segment \in 1..Segments /\ x1.segment \in Nat
         /\ x1.at \in {"idle", "mode", "segment", "prompt", "answer"}
  <1>1. V!Nobody.at = "idle"
    BY DEF V!Nobody
  <1>2. x1 \in SendRequest => x1.at \in {"mode", "segment", "prompt", "answer"}
                              /\ x1.message \in Callers /\ x1.segment \in 1..Segments
    BY DEF SendRequest
  <1>3. \A k \in 1..Segments : k \in Nat
    BY SegmentsNat
  <1> QED  BY <1>1, <1>2, <1>3 DEF SendTypes

LEMMA SendInit == V!Init => SendInv
  <1> SUFFICES ASSUME V!Init  PROVE SendInv
    OBVIOUS
  <1>1. x1 = V!Nobody /\ x1.at = "idle" /\ x2 = "none"
    BY DEF V!Init, V!Nobody
  <1>2. x4 = <<>> /\ x5 = <<>> /\ PdusIn(x4) = {}
    BY DEF V!Init, PdusIn
  <1>3. V!TypeOK
    <2>1. x4 \in Seq({V!AT, V!CMGS, V!ESC} \cup V!Pdu) /\ x5 \in Seq(V!Line)
      BY <1>2
    <2>2. x8 \in [Callers -> 0..V!Unanswered] /\ x7 \in [Callers -> SUBSET V!Segment]
      BY SegmentsNat DEF V!Init, V!Unanswered
    <2>3. x10 \in 0..MaxTimeouts /\ x11 \in 0..MaxOthers /\ x9 = {} /\ x6 = "off" /\ x3 = {}
      BY SegmentsNat DEF V!Init
    <2> QED  BY <1>1, <2>1, <2>2, <2>3 DEF V!TypeOK
  <1>4. SendTypes
    BY <1>1, <1>3 DEF SendTypes
  <1>5. CountsAccepted
    BY DEF V!Init, CountsAccepted
  <1> QED  BY <1>1, <1>2, <1>4, <1>5 DEF SendInv, ExchangeAlone, PdusFollow, Own

LEMMA SendBegins ==
  ASSUME SendInv, NEW m \in Callers, V!Send(m)  PROVE SendInv'
  <1>1. /\ x1 = V!Nobody /\ x8[m] = V!Unanswered
        /\ x1' = [at |-> "mode", message |-> m, segment |-> 1]
        /\ UNCHANGED <<x2, x3, x4, x5, x6, x7, x8, x9, x10, x11>>
    BY DEF V!Send
  <1>2. x1.at = "idle" /\ x2 # "sender"
    BY <1>1, SenderIs DEF SendInv, SendTypes
  <1>3. 1 \in 1..Segments
    BY SegmentsNat, CallersAssumption
  <1>4. x1' \in SendRequest /\ x1'.at = "mode" /\ x1'.message = m /\ x1'.segment = 1
    BY <1>1, <1>3 DEF SendRequest
  <1>5. SendTypes'
    BY <1>1, <1>2, <1>4 DEF SendInv, SendTypes, V!TypeOK
  <1>6. ExchangeAlone'
    BY <1>1, <1>2, <1>4 DEF SendInv, ExchangeAlone, CountsAccepted, CountedBefore, Own
  <1>7. PdusFollow'
    BY <1>1, <1>2 DEF SendInv, PdusFollow
  <1>8. CountsAccepted'
    BY <1>1, <1>2, <1>4 DEF SendInv, CountsAccepted, Own
  <1> QED  BY <1>5, <1>6, <1>7, <1>8 DEF SendInv

LEMMA SendExchanges == ASSUME SendInv, V!Exchange  PROVE SendInv'
  <1>1. PICK t \in {V!AT, V!CMGS} :
          /\ x4' = Append(x4, t) /\ x2 = "none" /\ x2' = "sender" /\ x3' = {} /\ x5' = <<>>
          /\ \/ x1.at = "mode" /\ t = V!AT /\ x1' = x1
             \/ x1.at = "segment" /\ t = V!CMGS /\ x1' = [x1 EXCEPT !.at = "prompt"]
    BY DEF V!Exchange, V!Writes
  <1>2. /\ UNCHANGED <<x6, x7, x8, x10, x11>>
        /\ x9' = IF x4 # <<>> \/ x6 # "off" THEN x9 \cup {x1.message} ELSE x9
    BY DEF V!Exchange
  <1>3. /\ x1 \in SendRequest /\ x1.message \in Callers /\ x1.segment \in Nat
        /\ x1' \in SendRequest /\ x1'.message = x1.message /\ x1'.segment = x1.segment
        /\ x1'.at = (IF x1.at = "mode" THEN "mode" ELSE "prompt")
        /\ x1.at \in {"mode", "segment"}
    <2>1. x1 \in SendRequest /\ x1.message \in Callers /\ x1.segment \in Nat
      BY <1>1, SenderIs DEF SendInv
    <2> QED  BY <1>1, <2>1 DEF SendRequest
  <1>4. x4 \in Seq(Task) /\ t \in Task /\ t \notin V!Pdu
    BY NoPdus DEF SendInv, SendTypes, V!TypeOK, Task
  <1>5. x4' \in Seq(Task) /\ PdusIn(x4') = PdusIn(x4)
    BY <1>1, <1>4, PdusAppend
  <1>6. SendTypes'
    <2>1. x9' \subseteq Callers
      BY <1>2, <1>3 DEF SendInv, SendTypes, V!TypeOK
    <2>2. x5' \in Seq(V!Line)
      BY <1>1
    <2>3. x7' = x7 /\ x8' = x8 /\ x6' = x6 /\ x10' = x10 /\ x11' = x11
      BY <1>2
    <2>4. x1'.at \in {"idle", "mode", "segment", "prompt", "answer"}
      BY <1>3
    <2>5. V!TypeOK'
      BY <1>1, <1>5, <2>1, <2>2, <2>3, <2>4 DEF SendInv, SendTypes, V!TypeOK, Task
    <2> QED  BY <1>1, <1>3, <2>5 DEF SendTypes
  <1>7. ExchangeAlone'
    <2>1. SUFFICES ASSUME NEW m \in Callers \ x9', Own(m)'
                   PROVE  x8'[m] = V!Unanswered /\ (ModeExchange \/ PromptExchange)'
      BY <1>1 DEF ExchangeAlone
    <2>2. m = x1.message /\ Own(m) /\ x4 = <<>> /\ x6 = "off" /\ m \in Callers \ x9
      BY <1>2, <1>3, <2>1 DEF Own
    <2>3. x8[m] = V!Unanswered /\ CountedBefore(m)
      BY <1>1, <2>2 DEF SendInv, ExchangeAlone
    <2>4. x4' = <<t>> /\ x5' = <<>> /\ x3' = {} /\ x6' = "off"
      BY <1>1, <1>2, <2>2
    <2>5. CountedBefore(m)'
      BY <1>2, <1>3, <2>3 DEF CountedBefore
    <2> QED  BY <1>1, <1>2, <1>3, <2>2, <2>3, <2>4, <2>5 DEF ModeExchange, PromptExchange
  <1>8. PdusFollow'
    <2>1. x1.at # "answer"
      BY <1>3
    <2> QED  BY <1>2, <1>5, <2>1 DEF SendInv, PdusFollow
  <1>9. CountsAccepted'
    BY <1>2, <1>3 DEF SendInv, CountsAccepted, Own
  <1> QED  BY <1>6, <1>7, <1>8, <1>9 DEF SendInv

LEMMA OthersCommand == ASSUME SendInv, V!OtherCommand  PROVE SendInv'
  <1>1. /\ x4' = Append(x4, V!AT) /\ x2 = "none" /\ x2' = "other" /\ x3' = {} /\ x5' = <<>>
        /\ x11 < MaxOthers /\ x11' = x11 + 1
        /\ UNCHANGED <<x1, x6, x7, x8, x9, x10>>
    BY DEF V!OtherCommand, V!Writes
  <1>4. x4 \in Seq(Task) /\ V!AT \in Task /\ V!AT \notin V!Pdu
    BY NoPdus DEF SendInv, SendTypes, V!TypeOK, Task
  <1>5. x4' \in Seq(Task) /\ PdusIn(x4') = PdusIn(x4)
    BY <1>1, <1>4, PdusAppend
  <1>6. SendTypes'
    <2>1. x11' \in 0..MaxOthers
      BY <1>1, SegmentsNat DEF SendInv, SendTypes, V!TypeOK
    <2>2. x5' \in Seq(V!Line)
      BY <1>1
    <2> QED  BY <1>1, <1>5, <2>1, <2>2 DEF SendInv, SendTypes, V!TypeOK, Task
  <1>7. ExchangeAlone'
    BY <1>1 DEF SendInv, ExchangeAlone, CountedBefore, Own
  <1>8. PdusFollow'
    BY <1>1, <1>5 DEF SendInv, PdusFollow
  <1>9. CountsAccepted'
    BY <1>1 DEF SendInv, CountsAccepted, Own
  <1> QED  BY <1>6, <1>7, <1>8, <1>9 DEF SendInv

\* What the sender or another takes off the link, and what it then does.
LEMMA PipeTail ==
  ASSUME SendInv, x5 # <<>>
  PROVE  /\ Tail(x5) \in Seq(V!Line) /\ Head(x5) \in V!Line
         /\ \A l : x5 = <<l>> => Head(x5) = l /\ Tail(x5) = <<>>
  <1>1. x5 \in Seq(V!Line)
    BY DEF SendInv, SendTypes, V!TypeOK
  <1>2. Tail(x5) \in Seq(V!Line) /\ Head(x5) \in V!Line
    BY <1>1
  <1>3. ASSUME NEW l, x5 = <<l>>  PROVE Head(x5) = l /\ Tail(x5) = <<>>
    BY <1>3
  <1> QED  BY <1>2, <1>3

\* A request ends with a count of its parts.
LEMMA SendEnds ==
  ASSUME SendInv, x2 = "sender", NEW n \in Nat, n < V!Unanswered, V!Answers(n),
         UNCHANGED <<x6, x7, x9, x11>>, x10' \in 0..MaxTimeouts,
         x3' \subseteq V!Line, x5' \in Seq(V!Line),
         x4' = x4 \/ x4' = Append(x4, V!ESC),
         x1.message \notin x9 =>
            /\ 1..n \subseteq x7[x1.message] /\ x7[x1.message] \subseteq 1..(n + 1)
            /\ PdusIn(x4) # {} => n = x1.segment - 1
  PROVE  SendInv'
  <1>1. /\ x1' = V!Nobody /\ x1'.at = "idle" /\ x2' = "none"
        /\ x8' = [x8 EXCEPT ![x1.message] = n]
    BY DEF V!Answers, V!Nobody
  <1>2. x1.at # "idle" /\ x1.message \in Callers /\ x1.segment \in Nat
    BY SenderIs DEF SendInv, SendTypes
  <1>3. x8 \in [Callers -> 0..V!Unanswered] /\ n \in 0..V!Unanswered
    BY SegmentsNat DEF SendInv, SendTypes, V!TypeOK, V!Unanswered
  <1>4. x8' \in [Callers -> 0..V!Unanswered] /\ x8'[x1.message] = n
        /\ \A m \in Callers : m # x1.message => x8'[m] = x8[m]
    BY <1>1, <1>2, <1>3
  <1>5. x4 \in Seq(Task) /\ V!ESC \in Task /\ V!ESC \notin V!Pdu
    BY NoPdus DEF SendInv, SendTypes, V!TypeOK, Task
  <1>6. x4' \in Seq(Task) /\ PdusIn(x4') = PdusIn(x4)
    BY <1>5, PdusAppend
  <1>7. SendTypes'
    BY <1>1, <1>4, <1>6 DEF SendInv, SendTypes, V!TypeOK, Task
  <1>8. ExchangeAlone'
    BY <1>1 DEF ExchangeAlone, Own
  <1>9. n # V!Unanswered
    BY SegmentsNat DEF V!Unanswered
  <1>10. PdusFollow'
    <2>1. SUFFICES ASSUME NEW p \in PdusIn(x4), p[2] \notin x9
                   PROVE  x8'[p[2]] # V!Unanswered /\ p[3] = x8'[p[2]] + 1
      BY <1>6 DEF PdusFollow
    <2>2. p[2] \in Callers /\ p[3] \in 1..Segments
      BY PduParts DEF PdusIn
    <2>3. CASE x1.at = "answer" /\ p[2] = x1.message /\ p[3] = x1.segment
      <3>1. n = x1.segment - 1
        BY <2>1, <2>3
      <3> QED  BY <1>2, <1>4, <1>9, <2>3, <3>1
    <2>4. CASE x8[p[2]] # V!Unanswered /\ p[3] = x8[p[2]] + 1
      <3>1. x8[x1.message] = V!Unanswered \/ x1.message \in x9
        BY <1>2 DEF SendInv, ExchangeAlone, Own
      <3> QED  BY <1>4, <2>1, <2>2, <2>4, <3>1
    <2> QED  BY <2>1, <2>3, <2>4 DEF SendInv, PdusFollow
  <1>11. CountsAccepted'
    <2>1. SUFFICES ASSUME NEW m \in Callers \ x9
                   PROVE  /\ x8'[m] # V!Unanswered =>
                                1..x8'[m] \subseteq x7[m] /\ x7[m] \subseteq 1..(x8'[m] + 1)
                          /\ x8'[m] = V!Unanswered => x7[m] = {}
      BY DEF CountsAccepted
    <2>2. CASE m = x1.message
      BY <1>4, <1>9, <2>1, <2>2
    <2>3. CASE m # x1.message
      BY <1>4, <2>1, <2>3 DEF SendInv, CountsAccepted, Own
    <2> QED  BY <2>2, <2>3
  <1> QED  BY <1>7, <1>8, <1>10, <1>11 DEF SendInv

\* In the middle of an exchange, the segment that waits is the one under way.
LEMMA ExchangeIs ==
  ASSUME SendInv, x2 = "sender", x1.message \notin x9
  PROVE  /\ ModeExchange \/ PromptExchange \/ AnswerExchange
         /\ x8[x1.message] = V!Unanswered
         /\ x1.segment \in 1..Segments /\ x1.message \in Callers
  <1>1. x1.at # "idle" /\ x1.message \in Callers /\ x1.segment \in 1..Segments
    BY SenderIs DEF SendInv, SendTypes
  <1> QED  BY <1>1 DEF SendInv, ExchangeAlone, Own

LEMMA OthersHear == ASSUME SendInv, V!HearsOther  PROVE SendInv'
  <1>1. /\ x2 = "other" /\ x2' \in {"none", "other"} /\ x5 # <<>>
        /\ x5' = Tail(x5) /\ x3' = x3 \cup {Head(x5)}
        /\ UNCHANGED <<x1, x4, x6, x7, x8, x9, x10, x11>>
    BY DEF V!HearsOther, V!Reads
  <1>2. x5' \in Seq(V!Line) /\ x3' \subseteq V!Line
    BY <1>1, PipeTail DEF SendInv, SendTypes, V!TypeOK
  <1>3. SendTypes'
    BY <1>1, <1>2 DEF SendInv, SendTypes, V!TypeOK
  <1>4. ExchangeAlone'
    BY <1>1 DEF SendInv, ExchangeAlone, CountedBefore, Own
  <1>5. PdusFollow' /\ CountsAccepted'
    BY <1>1 DEF SendInv, PdusFollow, CountsAccepted, Own
  <1> QED  BY <1>3, <1>4, <1>5 DEF SendInv

LEMMA PduOfExchange ==
  ASSUME SendInv, x2 = "sender", x1.message \notin x9, PdusIn(x4) # {}
  PROVE  AnswerExchange /\ x4 # <<>>
  <1>1. PICK i \in 1..Len(x4) : x4[i] \in V!Pdu
    BY DEF PdusIn
  <1>2. x4 # <<>> /\ x4 # <<V!AT>> /\ x4 # <<V!CMGS>>
    BY <1>1, NoPdus
  <1> QED  BY <1>2, ExchangeIs DEF ModeExchange, PromptExchange

\* What the sender reads goes from the link, and the rest of it stays.
LEMMA SenderReads ==
  ASSUME SendInv, x2 = "sender", V!Reads
  PROVE  /\ x5 # <<>> /\ x5' = Tail(x5) /\ x3' = x3 \cup {Head(x5)}
         /\ UNCHANGED <<x6, x7, x9, x10, x11>>
         /\ x5' \in Seq(V!Line) /\ x3' \subseteq V!Line /\ Head(x5) \in V!Line
         /\ \A l : x5 = <<l>> => Head(x5) = l /\ x5' = <<>>
         /\ x10' \in 0..MaxTimeouts
  <1>1. /\ x5 # <<>> /\ x5' = Tail(x5) /\ x3' = x3 \cup {Head(x5)}
        /\ UNCHANGED <<x6, x7, x9, x10, x11>>
    BY DEF V!Reads
  <1> QED  BY <1>1, PipeTail DEF SendInv, SendTypes, V!TypeOK

\* The sender reads and goes on waiting, or goes on to another place.
LEMMA SenderGoes ==
  ASSUME SendInv, x2 = "sender", x1' \in SendRequest, x1'.message = x1.message,
         UNCHANGED <<x4, x6, x7, x8, x9, x11>>, x10' \in 0..MaxTimeouts,
         x3' \subseteq V!Line, x5' \in Seq(V!Line), x2' \in {"sender", "none"},
         x2' = "sender" => x1'.at = x1.at /\ x1.at # "idle" /\ x1'.segment = x1.segment,
         x2' = "none" => x1'.at = "segment",
         x1.message \notin x9 =>
            x2' = "none" /\ x4 = <<>> /\ x7[x1.message] = 1..(x1'.segment - 1)
  PROVE  SendInv'
  <1>1. x1.at # "idle" /\ x1'.at # "idle" /\ x1.message \in Callers
        /\ x1.at \in {"mode", "prompt", "answer"}
    BY SenderIs DEF SendInv, SendTypes, SendRequest
  <1>2. SendTypes'
    BY <1>1 DEF SendInv, SendTypes, SendRequest, V!TypeOK
  <1>3. \A m : Own(m)' <=> Own(m)
    BY <1>1 DEF Own
  <1>4. ExchangeAlone'
    <2>1. SUFFICES ASSUME NEW m \in Callers \ x9, Own(m)
                   PROVE  x8[m] = V!Unanswered /\ x2' = "none" /\ x7[m] = 1..(x1'.segment - 1)
      BY <1>3 DEF ExchangeAlone, CountedBefore
    <2> QED  BY <2>1 DEF Own, SendInv, ExchangeAlone
  <1>5. PdusFollow'
    <2>1. SUFFICES ASSUME NEW p \in PdusIn(x4), p[2] \notin x9
                   PROVE  \/ x1'.at = "answer" /\ p[2] = x1'.message /\ p[3] = x1'.segment
                          \/ x8[p[2]] # V!Unanswered /\ p[3] = x8[p[2]] + 1
      BY DEF PdusFollow
    <2>2. CASE x1.at = "answer" /\ p[2] = x1.message
      <3>1. x4 = <<>>
        BY <2>1, <2>2
      <3>2. PdusIn(x4) = {}
        BY <3>1 DEF PdusIn
      <3> QED  BY <2>1, <3>2
    <2>3. CASE ~(x1.at = "answer" /\ p[2] = x1.message)
      BY <2>1, <2>3 DEF SendInv, PdusFollow
    <2> QED  BY <2>2, <2>3
  <1>6. CountsAccepted'
    BY <1>3 DEF SendInv, CountsAccepted
  <1> QED  BY <1>2, <1>4, <1>5, <1>6 DEF SendInv

LEMMA SendFails ==
  ASSUME SendInv, x2 = "sender", V!Fails, UNCHANGED <<x6, x7, x9, x11>>,
         x10' \in 0..MaxTimeouts, x3' \subseteq V!Line, x5' \in Seq(V!Line),
         x4' = x4 \/ x4' = Append(x4, V!ESC)
  PROVE  SendInv'
  <1>1. x1.segment \in 1..Segments /\ x1.segment \in Nat
    BY SenderIs DEF SendInv, SendTypes
  <1> DEFINE n == x1.segment - 1
  <1>2. n \in Nat /\ n < V!Unanswered /\ V!Answers(n) /\ n + 1 = x1.segment
    BY <1>1, SegmentsNat DEF V!Fails, V!Unanswered
  <1>3. ASSUME x1.message \notin x9
        PROVE  1..n \subseteq x7[x1.message] /\ x7[x1.message] \subseteq 1..(n + 1)
    <2>1. x7[x1.message] = 1..n \/ x7[x1.message] = 1..(n + 1)
      BY <1>2, <1>3, ExchangeIs
         DEF ModeExchange, PromptExchange, AnswerExchange, CountedBefore
    <2> QED  BY <1>2, <2>1
  <1>4. PdusIn(x4) # {} => n = x1.segment - 1
    OBVIOUS
  <1> HIDE DEF n
  <1> QED  BY <1>2, <1>3, <1>4, SendEnds

LEMMA ModeHeard == ASSUME SendInv, V!HearsMode  PROVE SendInv'
  <1>1. x2 = "sender" /\ x1.at = "mode" /\ V!Reads /\ x4' = x4
    BY DEF V!HearsMode
  <1>2. x1 \in SendRequest /\ x1.segment \in 1..Segments
    BY <1>1, SenderIs DEF SendInv
  <1>3. /\ x5 # <<>> /\ x5' = Tail(x5) /\ x3' = x3 \cup {Head(x5)}
        /\ UNCHANGED <<x6, x7, x9, x10, x11>>
        /\ x5' \in Seq(V!Line) /\ x3' \subseteq V!Line
        /\ \A l : x5 = <<l>> => Head(x5) = l /\ x5' = <<>>
        /\ x10' \in 0..MaxTimeouts
    BY <1>1, SenderReads
  <1>4. ASSUME x1.message \notin x9
        PROVE  V!Complete(x3') /\ x4 = <<>> /\ CountedBefore(x1.message)
    <2>1. x4 = <<>> /\ x5 \in {<<"OK">>, <<"ERROR">>} /\ CountedBefore(x1.message)
      BY <1>1, <1>3, <1>4, ExchangeIs DEF ModeExchange, PromptExchange, AnswerExchange
    <2> QED  BY <1>3, <2>1 DEF V!Complete
  <1>5. \/ ~V!Complete(x3') /\ UNCHANGED <<x1, x2, x8>>
        \/ x1' = [x1 EXCEPT !.at = "segment"] /\ x2' = "none" /\ x8' = x8
        \/ V!Fails
    BY DEF V!HearsMode
  <1>6. CASE ~V!Complete(x3') /\ UNCHANGED <<x1, x2, x8>>
    BY <1>1, <1>2, <1>3, <1>4, <1>6, SenderGoes
  <1>7. CASE x1' = [x1 EXCEPT !.at = "segment"] /\ x2' = "none" /\ x8' = x8
    <2>1. x1' \in SendRequest /\ x1'.message = x1.message /\ x1'.segment = x1.segment
          /\ x1'.at = "segment"
      BY <1>2, <1>7 DEF SendRequest
    <2> QED  BY <1>1, <1>3, <1>4, <1>7, <2>1, SenderGoes DEF CountedBefore
  <1>8. CASE V!Fails
    BY <1>1, <1>3, <1>8, SendFails
  <1> QED  BY <1>5, <1>6, <1>7, <1>8

LEMMA AnswerHeard == ASSUME SendInv, V!HearsAnswer  PROVE SendInv'
  <1>1. x2 = "sender" /\ x1.at = "answer" /\ V!Reads /\ x4' = x4
    BY DEF V!HearsAnswer
  <1>2. x1 \in SendRequest /\ x1.segment \in 1..Segments /\ x1.segment \in Nat
    BY <1>1, SenderIs DEF SendInv
  <1>3. /\ x5 # <<>> /\ x5' = Tail(x5) /\ x3' = x3 \cup {Head(x5)}
        /\ UNCHANGED <<x6, x7, x9, x10, x11>>
        /\ x5' \in Seq(V!Line) /\ x3' \subseteq V!Line
        /\ \A l : x5 = <<l>> => Head(x5) = l /\ x5' = <<>>
        /\ x10' \in 0..MaxTimeouts
    BY <1>1, SenderReads
  <1>4. ASSUME x1.message \notin x9
        PROVE  /\ V!Complete(x3') /\ x4 = <<>>
               /\ "ERROR" \notin x3' => x7[x1.message] = 1..x1.segment
    <2>1. /\ x4 = <<>>
          /\ \/ x5 = <<"ERROR">>
             \/ x5 = <<"+CMGS">> /\ x7[x1.message] = 1..x1.segment
      BY <1>1, <1>3, <1>4, ExchangeIs DEF ModeExchange, PromptExchange, AnswerExchange
    <2> QED  BY <1>3, <2>1 DEF V!Complete
  <1>5. \/ ~V!Complete(x3') /\ UNCHANGED <<x1, x2, x8>>
        \/ "ERROR" \notin x3' /\ x1.segment = Segments /\ V!Answers(Segments)
        \/ /\ "ERROR" \notin x3' /\ x1.segment # Segments
           /\ x1' = [x1 EXCEPT !.at = "segment", !.segment = @ + 1]
           /\ x2' = "none" /\ x8' = x8
        \/ V!Fails
    BY DEF V!HearsAnswer
  <1>6. CASE ~V!Complete(x3') /\ UNCHANGED <<x1, x2, x8>>
    BY <1>1, <1>2, <1>3, <1>4, <1>6, SenderGoes
  <1>7. CASE /\ "ERROR" \notin x3' /\ x1.segment # Segments
             /\ x1' = [x1 EXCEPT !.at = "segment", !.segment = @ + 1]
             /\ x2' = "none" /\ x8' = x8
    <2>1. x1' \in SendRequest /\ x1'.message = x1.message /\ x1'.segment = x1.segment + 1
          /\ x1'.at = "segment"
      <3>1. x1.segment + 1 \in 1..Segments
        BY <1>2, <1>7, SegmentsNat
      <3> QED  BY <1>2, <1>7, <3>1 DEF SendRequest
    <2>2. x1'.segment - 1 = x1.segment
      BY <1>2, <2>1
    <2> QED  BY <1>1, <1>3, <1>4, <1>7, <2>1, <2>2, SenderGoes
  <1>8. CASE V!Fails
    BY <1>1, <1>3, <1>8, SendFails
  <1>9. CASE "ERROR" \notin x3' /\ x1.segment = Segments /\ V!Answers(Segments)
    <2>1. Segments \in Nat /\ Segments < V!Unanswered
      BY SegmentsNat DEF V!Unanswered
    <2>2. ASSUME x1.message \notin x9
          PROVE  /\ 1..Segments \subseteq x7[x1.message]
                 /\ x7[x1.message] \subseteq 1..(Segments + 1)
                 /\ PdusIn(x4) = {}
      <3>1. x7[x1.message] = 1..Segments /\ x4 = <<>>
        BY <1>4, <1>9, <2>2
      <3> QED  BY <2>1, <3>1 DEF PdusIn
    <2> QED  BY <1>1, <1>3, <1>9, <2>1, <2>2, SendEnds
  <1> QED  BY <1>5, <1>6, <1>7, <1>8, <1>9

LEMMA PromptHeard == ASSUME SendInv, V!HearsPrompt  PROVE SendInv'
  <1>1. x2 = "sender" /\ x1.at = "prompt" /\ V!Reads
    BY DEF V!HearsPrompt
  <1>2. x1 \in SendRequest /\ x1.segment \in 1..Segments /\ x1.message \in Callers
    BY <1>1, SenderIs DEF SendInv
  <1>3. /\ x5 # <<>> /\ x5' = Tail(x5) /\ x3' = x3 \cup {Head(x5)}
        /\ UNCHANGED <<x6, x7, x9, x10, x11>>
        /\ x5' \in Seq(V!Line) /\ x3' \subseteq V!Line
        /\ \A l : x5 = <<l>> => Head(x5) = l /\ x5' = <<>>
        /\ x10' \in 0..MaxTimeouts
    BY <1>1, SenderReads
  <1>4. ASSUME x1.message \notin x9
        PROVE  /\ CountedBefore(x1.message) /\ x3 = {} /\ x4 = <<>> /\ x5' = <<>>
               /\ \/ Head(x5) = ">" /\ x6 = "on" /\ "ERROR" \notin x3'
                  \/ Head(x5) = "ERROR" /\ "ERROR" \in x3'
    <2>1. /\ CountedBefore(x1.message) /\ x3 = {} /\ x4 = <<>>
          /\ \/ x5 = <<">">> /\ x6 = "on"
             \/ x5 = <<"ERROR">>
      BY <1>1, <1>3, <1>4, ExchangeIs DEF ModeExchange, PromptExchange, AnswerExchange
    <2> QED  BY <1>3, <2>1
  <1> DEFINE pdu == <<"PDU", x1.message, x1.segment>>
  <1>5. \/ "ERROR" \in x3' /\ V!Fails /\ x4' = x4
        \/ /\ "ERROR" \notin x3' /\ Head(x5) = ">" /\ x4' = Append(x4, pdu)
           /\ x1' = [x1 EXCEPT !.at = "answer"] /\ x2' = x2 /\ x8' = x8
        \/ "ERROR" \notin x3' /\ Head(x5) # ">" /\ UNCHANGED <<x1, x2, x4, x8>>
    BY DEF V!HearsPrompt
  <1>6. CASE "ERROR" \in x3' /\ V!Fails /\ x4' = x4
    BY <1>1, <1>3, <1>6, SendFails
  <1>7. CASE "ERROR" \notin x3' /\ Head(x5) # ">" /\ UNCHANGED <<x1, x2, x4, x8>>
    BY <1>1, <1>2, <1>3, <1>4, <1>7, SenderGoes
  <1>8. CASE /\ "ERROR" \notin x3' /\ Head(x5) = ">" /\ x4' = Append(x4, pdu)
             /\ x1' = [x1 EXCEPT !.at = "answer"] /\ x2' = x2 /\ x8' = x8
    <2>1. x1' \in SendRequest /\ x1'.message = x1.message /\ x1'.segment = x1.segment
          /\ x1'.at = "answer"
      BY <1>2, <1>8 DEF SendRequest
    <2>2. pdu \in V!Pdu /\ pdu \in Task /\ pdu[2] = x1.message /\ pdu[3] = x1.segment
      BY <1>2, PduIs DEF Task
    <2> HIDE DEF pdu
    <2>3. x4 \in Seq(Task)
      BY DEF SendInv, SendTypes, V!TypeOK, Task
    <2>4. x4' \in Seq(Task) /\ PdusIn(x4') = PdusIn(x4) \cup {pdu}
      BY <1>8, <2>2, <2>3, PdusAppend
    <2>5. SendTypes'
      BY <1>1, <1>3, <1>8, <2>1, <2>4 DEF SendInv, SendTypes, V!TypeOK, Task
    <2>6. ExchangeAlone'
      <3>1. SUFFICES ASSUME NEW m \in Callers \ x9, m = x1.message
                     PROVE  x8[m] = V!Unanswered /\ AnswerExchange'
        BY <1>1, <1>3, <1>8, <2>1 DEF ExchangeAlone, Own
      <3>2. x8[m] = V!Unanswered
        BY <1>1, <3>1, ExchangeIs
      <3>a. x3' = {">"} /\ x4 = <<>> /\ x5' = <<>> /\ x6' = "on"
        BY <1>3, <1>4, <1>8, <3>1
      <3>b. x4' = <<pdu>>
        BY <1>8, <3>a
      <3>3. x3' = {">"} /\ x4' = <<pdu>> /\ x5' = <<>> /\ x6' = "on"
        BY <3>a, <3>b
      <3>4. CountedBefore(x1.message)'
        BY <1>3, <1>4, <2>1, <3>1 DEF CountedBefore
      <3>5. x4' = <<<<"PDU", x1.message, x1.segment>>>>
        BY <3>3 DEF pdu
      <3> QED  BY <2>1, <3>2, <3>3, <3>4, <3>5 DEF AnswerExchange
    <2>7. PdusFollow'
      BY <1>1, <1>3, <1>8, <2>1, <2>2, <2>4 DEF SendInv, PdusFollow
    <2>8. CountsAccepted'
      BY <1>1, <1>3, <1>8, <2>1 DEF SendInv, CountsAccepted, Own
    <2> QED  BY <2>5, <2>6, <2>7, <2>8 DEF SendInv
  <1> QED  BY <1>5, <1>6, <1>7, <1>8

LEMMA ExchangeGivesUp == ASSUME SendInv, V!GivesUp  PROVE SendInv'
  <1>1. /\ x10' \in 0..MaxTimeouts /\ UNCHANGED <<x3, x5, x6, x7, x9, x11>>
        /\ x4' = x4 \/ (x2 = "sender" /\ x4' = Append(x4, V!ESC))
        /\ x3' \subseteq V!Line /\ x5' \in Seq(V!Line)
    BY SegmentsNat DEF V!GivesUp, SendInv, SendTypes, V!TypeOK
  <1>2. CASE x2 = "sender"
    <2>1. V!Fails
      BY <1>2 DEF V!GivesUp
    <2> QED  BY <1>1, <1>2, <2>1, SendFails
  <1>3. CASE x2 # "sender"
    <2>1. x2' = "none" /\ x4' = x4 /\ x1' = x1 /\ x8' = x8
      BY <1>1, <1>3 DEF V!GivesUp, SendInv, SendTypes, V!TypeOK
    <2>2. SendTypes'
      BY <1>1, <1>3, <2>1 DEF SendInv, SendTypes, V!TypeOK
    <2>3. ExchangeAlone'
      BY <1>1, <1>3, <2>1 DEF SendInv, ExchangeAlone, CountedBefore, Own
    <2>4. PdusFollow' /\ CountsAccepted'
      BY <1>1, <2>1 DEF SendInv, PdusFollow, CountsAccepted, Own
    <2> QED  BY <2>2, <2>3, <2>4 DEF SendInv
  <1> QED  BY <1>2, <1>3

LEMMA SaysLines ==
  ASSUME NEW p \in Seq(V!Line), NEW l \in V!Line
  PROVE  /\ p \o <<>> \in Seq(V!Line) /\ p \o <<l>> \in Seq(V!Line)
         /\ p = <<>> => p \o <<l>> = <<l>> /\ p \o <<>> = <<>>
  <1>1. <<l>> \in Seq(V!Line) /\ <<>> \in Seq(V!Line)
    OBVIOUS
  <1>2. p \o <<>> \in Seq(V!Line) /\ p \o <<l>> \in Seq(V!Line)
    BY <1>1
  <1>3. p = <<>> => p \o <<l>> = <<l>> /\ p \o <<>> = <<>>
    OBVIOUS
  <1> QED  BY <1>2, <1>3

\* The module works on what it was sent; only a segment in the editor is accepted.
LEMMA ModuleWorks ==
  ASSUME SendInv, V!WorksCommand \/ V!WorksEditor  PROVE SendInv'
  <1>1. /\ UNCHANGED <<x1, x2, x3, x8, x9, x10, x11>>
        /\ x4 # <<>> /\ x4' = Tail(x4)
    BY DEF V!WorksCommand, V!WorksEditor, V!Takes, V!Says
  <1>2. PICK lines \in {<<>>, <<"OK">>, <<"ERROR">>, <<">">>, <<"+CMGS">>} : x5' = x5 \o lines
    BY DEF V!WorksCommand, V!WorksEditor, V!Says
  <1>3. x4 \in Seq(Task) /\ x5 \in Seq(V!Line)
    BY DEF SendInv, SendTypes, V!TypeOK, Task
  <1>4. /\ x4' \in Seq(Task) /\ Head(x4) \in Task
        /\ PdusIn(x4') \subseteq PdusIn(x4)
        /\ Head(x4) \in V!Pdu => Head(x4) \in PdusIn(x4)
    BY <1>1, <1>3, PdusTail
  <1>5. x5' \in Seq(V!Line)
    <2>1. {"OK", "ERROR", ">", "+CMGS"} \subseteq V!Line
      BY DEF V!Line
    <2> QED  BY <1>2, <1>3, <2>1, SaysLines
  <1>6. x6' \in {"off", "on", "soiled"}
    BY DEF V!WorksCommand, V!WorksEditor, SendInv, SendTypes, V!TypeOK
  <1>7. PdusFollow'
    BY <1>1, <1>4 DEF SendInv, PdusFollow
  <1>8. x7 \in [Callers -> SUBSET V!Segment]
    BY DEF SendInv, SendTypes, V!TypeOK
  <1>9. ASSUME x7' = x7,
               x2 = "sender" /\ x1.at # "idle" /\ x1.message \notin x9 =>
                  (ModeExchange \/ PromptExchange \/ AnswerExchange)'
        PROVE  SendInv'
    <2>1. SendTypes'
      BY <1>1, <1>4, <1>5, <1>6, <1>9 DEF SendInv, SendTypes, V!TypeOK, Task
    <2>2. ExchangeAlone'
      BY <1>1, <1>9 DEF SendInv, ExchangeAlone, CountedBefore, Own
    <2>3. CountsAccepted'
      BY <1>1, <1>9 DEF SendInv, CountsAccepted, Own
    <2> QED  BY <1>7, <2>1, <2>2, <2>3 DEF SendInv
  <1> DEFINE own == x2 = "sender" /\ x1.at # "idle" /\ x1.message \notin x9
  <1>10. ASSUME own
         PROVE  /\ x5 = <<>> /\ x4' = <<>>
                /\ \/ ModeExchange /\ Head(x4) = V!AT /\ x6 = "off"
                   \/ PromptExchange /\ Head(x4) = V!CMGS /\ x6 = "off"
                   \/ AnswerExchange /\ Head(x4) = <<"PDU", x1.message, x1.segment>>
                      /\ x6 = "on" /\ CountedBefore(x1.message)
    <2>1. ModeExchange \/ PromptExchange \/ AnswerExchange
      BY <1>10, ExchangeIs
    <2>2. CASE ModeExchange
      <3>1. x4 = <<V!AT>> /\ x5 = <<>> /\ x6 = "off"
        BY <1>1, <2>2 DEF ModeExchange
      <3>2. Head(x4) = V!AT /\ Tail(x4) = <<>>
        BY <3>1
      <3> QED  BY <1>1, <2>2, <3>1, <3>2
    <2>3. CASE PromptExchange
      <3>1. x4 = <<V!CMGS>> /\ x5 = <<>> /\ x6 = "off"
        BY <1>1, <2>3 DEF PromptExchange
      <3>2. Head(x4) = V!CMGS /\ Tail(x4) = <<>>
        BY <3>1
      <3> QED  BY <1>1, <2>3, <3>1, <3>2
    <2>4. CASE AnswerExchange
      <3>1. /\ x4 = <<<<"PDU", x1.message, x1.segment>>>> /\ x5 = <<>> /\ x6 = "on"
            /\ CountedBefore(x1.message)
        BY <1>1, <2>4 DEF AnswerExchange
      <3>2. Head(x4) = <<"PDU", x1.message, x1.segment>> /\ Tail(x4) = <<>>
        BY <3>1
      <3> QED  BY <1>1, <2>4, <3>1, <3>2
    <2> QED  BY <2>1, <2>2, <2>3, <2>4
  <1>11. own => x1.message \in Callers /\ x1.segment \in 1..Segments
    BY SenderIs DEF SendInv, SendTypes
  <1>12. CASE V!WorksCommand
    <2>1. x6 = "off" /\ x7' = x7
      BY <1>12 DEF V!WorksCommand
    <2>2. ASSUME own  PROVE (ModeExchange \/ PromptExchange \/ AnswerExchange)'
      <3>1. x5' = lines
        BY <1>2, <1>10, <2>2
      <3>2. CASE ModeExchange /\ Head(x4) = V!AT
        <4>1. Head(x4) \notin {V!CMGS, V!ESC} \cup V!Pdu
          BY <3>2, NoPdus DEF V!AT, V!CMGS, V!ESC
        <4>2. (x5' = x5 \o <<"OK">> \/ x5' = x5 \o <<"ERROR">>) /\ x6' = x6
          BY <1>12, <4>1 DEF V!WorksCommand, V!Takes, V!Says
        <4>3. x5' \in {<<"OK">>, <<"ERROR">>}
          BY <1>10, <2>2, <4>2
        <4> QED  BY <1>1, <1>10, <2>1, <2>2, <3>2, <4>2, <4>3 DEF ModeExchange, CountedBefore
      <3>3. CASE PromptExchange /\ Head(x4) = V!CMGS
        <4>1. Head(x4) \notin {V!AT, V!ESC} \cup V!Pdu
          BY <3>3, NoPdus DEF V!AT, V!CMGS, V!ESC
        <4>2. \/ x5' = x5 \o <<">">> /\ x6' = "on"
              \/ x5' = x5 \o <<"ERROR">> /\ x6' = x6
          BY <1>12, <4>1 DEF V!WorksCommand, V!Takes, V!Says
        <4>3. \/ x5' = <<">">> /\ x6' = "on"
              \/ x5' = <<"ERROR">> /\ x6' = "off"
          BY <1>10, <2>1, <2>2, <4>2
        <4> QED  BY <1>1, <1>10, <2>1, <2>2, <3>3, <4>3 DEF PromptExchange, CountedBefore
      <3> QED  BY <1>10, <2>1, <2>2, <3>2, <3>3
    <2> QED  BY <1>9, <2>1, <2>2
  <1>13. CASE V!WorksEditor
    <2>1. x6 # "off"
      BY <1>13 DEF V!WorksEditor
    <2>2. ASSUME own
          PROVE  /\ AnswerExchange /\ Head(x4) = <<"PDU", x1.message, x1.segment>>
                 /\ x6 = "on" /\ CountedBefore(x1.message) /\ Head(x4) \in V!Pdu
                 /\ Head(x4) \notin {V!AT, V!CMGS, V!ESC}
      <3>1. /\ AnswerExchange /\ Head(x4) = <<"PDU", x1.message, x1.segment>>
            /\ x6 = "on" /\ CountedBefore(x1.message)
        BY <1>10, <2>1, <2>2
      <3>a. x1.message \in Callers /\ x1.segment \in 1..Segments
        BY <1>11, <2>2
      <3>b. <<"PDU", x1.message, x1.segment>> \in V!Pdu
        BY <3>a, PduIs
      <3>2. Head(x4) \in V!Pdu
        BY <3>1, <3>b
      <3> QED  BY <3>1, <3>2, NoPdus
    <2>3. CASE x7' = x7
      <3>1. ASSUME own  PROVE AnswerExchange'
        <4>1. \/ x5' = x5 \o <<"ERROR">> /\ x6' = "off"
              \/ x7' = [x7 EXCEPT ![Head(x4)[2]] = @ \cup {Head(x4)[3]}] /\ x6' = "off"
                 /\ x5' = x5 \o <<"+CMGS">>
          BY <1>13, <2>2, <3>1 DEF V!WorksEditor, V!Takes, V!Says
        <4>2. CASE x5' = x5 \o <<"ERROR">> /\ x6' = "off"
          <5>0. x5 = <<>>
            BY <1>10, <3>1
          <5>1. x5' = <<"ERROR">>
            BY <4>2, <5>0
          <5> QED  BY <1>1, <1>10, <2>2, <2>3, <3>1, <4>2, <5>1 DEF AnswerExchange, CountedBefore
        <4>3. CASE /\ x7' = [x7 EXCEPT ![Head(x4)[2]] = @ \cup {Head(x4)[3]}] /\ x6' = "off"
                   /\ x5' = x5 \o <<"+CMGS">>
          <5>1. Head(x4)[2] = x1.message /\ Head(x4)[3] = x1.segment
            BY <1>11, <2>2, <3>1, PduIs
          <5>2. x7'[x1.message] = x7[x1.message] \cup {x1.segment}
            BY <1>8, <1>11, <3>1, <4>3, <5>1
          <5>3. FALSE
            <6>1. x1.segment \in 1..(x1.segment - 1)
              BY <2>2, <2>3, <3>1, <5>2 DEF CountedBefore
            <6> QED  BY <1>11, <3>1, <6>1, SegmentsNat
          <5> QED  BY <5>3
        <4> QED  BY <4>1, <4>2, <4>3
      <3> QED  BY <1>9, <2>3, <3>1
    <2>4. CASE x7' # x7
      <3> DEFINE p == Head(x4)
      <3>1. /\ p \in V!Pdu /\ x6' = "off" /\ x6 = "on" /\ x5' = x5 \o <<"+CMGS">>
            /\ x7' = [x7 EXCEPT ![p[2]] = @ \cup {p[3]}]
        BY <1>13, <2>4 DEF V!WorksEditor, V!Takes, V!Says
      <3>2. p \in PdusIn(x4) /\ p[2] \in Callers /\ p[3] \in V!Segment
        BY <1>4, <3>1, PduParts DEF V!Segment
      <3>3. /\ x7'[p[2]] = x7[p[2]] \cup {p[3]}
            /\ \A m \in Callers : m # p[2] => x7'[m] = x7[m]
            /\ x7' \in [Callers -> SUBSET V!Segment]
        BY <1>8, <3>1, <3>2
      <3>4. own => p[2] = x1.message /\ p[3] = x1.segment
        BY <1>11, <2>2, PduIs
      <3> HIDE DEF p
      <3>5. ASSUME p[2] \notin x9, ~own
            PROVE  x8[p[2]] # V!Unanswered /\ p[3] = x8[p[2]] + 1
        BY <3>2, <3>5 DEF SendInv, SendTypes, PdusFollow
      <3>6. SendTypes'
        BY <1>1, <1>4, <1>5, <1>6, <3>3 DEF SendInv, SendTypes, V!TypeOK, Task
      <3>7. ExchangeAlone'
        <4>1. SUFFICES ASSUME NEW m \in Callers \ x9, Own(m)
                       PROVE  /\ x8[m] = V!Unanswered
                              /\ x2 # "sender" => CountedBefore(m)'
                              /\ x2 = "sender" => AnswerExchange'
          BY <1>1 DEF ExchangeAlone, Own
        <4>2. x8[m] = V!Unanswered /\ (x2 # "sender" => CountedBefore(m))
          BY <4>1 DEF SendInv, ExchangeAlone
        <4>3. CASE x2 # "sender"
          <5>1. p[2] # m
            BY <3>5, <4>1, <4>2, <4>3 DEF Own
          <5> QED  BY <1>1, <3>3, <4>2, <4>3, <5>1 DEF CountedBefore
        <4>4. CASE x2 = "sender"
          <5>1. own /\ m = x1.message
            BY <4>1, <4>4 DEF Own
          <5>a. x4' = <<>> /\ x5 = <<>> /\ x3' = {">"} /\ x1'.at = "answer"
            BY <1>1, <1>10, <2>2, <5>1 DEF AnswerExchange
          <5>2. x4' = <<>> /\ x5' = <<"+CMGS">> /\ x3' = {">"} /\ x1'.at = "answer"
            BY <3>1, <5>a
          <5>3. x7'[x1.message] = 1..x1.segment
            <6>1. x7'[x1.message] = (1..(x1.segment - 1)) \cup {x1.segment}
              BY <2>2, <3>3, <3>4, <5>1 DEF CountedBefore
            <6> QED  BY <1>11, <5>1, <6>1, SegmentsNat
          <5> QED  BY <1>1, <3>1, <4>2, <4>4, <5>2, <5>3 DEF AnswerExchange
        <4> QED  BY <4>3, <4>4
      <3>8. CountsAccepted'
        <4>1. SUFFICES ASSUME NEW m \in Callers \ x9
                       PROVE  /\ x8[m] # V!Unanswered =>
                                   1..x8[m] \subseteq x7'[m] /\ x7'[m] \subseteq 1..(x8[m] + 1)
                              /\ x8[m] = V!Unanswered /\ ~Own(m) => x7'[m] = {}
          BY <1>1 DEF CountsAccepted, Own
        <4>2. CASE m # p[2]
          BY <3>3, <4>1, <4>2 DEF SendInv, CountsAccepted
        <4>3. CASE m = p[2] /\ ~own
          <5>1. x8[m] # V!Unanswered /\ p[3] = x8[m] + 1 /\ x8[m] \in Nat
            BY <3>5, <4>1, <4>3, SegmentsNat DEF SendInv, SendTypes, V!TypeOK, V!Unanswered
          <5>2. 1..x8[m] \subseteq x7[m] /\ x7[m] \subseteq 1..(x8[m] + 1)
            BY <4>1, <5>1 DEF SendInv, CountsAccepted
          <5> QED  BY <3>3, <4>3, <5>1, <5>2
        <4>4. CASE m = p[2] /\ own
          BY <3>4, <4>1, <4>4, ExchangeIs DEF Own
        <4> QED  BY <4>2, <4>3, <4>4
      <3> QED  BY <1>7, <3>6, <3>7, <3>8 DEF SendInv
    <2> QED  BY <2>3, <2>4
  <1> QED  BY <1>12, <1>13

LEMMA SendNext == ASSUME SendInv, V!Next  PROVE SendInv'
  <1>1. \/ \E m \in Callers : V!Send(m)
        \/ V!Exchange \/ V!OtherCommand
        \/ V!HearsOther \/ V!HearsMode \/ V!HearsPrompt \/ V!HearsAnswer \/ V!GivesUp
        \/ V!WorksCommand \/ V!WorksEditor
    BY DEF V!Next
  <1> QED  BY <1>1, SendBegins, SendExchanges, OthersCommand, OthersHear, ModeHeard,
              PromptHeard, AnswerHeard, ExchangeGivesUp, ModuleWorks

LEMMA SendTyped == ASSUME SendInv  PROVE V!TypeOK /\ V!SentIsAccepted
  BY DEF SendInv, SendTypes, CountsAccepted, V!SentIsAccepted
-----------------------------------------------------------------------------
(* The ADB client and the pipe to the module *)

Items(q) == {q[i] : i \in 1..Len(q)}
\* What of q is behind the last element of K, and what is up to the first.
Behind(q, K) == {q[j] : j \in {i \in 1..Len(q) : \A k \in i..Len(q) : q[k] \notin K}}
UpTo(q, K) == {q[j] : j \in {i \in 1..Len(q) : \A k \in 1..i : q[k] \notin K}}
Once(q, K) == \A i, j \in 1..Len(q) : i < j /\ q[i] \in K => q[j] \notin K
NoneOf(q, K) == \A m \in Items(q) : m \notin K

\* What a queue that lost its head, and one that got an item, has of the one before.
ShorterBy(q, h, p) ==
    /\ h \in Items(q)
    /\ \A m \in Items(q) : m = h \/ m \in Items(p)
    /\ \A m \in Items(p) : m \in Items(q)
    /\ \A K : /\ \A m \in Behind(p, K) : m \in Behind(q, K)
              /\ h \notin K => h \in UpTo(q, K) /\ \A m \in UpTo(p, K) : m \in UpTo(q, K)
              /\ h \notin K /\ NoneOf(p, K) => h \in Behind(q, K)
              /\ Once(q, K) => Once(p, K) /\ (h \in K => NoneOf(p, K))
LEMMA Dequeued ==
  ASSUME NEW M, NEW q \in Seq(M), q # <<>>
  PROVE  Tail(q) \in Seq(M) /\ Head(q) \in M /\ ShorterBy(q, Head(q), Tail(q))
  <1> DEFINE t == Tail(q)
  <1>1. /\ t \in Seq(M) /\ Head(q) = q[1] /\ Len(t) = Len(q) - 1 /\ Len(q) \in Nat \ {0}
        /\ Head(q) \in M
    OBVIOUS
  <1>2. \A i \in 1..Len(t) : t[i] = q[i + 1]
    OBVIOUS
  <1> HIDE DEF t
  <1>3. Head(q) \in Items(q)
    BY <1>1 DEF Items
  <1>4. \A m \in Items(q) : m = Head(q) \/ m \in Items(t)
    <2>1. ASSUME NEW i \in 1..Len(q)  PROVE q[i] = Head(q) \/ q[i] \in Items(t)
      <3>1. CASE i = 1
        BY <1>1, <3>1
      <3>2. CASE i # 1
        <4>1. i - 1 \in 1..Len(t) /\ t[i - 1] = q[i]
          BY <1>1, <1>2, <3>2
        <4> QED  BY <4>1 DEF Items
      <3> QED  BY <3>1, <3>2
    <2> QED  BY <2>1 DEF Items
  <1>5. \A m \in Items(t) : m \in Items(q)
    <2>1. ASSUME NEW i \in 1..Len(t)  PROVE t[i] \in Items(q)
      <3>1. i + 1 \in 1..Len(q)
        BY <1>1
      <3> QED  BY <1>2, <3>1 DEF Items
    <2> QED  BY <2>1 DEF Items
  <1>6. ASSUME NEW K, NEW m \in Behind(t, K)  PROVE m \in Behind(q, K)
    <2>1. PICK i \in 1..Len(t) : m = t[i] /\ \A k \in i..Len(t) : t[k] \notin K
      BY DEF Behind
    <2>2. i + 1 \in 1..Len(q) /\ m = q[i + 1]
      BY <1>1, <1>2, <2>1
    <2>3. ASSUME NEW k \in i + 1..Len(q)  PROVE q[k] \notin K
      <3>1. k - 1 \in i..Len(t) /\ k - 1 \in 1..Len(t) /\ (k - 1) + 1 = k
        BY <1>1
      <3> QED  BY <1>2, <2>1, <3>1
    <2> QED  BY <2>2, <2>3 DEF Behind
  <1>7. ASSUME NEW K, Head(q) \notin K  PROVE Head(q) \in UpTo(q, K)
    BY <1>1, <1>7 DEF UpTo
  <1>8. ASSUME NEW K, Head(q) \notin K, NEW m \in UpTo(t, K)  PROVE m \in UpTo(q, K)
    <2>1. PICK i \in 1..Len(t) : m = t[i] /\ \A k \in 1..i : t[k] \notin K
      BY DEF UpTo
    <2>2. i + 1 \in 1..Len(q) /\ m = q[i + 1]
      BY <1>1, <1>2, <2>1
    <2>3. ASSUME NEW k \in 1..i + 1  PROVE q[k] \notin K
      <3>1. CASE k = 1
        BY <1>1, <1>8, <3>1
      <3>2. CASE k # 1
        <4>1. k - 1 \in 1..i /\ k - 1 \in 1..Len(t) /\ (k - 1) + 1 = k
          BY <1>1, <3>2
        <4> QED  BY <1>2, <2>1, <4>1
      <3> QED  BY <3>1, <3>2
    <2> QED  BY <2>2, <2>3 DEF UpTo
  <1>9. ASSUME NEW K, Head(q) \notin K, NoneOf(t, K)  PROVE Head(q) \in Behind(q, K)
    <2>1. ASSUME NEW k \in 1..Len(q)  PROVE q[k] \notin K
      BY <1>3, <1>4, <1>9, <2>1 DEF Items, NoneOf
    <2> QED  BY <1>1, <2>1 DEF Behind
  <1>10. ASSUME NEW K, Once(q, K)  PROVE Once(t, K)
    <2>1. ASSUME NEW i \in 1..Len(t), NEW j \in 1..Len(t), i < j, t[i] \in K
          PROVE t[j] \notin K
      <3>1. i + 1 \in 1..Len(q) /\ j + 1 \in 1..Len(q) /\ i + 1 < j + 1
        BY <1>1, <2>1
      <3> QED  BY <1>2, <1>10, <2>1, <3>1 DEF Once
    <2> QED  BY <2>1 DEF Once
  <1>11. ASSUME NEW K, Once(q, K), Head(q) \in K  PROVE NoneOf(t, K)
    <2>1. ASSUME NEW i \in 1..Len(t)  PROVE t[i] \notin K
      <3>1. 1 \in 1..Len(q) /\ i + 1 \in 1..Len(q) /\ 1 < i + 1 /\ q[1] \in K
        BY <1>1, <1>11
      <3> QED  BY <1>2, <1>11, <3>1 DEF Once
    <2> QED  BY <2>1 DEF NoneOf, Items
  <1>12. t \in Seq(M) /\ Head(q) \in M
    BY <1>1
  <1> QED  BY <1>3, <1>4, <1>5, <1>6, <1>7, <1>8, <1>9, <1>10, <1>11, <1>12 DEF t, ShorterBy

LongerBy(q, m, p) ==
    /\ m \in Items(p)
    /\ \A x \in Items(p) : x \in Items(q) \/ x = m
    /\ \A x \in Items(q) : x \in Items(p)
    /\ \A K : /\ m \in K => Behind(p, K) = {}
              /\ \A x \in Behind(p, K) : x \in Behind(q, K) \/ x = m
              /\ \A x \in UpTo(p, K) : x \in UpTo(q, K) \/ x = m
              /\ ~NoneOf(q, K) \/ m \in K => \A x \in UpTo(p, K) : x \in UpTo(q, K)
              /\ Once(q, K) /\ (m \in K => NoneOf(q, K)) => Once(p, K)
LEMMA Enqueued ==
  ASSUME NEW M, NEW q \in Seq(M), NEW m \in M, NEW p, p = q \o <<m>>
  PROVE  p \in Seq(M) /\ LongerBy(q, m, p)
  <1>1. /\ p \in Seq(M) /\ Len(p) = Len(q) + 1 /\ Len(q) \in Nat /\ p[Len(q) + 1] = m
    OBVIOUS
  <1>2. \A i \in 1..Len(q) : p[i] = q[i]
    OBVIOUS
  <1>3. \A i \in 1..Len(p) : i \in 1..Len(q) \/ i = Len(q) + 1
    BY <1>1
  <1>4. \A i \in 1..Len(q) : i \in 1..Len(p)
    BY <1>1
  <1>5. Len(q) + 1 \in 1..Len(p)
    BY <1>1
  <1>6. m \in Items(p)
    BY <1>1, <1>5 DEF Items
  <1>7. \A x \in Items(p) : x \in Items(q) \/ x = m
    BY <1>1, <1>2, <1>3 DEF Items
  <1>8. \A x \in Items(q) : x \in Items(p)
    BY <1>2, <1>4 DEF Items
  <1>9. ASSUME NEW K, NEW x \in Behind(p, K)
        PROVE m \notin K /\ (x \in Behind(q, K) \/ x = m)
    <2>1. PICK i \in 1..Len(p) : x = p[i] /\ \A k \in i..Len(p) : p[k] \notin K
      BY DEF Behind
    <2>2. m \notin K
      <3>1. Len(q) + 1 \in i..Len(p)
        BY <1>1
      <3> QED  BY <1>1, <2>1, <3>1
    <2>3. CASE i = Len(q) + 1
      BY <1>1, <2>1, <2>2, <2>3
    <2>4. CASE i \in 1..Len(q)
      <3>1. ASSUME NEW k \in i..Len(q)  PROVE q[k] \notin K
        <4>1. k \in i..Len(p) /\ k \in 1..Len(q)
          BY <1>1, <2>4
        <4> QED  BY <1>2, <2>1, <4>1
      <3> QED  BY <1>2, <2>1, <2>2, <2>4, <3>1 DEF Behind
    <2> QED  BY <1>3, <2>3, <2>4
  <1>10. ASSUME NEW K, NEW x \in UpTo(p, K)
         PROVE  /\ x \in UpTo(q, K) \/ x = m
                /\ ~NoneOf(q, K) \/ m \in K => x \in UpTo(q, K)
    <2>1. PICK i \in 1..Len(p) : x = p[i] /\ \A k \in 1..i : p[k] \notin K
      BY DEF UpTo
    <2>2. CASE i = Len(q) + 1
      <3>1. m \notin K /\ x = m
        BY <1>1, <2>1, <2>2
      <3>2. ASSUME NEW k \in 1..Len(q)  PROVE q[k] \notin K
        <4>1. k \in 1..i
          BY <1>1, <2>2
        <4> QED  BY <1>2, <2>1, <4>1
      <3> QED  BY <3>1, <3>2 DEF NoneOf, Items
    <2>3. CASE i \in 1..Len(q)
      <3>1. ASSUME NEW k \in 1..i  PROVE q[k] \notin K
        <4>1. k \in 1..Len(q)
          BY <1>1, <2>3
        <4> QED  BY <1>2, <2>1, <4>1
      <3> QED  BY <1>2, <2>1, <2>3, <3>1 DEF UpTo
    <2> QED  BY <1>3, <2>2, <2>3
  <1>11. ASSUME NEW K, Once(q, K), m \in K => NoneOf(q, K)  PROVE Once(p, K)
    <2>1. ASSUME NEW i \in 1..Len(p), NEW j \in 1..Len(p), i < j, p[i] \in K
          PROVE p[j] \notin K
      <3>1. i \in 1..Len(q)
        BY <1>1, <2>1
      <3>2. CASE j \in 1..Len(q)
        BY <1>2, <1>11, <2>1, <3>1, <3>2 DEF Once
      <3>3. CASE j = Len(q) + 1
        BY <1>1, <1>2, <1>11, <2>1, <3>1, <3>3 DEF NoneOf, Items
      <3> QED  BY <1>3, <3>2, <3>3
    <2> QED  BY <2>1 DEF Once
  <1>12. p \in Seq(M)
    BY <1>1
  <1> QED  BY <1>6, <1>7, <1>8, <1>9, <1>10, <1>11, <1>12 DEF LongerBy

LEMMA TwoEnqueued ==
  ASSUME NEW M, NEW q \in Seq(M), NEW a \in M, NEW b \in M
  PROVE  q \o <<a, b>> = (q \o <<a>>) \o <<b>>
  <1> DEFINE p == q \o <<a, b>>
             r == q \o <<a>>
             t == r \o <<b>>
  <1>1. p \in Seq(M) /\ Len(p) = Len(q) + 2 /\ Len(q) \in Nat
    OBVIOUS
  <1>2. r \in Seq(M) /\ Len(r) = Len(q) + 1 /\ r[Len(q) + 1] = a
    OBVIOUS
  <1>3. \A i \in 1..Len(q) : p[i] = q[i] /\ r[i] = q[i]
    OBVIOUS
  <1>4. p[Len(q) + 1] = a /\ p[Len(q) + 2] = b
    OBVIOUS
  <1> HIDE DEF r
  <1>5. t \in Seq(M) /\ Len(t) = Len(r) + 1 /\ t[Len(r) + 1] = b
    BY <1>2
  <1>6. \A i \in 1..Len(r) : t[i] = r[i]
    BY <1>2
  <1> HIDE DEF p, t
  <1>7. Len(p) = Len(t)
    BY <1>1, <1>2, <1>5
  <1>8. ASSUME NEW i \in 1..Len(p)  PROVE p[i] = t[i]
    <2>1. CASE i \in 1..Len(q)
      <3>1. i \in 1..Len(r)
        BY <1>1, <1>2, <2>1
      <3> QED  BY <1>3, <1>6, <2>1, <3>1
    <2>2. CASE i = Len(q) + 1
      <3>1. i \in 1..Len(r)
        BY <1>1, <1>2, <2>2
      <3> QED  BY <1>2, <1>4, <1>6, <2>2, <3>1
    <2>3. CASE i = Len(q) + 2
      <3>1. i = Len(r) + 1
        BY <1>1, <1>2, <2>3
      <3> QED  BY <1>4, <1>5, <2>3, <3>1
    <2> QED  BY <1>1, <2>1, <2>2, <2>3
  <1>9. p = t
    BY <1>1, <1>5, <1>7, <1>8
  <1> QED  BY <1>9 DEF p, t, r

\* Its head in pieces.
LEMMA HeadTorn ==
  ASSUME NEW M, NEW q \in Seq(M), q # <<>>, NEW z \in M, NEW p, p = <<z>> \o Tail(q)
  PROVE  /\ p \in Seq(M)
         /\ \A x \in Items(p) : x \in Items(q) \/ x = z
         /\ \A K : z \notin K /\ Once(q, K) => Once(p, K)
  <1> DEFINE t == Tail(q)
  <1>1. t \in Seq(M) /\ Len(t) = Len(q) - 1 /\ Len(q) \in Nat \ {0}
    OBVIOUS
  <1>2. \A i \in 1..Len(t) : t[i] = q[i + 1]
    OBVIOUS
  <1> HIDE DEF t
  <1>3. p = <<z>> \o t
    BY DEF t
  <1>4. p \in Seq(M) /\ Len(p) = Len(t) + 1 /\ p[1] = z
    BY <1>1, <1>3
  <1>5. \A i \in 2..Len(p) : p[i] = t[i - 1]
    BY <1>1, <1>3
  <1>6. Len(p) = Len(q)
    BY <1>1, <1>4
  <1>7. \A i \in 2..Len(p) : p[i] = q[i]
    <2>1. ASSUME NEW i \in 2..Len(p)  PROVE p[i] = q[i]
      <3>1. i - 1 \in 1..Len(t) /\ (i - 1) + 1 = i
        BY <1>1, <1>6
      <3> QED  BY <1>2, <1>5, <3>1
    <2> QED  BY <2>1
  <1>8. ASSUME NEW x \in Items(p)  PROVE x \in Items(q) \/ x = z
    <2>1. PICK i \in 1..Len(p) : x = p[i]
      BY DEF Items
    <2>2. CASE i = 1
      BY <1>4, <2>1, <2>2
    <2>3. CASE i # 1
      <3>1. i \in 2..Len(p) /\ i \in 1..Len(q)
        BY <1>1, <1>6, <2>3
      <3> QED  BY <1>7, <2>1, <3>1 DEF Items
    <2> QED  BY <2>2, <2>3
  <1>9. ASSUME NEW K, z \notin K, Once(q, K)  PROVE Once(p, K)
    <2>1. ASSUME NEW i \in 1..Len(p), NEW j \in 1..Len(p), i < j, p[i] \in K
          PROVE p[j] \notin K
      <3>1. i # 1
        BY <1>4, <1>9, <2>1
      <3>2. i \in 2..Len(p) /\ j \in 2..Len(p) /\ i \in 1..Len(q) /\ j \in 1..Len(q)
        BY <1>1, <1>6, <2>1, <3>1
      <3> QED  BY <1>7, <1>9, <2>1, <3>2 DEF Once
    <2> QED  BY <2>1 DEF Once
  <1> QED  BY <1>4, <1>8, <1>9

AdbKinds == {"shell", "push", "pull"}
AdbBody == (AdbKinds \cup {"", "SEND", "DATA", "DONE", "RECV", "OKAY", "FAIL", "status"}) \X Nat
AdbMessage == [cmd : {"CNXN", "OPEN", "WRTE", "OKAY", "CLSE", "torn"},
               from : Nat, to : Nat, body : AdbBody]
AdbCall == [n : Nat, kind : AdbKinds \cup {"none"},
            at : {"none", "connect", "open", "write", "reply", "close"},
            loc : Nat, rem : Nat, record : 1..3, got : Seq(AdbBody), ok : BOOLEAN]
AdbStream == [rem : Nat, loc : Nat, n : Nat, kind : AdbKinds,
              at : {"run", "sent", "said"} \cup AdbKinds \cup
                  {"", "SEND", "DATA", "DONE", "RECV", "OKAY", "FAIL", "status"},
             ready : BOOLEAN]

\* The messages that connect, those that open a stream for a call, and those of
\* a kind from or to a stream of the module.
Connects == {m \in AdbMessage : m.cmd = "CNXN"}
OpensOf(n) == {m \in AdbMessage : m.cmd = "OPEN" /\ m.body[2] = n}
From(cmd, r) == {m \in AdbMessage : m.cmd = cmd /\ m.from = r}
Towards(cmd, r) == {m \in AdbMessage : m.cmd = cmd /\ m.to = r}
OfStream == {"WRTE", "OKAY", "CLSE"}
AtStream == x2.at \in {"open", "write", "reply", "close"}

AdbTypes ==
    /\ x1 \in [number : 1..MaxClients, connected : BOOLEAN, next : Nat]
    /\ x2 \in AdbCall /\ x3 \in AdbCall /\ x4 \in Seq(AdbMessage) /\ x5 \in Seq(AdbMessage)
    /\ x6 \subseteq AdbStream /\ x7 \in Nat \ {0} /\ x8 \in Nat \X {"none", "part", "whole"}
    /\ x3.n <= MaxCalls
    /\ \/ x2 = A!NoCall
       \/ x2.n = x3.n + 1 /\ x2.n <= MaxCalls /\ x2.at # "none" /\ x2.kind \in AdbKinds
    /\ x2.at \in {"none", "connect", "open", "write"} => x2.got = <<>>
    /\ x2.at \in {"none", "connect", "open"} => x2.rem = 0
    /\ x2.kind # "push" \/ x2.at \in {"connect", "open"} => x2.record = 1
    /\ x2.at = "write" => x2.kind # "shell"

\* Numbers of calls and of streams have been given out, and what is sent is whole.
Numbered ==
    /\ \A m \in Items(x4) : m.cmd # "torn"
    /\ \A m \in Items(x4) : m.cmd = "OPEN" =>
          m.body[2] <= x3.n \/ (AtStream /\ m.body[2] = x2.n)
    /\ \A m \in Items(x4) : m.cmd = "WRTE" =>
          \/ m.body[2] <= x3.n
          \/ x2.at \in {"write", "reply", "close"} /\ m.body[2] = x2.n /\ m.to = x2.rem
    /\ \A m \in Items(x5) : m.cmd = "WRTE" =>
          m.body[2] <= x3.n \/ (AtStream /\ m.body[2] = x2.n)
    /\ \A s \in x6 : s.n <= x3.n \/ (AtStream /\ s.n = x2.n)
    /\ \A m \in Items(x4) : m.cmd \in OfStream => m.to < x7
    /\ \A m \in Items(x5) : m.cmd \in OfStream => m.from < x7
    /\ \A s \in x6 : s.rem < x7
    /\ x2.rem < x7

\* No two streams, and no stream and an OPEN to come, are of the same call.
StreamsApart ==
    /\ \A s, t \in x6 : s.rem = t.rem \/ s.n = t.n => s = t
    /\ \A s \in x6, m \in Items(x5) : m.cmd \in OfStream /\ m.from = s.rem => m.to = s.loc
    /\ \A n \in Nat : Once(x4, OpensOf(n))
    /\ \A s \in x6 : NoneOf(x4, OpensOf(s.n))
    /\ AtStream => \A s \in x6 : s.n = x2.n => s.loc = x2.loc /\ s.kind = x2.kind
    /\ AtStream => \A m \in Items(x4) : m.cmd = "OPEN" /\ m.body[2] = x2.n =>
          m.from = x2.loc /\ m.body[1] = x2.kind
    /\ \A m \in Items(x4) : m.cmd = "OPEN" => m.body[1] \in AdbKinds

\* A stream has one record, or its acknowledgement, under way in a direction.
OneRecord ==
    \A r \in Nat :
        /\ Once(x4, Towards("WRTE", r)) /\ Once(x5, From("OKAY", r))
        /\ NoneOf(x4, Towards("WRTE", r)) \/ NoneOf(x5, From("OKAY", r))
OneAnswer ==
    \A r \in Nat :
        /\ Once(x5, From("WRTE", r)) /\ Once(x4, Towards("OKAY", r))
        /\ NoneOf(x5, From("WRTE", r)) \/ NoneOf(x4, Towards("OKAY", r))
        /\ \A s \in x6 : s.rem = r /\ s.ready =>
              NoneOf(x5, From("WRTE", r)) /\ NoneOf(x4, Towards("OKAY", r))

\* What was opened before the last CNXN ends with it, and is the only thing of
\* another call that may have the number of this call's stream.
OldStreamsEnd ==
    /\ x2.at = "connect" =>
          /\ \A m \in Behind(x4, Connects) : m.cmd # "OPEN"
          /\ NoneOf(x4, Connects) => x6 = {}
    /\ x1.connected =>
          /\ \A m \in Behind(x4, Connects) : m.cmd = "OPEN" => m.from < x1.next
          /\ NoneOf(x4, Connects) => \A s \in x6 : s.loc < x1.next
    /\ AtStream =>
          /\ \A m \in Behind(x4, Connects) : m.cmd = "OPEN" /\ m.from = x2.loc => m.body[2] = x2.n
          /\ NoneOf(x4, Connects) => \A s \in x6 : s.loc = x2.loc => s.n = x2.n

\* A record reaches the stream of its call or none, and behind the OPEN of the
\* call under way comes nothing of another.
RecordsReach ==
    /\ \A m \in UpTo(x4, Connects), s \in x6 : m.cmd = "WRTE" /\ m.to = s.rem => m.body[2] = s.n
    /\ AtStream => \A m \in Behind(x4, OpensOf(x2.n)) :
          m.cmd \notin {"CNXN", "OPEN"} /\ (m.cmd = "WRTE" => m.body[2] = x2.n)
\* Nothing closes the stream of the call under way, which waits for its first record.
OwnStreamStays ==
    /\ x2.at \in {"open", "write", "reply"} =>
          \A s \in x6 : s.n = x2.n => NoneOf(x4, Towards("CLSE", s.rem))
    /\ x2.at = "open" /\ x2.kind # "shell" =>
          \A s \in x6 : s.n = x2.n => s.at = "run" /\ s.ready

\* A stream speaks for its own call, and a shell says its status once.
StreamsSpeak ==
    /\ \A s \in x6, m \in Items(x5) : m.cmd = "WRTE" /\ m.from = s.rem =>
          m.body[2] = s.n /\ (s.kind = "shell" => s.at # "run")
    /\ x2.kind = "shell" => \A m \in Items(x5) :
          m.cmd = "WRTE" /\ m.body[2] = x2.n => m.body[1] = "status"

StatusOf(n) == <<"status", n>>
\* The call took a stream of before for its own: it hears nothing of itself.
Foreign ==
    /\ \A s \in x6 : s.rem = x2.rem => s.n # x2.n
    /\ x2.kind = "shell" =>
          /\ \A m \in Items(x5) : m.cmd = "WRTE" /\ m.from = x2.rem => m.body[2] # x2.n
          /\ \A i \in 1..Len(x2.got) : x2.got[i][2] # x2.n
    /\ x2.kind # "shell" =>
          /\ x2.at = "write" /\ NoneOf(x5, From("OKAY", x2.rem))
          /\ \A m \in Items(x4) : m.cmd = "WRTE" /\ m.to = x2.rem => m.body[2] = x2.n
\* The call holds its own stream, and what it got is what that one said.
ShellOurs ==
    /\ x2.kind = "shell"
    /\ \A s \in x6 : s.rem = x2.rem =>
          s.n = x2.n /\ (s.at = "run" => x2.got = <<>> /\ NoneOf(x5, From("WRTE", x2.rem)))
    /\ \A m \in Items(x5) : m.cmd = "WRTE" /\ m.from = x2.rem =>
          m.body = StatusOf(x2.n) /\ x2.got = <<>>
    /\ x2.got \in {<<>>, <<StatusOf(x2.n)>>}
PullOurs(s) ==
    /\ x2.kind = "pull" /\ s.at \in {"run", "RECV", "sent", "said"}
    /\ \A m \in Items(x4) : m.cmd = "WRTE" /\ m.to = x2.rem =>
          m.body = <<"RECV", x2.n>> /\ s.at = "run"
    /\ s.at \in {"run", "RECV"} => x2.got = <<>> /\ NoneOf(x5, From("WRTE", x2.rem))
    /\ \A m \in Items(x5) : m.cmd = "WRTE" /\ m.from = x2.rem =>
          \/ m.body = StatusOf(x2.n) /\ x2.got = <<>> /\ s.at = "sent"
          \/ m.body = <<"DONE", x2.n>> /\ x2.got = <<StatusOf(x2.n)>> /\ s.at = "said"
          \/ m.body = <<"FAIL", x2.n>> /\ s.at = "said"
    /\ s.at = "sent" /\ (s.ready \/ ~NoneOf(x4, Towards("OKAY", x2.rem))) =>
          x2.got = <<StatusOf(x2.n)>>
PushRecord(i) == IF i = 1 THEN "SEND" ELSE IF i = 2 THEN "DATA" ELSE "DONE"
PushBefore(i) == IF i = 1 THEN "run" ELSE PushRecord(i - 1)
PushOurs(s) ==
    /\ x2.kind = "push"
    /\ \A m \in Items(x4) : m.cmd = "WRTE" /\ m.to = x2.rem =>
          /\ m.body = <<PushRecord(x2.record), x2.n>>
          /\ s.ready => s.at = PushBefore(x2.record)
    /\ ~NoneOf(x5, From("OKAY", x2.rem)) /\ s.ready => s.at = PushRecord(x2.record)
    /\ s.ready /\ s.at = "SEND" => x8 = <<x2.n, "part">>
    /\ s.ready /\ s.at \in {"DATA", "DONE"} => x8 = <<x2.n, "whole">>
    /\ s.at = "DONE" => x2.record = 3 /\ NoneOf(x4, Towards("WRTE", x2.rem))
    /\ \A m \in Items(x5) : m.cmd = "WRTE" /\ m.from = x2.rem /\ m.body[1] = "OKAY" =>
          /\ x8 = <<x2.n, "whole">> /\ s.at = "said" /\ x2.record = 3
          /\ NoneOf(x4, Towards("WRTE", x2.rem))
    /\ NoneOf(x4, Towards("OKAY", x2.rem))
StreamHeld ==
    x2.at \in {"write", "reply"} =>
        \/ Foreign
        \/ ShellOurs
        \/ \E s \in x6 : s.rem = x2.rem /\ s.n = x2.n /\ (PullOurs(s) \/ PushOurs(s))

\* The file of the push n is whole, and nothing under way touches it.
FileStays(n) ==
    /\ x8 = <<n, "whole">> /\ \A m \in Items(x4) : m.cmd = "WRTE" => m.body[1] = "RECV"
    /\ \A s \in x6 : s.n = n => s.at \notin {"SEND", "DATA"}
ToldRightly ==
    /\ x2.at = "close" /\ x2.ok =>
          /\ x2.kind \in {"push", "pull"}
          /\ x2.kind = "pull" => x2.got = <<StatusOf(x2.n)>>
          /\ x2.kind = "push" => FileStays(x2.n)
    /\ x3.ok /\ x3.kind \in {"shell", "pull"} => x3.got = <<StatusOf(x3.n)>>
    /\ x3.ok /\ x3.kind = "push" /\ x2.kind # "push" => FileStays(x3.n)

AdbInv ==
    /\ AdbTypes /\ Numbered /\ StreamsApart /\ OneRecord /\ OneAnswer /\ OldStreamsEnd
    /\ RecordsReach /\ OwnStreamStays /\ StreamsSpeak /\ StreamHeld /\ ToldRightly

-----------------------------------------------------------------------------
\* A step of the client: New is what it sends, and it takes or tears a message.
Grown(q, p, New) ==
    /\ p \in Seq(AdbMessage) /\ New \subseteq AdbMessage
    /\ \A m \in Items(p) : m \in Items(q) \/ m \in New
    /\ \A m \in Items(q) : m \in Items(p)
    /\ \A m \in New : m \in Items(p)
    /\ \A K : /\ \A m \in Behind(p, K) : m \in Behind(q, K) \/ m \in New
              /\ \A m \in UpTo(p, K) : m \in UpTo(q, K) \/ m \in New
              /\ ~NoneOf(q, K) => \A m \in UpTo(p, K) : m \in UpTo(q, K)
              /\ Once(q, K) /\ (\A a \in New : a \in K =>
                                  NoneOf(q, K) /\ \A b \in New : b \in K => a = b)
                    => Once(p, K)
Shrunk(q, p) ==
    /\ p \in Seq(AdbMessage)
    /\ \A m \in Items(p) : m \in Items(q) \/ m.cmd = "torn"
    /\ \A K : Once(q, K) /\ (\A m \in K : m.cmd # "torn") => Once(p, K)
ClientStep(New) ==
    UNCHANGED <<x6, x7, x8>> /\ Grown(x4, x4', New) /\ Shrunk(x5, x5')

LEMMA GrownBy ==
  ASSUME NEW q \in Seq(AdbMessage)
  PROVE  /\ Grown(q, q, {})
         /\ \A m \in AdbMessage : Grown(q, q \o <<m>>, {m})
         /\ \A a, b \in AdbMessage : a # b =>
              /\ Grown(q, q \o <<a, b>>, {a, b})
              /\ \A K : b \in K => Behind(q \o <<a, b>>, K) = {}
         /\ \A m \in AdbMessage : \A K : m \in K => Behind(q \o <<m>>, K) = {}
  <1>1. Grown(q, q, {})
    BY DEF Grown
  <1>2. ASSUME NEW m \in AdbMessage
        PROVE  /\ Grown(q, q \o <<m>>, {m})
               /\ \A K : m \in K => Behind(q \o <<m>>, K) = {}
    <2> DEFINE p == q \o <<m>>
    <2>1. p \in Seq(AdbMessage) /\ LongerBy(q, m, p)
      BY Enqueued
    <2> HIDE DEF p
    <2>2. Grown(q, p, {m})
      BY <2>1 DEF Grown, LongerBy
    <2> QED  BY <2>1, <2>2 DEF p, LongerBy
  <1>3. ASSUME NEW a \in AdbMessage, NEW b \in AdbMessage, a # b
        PROVE  /\ Grown(q, q \o <<a, b>>, {a, b})
               /\ \A K : b \in K => Behind(q \o <<a, b>>, K) = {}
    <2> DEFINE r == q \o <<a>>
               p == q \o <<a, b>>
    <2>1. p = r \o <<b>>
      BY TwoEnqueued
    <2>2. r \in Seq(AdbMessage)
      OBVIOUS
    <2>3. Grown(q, r, {a})
      BY <1>2
    <2> HIDE DEF r, p
    <2>4. /\ Grown(r, p, {b}) /\ \A K : b \in K => Behind(p, K) = {}
      <3>1. p \in Seq(AdbMessage) /\ LongerBy(r, b, p)
        BY <2>1, <2>2, Enqueued
      <3> QED  BY <3>1 DEF Grown, LongerBy
    <2>5. \A K : ~NoneOf(q, K) => ~NoneOf(r, K)
      BY <2>3 DEF Grown, NoneOf
    <2>6. ASSUME NEW K, Once(q, K),
                 \A x \in {a, b} : x \in K =>
                    NoneOf(q, K) /\ \A y \in {a, b} : y \in K => x = y
          PROVE Once(p, K)
      <3>1. Once(r, K)
        BY <2>3, <2>6 DEF Grown
      <3>2. b \in K => NoneOf(r, K)
        BY <1>3, <2>3, <2>6 DEF Grown, NoneOf
      <3> QED  BY <2>4, <3>1, <3>2 DEF Grown
    <2>7. /\ \A m \in Items(p) : m \in Items(q) \/ m \in {a, b}
          /\ \A m \in Items(q) : m \in Items(p)
          /\ \A m \in {a, b} : m \in Items(p)
      BY <2>3, <2>4 DEF Grown
    <2>8. ASSUME NEW K
          PROVE  /\ \A m \in Behind(p, K) : m \in Behind(q, K) \/ m \in {a, b}
                 /\ \A m \in UpTo(p, K) : m \in UpTo(q, K) \/ m \in {a, b}
                 /\ ~NoneOf(q, K) => \A m \in UpTo(p, K) : m \in UpTo(q, K)
      BY <2>3, <2>4, <2>5 DEF Grown
    <2>9. Grown(q, p, {a, b})
      BY <2>4, <2>6, <2>7, <2>8 DEF Grown
    <2> QED  BY <2>4, <2>9 DEF p
  <1> QED  BY <1>1, <1>2, <1>3

LEMMA ShrunkBy ==
  ASSUME NEW q \in Seq(AdbMessage)
  PROVE  /\ Shrunk(q, q)
         /\ q # <<>> => Shrunk(q, Tail(q)) /\ Shrunk(q, <<A!Torn>> \o Tail(q))
  <1>1. Shrunk(q, q)
    BY DEF Shrunk
  <1>2. A!Torn \in AdbMessage /\ A!Torn.cmd = "torn"
    BY DEF A!Torn, A!Msg, A!None, AdbMessage, AdbBody
  <1>3. ASSUME q # <<>>  PROVE Shrunk(q, Tail(q))
    <2>1. Tail(q) \in Seq(AdbMessage) /\ ShorterBy(q, Head(q), Tail(q))
      BY <1>3, Dequeued
    <2> QED  BY <2>1 DEF Shrunk, ShorterBy
  <1>4. ASSUME q # <<>>  PROVE Shrunk(q, <<A!Torn>> \o Tail(q))
    <2> DEFINE p == <<A!Torn>> \o Tail(q)
    <2>1. /\ p \in Seq(AdbMessage)
          /\ \A x \in Items(p) : x \in Items(q) \/ x = A!Torn
          /\ \A K : A!Torn \notin K /\ Once(q, K) => Once(p, K)
      BY <1>2, <1>4, HeadTorn
    <2> HIDE DEF p
    <2>2. Shrunk(q, p)
      BY <1>2, <2>1 DEF Shrunk
    <2> QED  BY <2>2 DEF p
  <1> QED  BY <1>1, <1>3, <1>4

\* A step that opens nothing and does not connect: what it sends is for a stream.
Steady(New) ==
    /\ ClientStep(New)
    /\ (x1'.connected => x1.connected) /\ x1'.next = x1.next
    /\ \/ x2 # A!NoCall /\ x2' = A!NoCall /\ x3'.n = x2.n
       \/ x2' = x2 /\ x3' = x3
       \/ /\ x3' = x3 /\ x2.at \in {"open", "write", "reply"}
          /\ x2'.at \in {"write", "reply", "close"}
          /\ x2'.n = x2.n /\ x2'.kind = x2.kind /\ x2'.loc = x2.loc
          /\ x2.at # "open" => x2'.rem = x2.rem
    /\ x2'.rem < x7
    /\ \A a, b \in New : a.cmd = b.cmd => a = b
    /\ \A m \in New :
          /\ m.cmd \in OfStream /\ m.to < x7
          /\ m.cmd = "WRTE" =>
                /\ x2'.at = "write" /\ m.body[2] = x2'.n /\ m.to = x2'.rem
                /\ NoneOf(x5', From("OKAY", m.to)) /\ NoneOf(x4, Towards("WRTE", m.to))
                /\ NoneOf(x4, Connects) => \A s \in x6 : s.rem = m.to => s.n = x2'.n
          /\ m.cmd = "OKAY" =>
                /\ NoneOf(x5', From("WRTE", m.to)) /\ NoneOf(x4, Towards("OKAY", m.to))
                /\ \A s \in x6 : s.rem = m.to => ~s.ready
          /\ m.cmd = "CLSE" /\ x2'.at \in {"open", "write", "reply"} =>
                \A s \in x6 : s.n = x2'.n => s.rem # m.to

\* The sets of messages, as the proofs use them.
LEMMA MessageSets ==
  /\ \A m \in AdbMessage : \A cmd, r : m \in From(cmd, r) <=> m.cmd = cmd /\ m.from = r
  /\ \A m \in AdbMessage : \A cmd, r : m \in Towards(cmd, r) <=> m.cmd = cmd /\ m.to = r
  /\ \A m \in AdbMessage : \A n : m \in OpensOf(n) <=> m.cmd = "OPEN" /\ m.body[2] = n
  /\ \A m \in AdbMessage : m \in Connects <=> m.cmd = "CNXN"
  /\ \A m \in AdbMessage : m.from \in Nat /\ m.to \in Nat /\ m.body[2] \in Nat
  BY DEF From, Towards, OpensOf, Connects, AdbMessage, AdbBody

LEMMA ItemsTyped ==
  ASSUME NEW M, NEW q \in Seq(M)
  PROVE  /\ \A m \in Items(q) : m \in M
         /\ \A K : \A m \in Behind(q, K) : m \in Items(q)
         /\ \A K : \A m \in UpTo(q, K) : m \in Items(q)
  <1>1. \A i \in 1..Len(q) : q[i] \in M
    OBVIOUS
  <1> QED  BY <1>1 DEF Items, Behind, UpTo

LEMMA AdbFacts ==
  ASSUME AdbTypes
  PROVE  /\ x2.n \in Nat /\ x3.n \in Nat /\ x2.loc \in Nat /\ x2.rem \in Nat
         /\ x1.next \in Nat /\ x7 \in Nat /\ x4 \in Seq(AdbMessage) /\ x5 \in Seq(AdbMessage)
         /\ \A m \in Items(x4) : m \in AdbMessage
         /\ \A m \in Items(x5) : m \in AdbMessage
         /\ \A s \in x6 : s \in AdbStream /\ s.rem \in Nat /\ s.loc \in Nat /\ s.n \in Nat
         /\ \A K : /\ \A m \in Behind(x4, K) : m \in Items(x4)
                   /\ \A m \in UpTo(x4, K) : m \in Items(x4)
         /\ x2 = A!NoCall <=> x2.at = "none"
         /\ x2 # A!NoCall => x2.n = x3.n + 1 /\ x2.kind \in AdbKinds
  <1>1. x2 \in AdbCall /\ x3 \in AdbCall /\ x6 \subseteq AdbStream
    BY DEF AdbTypes
  <1>2. x2 = A!NoCall => x2.at = "none"
    BY DEF A!NoCall
  <1>3. \A s \in x6 : s \in AdbStream /\ s.rem \in Nat /\ s.loc \in Nat /\ s.n \in Nat
    BY <1>1 DEF AdbStream
  <1>4. x2.n \in Nat /\ x3.n \in Nat /\ x2.loc \in Nat /\ x2.rem \in Nat
    BY <1>1 DEF AdbCall
  <1>5. x1.next \in Nat /\ x7 \in Nat /\ x4 \in Seq(AdbMessage) /\ x5 \in Seq(AdbMessage)
    BY DEF AdbTypes
  <1>6. /\ \A m \in Items(x4) : m \in AdbMessage
        /\ \A K : /\ \A m \in Behind(x4, K) : m \in Items(x4)
                  /\ \A m \in UpTo(x4, K) : m \in Items(x4)
    BY <1>5, ItemsTyped
  <1>7. \A m \in Items(x5) : m \in AdbMessage
    BY <1>5, ItemsTyped
  <1>8. \/ x2 = A!NoCall
        \/ x2.n = x3.n + 1 /\ x2.at # "none" /\ x2.kind \in AdbKinds
    BY DEF AdbTypes
  <1> QED  BY <1>2, <1>3, <1>4, <1>5, <1>6, <1>7, <1>8

LEMMA SteadyKeeps ==
  ASSUME AdbInv, NEW New, Steady(New)
  PROVE  /\ Numbered' /\ StreamsApart' /\ OneRecord' /\ OneAnswer' /\ OldStreamsEnd'
         /\ RecordsReach' /\ OwnStreamStays' /\ StreamsSpeak'
  <1>1. AdbTypes
    BY DEF AdbInv
  <1>2. /\ x6' = x6 /\ x7' = x7 /\ New \subseteq AdbMessage
        /\ \A m \in Items(x4') : m \in Items(x4) \/ m \in New
        /\ \A m \in Items(x4) : m \in Items(x4')
        /\ \A m \in Items(x5') : m \in Items(x5) \/ m.cmd = "torn"
    BY DEF Steady, ClientStep, Grown, Shrunk
  <1>3. x2' = A!NoCall => x2'.at = "none" /\ x2'.kind = "none" /\ x2'.rem = 0
    BY DEF A!NoCall
  <1>4. x4' \in Seq(AdbMessage) /\ x5' \in Seq(AdbMessage)
    BY DEF Steady, ClientStep, Grown, Shrunk
  <1>5. /\ \A m \in Items(x4') : m \in AdbMessage
        /\ \A m \in Items(x5') : m \in AdbMessage
    BY <1>4, ItemsTyped
  <1>6. \/ x2 # A!NoCall /\ x2' = A!NoCall /\ x3'.n = x2.n
        \/ x2' = x2 /\ x3' = x3
        \/ /\ x3' = x3 /\ x2.at \in {"open", "write", "reply"}
           /\ x2'.at \in {"write", "reply", "close"}
           /\ x2'.n = x2.n /\ x2'.kind = x2.kind /\ x2'.loc = x2.loc
           /\ x2.at # "open" => x2'.rem = x2.rem
    BY DEF Steady
  <1>7. AtStream' => AtStream /\ x2'.n = x2.n /\ x2'.loc = x2.loc /\ x2'.kind = x2.kind
    BY <1>3, <1>6 DEF AtStream
  <1>8. \A m \in New : m.cmd \in OfStream /\ m.cmd # "OPEN" /\ m.cmd # "CNXN"
    BY DEF Steady, OfStream
  <1>9. Numbered'
    <2>1. \A m \in Items(x4') : m.cmd = "OPEN" =>
             m.body[2] <= x3'.n \/ (AtStream' /\ m.body[2] = x2'.n)
      BY <1>1, <1>2, <1>3, <1>5, <1>6, <1>8, AdbFacts, MessageSets DEF AdbInv, Numbered, AtStream
    <2>2. \A m \in Items(x4') : m.cmd = "WRTE" =>
             \/ m.body[2] <= x3'.n
             \/ x2'.at \in {"write", "reply", "close"} /\ m.body[2] = x2'.n /\ m.to = x2'.rem
      <3>1. \A m \in New : m.cmd = "WRTE" =>
               x2'.at = "write" /\ m.body[2] = x2'.n /\ m.to = x2'.rem
        BY DEF Steady
      <3> QED  BY <1>1, <1>2, <1>3, <1>5, <1>6, <3>1, AdbFacts, MessageSets DEF AdbInv, Numbered, AtStream
    <2>3. \A m \in Items(x5') : m.cmd = "WRTE" =>
             m.body[2] <= x3'.n \/ (AtStream' /\ m.body[2] = x2'.n)
      BY <1>1, <1>2, <1>3, <1>5, <1>6, AdbFacts, MessageSets DEF AdbInv, Numbered, AtStream
    <2>4. \A s \in x6 : s.n <= x3'.n \/ (AtStream' /\ s.n = x2'.n)
      BY <1>1, <1>3, <1>6, AdbFacts DEF AdbInv, Numbered, AtStream
    <2>5. \A m \in Items(x4') : m.cmd \in OfStream => m.to < x7
      BY <1>2 DEF Steady, AdbInv, Numbered
    <2>6. \A m \in Items(x5') : m.cmd \in OfStream => m.from < x7
      BY <1>2 DEF AdbInv, Numbered, OfStream
    <2>7. \A s \in x6 : s.rem < x7
      BY DEF AdbInv, Numbered
    <2>8. x2'.rem < x7
      BY DEF Steady
    <2>9. \A m \in Items(x4') : m.cmd # "torn"
      BY <1>2, <1>8 DEF AdbInv, Numbered, OfStream
    <2> QED  BY <1>2, <2>1, <2>2, <2>3, <2>4, <2>5, <2>6, <2>7, <2>8, <2>9 DEF Numbered
  <1>10. StreamsApart'
    <2>1. \A s \in x6, m \in Items(x5') : m.cmd \in OfStream /\ m.from = s.rem => m.to = s.loc
      BY <1>2 DEF AdbInv, StreamsApart, OfStream
    <2>2. \A n \in Nat : Once(x4', OpensOf(n))
      <3>1. ASSUME NEW n \in Nat  PROVE Once(x4', OpensOf(n))
        <4>1. Once(x4, OpensOf(n))
          BY DEF AdbInv, StreamsApart
        <4>2. \A a \in New : a \notin OpensOf(n)
          BY <1>2, <1>8, MessageSets
        <4> QED  BY <4>1, <4>2 DEF Steady, ClientStep, Grown
      <3> QED  BY <3>1
    <2>3. \A s \in x6 : NoneOf(x4', OpensOf(s.n))
      BY <1>2, <1>8, MessageSets DEF AdbInv, StreamsApart, NoneOf
    <2>4. AtStream' => \A s \in x6 : s.n = x2'.n => s.loc = x2'.loc /\ s.kind = x2'.kind
      BY <1>7 DEF AdbInv, StreamsApart
    <2>5. AtStream' => \A m \in Items(x4') : m.cmd = "OPEN" /\ m.body[2] = x2'.n =>
             m.from = x2'.loc /\ m.body[1] = x2'.kind
      BY <1>2, <1>7, <1>8 DEF AdbInv, StreamsApart
    <2>6. \A m \in Items(x4') : m.cmd = "OPEN" => m.body[1] \in AdbKinds
      BY <1>2, <1>8 DEF AdbInv, StreamsApart
    <2>7. \A s, t \in x6 : s.rem = t.rem \/ s.n = t.n => s = t
      BY DEF AdbInv, StreamsApart
    <2> QED  BY <1>2, <2>1, <2>2, <2>3, <2>4, <2>5, <2>6, <2>7 DEF StreamsApart
  <1>11. OneRecord'
    <2>1. ASSUME NEW r \in Nat
          PROVE  /\ Once(x4', Towards("WRTE", r)) /\ Once(x5', From("OKAY", r))
                 /\ NoneOf(x4', Towards("WRTE", r)) \/ NoneOf(x5', From("OKAY", r))
      <3>1. /\ Once(x4, Towards("WRTE", r)) /\ Once(x5, From("OKAY", r))
            /\ NoneOf(x4, Towards("WRTE", r)) \/ NoneOf(x5, From("OKAY", r))
        BY <2>1 DEF AdbInv, OneRecord
      <3>2. \A a \in New : a \in Towards("WRTE", r) =>
               /\ NoneOf(x4, Towards("WRTE", r)) /\ NoneOf(x5', From("OKAY", r))
               /\ \A b \in New : b \in Towards("WRTE", r) => a = b
        BY <1>2, MessageSets DEF Steady
      <3>3. Once(x4', Towards("WRTE", r))
        BY <3>1, <3>2 DEF Steady, ClientStep, Grown
      <3>4. Once(x5', From("OKAY", r))
        BY <3>1 DEF Steady, ClientStep, Shrunk, From
      <3>5. NoneOf(x5, From("OKAY", r)) => NoneOf(x5', From("OKAY", r))
        BY <1>2, <1>5, MessageSets DEF NoneOf
      <3> QED  BY <1>2, <3>1, <3>2, <3>3, <3>4, <3>5 DEF NoneOf
    <2> QED  BY <2>1 DEF OneRecord
  <1>12. OneAnswer'
    <2>1. ASSUME NEW r \in Nat
          PROVE  /\ Once(x5', From("WRTE", r)) /\ Once(x4', Towards("OKAY", r))
                 /\ NoneOf(x5', From("WRTE", r)) \/ NoneOf(x4', Towards("OKAY", r))
                 /\ \A s \in x6 : s.rem = r /\ s.ready =>
                       NoneOf(x5', From("WRTE", r)) /\ NoneOf(x4', Towards("OKAY", r))
      <3>1. /\ Once(x5, From("WRTE", r)) /\ Once(x4, Towards("OKAY", r))
            /\ NoneOf(x5, From("WRTE", r)) \/ NoneOf(x4, Towards("OKAY", r))
            /\ \A s \in x6 : s.rem = r /\ s.ready =>
                  NoneOf(x5, From("WRTE", r)) /\ NoneOf(x4, Towards("OKAY", r))
        BY <2>1 DEF AdbInv, OneAnswer
      <3>2. \A a \in New : a \in Towards("OKAY", r) =>
               /\ NoneOf(x4, Towards("OKAY", r)) /\ NoneOf(x5', From("WRTE", r))
               /\ \A s \in x6 : s.rem = r => ~s.ready
               /\ \A b \in New : b \in Towards("OKAY", r) => a = b
        BY <1>2, MessageSets DEF Steady
      <3>3. Once(x4', Towards("OKAY", r))
        BY <3>1, <3>2 DEF Steady, ClientStep, Grown
      <3>4. Once(x5', From("WRTE", r))
        BY <3>1 DEF Steady, ClientStep, Shrunk, From
      <3>5. NoneOf(x5, From("WRTE", r)) => NoneOf(x5', From("WRTE", r))
        BY <1>2, <1>5, MessageSets DEF NoneOf
      <3> QED  BY <1>2, <3>1, <3>2, <3>3, <3>4, <3>5 DEF NoneOf
    <2> QED  BY <1>2, <2>1 DEF OneAnswer
  <1>13. \A m \in Behind(x4', Connects) : m \in Behind(x4, Connects) \/ m \in New
    BY DEF Steady, ClientStep, Grown
  <1>14. NoneOf(x4', Connects) => NoneOf(x4, Connects)
    BY <1>2 DEF NoneOf
  <1>15. OldStreamsEnd'
    <2>1. x2'.at = "connect" => x2.at = "connect"
      BY <1>3, <1>6
    <2>2. (x1'.connected => x1.connected) /\ x1'.next = x1.next
      BY DEF Steady
    <2>3. x2'.at = "connect" =>
            /\ \A m \in Behind(x4', Connects) : m.cmd # "OPEN"
            /\ NoneOf(x4', Connects) => x6 = {}
      BY <1>8, <1>13, <1>14, <2>1 DEF AdbInv, OldStreamsEnd
    <2>4. x1'.connected =>
            /\ \A m \in Behind(x4', Connects) : m.cmd = "OPEN" => m.from < x1'.next
            /\ NoneOf(x4', Connects) => \A s \in x6 : s.loc < x1'.next
      BY <1>8, <1>13, <1>14, <2>2 DEF AdbInv, OldStreamsEnd
    <2>5. AtStream' =>
            /\ \A m \in Behind(x4', Connects) : m.cmd = "OPEN" /\ m.from = x2'.loc => m.body[2] = x2'.n
            /\ NoneOf(x4', Connects) => \A s \in x6 : s.loc = x2'.loc => s.n = x2'.n
      BY <1>7, <1>8, <1>13, <1>14 DEF AdbInv, OldStreamsEnd
    <2> QED  BY <1>2, <2>3, <2>4, <2>5 DEF OldStreamsEnd
  <1>16. RecordsReach'
    <2>1. ASSUME NEW m \in UpTo(x4', Connects), NEW s \in x6, m.cmd = "WRTE", m.to = s.rem
          PROVE m.body[2] = s.n
      <3>1. m \in UpTo(x4, Connects) \/ (m \in New /\ NoneOf(x4, Connects))
        BY DEF Steady, ClientStep, Grown
      <3> QED  BY <2>1, <3>1 DEF Steady, AdbInv, RecordsReach
    <2>2. ASSUME AtStream', NEW m \in Behind(x4', OpensOf(x2'.n))
          PROVE m.cmd \notin {"CNXN", "OPEN"} /\ (m.cmd = "WRTE" => m.body[2] = x2'.n)
      <3>1. m \in Behind(x4, OpensOf(x2'.n)) \/ m \in New
        BY <2>2 DEF Steady, ClientStep, Grown
      <3>2. CASE m \in New
        BY <1>8, <3>2 DEF Steady
      <3>3. CASE m \in Behind(x4, OpensOf(x2.n))
        BY <1>7, <2>2, <3>3 DEF AdbInv, RecordsReach
      <3> QED  BY <1>7, <2>2, <3>1, <3>2, <3>3
    <2> QED  BY <1>2, <2>1, <2>2 DEF RecordsReach
  <1>17. OwnStreamStays'
    <2>1. x2'.at \in {"open", "write", "reply"} =>
             x2.at \in {"open", "write", "reply"} /\ x2'.n = x2.n
      BY <1>3, <1>6
    <2>2. x2'.at \in {"open", "write", "reply"} =>
             \A s \in x6 : s.n = x2'.n => NoneOf(x4', Towards("CLSE", s.rem))
      <3>1. ASSUME x2'.at \in {"open", "write", "reply"}, NEW s \in x6, s.n = x2'.n
            PROVE NoneOf(x4', Towards("CLSE", s.rem))
        <4>1. NoneOf(x4, Towards("CLSE", s.rem))
          BY <2>1, <3>1 DEF AdbInv, OwnStreamStays
        <4>2. \A m \in New : m \notin Towards("CLSE", s.rem)
          BY <1>2, <3>1, MessageSets DEF Steady
        <4> QED  BY <1>2, <4>1, <4>2 DEF NoneOf
      <3> QED  BY <3>1
    <2>3. x2'.at = "open" => x2' = x2
      BY <1>3, <1>6
    <2>4. x2'.at = "open" /\ x2'.kind # "shell" =>
             \A s \in x6 : s.n = x2'.n => s.at = "run" /\ s.ready
      BY <2>3 DEF AdbInv, OwnStreamStays
    <2> QED  BY <1>2, <2>2, <2>4 DEF OwnStreamStays
  <1>18. StreamsSpeak'
    <2>1. x2'.kind = "shell" => x2.kind = "shell" /\ x2'.n = x2.n
      BY <1>3, <1>6
    <2>2. x2'.kind = "shell" => \A m \in Items(x5') :
             m.cmd = "WRTE" /\ m.body[2] = x2'.n => m.body[1] = "status"
      BY <1>2, <2>1 DEF AdbInv, StreamsSpeak
    <2>3. \A s \in x6, m \in Items(x5') : m.cmd = "WRTE" /\ m.from = s.rem =>
             m.body[2] = s.n /\ (s.kind = "shell" => s.at # "run")
      BY <1>2 DEF AdbInv, StreamsSpeak
    <2> QED  BY <1>2, <2>2, <2>3 DEF StreamsSpeak
  <1> QED  BY <1>9, <1>10, <1>11, <1>12, <1>15, <1>16, <1>17, <1>18

\* A step that sends the OPEN of the call.
Opening(o) ==
    /\ ClientStep({o}) /\ o \in AdbMessage /\ \A K : o \in K => Behind(x4', K) = {}
    /\ o.cmd = "OPEN" /\ o.from = x2'.loc /\ o.body = <<x2'.kind, x2'.n>>
    /\ x3' = x3 /\ x2'.at = "open" /\ x2'.loc = x1.next /\ x2'.rem = 0
    /\ x2'.n = x3.n + 1 /\ x2'.kind \in AdbKinds
    /\ x1'.next = x1.next + 1
    /\ \/ x2.at = "connect"
       \/ x2.at = "none" /\ x1.connected
\* A step that ends with a CNXN.
Reconnects(New) ==
    /\ ClientStep(New)
    /\ Behind(x4', Connects) = {}
    /\ \E m \in New : m.cmd = "CNXN"
    /\ \A m \in New : m.cmd \in {"CLSE", "CNXN"} /\ (m.cmd = "CLSE" => m.to < x7)
    /\ x1' = x1 /\ x3' = x3 /\ x2.at \in {"none", "connect"}
    /\ x2'.at = "connect" /\ x2'.n = x3.n + 1 /\ x2'.rem = 0

LEMMA OpeningKeeps ==
  ASSUME AdbInv, NEW o, Opening(o)
  PROVE  /\ Numbered' /\ StreamsApart' /\ OneRecord' /\ OneAnswer' /\ OldStreamsEnd'
         /\ RecordsReach' /\ OwnStreamStays' /\ StreamsSpeak'
  <1>1. AdbTypes
    BY DEF AdbInv
  <1>2. /\ x6' = x6 /\ x7' = x7 /\ x3' = x3 /\ o \in AdbMessage
        /\ \A m \in Items(x4') : m \in Items(x4) \/ m = o
        /\ \A m \in Items(x4) : m \in Items(x4')
        /\ \A m \in Items(x5') : m \in Items(x5) \/ m.cmd = "torn"
    BY DEF Opening, ClientStep, Grown, Shrunk
  <1>3. /\ o.cmd = "OPEN" /\ o.from = x2'.loc /\ o.body[1] = x2'.kind /\ o.body[2] = x2'.n
        /\ x2'.at = "open" /\ x2'.loc = x1.next /\ x2'.rem = 0 /\ x2'.n = x3.n + 1
        /\ x2'.kind \in AdbKinds /\ x1'.next = x1.next + 1
    BY DEF Opening
  <1>4. x4' \in Seq(AdbMessage) /\ x5' \in Seq(AdbMessage)
    BY DEF Opening, ClientStep, Grown, Shrunk
  <1>5. /\ \A m \in Items(x4') : m \in AdbMessage
        /\ \A m \in Items(x5') : m \in AdbMessage
    BY <1>4, ItemsTyped
  <1>6. ~AtStream /\ AtStream'
    BY <1>3 DEF AtStream, Opening
  <1>7. /\ \A m \in Items(x4) : m.cmd \in {"OPEN", "WRTE"} => m.body[2] <= x3.n
        /\ \A m \in Items(x5) : m.cmd = "WRTE" => m.body[2] <= x3.n
        /\ \A s \in x6 : s.n <= x3.n
    BY <1>6 DEF AdbInv, Numbered, AtStream
  <1>8. /\ \A m \in Items(x4) : m.cmd \in {"OPEN", "WRTE"} => m.body[2] # x2'.n
        /\ \A m \in Items(x5) : m.cmd = "WRTE" => m.body[2] # x2'.n
        /\ \A s \in x6 : s.n # x2'.n
    BY <1>1, <1>3, <1>7, AdbFacts, MessageSets
  <1>9. Numbered'
    <2>1. /\ \A m \in Items(x4) : m.cmd \in OfStream => m.to < x7
          /\ \A m \in Items(x5) : m.cmd \in OfStream => m.from < x7
          /\ \A s \in x6 : s.rem < x7
      BY DEF AdbInv, Numbered
    <2>2. x2'.rem < x7
      BY <1>1, <1>3 DEF AdbTypes
    <2>3. \A m \in Items(x4') : m.cmd # "torn"
      BY <1>2, <1>3 DEF AdbInv, Numbered
    <2> QED  BY <1>2, <1>3, <1>6, <1>7, <2>1, <2>2, <2>3 DEF Numbered, OfStream
  <1>10. StreamsApart'
    <2>1. \A s \in x6, m \in Items(x5') : m.cmd \in OfStream /\ m.from = s.rem => m.to = s.loc
      BY <1>2 DEF AdbInv, StreamsApart, OfStream
    <2>2. \A n \in Nat : Once(x4', OpensOf(n))
      <3>1. ASSUME NEW n \in Nat  PROVE Once(x4', OpensOf(n))
        <4>1. Once(x4, OpensOf(n))
          BY DEF AdbInv, StreamsApart
        <4>2. o \in OpensOf(n) => NoneOf(x4, OpensOf(n))
          BY <1>1, <1>2, <1>3, <1>8, AdbFacts, MessageSets DEF NoneOf
        <4> QED  BY <4>1, <4>2 DEF Opening, ClientStep, Grown
      <3> QED  BY <3>1
    <2>3. \A s \in x6 : NoneOf(x4', OpensOf(s.n))
      BY <1>2, <1>3, <1>8, MessageSets DEF AdbInv, StreamsApart, NoneOf
    <2>4. \A m \in Items(x4') : m.cmd = "OPEN" => m.body[1] \in AdbKinds
      BY <1>2, <1>3 DEF AdbInv, StreamsApart
    <2>5. \A s, t \in x6 : s.rem = t.rem \/ s.n = t.n => s = t
      BY DEF AdbInv, StreamsApart
    <2> QED  BY <1>2, <1>3, <1>8, <2>1, <2>2, <2>3, <2>4, <2>5 DEF StreamsApart
  <1>11. OneRecord'
    <2>1. ASSUME NEW r \in Nat
          PROVE  /\ Once(x4', Towards("WRTE", r)) /\ Once(x5', From("OKAY", r))
                 /\ NoneOf(x4', Towards("WRTE", r)) \/ NoneOf(x5', From("OKAY", r))
      <3>1. /\ Once(x4, Towards("WRTE", r)) /\ Once(x5, From("OKAY", r))
            /\ NoneOf(x4, Towards("WRTE", r)) \/ NoneOf(x5, From("OKAY", r))
        BY <2>1 DEF AdbInv, OneRecord
      <3>2. o \notin Towards("WRTE", r)
        BY <1>2, <1>3, MessageSets
      <3>3. Once(x4', Towards("WRTE", r))
        BY <3>1, <3>2 DEF Opening, ClientStep, Grown
      <3>4. Once(x5', From("OKAY", r))
        BY <3>1 DEF Opening, ClientStep, Shrunk, From
      <3>5. NoneOf(x5, From("OKAY", r)) => NoneOf(x5', From("OKAY", r))
        BY <1>2, <1>5, MessageSets DEF NoneOf
      <3> QED  BY <1>2, <3>1, <3>2, <3>3, <3>4, <3>5 DEF NoneOf
    <2> QED  BY <2>1 DEF OneRecord
  <1>12. OneAnswer'
    <2>1. ASSUME NEW r \in Nat
          PROVE  /\ Once(x5', From("WRTE", r)) /\ Once(x4', Towards("OKAY", r))
                 /\ NoneOf(x5', From("WRTE", r)) \/ NoneOf(x4', Towards("OKAY", r))
                 /\ \A s \in x6 : s.rem = r /\ s.ready =>
                       NoneOf(x5', From("WRTE", r)) /\ NoneOf(x4', Towards("OKAY", r))
      <3>1. /\ Once(x5, From("WRTE", r)) /\ Once(x4, Towards("OKAY", r))
            /\ NoneOf(x5, From("WRTE", r)) \/ NoneOf(x4, Towards("OKAY", r))
            /\ \A s \in x6 : s.rem = r /\ s.ready =>
                  NoneOf(x5, From("WRTE", r)) /\ NoneOf(x4, Towards("OKAY", r))
        BY <2>1 DEF AdbInv, OneAnswer
      <3>2. o \notin Towards("OKAY", r)
        BY <1>2, <1>3, MessageSets
      <3>3. Once(x4', Towards("OKAY", r))
        BY <3>1, <3>2 DEF Opening, ClientStep, Grown
      <3>4. Once(x5', From("WRTE", r))
        BY <3>1 DEF Opening, ClientStep, Shrunk, From
      <3>5. NoneOf(x5, From("WRTE", r)) => NoneOf(x5', From("WRTE", r))
        BY <1>2, <1>5, MessageSets DEF NoneOf
      <3> QED  BY <1>2, <3>1, <3>2, <3>3, <3>4, <3>5 DEF NoneOf
    <2> QED  BY <1>2, <2>1 DEF OneAnswer
  <1>13. OldStreamsEnd'
    <2>1. \A m \in Behind(x4', Connects) : m \in Behind(x4, Connects) \/ m = o
      BY DEF Opening, ClientStep, Grown
    <2>2. NoneOf(x4', Connects) => NoneOf(x4, Connects)
      BY <1>2 DEF NoneOf
    <2>3. /\ \A m \in Behind(x4, Connects) : m.cmd = "OPEN" => m.from < x1.next
          /\ NoneOf(x4, Connects) => \A s \in x6 : s.loc < x1.next
      BY DEF Opening, AdbInv, OldStreamsEnd
    <2>4. /\ \A m \in Behind(x4, Connects) : m \in AdbMessage
          /\ \A m \in AdbMessage : m.from \in Nat
          /\ x1.next \in Nat /\ \A s \in x6 : s.loc \in Nat
      BY <1>1, AdbFacts, MessageSets
    <2>5. /\ \A m \in Behind(x4', Connects) : m.cmd = "OPEN" => m.from < x1'.next
          /\ NoneOf(x4', Connects) => \A s \in x6 : s.loc < x1'.next
      BY <1>3, <2>1, <2>2, <2>3, <2>4
    <2>6. /\ \A m \in Behind(x4', Connects) : m.cmd = "OPEN" /\ m.from = x2'.loc => m.body[2] = x2'.n
          /\ NoneOf(x4', Connects) => \A s \in x6 : s.loc = x2'.loc => s.n = x2'.n
      BY <1>3, <2>1, <2>2, <2>3, <2>4
    <2> QED  BY <1>2, <1>3, <2>5, <2>6 DEF OldStreamsEnd
  <1>14. RecordsReach'
    <2>1. \A m \in UpTo(x4', Connects), s \in x6 : m.cmd = "WRTE" /\ m.to = s.rem => m.body[2] = s.n
      <3>1. \A m \in UpTo(x4', Connects) : m \in UpTo(x4, Connects) \/ m = o
        BY DEF Opening, ClientStep, Grown
      <3> QED  BY <1>3, <3>1 DEF AdbInv, RecordsReach
    <2>2. Behind(x4', OpensOf(x2'.n)) = {}
      BY <1>2, <1>3, MessageSets DEF Opening
    <2> QED  BY <1>2, <2>1, <2>2 DEF RecordsReach
  <1>15. OwnStreamStays'
    BY <1>2, <1>8 DEF OwnStreamStays
  <1>16. StreamsSpeak'
    <2>1. \A m \in Items(x5') : m.cmd = "WRTE" => m \in Items(x5)
      BY <1>2
    <2>2. \A s \in x6, m \in Items(x5') : m.cmd = "WRTE" /\ m.from = s.rem =>
             m.body[2] = s.n /\ (s.kind = "shell" => s.at # "run")
      BY <2>1 DEF AdbInv, StreamsSpeak
    <2> QED  BY <1>2, <1>8, <2>1, <2>2 DEF StreamsSpeak
  <1> QED  BY <1>9, <1>10, <1>11, <1>12, <1>13, <1>14, <1>15, <1>16

LEMMA ReconnectsKeeps ==
  ASSUME AdbInv, NEW New, Reconnects(New)
  PROVE  /\ Numbered' /\ StreamsApart' /\ OneRecord' /\ OneAnswer' /\ OldStreamsEnd'
         /\ RecordsReach' /\ OwnStreamStays' /\ StreamsSpeak'
  <1>1. AdbTypes
    BY DEF AdbInv
  <1>2. /\ x6' = x6 /\ x7' = x7 /\ x3' = x3 /\ x1' = x1 /\ New \subseteq AdbMessage
        /\ \A m \in Items(x4') : m \in Items(x4) \/ m \in New
        /\ \A m \in Items(x4) : m \in Items(x4')
        /\ \A m \in Items(x5') : m \in Items(x5) \/ m.cmd = "torn"
    BY DEF Reconnects, ClientStep, Grown, Shrunk
  <1>3. /\ \A m \in New : m.cmd \in {"CLSE", "CNXN"} /\ (m.cmd = "CLSE" => m.to < x7)
        /\ x2'.at = "connect" /\ x2'.rem = 0 /\ x2'.n = x3.n + 1
    BY DEF Reconnects
  <1>4. x4' \in Seq(AdbMessage) /\ x5' \in Seq(AdbMessage)
    BY DEF Reconnects, ClientStep, Grown, Shrunk
  <1>5. /\ \A m \in Items(x4') : m \in AdbMessage
        /\ \A m \in Items(x5') : m \in AdbMessage
    BY <1>4, ItemsTyped
  <1>6. ~AtStream /\ ~AtStream'
    BY <1>3 DEF AtStream, Reconnects
  <1>7. /\ \A m \in Items(x4) : m.cmd \in {"OPEN", "WRTE"} => m.body[2] <= x3.n
        /\ \A m \in Items(x5) : m.cmd = "WRTE" => m.body[2] <= x3.n
        /\ \A s \in x6 : s.n <= x3.n
    BY <1>6 DEF AdbInv, Numbered, AtStream
  <1>8. \A m \in Items(x5) : m.cmd = "WRTE" => m.body[2] # x2'.n
    BY <1>1, <1>3, <1>7, AdbFacts, MessageSets
  <1>9. Numbered'
    <2>1. /\ \A m \in Items(x4) : m.cmd \in OfStream => m.to < x7
          /\ \A m \in Items(x5) : m.cmd \in OfStream => m.from < x7
          /\ \A s \in x6 : s.rem < x7
      BY DEF AdbInv, Numbered
    <2>2. x2'.rem < x7
      BY <1>1, <1>3 DEF AdbTypes
    <2>3. \A m \in Items(x4') : m.cmd # "torn"
      BY <1>2, <1>3 DEF AdbInv, Numbered
    <2> QED  BY <1>2, <1>3, <1>7, <2>1, <2>2, <2>3 DEF Numbered, OfStream
  <1>10. StreamsApart'
    <2>1. \A s \in x6, m \in Items(x5') : m.cmd \in OfStream /\ m.from = s.rem => m.to = s.loc
      BY <1>2 DEF AdbInv, StreamsApart, OfStream
    <2>2. \A n \in Nat : Once(x4', OpensOf(n))
      <3>1. ASSUME NEW n \in Nat  PROVE Once(x4', OpensOf(n))
        <4>1. Once(x4, OpensOf(n))
          BY DEF AdbInv, StreamsApart
        <4>2. \A a \in New : a \notin OpensOf(n)
          BY <1>2, <1>3, MessageSets
        <4> QED  BY <4>1, <4>2 DEF Reconnects, ClientStep, Grown
      <3> QED  BY <3>1
    <2>3. \A s \in x6 : NoneOf(x4', OpensOf(s.n))
      BY <1>2, <1>3, MessageSets DEF AdbInv, StreamsApart, NoneOf
    <2>4. \A m \in Items(x4') : m.cmd = "OPEN" => m.body[1] \in AdbKinds
      BY <1>2, <1>3 DEF AdbInv, StreamsApart
    <2>5. \A s, t \in x6 : s.rem = t.rem \/ s.n = t.n => s = t
      BY DEF AdbInv, StreamsApart
    <2> QED  BY <1>2, <1>6, <2>1, <2>2, <2>3, <2>4, <2>5 DEF StreamsApart
  <1>11. OneRecord' /\ OneAnswer'
    <2>1. ASSUME NEW r \in Nat
          PROVE  /\ Once(x4', Towards("WRTE", r)) /\ Once(x5', From("OKAY", r))
                 /\ NoneOf(x4', Towards("WRTE", r)) \/ NoneOf(x5', From("OKAY", r))
                 /\ Once(x5', From("WRTE", r)) /\ Once(x4', Towards("OKAY", r))
                 /\ NoneOf(x5', From("WRTE", r)) \/ NoneOf(x4', Towards("OKAY", r))
                 /\ \A s \in x6 : s.rem = r /\ s.ready =>
                       NoneOf(x5', From("WRTE", r)) /\ NoneOf(x4', Towards("OKAY", r))
      <3>1. /\ Once(x4, Towards("WRTE", r)) /\ Once(x5, From("OKAY", r))
            /\ NoneOf(x4, Towards("WRTE", r)) \/ NoneOf(x5, From("OKAY", r))
            /\ Once(x5, From("WRTE", r)) /\ Once(x4, Towards("OKAY", r))
            /\ NoneOf(x5, From("WRTE", r)) \/ NoneOf(x4, Towards("OKAY", r))
            /\ \A s \in x6 : s.rem = r /\ s.ready =>
                  NoneOf(x5, From("WRTE", r)) /\ NoneOf(x4, Towards("OKAY", r))
        BY <2>1 DEF AdbInv, OneAnswer, OneRecord
      <3>2. \A a \in New : a \notin Towards("WRTE", r) /\ a \notin Towards("OKAY", r)
        BY <1>2, <1>3, MessageSets
      <3>3. Once(x4', Towards("WRTE", r)) /\ Once(x4', Towards("OKAY", r))
        BY <3>1, <3>2 DEF Reconnects, ClientStep, Grown
      <3>4. Once(x5', From("WRTE", r)) /\ Once(x5', From("OKAY", r))
        BY <3>1 DEF Reconnects, ClientStep, Shrunk, From
      <3>5. /\ NoneOf(x5, From("WRTE", r)) => NoneOf(x5', From("WRTE", r))
            /\ NoneOf(x5, From("OKAY", r)) => NoneOf(x5', From("OKAY", r))
        BY <1>2, <1>5, MessageSets DEF NoneOf
      <3>6. /\ NoneOf(x4, Towards("WRTE", r)) => NoneOf(x4', Towards("WRTE", r))
            /\ NoneOf(x4, Towards("OKAY", r)) => NoneOf(x4', Towards("OKAY", r))
        BY <1>2, <3>2 DEF NoneOf
      <3> QED  BY <3>1, <3>3, <3>4, <3>5, <3>6
    <2> QED  BY <1>2, <2>1 DEF OneAnswer, OneRecord
  <1>12. OldStreamsEnd'
    <2>1. Behind(x4', Connects) = {}
      BY DEF Reconnects
    <2>2. ~NoneOf(x4', Connects)
      <3>1. PICK m \in New : m.cmd = "CNXN"
        BY DEF Reconnects
      <3>2. m \in Items(x4') /\ m \in Connects
        BY <1>2, <3>1, MessageSets DEF Reconnects, ClientStep, Grown
      <3> QED  BY <3>2 DEF NoneOf
    <2> QED  BY <1>6, <2>1, <2>2 DEF OldStreamsEnd
  <1>13. RecordsReach'
    <2>1. \A m \in UpTo(x4', Connects) : m \in UpTo(x4, Connects) \/ m \in New
      BY DEF Reconnects, ClientStep, Grown
    <2> QED  BY <1>2, <1>3, <1>6, <2>1 DEF AdbInv, RecordsReach
  <1>14. OwnStreamStays'
    BY <1>3 DEF OwnStreamStays
  <1>15. StreamsSpeak'
    <2>1. \A m \in Items(x5') : m.cmd = "WRTE" => m \in Items(x5)
      BY <1>2
    <2>2. \A s \in x6, m \in Items(x5') : m.cmd = "WRTE" /\ m.from = s.rem =>
             m.body[2] = s.n /\ (s.kind = "shell" => s.at # "run")
      BY <2>1 DEF AdbInv, StreamsSpeak
    <2> QED  BY <1>2, <1>8, <2>1, <2>2 DEF StreamsSpeak
  <1> QED  BY <1>9, <1>10, <1>11, <1>12, <1>13, <1>14, <1>15

-----------------------------------------------------------------------------
\* The steps of the client.
LEMMA AdbNat ==
  MaxCalls \in Nat /\ MaxClients \in Nat
  BY TransportBounds

LEMMA MessageMade ==
  ASSUME NEW cmd \in {"CNXN", "OPEN", "WRTE", "OKAY", "CLSE", "torn"},
         NEW from \in Nat, NEW to \in Nat, NEW body \in AdbBody
  PROVE  /\ A!Msg(cmd, from, to, body) \in AdbMessage
         /\ A!Msg(cmd, from, to, body).cmd = cmd /\ A!Msg(cmd, from, to, body).from = from
         /\ A!Msg(cmd, from, to, body).to = to /\ A!Msg(cmd, from, to, body).body = body
  BY DEF A!Msg, AdbMessage
LEMMA BodyMade ==
  /\ \A k \in AdbKinds, n \in Nat : <<k, n>> \in AdbBody /\ <<k, n + 1>> \in AdbBody
  /\ \A w \in {"", "SEND", "DATA", "DONE", "RECV", "OKAY", "FAIL", "status"}, n \in Nat :
        <<w, n>> \in AdbBody
  <1>1. \A k \in AdbKinds, n \in Nat : <<k, n>> \in AdbBody
    BY DEF AdbBody, AdbKinds
  <1>3. \A n \in Nat : n + 1 \in Nat
    OBVIOUS
  <1>2. \A w \in {"", "SEND", "DATA", "DONE", "RECV", "OKAY", "FAIL", "status"}, n \in Nat :
           <<w, n>> \in AdbBody
    BY DEF AdbBody
  <1> QED  BY <1>1, <1>2, <1>3
LEMMA BodyPair ==
  \A m \in AdbMessage : m.body \in AdbBody /\ m.body = <<m.body[1], m.body[2]>>
  <1>1. ASSUME NEW Y, NEW X, NEW b \in Y \X X  PROVE b = <<b[1], b[2]>>
    OBVIOUS
  <1>2. \A b \in AdbBody : b = <<b[1], b[2]>>
    BY <1>1 DEF AdbBody
  <1>3. \A m \in AdbMessage : m.body \in AdbBody
    BY DEF AdbMessage
  <1> QED  BY <1>2, <1>3
LEMMA NoneMade == A!None \in AdbBody /\ A!None = <<"", 0>>
  BY DEF A!None, AdbBody

LEMMA CnxnMade ==
  ASSUME NEW m, m = A!Msg("CNXN", 0, 0, A!None)
  PROVE  m \in AdbMessage /\ m.cmd = "CNXN"
  <1>1. m = [cmd |-> "CNXN", from |-> 0, to |-> 0, body |-> A!None]
    BY DEF A!Msg
  <1>2. A!None \in AdbBody
    BY NoneMade
  <1> QED  BY <1>1, <1>2 DEF AdbMessage
LEMMA StaleMade ==
  ASSUME NEW a \in Nat, NEW b \in Nat, NEW m, m = A!Msg("CLSE", a, b, A!None)
  PROVE  m \in AdbMessage /\ m.cmd = "CLSE" /\ m.to = b
  <1>1. m = [cmd |-> "CLSE", from |-> a, to |-> b, body |-> A!None]
    BY DEF A!Msg
  <1>2. A!None \in AdbBody
    BY NoneMade
  <1> QED  BY <1>1, <1>2 DEF AdbMessage
LEMMA JoinedItems ==
  ASSUME NEW M, NEW a \in M, NEW b \in M
  PROVE  <<a>> \o <<b>> = <<a, b>> /\ <<>> \o <<b>> = <<b>>
  <1> DEFINE p == <<a>> \o <<b>>
             r == <<>> \o <<b>>
  <1>1. <<a>> \in Seq(M) /\ Len(<<a>>) = 1 /\ <<a>>[1] = a
    OBVIOUS
  <1>2. <<b>> \in Seq(M) /\ Len(<<b>>) = 1 /\ <<b>>[1] = b
    OBVIOUS
  <1>3. p \in Seq(M) /\ Len(p) = 2 /\ p[1] = a /\ p[2] = b
    BY <1>1, <1>2
  <1>4. r \in Seq(M) /\ Len(r) = 1 /\ r[1] = b
    BY <1>2
  <1>5. \A q \in Seq(M) : Len(q) = 2 => q = <<q[1], q[2]>>
    OBVIOUS
  <1>6. \A q \in Seq(M) : Len(q) = 1 => q = <<q[1]>>
    OBVIOUS
  <1> HIDE DEF p, r
  <1>7. p = <<a, b>> /\ r = <<b>>
    BY <1>3, <1>4, <1>5, <1>6
  <1> QED  BY <1>7 DEF p, r

LEMMA AnswerMade ==
  ASSUME AdbInv, NEW cmd \in OfStream, NEW body \in AdbBody,
         NEW m, m = A!Answer(cmd, body)
  PROVE  /\ m \in AdbMessage /\ m.cmd = cmd /\ m.from = x2.loc /\ m.to = x2.rem
         /\ m.body = body
  <1>1. x2.loc \in Nat /\ x2.rem \in Nat
    BY AdbFacts DEF AdbInv
  <1>2. cmd \in {"CNXN", "OPEN", "WRTE", "OKAY", "CLSE", "torn"}
    BY DEF OfStream
  <1>3. m = A!Msg(cmd, x2.loc, x2.rem, body)
    BY DEF A!Answer
  <1> QED  BY <1>1, <1>2, <1>3, MessageMade

LEMMA ClseMade ==
  ASSUME AdbInv, NEW m, m = A!Answer("CLSE", A!None)
  PROVE  m \in AdbMessage /\ m.cmd = "CLSE" /\ m.to = x2.rem /\ m.body = A!None
  <1>1. "CLSE" \in OfStream /\ A!None \in AdbBody
    BY NoneMade DEF OfStream
  <1> QED  BY <1>1, AnswerMade

LEMMA ToldKeeps ==
  ASSUME AdbInv, NEW New, ClientStep(New), x3' = x3,
         x2'.kind # "push" => x2.kind # "push",
         x2'.at = "close" /\ x2'.ok => x2' = x2,
         \A m \in New : m.cmd = "WRTE" =>
            m.body[1] = "RECV" \/ (x2'.kind = "push" /\ x2'.at # "close")
  PROVE  ToldRightly'
  <1>1. /\ x6' = x6 /\ x8' = x8
        /\ \A m \in Items(x4') : m \in Items(x4) \/ m \in New
    BY DEF ClientStep, Grown
  <1>2. ASSUME x2'.at = "close", x2'.ok
        PROVE  /\ x2'.kind \in {"push", "pull"}
               /\ x2'.kind = "pull" => x2'.got = <<StatusOf(x2'.n)>>
               /\ x2'.kind = "push" => FileStays(x2.n)' /\ x2'.n = x2.n
    <2>1. /\ x2' = x2 /\ x2.kind \in {"push", "pull"}
          /\ x2.kind = "pull" => x2.got = <<StatusOf(x2.n)>>
          /\ x2.kind = "push" => FileStays(x2.n)
      BY <1>2 DEF AdbInv, ToldRightly
    <2>2. x2.kind = "push" => FileStays(x2.n)'
      <3>1. \A m \in New : m.cmd = "WRTE" => m.body[1] = "RECV"
        BY <1>2
      <3> QED  BY <1>1, <2>1, <3>1 DEF FileStays
    <2> QED  BY <2>1, <2>2
  <1>3. ASSUME x3.ok, x3.kind = "push", x2'.kind # "push"
        PROVE FileStays(x3.n)'
    <2>1. FileStays(x3.n)
      BY <1>3 DEF AdbInv, ToldRightly
    <2> QED  BY <1>1, <1>3, <2>1 DEF FileStays
  <1>4. x3.ok /\ x3.kind \in {"shell", "pull"} => x3.got = <<StatusOf(x3.n)>>
    BY DEF AdbInv, ToldRightly
  <1> QED  BY <1>2, <1>3, <1>4 DEF ToldRightly

LEMMA AdbBegins ==
  ASSUME AdbInv, NEW kind \in AdbKinds, A!Begin(kind)  PROVE AdbInv'
  <1>1. /\ x2 = A!NoCall /\ x3.n < MaxCalls
        /\ x3' = x3 /\ x5' = x5 /\ x6' = x6 /\ x7' = x7 /\ x8' = x8
    BY DEF A!Begin, A!moduleVars
  <1>2. AdbTypes
    BY DEF AdbInv
  <1>3. x4 \in Seq(AdbMessage) /\ x5 \in Seq(AdbMessage) /\ x3.n \in Nat /\ x1.next \in Nat
    BY <1>2, AdbFacts
  <1>4. Shrunk(x5, x5')
    BY <1>1, <1>3, ShrunkBy
  <1>5. x2.at = "none" /\ x2.kind = "none"
    BY <1>1 DEF A!NoCall
  <1>6. CASE x1.connected
    <2> DEFINE o == A!Msg("OPEN", x1.next, 0, <<kind, x3.n + 1>>)
    <2>1. /\ x2' = [n |-> x3.n + 1, kind |-> kind, at |-> "open", loc |-> x1.next, rem |-> 0,
                    record |-> 1, got |-> <<>>, ok |-> FALSE]
          /\ x1' = [x1 EXCEPT !.next = @ + 1] /\ x4' = x4 \o <<o>>
      BY <1>1, <1>6 DEF A!Begin, A!NoCall, A!Open, A!Send
    <2>2. <<kind, x3.n + 1>> \in AdbBody
      BY <1>3, BodyMade
    <2>3. o \in AdbMessage /\ o.cmd = "OPEN" /\ o.from = x1.next /\ o.body = <<kind, x3.n + 1>>
      <3> DEFINE b == <<kind, x3.n + 1>>
      <3> HIDE DEF b
      <3>1. o = A!Msg("OPEN", x1.next, 0, b) /\ b \in AdbBody
        BY <2>2 DEF b
      <3> HIDE DEF o
      <3>2. o \in AdbMessage /\ o.cmd = "OPEN" /\ o.from = x1.next /\ o.body = b
        BY <1>3, <3>1, MessageMade
      <3> QED  BY <3>2 DEF b
    <2> HIDE DEF o
    <2>4. ClientStep({o}) /\ \A K : o \in K => Behind(x4', K) = {}
      BY <1>1, <1>3, <1>4, <2>1, <2>3, GrownBy DEF ClientStep
    <2>5. /\ x2'.n = x3.n + 1 /\ x2'.kind = kind /\ x2'.at = "open" /\ x2'.loc = x1.next
          /\ x2'.rem = 0 /\ x2'.record = 1 /\ x2'.got = <<>> /\ ~x2'.ok
      BY <2>1
    <2>6. x1'.next = x1.next + 1 /\ x1' \in [number : 1..MaxClients, connected : BOOLEAN, next : Nat]
      <3>1. x1 \in [number : 1..MaxClients, connected : BOOLEAN, next : Nat]
        BY <1>2 DEF AdbTypes
      <3> QED  BY ONLY <2>1, <3>1
    <2>7. Opening(o)
      BY <1>1, <1>5, <1>6, <2>3, <2>4, <2>5, <2>6 DEF Opening
    <2>8. x2' \in AdbCall
      BY <1>3, <2>1 DEF AdbCall, AdbBody
    <2>9. x4' \in Seq(AdbMessage)
      BY <2>4 DEF ClientStep, Grown
    <2>10. AdbTypes'
      BY <1>1, <1>2, <1>3, <2>5, <2>6, <2>8, <2>9, AdbNat DEF AdbTypes
    <2>11. StreamHeld'
      BY <2>5 DEF StreamHeld
    <2>12. ToldRightly'
      BY <1>1, <1>5, <2>3, <2>4, <2>5, ToldKeeps
    <2> QED  BY <2>7, <2>10, <2>11, <2>12, OpeningKeeps DEF AdbInv
  <1>7. CASE ~x1.connected
    <2> DEFINE c == A!Msg("CNXN", 0, 0, A!None)
    <2>1. /\ x2' = [n |-> x3.n + 1, kind |-> kind, at |-> "connect", loc |-> 0, rem |-> 0,
                    record |-> 1, got |-> <<>>, ok |-> FALSE]
          /\ x1' = x1 /\ x4' = x4 \o <<c>>
      BY <1>1, <1>7 DEF A!Begin, A!NoCall, A!Connect, A!Send
    <2>2. c \in AdbMessage /\ c.cmd = "CNXN"
      BY DEF A!Msg, A!None, AdbMessage, AdbBody
    <2> HIDE DEF c
    <2>4. ClientStep({c}) /\ \A K : c \in K => Behind(x4', K) = {}
      BY <1>1, <1>3, <1>4, <2>1, <2>2, GrownBy DEF ClientStep
    <2>5. /\ x2'.n = x3.n + 1 /\ x2'.kind = kind /\ x2'.at = "connect"
          /\ x2'.rem = 0 /\ x2'.record = 1 /\ x2'.got = <<>> /\ ~x2'.ok
      BY <2>1
    <2>6. Behind(x4', Connects) = {}
      BY <2>2, <2>4, MessageSets
    <2>7. Reconnects({c})
      BY <1>1, <1>5, <2>1, <2>2, <2>4, <2>5, <2>6 DEF Reconnects
    <2>8. x2' \in AdbCall
      BY <1>3, <2>1 DEF AdbCall, AdbBody
    <2>9. x4' \in Seq(AdbMessage)
      BY <2>4 DEF ClientStep, Grown
    <2>10. AdbTypes'
      BY <1>1, <1>2, <1>3, <2>1, <2>5, <2>8, <2>9, AdbNat DEF AdbTypes
    <2>11. StreamHeld'
      BY <2>5 DEF StreamHeld
    <2>12. ToldRightly'
      BY <1>1, <1>5, <2>2, <2>4, <2>5, ToldKeeps
    <2> QED  BY <2>7, <2>10, <2>11, <2>12, ReconnectsKeeps DEF AdbInv
  <1>8. x1.connected \in BOOLEAN
    BY <1>2 DEF AdbTypes
  <1> QED  BY <1>6, <1>7

LEMMA AdbReopens == ASSUME AdbInv, A!Reopen  PROVE AdbInv'
  <1>1. /\ x2 = A!NoCall /\ x1.number < MaxClients
        /\ x1' = [number |-> x1.number + 1, connected |-> FALSE, next |-> 1]
        /\ UNCHANGED <<x2, x3, x4, x5, x6, x7, x8>>
    BY DEF A!Reopen, A!moduleVars
  <1>2. ~AtStream /\ x2.at = "none"
    BY <1>1 DEF A!NoCall, AtStream
  <1>3. AdbTypes'
    BY <1>1, AdbNat DEF AdbInv, AdbTypes
  <1>4. ~x1'.connected
    BY <1>1
  <1>5. OldStreamsEnd'
    BY <1>1, <1>2, <1>4 DEF OldStreamsEnd, AtStream
  <1>6. Numbered' /\ StreamsApart' /\ RecordsReach' /\ OwnStreamStays'
    BY <1>1 DEF AdbInv, Numbered, StreamsApart, RecordsReach, OwnStreamStays, AtStream
  <1>7. OneRecord' /\ OneAnswer' /\ StreamsSpeak'
    BY <1>1 DEF AdbInv, OneRecord, OneAnswer, StreamsSpeak
  <1>8. StreamHeld'
    BY <1>1, <1>2 DEF StreamHeld
  <1>9. ToldRightly'
    BY <1>1 DEF AdbInv, ToldRightly, FileStays
  <1> QED  BY <1>3, <1>5, <1>6, <1>7, <1>8, <1>9 DEF AdbInv

\* The call ends, and is told so.
CallEnds(New, b) ==
    /\ ClientStep(New) /\ x2 # A!NoCall /\ x2' = A!NoCall /\ x3' = [x2 EXCEPT !.ok = b]
    /\ x1' \in [number : 1..MaxClients, connected : BOOLEAN, next : Nat]
    /\ (x1'.connected => x1.connected) /\ x1'.next = x1.next
    /\ \A a, m \in New : a = m
    /\ \A m \in New : m.cmd = "CLSE" /\ m.to < x7
    /\ b \in BOOLEAN
    /\ b => \/ x2.at = "close" /\ x2.ok
            \/ x2.kind = "shell" /\ x2.got = <<StatusOf(x2.n)>>

LEMMA CallEndsKeeps ==
  ASSUME AdbInv, NEW New, NEW b, CallEnds(New, b)  PROVE AdbInv'
  <1>1. /\ x2 # A!NoCall /\ x2' = A!NoCall /\ x3' = [x2 EXCEPT !.ok = b] /\ b \in BOOLEAN
        /\ x1' \in [number : 1..MaxClients, connected : BOOLEAN, next : Nat]
        /\ ClientStep(New) /\ x6' = x6 /\ x7' = x7 /\ x8' = x8
    BY DEF CallEnds, ClientStep
  <1>2. AdbTypes /\ x2 \in AdbCall
    BY DEF AdbInv, AdbTypes
  <1>3. x2' \in AdbCall /\ x2'.at = "none" /\ x2'.kind = "none" /\ x2'.rem = 0
    BY <1>1, AdbNat DEF A!NoCall, AdbCall
  <1>4. /\ x3' \in AdbCall /\ x3'.n = x2.n /\ x3'.kind = x2.kind /\ x3'.got = x2.got
        /\ x3'.ok = b
    BY <1>1, <1>2 DEF AdbCall
  <1>5. x4' \in Seq(AdbMessage) /\ x5' \in Seq(AdbMessage)
    BY <1>1 DEF ClientStep, Grown, Shrunk
  <1>6. x3'.n <= MaxCalls
    BY <1>1, <1>2, <1>4 DEF AdbTypes
  <1>7. x2'.got = <<>> /\ x2'.record = 1
    BY <1>1 DEF A!NoCall
  <1>8. AdbTypes'
    BY <1>1, <1>2, <1>3, <1>4, <1>5, <1>6, <1>7 DEF AdbTypes
  <1>9. Steady(New)
    <2>1. x2'.rem < x7
      BY <1>2, <1>3 DEF AdbTypes
    <2>2. /\ (x1'.connected => x1.connected) /\ x1'.next = x1.next
          /\ \A a, m \in New : a.cmd = m.cmd => a = m
          /\ \A m \in New : m.cmd = "CLSE" /\ m.to < x7
      BY DEF CallEnds
    <2> QED  BY <1>1, <1>3, <1>4, <2>1, <2>2 DEF Steady, OfStream
  <1>10. StreamHeld'
    BY <1>3 DEF StreamHeld
  <1>11. ToldRightly'
    <2>1. \A m \in New : m.cmd = "CLSE"
      BY DEF CallEnds
    <2>2. \A m \in Items(x4') : m \in Items(x4) \/ m \in New
      BY <1>1 DEF ClientStep, Grown
    <2>3. ASSUME b, x2.at = "close", x2.ok
          PROVE  /\ x2.kind \in {"shell", "pull"} => x2.got = <<StatusOf(x2.n)>>
                 /\ x2.kind = "push" => FileStays(x3.n)'
      <3>1. /\ x2.kind \in {"push", "pull"}
            /\ x2.kind = "pull" => x2.got = <<StatusOf(x2.n)>>
            /\ x2.kind = "push" => FileStays(x2.n)
        BY <2>3 DEF AdbInv, ToldRightly
      <3> QED  BY <1>1, <1>4, <2>1, <2>2, <3>1 DEF FileStays
    <2>4. b => /\ x2.kind \in {"shell", "pull"} => x2.got = <<StatusOf(x2.n)>>
               /\ x2.kind = "push" => FileStays(x3.n)'
      BY <2>3 DEF CallEnds
    <2> QED  BY <1>3, <1>4, <2>4 DEF ToldRightly
  <1> QED  BY <1>8, <1>9, <1>10, <1>11, SteadyKeeps DEF AdbInv

LEMMA Ended ==
  ASSUME AdbInv, NEW ok \in BOOLEAN, NEW up \in BOOLEAN, A!End(ok, up)
  PROVE  /\ x2' = A!NoCall /\ x3' = [x2 EXCEPT !.ok = ok]
         /\ x1' \in [number : 1..MaxClients, connected : BOOLEAN, next : Nat]
         /\ (x1'.connected => x1.connected) /\ x1'.next = x1.next
  <1>1. x1 \in [number : 1..MaxClients, connected : BOOLEAN, next : Nat]
    BY DEF AdbInv, AdbTypes
  <1>2. /\ x2' = A!NoCall /\ x3' = [x2 EXCEPT !.ok = ok]
        /\ x1' = [x1 EXCEPT !.connected = @ /\ up]
    BY DEF A!End
  <1>3. PICK b \in BOOLEAN : b = (x1.connected /\ up)
    BY <1>1
  <1>4. x1' = [x1 EXCEPT !.connected = b]
    BY <1>2, <1>3
  <1>5. x1'.connected = b /\ x1'.next = x1.next
    BY <1>1, <1>4
  <1>6. x1' \in [number : 1..MaxClients, connected : BOOLEAN, next : Nat]
    BY <1>1, <1>4
  <1> QED  BY <1>2, <1>3, <1>5, <1>6

\* A call that ends sends nothing, or the CLSE of its stream.
LEMMA EndKeeps ==
  ASSUME AdbInv, NEW ok \in BOOLEAN, NEW up \in BOOLEAN, A!End(ok, up), x2 # A!NoCall,
         UNCHANGED <<x6, x7, x8>>, Shrunk(x5, x5'),
         x4' = x4 \/ x4' = x4 \o <<A!Answer("CLSE", A!None)>>,
         ok => \/ x2.at = "close" /\ x2.ok
               \/ x2.kind = "shell" /\ x2.got = <<StatusOf(x2.n)>>
  PROVE  AdbInv'
  <1>1. /\ x4 \in Seq(AdbMessage) /\ x2.loc \in Nat /\ x2.rem \in Nat /\ x2.rem < x7
    BY AdbFacts DEF AdbInv, Numbered
  <1>2. CASE x4' = x4
    <2>1. ClientStep({})
      BY <1>1, <1>2, GrownBy DEF ClientStep
    <2>2. CallEnds({}, ok)
      BY <2>1, Ended DEF CallEnds
    <2> QED  BY <2>2, CallEndsKeeps
  <1>3. CASE x4' = x4 \o <<A!Answer("CLSE", A!None)>>
    <2> DEFINE m == A!Answer("CLSE", A!None)
    <2>1. m \in AdbMessage /\ m.cmd = "CLSE" /\ m.to = x2.rem
      BY ClseMade
    <2> HIDE DEF m
    <2>2. x4' = x4 \o <<m>>
      BY <1>3 DEF m
    <2>3. ClientStep({m})
      BY <1>1, <2>1, <2>2, GrownBy DEF ClientStep
    <2>4. CallEnds({m}, ok)
      BY <1>1, <2>1, <2>3, Ended DEF CallEnds
    <2> QED  BY <2>4, CallEndsKeeps
  <1> QED  BY <1>2, <1>3

\* closeStreamLocked begins, of a call that fails.
LEMMA CloseKeeps ==
  ASSUME AdbInv, NEW up \in BOOLEAN, A!CloseWith(FALSE, up), x2.at \in {"write", "reply"},
         UNCHANGED <<x6, x7, x8>>, Shrunk(x5, x5')
  PROVE  AdbInv'
  <1> DEFINE m == A!Answer("CLSE", A!None)
             no == FALSE
  <1>1. /\ AdbTypes /\ x4 \in Seq(AdbMessage) /\ x2.loc \in Nat /\ x2.rem \in Nat
        /\ x2.rem < x7 /\ x2 \in AdbCall
    BY AdbFacts DEF AdbInv, AdbTypes, Numbered
  <1>2. m \in AdbMessage /\ m.cmd = "CLSE" /\ m.to = x2.rem
    BY ClseMade
  <1> HIDE DEF m
  <1>3. /\ x2' = [x2 EXCEPT !.at = "close", !.ok = no]
        /\ x1' = [x1 EXCEPT !.connected = @ /\ up] /\ x3' = x3 /\ x4' = x4 \o <<m>>
    BY DEF A!CloseWith, A!Send, m
  <1>4. no \in BOOLEAN /\ ~no
    OBVIOUS
  <1> HIDE DEF no
  <1>5. x1 \in [number : 1..MaxClients, connected : BOOLEAN, next : Nat]
    BY <1>1 DEF AdbTypes
  <1>6. /\ x1' \in [number : 1..MaxClients, connected : BOOLEAN, next : Nat]
        /\ (x1'.connected => x1.connected) /\ x1'.next = x1.next
    <2>1. PICK b \in BOOLEAN : b = (x1.connected /\ up)
      BY <1>5
    <2>2. x1' = [x1 EXCEPT !.connected = b]
      BY <1>3, <2>1
    <2>3. x1'.connected = b /\ x1'.next = x1.next
      BY <1>5, <2>2
    <2>4. x1' \in [number : 1..MaxClients, connected : BOOLEAN, next : Nat]
      BY <1>5, <2>2
    <2> QED  BY <2>1, <2>3, <2>4
  <1>7. ClientStep({m})
    BY <1>1, <1>2, <1>3, GrownBy DEF ClientStep
  <1>8. /\ x2' \in AdbCall /\ x2'.at = "close" /\ x2'.ok = no /\ x2'.n = x2.n
        /\ x2'.kind = x2.kind /\ x2'.loc = x2.loc /\ x2'.rem = x2.rem
        /\ x2'.record = x2.record /\ x2'.got = x2.got
    BY <1>1, <1>3, <1>4 DEF AdbCall
  <1>9. x2 # A!NoCall /\ x2' # A!NoCall
    BY <1>8 DEF A!NoCall
  <1>10. AdbTypes'
    <2>1. x4' \in Seq(AdbMessage) /\ x5' \in Seq(AdbMessage)
      BY <1>7 DEF ClientStep, Grown, Shrunk
    <2> QED  BY <1>1, <1>3, <1>6, <1>8, <1>9, <2>1 DEF AdbTypes
  <1>11. Steady({m})
    BY <1>1, <1>2, <1>3, <1>6, <1>7, <1>8 DEF Steady, OfStream
  <1>12. StreamHeld'
    BY <1>8 DEF StreamHeld
  <1>13. ToldRightly'
    BY <1>2, <1>3, <1>4, <1>7, <1>8, ToldKeeps
  <1> QED  BY <1>10, <1>11, <1>12, <1>13, SteadyKeeps DEF AdbInv

\* A message that is dropped, and the CLSE of its stream if the call waits for its own.
LEMMA DropKeeps ==
  ASSUME AdbInv, UNCHANGED <<x1, x2, x3, x6, x7, x8>>, Shrunk(x5, x5'), NEW New,
         Grown(x4, x4', New), x4' = x4 \/ x2.at \notin {"write", "reply"},
         \A a, b \in New : a = b,
         \A m \in New : /\ m.cmd = "CLSE" /\ m.to < x7
                        /\ x2.at \in {"open", "write", "reply"} =>
                             \A s \in x6 : s.n = x2.n => s.rem # m.to
  PROVE  AdbInv'
  <1>1. ClientStep(New)
    BY DEF ClientStep, Grown
  <1>2. x2.rem < x7 /\ AdbTypes
    BY DEF AdbInv, Numbered
  <1>3. Steady(New)
    BY <1>1, <1>2 DEF Steady, OfStream
  <1>4. AdbTypes'
    <2>1. x4' \in Seq(AdbMessage) /\ x5' \in Seq(AdbMessage)
      BY <1>1 DEF ClientStep, Grown, Shrunk
    <2> QED  BY <1>2, <2>1 DEF AdbTypes
  <1>5. ToldRightly'
    BY <1>1, ToldKeeps
  <1>6. StreamHeld'
    <2>1. CASE x2.at \notin {"write", "reply"}
      BY <2>1 DEF StreamHeld
    <2>2. CASE x2.at \in {"write", "reply"}
      <3>1. x4' = x4 /\ \A m \in Items(x5') : m \in Items(x5) \/ m.cmd = "torn"
        BY <2>2 DEF Shrunk
      <3>2. \A m \in Items(x5') : m \in AdbMessage
        BY <1>4, AdbFacts, ItemsTyped DEF AdbTypes
      <3>3. \A r : /\ NoneOf(x5, From("OKAY", r)) => NoneOf(x5', From("OKAY", r))
                   /\ NoneOf(x5, From("WRTE", r)) => NoneOf(x5', From("WRTE", r))
        BY <3>1, <3>2, MessageSets DEF NoneOf
      <3>4. CASE Foreign
        <4>1. Foreign'
          BY <3>1, <3>3, <3>4 DEF Foreign
        <4> QED  BY <4>1 DEF StreamHeld
      <3>5. CASE ShellOurs
        <4>1. ShellOurs'
          BY <3>1, <3>3, <3>5 DEF ShellOurs
        <4> QED  BY <4>1 DEF StreamHeld
      <3>6. ASSUME NEW s \in x6, s.rem = x2.rem, s.n = x2.n, PullOurs(s)
            PROVE StreamHeld'
        <4>1. PullOurs(s)'
          BY <3>1, <3>3, <3>6 DEF PullOurs
        <4> QED  BY <3>6, <4>1 DEF StreamHeld
      <3>7. ASSUME NEW s \in x6, s.rem = x2.rem, s.n = x2.n, PushOurs(s)
            PROVE StreamHeld'
        <4>1. PushOurs(s)'
          BY <3>1, <3>3, <3>7 DEF PushOurs
        <4> QED  BY <3>7, <4>1 DEF StreamHeld
      <3> QED  BY <2>2, <3>4, <3>5, <3>6, <3>7 DEF AdbInv, StreamHeld
    <2> QED  BY <2>1, <2>2
  <1> QED  BY <1>3, <1>4, <1>5, <1>6, SteadyKeeps DEF AdbInv

LEMMA FailKeeps ==
  ASSUME AdbInv, A!End(FALSE, TRUE) \/ A!End(FALSE, FALSE), x2 # A!NoCall,
         UNCHANGED <<x6, x7, x8>>, Shrunk(x5, x5'),
         x4' = x4 \/ x4' = x4 \o <<A!Answer("CLSE", A!None)>>
  PROVE  AdbInv'
  <1> DEFINE no == FALSE
             yes == TRUE
  <1>1. A!End(no, yes) \/ A!End(no, no)
    OBVIOUS
  <1>2. no \in BOOLEAN /\ yes \in BOOLEAN /\ ~no
    OBVIOUS
  <1> HIDE DEF no, yes
  <1> QED  BY <1>1, <1>2, EndKeeps

LEMMA CloseFails ==
  ASSUME AdbInv, x2.at \in {"write", "reply"}, UNCHANGED <<x6, x7, x8>>, Shrunk(x5, x5'),
         \/ A!CloseWith(FALSE, TRUE) \/ A!CloseWith(FALSE, FALSE)
         \/ A!CloseWith(FALSE, x2.kind = "push")
  PROVE  AdbInv'
  <1> DEFINE yes == TRUE
             no == FALSE
             push == x2.kind = "push"
  <1>1. yes \in BOOLEAN /\ no \in BOOLEAN /\ push \in BOOLEAN
    OBVIOUS
  <1>2. \/ A!CloseWith(FALSE, yes) \/ A!CloseWith(FALSE, no) \/ A!CloseWith(FALSE, push)
    OBVIOUS
  <1> HIDE DEF yes, no, push
  <1> QED  BY <1>1, <1>2, CloseKeeps

LEMMA AdbTimesOut == ASSUME AdbInv, A!TimesOut  PROVE AdbInv'
  <1>1. /\ x2 # A!NoCall /\ UNCHANGED <<x6, x7, x8>>
        /\ x5' = x5 \/ (x5 # <<>> /\ x5' = <<A!Torn>> \o Tail(x5))
    BY DEF A!TimesOut, A!moduleVars
  <1>2. x5 \in Seq(AdbMessage) /\ x2.at # "none"
    BY <1>1, AdbFacts DEF AdbInv
  <1>3. Shrunk(x5, x5')
    BY <1>1, <1>2, ShrunkBy
  <1>4. x2.at \in {"connect", "open", "write", "reply", "close"}
    BY <1>2 DEF AdbInv, AdbTypes, AdbCall
  <1>5. CASE x2.at \in {"connect", "open", "close"}
    <2>1. A!End(FALSE, TRUE) /\ x4' = x4
      BY <1>5 DEF A!TimesOut
    <2> QED  BY <1>1, <1>3, <2>1, FailKeeps
  <1>6. CASE x2.at = "write"
    <2>1. A!CloseWith(FALSE, TRUE)
      BY <1>6 DEF A!TimesOut
    <2> QED  BY <1>1, <1>3, <1>6, <2>1, CloseFails
  <1>7. CASE x2.at = "reply"
    <2>1. A!CloseWith(FALSE, x2.kind = "push")
      BY <1>7 DEF A!TimesOut
    <2> QED  BY <1>1, <1>3, <1>7, <2>1, CloseFails
  <1> QED  BY <1>4, <1>5, <1>6, <1>7

LEMMA AdbWriteFails == ASSUME AdbInv, A!WriteFails  PROVE AdbInv'
  <1>1. /\ x2.at = "reply" /\ x5 # <<>> /\ x5' = Tail(x5) /\ x4' = x4
        /\ A!End(FALSE, TRUE) /\ UNCHANGED <<x6, x7, x8>>
    BY DEF A!WriteFails, A!moduleVars
  <1>2. x5 \in Seq(AdbMessage) /\ x2 # A!NoCall
    BY <1>1, AdbFacts DEF AdbInv
  <1>3. Shrunk(x5, x5')
    BY <1>1, <1>2, ShrunkBy
  <1> QED  BY <1>1, <1>2, <1>3, FailKeeps

\* connectLocked
LEMMA ConnectingKeeps ==
  ASSUME AdbInv, x2.at = "connect", x5 # <<>>, x5' = Tail(x5), UNCHANGED <<x6, x7, x8>>,
         A!Connecting(Head(x5))
  PROVE  AdbInv'
  <1> DEFINE m == Head(x5)
  <1>1. /\ AdbTypes /\ x5 \in Seq(AdbMessage) /\ x4 \in Seq(AdbMessage) /\ x2 # A!NoCall
        /\ x2.n = x3.n + 1 /\ x2.n \in Nat /\ x1.next \in Nat /\ x2.kind \in AdbKinds
    BY AdbFacts DEF AdbInv
  <1>2. Shrunk(x5, x5')
    BY <1>1, ShrunkBy
  <1>3. m \in AdbMessage /\ m \in Items(x5) /\ ShorterBy(x5, m, x5')
    BY <1>1, Dequeued DEF ShorterBy
  <1>4. A!Connecting(m)
    OBVIOUS
  <1> HIDE DEF m
  <1>5. x2 \in AdbCall /\ x1 \in [number : 1..MaxClients, connected : BOOLEAN, next : Nat]
    BY <1>1 DEF AdbTypes
  <1>6. CASE m.cmd = "CNXN"
    <2> DEFINE o == A!Msg("OPEN", x1.next, 0, <<x2.kind, x2.n>>)
               yes == TRUE
    <2>1. /\ x1' = [x1 EXCEPT !.connected = yes, !.next = @ + 1]
          /\ x2' = [x2 EXCEPT !.at = "open", !.loc = x1.next] /\ x3' = x3
          /\ x4' = x4 \o <<o>>
      BY <1>4, <1>6 DEF A!Connecting, A!Open, A!Send
    <2> HIDE DEF yes
    <2>2. yes \in BOOLEAN
      BY DEF yes
    <2>3. o \in AdbMessage /\ o.cmd = "OPEN" /\ o.from = x1.next /\ o.body = <<x2.kind, x2.n>>
      <3> DEFINE b == <<x2.kind, x2.n>>
      <3>1. b \in AdbBody
        BY <1>1, BodyMade
      <3> HIDE DEF b
      <3>2. o = A!Msg("OPEN", x1.next, 0, b)
        BY DEF b
      <3> HIDE DEF o
      <3>3. o \in AdbMessage /\ o.cmd = "OPEN" /\ o.from = x1.next /\ o.body = b
        BY <1>1, <3>1, <3>2, MessageMade
      <3> QED  BY <3>3 DEF b
    <2> HIDE DEF o
    <2>4. ClientStep({o}) /\ \A K : o \in K => Behind(x4', K) = {}
      BY <1>1, <1>2, <2>1, <2>3, GrownBy DEF ClientStep
    <2>5. /\ x2' \in AdbCall /\ x2'.n = x2.n /\ x2'.kind = x2.kind /\ x2'.at = "open"
          /\ x2'.loc = x1.next /\ x2'.rem = x2.rem /\ x2'.record = x2.record
          /\ x2'.got = x2.got
      BY <1>1, <1>5, <2>1 DEF AdbCall
    <2>6. /\ x1' \in [number : 1..MaxClients, connected : BOOLEAN, next : Nat]
          /\ x1'.next = x1.next + 1
      <3>1. x1.next + 1 \in Nat
        BY <1>1
      <3>2. x1' = [number |-> x1.number, connected |-> yes, next |-> x1.next + 1]
        BY <1>5, <2>1
      <3>3. x1.number \in 1..MaxClients
        BY <1>5
      <3> QED  BY <2>2, <3>1, <3>2, <3>3
    <2>7. x2.rem = 0 /\ x2.got = <<>> /\ x2.record = 1
      BY <1>1 DEF AdbTypes
    <2>8. Opening(o)
      BY <1>1, <2>1, <2>3, <2>4, <2>5, <2>6, <2>7 DEF Opening
    <2>9. AdbTypes'
      <3>1. x4' \in Seq(AdbMessage) /\ x5' \in Seq(AdbMessage)
        BY <2>4 DEF ClientStep, Grown, Shrunk
      <3>2. x2.n <= MaxCalls
        BY <1>1 DEF AdbTypes
      <3> QED  BY <1>1, <2>1, <2>5, <2>6, <2>7, <3>1, <3>2 DEF AdbTypes
    <2>10. StreamHeld'
      BY <2>5 DEF StreamHeld
    <2>11. ToldRightly'
      BY <2>1, <2>3, <2>4, <2>5, ToldKeeps
    <2> QED  BY <2>8, <2>9, <2>10, <2>11, OpeningKeeps DEF AdbInv
  <1>7. CASE m.cmd \in {"WRTE", "OKAY", "CLSE"}
    <2> DEFINE c == A!Msg("CNXN", 0, 0, A!None)
               e == A!Msg("CLSE", m.to, m.from, A!None)
    <2>1. /\ x4' = x4 \o (A!CloseStale(m) \o <<c>>) /\ UNCHANGED <<x1, x2, x3>>
      BY <1>4, <1>7 DEF A!Connecting, A!Connect, A!Send
    <2>2. A!CloseStale(m) \in {<<e>>, <<>>}
      BY DEF A!CloseStale
    <2>3. c \in AdbMessage /\ c.cmd = "CNXN"
      BY CnxnMade
    <2>4. m.from \in Nat /\ m.to \in Nat /\ m.from < x7
      BY <1>3, <1>7, MessageSets DEF AdbInv, Numbered, OfStream
    <2>5. e \in AdbMessage /\ e.cmd = "CLSE" /\ e.to = m.from
      BY <2>4, StaleMade
    <2> HIDE DEF c, e
    <2>6. x4' = x4 \o <<c>> \/ x4' = x4 \o <<e, c>>
      <3>1. <<e>> \o <<c>> = <<e, c>> /\ <<>> \o <<c>> = <<c>>
        BY <2>3, <2>5, JoinedItems
      <3> QED  BY <2>1, <2>2, <3>1
    <2>7. PICK New \in {{c}, {e, c}} : Grown(x4, x4', New) /\ \A K : c \in K => Behind(x4', K) = {}
      <3>1. e # c
        BY <2>3, <2>5
      <3> QED  BY <1>1, <2>3, <2>5, <2>6, <3>1, GrownBy
    <2>8. ClientStep(New)
      BY <1>2, <2>7 DEF ClientStep
    <2>9. Behind(x4', Connects) = {}
      BY <2>3, <2>7, MessageSets
    <2>10. x2.rem = 0
      BY <1>1 DEF AdbTypes
    <2>11. Reconnects(New)
      BY <1>1, <2>1, <2>3, <2>4, <2>5, <2>7, <2>8, <2>9, <2>10 DEF Reconnects
    <2>12. AdbTypes'
      <3>1. x4' \in Seq(AdbMessage) /\ x5' \in Seq(AdbMessage)
        BY <2>8 DEF ClientStep, Grown, Shrunk
      <3> QED  BY <1>1, <2>1, <3>1 DEF AdbTypes
    <2>13. StreamHeld'
      BY <2>1 DEF StreamHeld
    <2>14. ToldRightly'
      BY <2>1, <2>3, <2>5, <2>7, <2>8, ToldKeeps
    <2> QED  BY <2>11, <2>12, <2>13, <2>14, ReconnectsKeeps DEF AdbInv
  <1>8. CASE m.cmd \notin {"CNXN", "WRTE", "OKAY", "CLSE"}
    <2>1. A!End(FALSE, TRUE) /\ x4' = x4
      BY <1>4, <1>8 DEF A!Connecting
    <2> QED  BY <1>1, <1>2, <2>1, FailKeeps
  <1> QED  BY <1>6, <1>7, <1>8

LEMMA OnceSame ==
  ASSUME NEW q, Len(q) \in Nat, NEW K, Once(q, K), NEW a \in Items(q), NEW b \in Items(q),
         a \in K, b \in K
  PROVE  a = b
  <1>1. PICK i \in 1..Len(q), j \in 1..Len(q) : a = q[i] /\ b = q[j]
    BY DEF Items
  <1>2. i < j \/ j < i \/ i = j
    OBVIOUS
  <1> QED  BY <1>1, <1>2 DEF Once

LEMMA RecordsAre ==
  /\ A!Records["pull"][1] = "RECV" /\ Len(A!Records["pull"]) = 1
  /\ \A i \in 1..3 : A!Records["push"][i] = PushRecord(i)
  /\ Len(A!Records["push"]) = 3
  <1>1. A!Records["pull"] = <<"RECV">> /\ A!Records["push"] = <<"SEND", "DATA", "DONE">>
    BY DEF A!Records
  <1>2. \A i \in 1..3 : i = 1 \/ i = 2 \/ i = 3
    OBVIOUS
  <1> QED  BY <1>1, <1>2 DEF PushRecord

\* A step that sends one record of the call.
LEMMA WriteIsSteady ==
  ASSUME NEW w, ClientStep({w}), x1' = x1, x3' = x3, x2.at \in {"open", "write"},
         x2'.at = "write", x2'.n = x2.n, x2'.kind = x2.kind, x2'.loc = x2.loc,
         x2.at # "open" => x2'.rem = x2.rem, x2'.rem < x7,
         w.cmd = "WRTE", w.to = x2'.rem, w.body[2] = x2'.n,
         NoneOf(x5', From("OKAY", w.to)), NoneOf(x4, Towards("WRTE", w.to)),
         NoneOf(x4, Connects) => \A s \in x6 : s.rem = w.to => s.n = x2'.n
  PROVE  Steady({w})
  <1>1. w.cmd \in OfStream /\ w.to < x7 /\ w.cmd # "OKAY" /\ w.cmd # "CLSE"
    BY DEF OfStream
  <1>2. \A m \in {w} :
          /\ m.cmd \in OfStream /\ m.to < x7
          /\ m.cmd = "WRTE" =>
                /\ x2'.at = "write" /\ m.body[2] = x2'.n /\ m.to = x2'.rem
                /\ NoneOf(x5', From("OKAY", m.to)) /\ NoneOf(x4, Towards("WRTE", m.to))
                /\ NoneOf(x4, Connects) => \A s \in x6 : s.rem = m.to => s.n = x2'.n
          /\ m.cmd # "OKAY" /\ m.cmd # "CLSE"
    BY <1>1
  <1>3. \A a, b \in {w} : a.cmd = b.cmd => a = b
    OBVIOUS
  <1> QED  BY <1>2, <1>3 DEF Steady

\* openServiceLocked takes the first OKAY with its number for that of its stream.
LEMMA ShellOpens ==
  ASSUME AdbInv, x2.at = "open", x2.kind = "shell", x5 # <<>>, x5' = Tail(x5),
         UNCHANGED <<x1, x3, x4, x6, x7, x8>>, NEW m, m = Head(x5),
         m.cmd = "OKAY", m.to = x2.loc, x2' = [x2 EXCEPT !.at = "reply", !.rem = m.from]
  PROVE  AdbInv'
  <1>1. /\ AdbTypes /\ x5 \in Seq(AdbMessage) /\ x4 \in Seq(AdbMessage) /\ x2 # A!NoCall
        /\ x2 \in AdbCall /\ x2.n \in Nat
    BY AdbFacts DEF AdbInv, AdbTypes
  <1>2. /\ m \in AdbMessage /\ m \in Items(x5) /\ ShorterBy(x5, m, x5')
        /\ x5' \in Seq(AdbMessage)
    BY <1>1, Dequeued DEF ShorterBy
  <1>3. m.from \in Nat /\ m.from < x7
    BY <1>2, MessageSets DEF AdbInv, Numbered, OfStream
  <1>4. ClientStep({})
    BY <1>1, ShrunkBy, GrownBy DEF ClientStep
  <1>5. /\ x2' \in AdbCall /\ x2'.at = "reply" /\ x2'.rem = m.from /\ x2'.n = x2.n
        /\ x2'.kind = x2.kind /\ x2'.loc = x2.loc /\ x2'.got = x2.got
        /\ x2'.record = x2.record /\ x2'.ok = x2.ok
    BY <1>1, <1>3 DEF AdbCall
  <1>6. Steady({})
    BY <1>1, <1>3, <1>4, <1>5 DEF Steady
  <1>7. AdbTypes'
    <2>1. x2' # A!NoCall
      BY <1>5 DEF A!NoCall
    <2> QED  BY <1>1, <1>2, <1>5, <2>1 DEF AdbTypes
  <1>8. ToldRightly'
    BY <1>4, <1>5, ToldKeeps
  <1>9. x2.got = <<>> /\ AtStream
    BY <1>1 DEF AdbTypes, AtStream
  <1>10. /\ \A w \in Items(x5') : w \in Items(x5) /\ w \in AdbMessage
         /\ Once(x5', From("WRTE", m.from))
    <2>1. Once(x5, From("WRTE", m.from))
      BY <1>3 DEF AdbInv, OneAnswer
    <2> QED  BY <1>2, <2>1, ItemsTyped DEF ShorterBy
  <1>11. \A s \in x6 : s.n = x2.n => s.kind = "shell"
    BY <1>9 DEF AdbInv, StreamsApart
  <1>12. StreamHeld'
    <2>1. CASE /\ \A s \in x6 : s.rem = m.from => s.n # x2.n
               /\ \A w \in Items(x5') : w.cmd = "WRTE" /\ w.from = m.from => w.body[2] # x2.n
      <3>1. Len(<<>>) = 0
        OBVIOUS
      <3>2. \A i \in 1..Len(x2'.got) : FALSE
        BY <1>5, <1>9, <3>1
      <3>3. Foreign'
        BY <1>5, <2>1, <3>2 DEF Foreign
      <3> QED  BY <3>3 DEF StreamHeld
    <2>2. CASE \/ \E s \in x6 : s.rem = m.from /\ s.n = x2.n
               \/ \E w \in Items(x5') : w.cmd = "WRTE" /\ w.from = m.from /\ w.body[2] = x2.n
      <3>1. \A s \in x6 : s.rem = m.from => s.n = x2.n
        BY <1>10, <2>2 DEF AdbInv, StreamsApart, StreamsSpeak
      <3>2. \A w \in Items(x5') : w.cmd = "WRTE" /\ w.from = m.from => w.body = StatusOf(x2.n)
        <4>1. ASSUME NEW w \in Items(x5'), w.cmd = "WRTE", w.from = m.from
              PROVE w.body[2] = x2.n
          <5>1. CASE \E s \in x6 : s.rem = m.from /\ s.n = x2.n
            BY <1>10, <4>1, <5>1 DEF AdbInv, StreamsSpeak
          <5>2. ASSUME NEW v \in Items(x5'), v.cmd = "WRTE", v.from = m.from, v.body[2] = x2.n
                PROVE w.body[2] = x2.n
            <6>1. v \in From("WRTE", m.from) /\ w \in From("WRTE", m.from)
              BY <1>10, <4>1, <5>2, MessageSets
            <6>2. Len(x5') \in Nat
              BY <1>2
            <6>3. v = w
              BY <1>10, <6>1, <6>2, OnceSame
            <6> QED  BY <5>2, <6>3
          <5> QED  BY <2>2, <5>1, <5>2
        <4>2. \A w \in Items(x5') : w.cmd = "WRTE" /\ w.from = m.from => w.body[1] = "status"
          BY <1>10, <4>1 DEF AdbInv, StreamsSpeak
        <4>3. \A w \in Items(x5') : w.body = <<w.body[1], w.body[2]>>
          BY <1>10, BodyPair
        <4> QED  BY <4>1, <4>2, <4>3 DEF StatusOf
      <3>3. \A s \in x6 : s.rem = m.from /\ s.at = "run" => NoneOf(x5', From("WRTE", m.from))
        BY <1>10, <1>11, <3>1, MessageSets DEF AdbInv, StreamsSpeak, NoneOf
      <3>4. ShellOurs'
        BY <1>5, <1>9, <3>1, <3>2, <3>3 DEF ShellOurs
      <3> QED  BY <3>4 DEF StreamHeld
    <2> QED  BY <2>1, <2>2
  <1> QED  BY <1>6, <1>7, <1>8, <1>12, SteadyKeeps DEF AdbInv

LEMMA SyncOpens ==
  ASSUME AdbInv, x2.at = "open", x2.kind # "shell", x5 # <<>>, x5' = Tail(x5),
         UNCHANGED <<x1, x3, x6, x7, x8>>, NEW m, m = Head(x5), NEW w,
         m.cmd = "OKAY", m.to = x2.loc, x2' = [x2 EXCEPT !.at = "write", !.rem = m.from],
         w = A!Msg("WRTE", x2.loc, m.from, <<A!Records[x2.kind][1], x2.n>>),
         x4' = x4 \o <<w>>
  PROVE  AdbInv'
  <1>1. /\ AdbTypes /\ x5 \in Seq(AdbMessage) /\ x4 \in Seq(AdbMessage) /\ x2 # A!NoCall
        /\ x2 \in AdbCall /\ x2.n \in Nat /\ x2.loc \in Nat /\ x2.kind \in {"push", "pull"}
    BY AdbFacts DEF AdbInv, AdbTypes, AdbKinds
  <1>2. /\ m \in AdbMessage /\ m \in Items(x5) /\ ShorterBy(x5, m, x5')
        /\ x5' \in Seq(AdbMessage)
    BY <1>1, Dequeued DEF ShorterBy
  <1>3. m.from \in Nat /\ m.from < x7
    BY <1>2, MessageSets DEF AdbInv, Numbered, OfStream
  <1>4. PICK word \in {"SEND", "RECV"} :
          /\ A!Records[x2.kind][1] = word /\ (x2.kind = "push" => word = "SEND")
          /\ x2.kind = "pull" => word = "RECV"
    BY <1>1, RecordsAre DEF PushRecord
  <1>5. /\ w \in AdbMessage /\ w.cmd = "WRTE" /\ w.to = m.from /\ w.body = <<word, x2.n>>
        /\ w.body[1] = word /\ w.body[2] = x2.n
    <2> DEFINE b == <<word, x2.n>>
    <2>1. b \in AdbBody /\ b[1] = word /\ b[2] = x2.n
      BY <1>1, BodyMade
    <2>2. w = A!Msg("WRTE", x2.loc, m.from, b)
      BY <1>4
    <2> HIDE DEF b
    <2>3. w \in AdbMessage /\ w.cmd = "WRTE" /\ w.to = m.from /\ w.body = b
      BY <1>1, <1>3, <2>1, <2>2, MessageMade
    <2> QED  BY <2>1, <2>3 DEF b
  <1>6. ClientStep({w})
    BY <1>1, <1>5, ShrunkBy, GrownBy DEF ClientStep
  <1>7. /\ x2' \in AdbCall /\ x2'.at = "write" /\ x2'.rem = m.from /\ x2'.n = x2.n
        /\ x2'.kind = x2.kind /\ x2'.loc = x2.loc /\ x2'.got = x2.got
        /\ x2'.record = x2.record /\ x2'.ok = x2.ok
    BY <1>1, <1>3 DEF AdbCall
  <1>8. AtStream /\ x2.got = <<>> /\ x2.record = 1
    BY <1>1 DEF AtStream, AdbTypes
  <1>9. NoneOf(x5', From("OKAY", m.from)) /\ NoneOf(x4, Towards("WRTE", m.from))
    <2>1. m \in From("OKAY", m.from)
      BY <1>2, MessageSets
    <2>2. /\ Once(x5, From("OKAY", m.from))
          /\ NoneOf(x4, Towards("WRTE", m.from)) \/ NoneOf(x5, From("OKAY", m.from))
      <3>1. OneRecord
        BY DEF AdbInv
      <3>2. m.from \in Nat
        BY ONLY <1>3
      <3> QED  BY ONLY <3>1, <3>2 DEF OneRecord
    <2> QED  BY <1>2, <2>1, <2>2 DEF ShorterBy, NoneOf
  <1>10. Steady({w})
    <2>1. NoneOf(x4, Connects) => \A s \in x6 : s.rem = m.from => s.n = x2.n
      BY <1>2, <1>8 DEF AdbInv, StreamsApart, OldStreamsEnd, OfStream
    <2>2. /\ w.to = x2'.rem /\ w.to < x7 /\ w.body[2] = x2'.n
          /\ NoneOf(x5', From("OKAY", w.to)) /\ NoneOf(x4, Towards("WRTE", w.to))
          /\ NoneOf(x4, Connects) => \A s \in x6 : s.rem = w.to => s.n = x2'.n
      BY <1>3, <1>5, <1>7, <1>9, <2>1
    <2>3. x2'.rem < x7
      BY <1>3, <1>7
    <2> QED  BY <1>5, <1>6, <1>7, <2>2, <2>3, WriteIsSteady
  <1>11. AdbTypes'
    <2>1. x2' # A!NoCall
      BY <1>7 DEF A!NoCall
    <2>2. x4' \in Seq(AdbMessage)
      BY <1>6 DEF ClientStep, Grown
    <2> QED  BY <1>1, <1>2, <1>7, <1>8, <2>1, <2>2 DEF AdbTypes
  <1>12. ToldRightly'
    BY <1>1, <1>4, <1>5, <1>6, <1>7, ToldKeeps
  <1>13. /\ \A x \in Items(x4') : x.cmd = "WRTE" /\ x.to = m.from => x = w
         /\ \A x \in Items(x4') : x \in Items(x4) \/ x = w
    <2>1. \A x \in Items(x4') : x \in Items(x4) \/ x = w
      BY <1>6 DEF ClientStep, Grown
    <2>2. \A x \in Items(x4) : x \in AdbMessage
      BY <1>1, ItemsTyped
    <2> QED  BY <1>9, <2>1, <2>2, MessageSets DEF NoneOf
  <1>14. StreamHeld'
    <2>1. CASE \A s \in x6 : s.rem = m.from => s.n # x2.n
      <3>1. Foreign'
        BY <1>5, <1>7, <1>9, <1>13, <2>1 DEF Foreign
      <3> QED  BY <3>1 DEF StreamHeld
    <2>2. ASSUME NEW s \in x6, s.rem = m.from, s.n = x2.n
          PROVE StreamHeld'
      <3>1. s.at = "run" /\ s.ready
        BY <2>2 DEF AdbInv, OwnStreamStays
      <3>2. NoneOf(x5, From("WRTE", m.from)) /\ NoneOf(x4, Towards("OKAY", m.from))
        BY <1>3, <2>2, <3>1 DEF AdbInv, OneAnswer
      <3>3. NoneOf(x5', From("WRTE", m.from)) /\ NoneOf(x4', Towards("OKAY", m.from))
        <4>1. NoneOf(x5', From("WRTE", m.from))
          BY <1>2, <3>2 DEF NoneOf, ShorterBy
        <4>2. w \notin Towards("OKAY", m.from)
          BY <1>5, MessageSets
        <4>3. NoneOf(x4', Towards("OKAY", m.from))
          BY ONLY <1>13, <3>2, <4>2 DEF NoneOf
        <4> QED  BY <4>1, <4>3
      <3>4. \A x \in Items(x5') : ~(x.cmd = "WRTE" /\ x.from = m.from)
        <4>1. \A x \in Items(x5') : x \in AdbMessage
          BY <1>2, ItemsTyped DEF ShorterBy
        <4>2. \A x \in Items(x5') : x \notin From("WRTE", m.from)
          BY ONLY <3>3 DEF NoneOf
        <4> QED  BY ONLY <4>1, <4>2, MessageSets
      <3>5. CASE x2.kind = "pull"
        <4>0. w.body = <<"RECV", x2.n>>
          BY <1>4, <1>5, <3>5
        <4>2. /\ x2'.kind = "pull" /\ x2'.got = <<>> /\ NoneOf(x5', From("WRTE", x2'.rem))
              /\ \A x \in Items(x5') : ~(x.cmd = "WRTE" /\ x.from = x2'.rem)
          BY <1>7, <1>8, <3>3, <3>4, <3>5
        <4>3. \A x \in Items(x4') : x.cmd = "WRTE" /\ x.to = x2'.rem =>
                 x.body = <<"RECV", x2'.n>> /\ s.at = "run"
          <5>1. x2'.rem = m.from /\ x2'.n = x2.n
            BY <1>7
          <5> QED  BY ONLY <1>13, <3>1, <4>0, <5>1
        <4>1. PullOurs(s)'
          BY <3>1, <4>2, <4>3 DEF PullOurs
        <4> QED  BY <1>7, <2>2, <4>1 DEF StreamHeld
      <3>6. CASE x2.kind = "push"
        <4>1. PushRecord(1) = "SEND" /\ PushBefore(1) = "run"
          BY DEF PushRecord, PushBefore
        <4>3. w.body = <<PushRecord(x2'.record), x2'.n>> /\ s.at = PushBefore(x2'.record)
          <5>1. x2'.record = 1 /\ x2'.n = x2.n /\ word = "SEND"
            BY <1>4, <1>7, <1>8, <3>6
          <5> QED  BY ONLY <1>5, <3>1, <4>1, <5>1
        <4>4. \A x \in Items(x4') : x.cmd = "WRTE" /\ x.to = x2'.rem =>
                /\ x.body = <<PushRecord(x2'.record), x2'.n>>
                /\ s.ready => s.at = PushBefore(x2'.record)
          BY ONLY <1>7, <1>13, <4>3
        <4>5. NoneOf(x5', From("OKAY", x2'.rem)) /\ NoneOf(x4', Towards("OKAY", x2'.rem))
          BY <1>7, <1>9, <3>3
        <4>2. PushOurs(s)'
          BY <1>7, <3>1, <3>4, <3>6, <4>4, <4>5 DEF PushOurs
        <4> QED  BY <1>7, <2>2, <4>2 DEF StreamHeld
      <3> QED  BY <1>1, <3>5, <3>6
    <2> QED  BY <2>1, <2>2
  <1> QED  BY <1>10, <1>11, <1>12, <1>14, SteadyKeeps DEF AdbInv

LEMMA OpenServiceKeeps ==
  ASSUME AdbInv, x2.at = "open", x5 # <<>>, x5' = Tail(x5), UNCHANGED <<x6, x7, x8>>,
         A!Opening(Head(x5))
  PROVE  AdbInv'
  <1> DEFINE m == Head(x5)
  <1>1. /\ AdbTypes /\ x5 \in Seq(AdbMessage) /\ x4 \in Seq(AdbMessage) /\ x2 # A!NoCall
    BY AdbFacts DEF AdbInv
  <1>2. Shrunk(x5, x5')
    BY <1>1, ShrunkBy
  <1>3. m \in AdbMessage /\ m \in Items(x5)
    BY <1>1, Dequeued DEF ShorterBy
  <1>4. A!Opening(m) /\ m = Head(x5)
    OBVIOUS
  <1> HIDE DEF m
  <1>5. CASE m.cmd = "OKAY" /\ m.to = x2.loc
    <2>1. UNCHANGED <<x1, x3>>
      BY <1>4, <1>5 DEF A!Opening
    <2>2. CASE x2.kind = "shell"
      <3>1. x2' = [x2 EXCEPT !.at = "reply", !.rem = m.from] /\ x4' = x4
        BY <1>4, <1>5, <2>2 DEF A!Opening
      <3> QED  BY <1>4, <1>5, <2>1, <2>2, <3>1, ShellOpens
    <2>3. CASE x2.kind # "shell"
      <3> DEFINE w == A!Msg("WRTE", x2.loc, m.from, <<A!Records[x2.kind][1], x2.n>>)
      <3>1. x2' = [x2 EXCEPT !.at = "write", !.rem = m.from] /\ x4' = x4 \o <<w>>
        BY <1>4, <1>5, <2>3 DEF A!Opening, A!Send
      <3> HIDE DEF w
      <3>2. w = A!Msg("WRTE", x2.loc, m.from, <<A!Records[x2.kind][1], x2.n>>)
        BY DEF w
      <3> QED  BY <1>4, <1>5, <2>1, <2>3, <3>1, <3>2, SyncOpens
    <2> QED  BY <2>2, <2>3
  <1>6. CASE m.cmd = "CLSE" /\ m.to = x2.loc
    <2>1. A!End(FALSE, TRUE) /\ x4' = x4
      BY <1>4, <1>6 DEF A!Opening
    <2> QED  BY <1>1, <1>2, <2>1, FailKeeps
  <1>7. CASE m.cmd \in {"WRTE", "CLSE"} /\ m.to # x2.loc
    <2> DEFINE e == A!Msg("CLSE", m.to, m.from, A!None)
    <2>1. x4' = x4 \o A!CloseStale(m) /\ UNCHANGED <<x1, x2, x3>>
      BY <1>4, <1>7 DEF A!Opening, A!Send
    <2>2. A!CloseStale(m) \in {<<e>>, <<>>}
      BY DEF A!CloseStale
    <2>3. m.from \in Nat /\ m.to \in Nat /\ m.from < x7
      BY <1>3, <1>7, MessageSets DEF AdbInv, Numbered, OfStream
    <2>4. e \in AdbMessage /\ e.cmd = "CLSE" /\ e.to = m.from
      BY <2>3, StaleMade
    <2>5. x4 \o <<>> = x4
      BY <1>1
    <2> HIDE DEF e
    <2>6. PICK New \in {{}, {e}} : Grown(x4, x4', New)
      BY <1>1, <2>1, <2>2, <2>4, <2>5, GrownBy
    <2>7. \A s \in x6 : s.n = x2.n => s.rem # e.to
      <3>1. AtStream
        BY DEF AtStream
      <3> QED  BY <1>3, <1>7, <2>4, <3>1 DEF AdbInv, StreamsApart, OfStream
    <2> QED  BY <1>2, <2>1, <2>3, <2>4, <2>6, <2>7, DropKeeps
  <1>8. CASE m.cmd = "torn"
    <2>1. A!End(FALSE, TRUE) /\ x4' = x4
      BY <1>4, <1>8 DEF A!Opening
    <2> QED  BY <1>1, <1>2, <2>1, FailKeeps
  <1>9. CASE ~ \/ m.cmd = "OKAY" /\ m.to = x2.loc
               \/ m.cmd = "CLSE" /\ m.to = x2.loc
               \/ m.cmd \in {"WRTE", "CLSE"} /\ m.to # x2.loc
               \/ m.cmd = "torn"
    <2>1. UNCHANGED <<x1, x2, x3, x4>>
      BY <1>4, <1>9 DEF A!Opening, A!Keep
    <2>2. Grown(x4, x4', {})
      BY <1>1, <2>1, GrownBy
    <2> QED  BY <1>2, <2>1, <2>2, DropKeeps
  <1> QED  BY <1>5, <1>6, <1>7, <1>8, <1>9

\* writeStreamLocked
LEMMA WritingKeeps ==
  ASSUME AdbInv, x2.at = "write", x5 # <<>>, x5' = Tail(x5), UNCHANGED <<x6, x7, x8>>,
         A!Writing(Head(x5))
  PROVE  AdbInv'
  <1> DEFINE m == Head(x5)
  <1>1. /\ AdbTypes /\ x5 \in Seq(AdbMessage) /\ x4 \in Seq(AdbMessage) /\ x2 # A!NoCall
        /\ x2 \in AdbCall /\ x2.n \in Nat /\ x2.rem \in Nat /\ x2.rem < x7
        /\ x2.kind \in {"push", "pull"} /\ x2.record \in 1..3 /\ x2.got = <<>>
        /\ (x2.kind = "pull" => x2.record = 1)
    <2>1. x2 # A!NoCall /\ x2 \in AdbCall
      BY AdbFacts DEF AdbInv, AdbTypes
    <2> QED  BY <2>1, AdbFacts DEF AdbInv, AdbTypes, AdbKinds, AdbCall, Numbered
  <1>2. Shrunk(x5, x5')
    BY <1>1, ShrunkBy
  <1>3. m \in AdbMessage /\ m \in Items(x5) /\ ShorterBy(x5, m, x5') /\ x5' \in Seq(AdbMessage)
    BY <1>1, Dequeued DEF ShorterBy
  <1>4. A!Writing(m) /\ m = Head(x5)
    OBVIOUS
  <1> HIDE DEF m
  <1>5. CASE m.cmd # "OKAY" \/ ~A!Own(m)
    <2>1. A!CloseWith(FALSE, TRUE)
      BY <1>4, <1>5 DEF A!Writing
    <2> QED  BY <1>2, <2>1, CloseFails
  <1>6. CASE m.cmd = "OKAY" /\ A!Own(m)
    <2>1. m.from = x2.rem /\ x1' = x1 /\ x3' = x3
      BY <1>4, <1>6 DEF A!Own, A!Writing
    <2>2. m \in From("OKAY", x2.rem)
      BY <1>3, <1>6, <2>1, MessageSets
    <2>3. NoneOf(x5', From("OKAY", x2.rem)) /\ NoneOf(x4, Towards("WRTE", x2.rem))
      <3>1. /\ Once(x5, From("OKAY", x2.rem))
            /\ NoneOf(x4, Towards("WRTE", x2.rem)) \/ NoneOf(x5, From("OKAY", x2.rem))
        BY <1>1 DEF AdbInv, OneRecord
      <3> QED  BY <1>3, <2>2, <3>1 DEF ShorterBy, NoneOf
    <2>4. ~NoneOf(x5, From("OKAY", x2.rem))
      BY <1>3, <2>2 DEF NoneOf
    <2>5. PICK s \in x6 : s.rem = x2.rem /\ s.n = x2.n /\ (PullOurs(s) \/ PushOurs(s))
      <3>1. ~Foreign /\ ~ShellOurs
        BY <1>1, <2>4 DEF Foreign, ShellOurs
      <3> QED  BY <3>1 DEF AdbInv, StreamHeld
    <2>6. /\ \A x \in Items(x5') : x \in Items(x5) /\ x \in AdbMessage
          /\ \A r : NoneOf(x5, From("WRTE", r)) => NoneOf(x5', From("WRTE", r))
      <3>1. \A x \in Items(x5') : x \in Items(x5) /\ x \in AdbMessage
        BY <1>3, ItemsTyped DEF ShorterBy
      <3> QED  BY <3>1 DEF NoneOf
    <2>7. CASE x2.record < Len(A!Records[x2.kind])
      <3> DEFINE w == A!Answer("WRTE", <<A!Records[x2.kind][x2.record + 1], x2.n>>)
                 i == x2.record + 1
      <3>1. x2.kind = "push" /\ x2.record \in 1..2 /\ i \in 2..3
        <4>1. x2.kind # "pull"
          <5>1. SUFFICES ASSUME x2.kind = "pull"  PROVE FALSE
            OBVIOUS
          <5>2. x2.record = 1 /\ Len(A!Records[x2.kind]) = 1
            BY <1>1, <5>1, RecordsAre
          <5> QED  BY <2>7, <5>2
        <4>2. x2.kind = "push" /\ Len(A!Records[x2.kind]) = 3
          BY <1>1, <4>1, RecordsAre
        <4> QED  BY <1>1, <2>7, <4>2
      <3>2. x2' = [x2 EXCEPT !.record = i] /\ x4' = x4 \o <<w>>
        BY <1>4, <1>6, <2>7 DEF A!Writing, A!WriteRecord, A!Send
      <3>3. A!Records[x2.kind][i] = PushRecord(i) /\ PushBefore(i) = PushRecord(x2.record)
        <4>1. i \in 1..3 /\ i # 1 /\ i - 1 = x2.record
          BY <3>1
        <4>2. A!Records["push"][i] = PushRecord(i)
          BY <4>1, RecordsAre
        <4>3. PushBefore(i) = PushRecord(i - 1)
          BY <4>1 DEF PushBefore
        <4> QED  BY <3>1, <4>1, <4>2, <4>3
      <3>4. PushRecord(i) \in {"SEND", "DATA", "DONE"}
        BY DEF PushRecord
      <3>5. /\ w \in AdbMessage /\ w.cmd = "WRTE" /\ w.to = x2.rem
            /\ w.body = <<PushRecord(i), x2.n>> /\ w.body[2] = x2.n
        <4> DEFINE b == <<PushRecord(i), x2.n>>
        <4>1. b \in AdbBody /\ b[2] = x2.n
          BY <1>1, <3>4, BodyMade
        <4>2. w = A!Answer("WRTE", b)
          BY <3>3
        <4> HIDE DEF b, w
        <4>3. "WRTE" \in OfStream
          BY DEF OfStream
        <4>4. w \in AdbMessage /\ w.cmd = "WRTE" /\ w.to = x2.rem /\ w.body = b
          BY <4>1, <4>2, <4>3, AnswerMade
        <4> QED  BY <4>1, <4>4 DEF b
      <3> HIDE DEF w
      <3>6. ClientStep({w})
        BY <1>1, <1>2, <3>2, <3>5, GrownBy DEF ClientStep
      <3>7. /\ x2' \in AdbCall /\ x2'.at = "write" /\ x2'.rem = x2.rem /\ x2'.n = x2.n
            /\ x2'.kind = x2.kind /\ x2'.loc = x2.loc /\ x2'.got = x2.got
            /\ x2'.record = i /\ x2'.ok = x2.ok
        <4>1. i \in 1..3
          BY <3>1
        <4> HIDE DEF i
        <4> QED  BY <1>1, <3>2, <4>1 DEF AdbCall
      <3>8. \A t \in x6 : t.rem = x2.rem => t = s
        BY <2>5 DEF AdbInv, StreamsApart
      <3>9. Steady({w})
        BY <1>1, <2>1, <2>3, <2>5, <3>5, <3>6, <3>7, <3>8, WriteIsSteady
      <3>10. AdbTypes'
        <4>1. x2' # A!NoCall
          BY <3>7 DEF A!NoCall
        <4>2. x4' \in Seq(AdbMessage)
          BY <3>6 DEF ClientStep, Grown
        <4> QED  BY <1>1, <1>3, <2>1, <3>1, <3>7, <4>1, <4>2 DEF AdbTypes
      <3>11. ToldRightly'
        BY <2>1, <3>1, <3>6, <3>7, ToldKeeps
      <3>12. PushOurs(s)
        BY <2>5, <3>1 DEF PullOurs
      <3>13. /\ \A x \in Items(x4') : x.cmd = "WRTE" /\ x.to = x2.rem => x = w
             /\ \A x \in Items(x4') : x \in Items(x4) \/ x = w
        <4>1. \A x \in Items(x4') : x \in Items(x4) \/ x = w
          BY <3>6 DEF ClientStep, Grown
        <4>2. \A x \in Items(x4) : x \in AdbMessage
          BY <1>1, ItemsTyped
        <4> QED  BY <2>3, <4>1, <4>2, MessageSets DEF NoneOf
      <3>14. s.at # "DONE" /\ \A x \in Items(x5') :
                ~(x.cmd = "WRTE" /\ x.from = x2.rem /\ x.body[1] = "OKAY")
        BY <2>6, <3>1, <3>12 DEF PushOurs
      <3>15. s.ready => s.at = PushBefore(i)
        BY <2>4, <3>3, <3>12 DEF PushOurs
      <3>16. /\ s.ready /\ s.at = "SEND" => x8 = <<x2.n, "part">>
             /\ s.ready /\ s.at \in {"DATA", "DONE"} => x8 = <<x2.n, "whole">>
        BY <3>12 DEF PushOurs
      <3>17. NoneOf(x4', Towards("OKAY", x2.rem))
        <4>1. NoneOf(x4, Towards("OKAY", x2.rem))
          BY <3>12 DEF PushOurs
        <4> QED  BY <3>5, <3>13, <4>1, MessageSets DEF NoneOf
      <3>18. \A x \in Items(x4') : x.cmd = "WRTE" /\ x.to = x2'.rem =>
                /\ x.body = <<PushRecord(x2'.record), x2'.n>>
                /\ s.ready => s.at = PushBefore(x2'.record)
        BY <3>5, <3>7, <3>13, <3>15
      <3>19. /\ x2'.kind = "push" /\ NoneOf(x5', From("OKAY", x2'.rem))
             /\ s.ready /\ s.at = "SEND" => x8' = <<x2'.n, "part">>
             /\ s.ready /\ s.at \in {"DATA", "DONE"} => x8' = <<x2'.n, "whole">>
             /\ NoneOf(x4', Towards("OKAY", x2'.rem))
             /\ \A x \in Items(x5') : ~(x.cmd = "WRTE" /\ x.from = x2'.rem /\ x.body[1] = "OKAY")
        BY <2>3, <3>1, <3>7, <3>14, <3>16, <3>17
      <3>20. PushOurs(s)'
        BY <3>14, <3>18, <3>19 DEF PushOurs
      <3>21. StreamHeld'
        BY <2>5, <3>7, <3>20 DEF StreamHeld
      <3> QED  BY <3>9, <3>10, <3>11, <3>21, SteadyKeeps DEF AdbInv
    <2>8. CASE ~(x2.record < Len(A!Records[x2.kind]))
      <3>1. x2' = [x2 EXCEPT !.at = "reply"] /\ x4' = x4
        BY <1>4, <1>6, <2>8 DEF A!Writing
      <3>2. ClientStep({})
        BY <1>1, <1>2, <3>1, GrownBy DEF ClientStep
      <3>3. /\ x2' \in AdbCall /\ x2'.at = "reply" /\ x2'.rem = x2.rem /\ x2'.n = x2.n
            /\ x2'.kind = x2.kind /\ x2'.loc = x2.loc /\ x2'.got = x2.got
            /\ x2'.record = x2.record /\ x2'.ok = x2.ok
        BY <1>1, <3>1 DEF AdbCall
      <3>4. Steady({})
        BY <1>1, <2>1, <3>2, <3>3 DEF Steady
      <3>5. AdbTypes'
        <4>1. x2' # A!NoCall
          BY <3>3 DEF A!NoCall
        <4> QED  BY <1>1, <1>3, <2>1, <3>1, <3>3, <4>1 DEF AdbTypes
      <3>6. ToldRightly'
        BY <2>1, <3>2, <3>3, ToldKeeps
      <3>7. CASE PullOurs(s)
        <4>1. PullOurs(s)'
          BY <2>6, <3>1, <3>3, <3>7 DEF PullOurs
        <4>2. StreamHeld'
          BY <2>5, <3>3, <4>1 DEF StreamHeld
        <4> QED  BY <3>4, <3>5, <3>6, <4>2, SteadyKeeps DEF AdbInv
      <3>8. CASE PushOurs(s)
        <4>1. PushOurs(s)'
          BY <2>3, <2>6, <3>1, <3>3, <3>8 DEF PushOurs
        <4>2. StreamHeld'
          BY <2>5, <3>3, <4>1 DEF StreamHeld
        <4> QED  BY <3>4, <3>5, <3>6, <4>2, SteadyKeeps DEF AdbInv
      <3> QED  BY <2>5, <3>7, <3>8
    <2> QED  BY <2>7, <2>8
  <1> QED  BY <1>5, <1>6

\* A record of its stream in the call's hands: it was the only one, and owes an OKAY.
LEMMA RecordTaken ==
  ASSUME AdbInv, x5 # <<>>, x5' = Tail(x5), NEW m, m = Head(x5), m.cmd = "WRTE", m.from = x2.rem
  PROVE  /\ m \in AdbMessage /\ m \in Items(x5) /\ m \in From("WRTE", x2.rem)
         /\ NoneOf(x5', From("WRTE", x2.rem)) /\ NoneOf(x4, Towards("OKAY", x2.rem))
         /\ \A s \in x6 : s.rem = x2.rem => ~s.ready
         /\ \A x \in Items(x5') : x \in Items(x5) /\ x \in AdbMessage
  <1>1. AdbTypes /\ x5 \in Seq(AdbMessage) /\ x2.rem \in Nat
    BY AdbFacts DEF AdbInv
  <1>2. m \in AdbMessage /\ m \in Items(x5) /\ ShorterBy(x5, m, x5') /\ x5' \in Seq(AdbMessage)
    BY <1>1, Dequeued DEF ShorterBy
  <1>3. m \in From("WRTE", x2.rem)
    BY <1>2, MessageSets
  <1>4. ~NoneOf(x5, From("WRTE", x2.rem))
    BY <1>2, <1>3 DEF NoneOf
  <1>5. NoneOf(x4, Towards("OKAY", x2.rem)) /\ \A s \in x6 : s.rem = x2.rem => ~s.ready
    BY <1>1, <1>4 DEF AdbInv, OneAnswer
  <1>6. Once(x5, From("WRTE", x2.rem))
    BY <1>1 DEF AdbInv, OneAnswer
  <1>7. NoneOf(x5', From("WRTE", x2.rem))
    BY <1>2, <1>3, <1>6 DEF ShorterBy
  <1>8. \A x \in Items(x5') : x \in Items(x5) /\ x \in AdbMessage
    BY <1>2, ItemsTyped DEF ShorterBy
  <1> QED  BY <1>2, <1>3, <1>5, <1>7, <1>8

\* The OKAY, and the CLSE of a call that closes with it.
LEMMA AckIsSteady ==
  ASSUME AdbInv, NEW a, NEW c, NEW New, New = {a} \/ (New = {a, c} /\ x2'.at = "close"),
         ClientStep(New), x1' = x1, x3' = x3,
         \/ x2' = x2
         \/ /\ x2.at = "reply" /\ x2'.at \in {"reply", "close"}
            /\ x2'.n = x2.n /\ x2'.kind = x2.kind /\ x2'.loc = x2.loc /\ x2'.rem = x2.rem,
         a.cmd = "OKAY", c.cmd = "CLSE", a.to = x2.rem, c.to = x2.rem,
         NoneOf(x5', From("WRTE", x2.rem)), NoneOf(x4, Towards("OKAY", x2.rem)),
         \A s \in x6 : s.rem = x2.rem => ~s.ready
  PROVE  Steady(New)
  <1>1. x2.rem < x7 /\ x2'.rem < x7
    BY DEF AdbInv, Numbered
  <1>2. \A m \in New : m = a \/ (m = c /\ x2'.at = "close")
    OBVIOUS
  <1>3. \A m \in New : /\ m.cmd \in OfStream /\ m.to = x2.rem /\ m.cmd # "WRTE"
                       /\ m.cmd = "CLSE" => x2'.at = "close"
    BY <1>2 DEF OfStream
  <1>4. \A m, w \in New : m.cmd = w.cmd => m = w
    BY <1>2
  <1>5. \A m \in New :
          /\ m.cmd \in OfStream /\ m.to < x7 /\ m.cmd # "WRTE"
          /\ m.cmd = "OKAY" =>
                /\ NoneOf(x5', From("WRTE", m.to)) /\ NoneOf(x4, Towards("OKAY", m.to))
                /\ \A s \in x6 : s.rem = m.to => ~s.ready
          /\ m.cmd = "CLSE" => x2'.at \notin {"open", "write", "reply"}
    BY <1>1, <1>3
  <1>6. \/ x2' = x2 /\ x3' = x3
        \/ /\ x3' = x3 /\ x2.at \in {"open", "write", "reply"}
           /\ x2'.at \in {"write", "reply", "close"}
           /\ x2'.n = x2.n /\ x2'.kind = x2.kind /\ x2'.loc = x2.loc
           /\ x2.at # "open" => x2'.rem = x2.rem
    OBVIOUS
  <1> QED  BY <1>1, <1>4, <1>5, <1>6 DEF Steady

LEMMA AcksMade ==
  ASSUME AdbInv, NEW a, NEW c, a = A!Answer("OKAY", A!None), c = A!Answer("CLSE", A!None)
  PROVE  /\ a \in AdbMessage /\ a.cmd = "OKAY" /\ a.to = x2.rem
         /\ c \in AdbMessage /\ c.cmd = "CLSE" /\ c.to = x2.rem /\ a # c
         /\ A!Acknowledged = <<a>> /\ A!Acknowledged \o <<c>> = <<a, c>>
  <1>1. "OKAY" \in OfStream /\ A!None \in AdbBody
    BY NoneMade DEF OfStream
  <1>2. a \in AdbMessage /\ a.cmd = "OKAY" /\ a.to = x2.rem
    BY <1>1, AnswerMade
  <1>3. c \in AdbMessage /\ c.cmd = "CLSE" /\ c.to = x2.rem
    BY ClseMade
  <1>4. A!Acknowledged = <<a>>
    BY DEF A!Acknowledged
  <1>5. <<a>> \o <<c>> = <<a, c>>
    BY <1>2, <1>3, JoinedItems
  <1> QED  BY <1>2, <1>3, <1>4, <1>5

\* The answer of a shell and of a pull goes on.
LEMMA AnswerGrows ==
  ASSUME AdbInv, x2.at = "reply", x2.kind \in {"shell", "pull"}, x5 # <<>>, x5' = Tail(x5),
         UNCHANGED <<x1, x3, x6, x7, x8>>, NEW m, m = Head(x5), m.cmd = "WRTE", A!Own(m),
         x2' = [x2 EXCEPT !.got = Append(@, m.body)], x4' = x4 \o A!Acknowledged,
         x2.kind = "pull" => m.body[1] \notin {"DONE", "FAIL"}
  PROVE  AdbInv'
  <1> DEFINE a == A!Answer("OKAY", A!None)
             c == A!Answer("CLSE", A!None)
             g == Append(x2.got, m.body)
  <1>1. /\ AdbTypes /\ x4 \in Seq(AdbMessage) /\ x5 \in Seq(AdbMessage) /\ x2 # A!NoCall
        /\ x2 \in AdbCall /\ x2.got \in Seq(AdbBody) /\ x2.n \in Nat
    <2>1. x2 # A!NoCall /\ x2 \in AdbCall
      BY AdbFacts DEF AdbInv, AdbTypes
    <2> QED  BY <2>1, AdbFacts DEF AdbInv, AdbCall
  <1>2. m.from = x2.rem
    BY DEF A!Own
  <1>3. /\ m \in AdbMessage /\ m \in Items(x5) /\ m \in From("WRTE", x2.rem)
        /\ NoneOf(x5', From("WRTE", x2.rem)) /\ NoneOf(x4, Towards("OKAY", x2.rem))
        /\ \A s \in x6 : s.rem = x2.rem => ~s.ready
        /\ \A x \in Items(x5') : x \in Items(x5) /\ x \in AdbMessage
    BY <1>2, RecordTaken
  <1>4. /\ a \in AdbMessage /\ a.cmd = "OKAY" /\ a.to = x2.rem
        /\ c \in AdbMessage /\ c.cmd = "CLSE" /\ c.to = x2.rem /\ A!Acknowledged = <<a>>
    BY AcksMade
  <1> HIDE DEF a, c
  <1>5. x4' = x4 \o <<a>>
    BY <1>4
  <1>6. ClientStep({a})
    BY <1>1, <1>4, <1>5, GrownBy, ShrunkBy DEF ClientStep
  <1>7. m.body \in AdbBody /\ g \in Seq(AdbBody)
    <2>1. m.body \in AdbBody
      BY <1>3, BodyPair
    <2> HIDE DEF AdbBody
    <2> QED  BY <1>1, <2>1
  <1>8. /\ Len(g) = Len(x2.got) + 1 /\ Len(x2.got) \in Nat /\ g[Len(x2.got) + 1] = m.body
        /\ \A i \in 1..Len(x2.got) : g[i] = x2.got[i]
    BY <1>1, <1>7
  <1>9. x2.got = <<>> => g = <<m.body>>
    OBVIOUS
  <1>10. x2' = [x2 EXCEPT !.got = g]
    OBVIOUS
  <1> HIDE DEF g
  <1>11. /\ x2' \in AdbCall /\ x2'.at = "reply" /\ x2'.rem = x2.rem /\ x2'.n = x2.n
         /\ x2'.kind = x2.kind /\ x2'.loc = x2.loc /\ x2'.got = g
         /\ x2'.record = x2.record /\ x2'.ok = x2.ok
    BY <1>1, <1>7, <1>10 DEF AdbCall
  <1>12. Steady({a})
    BY <1>3, <1>4, <1>6, <1>11, AckIsSteady
  <1>13. AdbTypes'
    <2>1. x2' # A!NoCall
      BY <1>11 DEF A!NoCall
    <2>2. x4' \in Seq(AdbMessage) /\ x5' \in Seq(AdbMessage)
      BY <1>6 DEF ClientStep, Grown, Shrunk
    <2> QED  BY <1>1, <1>11, <2>1, <2>2 DEF AdbTypes
  <1>14. ToldRightly'
    BY <1>4, <1>6, <1>11, ToldKeeps
  <1>15. \A x \in Items(x4') : x \in Items(x4) \/ x = a
    BY <1>6 DEF ClientStep, Grown
  <1>16. \A x \in Items(x5') : ~(x.cmd = "WRTE" /\ x.from = x2.rem)
    BY <1>3, MessageSets DEF NoneOf
  <1>17. StreamHeld'
    <2>1. CASE Foreign
      <3>1. x2.kind = "shell"
        BY <2>1 DEF Foreign
      <3>2. m.body[2] # x2.n /\ \A i \in 1..Len(x2.got) : x2.got[i][2] # x2.n
        BY <1>2, <1>3, <2>1, <3>1 DEF Foreign
      <3>3. \A i \in 1..Len(g) : g[i][2] # x2.n
        <4>1. \A i \in 1..Len(g) : i \in 1..Len(x2.got) \/ i = Len(x2.got) + 1
          BY <1>8
        <4> QED  BY <1>8, <3>2, <4>1
      <3>4. Foreign'
        BY <1>11, <1>16, <2>1, <3>1, <3>3 DEF Foreign
      <3> QED  BY <3>4 DEF StreamHeld
    <2>2. CASE ShellOurs
      <3>1. /\ m.body = StatusOf(x2.n) /\ x2.got = <<>> /\ x2.kind = "shell"
            /\ \A s \in x6 : s.rem = x2.rem => s.n = x2.n /\ s.at # "run"
        BY <1>2, <1>3, <2>2 DEF ShellOurs, NoneOf
      <3>2. g = <<StatusOf(x2.n)>>
        BY <1>9, <3>1
      <3>3. ShellOurs'
        BY <1>11, <1>16, <3>1, <3>2 DEF ShellOurs
      <3> QED  BY <3>3 DEF StreamHeld
    <2>3. ASSUME NEW s \in x6, s.rem = x2.rem, s.n = x2.n, PullOurs(s)
          PROVE StreamHeld'
      <3>1. x2.kind = "pull"
        BY <2>3 DEF PullOurs
      <3>2. /\ \/ m.body = StatusOf(x2.n) /\ x2.got = <<>> /\ s.at = "sent"
               \/ m.body = <<"DONE", x2.n>>
               \/ m.body = <<"FAIL", x2.n>>
        BY <1>2, <1>3, <2>3 DEF PullOurs
      <3>3. m.body = StatusOf(x2.n) /\ x2.got = <<>> /\ s.at = "sent"
        <4>1. <<"DONE", x2.n>>[1] = "DONE" /\ <<"FAIL", x2.n>>[1] = "FAIL"
          OBVIOUS
        <4> QED  BY <3>1, <3>2, <4>1
      <3>4. g = <<StatusOf(x2.n)>>
        BY <1>9, <3>3
      <3>5. \A x \in Items(x4') : ~(x.cmd = "WRTE" /\ x.to = x2.rem)
        <4>1. s.at # "run"
          BY <3>3
        <4>2. \A x \in Items(x4) : ~(x.cmd = "WRTE" /\ x.to = x2.rem)
          BY <2>3, <4>1 DEF PullOurs
        <4> QED  BY <1>4, <1>15, <4>2
      <3>6. PullOurs(s)'
        BY <1>11, <1>16, <3>1, <3>3, <3>4, <3>5 DEF PullOurs
      <3> QED  BY <1>11, <2>3, <3>6 DEF StreamHeld
    <2>4. ASSUME NEW s \in x6, PushOurs(s)  PROVE FALSE
      BY <2>4 DEF PushOurs
    <2> QED  BY <2>1, <2>2, <2>3, <2>4 DEF AdbInv, StreamHeld
  <1> QED  BY <1>12, <1>13, <1>14, <1>17, SteadyKeeps DEF AdbInv

\* The last of the answer of a push and of a pull: the stream is to close.
LEMMA AnswerCloses ==
  ASSUME AdbInv, x2.at = "reply", x2.kind \in {"push", "pull"}, x5 # <<>>, x5' = Tail(x5),
         UNCHANGED <<x1, x3, x6, x7, x8>>, NEW m, m = Head(x5), m.cmd = "WRTE", A!Own(m),
         NEW b \in BOOLEAN, x2' = [x2 EXCEPT !.at = "close", !.ok = b],
         x4' = x4 \o (A!Acknowledged \o <<A!Answer("CLSE", A!None)>>),
         b /\ x2.kind = "pull" => x2.got = <<StatusOf(x2.n)>>,
         b /\ x2.kind = "push" => FileStays(x2.n)
  PROVE  AdbInv'
  <1> DEFINE a == A!Answer("OKAY", A!None)
             c == A!Answer("CLSE", A!None)
  <1>1. /\ AdbTypes /\ x4 \in Seq(AdbMessage) /\ x5 \in Seq(AdbMessage) /\ x2 # A!NoCall
        /\ x2 \in AdbCall /\ x2.n \in Nat
    <2>1. x2 # A!NoCall /\ x2 \in AdbCall
      BY AdbFacts DEF AdbInv, AdbTypes
    <2> QED  BY <2>1, AdbFacts DEF AdbInv, AdbCall
  <1>2. m.from = x2.rem
    BY DEF A!Own
  <1>3. /\ NoneOf(x5', From("WRTE", x2.rem)) /\ NoneOf(x4, Towards("OKAY", x2.rem))
        /\ \A s \in x6 : s.rem = x2.rem => ~s.ready
    BY <1>2, RecordTaken
  <1>4. /\ a \in AdbMessage /\ a.cmd = "OKAY" /\ a.to = x2.rem
        /\ c \in AdbMessage /\ c.cmd = "CLSE" /\ c.to = x2.rem /\ a # c
        /\ A!Acknowledged \o <<c>> = <<a, c>>
    BY AcksMade
  <1>5. x4' = x4 \o <<a, c>>
    BY <1>4
  <1> HIDE DEF a, c
  <1>6. ClientStep({a, c})
    BY <1>1, <1>4, <1>5, GrownBy, ShrunkBy DEF ClientStep
  <1>7. /\ x2' \in AdbCall /\ x2'.at = "close" /\ x2'.rem = x2.rem /\ x2'.n = x2.n
        /\ x2'.kind = x2.kind /\ x2'.loc = x2.loc /\ x2'.got = x2.got
        /\ x2'.record = x2.record /\ x2'.ok = b
    BY <1>1 DEF AdbCall
  <1>8. Steady({a, c})
    BY <1>3, <1>4, <1>6, <1>7, AckIsSteady
  <1>9. AdbTypes'
    <2>1. x2' # A!NoCall
      BY <1>7 DEF A!NoCall
    <2>2. x4' \in Seq(AdbMessage) /\ x5' \in Seq(AdbMessage)
      BY <1>6 DEF ClientStep, Grown, Shrunk
    <2> QED  BY <1>1, <1>7, <2>1, <2>2 DEF AdbTypes
  <1>10. StreamHeld'
    BY <1>7 DEF StreamHeld
  <1>11. ToldRightly'
    <2>1. \A x \in Items(x4') : x \in Items(x4) \/ x.cmd # "WRTE"
      BY <1>4, <1>6 DEF ClientStep, Grown
    <2>2. \A n : FileStays(n) => FileStays(n)'
      BY <2>1 DEF FileStays
    <2>4. x3.ok /\ x3.kind = "push" /\ x2'.kind # "push" => FileStays(x3.n)'
      BY <1>7, <2>2 DEF AdbInv, ToldRightly
    <2>5. x3.ok /\ x3.kind \in {"shell", "pull"} => x3.got = <<StatusOf(x3.n)>>
      BY DEF AdbInv, ToldRightly
    <2>6. b /\ x2.kind = "push" => FileStays(x2.n)'
      BY <2>2
    <2> QED  BY <1>7, <2>4, <2>5, <2>6 DEF ToldRightly
  <1> QED  BY <1>8, <1>9, <1>10, <1>11, SteadyKeeps DEF AdbInv

\* shellChecked
LEMMA ShellReplyKeeps ==
  ASSUME AdbInv, x2.at = "reply", x2.kind = "shell", x5 # <<>>, x5' = Tail(x5),
         UNCHANGED <<x6, x7, x8>>, A!ShellReply(Head(x5))
  PROVE  AdbInv'
  <1> DEFINE m == Head(x5)
  <1>1. AdbTypes /\ x5 \in Seq(AdbMessage) /\ x4 \in Seq(AdbMessage) /\ x2 # A!NoCall /\ x2 \in AdbCall
    <2>1. x2 # A!NoCall /\ x2 \in AdbCall
      BY AdbFacts DEF AdbInv, AdbTypes
    <2> QED  BY <2>1, AdbFacts DEF AdbInv
  <1>2. Shrunk(x5, x5')
    BY <1>1, ShrunkBy
  <1>3. A!ShellReply(m) /\ m = Head(x5)
    OBVIOUS
  <1> HIDE DEF m
  <1>4. CASE m.cmd = "WRTE" /\ A!Own(m)
    <2>1. /\ x2' = [x2 EXCEPT !.got = Append(@, m.body)] /\ x4' = x4 \o A!Acknowledged
          /\ UNCHANGED <<x1, x3>>
      BY <1>3, <1>4 DEF A!ShellReply, A!Send
    <2> QED  BY <1>3, <1>4, <2>1, AnswerGrows
  <1>5. CASE m.cmd = "CLSE" /\ m.to = x2.loc
    <2> DEFINE st == <<"status", x2.n>> \in {x2.got[i] : i \in DOMAIN x2.got}
    <2>1. A!End(st, st) /\ x4' = x4 \o <<A!Answer("CLSE", A!None)>>
      BY <1>3, <1>5 DEF A!ShellReply, A!Send
    <2>2. st \in BOOLEAN
      OBVIOUS
    <2>3. st => x2.got = <<StatusOf(x2.n)>>
      <3>1. SUFFICES ASSUME st  PROVE x2.got = <<StatusOf(x2.n)>>
        OBVIOUS
      <3>2. x2.got \in Seq(AdbBody)
        BY <1>1 DEF AdbCall
      <3>3. DOMAIN x2.got = 1..Len(x2.got)
        BY <3>2
      <3>4. PICK i \in 1..Len(x2.got) : x2.got[i] = <<"status", x2.n>>
        BY <3>1, <3>3
      <3>5. x2.got # <<>>
        <4>1. Len(<<>>) = 0
          OBVIOUS
        <4> QED  BY <3>4, <4>1
      <3>6. ~Foreign
        <4>1. <<"status", x2.n>>[2] = x2.n
          OBVIOUS
        <4> QED  BY <3>4, <4>1 DEF Foreign
      <3>7. \A s \in x6 : ~PullOurs(s) /\ ~PushOurs(s)
        BY DEF PullOurs, PushOurs
      <3>8. ShellOurs
        BY <3>6, <3>7 DEF AdbInv, StreamHeld
      <3> QED  BY <3>5, <3>8 DEF ShellOurs
    <2> HIDE DEF st
    <2> QED  BY <1>1, <1>2, <2>1, <2>2, <2>3, EndKeeps
  <1>6. CASE m.cmd = "torn"
    <2>1. A!CloseWith(FALSE, FALSE)
      BY <1>3, <1>6 DEF A!ShellReply
    <2> QED  BY <1>2, <2>1, CloseFails
  <1>7. CASE ~ \/ m.cmd = "WRTE" /\ A!Own(m)
               \/ m.cmd = "CLSE" /\ m.to = x2.loc
               \/ m.cmd = "torn"
    <2>1. UNCHANGED <<x1, x2, x3, x4>>
      BY <1>3, <1>7 DEF A!ShellReply, A!Keep
    <2>2. Grown(x4, x4', {})
      BY <1>1, <2>1, GrownBy
    <2> QED  BY <1>2, <2>1, <2>2, DropKeeps
  <1> QED  BY <1>4, <1>5, <1>6, <1>7

LEMMA AllBehind ==
  ASSUME NEW q, Len(q) \in Nat, NEW K, NoneOf(q, K)
  PROVE  \A m \in Items(q) : m \in Behind(q, K)
  <1>1. \A k \in 1..Len(q) : q[k] \notin K
    BY DEF NoneOf, Items
  <1>2. ASSUME NEW i \in 1..Len(q)  PROVE q[i] \in Behind(q, K)
    <2>1. \A k \in i..Len(q) : k \in 1..Len(q)
      OBVIOUS
    <2> QED  BY <1>1, <2>1 DEF Behind
  <1> QED  BY <1>2 DEF Items

\* Once the module says the push is done nothing under way writes the file.
LEMMA PushIsDone ==
  ASSUME AdbInv, x2.at = "reply", x2.kind = "push", NEW m \in Items(x5),
         m.cmd = "WRTE", m.from = x2.rem, m.body[1] = "OKAY"
  PROVE  FileStays(x2.n)
  <1>1. /\ AdbTypes /\ x4 \in Seq(AdbMessage) /\ x2 # A!NoCall /\ x2.n \in Nat /\ x3.n \in Nat
        /\ x2.n = x3.n + 1 /\ x2.rem \in Nat
    <2>1. x2 # A!NoCall
      BY AdbFacts DEF AdbInv
    <2> QED  BY <2>1, AdbFacts DEF AdbInv
  <1>2. PICK s \in x6 : s.rem = x2.rem /\ s.n = x2.n /\ PushOurs(s)
    BY DEF AdbInv, StreamHeld, Foreign, ShellOurs, PullOurs
  <1>3. x8 = <<x2.n, "whole">> /\ s.at = "said" /\ NoneOf(x4, Towards("WRTE", x2.rem))
    BY <1>2 DEF PushOurs
  <1>4. NoneOf(x4, OpensOf(x2.n))
    BY <1>2 DEF AdbInv, StreamsApart
  <1>5. \A x \in Items(x4) : x.cmd # "WRTE"
    <2>1. SUFFICES ASSUME NEW x \in Items(x4), x.cmd = "WRTE"  PROVE FALSE
      OBVIOUS
    <2>2. x \in AdbMessage /\ x \in Behind(x4, OpensOf(x2.n))
      BY <1>1, <1>4, AllBehind, ItemsTyped
    <2>3. x.body[2] = x2.n
      BY <2>1, <2>2 DEF AdbInv, RecordsReach, AtStream
    <2>4. x.to = x2.rem
      BY <1>1, <2>1, <2>3 DEF AdbInv, Numbered
    <2>5. x \in Towards("WRTE", x2.rem)
      BY <2>1, <2>2, <2>4, MessageSets
    <2> QED  BY <1>3, <2>5 DEF NoneOf
  <1>6. \A t \in x6 : t.n = x2.n => t = s
    BY <1>2 DEF AdbInv, StreamsApart
  <1> QED  BY <1>3, <1>5, <1>6 DEF FileStays

LEMMA SyncReplyKeeps ==
  ASSUME AdbInv, x2.at = "reply", x5 # <<>>, x5' = Tail(x5), UNCHANGED <<x6, x7, x8>>,
         \/ x2.kind = "push" /\ A!PushReply(Head(x5))
         \/ x2.kind = "pull" /\ A!PullReply(Head(x5))
  PROVE  AdbInv'
  <1> DEFINE m == Head(x5)
  <1>1. AdbTypes /\ x5 \in Seq(AdbMessage) /\ x4 \in Seq(AdbMessage) /\ x2 # A!NoCall
    <2>1. x2 # A!NoCall
      BY AdbFacts DEF AdbInv, AdbTypes
    <2> QED  BY <2>1, AdbFacts DEF AdbInv
  <1>2. Shrunk(x5, x5') /\ m \in Items(x5)
    BY <1>1, ShrunkBy, Dequeued DEF ShorterBy
  <1>3. m = Head(x5) /\ (x2.kind = "push" => A!PushReply(m)) /\ (x2.kind = "pull" => A!PullReply(m))
    OBVIOUS
  <1> HIDE DEF m
  <1>4. CASE x2.kind = "push" /\ m.cmd = "WRTE" /\ A!Own(m)
    <2> DEFINE b == m.body[1] = "OKAY"
    <2>1. /\ x2' = [x2 EXCEPT !.at = "close", !.ok = b] /\ UNCHANGED <<x1, x3>>
          /\ x4' = x4 \o (A!Acknowledged \o <<A!Answer("CLSE", A!None)>>)
      BY <1>3, <1>4 DEF A!PushReply, A!Send
    <2>2. b => FileStays(x2.n)
      BY <1>2, <1>4, PushIsDone DEF A!Own
    <2>3. b \in BOOLEAN
      OBVIOUS
    <2> HIDE DEF b
    <2> QED  BY <1>3, <1>4, <2>1, <2>2, <2>3, AnswerCloses
  <1>5. CASE x2.kind = "pull" /\ m.cmd = "WRTE" /\ A!Own(m) /\ m.body[1] \in {"DONE", "FAIL"}
    <2> DEFINE b == m.body[1] = "DONE"
    <2>1. /\ x2' = [x2 EXCEPT !.at = "close", !.ok = b] /\ UNCHANGED <<x1, x3>>
          /\ x4' = x4 \o (A!Acknowledged \o <<A!Answer("CLSE", A!None)>>)
      BY <1>3, <1>5 DEF A!PullReply, A!Send
    <2>2. b => x2.got = <<StatusOf(x2.n)>>
      <3>1. PICK s \in x6 : s.rem = x2.rem /\ s.n = x2.n /\ PullOurs(s)
        BY <1>5 DEF AdbInv, StreamHeld, Foreign, ShellOurs, PushOurs
      <3>2. \/ m.body = StatusOf(x2.n)
            \/ m.body = <<"DONE", x2.n>> /\ x2.got = <<StatusOf(x2.n)>>
            \/ m.body = <<"FAIL", x2.n>>
        BY <1>2, <1>5, <3>1 DEF PullOurs, A!Own
      <3>3. StatusOf(x2.n)[1] = "status" /\ <<"FAIL", x2.n>>[1] = "FAIL"
        BY DEF StatusOf
      <3> QED  BY <3>2, <3>3
    <2>3. b \in BOOLEAN
      OBVIOUS
    <2> HIDE DEF b
    <2> QED  BY <1>3, <1>5, <2>1, <2>2, <2>3, AnswerCloses
  <1>6. CASE x2.kind = "pull" /\ m.cmd = "WRTE" /\ A!Own(m) /\ m.body[1] \notin {"DONE", "FAIL"}
    <2>1. /\ x2' = [x2 EXCEPT !.got = Append(@, m.body)] /\ x4' = x4 \o A!Acknowledged
          /\ UNCHANGED <<x1, x3>>
      BY <1>3, <1>6 DEF A!PullReply, A!Send
    <2> QED  BY <1>3, <1>6, <2>1, AnswerGrows
  <1>7. CASE m.cmd = "CLSE"
    <2>1. (A!End(FALSE, TRUE) \/ A!End(FALSE, FALSE)) /\ x4' = x4
      BY <1>3, <1>7 DEF A!PushReply, A!PullReply
    <2> QED  BY <1>1, <1>2, <2>1, FailKeeps
  <1>8. CASE m.cmd = "torn"
    <2>1. A!CloseWith(FALSE, TRUE) \/ A!CloseWith(FALSE, FALSE)
      BY <1>3, <1>8 DEF A!PushReply, A!PullReply
    <2> QED  BY <1>2, <2>1, CloseFails
  <1>9. CASE ~(m.cmd = "WRTE" /\ A!Own(m)) /\ m.cmd \notin {"CLSE", "torn"}
    <2>1. UNCHANGED <<x1, x2, x3, x4>>
      BY <1>3, <1>9 DEF A!PushReply, A!PullReply, A!Keep
    <2>2. Grown(x4, x4', {})
      BY <1>1, <2>1, GrownBy
    <2> QED  BY <1>2, <2>1, <2>2, DropKeeps
  <1> QED  BY <1>4, <1>5, <1>6, <1>7, <1>8, <1>9

\* closeStreamLocked
LEMMA ClosingKeeps ==
  ASSUME AdbInv, x2.at = "close", x5 # <<>>, x5' = Tail(x5), UNCHANGED <<x6, x7, x8>>,
         A!Closing(Head(x5))
  PROVE  AdbInv'
  <1> DEFINE m == Head(x5)
  <1>1. AdbTypes /\ x5 \in Seq(AdbMessage) /\ x4 \in Seq(AdbMessage) /\ x2 # A!NoCall /\ x2 \in AdbCall
    <2>1. x2 # A!NoCall /\ x2 \in AdbCall
      BY AdbFacts DEF AdbInv, AdbTypes
    <2> QED  BY <2>1, AdbFacts DEF AdbInv
  <1>2. Shrunk(x5, x5')
    BY <1>1, ShrunkBy
  <1>3. m = Head(x5) /\ A!Closing(m)
    OBVIOUS
  <1> HIDE DEF m
  <1>4. CASE m.cmd = "CLSE" /\ A!Own(m)
    <2> DEFINE yes == TRUE
    <2>1. A!End(x2.ok, yes) /\ x4' = x4
      BY <1>3, <1>4 DEF A!Closing
    <2>2. x2.ok \in BOOLEAN /\ yes \in BOOLEAN
      BY <1>1 DEF AdbCall
    <2> HIDE DEF yes
    <2> QED  BY <1>1, <1>2, <2>1, <2>2, EndKeeps
  <1>5. CASE m.cmd = "WRTE" /\ A!Own(m)
    <2> DEFINE a == A!Answer("OKAY", A!None)
               c == A!Answer("CLSE", A!None)
    <2>1. x4' = x4 \o A!Acknowledged /\ UNCHANGED <<x1, x2, x3>>
      BY <1>3, <1>5 DEF A!Closing, A!Send
    <2>2. /\ a \in AdbMessage /\ a.cmd = "OKAY" /\ a.to = x2.rem
          /\ c.cmd = "CLSE" /\ c.to = x2.rem /\ A!Acknowledged = <<a>>
      BY AcksMade
    <2> HIDE DEF a, c
    <2>3. x4' = x4 \o <<a>>
      BY <2>1, <2>2
    <2>4. ClientStep({a})
      BY <1>1, <1>2, <2>2, <2>3, GrownBy DEF ClientStep
    <2>5. m.from = x2.rem
      BY <1>5 DEF A!Own
    <2>6. Steady({a})
      BY <1>3, <1>5, <2>1, <2>2, <2>4, <2>5, RecordTaken, AckIsSteady
    <2>7. AdbTypes'
      <3>1. x4' \in Seq(AdbMessage) /\ x5' \in Seq(AdbMessage)
        BY <2>4 DEF ClientStep, Grown, Shrunk
      <3> QED  BY <1>1, <2>1, <3>1 DEF AdbTypes
    <2>8. ToldRightly'
      BY <2>1, <2>2, <2>4, ToldKeeps
    <2>9. StreamHeld'
      BY <2>1 DEF StreamHeld
    <2> QED  BY <2>6, <2>7, <2>8, <2>9, SteadyKeeps DEF AdbInv
  <1>6. CASE ~(m.cmd \in {"CLSE", "WRTE"} /\ A!Own(m))
    <2>1. A!End(FALSE, TRUE) /\ x4' = x4
      BY <1>3, <1>6 DEF A!Closing
    <2> QED  BY <1>1, <1>2, <2>1, FailKeeps
  <1> QED  BY <1>4, <1>5, <1>6

LEMMA AdbReceives == ASSUME AdbInv, A!Receive  PROVE AdbInv'
  <1>1. /\ x2 # A!NoCall /\ x5 # <<>> /\ x5' = Tail(x5) /\ UNCHANGED <<x6, x7, x8>>
    BY DEF A!Receive, A!moduleVars
  <1>2. /\ x2.at \in {"connect", "open", "write", "reply", "close"}
        /\ x2.kind \in {"shell", "push", "pull"}
    <2>1. AdbTypes /\ x2.at # "none" /\ x2.kind \in AdbKinds
      BY <1>1, AdbFacts DEF AdbInv
    <2> QED  BY <2>1 DEF AdbTypes, AdbCall, AdbKinds
  <1>3. CASE x2.at = "connect"
    <2>1. A!Connecting(Head(x5))
      BY <1>3 DEF A!Receive
    <2> QED  BY <1>1, <1>3, <2>1, ConnectingKeeps
  <1>4. CASE x2.at = "open"
    <2>1. A!Opening(Head(x5))
      BY <1>4 DEF A!Receive
    <2> QED  BY <1>1, <1>4, <2>1, OpenServiceKeeps
  <1>5. CASE x2.at = "write"
    <2>1. A!Writing(Head(x5))
      BY <1>5 DEF A!Receive
    <2> QED  BY <1>1, <1>5, <2>1, WritingKeeps
  <1>6. CASE x2.at = "reply" /\ x2.kind = "shell"
    <2>1. A!ShellReply(Head(x5))
      BY <1>6 DEF A!Receive
    <2> QED  BY <1>1, <1>6, <2>1, ShellReplyKeeps
  <1>7. CASE x2.at = "reply" /\ x2.kind = "push"
    <2>1. A!PushReply(Head(x5))
      BY <1>7 DEF A!Receive
    <2> QED  BY <1>1, <1>7, <2>1, SyncReplyKeeps
  <1>8. CASE x2.at = "reply" /\ x2.kind = "pull"
    <2>1. A!PullReply(Head(x5))
      BY <1>8 DEF A!Receive
    <2> QED  BY <1>1, <1>8, <2>1, SyncReplyKeeps
  <1>9. CASE x2.at = "close"
    <2>1. A!Closing(Head(x5))
      BY <1>9 DEF A!Receive
    <2> QED  BY <1>1, <1>9, <2>1, ClosingKeeps
  <1> QED  BY <1>2, <1>3, <1>4, <1>5, <1>6, <1>7, <1>8, <1>9

\* The module has read a message to a stream.
ModuleRead(cmd, r) ==
    x4 # <<>> /\ x4' = Tail(x4) /\ Head(x4).cmd = cmd /\ Head(x4).to = r
\* A step of the module over its stream s, which goes on as the one in Rest if any,
\* and says what is in New.
ModuleStep(s, Rest, New) ==
    /\ UNCHANGED <<x1, x2, x3, x7>>
    /\ x6' = (x6 \ {s}) \cup Rest /\ (Rest # {} \/ New # {} => s \in x6)
    /\ \A t, u \in Rest : t = u
    /\ \A t \in Rest :
          /\ t \in AdbStream /\ t.rem = s.rem /\ t.loc = s.loc /\ t.n = s.n /\ t.kind = s.kind
          /\ t.at = "run" => s.at = "run"
          /\ t.ready => s.ready \/ ModuleRead("OKAY", s.rem)
          /\ x2.at = "open" /\ x2.kind # "shell" /\ s.n = x2.n => t.at = "run" /\ t.ready
    /\ x4' = x4 \/ (x4 # <<>> /\ x4' = Tail(x4) /\ Head(x4).cmd \in OfStream)
    /\ Grown(x5, x5', New) /\ \A a, b \in New : a = b
    /\ x8' \in Nat \X {"none", "part", "whole"}
    /\ \A m \in New :
          /\ m.cmd \in OfStream /\ m.from = s.rem /\ m.to = s.loc
          /\ m.cmd = "OKAY" => ModuleRead("WRTE", s.rem)
          /\ m.cmd = "WRTE" =>
                /\ x4' = x4 /\ s.ready /\ m.body[2] = s.n
                /\ \A t \in Rest : ~t.ready /\ t.at # "run"
                /\ s.kind = "shell" => s.at = "run" /\ m.body = StatusOf(s.n)

LEMMA StepFacts ==
  ASSUME AdbInv, NEW s, NEW Rest, NEW New, ModuleStep(s, Rest, New)
  PROVE  /\ x4' \in Seq(AdbMessage) /\ x5' \in Seq(AdbMessage) /\ New \subseteq AdbMessage
         /\ \A m \in Items(x4') : m \in Items(x4) /\ m \in AdbMessage
         /\ \A K : /\ \A m \in Behind(x4', K) : m \in Behind(x4, K)
                   /\ Once(x4, K) => Once(x4', K)
                   /\ (\A m \in AdbMessage : m \in K => m.cmd \notin OfStream) =>
                        /\ NoneOf(x4', K) => NoneOf(x4, K)
                        /\ \A m \in UpTo(x4', K) : m \in UpTo(x4, K)
         /\ \A cmd, r : ModuleRead(cmd, r) =>
               Head(x4) \in Items(x4) /\ Head(x4) \in Towards(cmd, r) /\
               (Once(x4, Towards(cmd, r)) => NoneOf(x4', Towards(cmd, r)))
         /\ \A m \in Items(x5') : m \in Items(x5) \/ m \in New
         /\ \A m \in Items(x5') : m \in AdbMessage
         /\ \A t \in x6' : (t \in x6 /\ t # s) \/ (t \in Rest /\ s \in x6)
         /\ \A t \in x6' : \E u \in x6 :
               /\ t.rem = u.rem /\ t.loc = u.loc /\ t.n = u.n /\ t.kind = u.kind
               /\ t.at = "run" => u.at = "run"
  <1>1. AdbTypes /\ x4 \in Seq(AdbMessage) /\ x5 \in Seq(AdbMessage)
    BY AdbFacts DEF AdbInv
  <1>2. Grown(x5, x5', New) /\ (x4' = x4 \/ (x4 # <<>> /\ x4' = Tail(x4) /\ Head(x4).cmd \in OfStream))
    BY DEF ModuleStep
  <1>3. x4 # <<>> => Tail(x4) \in Seq(AdbMessage) /\ Head(x4) \in AdbMessage /\ ShorterBy(x4, Head(x4), Tail(x4))
    BY <1>1, Dequeued
  <1>4. x4' \in Seq(AdbMessage)
    BY <1>1, <1>2, <1>3
  <1>5. /\ \A m \in Items(x4') : m \in Items(x4)
        /\ \A K : /\ \A m \in Behind(x4', K) : m \in Behind(x4, K)
                  /\ Once(x4, K) => Once(x4', K)
    BY <1>2, <1>3 DEF ShorterBy
  <1>6. ASSUME NEW K, \A m \in AdbMessage : m \in K => m.cmd \notin OfStream
        PROVE  /\ NoneOf(x4', K) => NoneOf(x4, K)
               /\ \A m \in UpTo(x4', K) : m \in UpTo(x4, K)
    <2>1. CASE x4' = x4
      BY <2>1
    <2>2. CASE x4 # <<>> /\ x4' = Tail(x4) /\ Head(x4).cmd \in OfStream
      <3>1. Head(x4) \notin K /\ ShorterBy(x4, Head(x4), x4')
        BY <1>3, <1>6, <2>2
      <3> QED  BY <3>1 DEF ShorterBy, NoneOf
    <2> QED  BY <1>2, <2>1, <2>2
  <1>7. ASSUME NEW cmd, NEW r, ModuleRead(cmd, r)
        PROVE  /\ Head(x4) \in Items(x4) /\ Head(x4) \in Towards(cmd, r)
               /\ Once(x4, Towards(cmd, r)) => NoneOf(x4', Towards(cmd, r))
    <2>1. x4 # <<>> /\ x4' = Tail(x4) /\ Head(x4).cmd = cmd /\ Head(x4).to = r
      BY <1>7 DEF ModuleRead
    <2>2. Head(x4) \in AdbMessage /\ ShorterBy(x4, Head(x4), x4')
      BY <1>3, <2>1
    <2>3. Head(x4) \in Towards(cmd, r)
      BY <2>1, <2>2, MessageSets
    <2> QED  BY <2>2, <2>3 DEF ShorterBy
  <1>8. \A m \in Items(x4') : m \in AdbMessage
    BY <1>4, ItemsTyped
  <1>9. x5' \in Seq(AdbMessage) /\ New \subseteq AdbMessage /\ \A m \in Items(x5') : m \in Items(x5) \/ m \in New
    BY <1>2 DEF Grown
  <1>10. \A m \in Items(x5') : m \in AdbMessage
    BY <1>9, ItemsTyped
  <1>11. \A t \in x6' : (t \in x6 /\ t # s) \/ (t \in Rest /\ s \in x6)
    BY DEF ModuleStep
  <1>12. \A t \in x6' : \E u \in x6 :
               /\ t.rem = u.rem /\ t.loc = u.loc /\ t.n = u.n /\ t.kind = u.kind
               /\ t.at = "run" => u.at = "run"
    BY <1>11 DEF ModuleStep
  <1> QED  BY <1>4, <1>5, <1>6, <1>7, <1>8, <1>9, <1>10, <1>11, <1>12

LEMMA ModuleStepKeeps ==
  ASSUME AdbInv, NEW s, NEW Rest, NEW New, ModuleStep(s, Rest, New)
  PROVE  /\ AdbTypes' /\ Numbered' /\ StreamsApart' /\ OneRecord' /\ OneAnswer'
         /\ OldStreamsEnd' /\ RecordsReach' /\ OwnStreamStays' /\ StreamsSpeak'
  <1>1. AdbTypes
    BY DEF AdbInv
  <1>2. /\ x4' \in Seq(AdbMessage) /\ x5' \in Seq(AdbMessage) /\ New \subseteq AdbMessage
        /\ \A m \in Items(x4') : m \in Items(x4) /\ m \in AdbMessage
        /\ \A m \in Items(x5') : m \in Items(x5) \/ m \in New
        /\ \A m \in Items(x5') : m \in AdbMessage
    BY StepFacts
  <1>3. /\ \A t \in x6' : (t \in x6 /\ t # s) \/ (t \in Rest /\ s \in x6)
        /\ \A t \in x6' : \E u \in x6 :
               /\ t.rem = u.rem /\ t.loc = u.loc /\ t.n = u.n /\ t.kind = u.kind
               /\ t.at = "run" => u.at = "run"
    BY StepFacts
  <1>4. /\ UNCHANGED <<x1, x2, x3, x7>> /\ (AtStream' <=> AtStream)
        /\ \A m \in New : m.cmd \in OfStream /\ m.from = s.rem /\ m.to = s.loc /\ s \in x6
        /\ \A a, b \in New : a = b
    BY DEF ModuleStep, AtStream
  <1>5. \A K : Once(x4, K) => Once(x4', K)
    BY StepFacts
  <1>6. \A K : NoneOf(x4, K) => NoneOf(x4', K)
    BY <1>2 DEF NoneOf
  <1>7. Numbered
    BY DEF AdbInv
  <1>8. AdbTypes'
    <2>1. x6' \subseteq AdbStream /\ x8' \in Nat \X {"none", "part", "whole"}
      BY <1>1, <1>3 DEF AdbTypes, ModuleStep
    <2> QED  BY <1>1, <1>2, <1>4, <2>1 DEF AdbTypes
  <1>9. Numbered'
    <2>1. \A m \in Items(x5') : m.cmd = "WRTE" =>
             m.body[2] <= x3.n \/ (AtStream /\ m.body[2] = x2.n)
      <3>1. \A m \in New : m.cmd = "WRTE" => m.body[2] = s.n
        BY DEF ModuleStep
      <3> QED  BY <1>2, <1>4, <1>7, <3>1 DEF Numbered
    <2>2. \A m \in Items(x5') : m.cmd \in OfStream => m.from < x7
      BY <1>2, <1>4, <1>7 DEF Numbered
    <2>3. \A t \in x6' : t.n <= x3.n \/ (AtStream /\ t.n = x2.n)
      BY <1>3, <1>7 DEF Numbered
    <2>4. \A t \in x6' : t.rem < x7
      BY <1>3, <1>7 DEF Numbered
    <2>5. /\ \A m \in Items(x4') : m.cmd = "OPEN" =>
             m.body[2] <= x3.n \/ (AtStream /\ m.body[2] = x2.n)
          /\ \A m \in Items(x4') : m.cmd = "WRTE" =>
               \/ m.body[2] <= x3.n
               \/ x2.at \in {"write", "reply", "close"} /\ m.body[2] = x2.n /\ m.to = x2.rem
          /\ \A m \in Items(x4') : m.cmd \in OfStream => m.to < x7
          /\ \A m \in Items(x4') : m.cmd # "torn"
          /\ x2.rem < x7
      BY <1>2, <1>7 DEF Numbered
    <2> QED  BY <1>4, <2>1, <2>2, <2>3, <2>4, <2>5 DEF Numbered
  <1>10. StreamsApart'
    <2>1. \A t, u \in x6' : t.rem = u.rem \/ t.n = u.n => t = u
      <3>1. \A t, u \in x6 : t.rem = u.rem \/ t.n = u.n => t = u
        BY DEF AdbInv, StreamsApart
      <3>2. \A t \in Rest : t.rem = s.rem /\ t.n = s.n
        BY DEF ModuleStep
      <3>3. \A t, u \in Rest : t = u
        BY DEF ModuleStep
      <3> QED  BY <1>3, <3>1, <3>2, <3>3
    <2>2. \A t \in x6', m \in Items(x5') : m.cmd \in OfStream /\ m.from = t.rem => m.to = t.loc
      <3>1. /\ \A u \in x6, m \in Items(x5) : m.cmd \in OfStream /\ m.from = u.rem => m.to = u.loc
            /\ \A u \in x6 : u.rem = s.rem /\ s \in x6 => u = s
        BY DEF AdbInv, StreamsApart
      <3> QED  BY <1>2, <1>3, <1>4, <3>1
    <2>3. \A n \in Nat : Once(x4', OpensOf(n))
      BY <1>5 DEF AdbInv, StreamsApart
    <2>4. \A t \in x6' : NoneOf(x4', OpensOf(t.n))
      BY <1>3, <1>6 DEF AdbInv, StreamsApart
    <2>5. AtStream => \A t \in x6' : t.n = x2.n => t.loc = x2.loc /\ t.kind = x2.kind
      BY <1>3 DEF AdbInv, StreamsApart
    <2>6. /\ AtStream => \A m \in Items(x4') : m.cmd = "OPEN" /\ m.body[2] = x2.n =>
                m.from = x2.loc /\ m.body[1] = x2.kind
          /\ \A m \in Items(x4') : m.cmd = "OPEN" => m.body[1] \in AdbKinds
      BY <1>2 DEF AdbInv, StreamsApart
    <2> QED  BY <1>4, <2>1, <2>2, <2>3, <2>4, <2>5, <2>6 DEF StreamsApart
  <1>11. OneRecord'
    <2>1. ASSUME NEW r \in Nat
          PROVE  /\ Once(x4', Towards("WRTE", r)) /\ Once(x5', From("OKAY", r))
                 /\ NoneOf(x4', Towards("WRTE", r)) \/ NoneOf(x5', From("OKAY", r))
      <3>1. /\ Once(x4, Towards("WRTE", r)) /\ Once(x5, From("OKAY", r))
            /\ NoneOf(x4, Towards("WRTE", r)) \/ NoneOf(x5, From("OKAY", r))
        BY <2>1 DEF AdbInv, OneRecord
      <3>2. \A a \in New : a \in From("OKAY", r) =>
               NoneOf(x5, From("OKAY", r)) /\ NoneOf(x4', Towards("WRTE", r))
        <4>1. ASSUME NEW a \in New, a \in From("OKAY", r)
              PROVE NoneOf(x5, From("OKAY", r)) /\ NoneOf(x4', Towards("WRTE", r))
          <5>1. s.rem = r /\ ModuleRead("WRTE", r)
            BY <1>2, <4>1, MessageSets DEF ModuleStep
          <5>2. Head(x4) \in Items(x4) /\ Head(x4) \in Towards("WRTE", r) /\ NoneOf(x4', Towards("WRTE", r))
            BY <3>1, <5>1, StepFacts
          <5> QED  BY <3>1, <5>2 DEF NoneOf
        <4> QED  BY <4>1
      <3>3. Once(x5', From("OKAY", r))
        BY <1>4, <3>1, <3>2 DEF ModuleStep, Grown
      <3>4. (\A a \in New : a \notin From("OKAY", r)) /\ NoneOf(x5, From("OKAY", r)) => NoneOf(x5', From("OKAY", r))
        BY <1>2 DEF NoneOf
      <3> QED  BY <1>5, <1>6, <3>1, <3>2, <3>3, <3>4
    <2> QED  BY <2>1 DEF OneRecord
  <1>12. OneAnswer'
    <2>1. ASSUME NEW r \in Nat
          PROVE  /\ Once(x5', From("WRTE", r)) /\ Once(x4', Towards("OKAY", r))
                 /\ NoneOf(x5', From("WRTE", r)) \/ NoneOf(x4', Towards("OKAY", r))
                 /\ \A t \in x6' : t.rem = r /\ t.ready =>
                       NoneOf(x5', From("WRTE", r)) /\ NoneOf(x4', Towards("OKAY", r))
      <3>1. /\ Once(x5, From("WRTE", r)) /\ Once(x4, Towards("OKAY", r))
            /\ NoneOf(x5, From("WRTE", r)) \/ NoneOf(x4, Towards("OKAY", r))
            /\ \A u \in x6 : u.rem = r /\ u.ready =>
                  NoneOf(x5, From("WRTE", r)) /\ NoneOf(x4, Towards("OKAY", r))
        BY <2>1 DEF AdbInv, OneAnswer
      <3>2. \A a \in New : a \in From("WRTE", r) =>
               /\ s.rem = r /\ s \in x6 /\ \A t \in Rest : ~t.ready
               /\ NoneOf(x5, From("WRTE", r)) /\ NoneOf(x4, Towards("OKAY", r))
        <4>1. ASSUME NEW a \in New, a \in From("WRTE", r)
              PROVE /\ s.rem = r /\ s \in x6 /\ \A t \in Rest : ~t.ready
                    /\ NoneOf(x5, From("WRTE", r)) /\ NoneOf(x4, Towards("OKAY", r))
          <5>1. s.rem = r /\ s \in x6 /\ s.ready /\ \A t \in Rest : ~t.ready
            BY <1>2, <4>1, MessageSets DEF ModuleStep
          <5> QED  BY <3>1, <5>1
        <4> QED  BY <4>1
      <3>3. Once(x5', From("WRTE", r))
        BY <1>4, <3>1, <3>2 DEF ModuleStep, Grown
      <3>4. (\A a \in New : a \notin From("WRTE", r)) /\ NoneOf(x5, From("WRTE", r)) => NoneOf(x5', From("WRTE", r))
        BY <1>2 DEF NoneOf
      <3>5. ASSUME NEW t \in x6', t.rem = r, t.ready
            PROVE NoneOf(x5', From("WRTE", r)) /\ NoneOf(x4', Towards("OKAY", r))
        <4>1. \A a \in New : a \notin From("WRTE", r)
          <5>1. SUFFICES ASSUME NEW a \in New, a \in From("WRTE", r)  PROVE FALSE
            OBVIOUS
          <5>2. s.rem = r /\ s \in x6 /\ \A h \in Rest : ~h.ready
            BY <3>2, <5>1
          <5>3. t \in x6 /\ t # s
            BY <1>3, <3>5, <5>2
          <5> QED  BY <3>5, <5>2, <5>3 DEF AdbInv, StreamsApart
        <4>2. NoneOf(x5, From("WRTE", r)) /\ NoneOf(x4', Towards("OKAY", r))
          <5>1. CASE t \in x6
            BY <1>6, <3>1, <3>5, <5>1
          <5>2. CASE t \in Rest /\ s \in x6 /\ s.ready
            BY <1>6, <3>1, <3>5, <5>2 DEF ModuleStep
          <5>3. CASE t \in Rest /\ s \in x6 /\ ModuleRead("OKAY", s.rem)
            <6>1. s.rem = r
              BY <3>5, <5>3 DEF ModuleStep
            <6>2. Head(x4) \in Items(x4) /\ Head(x4) \in Towards("OKAY", r) /\ NoneOf(x4', Towards("OKAY", r))
              BY <3>1, <5>3, <6>1, StepFacts
            <6> QED  BY <3>1, <6>2 DEF NoneOf
          <5> QED  BY <1>3, <3>5, <5>1, <5>2, <5>3 DEF ModuleStep
        <4> QED  BY <3>4, <4>1, <4>2
      <3> QED  BY <1>5, <1>6, <3>1, <3>2, <3>3, <3>4, <3>5
    <2> QED  BY <2>1 DEF OneAnswer
  <1>13. \A m \in AdbMessage : m \in Connects => m.cmd \notin OfStream
    BY MessageSets DEF OfStream
  <1>14. /\ NoneOf(x4', Connects) => NoneOf(x4, Connects)
         /\ \A m \in UpTo(x4', Connects) : m \in UpTo(x4, Connects)
         /\ \A K : \A m \in Behind(x4', K) : m \in Behind(x4, K)
    BY <1>13, StepFacts
  <1>15. OldStreamsEnd'
    <2>1. OldStreamsEnd
      BY DEF AdbInv
    <2>2. x2.at = "connect" =>
            /\ \A m \in Behind(x4', Connects) : m.cmd # "OPEN"
            /\ NoneOf(x4', Connects) => x6' = {}
      BY <1>3, <1>14, <2>1 DEF OldStreamsEnd
    <2>3. x1.connected =>
            /\ \A m \in Behind(x4', Connects) : m.cmd = "OPEN" => m.from < x1.next
            /\ NoneOf(x4', Connects) => \A t \in x6' : t.loc < x1.next
      BY <1>3, <1>14, <2>1 DEF OldStreamsEnd
    <2>4. AtStream =>
            /\ \A m \in Behind(x4', Connects) : m.cmd = "OPEN" /\ m.from = x2.loc => m.body[2] = x2.n
            /\ NoneOf(x4', Connects) => \A t \in x6' : t.loc = x2.loc => t.n = x2.n
      BY <1>3, <1>14, <2>1 DEF OldStreamsEnd
    <2> QED  BY <1>4, <2>2, <2>3, <2>4 DEF OldStreamsEnd
  <1>16. RecordsReach'
    <2>1. \A m \in UpTo(x4', Connects), t \in x6' : m.cmd = "WRTE" /\ m.to = t.rem => m.body[2] = t.n
      BY <1>3, <1>14 DEF AdbInv, RecordsReach
    <2>2. AtStream => \A m \in Behind(x4', OpensOf(x2.n)) :
            m.cmd \notin {"CNXN", "OPEN"} /\ (m.cmd = "WRTE" => m.body[2] = x2.n)
      BY <1>14 DEF AdbInv, RecordsReach
    <2> QED  BY <1>4, <2>1, <2>2 DEF RecordsReach
  <1>17. OwnStreamStays'
    <2>1. x2.at \in {"open", "write", "reply"} =>
             \A t \in x6' : t.n = x2.n => NoneOf(x4', Towards("CLSE", t.rem))
      BY <1>3, <1>6 DEF AdbInv, OwnStreamStays
    <2>2. ASSUME x2.at = "open", x2.kind # "shell", NEW t \in x6', t.n = x2.n
          PROVE  t.at = "run" /\ t.ready
      <3>1. CASE t \in x6
        BY <2>2, <3>1 DEF AdbInv, OwnStreamStays
      <3>2. CASE t \in Rest
        BY <2>2, <3>2 DEF ModuleStep
      <3> QED  BY <1>3, <2>2, <3>1, <3>2
    <2> QED  BY <1>4, <2>1, <2>2 DEF OwnStreamStays
  <1>18. StreamsSpeak'
    <2>1. ASSUME NEW t \in x6', NEW m \in Items(x5'), m.cmd = "WRTE", m.from = t.rem
          PROVE  m.body[2] = t.n /\ (t.kind = "shell" => t.at # "run")
      <3>1. CASE m \in Items(x5)
        BY <1>3, <2>1, <3>1 DEF AdbInv, StreamsSpeak
      <3>2. CASE m \in New
        <4>1. s \in x6 /\ s.rem = t.rem /\ m.body[2] = s.n /\ \A h \in Rest : h.at # "run" /\ h.n = s.n
          BY <1>4, <2>1, <3>2 DEF ModuleStep
        <4>2. t \in Rest
          BY <1>3, <4>1 DEF AdbInv, StreamsApart
        <4> QED  BY <4>1, <4>2
      <3> QED  BY <1>2, <3>1, <3>2
    <2>2. ASSUME x2.kind = "shell", NEW m \in Items(x5'), m.cmd = "WRTE", m.body[2] = x2.n
          PROVE  m.body[1] = "status"
      <3>1. CASE m \in Items(x5)
        BY <2>2, <3>1 DEF AdbInv, StreamsSpeak
      <3>2. CASE m \in New
        <4>1. s \in x6 /\ s.n = x2.n
          BY <1>4, <2>2, <3>2 DEF ModuleStep
        <4>2. AtStream
          <5>1. x2 # A!NoCall
            BY <2>2 DEF A!NoCall
          <5>2. x2.n = x3.n + 1 /\ x3.n \in Nat /\ s.n \in Nat
            BY <1>1, <4>1, <5>1, AdbFacts
          <5> QED  BY <1>7, <4>1, <5>2 DEF Numbered
        <4>3. s.kind = "shell"
          BY <2>2, <4>1, <4>2 DEF AdbInv, StreamsApart
        <4>4. m.body = StatusOf(s.n)
          BY <2>2, <3>2, <4>3 DEF ModuleStep
        <4> QED  BY <4>4 DEF StatusOf
      <3> QED  BY <1>2, <2>2, <3>1, <3>2
    <2> QED  BY <1>4, <2>1, <2>2 DEF StreamsSpeak
  <1> QED  BY <1>8, <1>9, <1>10, <1>11, <1>12, <1>15, <1>16, <1>17, <1>18

\* A record at the head of the queue is of the stream that takes it; where the
\* call under way has its stream, of that one.
LEMMA HeadReaches ==
  ASSUME AdbInv, NEW s \in x6, ModuleRead("WRTE", s.rem)
  PROVE  /\ Head(x4) \in Items(x4) /\ Head(x4) \in Towards("WRTE", s.rem) /\ Head(x4) \in AdbMessage
         /\ Head(x4).body[2] = s.n
         /\ AtStream => \A z \in x6 : z.n = x2.n => z = s
  <1>1. AdbTypes /\ x4 \in Seq(AdbMessage) /\ x4 # <<>> /\ Head(x4).cmd = "WRTE" /\ Head(x4).to = s.rem
    BY AdbFacts DEF AdbInv, ModuleRead
  <1>2. Head(x4) \in AdbMessage /\ ShorterBy(x4, Head(x4), Tail(x4)) /\ Head(x4) \in Items(x4)
    BY <1>1, Dequeued DEF ShorterBy
  <1>3. Head(x4) \notin Connects /\ Head(x4) \in Towards("WRTE", s.rem)
    BY <1>1, <1>2, MessageSets
  <1>4. Head(x4) \in UpTo(x4, Connects)
    BY <1>2, <1>3 DEF ShorterBy
  <1>5. Head(x4).body[2] = s.n
    BY <1>1, <1>4 DEF AdbInv, RecordsReach
  <1>6. ASSUME AtStream, NEW z \in x6, z.n = x2.n  PROVE z = s
    <2>1. NoneOf(x4, OpensOf(x2.n))
      BY <1>6 DEF AdbInv, StreamsApart
    <2>2. Len(x4) \in Nat
      BY <1>1
    <2>3. Head(x4) \in Behind(x4, OpensOf(x2.n))
      BY <1>2, <2>1, <2>2, AllBehind
    <2>4. Head(x4).body[2] = x2.n
      BY <1>1, <1>6, <2>3 DEF AdbInv, RecordsReach
    <2> QED  BY <1>5, <1>6, <2>4 DEF AdbInv, StreamsApart
  <1> QED  BY <1>2, <1>3, <1>5, <1>6

LEMMA ModuleKeeps ==
  ASSUME AdbInv, NEW s, NEW Rest, NEW New, ModuleStep(s, Rest, New),
         \A n \in Nat : FileStays(n) => FileStays(n)',
         \A z \in x6 : z.n = x2.n /\ z # s /\ AtStream => x8' = x8 \/ x8[1] # x2.n,
         s \in x6 /\ s.rem = x2.rem /\ s.n = x2.n /\ x2.at \in {"write", "reply"}
           /\ (PullOurs(s) \/ PushOurs(s)) => \E t \in Rest : PullOurs(t)' \/ PushOurs(t)'
  PROVE  AdbInv'
  <1>1. /\ x4' \in Seq(AdbMessage) /\ x5' \in Seq(AdbMessage) /\ New \subseteq AdbMessage
        /\ \A m \in Items(x4') : m \in Items(x4) /\ m \in AdbMessage
        /\ \A m \in Items(x5') : m \in Items(x5) \/ m \in New
        /\ \A m \in Items(x5') : m \in AdbMessage
    BY StepFacts
  <1>2. /\ \A t \in x6' : (t \in x6 /\ t # s) \/ (t \in Rest /\ s \in x6)
        /\ \A t \in Rest : t.rem = s.rem /\ t.n = s.n /\ t.kind = s.kind /\ (t.at = "run" => s.at = "run")
        /\ \A t \in x6 : t # s => t \in x6'
        /\ \A t \in Rest : t \in x6' /\ s \in x6
    BY StepFacts DEF ModuleStep
  <1>3. /\ UNCHANGED <<x1, x2, x3, x7>>
        /\ \A m \in New : m.from = s.rem /\ m.cmd \in OfStream /\ s \in x6
    BY DEF ModuleStep
  <1>4. \A K : NoneOf(x4, K) => NoneOf(x4', K)
    BY <1>1 DEF NoneOf
  <1>5. ToldRightly'
    <2>1. x2.n \in Nat /\ x3.n \in Nat
      BY AdbFacts DEF AdbInv
    <2>2. /\ x2.at = "close" /\ x2.ok =>
              /\ x2.kind \in {"push", "pull"}
              /\ x2.kind = "pull" => x2.got = <<StatusOf(x2.n)>>
              /\ x2.kind = "push" => FileStays(x2.n)
          /\ x3.ok /\ x3.kind \in {"shell", "pull"} => x3.got = <<StatusOf(x3.n)>>
          /\ x3.ok /\ x3.kind = "push" /\ x2.kind # "push" => FileStays(x3.n)
      BY DEF AdbInv, ToldRightly
    <2>3. FileStays(x2.n) => FileStays(x2.n)'
      BY <1>3, <2>1
    <2>4. FileStays(x3.n) => FileStays(x3.n)'
      BY <1>3, <2>1
    <2> QED  BY <1>3, <2>2, <2>3, <2>4 DEF ToldRightly
  <1>6. StreamHeld'
    <2>1. CASE x2.at \notin {"write", "reply"}
      BY <1>3, <2>1 DEF StreamHeld
    <2>2. ASSUME x2.at \in {"write", "reply"}, Foreign  PROVE Foreign'
      <3>1. \A t \in x6' : t.rem = x2.rem => t.n # x2.n
        BY <1>2, <2>2 DEF Foreign
      <3>2. CASE x2.kind = "shell"
        <4>1. ASSUME NEW m \in New, m.cmd = "WRTE", m.from = x2.rem  PROVE m.body[2] # x2.n
          <5>1. m.body[2] = s.n /\ s \in x6 /\ s.rem = x2.rem
            BY <1>3, <4>1 DEF ModuleStep
          <5> QED  BY <2>2, <5>1 DEF Foreign
        <4>2. \A m \in Items(x5') : m.cmd = "WRTE" /\ m.from = x2.rem => m.body[2] # x2.n
          BY <1>1, <2>2, <3>2, <4>1 DEF Foreign
        <4> QED  BY <1>3, <2>2, <3>1, <3>2, <4>2 DEF Foreign
      <3>3. CASE x2.kind # "shell"
        <4>1. ASSUME NEW m \in New, m \in From("OKAY", x2.rem)  PROVE FALSE
          <5>1. m.cmd = "OKAY" /\ s \in x6 /\ s.rem = x2.rem /\ ModuleRead("WRTE", s.rem)
            BY <1>1, <1>3, <4>1, MessageSets DEF ModuleStep
          <5>2. /\ Head(x4) \in Items(x4) /\ Head(x4).body[2] = s.n
                /\ Head(x4).cmd = "WRTE" /\ Head(x4).to = x2.rem
            BY <5>1, HeadReaches DEF ModuleRead
          <5> QED  BY <2>2, <3>3, <5>1, <5>2 DEF Foreign
        <4>2. NoneOf(x5', From("OKAY", x2.rem))
          BY <1>1, <2>2, <3>3, <4>1 DEF Foreign, NoneOf
        <4>3. \A m \in Items(x4') : m.cmd = "WRTE" /\ m.to = x2.rem => m.body[2] = x2.n
          BY <1>1, <2>2, <3>3 DEF Foreign
        <4> QED  BY <1>3, <2>2, <3>1, <3>3, <4>2, <4>3 DEF Foreign
      <3> QED  BY <3>2, <3>3
    <2>3. ASSUME x2.at \in {"write", "reply"}, ShellOurs  PROVE ShellOurs'
      <3>1. \A u \in x6 : u.rem = x2.rem => u.n = x2.n /\ u.kind = "shell"
        BY <2>3 DEF ShellOurs, AdbInv, StreamsApart, AtStream
      <3>2. ASSUME NEW m \in New, m.cmd = "WRTE", m.from = x2.rem
            PROVE  /\ m.body = StatusOf(x2.n) /\ s \in x6 /\ s.rem = x2.rem /\ s.at = "run"
                   /\ \A t \in Rest : t.at # "run"
        <4>1. s \in x6 /\ s.rem = x2.rem /\ \A t \in Rest : t.at # "run"
          BY <1>3, <3>2 DEF ModuleStep
        <4>2. s.n = x2.n /\ s.kind = "shell"
          BY <3>1, <4>1
        <4>3. s.at = "run" /\ m.body = StatusOf(s.n)
          BY <3>2, <4>2 DEF ModuleStep
        <4> QED  BY <4>1, <4>2, <4>3
      <3>3. \A m \in Items(x5') : m.cmd = "WRTE" /\ m.from = x2.rem =>
               m.body = StatusOf(x2.n) /\ x2.got = <<>>
        BY <1>1, <2>3, <3>2 DEF ShellOurs
      <3>4. ASSUME NEW t \in x6', t.rem = x2.rem
            PROVE t.n = x2.n /\ (t.at = "run" => x2.got = <<>> /\ NoneOf(x5', From("WRTE", x2.rem)))
        <4>1. PICK u \in x6 : u.rem = x2.rem /\ u.n = t.n /\ (t.at = "run" => u.at = "run")
          BY <1>2, <3>4
        <4>2. t.at = "run" => \A m \in New : m \notin From("WRTE", x2.rem)
          <5>1. SUFFICES ASSUME t.at = "run", NEW m \in New, m \in From("WRTE", x2.rem)  PROVE FALSE
            OBVIOUS
          <5>2. s \in x6 /\ s.rem = x2.rem /\ \A h \in Rest : h.at # "run"
            BY <1>1, <3>2, <5>1, MessageSets
          <5>3. t \in x6 /\ t # s
            BY <1>2, <5>1, <5>2
          <5> QED  BY <3>4, <5>2, <5>3 DEF AdbInv, StreamsApart
        <4> QED  BY <1>1, <2>3, <4>1, <4>2 DEF ShellOurs, NoneOf
      <3> QED  BY <1>3, <2>3, <3>3, <3>4 DEF ShellOurs
    <2>4. ASSUME x2.at \in {"write", "reply"}, NEW z \in x6, z.rem = x2.rem, z.n = x2.n,
                 PullOurs(z) \/ PushOurs(z)
          PROVE  \E t \in x6' : t.rem = x2.rem /\ t.n = x2.n /\ (PullOurs(t)' \/ PushOurs(t)')
      <3>1. CASE z = s
        BY <1>2, <2>4, <3>1
      <3>2. CASE z # s
        <4>1. z \in x6' /\ \A m \in New : m.from # x2.rem
          BY <1>2, <1>3, <2>4, <3>2 DEF AdbInv, StreamsApart
        <4>2. \A m \in Items(x5') : m.from = x2.rem => m \in Items(x5)
          BY <1>1, <4>1
        <4>3. /\ NoneOf(x5, From("WRTE", x2.rem)) => NoneOf(x5', From("WRTE", x2.rem))
              /\ NoneOf(x5, From("OKAY", x2.rem)) => NoneOf(x5', From("OKAY", x2.rem))
          BY <1>1, <4>2, MessageSets DEF NoneOf
        <4>4. AtStream
          BY <2>4 DEF AtStream
        <4>5. \A w : x8 = <<x2.n, w>> => x8' = <<x2.n, w>>
          <5>1. x8' = x8 \/ x8[1] # x2.n
            BY <2>4, <3>2, <4>4
          <5>2. \A w : <<x2.n, w>>[1] = x2.n
            OBVIOUS
          <5> QED  BY <5>1, <5>2
        <4>6. CASE PullOurs(z)
          <5>1. PullOurs(z)'
            BY <1>1, <1>3, <1>4, <4>2, <4>3, <4>6 DEF PullOurs
          <5> QED  BY <2>4, <4>1, <5>1
        <4>7. CASE PushOurs(z)
          <5>1. PushOurs(z)'
            BY <1>1, <1>3, <1>4, <4>2, <4>3, <4>5, <4>7 DEF PushOurs
          <5> QED  BY <2>4, <4>1, <5>1
        <4> QED  BY <2>4, <4>6, <4>7
      <3> QED  BY <3>1, <3>2
    <2>5. \/ x2.at \notin {"write", "reply"}
          \/ x2.at \in {"write", "reply"} /\ Foreign
          \/ x2.at \in {"write", "reply"} /\ ShellOurs
          \/ x2.at \in {"write", "reply"} /\ \E z \in x6 :
                z.rem = x2.rem /\ z.n = x2.n /\ (PullOurs(z) \/ PushOurs(z))
      BY DEF AdbInv, StreamHeld
    <2> QED  BY <1>3, <2>1, <2>2, <2>3, <2>4, <2>5 DEF StreamHeld
  <1> QED  BY <1>5, <1>6, ModuleStepKeeps DEF AdbInv

LEMMA ToMade ==
  ASSUME AdbInv, NEW s \in x6, NEW cmd \in OfStream, NEW body \in AdbBody,
         NEW m, m = A!Msg(cmd, s.rem, s.loc, body)
  PROVE  /\ m \in AdbMessage /\ m.cmd = cmd /\ m.from = s.rem /\ m.to = s.loc /\ m.body = body
         /\ Grown(x5, x5 \o <<m>>, {m}) /\ A!To(s, cmd, body) = <<m>>
  <1>1. s.rem \in Nat /\ s.loc \in Nat /\ x5 \in Seq(AdbMessage)
    BY AdbFacts DEF AdbInv
  <1>2. cmd \in {"CNXN", "OPEN", "WRTE", "OKAY", "CLSE", "torn"}
    BY DEF OfStream
  <1>3. m \in AdbMessage /\ m.cmd = cmd /\ m.from = s.rem /\ m.to = s.loc /\ m.body = body
    BY <1>1, <1>2, MessageMade
  <1>4. Grown(x5, x5 \o <<m>>, {m})
    BY <1>1, <1>3, GrownBy
  <1>5. A!To(s, cmd, body) = <<m>>
    BY DEF A!To
  <1> QED  BY <1>3, <1>4, <1>5

\* What the head of the queue to the module is.
LEMMA HeadToModule ==
  ASSUME AdbInv, x4 # <<>>, x4' = Tail(x4), NEW m, m = Head(x4)
  PROVE  /\ m \in AdbMessage /\ m \in Items(x4) /\ ShorterBy(x4, m, x4') /\ m.cmd # "torn"
         /\ x4' \in Seq(AdbMessage) /\ m.from \in Nat /\ m.to \in Nat /\ m.body[2] \in Nat
         /\ ModuleRead(m.cmd, m.to)
         /\ \A x \in Items(x4') : x \in Items(x4) /\ x \in AdbMessage
  <1>1. AdbTypes /\ x4 \in Seq(AdbMessage)
    BY AdbFacts DEF AdbInv
  <1>2. m \in AdbMessage /\ m \in Items(x4) /\ ShorterBy(x4, m, x4') /\ x4' \in Seq(AdbMessage)
    BY <1>1, Dequeued DEF ShorterBy
  <1>3. m.cmd # "torn"
    BY <1>2 DEF AdbInv, Numbered
  <1>4. m.from \in Nat /\ m.to \in Nat /\ m.body[2] \in Nat
    BY <1>2, MessageSets
  <1>5. \A x \in Items(x4') : x \in Items(x4) /\ x \in AdbMessage
    BY <1>2, ItemsTyped DEF ShorterBy
  <1> QED  BY <1>2, <1>3, <1>4, <1>5 DEF ModuleRead

LEMMA TakesKeeps ==
  ASSUME AdbInv, x4 # <<>>, x4' = Tail(x4), NEW m, m = Head(x4), m.cmd = "WRTE",
         UNCHANGED <<x1, x2, x3, x7>>, NEW s \in A!StreamOf(m), A!TakesRecord(s, m.body[1])
  PROVE  AdbInv'
  <1> DEFINE word == m.body[1]
             t == [s EXCEPT !.at = word]
             o == A!Msg("OKAY", s.rem, s.loc, A!None)
  <1>1. /\ m \in AdbMessage /\ m \in Items(x4) /\ ShorterBy(x4, m, x4') /\ ModuleRead(m.cmd, m.to)
        /\ \A x \in Items(x4') : x \in Items(x4) /\ x \in AdbMessage
    BY HeadToModule
  <1>2. s \in x6 /\ s.rem = m.to /\ s.loc = m.from
    BY DEF A!StreamOf
  <1>3. /\ AdbTypes /\ s \in AdbStream /\ s.n \in Nat /\ s.rem \in Nat /\ x2.n \in Nat
        /\ x3.n \in Nat /\ x2.rem \in Nat /\ (x2 # A!NoCall => x2.n = x3.n + 1)
        /\ (x2 = A!NoCall <=> x2.at = "none")
    <2>1. AdbTypes
      BY DEF AdbInv
    <2> QED  BY <1>2, <2>1, AdbFacts
  <1>4. ModuleRead("WRTE", s.rem)
    BY <1>1, <1>2
  <1>5. m.body[2] = s.n /\ (AtStream => \A z \in x6 : z.n = x2.n => z = s)
    BY <1>2, <1>4, HeadReaches
  <1>6. word \in AdbKinds \cup {"", "SEND", "DATA", "DONE", "RECV", "OKAY", "FAIL", "status"}
    BY <1>1 DEF AdbMessage, AdbBody
  <1>7. m.body = <<word, s.n>>
    BY <1>1, <1>5, BodyPair
  <1>8. /\ o \in AdbMessage /\ o.cmd = "OKAY" /\ o.from = s.rem /\ o.to = s.loc
        /\ Grown(x5, x5 \o <<o>>, {o}) /\ A!To(s, "OKAY", A!None) = <<o>>
    <2>1. "OKAY" \in OfStream /\ A!None \in AdbBody /\ o = A!Msg("OKAY", s.rem, s.loc, A!None)
      BY NoneMade DEF OfStream
    <2>2. A!To(s, "OKAY", A!None) = <<o>>
      BY DEF A!To
    <2> HIDE DEF o, word, t
    <2>3. o \in AdbMessage /\ o.cmd = "OKAY" /\ o.from = s.rem /\ o.to = s.loc
      <3>1. s.rem \in Nat /\ s.loc \in Nat
        BY <1>2, <1>3, AdbFacts
      <3> QED  BY <2>1, <3>1, MessageMade
    <2>4. Grown(x5, x5 \o <<o>>, {o})
      BY <1>2, <2>1, ToMade
    <2> QED  BY <2>2, <2>3, <2>4
  <1>9. A!TakesRecord(s, word)
    OBVIOUS
  <1> HIDE DEF word, o
  <1>10. /\ x6' = (x6 \ {s}) \cup {t} /\ x5' = x5 \o <<o>>
         /\ word = "SEND" => x8' = <<s.n, "part">>
         /\ word = "DATA" /\ x8 = <<s.n, "part">> => x8' = <<s.n, "whole">>
         /\ ~(word = "SEND" \/ (word = "DATA" /\ x8 = <<s.n, "part">>)) => x8' = x8
    BY <1>8, <1>9 DEF A!TakesRecord, A!Reply
  <1>11. /\ t \in AdbStream /\ t.rem = s.rem /\ t.loc = s.loc /\ t.n = s.n /\ t.kind = s.kind
         /\ t.at = word /\ t.ready = s.ready
    BY <1>3, <1>6 DEF AdbStream
  <1> HIDE DEF t
  <1>12. word # "run"
    BY <1>6 DEF AdbKinds
  <1>13. x8' \in Nat \X {"none", "part", "whole"}
    <2>1. x8 \in Nat \X {"none", "part", "whole"}
      BY <1>3 DEF AdbTypes
    <2>2. <<s.n, "part">> \in Nat \X {"none", "part", "whole"}
      BY <1>3
    <2>3. <<s.n, "whole">> \in Nat \X {"none", "part", "whole"}
      BY <1>3
    <2> QED  BY <1>10, <2>1, <2>2, <2>3
  <1>14. ~(x2.at = "open" /\ s.n = x2.n)
    <2>1. SUFFICES ASSUME x2.at = "open", s.n = x2.n  PROVE FALSE
      OBVIOUS
    <2>2. x2.n = x3.n + 1
      BY <1>3, <2>1
    <2> QED  BY <1>1, <1>3, <1>5, <2>1, <2>2 DEF AdbInv, Numbered
  <1>15. ModuleStep(s, {t}, {o})
    <2>1. \A u \in {t} : u = t
      OBVIOUS
    <2>2. \A u \in {o} : u = o
      OBVIOUS
    <2>3. o.cmd \in OfStream /\ o.cmd # "WRTE" /\ m.cmd \in OfStream
      BY <1>8 DEF OfStream
    <2> QED  BY <1>2, <1>4, <1>8, <1>10, <1>11, <1>12, <1>13, <1>14, <2>1, <2>2, <2>3 DEF ModuleStep
  <1>16. ASSUME NEW n \in Nat, FileStays(n)  PROVE FileStays(n)'
    <2>1. word = "RECV"
      BY <1>1, <1>16 DEF FileStays, word
    <2>2. x8' = x8
      BY <1>10, <2>1
    <2>3. \A u \in x6' : u \in x6 \/ u.at = "RECV"
      BY <1>10, <1>11, <2>1
    <2> QED  BY <1>1, <1>16, <2>2, <2>3 DEF FileStays
  <1>17. ASSUME s.rem = x2.rem, s.n = x2.n, x2.at \in {"write", "reply"}, PullOurs(s)
         PROVE  PullOurs(t)'
    <2>1. m.body = <<"RECV", x2.n>> /\ s.at = "run"
      BY <1>1, <1>2, <1>17 DEF PullOurs
    <2>2. word = "RECV"
      <3>1. <<"RECV", x2.n>>[1] = "RECV"
        OBVIOUS
      <3> QED  BY <2>1, <3>1 DEF word
    <2>3. x2.kind = "pull" /\ x2.got = <<>> /\ NoneOf(x5, From("WRTE", x2.rem))
      BY <1>17, <2>1 DEF PullOurs
    <2>4. NoneOf(x4', Towards("WRTE", x2.rem))
      <3>1. Once(x4, Towards("WRTE", x2.rem))
        BY <1>3 DEF AdbInv, OneRecord
      <3> QED  BY <1>4, <1>15, <1>17, <3>1, StepFacts
    <2>5. \A x \in Items(x4') : ~(x.cmd = "WRTE" /\ x.to = x2.rem)
      BY <1>1, <2>4, MessageSets DEF NoneOf
    <2>6. NoneOf(x5', From("WRTE", x2.rem))
      <3>1. \A x \in Items(x5') : x \in Items(x5) \/ x = o
        BY <1>15, StepFacts
      <3> QED  BY <1>8, <2>3, <3>1, MessageSets DEF NoneOf
    <2>7. \A x \in Items(x5') : ~(x.cmd = "WRTE" /\ x.from = x2.rem)
      <3>1. \A x \in Items(x5') : x \in AdbMessage
        BY <1>15, StepFacts
      <3> QED  BY <2>6, <3>1, MessageSets DEF NoneOf
    <2> QED  BY <1>11, <2>2, <2>3, <2>5, <2>6, <2>7 DEF PullOurs
  <1>18. ASSUME s.rem = x2.rem, s.n = x2.n, x2.at \in {"write", "reply"}, PushOurs(s)
         PROVE  PushOurs(t)'
    <2>1. /\ m.body = <<PushRecord(x2.record), x2.n>> /\ (s.ready => s.at = PushBefore(x2.record))
          /\ x2.kind = "push"
      BY <1>1, <1>2, <1>18 DEF PushOurs
    <2>2. word = PushRecord(x2.record)
      <3>1. <<PushRecord(x2.record), x2.n>>[1] = PushRecord(x2.record)
        OBVIOUS
      <3> QED  BY <2>1, <3>1 DEF word
    <2>3. x2.record \in 1..3
      <3>1. x2 \in AdbCall
        BY <1>3 DEF AdbTypes
      <3> QED  BY <3>1 DEF AdbCall
    <2>4. NoneOf(x4', Towards("WRTE", x2.rem))
      <3>1. Once(x4, Towards("WRTE", x2.rem))
        BY <1>3 DEF AdbInv, OneRecord
      <3> QED  BY <1>4, <1>15, <1>18, <3>1, StepFacts
    <2>5. \A x \in Items(x4') : ~(x.cmd = "WRTE" /\ x.to = x2.rem)
      BY <1>1, <2>4, MessageSets DEF NoneOf
    <2>6. \A x \in Items(x5') : ~(x.cmd = "WRTE" /\ x.from = x2.rem /\ x.body[1] = "OKAY")
      <3>1. \A x \in Items(x5') : x \in Items(x5) \/ x = o
        BY <1>15, StepFacts
      <3>2. m \in Towards("WRTE", x2.rem)
        BY <1>1, <1>2, <1>18, MessageSets
      <3>3. ~NoneOf(x4, Towards("WRTE", x2.rem))
        BY <1>1, <3>2 DEF NoneOf
      <3> QED  BY <1>8, <1>18, <3>1, <3>3 DEF PushOurs
    <2>7. NoneOf(x4', Towards("OKAY", x2.rem))
      BY <1>1, <1>18 DEF PushOurs, NoneOf
    <2>8. /\ s.ready /\ s.at = "SEND" => x8 = <<x2.n, "part">>
          /\ s.ready /\ s.at \in {"DATA", "DONE"} => x8 = <<x2.n, "whole">>
      BY <1>18 DEF PushOurs
    <2>9. /\ t.ready /\ t.at = "SEND" => x8' = <<x2.n, "part">>
          /\ t.ready /\ t.at \in {"DATA", "DONE"} => x8' = <<x2.n, "whole">>
          /\ t.at = "DONE" => x2.record = 3
      <3>1. CASE x2.record = 1
        <4>1. word = "SEND"
          BY <2>2, <3>1 DEF PushRecord
        <4> QED  BY <1>10, <1>11, <1>18, <4>1
      <3>2. CASE x2.record = 2
        <4>1. word = "DATA" /\ PushBefore(x2.record) = "SEND"
          BY <2>2, <3>2 DEF PushRecord, PushBefore
        <4>2. t.ready => x8 = <<s.n, "part">>
          BY <1>11, <1>18, <2>1, <2>8, <4>1
        <4> QED  BY <1>10, <1>11, <1>18, <4>1, <4>2
      <3>3. CASE x2.record = 3
        <4>1. word = "DONE" /\ PushBefore(x2.record) = "DATA"
          BY <2>2, <3>3 DEF PushRecord, PushBefore
        <4>2. t.ready => x8 = <<s.n, "whole">>
          BY <1>11, <1>18, <2>1, <2>8, <4>1
        <4> QED  BY <1>10, <1>11, <1>18, <3>3, <4>1, <4>2
      <3> QED  BY <2>3, <3>1, <3>2, <3>3
    <2>10. t.at = PushRecord(x2.record)
      BY <1>11, <2>2
    <2> QED  BY <2>1, <2>4, <2>5, <2>6, <2>7, <2>9, <2>10 DEF PushOurs
  <1>19. \A z \in x6 : z.n = x2.n /\ z # s /\ AtStream => x8' = x8 \/ x8[1] # x2.n
    BY <1>5
  <1> QED  BY <1>15, <1>16, <1>17, <1>18, <1>19, ModuleKeeps

\* An OKAY makes its stream ready for the next record.
LEMMA ReadyKeeps ==
  ASSUME AdbInv, x4 # <<>>, x4' = Tail(x4), NEW m, m = Head(x4), m.cmd = "OKAY",
         UNCHANGED <<x1, x2, x3, x5, x7, x8>>, NEW s \in A!StreamOf(m),
         x6' = (x6 \ {s}) \cup {[s EXCEPT !.ready = TRUE]}
  PROVE  AdbInv'
  <1> DEFINE yes == TRUE
             t == [s EXCEPT !.ready = yes]
  <1>1. /\ m \in AdbMessage /\ m \in Items(x4) /\ ShorterBy(x4, m, x4') /\ ModuleRead(m.cmd, m.to)
        /\ \A x \in Items(x4') : x \in Items(x4) /\ x \in AdbMessage
    BY HeadToModule
  <1>2. s \in x6 /\ s.rem = m.to /\ s.loc = m.from
    BY DEF A!StreamOf
  <1>3. AdbTypes /\ s \in AdbStream /\ x5 \in Seq(AdbMessage)
    BY <1>2, AdbFacts DEF AdbInv
  <1>4. ModuleRead("OKAY", s.rem)
    BY <1>1, <1>2
  <1>5. x6' = (x6 \ {s}) \cup {t} /\ yes \in BOOLEAN /\ yes
    OBVIOUS
  <1> HIDE DEF yes
  <1>6. /\ t \in AdbStream /\ t.rem = s.rem /\ t.loc = s.loc /\ t.n = s.n /\ t.kind = s.kind
        /\ t.at = s.at /\ t.ready
    BY <1>3, <1>5 DEF AdbStream
  <1> HIDE DEF t
  <1>7. Grown(x5, x5', {})
    BY <1>3, GrownBy
  <1>8. x2.at = "open" /\ x2.kind # "shell" /\ s.n = x2.n => s.at = "run"
    BY <1>2 DEF AdbInv, OwnStreamStays
  <1>9. ModuleStep(s, {t}, {})
    <2>1. m.cmd \in OfStream
      BY DEF OfStream
    <2>2. x8' \in Nat \X {"none", "part", "whole"}
      BY <1>3 DEF AdbTypes
    <2>3. \A u \in {t} : u = t
      OBVIOUS
    <2> QED  BY <1>2, <1>4, <1>5, <1>6, <1>7, <1>8, <2>1, <2>2, <2>3 DEF ModuleStep
  <1>10. ASSUME NEW n \in Nat, FileStays(n)  PROVE FileStays(n)'
    <2>1. \A u \in x6' : u \in x6 \/ (u.n = s.n /\ u.at = s.at)
      BY <1>5, <1>6
    <2> QED  BY <1>1, <1>2, <1>10, <2>1 DEF FileStays
  <1>11. ASSUME s.rem = x2.rem, PushOurs(s)  PROVE FALSE
    <2>1. m \in Towards("OKAY", x2.rem)
      BY <1>1, <1>2, <1>11, MessageSets
    <2> QED  BY <1>1, <1>11, <2>1 DEF PushOurs, NoneOf
  <1>12. ASSUME s.rem = x2.rem, PullOurs(s)  PROVE PullOurs(t)'
    <2>1. m \in Towards("OKAY", x2.rem)
      BY <1>1, <1>2, <1>12, MessageSets
    <2>2. ~NoneOf(x4, Towards("OKAY", x2.rem))
      BY <1>1, <2>1 DEF NoneOf
    <2> QED  BY <1>1, <1>6, <1>12, <2>2 DEF PullOurs
  <1>13. \A z \in x6 : z.n = x2.n /\ z # s /\ AtStream => x8' = x8 \/ x8[1] # x2.n
    OBVIOUS
  <1> QED  BY <1>9, <1>10, <1>11, <1>12, <1>13, ModuleKeeps

\* A stream ends, at a CLSE or by itself.
LEMMA GoneKeeps ==
  ASSUME AdbInv, NEW s \in x6, UNCHANGED <<x1, x2, x3, x7>>, x6' = x6 \ {s},
         x5' = x5 \o A!To(s, "CLSE", A!None),
         \/ x4' = x4 /\ s.kind = "shell"
         \/ x4 # <<>> /\ x4' = Tail(x4) /\ ModuleRead("CLSE", s.rem),
         A!Unlinked(s) \/ x8' = x8
  PROVE  AdbInv'
  <1> DEFINE o == A!Msg("CLSE", s.rem, s.loc, A!None)
  <1>1. AdbTypes
    BY DEF AdbInv
  <1>2. /\ o \in AdbMessage /\ o.cmd = "CLSE" /\ o.from = s.rem /\ o.to = s.loc
        /\ Grown(x5, x5 \o <<o>>, {o}) /\ A!To(s, "CLSE", A!None) = <<o>>
    <2>1. "CLSE" \in OfStream /\ A!None \in AdbBody /\ o = A!Msg("CLSE", s.rem, s.loc, A!None)
      BY NoneMade DEF OfStream
    <2>2. A!To(s, "CLSE", A!None) = <<o>>
      BY DEF A!To
    <2> HIDE DEF o
    <2>3. o \in AdbMessage /\ o.cmd = "CLSE" /\ o.from = s.rem /\ o.to = s.loc
      <3>1. s.rem \in Nat /\ s.loc \in Nat
        BY <1>1, AdbFacts DEF AdbInv
      <3> QED  BY <2>1, <3>1, MessageMade
    <2>4. Grown(x5, x5 \o <<o>>, {o})
      BY <2>1, ToMade
    <2> QED  BY <2>2, <2>3, <2>4
  <1> HIDE DEF o
  <1>3. x5' = x5 \o <<o>>
    BY <1>2
  <1>4. /\ x8' = x8 \/ (x8[1] = s.n /\ s.at \in {"SEND", "DATA"})
        /\ x8' \in Nat \X {"none", "part", "whole"}
    <2>1. x8' = x8 \/ (x8' = <<0, "none">> /\ x8[1] = s.n /\ s.at \in {"SEND", "DATA"})
      BY DEF A!Unlinked
    <2>2. x8 \in Nat \X {"none", "part", "whole"}
      BY <1>1 DEF AdbTypes
    <2>3. <<0, "none">> \in Nat \X {"none", "part", "whole"}
      OBVIOUS
    <2> QED  BY <2>1, <2>2, <2>3
  <1>5. x4' = x4 \/ (x4 # <<>> /\ x4' = Tail(x4) /\ Head(x4).cmd \in OfStream)
    BY DEF ModuleRead, OfStream
  <1>6. ModuleStep(s, {}, {o})
    <2>1. \A u \in {o} : u = o
      OBVIOUS
    <2>2. o.cmd \in OfStream /\ o.cmd # "OKAY" /\ o.cmd # "WRTE"
      BY <1>2 DEF OfStream
    <2>3. x6' = (x6 \ {s}) \cup {}
      OBVIOUS
    <2> QED  BY <1>2, <1>3, <1>4, <1>5, <2>1, <2>2, <2>3 DEF ModuleStep
  <1>7. ASSUME NEW n \in Nat, FileStays(n)  PROVE FileStays(n)'
    <2>1. x8 = <<n, "whole">> /\ (s.n = n => s.at \notin {"SEND", "DATA"})
      BY <1>7 DEF FileStays
    <2>2. x8[1] = n
      BY <2>1
    <2>3. x8' = x8
      BY <1>4, <2>1, <2>2
    <2>4. \A x \in Items(x4') : x \in Items(x4)
      BY <1>6, StepFacts
    <2> QED  BY <1>7, <2>3, <2>4 DEF FileStays
  <1>8. ASSUME s.rem = x2.rem, s.n = x2.n, x2.at \in {"write", "reply"}, PullOurs(s) \/ PushOurs(s)
        PROVE FALSE
    <2>1. s.kind # "shell"
      BY <1>8 DEF AdbInv, StreamsApart, AtStream, PullOurs, PushOurs
    <2>2. ModuleRead("CLSE", s.rem) /\ NoneOf(x4, Towards("CLSE", s.rem))
      BY <1>8, <2>1 DEF AdbInv, OwnStreamStays
    <2>3. Head(x4) \in Items(x4) /\ Head(x4) \in Towards("CLSE", s.rem)
      BY <1>6, <2>2, StepFacts
    <2> QED  BY <2>2, <2>3 DEF NoneOf
  <1>9. \A z \in x6 : z.n = x2.n /\ z # s /\ AtStream => x8' = x8 \/ x8[1] # x2.n
    BY <1>4 DEF AdbInv, StreamsApart
  <1> QED  BY <1>6, <1>7, <1>8, <1>9, ModuleKeeps

\* A stream says something of its call.
LEMMA SaysKeeps ==
  ASSUME AdbInv, NEW s \in x6, NEW word, NEW now, UNCHANGED <<x1, x2, x3, x4, x7>>,
         A!Says(s, <<word, s.n>>, now),
         \/ s.kind = "shell" /\ s.at = "run" /\ word = "status" /\ now = "said" /\ x8' = x8
         \/ s.kind = "push" /\ s.at = "DONE" /\ word = "OKAY" /\ now = "said" /\ x8' = x8
         \/ s.kind = "push" /\ s.at \in {"SEND", "DATA"} /\ word = "FAIL" /\ now = "said" /\ A!Unlinked(s)
         \/ s.kind = "pull" /\ s.at = "RECV" /\ word = "status" /\ now = "sent" /\ x8' = x8
         \/ s.kind = "pull" /\ s.at = "sent" /\ word = "DONE" /\ now = "said" /\ x8' = x8
         \/ s.kind = "pull" /\ s.at = "RECV" /\ word = "FAIL" /\ now = "said" /\ x8' = x8
  PROVE  AdbInv'
  <1> DEFINE no == FALSE
             t == [s EXCEPT !.at = now, !.ready = no]
             b == <<word, s.n>>
             o == A!Msg("WRTE", s.rem, s.loc, b)
  <1>1. /\ AdbTypes /\ s \in AdbStream /\ s.n \in Nat /\ s.rem \in Nat /\ s.loc \in Nat
        /\ x5 \in Seq(AdbMessage) /\ x4 \in Seq(AdbMessage) /\ x2.n \in Nat
    <2>1. AdbTypes
      BY DEF AdbInv
    <2> QED  BY <2>1, AdbFacts
  <1>2. word \in {"status", "OKAY", "FAIL", "DONE"} /\ now \in {"said", "sent"}
    OBVIOUS
  <1>3. b \in AdbBody /\ b[1] = word /\ b[2] = s.n
    <2>1. b \in AdbBody
      BY <1>1, <1>2, BodyMade
    <2> QED  BY <2>1
  <1>4. A!Says(s, b, now) /\ b = <<word, s.n>>
    OBVIOUS
  <1> HIDE DEF b
  <1>5. o = A!Msg("WRTE", s.rem, s.loc, b)
    OBVIOUS
  <1>6. s.ready /\ x6' = (x6 \ {s}) \cup {t} /\ x5' = x5 \o <<o>>
    BY <1>4 DEF A!Says, A!Reply, A!To
  <1>7. no \in BOOLEAN /\ ~no
    OBVIOUS
  <1> HIDE DEF o, no
  <1>8. /\ o \in AdbMessage /\ o.cmd = "WRTE" /\ o.from = s.rem /\ o.to = s.loc /\ o.body = b
    <2>1. "WRTE" \in {"CNXN", "OPEN", "WRTE", "OKAY", "CLSE", "torn"}
      OBVIOUS
    <2>2. s.rem \in Nat /\ s.loc \in Nat /\ b \in AdbBody
      BY <1>1, <1>3, <1>5
    <2>3. o = A!Msg("WRTE", s.rem, s.loc, b)
      BY <1>1, <1>3, <1>5
    <2> QED  BY ONLY <2>1, <2>2, <2>3, MessageMade
  <1>9. Grown(x5, x5', {o})
    BY <1>1, <1>6, <1>8, GrownBy
  <1>10. /\ t \in AdbStream /\ t.rem = s.rem /\ t.loc = s.loc /\ t.n = s.n /\ t.kind = s.kind
         /\ t.at = now /\ ~t.ready
    BY <1>1, <1>2, <1>7 DEF AdbStream
  <1> HIDE DEF t
  <1>11. /\ x8' = x8 \/ (x8[1] = s.n /\ s.at \in {"SEND", "DATA"})
         /\ x8' \in Nat \X {"none", "part", "whole"}
    <2>1. x8' = x8 \/ (x8' = <<0, "none">> /\ x8[1] = s.n /\ s.at \in {"SEND", "DATA"})
      BY DEF A!Unlinked
    <2>2. x8 \in Nat \X {"none", "part", "whole"}
      BY <1>1 DEF AdbTypes
    <2>3. <<0, "none">> \in Nat \X {"none", "part", "whole"}
      OBVIOUS
    <2> QED  BY <2>1, <2>2, <2>3
  <1>12. ModuleStep(s, {t}, {o})
    <2>1. \A u \in {t} : u = t
      OBVIOUS
    <2>2. \A u \in {o} : u = o
      OBVIOUS
    <2>3. o.cmd \in OfStream /\ o.cmd # "OKAY"
      BY <1>8 DEF OfStream
    <2>4. s.kind = "shell" => s.at = "run" /\ o.body = StatusOf(s.n)
      BY <1>4, <1>8 DEF StatusOf
    <2>5. ~(x2.at = "open" /\ x2.kind # "shell" /\ s.n = x2.n)
      BY DEF AdbInv, OwnStreamStays, StreamsApart, AtStream
    <2>6. t.at # "run" /\ o.body[2] = s.n
      BY <1>2, <1>3, <1>8, <1>10
    <2> QED  BY <1>6, <1>8, <1>9, <1>10, <1>11, <2>1, <2>2, <2>3, <2>4, <2>5, <2>6 DEF ModuleStep
  <1>13. ASSUME NEW n \in Nat, FileStays(n)  PROVE FileStays(n)'
    <2>1. x8 = <<n, "whole">> /\ (s.n = n => s.at \notin {"SEND", "DATA"})
      BY <1>13 DEF FileStays
    <2>2. x8[1] = n
      BY <2>1
    <2>3. x8' = x8
      BY <1>11, <2>1, <2>2
    <2>4. \A u \in x6' : u \in x6 \/ u.at \in {"said", "sent"}
      BY <1>2, <1>6, <1>10
    <2> QED  BY <1>13, <2>3, <2>4 DEF FileStays
  <1>14. /\ NoneOf(x5, From("WRTE", s.rem)) /\ NoneOf(x4, Towards("OKAY", s.rem))
         /\ \A x \in Items(x5') : x.cmd = "WRTE" /\ x.from = s.rem => x = o
         /\ \A x \in Items(x5') : x \in AdbMessage /\ (x \in Items(x5) \/ x = o)
    <2>1. NoneOf(x5, From("WRTE", s.rem)) /\ NoneOf(x4, Towards("OKAY", s.rem))
      BY <1>1, <1>6 DEF AdbInv, OneAnswer
    <2>2. \A x \in Items(x5') : x \in AdbMessage /\ (x \in Items(x5) \/ x = o)
      BY <1>12, StepFacts
    <2> QED  BY <2>1, <2>2, MessageSets DEF NoneOf
  <1>15. ASSUME s.rem = x2.rem, s.n = x2.n, x2.at \in {"write", "reply"}, PullOurs(s)
         PROVE  PullOurs(t)'
    <2>1. s.kind = "pull" /\ s.at \in {"RECV", "sent"} /\ x2.kind = "pull"
      BY <1>15 DEF PullOurs, AdbInv, StreamsApart, AtStream
    <2>2. \A x \in Items(x4) : ~(x.cmd = "WRTE" /\ x.to = x2.rem)
      BY <1>15, <2>1 DEF PullOurs
    <2>3. /\ s.at = "RECV" => x2.got = <<>>
          /\ s.at = "sent" => x2.got = <<StatusOf(x2.n)>>
      BY <1>6, <1>15 DEF PullOurs
    <2>4. \/ o.body = StatusOf(x2.n) /\ x2.got = <<>> /\ t.at = "sent"
          \/ o.body = <<"DONE", x2.n>> /\ x2.got = <<StatusOf(x2.n)>> /\ t.at = "said"
          \/ o.body = <<"FAIL", x2.n>> /\ t.at = "said"
      BY <1>4, <1>8, <1>10, <1>15, <2>1, <2>3 DEF StatusOf
    <2>5. NoneOf(x4, Towards("OKAY", x2.rem))
      BY <1>14, <1>15
    <2>6. \A x \in Items(x5') : x.cmd = "WRTE" /\ x.from = x2.rem => x = o
      BY <1>14, <1>15
    <2>7. t.at \in {"sent", "said"} /\ ~t.ready
      BY <1>2, <1>10
    <2> QED  BY <2>1, <2>2, <2>4, <2>5, <2>6, <2>7 DEF PullOurs
  <1>16. ASSUME s.rem = x2.rem, s.n = x2.n, x2.at \in {"write", "reply"}, PushOurs(s)
         PROVE  PushOurs(t)'
    <2>1. s.kind = "push" /\ x2.kind = "push" /\ now = "said" /\ (word = "OKAY" => s.at = "DONE" /\ x8' = x8)
      BY <1>16 DEF PushOurs, AdbInv, StreamsApart, AtStream
    <2>2. \A x \in Items(x4) : x.cmd = "WRTE" /\ x.to = x2.rem => x.body = <<PushRecord(x2.record), x2.n>>
      BY <1>16 DEF PushOurs
    <2>3. word = "OKAY" => /\ x8' = <<x2.n, "whole">> /\ x2.record = 3
                           /\ NoneOf(x4, Towards("WRTE", x2.rem))
      BY <1>6, <1>16, <2>1 DEF PushOurs
    <2>4. \A x \in Items(x5') : x.cmd = "WRTE" /\ x.from = x2.rem => x.body[1] = word
      BY <1>3, <1>8, <1>14, <1>16
    <2>5. NoneOf(x4, Towards("OKAY", x2.rem)) /\ t.at = "said" /\ ~t.ready
      BY <1>10, <1>14, <1>16, <2>1
    <2>6. x2' = x2 /\ x4' = x4
      OBVIOUS
    <2>7. \A x \in Items(x5') : x.cmd = "WRTE" /\ x.from = x2.rem /\ x.body[1] = "OKAY" =>
             /\ x8' = <<x2.n, "whole">> /\ t.at = "said" /\ x2.record = 3
             /\ NoneOf(x4, Towards("WRTE", x2.rem))
      BY <2>3, <2>4, <2>5
    <2> QED  BY <2>1, <2>2, <2>5, <2>6, <2>7 DEF PushOurs
  <1>17. \A z \in x6 : z.n = x2.n /\ z # s /\ AtStream => x8' = x8 \/ x8[1] # x2.n
    BY <1>11 DEF AdbInv, StreamsApart
  <1> QED  BY <1>12, <1>13, <1>15, <1>16, <1>17, ModuleKeeps

\* A message to a stream that is gone.
LEMMA IgnoredKeeps ==
  ASSUME AdbInv, x4 # <<>>, x4' = Tail(x4), NEW m, m = Head(x4), m.cmd \in OfStream,
         UNCHANGED <<x1, x2, x3, x5, x6, x7, x8>>
  PROVE  AdbInv'
  <1> DEFINE s == [rem |-> x7, loc |-> 0, n |-> 0, kind |-> "shell", at |-> "run", ready |-> 0]
  <1>1. AdbTypes /\ x5 \in Seq(AdbMessage) /\ x7 \in Nat /\ \A u \in x6 : u.rem \in Nat
    BY AdbFacts DEF AdbInv
  <1>2. s \notin x6
    <2>1. s.rem = x7
      OBVIOUS
    <2> HIDE DEF s
    <2> QED  BY <1>1, <2>1 DEF AdbInv, Numbered
  <1> HIDE DEF s
  <1>3. x6' = (x6 \ {s}) \cup {}
    BY <1>2
  <1>4. ModuleStep(s, {}, {})
    <2>1. x8' \in Nat \X {"none", "part", "whole"} /\ Grown(x5, x5', {})
      BY <1>1, GrownBy DEF AdbTypes
    <2> QED  BY <1>3, <2>1 DEF ModuleStep
  <1>5. ASSUME NEW n \in Nat, FileStays(n)  PROVE FileStays(n)'
    <2>1. \A x \in Items(x4') : x \in Items(x4)
      BY <1>4, StepFacts
    <2> QED  BY <1>5, <2>1 DEF FileStays
  <1>6. \A z \in x6 : z.n = x2.n /\ z # s /\ AtStream => x8' = x8 \/ x8[1] # x2.n
    OBVIOUS
  <1> QED  BY <1>2, <1>4, <1>5, <1>6, ModuleKeeps

\* adbd at a CNXN: its streams are gone.
LEMMA CnxnKeeps ==
  ASSUME AdbInv, x4 # <<>>, x4' = Tail(x4), NEW m, m = Head(x4), m.cmd = "CNXN",
         UNCHANGED <<x1, x2, x3, x7, x8>>, x6' = {},
         NEW c, c = A!Msg("CNXN", 1, 4096, A!None), x5' = x5 \o <<c>>
  PROVE  AdbInv'
  <1>1. /\ m \in AdbMessage /\ m \in Items(x4) /\ ShorterBy(x4, m, x4') /\ x4' \in Seq(AdbMessage)
        /\ \A x \in Items(x4') : x \in Items(x4) /\ x \in AdbMessage
    BY HeadToModule
  <1>2. AdbTypes /\ x5 \in Seq(AdbMessage) /\ x4 \in Seq(AdbMessage)
    BY AdbFacts DEF AdbInv
  <1>3. c \in AdbMessage /\ c.cmd = "CNXN"
    <2>1. "CNXN" \in {"CNXN", "OPEN", "WRTE", "OKAY", "CLSE", "torn"}
      OBVIOUS
    <2>2. A!None \in AdbBody
      BY NoneMade, Zenon
    <2>3. 1 \in Nat /\ 4096 \in Nat
      OBVIOUS
    <2>4. c = A!Msg("CNXN", 1, 4096, A!None)
      OBVIOUS
    <2> QED  BY ONLY <2>1, <2>2, <2>3, <2>4, MessageMade
  <1>4. Grown(x5, x5', {c})
    <2>1. \A q \in Seq(AdbMessage), x \in AdbMessage : Grown(q, q \o <<x>>, {x})
      BY GrownBy, Zenon
    <2>2. x5' = x5 \o <<c>>
      OBVIOUS
    <2> QED  BY ONLY <1>2, <1>3, <2>1, <2>2
  <1>5. /\ x5' \in Seq(AdbMessage) /\ \A x \in Items(x5') : x \in AdbMessage
        /\ \A x \in Items(x5') : x \in Items(x5) \/ x = c
    <2>1. x5' \in Seq(AdbMessage) /\ \A x \in Items(x5') : x \in Items(x5) \/ x = c
      BY <1>4 DEF Grown
    <2> QED  BY <2>1, ItemsTyped
  <1>6. AtStream' <=> AtStream
    BY DEF AtStream
  <1>7. \A K : NoneOf(x4, K) => NoneOf(x4', K)
    BY <1>1 DEF NoneOf
  <1>8. \A K : (Once(x4, K) => Once(x4', K)) /\ \A x \in Behind(x4', K) : x \in Behind(x4, K)
    BY <1>1 DEF ShorterBy
  <1>9. \A K : c \notin K /\ Once(x5, K) => Once(x5', K)
    BY <1>4 DEF Grown
  <1>10. \A K : c \notin K /\ NoneOf(x5, K) => NoneOf(x5', K)
    BY <1>5 DEF NoneOf
  <1>11. \A r : c \notin From("OKAY", r) /\ c \notin From("WRTE", r)
    BY <1>3, MessageSets
  <1>12. AdbTypes'
    BY <1>1, <1>2, <1>5 DEF AdbTypes
  <1>13. Numbered'
    BY <1>1, <1>3, <1>5, <1>6 DEF AdbInv, Numbered, OfStream
  <1>14. StreamsApart'
    BY <1>1, <1>6, <1>8 DEF AdbInv, StreamsApart
  <1>15. OneRecord' /\ OneAnswer'
    BY <1>7, <1>8, <1>9, <1>10, <1>11 DEF AdbInv, OneRecord, OneAnswer
  <1>16. OldStreamsEnd'
    BY <1>6, <1>8 DEF AdbInv, OldStreamsEnd
  <1>17. RecordsReach' /\ OwnStreamStays'
    BY <1>6, <1>8 DEF AdbInv, RecordsReach, OwnStreamStays
  <1>18. StreamsSpeak'
    BY <1>3, <1>5 DEF AdbInv, StreamsSpeak
  <1>19. StreamHeld'
    <2>1. \A x \in Items(x5') : x.cmd = "WRTE" => x \in Items(x5)
      BY <1>3, <1>5
    <2>2. CASE Foreign
      <3>1. Foreign'
        BY <1>1, <1>10, <1>11, <2>1, <2>2 DEF Foreign
      <3> QED  BY <3>1 DEF StreamHeld
    <2>3. CASE ShellOurs
      <3>1. ShellOurs'
        BY <2>1, <2>3 DEF ShellOurs
      <3> QED  BY <3>1 DEF StreamHeld
    <2>4. ASSUME AtStream, NEW z \in x6, z.n = x2.n  PROVE FALSE
      <3>1. NoneOf(x4, OpensOf(x2.n)) /\ Len(x4) \in Nat
        BY <1>2, <2>4 DEF AdbInv, StreamsApart
      <3>2. m \in Behind(x4, OpensOf(x2.n))
        BY <1>1, <3>1, AllBehind
      <3> QED  BY <2>4, <3>2 DEF AdbInv, RecordsReach
    <2>5. AtStream \/ x2.at \notin {"write", "reply"}
      BY DEF AtStream
    <2> QED  BY <2>2, <2>3, <2>4, <2>5 DEF AdbInv, StreamHeld
  <1>20. ToldRightly'
    <2>1. \A n \in Nat : FileStays(n) => FileStays(n)'
      BY <1>1 DEF FileStays
    <2>2. x2.n \in Nat /\ x3.n \in Nat
      BY <1>2, AdbFacts
    <2>3. FileStays(x2.n) => FileStays(x2.n)'
      BY <2>1, <2>2
    <2>4. FileStays(x3.n) => FileStays(x3.n)'
      BY <2>1, <2>2
    <2> QED  BY <2>3, <2>4 DEF AdbInv, ToldRightly
  <1> QED  BY <1>12, <1>13, <1>14, <1>15, <1>16, <1>17, <1>18, <1>19, <1>20 DEF AdbInv

\* adbd at an OPEN.
LEMMA OpensKeeps ==
  ASSUME AdbInv, x4 # <<>>, x4' = Tail(x4), NEW m, m = Head(x4), m.cmd = "OPEN",
         UNCHANGED <<x1, x2, x3, x8>>, x7' = x7 + 1, NEW s, x6' = x6 \cup {s},
         NEW yes \in BOOLEAN, yes,
         s = [rem |-> x7, loc |-> m.from, n |-> m.body[2], kind |-> m.body[1],
              at |-> "run", ready |-> yes],
         NEW o, o = A!Msg("OKAY", s.rem, s.loc, A!None), x5' = x5 \o <<o>>
  PROVE  AdbInv'
  <1>1. /\ m \in AdbMessage /\ m \in Items(x4) /\ ShorterBy(x4, m, x4') /\ x4' \in Seq(AdbMessage)
        /\ m.from \in Nat /\ m.body[2] \in Nat
        /\ \A x \in Items(x4') : x \in Items(x4) /\ x \in AdbMessage
    BY HeadToModule
  <1>2. /\ AdbTypes /\ x5 \in Seq(AdbMessage) /\ x4 \in Seq(AdbMessage) /\ x7 \in Nat
        /\ x2.rem \in Nat /\ x2.n \in Nat /\ x3.n \in Nat
        /\ \A u \in x6 : u.rem \in Nat /\ u.n \in Nat /\ u.loc \in Nat
        /\ \A x \in Items(x4) : x \in AdbMessage
        /\ \A x \in Items(x5) : x \in AdbMessage
    <2>1. AdbTypes
      BY DEF AdbInv
    <2> QED  BY <2>1, AdbFacts
  <1>3. m.body[1] \in AdbKinds
    BY <1>1 DEF AdbInv, StreamsApart
  <1>4. /\ s \in AdbStream /\ s.rem = x7 /\ s.loc = m.from /\ s.n = m.body[2]
        /\ s.kind = m.body[1] /\ s.at = "run" /\ s.ready
    <2>1. s \in AdbStream
      BY <1>1, <1>2, <1>3 DEF AdbStream
    <2> QED  BY <2>1
  <1>5. o \in AdbMessage /\ o.cmd = "OKAY" /\ o.from = x7 /\ o.to = m.from
    <2>1. /\ "OKAY" \in {"CNXN", "OPEN", "WRTE", "OKAY", "CLSE", "torn"} /\ A!None \in AdbBody
          /\ o = A!Msg("OKAY", x7, m.from, A!None)
      <3>1. o = A!Msg("OKAY", x7, m.from, A!None)
        BY <1>4
      <3>2. A!None \in AdbBody
        BY NoneMade, Zenon
      <3> QED  BY <3>1, <3>2
    <2>2. x7 \in Nat /\ m.from \in Nat
      BY <1>1, <1>2
    <2> QED  BY ONLY <2>1, <2>2, MessageMade
  <1>6. Grown(x5, x5', {o})
    BY <1>2, <1>5, GrownBy
  <1>7. /\ x5' \in Seq(AdbMessage) /\ \A x \in Items(x5') : x \in AdbMessage
        /\ \A x \in Items(x5') : x \in Items(x5) \/ x = o
    <2>1. x5' \in Seq(AdbMessage) /\ \A x \in Items(x5') : x \in Items(x5) \/ x = o
      BY <1>6 DEF Grown
    <2> QED  BY <2>1, ItemsTyped
  <1>8. AtStream' <=> AtStream
    BY DEF AtStream
  <1>9. \A K : NoneOf(x4, K) => NoneOf(x4', K)
    BY <1>1 DEF NoneOf
  <1>10. \A K : /\ Once(x4, K) => Once(x4', K) /\ (m \in K => NoneOf(x4', K))
                /\ \A x \in Behind(x4', K) : x \in Behind(x4, K)
                /\ m \notin K => \A x \in UpTo(x4', K) : x \in UpTo(x4, K)
                /\ m \notin K /\ NoneOf(x4', K) => NoneOf(x4, K) /\ m \in Behind(x4, K)
    BY <1>1 DEF ShorterBy, NoneOf
  <1>11. m \notin Connects /\ m \in OpensOf(m.body[2])
    BY <1>1, MessageSets
  <1>12. /\ \A x \in Items(x4) : x.cmd \in OfStream => x.to < x7
         /\ \A x \in Items(x5) : x.cmd \in OfStream => x.from < x7
         /\ \A u \in x6 : u.rem < x7
         /\ x2.rem < x7
    BY DEF AdbInv, Numbered
  <1>13. /\ \A x \in Items(x4) : x.cmd \in OfStream => x.to # x7
         /\ \A x \in Items(x5) : x.cmd \in OfStream => x.from # x7
         /\ \A u \in x6 : u.rem # x7
         /\ x2.rem # x7
    <2>1. \A i \in Nat : i < x7 => i # x7
      BY <1>2
    <2>2. \A x \in AdbMessage : x.to \in Nat /\ x.from \in Nat
      BY MessageSets
    <2> QED  BY ONLY <1>2, <1>12, <2>1, <2>2
  <1>14. \A u \in x6 : u.n # s.n
    <2>1. SUFFICES ASSUME NEW u \in x6, u.n = s.n  PROVE FALSE
      OBVIOUS
    <2>2. NoneOf(x4, OpensOf(u.n))
      BY DEF AdbInv, StreamsApart
    <2> QED  BY <1>1, <1>4, <1>11, <2>1, <2>2 DEF NoneOf
  <1>15. AdbTypes'
    <2>1. x6' \subseteq AdbStream
      BY <1>2, <1>4 DEF AdbTypes
    <2>2. x7' \in Nat \ {0}
      BY <1>2
    <2> QED  BY <1>1, <1>2, <1>7, <2>1, <2>2 DEF AdbTypes
  <1>16. Numbered'
    <2>1. /\ \A x \in Items(x4') : x.cmd \in OfStream => x.to < x7'
          /\ \A x \in Items(x5') : x.cmd \in OfStream => x.from < x7'
          /\ \A u \in x6' : u.rem < x7'
          /\ x2.rem < x7'
      <3>1. \A i \in Nat : i < x7 \/ i = x7 => i < x7'
        BY <1>2
      <3>2. \A x \in AdbMessage : x.to \in Nat /\ x.from \in Nat
        BY MessageSets
      <3>3. \A x \in Items(x4') : x.cmd \in OfStream => x.to < x7'
        BY <1>1, <1>12, <3>1, <3>2
      <3>4. \A x \in Items(x5') : x.cmd \in OfStream => x.from < x7'
        BY <1>5, <1>7, <1>12, <3>1, <3>2
      <3>5. \A u \in x6' : u.rem < x7'
        BY <1>2, <1>4, <1>12, <3>1
      <3>6. x2.rem < x7'
        BY <1>2, <1>12, <3>1
      <3> QED  BY <3>3, <3>4, <3>5, <3>6
    <2>2. s.n <= x3.n \/ (AtStream /\ s.n = x2.n)
      BY <1>1, <1>4 DEF AdbInv, Numbered
    <2>3. Numbered
      BY DEF AdbInv
    <2>4. x6' = x6 \cup {s} /\ x2' = x2 /\ x3' = x3
      OBVIOUS
    <2> QED  BY ONLY <1>1, <1>5, <1>7, <1>8, <2>1, <2>2, <2>3, <2>4 DEF Numbered
  <1>17. StreamsApart'
    <2>1. \A t, u \in x6' : t.rem = u.rem \/ t.n = u.n => t = u
      <3>1. \A t, u \in x6 : t.rem = u.rem \/ t.n = u.n => t = u
        BY DEF AdbInv, StreamsApart
      <3>2. \A t \in x6 : t.rem # s.rem /\ t.n # s.n
        BY <1>4, <1>13, <1>14
      <3>3. \A t \in x6' : t \in x6 \/ t = s
        OBVIOUS
      <3>4. ASSUME NEW t \in x6', NEW u \in x6', t.rem = u.rem \/ t.n = u.n  PROVE t = u
        <4>1. CASE t \in x6 /\ u \in x6
          BY <3>1, <3>4, <4>1
        <4>2. CASE t = s /\ u \in x6
          BY ONLY <3>2, <3>4, <4>2
        <4>3. CASE u = s /\ t \in x6
          BY ONLY <3>2, <3>4, <4>3
        <4> QED  BY <3>3, <4>1, <4>2, <4>3
      <3> QED  BY <3>4
    <2>2. \A t \in x6', x \in Items(x5') : x.cmd \in OfStream /\ x.from = t.rem => x.to = t.loc
      <3>1. \A t \in x6, x \in Items(x5) : x.cmd \in OfStream /\ x.from = t.rem => x.to = t.loc
        BY DEF AdbInv, StreamsApart
      <3>2. ASSUME NEW t \in x6', NEW x \in Items(x5'), x.cmd \in OfStream, x.from = t.rem
            PROVE  x.to = t.loc
        <4>1. t \in x6 \/ t = s
          OBVIOUS
        <4>2. x \in Items(x5) \/ x = o
          BY <1>7
        <4>3. CASE t \in x6 /\ x \in Items(x5)
          BY ONLY <3>1, <3>2, <4>3
        <4>4. CASE t = s /\ x \in Items(x5)
          BY ONLY <1>4, <1>13, <3>2, <4>4
        <4>5. CASE t \in x6 /\ x = o
          BY ONLY <1>5, <1>13, <3>2, <4>5
        <4>6. CASE t = s /\ x = o
          BY ONLY <1>4, <1>5, <4>6
        <4> QED  BY ONLY <4>1, <4>2, <4>3, <4>4, <4>5, <4>6
      <3> QED  BY <3>2
    <2>3. \A n \in Nat : Once(x4', OpensOf(n))
      BY <1>10 DEF AdbInv, StreamsApart
    <2>4. NoneOf(x4', OpensOf(s.n))
      <3>1. Once(x4, OpensOf(m.body[2]))
        BY <1>1 DEF AdbInv, StreamsApart
      <3> QED  BY <1>4, <1>10, <1>11, <3>1
    <2>5. \A t \in x6' : NoneOf(x4', OpensOf(t.n))
      BY <1>9, <2>4 DEF AdbInv, StreamsApart
    <2>6. AtStream => \A t \in x6' : t.n = x2.n => t.loc = x2.loc /\ t.kind = x2.kind
      <3>1. StreamsApart
        BY DEF AdbInv
      <3>2. x6' = x6 \cup {s}
        OBVIOUS
      <3>3. AtStream => \A t \in x6 : t.n = x2.n => t.loc = x2.loc /\ t.kind = x2.kind
        BY ONLY <3>1 DEF StreamsApart
      <3>4. AtStream /\ s.n = x2.n => s.loc = x2.loc /\ s.kind = x2.kind
        BY ONLY <1>1, <1>3, <1>4, m.cmd = "OPEN", <3>1 DEF StreamsApart
      <3> QED  BY ONLY <3>2, <3>3, <3>4
    <2>7. /\ AtStream => \A x \in Items(x4') : x.cmd = "OPEN" /\ x.body[2] = x2.n =>
                x.from = x2.loc /\ x.body[1] = x2.kind
          /\ \A x \in Items(x4') : x.cmd = "OPEN" => x.body[1] \in AdbKinds
      BY <1>1 DEF AdbInv, StreamsApart
    <2> QED  BY <1>8, <2>1, <2>2, <2>3, <2>5, <2>6, <2>7 DEF StreamsApart
  <1>18. \A r : /\ o \notin From("WRTE", r)
                /\ o \in From("OKAY", r) => r = x7
                /\ NoneOf(x5, From("WRTE", r)) => NoneOf(x5', From("WRTE", r))
    <2>1. \A r : o \notin From("WRTE", r) /\ (o \in From("OKAY", r) => r = x7)
      BY <1>5, MessageSets
    <2> QED  BY <1>7, <2>1 DEF NoneOf
  <1>19. /\ NoneOf(x5, From("OKAY", x7)) /\ NoneOf(x5, From("WRTE", x7))
         /\ NoneOf(x4, Towards("WRTE", x7)) /\ NoneOf(x4, Towards("OKAY", x7))
         /\ NoneOf(x4, Towards("CLSE", x7))
    <2>1. /\ \A x \in Items(x5) : x \notin From("OKAY", x7) /\ x \notin From("WRTE", x7)
          /\ \A x \in Items(x4) : x \notin Towards("WRTE", x7)
          /\ \A x \in Items(x4) : x \notin Towards("OKAY", x7)
          /\ \A x \in Items(x4) : x \notin Towards("CLSE", x7)
      BY ONLY <1>13 DEF From, Towards, OfStream
    <2> QED  BY ONLY <2>1 DEF NoneOf
  <1>20. OneRecord'
    <2>1. ASSUME NEW r \in Nat
          PROVE  /\ Once(x4', Towards("WRTE", r)) /\ Once(x5', From("OKAY", r))
                 /\ NoneOf(x4', Towards("WRTE", r)) \/ NoneOf(x5', From("OKAY", r))
      <3>1. /\ Once(x4, Towards("WRTE", r)) /\ Once(x5, From("OKAY", r))
            /\ NoneOf(x4, Towards("WRTE", r)) \/ NoneOf(x5, From("OKAY", r))
        BY <2>1 DEF AdbInv, OneRecord
      <3>2. Once(x5', From("OKAY", r))
        BY <1>6, <1>18, <1>19, <3>1 DEF Grown
      <3>3. r # x7 /\ NoneOf(x5, From("OKAY", r)) => NoneOf(x5', From("OKAY", r))
        BY <1>7, <1>18 DEF NoneOf
      <3> QED  BY <1>9, <1>10, <1>19, <3>1, <3>2, <3>3
    <2> QED  BY <2>1 DEF OneRecord
  <1>21. OneAnswer'
    <2>1. ASSUME NEW r \in Nat
          PROVE  /\ Once(x5', From("WRTE", r)) /\ Once(x4', Towards("OKAY", r))
                 /\ NoneOf(x5', From("WRTE", r)) \/ NoneOf(x4', Towards("OKAY", r))
                 /\ \A t \in x6' : t.rem = r /\ t.ready =>
                       NoneOf(x5', From("WRTE", r)) /\ NoneOf(x4', Towards("OKAY", r))
      <3>1. /\ Once(x5, From("WRTE", r)) /\ Once(x4, Towards("OKAY", r))
            /\ NoneOf(x5, From("WRTE", r)) \/ NoneOf(x4, Towards("OKAY", r))
            /\ \A t \in x6 : t.rem = r /\ t.ready =>
                  NoneOf(x5, From("WRTE", r)) /\ NoneOf(x4, Towards("OKAY", r))
        BY <2>1 DEF AdbInv, OneAnswer
      <3>2. Once(x5', From("WRTE", r))
        BY <1>6, <1>18, <3>1 DEF Grown
      <3>3. \A t \in x6' : t.rem = r /\ t.ready =>
               NoneOf(x5', From("WRTE", r)) /\ NoneOf(x4', Towards("OKAY", r))
        BY <1>4, <1>9, <1>18, <1>19, <3>1
      <3> QED  BY <1>9, <1>10, <1>18, <3>1, <3>2, <3>3
    <2> QED  BY <2>1 DEF OneAnswer
  <1>22. OldStreamsEnd'
    <2>1. /\ NoneOf(x4', Connects) => NoneOf(x4, Connects) /\ m \in Behind(x4, Connects)
          /\ \A x \in Behind(x4', Connects) : x \in Behind(x4, Connects)
      BY <1>10, <1>11
    <2>2. x2.at = "connect" =>
            /\ \A x \in Behind(x4', Connects) : x.cmd # "OPEN"
            /\ NoneOf(x4', Connects) => x6' = {}
      BY <2>1 DEF AdbInv, OldStreamsEnd
    <2>3. x1.connected =>
            /\ \A x \in Behind(x4', Connects) : x.cmd = "OPEN" => x.from < x1.next
            /\ NoneOf(x4', Connects) => \A t \in x6' : t.loc < x1.next
      BY <1>4, <2>1 DEF AdbInv, OldStreamsEnd
    <2>4. AtStream =>
            /\ \A x \in Behind(x4', Connects) : x.cmd = "OPEN" /\ x.from = x2.loc => x.body[2] = x2.n
            /\ NoneOf(x4', Connects) => \A t \in x6' : t.loc = x2.loc => t.n = x2.n
      BY <1>4, <2>1 DEF AdbInv, OldStreamsEnd
    <2> QED  BY <1>8, <2>2, <2>3, <2>4 DEF OldStreamsEnd
  <1>23. RecordsReach'
    <2>1. ASSUME NEW x \in UpTo(x4', Connects), NEW t \in x6', x.cmd = "WRTE", x.to = t.rem
          PROVE x.body[2] = t.n
      <3>1. x \in UpTo(x4, Connects) /\ x \in Items(x4)
        BY <1>2, <1>10, <1>11, ItemsTyped
      <3>2. t # s
        BY <1>4, <1>13, <2>1, <3>1 DEF OfStream
      <3> QED  BY <2>1, <3>1, <3>2 DEF AdbInv, RecordsReach
    <2>2. AtStream => \A x \in Behind(x4', OpensOf(x2.n)) :
            x.cmd \notin {"CNXN", "OPEN"} /\ (x.cmd = "WRTE" => x.body[2] = x2.n)
      BY <1>10 DEF AdbInv, RecordsReach
    <2> QED  BY <1>8, <2>1, <2>2 DEF RecordsReach
  <1>24. OwnStreamStays'
    BY <1>4, <1>9, <1>19 DEF AdbInv, OwnStreamStays
  <1>25. StreamsSpeak'
    <2>1. \A x \in Items(x5') : x.cmd = "WRTE" => x \in Items(x5) /\ x.from # x7
      BY <1>5, <1>7, <1>13 DEF OfStream
    <2> QED  BY <1>4, <2>1 DEF AdbInv, StreamsSpeak
  <1>26. StreamHeld'
    <2>1. /\ \A x \in Items(x5') : x.cmd = "WRTE" => x \in Items(x5)
          /\ \A t \in x6' : t.rem = x2.rem => t \in x6
          /\ NoneOf(x5, From("OKAY", x2.rem)) => NoneOf(x5', From("OKAY", x2.rem))
      <3>1. \A x \in Items(x5') : x.cmd = "WRTE" => x \in Items(x5)
        BY ONLY <1>5, <1>7
      <3>2. \A t \in x6' : t.rem = x2.rem => t \in x6
        BY <1>4, <1>13
      <3>3. o \notin From("OKAY", x2.rem)
        BY ONLY <1>13, <1>18
      <3>4. NoneOf(x5, From("OKAY", x2.rem)) => NoneOf(x5', From("OKAY", x2.rem))
        BY ONLY <1>7, <3>3 DEF NoneOf
      <3> QED  BY <3>1, <3>2, <3>4
    <2>2. CASE Foreign
      <3>1. Foreign'
        BY <1>1, <2>1, <2>2 DEF Foreign
      <3> QED  BY <3>1 DEF StreamHeld
    <2>3. CASE ShellOurs
      <3>1. ShellOurs'
        BY <1>18, <2>1, <2>3 DEF ShellOurs
      <3> QED  BY <3>1 DEF StreamHeld
    <2>4. ASSUME NEW z \in x6, z.rem = x2.rem, z.n = x2.n, PullOurs(z)  PROVE StreamHeld'
      <3>1. PullOurs(z)'
        BY <1>1, <1>9, <1>18, <2>1, <2>4 DEF PullOurs
      <3> QED  BY <2>4, <3>1 DEF StreamHeld
    <2>5. ASSUME NEW z \in x6, z.rem = x2.rem, z.n = x2.n, PushOurs(z)  PROVE StreamHeld'
      <3>1. PushOurs(z)'
        BY <1>1, <1>9, <2>1, <2>5 DEF PushOurs
      <3> QED  BY <2>5, <3>1 DEF StreamHeld
    <2> QED  BY <2>2, <2>3, <2>4, <2>5 DEF AdbInv, StreamHeld
  <1>27. ToldRightly'
    <2>1. \A n \in Nat : FileStays(n) => FileStays(n)'
      BY <1>1, <1>4 DEF FileStays
    <2>3. FileStays(x2.n) => FileStays(x2.n)'
      BY <1>2, <2>1
    <2>4. FileStays(x3.n) => FileStays(x3.n)'
      BY <1>2, <2>1
    <2> QED  BY <2>3, <2>4 DEF AdbInv, ToldRightly
  <1> QED  BY <1>15, <1>16, <1>17, <1>20, <1>21, <1>22, <1>23, <1>24, <1>25, <1>26, <1>27 DEF AdbInv

LEMMA ModuleReadsKeeps == ASSUME AdbInv, A!ModuleReads  PROVE AdbInv'
  <1> DEFINE m == Head(x4)
  <1>1. x4 # <<>> /\ x4' = Tail(x4) /\ m = Head(x4) /\ UNCHANGED <<x1, x2, x3>>
    BY DEF A!ModuleReads
  <1>2. m \in AdbMessage /\ m.cmd # "torn"
    BY <1>1, HeadToModule
  <1>3. m.cmd \in {"CNXN", "OPEN"} \cup OfStream
    BY <1>2 DEF AdbMessage, OfStream
  <1>4. CASE m.cmd = "CNXN"
    <2> DEFINE c == A!Msg("CNXN", 1, 4096, A!None)
    <2>1. x6' = {} /\ x5' = x5 \o <<c>> /\ UNCHANGED <<x7, x8>>
      BY <1>4, Zenon DEF A!ModuleReads, A!Reply
    <2>2. c = A!Msg("CNXN", 1, 4096, A!None)
      OBVIOUS
    <2> HIDE DEF m, c
    <2> QED  BY <1>1, <1>4, <2>1, <2>2, CnxnKeeps
  <1>5. CASE m.cmd = "OPEN"
    <2> DEFINE yes == TRUE
               s == [rem |-> x7, loc |-> m.from, n |-> m.body[2], kind |-> m.body[1],
                     at |-> "run", ready |-> yes]
               o == A!Msg("OKAY", s.rem, s.loc, A!None)
    <2>1. x6' = x6 \cup {s} /\ x7' = x7 + 1 /\ x5' = x5 \o <<o>> /\ x8' = x8
      BY <1>5, Zenon DEF A!ModuleReads, A!Reply, A!To
    <2>2. yes \in BOOLEAN /\ yes
      OBVIOUS
    <2> HIDE DEF yes
    <2>3. s = [rem |-> x7, loc |-> m.from, n |-> m.body[2], kind |-> m.body[1],
               at |-> "run", ready |-> yes]
      OBVIOUS
    <2> HIDE DEF m, s
    <2>4. o = A!Msg("OKAY", s.rem, s.loc, A!None)
      OBVIOUS
    <2> HIDE DEF o
    <2> QED  BY <1>1, <1>5, <2>1, <2>2, <2>3, <2>4, OpensKeeps
  <1>6. CASE m.cmd \in OfStream /\ A!StreamOf(m) = {}
    <2>1. UNCHANGED <<x5, x6, x7, x8>>
      BY <1>6, Zenon DEF A!ModuleReads, OfStream
    <2> HIDE DEF m
    <2> QED  BY <1>1, <1>6, <2>1, IgnoredKeeps
  <1>7. CASE m.cmd = "WRTE" /\ A!StreamOf(m) # {}
    <2>1. PICK s \in A!StreamOf(m) : A!TakesRecord(s, m.body[1]) /\ x7' = x7
      BY <1>7, Zenon DEF A!ModuleReads
    <2> HIDE DEF m
    <2> QED  BY <1>1, <1>7, <2>1, TakesKeeps
  <1>8. CASE m.cmd = "OKAY" /\ A!StreamOf(m) # {}
    <2>1. PICK s \in A!StreamOf(m) :
             /\ x6' = (x6 \ {s}) \cup {[s EXCEPT !.ready = TRUE]}
             /\ UNCHANGED <<x5, x7, x8>>
      BY <1>8, Zenon DEF A!ModuleReads
    <2> HIDE DEF m
    <2> QED  BY <1>1, <1>8, <2>1, ReadyKeeps
  <1>9. CASE m.cmd = "CLSE" /\ A!StreamOf(m) # {}
    <2>1. PICK s \in A!StreamOf(m) :
             /\ x6' = x6 \ {s} /\ x5' = x5 \o A!To(s, "CLSE", A!None)
             /\ A!Unlinked(s) /\ x7' = x7
      BY <1>9, Zenon DEF A!ModuleReads, A!Reply
    <2>2. s \in x6 /\ s.rem = m.to
      BY DEF A!StreamOf
    <2>3. ModuleRead("CLSE", s.rem)
      BY <1>1, <1>9, <2>2 DEF ModuleRead
    <2> HIDE DEF m
    <2> QED  BY <1>1, <2>1, <2>2, <2>3, GoneKeeps
  <1> QED  BY <1>3, <1>4, <1>5, <1>6, <1>7, <1>8, <1>9 DEF OfStream

LEMMA ModuleRunsKeeps == ASSUME AdbInv, A!ModuleRuns  PROVE AdbInv'
  <1>1. /\ UNCHANGED <<x1, x2, x3, x4, x7>>
        /\ \E s \in x6 :
         \/ s.kind = "shell" /\ s.at = "run"
            /\ A!Says(s, <<"status", s.n>>, "said") /\ x8' = x8
         \/ s.kind = "shell" /\ A!Hangs(s)
         \/ s.kind = "push" /\ s.at = "DONE"
            /\ A!Says(s, <<"OKAY", s.n>>, "said") /\ x8' = x8
         \/ s.kind = "push" /\ s.at \in {"SEND", "DATA"}
            /\ A!Says(s, <<"FAIL", s.n>>, "said") /\ A!Unlinked(s)
         \/ s.kind = "pull" /\ s.at = "RECV"
            /\ A!Says(s, <<"status", s.n>>, "sent") /\ x8' = x8
         \/ s.kind = "pull" /\ s.at = "sent"
            /\ A!Says(s, <<"DONE", s.n>>, "said") /\ x8' = x8
         \/ s.kind = "pull" /\ s.at = "RECV"
            /\ A!Says(s, <<"FAIL", s.n>>, "said") /\ x8' = x8
    BY DEF A!ModuleRuns
  <1>2. PICK s \in x6 :
         \/ s.kind = "shell" /\ s.at = "run"
            /\ A!Says(s, <<"status", s.n>>, "said") /\ x8' = x8
         \/ s.kind = "shell" /\ A!Hangs(s)
         \/ s.kind = "push" /\ s.at = "DONE"
            /\ A!Says(s, <<"OKAY", s.n>>, "said") /\ x8' = x8
         \/ s.kind = "push" /\ s.at \in {"SEND", "DATA"}
            /\ A!Says(s, <<"FAIL", s.n>>, "said") /\ A!Unlinked(s)
         \/ s.kind = "pull" /\ s.at = "RECV"
            /\ A!Says(s, <<"status", s.n>>, "sent") /\ x8' = x8
         \/ s.kind = "pull" /\ s.at = "sent"
            /\ A!Says(s, <<"DONE", s.n>>, "said") /\ x8' = x8
         \/ s.kind = "pull" /\ s.at = "RECV"
            /\ A!Says(s, <<"FAIL", s.n>>, "said") /\ x8' = x8
    BY <1>1
  <1>3. CASE s.kind = "shell" /\ s.at = "run"
             /\ A!Says(s, <<"status", s.n>>, "said") /\ x8' = x8
    BY <1>1, <1>3, SaysKeeps
  <1>4. CASE s.kind = "shell" /\ A!Hangs(s)
    <2>1. x6' = x6 \ {s} /\ x5' = x5 \o A!To(s, "CLSE", A!None) /\ x8' = x8
      BY <1>4 DEF A!Hangs, A!Reply
    <2> QED  BY <1>1, <1>4, <2>1, GoneKeeps
  <1>5. CASE s.kind = "push" /\ s.at = "DONE"
             /\ A!Says(s, <<"OKAY", s.n>>, "said") /\ x8' = x8
    BY <1>1, <1>5, SaysKeeps
  <1>6. CASE s.kind = "push" /\ s.at \in {"SEND", "DATA"}
             /\ A!Says(s, <<"FAIL", s.n>>, "said") /\ A!Unlinked(s)
    BY <1>1, <1>6, SaysKeeps
  <1>7. CASE s.kind = "pull" /\ s.at = "RECV"
             /\ A!Says(s, <<"status", s.n>>, "sent") /\ x8' = x8
    BY <1>1, <1>7, SaysKeeps
  <1>8. CASE s.kind = "pull" /\ s.at = "sent"
             /\ A!Says(s, <<"DONE", s.n>>, "said") /\ x8' = x8
    BY <1>1, <1>8, SaysKeeps
  <1>9. CASE s.kind = "pull" /\ s.at = "RECV"
             /\ A!Says(s, <<"FAIL", s.n>>, "said") /\ x8' = x8
    BY <1>1, <1>9, SaysKeeps
  <1> QED  BY <1>2, <1>3, <1>4, <1>5, <1>6, <1>7, <1>8, <1>9

LEMMA AdbNext == ASSUME AdbInv, A!Next  PROVE AdbInv'
  <1>1. ASSUME NEW kind \in {"shell", "push", "pull"}, A!Begin(kind)  PROVE AdbInv'
    <2>1. kind \in AdbKinds
      BY DEF AdbKinds
    <2> QED  BY <1>1, <2>1, AdbBegins
  <1>2. CASE A!Reopen \/ A!Receive \/ A!TimesOut \/ A!WriteFails
    BY <1>2, AdbReopens, AdbReceives, AdbTimesOut, AdbWriteFails
  <1>3. CASE A!ModuleReads \/ A!ModuleRuns
    BY <1>3, ModuleReadsKeeps, ModuleRunsKeeps
  <1> QED  BY <1>1, <1>2, <1>3 DEF A!Next

LEMMA AdbInit == ASSUME A!Init  PROVE AdbInv
  <1>1. Items(<<>>) = {} /\ \A K : /\ Behind(<<>>, K) = {} /\ UpTo(<<>>, K) = {}
                                   /\ Once(<<>>, K) /\ NoneOf(<<>>, K)
    <2>1. Len(<<>>) = 0
      OBVIOUS
    <2>2. 1..Len(<<>>) = {}
      BY <2>1
    <2> QED  BY <2>2 DEF Items, Behind, UpTo, Once, NoneOf
  <1> DEFINE no == FALSE
  <1>2. /\ x1 = [number |-> 1, connected |-> no, next |-> 1] /\ x2 = A!NoCall /\ x3 = A!NoCall
        /\ x4 = <<>> /\ x5 = <<>> /\ x6 = {} /\ x7 = 1 /\ x8 = <<0, "none">>
        /\ ~no /\ no \in BOOLEAN
    BY DEF A!Init
  <1> HIDE DEF no
  <1>3. /\ A!NoCall \in AdbCall /\ A!NoCall.n = 0 /\ A!NoCall.at = "none" /\ A!NoCall.kind = "none"
        /\ A!NoCall.got = <<>> /\ A!NoCall.rem = 0 /\ A!NoCall.record = 1 /\ ~A!NoCall.ok
    BY DEF A!NoCall, AdbCall
  <1>4. 1 \in 1..MaxClients /\ 0 <= MaxCalls
    BY AdbNat, CallersAssumption
  <1>5. x2.at = "none" /\ ~AtStream /\ ~x1.connected /\ ~x3.ok /\ x2.kind = "none"
    BY <1>2, <1>3 DEF AtStream
  <1>6. AdbTypes
    <2>1. x1 \in [number : 1..MaxClients, connected : BOOLEAN, next : Nat]
      BY <1>2, <1>4
    <2>2. x2 \in AdbCall /\ x3 \in AdbCall /\ x2 = A!NoCall /\ x3.n <= MaxCalls
      BY <1>2, <1>3, <1>4
    <2>3. x4 \in Seq(AdbMessage) /\ x5 \in Seq(AdbMessage)
      BY <1>2
    <2>4. x6 \subseteq AdbStream /\ x7 \in Nat \ {0} /\ x8 \in Nat \X {"none", "part", "whole"}
      BY <1>2
    <2>5. x2.got = <<>> /\ x2.rem = 0 /\ x2.record = 1 /\ x2.at # "write"
      BY <1>2, <1>3
    <2> QED  BY <2>1, <2>2, <2>3, <2>4, <2>5 DEF AdbTypes
  <1>7. Numbered
    <2>1. x2.rem < x7
      BY <1>2, <1>3
    <2> QED  BY <1>1, <1>2, <2>1 DEF Numbered
  <1>8. StreamsApart /\ OneRecord /\ OneAnswer
    BY <1>1, <1>2 DEF StreamsApart, OneRecord, OneAnswer
  <1>9. OldStreamsEnd /\ RecordsReach
    BY <1>1, <1>2, <1>5 DEF OldStreamsEnd, RecordsReach
  <1>10. OwnStreamStays /\ StreamsSpeak
    BY <1>1, <1>2, <1>5 DEF OwnStreamStays, StreamsSpeak
  <1>11. StreamHeld /\ ToldRightly
    BY <1>5 DEF StreamHeld, ToldRightly
  <1> QED  BY <1>6, <1>7, <1>8, <1>9, <1>10, <1>11 DEF AdbInv

LEMMA AdbTyped == ASSUME AdbInv  PROVE A!TypeOK /\ A!ToldIsDone
  <1>1. AdbTypes /\ Numbered /\ ToldRightly
    BY DEF AdbInv
  <1>2. x1 \in [number : 1..MaxClients, connected : BOOLEAN, next : Nat] /\ x2 \in AdbCall
    BY <1>1 DEF AdbTypes
  <1>3. x2.n \in 0..MaxCalls
    <2>1. x2 = A!NoCall => x2.n = 0
      BY DEF A!NoCall
    <2>2. x2 = A!NoCall \/ x2.n <= MaxCalls
      BY <1>1 DEF AdbTypes
    <2>3. x2.n \in Nat
      BY <1>2 DEF AdbCall
    <2> QED  BY <2>1, <2>2, <2>3, AdbNat
  <1>4. x2.at \in {"none", "connect", "open", "write", "reply", "close"}
    BY <1>2 DEF AdbCall
  <1>5. A!TypeOK
    BY <1>1, <1>2, <1>3, <1>4 DEF A!TypeOK, Numbered
  <1>6. A!ToldIsDone
    BY <1>1 DEF A!ToldIsDone, ToldRightly, StatusOf, FileStays
  <1> QED  BY <1>5, <1>6
-----------------------------------------------------------------------------
(* The property of the sum *)

LEMMA PartsStutter ==
  ASSUME UNCHANGED everything
  PROVE  UNCHANGED <<part, x1, x2, x3, x4, x5, x6, x7, x8, x9, x10, x11, x12, x13, x14,
                     x15, x16>>
  BY DEF everything, after0, after5, after6, after8, after10, after11, after12, after14

AnswersInv ==
    /\ part = "ussd" => UssdInv
    /\ part = "dial" => DialInv
    /\ part = "mbim" => MbimInv
    /\ part = "adb" => AdbInv
    /\ part = "send" => SendInv

LEMMA AnswersStutter ==
  ASSUME UNCHANGED everything
  PROVE  /\ UssdInv' = UssdInv /\ DialInv' = DialInv /\ MbimInv' = MbimInv
         /\ AdbInv' = AdbInv /\ SendInv' = SendInv
  <1>1. /\ UssdTypes' = UssdTypes /\ UssdCounted' = UssdCounted
        /\ ReleaseIsLast' = ReleaseIsLast /\ AnsweredOnce' = AnsweredOnce
    BY PartsStutter DEF UssdTypes, UssdCounted, Sent, ReleaseIsLast, AnsweredOnce
  <1>2. AnswersExpected' = AnswersExpected
    BY PartsStutter DEF AnswersExpected, AnswersAhead, ComesFrom
  <1>3. DialInv' = DialInv
    BY PartsStutter DEF DialInv, DialsApart, T!TypeOK
  <1>4. MbimTypes' = MbimTypes /\ TransactionsKept' = TransactionsKept
    BY PartsStutter DEF MbimTypes, D!TypeOK, TransactionsKept
  <1>5. WritersApart' = WritersApart /\ InOnePiece' = InOnePiece
    BY PartsStutter DEF WritersApart, InOnePiece
  <1>6. AdbTypes' = AdbTypes /\ Numbered' = Numbered /\ StreamsApart' = StreamsApart
    BY PartsStutter DEF AdbTypes, Numbered, StreamsApart, AtStream
  <1>7. OneRecord' = OneRecord /\ OneAnswer' = OneAnswer
    BY PartsStutter DEF OneRecord, OneAnswer
  <1>8. /\ OldStreamsEnd' = OldStreamsEnd /\ RecordsReach' = RecordsReach
        /\ OwnStreamStays' = OwnStreamStays /\ StreamsSpeak' = StreamsSpeak
    BY PartsStutter DEF OldStreamsEnd, RecordsReach, OwnStreamStays, StreamsSpeak, AtStream
  <1>9. Foreign' = Foreign /\ ShellOurs' = ShellOurs
    BY PartsStutter DEF Foreign, ShellOurs
  <1>10. \A s : PullOurs(s)' = PullOurs(s) /\ PushOurs(s)' = PushOurs(s)
    BY PartsStutter DEF PullOurs, PushOurs
  <1>11. StreamHeld' = StreamHeld
    BY <1>9, <1>10, PartsStutter DEF StreamHeld
  <1>12. ToldRightly' = ToldRightly
    BY PartsStutter DEF ToldRightly, FileStays
  <1>13. SendTypes' = SendTypes /\ CountsAccepted' = CountsAccepted
    BY PartsStutter DEF SendTypes, V!TypeOK, CountsAccepted, Own
  <1>14. /\ ModeExchange' = ModeExchange /\ PromptExchange' = PromptExchange
         /\ AnswerExchange' = AnswerExchange
    BY PartsStutter DEF ModeExchange, PromptExchange, AnswerExchange, CountedBefore
  <1>15. ExchangeAlone' = ExchangeAlone
    BY <1>14, PartsStutter DEF ExchangeAlone, Own, CountedBefore
  <1>16. PdusFollow' = PdusFollow
    BY PartsStutter DEF PdusFollow, PdusIn
  <1>17. UssdInv' = UssdInv /\ MbimInv' = MbimInv
    BY <1>1, <1>2, <1>4, <1>5 DEF UssdInv, MbimInv
  <1>18. AdbInv' = AdbInv
    BY <1>6, <1>7, <1>8, <1>11, <1>12 DEF AdbInv
  <1>19. SendInv' = SendInv
    BY <1>13, <1>15, <1>16 DEF SendInv
  <1> QED  BY <1>3, <1>17, <1>18, <1>19

\* Whatever is lost, late, torn or left in a pipe or a channel by a command before,
\* each transport tells a caller only what is of its own request; but for what the
\* modules of USSD and of text messages name: UssdSession, ATUssd, MbimDevice,
\* AdbClient and SmsSending.
THEOREM AnswersOwn == PartsSpec => []AnswersAreOwn
  <1>1. PartsInit => AnswersInv
    <2>1. SUFFICES ASSUME PartsInit  PROVE AnswersInv
      OBVIOUS
    <2>2. /\ part = "ussd" => U!Init
          /\ part = "dial" => T!Init
      BY <2>1 DEF PartsInit
    <2>3. /\ part = "mbim" => D!Init
          /\ part = "adb" => A!Init
      BY <2>1 DEF PartsInit
    <2>4. part = "send" => V!Init
      BY <2>1 DEF PartsInit
    <2> QED  BY <2>2, <2>3, <2>4, UssdInit, DialInit, MbimInit, AdbInit, SendInit
             DEF AnswersInv
  <1>2. AnswersInv /\ [PartsNext]_everything => AnswersInv'
    <2>1. SUFFICES ASSUME AnswersInv, [PartsNext]_everything  PROVE AnswersInv'
      OBVIOUS
    <2>2. CASE PartsNext
      <3>1. part' = part
        BY <2>2 DEF PartsNext
      <3>2. /\ part = "ussd" => U!Next
            /\ part = "dial" => T!Next
        BY <2>2 DEF PartsNext
      <3>3. /\ part = "mbim" => D!Next
            /\ part = "adb" => A!Next
        BY <2>2 DEF PartsNext
      <3>4. part = "send" => V!Next
        BY <2>2 DEF PartsNext
      <3>5. part = "ussd" => UssdInv'
        BY <2>1, <3>2, UssdNext DEF AnswersInv
      <3>6. part = "dial" => DialInv'
        BY <2>1, <3>2, DialNext DEF AnswersInv
      <3>7. part = "mbim" => MbimInv'
        BY <2>1, <3>3, MbimNext DEF AnswersInv
      <3>8. part = "adb" => AdbInv'
        BY <2>1, <3>3, AdbNext DEF AnswersInv
      <3>9. part = "send" => SendInv'
        BY <2>1, <3>4, SendNext DEF AnswersInv
      <3> QED  BY <3>1, <3>5, <3>6, <3>7, <3>8, <3>9 DEF AnswersInv
    <2>3. CASE UNCHANGED everything
      BY <2>1, <2>3, PartsStutter, AnswersStutter DEF AnswersInv
    <2> QED  BY <2>1, <2>2, <2>3
  <1>3. AnswersInv => AnswersAreOwn
    <2>1. SUFFICES ASSUME AnswersInv  PROVE AnswersAreOwn
      OBVIOUS
    <2>2. /\ part = "ussd" => U!TypeOK /\ U!AnswersAreOwn
          /\ part = "dial" => T!TypeOK /\ T!AnswersAreOwn
          /\ part = "mbim" => D!TypeOK /\ D!AnswersAreOwn
      BY <2>1, UssdTyped, DialTyped, MbimTyped DEF AnswersInv
    <2>3. /\ part = "adb" => A!TypeOK /\ A!ToldIsDone
          /\ part = "send" => V!TypeOK /\ V!SentIsAccepted
      BY <2>1, AdbTyped, SendTyped DEF AnswersInv
    <2> QED  BY <2>2, <2>3 DEF AnswersAreOwn
  <1> QED  BY <1>1, <1>2, <1>3, PTL DEF PartsSpec
=============================================================================
