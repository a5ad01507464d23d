------------------------------ MODULE MbimDevice ------------------------------
(* Device of pkg/mbim/device.go: commands of several goroutines over one      *)
(* control endpoint.  A command registers its transaction, writes its         *)
(* fragments under writeMu and waits in its channel or for its context; the   *)
(* read loop puts the fragments of answers and indications together, one      *)
(* collector per transaction, and hands each answer to the channel registered *)
(* for it.  The modem, and a transport that may lose a message or end, are    *)
(* external.                                                                  *)

EXTENDS Sequences, FiniteSets, Naturals

CONSTANTS
    Callers,      \* the goroutines that use the device
    MaxCommands,  \* bound: transactions
    MaxLost,      \* bound: messages the transport loses
    Room          \* cap(d.indications), 16 in the code

VARIABLES
    nextTx, writer,     \* writeMu: its holder
    at, tx, sent,       \* of a caller: where it is, its transaction, its
                        \* fragments written
    pending,            \* transactions registered
    box,                \* the channel of a transaction
    got,                \* what a caller's last command returned
    reading, collector, indications, closed,
    toModem, fromModem, \* the two directions of the transport
    taken,              \* the modem: the transaction it assembles and how far
    lost

mbimVars == <<nextTx, writer, at, tx, sent, pending, box, got, reading, collector,
              indications, closed, toModem, fromModem, taken, lost>>

None == "nobody"
Fragments == 2      \* of a command and of an answer: a first and a last
Txs == 1..MaxCommands
Indication == 0     \* the transaction of an indication
Fragment(t, i) == [tx |-> t, i |-> i]
NoCollector == <<>>
Error == <<"error">>

Init ==
    /\ nextTx = 0 /\ writer = None
    /\ at = [c \in Callers |-> "idle"] /\ tx = [c \in Callers |-> 0]
    /\ sent = [c \in Callers |-> 0]
    /\ pending = {} /\ box = [t \in Txs |-> <<>>]
    /\ got = [c \in Callers |-> <<>>]
    /\ reading = TRUE /\ collector = [t \in {Indication} \cup Txs |-> NoCollector]
    /\ indications = 0 /\ closed = FALSE
    /\ toModem = <<>> /\ fromModem = <<>> /\ taken = <<0, 0>> /\ lost = 0

Goes(c, where) == at' = [at EXCEPT ![c] = where]
-----------------------------------------------------------------------------
\* Command: allocTx and registerPending.
Begin(c) ==
    /\ at[c] = "idle" /\ nextTx < MaxCommands
    /\ nextTx' = nextTx + 1
    /\ tx' = [tx EXCEPT ![c] = nextTx + 1] /\ sent' = [sent EXCEPT ![c] = 0]
    /\ pending' = pending \cup {nextTx + 1}
    /\ got' = [got EXCEPT ![c] = <<>>]
    /\ Goes(c, "lock")
    /\ UNCHANGED <<writer, box, reading, collector, indications, closed, toModem,
                   fromModem, taken, lost>>

Lock(c) ==
    /\ at[c] = "lock" /\ writer = None
    /\ writer' = c /\ Goes(c, "write")
    /\ UNCHANGED <<nextTx, tx, sent, pending, box, got, reading, collector,
                   indications, closed, toModem, fromModem, taken, lost>>

WriteFragment(c) ==
    /\ at[c] = "write" /\ ~closed /\ sent[c] < Fragments
    /\ sent' = [sent EXCEPT ![c] = @ + 1]
    /\ toModem' = Append(toModem, Fragment(tx[c], sent[c]))
    /\ IF sent[c] + 1 = Fragments THEN writer' = None /\ Goes(c, "wait")
       ELSE UNCHANGED <<writer, at>>
    /\ UNCHANGED <<nextTx, tx, pending, box, got, reading, collector, indications,
                   closed, fromModem, taken, lost>>

\* A write fails, at the latest once the transport is closed.
WriteFails(c) ==
    /\ at[c] = "write"
    /\ writer' = None /\ Goes(c, "idle")
    /\ pending' = pending \ {tx[c]}
    /\ got' = [got EXCEPT ![c] = Error]
    /\ UNCHANGED <<nextTx, tx, sent, box, reading, collector, indications, closed,
                   toModem, fromModem, taken, lost>>

Takes(c) ==
    /\ at[c] = "wait" /\ box[tx[c]] # <<>>
    /\ got' = [got EXCEPT ![c] = Head(box[tx[c]])]
    /\ box' = [box EXCEPT ![tx[c]] = Tail(@)]
    /\ Goes(c, "idle")
    /\ UNCHANGED <<nextTx, writer, tx, sent, pending, reading, collector,
                   indications, closed, toModem, fromModem, taken, lost>>

\* ctx.Done may win although an answer is in the channel.
ContextEnds(c) ==
    /\ at[c] = "wait"
    /\ pending' = pending \ {tx[c]}
    /\ got' = [got EXCEPT ![c] = Error]
    /\ Goes(c, "idle")
    /\ UNCHANGED <<nextTx, writer, tx, sent, box, reading, collector, indications,
                   closed, toModem, fromModem, taken, lost>>

\* Close: idempotent; it waits for the writer.
Close ==
    /\ ~closed /\ writer = None
    /\ closed' = TRUE
    /\ UNCHANGED <<nextTx, writer, at, tx, sent, pending, box, got, reading, collector,
                   indications, toModem, fromModem, taken, lost>>

-----------------------------------------------------------------------------
\* collector.add: the next fragment of its message, or an error that leaves the
\* collector as it was.
Adds(c, i) == i = Len(c)

\* deliver: the channel is taken out of the map before it is written to.
Deliver(t, result) ==
    /\ pending' = pending \ {t}
    /\ box' = IF t \in pending THEN [box EXCEPT ![t] = Append(@, result)] ELSE box

Drop == UNCHANGED <<collector, pending, box, indications>>

\* readLoop takes one message: handleCommandDoneFragment or
\* handleIndicationFragment.
Read ==
    /\ reading /\ fromModem # <<>>
    /\ fromModem' = Tail(fromModem)
    /\ LET m == Head(fromModem)
           c == collector[m.tx]
       IN  IF ~Adds(c, m.i) THEN Drop
           ELSE IF Len(c) + 1 < Fragments
           THEN /\ collector' = [collector EXCEPT ![m.tx] = Append(@, m)]
                /\ UNCHANGED <<pending, box, indications>>
           ELSE /\ collector' = [collector EXCEPT ![m.tx] = NoCollector]
                /\ IF m.tx = Indication
                   THEN /\ indications' = IF indications < Room THEN indications + 1
                                          ELSE indications
                        /\ UNCHANGED <<pending, box>>
                   ELSE Deliver(m.tx, Append(c, m)) /\ UNCHANGED indications
    /\ UNCHANGED <<nextTx, writer, at, tx, sent, got, reading, closed, toModem, taken, lost>>

\* ReadMessage fails and the loop ends: failPending.
ReadFails ==
    /\ reading /\ reading' = FALSE
    /\ box' = [t \in Txs |-> IF t \in pending THEN Append(box[t], Error) ELSE box[t]]
    /\ pending' = {}
    /\ collector' = [t \in DOMAIN collector |-> NoCollector]
    /\ UNCHANGED <<nextTx, writer, at, tx, sent, got, indications, closed, toModem,
                   fromModem, taken, lost>>

TakeIndication ==
    /\ indications > 0 /\ indications' = indications - 1
    /\ UNCHANGED <<nextTx, writer, at, tx, sent, pending, box, got, reading, collector,
                   closed, toModem, fromModem, taken, lost>>

-----------------------------------------------------------------------------
\* The modem (external): it answers a command whose fragments it gets in a row
\* and drops any other.
ModemReads ==
    /\ toModem # <<>>
    /\ toModem' = Tail(toModem)
    /\ LET m == Head(toModem)
       IN  taken' = IF m.i = 0 THEN <<m.tx, 1>>
                    ELSE IF taken = <<m.tx, m.i>> THEN <<m.tx, m.i + 1>> ELSE <<0, 0>>
    /\ fromModem' = IF taken'[2] = Fragments
                    THEN fromModem \o <<Fragment(taken'[1], 0), Fragment(taken'[1], 1)>>
                    ELSE fromModem
    /\ UNCHANGED <<nextTx, writer, at, tx, sent, pending, box, got, reading, collector,
                   indications, closed, lost>>

ModemIndicates ==
    /\ fromModem = <<>>
    /\ fromModem' = <<Fragment(Indication, 0), Fragment(Indication, 1)>>
    /\ UNCHANGED <<nextTx, writer, at, tx, sent, pending, box, got, reading, collector,
                   indications, closed, toModem, taken, lost>>

Lose ==
    /\ lost < MaxLost /\ fromModem # <<>>
    /\ lost' = lost + 1 /\ fromModem' = Tail(fromModem)
    /\ UNCHANGED <<nextTx, writer, at, tx, sent, pending, box, got, reading, collector,
                   indications, closed, toModem, taken>>

Next ==
    \/ \E c \in Callers : \/ Begin(c) \/ Lock(c) \/ WriteFragment(c) \/ WriteFails(c)
                          \/ Takes(c) \/ ContextEnds(c)
    \/ Close \/ Read \/ ReadFails \/ TakeIndication
    \/ ModemReads \/ ModemIndicates \/ Lose

MbimSpec == Init /\ [][Next]_mbimVars

TypeOK ==
    /\ nextTx \in 0..MaxCommands /\ writer \in Callers \cup {None}
    /\ at \in [Callers -> {"idle", "lock", "write", "wait"}]
    /\ pending \subseteq Txs /\ indications \in 0..Room

\* A command that returns an answer returns the whole answer to itself, its
\* fragments in their order, although several commands, indications, contexts
\* that end and lost messages cross; the channel of a transaction never holds
\* more than its one place, so the read loop is never held up by a caller that
\* has gone; and a modem that answers commands it gets in one piece finds every
\* command in one piece, unless its write failed.
AnswersAreOwn ==
    /\ \A c \in Callers : got[c] \in
          {<<>>, Error, <<Fragment(tx[c], 0), Fragment(tx[c], 1)>>}
    /\ \A t \in Txs : Len(box[t]) <= 1
    /\ \A i \in 1..Len(toModem) - 1 : toModem[i].i = 0 /\ toModem[i + 1].i = 1
                                        => toModem[i].tx = toModem[i + 1].tx
=============================================================================
