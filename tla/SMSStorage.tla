----------------------------- MODULE SMSStorage -----------------------------
(* Short messages from the module's storages to the list of the program:     *)
(* internal/modem/manager.go starts a goroutine for every +CMTI, which reads *)
(* the indicated cell and deletes it, and sweeps the selected storage with   *)
(* CheckAllSMS; pkg/smscodec/reassembler.go joins the parts of long          *)
(* messages.  The engine of ATEngine runs the commands of all of them one at *)
(* a time, so that here a command is one step; it succeeds, or it fails      *)
(* after the module acted on it, or before.                                  *)
EXTENDS Integers, Sequences, FiniteSets, SequencesExt

CONSTANTS
    Message, Total,     \* the messages, and the number of parts of each
    Storage, Index,     \* what +CMTI names, and AT+CPMS selects
    Home,               \* the storage that is selected at first
    Sweep,              \* bound: the calls of CheckAllSMS
    NoPdu, NoStorage

ASSUME TotalAssumption == Total \in [Message -> Nat \ {0}]
ASSUME PlacesAssumption == Home \in Storage /\ Index # {}

\* The messages have senders or references of their own: see the README.
Pdu == UNION {[msg : {m}, seq : 1..Total[m]] : m \in Message}
ASSUME NamesAssumption ==
    NoStorage \notin Storage /\ NoPdu \notin Pdu /\ Sweep \cap Pdu = {}

\* A +CMTI goroutine is known by the part whose arrival it was told of.
Call == Pdu \cup Sweep

VARIABLES
    cell,       \* cell[s][i]: what the module keeps at index i of storage s
    selected,   \* the storage that AT+CMGR, AT+CMGL and AT+CMGD work on
    pc,         \* pc[c]: the next command or step of call c
    at,         \* at[p]: where +CMTI said that p is
    previous,   \* previous[p]: the storage to restore
    hand,       \* hand[c]: the parts that c read and did not decode yet
    cache,      \* cache[m]: sequence numbers of the parts of m that wait
    told,       \* the messages given to recordSMS
    decoded, expired,   \* history: parts decoded, messages Cleanup dropped
    overlapped, failed  \* history: calls that ran beside another; whether a
                        \* command ever failed
modem == <<cell, selected>>
joining == <<cache, told, decoded, expired>>
vars == <<modem, pc, at, previous, hand, joining, overlapped, failed>>

Running == {c \in Call : pc[c] \notin {"idle", "done"}}
Cells == Storage \X Index
Stored == {cell[s][i] : s \in Storage, i \in Index} \ {NoPdu}

Nowhere == [storage |-> Home, index |-> CHOOSE i \in Index : TRUE]

\* Parts that arrived while the engine was down have no notification.
Init ==
    /\ \E early \in {q \in [Cells -> Pdu \cup {NoPdu}] :
                       \A x, y \in Cells : q[x] = q[y] => x = y \/ q[x] = NoPdu} :
         cell = [s \in Storage |-> [i \in Index |-> early[s, i]]]
    /\ selected = Home
    /\ pc = [c \in Call |-> "idle"]
    /\ at = [p \in Pdu |-> Nowhere]
    /\ previous = [p \in Pdu |-> NoStorage]
    /\ hand = [c \in Call |-> {}]
    /\ cache = [m \in Message |-> <<>>]
    /\ told = {}
    /\ decoded = {} /\ expired = {}
    /\ overlapped = {} /\ failed = FALSE

Begin(c, step) ==
    /\ pc[c] = "idle"
    /\ pc' = [pc EXCEPT ![c] = step]
    /\ overlapped' = IF Running = {} THEN overlapped
                     ELSE overlapped \cup Running \cup {c}

-----------------------------------------------------------------------------
(* Commands to the module *)

\* A command that fails may have had its effect before the error or timeout.
Outcome(ok) == failed' = (failed \/ ~ok)

\* AT+CPMS="s","s","s"
Select(s, ok) == selected' = s \/ (~ok /\ selected' = selected)

\* AT+CMGD: the cells "where" of the selected storage
Erase(where, ok) ==
    \/ cell' = [cell EXCEPT ![selected] =
                   [i \in Index |-> IF i \in where THEN NoPdu ELSE @[i]]]
    \/ ~ok /\ cell' = cell

-----------------------------------------------------------------------------
(* The reassembler, and the callback of decodePDU's callers *)

Add(fragments, seq) ==
    IF seq \in ToSet(fragments) THEN fragments ELSE Append(fragments, seq)

\* sort.Slice by the number of a part: an order of the fragments that does it.
Sorted(fragments) ==
    LET order == CHOOSE p \in Bijection(DOMAIN fragments, DOMAIN fragments) :
                   \A i, j \in DOMAIN fragments :
                     i < j => fragments[p[i]] =< fragments[p[j]]
    IN  [i \in DOMAIN fragments |-> fragments[order[i]]]

\* Mutant: a part that is there already makes the reassembler start afresh.
ReceiveForgets(p) ==
    LET m == p.msg
        fragments == Add(cache[m], p.seq)
        complete == fragments # cache[m] /\ Len(fragments) = Total[m]
    IN  /\ decoded' = decoded \cup {p}
        /\ cache' = [cache EXCEPT ![m] = IF complete \/ fragments = @ THEN <<>>
                                         ELSE fragments]
        /\ told' = IF complete
                   THEN told \cup {[msg |-> m, text |-> Sorted(fragments)]}
                   ELSE told
        /\ UNCHANGED expired

\* decodePDU, and the callback unless the text is empty.
Receive(p) ==
    LET m == p.msg
        fragments == Add(cache[m], p.seq)
        complete == fragments # cache[m] /\ Len(fragments) = Total[m]
    IN  /\ decoded' = decoded \cup {p}
        /\ cache' = [cache EXCEPT ![m] = IF complete THEN <<>> ELSE fragments]
        /\ told' = IF complete
                   THEN told \cup {[msg |-> m, text |-> Sorted(fragments)]}
                   ELSE told
        /\ UNCHANGED expired

\* The ticker of Start drops what has waited for ten minutes.
Cleanup(m) ==
    /\ cache[m] # <<>>
    /\ cache' = [cache EXCEPT ![m] = <<>>]
    /\ expired' = expired \cup {m}
    /\ UNCHANGED <<modem, pc, at, previous, hand, told, decoded,
                   overlapped, failed>>

-----------------------------------------------------------------------------
(* readAndProcessSMSFromStorage, the goroutine of p's +CMTI *)

\* The module stores a part and reports it; handleURC starts the goroutine.
\* Bound: a part arrives once, unless it was erased unread.
Arrive(p, s, i) ==
    /\ p \notin Stored \cup decoded /\ cell[s][i] = NoPdu
    /\ Begin(p, "query")
    /\ cell' = [cell EXCEPT ![s][i] = p]
    /\ at' = [at EXCEPT ![p] = [storage |-> s, index |-> i]]
    /\ UNCHANGED <<selected, previous, hand, joining, failed>>

\* What the reader does when it returns: the deferred restore, if there is one.
Leave == [p \in Pdu |-> IF previous[p] = NoStorage THEN "done" ELSE "restore"]

\* A reader that has ended has no indication any more.
Forgets(p) == at' = IF pc'[p] = "done" THEN [at EXCEPT ![p] = Nowhere] ELSE at

\* AT+CPMS?: nothing to switch when the storage is selected already, nothing
\* to restore when the query failed.
QueryStorage(p) ==
    /\ pc[p] = "query"
    /\ \E ok \in BOOLEAN :
         LET there == ok /\ selected = at[p].storage IN
         /\ Outcome(ok)
         /\ pc' = [pc EXCEPT ![p] = IF there THEN "read" ELSE "switch"]
         /\ previous' = [previous EXCEPT ![p] = IF ok /\ ~there THEN selected
                                                ELSE NoStorage]
    /\ UNCHANGED <<modem, at, hand, joining, overlapped>>

\* Mutant: a failing switch does not keep the reader from reading.
SwitchOrNot(p) ==
    /\ pc[p] = "switch"
    /\ \E ok \in BOOLEAN : Outcome(ok) /\ Select(at[p].storage, ok)
    /\ pc' = [pc EXCEPT ![p] = "read"]
    /\ UNCHANGED <<cell, at, previous, hand, joining, overlapped>>

\* A failing AT+CPMS ends the reader, and restores nothing.
SwitchStorage(p) ==
    /\ pc[p] = "switch"
    /\ \E ok \in BOOLEAN :
         /\ Outcome(ok)
         /\ Select(at[p].storage, ok)
         /\ pc' = [pc EXCEPT ![p] = IF ok THEN "read" ELSE "done"]
         /\ previous' = [previous EXCEPT ![p] = IF ok THEN @ ELSE NoStorage]
    /\ Forgets(p)
    /\ UNCHANGED <<cell, hand, joining, overlapped>>

\* Mutant: a reader whose AT+CMGR failed goes on and deletes.
ReadOrNot(p) ==
    /\ pc[p] = "read"
    /\ \E ok \in BOOLEAN :
         LET found == {cell[selected][at[p].index]} \ {NoPdu} IN
         /\ Outcome(ok)
         /\ hand' = [hand EXCEPT ![p] = IF ok THEN found ELSE {}]
         /\ pc' = [pc EXCEPT ![p] = IF ok /\ found # {} THEN "decode"
                                    ELSE IF ok THEN Leave[p] ELSE "delete"]
    /\ Forgets(p)
    /\ UNCHANGED <<modem, previous, joining, overlapped>>

\* AT+CMGR: the indicated index, of whatever storage is selected now.
Read(p) ==
    /\ pc[p] = "read"
    /\ \E ok \in BOOLEAN :
         LET found == {cell[selected][at[p].index]} \ {NoPdu} IN
         /\ Outcome(ok)
         /\ hand' = [hand EXCEPT ![p] = IF ok THEN found ELSE {}]
         /\ pc' = [pc EXCEPT ![p] = IF ok /\ found # {} THEN "decode"
                                    ELSE Leave[p]]
    /\ Forgets(p)
    /\ UNCHANGED <<modem, previous, joining, overlapped>>

Decode(p) ==
    /\ pc[p] = "decode"
    /\ \E q \in hand[p] : Receive(q)
    /\ hand' = [hand EXCEPT ![p] = {}]
    /\ pc' = [pc EXCEPT ![p] = "delete"]
    /\ UNCHANGED <<modem, at, previous, overlapped, failed>>

\* AT+CMGD, for a part of an unfinished message too; its error is ignored.
Delete(p) ==
    /\ pc[p] = "delete"
    /\ \E ok \in BOOLEAN : Outcome(ok) /\ Erase({at[p].index}, ok)
    /\ pc' = [pc EXCEPT ![p] = Leave[p]]
    /\ Forgets(p)
    /\ UNCHANGED <<selected, previous, hand, joining, overlapped>>

Restore(p) ==
    /\ pc[p] = "restore"
    /\ \E ok \in BOOLEAN : Outcome(ok) /\ Select(previous[p], ok)
    /\ pc' = [pc EXCEPT ![p] = "done"]
    /\ previous' = [previous EXCEPT ![p] = NoStorage]
    /\ Forgets(p)
    /\ UNCHANGED <<cell, hand, joining, overlapped>>

ReaderStep(p) ==
    \/ \E s \in Storage, i \in Index : Arrive(p, s, i)
    \/ QueryStorage(p) \/ SwitchStorage(p) \/ Read(p)
    \/ Decode(p) \/ Delete(p) \/ Restore(p)

-----------------------------------------------------------------------------
(* CheckAllSMS, when the program starts and when the user refreshes *)

BeginSweep(k) ==
    /\ Begin(k, "list")
    /\ UNCHANGED <<modem, at, previous, hand, joining, failed>>

\* AT+CMGL=4: an error or an empty list ends the sweep.
List(k) ==
    /\ pc[k] = "list"
    /\ \E ok \in BOOLEAN :
         LET found == {cell[selected][i] : i \in Index} \ {NoPdu} IN
         /\ Outcome(ok)
         /\ hand' = [hand EXCEPT ![k] = IF ok THEN found ELSE {}]
         /\ pc' = [pc EXCEPT ![k] = IF ok /\ found # {} THEN "each" ELSE "done"]
    /\ UNCHANGED <<modem, at, previous, joining, overlapped>>

\* One pass of the loop over the list; the order of indices is left open.
DecodeNext(k) ==
    /\ pc[k] = "each"
    /\ \E q \in hand[k] :
         /\ Receive(q)
         /\ hand' = [hand EXCEPT ![k] = @ \ {q}]
         /\ pc' = IF hand[k] = {q} THEN [pc EXCEPT ![k] = "clear"] ELSE pc
    /\ UNCHANGED <<modem, at, previous, overlapped, failed>>

\* SMSDeleteAll: AT+CMGD=1,4 erases what the storage holds by now.
Clear(k) ==
    /\ pc[k] = "clear"
    /\ \E ok \in BOOLEAN : Outcome(ok) /\ Erase(Index, ok)
    /\ pc' = [pc EXCEPT ![k] = "done"]
    /\ UNCHANGED <<selected, at, previous, hand, joining, overlapped>>

SweepStep(k) == BeginSweep(k) \/ List(k) \/ DecodeNext(k) \/ Clear(k)

Next ==
    \/ \E p \in Pdu : ReaderStep(p)
    \/ \E k \in Sweep : SweepStep(k)
    \/ \E m \in Message : Cleanup(m)

Spec == Init /\ [][Next]_vars

-----------------------------------------------------------------------------
(* Properties *)

\* The variables keep to the values that the code can give them.
TypeOK ==
    /\ cell \in [Storage -> [Index -> Pdu \cup {NoPdu}]]
    /\ selected \in Storage
    /\ \A p \in Pdu : pc[p] \in {"idle", "query", "switch", "read", "decode",
                                  "delete", "restore", "done"}
    /\ \A k \in Sweep : pc[k] \in {"idle", "list", "each", "clear", "done"}
    /\ at \in [Pdu -> [storage : Storage, index : Index]]
    /\ previous \in [Pdu -> Storage \cup {NoStorage}]
    /\ hand \in [Call -> SUBSET Pdu]
    /\ \A m \in Message : /\ ToSet(cache[m]) \subseteq 1..Total[m]
                           /\ Len(cache[m]) < Total[m]
    /\ decoded \subseteq Pdu /\ expired \subseteq Message
    /\ overlapped \subseteq Call /\ failed \in BOOLEAN

\* A message in the list of the program has every part once and in order,
\* although a reader and a sweep may both decode a part (Reassembler.Add); and a
\* part that was read, and is erased from the module on that account, is in the
\* list, or waits for the rest of its message, or was dropped after ten minutes:
\* no order of readers and sweeps makes the reassembler lose it.
PartsMakeMessages ==
    /\ TypeOK
    /\ \A t \in told : t.text = [n \in 1..Total[t.msg] |-> n]
    /\ \A p \in decoded :
         \/ \E t \in told : t.msg = p.msg
         \/ p.seq \in ToSet(cache[p.msg])
         \/ p.msg \in expired

\* A reader that no other call ran beside works in the storage that +CMTI
\* named, whichever of its commands failed (the early return at manager.go:1476);
\* and readers that ran one after another, with no failing command, leave the
\* storage selected that was selected at first (the deferred restore).
StorageIsKept ==
    /\ \A p \in Pdu \ overlapped :
         pc[p] \in {"read", "decode", "delete"} => selected = at[p].storage
    /\ Running \cup overlapped = {} /\ ~failed => selected = Home

Erased == {p \in Stored : p \notin {cell'[s][i] : s \in Storage, i \in Index}}

\* What a call erases while no other call runs beside it was decoded before,
\* whichever of its commands failed: a part is only ever lost to a race.
NothingIsLostAlone ==
    [][cell' # cell /\ Running \cap overlapped = {} => Erased \subseteq decoded]_vars

\* What the log at manager.go:1476 and the test of
\* manager_sms_storage_test.go:9 say of a reader: it deletes in the storage
\* that +CMTI named, and in no other; here with no command that fails.
DeletesAsIndicated ==
    [][\A p \in Pdu, s \in Storage :
         /\ pc[p] = "delete" /\ pc'[p] # "delete"
         /\ cell'[s] # cell[s] /\ ~failed'
         => s = at[p].storage]_vars
=============================================================================
