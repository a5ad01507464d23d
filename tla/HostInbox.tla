------------------------------ MODULE HostInbox ------------------------------
(* The Mac host's inbox when it reads SMS over USB AT itself                  *)
(* (cmd/djonehub-macos/main.go): the poll lists SM and ME, shows what it read *)
(* and then erases ME; the user erases both memories and the inbox.  Both     *)
(* hold smsOperationMu; a message may come between any two commands, and a    *)
(* command may fail, be answered ERROR, which usbAT.Command returns as any    *)
(* answer, or be cut short.  A PDU that does not decode is left out.          *)

EXTENDS FiniteSets, Naturals

CONSTANTS
    Messages,   \* messages of one part
    Parts,      \* the parts of one long message
    Whole,      \* that message
    Kept        \* the inbox keeps so many, 500 in the code

VARIABLES
    store,      \* of a memory of the module: what is in it
    selected,   \* the memory CPMS selected last
    unsent,     \* messages still to come
    locked,     \* smsOperationMu
    at, memory, \* the command the poll, and the clear, is at, and for which
                \* memory
    read,       \* what the poll has read
    parts,      \* smsReassembler
    inbox,      \* a.sms
    autoClean,  \* smsAutoCleanupME
    listed,     \* history: what listings had
    shown,      \* history: messages that were in the inbox
    lost,       \* history: what the poll erased that the inbox never showed
    forgotten,  \* history: what was gone from module and inbox as the user's
                \* clear ended
    cut         \* history: messages read that the limit kept out of the inbox

inboxVars == <<store, selected, unsent, locked, at, memory, read, parts, inbox,
               autoClean, listed, shown, lost, forgotten, cut>>

Memory == {"SM", "ME"}
Stored == Messages \cup Parts
Ops == {"poll", "clear"}

Init ==
    /\ store = [m \in Memory |-> {}] /\ selected \in Memory
    /\ unsent = Stored
    /\ locked = FALSE /\ at = [o \in Ops |-> "idle"] /\ memory = [o \in Ops |-> "SM"]
    /\ read = {} /\ parts = {} /\ inbox = {} /\ autoClean \in BOOLEAN
    /\ listed = {} /\ shown = {} /\ lost = {} /\ forgotten = {} /\ cut = {}

Goes(o, where, m) == at' = [at EXCEPT ![o] = where] /\ memory' = [memory EXCEPT ![o] = m]
Ends(o) == locked' = FALSE /\ Goes(o, "idle", "SM")
history == <<listed, shown, lost, forgotten, cut>>
-----------------------------------------------------------------------------
Arrives ==
    /\ \E x \in unsent, m \in Memory :
         /\ unsent' = unsent \ {x}
         /\ store' = [store EXCEPT ![m] = @ \cup {x}]
    /\ UNCHANGED <<selected, locked, at, memory, read, parts, inbox, autoClean, history>>

\* updateSMSSettings
SetAutoClean ==
    /\ ~locked /\ autoClean' = ~autoClean
    /\ UNCHANGED <<store, selected, unsent, locked, at, memory, read, parts, inbox, history>>

BeginUnlocked(o) ==  \* mutant: the mutex is not taken
    /\ at[o] = "idle"
    /\ locked' = TRUE
    /\ Goes(o, "select", "SM")
    /\ read' = IF o = "poll" THEN {} ELSE read
    /\ UNCHANGED <<store, selected, unsent, parts, inbox, autoClean, history>>

\* pollSMSOnce, from the timer or from refreshSMS, and clearModuleSMS.
Begin(o) ==
    /\ at[o] = "idle" /\ ~locked
    /\ locked' = TRUE
    /\ Goes(o, "select", "SM")
    /\ read' = IF o = "poll" THEN {} ELSE read
    /\ UNCHANGED <<store, selected, unsent, parts, inbox, autoClean, history>>

\* AT+CPMS; ERROR leaves the selection as it was, and is not looked at.
Select(o) ==
    /\ at[o] = "select"
    /\ selected' \in {selected, memory[o]}
    /\ Goes(o, IF o = "poll" THEN "list" ELSE "erase", memory[o])
    /\ UNCHANGED <<store, unsent, locked, read, parts, inbox, autoClean, history>>

AfterMemory == IF memory["poll"] = "SM" THEN Goes("poll", "select", "ME")
               ELSE Goes("poll", "merge", "ME")

\* AT+CMGL=4: the selected memory, possibly cut short, goes to the reassembler
\* and to what this poll read.
List ==
    /\ at["poll"] = "list"
    /\ \E got \in SUBSET store[selected] :
         LET held == parts \cup (got \cap Parts)
             complete == Parts \subseteq held
         IN  /\ parts' = IF complete THEN {} ELSE held
             /\ read' = read \cup (got \ Parts) \cup (IF complete THEN {Whole} ELSE {})
             /\ listed' = listed \cup got
    /\ AfterMemory
    /\ UNCHANGED <<store, selected, unsent, locked, inbox, autoClean, shown, lost,
                   forgotten, cut>>

\* A command of the poll fails: the other memory is tried all the same; when
\* nothing was read in either, the poll ends.
ListFails ==
    /\ at["poll"] \in {"select", "list"}
    /\ IF memory["poll"] = "ME" /\ read = {} THEN Ends("poll")
       ELSE AfterMemory /\ UNCHANGED locked
    /\ UNCHANGED <<store, selected, unsent, read, parts, inbox, autoClean, history>>

\* mergeSMS: what is new is added once; beyond 500 the oldest go, and a message
\* just read may be the oldest.
Merge ==
    /\ at["poll"] = "merge"
    /\ LET all == inbox \cup read
       IN  \E new \in SUBSET all :
             /\ Cardinality(new) = IF Cardinality(all) > Kept THEN Kept ELSE Cardinality(all)
             /\ inbox' = new
    /\ shown' = shown \cup inbox' /\ cut' = cut \cup (read \ inbox')
    /\ (IF autoClean /\ read # {} THEN Goes("poll", "clean", "ME") /\ UNCHANGED locked
        ELSE Ends("poll"))
    /\ UNCHANGED <<store, selected, unsent, read, parts, autoClean, listed, lost, forgotten>>

Seen(x) == x \in shown \/ (x \in Parts /\ (x \in parts \/ Whole \in shown))

\* clearUSBATSMSMemory("ME") of the poll: its CPMS may be answered ERROR, too;
\* either of its commands may fail.
Clean ==
    /\ at["poll"] = "clean"
    /\ selected' \in {selected, "ME"}
    /\ \/ /\ store' = [store EXCEPT ![selected'] = {}]
          /\ lost' = lost \cup {x \in store[selected'] : ~Seen(x)}
       \/ UNCHANGED <<store, lost>>
    /\ Ends("poll")
    /\ UNCHANGED <<unsent, read, parts, inbox, autoClean, listed, shown, forgotten, cut>>

\* AT+CMGD=1,4 of clearAllUSBATSMS, answered OK or ERROR.
Erase ==
    /\ at["clear"] = "erase"
    /\ store' \in {store, [store EXCEPT ![selected] = {}]}
    /\ (IF memory["clear"] = "SM" THEN Goes("clear", "select", "ME")
        ELSE Goes("clear", "forget", "ME"))
    /\ UNCHANGED <<selected, unsent, locked, read, parts, inbox, autoClean, history>>

ClearFails ==
    /\ at["clear"] \in {"select", "erase"}
    /\ Ends("clear")
    /\ UNCHANGED <<store, selected, unsent, read, parts, inbox, autoClean, history>>

InModule == UNION {store[m] : m \in Memory}
Gone(x) == IF x = Whole THEN Parts \cap InModule = {} ELSE x \notin InModule

\* clearSMSCache
Forget ==
    /\ at["clear"] = "forget"
    /\ forgotten' = forgotten \cup {x \in shown \cup cut : Gone(x)}
    /\ inbox' = {}
    /\ Ends("clear")
    /\ UNCHANGED <<store, selected, unsent, read, parts, autoClean, listed, shown, lost, cut>>

\* smsReassembler.Cleanup at the end of a listing: parts of ten minutes ago.
Age ==
    /\ at["poll"] \in {"select", "merge"} /\ parts # {}
    /\ parts' = {} /\ listed' = listed \ parts
    /\ UNCHANGED <<store, selected, unsent, locked, at, memory, read, inbox, autoClean,
                   shown, lost, forgotten, cut>>

Next ==
    \/ Arrives \/ SetAutoClean
    \/ \E o \in Ops : Begin(o) \/ Select(o)
    \/ List \/ ListFails \/ Merge \/ Clean
    \/ Erase \/ ClearFails \/ Forget \/ Age

InboxSpec == Init /\ [][Next]_inboxVars

TypeOK ==
    /\ store \in [Memory -> SUBSET Stored] /\ selected \in Memory
    /\ at \in [Ops -> {"idle", "select", "list", "merge", "clean", "erase", "forget"}]
    /\ inbox \subseteq Messages \cup {Whole} /\ Cardinality(inbox) <= Kept
    /\ parts \subseteq Parts

BeyondLimit(x) == x \in cut \/ (x \in Parts /\ Whole \in cut)

\* Of what a listing had, the poll's cleanup erases nothing that was not shown
\* first or is not held for its other parts, except what the limit of 500 kept out
\* of the inbox: that it erases unseen.  And what the user erased does not come
\* back into the inbox, whatever the poll had read before.
InboxIsFaithful ==
    /\ \A x \in lost \cap listed : BeyondLimit(x)
    /\ forgotten \cap inbox = {}
=============================================================================
