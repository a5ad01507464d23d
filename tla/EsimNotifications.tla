-------------------------- MODULE EsimNotifications --------------------------
(* The notifications that an eUICC issues for its operator's server, and how  *)
(* internal/esim/manager.go delivers them: one operation at a time (opMu), of *)
(* which each exchange with the card or the server may fail, and of which the *)
(* server may have got what is reported as failed.  The card is that of the   *)
(* specification SGP.22: it numbers what it issues and keeps it until told.   *)
EXTENDS Naturals, FiniteSetsExt

CONSTANTS
    Profile,    \* ICCIDs
    MaxSeq,     \* bound: notifications issued
    Idle        \* nobody holds opMu

VARIABLES
    installed,  \* profiles on the card
    issued,     \* how many notifications the card has issued
    pending,    \* those on the card: [seq, event, profile]
    received,   \* numbers of those the server has got
    op,         \* the operation under way
    clean,      \* history: numbers issued for a download or deletion that ended
                \* without a warning, having listed them before
    withheld    \* history: those of clean that the card listed and then gave as
                \* nothing

card == <<installed, issued, pending>>
history == <<clean, withheld>>
vars == <<card, received, op, history>>

Event == {"install", "enable", "disable", "delete"}
Note == [seq : 1..MaxSeq, event : Event, profile : Profile]
Largest(notes) == Max({n.seq : n \in notes} \cup {0})

Init ==
    /\ installed \in SUBSET Profile
    /\ issued = 0 /\ pending = {} /\ received = {}
    /\ op = Idle /\ clean = {} /\ withheld = {}

\* The card does something for a profile and may issue a notification of it.
Issue(event, profile) ==
    \/ /\ issued < MaxSeq
       /\ issued' = issued + 1
       /\ pending' = pending \cup
            {[seq |-> issued + 1, event |-> event, profile |-> profile]}
    \/ UNCHANGED <<issued, pending>>

At(kinds, pc) == op # Idle /\ op.kind \in kinds /\ op.pc = pc
GoTo(pc) == op' = [op EXCEPT !.pc = pc]
Answer == op' = Idle /\ UNCHANGED history
-----------------------------------------------------------------------------
\* A switch or a disabling leaves its notification on the card.
Switch(event, profile) ==
    /\ op = Idle /\ profile \in installed /\ event \in {"enable", "disable"}
    /\ Issue(event, profile)
    /\ UNCHANGED <<installed, received, op, history>>

\* DownloadProfile and DeleteProfile list what is on the card first: baseline
\* is its largest number, and 0 if the card does not answer.
Begin(kind, profile) ==
    /\ op = Idle /\ (kind = "delete" <=> profile \in installed)
    /\ \E listed \in BOOLEAN :
        op' = [kind |-> kind, profile |-> profile, pc |-> "act", listed |-> listed,
               own |-> 0, found |-> 0, todo |-> {},
               baseline |-> IF ~listed THEN 0
                            ELSE IF kind = "delete" THEN Largest(pending)
                            ELSE Largest({n \in pending : n.event = "install"})]
    /\ UNCHANGED <<card, received, history>>

OwnSeq == IF issued' > issued THEN issued' ELSE 0

\* The card refuses, or the server does.
ActFails ==
    /\ At({"download", "delete"}, "act")
    /\ Answer
    /\ UNCHANGED <<card, received>>

Delete ==
    /\ At({"delete"}, "act")
    /\ installed' = installed \ {op.profile}
    /\ Issue("delete", op.profile)
    /\ op' = [op EXCEPT !.pc = "find", !.own = OwnSeq]
    /\ UNCHANGED <<received, history>>

\* The installation's result may name its notification, which raises baseline.
Install ==
    /\ At({"download"}, "act")
    /\ installed' = installed \cup {op.profile}
    /\ Issue("install", op.profile)
    /\ op' = [op EXCEPT !.pc = "find", !.own = OwnSeq,
                !.baseline = Max({@, IF OwnSeq > 0 THEN OwnSeq - 1 ELSE 0})]
    /\ UNCHANGED <<received, history>>

\* The installation is done and its end is an error.  If that error may be of
\* the transport, and the list of before is there, the download counts as done
\* if its notification can be sent.
InstallUnsure ==
    /\ At({"download"}, "act")
    /\ installed' = installed \cup {op.profile}
    /\ Issue("install", op.profile)
    /\ \/ op.listed /\ op' = [op EXCEPT !.pc = "find", !.own = OwnSeq]
       \/ op' = Idle
    /\ UNCHANGED <<received, history>>

\* findNotificationWithWait and findDeleteNotificationWithWait.
Matches(n) ==
    /\ n.seq > op.baseline
    /\ IF op.kind = "delete" THEN n.event = "delete" /\ n.profile = op.profile
       ELSE n.event = "install"

Find ==
    /\ At({"download", "delete"}, "find")
    /\ \E n \in pending :
        /\ Matches(n)
        /\ op' = [op EXCEPT !.pc = "send", !.found = n.seq]
    /\ UNCHANGED <<card, received, history>>

\* The card has no match or does not answer, three times, or the notification
\* cannot be retrieved: a warning, for a recovered download an error.
NotSent ==
    /\ At({"download", "delete"}, "find") \/ At({"download", "delete"}, "send")
    /\ Answer
    /\ UNCHANGED <<card, received>>

\* HandleNotification, with its retries.
Delivered(seq) == received' = received \cup {seq}
Undelivered(seq) == received' \in {received, received \cup {seq}}

\* What the operation issued itself, if it listed before.
Own == {seq \in {op.own} : op.listed /\ seq > 0}

\* An empty list that is retrieved without an error sends nothing, and there is
\* no warning either.
Send ==
    /\ At({"download", "delete"}, "send")
    /\ \/ /\ op' = Idle /\ clean' = clean \cup Own
          /\ \/ Delivered(op.found) /\ UNCHANGED withheld
             \/ UNCHANGED received /\ withheld' = withheld \cup Own
       \/ Undelivered(op.found) /\ Answer
    /\ UNCHANGED card
-----------------------------------------------------------------------------
\* RetryNotification sends one again and leaves it on the card.
Retry(seq) ==
    /\ op = Idle /\ \E n \in pending : n.seq = seq
    /\ Delivered(seq) \/ Undelivered(seq)
    /\ UNCHANGED <<card, op, history>>

\* ListNotifications, with autoCleanLoadedNotifications: what is about an
\* enabling or disabling is sent and then removed from the card.
ListNotifications ==
    /\ op = Idle
    /\ LET todo == {n \in pending : n.event \in {"enable", "disable"}} IN
        /\ todo # {}
        /\ op' = [kind |-> "list", pc |-> "next", todo |-> todo, found |-> 0]
    /\ UNCHANGED <<card, received, history>>

CleanOne ==
    /\ At({"list"}, "next")
    /\ \E n \in op.todo :
        /\ op' = [op EXCEPT !.pc = "send", !.found = n.seq, !.todo = @ \ {n}]
    /\ UNCHANGED <<card, received, history>>

CleanSendAnyway ==  \* mutant: one that could not be sent is removed as well
    /\ At({"list"}, "send")
    /\ Delivered(op.found) \/ Undelivered(op.found)
    /\ GoTo("remove")
    /\ UNCHANGED <<card, history>>

CleanSend ==
    /\ At({"list"}, "send")
    /\ \/ Delivered(op.found) /\ GoTo("remove")
       \/ Undelivered(op.found) /\ GoTo("next")
    /\ UNCHANGED <<card, history>>

\* The removal may fail, and then the notification is there to be sent again.
CleanRemove ==
    /\ At({"list"}, "remove")
    /\ pending' \in {pending, {n \in pending : n.seq # op.found}}
    /\ GoTo("next")
    /\ UNCHANGED <<installed, issued, received, history>>

ListEnds ==
    /\ At({"list"}, "next") /\ op.todo = {}
    /\ Answer
    /\ UNCHANGED <<card, received>>

Next ==
    \/ \E event \in Event, profile \in Profile : Switch(event, profile)
    \/ \E kind \in {"download", "delete"}, profile \in Profile : Begin(kind, profile)
    \/ ActFails \/ Delete \/ Install \/ InstallUnsure
    \/ Find \/ NotSent \/ Send
    \/ \E seq \in 1..MaxSeq : Retry(seq)
    \/ ListNotifications \/ CleanOne \/ CleanSend \/ CleanRemove \/ ListEnds

Spec == Init /\ [][Next]_vars
-----------------------------------------------------------------------------
TypeOK ==
    /\ installed \subseteq Profile /\ issued \in 0..MaxSeq
    /\ pending \subseteq Note
    /\ {received, clean, withheld} \subseteq SUBSET (1..issued)
    /\ op # Idle => op.pc \in {"act", "find", "send", "next", "remove"}

\* No notification is lost to its operator: what the card has issued is on the
\* card, or the server has got it, whichever exchange failed; and a download or
\* a deletion that does not warn has sent its own notification, not one of an
\* earlier operation (if the card answered its listing before).  Except when the
\* card lists it and retrieves it as nothing: then it is kept, and nobody warned.
NotificationsAreKept ==
    /\ \A seq \in 1..issued : seq \in received \/ \E n \in pending : n.seq = seq
    /\ clean \subseteq received \cup withheld
=============================================================================
