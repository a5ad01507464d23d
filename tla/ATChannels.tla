----------------------------- MODULE ATChannels -----------------------------
(* Logical channels of the card over AT commands: the modem manager's opening *)
(* of a channel, the exchanges on it, its closing and the clearing of all     *)
(* channels (internal/modem/commands.go), the register of sessions they keep  *)
(* (internal/modem/manager.go), and the basic channel with its GET RESPONSE.  *)
(* A lease of the arbiter may be refused; nothing else orders the callers     *)
(* but the AT engine, which sends one command after another.                  *)
EXTENDS Naturals, FiniteSets

CONSTANTS
    Client,       \* of the eUICC: they open sessions of class EUICCWrite
    Authenticator,\* of SIM authentication: sessions of class USIMAKA
    Channel,      \* the card's logical channels, without 0
    MaxDisturbances
VARIABLES
    open,         \* of a channel: whose application the card has selected on it
    bound,        \* apduSessions: the owner a channel is registered with
    at, mine,     \* of a caller: where it is, and the channel it was given
    clearer,      \* the channel ClearLogicalChannels is at, 0 outside of it
    disturbed,    \* callers whose channel or record of it was taken from them
    owed,         \* channels left open by a request that said it failed
    leased,       \* the arbiter is set, and excludes on the basic channel
    basic,        \* of a caller: its exchange on the basic channel
    waiting,      \* whose answer the card keeps for a GET RESPONSE
    disturbances

channelVars == <<open, bound, at, mine, clearer, disturbed, owed>>
basicVars == <<leased, basic, waiting>>
vars == <<channelVars, basicVars, disturbances>>

Caller == Client \cup Authenticator
Closed == "closed"
Owner(u) == IF u \in Client THEN "esim" ELSE "sim_aka"
NoCaller == "none"
Quiet == [at |-> "idle"]
FollowUps == 3  \* of followUpBasicAPDU

TypeOK ==
    /\ open \in [Channel -> Caller \cup {Closed}]
    /\ bound \in [Channel -> {"esim", "sim_aka", Closed}]
    /\ at \in [Caller -> {"idle", "opening", "answered", "open", "closing"}]
    /\ mine \in [Caller -> Channel \cup {0}] /\ clearer \in Channel \cup {0}
    /\ disturbed \subseteq Caller /\ owed \subseteq Channel
    /\ leased \in BOOLEAN /\ waiting \in Caller \cup {NoCaller}
    /\ \A u \in Caller : basic[u] = Quiet \/ (basic[u].at \in {"hex", "byte"} /\ basic[u].left <= FollowUps)
    /\ disturbances \in 0..MaxDisturbances

Init ==
    /\ open = [c \in Channel |-> Closed] /\ bound = [c \in Channel |-> Closed]
    /\ at = [u \in Caller |-> "idle"] /\ mine = [u \in Caller |-> 0]
    /\ clearer = 0 /\ disturbed = {} /\ owed = {}
    /\ leased \in BOOLEAN /\ basic = [u \in Caller |-> Quiet] /\ waiting = NoCaller
    /\ disturbances = 0

Goes(u, place) == at' = [at EXCEPT ![u] = place]
Forgets(u) == mine' = [mine EXCEPT ![u] = 0] /\ Goes(u, "idle")
HoldersOf(c) == {u \in Caller : mine[u] = c}
\* What one that lost its channel does to the number's record, it does to another.
Spreads(u) ==
    disturbed' = disturbed \cup {v \in HoldersOf(mine[u]) : u \in disturbed}
-----------------------------------------------------------------------------
\* openLogicalChannel: a lease, AT+CCHO, and the record of what it answered.
Open(u) ==
    /\ at[u] = "idle" /\ basic[u] = Quiet
    /\ Goes(u, "opening")
    /\ UNCHANGED <<open, bound, mine, clearer, disturbed, owed, basicVars, disturbances>>

\* The lease is refused, or the card has no channel left or not the application.
OpenFails(u) ==
    /\ at[u] = "opening" /\ Goes(u, "idle")
    /\ UNCHANGED <<open, bound, mine, clearer, disturbed, owed, basicVars, disturbances>>

Opened(u, c) ==
    /\ at[u] = "opening" /\ open[c] = Closed
    /\ open' = [open EXCEPT ![c] = u]
    /\ \/ /\ Goes(u, "answered") /\ mine' = [mine EXCEPT ![u] = c]
          /\ disturbed' = disturbed \ {u} /\ UNCHANGED owed
       \/ \* the answer came too late, or could not be read
          Goes(u, "idle") /\ owed' = owed \cup {c} /\ UNCHANGED <<mine, disturbed>>
    /\ UNCHANGED <<bound, clearer, basicVars, disturbances>>

\* bindAPDUSession
Bind(u) ==
    /\ at[u] = "answered" /\ Goes(u, "open")
    /\ bound' = [bound EXCEPT ![mine[u]] = Owner(u)] /\ Spreads(u)
    /\ UNCHANGED <<open, mine, clearer, owed, basicVars, disturbances>>

\* closeLogicalChannel: the record goes first.
Close(u) ==
    /\ at[u] = "open" /\ Goes(u, "closing")
    /\ bound' = [bound EXCEPT ![mine[u]] = Closed] /\ Spreads(u)
    /\ UNCHANGED <<open, mine, clearer, owed, basicVars, disturbances>>

\* AT+CCHC closes whatever the number stands for by now: what another was given
\* meanwhile is taken from it.
Shuts(c, by) ==
    /\ open' = [open EXCEPT ![c] = Closed]
    /\ disturbed' = disturbed \cup (HoldersOf(c) \ by)
    /\ owed' = owed \ {c}
Closes(u) ==
    /\ at[u] = "closing" /\ Shuts(mine[u], {u}) /\ Forgets(u)
    /\ UNCHANGED <<bound, clearer, basicVars, disturbances>>

\* The lease is refused or the command fails: the caller is told, and its channel
\* stays open unless the card closed it and the answer was lost.
CloseFails(u) ==
    /\ at[u] = "closing" /\ Forgets(u)
    /\ \/ owed' = owed \cup {c \in {mine[u]} : open[c] # Closed} /\ UNCHANGED <<open, disturbed>>
       \/ Shuts(mine[u], {u})
    /\ UNCHANGED <<bound, clearer, basicVars, disturbances>>

\* ClearLogicalChannels, before a scan: of each channel the record goes, and if
\* the lease comes the channel; what the commands answer is not looked at.
Last == CHOOSE c \in Channel : \A d \in Channel : d <= c
ClearBegins ==
    /\ clearer = 0 /\ disturbances < MaxDisturbances
    /\ disturbances' = disturbances + 1 /\ clearer' = 1
    /\ bound' = [bound EXCEPT ![1] = Closed]
    /\ disturbed' = disturbed \cup HoldersOf(1)
    /\ UNCHANGED <<open, at, mine, owed, basicVars>>

ClearGoes ==
    /\ clearer # 0
    /\ LET next == IF clearer = Last THEN 0 ELSE clearer + 1 IN
       /\ clearer' = next
       /\ bound' = [c \in Channel |-> IF c = next THEN Closed ELSE bound[c]]
       /\ \E shut \in BOOLEAN :
             /\ open' = [open EXCEPT ![clearer] = IF shut THEN Closed ELSE @]
             /\ owed' = IF shut THEN owed \ {clearer} ELSE owed
             /\ disturbed' = disturbed \cup HoldersOf(next)
                                \cup (IF shut THEN HoldersOf(clearer) ELSE {})
    /\ UNCHANGED <<at, mine, basicVars, disturbances>>

\* The card resets, or SetAPDUArbiter and Stop forget the records.
Disturbs ==
    /\ disturbances < MaxDisturbances /\ disturbances' = disturbances + 1
    /\ disturbed' = {u \in Caller : at[u] # "idle"}
    /\ \/ /\ open' = [c \in Channel |-> Closed] /\ owed' = {} /\ waiting' = NoCaller
          /\ UNCHANGED bound
       \/ bound' = [c \in Channel |-> Closed] /\ UNCHANGED <<open, owed, waiting>>
    /\ UNCHANGED <<at, mine, clearer, leased, basic>>

\* TransmitAPDU changes nothing here: the class it asks the lease for, and the
\* application that gets what it sends.
Class(u) == IF bound[mine[u]] = Closed THEN "unbound" ELSE bound[mine[u]]
Reached(u) == open[mine[u]]
-----------------------------------------------------------------------------
\* TransmitBasicAPDU: with an arbiter one caller at a time.  An APDU is sent with
\* its length in characters, and once more with its length in bytes if the command
\* failed or the card answered that the length is wrong.
Basic(u) ==
    /\ basic[u] = Quiet /\ at[u] = "idle"
    /\ leased => \A v \in Caller : basic[v] = Quiet
    /\ basic' = [basic EXCEPT ![u] = [at |-> "hex", fetch |-> FALSE, left |-> FollowUps]]
    /\ UNCHANGED <<channelVars, leased, waiting, disturbances>>

Says(u, what) == basic' = [basic EXCEPT ![u] = what]

\* The card has an answer of its own length to give, which a GET RESPONSE fetches;
\* any other command on the channel loses it.
Answers(u) ==
    \/ /\ basic[u].left > 0   \* 61xx, or 6Cxx: followUpBasicAPDU
       /\ Says(u, [at |-> "hex", fetch |-> TRUE, left |-> basic[u].left - 1])
       /\ waiting' = u
    \/ Says(u, Quiet) /\ waiting' = NoCaller

Send(u) ==
    /\ basic[u] # Quiet
    /\ \/ Answers(u)
       \/ /\ basic[u].at = "hex" /\ Says(u, [basic[u] EXCEPT !.at = "byte"])
          /\ waiting' \in {waiting, NoCaller}
       \/ basic[u].at = "byte" /\ Says(u, Quiet) /\ waiting' \in {waiting, NoCaller}
    /\ UNCHANGED <<channelVars, leased, disturbances>>

Next ==
    \/ \E u \in Caller :
          \/ Open(u) \/ OpenFails(u) \/ Bind(u) \/ Close(u) \/ Closes(u) \/ CloseFails(u)
          \/ Basic(u) \/ Send(u) \/ \E c \in Channel : Opened(u, c)
    \/ ClearBegins \/ ClearGoes \/ Disturbs

\* What a caller sends on its channel reaches the application it opened, under the
\* class of its session, unless a clearing, a reset or a caller that went through
\* one took the channel: openLogicalChannel, TransmitAPDU, closeLogicalChannel.
ReachesItsOwn ==
    \A u \in Caller \ disturbed :
        at[u] = "open" => Reached(u) = u /\ Class(u) = Owner(u)

\* A channel the card has open is somebody's, or somebody was told that its
\* opening or closing failed: the card has few, and only a clearing frees it.
NoneIsLost ==
    \A c \in Channel : open[c] # Closed => HoldersOf(c) # {} \/ c \in owed

\* With an arbiter a GET RESPONSE fetches the answer to the caller's own command,
\* if the card still has one: TransmitBasicAPDU holds its lease over all of it.
FetchesItsOwn ==
    leased => \A u \in Caller :
        basic[u] # Quiet /\ basic[u].fetch => waiting \in {u, NoCaller}

ChannelsAreKept == ReachesItsOwn /\ NoneIsLost /\ FetchesItsOwn
=============================================================================
