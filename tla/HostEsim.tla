------------------------------ MODULE HostEsim ------------------------------
(* The eSIM pages of the Mac server (cmd/djonehub-macos/main.go): the manager *)
(* that is installed once, a switch of profiles with the restart of the       *)
(* module that must follow it, and the health page, which puts the card's     *)
(* active profile beside what the module says of its SIM.                     *)
EXTENDS Naturals

CONSTANTS
    Profile, NoProfile,
    Requests,       \* handlers of requests, each of its own client
    MaxSwitches,    \* bound: requests for a switch
    MaxLosses       \* bound: losses of the USB device
VARIABLES
    installed,      \* a.esim: "no", "usb" (may switch), "serial" (may not)
    enabled,        \* profile that is enabled on the card
    session,        \* profile whose SIM session the module holds
    usb,            \* the USB AT link works
    request,        \* of a handler: where it is and what it read
    page,           \* the last health page of a handler
    warned,         \* a switch said that its restart was not confirmed
    unsaid,         \* a switch that nobody restarted for, and nobody was told of
    restarting,     \* the module took CFUN=1,1 and is not back
    switches, losses

vars == <<installed, enabled, session, usb, request, page, warned, unsaid,
          restarting, switches, losses>>

NoRequest == [at |-> "idle"]
NoPage == [ok |-> FALSE]

TypeOK ==
    /\ installed \in {"no", "usb", "serial"} /\ enabled \in Profile
    /\ session \in Profile \cup {NoProfile}
    /\ {usb, warned, unsaid, restarting} \subseteq BOOLEAN
    /\ \A r \in Requests : request[r].at \in {"idle", "switch", "reboot", "health"}
    /\ switches \in 0..MaxSwitches /\ losses \in 0..MaxLosses

Init ==
    /\ installed = "no" /\ enabled \in Profile /\ session = enabled /\ usb = TRUE
    /\ request = [r \in Requests |-> NoRequest] /\ page = [r \in Requests |-> NoPage]
    /\ warned = FALSE /\ unsaid = FALSE /\ restarting = FALSE
    /\ switches = 0 /\ losses = 0

Does(r, what) == request' = [request EXCEPT ![r] = what]
Shows(r, what) == page' = [page EXCEPT ![r] = what]
-----------------------------------------------------------------------------
\* installESIMManager, of the modem's serial port at the start, or of the USB AT
\* channel at every opening: the first one stays.
Install ==
    /\ installed = "no" /\ installed' \in {"usb", "serial"}
    /\ UNCHANGED <<enabled, session, usb, request, page, warned, unsaid, restarting,
                   switches, losses>>

Unsettled(o) ==
    IF request[o].at = "health" THEN [request[o] EXCEPT !.settled = FALSE]
    ELSE request[o]

\* switchESIM: refused, or to the manager, which enables the profile or fails.
Switch(r) ==
    /\ request[r] = NoRequest /\ installed # "no" /\ switches < MaxSwitches
    /\ switches' = switches + 1
    /\ \E p \in Profile \ {enabled} :
          request' = [[o \in Requests |-> Unsettled(o)] EXCEPT ![r] =
                          [at |-> "switch", to |-> p]]
    /\ UNCHANGED <<installed, enabled, session, usb, page, warned, unsaid, restarting,
                   losses>>
SwitchFails(r) ==
    /\ request[r].at = "switch" /\ Does(r, NoRequest)
    /\ \/ UNCHANGED <<enabled, unsaid>>
       \/ enabled' = request[r].to /\ unsaid' = TRUE  \* the answer was lost
    /\ UNCHANGED <<installed, session, usb, page, warned, restarting, switches, losses>>
Switched(r) ==
    /\ request[r].at = "switch"
    /\ enabled' = request[r].to /\ Does(r, [at |-> "reboot"])
    /\ UNCHANGED <<installed, session, usb, page, warned, unsaid, restarting,
                   switches, losses>>

\* AT+CFUN=1,1: confirmed; or the link is gone, of which the page makes a restart
\* although the command may never have left; or another error, which it tells.
Reboot(r) ==
    /\ request[r].at = "reboot" /\ Does(r, NoRequest)
    /\ \/ usb /\ restarting' = TRUE /\ UNCHANGED <<warned, unsaid>>
       \/ ~usb /\ unsaid' = TRUE /\ UNCHANGED <<warned, restarting>>
       \/ warned' = TRUE /\ restarting' \in {restarting, TRUE} /\ UNCHANGED unsaid
    /\ UNCHANGED <<installed, enabled, session, usb, page, switches, losses>>
-----------------------------------------------------------------------------
\* esimHealth: the active profile of the overview, and then what the module says.
Health(r) ==
    /\ request[r] = NoRequest /\ installed # "no"
    /\ Does(r, [at |-> "health", active |-> enabled, settled |->
                   ~restarting /\ \A o \in Requests : request[o] = NoRequest])
    /\ UNCHANGED <<installed, enabled, session, usb, page, warned, unsaid, restarting,
                   switches, losses>>
HealthFails(r) ==
    /\ request[r].at = "health" /\ Does(r, NoRequest) /\ Shows(r, NoPage)
    /\ UNCHANGED <<installed, enabled, session, usb, warned, unsaid, restarting,
                   switches, losses>>
HealthAnswers(r) ==
    /\ request[r].at = "health" /\ usb /\ Does(r, NoRequest)
    /\ Shows(r, [ok |-> session # NoProfile, active |-> request[r].active,
                 module |-> session,
                 settled |-> request[r].settled /\ ~warned /\ ~unsaid /\ ~restarting
                     /\ request[r].active = enabled])
    /\ UNCHANGED <<installed, enabled, session, usb, warned, unsaid, restarting,
                   switches, losses>>
-----------------------------------------------------------------------------
\* The module restarts: its link goes, and it comes back with the SIM session of
\* the profile that is enabled.
Restarts ==
    /\ restarting /\ usb
    /\ usb' = FALSE /\ session' = NoProfile
    /\ UNCHANGED <<installed, enabled, request, page, warned, unsaid, restarting,
                   switches, losses>>
Loses ==
    /\ losses < MaxLosses /\ usb /\ ~restarting
    /\ losses' = losses + 1 /\ usb' = FALSE
    /\ UNCHANGED <<installed, enabled, session, request, page, warned, unsaid,
                   restarting, switches>>
\* The next open of the USB AT link; after a restart, with a new session.
Returns ==
    /\ ~usb /\ usb' = TRUE
    /\ IF session = NoProfile
       THEN /\ session' = enabled /\ warned' = FALSE /\ unsaid' = FALSE
            /\ restarting' = FALSE
       ELSE UNCHANGED <<session, warned, unsaid, restarting>>
    /\ UNCHANGED <<installed, enabled, request, page, switches, losses>>

Next ==
    \/ Install \/ Restarts \/ Loses \/ Returns
    \/ \E r \in Requests :
          \/ Switch(r) \/ SwitchFails(r) \/ Switched(r) \/ Reboot(r)
          \/ Health(r) \/ HealthFails(r) \/ HealthAnswers(r)

\* A health page that says all is well names one profile for the card and for the
\* module, unless a switch was under way, failed after it had taken hold, or was
\* followed by a restart that was not confirmed or that the page only supposed
\* because the link was gone: esimHealth does not compare the two.
HealthIsHonest ==
    \A r \in Requests :
        page[r].ok /\ page[r].settled => page[r].active = page[r].module
=============================================================================
