----------------------------- MODULE MCHostLive -----------------------------
(* What must come about on the Mac host: the AT engine and the voice route   *)
(* of MCHostSide, and the USB AT link, which shares no state with them.      *)
EXTENDS MCHostSide

CONSTANTS MaxProfiles, MaxTroubles
VARIABLES handle, late, backoff, openMu, profileMu, caller, command, armed,
    present, radio, uac, lost, throttled, profiles, troubles
L == INSTANCE HostLink WITH at <- caller, cmd <- command
link == <<handle, late, backoff, openMu, profileMu, caller, command, armed,
          present, radio, uac, lost, throttled, profiles, troubles>>

\* The variables of the parts a behaviour is not one of.
NoVoice ==
    /\ call = 0 /\ known = 0 /\ poll = 0 /\ seen = 0 /\ timer = 0 /\ callback = 0
    /\ tear = 0 /\ op = 0 /\ warm = 0 /\ handler = 0 /\ ready = 0 /\ blocked = 0
    /\ recent = 0 /\ failed = 0 /\ up = 0 /\ swift = 0 /\ manual = 0 /\ playing = 0
NoLink ==
    /\ handle = 0 /\ late = 0 /\ backoff = 0 /\ openMu = 0 /\ profileMu = 0
    /\ caller = 0 /\ command = 0 /\ armed = 0 /\ present = 0 /\ radio = 0 /\ uac = 0
    /\ lost = 0 /\ throttled = 0 /\ profiles = 0 /\ troubles = 0

LiveInit ==
    /\ Init
    /\ \/ part = "engine" /\ NoVoice /\ NoLink
       \/ part = "voice" /\ V!Init /\ NoLink
       \/ part = "link" /\ NoVoice /\ L!Init
LiveNext ==
    \/ HostNext /\ UNCHANGED link
    \/ part = "link" /\ L!Next /\ UNCHANGED <<part, vars, voice>>

LinkFairness ==
    /\ WF_link(part = "link" /\ L!Signal) /\ WF_link(part = "link" /\ L!Other)
    /\ WF_link(part = "link" /\ L!Timers) /\ WF_link(part = "link" /\ L!Plug)
\* Of the bounds of MCHostSide only one that leaves Timeout possible, so that no
\* step is kept from being taken that fairness asks for.
FairLiveSpec ==
    /\ LiveInit /\ [][LiveNext /\ OneEscAnswered]_<<part, vars, voice, link>>
    /\ HostFairness /\ LinkFairness

\* An active call gets its route or an attempt was made for it, and a radio that
\* the signal loop switched off comes on again: ActiveCallGetsRoute of VoiceRoute
\* and RadioComesBack of HostLink in one formula, as a behaviour is of one part.
CallAndRadioComeThrough ==
    \/ part = "voice" /\ call = "active"
    \/ part = "link" /\ radio = "off"
    ~> \/ part = "voice" /\ V!IsRouted
       \/ part = "link" /\ L!RadioIsBack
=============================================================================
