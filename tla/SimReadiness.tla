---------------------------- MODULE SimReadiness ----------------------------
(* The readiness gate of SIM authentication, internal/apduarbiter/           *)
(* simauth_ready.go.  Callers wait until a probe has found the SIM readable; *)
(* one of them probes without holding Arbiter.mu while the others sleep on   *)
(* its channel, and a profile switch or a reset of the modem invalidates     *)
(* what was found, also what a probe is about to find.                       *)
EXTENDS Naturals, FiniteSets

CONSTANTS
    Waiter,         \* callers of WaitSIMAuthReady
    MaxGeneration   \* bound: invalidations of a behaviour

VARIABLES
    generation, isReady,    \* simAuthReady.generation and .ready
    pc,             \* pc[w]: where the call of w is
    snapshot,       \* snapshot[w]: the generation w probes for
    proven          \* history: the newest generation a probe begun in it proved

vars == <<generation, isReady, pc, snapshot, proven>>

\* The generation is that of the code and one, so that 0 stands for none.
Init ==
    /\ generation = 1 /\ isReady = FALSE
    /\ pc = [w \in Waiter |-> "out"]
    /\ snapshot = [w \in Waiter |-> 0]
    /\ proven = 0

Probers == {w \in Waiter : pc[w] = "probing"}

Invalidate ==
    /\ generation < MaxGeneration
    /\ generation' = generation + 1
    /\ isReady' = FALSE
    /\ UNCHANGED <<pc, snapshot, proven>>

Ask(w) ==
    /\ pc[w] \in {"out", "passed"}
    /\ pc' = [pc EXCEPT ![w] = "look"]
    /\ UNCHANGED <<generation, isReady, snapshot, proven>>

\* One look at the gate: pass, sleep on the channel of the probe, or probe.
Pass(w) ==
    /\ pc[w] = "look" /\ isReady
    /\ pc' = [pc EXCEPT ![w] = "passed"]
    /\ UNCHANGED <<generation, isReady, snapshot, proven>>

SleepOn(w) ==
    /\ pc[w] = "look" /\ ~isReady /\ Probers # {}
    /\ pc' = [pc EXCEPT ![w] = "asleep"]
    /\ UNCHANGED <<generation, isReady, snapshot, proven>>

BeginProbe(w) ==
    /\ pc[w] = "look" /\ ~isReady /\ Probers = {}
    /\ pc' = [pc EXCEPT ![w] = "probing"]
    /\ snapshot' = [snapshot EXCEPT ![w] = generation]
    /\ UNCHANGED <<generation, isReady, proven>>

\* Closing waitC: the callers that sleep look again.
Woken(f) == [w \in Waiter |-> IF f[w] = "asleep" THEN "look" ELSE f[w]]

\* The probe's outcome counts if nothing was invalidated since it began; a
\* caller whose probe succeeded in vain looks again.
EndProbe(w, found) ==
    /\ pc[w] = "probing"
    /\ isReady' = (IF snapshot[w] = generation THEN found ELSE isReady)
    /\ pc' = [Woken(pc) EXCEPT ![w] =
                IF ~found THEN "out"
                ELSE IF snapshot[w] = generation THEN "passed" ELSE "look"]
    /\ proven' = IF found THEN snapshot[w] ELSE proven
    /\ UNCHANGED <<generation, snapshot>>

\* The caller's context ends while it looks or sleeps.
GiveUp(w) ==
    /\ pc[w] \in {"look", "asleep"}
    /\ pc' = [pc EXCEPT ![w] = "out"]
    /\ UNCHANGED <<generation, isReady, snapshot, proven>>

Next ==
    \/ Invalidate
    \/ \E w \in Waiter :
        \/ Ask(w) \/ Pass(w) \/ SleepOn(w) \/ BeginProbe(w) \/ GiveUp(w)
        \/ \E found \in BOOLEAN : EndProbe(w, found)

Spec == Init /\ [][Next]_vars

-----------------------------------------------------------------------------
TypeOK ==
    /\ generation \in Nat \ {0} /\ isReady \in BOOLEAN
    /\ pc \in [Waiter -> {"out", "look", "asleep", "probing", "passed"}]
    /\ snapshot \in [Waiter -> Nat]
    /\ proven \in Nat

\* The gate is open only on the evidence of a probe that began after the last
\* invalidation, one probe uses the card at a time, and no caller sleeps when
\* there is no probe whose end would wake it.
GateIsCurrent == isReady => proven = generation
ProbesAlone == \A v, w \in Probers : v = w
SleepersHaveProbe == (\E w \in Waiter : pc[w] = "asleep") => Probers # {}
GateIsSound == GateIsCurrent /\ ProbesAlone /\ SleepersHaveProbe
=============================================================================
