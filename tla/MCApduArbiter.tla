--------------------------- MODULE MCApduArbiter ---------------------------
(* Four requests, each any of: an exclusive transport (class EUICCWrite by   *)
(* default), a transport on one of two QMI channels, one of them of class    *)
(* USIMAKA, a session, a one-shot, a barrier with the default classes.       *)
EXTENDS ApduArbiter, TLC

CONSTANTS t1, t2, t3, t4
MCTicket == {t1, t2, t3, t4}
MCClass == {"EUICCWrite", "USIMAKA", "SMSC", "SwitchBarrier"}
Raw(type, class, channel, scope) ==
    [type |-> type, class |-> class, channel |-> channel, scope |-> scope,
     blocked |-> {}]
MCRawRequest ==
    {Raw("transport", "none", 0, "qmi_channel"),
     Raw("transport", "EUICCWrite", 1, "qmi_channel"),
     Raw("transport", "USIMAKA", 2, "qmi_channel"),
     Raw("session", "none", 0, "exclusive"),
     Raw("oneshot", "none", 0, "exclusive"),
     Raw("barrier", "none", 0, "exclusive")}
Symmetry == Permutations(MCTicket)
=============================================================================
