-------------------------- MODULE MCPairingProtocol --------------------------
(* Two phones, the Mac's two codes, and four secrets that phones and two     *)
(* identifiers that the module may generate: a first binding of each phone,  *)
(* one of them cancelled or lost, and a recovery, or a retry with a new      *)
(* identifier.                                                               *)
EXTENDS PairingProtocol, TLC

CONSTANTS p1, p2, b, r, s1, s2, s3, s4, d1, d2
MCPhone == {p1, p2}
MCSecret == {b, r, s1, s2, s3, s4}
MCDeviceId == {d1, d2}
Symmetry == Permutations(MCPhone)
=============================================================================
