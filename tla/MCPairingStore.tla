--------------------------- MODULE MCPairingStore ---------------------------
(* PairingStore with six secrets (two codes and credentials to enroll, each  *)
(* usable in any role), three identifiers and room for two devices.          *)
EXTENDS PairingStore, TLC

CONSTANTS s1, s2, s3, s4, s5, s6, d1, d2, d3
MCSecret == {s1, s2, s3, s4, s5, s6}
MCDeviceId == {d1, d2, d3}
Symmetry == Permutations(MCSecret) \cup Permutations(MCDeviceId)
=============================================================================
