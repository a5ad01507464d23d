---------------------------- MODULE MCSMSStorage ----------------------------
(* SMSStorage with a message of two parts and one of one part, and storages  *)
(* of the SIM and of the module with one cell each.                          *)
EXTENDS SMSStorage, TLC

CONSTANTS long, short, SM, ME
MCMessage == {long, short}
MCTotal == long :> 2 @@ short :> 1
MCStorage == {SM, ME}
MCIndex == {1}
=============================================================================
