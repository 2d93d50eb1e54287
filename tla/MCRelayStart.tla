---------------------------- MODULE MCRelayStart ----------------------------
(* Profiles opening at once on a machine with few free ports. *)
EXTENDS RelayStart, TLC
=============================================================================
