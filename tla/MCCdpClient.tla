---------------------------- MODULE MCCdpClient -----------------------------
(* Calls of Send on one connection. *)
EXTENDS CdpClient, TLC
=============================================================================
