-------------------------- MODULE MCCableMultiboot --------------------------
(* CableMultiboot for TLC. *)
EXTENDS CableMultiboot
=============================================================================
