----------------------------- MODULE MCLinkCable ----------------------------
(* LinkCable for TLC. *)
EXTENDS LinkCable
=============================================================================
