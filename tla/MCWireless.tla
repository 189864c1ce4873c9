----------------------------- MODULE MCWireless -----------------------------
(* Wireless for TLC: two words, of which a transfer may be replaced before *)
(* it is read; a word with an incident on its way; and a call with its     *)
(* command and an incident.                                                *)
EXTENDS Wireless

MCBudgets == {[words |-> 2, calls |-> 0, incidents |-> 0],
              [words |-> 1, calls |-> 0, incidents |-> 1],
              [words |-> 0, calls |-> 1, incidents |-> 1]}
=============================================================================
