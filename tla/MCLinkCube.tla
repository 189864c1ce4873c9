----------------------------- MODULE MCLinkCube -----------------------------
(* LinkCube for TLC: a Wii that waits for the handler; and one that does   *)
(* not, and resets the Joybus in the middle of any call.                   *)
EXTENDS LinkCube

MCUses ==
  {[calls |-> {"send", "read", "wait"}, paced |-> TRUE, words |-> 5, resets |-> 0],
   [calls |-> {"send", "read", "wait", "didReset", "didQueueOverflow"},
    paced |-> FALSE, words |-> 3, resets |-> 1]}

=============================================================================
