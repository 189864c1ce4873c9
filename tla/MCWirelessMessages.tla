------------------------- MODULE MCWirelessMessages -------------------------
(* WirelessMessages for TLC: one client whose messages are forwarded to    *)
(* the other; a server that has one of its own between them; a server with *)
(* two; and both clients, without retransmission.                          *)
EXTENDS WirelessMessages, TLC

Words(a, b, c) == 0 :> a @@ 1 :> b @@ 2 :> c

MCExchanges ==
  {[retransmission |-> TRUE, words |-> Words(0, 2, 0)],
   [retransmission |-> TRUE, words |-> Words(1, 1, 0)],
   [retransmission |-> TRUE, words |-> Words(2, 0, 0)],
   [retransmission |-> FALSE, words |-> Words(0, 1, 1)]}
=============================================================================
