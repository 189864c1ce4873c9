---------------------------- MODULE MCLinkMobile ----------------------------
(* LinkMobile for TLC.  DNS_QUERY and OPEN_CONNECTION are answered like    *)
(* TRANSFER, so no program makes them.  Transfers come with two structs    *)
(* that ask for different things, or with one that asks for one thing and  *)
(* then for another; or a connection is closed as well.                    *)
EXTENDS LinkMobile

CONSTANTS s1, s2, s3, q1, q2

MCQuestions == [s \in Slots |-> CASE s = s1 -> {q1} [] s = s2 -> {q2} [] s = s3 -> {q1, q2}]

Structs(transfers, closes) ==
  [s \in Slots |-> CASE s \in transfers -> "TRANSFER"
                     [] s \in closes    -> "CLOSE_CONNECTION"
                     [] OTHER           -> "DNS_QUERY"]

MCUses ==
  {<<{"TRANSFER"}, TRUE, Structs({s1, s2}, {})>>,
   <<{"TRANSFER", "HANG_UP"}, TRUE, Structs({s3}, {})>>,
   <<{"CALL", "SHUTDOWN"}, FALSE, Structs({}, {})>>,
   <<{"PPP_LOGIN", "CLOSE_CONNECTION", "TRANSFER"}, TRUE, Structs({s1}, {s2})>>}

=============================================================================
