-------------------------- MODULE WirelessMessages --------------------------
(***************************************************************************)
(* The messages of gbashared/lib/LinkWireless.hpp between a server and any *)
(* number of clients that stay: which transfers are sent and received in   *)
(* turns, what is forwarded, confirmed and released.  Wireless has the     *)
(* handlers step by step; here a command of the adapter is one step.       *)
(***************************************************************************)
EXTENDS WirelessPackets

CONSTANTS
  Exchanges   \* the values of config.retransmission and, as a bound, how many
              \*   messages each program sends

ASSUME MessagesAssumption ==
  Exchanges \subseteq [retransmission : BOOLEAN, words : [Consoles -> Nat]]

VARIABLES
  playerCount,  \* per console, LinkRawWireless: sessionState.playerCount
  exchange      \* the one of Exchanges that is followed

messagesVars == <<session, playerCount, linked, up, down, sent, got, exchange>>

MessagesInit ==
  /\ exchange \in Exchanges
  /\ session = [c \in Consoles |-> FreshSession(exchange.retransmission)]
  /\ playerCount = [c \in Consoles |-> 1]
  /\ linked = {}
  /\ up = [c \in Clients |-> None] /\ down = [c \in Clients |-> None]
  /\ sent = [c \in Consoles |-> 0]
  /\ got = [c \in Consoles |-> [p \in Consoles |-> 0]]

Online(c) == c = 0 \/ c \in linked

\* The server's adapter takes a client in, by the next player ID.
Joins(c) ==
  /\ linked = {p \in Clients : p < c}
  /\ linked' = linked \cup {c}
  /\ UNCHANGED <<session, playerCount, up, down, sent, got, exchange>>

SignalLevel ==
  /\ Cardinality(linked) >= playerCount[0]
  /\ playerCount' = [playerCount EXCEPT ![0] = 1 + Cardinality(linked)]
  /\ UNCHANGED <<session, linked, up, down, sent, got, exchange>>

Turn(c) == Online(c) /\ (c = 0 => playerCount[0] > 1)
shouldReceive(c) == ~session[c].sendReceiveLatch \/ session[c].shouldWaitForServer

\* sendPendingData(), and the end of its command.
SendData(c) ==
  /\ Turn(c) /\ ~shouldReceive(c)
  /\ LET x == Assigned(copyOutgoingState(session[c]), c)
         transfer == setDataFromOutgoingMessages(x, c, playerCount[c])
     IN  /\ Session(c, [clearInflightMessagesIfNeeded(x, c) EXCEPT
              !.shouldWaitForServer = c # 0, !.sendReceiveLatch = FALSE])
         /\ IF c = 0
            THEN down' = [p \in Clients |-> IF p \in linked THEN transfer ELSE None] /\ UNCHANGED up
            ELSE up' = [up EXCEPT ![c] = transfer] /\ UNCHANGED down
  /\ UNCHANGED <<playerCount, linked, sent, got, exchange>>

\* The end of ReceiveData.
Received(x, received) ==
  [x EXCEPT !.sendReceiveLatch = x.shouldWaitForServer \/ ~@,
            !.shouldWaitForServer = @ /\ ~received]

ReceiveData(c) ==
  /\ Turn(c) /\ shouldReceive(c)
  /\ LET data == IF c = 0 THEN up ELSE [i \in {0} |-> down[c]]
         received == \E i \in DOMAIN data : data[i] # None
         count == IF c # 0 /\ received THEN data[0].count ELSE playerCount[c]
         remote == IF c = 0 THEN {p \in Clients : p < count} ELSE {0}
         x == Received(session[c], received)
     IN  /\ Session(c, IF received THEN addIncomingMessagesFromData(x, c, data, remote, count) ELSE x)
         /\ playerCount' = [playerCount EXCEPT ![c] = count]
  /\ IF c = 0 THEN up' = [p \in Clients |-> None] /\ UNCHANGED down
     ELSE down' = [down EXCEPT ![c] = None] /\ UNCHANGED up
  /\ UNCHANGED <<linked, sent, got, exchange>>

\* send() and receive(), as Wireless has them step by step.
Sends(c) ==
  /\ Online(c) /\ sent[c] < exchange.words[c]
  /\ ~isFull(session[c].newOutgoing)
  /\ Session(c, [session[c] EXCEPT !.newOutgoing =
       push(@, [data |-> sent[c] + 1, player |-> c, id |-> NO_ID_ASSIGNED_YET])])
  /\ sent' = [sent EXCEPT ![c] = @ + 1]
  /\ UNCHANGED <<playerCount, linked, up, down, got, exchange>>

Reads(c) ==
  /\ session[c].incoming # <<>>
  /\ Session(c, [session[c] EXCEPT !.incoming = <<>>])
  /\ got' = [got EXCEPT ![c] = [p \in Consoles |-> LastOf(session[c].incoming, p, @[p])]]
  /\ UNCHANGED <<playerCount, linked, up, down, sent, exchange>>

MessagesNext ==
  \/ SignalLevel
  \/ \E c \in Consoles :
       \/ c \in Clients /\ Joins(c)
       \/ SendData(c) \/ ReceiveData(c)
       \/ Sends(c) \/ Reads(c)

MessagesSpec == MessagesInit /\ [][MessagesNext]_messagesVars

-----------------------------------------------------------------------------
(* Properties.                                                             *)

Lossless(p, c) ==
  /\ {p, c} \subseteq {0} \cup linked
  /\ \A d \in {p, c} : session[d].retransmission /\ ~session[d].overflow
  => NoneMissing(Here(session[c]), p, got[c][p], Coming(session[p], p), sent[p])

(* With retransmission no word is lost on its way to the server, or to a   *)
(* client while it is the only one, from the first word on, as long as no  *)
(* queue overflows; and no word, forwarded ones included, is repeated or   *)
(* overtaken by another.                                                   *)
NoMessageLoss ==
  \A p, c \in Consoles : p # c =>
    /\ session[c].retransmission => InOrder(Here(session[c]), p, got[c][p])
    /\ c = 0 => Lossless(p, c)
    /\ p = 0 /\ Cardinality(linked) <= 1 /\ playerCount[0] <= 2 => Lossless(p, c)

(* What a transfer is made from: the count of packets in flight and that   *)
(* of messages with a bitmap agree with the queue, through forwarding,     *)
(* confirmation and release.                                               *)
CountsAgree == \A c \in Consoles : Agree(session[c], c)

=============================================================================
