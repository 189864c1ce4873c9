-------------------------- MODULE WirelessPackets ---------------------------
(***************************************************************************)
(* gbashared/lib/LinkWireless.hpp: what a console does with its messages,  *)
(* as functions of its SessionState.  A message is sent in every transfer, *)
(* under an ID that wraps around, until it is confirmed; a server forwards *)
(* what a client sends to the others.                                      *)
(***************************************************************************)
EXTENDS Integers, Sequences, FiniteSets

CONSTANTS
  Clients,               \* the clients, by the player ID their adapter gets
  MAX_PACKET_IDS_SERVER, MAX_PACKET_IDS_CLIENT,
  Size,                  \* LINK_WIRELESS_QUEUE_SIZE
  Transfer,              \* messages a transfer has room for
  Heartbeats             \* values of a client's heartbeat; 1 leaves it out

ASSUME PacketsAssumption ==
  /\ Clients \subseteq 1..4 /\ Clients # {}
  /\ MAX_PACKET_IDS_SERVER \in {4, 8, 16, 32, 64}
  /\ MAX_PACKET_IDS_CLIENT \in {4, 8, 16}
  /\ Size \in Nat \ {0} /\ Transfer \in Nat \ {0}
  /\ Heartbeats \in Nat \ {0}

VARIABLES
  session,    \* per console, LinkWireless::SessionState
  linked,     \* the clients whose adapter is linked to the server's
  up, down,   \* per client, the transfer from it, and the one to it
  sent, got   \* per console, the last word sent; the last one read, per player

Consoles == {0} \cup Clients      \* 0 is the server

Session(c, x) == session' = [session EXCEPT ![c] = x]

None == [type |-> "none"]
NO_ID_ASSIGNED_YET == -1
NO_ACK_RECEIVED_YET == -1

-----------------------------------------------------------------------------
(* The state of a session; retransmission is part of the configuration.    *)

\* resetState(): a queue the program reads, or writes to, is cleared later.
ResetSession(x) ==
  [retransmission |-> x.retransmission,
   incoming |-> IF x.isReading THEN x.incoming ELSE <<>>,
   isReading |-> x.isReading,
   outgoing |-> <<>>, newIncoming |-> <<>>,
   newOutgoing |-> IF x.isWriting THEN x.newOutgoing ELSE <<>>,
   isWriting |-> x.isWriting,
   needsClear |-> x.needsClear \/ x.isWriting,
   overflow |-> FALSE,
   recvTimeout |-> 0, recvFlag |-> FALSE,
   msgTimeouts |-> [p \in Consoles |-> 0],
   msgFlags |-> [p \in Consoles |-> FALSE],
   signalLevelCalled |-> FALSE, sendReceiveLatch |-> FALSE,
   shouldWaitForServer |-> FALSE, didReceiveFirstPacketFromServer |-> FALSE,
   inflightCount |-> 0, forwardedCount |-> 0, lastPacketId |-> 0,
   lastPacketIdFrom |-> [p \in Consoles |-> 0],
   lastAckFrom |-> [p \in Consoles |-> IF p = 0 THEN 0 ELSE NO_ACK_RECEIVED_YET],
   lastHeartbeatFrom |-> [p \in Consoles |-> -1],
   localHeartbeat |-> -1, isResetTimeoutPending |-> FALSE]

FreshSession(retransmission) ==
  ResetSession([retransmission |-> retransmission, incoming |-> <<>>, newOutgoing |-> <<>>,
                isReading |-> FALSE, isWriting |-> FALSE, needsClear |-> FALSE])

-----------------------------------------------------------------------------
(* The queues.                                                             *)

isFull(q) == Len(q) = Size
push(q, item) == Append(IF isFull(q) THEN Tail(q) ELSE q, item)

Fits(src, dst) == IF Len(src) <= Size - Len(dst) THEN Len(src) ELSE Size - Len(dst)
MovedTo(src, dst)   == dst \o SubSeq(src, 1, Fits(src, dst))
MovedFrom(src, dst) == SubSeq(src, Fits(src, dst) + 1, Len(src))

copyOutgoingState(x) ==
  IF x.isWriting THEN x
  ELSE [x EXCEPT !.outgoing = MovedTo(x.newOutgoing, @),
                 !.newOutgoing = MovedFrom(@, x.outgoing)]

copyIncomingState(x) ==
  IF x.isReading THEN x
  ELSE [x EXCEPT !.incoming = MovedTo(x.newIncoming, @),
                 !.newIncoming = MovedFrom(@, x.incoming)]

-----------------------------------------------------------------------------
(* Sending.  The messages with an ID come first in outgoingMessages.       *)

PacketIds(c) == IF c = 0 THEN MAX_PACKET_IDS_SERVER ELSE MAX_PACKET_IDS_CLIENT
MaxInflight(c) == PacketIds(c) \div 2 - 1

HasId(message) == message.id # NO_ID_ASSIGNED_YET
Numbered(q) == Cardinality({n \in DOMAIN q : HasId(q[n])})
Least(S) == CHOOSE n \in S : \A m \in S : n <= m

\* How many messages the next transfer carries.
Carried(x, c) ==
  Least({Len(x.outgoing), Transfer, Numbered(x.outgoing) + MaxInflight(c) - x.inflightCount})

\* IDs for the messages carried for the first time, and the client's heartbeat.
Assigned(x, c) ==
  LET old == Numbered(x.outgoing)
      new == IF Carried(x, c) > old THEN Carried(x, c) - old ELSE 0
  IN  [x EXCEPT
        !.outgoing = [n \in DOMAIN @ |->
           IF n \in old + 1 .. old + new
           THEN [@[n] EXCEPT !.id = (x.lastPacketId + n - old) % PacketIds(c)]
           ELSE @[n]],
        !.inflightCount = @ + new,
        !.lastPacketId = (@ + new) % PacketIds(c),
        !.localHeartbeat = IF c = 0 THEN @ ELSE (@ + 1) % Heartbeats]

\* The transfer.  Who sent its messages is in bitmaps, there when the server
\* has counted forwarded messages.
setDataFromOutgoingMessages(x, c, playerCount) ==
  LET n == Least({Transfer, Numbered(x.outgoing)})
  IN  [type |-> "data",
       count |-> IF c = 0 THEN playerCount ELSE x.localHeartbeat,
       ack |-> x.lastPacketIdFrom,
       firstPacketId |-> IF n = 0 THEN 0 ELSE x.outgoing[1].id,
       messages |-> [k \in 1..n |->
         [data |-> x.outgoing[k].data,
          player |-> IF x.forwardedCount > 0 THEN x.outgoing[k].player ELSE 0]]]

Forwarded(q) == Cardinality({n \in DOMAIN q : q[n].player > 0})

\* Mutant: a forwarded message is still counted when it has left.
ReleasedUncounted(x, c, n) ==
  [x EXCEPT !.outgoing = SubSeq(@, n + 1, Len(@)), !.inflightCount = @ - n]
\* The first n messages leave outgoingMessages.
Released(x, c, n) ==
  [x EXCEPT !.outgoing = SubSeq(@, n + 1, Len(@)),
            !.inflightCount = @ - n,
            !.forwardedCount = IF c = 0 THEN @ - Forwarded(SubSeq(x.outgoing, 1, n)) ELSE @]

\* Mutant: what was sent is forgotten with retransmission as well.
clearInflightMessages(x, c) ==
  [Released(x, c, Numbered(x.outgoing)) EXCEPT !.inflightCount = 0]
\* Without retransmission, what was sent is forgotten.
clearInflightMessagesIfNeeded(x, c) ==
  IF x.retransmission THEN x
  ELSE [Released(x, c, Numbered(x.outgoing)) EXCEPT !.inflightCount = 0]

-----------------------------------------------------------------------------
(* Receiving.                                                              *)

Expected(x, i) == (x.lastPacketIdFrom[i] + 1) % PacketIds(i)

\* Only the next packet ID is accepted, the first one of a server excepted.
Accepts(x, i, packetId) ==
  \/ i = 0 /\ ~x.didReceiveFirstPacketFromServer
  \/ ~x.retransmission
  \/ packetId = Expected(x, i)

Noted(x, i, packetId) ==
  [x EXCEPT !.lastPacketIdFrom[i] =
              IF x.retransmission \/ (i = 0 /\ ~x.didReceiveFirstPacketFromServer)
              THEN packetId ELSE @,
            !.didReceiveFirstPacketFromServer = @ \/ i = 0]

\* forwardMessage(), when the server has other clients.
forwardMessage(x, message, playerCount) ==
  IF playerCount <= 2 THEN x
  ELSE IF isFull(x.outgoing) THEN [x EXCEPT !.overflow = TRUE]
  ELSE [x EXCEPT !.outgoing = Append(@, message), !.forwardedCount = @ + 1]

processMessage(x, c, i, message, packetId, playerCount) ==
  LET player == IF i = 0 THEN message.player ELSE i
      item == [data |-> message.data, player |-> player, id |-> NO_ID_ASSIGNED_YET]
      noted == Noted(x, i, packetId)
      added == [noted EXCEPT !.newIncoming = push(@, item),
                             !.overflow = @ \/ isFull(x.newIncoming)]
  IN  IF ~Accepts(x, i, packetId) THEN x
      ELSE IF player = c THEN noted
      ELSE IF i > 0 THEN forwardMessage(added, item, playerCount)
      ELSE added

processMessages(x, c, i, transfer, playerCount) ==
  LET after[n \in 0..Len(transfer.messages)] ==
        IF n = 0 THEN x
        ELSE processMessage(after[n - 1], c, i, transfer.messages[n],
                            (transfer.firstPacketId + n - 1) % PacketIds(i), playerCount)
  IN  after[Len(transfer.messages)]

\* Mutant: any data is a sign of life.
HeardAnything(x, c, i, transfer) ==
  [x EXCEPT !.msgTimeouts[0] = 0, !.msgTimeouts[i] = 0,
            !.msgFlags[0] = TRUE, !.msgFlags[i] = TRUE]
\* The transfer of a client that does nothing repeats its heartbeat.
Heard(x, c, i, transfer) ==
  IF c = 0 /\ transfer.count = x.lastHeartbeatFrom[i] THEN x
  ELSE [x EXCEPT !.lastHeartbeatFrom[i] = IF c = 0 THEN transfer.count ELSE @,
                 !.msgTimeouts[0] = 0, !.msgTimeouts[i] = 0,
                 !.msgFlags[0] = TRUE, !.msgFlags[i] = TRUE]

\* Mutant: every packet that was sent is taken for confirmed.
removeSentMessages(x, c, ack) == Released(x, c, Numbered(x.outgoing))
\* The confirmed packets at the front of outgoingMessages, in the send window.
removeConfirmedMessages(x, c, ack) ==
  LET confirmed(n) == /\ HasId(x.outgoing[n])
                      /\ (ack - x.outgoing[n].id) % PacketIds(c) <= MaxInflight(c)
      n == Least({k \in 1 .. Len(x.outgoing) + 1 :
                    k = Len(x.outgoing) + 1 \/ ~confirmed(k)}) - 1
  IN  Released(x, c, n)

\* ringMinAck: another client's ack replaces it when it is "behind" it, in the
\* circle of the clients' IDs.
RingMinAck(x, playerCount) ==
  LET after[i \in 0..4] ==
        IF i = 0 \/ i \notin Clients \/ i >= playerCount \/ x.lastAckFrom[i] = NO_ACK_RECEIVED_YET
        THEN IF i = 0 THEN NO_ACK_RECEIVED_YET ELSE after[i - 1]
        ELSE IF \/ after[i - 1] = NO_ACK_RECEIVED_YET
                \/ (after[i - 1] - x.lastAckFrom[i]) % MAX_PACKET_IDS_CLIENT >= MaxInflight(1)
        THEN x.lastAckFrom[i]
        ELSE after[i - 1]
  IN  after[4]

ConfirmedAck(x, c, playerCount) ==
  IF c = 0 THEN RingMinAck(x, playerCount) ELSE x.lastAckFrom[0]

IncomingFrom(x, c, i, transfer, playerCount) ==
  LET acked == [x EXCEPT !.lastAckFrom[i] = IF x.retransmission THEN transfer.ack[c] ELSE @]
  IN  Heard(processMessages(acked, c, i, transfer, playerCount), c, i, transfer)

\* data gives the transfer of each player, or None; remote are those listened to.
addIncomingMessagesFromData(x, c, data, remote, playerCount) ==
  LET after[i \in -1..4] ==
        IF i = -1 THEN x
        ELSE IF i \notin remote \cap DOMAIN data THEN after[i - 1]
        ELSE IF data[i] = None THEN after[i - 1]
        ELSE IncomingFrom(after[i - 1], c, i, data[i], playerCount)
      ack == ConfirmedAck(after[4], c, playerCount)
  IN  copyIncomingState(
        IF x.retransmission /\ ack # NO_ACK_RECEIVED_YET
        THEN removeConfirmedMessages(after[4], c, ack) ELSE after[4])

-----------------------------------------------------------------------------
(* What the properties say about messages.                                 *)

PlacesOf(q, p) == {n \in DOMAIN q : q[n].player = p}
WordsOf(q, p)  == {q[n].data : n \in PlacesOf(q, p)}
Greatest(S)    == CHOOSE n \in S : \A m \in S : m <= n

\* The word of p before place n of q; last is the one before the queue.
WordBefore(q, p, n, last) ==
  LET before == {m \in PlacesOf(q, p) : m < n}
  IN  IF before = {} THEN last ELSE q[Greatest(before)].data

LastOf(q, p, last) == WordBefore(q, p, Len(q) + 1, last)

(* What a console has received and its program has not read.               *)
Here(x) == x.incoming \o x.newIncoming

(* The words of p that are still in the queues of its own console.         *)
Coming(x, p) == WordsOf(x.outgoing, p) \cup WordsOf(x.newOutgoing, p)

(* None of the words of p is repeated, and none overtaken by another.      *)
InOrder(q, p, last) ==
  \A n \in PlacesOf(q, p) :
    q[n].data > last /\ \A m \in PlacesOf(q, p) : m < n => q[m].data < q[n].data

(* Every word after the last one the program has read, up to the end, is   *)
(* here, in the order of sending and once, or coming: a console has to     *)
(* keep what has not got to the other, as any transfer may be lost.        *)
NoneMissing(q, p, last, coming, end) ==
  /\ \A n \in PlacesOf(q, p) : q[n].data = WordBefore(q, p, n, last) + 1
  /\ LastOf(q, p, last) + 1 .. end \subseteq coming

(* The counts a console steers by agree with its queue: the packets in     *)
(* flight, and the messages that need a bitmap.                            *)
Agree(x, c) ==
  /\ x.inflightCount = Numbered(x.outgoing)
  /\ x.inflightCount <= MaxInflight(c)
  /\ c = 0 => x.forwardedCount = Forwarded(x.outgoing)

=============================================================================
