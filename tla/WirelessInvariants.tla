------------------------- MODULE WirelessInvariants -------------------------
(***************************************************************************)
(* The invariants that the proofs of WirelessProofs are about, and what    *)
(* they say of a step: of a console's session before and after it, of the  *)
(* transfers in the adapters, and of a loop by the states it goes through. *)
(***************************************************************************)
EXTENDS Wireless, WirelessMessages

-----------------------------------------------------------------------------
(* The commands: who has the adapter.                                      *)

Places == {"idle", "push", "pop", "check", "command", "answered"}

(* The parts of the state that keep the commands apart are functions; the  *)
(* fields of raw that do not matter here may have any value.               *)
Shape ==
  /\ at \in [Consoles -> Places]
  /\ isSendingSyncCommand \in [Consoles -> BOOLEAN]
  /\ command = [c \in Consoles |-> command[c]]
  /\ raw = [c \in Consoles |-> [state |-> raw[c].state,
                                playerCount |-> raw[c].playerCount,
                                isServerClosed |-> raw[c].isServerClosed]]

(* While the program has the adapter the handlers are kept out: by the     *)
(* flag, or, when a handler has reset the console and the flag with it, by *)
(* the session that has ended.  Only the program can begin another one.    *)
HandlersKeptOut ==
  \A c \in Consoles : at[c] \in {"check", "command", "answered"} =>
    isSendingSyncCommand[c] \/ ~isSessionActive(c)

CInv == Shape /\ HandlersKeptOut /\ OneCommandAtATime

\* A console's own part of what CInv speaks of.
Same(d) == /\ at'[d] = at[d] /\ isSendingSyncCommand'[d] = isSendingSyncCommand[d]
           /\ command'[d] = command[d] /\ raw'[d].state = raw[d].state

\* The part of CInv about one console.
Apart(c) ==
  /\ at[c] \in {"check", "command", "answered"} =>
       isSendingSyncCommand[c] \/ ~isSessionActive(c)
  /\ at[c] \in {"command", "answered"} => command[c] = None

-----------------------------------------------------------------------------
(* What a session is, and what of it shows who is there.                   *)

SessionFields ==
  {"retransmission", "incoming", "isReading", "outgoing", "newIncoming", "newOutgoing",
   "isWriting", "needsClear", "overflow", "recvTimeout", "recvFlag", "msgTimeouts",
   "msgFlags", "signalLevelCalled", "sendReceiveLatch", "shouldWaitForServer",
   "didReceiveFirstPacketFromServer", "inflightCount", "forwardedCount", "lastPacketId",
   "lastPacketIdFrom", "lastAckFrom", "lastHeartbeatFrom", "localHeartbeat",
   "isResetTimeoutPending"}

Message == [data : Nat, player : Nat, id : Int]
Packet  == [data : Nat, player : Nat]
Queue   == {q \in Seq(Message) : Len(q) <= Size}

\* What the queues have to be for a transfer to be a sequence of messages.
Sending(x) ==
  /\ DOMAIN x = SessionFields
  /\ x.outgoing \in Queue /\ x.newOutgoing \in Queue
  /\ x.inflightCount \in Int /\ x.lastPacketId \in Int

SameWatch(x, y) ==
  /\ y.recvTimeout = x.recvTimeout /\ y.recvFlag = x.recvFlag
  /\ y.msgTimeouts = x.msgTimeouts /\ y.msgFlags = x.msgFlags
  /\ y.lastHeartbeatFrom = x.lastHeartbeatFrom

Kept(x, y) == Sending(y) /\ SameWatch(x, y)

\* f holds the state after 0, 1, ..., n messages of a transfer.
Processed(f, x, c, i, transfer, count, n) ==
  f = [k \in 0..n |->
         IF k = 0 THEN x
         ELSE processMessage(f[k - 1], c, i, transfer.messages[k],
                             (transfer.firstPacketId + k - 1) % PacketIds(i), count)]

Watched(x) ==
  /\ x.recvTimeout \in Nat /\ x.recvFlag \in BOOLEAN
  /\ x.msgTimeouts \in [Consoles -> Nat] /\ x.msgFlags \in [Consoles -> BOOLEAN]
  /\ DOMAIN x.lastHeartbeatFrom = Consoles

IsSession(x) == Sending(x) /\ Watched(x)

\* What y, a later state than x, has for p is what x has.
SameFor(x, y, p) ==
  /\ y.msgTimeouts[p] = x.msgTimeouts[p] /\ y.msgFlags[p] = x.msgFlags[p]
  /\ y.lastHeartbeatFrom[p] = x.lastHeartbeatFrom[p]

HeardOf(y, p) == y.msgTimeouts[p] = 0 /\ y.msgFlags[p]

SameFrames(x, y) ==
  /\ y.recvTimeout = x.recvTimeout /\ y.recvFlag = x.recvFlag

Speaks(x, slot, i, p) == p <= i /\ slot # None /\ slot.count # x.lastHeartbeatFrom[p]

\* What the server makes of the slots of its adapter, up to player i.
ServerHeard(x, y, data, remote, i) ==
  /\ IsSession(y) /\ SameFrames(x, y)
  /\ \A p \in Clients :
       IF p \in remote /\ Speaks(x, data[p], i, p)
       THEN HeardOf(y, p) /\ y.lastHeartbeatFrom[p] = data[p].count
       ELSE SameFor(x, y, p)

Transfers(data) ==
  \A p \in DOMAIN data : data[p] # None => data[p].messages \in Seq(Packet)

\* The states after each player, as addIncomingMessagesFromData has them.
Incoming(f, x, c, data, remote, count) ==
  f = [i \in -1..4 |->
         IF i = -1 THEN x
         ELSE IF i \notin remote \cap DOMAIN data THEN f[i - 1]
         ELSE IF data[i] = None THEN f[i - 1]
         ELSE IncomingFrom(f[i - 1], c, i, data[i], count)]

-----------------------------------------------------------------------------
(* The invariant about who has left.                                       *)

Sent(transfer, c) ==
  /\ transfer.messages \in Seq(Packet)
  /\ c = 0 => transfer.count \in Nat /\ transfer.count > 1

States(c) == IF c = 0 THEN {"NEEDS_RESET", "AUTHENTICATED", "SERVING"}
             ELSE {"NEEDS_RESET", "AUTHENTICATED", "SEARCHING", "CONNECTING", "CONNECTED"}

Own(c) ==
  /\ IsSession(session[c])
  /\ raw[c].state \in States(c) /\ raw[c].playerCount \in Nat
  /\ c # 0 => call[c] \in {"none", "getSignalLevel"}
  /\ c # 0 => (session[c].msgFlags[0] => isConnected(c))
  /\ command[c].type = "SEND_DATA" => Sent(command[c].data, c)
  /\ sent[c] \in Nat

Domains ==
  /\ DOMAIN session = Consoles /\ DOMAIN call = Consoles /\ DOMAIN sent = Consoles
  /\ silent \in [Consoles -> [Consoles -> Nat]]

Slots ==
  /\ DOMAIN up = Clients /\ DOMAIN down = Clients
  /\ \A p \in Clients : /\ up[p] # None => Sent(up[p], p)
                        /\ down[p] # None => Sent(down[p], 0)

\* A server that is closed has counted everyone who is linked.
CountedWhenClosed ==
  /\ linked \subseteq Clients
  /\ raw[0].isServerClosed => raw[0].playerCount >= 1 + Cardinality(linked)

Waits(c, p) ==
  IF c = 0 THEN p \in Clients /\ up[p] # None /\ up[p].count # session[0].lastHeartbeatFrom[p]
  ELSE p = 0 /\ down[c] # None

Overdue(x, s, p, waits, connected) ==
  /\ waits => /\ s <= timeout
              /\ \/ ~x.msgFlags[p] /\ s <= x.msgTimeouts[p]
                 \/ ~x.recvFlag /\ connected /\ s <= x.recvTimeout + 1
  /\ ~waits /\ x.msgFlags[p] => x.msgTimeouts[p] = 0 /\ s <= timeout
  /\ ~waits /\ ~x.msgFlags[p] => s <= timeout + 1 + x.msgTimeouts[p] /\ x.msgTimeouts[p] <= timeout

Noticing(c, p) ==
  silent[c][p] > 0 =>
    /\ ~Alive(c, p) /\ isSessionActive(c)
    /\ p \in Remote(c) => Overdue(session[c], silent[c][p], p, Waits(c, p), isConnected(c))
    /\ p \notin Remote(c) => c = 0 /\ raw[0].isServerClosed /\ silent[c][p] <= 2 * timeout + 1

Typed == Shape /\ Domains /\ Slots /\ CountedWhenClosed /\ \A c \in Consoles : Own(c)
NInv == Typed /\ \A c, p \in Consoles : Noticing(c, p)

\* What a step that does nothing about p does to what c has of it.
PairKept(c, p) ==
  silent'[c][p] > 0 =>
    /\ silent'[c][p] = silent[c][p]
    /\ raw'[c].state = raw[c].state /\ raw'[c].playerCount = raw[c].playerCount
    /\ raw'[c].isServerClosed = raw[c].isServerClosed
    /\ SameFrames(session[c], session'[c]) /\ SameFor(session[c], session'[c], p)
    /\ IF c = 0 THEN p \in Clients => up'[p] = up[p] ELSE down'[c] = down[c]
    /\ Alive(c, p)' => Alive(c, p)

\* Only the queues, the command and the like of console c change.
Bystanding(c) ==
  /\ UNCHANGED <<raw, linked, up, down, silent>>
  /\ \A d \in Consoles \ {c} : /\ session'[d] = session[d] /\ call'[d] = call[d]
                               /\ command'[d] = command[d] /\ sent'[d] = sent[d]
  /\ Kept(session[c], session'[c])

\* A command of console c ends; the transfers under way may change.
Ending(c) ==
  /\ UNCHANGED <<linked, sent, call, silent>>
  /\ DOMAIN session' = Consoles /\ DOMAIN command' = Consoles
  /\ \A d \in Consoles \ {c} : session'[d] = session[d] /\ command'[d] = command[d]
                               /\ raw'[d] = raw[d]
  /\ command'[c] = None

-----------------------------------------------------------------------------
(* What the operations on the queues do to a session x.                    *)

ForwardedPlaces(q) == {k \in 1 .. Len(q) : q[k].player > 0}

\* What a console needs to send, and what it has received.
SameSender(x, y) ==
  /\ DOMAIN y = SessionFields
  /\ y.outgoing = x.outgoing /\ y.newOutgoing = x.newOutgoing /\ y.isWriting = x.isWriting
  /\ y.inflightCount = x.inflightCount /\ y.forwardedCount = x.forwardedCount
  /\ y.lastPacketId = x.lastPacketId

SameReceiver(x, y) ==
  /\ DOMAIN y = SessionFields
  /\ y.incoming = x.incoming /\ y.newIncoming = x.newIncoming /\ y.isReading = x.isReading
  /\ y.overflow = x.overflow /\ y.retransmission = x.retransmission
  /\ y.lastPacketIdFrom = x.lastPacketIdFrom
  /\ y.didReceiveFirstPacketFromServer = x.didReceiveFirstPacketFromServer

\* The first n messages of a queue are now behind those of another.
Moves(src, dst, n, from, to) ==
  /\ n \in Nat /\ n <= Len(src)
  /\ Len(to) = Len(dst) + n /\ Len(from) = Len(src) - n
  /\ \A k \in 1 .. Len(dst) : to[k] = dst[k]
  /\ \A k \in 1 .. n : to[Len(dst) + k] = src[k]
  /\ \A k \in 1 .. Len(src) - n : from[k] = src[n + k]

Flows(x, y) ==
  /\ SameReceiver(x, y) /\ y.lastAckFrom = x.lastAckFrom
  /\ y.isWriting = x.isWriting /\ y.inflightCount = x.inflightCount
  /\ y.forwardedCount = x.forwardedCount /\ y.lastPacketId = x.lastPacketId
  /\ \E n \in Nat : Moves(x.newOutgoing, x.outgoing, n, y.newOutgoing, y.outgoing)

Counted(x, c) ==
  /\ Sending(x) /\ ~x.isWriting
  /\ x.inflightCount \in Nat /\ x.inflightCount <= Len(x.outgoing)
  /\ x.inflightCount <= MaxInflight(c)
  /\ \A k \in 1 .. Len(x.outgoing) : HasId(x.outgoing[k]) <=> k <= x.inflightCount
  /\ \A k \in 1 .. Len(x.newOutgoing) : x.newOutgoing[k].player = c /\ ~HasId(x.newOutgoing[k])
  /\ c = 0 => x.forwardedCount = Forwarded(x.outgoing)

\* The next n messages have an ID now.
Stamps(x, y, c, n) ==
  /\ SameReceiver(x, y) /\ y.lastAckFrom = x.lastAckFrom
  /\ y.isWriting = x.isWriting /\ y.newOutgoing = x.newOutgoing
  /\ y.forwardedCount = x.forwardedCount
  /\ n \in Nat /\ y.inflightCount = x.inflightCount + n
  /\ y.inflightCount <= Len(x.outgoing) /\ y.inflightCount <= MaxInflight(c)
  /\ y.lastPacketId = (x.lastPacketId + n) % PacketIds(c)
  /\ Len(y.outgoing) = Len(x.outgoing)
  /\ \A k \in 1 .. Len(x.outgoing) :
       /\ y.outgoing[k].data = x.outgoing[k].data /\ y.outgoing[k].player = x.outgoing[k].player
       /\ y.outgoing[k].id = IF x.inflightCount < k /\ k <= x.inflightCount + n
                             THEN (x.lastPacketId + k - x.inflightCount) % PacketIds(c)
                             ELSE x.outgoing[k].id

\* The first n messages have left.
Cuts(x, y, c, n) ==
  /\ SameReceiver(x, y) /\ y.lastAckFrom = x.lastAckFrom
  /\ y.isWriting = x.isWriting /\ y.newOutgoing = x.newOutgoing
  /\ y.lastPacketId = x.lastPacketId /\ y.inflightCount = x.inflightCount - n
  /\ y.outgoing = SubSeq(x.outgoing, n + 1, Len(x.outgoing))
  /\ Len(y.outgoing) = Len(x.outgoing) - n
  /\ \A k \in 1 .. Len(x.outgoing) - n : y.outgoing[k] = x.outgoing[n + k]
  /\ c = 0 => y.forwardedCount = x.forwardedCount - Forwarded(SubSeq(x.outgoing, 1, n))

\* The counts still agree, and the configuration is what it was.
Stays(x, y, c) == Counted(y, c) /\ y.retransmission = x.retransmission

IsConfirmed(x, c, ack, k) ==
  HasId(x.outgoing[k]) /\ (ack - x.outgoing[k].id) % PacketIds(c) <= MaxInflight(c)

\* The messages that are released are confirmed, and the next one is not.
Confirms(x, y, c, ack, n) ==
  /\ Cuts(x, y, c, n) /\ n <= x.inflightCount
  /\ \A k \in 1 .. n : IsConfirmed(x, c, ack, k)
  /\ n < Len(x.outgoing) => ~IsConfirmed(x, c, ack, n + 1)

Forwards(x, y, item) ==
  /\ ~isFull(x.outgoing) /\ y.outgoing = Append(x.outgoing, item)
  /\ y.forwardedCount = x.forwardedCount + 1
  /\ y.newOutgoing = x.newOutgoing /\ y.isWriting = x.isWriting
  /\ y.inflightCount = x.inflightCount /\ y.lastPacketId = x.lastPacketId

Item(i, message) ==
  [data |-> message.data, player |-> IF i = 0 THEN message.player ELSE i,
   id |-> NO_ID_ASSIGNED_YET]

\* What console c makes of a message of i that it accepts.
Takes(x, y, c, i, item, packetId, count) ==
  /\ DOMAIN y = SessionFields
  /\ y.retransmission = x.retransmission /\ y.isReading = x.isReading
  /\ y.lastAckFrom = x.lastAckFrom /\ y.incoming = x.incoming
  /\ x.retransmission => y.lastPacketIdFrom = [x.lastPacketIdFrom EXCEPT ![i] = packetId]
  /\ y.didReceiveFirstPacketFromServer = (x.didReceiveFirstPacketFromServer \/ i = 0)
  /\ IF item.player = c
     THEN y.newIncoming = x.newIncoming /\ y.overflow = x.overflow
     ELSE /\ y.newIncoming = push(x.newIncoming, item)
          /\ ~y.overflow => ~x.overflow /\ ~isFull(x.newIncoming)
  /\ \/ SameSender(x, y)
     \/ i > 0 /\ item.player # c /\ count > 2 /\ Forwards(x, y, item)

\* The states from x to y while the messages of a transfer are received.
Receives(f, x, y, c, i, transfer, count) ==
  /\ f[0] = x /\ f[Len(transfer.messages)] = y
  /\ \A k \in 1 .. Len(transfer.messages) :
       f[k] = processMessage(f[k - 1], c, i, transfer.messages[k],
                             (transfer.firstPacketId + k - 1) % PacketIds(i), count)

\* The states from x on while a console goes through what its adapter has.
Listens(f, x, c, data, remote, count) ==
  /\ f[-1] = x
  /\ \A i \in 0..4 :
       f[i] = IF i \in remote /\ i \in DOMAIN data /\ data[i] # None
              THEN IncomingFrom(f[i - 1], c, i, data[i], count)
              ELSE f[i - 1]

\* What is confirmed then leaves.
Settled(y, c, retransmission, count) ==
  IF retransmission /\ ConfirmedAck(y, c, count) # NO_ACK_RECEIVED_YET
  THEN removeConfirmedMessages(y, c, ConfirmedAck(y, c, count)) ELSE y

Acked(x, c, i, transfer) ==
  [x EXCEPT !.lastAckFrom[i] = IF x.retransmission THEN transfer.ack[c] ELSE @]

-----------------------------------------------------------------------------
(* The invariant about the counts.                                         *)

CountsInv ==
  /\ DOMAIN session = Consoles /\ Slots
  /\ playerCount \in [Consoles -> Nat] /\ sent \in [Consoles -> Nat] /\ linked \subseteq Clients
  /\ \A c \in Consoles : /\ Counted(session[c], c)
                          /\ session[c].retransmission = exchange.retransmission

-----------------------------------------------------------------------------
(* Packet IDs and words, between console i with session x and another one  *)
(* with session y.                                                         *)

Powers == {4, 8, 16, 32, 64}

\* item is pushed onto q, behind whose first l messages e are dropped.
Pushes(q, r, item, l, e) ==
  /\ e \in {0, 1} /\ Len(r) = Len(q) + 1 - e
  /\ r[Len(r)] = item
  /\ \A k \in 1 .. Len(r) - 1 : r[k] = q[IF k <= l THEN k ELSE k + e]

\* How far a packet ID is behind the last one of i.
Back(x, i, id) == (x.lastPacketId - id) % PacketIds(i)

\* The packets in flight have the last IDs, one after the other.
Consecutive(x, i) ==
  /\ x.lastPacketId \in 0 .. PacketIds(i) - 1
  /\ \A k \in 1 .. x.inflightCount :
       /\ x.outgoing[k].id \in 0 .. PacketIds(i) - 1
       /\ Back(x, i, x.outgoing[k].id) = x.inflightCount - k

\* The program's last words, up to end, that have not been moved yet.
OwnWords(x, end) ==
  /\ end \in Nat /\ Len(x.newOutgoing) <= end
  /\ \A k \in 1 .. Len(x.newOutgoing) : x.newOutgoing[k].data = end - Len(x.newOutgoing) + k

Receptive(y) ==
  /\ DOMAIN y = SessionFields /\ y.retransmission = TRUE /\ y.isReading = FALSE
  /\ y.incoming \in Queue /\ y.newIncoming \in Queue
  /\ DOMAIN y.lastPacketIdFrom = Consoles /\ DOMAIN y.lastAckFrom = Consoles
  /\ \A i \in Consoles : y.lastPacketIdFrom[i] \in 0 .. PacketIds(i) - 1

Full(slot) == slot # None /\ Len(slot.messages) > 0
\* Its first message is the Depth-th last one that has got an ID.
Depth(x, i, slot) == Back(x, i, slot.firstPacketId) + 1

SlotFits(x, i, slot) ==
  /\ slot # None => /\ slot.firstPacketId \in 0 .. PacketIds(i) - 1
                    /\ \A j \in Consoles : slot.ack[j] \in 0 .. PacketIds(j) - 1
                    /\ slot.messages \in Seq(Packet)
  /\ Full(slot) => Len(slot.messages) <= Depth(x, i, slot) /\ Depth(x, i, slot) <= MaxInflight(i)

\* The transfer of a session.
Made(x, i, slot) ==
  /\ slot # None /\ slot.ack = x.lastPacketIdFrom /\ slot.messages \in Seq(Packet)
  /\ Len(slot.messages) <= x.inflightCount
  /\ slot.firstPacketId = IF Len(slot.messages) = 0 THEN 0 ELSE x.outgoing[1].id
  /\ \A k \in 1 .. Len(slot.messages) :
       /\ slot.messages[k].data = x.outgoing[k].data
       /\ i = 0 => slot.messages[k].player = x.outgoing[k].player

\* The last word with an ID, when all of the program's words get one in turn.
Top(x, end) == end - Len(x.newOutgoing) - Len(x.outgoing) + x.inflightCount

\* How many of the packets with an ID y has not received.
Lag(x, y, i) == Back(x, i, y.lastPacketIdFrom[i])

AllSent(x, i, end) ==
  /\ Len(x.newOutgoing) + Len(x.outgoing) <= end
  /\ \A k \in 1 .. Len(x.outgoing) :
       /\ x.outgoing[k].player = i
       /\ x.outgoing[k].data = end - Len(x.newOutgoing) - Len(x.outgoing) + k

AllCarried(x, i, end, slot) ==
  Full(slot) =>
    /\ Depth(x, i, slot) <= Top(x, end)
    /\ \A k \in 1 .. Len(slot.messages) :
         /\ i = 0 => slot.messages[k].player = 0
         /\ slot.messages[k].data = Top(x, end) - Depth(x, i, slot) + k

\* What y lacks is still with x, and what y has confirmed by the transfer in
\* slot back is no more than it has.
Keeps(x, y, i, end, slot, back) ==
  /\ Lag(x, y, i) <= x.inflightCount
  /\ Full(slot) => Lag(x, y, i) <= Depth(x, i, slot)
  /\ back # None => /\ Lag(x, y, i) <= Back(x, i, back.ack[i])
                    /\ Back(x, i, back.ack[i]) <= x.inflightCount
  /\ i = 0 /\ ~y.didReceiveFirstPacketFromServer => Lag(x, y, i) = Top(x, end)

Has(y, p, last) == {last} \cup WordsOf(Here(y), p)

HasAll(y, p, last, v) ==
  /\ \A w \in Has(y, p, last) : w <= v
  /\ ~y.overflow => WordsOf(Here(y), p) = last + 1 .. v

\* Nothing is lost between x and y.
Exact(x, y, i, end, last, slot, back) ==
  /\ AllSent(x, i, end) /\ AllCarried(x, i, end, slot) /\ Keeps(x, y, i, end, slot, back)
  /\ HasAll(y, i, last, Top(x, end) - Lag(x, y, i))

\* A receiver has what it had, be it in another of its queues.
Alike(x, y) ==
  /\ Here(y) = Here(x) /\ y.overflow = x.overflow /\ y.lastPacketIdFrom = x.lastPacketIdFrom
  /\ y.didReceiveFirstPacketFromServer = x.didReceiveFirstPacketFromServer

\* y is x with a message of i, unless it is one of console c's own.
Arrives(x, y, c, i, item, packetId) ==
  /\ item \in Message /\ Here(x) \in Seq(Message) /\ Here(y) \in Seq(Message)
  /\ y.lastPacketIdFrom = [x.lastPacketIdFrom EXCEPT ![i] = packetId]
  /\ y.didReceiveFirstPacketFromServer = (x.didReceiveFirstPacketFromServer \/ i = 0)
  /\ IF item.player = c THEN Here(y) = Here(x) /\ y.overflow = x.overflow
     ELSE \E l \in Nat, e \in {0, 1} : /\ Pushes(Here(x), Here(y), item, l, e)
                                       /\ ~y.overflow => ~x.overflow /\ e = 0

\* y lacks one packet less: what arrived was the next word.
Advances(x, y, z, i, end, word) ==
  Lag(x, z, i) = Lag(x, y, i) - 1 /\ word = Top(x, end) - Lag(x, y, i) + 1

\* A word of p is in the server's queue, or in the transfer in slot; back
\* packets were given an ID after it, or are to get one first.
InLine(x, slot, back, p, word) ==
  \/ \E k \in 1 .. Len(x.outgoing) :
       back = x.inflightCount - k /\ p = x.outgoing[k].player /\ word = x.outgoing[k].data
  \/ /\ Full(slot)
     /\ \E k \in 1 .. Len(slot.messages) :
          /\ back = Depth(x, 0, slot) - k
          /\ p = slot.messages[k].player /\ word = slot.messages[k].data

\* Those that y may still accept are greater than all it has of that player.
Ordered(x, y, last, slot) ==
  \A back, word : \A p \in Consoles : InLine(x, slot, back, p, word) =>
    /\ word > 0
    /\ \A b, w : InLine(x, slot, b, p, w) /\ b < back => word < w
    /\ ~y.didReceiveFirstPacketFromServer \/ back < Lag(x, y, 0)
         => \A w \in Has(y, p, last[p]) : w < word

\* No word of p after v has come this far.
Placed(x, y, slot, p, last, v) ==
  /\ \A b, w : InLine(x, slot, b, p, w) => w <= v
  /\ \A w \in Has(y, p, last) : w <= v

\* All that is in line now was so before, n packets earlier.
Embeds(x, slot, z, slot2, n) ==
  \A b, p, w : InLine(z, slot2, b, p, w) => b \in Int /\ InLine(x, slot, b - n, p, w)

\* What is in line now is what was, or words of q after v, up to top.
Joined(x, b, v, w, top) ==
  b \in Int /\ w \in Nat /\ w > v /\ w <= top /\ b + w = x.inflightCount - Len(x.outgoing) + v

Grows(x, slot, z, q, v, top) ==
  /\ \A b, p, w : InLine(z, slot, b, p, w) =>
       InLine(x, slot, b, p, w) \/ (p = q /\ Joined(x, b, v, w, top))
  /\ \A y : Lag(z, y, 0) = Lag(x, y, 0)

-----------------------------------------------------------------------------
(* All consoles, with sessions S, and all slots, with transfers U and D.   *)

Sound(x, c) ==
  /\ Counted(x, c) /\ Consecutive(x, c) /\ OwnWords(x, sent[c]) /\ Receptive(x)
  /\ got[c] \in [Consoles -> Nat] /\ \A p \in Consoles : InOrder(Here(x), p, got[c][p])

\* Nothing is promised to a client that is not the only one.
Single(p) == linked \subseteq {p} /\ playerCount[0] <= 2

\* The last word of p that has come as far as the server's queue.
Place(S, p) == IF p = 0 THEN sent[0] - Len(S[0].newOutgoing)
               ELSE Top(S[p], sent[p]) - Lag(S[p], S[0], p)

\* The server, with session y, and client p, with session x; v gives the places.
Between(y, x, p, u, d, v) ==
  /\ SlotFits(x, p, u) /\ SlotFits(y, 0, d)
  /\ Exact(x, y, p, sent[p], got[0][p], u, d)
  /\ Single(p) => Exact(y, x, 0, sent[0], got[p][0], d, u)
  /\ Ordered(y, x, got[p], d)
  /\ \A q \in Consoles : Placed(y, x, d, q, got[p][q], v[q])

With(S, c, x) == [S EXCEPT ![c] = x]

AllPlaces(S) == [p \in Consoles |-> Place(S, p)]

\* Who has not joined has sent nothing.
Unlinked(y, U) ==
  \A p \in Clients \ linked : U[p] = None /\ y.lastAckFrom[p] = NO_ACK_RECEIVED_YET

Good(S, U, D) ==
  /\ S = [c \in Consoles |-> S[c]] /\ \A c \in Consoles : Sound(S[c], c)
  /\ \A p \in Clients : Between(S[0], S[p], p, U[p], D[p], AllPlaces(S))
  /\ Unlinked(S[0], U)

-----------------------------------------------------------------------------
(* A console goes through what its adapter has received.                   *)

\* The ID of a transfer's k-th message.
IdOf(transfer, i, k, packetId) ==
  packetId = (transfer.firstPacketId + k - 1) % PacketIds(i)

\* The server accepts the k-th message of client i, and its session is z then.
ServerTaking(S, U, i, k, packetId, z) ==
  /\ Full(U[i]) /\ k \in 1 .. Len(U[i].messages) /\ IdOf(U[i], i, k, packetId)
  /\ Accepts(S[0], i, packetId) /\ Sending(z) /\ playerCount[0] \in Nat
  /\ Takes(S[0], z, 0, i, Item(i, U[i].messages[k]), packetId, playerCount[0])

\* Client c, with session x, is at the k-th message of the server.
AtMessage(S, U, D, c, x, k) ==
  /\ Good(With(S, c, x), U, D) /\ k \in 1 .. Len(D[c].messages)
  /\ x.didReceiveFirstPacketFromServer \/ k = 1

PastMessage(S, U, D, c, x, z) ==
  /\ Good(With(S, c, z), U, D) /\ z.lastAckFrom = x.lastAckFrom
  /\ z.didReceiveFirstPacketFromServer

\* The server, with session y, goes through a client's messages.
ServerPast(S, U, D, y, z) ==
  Good(With(S, 0, z), U, D) /\ z.lastAckFrom = y.lastAckFrom

AckNoted(x, y, i, ack) == y.lastAckFrom = [x.lastAckFrom EXCEPT ![i] = ack]

\* The client then has the ack of the server's transfer.
ClientPast(S, U, D, c, z) ==
  Good(With(S, c, z), U, D) /\ z.lastAckFrom[0] = D[c].ack[c]

\* The server then has the ack of the client's transfer.
HearsFrom(S, U, D, i, y, z) ==
  /\ Good(With(S, 0, z), U, D)
  /\ z.lastAckFrom = [y.lastAckFrom EXCEPT ![i] = U[i].ack[0]]

Whole(to, from, dst, src) == to \o from = dst \o src

\* ringMinAck, as far as one client has sent an ack.
Ringed(f, x, count) ==
  f = [i \in 0..4 |->
        IF i = 0 \/ i \notin Clients \/ i >= count \/ x.lastAckFrom[i] = NO_ACK_RECEIVED_YET
        THEN IF i = 0 THEN NO_ACK_RECEIVED_YET ELSE f[i - 1]
        ELSE IF \/ f[i - 1] = NO_ACK_RECEIVED_YET
                \/ (f[i - 1] - x.lastAckFrom[i]) % MAX_PACKET_IDS_CLIENT >= MaxInflight(1)
        THEN x.lastAckFrom[i]
        ELSE f[i - 1]]

\* As far as player i, the server has the acks of all it listens to.
Heeded(S, U, D, y, i) ==
  /\ Good(With(S, 0, y), U, D)
  /\ \A p \in Clients : ~ (p >= playerCount[0]) /\ p <= i /\ U[p] # None
                        => y.lastAckFrom[p] = U[p].ack[0]

\* The program's next word is at the end of newOutgoing.
Says(x, z, word) ==
  /\ SameReceiver(x, z) /\ z.lastAckFrom = x.lastAckFrom /\ z.outgoing = x.outgoing
  /\ z.isWriting = x.isWriting /\ z.inflightCount = x.inflightCount
  /\ z.forwardedCount = x.forwardedCount /\ z.lastPacketId = x.lastPacketId
  /\ Len(z.newOutgoing) = Len(x.newOutgoing) + 1
  /\ \A k \in 1 .. Len(x.newOutgoing) : z.newOutgoing[k] = x.newOutgoing[k]
  /\ z.newOutgoing[Len(x.newOutgoing) + 1].data = word

After(next, end) == next = end + 1

\* The program has read: next is what last becomes.
Digests(x, z, last, next) ==
  /\ SameSender(x, z) /\ Receptive(z) /\ z.lastAckFrom = x.lastAckFrom
  /\ z.overflow = x.overflow /\ z.lastPacketIdFrom = x.lastPacketIdFrom
  /\ z.didReceiveFirstPacketFromServer = x.didReceiveFirstPacketFromServer
  /\ next \in [Consoles -> Nat]
  /\ \A p \in Consoles :
       /\ InOrder(Here(z), p, next[p]) /\ Has(z, p, next[p]) \subseteq Has(x, p, last[p])
       /\ \A v : HasAll(x, p, last[p], v) => HasAll(z, p, next[p], v)

\* A session in which nothing has been sent or received.
Idle(x) ==
  /\ Receptive(x) /\ x.outgoing = <<>> /\ x.newOutgoing = <<>> /\ x.inflightCount = 0
  /\ x.incoming = <<>> /\ x.newIncoming = <<>> /\ x.lastPacketId = 0
  /\ \A i \in Consoles : x.lastPacketIdFrom[i] = 0
  /\ \A p \in Clients : x.lastAckFrom[p] = NO_ACK_RECEIVED_YET

-----------------------------------------------------------------------------
(* The invariant about the messages.                                       *)

LossInv ==
  /\ CountsInv /\ DOMAIN got = Consoles /\ exchange \in Exchanges
  /\ exchange.retransmission = TRUE => Good(session, up, down)
=============================================================================
