----------------------------- MODULE LinkCable ------------------------------
(***************************************************************************)
(* gbashared/lib/LinkCable.hpp: consoles that exchange words over a link   *)
(* cable in Multi-Play mode, on the registers of LinkRawCable.hpp.         *)
(*                                                                         *)
(* Every console has three handlers, VBLANK, SERIAL and TIMER, which run   *)
(* to completion, and a program whose accesses to what they share are      *)
(* steps of their own.  Console 0 is the master: its timer starts the      *)
(* transfers, in which each console gets the word every console had in     *)
(* SIOMLT_SEND.  The queues are sequences here; LinkCube models their      *)
(* fields one by one.                                                      *)
(***************************************************************************)
EXTENDS Integers, Sequences, FiniteSets

CONSTANTS
  Players,     \* the consoles on the cable, 0 the master
  Size,        \* LINK_CABLE_QUEUE_SIZE
  timeout,     \* config.timeout, in frames
  MaxWords,    \* bound: words a program sends
  MaxIncidents \* bound: bit errors, and times a console is plugged or unplugged,
               \*   deactivated, or calls resetTimeout()

ASSUME CableAssumption ==
  /\ 0 \in Players /\ Players \subseteq 0..3
  /\ Size \in Nat \ {0} /\ timeout \in Nat \ {0}
  /\ MaxWords \in Nat /\ MaxIncidents \in Nat

VARIABLES
  plugged,      \* the consoles the cable connects
  multi,        \* the consoles in Multi-Play mode
  SIOMLT_SEND,  \* per console, the word its next transfer sends
  wire,         \* the words of the transfer in progress, none without one
  irq,          \* per console, the transfer its SERIAL interrupt reports
  ext,          \* per console, ExternalState
  int,          \* per console, InternalState
  isEnabled, isReadingMessages,
  writer,       \* the console whose program sends; the others read
  at,           \* per console, where its program is
  left,         \* per console, what sync() leaves in readyToSyncMessages
  waited,       \* per console, the player it waits for, or nobody
  sent, got,    \* per console, the last word sent; the last one read, per player
  silent,       \* per console and player, frames since its last word
  lossy,        \* the consoles a message from or for which may have been lost
  incidents

wires   == <<plugged, multi, SIOMLT_SEND, wire, irq>>
program == <<writer, at, left, waited, sent, got>>
history == <<silent, lossy>>
vars == <<wires, ext, int, isEnabled, isReadingMessages, program, history, incidents>>

NO_DATA == 0
DISCONNECTED == -1       \* 0xFFFF
OFFLINE == -1            \* MSG_TIMEOUT_OFFLINE
Nobody == -1
None == [data |-> <<>>, error |-> FALSE]

-----------------------------------------------------------------------------
(* The queues.                                                             *)

isFull(q) == Len(q) = Size

\* A full queue drops its oldest item.
push(q, item) == Append(IF isFull(q) THEN Tail(q) ELSE q, item)

\* T{} when there is nothing to pop.
Front(q) == IF q = <<>> THEN NO_DATA ELSE Head(q)
pop(q)   == IF q = <<>> THEN q ELSE Tail(q)

\* What move(src, dst) takes from src; the rest stays there.
Fits(src, dst) == IF Len(src) <= Size - Len(dst) THEN Len(src) ELSE Size - Len(dst)
MovedTo(src, dst)   == dst \o SubSeq(src, 1, Fits(src, dst))
MovedFrom(src, dst) == SubSeq(src, Fits(src, dst) + 1, Len(src))

NoMessages == [p \in Players |-> <<>>]

-----------------------------------------------------------------------------
(* The driver's state and what the handlers do to it.                      *)

isOnline(i, p) == i.msgTimeouts[p] # OFFLINE

setOnline(i, p)  == [i EXCEPT !.msgTimeouts[p] = 0, !.msgFlags[p] = TRUE]
setOffline(i, p) == [i EXCEPT !.msgTimeouts[p] = OFFLINE, !.msgFlags[p] = FALSE]

isConnected(c) ==
  ext[c].playerCount > 1 /\ ext[c].currentPlayerId < ext[c].playerCount

\* outgoingMessages.syncClear() is put off while the program writes to it.
resetState(i, reading) ==
  [outgoing |-> IF i.isWriting THEN i.outgoing ELSE <<>>,
   isWriting |-> i.isWriting,
   needsClear |-> i.needsClear \/ i.isWriting,
   ready |-> IF reading THEN i.ready ELSE NoMessages,
   new |-> NoMessages,
   msgTimeouts |-> [p \in Players |-> OFFLINE],
   msgFlags |-> [p \in Players |-> FALSE],
   IRQTimeout |-> 0, IRQFlag |-> FALSE, isResetTimeoutPending |-> FALSE]

ResetPlayers(e) == [e EXCEPT !.playerCount = 1, !.currentPlayerId = 0]

\* Mutant: copyState moves messages while the program reads.
copyStateAnyway(i, reading) ==
  [i EXCEPT
    !.ready = [p \in Players |-> IF isOnline(i, p) THEN MovedTo(i.new[p], i.ready[p])
                                 ELSE <<>>],
    !.new = [p \in Players |-> IF isOnline(i, p) THEN MovedFrom(i.new[p], i.ready[p])
                               ELSE i.new[p]]]

\* The messages of a player that is offline are dropped.
copyState(i, reading) == IF reading THEN i ELSE copyStateAnyway(i, reading)

\* A message counts as lost when a queue drops it.
Dropped(i, j) == \E p \in Players : Len(j.new[p]) + Len(j.ready[p]) < Len(i.new[p]) + Len(i.ready[p])

allReady == plugged \subseteq multi
isSending == wire # <<>>     \* the master's START bit

-----------------------------------------------------------------------------
(* Consoles on which activate() was called.                                *)

Inactive ==
  [outgoing |-> <<>>, isWriting |-> FALSE, needsClear |-> FALSE,
   ready |-> NoMessages, new |-> NoMessages,
   msgTimeouts |-> [p \in Players |-> OFFLINE],
   msgFlags |-> [p \in Players |-> FALSE],
   IRQTimeout |-> 0, IRQFlag |-> FALSE, isResetTimeoutPending |-> FALSE]

Init ==
  /\ plugged = Players /\ multi = Players
  /\ SIOMLT_SEND = [c \in Players |-> NO_DATA]
  /\ wire = <<>>
  /\ irq = [c \in Players |-> None]
  /\ ext = [c \in Players |-> [synced |-> NoMessages, playerCount |-> 1,
                               currentPlayerId |-> 0]]
  /\ int = [c \in Players |-> Inactive]
  /\ isEnabled = [c \in Players |-> TRUE]
  /\ isReadingMessages = [c \in Players |-> FALSE]
  /\ writer \in Players
  /\ at = [c \in Players |-> "idle"]
  /\ left = [c \in Players |-> NoMessages]
  /\ waited = [c \in Players |-> Nobody]
  /\ sent = [c \in Players |-> 0]
  /\ got = [c \in Players |-> [p \in Players |-> 0]]
  /\ silent = [c \in Players |-> [p \in Players |-> 0]]
  /\ lossy = {}
  /\ incidents = 0

-----------------------------------------------------------------------------
(* The cable.  A transfer carries the words the registers held when it     *)
(* began; the next one begins when no console has an interrupt to answer:  *)
(* the interval of the timer is longer than a handler takes.               *)

Word(words, p) == IF p \in plugged \cap multi THEN words[p] ELSE DISCONNECTED
Answered == \A c \in Players : irq[c] = None

Incident == incidents < MaxIncidents /\ incidents' = incidents + 1

EndTransfer(error) ==
  /\ isSending
  /\ IF error THEN Incident ELSE UNCHANGED incidents
  /\ irq' = [c \in Players |->
              IF c \in plugged \cap multi
              THEN [data |-> [p \in Players |-> Word(wire, p)], error |-> error]
              ELSE None]
  /\ wire' = <<>>
  /\ UNCHANGED <<plugged, multi, SIOMLT_SEND, ext, int, isEnabled, isReadingMessages,
                 program, history>>

Plug(c) ==
  /\ c # 0
  /\ Incident
  /\ plugged' = IF c \in plugged THEN plugged \ {c} ELSE plugged \cup {c}
  /\ lossy' = lossy \cup {c}
  /\ UNCHANGED <<multi, SIOMLT_SEND, wire, irq, ext, int, isEnabled,
                 isReadingMessages, program, silent>>

-----------------------------------------------------------------------------
(* The handlers.                                                           *)

\* A program in waitFor() sleeps until a SERIAL or TIMER interrupt.
Wake(c) == at' = IF at[c] = "asleep" THEN [at EXCEPT ![c] = "sync"] ELSE at

\* reset(): the registers are set up again, and so is the state.
reset(c) ==
  /\ int' = [int EXCEPT ![c] = resetState(@, isReadingMessages[c])]
  /\ ext' = [ext EXCEPT ![c] = ResetPlayers(@)]
  /\ multi' = multi \cup {c}
  /\ SIOMLT_SEND' = [SIOMLT_SEND EXCEPT ![c] = NO_DATA]
  /\ wire' = IF c = 0 THEN <<>> ELSE wire
  /\ lossy' = lossy \cup {c}

\* The driver's state with isResetTimeoutPending answered.
TimeoutsReset(i) ==
  IF i.isResetTimeoutPending
  THEN [i EXCEPT !.IRQTimeout = 0, !.msgTimeouts = [p \in Players |-> 0],
                 !.isResetTimeoutPending = FALSE]
  ELSE i

\* Mutant: the players' counts are left alone.
FrameOfInterrupt(i) ==
  [i EXCEPT !.IRQTimeout = IF i.IRQFlag THEN @ ELSE @ + 1, !.IRQFlag = FALSE,
            !.msgFlags = [p \in Players |-> FALSE]]
\* The counts of frames without an interrupt, and without a word of a player.
Frame(i) ==
  [i EXCEPT !.IRQTimeout = IF i.IRQFlag THEN @ ELSE @ + 1,
            !.IRQFlag = FALSE,
            !.msgTimeouts = [p \in Players |-> IF isOnline(i, p) /\ ~i.msgFlags[p]
                                               THEN @[p] + 1 ELSE @[p]],
            !.msgFlags = [p \in Players |-> FALSE]]

_onVBlank(c) ==
  /\ isEnabled[c]
  /\ LET i == Frame(TimeoutsReset(int[c]))
     IN  IF i.IRQTimeout >= timeout
         THEN reset(c)
         ELSE /\ int' = [int EXCEPT ![c] = copyState(i, isReadingMessages[c])]
              /\ lossy' = IF Dropped(i, int'[c]) THEN lossy \cup {c} ELSE lossy
              /\ UNCHANGED <<multi, SIOMLT_SEND, wire, ext>>
  /\ silent' = [silent EXCEPT ![c] = [p \in Players |->
                 IF ~isOnline(int'[c], p) \/ int[c].isResetTimeoutPending THEN 0
                 ELSE @[p] + 1]]
  /\ UNCHANGED <<plugged, irq, isEnabled, isReadingMessages, program, incidents>>

\* A player's word is stored, 0 only says that it is there; one that is silent
\* for as long as the timeout is offline.
Received(i, c, p, data) ==
  IF data[p] # DISCONNECTED
  THEN setOnline(IF data[p] # NO_DATA /\ p # c
                 THEN [i EXCEPT !.new[p] = push(@, data[p])] ELSE i, p)
  ELSE IF isOnline(i, p) /\ i.msgTimeouts[p] >= timeout
       THEN setOffline([i EXCEPT !.new[p] = <<>>], p)
       ELSE i

\* The players one after the other, each with what is kept about it.
ReceivedAll(i, c, data) ==
  [i EXCEPT !.new = [p \in Players |-> Received(i, c, p, data).new[p]],
            !.msgTimeouts = [p \in Players |-> Received(i, c, p, data).msgTimeouts[p]],
            !.msgFlags = [p \in Players |-> Received(i, c, p, data).msgFlags[p]]]

\* A word that pushes another out of a full queue, or a player that goes offline.
Loses(i, j, c, data) ==
  \E p \in Players \ {c} : \/ data[p] > 0 /\ isFull(i.new[p])
                           \/ i.new[p] # <<>> /\ j.new[p] = <<>>

\* sendPendingData(): the word to send and what is left; nothing while the
\* program writes to the queue.
Pending(i)    == IF i.isWriting THEN NO_DATA ELSE Front(i.outgoing)
NotPending(i) == IF i.isWriting THEN i ELSE [i EXCEPT !.outgoing = pop(@)]

\* Mutant: a slave keeps the word it has sent while its program writes.
AnswerKept(i, c, word) ==
  IF c = 0 THEN NO_DATA ELSE IF i.isWriting THEN word ELSE Front(i.outgoing)
\* SIOMLT_SEND after a transfer: a slave has its next word ready, or none.
Answer(i, c, word) == IF c = 0 THEN NO_DATA ELSE Pending(i)

_onSerial(c) ==
  /\ irq[c] # None
  /\ irq' = [irq EXCEPT ![c] = None]
  /\ IF ~isEnabled[c]
     THEN UNCHANGED <<multi, SIOMLT_SEND, wire, ext, int, lossy>>
     ELSE IF ~allReady \/ irq[c].error
     THEN reset(c)
     ELSE LET data == irq[c].data
              r == ReceivedAll([int[c] EXCEPT !.IRQFlag = TRUE, !.IRQTimeout = 0], c, data)
              s == IF c = 0 THEN r ELSE NotPending(r)
          IN  /\ ext' = [ext EXCEPT ![c].currentPlayerId = c,
                                    ![c].playerCount = Cardinality({p \in Players : isOnline(r, p)})]
              /\ SIOMLT_SEND' = [SIOMLT_SEND EXCEPT ![c] = Answer(r, c, @)]
              /\ int' = [int EXCEPT ![c] = copyState(s, isReadingMessages[c])]
              /\ lossy' = IF Dropped(s, int'[c]) \/ Loses(int[c], r, c, data)
                          THEN lossy \cup {c} ELSE lossy
              /\ UNCHANGED <<multi, wire>>
  /\ silent' = [silent EXCEPT ![c] = [p \in Players |->
                 IF ~isOnline(int'[c], p) \/ irq[c].data[p] # DISCONNECTED THEN 0 ELSE @[p]]]
  /\ Wake(c)
  /\ UNCHANGED <<plugged, isEnabled, isReadingMessages, writer, left, waited, sent, got, incidents>>

_onTimer(c) ==
  /\ isEnabled[c]
  /\ c = 0 => Answered
  /\ LET starts == c = 0 /\ allReady /\ ~isSending
         i == IF starts THEN NotPending(int[c]) ELSE int[c]
     IN  /\ IF starts /\ ~int[c].isWriting
            THEN /\ SIOMLT_SEND' = [SIOMLT_SEND EXCEPT ![c] = Pending(int[c])]
                 /\ wire' = SIOMLT_SEND'
            ELSE UNCHANGED <<SIOMLT_SEND, wire>>
         /\ int' = [int EXCEPT ![c] = copyState(i, isReadingMessages[c])]
         /\ lossy' = IF Dropped(i, int'[c]) THEN lossy \cup {c} ELSE lossy
  /\ Wake(c)
  /\ UNCHANGED <<plugged, multi, irq, ext, isEnabled, isReadingMessages, writer, left, waited, sent,
                 got, silent, incidents>>

-----------------------------------------------------------------------------
(* The program.                                                            *)

GoTo(c, place) == at' = [at EXCEPT ![c] = place]

\* send(): canSend(), then the flag that keeps the handlers off the queue.
send(c) ==
  /\ at[c] = "idle"
  /\ c = writer /\ sent[c] < MaxWords
  /\ isEnabled[c] /\ ~isFull(int[c].outgoing)
  /\ int' = [int EXCEPT ![c].isWriting = TRUE]
  /\ GoTo(c, "push")
  /\ UNCHANGED <<wires, ext, isEnabled, isReadingMessages, writer, left, waited, sent, got, history, incidents>>

Push(c) ==
  /\ at[c] = "push"
  /\ sent' = [sent EXCEPT ![c] = @ + 1]
  /\ int' = [int EXCEPT ![c].outgoing = push(@, sent[c] + 1), ![c].isWriting = FALSE]
  /\ GoTo(c, "pushed")
  /\ UNCHANGED <<wires, ext, isEnabled, isReadingMessages, writer, left, waited, got, history, incidents>>

\* The clear a handler put off.
Pushed(c) ==
  /\ at[c] = "pushed"
  /\ IF int[c].needsClear
     THEN int' = [int EXCEPT ![c].outgoing = <<>>, ![c].needsClear = FALSE]
     ELSE UNCHANGED int
  /\ GoTo(c, "idle")
  /\ UNCHANGED <<wires, ext, isEnabled, isReadingMessages, writer, left, waited, sent, got, history, incidents>>

\* sync() and waitFor(): isReadingMessages keeps the handlers off
\* readyToSyncMessages until what was taken from it is stored.
sync(c, p) ==
  /\ \/ at[c] = "idle"
     \/ at[c] = "sync" /\ p = waited[c]
  /\ c # writer /\ p # c
  /\ isEnabled[c]
  /\ isReadingMessages' = [isReadingMessages EXCEPT ![c] = TRUE]
  /\ ext' = [ext EXCEPT ![c].synced = [q \in Players |-> MovedTo(int[c].ready[q], @[q])]]
  /\ left' = [left EXCEPT ![c] = [q \in Players |-> MovedFrom(int[c].ready[q],
                                                             ext[c].synced[q])]]
  /\ waited' = [waited EXCEPT ![c] = p]
  /\ GoTo(c, "moved")
  /\ UNCHANGED <<wires, int, isEnabled, writer, sent, got, history, incidents>>

Moved(c) ==
  /\ at[c] = "moved"
  /\ int' = [int EXCEPT ![c].ready = left[c]]
  /\ left' = [left EXCEPT ![c] = NoMessages]
  /\ isReadingMessages' = [isReadingMessages EXCEPT ![c] = FALSE]
  /\ GoTo(c, "collected")
  /\ UNCHANGED <<wires, ext, isEnabled, writer, waited, sent, got, history, incidents>>

\* The end of sync(), and the test of waitFor().
Collected(c) ==
  /\ at[c] = "collected"
  /\ ext' = IF isConnected(c) THEN ext ELSE [ext EXCEPT ![c].synced = NoMessages]
  /\ lossy' = IF isConnected(c) THEN lossy ELSE lossy \cup {c}
  /\ LET waits == waited[c] # Nobody /\ isConnected(c) /\ ext[c].synced[waited[c]] = <<>>
     IN  /\ GoTo(c, IF waits THEN "asleep" ELSE "idle")
         /\ waited' = IF waits THEN waited ELSE [waited EXCEPT ![c] = Nobody]
  /\ UNCHANGED <<wires, int, isEnabled, isReadingMessages, writer, left, sent, got, silent, incidents>>

read(c, p) ==
  /\ at[c] = "idle"
  /\ ext[c].synced[p] # <<>>
  /\ ext' = [ext EXCEPT ![c].synced[p] = pop(@)]
  /\ got' = [got EXCEPT ![c][p] = Front(ext[c].synced[p])]
  /\ UNCHANGED <<wires, int, isEnabled, isReadingMessages, writer, at, left, waited, sent, history, incidents>>

resetTimeout(c) ==
  /\ at[c] = "idle" /\ c # writer
  /\ isEnabled[c]
  /\ Incident
  /\ int' = [int EXCEPT ![c].isResetTimeoutPending = TRUE]
  /\ UNCHANGED <<wires, ext, isEnabled, isReadingMessages, program, history>>

deactivate(c) ==
  /\ at[c] = "idle"
  /\ isEnabled[c]
  /\ Incident
  /\ isEnabled' = [isEnabled EXCEPT ![c] = FALSE]
  /\ int' = [int EXCEPT ![c] = resetState(@, FALSE)]
  /\ ext' = [ext EXCEPT ![c] = [ResetPlayers(@) EXCEPT !.synced = NoMessages]]
  /\ multi' = multi \ {c}
  /\ SIOMLT_SEND' = [SIOMLT_SEND EXCEPT ![c] = NO_DATA]
  /\ wire' = IF c = 0 THEN <<>> ELSE wire
  /\ lossy' = lossy \cup {c}
  /\ silent' = [silent EXCEPT ![c] = [p \in Players |-> 0]]
  /\ UNCHANGED <<plugged, irq, isReadingMessages, program>>

activate(c) ==
  /\ at[c] = "idle"
  /\ ~isEnabled[c]
  /\ isEnabled' = [isEnabled EXCEPT ![c] = TRUE]
  /\ reset(c)
  /\ UNCHANGED <<plugged, irq, isReadingMessages, program, silent, incidents>>

Next ==
  \/ \E e \in BOOLEAN : EndTransfer(e)
  \/ \E c \in Players :
       \/ Plug(c)
       \/ _onVBlank(c) \/ _onSerial(c) \/ _onTimer(c)
       \/ send(c) \/ Push(c) \/ Pushed(c)
       \/ \E p \in Players \cup {Nobody} : sync(c, p)
       \/ Moved(c) \/ Collected(c)
       \/ \E p \in Players : read(c, p)
       \/ resetTimeout(c) \/ deactivate(c) \/ activate(c)

Spec == Init /\ [][Next]_vars

-----------------------------------------------------------------------------
(* Properties.                                                             *)

(* The words of p on their way to c, the oldest first, after the last one  *)
(* that c read: the word a transfer carries, or has carried, to c, and the *)
(* one p has ready for the next.                                           *)
Carried(p, c) == IF irq[c] # None THEN irq[c].data[p] ELSE IF isSending THEN wire[p] ELSE NO_DATA
Loaded(p) == IF irq[p] # None \/ isSending THEN NO_DATA ELSE SIOMLT_SEND[p]
AsWords(word) == IF word > 0 THEN <<word>> ELSE <<>>
OnTheWire(p, c) == AsWords(Carried(p, c)) \o AsWords(Loaded(p))
Collecting(p, c) == IF at[c] = "moved" THEN left[c][p] ELSE int[c].ready[p]
InTransit(p, c) ==
  <<got[c][p]>> \o ext[c].synced[p]
  \o Collecting(p, c) \o int[c].new[p] \o OnTheWire(p, c) \o int[p].outgoing

(* A message is read at most once and in the order of the sends, whatever  *)
(* is reset, unplugged or switched off in between.                         *)
AtMostOnce ==
  \A p, c \in Players : p # c =>
    \A m, n \in 1..Len(InTransit(p, c)) : m < n => InTransit(p, c)[m] < InTransit(p, c)[n]

(* While neither end was reset and no queue was full, every message that   *)
(* send() accepted has been read or is on its way.                         *)
NothingLost ==
  \A p, c \in Players : p # c /\ {p, c} \cap lossy = {} =>
    InTransit(p, c) = [n \in 1..(sent[p] - got[c][p] + 1) |-> got[c][p] + n - 1]

(* A player whose words stop is offline after twice the timeout: no        *)
(* interrupt resets the driver, and an interrupt without a word of that    *)
(* player counts the frames since its last word.                           *)
SilenceNoticed ==
  \A c, p \in Players : p # c => silent[c][p] <= 2 * timeout

=============================================================================
