------------------------------ MODULE LinkCube ------------------------------
(***************************************************************************)
(* gbashared/lib/LinkCube.hpp: the Joybus driver of the Game Boy, with the *)
(* ring buffers (Link::Queue) it keeps.                                    *)
(*                                                                         *)
(* Three actors share its state: the Wii, whose commands the hardware      *)
(* answers from the registers JOY_RECV and JOY_TRANS and reports in the    *)
(* flags of JOYCNT; the SERIAL interrupt handler _onSerial, which runs to  *)
(* completion between two instructions of the program it interrupts; and   *)
(* that program, which calls send(), read(), wait(), didReset() and        *)
(* didQueueOverflow().  The program's accesses to the variables it shares  *)
(* with the handler are steps of their own (main is the step it is at); a  *)
(* count is loaded in one step and stored in the next.                     *)
(*                                                                         *)
(* The words either side sends are 1, 2, 3, ...; 0 is the word a read      *)
(* answers when there is nothing to read.                                  *)
(***************************************************************************)
EXTENDS Integers, Sequences

CONSTANTS
  Size,      \* LINK_CUBE_QUEUE_SIZE
  MaxWords,  \* bound: the words each side sends
  Uses       \* how the driver may be used: the functions the program calls;
             \*   whether the Wii gives the handler time to run between two
             \*   commands; bounds: the words each side sends, the
             \*   Joybus resets the Wii requests

ASSUME LinkAssumption ==
  /\ Size \in Nat \ {0}
  /\ MaxWords \in Nat
  /\ Uses \subseteq
       [calls : SUBSET {"send", "read", "wait", "didReset", "didQueueOverflow"},
        paced : BOOLEAN, words : 0..MaxWords, resets : Nat]

VARIABLES
  JOYCNT,            \* the flags of JOYCNT that are set: RESET, RECEIVE, SEND
  JOY_RECV,          \* the word the Wii wrote last
  JOY_TRANS,         \* the word the Wii's next read gets
  newIncomingQueue,  \* words received, as the handler stored them
  incomingQueue,     \* words received, for the program to read
  outgoingQueue,     \* words the program sent
  isReading,         \* incomingQueue._isReading
  isWriting,         \* outgoingQueue._isWriting
  queueNeedsClear,   \* outgoingQueue._needsClear
  needsClear,        \* LinkCube::needsClear
  resetFlag,
  main,              \* where the program is in a call, "idle" between calls
  tmp,               \* the value the program loaded: a count or a flag
  gbaNext, gbaGot,   \* the next word the program sends, the last one it read
  wiiNext, wiiGot,   \* the same for the Wii
  resets,            \* resets requested so far
  use                \* the one of Uses that is followed

registers == <<JOYCNT, JOY_RECV, JOY_TRANS>>
inbound   == <<newIncomingQueue, incomingQueue, needsClear>>
outbound  == <<outgoingQueue, queueNeedsClear>>
program   == <<isReading, isWriting, main, tmp, gbaNext, gbaGot>>
wii       == <<wiiNext, wiiGot, resets, use>>
vars == <<registers, inbound, outbound, resetFlag, program, wii>>

-----------------------------------------------------------------------------
(* Link::Queue, between calls.                                             *)

EmptyQueue == [arr |-> [i \in 0..(Size - 1) |-> 0], front |-> 0, rear |-> -1,
               count |-> 0, overflow |-> FALSE]

isEmpty(q) == q.count = 0
isFull(q)  == q.count = Size

\* T{} when there is nothing to pop.
Popped(q) == IF isEmpty(q) THEN 0 ELSE q.arr[q.front]
pop(q) == IF isEmpty(q) THEN q
          ELSE [q EXCEPT !.front = (@ + 1) % Size, !.count = @ - 1]

\* A full queue drops its oldest item.
push(q, item) ==
  LET room == IF isFull(q) THEN [pop(q) EXCEPT !.overflow = TRUE] ELSE q
      rear == (room.rear + 1) % Size
  IN  [room EXCEPT !.rear = rear, !.arr[rear] = item, !.count = @ + 1]

clear(q) == [q EXCEPT !.front = 0, !.count = 0, !.rear = -1]

\* The items of a queue, oldest first, n of them.
Items(q, n) == [i \in 1..n |-> q.arr[(q.front + i - 1) % Size]]

-----------------------------------------------------------------------------
(* The state activate() leaves.                                            *)

Init ==
  /\ JOYCNT = {} /\ JOY_RECV = 0 /\ JOY_TRANS = 0
  /\ newIncomingQueue = EmptyQueue
  /\ incomingQueue = EmptyQueue
  /\ outgoingQueue = EmptyQueue
  /\ isReading = FALSE /\ isWriting = FALSE
  /\ queueNeedsClear = FALSE /\ needsClear = FALSE
  /\ resetFlag = FALSE
  /\ main = "idle" /\ tmp = 0
  /\ gbaNext = 1 /\ gbaGot = 0
  /\ wiiNext = 1 /\ wiiGot = 0
  /\ resets = 0
  /\ use \in Uses

-----------------------------------------------------------------------------
(* The Wii's commands, as the Game Boy's hardware carries them out.        *)

Ready == use.paced => JOYCNT = {}

WiiWrite ==
  /\ Ready
  /\ wiiNext <= use.words
  /\ JOY_RECV' = wiiNext
  /\ wiiNext' = wiiNext + 1
  /\ JOYCNT' = JOYCNT \cup {"RECEIVE"}
  /\ UNCHANGED <<JOY_TRANS, inbound, outbound, resetFlag, program, wiiGot, resets, use>>

WiiRead ==
  /\ Ready
  /\ wiiGot' = IF JOY_TRANS = 0 THEN wiiGot ELSE JOY_TRANS
  /\ JOYCNT' = JOYCNT \cup {"SEND"}
  /\ UNCHANGED <<JOY_RECV, JOY_TRANS, inbound, outbound, resetFlag, program,
                 wiiNext, resets, use>>

WiiReset ==
  /\ Ready
  /\ resets < use.resets
  /\ resets' = resets + 1
  /\ JOYCNT' = JOYCNT \cup {"RESET"}
  /\ UNCHANGED <<JOY_RECV, JOY_TRANS, inbound, outbound, resetFlag, program,
                 wiiNext, wiiGot, use>>

-----------------------------------------------------------------------------
(* _onSerial.  setBitHigh writes JOYCNT back with every flag that is set,  *)
(* and writing a flag acknowledges it: of the commands reported together   *)
(* only the first one tested for is handled.                               *)

\* Mutant: the words moved stay where they were as well.
MovedAgain(new, inc) ==
  LET n == IF new.count <= Size - inc.count THEN new.count ELSE Size - inc.count
      step[i \in 0..n] == IF i = 0 THEN inc
                          ELSE push(step[i - 1], new.arr[(new.front + i - 1) % Size])
  IN  [new |-> new, inc |-> step[n]]

\* Moves what fits from new to inc; reading keeps the handler off inc.
Moved(new, inc) ==
  LET n == IF new.count <= Size - inc.count THEN new.count ELSE Size - inc.count
      step[i \in 0..n] == IF i = 0 THEN [new |-> new, inc |-> inc]
                          ELSE [new |-> pop(step[i - 1].new),
                                inc |-> push(step[i - 1].inc,
                                             Popped(step[i - 1].new))]
  IN  step[n]

\* Mutant: copyState does not test isReading.
copyStateAnyway(new, inc, clearing) ==
  LET moved == Moved(new, IF clearing THEN clear(inc) ELSE inc) IN
  /\ newIncomingQueue' = moved.new
  /\ incomingQueue' = moved.inc
  /\ needsClear' = FALSE

\* copyState, on the queues and the flag the rest of the handler left.
copyState(new, inc, clearing) ==
  IF isReading
  THEN newIncomingQueue' = new /\ incomingQueue' = inc /\ needsClear' = clearing
  ELSE LET moved == Moved(new, IF clearing THEN clear(inc) ELSE inc) IN
       /\ newIncomingQueue' = moved.new
       /\ incomingQueue' = moved.inc
       /\ needsClear' = FALSE

\* resetState.
onReset ==
  /\ "RESET" \in JOYCNT
  /\ copyState([clear(newIncomingQueue) EXCEPT !.overflow = FALSE],
               IF isReading THEN incomingQueue ELSE clear(incomingQueue),
               isReading)
  /\ IF isWriting
     THEN queueNeedsClear' = TRUE /\ UNCHANGED outgoingQueue
     ELSE outgoingQueue' = clear(outgoingQueue) /\ UNCHANGED queueNeedsClear
  /\ resetFlag' = TRUE
  /\ UNCHANGED <<JOY_RECV, JOY_TRANS>>

onReceive ==
  /\ "RESET" \notin JOYCNT /\ "RECEIVE" \in JOYCNT
  /\ copyState(push(newIncomingQueue, JOY_RECV), incomingQueue, needsClear)
  /\ UNCHANGED <<JOY_RECV, JOY_TRANS, outbound, resetFlag>>

\* Mutants: setPendingData does not test isWriting; the handler copies
\* received words only when one has just arrived.
onSendAnyway ==
  /\ JOYCNT = {"SEND"}
  /\ JOY_TRANS' = Popped(outgoingQueue) /\ outgoingQueue' = pop(outgoingQueue)
  /\ copyState(newIncomingQueue, incomingQueue, needsClear)
  /\ UNCHANGED <<JOY_RECV, queueNeedsClear, resetFlag>>
onSendOnly ==
  /\ JOYCNT = {"SEND"}
  /\ IF isWriting
     THEN JOY_TRANS' = 0 /\ UNCHANGED outgoingQueue
     ELSE JOY_TRANS' = Popped(outgoingQueue) /\ outgoingQueue' = pop(outgoingQueue)
  /\ UNCHANGED <<JOY_RECV, inbound, queueNeedsClear, resetFlag>>

\* setPendingData.
onSend ==
  /\ JOYCNT = {"SEND"}
  /\ IF isWriting
     THEN JOY_TRANS' = 0 /\ UNCHANGED outgoingQueue
     ELSE JOY_TRANS' = Popped(outgoingQueue) /\ outgoingQueue' = pop(outgoingQueue)
  /\ copyState(newIncomingQueue, incomingQueue, needsClear)
  /\ UNCHANGED <<JOY_RECV, queueNeedsClear, resetFlag>>

\* The program is in _IntrWait, which returns after a SERIAL interrupt.
Woken == IF main = "IntrWait" THEN "wait test" ELSE main

onSerial ==
  /\ onReset \/ onReceive \/ onSend
  /\ JOYCNT' = {}
  /\ main' = Woken
  /\ UNCHANGED <<isReading, isWriting, tmp, gbaNext, gbaGot, wii>>

-----------------------------------------------------------------------------
(* The program's calls.                                                    *)

At(l, m) == main = l /\ main' = m

\* Nothing but what the program itself writes.
OnlyProgram == UNCHANGED <<registers, newIncomingQueue, needsClear, wii>>

\* send(): outgoingQueue.syncPush(gbaNext).
Send ==
  /\ "send" \in use.calls
  /\ gbaNext <= use.words
  /\ At("idle", "push")
  /\ isWriting' = TRUE
  /\ OnlyProgram
  /\ UNCHANGED <<incomingQueue, outbound, resetFlag, isReading, tmp, gbaNext, gbaGot>>

\* push() drops the oldest word of a full queue: front, then count.
PushDrop ==
  /\ isFull(outgoingQueue)
  /\ At("push", "push drop")
  /\ outgoingQueue' = [outgoingQueue EXCEPT !.overflow = TRUE,
                                            !.front = (@ + 1) % Size]
  /\ tmp' = outgoingQueue.count
  /\ OnlyProgram
  /\ UNCHANGED <<incomingQueue, queueNeedsClear, resetFlag, isReading, isWriting,
                 gbaNext, gbaGot>>

PushDropped ==
  /\ At("push drop", "push store")
  /\ outgoingQueue' = [outgoingQueue EXCEPT !.count = tmp - 1]
  /\ OnlyProgram
  /\ UNCHANGED <<incomingQueue, queueNeedsClear, resetFlag, isReading, isWriting,
                 tmp, gbaNext, gbaGot>>

PushStore ==
  /\ \/ main = "push" /\ ~isFull(outgoingQueue)
     \/ main = "push store"
  /\ main' = "push count"
  /\ LET rear == (outgoingQueue.rear + 1) % Size IN
     outgoingQueue' = [outgoingQueue EXCEPT !.rear = rear, !.arr[rear] = gbaNext]
  /\ tmp' = outgoingQueue.count
  /\ OnlyProgram
  /\ UNCHANGED <<incomingQueue, queueNeedsClear, resetFlag, isReading, isWriting,
                 gbaNext, gbaGot>>

PushCount ==
  /\ At("push count", "pushed")
  /\ outgoingQueue' = [outgoingQueue EXCEPT !.count = tmp + 1]
  /\ gbaNext' = gbaNext + 1
  /\ OnlyProgram
  /\ UNCHANGED <<incomingQueue, queueNeedsClear, resetFlag, isReading, isWriting,
                 tmp, gbaGot>>

\* Mutant: isWriting stays TRUE.
PushedWriting ==
  /\ At("pushed", "clear test")
  /\ OnlyProgram
  /\ UNCHANGED <<incomingQueue, outbound, resetFlag, isReading, isWriting, tmp,
                 gbaNext, gbaGot>>

Pushed ==
  /\ At("pushed", "clear test")
  /\ isWriting' = FALSE
  /\ OnlyProgram
  /\ UNCHANGED <<incomingQueue, outbound, resetFlag, isReading, tmp, gbaNext, gbaGot>>

(* The clear the handler put off while the program was writing: front,     *)
(* count and rear in turn, with isWriting already FALSE.                   *)
Clear(q) ==
  /\ outgoingQueue' = q
  /\ OnlyProgram
  /\ UNCHANGED <<incomingQueue, queueNeedsClear, resetFlag, isReading, isWriting,
                 tmp, gbaNext, gbaGot>>

DeferredClear ==
  \/ /\ queueNeedsClear
     /\ At("clear test", "clear count")
     /\ Clear([outgoingQueue EXCEPT !.front = 0])
  \/ At("clear count", "clear rear") /\ Clear([outgoingQueue EXCEPT !.count = 0])
  \/ At("clear rear", "cleared") /\ Clear([outgoingQueue EXCEPT !.rear = -1])

Sent ==
  /\ \/ main = "clear test" /\ ~queueNeedsClear /\ UNCHANGED queueNeedsClear
     \/ main = "cleared" /\ queueNeedsClear' = FALSE
  /\ main' = "idle"
  /\ OnlyProgram
  /\ UNCHANGED <<incomingQueue, outgoingQueue, resetFlag, isReading, isWriting,
                 tmp, gbaNext, gbaGot>>

\* read(), called once canRead() has answered TRUE: incomingQueue.syncPop().
Read ==
  /\ "read" \in use.calls
  /\ ~isEmpty(incomingQueue)
  /\ At("idle", "read")
  /\ OnlyProgram
  /\ UNCHANGED <<incomingQueue, outbound, resetFlag, isReading, isWriting, tmp,
                 gbaNext, gbaGot>>

StartRead ==
  /\ At("read", "pop")
  /\ isReading' = TRUE
  /\ OnlyProgram
  /\ UNCHANGED <<incomingQueue, outbound, resetFlag, isWriting, tmp, gbaNext, gbaGot>>

PopEmpty ==
  /\ isEmpty(incomingQueue)
  /\ At("pop", "popped")
  /\ OnlyProgram
  /\ UNCHANGED <<incomingQueue, outbound, resetFlag, isReading, isWriting, tmp,
                 gbaNext, gbaGot>>

Pop ==
  /\ ~isEmpty(incomingQueue)
  /\ At("pop", "pop count")
  /\ gbaGot' = Popped(incomingQueue)
  /\ incomingQueue' = [incomingQueue EXCEPT !.front = (@ + 1) % Size]
  /\ tmp' = incomingQueue.count
  /\ OnlyProgram
  /\ UNCHANGED <<outbound, resetFlag, isReading, isWriting, gbaNext>>

PopCount ==
  /\ At("pop count", "popped")
  /\ incomingQueue' = [incomingQueue EXCEPT !.count = tmp - 1]
  /\ OnlyProgram
  /\ UNCHANGED <<outbound, resetFlag, isReading, isWriting, tmp, gbaNext, gbaGot>>

FinishRead ==
  /\ At("popped", "idle")
  /\ isReading' = FALSE
  /\ OnlyProgram
  /\ UNCHANGED <<incomingQueue, outbound, resetFlag, isWriting, tmp, gbaNext, gbaGot>>

\* wait(): the test of its loop and the sleep are two steps.
Wait ==
  /\ "wait" \in use.calls
  /\ At("idle", "wait test")
  /\ resetFlag' = FALSE
  /\ OnlyProgram
  /\ UNCHANGED <<incomingQueue, outbound, isReading, isWriting, tmp, gbaNext, gbaGot>>

WaitTest ==
  /\ At("wait test", IF ~resetFlag /\ isEmpty(incomingQueue)
                     THEN "IntrWait" ELSE "idle")
  /\ OnlyProgram
  /\ UNCHANGED <<incomingQueue, outbound, resetFlag, isReading, isWriting, tmp,
                 gbaNext, gbaGot>>

\* didReset() and didQueueOverflow(): the flag is loaded, then cleared.
LoadFlag ==
  /\ \/ /\ "didReset" \in use.calls
        /\ At("idle", "didReset")
        /\ tmp' = IF resetFlag THEN 1 ELSE 0
     \/ /\ "didQueueOverflow" \in use.calls
        /\ At("idle", "didQueueOverflow")
        /\ tmp' = IF newIncomingQueue.overflow THEN 1 ELSE 0
  /\ OnlyProgram
  /\ UNCHANGED <<incomingQueue, outbound, resetFlag, isReading, isWriting, gbaNext,
                 gbaGot>>

ClearFlag ==
  /\ \/ /\ At("didReset", "idle")
        /\ resetFlag' = FALSE
        /\ UNCHANGED newIncomingQueue
     \/ /\ At("didQueueOverflow", "idle")
        /\ newIncomingQueue' = [newIncomingQueue EXCEPT !.overflow = FALSE]
        /\ UNCHANGED resetFlag
  /\ tmp' = 0
  /\ UNCHANGED <<registers, incomingQueue, needsClear, outbound, isReading,
                 isWriting, gbaNext, gbaGot, wii>>

-----------------------------------------------------------------------------
Sending == PushDrop \/ PushDropped \/ PushStore \/ PushCount \/ Pushed
           \/ DeferredClear \/ Sent
Reading == StartRead \/ PopEmpty \/ Pop \/ PopCount \/ FinishRead
Program == Send \/ Sending \/ Read \/ Reading \/ Wait \/ WaitTest
           \/ LoadFlag \/ ClearFlag

Next == WiiWrite \/ WiiRead \/ WiiReset \/ onSerial \/ Program

Spec == Init /\ [][Next]_vars

(* Fairness: the hardware delivers the interrupt, the program completes a  *)
(* call and, polling canRead() between calls, does not pass over a word    *)
(* for ever; the Wii polls (gba_read in do_receive's loop).                *)
Fairness ==
  /\ WF_vars(onSerial) /\ WF_vars(WiiRead)
  /\ WF_vars(Sending) /\ WF_vars(Reading) /\ SF_vars(Read)
  /\ WF_vars(WaitTest) /\ WF_vars(ClearFlag)

FairSpec == Spec /\ Fairness

-----------------------------------------------------------------------------
(* Properties.                                                             *)

\* front, rear and count of a queue describe the same run of slots.
WellFormed(q) == (q.front + q.count) % Size = (q.rear + 1) % Size

(* The program and the handler both move the words of incomingQueue; the   *)
(* handler keeps off it while the program reads, and clears it later when  *)
(* a reset comes meanwhile, so it is consistent between calls.             *)
IncomingConsistent ==
  WellFormed(newIncomingQueue) /\ (main = "idle" => WellFormed(incomingQueue))

(* The words under way, as the two programs see them: a word in JOY_TRANS  *)
(* that the Wii has read already is no longer one of them.                 *)
ToGba == Items(incomingQueue,
               IF main = "pop count" THEN incomingQueue.count - 1
                                     ELSE incomingQueue.count)
           \o Items(newIncomingQueue, newIncomingQueue.count)
           \o IF "RECEIVE" \in JOYCNT THEN <<JOY_RECV>> ELSE <<>>
ToWii == (IF "SEND" \in JOYCNT \/ JOY_TRANS = 0 THEN <<>> ELSE <<JOY_TRANS>>)
           \o Items(outgoingQueue,
                    IF main = "push drop" THEN outgoingQueue.count - 1
                                          ELSE outgoingQueue.count)

(* A pipe when the use is paced and has no resets, one that is not used    *)
(* otherwise.                                                              *)
Piped == use.paced /\ use.resets = 0

Pipe == INSTANCE JoybusPipe WITH
  Room    <- Size,
  toGba   <- IF Piped THEN ToGba ELSE <<>>,
  toWii   <- IF Piped THEN ToWii ELSE <<>>,
  gbaNext <- IF Piped THEN gbaNext ELSE 1,
  gbaGot  <- IF Piped THEN gbaGot ELSE 0,
  wiiNext <- IF Piped THEN wiiNext ELSE 1,
  wiiGot  <- IF Piped THEN wiiGot ELSE 0

(* As long as the Wii gives the handler time to run after each command,    *)
(* the driver implements the two queues: at every step of send() and       *)
(* read() the handler may interrupt, no word is duplicated, reordered or   *)
(* invented, and none is lost while there is room for it.                  *)
ImplementsPipe == Pipe!Spec

(* Each word a read() pops comes after the one popped before it: none is   *)
(* read again, not even at once, and none out of order, also when the      *)
(* Wii's commands outrun the handler, when queues overflow and when resets *)
(* come at any point of a call.                                            *)
ReadInOrder == [][main = "pop" /\ main' = "pop count" => gbaGot' > gbaGot]_vars

(* Every word the program sent reaches the Wii, or is dropped for later    *)
(* ones that do, when the Wii keeps polling: JOY_TRANS is only filled by   *)
(* the interrupt of the read before, and not while send() is under way.    *)
OutboundDelivered ==
  []<>(use.paced => wiiGot = gbaNext - 1)

(* Every word the Wii wrote reaches the program, or is dropped for later   *)
(* ones that do: the interrupt of a later poll moves the words the handler *)
(* could not move while read() was under way, and ends a wait() that went  *)
(* to sleep on a word that was already there.                              *)
InboundDelivered ==
  []<>(use.paced => gbaGot = wiiNext - 1)

=============================================================================
