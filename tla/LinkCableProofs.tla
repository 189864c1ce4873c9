--------------------------- MODULE LinkCableProofs --------------------------
(***************************************************************************)
(* Proofs about LinkCable, for any number of consoles on the cable, queues *)
(* of any size, any timeout and any number of words: its state is typed,   *)
(* a silent player is noticed, and then, by an invariant of its own, the   *)
(* messages of a console reach another in the order of the sends, and none *)
(* is lost while neither was reset, unplugged or switched off and no queue *)
(* was full.                                                               *)
(***************************************************************************)
EXTENDS LinkCable, SequenceTheorems, FiniteSetTheorems, WellFoundedInduction, TLAPS

USE CableAssumption DEF NO_DATA, DISCONNECTED, OFFLINE, Nobody

-----------------------------------------------------------------------------
(* Queues.                                                                 *)

Queue  == {q \in Seq(Nat) : Len(q) <= Size}
Queues == [Players -> Queue]

\* The words in a queue, and a queue whose words are in the order of the sends.
WordsIn(q) == {q[n] : n \in 1..Len(q)}
Rising(q)  == \A m, n \in 1..Len(q) : m < n => q[m] < q[n]
Before(S, T) == \A x \in S, y \in T : x < y

LEMMA EmptyQueue ==
  /\ <<>> \in Queue /\ WordsIn(<<>>) = {} /\ Rising(<<>>)
  /\ NoMessages \in Queues /\ \A p \in Players : NoMessages[p] = <<>>
  BY DEF Queue, Queues, WordsIn, Rising, NoMessages

LEMMA WordsAreNat ==
  ASSUME NEW q \in Queue
  PROVE  WordsIn(q) \subseteq Nat
  BY DEF Queue, WordsIn

\* The oldest word of a queue is taken.
LEMMA TailOfQueue ==
  ASSUME NEW q \in Queue, q # <<>>
  PROVE  /\ Tail(q) \in Queue /\ Head(q) \in Nat /\ Len(Tail(q)) = Len(q) - 1
         /\ WordsIn(q) = {Head(q)} \cup WordsIn(Tail(q))
         /\ Rising(q) => Rising(Tail(q)) /\ Before({Head(q)}, WordsIn(Tail(q)))
<1>1. /\ Head(q) \in Nat /\ Head(q) = q[1] /\ Len(q) \in Nat \ {0}
      /\ Tail(q) \in Seq(Nat) /\ Len(Tail(q)) = Len(q) - 1
      /\ \A i \in 1..Len(Tail(q)) : Tail(q)[i] = q[i + 1]
  BY HeadTailProperties, EmptySeq DEF Queue
<1>2. Tail(q) \in Queue
  BY <1>1 DEF Queue
<1>3. WordsIn(q) = {Head(q)} \cup WordsIn(Tail(q))
  <2>1. ASSUME NEW i \in 1..Len(q) PROVE q[i] \in {Head(q)} \cup WordsIn(Tail(q))
    <3>1. CASE i = 1
      BY <3>1, <1>1
    <3>2. CASE i # 1
      <4>1. i - 1 \in 1..Len(Tail(q)) /\ Tail(q)[i - 1] = q[i]
        BY <3>2, <1>1
      <4>. QED
        BY <4>1 DEF WordsIn
    <3>. QED
      BY <3>1, <3>2
  <2>2. ASSUME NEW i \in 1..Len(Tail(q)) PROVE Tail(q)[i] \in WordsIn(q)
    BY <1>1, i + 1 \in 1..Len(q) DEF WordsIn
  <2>3. Head(q) \in WordsIn(q)
    BY <1>1, 1 \in 1..Len(q) DEF WordsIn
  <2>. QED
    BY <2>1, <2>2, <2>3 DEF WordsIn
<1>4. ASSUME Rising(q) PROVE Rising(Tail(q)) /\ Before({Head(q)}, WordsIn(Tail(q)))
  <2>1. ASSUME NEW m \in 1..Len(Tail(q)) PROVE m + 1 \in 1..Len(q) /\ q[1] < q[m + 1]
    BY <1>1, <1>4 DEF Rising
  <2>2. Rising(Tail(q))
    <3>. SUFFICES ASSUME NEW m \in 1..Len(Tail(q)), NEW n \in 1..Len(Tail(q)), m < n
                  PROVE  Tail(q)[m] < Tail(q)[n]
      BY DEF Rising
    <3>. QED
      BY <1>1, <1>4, <2>1 DEF Rising
  <2>. QED
    BY <1>1, <2>1, <2>2 DEF Before, WordsIn
<1>. QED
  BY <1>1, <1>2, <1>3, <1>4

\* A word is stored; a full queue drops its oldest word for it.
LEMMA PushOfQueue ==
  ASSUME NEW q \in Queue, NEW w \in Nat
  PROVE  /\ push(q, w) \in Queue
         /\ WordsIn(push(q, w)) \subseteq WordsIn(q) \cup {w}
         /\ ~isFull(q) => WordsIn(push(q, w)) = WordsIn(q) \cup {w}
         /\ Rising(q) /\ Before(WordsIn(q), {w}) => Rising(push(q, w))
<1>1. ASSUME NEW s \in Queue, Len(s) < Size
      PROVE  /\ Append(s, w) \in Queue /\ WordsIn(Append(s, w)) = WordsIn(s) \cup {w}
             /\ Rising(s) /\ Before(WordsIn(s), {w}) => Rising(Append(s, w))
  <2>. DEFINE t == Append(s, w)
  <2>1. /\ t \in Seq(Nat) /\ Len(t) = Len(s) + 1 /\ Len(s) \in Nat
        /\ \A i \in 1..Len(s) : t[i] = s[i] /\ s[i] \in WordsIn(s)
        /\ t[Len(s) + 1] = w
    BY <1>1, AppendProperties DEF Queue, WordsIn
  <2>. HIDE DEF t
  <2>2. t \in Queue
    BY <1>1, <2>1 DEF Queue
  <2>3. WordsIn(t) = WordsIn(s) \cup {w}
    <3>1. ASSUME NEW i \in 1..Len(t) PROVE t[i] \in WordsIn(s) \cup {w}
      BY <2>1
    <3>2. ASSUME NEW i \in 1..Len(s) PROVE s[i] \in WordsIn(t)
      BY <2>1, i \in 1..Len(t) DEF WordsIn
    <3>3. w \in WordsIn(t)
      BY <2>1, Len(s) + 1 \in 1..Len(t) DEF WordsIn
    <3>. QED
      BY <3>1, <3>2, <3>3 DEF WordsIn
  <2>4. ASSUME Rising(s), Before(WordsIn(s), {w}) PROVE Rising(t)
    <3>. SUFFICES ASSUME NEW m \in 1..Len(t), NEW n \in 1..Len(t), m < n PROVE t[m] < t[n]
      BY DEF Rising
    <3>1. m \in 1..Len(s)
      BY <2>1
    <3>2. CASE n \in 1..Len(s)
      BY <2>1, <2>4, <3>1, <3>2 DEF Rising
    <3>3. CASE n = Len(s) + 1
      BY <2>1, <2>4, <3>1, <3>3 DEF Before
    <3>. QED
      BY <2>1, <3>2, <3>3
  <2>. QED
    BY <2>2, <2>3, <2>4 DEF t
<1>2. CASE ~isFull(q)
  <2>1. Len(q) < Size /\ push(q, w) = Append(q, w)
    BY <1>2, LenProperties DEF isFull, Queue, push
  <2>. QED
    BY <1>1, <2>1
<1>3. CASE isFull(q)
  <2>1. q # <<>> /\ push(q, w) = Append(Tail(q), w)
    BY <1>3, EmptySeq DEF isFull, Queue, push
  <2>2. /\ Tail(q) \in Queue /\ Len(Tail(q)) = Len(q) - 1
        /\ WordsIn(Tail(q)) \subseteq WordsIn(q) /\ (Rising(q) => Rising(Tail(q)))
    BY <2>1, TailOfQueue
  <2>3. Len(Tail(q)) < Size
    BY <1>3, <2>2 DEF isFull
  <2>4. /\ push(q, w) \in Queue /\ WordsIn(push(q, w)) = WordsIn(Tail(q)) \cup {w}
        /\ (Rising(Tail(q)) /\ Before(WordsIn(Tail(q)), {w}) => Rising(push(q, w)))
    BY <1>1, <2>1, <2>2, <2>3
  <2>5. Before(WordsIn(q), {w}) => Before(WordsIn(Tail(q)), {w})
    BY <2>2 DEF Before
  <2>. QED
    BY <1>3, <2>2, <2>4, <2>5
<1>. QED
  BY <1>2, <1>3

\* move() takes the oldest words of a queue behind those of another, as many as
\* fit, and leaves the rest where it is.
LEMMA MoveOfQueue ==
  ASSUME NEW src \in Queue, NEW dst \in Queue
  PROVE  /\ MovedTo(src, dst) \in Queue /\ MovedFrom(src, dst) \in Queue
         /\ Len(MovedTo(src, dst)) + Len(MovedFrom(src, dst)) = Len(src) + Len(dst)
         /\ WordsIn(MovedTo(src, dst)) \subseteq WordsIn(src) \cup WordsIn(dst)
         /\ WordsIn(MovedFrom(src, dst)) \subseteq WordsIn(src)
         /\ WordsIn(MovedTo(src, dst)) \cup WordsIn(MovedFrom(src, dst))
              = WordsIn(src) \cup WordsIn(dst)
         /\ Rising(src) /\ Rising(dst) /\ Before(WordsIn(dst), WordsIn(src)) =>
              /\ Rising(MovedTo(src, dst)) /\ Rising(MovedFrom(src, dst))
              /\ Before(WordsIn(MovedTo(src, dst)), WordsIn(MovedFrom(src, dst)))
<1>. DEFINE f == Fits(src, dst)
            moved == SubSeq(src, 1, f)
            to == MovedTo(src, dst)
            from == MovedFrom(src, dst)
<1>1. /\ Len(src) \in Nat /\ Len(dst) \in Nat /\ f \in 0..Len(src) /\ f + Len(dst) <= Size
      /\ \A i \in 1..Len(src) : src[i] \in Nat /\ src[i] \in WordsIn(src)
      /\ \A i \in 1..Len(dst) : dst[i] \in Nat /\ dst[i] \in WordsIn(dst)
  <2>1. /\ Len(src) \in Nat /\ Len(dst) \in Nat /\ Len(dst) <= Size /\ Size \in Nat
        /\ src \in Seq(Nat) /\ dst \in Seq(Nat)
    BY DEF Queue
  <2>2. f \in 0..Len(src) /\ f + Len(dst) <= Size
    BY <2>1 DEF Fits
  <2>. QED
    BY <2>1, <2>2, ElementOfSeq DEF WordsIn
<1>. HIDE DEF f
<1>2. /\ moved \in Seq(Nat) /\ Len(moved) = f
      /\ \A i \in 1..f : moved[i] = src[i]
  BY <1>1, SubSeqProperties
<1>3. /\ from \in Seq(Nat) /\ Len(from) = Len(src) - f
      /\ \A i \in 1..Len(src) - f : from[i] = src[f + i]
  <2>1. from = SubSeq(src, f + 1, Len(src)) /\ \A i \in (f + 1)..Len(src) : src[i] \in Nat
    BY <1>1 DEF MovedFrom, f
  <2>. QED
    BY <1>1, <2>1, SubSeqProperties
<1>4. /\ to \in Seq(Nat) /\ Len(to) = Len(dst) + f
      /\ \A i \in 1..Len(dst) + f : to[i] = IF i <= Len(dst) THEN dst[i] ELSE src[i - Len(dst)]
  <2>1. to = dst \o moved
    BY DEF MovedTo, f
  <2>2. dst \in Seq(Nat)
    BY DEF Queue
  <2>. QED
    BY <1>1, <1>2, <2>1, <2>2, ConcatProperties
<1>. HIDE DEF to, from, moved
<1>5. to \in Queue /\ from \in Queue
  BY <1>1, <1>3, <1>4 DEF Queue
<1>6. ASSUME NEW x \in WordsIn(to)
      PROVE  \/ \E i \in 1..Len(dst) : x = dst[i]
             \/ \E i \in 1..f : x = src[i]
  <2>1. PICK i \in 1..Len(to) : x = to[i]
    BY <1>6 DEF WordsIn
  <2>2. CASE i <= Len(dst)
    BY <1>1, <1>4, <2>1, <2>2, i \in 1..Len(dst)
  <2>3. CASE i > Len(dst)
    <3>1. i - Len(dst) \in 1..f /\ to[i] = src[i - Len(dst)]
      BY <1>1, <1>4, <2>3
    <3>. QED
      BY <2>1, <3>1
  <2>. QED
    BY <1>1, <1>4, <2>1, <2>2, <2>3
<1>7. ASSUME NEW x \in WordsIn(from)
      PROVE  \E i \in (f + 1)..Len(src) : x = src[i]
  <2>1. PICK i \in 1..Len(from) : x = from[i]
    BY <1>7 DEF WordsIn
  <2>. QED
    BY <2>1, <1>1, <1>3
<1>8. ASSUME NEW i \in 1..Len(dst) PROVE dst[i] \in WordsIn(to)
  BY <1>1, <1>4, i \in 1..Len(to), to[i] = dst[i] DEF WordsIn
<1>9. ASSUME NEW i \in 1..Len(src) PROVE src[i] \in WordsIn(to) \cup WordsIn(from)
  <2>1. CASE i <= f
    <3>1. PICK j \in 1..Len(to) : j = Len(dst) + i
      BY <1>1, <1>4, <2>1
    <3>2. j - Len(dst) = i /\ ~(j <= Len(dst)) /\ j \in 1..Len(dst) + f
      BY <1>1, <1>4, <3>1
    <3>3. to[j] = src[i]
      BY <1>4, <3>2
    <3>. QED
      BY <3>3 DEF WordsIn
  <2>2. CASE i > f
    <3>1. i - f \in 1..Len(from) /\ from[i - f] = src[i]
      BY <1>1, <1>3, <2>2
    <3>. QED
      BY <3>1 DEF WordsIn
  <2>. QED
    BY <1>1, <2>1, <2>2
<1>10. /\ WordsIn(to) \subseteq WordsIn(src) \cup WordsIn(dst)
       /\ WordsIn(from) \subseteq WordsIn(src)
  <2>1. \A i \in 1..f : src[i] \in WordsIn(src)
    BY <1>1
  <2>2. \A i \in (f + 1)..Len(src) : src[i] \in WordsIn(src)
    BY <1>1
  <2>. QED
    BY <1>1, <1>6, <1>7, <2>1, <2>2
<1>11. WordsIn(src) \cup WordsIn(dst) \subseteq WordsIn(to) \cup WordsIn(from)
  BY <1>8, <1>9 DEF WordsIn
<1>12. ASSUME Rising(src), Rising(dst), Before(WordsIn(dst), WordsIn(src))
       PROVE  Rising(to) /\ Rising(from) /\ Before(WordsIn(to), WordsIn(from))
  <2>1. Rising(to)
    <3>. SUFFICES ASSUME NEW m \in 1..Len(to), NEW n \in 1..Len(to), m < n PROVE to[m] < to[n]
      BY DEF Rising
    <3>1. CASE n <= Len(dst)
      <4>1. to[m] = dst[m] /\ to[n] = dst[n] /\ m \in 1..Len(dst) /\ n \in 1..Len(dst)
        BY <1>1, <1>4, <3>1
      <4>. QED
        BY <1>12, <4>1 DEF Rising
    <3>2. CASE m > Len(dst)
      <4>0. /\ m \in 1..(Len(dst) + f) /\ ~(m <= Len(dst))
            /\ n \in 1..(Len(dst) + f) /\ ~(n <= Len(dst))
        BY <1>1, <1>4, <3>2
      <4>1. /\ to[m] = src[m - Len(dst)] /\ to[n] = src[n - Len(dst)]
            /\ m - Len(dst) \in 1..Len(src) /\ n - Len(dst) \in 1..Len(src)
        <5>1. to[m] = src[m - Len(dst)] /\ to[n] = src[n - Len(dst)]
          BY <1>4, <4>0
        <5>2. m - Len(dst) \in 1..Len(src) /\ n - Len(dst) \in 1..Len(src)
          BY <1>1, <4>0
        <5>. QED
          BY <5>1, <5>2
      <4>. QED
        BY <1>1, <1>12, <4>1, m - Len(dst) < n - Len(dst) DEF Rising
    <3>3. CASE m <= Len(dst) /\ n > Len(dst)
      <4>1. /\ to[m] = dst[m] /\ to[n] = src[n - Len(dst)]
            /\ m \in 1..Len(dst) /\ n - Len(dst) \in 1..Len(src)
        BY <1>1, <1>4, <3>3
      <4>. QED
        BY <1>1, <1>12, <4>1 DEF Before
    <3>. QED
      BY <1>1, <3>1, <3>2, <3>3
  <2>2. Rising(from)
    <3>. SUFFICES ASSUME NEW m \in 1..Len(from), NEW n \in 1..Len(from), m < n
                  PROVE  from[m] < from[n]
      BY DEF Rising
    <3>. QED
      <4>1. /\ from[m] = src[f + m] /\ from[n] = src[f + n] /\ f + m < f + n
            /\ f + m \in 1..Len(src) /\ f + n \in 1..Len(src)
        BY <1>1, <1>3
      <4>. QED
        BY <1>12, <4>1 DEF Rising
  <2>3. ASSUME NEW x \in WordsIn(to), NEW y \in WordsIn(from) PROVE x < y
    <3>1. PICK j \in (f + 1)..Len(src) : y = src[j]
      BY <1>7
    <3>2. CASE \E i \in 1..Len(dst) : x = dst[i]
      BY <1>1, <1>12, <3>1, <3>2 DEF Before
    <3>3. CASE \E i \in 1..f : x = src[i]
      BY <1>1, <1>12, <3>1, <3>3 DEF Rising
    <3>. QED
      BY <1>6, <3>2, <3>3
  <2>. QED
    BY <2>1, <2>2, <2>3 DEF Before
<1>. QED
  BY <1>1, <1>3, <1>4, <1>5, <1>10, <1>11, <1>12 DEF to, from

-----------------------------------------------------------------------------
(* Types.                                                                  *)

InternalState ==
  [outgoing : Queue, isWriting : BOOLEAN, needsClear : BOOLEAN,
   ready : Queues, new : Queues,
   msgTimeouts : [Players -> Nat \cup {OFFLINE}], msgFlags : [Players -> BOOLEAN],
   IRQTimeout : Nat, IRQFlag : BOOLEAN, isResetTimeoutPending : BOOLEAN]

ExternalState == [synced : Queues, playerCount : Nat, currentPlayerId : Players]

\* The words of a transfer: a console that is not there is heard as DISCONNECTED.
Heard == [Players -> Nat \cup {DISCONNECTED}]
Places == {"idle", "push", "pushed", "moved", "collected", "asleep", "sync"}

WireTypes ==
  /\ plugged \subseteq Players /\ multi \subseteq Players
  /\ SIOMLT_SEND \in [Players -> Nat]
  /\ wire \in {<<>>} \cup [Players -> Nat]
  /\ irq \in [Players -> {None} \cup [data : Heard, error : BOOLEAN]]

DriverTypes ==
  /\ int \in [Players -> InternalState]
  /\ ext \in [Players -> ExternalState]
  /\ isEnabled \in [Players -> BOOLEAN] /\ isReadingMessages \in [Players -> BOOLEAN]

ProgramTypes ==
  /\ at \in [Players -> Places]
  /\ left \in [Players -> Queues]
  /\ sent \in [Players -> Nat] /\ got \in [Players -> [Players -> Nat]]

HistoryTypes ==
  /\ silent \in [Players -> [Players -> Nat]]
  /\ lossy \subseteq Players

TypeOK == WireTypes /\ DriverTypes /\ ProgramTypes /\ HistoryTypes

-----------------------------------------------------------------------------
(* What the helpers do to the state of a driver.                           *)

\* copyState() moves the messages of the players that are online, drops those of
\* the others, and does nothing while the program reads.
LEMMA CopyStateFacts ==
  ASSUME NEW i \in InternalState, NEW reading \in BOOLEAN, NEW j, j = copyState(i, reading)
  PROVE  /\ j \in InternalState
         /\ j.outgoing = i.outgoing /\ j.msgTimeouts = i.msgTimeouts /\ j.msgFlags = i.msgFlags
         /\ j.IRQTimeout = i.IRQTimeout /\ j.IRQFlag = i.IRQFlag
         /\ reading => j = i
         /\ ~reading => \A p \in Players :
              IF isOnline(i, p)
              THEN /\ j.ready[p] = MovedTo(i.new[p], i.ready[p])
                   /\ j.new[p] = MovedFrom(i.new[p], i.ready[p])
              ELSE j.ready[p] = <<>> /\ j.new[p] = i.new[p]
<1>1. CASE reading
  BY <1>1 DEF copyState
<1>2. CASE ~reading
  <2>. DEFINE ready == [p \in Players |-> IF isOnline(i, p) THEN MovedTo(i.new[p], i.ready[p])
                                          ELSE <<>>]
              new == [p \in Players |-> IF isOnline(i, p) THEN MovedFrom(i.new[p], i.ready[p])
                                        ELSE i.new[p]]
  <2>1. j = [i EXCEPT !.ready = ready, !.new = new]
    BY <1>2 DEF copyState, copyStateAnyway
  <2>2. i.new \in Queues /\ i.ready \in Queues
    BY DEF InternalState
  <2>3. ready \in Queues /\ new \in Queues
    BY <2>2, MoveOfQueue, EmptyQueue DEF Queues
  <2>4. /\ \A p \in Players : isOnline(i, p) =>
             /\ ready[p] = MovedTo(i.new[p], i.ready[p])
             /\ new[p] = MovedFrom(i.new[p], i.ready[p])
        /\ \A p \in Players : ~isOnline(i, p) => ready[p] = <<>> /\ new[p] = i.new[p]
    OBVIOUS
  <2>. HIDE DEF ready, new
  <2>5. /\ j \in InternalState /\ j.ready = ready /\ j.new = new
        /\ j.outgoing = i.outgoing /\ j.msgTimeouts = i.msgTimeouts /\ j.msgFlags = i.msgFlags
        /\ j.IRQTimeout = i.IRQTimeout /\ j.IRQFlag = i.IRQFlag
    BY <2>1, <2>3 DEF InternalState
  <2>. QED
    BY <1>2, <2>4, <2>5
<1>. QED
  BY <1>1, <1>2

\* resetState(): every player is offline, and nothing is kept of what was received
\* unless the program is taking it.
LEMMA ResetStateFacts ==
  ASSUME NEW i \in InternalState, NEW reading \in BOOLEAN, NEW j, j = resetState(i, reading)
  PROVE  /\ j \in InternalState
         /\ j.outgoing \in {i.outgoing, <<>>}
         /\ j.IRQTimeout = 0 /\ ~j.IRQFlag
         /\ j.ready = IF reading THEN i.ready ELSE NoMessages
         /\ j.new = NoMessages
         /\ \A p \in Players : j.msgTimeouts[p] = OFFLINE /\ ~j.msgFlags[p]
<1>1. /\ i.outgoing \in Queue /\ i.isWriting \in BOOLEAN /\ i.needsClear \in BOOLEAN
      /\ i.ready \in Queues
  BY DEF InternalState
<1>2. /\ [p \in Players |-> OFFLINE] \in [Players -> Nat \cup {OFFLINE}]
      /\ [p \in Players |-> FALSE] \in [Players -> BOOLEAN]
  OBVIOUS
<1>. QED
  BY <1>1, <1>2, EmptyQueue DEF resetState, InternalState

LEMMA TimeoutsResetFacts ==
  ASSUME NEW i \in InternalState, NEW j, j = TimeoutsReset(i)
  PROVE  /\ j \in InternalState
         /\ j.outgoing = i.outgoing /\ j.ready = i.ready /\ j.new = i.new
         /\ j.msgFlags = i.msgFlags /\ j.IRQFlag = i.IRQFlag
         /\ i.isResetTimeoutPending =>
              j.IRQTimeout = 0 /\ \A p \in Players : j.msgTimeouts[p] = 0
         /\ ~i.isResetTimeoutPending => j = i
<1>1. [p \in Players |-> 0] \in [Players -> Nat \cup {OFFLINE}]
  OBVIOUS
<1>. QED
  BY <1>1 DEF TimeoutsReset, InternalState

LEMMA FrameFacts ==
  ASSUME NEW i \in InternalState, NEW j, j = Frame(i)
  PROVE  /\ j \in InternalState
         /\ j.outgoing = i.outgoing /\ j.ready = i.ready /\ j.new = i.new
         /\ j.IRQTimeout = (IF i.IRQFlag THEN i.IRQTimeout ELSE i.IRQTimeout + 1)
         /\ ~j.IRQFlag
         /\ \A p \in Players :
              /\ ~j.msgFlags[p]
              /\ j.msgTimeouts[p] = IF isOnline(i, p) /\ ~i.msgFlags[p] THEN i.msgTimeouts[p] + 1
                                    ELSE i.msgTimeouts[p]
<1>. DEFINE timeouts == [p \in Players |-> IF isOnline(i, p) /\ ~i.msgFlags[p]
                                           THEN i.msgTimeouts[p] + 1 ELSE i.msgTimeouts[p]]
            flags == [p \in Players |-> FALSE]
<1>1. timeouts \in [Players -> Nat \cup {OFFLINE}] /\ flags \in [Players -> BOOLEAN]
  BY DEF InternalState, isOnline
<1>2. j = [i EXCEPT !.IRQTimeout = IF i.IRQFlag THEN @ ELSE @ + 1, !.IRQFlag = FALSE,
                    !.msgTimeouts = timeouts, !.msgFlags = flags]
  BY DEF Frame, InternalState
<1>3. \A p \in Players :
        /\ ~flags[p]
        /\ timeouts[p] = IF isOnline(i, p) /\ ~i.msgFlags[p] THEN i.msgTimeouts[p] + 1
                         ELSE i.msgTimeouts[p]
  OBVIOUS
<1>. HIDE DEF timeouts, flags
<1>4. /\ i.IRQTimeout \in Nat /\ i.IRQFlag \in BOOLEAN
      /\ (IF i.IRQFlag THEN i.IRQTimeout ELSE i.IRQTimeout + 1) \in Nat
  BY DEF InternalState
<1>5. /\ j \in InternalState /\ j.msgTimeouts = timeouts /\ j.msgFlags = flags
      /\ j.outgoing = i.outgoing /\ j.ready = i.ready /\ j.new = i.new
      /\ j.IRQTimeout = (IF i.IRQFlag THEN i.IRQTimeout ELSE i.IRQTimeout + 1)
      /\ ~j.IRQFlag
  BY <1>1, <1>2, <1>4 DEF InternalState
<1>. QED
  BY <1>3, <1>5

\* A player that has been silent for as long as the timeout.
GoesOffline(i, p, data) ==
  data[p] = DISCONNECTED /\ isOnline(i, p) /\ i.msgTimeouts[p] >= timeout

\* A player's word is stored, or only says that it is there, or that it is not.
LEMMA ReceivedAllFacts ==
  ASSUME NEW i \in InternalState, NEW c \in Players, NEW data \in Heard,
         NEW j, j = ReceivedAll(i, c, data)
  PROVE  /\ j \in InternalState
         /\ j.outgoing = i.outgoing /\ j.ready = i.ready
         /\ j.IRQTimeout = i.IRQTimeout /\ j.IRQFlag = i.IRQFlag
         /\ \A p \in Players :
              /\ data[p] # DISCONNECTED =>
                   /\ j.msgTimeouts[p] = 0 /\ j.msgFlags[p]
                   /\ j.new[p] = IF data[p] > 0 /\ p # c THEN push(i.new[p], data[p])
                                 ELSE i.new[p]
              /\ GoesOffline(i, p, data) =>
                   j.msgTimeouts[p] = OFFLINE /\ ~j.msgFlags[p] /\ j.new[p] = <<>>
              /\ data[p] = DISCONNECTED /\ ~GoesOffline(i, p, data) =>
                   /\ j.msgTimeouts[p] = i.msgTimeouts[p] /\ j.msgFlags[p] = i.msgFlags[p]
                   /\ j.new[p] = i.new[p]
<1>. DEFINE new == [p \in Players |-> Received(i, c, p, data).new[p]]
            timeouts == [p \in Players |-> Received(i, c, p, data).msgTimeouts[p]]
            flags == [p \in Players |-> Received(i, c, p, data).msgFlags[p]]
<1>0. /\ i.new \in Queues /\ i.msgTimeouts \in [Players -> Nat \cup {OFFLINE}]
      /\ i.msgFlags \in [Players -> BOOLEAN]
  BY DEF InternalState
<1>1. ASSUME NEW p \in Players
      PROVE  /\ data[p] # DISCONNECTED =>
                  /\ timeouts[p] = 0 /\ flags[p]
                  /\ new[p] = IF data[p] > 0 /\ p # c THEN push(i.new[p], data[p])
                              ELSE i.new[p]
             /\ GoesOffline(i, p, data) =>
                  timeouts[p] = OFFLINE /\ ~flags[p] /\ new[p] = <<>>
             /\ data[p] = DISCONNECTED /\ ~GoesOffline(i, p, data) =>
                  /\ timeouts[p] = i.msgTimeouts[p] /\ flags[p] = i.msgFlags[p]
                  /\ new[p] = i.new[p]
  <2>. DEFINE k == Received(i, c, p, data)
  <2>1. data[p] \in Nat \cup {DISCONNECTED}
    BY DEF Heard
  <2>2. CASE data[p] # DISCONNECTED
    <3>. DEFINE stored == IF data[p] # NO_DATA /\ p # c
                          THEN [i EXCEPT !.new[p] = push(@, data[p])] ELSE i
    <3>1. /\ stored.new[p] = IF data[p] > 0 /\ p # c THEN push(i.new[p], data[p])
                             ELSE i.new[p]
          /\ stored.msgTimeouts = i.msgTimeouts /\ stored.msgFlags = i.msgFlags
          /\ stored = [outgoing |-> stored.outgoing, isWriting |-> stored.isWriting,
                       needsClear |-> stored.needsClear, ready |-> stored.ready,
                       new |-> stored.new, msgTimeouts |-> stored.msgTimeouts,
                       msgFlags |-> stored.msgFlags, IRQTimeout |-> stored.IRQTimeout,
                       IRQFlag |-> stored.IRQFlag,
                       isResetTimeoutPending |-> stored.isResetTimeoutPending]
      BY <1>0, <2>1, <2>2 DEF InternalState, Queues
    <3>2. k = [stored EXCEPT !.msgTimeouts[p] = 0, !.msgFlags[p] = TRUE]
      BY <2>2 DEF Received, setOnline
    <3>. HIDE DEF stored
    <3>3. k.new = stored.new /\ k.msgTimeouts[p] = 0 /\ k.msgFlags[p]
      BY <1>0, <3>1, <3>2
    <3>. QED
      BY <2>2, <3>1, <3>3 DEF GoesOffline
  <2>3. CASE GoesOffline(i, p, data)
    BY <1>0, <2>3 DEF GoesOffline, Received, setOffline, InternalState, Queues
  <2>4. CASE data[p] = DISCONNECTED /\ ~GoesOffline(i, p, data)
    BY <1>0, <2>4 DEF GoesOffline, Received
  <2>. QED
    BY <2>2, <2>3, <2>4 DEF GoesOffline
<1>2. /\ new \in Queues /\ timeouts \in [Players -> Nat \cup {OFFLINE}]
      /\ flags \in [Players -> BOOLEAN]
  <2>1. ASSUME NEW p \in Players
        PROVE  new[p] \in Queue /\ timeouts[p] \in Nat \cup {OFFLINE}
    <3>1. /\ data[p] \in Nat \cup {DISCONNECTED} /\ i.new[p] \in Queue
          /\ i.msgTimeouts[p] \in Nat \cup {OFFLINE}
      BY <1>0 DEF Heard, Queues
    <3>. HIDE DEF new, timeouts, flags
    <3>2. CASE data[p] # DISCONNECTED
      <4>1. push(i.new[p], data[p]) \in Queue
        BY <3>1, <3>2, PushOfQueue
      <4>. QED
        BY <1>1, <3>1, <3>2, <4>1
    <3>3. CASE GoesOffline(i, p, data)
      BY <1>1, <3>3, EmptyQueue
    <3>4. CASE data[p] = DISCONNECTED /\ ~GoesOffline(i, p, data)
      BY <1>1, <3>1, <3>4
    <3>. QED
      BY <3>2, <3>3, <3>4
  <2>2. ASSUME NEW p \in Players PROVE flags[p] \in BOOLEAN
    BY <1>0 DEF Received, setOnline, setOffline, InternalState
  <2>. QED
    BY <2>1, <2>2 DEF Queues
<1>3. j = [i EXCEPT !.new = new, !.msgTimeouts = timeouts, !.msgFlags = flags]
  BY DEF ReceivedAll
<1>. HIDE DEF new, timeouts, flags
<1>4. /\ j \in InternalState /\ j.new = new /\ j.msgTimeouts = timeouts /\ j.msgFlags = flags
      /\ j.outgoing = i.outgoing /\ j.ready = i.ready
      /\ j.IRQTimeout = i.IRQTimeout /\ j.IRQFlag = i.IRQFlag
  BY <1>2, <1>3 DEF InternalState
<1>. QED
  BY <1>1, <1>4

\* sendPendingData() takes the oldest word unless the program writes.
LEMMA NotPendingFacts ==
  ASSUME NEW i \in InternalState, NEW j, j = NotPending(i)
  PROVE  /\ j \in InternalState /\ Pending(i) \in Nat
         /\ j.ready = i.ready /\ j.new = i.new /\ j.isWriting = i.isWriting
         /\ j.msgTimeouts = i.msgTimeouts /\ j.msgFlags = i.msgFlags
         /\ j.IRQTimeout = i.IRQTimeout /\ j.IRQFlag = i.IRQFlag
         /\ IF i.isWriting \/ i.outgoing = <<>> THEN Pending(i) = 0 /\ j.outgoing = i.outgoing
            ELSE Pending(i) = Head(i.outgoing) /\ j.outgoing = Tail(i.outgoing)
<1>1. i.outgoing \in Queue
  BY DEF InternalState
<1>2. CASE i.isWriting
  BY <1>2 DEF NotPending, Pending
<1>3. CASE ~i.isWriting
  <2>1. /\ pop(i.outgoing) \in Queue /\ Front(i.outgoing) \in Nat
        /\ IF i.outgoing = <<>> THEN Front(i.outgoing) = 0 /\ pop(i.outgoing) = i.outgoing
           ELSE Front(i.outgoing) = Head(i.outgoing) /\ pop(i.outgoing) = Tail(i.outgoing)
    BY <1>1, TailOfQueue DEF pop, Front
  <2>. QED
    BY <1>3, <2>1 DEF NotPending, Pending, InternalState
<1>. QED
  BY <1>2, <1>3

-----------------------------------------------------------------------------
(* Every step keeps the types.                                             *)

LEMMA InitTypes == Init => TypeOK
<1>. SUFFICES ASSUME Init PROVE TypeOK
  OBVIOUS
<1>1. Inactive \in InternalState
  <2>1. /\ [p \in Players |-> OFFLINE] \in [Players -> Nat \cup {OFFLINE}]
        /\ [p \in Players |-> FALSE] \in [Players -> BOOLEAN]
    OBVIOUS
  <2>. QED
    BY <2>1, EmptyQueue DEF Inactive, InternalState
<1>2. [synced |-> NoMessages, playerCount |-> 1, currentPlayerId |-> 0] \in ExternalState
  BY EmptyQueue DEF ExternalState
<1>3. \A c \in Players : irq[c] = None
  BY DEF Init
<1>. QED
  BY <1>1, <1>2, <1>3, EmptyQueue
  DEF Init, TypeOK, WireTypes, DriverTypes, ProgramTypes, HistoryTypes, Places

LEMMA DriverKept ==
  ASSUME TypeOK, NEW c \in Players
  PROVE  int[c] \in InternalState /\ ext[c] \in ExternalState
         /\ isReadingMessages[c] \in BOOLEAN
  BY DEF TypeOK, DriverTypes

LEMMA ResetPlayersFacts ==
  ASSUME NEW e \in ExternalState
  PROVE  /\ ResetPlayers(e) \in ExternalState /\ ResetPlayers(e).synced = e.synced
         /\ [ResetPlayers(e) EXCEPT !.synced = NoMessages] \in ExternalState
<1>1. ResetPlayers(e) \in ExternalState /\ ResetPlayers(e).synced = e.synced
  BY DEF ResetPlayers, ExternalState
<1>. QED
  BY <1>1, EmptyQueue DEF ExternalState

LEMMA ResetTypes ==
  ASSUME TypeOK, NEW c \in Players, reset(c)
  PROVE  /\ int' = [int EXCEPT ![c] = int'[c]] /\ int'[c] \in InternalState
         /\ ext' = [ext EXCEPT ![c] = ext'[c]] /\ ext'[c] \in ExternalState
         /\ multi' \subseteq Players /\ SIOMLT_SEND' \in [Players -> Nat]
         /\ wire' \in {<<>>} \cup [Players -> Nat] /\ lossy' \subseteq Players
<1>1. resetState(int[c], isReadingMessages[c]) \in InternalState
  BY DriverKept, ResetStateFacts
<1>2. ResetPlayers(ext[c]) \in ExternalState
  BY DriverKept, ResetPlayersFacts
<1>3. /\ int' = [int EXCEPT ![c] = resetState(int[c], isReadingMessages[c])]
      /\ ext' = [ext EXCEPT ![c] = ResetPlayers(ext[c])]
  BY DEF reset
<1>4. int'[c] \in InternalState /\ int' = [int EXCEPT ![c] = int'[c]]
  BY <1>1, <1>3 DEF TypeOK, DriverTypes
<1>5. ext'[c] \in ExternalState /\ ext' = [ext EXCEPT ![c] = ext'[c]]
  BY <1>2, <1>3 DEF TypeOK, DriverTypes
<1>. QED
  BY <1>4, <1>5 DEF reset, TypeOK, WireTypes, HistoryTypes

\* A step that writes the state of one driver in its types keeps those of all.
LEMMA OneDriver ==
  ASSUME TypeOK, NEW c \in Players,
         int' = int \/ (int' = [int EXCEPT ![c] = int'[c]] /\ int'[c] \in InternalState),
         ext' = ext \/ (ext' = [ext EXCEPT ![c] = ext'[c]] /\ ext'[c] \in ExternalState),
         isEnabled' = isEnabled, isReadingMessages' = isReadingMessages
  PROVE  DriverTypes'
<1>1. int' \in [Players -> InternalState]
  BY DEF TypeOK, DriverTypes
<1>2. ext' \in [Players -> ExternalState]
  BY DEF TypeOK, DriverTypes
<1>. QED
  BY <1>1, <1>2 DEF TypeOK, DriverTypes

LEMMA EndTransferTypes ==
  ASSUME TypeOK, NEW e \in BOOLEAN, EndTransfer(e)
  PROVE  TypeOK'
<1>1. wire \in [Players -> Nat]
  BY DEF EndTransfer, isSending, TypeOK, WireTypes
<1>2. [p \in Players |-> Word(wire, p)] \in Heard
  BY <1>1 DEF Heard, Word
<1>3. WireTypes'
  BY <1>2 DEF EndTransfer, TypeOK, WireTypes
<1>. QED
  BY <1>3 DEF EndTransfer, TypeOK, DriverTypes, ProgramTypes, HistoryTypes, program, history

LEMMA PlugTypes ==
  ASSUME TypeOK, NEW c \in Players, Plug(c)
  PROVE  TypeOK'
  BY DEF Plug, TypeOK, WireTypes, DriverTypes, ProgramTypes, HistoryTypes, program

LEMMA VBlankTypes ==
  ASSUME TypeOK, NEW c \in Players, _onVBlank(c)
  PROVE  TypeOK'
<1>. DEFINE i == Frame(TimeoutsReset(int[c]))
<1>1. i \in InternalState
  BY DriverKept, TimeoutsResetFacts, FrameFacts
<1>2. DriverTypes' /\ WireTypes' /\ lossy' \subseteq Players
  <2>1. CASE i.IRQTimeout >= timeout
    <3>1. reset(c)
      BY <2>1 DEF _onVBlank
    <3>. QED
      BY <3>1, ResetTypes, OneDriver DEF _onVBlank, TypeOK, WireTypes
  <2>2. CASE ~(i.IRQTimeout >= timeout)
    <3>1. /\ int' = [int EXCEPT ![c] = copyState(i, isReadingMessages[c])]
          /\ lossy' = IF Dropped(i, int'[c]) THEN lossy \cup {c} ELSE lossy
          /\ UNCHANGED <<multi, SIOMLT_SEND, wire, ext>>
      BY <2>2 DEF _onVBlank
    <3>. HIDE DEF i
    <3>2. copyState(i, isReadingMessages[c]) \in InternalState
      BY <1>1, DriverKept, CopyStateFacts
    <3>3. int'[c] \in InternalState /\ int' = [int EXCEPT ![c] = int'[c]]
      BY <3>1, <3>2 DEF TypeOK, DriverTypes
    <3>. QED
      <4>1. DriverTypes'
        BY <3>1, <3>3, OneDriver DEF _onVBlank
      <4>. QED
        BY <3>1, <4>1 DEF _onVBlank, TypeOK, WireTypes, HistoryTypes
  <2>. QED
    BY <2>1, <2>2
<1>3. silent' \in [Players -> [Players -> Nat]]
  BY DEF _onVBlank, TypeOK, HistoryTypes
<1>. QED
  BY <1>2, <1>3 DEF _onVBlank, TypeOK, ProgramTypes, HistoryTypes, program

\* The state a word of every player leaves, before and after the answer.
Interrupted(i) == [i EXCEPT !.IRQFlag = TRUE, !.IRQTimeout = 0]
SerialReceived(c) == ReceivedAll(Interrupted(int[c]), c, irq[c].data)
SerialAnswered(c) == IF c = 0 THEN SerialReceived(c) ELSE NotPending(SerialReceived(c))

LEMMA SerialTypes ==
  ASSUME TypeOK, NEW c \in Players, _onSerial(c)
  PROVE  TypeOK'
<1>1. irq[c].data \in Heard /\ irq' \in [Players -> {None} \cup [data : Heard, error : BOOLEAN]]
  BY DEF _onSerial, TypeOK, WireTypes
<1>2. DriverTypes' /\ lossy' \subseteq Players /\ multi' \subseteq Players
      /\ SIOMLT_SEND' \in [Players -> Nat] /\ wire' \in {<<>>} \cup [Players -> Nat]
  <2>1. CASE ~isEnabled[c]
    <3>1. UNCHANGED <<multi, SIOMLT_SEND, wire, ext, int, lossy, isEnabled, isReadingMessages>>
      BY <2>1 DEF _onSerial
    <3>2. DriverTypes'
      BY <3>1, OneDriver
    <3>. QED
      BY <3>1, <3>2 DEF TypeOK, WireTypes, HistoryTypes
  <2>2. CASE isEnabled[c] /\ (~allReady \/ irq[c].error)
    <3>1. reset(c)
      BY <2>2 DEF _onSerial
    <3>. QED
      BY <3>1, ResetTypes, OneDriver DEF _onSerial
  <2>3. CASE isEnabled[c] /\ ~(~allReady \/ irq[c].error)
    <3>. DEFINE r == SerialReceived(c)
                s == SerialAnswered(c)
                count == Cardinality({p \in Players : isOnline(r, p)})
    <3>1. /\ ext' = [ext EXCEPT ![c].currentPlayerId = c, ![c].playerCount = count]
          /\ SIOMLT_SEND' = [SIOMLT_SEND EXCEPT ![c] = Answer(r, c, @)]
          /\ int' = [int EXCEPT ![c] = copyState(s, isReadingMessages[c])]
          /\ lossy' \subseteq lossy \cup {c}
          /\ UNCHANGED <<multi, wire>>
      BY <2>3 DEF _onSerial, Interrupted, SerialReceived, SerialAnswered
    <3>2. Interrupted(int[c]) \in InternalState
      BY DriverKept DEF Interrupted, InternalState
    <3>3. r \in InternalState
      BY <1>1, <3>2, ReceivedAllFacts DEF SerialReceived
    <3>4. s \in InternalState /\ Answer(r, c, SIOMLT_SEND[c]) \in Nat
      BY <3>3, NotPendingFacts DEF SerialAnswered, Answer
    <3>5. copyState(s, isReadingMessages[c]) \in InternalState
      BY <3>4, DriverKept, CopyStateFacts
    <3>6. count \in Nat
      <4>1. IsFiniteSet(Players)
        <5>1. 0 \in Int /\ 3 \in Int /\ Players \subseteq 0..3
          OBVIOUS
        <5>. QED
          BY <5>1, FS_Interval, FS_Subset
      <4>. QED
        BY <4>1, FS_Subset, FS_CardinalityType
    <3>. HIDE DEF r, s, count
    <3>7. int'[c] \in InternalState /\ int' = [int EXCEPT ![c] = int'[c]]
      BY <3>1, <3>5 DEF TypeOK, DriverTypes
    <3>8. ext'[c] \in ExternalState /\ ext' = [ext EXCEPT ![c] = ext'[c]]
      <4>1. [ext[c] EXCEPT !.currentPlayerId = c, !.playerCount = count] \in ExternalState
        <5>1. ext[c] \in ExternalState /\ c \in Players
          BY DriverKept
        <5>. QED
          BY <3>6, <5>1 DEF ExternalState
      <4>2. ext' = [ext EXCEPT ![c] = [ext[c] EXCEPT !.currentPlayerId = c, !.playerCount = count]]
        BY <3>1 DEF TypeOK, DriverTypes
      <4>. QED
        BY <4>1, <4>2 DEF TypeOK, DriverTypes
    <3>9. DriverTypes'
      BY <3>7, <3>8, OneDriver DEF _onSerial
    <3>. QED
      BY <3>1, <3>4, <3>9 DEF TypeOK, WireTypes, HistoryTypes
  <2>. QED
    BY <2>1, <2>2, <2>3
<1>3. silent' \in [Players -> [Players -> Nat]]
  BY DEF _onSerial, TypeOK, HistoryTypes
<1>4. at' \in [Players -> Places]
  BY DEF _onSerial, Wake, TypeOK, ProgramTypes, Places
<1>. QED
  BY <1>1, <1>2, <1>3, <1>4 DEF _onSerial, TypeOK, WireTypes, ProgramTypes, HistoryTypes

LEMMA TimerTypes ==
  ASSUME TypeOK, NEW c \in Players, _onTimer(c)
  PROVE  TypeOK'
<1>. DEFINE starts == c = 0 /\ allReady /\ ~isSending
            i == IF starts THEN NotPending(int[c]) ELSE int[c]
<1>1. /\ int' = [int EXCEPT ![c] = copyState(i, isReadingMessages[c])]
      /\ lossy' \subseteq lossy \cup {c}
      /\ \/ UNCHANGED <<SIOMLT_SEND, wire>>
         \/ /\ SIOMLT_SEND' = [SIOMLT_SEND EXCEPT ![c] = Pending(int[c])]
            /\ wire' = SIOMLT_SEND'
  BY DEF _onTimer
<1>2. i \in InternalState /\ Pending(int[c]) \in Nat
  BY DriverKept, NotPendingFacts
<1>. HIDE DEF i
<1>3. copyState(i, isReadingMessages[c]) \in InternalState
  BY <1>2, DriverKept, CopyStateFacts
<1>4. int'[c] \in InternalState /\ int' = [int EXCEPT ![c] = int'[c]]
  BY <1>1, <1>3 DEF TypeOK, DriverTypes
<1>5. DriverTypes'
  <2>1. UNCHANGED <<ext, isEnabled, isReadingMessages>>
    BY DEF _onTimer
  <2>. QED
    BY <1>4, <2>1, OneDriver
<1>6. WireTypes'
  BY <1>1, <1>2 DEF _onTimer, TypeOK, WireTypes
<1>7. at' \in [Players -> Places]
  BY DEF _onTimer, Wake, TypeOK, ProgramTypes, Places
<1>. QED
  BY <1>1, <1>5, <1>6, <1>7 DEF _onTimer, TypeOK, ProgramTypes, HistoryTypes

LEMMA SendTypes ==
  ASSUME TypeOK, NEW c \in Players, send(c) \/ Push(c) \/ Pushed(c) \/ resetTimeout(c)
  PROVE  TypeOK'
<1>1. int[c] \in InternalState /\ sent[c] \in Nat /\ int \in [Players -> InternalState]
  BY DriverKept DEF TypeOK, ProgramTypes, DriverTypes
<1>2. push(int[c].outgoing, sent[c] + 1) \in Queue
  <2>1. int[c].outgoing \in Queue /\ sent[c] + 1 \in Nat
    BY <1>1 DEF InternalState
  <2>. QED
    BY <2>1, PushOfQueue
<1>3. int' = int \/ (int' = [int EXCEPT ![c] = int'[c]] /\ int'[c] \in InternalState)
  <2>1. CASE send(c)
    BY <1>1, <2>1 DEF send, InternalState
  <2>2. CASE Push(c)
    <3>. DEFINE q == push(int[c].outgoing, sent[c] + 1)
    <3>1. int' = [int EXCEPT ![c].outgoing = q, ![c].isWriting = FALSE]
      BY <2>2, <1>1 DEF Push
    <3>2. q \in Queue
      BY <1>2
    <3>. HIDE DEF q
    <3>3. int' = [int EXCEPT ![c] = [int[c] EXCEPT !.outgoing = q, !.isWriting = FALSE]]
      BY <1>1, <3>1 DEF InternalState
    <3>4. [int[c] EXCEPT !.outgoing = q, !.isWriting = FALSE] \in InternalState
      BY <1>1, <3>2 DEF InternalState
    <3>. QED
      BY <1>1, <3>3, <3>4
  <2>3. CASE Pushed(c)
    <3>1. [int[c] EXCEPT !.outgoing = <<>>, !.needsClear = FALSE] \in InternalState
      BY <1>1, EmptyQueue DEF InternalState
    <3>2. int' = int \/ int' = [int EXCEPT ![c] = [int[c] EXCEPT !.outgoing = <<>>,
                                                               !.needsClear = FALSE]]
      BY <1>1, <2>3 DEF Pushed
    <3>. QED
      BY <1>1, <3>1, <3>2
  <2>4. CASE resetTimeout(c)
    BY <1>1, <2>4 DEF resetTimeout, InternalState
  <2>. QED
    BY <2>1, <2>2, <2>3, <2>4
<1>4. ext' = ext /\ isEnabled' = isEnabled /\ isReadingMessages' = isReadingMessages
  BY DEF send, Push, Pushed, resetTimeout
<1>5. DriverTypes'
  BY <1>3, <1>4, OneDriver
<1>6. WireTypes' /\ HistoryTypes'
  BY DEF send, Push, Pushed, resetTimeout, wires, history, TypeOK, WireTypes, HistoryTypes
<1>7. ProgramTypes'
  <2>1. /\ UNCHANGED <<left, got>>
        /\ at' = at \/ \E place \in Places : at' = [at EXCEPT ![c] = place]
        /\ sent' = sent \/ sent' = [sent EXCEPT ![c] = @ + 1]
    BY DEF send, Push, Pushed, resetTimeout, program, GoTo, Places
  <2>. QED
    BY <1>1, <2>1 DEF TypeOK, ProgramTypes
<1>. QED
  BY <1>5, <1>6, <1>7 DEF TypeOK

LEMMA ReceiveTypes ==
  ASSUME TypeOK, NEW c \in Players,
         \/ \E p \in Players \cup {Nobody} : sync(c, p)
         \/ Moved(c) \/ Collected(c)
         \/ \E p \in Players : read(c, p)
  PROVE  TypeOK'
<1>1. /\ int[c] \in InternalState /\ ext[c] \in ExternalState /\ left[c] \in Queues
      /\ int[c].ready \in Queues /\ ext[c].synced \in Queues
  BY DriverKept DEF TypeOK, ProgramTypes, InternalState, ExternalState
<1>2. CASE \E p \in Players \cup {Nobody} : sync(c, p)
  <2>1. /\ [q \in Players |-> MovedTo(int[c].ready[q], ext[c].synced[q])] \in Queues
        /\ [q \in Players |-> MovedFrom(int[c].ready[q], ext[c].synced[q])] \in Queues
    BY <1>1, MoveOfQueue DEF Queues
  <2>. DEFINE to == [q \in Players |-> MovedTo(int[c].ready[q], ext[c].synced[q])]
              from == [q \in Players |-> MovedFrom(int[c].ready[q], ext[c].synced[q])]
  <2>2. /\ ext' = [ext EXCEPT ![c] = [@ EXCEPT !.synced = to]]
        /\ left' = [left EXCEPT ![c] = from]
        /\ at' = [at EXCEPT ![c] = "moved"]
        /\ isReadingMessages' = [isReadingMessages EXCEPT ![c] = TRUE]
        /\ UNCHANGED <<wires, int, isEnabled, writer, sent, got, history>>
    BY <1>2, <1>1 DEF sync, GoTo, TypeOK, DriverTypes, ExternalState, Queues
  <2>3. to \in Queues /\ from \in Queues
    BY <2>1
  <2>. HIDE DEF to, from
  <2>4. DriverTypes'
    BY <1>1, <2>2, <2>3 DEF TypeOK, DriverTypes, ExternalState
  <2>5. ProgramTypes'
    BY <2>2, <2>3 DEF TypeOK, ProgramTypes, Places
  <2>. QED
    BY <2>2, <2>4, <2>5 DEF TypeOK, WireTypes, HistoryTypes, wires, history
<1>3. CASE Moved(c)
  <2>1. DriverTypes'
    BY <1>1, <1>3 DEF Moved, TypeOK, DriverTypes, InternalState
  <2>2. ProgramTypes'
    BY <1>3, EmptyQueue DEF Moved, GoTo, TypeOK, ProgramTypes, Places
  <2>. QED
    BY <1>3, <2>1, <2>2 DEF Moved, TypeOK, WireTypes, HistoryTypes, wires, history
<1>4. CASE Collected(c)
  <2>1. DriverTypes'
    BY <1>1, <1>4, EmptyQueue DEF Collected, TypeOK, DriverTypes, ExternalState
  <2>2. ProgramTypes'
    BY <1>4 DEF Collected, GoTo, TypeOK, ProgramTypes, Places
  <2>. QED
    BY <1>4, <2>1, <2>2 DEF Collected, TypeOK, WireTypes, HistoryTypes, wires
<1>5. CASE \E p \in Players : read(c, p)
  <2>1. PICK p \in Players : read(c, p)
    BY <1>5
  <2>2. ext[c].synced[p] \in Queue /\ ext[c].synced[p] # <<>>
    BY <1>1, <2>1 DEF read, Queues
  <2>3. Tail(ext[c].synced[p]) \in Queue /\ Head(ext[c].synced[p]) \in Nat
    BY <2>2, TailOfQueue
  <2>. DEFINE rest == Tail(ext[c].synced[p])
              word == Head(ext[c].synced[p])
  <2>4. /\ ext' = [ext EXCEPT ![c].synced[p] = rest]
        /\ got' = [got EXCEPT ![c][p] = word]
        /\ UNCHANGED <<int, isEnabled, isReadingMessages, at, left, sent>>
    BY <2>1, <2>2 DEF read, pop, Front
  <2>. HIDE DEF rest, word
  <2>5. DriverTypes'
    <3>1. [ext[c].synced EXCEPT ![p] = rest] \in Queues
      BY <1>1, <2>3 DEF Queues, rest
    <3>2. [ext[c] EXCEPT !.synced = [ext[c].synced EXCEPT ![p] = rest]] \in ExternalState
      BY <1>1, <3>1 DEF ExternalState
    <3>3. ext' = [ext EXCEPT ![c] = [ext[c] EXCEPT !.synced = [ext[c].synced EXCEPT ![p] = rest]]]
      BY <2>4
    <3>. QED
      BY <2>4, <3>2, <3>3 DEF TypeOK, DriverTypes
  <2>6. ProgramTypes'
    <3>1. got' \in [Players -> [Players -> Nat]]
      BY <2>3, <2>4 DEF TypeOK, ProgramTypes, word
    <3>. QED
      BY <2>4, <3>1 DEF TypeOK, ProgramTypes
  <2>. QED
    BY <2>1, <2>5, <2>6 DEF read, TypeOK, WireTypes, HistoryTypes, wires, history
<1>. QED
  BY <1>2, <1>3, <1>4, <1>5

LEMMA ActivateTypes ==
  ASSUME TypeOK, NEW c \in Players, deactivate(c) \/ activate(c)
  PROVE  TypeOK'
<1>1. CASE deactivate(c)
  <2>1. resetState(int[c], FALSE) \in InternalState
    BY DriverKept, ResetStateFacts
  <2>2. [ResetPlayers(ext[c]) EXCEPT !.synced = NoMessages] \in ExternalState
    BY DriverKept, ResetPlayersFacts
  <2>3. DriverTypes'
    BY <1>1, <2>1, <2>2 DEF deactivate, TypeOK, DriverTypes
  <2>. QED
    BY <1>1, <2>3 DEF deactivate, TypeOK, WireTypes, ProgramTypes, HistoryTypes, program
<1>2. CASE activate(c)
  <2>1. reset(c) /\ UNCHANGED <<plugged, irq, isReadingMessages, program, silent>>
        /\ isEnabled' = [isEnabled EXCEPT ![c] = TRUE]
    BY <1>2 DEF activate
  <2>2. DriverTypes'
    BY <2>1, ResetTypes DEF TypeOK, DriverTypes
  <2>. QED
    BY <2>1, <2>2, ResetTypes DEF TypeOK, WireTypes, ProgramTypes, HistoryTypes, program
<1>. QED
  BY <1>1, <1>2

LEMMA StepTypes == TypeOK /\ [Next]_vars => TypeOK'
<1>1. CASE UNCHANGED vars
  BY <1>1 DEF vars, wires, program, history, TypeOK, WireTypes, DriverTypes, ProgramTypes,
              HistoryTypes
<1>. QED
  BY <1>1, EndTransferTypes, PlugTypes, VBlankTypes, SerialTypes, TimerTypes, SendTypes,
     ReceiveTypes, ActivateTypes DEF Next

(* The types of what the consoles, their drivers and the cable keep.       *)
THEOREM TypeCorrect == Spec => []TypeOK
  BY InitTypes, StepTypes, PTL DEF Spec

-----------------------------------------------------------------------------
(* A player that falls silent is noticed.                                  *)

(* The frames since an interrupt are fewer than the timeout: the VBLANK    *)
(* that would count up to it resets the driver.                            *)
InterruptsCounted(i) ==
  i.IRQTimeout < timeout /\ (i.IRQFlag => i.IRQTimeout = 0)

(* s frames without a word of p.  The player's count is at most one behind *)
(* them, and not more than the timeout beyond the count of frames without  *)
(* an interrupt, because every interrupt looks at it.                      *)
SilenceCounted(i, p, s) ==
  /\ ~isOnline(i, p) \/ i.msgFlags[p] => s = 0
  /\ isOnline(i, p) =>
       /\ s <= i.msgTimeouts[p] + 1
       /\ ~i.IRQFlag => i.msgTimeouts[p] <= timeout + i.IRQTimeout
       /\ i.IRQFlag => i.msgTimeouts[p] < timeout + i.IRQTimeout
       /\ i.msgFlags[p] => i.msgTimeouts[p] = 0

SilenceInv ==
  \A c \in Players : /\ InterruptsCounted(int[c])
                     /\ \A p \in Players : /\ SilenceCounted(int[c], p, silent[c][p])
                                           /\ isOnline(int[c], p) => isEnabled[c]

LEMMA InternalValues ==
  ASSUME NEW i \in InternalState, NEW p \in Players
  PROVE  /\ i.IRQTimeout \in Nat /\ i.IRQFlag \in BOOLEAN /\ i.isResetTimeoutPending \in BOOLEAN
         /\ i.msgTimeouts[p] \in Nat \cup {OFFLINE} /\ i.msgFlags[p] \in BOOLEAN
  BY DEF InternalState

\* A frame.
LEMMA FrameCounted ==
  ASSUME NEW i \in InternalState, NEW p \in Players, NEW s \in Nat,
         InterruptsCounted(i), SilenceCounted(i, p, s),
         NEW j, j = Frame(TimeoutsReset(i)), j.IRQTimeout < timeout,
         NEW t, t = IF ~isOnline(j, p) \/ i.isResetTimeoutPending THEN 0 ELSE s + 1
  PROVE  InterruptsCounted(j) /\ SilenceCounted(j, p, t)
<1>. DEFINE k == TimeoutsReset(i)
<1>1. /\ k \in InternalState /\ k.msgFlags = i.msgFlags /\ k.IRQFlag = i.IRQFlag
      /\ i.isResetTimeoutPending => k.IRQTimeout = 0 /\ k.msgTimeouts[p] = 0
      /\ ~i.isResetTimeoutPending => k = i
  BY TimeoutsResetFacts
<1>2. j = Frame(k)
  OBVIOUS
<1>. HIDE DEF k
<1>3. /\ j \in InternalState
      /\ j.IRQTimeout = (IF k.IRQFlag THEN k.IRQTimeout ELSE k.IRQTimeout + 1)
      /\ ~j.IRQFlag /\ ~j.msgFlags[p]
      /\ j.msgTimeouts[p] = IF isOnline(k, p) /\ ~k.msgFlags[p] THEN k.msgTimeouts[p] + 1
                            ELSE k.msgTimeouts[p]
  <2>1. k \in InternalState
    BY <1>1
  <2>2. /\ j \in InternalState /\ ~j.IRQFlag
        /\ j.IRQTimeout = (IF k.IRQFlag THEN k.IRQTimeout ELSE k.IRQTimeout + 1)
    BY <1>2, <2>1, FrameFacts
  <2>3. ~j.msgFlags[p]
    BY <1>2, <2>1, FrameFacts
  <2>4. j.msgTimeouts[p] = IF isOnline(k, p) /\ ~k.msgFlags[p] THEN k.msgTimeouts[p] + 1
                           ELSE k.msgTimeouts[p]
    BY <1>2, <2>1, FrameFacts
  <2>. QED
    BY <2>2, <2>3, <2>4
<1>4. /\ k.IRQTimeout \in Nat /\ k.IRQFlag \in BOOLEAN /\ k.msgFlags[p] \in BOOLEAN
      /\ k.msgTimeouts[p] \in Nat \cup {OFFLINE} /\ i.isResetTimeoutPending \in BOOLEAN
      /\ j.IRQTimeout \in Nat /\ timeout \in Nat
  BY <1>1, <1>3, InternalValues
<1>5. CASE i.isResetTimeoutPending
  <2>1. /\ k.IRQTimeout = 0 /\ isOnline(k, p) /\ isOnline(j, p)
        /\ j.msgTimeouts[p] \in {0, 1} /\ j.IRQTimeout \in {0, 1}
    BY <1>1, <1>3, <1>4, <1>5 DEF isOnline
  <2>. QED
    BY <1>3, <1>4, <1>5, <2>1 DEF InterruptsCounted, SilenceCounted
<1>6. CASE ~i.isResetTimeoutPending
  <2>1. k = i
    BY <1>1, <1>6
  <2>2. CASE ~isOnline(i, p)
    <3>1. ~isOnline(j, p)
      BY <1>3, <2>1, <2>2 DEF isOnline
    <3>. QED
      BY <1>3, <3>1 DEF InterruptsCounted, SilenceCounted
  <2>3. CASE isOnline(i, p) /\ i.msgFlags[p]
    <3>1. /\ isOnline(j, p) /\ j.msgTimeouts[p] = 0 /\ s = 0
      BY <1>3, <2>1, <2>3 DEF isOnline, SilenceCounted
    <3>. QED
      BY <1>3, <1>4, <1>6, <3>1 DEF InterruptsCounted, SilenceCounted
  <2>4. CASE isOnline(i, p) /\ ~i.msgFlags[p]
    <3>1. i.msgTimeouts[p] \in Nat
      BY <1>4, <2>1, <2>4 DEF isOnline
    <3>2. /\ j.msgTimeouts[p] = i.msgTimeouts[p] + 1 /\ s <= i.msgTimeouts[p] + 1
          /\ i.msgTimeouts[p] + 1 <= timeout + j.IRQTimeout
      BY <1>3, <1>4, <2>1, <2>4, <3>1 DEF SilenceCounted, InterruptsCounted
    <3>3. isOnline(j, p)
      BY <3>1, <3>2 DEF isOnline
    <3>. QED
      BY <1>3, <1>4, <1>6, <3>1, <3>2, <3>3 DEF InterruptsCounted, SilenceCounted
  <2>. QED
    BY <1>4, <2>1, <2>2, <2>3, <2>4
<1>. QED
  BY <1>4, <1>5, <1>6

\* An interrupt that brings the words of the players.
LEMMA ReceivedCounted ==
  ASSUME NEW i \in InternalState, NEW c \in Players, NEW data \in Heard,
         NEW p \in Players, NEW s \in Nat,
         SilenceCounted(i, p, s),
         NEW j, j = ReceivedAll(Interrupted(i), c, data),
         NEW t, ~isOnline(j, p) \/ data[p] # DISCONNECTED => t = 0,
         isOnline(j, p) /\ data[p] = DISCONNECTED => t = s
  PROVE  InterruptsCounted(j) /\ SilenceCounted(j, p, t)
<1>. DEFINE k == Interrupted(i)
<1>1. /\ k \in InternalState /\ k.IRQFlag /\ k.IRQTimeout = 0
      /\ k.msgTimeouts = i.msgTimeouts /\ k.msgFlags = i.msgFlags
  BY DEF Interrupted, InternalState
<1>0. j = ReceivedAll(k, c, data)
  OBVIOUS
<1>. HIDE DEF k
<1>2. /\ j \in InternalState /\ j.IRQTimeout = 0 /\ j.IRQFlag
      /\ data[p] # DISCONNECTED => j.msgTimeouts[p] = 0 /\ j.msgFlags[p]
      /\ GoesOffline(k, p, data) => j.msgTimeouts[p] = OFFLINE /\ ~j.msgFlags[p]
      /\ data[p] = DISCONNECTED /\ ~GoesOffline(k, p, data) =>
           j.msgTimeouts[p] = i.msgTimeouts[p] /\ j.msgFlags[p] = i.msgFlags[p]
  <2>1. k \in InternalState
    BY <1>1
  <2>2. j \in InternalState /\ j.IRQTimeout = k.IRQTimeout /\ j.IRQFlag = k.IRQFlag
    BY <1>0, <2>1, ReceivedAllFacts
  <2>3. data[p] # DISCONNECTED => j.msgTimeouts[p] = 0 /\ j.msgFlags[p]
    BY <1>0, <2>1, ReceivedAllFacts
  <2>4. GoesOffline(k, p, data) => j.msgTimeouts[p] = OFFLINE /\ ~j.msgFlags[p]
    BY <1>0, <2>1, ReceivedAllFacts
  <2>5. data[p] = DISCONNECTED /\ ~GoesOffline(k, p, data) =>
           j.msgTimeouts[p] = k.msgTimeouts[p] /\ j.msgFlags[p] = k.msgFlags[p]
    BY <1>0, <2>1, ReceivedAllFacts
  <2>. QED
    BY <1>1, <2>2, <2>3, <2>4, <2>5
<1>3. /\ i.msgTimeouts[p] \in Nat \cup {OFFLINE} /\ i.msgFlags[p] \in BOOLEAN
      /\ timeout \in Nat \ {0} /\ data[p] \in Nat \cup {DISCONNECTED}
  BY InternalValues DEF Heard
<1>4. InterruptsCounted(j)
  BY <1>2, <1>3 DEF InterruptsCounted
<1>5. CASE data[p] # DISCONNECTED
  <2>1. isOnline(j, p) /\ t = 0 /\ j.msgTimeouts[p] = 0
    BY <1>2, <1>5 DEF isOnline
  <2>. QED
    BY <1>2, <1>3, <1>4, <2>1 DEF SilenceCounted
<1>6. CASE GoesOffline(k, p, data)
  <2>1. ~isOnline(j, p) /\ t = 0
    BY <1>2, <1>6 DEF isOnline
  <2>. QED
    BY <1>4, <2>1 DEF SilenceCounted
<1>7. CASE data[p] = DISCONNECTED /\ ~GoesOffline(k, p, data)
  <2>0. j.msgTimeouts[p] = i.msgTimeouts[p] /\ j.msgFlags[p] = i.msgFlags[p]
    BY <1>2, <1>7
  <2>1. CASE ~isOnline(i, p)
    <3>1. ~isOnline(j, p) /\ t = 0
      BY <2>0, <2>1 DEF isOnline
    <3>. QED
      BY <1>4, <3>1 DEF SilenceCounted
  <2>2. CASE isOnline(i, p)
    <3>1. i.msgTimeouts[p] \in Nat /\ i.msgTimeouts[p] < timeout
      BY <1>1, <1>3, <1>7, <2>2 DEF GoesOffline, isOnline
    <3>2. isOnline(j, p) /\ t = s
      BY <1>7, <2>0, <2>2 DEF isOnline
    <3>. QED
      BY <1>2, <1>3, <1>4, <2>0, <2>2, <3>1, <3>2 DEF SilenceCounted
  <2>. QED
    BY <2>1, <2>2
<1>. QED
  BY <1>5, <1>6, <1>7 DEF GoesOffline

\* The counts that are kept, and those of a driver that is reset.
LEMMA SameCounts ==
  ASSUME NEW i \in InternalState, NEW j \in InternalState, NEW p \in Players, NEW s \in Nat,
         j.msgTimeouts = i.msgTimeouts, j.msgFlags = i.msgFlags,
         j.IRQTimeout = i.IRQTimeout, j.IRQFlag = i.IRQFlag
  PROVE  /\ isOnline(i, p) <=> isOnline(j, p)
         /\ InterruptsCounted(i) <=> InterruptsCounted(j)
         /\ SilenceCounted(i, p, s) <=> SilenceCounted(j, p, s)
  BY DEF InterruptsCounted, SilenceCounted, isOnline

LEMMA ResetCounted ==
  ASSUME NEW i \in InternalState, NEW reading \in BOOLEAN, NEW j, j = resetState(i, reading),
         NEW p \in Players
  PROVE  ~isOnline(j, p) /\ InterruptsCounted(j) /\ SilenceCounted(j, p, 0)
<1>1. /\ j.IRQTimeout = 0 /\ ~j.IRQFlag
      /\ j.msgTimeouts[p] = OFFLINE /\ ~j.msgFlags[p]
  BY ResetStateFacts
<1>2. timeout \in Nat \ {0}
  OBVIOUS
<1>. QED
  BY <1>1, <1>2 DEF InterruptsCounted, SilenceCounted, isOnline

\* A step that changes what console c keeps, and nothing of the others.
OnlyOf(c) ==
  \A d \in Players \ {c} : /\ int'[d] = int[d] /\ ext'[d] = ext[d]
                           /\ isEnabled'[d] = isEnabled[d] /\ silent'[d] = silent[d]

LEMMA SilenceOfOne ==
  ASSUME TypeOK, SilenceInv, NEW c \in Players,
         OnlyOf(c), InterruptsCounted(int'[c]),
         \A p \in Players : /\ SilenceCounted(int'[c], p, silent'[c][p])
                            /\ isOnline(int'[c], p) => isEnabled'[c]
  PROVE  SilenceInv'
<1>1. ASSUME NEW d \in Players, d # c
      PROVE  /\ InterruptsCounted(int'[d])
             /\ \A p \in Players : /\ SilenceCounted(int'[d], p, silent'[d][p])
                                   /\ isOnline(int'[d], p) => isEnabled'[d]
  <2>1. int'[d] = int[d] /\ silent'[d] = silent[d] /\ isEnabled'[d] = isEnabled[d]
    BY <1>1 DEF OnlyOf
  <2>. QED
    BY <2>1 DEF SilenceInv
<1>. QED
  BY <1>1 DEF SilenceInv

LEMMA InitSilence == Init => SilenceInv
<1>. SUFFICES ASSUME Init, NEW c \in Players
              PROVE  /\ InterruptsCounted(int[c])
                     /\ \A p \in Players : /\ SilenceCounted(int[c], p, silent[c][p])
                                           /\ isOnline(int[c], p) => isEnabled[c]
  BY DEF SilenceInv
<1>1. int[c] = Inactive /\ isEnabled[c] /\ \A p \in Players : silent[c][p] = 0
  BY DEF Init
<1>2. Inactive.IRQTimeout = 0 /\ ~Inactive.IRQFlag
      /\ \A p \in Players : Inactive.msgTimeouts[p] = OFFLINE /\ ~Inactive.msgFlags[p]
  BY DEF Inactive
<1>3. InterruptsCounted(Inactive)
  BY <1>2 DEF InterruptsCounted
<1>4. \A p \in Players : ~isOnline(Inactive, p)
  BY <1>2 DEF isOnline
<1>5. \A p \in Players : SilenceCounted(Inactive, p, 0)
  BY <1>2, <1>4 DEF SilenceCounted
<1>. QED
  BY <1>1, <1>3, <1>4, <1>5

LEMMA VBlankSilence ==
  ASSUME TypeOK, SilenceInv, NEW c \in Players, _onVBlank(c)
  PROVE  SilenceInv'
<1>. DEFINE i == Frame(TimeoutsReset(int[c]))
<1>1. /\ int[c] \in InternalState /\ isReadingMessages[c] \in BOOLEAN /\ i \in InternalState
      /\ \A p \in Players : silent[c][p] \in Nat
  <2>1. i \in InternalState
    BY DriverKept, TimeoutsResetFacts, FrameFacts
  <2>. QED
    BY <2>1, DriverKept DEF TypeOK, HistoryTypes
<1>2. OnlyOf(c)
  BY DEF _onVBlank, reset, OnlyOf, TypeOK, DriverTypes, HistoryTypes
<1>3. \A p \in Players : silent'[c][p] = IF ~isOnline(int'[c], p) \/ int[c].isResetTimeoutPending
                                         THEN 0 ELSE silent[c][p] + 1
  BY DEF _onVBlank, TypeOK, HistoryTypes
<1>0. isEnabled[c] /\ isEnabled' = isEnabled
  BY DEF _onVBlank
<1>4. CASE i.IRQTimeout >= timeout
  <2>1. int'[c] = resetState(int[c], isReadingMessages[c])
    BY <1>4 DEF _onVBlank, reset, TypeOK, DriverTypes
  <2>2. \A p \in Players : ~isOnline(int'[c], p) /\ InterruptsCounted(int'[c])
                           /\ SilenceCounted(int'[c], p, 0)
    BY <1>1, <2>1, ResetCounted
  <2>3. \A p \in Players : silent'[c][p] = 0
    BY <1>3, <2>2
  <2>. QED
    BY <1>2, <2>2, <2>3, SilenceOfOne
<1>5. CASE ~(i.IRQTimeout >= timeout)
  <2>1. int'[c] = copyState(i, isReadingMessages[c])
    BY <1>5 DEF _onVBlank, TypeOK, DriverTypes
  <2>2. i.IRQTimeout < timeout
    BY <1>1, <1>5 DEF InternalState
  <2>3. ASSUME NEW p \in Players,
               NEW t, t = IF ~isOnline(i, p) \/ int[c].isResetTimeoutPending
                          THEN 0 ELSE silent[c][p] + 1
        PROVE  InterruptsCounted(i) /\ SilenceCounted(i, p, t) /\ t \in Nat
    <3>1. InterruptsCounted(int[c]) /\ SilenceCounted(int[c], p, silent[c][p])
      BY DEF SilenceInv
    <3>2. InterruptsCounted(i) /\ SilenceCounted(i, p, t)
      BY <1>1, <2>2, <2>3, <3>1, FrameCounted
    <3>. QED
      BY <1>1, <2>3, <3>2
  <2>. HIDE DEF i
  <2>4. /\ int'[c] \in InternalState
        /\ int'[c].msgTimeouts = i.msgTimeouts /\ int'[c].msgFlags = i.msgFlags
        /\ int'[c].IRQTimeout = i.IRQTimeout /\ int'[c].IRQFlag = i.IRQFlag
    BY <1>1, <2>1, CopyStateFacts
  <2>5. ASSUME NEW p \in Players
        PROVE  InterruptsCounted(int'[c]) /\ SilenceCounted(int'[c], p, silent'[c][p])
    <3>1. isOnline(int'[c], p) <=> isOnline(i, p)
      BY <2>4 DEF isOnline
    <3>2. silent'[c][p] = IF ~isOnline(i, p) \/ int[c].isResetTimeoutPending
                          THEN 0 ELSE silent[c][p] + 1
      BY <1>3, <3>1
    <3>3. InterruptsCounted(i) /\ SilenceCounted(i, p, silent'[c][p]) /\ silent'[c][p] \in Nat
      BY <2>3, <3>2
    <3>. QED
      BY <1>1, <2>4, <3>3, SameCounts
  <2>. QED
    BY <1>0, <1>2, <2>5, SilenceOfOne
<1>. QED
  BY <1>4, <1>5

LEMMA SerialSilence ==
  ASSUME TypeOK, SilenceInv, NEW c \in Players, _onSerial(c)
  PROVE  SilenceInv'
<1>1. /\ int[c] \in InternalState /\ isReadingMessages[c] \in BOOLEAN /\ irq[c].data \in Heard
      /\ \A p \in Players : silent[c][p] \in Nat
  BY DriverKept DEF _onSerial, TypeOK, HistoryTypes, WireTypes
<1>2. OnlyOf(c)
  BY DEF _onSerial, reset, OnlyOf, TypeOK, DriverTypes, HistoryTypes
<1>3. \A p \in Players : silent'[c][p] = IF ~isOnline(int'[c], p) \/ irq[c].data[p] # DISCONNECTED
                                         THEN 0 ELSE silent[c][p]
  BY DEF _onSerial, TypeOK, HistoryTypes
<1>0. isEnabled' = isEnabled
  BY DEF _onSerial
<1>4. CASE ~isEnabled[c]
  <2>1. int'[c] = int[c]
    BY <1>4 DEF _onSerial
  <2>2. ASSUME NEW p \in Players
        PROVE  /\ InterruptsCounted(int'[c]) /\ SilenceCounted(int'[c], p, silent'[c][p])
               /\ ~isOnline(int'[c], p)
    <3>1. /\ InterruptsCounted(int[c]) /\ SilenceCounted(int[c], p, silent[c][p])
          /\ ~isOnline(int[c], p)
      BY <1>4 DEF SilenceInv
    <3>2. silent'[c][p] = 0
      BY <1>3, <2>1, <3>1
    <3>. QED
      BY <2>1, <3>1, <3>2 DEF SilenceCounted
  <2>. QED
    BY <1>2, <2>2, SilenceOfOne
<1>5. CASE isEnabled[c] /\ (~allReady \/ irq[c].error)
  <2>1. int'[c] = resetState(int[c], isReadingMessages[c])
    BY <1>5 DEF _onSerial, reset, TypeOK, DriverTypes
  <2>2. \A p \in Players : ~isOnline(int'[c], p) /\ InterruptsCounted(int'[c])
                           /\ SilenceCounted(int'[c], p, 0)
    BY <1>1, <2>1, ResetCounted
  <2>3. \A p \in Players : silent'[c][p] = 0
    BY <1>3, <2>2
  <2>. QED
    BY <1>2, <2>2, <2>3, SilenceOfOne
<1>6. CASE isEnabled[c] /\ ~(~allReady \/ irq[c].error)
  <2>. DEFINE r == SerialReceived(c)
              s == SerialAnswered(c)
  <2>1. int'[c] = copyState(s, isReadingMessages[c])
    BY <1>6 DEF _onSerial, TypeOK, DriverTypes, Interrupted, SerialReceived, SerialAnswered
  <2>2. Interrupted(int[c]) \in InternalState
    BY <1>1 DEF Interrupted, InternalState
  <2>3. r \in InternalState
    BY <1>1, <2>2, ReceivedAllFacts DEF SerialReceived
  <2>4. /\ s \in InternalState
        /\ s.msgTimeouts = r.msgTimeouts /\ s.msgFlags = r.msgFlags
        /\ s.IRQTimeout = r.IRQTimeout /\ s.IRQFlag = r.IRQFlag
    BY <2>3, NotPendingFacts DEF SerialAnswered
  <2>5. ASSUME NEW p \in Players,
               NEW t, t = IF ~isOnline(r, p) \/ irq[c].data[p] # DISCONNECTED
                          THEN 0 ELSE silent[c][p]
        PROVE  InterruptsCounted(r) /\ SilenceCounted(r, p, t) /\ t \in Nat
    <3>1. SilenceCounted(int[c], p, silent[c][p])
      BY DEF SilenceInv
    <3>2. r = ReceivedAll(Interrupted(int[c]), c, irq[c].data)
      BY DEF SerialReceived
    <3>3. InterruptsCounted(r) /\ SilenceCounted(r, p, t)
      <4>1. silent[c][p] \in Nat /\ int[c] \in InternalState /\ irq[c].data \in Heard
        BY <1>1
      <4>2. /\ ~isOnline(r, p) \/ irq[c].data[p] # DISCONNECTED => t = 0
            /\ isOnline(r, p) /\ irq[c].data[p] = DISCONNECTED => t = silent[c][p]
        BY <2>5
      <4>. DEFINE i    == int[c]
                  data == irq[c].data
                  n    == silent[c][p]
      <4>3. /\ n \in Nat /\ i \in InternalState /\ data \in Heard
            /\ SilenceCounted(i, p, n) /\ r = ReceivedAll(Interrupted(i), c, data)
            /\ ~isOnline(r, p) \/ data[p] # DISCONNECTED => t = 0
            /\ isOnline(r, p) /\ data[p] = DISCONNECTED => t = n
        BY <3>1, <3>2, <4>1, <4>2
      <4>. HIDE DEF r, i, data, n
      <4>. QED
        BY <4>3, ReceivedCounted
    <3>. QED
      BY <1>1, <2>5, <3>3
  <2>. HIDE DEF r, s
  <2>6. /\ int'[c] \in InternalState
        /\ int'[c].msgTimeouts = r.msgTimeouts /\ int'[c].msgFlags = r.msgFlags
        /\ int'[c].IRQTimeout = r.IRQTimeout /\ int'[c].IRQFlag = r.IRQFlag
    BY <1>1, <2>1, <2>4, CopyStateFacts
  <2>7. ASSUME NEW p \in Players
        PROVE  InterruptsCounted(int'[c]) /\ SilenceCounted(int'[c], p, silent'[c][p])
    <3>1. isOnline(int'[c], p) <=> isOnline(r, p)
      BY <2>6 DEF isOnline
    <3>2. silent'[c][p] = IF ~isOnline(r, p) \/ irq[c].data[p] # DISCONNECTED
                          THEN 0 ELSE silent[c][p]
      BY <1>3, <3>1
    <3>3. InterruptsCounted(r) /\ SilenceCounted(r, p, silent'[c][p]) /\ silent'[c][p] \in Nat
      BY <2>5, <3>2
    <3>. QED
      BY <2>3, <2>6, <3>3, SameCounts
  <2>. QED
    BY <1>0, <1>2, <1>6, <2>7, SilenceOfOne
<1>. QED
  BY <1>4, <1>5, <1>6

\* A step that leaves the counts of its driver alone.
LEMMA CountsKept ==
  ASSUME TypeOK, SilenceInv, TypeOK', NEW c \in Players,
         \A d \in Players \ {c} : int'[d] = int[d], silent' = silent, isEnabled' = isEnabled,
         int'[c].msgTimeouts = int[c].msgTimeouts, int'[c].msgFlags = int[c].msgFlags,
         int'[c].IRQTimeout = int[c].IRQTimeout, int'[c].IRQFlag = int[c].IRQFlag
  PROVE  SilenceInv'
<1>1. ASSUME NEW p \in Players
      PROVE  /\ InterruptsCounted(int'[c]) /\ SilenceCounted(int'[c], p, silent[c][p])
             /\ isOnline(int'[c], p) => isEnabled[c]
  <2>1. int[c] \in InternalState /\ int'[c] \in InternalState /\ silent[c][p] \in Nat
    BY DEF TypeOK, DriverTypes, HistoryTypes
  <2>2. /\ InterruptsCounted(int[c]) /\ SilenceCounted(int[c], p, silent[c][p])
        /\ isOnline(int[c], p) => isEnabled[c]
    BY DEF SilenceInv
  <2>. QED
    BY <2>1, <2>2, SameCounts
<1>2. ASSUME NEW d \in Players, d # c
      PROVE  /\ InterruptsCounted(int'[d])
             /\ \A p \in Players : /\ SilenceCounted(int'[d], p, silent[d][p])
                                   /\ isOnline(int'[d], p) => isEnabled[d]
  <2>1. int'[d] = int[d]
    BY <1>2
  <2>. QED
    BY <2>1 DEF SilenceInv
<1>. QED
  BY <1>1, <1>2 DEF SilenceInv

LEMMA TimerSilence ==
  ASSUME TypeOK, SilenceInv, TypeOK', NEW c \in Players, _onTimer(c)
  PROVE  SilenceInv'
<1>. DEFINE i == IF c = 0 /\ allReady /\ ~isSending THEN NotPending(int[c]) ELSE int[c]
<1>1. /\ i \in InternalState
      /\ i.msgTimeouts = int[c].msgTimeouts /\ i.msgFlags = int[c].msgFlags
      /\ i.IRQTimeout = int[c].IRQTimeout /\ i.IRQFlag = int[c].IRQFlag
  BY DriverKept, NotPendingFacts
<1>2. /\ int' = [int EXCEPT ![c] = copyState(i, isReadingMessages[c])]
      /\ silent' = silent /\ isEnabled' = isEnabled
  BY DEF _onTimer
<1>. HIDE DEF i
<1>3. /\ int'[c].msgTimeouts = i.msgTimeouts /\ int'[c].msgFlags = i.msgFlags
      /\ int'[c].IRQTimeout = i.IRQTimeout /\ int'[c].IRQFlag = i.IRQFlag
      /\ \A d \in Players \ {c} : int'[d] = int[d]
  <2>1. int'[c] = copyState(i, isReadingMessages[c]) /\ \A d \in Players \ {c} : int'[d] = int[d]
    BY <1>2 DEF TypeOK, DriverTypes
  <2>2. isReadingMessages[c] \in BOOLEAN
    BY DriverKept
  <2>. QED
    BY <1>1, <2>1, <2>2, CopyStateFacts
<1>. QED
  BY <1>1, <1>2, <1>3, CountsKept

LEMMA ProgramSilence ==
  ASSUME TypeOK, SilenceInv, TypeOK', NEW c \in Players,
         \/ send(c) \/ Push(c) \/ Pushed(c) \/ resetTimeout(c)
         \/ Moved(c)
  PROVE  SilenceInv'
<1>1. /\ silent' = silent /\ isEnabled' = isEnabled
      /\ \A d \in Players \ {c} : int'[d] = int[d]
      /\ int'[c].msgTimeouts = int[c].msgTimeouts /\ int'[c].msgFlags = int[c].msgFlags
      /\ int'[c].IRQTimeout = int[c].IRQTimeout /\ int'[c].IRQFlag = int[c].IRQFlag
  <2>1. int \in [Players -> InternalState] /\ int[c] \in InternalState
    BY DEF TypeOK, DriverTypes
  <2>2. CASE send(c)
    BY <2>1, <2>2 DEF send, history, InternalState
  <2>3. CASE Push(c)
    BY <2>1, <2>3 DEF Push, history, InternalState
  <2>4. CASE Pushed(c)
    BY <2>1, <2>4 DEF Pushed, history, InternalState
  <2>5. CASE resetTimeout(c)
    BY <2>1, <2>5 DEF resetTimeout, history, InternalState
  <2>6. CASE Moved(c)
    BY <2>1, <2>6 DEF Moved, history, InternalState
  <2>. QED
    BY <2>2, <2>3, <2>4, <2>5, <2>6
<1>. QED
  BY <1>1, CountsKept

LEMMA ActivateSilence ==
  ASSUME TypeOK, SilenceInv, NEW c \in Players, deactivate(c) \/ activate(c)
  PROVE  SilenceInv'
<1>1. PICK reading \in BOOLEAN : int' = [int EXCEPT ![c] = resetState(int[c], reading)]
  BY DriverKept DEF deactivate, activate, reset
<1>2. int[c] \in InternalState /\ int'[c] = resetState(int[c], reading)
  BY <1>1 DEF TypeOK, DriverTypes
<1>3. \A p \in Players : InterruptsCounted(int'[c]) /\ SilenceCounted(int'[c], p, 0)
  BY <1>2, ResetCounted
<1>4. ASSUME NEW p \in Players PROVE silent'[c][p] = 0
  <2>1. CASE deactivate(c)
    BY <2>1 DEF deactivate, TypeOK, HistoryTypes
  <2>2. CASE activate(c)
    <3>1. ~isEnabled[c] /\ silent' = silent
      BY <2>2 DEF activate
    <3>. QED
      <4>1. SilenceCounted(int[c], p, silent[c][p]) /\ ~isOnline(int[c], p)
        BY <3>1 DEF SilenceInv
      <4>. QED
        BY <3>1, <4>1 DEF SilenceCounted
  <2>. QED
    BY <2>1, <2>2
<1>5. OnlyOf(c)
  BY DEF deactivate, activate, reset, OnlyOf, TypeOK, DriverTypes, HistoryTypes
<1>6. \A p \in Players : ~isOnline(int'[c], p)
  BY <1>2, ResetCounted
<1>. QED
  BY <1>3, <1>4, <1>5, <1>6, SilenceOfOne

LEMMA StepSilence == TypeOK /\ SilenceInv /\ [Next]_vars => SilenceInv'
<1>. SUFFICES ASSUME TypeOK, SilenceInv, [Next]_vars PROVE SilenceInv'
  OBVIOUS
<1>1. CASE UNCHANGED <<int, isEnabled, silent>>
  BY <1>1 DEF SilenceInv, InterruptsCounted, SilenceCounted
<1>2. TypeOK'
  BY StepTypes
<1>3. CASE UNCHANGED vars
  BY <1>1, <1>3 DEF vars, history
<1>4. ASSUME NEW e \in BOOLEAN, EndTransfer(e) PROVE SilenceInv'
  BY <1>1, <1>4 DEF EndTransfer, history
<1>5. ASSUME NEW c \in Players, Plug(c) \/ Collected(c) PROVE SilenceInv'
  BY <1>1, <1>5 DEF Plug, Collected
<1>6. ASSUME NEW c \in Players, NEW p \in Players \cup {Nobody}, sync(c, p) \/ read(c, p)
      PROVE  SilenceInv'
  BY <1>1, <1>6 DEF sync, read, history
<1>. QED
  BY <1>2, <1>3, <1>4, <1>5, <1>6, VBlankSilence, SerialSilence, TimerSilence, ProgramSilence,
     ActivateSilence DEF Next

(* A player whose words stop is offline after twice the timeout.           *)
THEOREM SilenceIsNoticed == Spec => []SilenceNoticed
<1>1. TypeOK /\ SilenceInv => SilenceNoticed
  <2>. SUFFICES ASSUME TypeOK, SilenceInv, NEW c \in Players, NEW p \in Players
                PROVE  silent[c][p] <= 2 * timeout
    BY DEF SilenceNoticed
  <2>1. SilenceCounted(int[c], p, silent[c][p]) /\ InterruptsCounted(int[c])
    BY DEF SilenceInv
  <2>2. /\ silent[c][p] \in Nat /\ int[c].IRQTimeout \in Nat /\ int[c].IRQFlag \in BOOLEAN
        /\ int[c].msgTimeouts[p] \in Nat \cup {OFFLINE} /\ timeout \in Nat
    BY DriverKept, InternalValues DEF TypeOK, HistoryTypes
  <2>3. CASE ~isOnline(int[c], p)
    BY <2>1, <2>2, <2>3 DEF SilenceCounted
  <2>4. CASE isOnline(int[c], p) /\ ~int[c].IRQFlag
    BY <2>1, <2>2, <2>4 DEF SilenceCounted, InterruptsCounted, isOnline
  <2>5. CASE isOnline(int[c], p) /\ int[c].IRQFlag
    BY <2>1, <2>2, <2>5 DEF SilenceCounted, InterruptsCounted, isOnline
  <2>. QED
    BY <2>3, <2>4, <2>5
<1>. QED
  BY <1>1, InitTypes, InitSilence, StepTypes, StepSilence, PTL DEF Spec

-----------------------------------------------------------------------------
(* A flow: what is on its way from one console to another.  Its places are *)
(* sets of words, in the order in which a word visits them backwards: g is *)
(* the last word that was read, A waits for the program, B and N for       *)
(* sync(), x and y are on the wire, O waits to be sent, and n is the last  *)
(* word that was sent.                                                     *)

Positive(word) == IF word > 0 THEN {word} ELSE {}

Line(g, A, B, N, x, y, O, n) ==
  /\ Before({g}, A) /\ Before({g}, B) /\ Before({g}, N)
  /\ Before({g}, x) /\ Before({g}, y) /\ Before({g}, O)
  /\ Before(A, B) /\ Before(A, N) /\ Before(A, x) /\ Before(A, y) /\ Before(A, O)
  /\ Before(B, N) /\ Before(B, x) /\ Before(B, y) /\ Before(B, O)
  /\ Before(N, x) /\ Before(N, y) /\ Before(N, O)
  /\ Before(x, y) /\ Before(x, O)
  /\ Before(y, O)
  /\ \A w \in {g} \cup A \cup B \cup N \cup x \cup y \cup O : w \in Nat /\ w <= n

\* No word after the last one that was read is missing.
Whole(g, S, n) == \A w \in Nat : g < w /\ w <= n => w \in S

FlowOf(lost, g, A, B, N, x, y, O, n) ==
  /\ Line(g, WordsIn(A), WordsIn(B), WordsIn(N), Positive(x), Positive(y), WordsIn(O), n)
  /\ Rising(A) /\ Rising(B) /\ Rising(N) /\ Rising(O)
  /\ lost = {} => Whole(g, WordsIn(A) \cup WordsIn(B) \cup WordsIn(N) \cup Positive(x)
                           \cup Positive(y) \cup WordsIn(O), n)

Typed(g, A, B, N, x, y, O, n) ==
  /\ g \in Nat /\ n \in Nat
  /\ A \in Queue /\ B \in Queue /\ N \in Queue /\ O \in Queue
  /\ x \in Nat \cup {DISCONNECTED} /\ y \in Nat

\* Two neighbours exchange words and stay in order.
LEMMA SyncedLine ==
  ASSUME NEW g, NEW A, NEW B, NEW N, NEW x, NEW y, NEW O, NEW n,
         Line(g, A, B, N, x, y, O, n),
         NEW A2, NEW B2, A2 \cup B2 \subseteq A \cup B, Before(A2, B2)
  PROVE  Line(g, A2, B2, N, x, y, O, n)
  BY DEF Line, Before

LEMMA CopiedLine ==
  ASSUME NEW g, NEW A, NEW B, NEW N, NEW x, NEW y, NEW O, NEW n,
         Line(g, A, B, N, x, y, O, n),
         NEW B2, NEW N2, B2 \cup N2 \subseteq B \cup N, Before(B2, N2)
  PROVE  Line(g, A, B2, N2, x, y, O, n)
  BY DEF Line, Before

LEMMA ReceivedLine ==
  ASSUME NEW g, NEW A, NEW B, NEW N, NEW x, NEW y, NEW O, NEW n,
         Line(g, A, B, N, x, y, O, n),
         NEW N2, N2 \subseteq N \cup x
  PROVE  Line(g, A, B, N2, {}, y, O, n)
  BY DEF Line, Before

LEMMA WireLine ==
  ASSUME NEW g, NEW A, NEW B, NEW N, NEW x, NEW y, NEW O, NEW n,
         Line(g, A, B, N, x, y, O, n),
         NEW x2, NEW y2, x2 \cup y2 \subseteq x \cup y, Before(x2, y2)
  PROVE  Line(g, A, B, N, x2, y2, O, n)
  BY DEF Line, Before

LEMMA LoadedLine ==
  ASSUME NEW g, NEW A, NEW B, NEW N, NEW x, NEW y, NEW O, NEW n,
         Line(g, A, B, N, x, y, O, n),
         NEW y2, NEW O2, y2 \cup O2 \subseteq y \cup O, Before(y2, O2)
  PROVE  Line(g, A, B, N, x, y2, O2, n)
  BY DEF Line, Before

LEMMA ReadLine ==
  ASSUME NEW g, NEW A, NEW B, NEW N, NEW x, NEW y, NEW O, NEW n,
         Line(g, A, B, N, x, y, O, n),
         NEW h, NEW A2, A = {h} \cup A2, Before({h}, A2)
  PROVE  Line(h, A2, B, N, x, y, O, n)
  BY DEF Line, Before

LEMMA DrainedLine ==
  ASSUME NEW g, NEW A, NEW B, NEW N, NEW x, NEW y, NEW O, NEW n,
         Line(g, A, B, N, x, y, O, n),
         NEW A2, NEW B2, NEW N2, NEW O2, A2 \subseteq A, B2 \subseteq B, N2 \subseteq N,
         O2 \subseteq O
  PROVE  Line(g, A2, B2, N2, x, y, O2, n)
  BY DEF Line, Before

LEMMA PushedLine ==
  ASSUME NEW g, NEW A, NEW B, NEW N, NEW x, NEW y, NEW O, NEW n \in Nat,
         Line(g, A, B, N, x, y, O, n),
         NEW O2, O2 \subseteq O \cup {n + 1}
  PROVE  Line(g, A, B, N, x, y, O2, n + 1)
<1>1. \A w \in {g} \cup A \cup B \cup N \cup x \cup y \cup O : w \in Nat /\ w <= n /\ w < n + 1
  BY DEF Line
<1>2. \A w \in {g} \cup A \cup B \cup N \cup x \cup y \cup O2 : w \in Nat /\ w <= n + 1
  BY <1>1
<1>. QED
  BY <1>1, <1>2 DEF Line, Before

-----------------------------------------------------------------------------
(* What the steps do to a flow.  Its words are all there as long as none   *)
(* may be lost: lost and lost2 are the consoles that may have lost some.   *)

LEMMA PositiveFacts ==
  /\ Positive(0) = {} /\ Positive(DISCONNECTED) = {}
  /\ \A w \in Nat : w # 0 => Positive(w) = {w}
  /\ \A S : Before(S, {}) /\ Before({}, S)
<1>1. \A S : Before(S, {}) /\ Before({}, S)
  BY DEF Before
<1>2. Positive(0) = {} /\ Positive(DISCONNECTED) = {}
  BY DEF Positive
<1>3. \A w \in Nat : w # 0 => Positive(w) = {w}
  BY DEF Positive
<1>. QED
  BY <1>1, <1>2, <1>3

\* sync() takes the oldest words of the collected ones.
LEMMA SyncedFlow ==
  ASSUME NEW lost, NEW g, NEW A, NEW B, NEW N, NEW x, NEW y, NEW O, NEW n,
         Typed(g, A, B, N, x, y, O, n), FlowOf(lost, g, A, B, N, x, y, O, n),
         NEW lost2, lost \subseteq lost2
  PROVE  FlowOf(lost2, g, MovedTo(B, A), MovedFrom(B, A), N, x, y, O, n)
<1>. DEFINE A2 == MovedTo(B, A)
            B2 == MovedFrom(B, A)
<1>1. /\ Rising(A) /\ Rising(B) /\ Before(WordsIn(A), WordsIn(B))
      /\ A \in Queue /\ B \in Queue
  BY DEF FlowOf, Line, Typed
<1>2. /\ Rising(A2) /\ Rising(B2) /\ Before(WordsIn(A2), WordsIn(B2))
      /\ WordsIn(A2) \cup WordsIn(B2) = WordsIn(A) \cup WordsIn(B)
  BY <1>1, MoveOfQueue
<1>. HIDE DEF A2, B2
<1>3. Line(g, WordsIn(A2), WordsIn(B2), WordsIn(N), Positive(x), Positive(y), WordsIn(O), n)
  BY <1>2, SyncedLine DEF FlowOf
<1>4. FlowOf(lost2, g, A2, B2, N, x, y, O, n)
  BY <1>2, <1>3 DEF FlowOf, Whole
<1>. QED
  BY <1>4 DEF A2, B2

\* copyState() takes the oldest words of the new ones, or drops what it has
\* collected of a player that is offline.
Copied(lost2, B, N, B2, N2) ==
  \/ B2 = MovedTo(N, B) /\ N2 = MovedFrom(N, B)
  \/ B2 = <<>> /\ N2 = N /\ (lost2 = {} => B = <<>>)
  \/ B2 = B /\ N2 = N

LEMMA CopiedFlow ==
  ASSUME NEW lost, NEW g, NEW A, NEW B, NEW N, NEW x, NEW y, NEW O, NEW n,
         Typed(g, A, B, N, x, y, O, n), FlowOf(lost, g, A, B, N, x, y, O, n),
         NEW lost2, lost \subseteq lost2,
         NEW B2, NEW N2, Copied(lost2, B, N, B2, N2)
  PROVE  FlowOf(lost2, g, A, B2, N2, x, y, O, n)
<1>1. /\ Rising(B) /\ Rising(N) /\ Before(WordsIn(B), WordsIn(N))
      /\ B \in Queue /\ N \in Queue
  BY DEF FlowOf, Line, Typed
<1>2. /\ Rising(B2) /\ Rising(N2) /\ Before(WordsIn(B2), WordsIn(N2))
      /\ WordsIn(B2) \cup WordsIn(N2) \subseteq WordsIn(B) \cup WordsIn(N)
      /\ lost2 = {} => WordsIn(B2) \cup WordsIn(N2) = WordsIn(B) \cup WordsIn(N)
  <2>1. CASE B2 = MovedTo(N, B) /\ N2 = MovedFrom(N, B)
    BY <1>1, <2>1, MoveOfQueue
  <2>2. CASE B2 = <<>> /\ N2 = N /\ (lost2 = {} => B = <<>>)
    BY <1>1, <2>2, EmptyQueue, PositiveFacts
  <2>3. CASE B2 = B /\ N2 = N
    BY <1>1, <2>3
  <2>. QED
    BY <2>1, <2>2, <2>3 DEF Copied
<1>3. Line(g, WordsIn(A), WordsIn(B2), WordsIn(N2), Positive(x), Positive(y), WordsIn(O), n)
  BY <1>2, CopiedLine DEF FlowOf
<1>. QED
  BY <1>2, <1>3 DEF FlowOf, Whole

\* The word of a transfer is stored; without one, what was stored may be dropped.
Stored(lost2, x, N, N2) ==
  \/ x > 0 /\ N2 = push(N, x) /\ (lost2 = {} => ~isFull(N))
  \/ ~(x > 0) /\ N2 = N
  \/ ~(x > 0) /\ N2 = <<>> /\ (lost2 = {} => N = <<>>)

LEMMA ReceivedFlow ==
  ASSUME NEW lost, NEW g, NEW A, NEW B, NEW N, NEW x, NEW y, NEW O, NEW n,
         Typed(g, A, B, N, x, y, O, n), FlowOf(lost, g, A, B, N, x, y, O, n),
         NEW lost2, lost \subseteq lost2,
         NEW N2, Stored(lost2, x, N, N2)
  PROVE  FlowOf(lost2, g, A, B, N2, 0, y, O, n)
<1>1. /\ Rising(N) /\ Before(WordsIn(N), Positive(x)) /\ N \in Queue
      /\ x \in Nat \cup {DISCONNECTED}
  BY DEF FlowOf, Line, Typed
<1>2. /\ Rising(N2) /\ WordsIn(N2) \subseteq WordsIn(N) \cup Positive(x)
      /\ lost2 = {} => WordsIn(N2) = WordsIn(N) \cup Positive(x)
  <2>1. CASE x > 0
    <3>1. x \in Nat /\ Positive(x) = {x} /\ N2 = push(N, x) /\ (lost2 = {} => ~isFull(N))
      BY <1>1, <2>1 DEF Positive, Stored
    <3>. QED
      BY <1>1, <2>1, <3>1, PushOfQueue
  <2>2. CASE ~(x > 0)
    <3>1. Positive(x) = {}
      BY <2>2 DEF Positive
    <3>. QED
      BY <1>1, <2>2, <3>1, EmptyQueue DEF Stored
  <2>. QED
    BY <2>1, <2>2
<1>3. Line(g, WordsIn(A), WordsIn(B), WordsIn(N2), Positive(0), Positive(y), WordsIn(O), n)
  <2>1. Line(g, WordsIn(A), WordsIn(B), WordsIn(N2), {}, Positive(y), WordsIn(O), n)
    BY <1>2, ReceivedLine DEF FlowOf
  <2>. QED
    BY <2>1, PositiveFacts
<1>. QED
  BY <1>2, <1>3, PositiveFacts DEF FlowOf, Whole

\* The words on the wire, from x and y to x2 and y2.
Wired(lost2, x, y, x2, y2) ==
  \/ x2 = x /\ y2 = y
  \/ Positive(x) = {} /\ x2 = y /\ y2 = 0
  \/ Positive(y) = {} /\ Positive(x2) = {} /\ y2 = x
  \/ lost2 # {} /\ Positive(x2) = {} /\ Positive(y2) \subseteq Positive(x) \cup Positive(y)
  \/ lost2 # {} /\ Positive(x2) \subseteq Positive(x) /\ Positive(y2) \subseteq Positive(y)

\* The words on the wire: a transfer starts, or ends before a console hears it.
LEMMA WireFlow ==
  ASSUME NEW lost, NEW g, NEW A, NEW B, NEW N, NEW x, NEW y, NEW O, NEW n,
         Typed(g, A, B, N, x, y, O, n), FlowOf(lost, g, A, B, N, x, y, O, n),
         NEW lost2, lost \subseteq lost2,
         NEW x2, NEW y2, Wired(lost2, x, y, x2, y2)
  PROVE  FlowOf(lost2, g, A, B, N, x2, y2, O, n)
<1>1. /\ Before(Positive(x2), Positive(y2))
      /\ Positive(x2) \cup Positive(y2) \subseteq Positive(x) \cup Positive(y)
      /\ lost2 = {} => Positive(x2) \cup Positive(y2) = Positive(x) \cup Positive(y)
  <2>1. Before(Positive(x), Positive(y))
    BY DEF FlowOf, Line
  <2>. QED
    BY <2>1, PositiveFacts DEF Before, Wired
<1>2. Line(g, WordsIn(A), WordsIn(B), WordsIn(N), Positive(x2), Positive(y2), WordsIn(O), n)
  BY <1>1, WireLine DEF FlowOf
<1>. QED
  BY <1>1, <1>2 DEF FlowOf, Whole

\* sendPendingData() loads the oldest word to send, if there is one.
Fetched(O, y2, O2) == \/ y2 = 0 /\ O2 = O
                      \/ O # <<>> /\ y2 = Head(O) /\ O2 = Tail(O)

LEMMA LoadedFlow ==
  ASSUME NEW lost, NEW g, NEW A, NEW B, NEW N, NEW x, NEW y, NEW O, NEW n,
         Typed(g, A, B, N, x, y, O, n), FlowOf(lost, g, A, B, N, x, y, O, n),
         NEW lost2, lost \subseteq lost2,
         Positive(y) = {}, NEW y2, NEW O2, Fetched(O, y2, O2)
  PROVE  FlowOf(lost2, g, A, B, N, x, y2, O2, n)
<1>1. Rising(O) /\ O \in Queue /\ g \in Nat
  BY DEF FlowOf, Typed
<1>2. /\ Rising(O2) /\ Before(Positive(y2), WordsIn(O2))
      /\ Positive(y2) \cup WordsIn(O2) = WordsIn(O)
  <2>1. CASE y2 = 0 /\ O2 = O
    BY <1>1, <2>1, PositiveFacts
  <2>2. CASE O # <<>> /\ y2 = Head(O) /\ O2 = Tail(O)
    <3>1. /\ Rising(O2) /\ Before({y2}, WordsIn(O2)) /\ WordsIn(O) = {y2} \cup WordsIn(O2)
          /\ y2 \in Nat
      BY <1>1, <2>2, TailOfQueue
    <3>2. g < y2
      BY <3>1 DEF FlowOf, Line, Before
    <3>3. Positive(y2) = {y2}
      BY <1>1, <3>1, <3>2, PositiveFacts
    <3>. QED
      BY <3>1, <3>3
  <2>. QED
    BY <2>1, <2>2 DEF Fetched
<1>3. Line(g, WordsIn(A), WordsIn(B), WordsIn(N), Positive(x), Positive(y2), WordsIn(O2), n)
  BY <1>2, LoadedLine DEF FlowOf
<1>. QED
  BY <1>2, <1>3 DEF FlowOf, Whole

\* The program reads a word.
LEMMA ReadFlow ==
  ASSUME NEW lost, NEW g, NEW A, NEW B, NEW N, NEW x, NEW y, NEW O, NEW n,
         Typed(g, A, B, N, x, y, O, n), FlowOf(lost, g, A, B, N, x, y, O, n),
         NEW lost2, lost \subseteq lost2,
         A # <<>>
  PROVE  FlowOf(lost2, Head(A), Tail(A), B, N, x, y, O, n)
<1>. DEFINE h == Head(A)
            A2 == Tail(A)
<1>1. Rising(A) /\ A \in Queue /\ g \in Nat
  BY DEF FlowOf, Typed
<1>2. /\ Rising(A2) /\ Before({h}, WordsIn(A2)) /\ WordsIn(A) = {h} \cup WordsIn(A2)
      /\ h \in Nat
  BY <1>1, TailOfQueue
<1>. HIDE DEF h, A2
<1>3. g < h
  BY <1>2 DEF FlowOf, Line, Before
<1>4. Line(h, WordsIn(A2), WordsIn(B), WordsIn(N), Positive(x), Positive(y), WordsIn(O), n)
  BY <1>2, ReadLine DEF FlowOf
<1>5. \A w \in Nat : h < w => g < w /\ w # h
  BY <1>1, <1>2, <1>3
<1>6. FlowOf(lost2, h, A2, B, N, x, y, O, n)
  BY <1>2, <1>4, <1>5 DEF FlowOf, Whole
<1>. QED
  BY <1>6 DEF h, A2

\* Queues that are cleared.
Fewer(lost2, A, B, N, O, A2, B2, N2, O2) ==
  /\ A2 \in {A, <<>>} /\ B2 \in {B, <<>>} /\ N2 \in {N, <<>>} /\ O2 \in {O, <<>>}
  /\ lost2 = {} => A2 = A /\ B2 = B /\ N2 = N /\ O2 = O

LEMMA DrainedFlow ==
  ASSUME NEW lost, NEW g, NEW A, NEW B, NEW N, NEW x, NEW y, NEW O, NEW n,
         Typed(g, A, B, N, x, y, O, n), FlowOf(lost, g, A, B, N, x, y, O, n),
         NEW lost2, lost \subseteq lost2,
         NEW A2, NEW B2, NEW N2, NEW O2, Fewer(lost2, A, B, N, O, A2, B2, N2, O2)
  PROVE  FlowOf(lost2, g, A2, B2, N2, x, y, O2, n)
<1>1. /\ WordsIn(A2) \subseteq WordsIn(A) /\ WordsIn(B2) \subseteq WordsIn(B)
      /\ WordsIn(N2) \subseteq WordsIn(N) /\ WordsIn(O2) \subseteq WordsIn(O)
  BY EmptyQueue DEF Fewer
<1>2. Rising(A2) /\ Rising(B2) /\ Rising(N2) /\ Rising(O2)
  BY EmptyQueue DEF FlowOf, Fewer
<1>3. Line(g, WordsIn(A2), WordsIn(B2), WordsIn(N2), Positive(x), Positive(y), WordsIn(O2), n)
  BY <1>1, DrainedLine DEF FlowOf
<1>. QED
  BY <1>2, <1>3 DEF FlowOf, Fewer

LEMMA ChangedFlow ==
  ASSUME NEW lost, NEW g, NEW A, NEW B, NEW N, NEW x, NEW y, NEW O, NEW n,
         Typed(g, A, B, N, x, y, O, n), FlowOf(lost, g, A, B, N, x, y, O, n),
         NEW lost2, lost \subseteq lost2,
         NEW A2, NEW B2, NEW N2, NEW O2, Fewer(lost2, A, B, N, O, A2, B2, N2, O2),
         NEW x2, NEW y2, Wired(lost2, x, y, x2, y2)
  PROVE  FlowOf(lost2, g, A2, B2, N2, x2, y2, O2, n)
<1>1. FlowOf(lost2, g, A2, B2, N2, x, y, O2, n)
  BY DrainedFlow
<1>2. Typed(g, A2, B2, N2, x, y, O2, n)
  BY EmptyQueue DEF Typed, Fewer
<1>. QED
  BY <1>1, <1>2, WireFlow

\* The program sends a word.
LEMMA PushedFlow ==
  ASSUME NEW lost, NEW g, NEW A, NEW B, NEW N, NEW x, NEW y, NEW O, NEW n,
         Typed(g, A, B, N, x, y, O, n), FlowOf(lost, g, A, B, N, x, y, O, n),
         NEW lost2, lost \subseteq lost2,
         lost2 = {} => ~isFull(O)
  PROVE  FlowOf(lost2, g, A, B, N, x, y, push(O, n + 1), n + 1)
<1>. DEFINE O2 == push(O, n + 1)
<1>1. Rising(O) /\ O \in Queue /\ n \in Nat
  BY DEF FlowOf, Typed
<1>2. Before(WordsIn(O), {n + 1})
  BY <1>1 DEF FlowOf, Line, Before
<1>3. /\ Rising(O2) /\ WordsIn(O2) \subseteq WordsIn(O) \cup {n + 1}
      /\ lost2 = {} => WordsIn(O2) = WordsIn(O) \cup {n + 1}
  BY <1>1, <1>2, PushOfQueue
<1>. HIDE DEF O2
<1>4. Line(g, WordsIn(A), WordsIn(B), WordsIn(N), Positive(x), Positive(y), WordsIn(O2), n + 1)
  BY <1>1, <1>3, PushedLine DEF FlowOf
<1>5. \A w \in Nat : w <= n + 1 => w <= n \/ w = n + 1
  BY <1>1
<1>6. FlowOf(lost2, g, A, B, N, x, y, O2, n + 1)
  BY <1>3, <1>4, <1>5 DEF FlowOf, Whole
<1>. QED
  BY <1>6 DEF O2

-----------------------------------------------------------------------------
(* What holds of the wires.  While a transfer is in progress every console *)
(* has answered the last one and SIOMLT_SEND lost2 holds the word that is  *)
(* sent, unless the console was set up again; the master has none loaded   *)
(* between transfers, a console that is off none at all.                   *)

WireInv ==
  /\ 0 \in plugged
  /\ isSending => Answered /\ 0 \in multi
  /\ isSending => \A p \in Players : /\ SIOMLT_SEND[p] \in {wire[p], 0}
                                     /\ p \notin lossy => SIOMLT_SEND[p] = wire[p]
  /\ irq[0] = None /\ ~isSending => SIOMLT_SEND[0] = 0

(* What holds of one console: the handlers keep off what its program takes *)
(* or writes, and a console that lost nothing takes part in the transfers. *)
ConsoleInv(c) ==
  /\ ~isEnabled[c] => SIOMLT_SEND[c] = 0
  /\ isReadingMessages[c] <=> at[c] = "moved"
  /\ at[c] = "push" => ~isFull(int[c].outgoing) /\ int[c].isWriting
  /\ c \notin lossy => c \in plugged /\ c \in multi /\ isEnabled[c] /\ ~int[c].needsClear

CableInv == WireInv /\ \A c \in Players : ConsoleInv(c)

\* The consoles that may have lost messages of p for c.
Lost(p, c) == lossy \cap {p, c}

Flow(p, c) ==
  FlowOf(Lost(p, c), got[c][p], ext[c].synced[p], Collecting(p, c), int[c].new[p],
         Carried(p, c), Loaded(p), int[p].outgoing, sent[p])

FlowInv == \A p, c \in Players : p # c => Flow(p, c)

LEMMA FlowTyped ==
  ASSUME TypeOK, NEW p \in Players, NEW c \in Players
  PROVE  Typed(got[c][p], ext[c].synced[p], Collecting(p, c), int[c].new[p],
               Carried(p, c), Loaded(p), int[p].outgoing, sent[p])
<1>1. /\ int[c] \in InternalState /\ int[p] \in InternalState /\ ext[c] \in ExternalState
      /\ left[c] \in Queues
  BY DriverKept DEF TypeOK, ProgramTypes
<1>2. /\ int[c].new \in Queues /\ int[c].ready \in Queues /\ int[p].outgoing \in Queue
      /\ ext[c].synced \in Queues
  BY <1>1 DEF InternalState, ExternalState
<1>3. Collecting(p, c) \in Queue
  BY <1>1, <1>2 DEF Collecting, Queues
<1>4. Carried(p, c) \in Nat \cup {DISCONNECTED}
  <2>1. CASE irq[c] # None
    <3>1. irq[c].data \in Heard
      BY <2>1 DEF TypeOK, WireTypes
    <3>. QED
      BY <2>1, <3>1 DEF Carried, Heard
  <2>2. CASE irq[c] = None /\ isSending
    BY <2>2 DEF Carried, TypeOK, WireTypes, isSending
  <2>3. CASE irq[c] = None /\ ~isSending
    BY <2>3 DEF Carried
  <2>. QED
    BY <2>1, <2>2, <2>3
<1>5. Loaded(p) \in Nat
  BY DEF Loaded, TypeOK, WireTypes
<1>6. got[c][p] \in Nat /\ sent[p] \in Nat
  BY DEF TypeOK, ProgramTypes
<1>. QED
  BY <1>2, <1>3, <1>4, <1>5, <1>6 DEF Typed, Queues

\* A step that clears queues at most, and moves the words on the wire.
LEMMA DrainedStep ==
  ASSUME TypeOK, NEW p \in Players, NEW c \in Players, Flow(p, c),
         lossy \subseteq lossy', got'[c][p] = got[c][p], sent'[p] = sent[p],
         ext'[c].synced[p] \in {ext[c].synced[p], <<>>},
         Collecting(p, c)' \in {Collecting(p, c), <<>>},
         int'[c].new[p] \in {int[c].new[p], <<>>},
         int'[p].outgoing \in {int[p].outgoing, <<>>},
         Lost(p, c)' = {} => /\ ext'[c].synced[p] = ext[c].synced[p]
                        /\ Collecting(p, c)' = Collecting(p, c)
                        /\ int'[c].new[p] = int[c].new[p]
                        /\ int'[p].outgoing = int[p].outgoing,
         Wired(Lost(p, c)', Carried(p, c), Loaded(p), Carried(p, c)', Loaded(p)')
  PROVE  Flow(p, c)'
<1>1. Lost(p, c) \subseteq Lost(p, c)'
  BY DEF Lost
<1>2. Typed(got[c][p], ext[c].synced[p], Collecting(p, c), int[c].new[p],
            Carried(p, c), Loaded(p), int[p].outgoing, sent[p])
  BY FlowTyped
<1>. DEFINE A2 == ext'[c].synced[p]
            B2 == Collecting(p, c)'
            N2 == int'[c].new[p]
            O2 == int'[p].outgoing
            x2 == Carried(p, c)'
            y2 == Loaded(p)'
            lost2 == Lost(p, c)'
            A == ext[c].synced[p]
            B == Collecting(p, c)
            N == int[c].new[p]
            O == int[p].outgoing
            x == Carried(p, c)
            y == Loaded(p)
            lost == Lost(p, c)
<1>3. /\ lost \subseteq lost2
      /\ Typed(got[c][p], A, B, N, x, y, O, sent[p])
      /\ FlowOf(lost, got[c][p], A, B, N, x, y, O, sent[p])
  BY <1>1, <1>2 DEF Flow
<1>4. Fewer(lost2, A, B, N, O, A2, B2, N2, O2) /\ Wired(lost2, x, y, x2, y2)
  BY DEF Fewer
<1>5. FlowOf(lost2, got[c][p], A2, B2, N2, x2, y2, O2, sent[p])
  <2>. HIDE DEF A2, B2, N2, O2, x2, y2, lost2, A, B, N, O, x, y, lost
  <2>. QED
    BY <1>3, <1>4, ChangedFlow
<1>. QED
  BY <1>5 DEF Flow

\* What the wires hold for a console.
LEMMA WireIs ==
  ASSUME NEW p, NEW c
  PROVE  /\ irq[c] # None => Carried(p, c) = irq[c].data[p]
         /\ irq[c] = None /\ isSending => Carried(p, c) = wire[p]
         /\ irq[c] = None /\ ~isSending => Carried(p, c) = 0
         /\ irq[p] # None \/ isSending => Loaded(p) = 0
         /\ irq[p] = None /\ ~isSending => Loaded(p) = SIOMLT_SEND[p]
  BY DEF Carried, Loaded

LEMMA WireIsThen ==
  ASSUME NEW p, NEW c
  PROVE  /\ irq'[c] # None => Carried(p, c)' = irq'[c].data[p]
         /\ irq'[c] = None /\ isSending' => Carried(p, c)' = wire'[p]
         /\ irq'[c] = None /\ ~isSending' => Carried(p, c)' = 0
         /\ irq'[p] # None \/ isSending' => Loaded(p)' = 0
         /\ irq'[p] = None /\ ~isSending' => Loaded(p)' = SIOMLT_SEND'[p]
  BY DEF Carried, Loaded, isSending

LEMMA SameWires ==
  ASSUME NEW p, NEW c, irq' = irq, wire' = wire, SIOMLT_SEND' = SIOMLT_SEND
  PROVE  Wired(Lost(p, c)', Carried(p, c), Loaded(p), Carried(p, c)', Loaded(p)')
  BY DEF Wired, Carried, Loaded, isSending

\* A console that is set up again: its word is gone, and with the master the
\* transfer in progress.
LEMMA ResetWires ==
  ASSUME TypeOK, WireInv, NEW d \in Players, NEW p \in Players, NEW c \in Players, p # c,
         SIOMLT_SEND' = [SIOMLT_SEND EXCEPT ![d] = NO_DATA],
         wire' = IF d = 0 THEN <<>> ELSE wire,
         irq' = irq \/ (irq[d] # None /\ irq' = [irq EXCEPT ![d] = None]),
         lossy' = lossy \cup {d}
  PROVE  Wired(Lost(p, c)', Carried(p, c), Loaded(p), Carried(p, c)', Loaded(p)')
<1>1. /\ SIOMLT_SEND'[d] = 0 /\ \A q \in Players : q # d => SIOMLT_SEND'[q] = SIOMLT_SEND[q]
      /\ \A q \in Players : q # d => irq'[q] = irq[q]
      /\ irq'[d] \in {irq[d], None}
  BY DEF TypeOK, WireTypes
<1>2. p = d \/ c = d => Lost(p, c)' # {}
  BY DEF Lost
<1>3. CASE isSending /\ d = 0
  <2>1. /\ \A q \in Players : irq[q] = None /\ irq'[q] = None
        /\ ~isSending' /\ SIOMLT_SEND[p] \in {wire[p], 0} /\ wire[p] \in Nat
        /\ p \notin lossy => SIOMLT_SEND[p] = wire[p]
    BY <1>1, <1>3 DEF WireInv, Answered, isSending, TypeOK, WireTypes
  <2>2. Carried(p, c) = wire[p] /\ Loaded(p) = 0
    BY <1>3, <2>1, WireIs
  <2>3. Carried(p, c)' = 0 /\ Loaded(p)' = SIOMLT_SEND'[p]
    BY <2>1, WireIsThen
  <2>4. CASE p = d
    BY <1>1, <1>2, <2>2, <2>3, <2>4, PositiveFacts DEF Wired
  <2>5. CASE p # d
    <3>1. SIOMLT_SEND'[p] = wire[p] \/ (SIOMLT_SEND'[p] = 0 /\ p \in lossy)
      BY <1>1, <2>1, <2>5
    <3>2. p \in lossy => Lost(p, c)' # {}
      BY DEF Lost
    <3>. QED
      BY <2>2, <2>3, <3>1, <3>2, PositiveFacts DEF Wired
  <2>. QED
    BY <2>4, <2>5
<1>4. CASE ~(isSending /\ d = 0)
  <2>1. wire' = wire /\ (isSending' <=> isSending)
    BY <1>4 DEF isSending
  <2>2. Carried(p, c)' = Carried(p, c) \/ (c = d /\ Carried(p, c)' = 0)
    <3>1. CASE irq'[c] = irq[c]
      BY <2>1, <3>1, WireIs, WireIsThen
    <3>2. CASE irq'[c] # irq[c]
      <4>1. c = d /\ irq[c] # None /\ irq'[c] = None
        BY <1>1, <3>2
      <4>2. ~isSending
        BY <4>1 DEF WireInv, Answered
      <4>. QED
        BY <2>1, <4>1, <4>2, WireIsThen
    <3>. QED
      BY <3>1, <3>2
  <2>3. Loaded(p)' = Loaded(p) \/ (p = d /\ Loaded(p)' = 0)
    <3>1. CASE p # d
      BY <1>1, <2>1, <3>1 DEF Loaded
    <3>2. CASE p = d
      BY <1>1, <2>1, <3>2, WireIs, WireIsThen
    <3>. QED
      BY <3>1, <3>2
  <2>. QED
    BY <1>2, <2>2, <2>3, PositiveFacts DEF Wired
<1>. QED
  BY <1>3, <1>4

\* What copyState() does to the flows to a console.
LEMMA CopyOf ==
  ASSUME TypeOK, NEW c \in Players, ConsoleInv(c), NEW i \in InternalState,
         i.ready = int[c].ready, NEW j, j = copyState(i, isReadingMessages[c]), int'[c] = j,
         at'[c] = "moved" <=> at[c] = "moved", left' = left,
         Dropped(i, j) => c \in lossy',
         NEW p \in Players
  PROVE  Copied(Lost(p, c)', Collecting(p, c), i.new[p], Collecting(p, c)', int'[c].new[p])
<1>1. isReadingMessages[c] \in BOOLEAN
  BY DriverKept
<1>2. i.new \in Queues /\ i.ready \in Queues /\ j \in InternalState
  BY <1>1, CopyStateFacts DEF InternalState
<1>3. CASE isReadingMessages[c]
  <2>1. j = i /\ at[c] = "moved" /\ at'[c] = "moved"
    BY <1>1, <1>3, CopyStateFacts DEF ConsoleInv
  <2>. QED
    BY <2>1 DEF Collecting, Copied
<1>4. CASE ~isReadingMessages[c]
  <2>1. at[c] # "moved" /\ at'[c] # "moved"
    BY <1>4 DEF ConsoleInv
  <2>2. Collecting(p, c) = i.ready[p] /\ Collecting(p, c)' = j.ready[p]
    BY <2>1 DEF Collecting
  <2>3. \A q \in Players : IF isOnline(i, q)
                           THEN /\ j.ready[q] = MovedTo(i.new[q], i.ready[q])
                                /\ j.new[q] = MovedFrom(i.new[q], i.ready[q])
                           ELSE j.ready[q] = <<>> /\ j.new[q] = i.new[q]
    BY <1>1, <1>4, CopyStateFacts
  <2>4. CASE isOnline(i, p)
    BY <2>2, <2>3, <2>4 DEF Copied
  <2>5. CASE ~isOnline(i, p)
    <3>1. j.ready[p] = <<>> /\ j.new[p] = i.new[p]
      BY <2>3, <2>5
    <3>2. ASSUME Lost(p, c)' = {} PROVE i.ready[p] = <<>>
      <4>1. ~Dropped(i, j)
        BY <3>2 DEF Lost
      <4>2. ~(Len(j.new[p]) + Len(j.ready[p]) < Len(i.new[p]) + Len(i.ready[p]))
        BY <4>1 DEF Dropped
      <4>3. Len(i.ready[p]) \in Nat /\ Len(i.new[p]) \in Nat /\ i.ready[p] \in Seq(Nat)
        BY <1>2 DEF Queues, Queue
      <4>4. Len(j.new[p]) = Len(i.new[p]) /\ Len(j.ready[p]) = 0
        BY <3>1
      <4>5. ~(Len(i.new[p]) + 0 < Len(i.new[p]) + Len(i.ready[p]))
        BY <4>2, <4>4
      <4>6. Len(i.ready[p]) = 0
        <5>1. ASSUME NEW m \in Nat, NEW n \in Nat, ~(m + 0 < m + n) PROVE n = 0
          BY <5>1
        <5>. QED
          BY <4>3, <4>5, <5>1
      <4>. QED
        BY <4>3, <4>6, EmptySeq
    <3>. QED
      BY <2>2, <3>1, <3>2 DEF Copied
  <2>. QED
    BY <2>4, <2>5
<1>. QED
  BY <1>3, <1>4

\* What the driver of one console keeps is not part of the flows between others.
LEMMA OtherFlow ==
  ASSUME TypeOK, NEW p \in Players, NEW c \in Players, Flow(p, c), lossy \subseteq lossy',
         got'[c][p] = got[c][p], sent'[p] = sent[p], left'[c] = left[c],
         at'[c] = "moved" <=> at[c] = "moved",
         ext'[c].synced = ext[c].synced, int'[c].ready = int[c].ready, int'[c].new = int[c].new,
         int'[p].outgoing = int[p].outgoing,
         Wired(Lost(p, c)', Carried(p, c), Loaded(p), Carried(p, c)', Loaded(p)')
  PROVE  Flow(p, c)'
  BY DrainedStep DEF Collecting

\* A step that stores what was received last, after what else it does.
LEMMA CopiedStep ==
  ASSUME NEW p \in Players, NEW c \in Players, NEW N, NEW B,
         Copied(Lost(p, c)', B, N, Collecting(p, c)', int'[c].new[p]),
         FlowOf(Lost(p, c)', got'[c][p], ext'[c].synced[p], B, N, Carried(p, c)', Loaded(p)',
                int'[p].outgoing, sent'[p]),
         Typed(got'[c][p], ext'[c].synced[p], B, N, Carried(p, c)', Loaded(p)',
               int'[p].outgoing, sent'[p])
  PROVE  Flow(p, c)'
<1>. DEFINE g == got'[c][p]
            A == ext'[c].synced[p]
            x == Carried(p, c)'
            y == Loaded(p)'
            O == int'[p].outgoing
            n == sent'[p]
            lost == Lost(p, c)'
            B2 == Collecting(p, c)'
            N2 == int'[c].new[p]
<1>1. /\ Copied(lost, B, N, B2, N2) /\ FlowOf(lost, g, A, B, N, x, y, O, n)
      /\ Typed(g, A, B, N, x, y, O, n)
  OBVIOUS
<1>2. FlowOf(lost, g, A, B2, N2, x, y, O, n)
  <2>. HIDE DEF g, A, x, y, O, n, lost, B2, N2
  <2>. QED
    BY <1>1, CopiedFlow
<1>. QED
  BY <1>2 DEF Flow

-----------------------------------------------------------------------------
(* Every step keeps the flows.                                             *)

\* The program is not in the middle of sync() when it is woken.
LEMMA WakeFacts ==
  ASSUME TypeOK, NEW d \in Players, Wake(d), NEW c \in Players
  PROVE  (at'[c] = "moved" <=> at[c] = "moved") /\ (at'[c] = "push" <=> at[c] = "push")
<1>1. at'[c] = at[c] \/ (at[c] = "asleep" /\ at'[c] = "sync")
  BY DEF Wake, TypeOK, ProgramTypes
<1>. QED
  BY <1>1

LEMMA ResetFlow ==
  ASSUME TypeOK, CableInv, FlowInv, NEW d \in Players, reset(d),
         irq' = irq \/ (irq[d] # None /\ irq' = [irq EXCEPT ![d] = None]),
         UNCHANGED <<left, sent, got>>,
         \A c \in Players : at'[c] = "moved" <=> at[c] = "moved",
         NEW p \in Players, NEW c \in Players, p # c
  PROVE  Flow(p, c)'
<1>1. /\ SIOMLT_SEND' = [SIOMLT_SEND EXCEPT ![d] = NO_DATA]
      /\ wire' = IF d = 0 THEN <<>> ELSE wire
      /\ lossy' = lossy \cup {d}
      /\ int' = [int EXCEPT ![d] = resetState(int[d], isReadingMessages[d])]
      /\ ext' = [ext EXCEPT ![d] = ResetPlayers(ext[d])]
  BY DEF reset
<1>2. Wired(Lost(p, c)', Carried(p, c), Loaded(p), Carried(p, c)', Loaded(p)')
  BY <1>1, ResetWires DEF CableInv
<1>3. \A q \in Players : ext'[q].synced = ext[q].synced
  BY <1>1, DriverKept, ResetPlayersFacts DEF TypeOK, DriverTypes
<1>4. /\ int'[d].outgoing \in {int[d].outgoing, <<>>} /\ int'[d].new = NoMessages
      /\ int'[d].ready = IF isReadingMessages[d] THEN int[d].ready ELSE NoMessages
      /\ \A q \in Players : q # d => int'[q] = int[q]
  <2>1. /\ int'[d] = resetState(int[d], isReadingMessages[d])
        /\ \A q \in Players : q # d => int'[q] = int[q]
    BY <1>1 DEF TypeOK, DriverTypes
  <2>2. int[d] \in InternalState /\ isReadingMessages[d] \in BOOLEAN
    BY DriverKept
  <2>3. int'[d].outgoing \in {int[d].outgoing, <<>>} /\ int'[d].new = NoMessages
    BY <2>1, <2>2, ResetStateFacts
  <2>4. int'[d].ready = IF isReadingMessages[d] THEN int[d].ready ELSE NoMessages
    BY <2>1, <2>2, ResetStateFacts
  <2>. QED
    BY <2>1, <2>3, <2>4
<1>5. Flow(p, c) /\ (p = d \/ c = d => Lost(p, c)' # {})
  BY <1>1 DEF FlowInv, Lost
<1>6. int'[c].new[p] \in {int[c].new[p], <<>>} /\ int'[p].outgoing \in {int[p].outgoing, <<>>}
  BY <1>4, EmptyQueue
<1>7. Collecting(p, c)' \in {Collecting(p, c), <<>>}
  BY <1>4, EmptyQueue DEF Collecting
<1>8. Lost(p, c)' = {} => /\ Collecting(p, c)' = Collecting(p, c)
                         /\ int'[c].new[p] = int[c].new[p]
                         /\ int'[p].outgoing = int[p].outgoing
  BY <1>4, <1>5 DEF Collecting
<1>. QED
  BY <1>1, <1>2, <1>3, <1>5, <1>6, <1>7, <1>8, DrainedStep

\* A handler that copies what was received, and does nothing else to the queues.
LEMMA CopyFlow ==
  ASSUME TypeOK, CableInv, FlowInv, NEW d \in Players, NEW i \in InternalState,
         i.outgoing = int[d].outgoing, i.ready = int[d].ready, i.new = int[d].new,
         int' = [int EXCEPT ![d] = copyState(i, isReadingMessages[d])],
         Dropped(i, int'[d]) => d \in lossy', lossy \subseteq lossy',
         UNCHANGED <<SIOMLT_SEND, wire, irq, ext, left, sent, got>>,
         \A c \in Players : at'[c] = "moved" <=> at[c] = "moved",
         NEW p \in Players, NEW c \in Players, p # c
  PROVE  Flow(p, c)'
<1>1. /\ int'[d] = copyState(i, isReadingMessages[d])
      /\ \A q \in Players : q # d => int'[q] = int[q]
  BY DEF TypeOK, DriverTypes
<1>2. int'[d].outgoing = int[d].outgoing
  <2>1. isReadingMessages[d] \in BOOLEAN
    BY DriverKept
  <2>2. int'[d].outgoing = i.outgoing
    BY <1>1, <2>1, CopyStateFacts
  <2>. QED
    BY <2>2
<1>3. Wired(Lost(p, c)', Carried(p, c), Loaded(p), Carried(p, c)', Loaded(p)')
  BY SameWires
<1>4. Flow(p, c) /\ Lost(p, c) \subseteq Lost(p, c)'
  BY DEF FlowInv, Lost
<1>5. CASE c # d
  <2>1. int'[c] = int[c] /\ int'[p].outgoing = int[p].outgoing
    BY <1>1, <1>2, <1>5
  <2>. QED
    BY <1>3, <1>4, <2>1, OtherFlow
<1>6. CASE c = d
  <2>1. Copied(Lost(p, c)', Collecting(p, c), i.new[p], Collecting(p, c)', int'[c].new[p])
    BY <1>1, <1>6, CopyOf DEF CableInv
  <2>2. int'[p] = int[p] /\ Carried(p, c)' = Carried(p, c) /\ Loaded(p)' = Loaded(p)
    BY <1>1, <1>6 DEF Carried, Loaded, isSending
  <2>3. FlowOf(Lost(p, c)', got[c][p], ext[c].synced[p], Collecting(p, c), i.new[p],
               Carried(p, c), Loaded(p), int[p].outgoing, sent[p])
    BY <1>4, <1>6 DEF Flow, FlowOf
  <2>4. Typed(got[c][p], ext[c].synced[p], Collecting(p, c), i.new[p],
              Carried(p, c), Loaded(p), int[p].outgoing, sent[p])
    BY <1>6, FlowTyped
  <2>. QED
    BY <2>1, <2>2, <2>3, <2>4, CopiedStep
<1>. QED
  BY <1>5, <1>6

LEMMA VBlankFlow ==
  ASSUME TypeOK, CableInv, FlowInv, NEW d \in Players, _onVBlank(d),
         NEW p \in Players, NEW c \in Players, p # c
  PROVE  Flow(p, c)'
<1>. DEFINE i == Frame(TimeoutsReset(int[d]))
<1>1. UNCHANGED <<irq, at, left, sent, got>>
  BY DEF _onVBlank, program
<1>2. CASE i.IRQTimeout >= timeout
  BY <1>1, <1>2, ResetFlow DEF _onVBlank
<1>3. CASE ~(i.IRQTimeout >= timeout)
  <2>1. /\ int' = [int EXCEPT ![d] = copyState(i, isReadingMessages[d])]
        /\ Dropped(i, int'[d]) => d \in lossy' /\ lossy \subseteq lossy'
        /\ lossy \subseteq lossy'
        /\ UNCHANGED <<SIOMLT_SEND, wire, ext>>
    BY <1>3 DEF _onVBlank
  <2>2. /\ i \in InternalState /\ i.outgoing = int[d].outgoing
        /\ i.ready = int[d].ready /\ i.new = int[d].new
    BY DriverKept, TimeoutsResetFacts, FrameFacts
  <2>. HIDE DEF i
  <2>. QED
    BY <1>1, <2>1, <2>2, CopyFlow
<1>. QED
  BY <1>2, <1>3

\* The word a console has stored of each player, and the one it has ready.
LEMMA SerialFacts ==
  ASSUME TypeOK, NEW d \in Players, irq[d] # None
  PROVE  /\ irq[d].data \in Heard
         /\ Interrupted(int[d]) \in InternalState /\ Interrupted(int[d]).new = int[d].new
         /\ SerialReceived(d) \in InternalState /\ SerialAnswered(d) \in InternalState
         /\ SerialReceived(d).outgoing = int[d].outgoing
         /\ SerialAnswered(d).ready = int[d].ready
         /\ SerialAnswered(d).new = SerialReceived(d).new
<1>1. irq[d].data \in Heard
  BY DEF TypeOK, WireTypes
<1>. DEFINE k == Interrupted(int[d])
            r == SerialReceived(d)
            s == SerialAnswered(d)
<1>2. /\ k \in InternalState /\ k.new = int[d].new /\ k.ready = int[d].ready
      /\ k.outgoing = int[d].outgoing
  BY DriverKept DEF Interrupted, InternalState
<1>3. r = ReceivedAll(k, d, irq[d].data)
  BY DEF SerialReceived
<1>. HIDE DEF k
<1>4. r \in InternalState /\ r.outgoing = k.outgoing /\ r.ready = k.ready
  BY <1>1, <1>2, <1>3, ReceivedAllFacts
<1>5. s = r \/ s = NotPending(r)
  BY DEF SerialAnswered
<1>. HIDE DEF r, s
<1>6. s \in InternalState /\ s.ready = r.ready /\ s.new = r.new
  BY <1>4, <1>5, NotPendingFacts
<1>7. /\ k \in InternalState /\ k.new = int[d].new
      /\ r \in InternalState /\ s \in InternalState
      /\ r.outgoing = int[d].outgoing /\ s.ready = int[d].ready /\ s.new = r.new
  BY <1>2, <1>4, <1>6
<1>. QED
  BY <1>1, <1>7 DEF k, r, s

LEMMA SerialStored ==
  ASSUME TypeOK, NEW d \in Players, irq[d] # None, NEW p \in Players, p # d,
         Loses(int[d], SerialReceived(d), d, irq[d].data) => d \in lossy'
  PROVE  Stored(Lost(p, d)', irq[d].data[p], int[d].new[p], SerialReceived(d).new[p])
<1>. DEFINE k == Interrupted(int[d])
            r == SerialReceived(d)
            data == irq[d].data
<1>1. /\ data \in Heard /\ k \in InternalState /\ k.new = int[d].new
      /\ r = ReceivedAll(k, d, data)
  BY SerialFacts DEF SerialReceived
<1>2. ASSUME Lost(p, d)' = {}
      PROVE  /\ data[p] > 0 => ~isFull(int[d].new[p])
             /\ int[d].new[p] # <<>> => r.new[p] # <<>>
  <2>1. ~Loses(int[d], r, d, data)
    BY <1>2 DEF Lost
  <2>. QED
    BY <2>1 DEF Loses
<1>. HIDE DEF k, r, data
<1>3. data[p] # DISCONNECTED => r.new[p] = IF data[p] > 0 /\ p # d THEN push(k.new[p], data[p])
                                           ELSE k.new[p]
  <2>1. r = ReceivedAll(k, d, data) /\ k \in InternalState /\ data \in Heard
    BY <1>1
  <2>2. \A q \in Players : data[q] # DISCONNECTED
          => r.new[q] = IF data[q] > 0 /\ q # d THEN push(k.new[q], data[q]) ELSE k.new[q]
    BY <2>1, ReceivedAllFacts
  <2>. QED
    BY <2>2
<1>4. GoesOffline(k, p, data) => r.new[p] = <<>> /\ data[p] = DISCONNECTED
  BY <1>1, ReceivedAllFacts DEF GoesOffline
<1>5. data[p] = DISCONNECTED /\ ~GoesOffline(k, p, data) => r.new[p] = k.new[p]
  BY <1>1, ReceivedAllFacts
<1>6. data[p] \in Nat \cup {DISCONNECTED}
  BY <1>1 DEF Heard
<1>7. Stored(Lost(p, d)', data[p], int[d].new[p], r.new[p])
  <2>1. CASE data[p] > 0
    BY <1>1, <1>2, <1>3, <1>6, <2>1 DEF Stored
  <2>2. CASE data[p] = 0
    BY <1>1, <1>3, <2>2 DEF Stored
  <2>3. CASE GoesOffline(k, p, data)
    BY <1>1, <1>2, <1>4, <2>3 DEF Stored
  <2>4. CASE data[p] = DISCONNECTED /\ ~GoesOffline(k, p, data)
    BY <1>1, <1>5, <2>4 DEF Stored
  <2>. QED
    BY <1>6, <2>1, <2>2, <2>3, <2>4
<1>. QED
  BY <1>7 DEF r, data

\* A step that loads the next word to send, when the last one is gone.
LEMMA LoadedStep ==
  ASSUME TypeOK, NEW p \in Players, NEW c \in Players, Flow(p, c), lossy \subseteq lossy',
         got'[c][p] = got[c][p], sent'[p] = sent[p],
         ext'[c].synced[p] = ext[c].synced[p], Collecting(p, c)' = Collecting(p, c),
         int'[c].new[p] = int[c].new[p], Carried(p, c)' = Carried(p, c), Loaded(p) = 0,
         Fetched(int[p].outgoing, Loaded(p)', int'[p].outgoing)
  PROVE  Flow(p, c)'
<1>. DEFINE g == got[c][p]
            A == ext[c].synced[p]
            B == Collecting(p, c)
            N == int[c].new[p]
            x == Carried(p, c)
            y == Loaded(p)
            O == int[p].outgoing
            n == sent[p]
            lost == Lost(p, c)
            lost2 == Lost(p, c)'
            y2 == Loaded(p)'
            O2 == int'[p].outgoing
<1>1. /\ Typed(g, A, B, N, x, y, O, n) /\ FlowOf(lost, g, A, B, N, x, y, O, n)
      /\ lost \subseteq lost2 /\ Fetched(O, y2, O2)
  BY FlowTyped DEF Flow, Lost
<1>2. Positive(y) = {}
  BY PositiveFacts
<1>3. FlowOf(lost2, g, A, B, N, x, y2, O2, n)
  <2>. HIDE DEF g, A, B, N, x, y, O, n, lost, lost2, y2, O2
  <2>. QED
    BY <1>1, <1>2, LoadedFlow
<1>. QED
  BY <1>3 DEF Flow

\* A step that stores what a transfer brought, and copies it.
LEMMA StoredStep ==
  ASSUME TypeOK, NEW p \in Players, NEW c \in Players, Flow(p, c), lossy \subseteq lossy',
         got'[c][p] = got[c][p], sent'[p] = sent[p],
         ext'[c].synced[p] = ext[c].synced[p], int'[p].outgoing = int[p].outgoing,
         Carried(p, c)' = 0, Loaded(p)' = Loaded(p), NEW N \in Queue,
         Stored(Lost(p, c)', Carried(p, c), int[c].new[p], N),
         Copied(Lost(p, c)', Collecting(p, c), N, Collecting(p, c)', int'[c].new[p])
  PROVE  Flow(p, c)'
<1>. DEFINE g == got[c][p]
            A == ext[c].synced[p]
            B == Collecting(p, c)
            M == int[c].new[p]
            x == Carried(p, c)
            y == Loaded(p)
            O == int[p].outgoing
            n == sent[p]
            lost == Lost(p, c)
            lost2 == Lost(p, c)'
<1>1. /\ Typed(g, A, B, M, x, y, O, n) /\ FlowOf(lost, g, A, B, M, x, y, O, n)
      /\ lost \subseteq lost2 /\ Stored(lost2, x, M, N)
  BY FlowTyped DEF Flow, Lost
<1>2. FlowOf(lost2, g, A, B, N, 0, y, O, n) /\ Typed(g, A, B, N, 0, y, O, n)
  <2>. HIDE DEF g, A, B, M, x, y, O, n, lost, lost2
  <2>1. FlowOf(lost2, g, A, B, N, 0, y, O, n)
    BY <1>1, ReceivedFlow
  <2>. QED
    BY <1>1, <2>1 DEF Typed
<1>. QED
  BY <1>2, CopiedStep

LEMMA SerialFlow ==
  ASSUME TypeOK, CableInv, FlowInv, NEW d \in Players, _onSerial(d),
         NEW p \in Players, NEW c \in Players, p # c
  PROVE  Flow(p, c)'
<1>1. /\ irq[d] # None /\ irq' = [irq EXCEPT ![d] = None] /\ Wake(d)
      /\ UNCHANGED <<isReadingMessages, left, sent, got>>
  BY DEF _onSerial
<1>2. /\ ~isSending /\ irq'[d] = None /\ \A q \in Players : q # d => irq'[q] = irq[q]
      /\ \A q \in Players : at'[q] = "moved" <=> at[q] = "moved"
      /\ Flow(p, c)
  BY <1>1, WakeFacts DEF CableInv, WireInv, Answered, TypeOK, WireTypes, FlowInv
<1>3. CASE ~isEnabled[d]
  <2>1. UNCHANGED <<SIOMLT_SEND, wire, ext, int, lossy>>
    BY <1>3 DEF _onSerial
  <2>2. SIOMLT_SEND[d] = 0 /\ d \in lossy
    BY <1>3 DEF CableInv, ConsoleInv
  <2>3. ~isSending'
    BY <1>2, <2>1 DEF isSending
  <2>4. Loaded(p)' = Loaded(p)
    <3>1. CASE p = d
      BY <1>1, <1>2, <2>1, <2>2, <2>3, <3>1 DEF Loaded
    <3>2. CASE p # d
      BY <1>2, <2>1, <2>3, <3>2 DEF Loaded
    <3>. QED
      BY <3>1, <3>2
  <2>5. Carried(p, c)' = Carried(p, c) \/ (c = d /\ Carried(p, c)' = 0)
    <3>1. CASE c = d
      BY <1>2, <2>3, <3>1 DEF Carried
    <3>2. CASE c # d
      BY <1>2, <2>3, <3>2 DEF Carried
    <3>. QED
      BY <3>1, <3>2
  <2>6. c = d => Lost(p, c)' # {}
    BY <2>1, <2>2 DEF Lost
  <2>7. Wired(Lost(p, c)', Carried(p, c), Loaded(p), Carried(p, c)', Loaded(p)')
    BY <2>4, <2>5, <2>6, PositiveFacts DEF Wired
  <2>. QED
    BY <1>1, <1>2, <2>1, <2>7, OtherFlow
<1>4. CASE isEnabled[d] /\ (~allReady \/ irq[d].error)
  <2>1. reset(d)
    BY <1>4 DEF _onSerial
  <2>. QED
    BY <1>1, <1>2, <2>1, ResetFlow
<1>5. CASE isEnabled[d] /\ ~(~allReady \/ irq[d].error)
  <2>. DEFINE r == SerialReceived(d)
              s == SerialAnswered(d)
  <2>1. /\ ext' = [ext EXCEPT ![d].currentPlayerId = d,
                              ![d].playerCount = Cardinality({q \in Players : isOnline(r, q)})]
        /\ SIOMLT_SEND' = [SIOMLT_SEND EXCEPT ![d] = Answer(r, d, @)]
        /\ int' = [int EXCEPT ![d] = copyState(s, isReadingMessages[d])]
        /\ lossy' = IF Dropped(s, int'[d]) \/ Loses(int[d], r, d, irq[d].data)
                    THEN lossy \cup {d} ELSE lossy
        /\ wire' = wire
    BY <1>5 DEF _onSerial, Interrupted, SerialReceived, SerialAnswered
  <2>2. \A q \in Players : ext'[q].synced = ext[q].synced
    <3>1. \A q \in Players : ext[q] \in ExternalState
      BY DEF TypeOK, DriverTypes
    <3>. QED
      BY <2>1, <3>1 DEF TypeOK, DriverTypes, ExternalState
  <2>3. /\ SIOMLT_SEND'[d] = Answer(r, d, SIOMLT_SEND[d])
        /\ \A q \in Players : q # d => SIOMLT_SEND'[q] = SIOMLT_SEND[q]
        /\ int'[d] = copyState(s, isReadingMessages[d])
        /\ \A q \in Players : q # d => int'[q] = int[q]
    BY <2>1 DEF TypeOK, DriverTypes, WireTypes
  <2>4. /\ r \in InternalState /\ s \in InternalState /\ r.outgoing = int[d].outgoing
        /\ s.ready = int[d].ready /\ s.new = r.new
        /\ (d = 0 /\ s = r) \/ (d # 0 /\ s = NotPending(r))
    BY <1>1, SerialFacts DEF SerialAnswered
  <2>5. /\ Dropped(s, int'[d]) => d \in lossy'
        /\ Loses(int[d], r, d, irq[d].data) => d \in lossy'
        /\ lossy \subseteq lossy'
    BY <2>1
  <2>6. ~isSending'
    BY <1>2, <2>1 DEF isSending
  <2>7. CASE c = d
    <3>1. Stored(Lost(p, d)', irq[d].data[p], int[d].new[p], r.new[p])
      BY <1>1, <2>5, <2>7, SerialStored
    <3>. HIDE DEF r, s
    <3>2. Copied(Lost(p, d)', Collecting(p, d), s.new[p], Collecting(p, d)', int'[d].new[p])
      BY <1>1, <1>2, <2>3, <2>4, <2>5, CopyOf DEF CableInv
    <3>3. Carried(p, c) = irq[d].data[p] /\ Carried(p, c)' = 0
      BY <1>1, <1>2, <2>6, <2>7 DEF Carried
    <3>4. Loaded(p)' = Loaded(p)
      BY <1>2, <2>3, <2>6, <2>7 DEF Loaded
    <3>5. r.new[p] \in Queue
      BY <2>4 DEF InternalState, Queues
    <3>6. int'[p].outgoing = int[p].outgoing
      BY <2>3, <2>7
    <3>7. /\ Stored(Lost(p, c)', Carried(p, c), int[c].new[p], r.new[p])
          /\ Copied(Lost(p, c)', Collecting(p, c), r.new[p], Collecting(p, c)', int'[c].new[p])
      BY <2>4, <2>7, <3>1, <3>2, <3>3
    <3>8. got'[c][p] = got[c][p] /\ sent'[p] = sent[p] /\ ext'[c].synced[p] = ext[c].synced[p]
      BY <1>1, <2>2
    <3>. QED
      BY <1>2, <2>5, <3>3, <3>4, <3>5, <3>6, <3>7, <3>8, StoredStep
  <2>8. CASE p = d
    <3>1. Loaded(p) = 0 /\ Loaded(p)' = SIOMLT_SEND'[d]
      BY <1>1, <1>2, <2>6, <2>8 DEF Loaded
    <3>. HIDE DEF r, s
    <3>2. Fetched(int[d].outgoing, SIOMLT_SEND'[d], s.outgoing)
      <4>1. CASE d = 0
        BY <2>3, <2>4, <4>1 DEF Answer, Fetched
      <4>2. CASE d # 0
        <5>1. SIOMLT_SEND'[d] = Pending(r) /\ s = NotPending(r)
          BY <2>3, <2>4, <4>2 DEF Answer
        <5>2. IF r.isWriting \/ r.outgoing = <<>>
              THEN Pending(r) = 0 /\ s.outgoing = r.outgoing
              ELSE Pending(r) = Head(r.outgoing) /\ s.outgoing = Tail(r.outgoing)
          BY <2>4, <5>1, NotPendingFacts
        <5>. QED
          BY <2>4, <5>1, <5>2 DEF Fetched
      <4>. QED
        BY <4>1, <4>2
    <3>3. int'[d].outgoing = s.outgoing
      <4>1. isReadingMessages[d] \in BOOLEAN
        BY DriverKept
      <4>. QED
        BY <2>3, <2>4, <4>1, CopyStateFacts
    <3>4. Carried(p, c)' = Carried(p, c) /\ Collecting(p, c)' = Collecting(p, c)
      BY <1>1, <1>2, <2>1, <2>3, <2>6, <2>8 DEF Carried, Collecting
    <3>5. /\ got'[c][p] = got[c][p] /\ sent'[p] = sent[p] /\ ext'[c].synced[p] = ext[c].synced[p]
          /\ int'[c].new[p] = int[c].new[p]
      BY <1>1, <2>2, <2>3, <2>8
    <3>. QED
      BY <1>2, <2>5, <2>8, <3>1, <3>2, <3>3, <3>4, <3>5, LoadedStep
  <2>9. CASE c # d /\ p # d
    <3>1. Carried(p, c)' = Carried(p, c) /\ Loaded(p)' = Loaded(p)
      BY <1>2, <2>1, <2>3, <2>6, <2>9 DEF Carried, Loaded
    <3>2. int'[c] = int[c] /\ int'[p] = int[p]
      BY <2>3, <2>9
    <3>. QED
      BY <1>1, <1>2, <2>2, <2>5, <3>1, <3>2, OtherFlow DEF Wired
  <2>. QED
    BY <2>7, <2>8, <2>9
<1>. QED
  BY <1>3, <1>4, <1>5

\* A step that starts a transfer, and copies what was received.
LEMMA StartedStep ==
  ASSUME TypeOK, NEW p \in Players, NEW c \in Players, Flow(p, c), lossy \subseteq lossy',
         got'[c][p] = got[c][p], sent'[p] = sent[p], ext'[c].synced[p] = ext[c].synced[p],
         Copied(Lost(p, c)', Collecting(p, c), int[c].new[p], Collecting(p, c)', int'[c].new[p]),
         Carried(p, c) = 0, Loaded(p)' = 0, Carried(p, c)' \in Nat,
         \/ int'[p].outgoing = int[p].outgoing /\ Carried(p, c)' = Loaded(p)
         \/ Loaded(p) = 0 /\ Fetched(int[p].outgoing, Carried(p, c)', int'[p].outgoing),
         int'[p].outgoing \in Queue
  PROVE  Flow(p, c)'
<1>. DEFINE g == got[c][p]
            A == ext[c].synced[p]
            B == Collecting(p, c)
            N == int[c].new[p]
            x == Carried(p, c)
            y == Loaded(p)
            O == int[p].outgoing
            n == sent[p]
            lost == Lost(p, c)
            lost2 == Lost(p, c)'
            x2 == Carried(p, c)'
            O2 == int'[p].outgoing
<1>1. /\ Typed(g, A, B, N, x, y, O, n) /\ FlowOf(lost, g, A, B, N, x, y, O, n)
      /\ lost \subseteq lost2 /\ x2 \in Nat /\ O2 \in Queue
      /\ (O2 = O /\ x2 = y) \/ (y = 0 /\ Fetched(O, x2, O2))
  BY FlowTyped DEF Flow, Lost
<1>2. Positive(x) = {} /\ Positive(0) = {}
  BY PositiveFacts
<1>3. FlowOf(lost2, g, A, B, N, x2, 0, O2, n) /\ Typed(g, A, B, N, x2, 0, O2, n)
  <2>. HIDE DEF g, A, B, N, x, y, O, n, lost, lost2, x2, O2
  <2>1. Typed(g, A, B, N, x2, 0, O2, n) /\ Typed(g, A, B, N, x, x2, O2, n)
    BY <1>1 DEF Typed
  <2>2. FlowOf(lost2, g, A, B, N, x, x2, O2, n)
    <3>1. CASE O2 = O /\ x2 = y
      BY <1>1, <3>1 DEF FlowOf
    <3>2. CASE y = 0 /\ Fetched(O, x2, O2)
      BY <1>1, <1>2, <3>2, LoadedFlow
    <3>. QED
      BY <1>1, <3>1, <3>2
  <2>3. Wired(lost2, x, x2, x2, 0)
    BY <1>2 DEF Wired
  <2>4. FlowOf(lost2, g, A, B, N, x2, 0, O2, n)
    BY <2>1, <2>2, <2>3, WireFlow
  <2>. QED
    BY <2>1, <2>4
<1>. QED
  BY <1>3, CopiedStep

LEMMA NoWords == ASSUME NEW w \in [Players -> Nat] PROVE w # <<>>
<1>1. DOMAIN w = Players /\ 0 \in Players
  OBVIOUS
<1>2. DOMAIN <<>> = {}
  OBVIOUS
<1>. QED
  BY <1>1, <1>2

LEMMA TimerFlow ==
  ASSUME TypeOK, CableInv, FlowInv, NEW d \in Players, _onTimer(d),
         NEW p \in Players, NEW c \in Players, p # c
  PROVE  Flow(p, c)'
<1>. DEFINE starts == d = 0 /\ allReady /\ ~isSending
            i == IF starts THEN NotPending(int[d]) ELSE int[d]
<1>1. /\ Wake(d) /\ (d = 0 => Answered)
      /\ UNCHANGED <<irq, ext, left, sent, got>>
      /\ int' = [int EXCEPT ![d] = copyState(i, isReadingMessages[d])]
      /\ lossy' = IF Dropped(i, int'[d]) THEN lossy \cup {d} ELSE lossy
      /\ IF starts /\ ~int[d].isWriting
         THEN /\ SIOMLT_SEND' = [SIOMLT_SEND EXCEPT ![d] = Pending(int[d])]
              /\ wire' = SIOMLT_SEND'
         ELSE UNCHANGED <<SIOMLT_SEND, wire>>
  BY DEF _onTimer
<1>2. /\ int[d] \in InternalState /\ i \in InternalState /\ isReadingMessages[d] \in BOOLEAN
      /\ i.ready = int[d].ready /\ i.new = int[d].new
  BY DriverKept, NotPendingFacts
<1>3. /\ \A q \in Players : at'[q] = "moved" <=> at[q] = "moved"
      /\ Dropped(i, int'[d]) => d \in lossy'
      /\ lossy \subseteq lossy' /\ Flow(p, c)
  BY <1>1, WakeFacts DEF FlowInv
<1>4. CASE ~(starts /\ ~int[d].isWriting)
  <2>1. i = int[d]
    BY <1>4 DEF NotPending
  <2>. HIDE DEF i
  <2>2. UNCHANGED <<SIOMLT_SEND, wire>>
    BY <1>1, <1>4
  <2>. QED
    BY <1>1, <1>2, <1>3, <2>1, <2>2, CopyFlow
<1>5. CASE starts /\ ~int[d].isWriting
  <2>1. /\ d = 0 /\ ~isSending /\ \A q \in Players : irq[q] = None /\ irq'[q] = None
        /\ i = NotPending(int[d])
        /\ SIOMLT_SEND' = [SIOMLT_SEND EXCEPT ![d] = Pending(int[d])]
        /\ wire' = SIOMLT_SEND' /\ SIOMLT_SEND[0] = 0
    BY <1>1, <1>5 DEF Answered, CableInv, WireInv
  <2>. HIDE DEF i
  <2>2. /\ Pending(int[d]) \in Nat
        /\ Fetched(int[d].outgoing, Pending(int[d]), i.outgoing)
    <3>1. /\ Pending(int[d]) \in Nat
          /\ IF int[d].isWriting \/ int[d].outgoing = <<>>
             THEN Pending(int[d]) = 0 /\ i.outgoing = int[d].outgoing
             ELSE Pending(int[d]) = Head(int[d].outgoing) /\ i.outgoing = Tail(int[d].outgoing)
      BY <1>2, <2>1, NotPendingFacts
    <3>. QED
      BY <3>1 DEF Fetched
  <2>3. /\ wire' \in [Players -> Nat] /\ wire'[d] = Pending(int[d])
        /\ \A q \in Players : q # d => wire'[q] = SIOMLT_SEND[q]
    BY <2>1, <2>2 DEF TypeOK, WireTypes
  <2>4. isSending'
    BY <2>3, NoWords DEF isSending
  <2>5. /\ Carried(p, c) = 0 /\ Carried(p, c)' = wire'[p] /\ Carried(p, c)' \in Nat
        /\ Loaded(p) = SIOMLT_SEND[p] /\ Loaded(p)' = 0
    BY <2>1, <2>3, <2>4 DEF Carried, Loaded
  <2>6. /\ int'[d] = copyState(i, isReadingMessages[d])
        /\ \A q \in Players : q # d => int'[q] = int[q]
    BY <1>1 DEF TypeOK, DriverTypes
  <2>7. int'[d].outgoing = i.outgoing /\ i.outgoing \in Queue
    <3>1. int'[d].outgoing = i.outgoing
      BY <1>2, <2>6, CopyStateFacts
    <3>. QED
      BY <1>2, <3>1 DEF InternalState
  <2>8. Copied(Lost(p, c)', Collecting(p, c), int[c].new[p], Collecting(p, c)', int'[c].new[p])
    <3>1. CASE c = d
      <4>1. Copied(Lost(p, d)', Collecting(p, d), i.new[p], Collecting(p, d)', int'[d].new[p])
        BY <1>1, <1>2, <1>3, <2>6, CopyOf DEF CableInv
      <4>. QED
        BY <1>2, <3>1, <4>1
    <3>2. CASE c # d
      BY <1>1, <1>3, <2>6, <3>2 DEF Copied, Collecting
    <3>. QED
      BY <3>1, <3>2
  <2>9. /\ int'[p].outgoing \in Queue
        /\ \/ int'[p].outgoing = int[p].outgoing /\ Carried(p, c)' = Loaded(p)
           \/ Loaded(p) = 0 /\ Fetched(int[p].outgoing, Carried(p, c)', int'[p].outgoing)
    <3>1. CASE p = d
      BY <2>1, <2>2, <2>3, <2>5, <2>7, <3>1
    <3>2. CASE p # d
      <4>1. int[p].outgoing \in Queue
        BY DriverKept DEF InternalState
      <4>. QED
        BY <2>3, <2>5, <2>6, <3>2, <4>1
    <3>. QED
      BY <3>1, <3>2
  <2>10. got'[c][p] = got[c][p] /\ sent'[p] = sent[p] /\ ext'[c].synced[p] = ext[c].synced[p]
    BY <1>1
  <2>. QED
    BY <1>3, <2>5, <2>8, <2>9, <2>10, StartedStep
<1>. QED
  BY <1>4, <1>5

LEMMA EndTransferFlow ==
  ASSUME TypeOK, CableInv, FlowInv, NEW e \in BOOLEAN, EndTransfer(e),
         NEW p \in Players, NEW c \in Players, p # c
  PROVE  Flow(p, c)'
<1>1. /\ isSending /\ wire' = <<>>
      /\ UNCHANGED <<SIOMLT_SEND, ext, int, at, left, sent, got, lossy>>
      /\ \A q \in Players :
           /\ q \in plugged \cap multi => irq'[q] # None /\ irq'[q].data[p] = Word(wire, p)
           /\ q \notin plugged \cap multi => irq'[q] = None
  <2>. DEFINE heard == [r \in Players |-> Word(wire, r)]
  <2>1. \A q \in Players : IF q \in plugged \cap multi THEN irq'[q] = [data |-> heard, error |-> e]
                           ELSE irq'[q] = None
    BY DEF EndTransfer
  <2>2. heard[p] = Word(wire, p) /\ DOMAIN heard = Players /\ 0 \in Players
    OBVIOUS
  <2>. HIDE DEF heard
  <2>3. heard # <<>>
    <3>1. DOMAIN <<>> = {}
      OBVIOUS
    <3>. QED
      BY <2>2, <3>1
  <2>4. \A q \in Players : q \in plugged \cap multi => irq'[q].data = heard
    BY <2>1
  <2>5. None.data = <<>>
    BY DEF None
  <2>6. \A q \in Players : q \in plugged \cap multi =>
          irq'[q] # None /\ irq'[q].data[p] = Word(wire, p)
    BY <2>2, <2>3, <2>4, <2>5
  <2>7. \A q \in Players : q \notin plugged \cap multi => irq'[q] = None
    BY <2>1
  <2>. QED
    BY <2>6, <2>7 DEF EndTransfer, program, history
<1>2. /\ \A q \in Players : irq[q] = None
      /\ wire[p] \in Nat /\ SIOMLT_SEND[p] \in {wire[p], 0}
      /\ p \notin lossy => SIOMLT_SEND[p] = wire[p]
      /\ p \notin lossy => p \in plugged \cap multi
      /\ c \notin lossy => c \in plugged \cap multi
      /\ Flow(p, c)
  BY <1>1 DEF CableInv, WireInv, ConsoleInv, Answered, isSending, TypeOK, WireTypes, FlowInv
<1>3. Carried(p, c) = wire[p] /\ Loaded(p) = 0 /\ ~isSending'
  BY <1>1, <1>2 DEF Carried, Loaded, isSending
<1>4. p \in plugged \cap multi => Word(wire, p) = wire[p] /\ Loaded(p)' = 0
  BY <1>1 DEF Word, Loaded
<1>5. p \notin plugged \cap multi => /\ Word(wire, p) = DISCONNECTED
                                   /\ Loaded(p)' = SIOMLT_SEND[p] /\ Lost(p, c)' # {}
  BY <1>1, <1>2, <1>3 DEF Word, Loaded, Lost
<1>6. c \in plugged \cap multi => Carried(p, c)' = Word(wire, p)
  BY <1>1 DEF Carried
<1>7. c \notin plugged \cap multi => Carried(p, c)' = 0 /\ Lost(p, c)' # {}
  BY <1>1, <1>2, <1>3 DEF Carried, Lost
<1>8. Wired(Lost(p, c)', Carried(p, c), Loaded(p), Carried(p, c)', Loaded(p)')
  <2>1. CASE p \in plugged \cap multi /\ c \in plugged \cap multi
    BY <1>3, <1>4, <1>6, <2>1 DEF Wired
  <2>2. CASE p \in plugged \cap multi /\ c \notin plugged \cap multi
    BY <1>3, <1>4, <1>7, <2>2, PositiveFacts DEF Wired
  <2>3. CASE p \notin plugged \cap multi
    <3>1. Positive(Carried(p, c)') = {}
      BY <1>5, <1>6, <1>7, <2>3, PositiveFacts
    <3>2. Positive(Loaded(p)') \subseteq Positive(Carried(p, c)) \cup Positive(Loaded(p))
      BY <1>2, <1>3, <1>5, <2>3, PositiveFacts
    <3>. QED
      BY <1>5, <2>3, <3>1, <3>2 DEF Wired
  <2>. QED
    BY <2>1, <2>2, <2>3
<1>. QED
  BY <1>1, <1>2, <1>8, OtherFlow

\* A step that leaves the wires and what was received alone.
LEMMA QuietFlow ==
  ASSUME TypeOK, FlowInv, NEW d \in Players, lossy \subseteq lossy',
         UNCHANGED <<SIOMLT_SEND, wire, irq, ext, left, sent, got>>,
         \A q \in Players : q # d => int'[q] = int[q],
         int'[d].ready = int[d].ready, int'[d].new = int[d].new,
         int'[d].outgoing \in {int[d].outgoing, <<>>},
         int'[d].outgoing # int[d].outgoing => d \in lossy',
         \A q \in Players : at'[q] = "moved" <=> at[q] = "moved",
         NEW p \in Players, NEW c \in Players, p # c
  PROVE  Flow(p, c)'
<1>1. Flow(p, c) /\ Wired(Lost(p, c)', Carried(p, c), Loaded(p), Carried(p, c)', Loaded(p)')
  BY SameWires DEF FlowInv
<1>2. Collecting(p, c)' = Collecting(p, c) /\ int'[c].new[p] = int[c].new[p]
  BY DEF Collecting
<1>3. /\ int'[p].outgoing \in {int[p].outgoing, <<>>}
      /\ Lost(p, c)' = {} => int'[p].outgoing = int[p].outgoing
  BY DEF Lost
<1>. QED
  BY <1>1, <1>2, <1>3, DrainedStep

LEMMA SendFlow ==
  ASSUME TypeOK, CableInv, FlowInv, NEW d \in Players,
         send(d) \/ Pushed(d) \/ resetTimeout(d),
         NEW p \in Players, NEW c \in Players, p # c
  PROVE  Flow(p, c)'
<1>1. /\ int[d] \in InternalState /\ int \in [Players -> InternalState]
      /\ UNCHANGED <<SIOMLT_SEND, wire, irq, ext, left, sent, got, lossy>>
  BY DEF TypeOK, DriverTypes, send, Pushed, resetTimeout, wires, history, program
<1>2. \A q \in Players : at'[q] = "moved" <=> at[q] = "moved"
  BY DEF send, Pushed, resetTimeout, program, GoTo, TypeOK, ProgramTypes
<1>3. /\ \A q \in Players : q # d => int'[q] = int[q]
      /\ int'[d].ready = int[d].ready /\ int'[d].new = int[d].new
      /\ \/ int'[d].outgoing = int[d].outgoing
         \/ int'[d].outgoing = <<>> /\ int[d].needsClear
  <2>1. CASE send(d)
    BY <1>1, <2>1 DEF send, InternalState
  <2>2. CASE Pushed(d)
    BY <1>1, <2>2 DEF Pushed, InternalState
  <2>3. CASE resetTimeout(d)
    BY <1>1, <2>3 DEF resetTimeout, InternalState
  <2>. QED
    BY <2>1, <2>2, <2>3
<1>4. int[d].needsClear => d \in lossy'
  BY <1>1 DEF CableInv, ConsoleInv
<1>. QED
  BY <1>1, <1>2, <1>3, <1>4, QuietFlow

LEMMA PushFlow ==
  ASSUME TypeOK, CableInv, FlowInv, NEW d \in Players, Push(d),
         NEW p \in Players, NEW c \in Players, p # c
  PROVE  Flow(p, c)'
<1>. DEFINE q == push(int[d].outgoing, sent[d] + 1)
<1>1. /\ UNCHANGED <<SIOMLT_SEND, wire, irq, ext, left, got, lossy>>
      /\ sent' = [sent EXCEPT ![d] = sent[d] + 1]
      /\ int' = [int EXCEPT ![d].outgoing = q, ![d].isWriting = FALSE]
      /\ at[d] = "push" /\ at' = [at EXCEPT ![d] = "pushed"]
  BY DEF Push, wires, history, GoTo, TypeOK, ProgramTypes, DriverTypes
<1>2. /\ int[d] \in InternalState /\ ~isFull(int[d].outgoing) /\ Flow(p, c)
      /\ Lost(p, c) \subseteq Lost(p, c)'
  BY <1>1, DriverKept DEF CableInv, ConsoleInv, FlowInv, Lost
<1>3. /\ int'[d].outgoing = push(int[d].outgoing, sent[d] + 1)
      /\ int'[d].ready = int[d].ready /\ int'[d].new = int[d].new
      /\ \A r \in Players : r # d => int'[r] = int[r]
  <2>. HIDE DEF q
  <2>1. /\ int'[d].outgoing = q /\ int'[d].ready = int[d].ready /\ int'[d].new = int[d].new
        /\ \A r \in Players : r # d => int'[r] = int[r]
    BY <1>1, <1>2 DEF TypeOK, DriverTypes, InternalState
  <2>. QED
    BY <2>1 DEF q
<1>4. /\ sent'[d] = sent[d] + 1 /\ \A r \in Players : r # d => sent'[r] = sent[r]
      /\ \A r \in Players : at'[r] = "moved" <=> at[r] = "moved"
  BY <1>1 DEF TypeOK, ProgramTypes
<1>5. Wired(Lost(p, c)', Carried(p, c), Loaded(p), Carried(p, c)', Loaded(p)')
  BY <1>1, SameWires
<1>6. Collecting(p, c)' = Collecting(p, c) /\ int'[c].new[p] = int[c].new[p]
  <2>1. left' = left
    BY <1>1
  <2>2. int'[c].ready = int[c].ready /\ int'[c].new = int[c].new
    BY <1>3
  <2>. QED
    BY <1>4, <2>1, <2>2 DEF Collecting
<1>7. CASE p = d
  <2>. DEFINE g == got[c][p]
              A == ext[c].synced[p]
              B == Collecting(p, c)
              N == int[c].new[p]
              x == Carried(p, c)
              y == Loaded(p)
              O == int[p].outgoing
              n == sent[p]
              lost == Lost(p, c)
              lost2 == Lost(p, c)'
  <2>1. /\ Typed(g, A, B, N, x, y, O, n) /\ FlowOf(lost, g, A, B, N, x, y, O, n)
        /\ lost \subseteq lost2 /\ ~isFull(O)
    BY <1>2, <1>7, FlowTyped DEF Flow
  <2>2. FlowOf(lost2, g, A, B, N, x, y, push(O, n + 1), n + 1)
    <3>. HIDE DEF g, A, B, N, x, y, O, n, lost, lost2
    <3>. QED
      BY <2>1, PushedFlow
  <2>3. Carried(p, c)' = Carried(p, c) /\ Loaded(p)' = Loaded(p)
    BY <1>1 DEF Carried, Loaded, isSending
  <2>4. ext' = ext /\ got' = got
    BY <1>1
  <2>. QED
    BY <1>3, <1>4, <1>6, <1>7, <2>2, <2>3, <2>4 DEF Flow
<1>8. CASE p # d
  <2>1. int'[p] = int[p] /\ sent'[p] = sent[p] /\ Flow(p, c)
    BY <1>2, <1>3, <1>4, <1>8
  <2>2. /\ got'[c][p] = got[c][p] /\ ext'[c].synced[p] = ext[c].synced[p]
        /\ lossy \subseteq lossy'
    BY <1>1
  <2>. QED
    BY <1>5, <1>6, <2>1, <2>2, DrainedStep
<1>. QED
  BY <1>7, <1>8

\* sync() takes what was collected, and then leaves the rest to the handlers.
LEMMA SyncFlow ==
  ASSUME TypeOK, CableInv, FlowInv, NEW d \in Players,
         NEW w \in Players \cup {Nobody}, sync(d, w),
         NEW p \in Players, NEW c \in Players, p # c
  PROVE  Flow(p, c)'
<1>1. /\ UNCHANGED <<SIOMLT_SEND, wire, irq, int, sent, got, lossy>>
      /\ at[d] # "moved" /\ at' = [at EXCEPT ![d] = "moved"]
      /\ ext' = [ext EXCEPT ![d].synced = [q \in Players |-> MovedTo(int[d].ready[q],
                                                                 ext[d].synced[q])]]
      /\ left' = [left EXCEPT ![d] = [q \in Players |-> MovedFrom(int[d].ready[q],
                                                                 ext[d].synced[q])]]
  BY DEF sync, wires, history, GoTo, TypeOK, DriverTypes, ExternalState
<1>2. /\ Flow(p, c) /\ Lost(p, c) \subseteq Lost(p, c)'
      /\ Wired(Lost(p, c)', Carried(p, c), Loaded(p), Carried(p, c)', Loaded(p)')
  BY <1>1, SameWires DEF FlowInv, Lost
<1>3. /\ \A q \in Players : q # d => /\ ext'[q] = ext[q] /\ left'[q] = left[q]
                                  /\ at'[q] = at[q]
      /\ at'[d] = "moved"
      /\ left'[d][p] = MovedFrom(int[d].ready[p], ext[d].synced[p])
  BY <1>1 DEF TypeOK, DriverTypes, ProgramTypes
<1>4. ext'[d].synced[p] = MovedTo(int[d].ready[p], ext[d].synced[p])
  <2>1. ext[d] \in ExternalState /\ ext \in [Players -> ExternalState]
    BY DEF TypeOK, DriverTypes
  <2>. QED
    BY <1>1, <2>1 DEF ExternalState
<1>5. CASE c # d
  <2>1. /\ ext'[c].synced[p] = ext[c].synced[p] /\ Collecting(p, c)' = Collecting(p, c)
        /\ int'[c].new[p] = int[c].new[p] /\ int'[p].outgoing = int[p].outgoing
        /\ got'[c][p] = got[c][p] /\ sent'[p] = sent[p] /\ lossy \subseteq lossy'
    BY <1>1, <1>3, <1>5 DEF Collecting
  <2>. QED
    BY <1>2, <2>1, DrainedStep
<1>6. CASE c = d
  <2>. DEFINE g == got[c][p]
              A == ext[c].synced[p]
              B == Collecting(p, c)
              N == int[c].new[p]
              x == Carried(p, c)
              y == Loaded(p)
              O == int[p].outgoing
              n == sent[p]
              lost == Lost(p, c)
              lost2 == Lost(p, c)'
  <2>1. /\ Typed(g, A, B, N, x, y, O, n) /\ FlowOf(lost, g, A, B, N, x, y, O, n)
        /\ lost \subseteq lost2
    BY <1>2, FlowTyped DEF Flow
  <2>2. FlowOf(lost2, g, MovedTo(B, A), MovedFrom(B, A), N, x, y, O, n)
    <3>. HIDE DEF g, A, B, N, x, y, O, n, lost, lost2
    <3>. QED
      BY <2>1, SyncedFlow
  <2>3. Carried(p, c)' = Carried(p, c) /\ Loaded(p)' = Loaded(p)
    BY <1>1 DEF Carried, Loaded, isSending
  <2>4. /\ Collecting(p, c) = int[c].ready[p]
        /\ ext'[c].synced[p] = MovedTo(Collecting(p, c), ext[c].synced[p])
        /\ Collecting(p, c)' = MovedFrom(Collecting(p, c), ext[c].synced[p])
    BY <1>1, <1>3, <1>4, <1>6 DEF Collecting
  <2>5. int' = int /\ got' = got /\ sent' = sent
    BY <1>1
  <2>. QED
    BY <2>2, <2>3, <2>4, <2>5 DEF Flow
<1>. QED
  BY <1>5, <1>6

LEMMA MovedFlow ==
  ASSUME TypeOK, CableInv, FlowInv, NEW d \in Players, Moved(d),
         NEW p \in Players, NEW c \in Players, p # c
  PROVE  Flow(p, c)'
<1>1. /\ UNCHANGED <<SIOMLT_SEND, wire, irq, ext, sent, got, lossy>>
      /\ at[d] = "moved" /\ at' = [at EXCEPT ![d] = "collected"]
      /\ int' = [int EXCEPT ![d].ready = left[d]]
      /\ left' = [left EXCEPT ![d] = NoMessages]
  BY DEF Moved, wires, history, GoTo
<1>2. /\ Flow(p, c) /\ Wired(Lost(p, c)', Carried(p, c), Loaded(p), Carried(p, c)', Loaded(p)')
  BY <1>1, SameWires DEF FlowInv
<1>3. /\ \A q \in Players : q # d => int'[q] = int[q] /\ left'[q] = left[q] /\ at'[q] = at[q]
      /\ at'[d] = "collected"
  BY <1>1 DEF TypeOK, DriverTypes, ProgramTypes
<1>4. int'[d].ready = left[d] /\ int'[d].new = int[d].new /\ int'[d].outgoing = int[d].outgoing
  BY <1>1 DEF TypeOK, DriverTypes, InternalState
<1>5. Collecting(p, c)' = Collecting(p, c)
  BY <1>1, <1>3, <1>4 DEF Collecting
<1>6. /\ int'[c].new[p] = int[c].new[p] /\ int'[p].outgoing = int[p].outgoing
      /\ ext'[c].synced[p] = ext[c].synced[p]
      /\ got'[c][p] = got[c][p] /\ sent'[p] = sent[p] /\ lossy \subseteq lossy'
  BY <1>1, <1>3, <1>4
<1>. QED
  BY <1>2, <1>5, <1>6, DrainedStep

LEMMA CollectedFlow ==
  ASSUME TypeOK, CableInv, FlowInv, NEW d \in Players, Collected(d),
         NEW p \in Players, NEW c \in Players, p # c
  PROVE  Flow(p, c)'
<1>1. /\ UNCHANGED <<SIOMLT_SEND, wire, irq, int, left, sent, got>>
      /\ \A q \in Players : at'[q] = "moved" <=> at[q] = "moved"
      /\ lossy \subseteq lossy'
      /\ \/ ext' = ext
         \/ ext' = [ext EXCEPT ![d].synced = NoMessages] /\ d \in lossy'
  BY DEF Collected, wires, GoTo, TypeOK, ProgramTypes
<1>2. /\ Flow(p, c) /\ Wired(Lost(p, c)', Carried(p, c), Loaded(p), Carried(p, c)', Loaded(p)')
  BY <1>1, SameWires DEF FlowInv
<1>3. /\ ext'[c].synced[p] \in {ext[c].synced[p], <<>>}
      /\ ext'[c].synced[p] # ext[c].synced[p] => c \in lossy'
  <2>1. ext[d] \in ExternalState /\ ext \in [Players -> ExternalState]
    BY DEF TypeOK, DriverTypes
  <2>. QED
    BY <1>1, <2>1, EmptyQueue DEF ExternalState
<1>4. Collecting(p, c)' = Collecting(p, c)
  BY <1>1 DEF Collecting
<1>5. Lost(p, c)' = {} => ext'[c].synced[p] = ext[c].synced[p]
  BY <1>3 DEF Lost
<1>. QED
  BY <1>1, <1>2, <1>3, <1>4, <1>5, DrainedStep

LEMMA ReadStep ==
  ASSUME TypeOK, CableInv, FlowInv, NEW d \in Players, NEW w \in Players, read(d, w),
         NEW p \in Players, NEW c \in Players, p # c
  PROVE  Flow(p, c)'
<1>1. /\ UNCHANGED <<SIOMLT_SEND, wire, irq, int, at, left, sent, lossy>>
      /\ ext[d].synced[w] # <<>>
      /\ ext' = [ext EXCEPT ![d].synced[w] = Tail(ext[d].synced[w])]
      /\ got' = [got EXCEPT ![d][w] = Head(ext[d].synced[w])]
  BY DEF read, wires, history, pop, Front
<1>2. /\ Flow(p, c) /\ Lost(p, c) \subseteq Lost(p, c)'
      /\ Wired(Lost(p, c)', Carried(p, c), Loaded(p), Carried(p, c)', Loaded(p)')
  BY <1>1, SameWires DEF FlowInv, Lost
<1>3. ext[d] \in ExternalState /\ ext \in [Players -> ExternalState] /\ ext[d].synced \in Queues
  BY DEF TypeOK, DriverTypes, ExternalState
<1>4. /\ c = d /\ p = w => /\ ext'[c].synced[p] = Tail(ext[c].synced[p])
                          /\ got'[c][p] = Head(ext[c].synced[p])
      /\ c # d \/ p # w => /\ ext'[c].synced[p] = ext[c].synced[p]
                          /\ got'[c][p] = got[c][p]
  <2>1. ext'[c].synced[p] = IF c = d /\ p = w THEN Tail(ext[c].synced[p]) ELSE ext[c].synced[p]
    BY <1>1, <1>3 DEF ExternalState, Queues
  <2>2. got'[c][p] = IF c = d /\ p = w THEN Head(ext[c].synced[p]) ELSE got[c][p]
    BY <1>1 DEF TypeOK, ProgramTypes
  <2>. QED
    BY <2>1, <2>2
<1>5. Collecting(p, c)' = Collecting(p, c) /\ sent' = sent /\ int' = int /\ lossy' = lossy
  BY <1>1 DEF Collecting
<1>6. CASE c # d \/ p # w
  <2>1. ext'[c].synced[p] = ext[c].synced[p] /\ got'[c][p] = got[c][p]
    BY <1>4, <1>6
  <2>. QED
    BY <1>2, <1>5, <2>1, DrainedStep
<1>7. CASE c = d /\ p = w
  <2>. DEFINE g == got[c][p]
              A == ext[c].synced[p]
              B == Collecting(p, c)
              N == int[c].new[p]
              x == Carried(p, c)
              y == Loaded(p)
              O == int[p].outgoing
              n == sent[p]
              lost == Lost(p, c)
              lost2 == Lost(p, c)'
  <2>1. /\ Typed(g, A, B, N, x, y, O, n) /\ FlowOf(lost, g, A, B, N, x, y, O, n)
        /\ lost \subseteq lost2 /\ A # <<>>
    BY <1>1, <1>2, <1>7, FlowTyped DEF Flow
  <2>2. FlowOf(lost2, Head(A), Tail(A), B, N, x, y, O, n)
    <3>. HIDE DEF g, A, B, N, x, y, O, n, lost, lost2
    <3>. QED
      BY <2>1, ReadFlow
  <2>3. Carried(p, c)' = Carried(p, c) /\ Loaded(p)' = Loaded(p)
    BY <1>1 DEF Carried, Loaded, isSending
  <2>. QED
    BY <1>4, <1>5, <1>7, <2>2, <2>3 DEF Flow
<1>. QED
  BY <1>6, <1>7

LEMMA ActivateFlow ==
  ASSUME TypeOK, CableInv, FlowInv, NEW d \in Players, deactivate(d) \/ activate(d),
         NEW p \in Players, NEW c \in Players, p # c
  PROVE  Flow(p, c)'
<1>1. CASE activate(d)
  BY <1>1, ResetFlow DEF activate, program
<1>2. CASE deactivate(d)
  <2>1. /\ SIOMLT_SEND' = [SIOMLT_SEND EXCEPT ![d] = NO_DATA]
        /\ wire' = IF d = 0 THEN <<>> ELSE wire
        /\ lossy' = lossy \cup {d}
        /\ int' = [int EXCEPT ![d] = resetState(int[d], FALSE)]
        /\ ext' = [ext EXCEPT ![d] = [ResetPlayers(ext[d]) EXCEPT !.synced = NoMessages]]
        /\ UNCHANGED <<irq, at, left, sent, got>> /\ at[d] # "moved"
    BY <1>2 DEF deactivate, program, TypeOK, DriverTypes
  <2>2. Wired(Lost(p, c)', Carried(p, c), Loaded(p), Carried(p, c)', Loaded(p)')
    BY <2>1, ResetWires DEF CableInv
  <2>3. /\ int'[d] = resetState(int[d], FALSE) /\ \A q \in Players : q # d => int'[q] = int[q]
        /\ ext'[d] = [ResetPlayers(ext[d]) EXCEPT !.synced = NoMessages]
        /\ \A q \in Players : q # d => ext'[q] = ext[q]
    BY <2>1 DEF TypeOK, DriverTypes
  <2>4. /\ int'[d].outgoing \in {int[d].outgoing, <<>>} /\ int'[d].new = NoMessages
        /\ int'[d].ready = NoMessages
    BY <2>3 DEF resetState
  <2>5. ext'[d].synced = NoMessages
    <3>1. ResetPlayers(ext[d]) \in ExternalState
      BY DriverKept, ResetPlayersFacts
    <3>. QED
      BY <2>3, <3>1 DEF ExternalState
  <2>6. Flow(p, c) /\ (p = d \/ c = d => Lost(p, c)' # {}) /\ lossy \subseteq lossy'
    BY <2>1 DEF FlowInv, Lost
  <2>7. /\ ext'[c].synced[p] \in {ext[c].synced[p], <<>>}
        /\ int'[c].new[p] \in {int[c].new[p], <<>>} /\ int'[p].outgoing \in {int[p].outgoing, <<>>}
    BY <2>3, <2>4, <2>5, EmptyQueue
  <2>8. Collecting(p, c)' \in {Collecting(p, c), <<>>}
    <3>1. CASE c = d
      BY <2>1, <2>4, <3>1, EmptyQueue DEF Collecting
    <3>2. CASE c # d
      BY <2>1, <2>3, <3>2 DEF Collecting
    <3>. QED
      BY <3>1, <3>2
  <2>9. Lost(p, c)' = {} => /\ Collecting(p, c)' = Collecting(p, c)
                           /\ ext'[c].synced[p] = ext[c].synced[p]
                           /\ int'[c].new[p] = int[c].new[p]
                           /\ int'[p].outgoing = int[p].outgoing
    <3>1. ASSUME Lost(p, c)' = {} PROVE int'[c] = int[c] /\ int'[p] = int[p] /\ ext'[c] = ext[c]
      BY <2>3, <2>6, <3>1
    <3>2. int'[c] = int[c] => Collecting(p, c)' = Collecting(p, c)
      <4>1. at' = at /\ left' = left
        BY <2>1
      <4>. QED
        BY <4>1 DEF Collecting
    <3>. QED
      BY <3>1, <3>2
  <2>10. got'[c][p] = got[c][p] /\ sent'[p] = sent[p]
    BY <2>1
  <2>. QED
    BY <2>2, <2>6, <2>7, <2>8, <2>9, <2>10, DrainedStep
<1>. QED
  BY <1>1, <1>2

LEMMA StepFlow == TypeOK /\ CableInv /\ FlowInv /\ [Next]_vars => FlowInv'
<1>. SUFFICES ASSUME TypeOK, CableInv, FlowInv, [Next]_vars,
                     NEW p \in Players, NEW c \in Players, p # c
              PROVE  Flow(p, c)'
  BY DEF FlowInv
<1>1. CASE /\ UNCHANGED <<SIOMLT_SEND, wire, irq, int, ext, at, left, sent, got>>
           /\ lossy \subseteq lossy'
  <2>. PICK d \in Players : TRUE
    OBVIOUS
  <2>. QED
    BY <1>1, QuietFlow
<1>2. CASE UNCHANGED vars
  BY <1>1, <1>2 DEF vars, wires, program, history
<1>3. ASSUME NEW d \in Players, Plug(d) PROVE Flow(p, c)'
  BY <1>1, <1>3 DEF Plug, program
<1>4. ASSUME NEW d \in Players, _onVBlank(d) \/ _onSerial(d) \/ _onTimer(d) PROVE Flow(p, c)'
  BY <1>4, VBlankFlow, SerialFlow, TimerFlow
<1>5. ASSUME NEW d \in Players, send(d) \/ Push(d) \/ Pushed(d) \/ resetTimeout(d)
      PROVE  Flow(p, c)'
  BY <1>5, SendFlow, PushFlow
<1>6. ASSUME NEW d \in Players, Moved(d) \/ Collected(d) \/ deactivate(d) \/ activate(d)
      PROVE  Flow(p, c)'
  BY <1>6, MovedFlow, CollectedFlow, ActivateFlow
<1>. QED
  BY <1>2, <1>3, <1>4, <1>5, <1>6, EndTransferFlow, SyncFlow, ReadStep DEF Next

LEMMA InitFlow == Init => FlowInv
<1>. SUFFICES ASSUME Init, NEW p \in Players, NEW c \in Players, p # c
              PROVE  Flow(p, c)
  BY DEF FlowInv
<1>1. /\ got[c][p] = 0 /\ sent[p] = 0 /\ at[c] = "idle" /\ irq[c] = None /\ irq[p] = None
      /\ SIOMLT_SEND[p] = 0 /\ ~isSending
      /\ ext[c].synced = NoMessages /\ int[c] = Inactive /\ int[p] = Inactive
  BY DEF Init, isSending
<1>2. /\ ext[c].synced[p] = <<>> /\ Collecting(p, c) = <<>> /\ int[c].new[p] = <<>>
      /\ int[p].outgoing = <<>> /\ Carried(p, c) = 0 /\ Loaded(p) = 0
  BY <1>1, EmptyQueue DEF Inactive, Collecting, Carried, Loaded
<1>3. Line(0, {}, {}, {}, {}, {}, {}, 0)
  BY DEF Line, Before
<1>4. FlowOf(Lost(p, c), 0, <<>>, <<>>, <<>>, 0, 0, <<>>, 0)
  BY <1>3, EmptyQueue, PositiveFacts DEF FlowOf, Whole
<1>. QED
  BY <1>1, <1>2, <1>4 DEF Flow

-----------------------------------------------------------------------------
(* Every step keeps what holds of the wires and the consoles.              *)

\* The handlers leave the flags of the queue of outgoing messages alone.
LEMMA FlagsKept ==
  ASSUME NEW i \in InternalState, NEW j,
         \/ j = TimeoutsReset(i) \/ j = Frame(i) \/ j = Interrupted(i) \/ j = NotPending(i)
         \/ \E reading \in BOOLEAN : j = copyState(i, reading)
         \/ \E c \in Players, data \in Heard : j = ReceivedAll(i, c, data)
  PROVE  j.isWriting = i.isWriting /\ j.needsClear = i.needsClear
<1>1. CASE j = TimeoutsReset(i) \/ j = Frame(i) \/ j = Interrupted(i)
  BY <1>1 DEF TimeoutsReset, Frame, Interrupted, InternalState
<1>2. CASE j = NotPending(i)
  BY <1>2 DEF NotPending, InternalState
<1>3. CASE \E reading \in BOOLEAN : j = copyState(i, reading)
  BY <1>3 DEF copyState, copyStateAnyway, InternalState
<1>4. CASE \E c \in Players, data \in Heard : j = ReceivedAll(i, c, data)
  BY <1>4 DEF ReceivedAll, InternalState
<1>. QED
  BY <1>1, <1>2, <1>3, <1>4

\* Where a program is, as far as its queues are concerned.
AtKept == \A c \in Players : /\ at'[c] = "moved" <=> at[c] = "moved"
                             /\ at'[c] = "push" <=> at[c] = "push"

LEMMA WakeKeepsAt ==
  ASSUME TypeOK, NEW d \in Players, Wake(d)
  PROVE  AtKept
  BY WakeFacts DEF AtKept

LEMMA SameWireInv ==
  ASSUME WireInv, plugged' = plugged, 0 \in multi => 0 \in multi', lossy \subseteq lossy',
         SIOMLT_SEND' = SIOMLT_SEND, wire' = wire, irq' = irq
  PROVE  WireInv'
  BY DEF WireInv, isSending, Answered

\* What a step keeps of the driver of a console, unless it lost messages.
QueueKept(d) ==
  /\ int'[d].isWriting = int[d].isWriting
  /\ int[d].isWriting => int'[d].outgoing = int[d].outgoing
  /\ int'[d].needsClear => int[d].needsClear \/ d \in lossy'

LEMMA QueueFlags ==
  ASSUME TypeOK, NEW d \in Players
  PROVE  int[d].isWriting \in BOOLEAN /\ int[d].needsClear \in BOOLEAN
  BY DriverKept DEF InternalState

LEMMA ConsolesKept ==
  ASSUME TypeOK, CableInv, NEW d \in Players, QueueKept(d),
         \A q \in Players : q # d => int'[q] = int[q],
         \A q \in Players : ~isEnabled'[q] => SIOMLT_SEND'[q] = 0,
         \A q \in Players : q \notin lossy' => q \notin lossy /\ q \in plugged' /\ q \in multi' /\ isEnabled'[q],
         isReadingMessages' = isReadingMessages, AtKept,
         NEW q \in Players
  PROVE  ConsoleInv(q)'
<1>1. ConsoleInv(q)
  BY DEF CableInv
<1>2. QueueKept(q)
  BY QueueFlags DEF QueueKept
<1>3. isReadingMessages'[q] <=> at'[q] = "moved"
  BY <1>1 DEF ConsoleInv, AtKept
<1>4. at'[q] = "push" => ~isFull(int'[q].outgoing) /\ int'[q].isWriting
  BY <1>1, <1>2 DEF ConsoleInv, AtKept, QueueKept
<1>5. q \notin lossy' => ~int'[q].needsClear
  BY <1>1, <1>2 DEF ConsoleInv, QueueKept
<1>. QED
  BY <1>3, <1>4, <1>5 DEF ConsoleInv

LEMMA ResetCable ==
  ASSUME TypeOK, CableInv, NEW d \in Players, reset(d),
         plugged' = plugged, isReadingMessages' = isReadingMessages,
         irq' = irq \/ (irq[d] # None /\ irq' = [irq EXCEPT ![d] = None]),
         isEnabled' = isEnabled \/ isEnabled' = [isEnabled EXCEPT ![d] = TRUE], AtKept
  PROVE  CableInv'
<1>1. /\ SIOMLT_SEND' = [SIOMLT_SEND EXCEPT ![d] = NO_DATA]
      /\ wire' = IF d = 0 THEN <<>> ELSE wire
      /\ lossy' = lossy \cup {d} /\ multi' = multi \cup {d}
      /\ int' = [int EXCEPT ![d] = resetState(int[d], isReadingMessages[d])]
  BY DEF reset
<1>2. /\ SIOMLT_SEND'[d] = 0 /\ \A q \in Players : q # d => SIOMLT_SEND'[q] = SIOMLT_SEND[q]
      /\ \A q \in Players : q # d => irq'[q] = irq[q]
      /\ irq'[d] \in {irq[d], None}
      /\ isSending => irq' = irq
      /\ \A q \in Players : isEnabled[q] => isEnabled'[q]
  BY DEF TypeOK, WireTypes, DriverTypes, reset, CableInv, WireInv, Answered
<1>3. WireInv'
  <2>1. CASE d = 0
    BY <1>1, <1>2, <2>1 DEF CableInv, WireInv, isSending
  <2>2. CASE d # 0
    BY <1>1, <1>2, <2>2 DEF CableInv, WireInv, isSending, Answered
  <2>. QED
    BY <2>1, <2>2
<1>4. /\ QueueKept(d) /\ \A q \in Players : q # d => int'[q] = int[q]
  <2>1. /\ int'[d] = resetState(int[d], isReadingMessages[d])
        /\ \A q \in Players : q # d => int'[q] = int[q]
    BY <1>1 DEF TypeOK, DriverTypes
  <2>2. int'[d].isWriting = int[d].isWriting /\ (int[d].isWriting => int'[d].outgoing = int[d].outgoing)
    BY <2>1 DEF resetState
  <2>. QED
    BY <1>1, <2>1, <2>2 DEF QueueKept
<1>5. \A q \in Players : ~isEnabled'[q] => SIOMLT_SEND'[q] = 0
  BY <1>2 DEF CableInv, ConsoleInv
<1>6. \A q \in Players : q \notin lossy' =>
        q \notin lossy /\ q \in plugged' /\ q \in multi' /\ isEnabled'[q]
  BY <1>1, <1>2 DEF CableInv, ConsoleInv
<1>7. \A q \in Players : ConsoleInv(q)'
  BY <1>4, <1>5, <1>6, ConsolesKept
<1>. QED
  BY <1>3, <1>7 DEF CableInv

LEMMA VBlankCable ==
  ASSUME TypeOK, CableInv, NEW d \in Players, _onVBlank(d)
  PROVE  CableInv'
<1>. DEFINE i == Frame(TimeoutsReset(int[d]))
<1>1. UNCHANGED <<plugged, irq, isEnabled, isReadingMessages, at>> /\ AtKept
  BY DEF _onVBlank, program, AtKept
<1>2. CASE i.IRQTimeout >= timeout
  BY <1>1, <1>2, ResetCable DEF _onVBlank
<1>3. CASE ~(i.IRQTimeout >= timeout)
  <2>1. /\ int' = [int EXCEPT ![d] = copyState(i, isReadingMessages[d])]
        /\ lossy \subseteq lossy' /\ (\A q \in Players : q \notin lossy' => q \notin lossy)
        /\ UNCHANGED <<SIOMLT_SEND, wire, multi>>
    BY <1>3 DEF _onVBlank
  <2>2. TimeoutsReset(int[d]) \in InternalState /\ i \in InternalState
    BY DriverKept, TimeoutsResetFacts, FrameFacts
  <2>3. i.outgoing = int[d].outgoing
    BY <2>2, DriverKept, TimeoutsResetFacts, FrameFacts
  <2>4. i.isWriting = int[d].isWriting /\ i.needsClear = int[d].needsClear
    BY <2>2, DriverKept, FlagsKept
  <2>. HIDE DEF i
  <2>5. /\ int'[d] = copyState(i, isReadingMessages[d]) /\ isReadingMessages[d] \in BOOLEAN
        /\ \A q \in Players : q # d => int'[q] = int[q]
    BY <2>1, DriverKept DEF TypeOK, DriverTypes
  <2>6. QueueKept(d)
    <3>1. int'[d].outgoing = i.outgoing
      BY <2>2, <2>5, CopyStateFacts
    <3>2. int'[d].isWriting = i.isWriting /\ int'[d].needsClear = i.needsClear
      BY <2>2, <2>5, FlagsKept
    <3>. QED
      BY <2>3, <2>4, <3>1, <3>2 DEF QueueKept
  <2>7. \A q \in Players : ConsoleInv(q)'
    BY <1>1, <2>1, <2>5, <2>6, ConsolesKept DEF CableInv, ConsoleInv
  <2>8. WireInv'
    BY <1>1, <2>1, SameWireInv DEF CableInv
  <2>. QED
    BY <2>7, <2>8 DEF CableInv
<1>. QED
  BY <1>2, <1>3

LEMMA SerialCable ==
  ASSUME TypeOK, CableInv, NEW d \in Players, _onSerial(d)
  PROVE  CableInv'
<1>1. /\ irq[d] # None /\ irq' = [irq EXCEPT ![d] = None] /\ Wake(d)
      /\ UNCHANGED <<plugged, isEnabled, isReadingMessages>> /\ AtKept
  BY WakeKeepsAt DEF _onSerial
<1>2. ~isSending /\ irq'[d] = None /\ \A q \in Players : q # d => irq'[q] = irq[q]
  BY <1>1 DEF CableInv, WireInv, Answered, TypeOK, WireTypes
<1>3. CASE ~isEnabled[d]
  <2>1. UNCHANGED <<multi, SIOMLT_SEND, wire, int, lossy>>
    BY <1>3 DEF _onSerial
  <2>2. WireInv'
    BY <1>1, <1>2, <1>3, <2>1 DEF CableInv, WireInv, ConsoleInv, isSending
  <2>3. \A q \in Players : ConsoleInv(q)'
    BY <1>1, <2>1, ConsolesKept DEF CableInv, ConsoleInv, QueueKept
  <2>. QED
    BY <2>2, <2>3 DEF CableInv
<1>4. CASE isEnabled[d] /\ (~allReady \/ irq[d].error)
  <2>1. reset(d)
    BY <1>4 DEF _onSerial
  <2>. QED
    BY <1>1, <2>1, ResetCable
<1>5. CASE isEnabled[d] /\ ~(~allReady \/ irq[d].error)
  <2>. DEFINE r == SerialReceived(d)
              s == SerialAnswered(d)
  <2>1. /\ SIOMLT_SEND' = [SIOMLT_SEND EXCEPT ![d] = Answer(r, d, @)]
        /\ int' = [int EXCEPT ![d] = copyState(s, isReadingMessages[d])]
        /\ lossy \subseteq lossy' /\ (\A q \in Players : q \notin lossy' => q \notin lossy)
        /\ UNCHANGED <<multi, wire>>
    BY <1>5 DEF _onSerial, Interrupted, SerialReceived, SerialAnswered
  <2>2. /\ SIOMLT_SEND'[d] = Answer(r, d, SIOMLT_SEND[d])
        /\ \A q \in Players : q # d => SIOMLT_SEND'[q] = SIOMLT_SEND[q]
        /\ int'[d] = copyState(s, isReadingMessages[d]) /\ isReadingMessages[d] \in BOOLEAN
        /\ \A q \in Players : q # d => int'[q] = int[q]
    BY <2>1, DriverKept DEF TypeOK, DriverTypes, WireTypes
  <2>3. /\ r \in InternalState /\ s \in InternalState /\ r.outgoing = int[d].outgoing
        /\ (d = 0 /\ s = r) \/ (d # 0 /\ s = NotPending(r))
    BY <1>1, SerialFacts DEF SerialAnswered
  <2>4. r.isWriting = int[d].isWriting /\ r.needsClear = int[d].needsClear
    <3>1. /\ irq[d].data \in Heard /\ Interrupted(int[d]) \in InternalState
          /\ int[d] \in InternalState
          /\ r = ReceivedAll(Interrupted(int[d]), d, irq[d].data)
      BY <1>1, SerialFacts, DriverKept DEF SerialReceived
    <3>2. /\ Interrupted(int[d]).isWriting = int[d].isWriting
          /\ Interrupted(int[d]).needsClear = int[d].needsClear
      BY <3>1, FlagsKept
    <3>3. /\ r.isWriting = Interrupted(int[d]).isWriting
          /\ r.needsClear = Interrupted(int[d]).needsClear
      BY <3>1, FlagsKept
    <3>. QED
      BY <3>2, <3>3
  <2>. HIDE DEF r, s
  <2>5. /\ s.isWriting = r.isWriting /\ s.needsClear = r.needsClear
        /\ r.isWriting => s.outgoing = r.outgoing
    <3>1. CASE s = r
      BY <3>1
    <3>2. CASE s = NotPending(r)
      <4>1. s.isWriting = r.isWriting /\ s.needsClear = r.needsClear
        BY <2>3, <3>2, FlagsKept
      <4>. QED
        BY <3>2, <4>1 DEF NotPending
    <3>. QED
      BY <2>3, <3>1, <3>2
  <2>6. QueueKept(d)
    <3>1. int'[d].outgoing = s.outgoing
      BY <2>2, <2>3, CopyStateFacts
    <3>2. int'[d].isWriting = s.isWriting /\ int'[d].needsClear = s.needsClear
      BY <2>2, <2>3, FlagsKept
    <3>. QED
      BY <2>3, <2>4, <2>5, <3>1, <3>2 DEF QueueKept
  <2>7. \A q \in Players : ~isEnabled'[q] => SIOMLT_SEND'[q] = 0
    BY <1>1, <1>5, <2>2 DEF CableInv, ConsoleInv
  <2>8. \A q \in Players : ConsoleInv(q)'
    BY <1>1, <2>1, <2>2, <2>6, <2>7, ConsolesKept DEF CableInv, ConsoleInv
  <2>9. WireInv'
    <3>1. ~isSending' /\ plugged' = plugged
      BY <1>1, <1>2, <2>1 DEF isSending
    <3>2. irq'[0] = None => SIOMLT_SEND'[0] = 0
      <4>1. CASE d = 0
        BY <2>2, <4>1 DEF Answer
      <4>2. CASE d # 0
        BY <1>2, <2>2, <4>2 DEF CableInv, WireInv
      <4>. QED
        BY <4>1, <4>2
    <3>. QED
      BY <3>1, <3>2 DEF CableInv, WireInv
  <2>. QED
    BY <2>8, <2>9 DEF CableInv
<1>. QED
  BY <1>3, <1>4, <1>5

LEMMA TimerCable ==
  ASSUME TypeOK, CableInv, NEW d \in Players, _onTimer(d)
  PROVE  CableInv'
<1>. DEFINE starts == d = 0 /\ allReady /\ ~isSending
            i == IF starts THEN NotPending(int[d]) ELSE int[d]
<1>1. /\ Wake(d) /\ (d = 0 => Answered) /\ isEnabled[d]
      /\ UNCHANGED <<plugged, multi, irq, isEnabled, isReadingMessages>> /\ AtKept
      /\ int' = [int EXCEPT ![d] = copyState(i, isReadingMessages[d])]
      /\ lossy' = IF Dropped(i, int'[d]) THEN lossy \cup {d} ELSE lossy
      /\ IF starts /\ ~int[d].isWriting
         THEN /\ SIOMLT_SEND' = [SIOMLT_SEND EXCEPT ![d] = Pending(int[d])]
              /\ wire' = SIOMLT_SEND'
         ELSE UNCHANGED <<SIOMLT_SEND, wire>>
  BY WakeKeepsAt DEF _onTimer
<1>2. int[d] \in InternalState /\ isReadingMessages[d] \in BOOLEAN
  BY DriverKept
<1>3. /\ i \in InternalState /\ i.isWriting = int[d].isWriting /\ i.needsClear = int[d].needsClear
      /\ int[d].isWriting => i.outgoing = int[d].outgoing
  <2>1. CASE ~starts
    BY <1>2, <2>1
  <2>2. CASE starts
    <3>1. i = NotPending(int[d])
      BY <2>2
    <3>. HIDE DEF i
    <3>2. i \in InternalState
      BY <1>2, <3>1, NotPendingFacts
    <3>3. i.isWriting = int[d].isWriting /\ i.needsClear = int[d].needsClear
      BY <1>2, <3>1, FlagsKept
    <3>. QED
      BY <3>1, <3>2, <3>3 DEF NotPending
  <2>. QED
    BY <2>1, <2>2
<1>. HIDE DEF i
<1>4. /\ int'[d] = copyState(i, isReadingMessages[d])
      /\ \A q \in Players : q # d => int'[q] = int[q]
      /\ lossy \subseteq lossy' /\ (\A q \in Players : q \notin lossy' => q \notin lossy)
  BY <1>1 DEF TypeOK, DriverTypes
<1>5. QueueKept(d)
  <2>1. int'[d].outgoing = i.outgoing
    BY <1>2, <1>3, <1>4, CopyStateFacts
  <2>2. int'[d].isWriting = i.isWriting /\ int'[d].needsClear = i.needsClear
    BY <1>2, <1>3, <1>4, FlagsKept
  <2>. QED
    BY <1>3, <2>1, <2>2 DEF QueueKept
<1>6. \A q \in Players : q # d => SIOMLT_SEND'[q] = SIOMLT_SEND[q]
  BY <1>1 DEF TypeOK, WireTypes
<1>7. \A q \in Players : ~isEnabled'[q] => SIOMLT_SEND'[q] = 0
  BY <1>1, <1>6 DEF CableInv, ConsoleInv
<1>8. \A q \in Players : ConsoleInv(q)'
  BY <1>1, <1>4, <1>5, <1>7, ConsolesKept DEF CableInv, ConsoleInv
<1>9. WireInv'
  <2>1. CASE starts /\ ~int[d].isWriting
    <3>1. /\ wire' = SIOMLT_SEND' /\ 0 \in multi' /\ Answered'
      BY <1>1, <2>1 DEF Answered, CableInv, WireInv, allReady
    <3>2. wire' # <<>>
      <4>1. Pending(int[d]) \in Nat
        BY <1>2, NotPendingFacts
      <4>2. wire' \in [Players -> Nat]
        BY <1>1, <2>1, <4>1 DEF TypeOK, WireTypes
      <4>. QED
        BY <4>2, NoWords
    <3>. QED
      BY <1>1, <3>1, <3>2 DEF CableInv, WireInv, isSending
  <2>2. CASE ~(starts /\ ~int[d].isWriting)
    BY <1>1, <1>4, <2>2, SameWireInv DEF CableInv
  <2>. QED
    BY <2>1, <2>2
<1>. QED
  BY <1>8, <1>9 DEF CableInv

LEMMA EndTransferCable ==
  ASSUME TypeOK, CableInv, NEW e \in BOOLEAN, EndTransfer(e)
  PROVE  CableInv'
<1>1. /\ isSending /\ wire' = <<>>
      /\ UNCHANGED <<plugged, multi, SIOMLT_SEND, int, isEnabled, isReadingMessages, at, lossy>>
      /\ AtKept
  BY DEF EndTransfer, program, history, AtKept
<1>2. irq'[0] # None
  <2>1. 0 \in plugged \cap multi
    BY <1>1 DEF CableInv, WireInv
  <2>2. irq'[0] = [data |-> [p \in Players |-> Word(wire, p)], error |-> e]
    BY <2>1 DEF EndTransfer
  <2>3. [p \in Players |-> Word(wire, p)] # <<>>
    <3>1. DOMAIN [p \in Players |-> Word(wire, p)] = Players /\ 0 \in Players
      OBVIOUS
    <3>2. DOMAIN <<>> = {}
      OBVIOUS
    <3>. QED
      BY <3>1, <3>2
  <2>. QED
    BY <2>2, <2>3 DEF None
<1>3. WireInv'
  BY <1>1, <1>2 DEF CableInv, WireInv, isSending
<1>4. \A q \in Players : ConsoleInv(q)'
  BY <1>1, ConsolesKept DEF CableInv, ConsoleInv, QueueKept
<1>. QED
  BY <1>3, <1>4 DEF CableInv

LEMMA PlugCable ==
  ASSUME TypeOK, CableInv, NEW d \in Players, Plug(d)
  PROVE  CableInv'
<1>1. /\ d # 0 /\ lossy' = lossy \cup {d}
      /\ UNCHANGED <<multi, SIOMLT_SEND, wire, irq, int, isEnabled, isReadingMessages, at>>
      /\ AtKept
  BY DEF Plug, program, AtKept
<1>2. \A q \in Players : q # d => (q \in plugged' <=> q \in plugged)
  BY DEF Plug
<1>3. WireInv'
  BY <1>1, <1>2 DEF CableInv, WireInv, isSending, Answered
<1>4. \A q \in Players : ConsoleInv(q)'
  BY <1>1, <1>2, ConsolesKept DEF CableInv, ConsoleInv, QueueKept
<1>. QED
  BY <1>3, <1>4 DEF CableInv

\* A step of a program that leaves the wires alone.
LEMMA ProgramCable ==
  ASSUME TypeOK, CableInv, UNCHANGED <<wires, isEnabled>>, lossy \subseteq lossy',
         NEW d \in Players,
         \A q \in Players : q # d => /\ int'[q] = int[q] /\ at'[q] = at[q]
                                    /\ isReadingMessages'[q] = isReadingMessages[q],
         isReadingMessages'[d] <=> at'[d] = "moved",
         at'[d] = "push" => ~isFull(int'[d].outgoing) /\ int'[d].isWriting,
         d \notin lossy => ~int'[d].needsClear
  PROVE  CableInv'
<1>1. UNCHANGED <<plugged, multi, SIOMLT_SEND, wire, irq>>
  BY DEF wires
<1>2. WireInv'
  BY <1>1, SameWireInv DEF CableInv
<1>3. ASSUME NEW q \in Players PROVE ConsoleInv(q)'
  <2>1. ConsoleInv(q)
    BY DEF CableInv
  <2>2. CASE q = d
    BY <1>1, <2>1, <2>2 DEF ConsoleInv
  <2>3. CASE q # d
    BY <1>1, <2>1, <2>3 DEF ConsoleInv
  <2>. QED
    BY <2>2, <2>3
<1>. QED
  BY <1>2, <1>3 DEF CableInv

LEMMA SendCable ==
  ASSUME TypeOK, CableInv, NEW d \in Players,
         send(d) \/ Push(d) \/ Pushed(d) \/ resetTimeout(d)
  PROVE  CableInv'
<1>1. int[d] \in InternalState /\ ConsoleInv(d)
  BY DriverKept DEF CableInv
<1>2. /\ UNCHANGED <<wires, isEnabled, isReadingMessages, lossy>>
      /\ at[d] # "moved" /\ at'[d] # "moved"
      /\ \A q \in Players : q # d => int'[q] = int[q] /\ at'[q] = at[q]
  BY DEF send, Push, Pushed, resetTimeout, GoTo, program, history, TypeOK, DriverTypes, ProgramTypes
<1>3. ~isReadingMessages'[d]
  BY <1>1, <1>2 DEF ConsoleInv
<1>4. /\ at'[d] = "push" => ~isFull(int'[d].outgoing) /\ int'[d].isWriting
      /\ d \notin lossy => ~int'[d].needsClear
  <2>1. CASE send(d)
    <3>1. int'[d] = [int[d] EXCEPT !.isWriting = TRUE] /\ ~isFull(int[d].outgoing)
      BY <2>1 DEF send, TypeOK, DriverTypes
    <3>2. /\ int'[d].outgoing = int[d].outgoing /\ int'[d].isWriting
          /\ int'[d].needsClear = int[d].needsClear
      BY <1>1, <3>1 DEF InternalState
    <3>. QED
      BY <1>1, <3>1, <3>2 DEF ConsoleInv
  <2>2. CASE Push(d)
    <3>1. /\ int'[d] = [int[d] EXCEPT !.outgoing = push(@, sent[d] + 1), !.isWriting = FALSE]
          /\ at'[d] = "pushed"
      BY <2>2 DEF Push, GoTo, TypeOK, DriverTypes, ProgramTypes
    <3>2. int'[d].needsClear = int[d].needsClear
      BY <1>1, <3>1 DEF InternalState
    <3>. QED
      BY <1>1, <3>1, <3>2 DEF ConsoleInv
  <2>3. CASE Pushed(d)
    <3>1. /\ int'[d] = int[d] \/ int'[d] = [int[d] EXCEPT !.outgoing = <<>>, !.needsClear = FALSE]
          /\ at'[d] = "idle"
      BY <2>3 DEF Pushed, GoTo, TypeOK, DriverTypes, ProgramTypes
    <3>2. int'[d] = int[d] \/ ~int'[d].needsClear
      BY <1>1, <3>1 DEF InternalState
    <3>. QED
      BY <1>1, <3>1, <3>2 DEF ConsoleInv
  <2>4. CASE resetTimeout(d)
    <3>1. /\ int'[d] = [int[d] EXCEPT !.isResetTimeoutPending = TRUE] /\ at'[d] = "idle"
      BY <2>4 DEF resetTimeout, program, TypeOK, DriverTypes, ProgramTypes
    <3>2. int'[d].needsClear = int[d].needsClear
      BY <1>1, <3>1 DEF InternalState
    <3>. QED
      BY <1>1, <3>1, <3>2 DEF ConsoleInv
  <2>. QED
    BY <2>1, <2>2, <2>3, <2>4
<1>. QED
  BY <1>2, <1>3, <1>4, ProgramCable

LEMMA ReceiveCable ==
  ASSUME TypeOK, CableInv, NEW d \in Players,
         \/ \E p \in Players \cup {Nobody} : sync(d, p)
         \/ Moved(d) \/ Collected(d)
         \/ \E p \in Players : read(d, p)
  PROVE  CableInv'
<1>1. int[d] \in InternalState /\ ConsoleInv(d)
  BY DriverKept DEF CableInv
<1>2. /\ UNCHANGED <<wires, isEnabled>> /\ lossy \subseteq lossy'
      /\ \A q \in Players : q # d => /\ int'[q] = int[q] /\ at'[q] = at[q]
                                    /\ isReadingMessages'[q] = isReadingMessages[q]
  BY DEF sync, Moved, Collected, read, GoTo, history, TypeOK, DriverTypes, ProgramTypes
<1>3. /\ isReadingMessages'[d] <=> at'[d] = "moved"
      /\ at'[d] # "push" \/ (at'[d] = at[d] /\ int' = int)
  BY <1>1 DEF sync, Moved, Collected, read, GoTo, TypeOK, DriverTypes, ProgramTypes, ConsoleInv
<1>4. int'[d].needsClear = int[d].needsClear
  BY <1>1 DEF sync, Moved, Collected, read, InternalState, TypeOK, DriverTypes
<1>. QED
  BY <1>1, <1>2, <1>3, <1>4, ProgramCable DEF ConsoleInv

LEMMA ActivateCable ==
  ASSUME TypeOK, CableInv, NEW d \in Players, deactivate(d) \/ activate(d)
  PROVE  CableInv'
<1>1. CASE activate(d)
  BY <1>1, ResetCable DEF activate, program, AtKept
<1>2. CASE deactivate(d)
  <2>1. /\ SIOMLT_SEND' = [SIOMLT_SEND EXCEPT ![d] = NO_DATA]
        /\ wire' = IF d = 0 THEN <<>> ELSE wire
        /\ lossy' = lossy \cup {d} /\ multi' = multi \ {d}
        /\ int' = [int EXCEPT ![d] = resetState(int[d], FALSE)]
        /\ isEnabled' = [isEnabled EXCEPT ![d] = FALSE]
        /\ UNCHANGED <<plugged, irq, isReadingMessages, at>> /\ AtKept
    BY <1>2 DEF deactivate, program, AtKept
  <2>2. /\ SIOMLT_SEND'[d] = 0 /\ \A q \in Players : q # d => SIOMLT_SEND'[q] = SIOMLT_SEND[q]
        /\ \A q \in Players : q # d => isEnabled'[q] = isEnabled[q]
        /\ int'[d] = resetState(int[d], FALSE) /\ \A q \in Players : q # d => int'[q] = int[q]
    BY <2>1 DEF TypeOK, WireTypes, DriverTypes
  <2>3. WireInv'
    <3>1. CASE d = 0
      BY <2>1, <2>2, <3>1 DEF CableInv, WireInv, isSending
    <3>2. CASE d # 0
      BY <2>1, <2>2, <3>2 DEF CableInv, WireInv, isSending, Answered
    <3>. QED
      BY <3>1, <3>2
  <2>4. QueueKept(d)
    BY <2>1, <2>2 DEF QueueKept, resetState
  <2>5. /\ \A q \in Players : ~isEnabled'[q] => SIOMLT_SEND'[q] = 0
        /\ \A q \in Players : q \notin lossy' =>
             q \notin lossy /\ q \in plugged' /\ q \in multi' /\ isEnabled'[q]
    BY <2>1, <2>2 DEF CableInv, ConsoleInv
  <2>6. \A q \in Players : ConsoleInv(q)'
    BY <2>1, <2>2, <2>4, <2>5, ConsolesKept
  <2>. QED
    BY <2>3, <2>6 DEF CableInv
<1>. QED
  BY <1>1, <1>2

LEMMA StepCable == TypeOK /\ CableInv /\ [Next]_vars => CableInv'
<1>. SUFFICES ASSUME TypeOK, CableInv, [Next]_vars PROVE CableInv'
  OBVIOUS
<1>1. CASE UNCHANGED vars
  BY <1>1 DEF vars, wires, program, history, CableInv, WireInv, ConsoleInv, isSending, Answered
<1>2. ASSUME NEW d \in Players, _onVBlank(d) \/ _onSerial(d) \/ _onTimer(d) PROVE CableInv'
  BY <1>2, VBlankCable, SerialCable, TimerCable
<1>3. ASSUME NEW d \in Players, send(d) \/ Push(d) \/ Pushed(d) \/ resetTimeout(d)
      PROVE  CableInv'
  BY <1>3, SendCable
<1>4. ASSUME NEW d \in Players,
             \/ \E p \in Players \cup {Nobody} : sync(d, p)
             \/ Moved(d) \/ Collected(d)
             \/ \E p \in Players : read(d, p)
      PROVE  CableInv'
  BY <1>4, ReceiveCable
<1>5. ASSUME NEW d \in Players, Plug(d) \/ deactivate(d) \/ activate(d) PROVE CableInv'
  BY <1>5, PlugCable, ActivateCable
<1>. QED
  BY <1>1, <1>2, <1>3, <1>4, <1>5, EndTransferCable DEF Next

LEMMA InitCable == Init => CableInv
<1>. SUFFICES ASSUME Init PROVE CableInv
  OBVIOUS
<1>1. WireInv
  BY DEF Init, WireInv, isSending
<1>2. \A c \in Players : ConsoleInv(c)
  BY DEF Init, ConsoleInv, Inactive
<1>. QED
  BY <1>1, <1>2 DEF CableInv

-----------------------------------------------------------------------------
(* The words on their way to a console, one after the other.               *)

\* One sequence of words behind another.
LEMMA ConcatRising ==
  ASSUME NEW s \in Seq(Nat), NEW t \in Seq(Nat), Rising(s), Rising(t),
         Before(WordsIn(s), WordsIn(t))
  PROVE  s \o t \in Seq(Nat) /\ Rising(s \o t) /\ WordsIn(s \o t) = WordsIn(s) \cup WordsIn(t)
<1>. DEFINE u == s \o t
<1>1. /\ u \in Seq(Nat) /\ Len(u) = Len(s) + Len(t) /\ Len(s) \in Nat /\ Len(t) \in Nat
      /\ \A i \in 1..Len(s) + Len(t) : u[i] = IF i <= Len(s) THEN s[i] ELSE t[i - Len(s)]
  BY ConcatProperties
<1>. HIDE DEF u
<1>2. /\ \A i \in 1..Len(s) : u[i] = s[i] /\ i \in 1..Len(u)
      /\ \A i \in 1..Len(t) : u[Len(s) + i] = t[i] /\ Len(s) + i \in 1..Len(u)
  <2>1. ASSUME NEW i \in 1..Len(t) PROVE u[Len(s) + i] = t[i] /\ Len(s) + i \in 1..Len(u)
    <3>1. Len(s) + i \in 1..Len(s) + Len(t) /\ ~(Len(s) + i <= Len(s)) /\ Len(s) + i - Len(s) = i
      BY <1>1
    <3>. QED
      BY <1>1, <3>1
  <2>. QED
    BY <1>1, <2>1
<1>3. ASSUME NEW i \in 1..Len(u), ~(i \in 1..Len(s)) PROVE \E j \in 1..Len(t) : i = Len(s) + j
  <2>1. i - Len(s) \in 1..Len(t) /\ i = Len(s) + (i - Len(s))
    BY <1>1, <1>3
  <2>. QED
    BY <2>1
<1>4. WordsIn(u) = WordsIn(s) \cup WordsIn(t)
  <2>1. ASSUME NEW i \in 1..Len(u) PROVE u[i] \in WordsIn(s) \cup WordsIn(t)
    BY <1>2, <1>3 DEF WordsIn
  <2>2. ASSUME NEW i \in 1..Len(s) PROVE s[i] \in WordsIn(u)
    BY <1>2 DEF WordsIn
  <2>3. ASSUME NEW i \in 1..Len(t) PROVE t[i] \in WordsIn(u)
    BY <1>2 DEF WordsIn
  <2>. QED
    BY <2>1, <2>2, <2>3 DEF WordsIn
<1>5. Rising(u)
  <2>. SUFFICES ASSUME NEW m \in 1..Len(u), NEW n \in 1..Len(u), m < n PROVE u[m] < u[n]
    BY DEF Rising
  <2>1. CASE n \in 1..Len(s)
    <3>1. m \in 1..Len(s)
      BY <1>1, <2>1
    <3>. QED
      BY <1>2, <2>1, <3>1 DEF Rising
  <2>2. CASE ~(n \in 1..Len(s))
    <3>1. PICK j \in 1..Len(t) : n = Len(s) + j
      BY <1>3, <2>2
    <3>2. CASE m \in 1..Len(s)
      BY <1>2, <3>1, <3>2 DEF Before, WordsIn
    <3>3. CASE ~(m \in 1..Len(s))
      <4>1. PICK i \in 1..Len(t) : m = Len(s) + i
        BY <1>3, <3>3
      <4>2. i < j
        BY <1>1, <3>1, <4>1
      <4>. QED
        BY <1>2, <3>1, <4>1, <4>2 DEF Rising
    <3>. QED
      BY <3>2, <3>3
  <2>. QED
    BY <2>1, <2>2
<1>. QED
  BY <1>1, <1>4, <1>5 DEF u

LEMMA OneWord ==
  ASSUME NEW w \in Nat \cup {DISCONNECTED}
  PROVE  /\ AsWords(w) \in Seq(Nat) /\ Rising(AsWords(w)) /\ WordsIn(AsWords(w)) = Positive(w)
         /\ w \in Nat => <<w>> \in Seq(Nat) /\ Rising(<<w>>) /\ WordsIn(<<w>>) = {w}
<1>1. ASSUME NEW v \in Nat PROVE <<v>> \in Seq(Nat) /\ Rising(<<v>>) /\ WordsIn(<<v>>) = {v}
  <2>1. Len(<<v>>) = 1 /\ <<v>>[1] = v /\ <<v>> \in Seq(Nat)
    OBVIOUS
  <2>2. 1..1 = {1}
    OBVIOUS
  <2>. QED
    BY <2>1, <2>2 DEF Rising, WordsIn
<1>2. CASE w > 0
  BY <1>1, <1>2 DEF AsWords, Positive
<1>3. CASE ~(w > 0)
  BY <1>1, <1>3, EmptyQueue DEF AsWords, Positive, Queue
<1>. QED
  BY <1>2, <1>3

\* The words of a flow one after the other.
Words(g, A, B, N, x, y, O) ==
  <<g>> \o A \o B \o N \o (AsWords(x) \o AsWords(y)) \o O

LEMMA FlowAsSequence ==
  ASSUME NEW lost, NEW g, NEW A, NEW B, NEW N, NEW x, NEW y, NEW O, NEW n,
         Typed(g, A, B, N, x, y, O, n), FlowOf(lost, g, A, B, N, x, y, O, n)
  PROVE  /\ Words(g, A, B, N, x, y, O) \in Seq(Nat) /\ Rising(Words(g, A, B, N, x, y, O))
         /\ WordsIn(Words(g, A, B, N, x, y, O)) =
                         {g} \cup WordsIn(A) \cup WordsIn(B) \cup WordsIn(N) \cup Positive(x)
                         \cup Positive(y) \cup WordsIn(O)
<1>. DEFINE s == Words(g, A, B, N, x, y, O)
            s1 == <<g>> \o A
            s2 == s1 \o B
            s3 == s2 \o N
            t == AsWords(x) \o AsWords(y)
            s4 == s3 \o t
<1>1. /\ g \in Nat /\ x \in Nat \cup {DISCONNECTED} /\ y \in Nat \cup {DISCONNECTED}
      /\ A \in Seq(Nat) /\ B \in Seq(Nat) /\ N \in Seq(Nat) /\ O \in Seq(Nat)
      /\ Rising(A) /\ Rising(B) /\ Rising(N) /\ Rising(O)
      /\ Line(g, WordsIn(A), WordsIn(B), WordsIn(N), Positive(x), Positive(y), WordsIn(O), n)
  BY DEF Typed, Queue, FlowOf
<1>2. /\ <<g>> \in Seq(Nat) /\ Rising(<<g>>) /\ WordsIn(<<g>>) = {g}
      /\ AsWords(x) \in Seq(Nat) /\ Rising(AsWords(x)) /\ WordsIn(AsWords(x)) = Positive(x)
      /\ AsWords(y) \in Seq(Nat) /\ Rising(AsWords(y)) /\ WordsIn(AsWords(y)) = Positive(y)
  BY <1>1, OneWord
<1>3. s1 \in Seq(Nat) /\ Rising(s1) /\ WordsIn(s1) = {g} \cup WordsIn(A)
  BY <1>1, <1>2, ConcatRising DEF Line
<1>. HIDE DEF s1
<1>4. s2 \in Seq(Nat) /\ Rising(s2) /\ WordsIn(s2) = {g} \cup WordsIn(A) \cup WordsIn(B)
  <2>1. Before(WordsIn(s1), WordsIn(B))
    BY <1>1, <1>3 DEF Line, Before
  <2>. QED
    BY <1>1, <1>3, <2>1, ConcatRising
<1>. HIDE DEF s2
<1>5. /\ s3 \in Seq(Nat) /\ Rising(s3)
      /\ WordsIn(s3) = {g} \cup WordsIn(A) \cup WordsIn(B) \cup WordsIn(N)
  <2>1. Before(WordsIn(s2), WordsIn(N))
    BY <1>1, <1>4 DEF Line, Before
  <2>. QED
    BY <1>1, <1>4, <2>1, ConcatRising
<1>. HIDE DEF s3
<1>6. t \in Seq(Nat) /\ Rising(t) /\ WordsIn(t) = Positive(x) \cup Positive(y)
  BY <1>1, <1>2, ConcatRising DEF Line
<1>. HIDE DEF t
<1>7. /\ s4 \in Seq(Nat) /\ Rising(s4)
      /\ WordsIn(s4) = {g} \cup WordsIn(A) \cup WordsIn(B) \cup WordsIn(N)
                       \cup Positive(x) \cup Positive(y)
  <2>1. Before(WordsIn(s3), WordsIn(t))
    BY <1>1, <1>5, <1>6 DEF Line, Before
  <2>2. s4 \in Seq(Nat) /\ Rising(s4) /\ WordsIn(s4) = WordsIn(s3) \cup WordsIn(t)
    BY <1>5, <1>6, <2>1, ConcatRising
  <2>. HIDE DEF s4
  <2>. QED
    BY <1>5, <1>6, <2>2
<1>. HIDE DEF s4
<1>8. Before(WordsIn(s4), WordsIn(O))
  BY <1>1, <1>7 DEF Line, Before
<1>9. s = s4 \o O
  BY DEF Words, s4, t, s3, s2, s1
<1>10. /\ s4 \o O \in Seq(Nat) /\ Rising(s4 \o O)
       /\ WordsIn(s4 \o O) = WordsIn(s4) \cup WordsIn(O)
  BY <1>1, <1>7, <1>8, ConcatRising
<1>. QED
  BY <1>7, <1>9, <1>10

LEMMA TransitFlow ==
  ASSUME TypeOK, FlowInv, NEW p \in Players, NEW c \in Players, p # c
  PROVE  /\ InTransit(p, c) \in Seq(Nat) /\ Rising(InTransit(p, c))
         /\ got[c][p] \in Nat /\ sent[p] \in Nat
         /\ \A w \in WordsIn(InTransit(p, c)) : got[c][p] <= w /\ w <= sent[p]
         /\ got[c][p] \in WordsIn(InTransit(p, c))
         /\ Lost(p, c) = {} => \A w \in Nat : got[c][p] < w /\ w <= sent[p] =>
                                 w \in WordsIn(InTransit(p, c))
<1>. DEFINE g == got[c][p]
            A == ext[c].synced[p]
            B == Collecting(p, c)
            N == int[c].new[p]
            x == Carried(p, c)
            y == Loaded(p)
            O == int[p].outgoing
            n == sent[p]
            lost == Lost(p, c)
            s == InTransit(p, c)
<1>1. /\ Typed(g, A, B, N, x, y, O, n) /\ FlowOf(lost, g, A, B, N, x, y, O, n)
      /\ s = Words(g, A, B, N, x, y, O)
  BY FlowTyped DEF FlowInv, Flow, InTransit, OnTheWire, Words
<1>2. /\ s \in Seq(Nat) /\ Rising(s) /\ g \in Nat /\ n \in Nat
      /\ \A w \in WordsIn(s) : g <= w /\ w <= n
      /\ g \in WordsIn(s)
      /\ lost = {} => \A w \in Nat : g < w /\ w <= n => w \in WordsIn(s)
  <2>. HIDE DEF g, A, B, N, x, y, O, n, lost, s
  <2>1. /\ s \in Seq(Nat) /\ Rising(s)
        /\ WordsIn(s) = {g} \cup WordsIn(A) \cup WordsIn(B) \cup WordsIn(N) \cup Positive(x)
                        \cup Positive(y) \cup WordsIn(O)
    <3>1. /\ Words(g, A, B, N, x, y, O) \in Seq(Nat) /\ Rising(Words(g, A, B, N, x, y, O))
          /\ WordsIn(Words(g, A, B, N, x, y, O)) =
                {g} \cup WordsIn(A) \cup WordsIn(B) \cup WordsIn(N) \cup Positive(x)
                \cup Positive(y) \cup WordsIn(O)
      BY <1>1, FlowAsSequence
    <3>. QED
      BY <1>1, <3>1
  <2>2. g \in Nat /\ n \in Nat
    BY <1>1 DEF Typed
  <2>3. \A w \in WordsIn(s) : g <= w /\ w <= n
    <3>1. \A w \in WordsIn(A) \cup WordsIn(B) \cup WordsIn(N) \cup Positive(x)
                   \cup Positive(y) \cup WordsIn(O) : g < w
      BY <1>1 DEF FlowOf, Line, Before
    <3>2. \A w \in WordsIn(s) : w \in Nat /\ w <= n
      BY <1>1, <2>1 DEF FlowOf, Line
    <3>3. \A w \in WordsIn(s) : w = g \/ g < w
      BY <2>1, <3>1
    <3>. QED
      BY <2>2, <3>2, <3>3
  <2>4. lost = {} => \A w \in Nat : g < w /\ w <= n => w \in WordsIn(s)
    BY <1>1, <2>1 DEF FlowOf, Whole
  <2>. QED
    BY <2>1, <2>2, <2>3, <2>4
<1>. QED
  BY <1>2

-----------------------------------------------------------------------------
(* Words in the order of the sends, none missing, are consecutive numbers. *)

LEMMA LeastNat ==
  ASSUME NEW T, T \subseteq Nat, T # {}
  PROVE  \E x \in T : \A y \in T : x <= y
<1>. DEFINE Less == {ss \in Nat \X Nat : ss[1] < ss[2]}
<1>1. IsWellFoundedOn(Less, Nat)
  BY NatLessThanWellFounded, Zenon DEF OpToRel
<1>2. PICK x \in T : \A y \in T : ~ (<<y, x>> \in Less)
  <2>. HIDE DEF Less
  <2>. QED
    BY <1>1, WFMin
<1>3. \A y \in T : x <= y
  <2>. TAKE y \in T
  <2>1. <<y, x>> \in Nat \X Nat
    OBVIOUS
  <2>2. ~(y < x)
    BY <1>2, <2>1 DEF Less
  <2>. QED
    BY <2>2
<1>. QED
  BY <1>3

\* Induction, as a fact about sets.
LEMMA NatSetInduction ==
  ASSUME NEW S, 0 \in S, \A n \in Nat : n \in S => n + 1 \in S
  PROVE  Nat \subseteq S
<1>. SUFFICES ASSUME Nat \ S # {} PROVE FALSE
  OBVIOUS
<1>1. PICK x \in Nat \ S : \A y \in Nat \ S : x <= y
  BY LeastNat
<1>2. x # 0 /\ x - 1 \in Nat
  BY <1>1
<1>3. x - 1 \in S
  BY <1>1, <1>2
<1>. QED
  BY <1>2, <1>3

LEMMA Consecutive ==
  ASSUME NEW s \in Seq(Nat), Rising(s), NEW g \in Nat, NEW n \in Nat, g \in WordsIn(s),
         \A w \in WordsIn(s) : g <= w /\ w <= n,
         \A w \in Nat : g < w /\ w <= n => w \in WordsIn(s)
  PROVE  s = [i \in 1..(n - g + 1) |-> g + i - 1]
<1>1. Len(s) \in Nat /\ s \in [1..Len(s) -> Nat]
  BY LenProperties
<1>2. \A i \in 1..Len(s) : s[i] \in Nat /\ g <= s[i] /\ s[i] <= n
  BY <1>1 DEF WordsIn
<1>3. \A w \in Nat : g <= w /\ w <= n => \E k \in 1..Len(s) : s[k] = w
  <2>1. \A w \in Nat : g <= w /\ w <= n => w \in WordsIn(s)
    OBVIOUS
  <2>. QED
    BY <2>1 DEF WordsIn
<1>. DEFINE S == {i \in Nat : i + 1 \in 1..Len(s) => s[i + 1] = g + i}
<1>4. 0 \in S
  <2>. SUFFICES ASSUME 1 \in 1..Len(s) PROVE s[1] = g
    OBVIOUS
  <2>1. PICK k \in 1..Len(s) : s[k] = g
    BY DEF WordsIn
  <2>2. k = 1 \/ s[1] < s[k]
    BY <1>1 DEF Rising
  <2>. QED
    BY <1>2, <2>1, <2>2
<1>5. ASSUME NEW i \in Nat, i \in S PROVE i + 1 \in S
  <2>. SUFFICES ASSUME i + 2 \in 1..Len(s) PROVE s[i + 2] = g + i + 1
    OBVIOUS
  <2>1. i + 1 \in 1..Len(s) /\ s[i + 1] = g + i
    BY <1>1, <1>5
  <2>2. g + i < s[i + 2] /\ s[i + 2] \in Nat /\ s[i + 2] <= n
    <3>1. s[i + 1] < s[i + 2]
      BY <2>1 DEF Rising
    <3>. QED
      BY <1>2, <2>1, <3>1
  <2>3. PICK k \in 1..Len(s) : s[k] = g + i + 1
    <3>1. g + i + 1 \in Nat /\ g <= g + i + 1 /\ g + i + 1 <= n
      BY <2>2
    <3>. QED
      BY <1>3, <3>1
  <2>4. CASE k < i + 1
    <3>1. s[k] < s[i + 1]
      BY <2>1, <2>4 DEF Rising
    <3>. QED
      BY <2>1, <2>3, <3>1
  <2>5. CASE k > i + 2
    <3>1. s[i + 2] < s[k]
      BY <2>5 DEF Rising
    <3>. QED
      BY <2>2, <2>3, <3>1
  <2>6. CASE k = i + 1
    BY <2>1, <2>3, <2>6
  <2>7. CASE k = i + 2
    BY <2>3, <2>7
  <2>. QED
    BY <1>1, <2>4, <2>5, <2>6, <2>7
<1>6. Nat \subseteq S
  <2>. HIDE DEF S
  <2>. QED
    BY <1>4, <1>5, NatSetInduction
<1>7. \A i \in 1..Len(s) : s[i] = g + i - 1
  <2>1. ASSUME NEW i \in 1..Len(s) PROVE i - 1 \in Nat /\ (i - 1) + 1 = i
    BY <1>1
  <2>2. ASSUME NEW i \in 1..Len(s) PROVE s[i] = g + (i - 1)
    BY <1>6, <2>1
  <2>. QED
    BY <1>1, <2>2
<1>8. Len(s) = n - g + 1
  <2>1. PICK k \in 1..Len(s) : s[k] = n
    BY <1>2, <1>3 DEF WordsIn
  <2>2. n = g + k - 1
    BY <1>7, <2>1
  <2>3. Len(s) \in 1..Len(s)
    BY <1>1, <2>1
  <2>4. g + Len(s) - 1 <= n
    BY <1>2, <1>7, <2>3
  <2>5. k <= Len(s) /\ k \in Nat /\ Len(s) \in Nat
    BY <1>1, <2>1
  <2>6. ASSUME NEW l \in Nat, NEW j \in Nat, j <= l, n = g + j - 1, g + l - 1 <= n
        PROVE  l = n - g + 1
    BY <2>6
  <2>. QED
    BY <2>2, <2>4, <2>5, <2>6
<1>. QED
  BY <1>1, <1>7, <1>8

-----------------------------------------------------------------------------
(* The promises of the cable.                                              *)

(* A message is read at most once and in the order of the sends, whatever  *)
(* is reset, unplugged or switched off in between.                         *)
THEOREM ReadAtMostOnce == Spec => []AtMostOnce
<1>1. TypeOK /\ FlowInv => AtMostOnce
  BY TransitFlow DEF AtMostOnce, Rising
<1>. QED
  BY <1>1, InitTypes, InitCable, InitFlow, StepTypes, StepCable, StepFlow, PTL DEF Spec

(* Every message that send() accepted has been read or is on its way, while *)
(* neither end was reset, unplugged or off and no queue was full.          *)
THEOREM NoMessageIsLost == Spec => []NothingLost
<1>1. ASSUME TypeOK, FlowInv, NEW p \in Players, NEW c \in Players, p # c, {p, c} \cap lossy = {}
      PROVE  InTransit(p, c) = [n \in 1..(sent[p] - got[c][p] + 1) |-> got[c][p] + n - 1]
  <2>1. Lost(p, c) = {}
    BY <1>1 DEF Lost
  <2>. DEFINE s == InTransit(p, c)
              g == got[c][p]
              n == sent[p]
  <2>2. /\ s \in Seq(Nat) /\ Rising(s) /\ g \in Nat /\ n \in Nat /\ g \in WordsIn(s)
        /\ \A w \in WordsIn(s) : g <= w /\ w <= n
        /\ \A w \in Nat : g < w /\ w <= n => w \in WordsIn(s)
    BY <1>1, <2>1, TransitFlow
  <2>3. s = [i \in 1..(n - g + 1) |-> g + i - 1]
    <3>. HIDE DEF s, g, n
    <3>. QED
      BY <2>2, Consecutive
  <2>. QED
    BY <2>3
<1>2. TypeOK /\ FlowInv => NothingLost
  BY <1>1 DEF NothingLost
<1>. QED
  BY <1>2, InitTypes, InitCable, InitFlow, StepTypes, StepCable, StepFlow, PTL DEF Spec

=============================================================================
