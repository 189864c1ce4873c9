--------------------------- MODULE WirelessProofs ---------------------------
(* Proofs about Wireless, for any number of clients and any configuration. *)
EXTENDS WirelessInvariants, FiniteSetTheorems, NaturalsInduction, WellFoundedInduction, TLAPS

\* CInv is the shape and what it says of each console.
LEMMA ByConsole == CInv <=> Shape /\ \A c \in Consoles : Apart(c)
  BY DEF CInv, HandlersKeptOut, OneCommandAtATime, Apart

\* A step of one console that leaves the others alone keeps CInv when it keeps
\* this console's part.
LEMMA OneConsole ==
  ASSUME CInv, Shape', NEW c \in Consoles, Apart(c)',
         \A d \in Consoles \ {c} : Same(d)
  PROVE  CInv'
<1>1. \A d \in Consoles \ {c} : Apart(d)'
  <2>. SUFFICES ASSUME NEW d \in Consoles \ {c} PROVE Apart(d)'
    OBVIOUS
  <2>. QED
    BY ByConsole, Same(d) DEF Apart, Same, isSessionActive
<1>. QED
  BY <1>1 DEF CInv, HandlersKeptOut, OneCommandAtATime, Apart

\* A restart takes the command and the session from the console, so whatever its
\* program is about, it is kept apart.
LEMMA RestartApart ==
  ASSUME CInv, NEW c \in Consoles, NEW state \in {"AUTHENTICATED", "NEEDS_RESET"},
         Restarted(c, state), UNCHANGED at \/ Returns(c)
  PROVE  CInv'
<1>1. Shape'
  BY DEF CInv, Shape, Restarted, Returns, GoTo, FreshRaw, Places
<1>2. Apart(c)'
  BY DEF CInv, Shape, Apart, Restarted, isSessionActive, FreshRaw
<1>3. \A d \in Consoles \ {c} : Same(d)
  BY DEF CInv, Shape, Same, Restarted, Returns, GoTo, FreshRaw
<1>. QED
  BY <1>1, <1>2, <1>3, OneConsole

\* A handler starts a command only when the program does not have the adapter
\* and there is a session.
LEMMA StartsApart ==
  ASSUME CInv, NEW c \in Consoles, NEW x, NEW type, NEW data, Starts(c, x, type, data),
         ~isSendingSyncCommand[c], isSessionActive(c),
         UNCHANGED <<raw, isSendingSyncCommand, program>>
  PROVE  CInv'
<1>1. Shape'
  BY DEF CInv, Shape, Starts, program
<1>2. Apart(c)'
  BY DEF CInv, HandlersKeptOut, Apart, Starts, program, isSessionActive
<1>3. \A d \in Consoles \ {c} : Same(d)
  BY DEF CInv, Shape, Same, Starts, program
<1>. QED
  BY <1>1, <1>2, <1>3, OneConsole

\* The end of a command leaves the adapter to the program.
LEMMA EndsApart ==
  ASSUME CInv, NEW c \in Consoles, NEW x, NEW n, Ends(c, x),
         UNCHANGED raw \/ raw' = [raw EXCEPT ![c].playerCount = n]
  PROVE  CInv'
<1>1. Shape'
  BY DEF CInv, Shape, Ends, program
<1>2. Apart(c)'
  BY DEF CInv, Shape, HandlersKeptOut, Apart, Ends, program, isSessionActive
<1>3. \A d \in Consoles \ {c} : Same(d)
  BY DEF CInv, Shape, Same, Ends, program
<1>. QED
  BY <1>1, <1>2, <1>3, OneConsole

\* What a program does outside of a call with a command of its own does not
\* matter: it does not have the adapter.
LEMMA OutsideApart ==
  ASSUME CInv, NEW c \in Consoles, at'[c] \notin {"check", "command", "answered"}, Shape',
         \A d \in Consoles \ {c} : Same(d)
  PROVE  CInv'
  BY OneConsole DEF Apart

-----------------------------------------------------------------------------
(* Every step keeps the invariant.                                         *)

LEMMA TimerApart ==
  ASSUME CInv, NEW c \in Consoles, _onTimer(c)
  PROVE  CInv'
<1>1. CASE SignalLevelStart(c)
  BY <1>1, StartsApart DEF SignalLevelStart, _onTimer, program
<1>2. CASE sendPendingData(c) /\ isSendingSyncCommand[c]
  BY <1>2 DEF sendPendingData, _onTimer, program, CInv, Shape, HandlersKeptOut,
              OneCommandAtATime, isSessionActive
<1>3. CASE sendPendingData(c) /\ ~isSendingSyncCommand[c]
  BY <1>3, StartsApart DEF sendPendingData, _onTimer, program
<1>4. CASE ~isSendingSyncCommand[c] /\ Starts(c, session[c], "RECEIVE_DATA", None)
  BY <1>4, StartsApart DEF _onTimer, program
<1>. QED
  BY <1>1, <1>2, <1>3, <1>4 DEF _onTimer, TransferData

LEMMA SerialApart ==
  ASSUME CInv, NEW c \in Consoles, _onSerial(c)
  PROVE  CInv'
<1>1. CASE SignalLevelEnd(c)
  BY <1>1, EndsApart DEF SignalLevelEnd
<1>2. CASE SendDataEnd(c)
  BY <1>2, EndsApart DEF SendDataEnd
<1>3. CASE ReceiveDataEnd(c)
  BY <1>3, EndsApart DEF ReceiveDataEnd
<1>4. CASE CommandFails(c)
  BY <1>4, RestartApart DEF CommandFails, reset, program
<1>. QED
  BY <1>1, <1>2, <1>3, <1>4 DEF _onSerial

LEMMA VBlankApart ==
  ASSUME CInv, NEW c \in Consoles, _onVBlank(c)
  PROVE  CInv'
<1>1. CASE reset(c)
  BY <1>1, RestartApart DEF _onVBlank, reset, program
<1>2. CASE UNCHANGED <<raw, command, isSendingSyncCommand, at>>
  BY <1>2 DEF CInv, Shape, HandlersKeptOut, OneCommandAtATime, isSessionActive
<1>. QED
  BY <1>1, <1>2 DEF _onVBlank, program

\* The program outside of a session, and into one.
LEMMA SessionApart ==
  ASSUME CInv, NEW c \in Consoles,
         \/ serve /\ c = 0
         \/ getServersAsyncStart(c) \/ getServersAsyncEnd(c)
         \/ connect(c) \/ keepConnecting(c)
  PROVE  CInv'
<1>1. at[c] = "idle" /\ UNCHANGED at
  BY DEF serve, getServersAsyncStart, getServersAsyncEnd, connect, keepConnecting, Calls,
         Enters, program
<1>2. Shape' /\ \A d \in Consoles \ {c} : Same(d)
  <2>1. CASE serve /\ c = 0
    BY <2>1 DEF serve, Enters, Opened, CInv, Shape, Same, program
  <2>2. CASE getServersAsyncStart(c)
    <3>1. /\ raw' = [raw EXCEPT ![c].state = "SEARCHING"]
          /\ UNCHANGED <<at, command, isSendingSyncCommand>>
      BY <2>2 DEF getServersAsyncStart, program
    <3>. QED
      BY <3>1 DEF CInv, Shape, Same
  <2>3. CASE getServersAsyncEnd(c)
    BY <2>3 DEF getServersAsyncEnd, Enters, CInv, Shape, Same, program
  <2>4. CASE connect(c)
    <3>1. /\ raw' = [raw EXCEPT ![c] = [raw[c] EXCEPT !.state = "CONNECTING"]]
          /\ UNCHANGED <<at, command, isSendingSyncCommand>>
      BY <2>4 DEF connect, Enters, program
    <3>. QED
      BY <3>1 DEF CInv, Shape, Same
  <2>5. CASE keepConnecting(c)
    <3>1. /\ raw' = [raw EXCEPT ![c].state = "CONNECTED"]
          /\ UNCHANGED <<at, command, isSendingSyncCommand>>
      BY <2>5 DEF keepConnecting, program
    <3>. QED
      BY <3>1 DEF CInv, Shape, Same
  <2>. QED
    BY <2>1, <2>2, <2>3, <2>4, <2>5
<1>. QED
  BY <1>1, <1>2, OutsideApart

\* send(), receive() and resetTimeout().
LEMMA MessagesApart ==
  ASSUME CInv, NEW c \in Consoles,
         send(c) \/ Push(c) \/ receive(c) \/ Popped(c) \/ resetTimeout(c)
  PROVE  CInv'
<1>1. UNCHANGED <<raw, command, isSendingSyncCommand>>
  BY DEF send, Push, receive, Popped, resetTimeout, Rest, Session
<1>2. PICK place \in {"idle", "push", "pop"} : at' = [at EXCEPT ![c] = place]
  BY DEF send, Push, receive, Popped, resetTimeout, GoTo, Calls, program, CInv, Shape
<1>3. Shape' /\ \A d \in Consoles \ {c} : Same(d)
  BY <1>1, <1>2 DEF CInv, Shape, Same, Places
<1>4. at'[c] = place
  BY <1>2 DEF CInv, Shape
<1>. QED
  BY <1>3, <1>4, OutsideApart

\* A call with a command of its own, from its flag to the answer.
LEMMA SyncApart ==
  ASSUME CInv, NEW c \in Consoles,
         \/ \E name \in {"serve", "closeServer", "getSignalLevel"} : Sync(c, name)
         \/ Check(c) \/ Answered(c) \/ Finished(c)
  PROVE  CInv'
<1>1. CASE \E name \in {"serve", "closeServer", "getSignalLevel"} : Sync(c, name)
  <2>1. /\ at' = [at EXCEPT ![c] = "check"]
        /\ isSendingSyncCommand' = [isSendingSyncCommand EXCEPT ![c] = TRUE]
        /\ UNCHANGED <<raw, command>>
    BY <1>1 DEF Sync, GoTo, Rest
  <2>. QED
    BY <2>1, OneConsole DEF CInv, Shape, Places, Apart, Same
<1>2. CASE Check(c)
  <2>1. UNCHANGED <<raw, command>> /\ at[c] = "check"
    BY <1>2 DEF Check, Rest
  <2>2. CASE isAsyncCommandActive(c)
    <3>1. /\ at' = [at EXCEPT ![c] = "idle"]
          /\ isSendingSyncCommand' = [isSendingSyncCommand EXCEPT ![c] = FALSE]
      BY <1>2, <2>2 DEF Check, Returns, GoTo
    <3>. QED
      BY <2>1, <3>1, OneConsole DEF CInv, Shape, Places, Apart, Same
  <2>3. CASE ~isAsyncCommandActive(c)
    <3>1. at' = [at EXCEPT ![c] = "command"] /\ UNCHANGED isSendingSyncCommand
      BY <1>2, <2>3 DEF Check, GoTo
    <3>2. Apart(c)'
      BY <2>1, <2>3, <3>1 DEF CInv, Shape, HandlersKeptOut, Apart, isAsyncCommandActive,
                               isSessionActive
    <3>. QED
      BY <2>1, <3>1, <3>2, OneConsole DEF CInv, Shape, Places, Same
  <2>. QED
    BY <2>2, <2>3
<1>3. CASE Answered(c)
  <2>1. /\ at' = [at EXCEPT ![c] = "answered"] /\ at[c] = "command"
        /\ UNCHANGED <<raw, command, isSendingSyncCommand>>
    BY <1>3 DEF Answered, GoTo, Rest
  <2>2. Apart(c)'
    BY <2>1 DEF CInv, Shape, HandlersKeptOut, OneCommandAtATime, Apart, isSessionActive
  <2>. QED
    BY <2>1, <2>2, OneConsole DEF CInv, Shape, Places, Same
<1>4. CASE Finished(c)
  <2>1. /\ at' = [at EXCEPT ![c] = "idle"]
        /\ isSendingSyncCommand' = [isSendingSyncCommand EXCEPT ![c] = FALSE]
        /\ UNCHANGED command
    BY <1>4 DEF Finished, Returns, GoTo
  <2>2. /\ raw' = [raw EXCEPT ![c] = raw'[c]]
        /\ raw'[c] = [state |-> raw'[c].state, playerCount |-> raw'[c].playerCount,
                      isServerClosed |-> raw'[c].isServerClosed]
    BY <1>4 DEF Finished, Opened, CInv, Shape
  <2>3. Shape' /\ \A d \in Consoles \ {c} : Same(d)
    BY <2>1, <2>2 DEF CInv, Shape, Places, Same
  <2>. QED
    BY <2>1, <2>3, OutsideApart DEF CInv, Shape
<1>. QED
  BY <1>1, <1>2, <1>3, <1>4

LEMMA StepCInv == CInv /\ [Next]_vars => CInv'
<1>. SUFFICES ASSUME CInv, [Next]_vars PROVE CInv'
  OBVIOUS
<1>1. ASSUME NEW c \in Consoles, FailedCall(c) PROVE CInv'
  BY <1>1, RestartApart DEF FailedCall, reset, program
<1>2. ASSUME NEW c \in Consoles, Refused(c) PROVE CInv'
  BY <1>2, RestartApart DEF Refused, reset
<1>3. ASSUME NEW c \in Consoles, deactivate(c) \/ activate(c) PROVE CInv'
  BY <1>3, RestartApart DEF deactivate, activate, program
<1>4. CASE serve
  BY <1>4, SessionApart, 0 \in Consoles DEF Consoles
<1>5. CASE UNCHANGED vars
  BY <1>5 DEF vars, program, CInv, Shape, HandlersKeptOut, OneCommandAtATime, isSessionActive
<1>. QED
  BY <1>1, <1>2, <1>3, <1>4, <1>5, TimerApart, SerialApart, VBlankApart, SessionApart,
     MessagesApart, SyncApart DEF Next

LEMMA InitCInv == Init => CInv
  BY DEF Init, CInv, Shape, Places, FreshRaw, HandlersKeptOut, OneCommandAtATime

(* The program's command and a handler's are never with the adapter at the *)
(* same time, whatever the configuration: LinkRawWireless has one buffer   *)
(* and one state machine for both.                                         *)
THEOREM CommandsStayApart == Spec => []OneCommandAtATime
<1>1. CInv => OneCommandAtATime
  BY DEF CInv
<1>. QED
  BY <1>1, InitCInv, StepCInv, PTL DEF Spec

-----------------------------------------------------------------------------
(* Noticing who has left.  First, what the operations on messages leave    *)
(* alone: the counters of frames, and who was heard with which heartbeat.  *)

LEMMA KeptOn ==
  ASSUME NEW x, NEW y, NEW z, Kept(x, y), Kept(y, z)
  PROVE  Kept(x, z)
  BY DEF Kept, SameWatch

LEMMA LeastNat ==
  ASSUME NEW T, T \subseteq Nat, T # {}
  PROVE  Least(T) \in T /\ \A m \in T : Least(T) <= m
<1>. DEFINE Less == {ss \in Nat \X Nat : ss[1] < ss[2]}
<1>1. IsWellFoundedOn(Less, Nat)
  BY NatLessThanWellFounded, Zenon DEF OpToRel
<1>2. PICK x \in T : \A y \in T : ~ (<<y, x>> \in Less)
  <2>. HIDE DEF Less
  <2>. QED
    BY <1>1, WFMin
<1>3. \A y \in T : x <= y
  <2>. TAKE y \in T
  <2>1. <<y, x>> \in Nat \X Nat
    OBVIOUS
  <2>. QED
    BY <1>2, <2>1
<1>. QED
  BY <1>3 DEF Least

LEMMA NatSetInduction ==
  ASSUME NEW S, 0 \in S, \A n \in Nat : n \in S => n + 1 \in S
  PROVE  Nat \subseteq S
<1>. SUFFICES ASSUME Nat \ S # {} PROVE FALSE
  OBVIOUS
<1>. DEFINE x == Least(Nat \ S)
<1>1. x \in Nat \ S /\ \A y \in Nat \ S : x <= y
  BY LeastNat
<1>. HIDE DEF x
<1>2. x # 0 /\ x - 1 \in Nat
  BY <1>1
<1>3. x - 1 \in S
  BY <1>1, <1>2
<1>4. x - 1 + 1 \in S
  BY <1>2, <1>3
<1>. QED
  BY <1>1, <1>2, <1>4

LEMMA Lengths ==
  ASSUME NEW q \in Queue
  PROVE  /\ q \in Seq(Message) /\ Len(q) \in Nat /\ DOMAIN q = 1..Len(q) /\ Len(q) <= Size
         /\ Size \in Nat /\ Size > 0
  BY PacketsAssumption DEF Queue

LEMMA NumberedNat ==
  ASSUME NEW q \in Queue
  PROVE  Numbered(q) \in Nat /\ Numbered(q) <= Len(q)
<1>1. Len(q) \in Nat /\ DOMAIN q = 1..Len(q)
  BY Lengths
<1>2. IsFiniteSet(1..Len(q)) /\ Cardinality(1..Len(q)) = Len(q)
  <2>. DEFINE l == Len(q)
  <2>1. l \in Nat /\ 1 \in Int /\ l \in Int
    BY <1>1
  <2>. HIDE DEF l
  <2>2. IsFiniteSet(1..l) /\ Cardinality(1..l) = IF 1 > l THEN 0 ELSE l - 1 + 1
    BY <2>1, FS_Interval
  <2>3. IsFiniteSet(1..l) /\ Cardinality(1..l) = l
    BY <2>1, <2>2
  <2>. QED
    BY <2>3 DEF l
<1>3. {n \in DOMAIN q : HasId(q[n])} \subseteq 1..Len(q)
  BY <1>1
<1>. QED
  BY <1>1, <1>2, <1>3, FS_Subset, FS_CardinalityType DEF Numbered

LEMMA PartIsQueue ==
  ASSUME NEW q \in Queue, NEW m \in Nat, NEW n \in Nat, m > 0, n <= Len(q)
  PROVE  SubSeq(q, m, n) \in Queue /\ Len(SubSeq(q, m, n)) = IF m <= n THEN n - m + 1 ELSE 0
<1>1. /\ q \in Seq(Message) /\ Len(q) \in Nat /\ Len(q) <= Size /\ Size \in Nat
  BY Lengths
<1>2. SubSeq(q, m, n) \in Seq(Message)
  BY <1>1
<1>3. Len(SubSeq(q, m, n)) = IF m <= n THEN n - m + 1 ELSE 0
  BY <1>1
<1>. QED
  BY <1>1, <1>2, <1>3 DEF Queue

LEMMA MoveKeeps ==
  ASSUME NEW src \in Queue, NEW dst \in Queue
  PROVE  MovedTo(src, dst) \in Queue /\ MovedFrom(src, dst) \in Queue
<1>1. /\ Size \in Nat /\ Len(src) \in Nat /\ Len(dst) \in Nat /\ Len(dst) <= Size
      /\ dst \in Seq(Message)
  BY Lengths
<1>. DEFINE n == Fits(src, dst)
<1>2. n \in Nat /\ n <= Len(src) /\ n <= Size - Len(dst)
  BY <1>1 DEF Fits
<1>. HIDE DEF n
<1>3. SubSeq(src, 1, n) \in Queue /\ Len(SubSeq(src, 1, n)) = n
  BY <1>2, PartIsQueue
<1>4. SubSeq(src, n + 1, Len(src)) \in Queue
  BY <1>1, <1>2, PartIsQueue
<1>5. SubSeq(src, 1, n) \in Seq(Message)
  BY <1>3, Lengths
<1>6. /\ dst \o SubSeq(src, 1, n) \in Seq(Message)
      /\ Len(dst \o SubSeq(src, 1, n)) = Len(dst) + n
  BY <1>1, <1>3, <1>5
<1>7. dst \o SubSeq(src, 1, n) \in Queue
  BY <1>1, <1>2, <1>6 DEF Queue
<1>. QED
  BY <1>4, <1>7 DEF MovedTo, MovedFrom, n

LEMMA CopyOutgoingKeeps ==
  ASSUME NEW x, Sending(x)
  PROVE  Kept(x, copyOutgoingState(x))
<1>1. CASE x.isWriting
  BY <1>1 DEF copyOutgoingState, Kept, SameWatch
<1>2. CASE ~x.isWriting
  <2>. DEFINE o == MovedTo(x.newOutgoing, x.outgoing)
              n == MovedFrom(x.newOutgoing, x.outgoing)
              y == [x EXCEPT !.outgoing = o, !.newOutgoing = n]
  <2>1. o \in Queue /\ n \in Queue
    BY MoveKeeps DEF Sending
  <2>2. y = copyOutgoingState(x)
    BY <1>2 DEF copyOutgoingState
  <2>. HIDE DEF o, n
  <2>3. Kept(x, y)
    BY <2>1 DEF Kept, Sending, SameWatch, SessionFields
  <2>. QED
    BY <2>2, <2>3
<1>. QED
  BY <1>1, <1>2

LEMMA CopyIncomingKeeps ==
  ASSUME NEW x, Sending(x)
  PROVE  Kept(x, copyIncomingState(x))
<1>. DEFINE i == MovedTo(x.newIncoming, x.incoming)
            n == MovedFrom(x.newIncoming, x.incoming)
            y == [x EXCEPT !.incoming = i, !.newIncoming = n]
<1>1. copyIncomingState(x) \in {x, y}
  BY DEF copyIncomingState
<1>. HIDE DEF i, n
<1>2. Kept(x, y)
  BY DEF Kept, Sending, SameWatch, SessionFields
<1>3. Kept(x, x)
  BY DEF Kept, SameWatch
<1>. QED
  BY <1>1, <1>2, <1>3

LEMMA LeastOfThree ==
  ASSUME NEW a \in Int, NEW b \in Int, NEW c \in Int
  PROVE  Least({a, b, c}) \in Int
<1>1. \E n \in {a, b, c} : \A m \in {a, b, c} : n <= m
  OBVIOUS
<1>. QED
  BY <1>1 DEF Least

LEMMA CarriedInt ==
  ASSUME NEW x, Sending(x), NEW c
  PROVE  Carried(x, c) \in Int
<1>1. Len(x.outgoing) \in Int /\ Numbered(x.outgoing) \in Int /\ x.inflightCount \in Int
  BY Lengths, NumberedNat DEF Sending
<1>2. MaxInflight(c) \in Int /\ Transfer \in Int
  BY PacketsAssumption DEF MaxInflight, PacketIds
<1>3. Numbered(x.outgoing) + MaxInflight(c) - x.inflightCount \in Int
  BY <1>1, <1>2
<1>. QED
  BY <1>1, <1>2, <1>3, LeastOfThree DEF Carried

LEMMA AssignedKeeps ==
  ASSUME NEW x, Sending(x), NEW c
  PROVE  Kept(x, Assigned(x, c))
<1>. DEFINE old == Numbered(x.outgoing)
            new == IF Carried(x, c) > old THEN Carried(x, c) - old ELSE 0
            o == [n \in DOMAIN x.outgoing |->
                    IF n \in old + 1 .. old + new
                    THEN [x.outgoing[n] EXCEPT !.id = (x.lastPacketId + n - old) % PacketIds(c)]
                    ELSE x.outgoing[n]]
            h == IF c = 0 THEN x.localHeartbeat ELSE (x.localHeartbeat + 1) % Heartbeats
            l == (x.lastPacketId + new) % PacketIds(c)
            y == [x EXCEPT !.outgoing = o, !.inflightCount = @ + new, !.lastPacketId = l,
                           !.localHeartbeat = h]
<1>1. old \in Nat /\ new \in Int
  BY NumberedNat, CarriedInt DEF Sending
<1>2. PacketIds(c) \in Nat /\ PacketIds(c) > 0
  BY PacketsAssumption DEF PacketIds
<1>3. y = Assigned(x, c)
  BY DEF Assigned, Sending, SessionFields
<1>. HIDE DEF old, new
<1>4. o \in Queue
  <2>1. /\ x.outgoing \in Seq(Message) /\ DOMAIN x.outgoing = 1..Len(x.outgoing)
        /\ Len(x.outgoing) \in Nat /\ Len(x.outgoing) <= Size
    BY Lengths DEF Sending
  <2>2. ASSUME NEW n \in 1..Len(x.outgoing) PROVE o[n] \in Message
    <3>1. x.outgoing[n] \in Message
      BY <2>1
    <3>2. (x.lastPacketId + n - old) % PacketIds(c) \in Int
      BY <1>1, <1>2 DEF Sending
    <3>. QED
      BY <2>1, <3>1, <3>2 DEF Message
  <2>3. o = [n \in 1..Len(x.outgoing) |-> o[n]]
    BY <2>1
  <2>. HIDE DEF o
  <2>4. o \in Seq(Message) /\ Len(o) = Len(x.outgoing)
    BY <2>1, <2>2, <2>3, SMT
  <2>. QED
    BY <2>1, <2>4 DEF Queue
<1>5. l \in Int
  BY <1>1, <1>2 DEF Sending
<1>. HIDE DEF o, h, l
<1>6. Kept(x, y)
  BY <1>1, <1>4, <1>5 DEF Kept, Sending, SameWatch, SessionFields
<1>. QED
  BY <1>3, <1>6

LEMMA ReleasedKeeps ==
  ASSUME NEW x, Sending(x), NEW c, NEW n \in Nat, n <= Len(x.outgoing)
  PROVE  Kept(x, Released(x, c, n))
<1>. DEFINE o == SubSeq(x.outgoing, n + 1, Len(x.outgoing))
            f == IF c = 0 THEN x.forwardedCount - Forwarded(SubSeq(x.outgoing, 1, n))
                          ELSE x.forwardedCount
            y == [x EXCEPT !.outgoing = o, !.inflightCount = @ - n, !.forwardedCount = f]
<1>1. y = Released(x, c, n)
  BY DEF Released, Sending, SessionFields
<1>2. o \in Queue
  <2>1. /\ x.outgoing \in Queue /\ Len(x.outgoing) \in Nat /\ n + 1 \in Nat /\ n + 1 > 0
        /\ Len(x.outgoing) <= Len(x.outgoing)
    BY Lengths DEF Sending
  <2>. QED
    BY <2>1, PartIsQueue
<1>. HIDE DEF o, f
<1>3. Kept(x, y)
  BY <1>2 DEF Kept, Sending, SameWatch, SessionFields
<1>. QED
  BY <1>1, <1>3

LEMMA ClearInflightKeeps ==
  ASSUME NEW x, Sending(x), NEW c
  PROVE  Kept(x, clearInflightMessagesIfNeeded(x, c))
<1>1. CASE x.retransmission
  BY <1>1 DEF clearInflightMessagesIfNeeded, Kept, SameWatch
<1>2. CASE ~x.retransmission
  <2>. DEFINE r == Released(x, c, Numbered(x.outgoing))
              y == [r EXCEPT !.inflightCount = 0]
  <2>1. Kept(x, r)
    BY NumberedNat, ReleasedKeeps DEF Sending
  <2>2. y = clearInflightMessagesIfNeeded(x, c)
    BY <1>2 DEF clearInflightMessagesIfNeeded
  <2>. HIDE DEF r
  <2>3. Kept(x, y)
    BY <2>1 DEF Kept, Sending, SameWatch, SessionFields
  <2>. QED
    BY <2>2, <2>3
<1>. QED
  BY <1>1, <1>2

LEMMA RemoveConfirmedKeeps ==
  ASSUME NEW x, Sending(x), NEW c, NEW ack
  PROVE  Kept(x, removeConfirmedMessages(x, c, ack))
<1>. DEFINE confirmed(k) == /\ HasId(x.outgoing[k])
                            /\ (ack - x.outgoing[k].id) % PacketIds(c) <= MaxInflight(c)
            S == {k \in 1 .. Len(x.outgoing) + 1 : k = Len(x.outgoing) + 1 \/ ~confirmed(k)}
            n == Least(S) - 1
<1>1. Len(x.outgoing) \in Nat
  BY Lengths DEF Sending
<1>2. removeConfirmedMessages(x, c, ack) = Released(x, c, n)
  BY DEF removeConfirmedMessages
<1>3. Len(x.outgoing) + 1 \in S /\ S \subseteq Nat
  BY <1>1
<1>4. Least(S) \in S
  <2>. HIDE DEF S
  <2>. QED
    BY <1>3, LeastNat
<1>5. n \in Nat /\ n <= Len(x.outgoing)
  <2>. DEFINE k == Least(S)
  <2>1. k \in 1 .. Len(x.outgoing) + 1
    BY <1>4
  <2>. HIDE DEF k
  <2>2. k - 1 \in Nat /\ k - 1 <= Len(x.outgoing)
    BY <1>1, <2>1
  <2>. QED
    BY <2>2 DEF k
<1>. HIDE DEF n
<1>. QED
  BY <1>2, <1>5, ReleasedKeeps

LEMMA PushKeeps ==
  ASSUME NEW q \in Queue, NEW item \in Message
  PROVE  push(q, item) \in Queue /\ (~isFull(q) => Append(q, item) \in Queue)
<1>1. /\ q \in Seq(Message) /\ Len(q) \in Nat /\ Len(q) <= Size /\ Size \in Nat /\ Size > 0
  BY Lengths
<1>2. /\ Append(q, item) \in Seq(Message)
      /\ Len(Append(q, item)) = Len(q) + 1
  BY <1>1
<1>3. CASE Len(q) = Size
  <2>1. Tail(q) \in Seq(Message) /\ Len(Tail(q)) = Len(q) - 1
    BY <1>1, <1>3
  <2>2. /\ Append(Tail(q), item) \in Seq(Message)
        /\ Len(Append(Tail(q), item)) = Len(q)
    BY <1>1, <2>1
  <2>. QED
    BY <1>1, <1>3, <2>2 DEF push, isFull, Queue
<1>4. CASE Len(q) # Size
  BY <1>1, <1>2, <1>4 DEF push, isFull, Queue
<1>. QED
  BY <1>3, <1>4

-----------------------------------------------------------------------------
(* A message that is received, and all those of a transfer.                *)

LEMMA NotedKeeps ==
  ASSUME NEW x, Sending(x), NEW i, NEW packetId
  PROVE  Kept(x, Noted(x, i, packetId))
<1>. DEFINE n == IF x.retransmission \/ (i = 0 /\ ~x.didReceiveFirstPacketFromServer)
                 THEN packetId ELSE x.lastPacketIdFrom[i]
            l == [x.lastPacketIdFrom EXCEPT ![i] = n]
            f == x.didReceiveFirstPacketFromServer \/ i = 0
            y == [x EXCEPT !.lastPacketIdFrom = l, !.didReceiveFirstPacketFromServer = f]
<1>1. y = Noted(x, i, packetId)
  BY DEF Noted, Sending, SessionFields
<1>. HIDE DEF l, f
<1>2. Kept(x, y)
  BY DEF Kept, Sending, SameWatch, SessionFields
<1>. QED
  BY <1>1, <1>2

LEMMA ForwardKeeps ==
  ASSUME NEW x, Sending(x), NEW message \in Message, NEW count
  PROVE  Kept(x, forwardMessage(x, message, count))
<1>. DEFINE y == [x EXCEPT !.overflow = TRUE]
            o == Append(x.outgoing, message)
            f == x.forwardedCount + 1
            z == [x EXCEPT !.outgoing = o, !.forwardedCount = f]
<1>1. \/ forwardMessage(x, message, count) \in {x, y}
      \/ ~isFull(x.outgoing) /\ forwardMessage(x, message, count) = z
  BY DEF forwardMessage
<1>2. Kept(x, x) /\ Kept(x, y)
  BY DEF Kept, Sending, SameWatch, SessionFields
<1>3. ASSUME ~isFull(x.outgoing) PROVE Kept(x, z)
  <2>1. o \in Queue
    BY <1>3, PushKeeps DEF Sending
  <2>. HIDE DEF o, f
  <2>. QED
    BY <2>1 DEF Kept, Sending, SameWatch, SessionFields
<1>. QED
  BY <1>1, <1>2, <1>3

LEMMA MessageKeeps ==
  ASSUME NEW x, Sending(x), NEW c, NEW i \in Nat, NEW message \in Packet, NEW packetId, NEW count
  PROVE  Kept(x, processMessage(x, c, i, message, packetId, count))
<1>. DEFINE player == IF i = 0 THEN message.player ELSE i
            item == [data |-> message.data, player |-> player, id |-> NO_ID_ASSIGNED_YET]
            noted == Noted(x, i, packetId)
            q == push(noted.newIncoming, item)
            f == noted.overflow \/ isFull(x.newIncoming)
            added == [noted EXCEPT !.newIncoming = q, !.overflow = f]
<1>1. processMessage(x, c, i, message, packetId, count)
        \in {x, noted, forwardMessage(added, item, count), added}
  BY DEF processMessage
<1>2. item \in Message
  BY DEF Packet, Message, NO_ID_ASSIGNED_YET
<1>. HIDE DEF item
<1>3. Kept(x, noted)
  BY NotedKeeps
<1>. HIDE DEF noted, q, f
<1>4. Kept(x, added)
  BY <1>3 DEF Kept, Sending, SameWatch, SessionFields
<1>. HIDE DEF added
<1>5. Kept(x, forwardMessage(added, item, count))
  BY <1>2, <1>4, ForwardKeeps, KeptOn DEF Kept
<1>6. Kept(x, x)
  BY DEF Kept, SameWatch
<1>. QED
  BY <1>1, <1>3, <1>4, <1>5, <1>6

LEMMA ProcessedExists ==
  ASSUME NEW x, NEW c, NEW i, NEW transfer, NEW count, NEW n \in Nat
  PROVE  \E f : Processed(f, x, c, i, transfer, count, n)
<1>. DEFINE Go(s, k) == processMessage(s, c, i, transfer.messages[k],
                          (transfer.firstPacketId + k - 1) % PacketIds(i), count)
            S == {k \in Nat : \E f : Processed(f, x, c, i, transfer, count, k)}
<1>1. 0 \in S
  <2>. DEFINE f == [k \in 0..0 |-> x]
  <2>1. Processed(f, x, c, i, transfer, count, 0)
    BY DEF Processed
  <2>. QED
    BY <2>1
<1>2. ASSUME NEW k \in Nat, k \in S PROVE k + 1 \in S
  <2>1. PICK f : Processed(f, x, c, i, transfer, count, k)
    BY <1>2
  <2>. HIDE DEF Go
  <2>2. \A j \in 0..k : f[j] = IF j = 0 THEN x ELSE Go(f[j - 1], j)
    BY <2>1 DEF Processed, Go
  <2>. DEFINE g == [j \in 0..(k + 1) |-> IF j <= k THEN f[j] ELSE Go(f[k], k + 1)]
  <2>3. ASSUME NEW j \in 0..(k + 1)
        PROVE  g[j] = IF j = 0 THEN x ELSE Go(g[j - 1], j)
    <3>1. CASE j = 0
      BY <2>2, <3>1
    <3>2. CASE j \in 1..k
      <4>1. j - 1 \in 0..k /\ j \in 0..k /\ j # 0
        BY <3>2
      <4>2. g[j] = f[j] /\ g[j - 1] = f[j - 1]
        BY <3>2, <4>1
      <4>. QED
        BY <2>2, <4>1, <4>2
    <3>3. CASE j = k + 1
      BY <3>3
    <3>. QED
      BY <3>1, <3>2, <3>3
  <2>4. g = [j \in 0..(k + 1) |-> g[j]]
    OBVIOUS
  <2>. HIDE DEF g
  <2>5. g = [j \in 0..(k + 1) |-> IF j = 0 THEN x ELSE Go(g[j - 1], j)]
    BY <2>3, <2>4
  <2>6. Processed(g, x, c, i, transfer, count, k + 1)
    BY <2>5, Zenon DEF Processed, Go
  <2>. QED
    BY <2>6
<1>. HIDE DEF S
<1>3. Nat \subseteq S
  BY <1>1, <1>2, NatSetInduction
<1>. QED
  BY <1>3 DEF S

LEMMA MessagesKeep ==
  ASSUME NEW x, Sending(x), NEW c, NEW i \in Nat, NEW transfer,
         transfer.messages \in Seq(Packet), NEW count
  PROVE  Kept(x, processMessages(x, c, i, transfer, count))
<1>. DEFINE n == Len(transfer.messages)
            f == CHOOSE f : Processed(f, x, c, i, transfer, count, n)
            S == {k \in Nat : k <= n => Kept(x, f[k])}
<1>1. n \in Nat /\ \A k \in 1..n : transfer.messages[k] \in Packet
  OBVIOUS
<1>2. processMessages(x, c, i, transfer, count) = f[n]
  BY Zenon DEF processMessages, Processed
<1>3. Processed(f, x, c, i, transfer, count, n)
  BY <1>1, ProcessedExists
<1>. HIDE DEF f, n
<1>4. \A k \in 0..n : f[k] = IF k = 0 THEN x
        ELSE processMessage(f[k - 1], c, i, transfer.messages[k],
                            (transfer.firstPacketId + k - 1) % PacketIds(i), count)
  BY <1>3 DEF Processed
<1>5. 0 \in S
  <2>1. Kept(x, x)
    BY DEF Kept, SameWatch
  <2>. QED
    BY <1>1, <1>4, <2>1
<1>6. ASSUME NEW k \in Nat, k \in S PROVE k + 1 \in S
  <2>1. SUFFICES ASSUME k + 1 <= n PROVE Kept(x, f[k + 1])
    OBVIOUS
  <2>2. Kept(x, f[k]) /\ transfer.messages[k + 1] \in Packet
    BY <1>1, <1>6, <2>1
  <2>3. \E id : f[k + 1] = processMessage(f[k], c, i, transfer.messages[k + 1], id, count)
    <3>1. k + 1 \in 0..n /\ k + 1 # 0 /\ k + 1 - 1 = k
      BY <1>1, <2>1
    <3>. QED
      BY <1>4, <3>1
  <2>. QED
    BY <2>2, <2>3, MessageKeeps, KeptOn DEF Kept
<1>. HIDE DEF S
<1>7. n \in S
  BY <1>1, <1>5, <1>6, NatSetInduction
<1>. QED
  BY <1>1, <1>2, <1>7 DEF S

-----------------------------------------------------------------------------
(* What a transfer says about who is there.                                *)

LEMMA KeptWatched ==
  ASSUME NEW x, NEW y, IsSession(x), Kept(x, y)
  PROVE  IsSession(y)
  BY DEF IsSession, Kept, Watched, SameWatch

\* A transfer of a client the server listens to.
LEMMA HeardByServer ==
  ASSUME NEW x, IsSession(x), NEW i \in Clients, NEW transfer
  PROVE  /\ IsSession(Heard(x, 0, i, transfer)) /\ SameFrames(x, Heard(x, 0, i, transfer))
         /\ \A p \in Clients \ {i} : SameFor(x, Heard(x, 0, i, transfer), p)
         /\ transfer.count = x.lastHeartbeatFrom[i] => SameFor(x, Heard(x, 0, i, transfer), i)
         /\ transfer.count # x.lastHeartbeatFrom[i] =>
              /\ HeardOf(Heard(x, 0, i, transfer), i)
              /\ Heard(x, 0, i, transfer).lastHeartbeatFrom[i] = transfer.count
<1>1. CASE transfer.count = x.lastHeartbeatFrom[i]
  <2>1. Heard(x, 0, i, transfer) = x
    BY <1>1 DEF Heard
  <2>. QED
    BY <1>1, <2>1 DEF SameFrames, SameFor
<1>2. CASE transfer.count # x.lastHeartbeatFrom[i]
  <2>. DEFINE l == [x.lastHeartbeatFrom EXCEPT ![i] = transfer.count]
              t == [x.msgTimeouts EXCEPT ![0] = 0, ![i] = 0]
              f == [x.msgFlags EXCEPT ![0] = TRUE, ![i] = TRUE]
              y == [x EXCEPT !.lastHeartbeatFrom = l, !.msgTimeouts = t, !.msgFlags = f]
  <2>1. y = Heard(x, 0, i, transfer)
    BY <1>2 DEF Heard, IsSession, Sending, SessionFields
  <2>2. i \in Consoles /\ 0 \in Consoles /\ i # 0 /\ Clients \subseteq Consoles /\ 0 \notin Clients
    BY PacketsAssumption DEF Consoles
  <2>3. /\ t \in [Consoles -> Nat] /\ f \in [Consoles -> BOOLEAN] /\ DOMAIN l = Consoles
        /\ t[i] = 0 /\ f[i] /\ l[i] = transfer.count
        /\ \A p \in Clients \ {i} : /\ t[p] = x.msgTimeouts[p] /\ f[p] = x.msgFlags[p]
                                    /\ l[p] = x.lastHeartbeatFrom[p]
    BY <2>2 DEF IsSession, Watched
  <2>. HIDE DEF l, t, f
  <2>4. /\ y.lastHeartbeatFrom = l /\ y.msgTimeouts = t /\ y.msgFlags = f
        /\ y.outgoing = x.outgoing /\ y.newOutgoing = x.newOutgoing
        /\ y.inflightCount = x.inflightCount /\ y.lastPacketId = x.lastPacketId
        /\ SameFrames(x, y) /\ DOMAIN y = SessionFields
    BY DEF IsSession, Sending, SessionFields, SameFrames
  <2>. HIDE DEF y
  <2>5. IsSession(y)
    BY <2>3, <2>4 DEF IsSession, Sending, Watched, SameFrames
  <2>6. \A p \in Clients \ {i} : SameFor(x, y, p)
    BY <2>3, <2>4 DEF SameFor
  <2>7. HeardOf(y, i) /\ y.lastHeartbeatFrom[i] = transfer.count
    BY <2>3, <2>4 DEF HeardOf
  <2>. QED
    BY <1>2, <2>1, <2>4, <2>5, <2>6, <2>7
<1>. QED
  BY <1>1, <1>2

\* A transfer of the server.
LEMMA HeardByClient ==
  ASSUME NEW x, IsSession(x), NEW c \in Clients, NEW transfer
  PROVE  /\ IsSession(Heard(x, c, 0, transfer)) /\ SameFrames(x, Heard(x, c, 0, transfer))
         /\ HeardOf(Heard(x, c, 0, transfer), 0)
<1>. DEFINE l == [x.lastHeartbeatFrom EXCEPT ![0] = x.lastHeartbeatFrom[0]]
            t == [x.msgTimeouts EXCEPT ![0] = 0]
            f == [x.msgFlags EXCEPT ![0] = TRUE]
            y == [x EXCEPT !.lastHeartbeatFrom = l, !.msgTimeouts = t, !.msgFlags = f]
<1>1. c # 0 /\ 0 \in Consoles
  BY PacketsAssumption DEF Consoles
<1>2. y = Heard(x, c, 0, transfer)
  <2>1. /\ DOMAIN x = SessionFields
        /\ x.msgTimeouts \in [Consoles -> Nat] /\ x.msgFlags \in [Consoles -> BOOLEAN]
    BY DEF IsSession, Sending, Watched
  <2>. DEFINE u == [x EXCEPT !.lastHeartbeatFrom = l, !.msgTimeouts = t]
              v == [u EXCEPT !.msgTimeouts = [t EXCEPT ![0] = 0]]
  <2>2. [t EXCEPT ![0] = 0] = t /\ [f EXCEPT ![0] = TRUE] = f
    BY <1>1, <2>1
  <2>3. u = v
    BY <2>1, <2>2 DEF SessionFields
  <2>4. /\ [x EXCEPT !.lastHeartbeatFrom[0] = @, !.msgTimeouts[0] = 0] = u
        /\ [u EXCEPT !.msgTimeouts[0] = 0] = v
    BY <2>1 DEF SessionFields
  <2>5. Heard(x, c, 0, transfer) = [v EXCEPT !.msgFlags[0] = TRUE, !.msgFlags[0] = TRUE]
    BY <1>1, <2>4 DEF Heard
  <2>6. [v EXCEPT !.msgFlags[0] = TRUE, !.msgFlags[0] = TRUE] = y
    BY <2>1, <2>2, <2>3 DEF SessionFields
  <2>. QED
    BY <2>5, <2>6
<1>3. /\ t \in [Consoles -> Nat] /\ f \in [Consoles -> BOOLEAN] /\ DOMAIN l = Consoles
      /\ t[0] = 0 /\ f[0]
  BY <1>1 DEF IsSession, Watched
<1>. HIDE DEF l, t, f
<1>4. /\ y.lastHeartbeatFrom = l /\ y.msgTimeouts = t /\ y.msgFlags = f
      /\ y.outgoing = x.outgoing /\ y.newOutgoing = x.newOutgoing
      /\ y.inflightCount = x.inflightCount /\ y.lastPacketId = x.lastPacketId
      /\ SameFrames(x, y) /\ DOMAIN y = SessionFields
  BY DEF IsSession, Sending, SessionFields, SameFrames
<1>. HIDE DEF y
<1>5. IsSession(y)
  BY <1>3, <1>4 DEF IsSession, Sending, Watched, SameFrames
<1>6. HeardOf(y, 0)
  BY <1>3, <1>4 DEF HeardOf
<1>. QED
  BY <1>2, <1>4, <1>5, <1>6

\* The messages of a transfer do not matter for who is there.
LEMMA BeforeHeard ==
  ASSUME NEW x, IsSession(x), NEW c, NEW i \in Nat, NEW transfer,
         transfer.messages \in Seq(Packet), NEW count
  PROVE  \E y : Kept(x, y) /\ IsSession(y)
                /\ IncomingFrom(x, c, i, transfer, count) = Heard(y, c, i, transfer)
<1>. DEFINE a == IF x.retransmission THEN transfer.ack[c] ELSE x.lastAckFrom[i]
            l == [x.lastAckFrom EXCEPT ![i] = a]
            acked == [x EXCEPT !.lastAckFrom = l]
            y == processMessages(acked, c, i, transfer, count)
<1>1. IncomingFrom(x, c, i, transfer, count) = Heard(y, c, i, transfer)
  BY DEF IncomingFrom, IsSession, Sending, SessionFields
<1>. HIDE DEF l
<1>2. Kept(x, acked)
  BY DEF IsSession, Kept, Sending, SameWatch, SessionFields
<1>. HIDE DEF acked
<1>3. Kept(x, y)
  BY <1>2, MessagesKeep, KeptOn DEF Kept
<1>4. IsSession(y)
  BY <1>3, KeptWatched
<1>. QED
  BY <1>1, <1>3, <1>4

LEMMA ServerHearsOne ==
  ASSUME NEW x, NEW data, DOMAIN data = Clients, Transfers(data), NEW remote,
         NEW count, NEW i \in 0..4, NEW y, ServerHeard(x, y, data, remote, i - 1),
         NEW z, z = IF i \notin remote \cap DOMAIN data THEN y
                    ELSE IF data[i] = None THEN y
                    ELSE IncomingFrom(y, 0, i, data[i], count)
  PROVE  ServerHeard(x, z, data, remote, i)
<1>1. Clients \subseteq 1..4
  BY PacketsAssumption
<1>2. CASE i \notin remote \cap Clients \/ data[i] = None
  <2>1. z = y
    BY <1>2
  <2>2. \A p \in Clients : p \in remote =>
          (Speaks(x, data[p], i, p) <=> Speaks(x, data[p], i - 1, p))
    <3>. SUFFICES ASSUME NEW p \in Clients, p \in remote
                  PROVE  Speaks(x, data[p], i, p) <=> Speaks(x, data[p], i - 1, p)
      OBVIOUS
    <3>1. p \in Nat /\ i \in Nat
      BY <1>1
    <3>2. p # i \/ data[p] = None
      BY <1>2
    <3>3. CASE p # i
      <4>1. p <= i <=> p <= i - 1
        BY <3>1, <3>3
      <4>. QED
        BY <4>1 DEF Speaks
    <3>4. CASE data[p] = None
      BY <3>4 DEF Speaks
    <3>. QED
      BY <3>2, <3>3, <3>4
  <2>. QED
    BY <2>1, <2>2 DEF ServerHeard
<1>3. CASE i \in remote /\ i \in Clients /\ data[i] # None
  <2>1. z = IncomingFrom(y, 0, i, data[i], count)
    BY <1>3
  <2>2. data[i].messages \in Seq(Packet) /\ IsSession(y) /\ i \in Nat
    BY <1>3 DEF Transfers, ServerHeard
  <2>3. PICK k : Kept(y, k) /\ IsSession(k) /\ z = Heard(k, 0, i, data[i])
    BY <2>1, <2>2, BeforeHeard
  <2>4. /\ IsSession(z) /\ SameFrames(k, z)
        /\ \A p \in Clients \ {i} : SameFor(k, z, p)
        /\ IF data[i].count = k.lastHeartbeatFrom[i] THEN SameFor(k, z, i)
           ELSE HeardOf(z, i) /\ z.lastHeartbeatFrom[i] = data[i].count
    <3>. DEFINE t == data[i]
                h == Heard(k, 0, i, t)
    <3>1. i \in Clients /\ IsSession(k) /\ z = h
      BY <1>3, <2>3
    <3>. HIDE DEF t
    <3>2. /\ IsSession(h) /\ SameFrames(k, h)
          /\ \A p \in Clients \ {i} : SameFor(k, h, p)
          /\ t.count = k.lastHeartbeatFrom[i] => SameFor(k, h, i)
          /\ t.count # k.lastHeartbeatFrom[i] =>
               HeardOf(h, i) /\ h.lastHeartbeatFrom[i] = t.count
      BY <3>1, HeardByServer
    <3>. HIDE DEF h
    <3>. QED
      BY <3>1, <3>2 DEF t
  <2>5. SameFrames(y, k) /\ \A p \in Clients : SameFor(y, k, p)
    BY <2>3 DEF Kept, SameWatch, SameFrames, SameFor
  <2>6. SameFrames(x, z)
    BY <2>4, <2>5 DEF SameFrames, ServerHeard
  <2>7. ASSUME NEW p \in Clients, p # i
        PROVE  IF p \in remote /\ Speaks(x, data[p], i, p)
               THEN HeardOf(z, p) /\ z.lastHeartbeatFrom[p] = data[p].count
               ELSE SameFor(x, z, p)
    <3>1. SameFor(y, z, p)
      BY <2>4, <2>5, <2>7 DEF SameFor
    <3>2. Speaks(x, data[p], i, p) <=> Speaks(x, data[p], i - 1, p)
      BY <1>1, <2>7 DEF Speaks
    <3>3. IF p \in remote /\ Speaks(x, data[p], i - 1, p)
          THEN HeardOf(y, p) /\ y.lastHeartbeatFrom[p] = data[p].count
          ELSE SameFor(x, y, p)
      BY DEF ServerHeard
    <3>. QED
      BY <3>1, <3>2, <3>3 DEF SameFor, HeardOf
  <2>8. IF i \in remote /\ Speaks(x, data[i], i, i)
        THEN HeardOf(z, i) /\ z.lastHeartbeatFrom[i] = data[i].count
        ELSE SameFor(x, z, i)
    <3>1. ~Speaks(x, data[i], i - 1, i)
      BY DEF Speaks
    <3>2. SameFor(x, y, i)
      BY <1>3, <3>1 DEF ServerHeard
    <3>3. SameFor(x, k, i)
      BY <1>3, <2>5, <3>2 DEF SameFor
    <3>. QED
      BY <1>3, <2>4, <3>3 DEF Speaks, SameFor
  <2>. QED
    BY <2>4, <2>6, <2>7, <2>8 DEF ServerHeard
<1>. QED
  BY <1>2, <1>3

LEMMA IncomingExists ==
  ASSUME NEW x, NEW c, NEW data, NEW remote, NEW count
  PROVE  \E f : Incoming(f, x, c, data, remote, count)
<1>. DEFINE Go(s, i) == IF i \notin remote \cap DOMAIN data THEN s
                        ELSE IF data[i] = None THEN s
                        ELSE IncomingFrom(s, c, i, data[i], count)
            s0 == Go(x, 0)
            s1 == Go(s0, 1)
            s2 == Go(s1, 2)
            s3 == Go(s2, 3)
            s4 == Go(s3, 4)
            f == [i \in -1..4 |-> IF i = -1 THEN x ELSE IF i = 0 THEN s0 ELSE IF i = 1 THEN s1
                                  ELSE IF i = 2 THEN s2 ELSE IF i = 3 THEN s3 ELSE s4]
<1>. HIDE DEF Go
<1>1. \A i \in -1..4 : f[i] = IF i = -1 THEN x ELSE Go(f[i - 1], i)
  <2>1. /\ f[-1] = x /\ f[0] = s0 /\ f[1] = s1 /\ f[2] = s2 /\ f[3] = s3 /\ f[4] = s4
    OBVIOUS
  <2>2. \A i \in -1..4 : i \in {-1, 0, 1, 2, 3, 4}
    OBVIOUS
  <2>. HIDE DEF f
  <2>. QED
    BY <2>1, <2>2
<1>2. f = [i \in -1..4 |-> f[i]]
  OBVIOUS
<1>. HIDE DEF f
<1>3. f = [i \in -1..4 |-> IF i = -1 THEN x ELSE Go(f[i - 1], i)]
  BY <1>1, <1>2
<1>. QED
  BY <1>3, Zenon DEF Incoming, Go

\* What follows for each player does not matter either.
LEMMA AfterHeard ==
  ASSUME NEW x, NEW c, NEW data, NEW remote, NEW count, NEW f,
         f = CHOOSE g : Incoming(g, x, c, data, remote, count), IsSession(f[4])
  PROVE  Kept(f[4], addIncomingMessagesFromData(x, c, data, remote, count))
<1>. DEFINE g == CHOOSE g : Incoming(g, x, c, data, remote, count)
            ack == ConfirmedAck(f[4], c, count)
            z == IF x.retransmission /\ ack # NO_ACK_RECEIVED_YET
                 THEN removeConfirmedMessages(f[4], c, ack) ELSE f[4]
<1>1. addIncomingMessagesFromData(x, c, data, remote, count) = copyIncomingState(z)
  <2>1. addIncomingMessagesFromData(x, c, data, remote, count)
          = copyIncomingState(
              IF x.retransmission /\ ConfirmedAck(g[4], c, count) # NO_ACK_RECEIVED_YET
              THEN removeConfirmedMessages(g[4], c, ConfirmedAck(g[4], c, count)) ELSE g[4])
    BY DEF addIncomingMessagesFromData, Incoming
  <2>. QED
    BY <2>1
<1>2. Kept(f[4], f[4])
  BY DEF Kept, SameWatch, IsSession
<1>3. Kept(f[4], z)
  BY <1>2, RemoveConfirmedKeeps DEF IsSession
<1>. HIDE DEF z
<1>4. Kept(f[4], copyIncomingState(z))
  BY <1>3, CopyIncomingKeeps, KeptOn DEF Kept
<1>. QED
  BY <1>1, <1>4

LEMMA ServerHears ==
  ASSUME NEW x, IsSession(x), NEW data, DOMAIN data = Clients, Transfers(data), NEW remote,
         NEW count
  PROVE  ServerHeard(x, addIncomingMessagesFromData(x, 0, data, remote, count), data, remote, 4)
<1>. DEFINE f == CHOOSE f : Incoming(f, x, 0, data, remote, count)
            y == addIncomingMessagesFromData(x, 0, data, remote, count)
<1>1. Incoming(f, x, 0, data, remote, count)
  BY IncomingExists
<1>2. \A i \in -1..4 : f[i] = IF i = -1 THEN x
         ELSE IF i \notin remote \cap DOMAIN data THEN f[i - 1]
         ELSE IF data[i] = None THEN f[i - 1]
         ELSE IncomingFrom(f[i - 1], 0, i, data[i], count)
  <2>. HIDE DEF f
  <2>. QED
    BY <1>1 DEF Incoming
<1>3. Kept(f[4], y) \/ ~IsSession(f[4])
  BY AfterHeard
<1>. HIDE DEF f, y
<1>4. ServerHeard(x, f[-1], data, remote, -1)
  <2>1. f[-1] = x
    BY <1>2
  <2>2. \A p \in Clients : ~Speaks(x, data[p], -1, p)
    BY PacketsAssumption DEF Speaks
  <2>. QED
    BY <2>1, <2>2 DEF ServerHeard, SameFrames, SameFor
<1>5. ASSUME NEW i \in 0..4, ServerHeard(x, f[i - 1], data, remote, i - 1)
      PROVE  ServerHeard(x, f[i], data, remote, i)
  <2>1. i \in -1..4 /\ i # -1
    OBVIOUS
  <2>2. f[i] = IF i \notin remote \cap DOMAIN data THEN f[i - 1]
               ELSE IF data[i] = None THEN f[i - 1]
               ELSE IncomingFrom(f[i - 1], 0, i, data[i], count)
    BY <1>2, <2>1
  <2>. QED
    BY <1>5, <2>2, ServerHearsOne
<1>6. ServerHeard(x, f[4], data, remote, 4)
  <2>0. ServerHeard(x, f[0], data, remote, 0)
    BY <1>4, <1>5
  <2>1. ServerHeard(x, f[1], data, remote, 1)
    BY <2>0, <1>5
  <2>2. ServerHeard(x, f[2], data, remote, 2)
    BY <2>1, <1>5
  <2>3. ServerHeard(x, f[3], data, remote, 3)
    BY <2>2, <1>5
  <2>. QED
    BY <2>3, <1>5
<1>7. Kept(f[4], y) /\ IsSession(y)
  BY <1>3, <1>6, KeptWatched DEF ServerHeard
<1>8. SameFrames(f[4], y) /\ \A p \in Clients : SameFor(f[4], y, p)
  BY <1>7 DEF Kept, SameWatch, SameFrames, SameFor
<1>9. SameFrames(x, y)
  BY <1>6, <1>8 DEF ServerHeard, SameFrames
<1>10. ASSUME NEW p \in Clients
       PROVE  IF p \in remote /\ Speaks(x, data[p], 4, p)
              THEN HeardOf(y, p) /\ y.lastHeartbeatFrom[p] = data[p].count
              ELSE SameFor(x, y, p)
  BY <1>6, <1>8 DEF ServerHeard, SameFor, HeardOf
<1>. QED
  BY <1>7, <1>9, <1>10 DEF ServerHeard, y

LEMMA ClientHears ==
  ASSUME NEW x, IsSession(x), NEW c \in Clients, NEW data, DOMAIN data = {0}, Transfers(data),
         data[0] # None, NEW count
  PROVE  LET y == addIncomingMessagesFromData(x, c, data, {0}, count)
         IN  IsSession(y) /\ SameFrames(x, y) /\ HeardOf(y, 0)
<1>. DEFINE f == CHOOSE f : Incoming(f, x, c, data, {0}, count)
            y == addIncomingMessagesFromData(x, c, data, {0}, count)
<1>1. Incoming(f, x, c, data, {0}, count)
  BY IncomingExists
<1>2. \A i \in -1..4 : f[i] = IF i = -1 THEN x
         ELSE IF i \notin {0} \cap DOMAIN data THEN f[i - 1]
         ELSE IF data[i] = None THEN f[i - 1]
         ELSE IncomingFrom(f[i - 1], c, i, data[i], count)
  <2>. HIDE DEF f
  <2>. QED
    BY <1>1 DEF Incoming
<1>3. Kept(f[4], y) \/ ~IsSession(f[4])
  BY AfterHeard
<1>. HIDE DEF f, y
<1>4. f[-1] = x /\ f[0] = IncomingFrom(x, c, 0, data[0], count)
  BY <1>2
<1>5. f[4] = f[0]
  <2>1. f[1] = f[0]
    BY <1>2
  <2>2. f[2] = f[1]
    BY <1>2
  <2>3. f[3] = f[2]
    BY <1>2
  <2>4. f[4] = f[3]
    BY <1>2
  <2>. QED
    BY <2>1, <2>2, <2>3, <2>4
<1>6. data[0].messages \in Seq(Packet)
  BY DEF Transfers
<1>7. PICK k : Kept(x, k) /\ IsSession(k) /\ f[0] = Heard(k, c, 0, data[0])
  BY <1>4, <1>6, BeforeHeard
<1>8. IsSession(f[4]) /\ SameFrames(k, f[4]) /\ HeardOf(f[4], 0)
  BY <1>5, <1>7, HeardByClient
<1>9. Kept(f[4], y) /\ IsSession(y)
  BY <1>3, <1>8, KeptWatched
<1>10. SameFrames(x, y) /\ HeardOf(y, 0)
  BY <1>7, <1>8, <1>9 DEF Kept, SameWatch, SameFrames, HeardOf
<1>. QED
  BY <1>9, <1>10 DEF y

-----------------------------------------------------------------------------
(* The inductive invariant.  A transfer that waits for a console may be    *)
(* heard once more; then nothing of a player that has left is new.  As     *)
(* long as it waits, the console counts it as silent, or, if it was heard  *)
(* of in the frame it left, counts frames without any transfer.            *)

LEMMA PairStays ==
  ASSUME NEW c \in Consoles, NEW p \in Consoles, Noticing(c, p), PairKept(c, p)
  PROVE  Noticing(c, p)'
<1>1. SUFFICES ASSUME silent'[c][p] > 0
               PROVE  /\ ~Alive(c, p)' /\ isSessionActive(c)'
                      /\ (p \in Remote(c))' => Overdue(session'[c], silent'[c][p], p, Waits(c, p)', isConnected(c)')
                      /\ ~(p \in Remote(c))' => c = 0 /\ raw'[0].isServerClosed /\ silent'[c][p] <= 2 * timeout + 1
  BY DEF Noticing
<1>2. /\ silent'[c][p] = silent[c][p] /\ silent[c][p] > 0
      /\ raw'[c].state = raw[c].state /\ raw'[c].playerCount = raw[c].playerCount
      /\ raw'[c].isServerClosed = raw[c].isServerClosed
      /\ SameFrames(session[c], session'[c]) /\ SameFor(session[c], session'[c], p)
      /\ IF c = 0 THEN p \in Clients => up'[p] = up[p] ELSE down'[c] = down[c]
      /\ Alive(c, p)' => Alive(c, p)
  BY <1>1 DEF PairKept
<1>3. (p \in Remote(c))' <=> p \in Remote(c)
  BY <1>2 DEF Remote
<1>4. Waits(c, p)' <=> Waits(c, p)
  BY <1>2 DEF Waits, SameFor
<1>5. isConnected(c)' <=> isConnected(c)
  BY <1>2 DEF isConnected
<1>6. isSessionActive(c)' <=> isSessionActive(c)
  BY <1>2 DEF isSessionActive
<1>7. ASSUME p \in Remote(c) PROVE Overdue(session'[c], silent'[c][p], p, Waits(c, p)', isConnected(c)')
  <2>1. Overdue(session[c], silent[c][p], p, Waits(c, p), isConnected(c))
    BY <1>2, <1>7 DEF Noticing
  <2>. QED
    BY <1>2, <1>4, <1>5, <2>1 DEF Overdue, SameFrames, SameFor
<1>. QED
  BY <1>2, <1>3, <1>6, <1>7 DEF Noticing

LEMMA OwnStays ==
  ASSUME NEW d \in Consoles, Own(d), session'[d] = session[d], raw'[d] = raw[d],
         call'[d] = call[d], command'[d] = command[d], sent'[d] = sent[d]
  PROVE  Own(d)'
  BY DEF Own, isConnected

\* The shape of the state, in the form updates need it.
LEMMA Shapes ==
  ASSUME Shape
  PROVE  /\ DOMAIN raw = Consoles /\ DOMAIN command = Consoles
         /\ \A c \in Consoles : DOMAIN raw[c] = {"state", "playerCount", "isServerClosed"}
<1>1. \A c \in Consoles : raw[c] = [state |-> raw[c].state, playerCount |-> raw[c].playerCount,
                                    isServerClosed |-> raw[c].isServerClosed]
  BY DEF Shape
<1>2. DOMAIN raw = Consoles
  BY Zenon DEF Shape
<1>3. DOMAIN command = Consoles
  BY Zenon DEF Shape
<1>. QED
  BY <1>1, <1>2, <1>3

LEMMA Players ==
  /\ 0 \in Consoles /\ 0 \notin Clients /\ Clients \subseteq Consoles
  /\ \A p \in Clients : p \in 1..4
  BY PacketsAssumption DEF Consoles

LEMMA CountLinked ==
  ASSUME NEW S \in SUBSET Clients, NEW T \in SUBSET S
  PROVE  Cardinality(S) \in Nat /\ Cardinality(T) \in Nat /\ Cardinality(T) <= Cardinality(S)
<1>1. IsFiniteSet(1..4)
  <2>1. 1 \in Int /\ 4 \in Int
    OBVIOUS
  <2>. QED
    BY <2>1, FS_Interval, Zenon
<1>2. IsFiniteSet(S)
  BY <1>1, FS_Subset, PacketsAssumption
<1>. QED
  BY <1>2, FS_Subset, FS_CardinalityType

-----------------------------------------------------------------------------
(* A reset, of one console.                                                *)

LEMMA ResetIsSession ==
  ASSUME NEW x, x.newOutgoing \in Queue
  PROVE  /\ IsSession(ResetSession(x)) /\ ~ResetSession(x).msgFlags[0]
<1>. DEFINE y == ResetSession(x)
            z == [p \in Consoles |-> 0]
            f == [p \in Consoles |-> FALSE]
<1>1. DOMAIN y = SessionFields
  BY DEF ResetSession, SessionFields
<1>2. <<>> \in Queue
  BY PacketsAssumption DEF Queue
<1>3. y.outgoing = <<>> /\ y.newOutgoing \in {<<>>, x.newOutgoing}
  BY DEF ResetSession
<1>4. y.inflightCount = 0 /\ y.lastPacketId = 0
  BY DEF ResetSession
<1>5. Sending(y)
  BY <1>1, <1>2, <1>3, <1>4 DEF Sending
<1>6. y.recvTimeout = 0 /\ y.recvFlag \in BOOLEAN
  BY DEF ResetSession
<1>7. /\ y.msgTimeouts = z /\ y.msgFlags = f
      /\ DOMAIN y.lastHeartbeatFrom = Consoles
  BY DEF ResetSession
<1>8. z \in [Consoles -> Nat] /\ f \in [Consoles -> BOOLEAN] /\ ~f[0]
  BY Players
<1>. HIDE DEF y, z, f
<1>9. Watched(y) /\ ~y.msgFlags[0]
  BY <1>6, <1>7, <1>8 DEF Watched
<1>. QED
  BY <1>5, <1>9 DEF y, IsSession

LEMMA RestartNotices ==
  ASSUME NInv, Shape', NEW c \in Consoles, NEW state \in {"NEEDS_RESET", "AUTHENTICATED"},
         Restarted(c, state), UNCHANGED call \/ Returns(c)
  PROVE  NInv'
<1>0. /\ DOMAIN call' = Consoles
      /\ \A d \in Consoles \ {c} : call'[d] = call[d]
      /\ c # 0 => call'[c] \in {"none", "getSignalLevel"}
  BY DEF NInv, Typed, Domains, Own, Returns
<1>1. Shape /\ Domains /\ Slots /\ CountedWhenClosed /\ (\A d \in Consoles : Own(d))
      /\ UNCHANGED <<up, down, sent>>
  BY DEF NInv, Typed, Restarted, history
<1>2. /\ raw'[c] = FreshRaw(state) /\ session'[c] = ResetSession(session[c]) /\ command'[c] = None
      /\ \A d \in Consoles \ {c} : /\ raw'[d] = raw[d] /\ session'[d] = session[d]
                                   /\ command'[d] = command[d]
  BY <1>1, Shapes DEF Restarted, Domains
<1>3. Own(c)'
  <2>1. IsSession(session'[c]) /\ ~session'[c].msgFlags[0]
    BY <1>1, <1>2, ResetIsSession DEF Own, IsSession, Sending
  <2>2. raw'[c].state \in States(c) /\ raw'[c].playerCount \in Nat
    BY <1>2 DEF FreshRaw, States
  <2>3. command'[c].type # "SEND_DATA"
    BY <1>2 DEF None
  <2>4. c # 0 => call'[c] \in {"none", "getSignalLevel"}
    BY <1>0
  <2>5. sent'[c] \in Nat
    BY <1>1 DEF Own
  <2>. QED
    BY <2>1, <2>2, <2>3, <2>4, <2>5 DEF Own
<1>4. ASSUME NEW d \in Consoles \ {c} PROVE Own(d)'
  BY <1>0, <1>1, <1>2, OwnStays
<1>5. Domains'
  <2>1. silent' \in [Consoles -> [Consoles -> Nat]]
    BY <1>1 DEF Domains, Restarted
  <2>. QED
    BY <1>0, <1>1, <2>1 DEF Domains, Restarted
<1>6. Slots'
  BY <1>1 DEF Slots
<1>7. CountedWhenClosed'
  <2>1. linked' \subseteq linked
    BY DEF Restarted
  <2>2. CASE c = 0
    BY <1>1, <1>2, <2>1, <2>2 DEF CountedWhenClosed, FreshRaw
  <2>3. CASE c # 0
    <3>1. raw'[0] = raw[0]
      BY <1>2, <2>3, Players
    <3>2. /\ Cardinality(linked) \in Nat /\ Cardinality(linked') \in Nat
          /\ Cardinality(linked') <= Cardinality(linked)
      BY <1>1, <2>1, CountLinked DEF CountedWhenClosed
    <3>3. raw[0].playerCount \in Nat
      BY <1>1, Players DEF Own
    <3>. QED
      BY <1>1, <2>1, <3>1, <3>2, <3>3 DEF CountedWhenClosed
  <2>. QED
    BY <2>2, <2>3
<1>8. ASSUME NEW d \in Consoles, NEW p \in Consoles PROVE Noticing(d, p)'
  <2>1. CASE d = c
    <3>1. silent'[d][p] = 0
      BY <1>1, <2>1 DEF Domains, Restarted
    <3>. QED
      BY <3>1 DEF Noticing
  <2>2. CASE d # c
    <3>1. silent'[d] = silent[d]
      BY <1>1, <2>2 DEF Domains, Restarted
    <3>2. raw'[d] = raw[d] /\ session'[d] = session[d]
      BY <1>2, <2>2
    <3>3. Alive(d, p)' => Alive(d, p)
      BY DEF Alive, Restarted
    <3>4. up' = up /\ down' = down
      BY <1>1
    <3>5. PairKept(d, p)
      BY <3>1, <3>2, <3>3, <3>4 DEF PairKept, SameFrames, SameFor
    <3>. QED
      BY <3>5, PairStays DEF NInv
  <2>. QED
    BY <2>1, <2>2
<1>. QED
  BY <1>3, <1>4, <1>5, <1>6, <1>7, <1>8 DEF NInv, Typed

LEMMA ResetNotices ==
  ASSUME NInv, Shape', NEW c \in Consoles, reset(c), UNCHANGED call \/ Returns(c)
  PROVE  NInv'
  BY RestartNotices DEF reset

-----------------------------------------------------------------------------
(* Steps that say nothing of the players to the console.                   *)

LEMMA BystandersNotice ==
  ASSUME NInv, Shape', NEW c \in Consoles, Bystanding(c),
         DOMAIN session' = Consoles, DOMAIN call' = Consoles, DOMAIN sent' = Consoles,
         c # 0 => call'[c] \in {"none", "getSignalLevel"},
         command'[c].type = "SEND_DATA" => Sent(command'[c].data, c), sent'[c] \in Nat
  PROVE  NInv'
<1>1. Shape /\ Domains /\ Slots /\ CountedWhenClosed /\ (\A d \in Consoles : Own(d))
  BY DEF NInv, Typed
<1>2. IsSession(session'[c]) /\ SameWatch(session[c], session'[c])
  BY <1>1, KeptWatched DEF Own, Bystanding, Kept
<1>3. Own(c)'
  BY <1>1, <1>2 DEF Own, Bystanding, SameWatch, isConnected
<1>4. ASSUME NEW d \in Consoles \ {c} PROVE Own(d)'
  BY <1>1, OwnStays DEF Bystanding
<1>5. Domains' /\ Slots' /\ CountedWhenClosed'
  BY <1>1 DEF Domains, Slots, CountedWhenClosed, Bystanding
<1>6. ASSUME NEW d \in Consoles, NEW p \in Consoles PROVE Noticing(d, p)'
  <2>1. SameWatch(session[d], session'[d])
    BY <1>2 DEF Bystanding, SameWatch
  <2>2. PairKept(d, p)
    BY <2>1 DEF PairKept, SameFrames, SameFor, SameWatch, Bystanding, Alive
  <2>. QED
    BY <2>2, PairStays DEF NInv
<1>. QED
  BY <1>3, <1>4, <1>5, <1>6 DEF NInv, Typed

-----------------------------------------------------------------------------
(* The handlers.                                                           *)

\* A command that starts, or the messages of one that may not.
LEMMA StartNotices ==
  ASSUME NInv, Shape', NEW c \in Consoles, NEW x, Kept(session[c], x),
         session' = [session EXCEPT ![c] = x],
         \A d \in Consoles \ {c} : command'[d] = command[d],
         command'[c].type = "SEND_DATA" => Sent(command'[c].data, c),
         UNCHANGED <<raw, adapters, program, history, silent>>
  PROVE  NInv'
<1>1. DOMAIN session = Consoles /\ DOMAIN command = Consoles /\ Domains /\ Own(c)
  BY Shapes DEF NInv, Typed, Domains
<1>2. Bystanding(c)
  BY <1>1 DEF Bystanding, adapters, program, history
<1>3. /\ DOMAIN session' = Consoles /\ DOMAIN call' = Consoles /\ DOMAIN sent' = Consoles
      /\ sent'[c] \in Nat /\ (c # 0 => call'[c] \in {"none", "getSignalLevel"})
  BY <1>1 DEF Domains, Own, program, history
<1>. QED
  BY <1>2, <1>3, BystandersNotice

\* What is sent is a sequence of messages, and says how many players there are.
LEMMA TransferIsSent ==
  ASSUME NEW x, Sending(x), NEW c \in Consoles, NEW count, c = 0 => count \in Nat /\ count > 1
  PROVE  Sent(setDataFromOutgoingMessages(x, c, count), c)
<1>. DEFINE n == Least({Transfer, Numbered(x.outgoing)})
            Packed(k) == [data |-> x.outgoing[k].data,
                          player |-> IF x.forwardedCount > 0 THEN x.outgoing[k].player ELSE 0]
            messages == [k \in 1..n |-> Packed(k)]
            t == setDataFromOutgoingMessages(x, c, count)
<1>1. t.messages = messages /\ (c = 0 => t.count = count)
  BY DEF setDataFromOutgoingMessages
<1>2. /\ x.outgoing \in Seq(Message) /\ Len(x.outgoing) \in Nat
      /\ Numbered(x.outgoing) \in Nat /\ Numbered(x.outgoing) <= Len(x.outgoing)
  BY Lengths, NumberedNat DEF Sending
<1>3. n \in Nat /\ n <= Numbered(x.outgoing)
  <2>. DEFINE T == {Transfer, Numbered(x.outgoing)}
  <2>1. T \subseteq Nat /\ T # {}
    BY <1>2, PacketsAssumption
  <2>2. Least(T) \in T /\ \A m \in T : Least(T) <= m
    BY <2>1, LeastNat
  <2>3. Least(T) \in Nat /\ Least(T) <= Numbered(x.outgoing)
    BY <2>1, <2>2
  <2>. QED
    BY <2>3
<1>. HIDE DEF n
<1>4. ASSUME NEW k \in 1..n PROVE Packed(k) \in Packet
  <2>1. x.outgoing[k] \in Message
    BY <1>2, <1>3
  <2>2. x.outgoing[k].data \in Nat /\ x.outgoing[k].player \in Nat
    BY <2>1 DEF Message
  <2>. QED
    BY <2>2 DEF Packet
<1>. HIDE DEF Packed
<1>5. messages \in Seq(Packet)
  BY <1>3, <1>4
<1>. QED
  BY <1>1, <1>5 DEF Sent

LEMMA TimerNotices ==
  ASSUME NInv, Shape', NEW c \in Consoles, _onTimer(c)
  PROVE  NInv'
<1>1. IsSession(session[c]) /\ Sending(session[c]) /\ raw[c].playerCount \in Nat
  BY DEF NInv, Typed, Own, IsSession
<1>2. UNCHANGED <<raw, adapters, program, history, silent>>
  BY DEF _onTimer
<1>3. DOMAIN command = Consoles /\ Own(c)
  BY Shapes DEF NInv, Typed
<1>4. CASE SignalLevelStart(c)
  <2>. DEFINE x == [session[c] EXCEPT !.signalLevelCalled = TRUE]
  <2>1. Kept(session[c], x)
    BY <1>1 DEF Kept, Sending, SameWatch, SessionFields
  <2>2. /\ session' = [session EXCEPT ![c] = x]
        /\ command' = [command EXCEPT ![c] = [type |-> "SIGNAL_LEVEL", data |-> None]]
    BY <1>4 DEF SignalLevelStart, Starts
  <2>. HIDE DEF x
  <2>3. command'[c].type = "SIGNAL_LEVEL" /\ \A d \in Consoles \ {c} : command'[d] = command[d]
    BY <1>3, <2>2
  <2>. QED
    BY <1>2, <2>1, <2>2, <2>3, StartNotices
<1>5. CASE sendPendingData(c) /\ (raw[c].state = "SERVING" => isConnected(c))
  <2>. DEFINE x == Assigned(copyOutgoingState(session[c]), c)
              y == clearInflightMessagesIfNeeded(x, c)
              t == setDataFromOutgoingMessages(x, c, raw[c].playerCount)
  <2>1. Kept(session[c], x)
    BY <1>1, CopyOutgoingKeeps, AssignedKeeps, KeptOn DEF Kept
  <2>2. Kept(session[c], y)
    <3>. HIDE DEF x
    <3>. QED
      BY <2>1, ClearInflightKeeps, KeptOn DEF Kept
  <2>3. c = 0 => raw[c].playerCount \in Nat /\ raw[c].playerCount > 1
    <3>1. ASSUME c = 0 PROVE raw[c].state = "SERVING"
      BY <3>1 DEF _onTimer, isSessionActive, NInv, Typed, Own, States
    <3>. QED
      BY <1>1, <1>5, <3>1 DEF isConnected
  <2>4. Sent(t, c)
    <3>. HIDE DEF x
    <3>. QED
      BY <2>1, <2>3, TransferIsSent DEF Kept
  <2>5. CASE isSendingSyncCommand[c]
    <3>1. session' = [session EXCEPT ![c] = x] /\ UNCHANGED command
      BY <1>5, <2>5 DEF sendPendingData
    <3>. HIDE DEF x
    <3>2. command'[c].type = "SEND_DATA" => Sent(command'[c].data, c)
      BY <1>3, <3>1 DEF Own
    <3>. QED
      BY <1>2, <2>1, <3>1, <3>2, StartNotices
  <2>6. CASE ~isSendingSyncCommand[c]
    <3>1. /\ session' = [session EXCEPT ![c] = y]
          /\ command' = [command EXCEPT ![c] = [type |-> "SEND_DATA", data |-> t]]
      BY <1>5, <2>6 DEF sendPendingData, Starts
    <3>. HIDE DEF x, y, t
    <3>2. command'[c].data = t /\ \A d \in Consoles \ {c} : command'[d] = command[d]
      BY <1>3, <3>1
    <3>. QED
      BY <1>2, <2>2, <2>4, <3>1, <3>2, StartNotices
  <2>. QED
    BY <2>5, <2>6
<1>6. CASE ~isSendingSyncCommand[c] /\ Starts(c, session[c], "RECEIVE_DATA", None)
  <2>1. Kept(session[c], session[c])
    BY <1>1 DEF Kept, SameWatch
  <2>2. /\ session' = [session EXCEPT ![c] = session[c]]
        /\ command' = [command EXCEPT ![c] = [type |-> "RECEIVE_DATA", data |-> None]]
    BY <1>6 DEF Starts
  <2>3. command'[c].type = "RECEIVE_DATA" /\ \A d \in Consoles \ {c} : command'[d] = command[d]
    BY <1>3, <2>2
  <2>. QED
    BY <1>2, <2>1, <2>2, <2>3, StartNotices
<1>. QED
  BY <1>4, <1>5, <1>6 DEF _onTimer, TransferData

LEMMA EndNotices ==
  ASSUME NInv, Shape', NEW c \in Consoles, Ending(c), Slots',
         IsSession(session'[c]), raw'[c].playerCount \in Nat, raw'[c].state = raw[c].state,
         c # 0 => (session'[c].msgFlags[0] => isConnected(c)'),
         c = 0 => raw'[c].isServerClosed = raw[c].isServerClosed
                  /\ raw'[c].playerCount >= raw[c].playerCount,
         \A d, p \in Consoles : Noticing(d, p)'
  PROVE  NInv'
<1>1. Shape /\ Domains /\ Slots /\ CountedWhenClosed /\ (\A d \in Consoles : Own(d))
  BY DEF NInv, Typed
<1>2. Own(c)'
  <2>1. command'[c].type # "SEND_DATA"
    BY DEF Ending, None
  <2>. QED
    BY <1>1, <2>1 DEF Own, Ending, States
<1>3. ASSUME NEW d \in Consoles \ {c} PROVE Own(d)'
  BY <1>1, OwnStays DEF Ending
<1>4. CountedWhenClosed'
  <2>1. /\ raw'[0].isServerClosed = raw[0].isServerClosed
        /\ raw'[0].playerCount >= raw[0].playerCount
        /\ raw[0].playerCount \in Nat /\ raw'[0].playerCount \in Nat
    BY <1>1, Players DEF Ending, Own
  <2>2. Cardinality(linked) \in Nat
    BY <1>1, CountLinked DEF CountedWhenClosed
  <2>. QED
    BY <1>1, <2>1, <2>2 DEF CountedWhenClosed, Ending
<1>5. Domains'
  BY <1>1 DEF Domains, Ending
<1>. QED
  BY <1>2, <1>3, <1>4, <1>5 DEF NInv, Typed

\* The number of players grows, unless all who are linked are counted.
LEMMA SignalLevelNotices ==
  ASSUME NInv, Shape', NEW c \in Consoles, SignalLevelEnd(c)
  PROVE  NInv'
<1>. DEFINE players == 1 + Cardinality(linked)
            n == IF players > raw[c].playerCount THEN players ELSE raw[c].playerCount
<1>1. Shape /\ Domains /\ Slots /\ CountedWhenClosed /\ (\A d \in Consoles : Own(d))
      /\ DOMAIN raw = Consoles /\ DOMAIN command = Consoles
      /\ DOMAIN raw[c] = {"state", "playerCount", "isServerClosed"}
  BY Shapes DEF NInv, Typed
<1>2. raw' = [raw EXCEPT ![c].playerCount = n]
  BY DEF SignalLevelEnd
<1>3. players \in Nat /\ raw[c].playerCount \in Nat
  BY <1>1, CountLinked DEF CountedWhenClosed, Own
<1>4. n \in Nat /\ n >= raw[c].playerCount /\ (raw[c].playerCount >= players => n = raw[c].playerCount)
  BY <1>3
<1>. HIDE DEF n
<1>5. /\ raw'[c].playerCount = n /\ raw'[c].state = raw[c].state
      /\ raw'[c].isServerClosed = raw[c].isServerClosed
      /\ \A d \in Consoles \ {c} : raw'[d] = raw[d]
  BY <1>1, <1>2
<1>6. /\ Ending(c) /\ session'[c] = session[c] /\ UNCHANGED <<up, down>>
      /\ \A d \in Consoles : session'[d] = session[d]
  BY <1>1, <1>5 DEF SignalLevelEnd, Ends, Ending, program, history, Domains
<1>7. c # 0 => (session'[c].msgFlags[0] => isConnected(c)')
  BY <1>1, <1>3, <1>4, <1>5, <1>6 DEF Own, isConnected
<1>8. ASSUME NEW d \in Consoles, NEW p \in Consoles PROVE Noticing(d, p)'
  <2>1. CASE d # c \/ n = raw[c].playerCount
    <3>1. PairKept(d, p)
      BY <1>5, <1>6, <2>1 DEF PairKept, SameFrames, SameFor, Alive, Ending
    <3>. QED
      BY <3>1, PairStays DEF NInv
  <2>2. CASE d = c /\ n # raw[c].playerCount
    <3>1. SUFFICES ASSUME silent[c][p] > 0
                   PROVE  /\ ~Alive(c, p) /\ isSessionActive(c)'
                          /\ (p \in Remote(c))' => Overdue(session[c], silent[c][p], p, Waits(c, p), isConnected(c)')
                          /\ ~(p \in Remote(c))' => c = 0 /\ raw'[0].isServerClosed /\ silent[c][p] <= 2 * timeout + 1
      BY <1>6, <2>2 DEF Noticing, Ending, Alive, Waits
    <3>2. /\ ~Alive(c, p) /\ isSessionActive(c)
          /\ p \in Remote(c) => Overdue(session[c], silent[c][p], p, Waits(c, p), isConnected(c))
          /\ p \notin Remote(c) => c = 0 /\ raw[0].isServerClosed
      BY <3>1 DEF NInv, Noticing
    <3>3. p \in Remote(c)
      <4>1. ASSUME c = 0, raw[0].isServerClosed PROVE FALSE
        BY <1>1, <1>4, <2>2, <4>1 DEF CountedWhenClosed
      <4>. QED
        BY <3>2, <4>1
    <3>4. (p \in Remote(c))'
      BY <1>3, <1>4, <1>5, <3>3, Players DEF Remote
    <3>5. isConnected(c) => isConnected(c)'
      BY <1>3, <1>4, <1>5 DEF isConnected
    <3>6. Overdue(session[c], silent[c][p], p, Waits(c, p), isConnected(c)')
      BY <3>2, <3>3, <3>5 DEF Overdue
    <3>7. isSessionActive(c)'
      BY <1>5, <3>2 DEF isSessionActive
    <3>. QED
      BY <3>2, <3>4, <3>6, <3>7
  <2>. QED
    BY <2>1, <2>2
<1>9. Slots' /\ IsSession(session'[c])
  BY <1>1, <1>6 DEF Slots, Own
<1>. QED
  BY <1>3, <1>4, <1>5, <1>6, <1>7, <1>8, <1>9, EndNotices

\* Transfers come from linked consoles and go to linked ones only.
LEMMA SendEndNotices ==
  ASSUME NInv, Shape', NEW c \in Consoles, SendDataEnd(c)
  PROVE  NInv'
<1>1. Shape /\ Domains /\ Slots /\ CountedWhenClosed /\ (\A d \in Consoles : Own(d))
      /\ DOMAIN command = Consoles
  BY Shapes DEF NInv, Typed
<1>2. Sent(command[c].data, c)
  BY <1>1 DEF SendDataEnd, Own
<1>. DEFINE w == session[c].shouldWaitForServer \/ raw[c].state = "CONNECTED"
            l == ~session[c].sendReceiveLatch
            x == [session[c] EXCEPT !.shouldWaitForServer = w, !.sendReceiveLatch = l]
<1>3. Ends(c, x) /\ UNCHANGED raw
  BY <1>1 DEF SendDataEnd, Own, IsSession, Sending, SessionFields
<1>. HIDE DEF w, l
<1>4. Kept(session[c], x)
  BY <1>1 DEF Own, IsSession, Kept, Sending, SameWatch, SessionFields
<1>. HIDE DEF x
<1>5. /\ Ending(c) /\ session'[c] = x
      /\ \A d \in Consoles \ {c} : session'[d] = session[d]
  BY <1>1, <1>3 DEF Ends, Ending, program, history, Domains
<1>6. PICK lost \in SUBSET Clients :
        IF c = 0
        THEN /\ down' = [p \in Clients |-> IF p \in linked \ lost THEN command[c].data ELSE down[p]]
             /\ UNCHANGED up
        ELSE /\ up' = IF c \in linked \ lost THEN [up EXCEPT ![c] = command[c].data] ELSE up
             /\ UNCHANGED down
  BY <1>1 DEF SendDataEnd, CountedWhenClosed
<1>7. Slots'
  <2>1. CASE c = 0
    BY <1>1, <1>2, <1>6, <2>1 DEF Slots
  <2>2. CASE c # 0
    BY <1>1, <1>2, <1>6, <2>2 DEF Slots
  <2>. QED
    BY <2>1, <2>2
<1>8. /\ \A p \in Clients : p \notin linked => down'[p] = down[p] /\ up'[p] = up[p]
  BY <1>1, <1>6 DEF Slots
<1>9. ASSUME NEW d \in Consoles, NEW p \in Consoles PROVE Noticing(d, p)'
  <2>1. SameWatch(session[d], session'[d])
    BY <1>4, <1>5 DEF Kept, SameWatch
  <2>2. silent'[d][p] > 0 => ~Alive(d, p)
    BY <1>5 DEF Ending, NInv, Noticing
  <2>3. silent'[d][p] > 0 => IF d = 0 THEN p \in Clients => up'[p] = up[p] ELSE down'[d] = down[d]
    <3>1. d # 0 => d \in Clients
      BY DEF Consoles
    <3>. QED
      BY <1>8, <2>2, <3>1 DEF Alive
  <2>4. PairKept(d, p)
    BY <1>3, <1>5, <2>1, <2>3 DEF PairKept, SameFrames, SameFor, SameWatch, Alive, Ending
  <2>. QED
    BY <2>4, PairStays DEF NInv
<1>10. IsSession(x) /\ x.msgFlags = session[c].msgFlags
  BY <1>1, <1>4, KeptWatched DEF Own, Kept, SameWatch
<1>11. /\ raw'[c].playerCount \in Nat /\ raw'[c].playerCount = raw[c].playerCount
       /\ raw'[c].state = raw[c].state /\ raw'[c].isServerClosed = raw[c].isServerClosed
       /\ (isConnected(c)' <=> isConnected(c))
  BY <1>1, <1>3 DEF Own, isConnected
<1>12. c # 0 => (session'[c].msgFlags[0] => isConnected(c)')
  BY <1>1, <1>5, <1>10, <1>11 DEF Own
<1>. QED
  BY <1>5, <1>7, <1>9, <1>10, <1>11, <1>12, EndNotices

\* What the end of a receive command changes besides the session.
LEMMA ReceiveEndParts ==
  ASSUME NInv, NEW c \in Consoles, ReceiveDataEnd(c)
  PROVE  /\ Ending(c) /\ Slots'
         /\ \A d \in Consoles \ {c} : session'[d] = session[d]
         /\ raw'[c].state = raw[c].state /\ raw'[c].isServerClosed = raw[c].isServerClosed
         /\ c = 0 => /\ raw'[0].playerCount = raw[0].playerCount
                     /\ \A p \in Clients : up'[p] \in {up[p], None}
                     /\ UNCHANGED down
         /\ c # 0 => /\ UNCHANGED up /\ down'[c] = None
                     /\ \A d \in Clients \ {c} : down'[d] = down[d]
<1>1. Shape /\ Domains /\ Slots /\ DOMAIN raw = Consoles /\ DOMAIN command = Consoles
      /\ DOMAIN raw[c] = {"state", "playerCount", "isServerClosed"}
  BY Shapes DEF NInv, Typed
<1>2. PICK n, x : raw' = [raw EXCEPT ![c].playerCount = n] /\ Ends(c, x)
                  /\ (c = 0 => n = raw[c].playerCount)
  BY DEF ReceiveDataEnd
<1>3. /\ raw'[c].state = raw[c].state /\ raw'[c].isServerClosed = raw[c].isServerClosed
      /\ c = 0 => raw'[0].playerCount = raw[0].playerCount
      /\ \A d \in Consoles \ {c} : raw'[d] = raw[d]
  BY <1>1, <1>2
<1>4. Ending(c) /\ \A d \in Consoles \ {c} : session'[d] = session[d]
  BY <1>1, <1>2, <1>3 DEF Ends, Ending, program, history, Domains
<1>5. c = 0 => /\ \A p \in Clients : up'[p] \in {up[p], None}
               /\ UNCHANGED down /\ DOMAIN up' = Clients
  BY DEF ReceiveDataEnd
<1>6. c # 0 => /\ UNCHANGED up /\ down' = [down EXCEPT ![c] = None]
  BY DEF ReceiveDataEnd
<1>7. c # 0 => c \in Clients
  BY DEF Consoles
<1>8. c # 0 => down'[c] = None /\ DOMAIN down' = Clients /\ \A d \in Clients \ {c} : down'[d] = down[d]
  BY <1>1, <1>6, <1>7 DEF Slots
<1>9. Slots'
  <2>1. CASE c = 0
    BY <1>1, <1>5, <2>1 DEF Slots
  <2>2. CASE c # 0
    BY <1>1, <1>6, <1>8, <2>2 DEF Slots
  <2>. QED
    BY <2>1, <2>2
<1>. QED
  BY <1>3, <1>4, <1>5, <1>6, <1>8, <1>9

LEMMA BeforeReceived ==
  ASSUME NEW c \in Consoles, IsSession(session[c]), NEW l, NEW x,
         x = [session[c] EXCEPT !.sendReceiveLatch = l, !.recvFlag = TRUE, !.recvTimeout = 0,
                                !.shouldWaitForServer = FALSE]
  PROVE  IsSession(x) /\ \A p \in Consoles : SameFor(session[c], x, p)
<1>1. Sending(x)
  BY DEF IsSession, Sending, SessionFields
<1>2. /\ x.msgTimeouts = session[c].msgTimeouts /\ x.msgFlags = session[c].msgFlags
      /\ x.lastHeartbeatFrom = session[c].lastHeartbeatFrom
      /\ x.recvFlag \in BOOLEAN /\ x.recvTimeout = 0
  BY DEF IsSession, Sending, SessionFields
<1>3. Watched(x)
  BY <1>2 DEF Watched, IsSession
<1>. QED
  BY <1>1, <1>2, <1>3 DEF IsSession, SameFor

LEMMA ServerReceivesNotices ==
  ASSUME NInv, Shape', ReceiveDataEnd(0)
  PROVE  NInv'
<1>1. Shape /\ Domains /\ Slots /\ CountedWhenClosed /\ (\A d \in Consoles : Own(d)) /\ Own(0)
      /\ IsSession(session[0]) /\ 0 \in Consoles
  BY Players DEF NInv, Typed, Own
<1>. DEFINE latch == session[0].shouldWaitForServer \/ ~session[0].sendReceiveLatch
            x == [session[0] EXCEPT !.sendReceiveLatch = latch, !.recvFlag = TRUE, !.recvTimeout = 0,
                                    !.shouldWaitForServer = FALSE]
            y == [session[0] EXCEPT !.sendReceiveLatch = latch]
            received == \E i \in DOMAIN up : up[i] # None
            count == raw[0].playerCount
            z == addIncomingMessagesFromData(x, 0, up, Remote(0), count)
<1>2. session'[0] = IF received THEN z ELSE y
  BY <1>1 DEF ReceiveDataEnd, Ends, Domains
<1>. HIDE DEF latch
<1>3. IsSession(x) /\ \A p \in Consoles : SameFor(session[0], x, p)
  BY <1>1, BeforeReceived
<1>4. Kept(session[0], y)
  BY <1>1 DEF IsSession, Kept, Sending, SameWatch, SessionFields
<1>. HIDE DEF x, y
<1>5. ServerHeard(x, z, up, Remote(0), 4)
  <2>1. DOMAIN up = Clients /\ Transfers(up)
    BY <1>1 DEF Slots, Transfers, Sent
  <2>. QED
    BY <1>3, <2>1, ServerHears
<1>. HIDE DEF z
<1>6. IsSession(session'[0])
  <2>1. IsSession(z)
    BY <1>5 DEF ServerHeard
  <2>2. IsSession(y)
    BY <1>1, <1>4, KeptWatched
  <2>. QED
    BY <1>2, <2>1, <2>2
<1>7. ASSUME NEW p \in Clients
      PROVE  IF p \in Remote(0) /\ Waits(0, p)
             THEN HeardOf(session'[0], p) /\ session'[0].lastHeartbeatFrom[p] = up[p].count
             ELSE SameFor(session[0], session'[0], p)
  <2>0. DOMAIN up = Clients /\ p <= 4 /\ p \in Consoles
    BY <1>1, Players DEF Slots
  <2>1. CASE received
    <3>1. Waits(0, p) <=> Speaks(x, up[p], 4, p)
      BY <1>3, <2>0 DEF Waits, Speaks, SameFor
    <3>2. IF p \in Remote(0) /\ Speaks(x, up[p], 4, p)
          THEN HeardOf(z, p) /\ z.lastHeartbeatFrom[p] = up[p].count
          ELSE SameFor(x, z, p)
      BY <1>5 DEF ServerHeard
    <3>3. session'[0] = z
      BY <1>2, <2>1
    <3>4. SameFor(session[0], x, p)
      BY <1>3, <2>0
    <3>. QED
      BY <3>1, <3>2, <3>3, <3>4 DEF SameFor
  <2>2. CASE ~received
    <3>1. ~Waits(0, p)
      BY <2>0, <2>2 DEF Waits
    <3>2. session'[0] = y
      BY <1>2, <2>2
    <3>. QED
      BY <1>4, <3>1, <3>2 DEF Kept, SameWatch, SameFor
  <2>. QED
    BY <2>1, <2>2
<1>8. /\ Ending(0) /\ Slots'
      /\ \A d \in Consoles \ {0} : session'[d] = session[d]
      /\ raw'[0].state = raw[0].state /\ raw'[0].isServerClosed = raw[0].isServerClosed
      /\ raw'[0].playerCount = raw[0].playerCount
      /\ \A p \in Clients : up'[p] \in {up[p], None}
      /\ UNCHANGED down
  BY <1>1, ReceiveEndParts
<1>9. ASSUME NEW d \in Consoles, NEW p \in Consoles PROVE Noticing(d, p)'
  <2>1. CASE d # 0
    <3>1. PairKept(d, p)
      BY <1>8, <2>1 DEF PairKept, SameFrames, SameFor, Alive, Ending
    <3>. QED
      BY <3>1, PairStays DEF NInv
  <2>2. CASE d = 0
    <3>1. SUFFICES ASSUME silent[0][p] > 0
                   PROVE  /\ ~Alive(0, p) /\ isSessionActive(0)
                          /\ p \in Remote(0) => Overdue(session'[0], silent[0][p], p, Waits(0, p)', isConnected(0))
                          /\ p \notin Remote(0) => raw[0].isServerClosed /\ silent[0][p] <= 2 * timeout + 1
      <4>1. /\ (p \in Remote(0))' <=> p \in Remote(0)
            /\ isConnected(0)' <=> isConnected(0)
            /\ isSessionActive(0)' <=> isSessionActive(0)
            /\ Alive(0, p)' <=> Alive(0, p)
            /\ silent' = silent
            /\ raw'[0].isServerClosed <=> raw[0].isServerClosed
        BY <1>8 DEF Remote, isConnected, isSessionActive, Alive, Ending
      <4>. QED
        BY <2>2, <4>1 DEF Noticing, Overdue
    <3>2. /\ ~Alive(0, p) /\ isSessionActive(0)
          /\ p \in Remote(0) => Overdue(session[0], silent[0][p], p, Waits(0, p), isConnected(0))
          /\ p \notin Remote(0) => raw[0].isServerClosed /\ silent[0][p] <= 2 * timeout + 1
      BY <1>1, <3>1 DEF NInv, Noticing
    <3>3. ASSUME p \in Remote(0)
          PROVE  Overdue(session'[0], silent[0][p], p, Waits(0, p)', isConnected(0))
      <4>1. p \in Clients
        BY <1>1, <3>2, <3>3 DEF Remote, isSessionActive, Own, States
      <4>2. Overdue(session[0], silent[0][p], p, Waits(0, p), isConnected(0))
        BY <3>2, <3>3
      <4>3. CASE Waits(0, p)
        <5>1. HeardOf(session'[0], p) /\ session'[0].lastHeartbeatFrom[p] = up[p].count
          BY <1>7, <3>3, <4>1, <4>3
        <5>2. ~Waits(0, p)'
          BY <1>8, <4>1, <5>1 DEF Waits
        <5>3. silent[0][p] <= timeout
          BY <4>2, <4>3 DEF Overdue
        <5>. QED
          BY <5>1, <5>2, <5>3 DEF Overdue, HeardOf
      <4>4. CASE ~Waits(0, p)
        <5>1. SameFor(session[0], session'[0], p)
          BY <1>7, <4>1, <4>4
        <5>2. ~Waits(0, p)'
          BY <1>8, <4>1, <4>4, <5>1 DEF Waits, SameFor
        <5>. QED
          BY <4>2, <4>4, <5>1, <5>2 DEF Overdue, SameFor
      <4>. QED
        BY <4>3, <4>4
    <3>. QED
      BY <3>2, <3>3
  <2>. QED
    BY <2>1, <2>2
<1>10. raw'[0].playerCount \in Nat /\ raw'[0].playerCount >= raw[0].playerCount
  BY <1>1, <1>8 DEF Own
<1>. QED
  BY <1>1, <1>6, <1>8, <1>9, <1>10, EndNotices

LEMMA ClientReceivesNotices ==
  ASSUME NInv, Shape', NEW c \in Clients, ReceiveDataEnd(c)
  PROVE  NInv'
<1>1. Shape /\ Domains /\ Slots /\ CountedWhenClosed /\ (\A d \in Consoles : Own(d)) /\ Own(c)
      /\ IsSession(session[c]) /\ c \in Consoles /\ c # 0 /\ DOMAIN raw = Consoles
      /\ DOMAIN raw[c] = {"state", "playerCount", "isServerClosed"}
  BY Players, Shapes DEF NInv, Typed, Own
<1>. DEFINE latch == session[c].shouldWaitForServer \/ ~session[c].sendReceiveLatch
            x == [session[c] EXCEPT !.sendReceiveLatch = latch, !.recvFlag = TRUE, !.recvTimeout = 0,
                                    !.shouldWaitForServer = FALSE]
            y == [session[c] EXCEPT !.sendReceiveLatch = latch]
            data == [i \in {0} |-> down[c]]
            received == down[c] # None
            count == IF received THEN data[0].count ELSE raw[c].playerCount
            z == addIncomingMessagesFromData(x, c, data, Remote(c), count)
<1>2. DOMAIN data = {0} /\ data[0] = down[c]
  OBVIOUS
<1>3. session'[c] = IF received THEN z ELSE y
  BY <1>1, <1>2 DEF ReceiveDataEnd, Ends, Domains
<1>4. raw' = [raw EXCEPT ![c].playerCount = count]
  BY <1>1, <1>2 DEF ReceiveDataEnd
<1>5. raw'[c].playerCount = count
  <2>. HIDE DEF count
  <2>. QED
    BY <1>1, <1>4
<1>6. raw[c].state # "SERVING" /\ Remote(c) = {0}
  BY <1>1 DEF Own, States, Remote
<1>. HIDE DEF latch
<1>7. IsSession(x)
  BY <1>1, BeforeReceived
<1>8. Kept(session[c], y)
  BY <1>1 DEF IsSession, Kept, Sending, SameWatch, SessionFields
<1>. HIDE DEF x, y
<1>9. received => IsSession(z) /\ HeardOf(z, 0) /\ count > 1 /\ count \in Nat
  <2>1. SUFFICES ASSUME received PROVE IsSession(z) /\ HeardOf(z, 0) /\ count > 1 /\ count \in Nat
    OBVIOUS
  <2>2. Sent(down[c], 0)
    BY <1>1, <2>1 DEF Slots
  <2>3. Transfers(data) /\ data[0] # None
    BY <1>2, <2>1, <2>2 DEF Transfers, Sent
  <2>4. count > 1 /\ count \in Nat
    BY <1>2, <2>1, <2>2 DEF Sent
  <2>. HIDE DEF data, count
  <2>. QED
    BY <1>2, <1>6, <1>7, <2>3, <2>4, ClientHears
<1>. HIDE DEF z
<1>10. IsSession(session'[c])
  <2>1. IsSession(y)
    BY <1>1, <1>8, KeptWatched
  <2>. QED
    BY <1>3, <1>9, <2>1
<1>11. c # 0 => (session'[c].msgFlags[0] => isConnected(c)')
  <2>1. CASE received
    BY <1>5, <1>9, <2>1 DEF isConnected
  <2>2. CASE ~received
    BY <1>1, <1>3, <1>5, <1>8, <2>2 DEF isConnected, Own, Kept, SameWatch
  <2>. QED
    BY <2>1, <2>2
<1>12. raw'[c].playerCount \in Nat
  BY <1>1, <1>5, <1>9 DEF Own
<1>13. /\ Ending(c) /\ Slots'
       /\ \A d \in Consoles \ {c} : session'[d] = session[d]
       /\ raw'[c].state = raw[c].state /\ raw'[c].isServerClosed = raw[c].isServerClosed
       /\ UNCHANGED up /\ down'[c] = None /\ \A d \in Clients \ {c} : down'[d] = down[d]
  BY <1>1, ReceiveEndParts
<1>14. ASSUME NEW d \in Consoles, NEW p \in Consoles PROVE Noticing(d, p)'
  <2>1. CASE d # c
    <3>1. d # 0 => down'[d] = down[d]
      BY <1>13, <2>1 DEF Consoles
    <3>2. PairKept(d, p)
      BY <1>13, <2>1, <3>1 DEF PairKept, SameFrames, SameFor, Alive, Ending
    <3>. QED
      BY <3>2, PairStays DEF NInv
  <2>2. CASE d = c
    <3>1. /\ (p \in Remote(c))' <=> p = 0
          /\ isSessionActive(c)' <=> isSessionActive(c)
          /\ Alive(c, p)' <=> Alive(c, p)
          /\ silent' = silent /\ ~Waits(c, p)'
      BY <1>1, <1>6, <1>13 DEF Remote, isSessionActive, Alive, Ending, Waits
    <3>2. SUFFICES ASSUME silent[c][p] > 0
                   PROVE  /\ ~Alive(c, p) /\ isSessionActive(c) /\ p = 0
                          /\ Overdue(session'[c], silent[c][p], p, FALSE, isConnected(c)')
      BY <2>2, <3>1 DEF Noticing, Overdue
    <3>3. /\ ~Alive(c, p) /\ isSessionActive(c) /\ p = 0
          /\ Overdue(session[c], silent[c][p], p, Waits(c, p), isConnected(c))
      BY <1>1, <1>6, <3>2 DEF NInv, Noticing
    <3>4. Waits(c, p) <=> received
      BY <1>1, <3>3 DEF Waits
    <3>5. CASE received
      BY <1>3, <1>9, <3>3, <3>4, <3>5 DEF Overdue, HeardOf
    <3>6. CASE ~received
      BY <1>3, <1>8, <3>3, <3>4, <3>6 DEF Overdue, Kept, SameWatch
    <3>. QED
      BY <3>3, <3>5, <3>6
  <2>. QED
    BY <2>1, <2>2
<1>. QED
  BY <1>1, <1>10, <1>11, <1>12, <1>13, <1>14, EndNotices

\* A frame.
LEMMA FrameValues ==
  ASSUME NEW x, IsSession(x), NEW c \in Consoles
  PROVE  LET y == Frame(x, c)
         IN  /\ IsSession(y) /\ y.lastHeartbeatFrom = x.lastHeartbeatFrom
             /\ y.recvTimeout = IF isConnected(c) /\ ~x.recvFlag THEN x.recvTimeout + 1
                                                                 ELSE x.recvTimeout
             /\ ~y.recvFlag
             /\ \A p \in Consoles :
                  /\ y.msgTimeouts[p] = IF p \in Remote(c) /\ ~x.msgFlags[p]
                                        THEN x.msgTimeouts[p] + 1 ELSE x.msgTimeouts[p]
                  /\ y.msgFlags[p] <=> p \notin Remote(c) /\ x.msgFlags[p]
<1>. DEFINE r == IF isConnected(c) /\ ~x.recvFlag THEN x.recvTimeout + 1 ELSE x.recvTimeout
            t == [p \in Consoles |-> IF p \in Remote(c) /\ ~x.msgFlags[p]
                                     THEN x.msgTimeouts[p] + 1 ELSE x.msgTimeouts[p]]
            f == [p \in Consoles |-> p \notin Remote(c) /\ x.msgFlags[p]]
            y == [x EXCEPT !.recvTimeout = r, !.recvFlag = FALSE, !.signalLevelCalled = FALSE,
                           !.msgTimeouts = t, !.msgFlags = f]
<1>1. Frame(x, c) = y
  BY DEF Frame, IsSession, Sending, SessionFields
<1>2. r \in Nat /\ t \in [Consoles -> Nat] /\ f \in [Consoles -> BOOLEAN]
  BY DEF IsSession, Watched
<1>3. \A p \in Consoles : /\ t[p] = IF p \in Remote(c) /\ ~x.msgFlags[p]
                                    THEN x.msgTimeouts[p] + 1 ELSE x.msgTimeouts[p]
                          /\ f[p] <=> p \notin Remote(c) /\ x.msgFlags[p]
  OBVIOUS
<1>. HIDE DEF r, t, f
<1>4. /\ y.recvTimeout = r /\ y.msgTimeouts = t /\ y.msgFlags = f
      /\ y.lastHeartbeatFrom = x.lastHeartbeatFrom
      /\ y.recvFlag \in BOOLEAN /\ ~y.recvFlag
  BY DEF IsSession, Sending, SessionFields
<1>5. Sending(y)
  BY DEF IsSession, Sending, SessionFields
<1>. HIDE DEF y
<1>6. Watched(y)
  BY <1>2, <1>4 DEF IsSession, Watched
<1>7. y.recvTimeout = IF isConnected(c) /\ ~x.recvFlag THEN x.recvTimeout + 1 ELSE x.recvTimeout
  BY <1>4 DEF r
<1>8. \A p \in Consoles :
        /\ y.msgTimeouts[p] = IF p \in Remote(c) /\ ~x.msgFlags[p]
                              THEN x.msgTimeouts[p] + 1 ELSE x.msgTimeouts[p]
        /\ y.msgFlags[p] <=> p \notin Remote(c) /\ x.msgFlags[p]
  BY <1>3, <1>4
<1>. QED
  BY <1>1, <1>4, <1>5, <1>6, <1>7, <1>8 DEF IsSession

LEMMA TimeoutsResetValues ==
  ASSUME NEW x, IsSession(x)
  PROVE  /\ IsSession(TimeoutsReset(x))
         /\ \A p \in Consoles : TimeoutsReset(x).msgFlags[p] <=> x.msgFlags[p]
         /\ ~x.isResetTimeoutPending => TimeoutsReset(x) = x
<1>. DEFINE z == [p \in Consoles |-> 0]
            y == [x EXCEPT !.recvTimeout = 0, !.msgTimeouts = z, !.isResetTimeoutPending = FALSE]
<1>1. TimeoutsReset(x) = IF x.isResetTimeoutPending THEN y ELSE x
  BY DEF TimeoutsReset
<1>2. z \in [Consoles -> Nat]
  OBVIOUS
<1>. HIDE DEF z
<1>3. Sending(y)
  BY DEF IsSession, Sending, SessionFields
<1>4. /\ y.recvTimeout = 0 /\ y.msgTimeouts = z /\ y.msgFlags = x.msgFlags
      /\ y.recvFlag = x.recvFlag /\ y.lastHeartbeatFrom = x.lastHeartbeatFrom
  BY DEF IsSession, Sending, SessionFields
<1>. HIDE DEF y
<1>5. Watched(y)
  BY <1>2, <1>4 DEF IsSession, Watched
<1>. QED
  BY <1>1, <1>3, <1>4, <1>5 DEF IsSession

\* A frame more of a player that has left, in a console that has not given up.
LEMMA OverdueLonger ==
  ASSUME NEW x, IsSession(x), NEW y, IsSession(y), NEW p \in Consoles, NEW s \in Nat,
         NEW waits, NEW connected,
         s > 0 => Overdue(x, s, p, waits, connected),
         y.recvTimeout = IF connected /\ ~x.recvFlag THEN x.recvTimeout + 1 ELSE x.recvTimeout,
         ~y.recvFlag, ~y.msgFlags[p],
         y.msgTimeouts[p] = IF ~x.msgFlags[p] THEN x.msgTimeouts[p] + 1 ELSE x.msgTimeouts[p],
         y.recvTimeout < timeout, y.msgTimeouts[p] <= timeout,
         x.msgFlags[p] => connected
  PROVE  Overdue(y, s + 1, p, waits, connected)
<1>1. /\ timeout \in Nat /\ timeout > 0
      /\ x.recvTimeout \in Nat /\ y.recvTimeout \in Nat
      /\ x.msgTimeouts[p] \in Nat /\ y.msgTimeouts[p] \in Nat
  BY WirelessAssumption DEF IsSession, Watched
<1>2. ASSUME waits
      PROVE  /\ s + 1 <= timeout
             /\ \/ ~y.msgFlags[p] /\ s + 1 <= y.msgTimeouts[p]
                \/ ~y.recvFlag /\ connected /\ s + 1 <= y.recvTimeout + 1
  <2>1. CASE s = 0
    BY <1>1, <2>1
  <2>2. CASE s > 0 /\ ~x.msgFlags[p] /\ s <= x.msgTimeouts[p]
    BY <1>1, <2>2
  <2>3. CASE s > 0 /\ ~x.recvFlag /\ connected /\ s <= x.recvTimeout + 1
    BY <1>1, <2>3
  <2>. QED
    BY <1>2, <2>1, <2>2, <2>3 DEF Overdue
<1>3. ASSUME ~waits PROVE s + 1 <= timeout + 1 + y.msgTimeouts[p]
  <2>1. CASE s = 0
    BY <1>1, <2>1
  <2>2. CASE s > 0 /\ x.msgFlags[p]
    BY <1>1, <1>3, <2>2 DEF Overdue
  <2>3. CASE s > 0 /\ ~x.msgFlags[p]
    BY <1>1, <1>3, <2>3 DEF Overdue
  <2>. QED
    BY <2>1, <2>2, <2>3
<1>. QED
  BY <1>2, <1>3 DEF Overdue

LEMMA VBlankNotices ==
  ASSUME NInv, Shape', NEW c \in Consoles, _onVBlank(c)
  PROVE  NInv'
<1>. DEFINE x == TimeoutsReset(session[c])
            y == Frame(x, c)
<1>1. CASE reset(c)
  BY <1>1, ResetNotices DEF _onVBlank, program
<1>2. CASE ~reset(c)
  <2>1. /\ isSessionActive(c) /\ ~TimedOut(y, c)
        /\ session' = [session EXCEPT ![c] = y]
        /\ silent' = [silent EXCEPT ![c] = [p \in Consoles |->
             IF p \notin Remote(c) \/ Alive(c, p) \/ session[c].isResetTimeoutPending
             THEN 0 ELSE silent[c][p] + 1]]
        /\ UNCHANGED <<raw, command, linked, up, down, sent, call>>
    BY <1>2 DEF _onVBlank, adapters, program, history
  <2>2. Shape /\ Domains /\ Slots /\ CountedWhenClosed /\ (\A d \in Consoles : Own(d)) /\ Own(c)
        /\ IsSession(session[c])
    BY DEF NInv, Typed, Own
  <2>3. IsSession(x) /\ \A p \in Consoles : x.msgFlags[p] <=> session[c].msgFlags[p]
    BY <2>2, TimeoutsResetValues
  <2>4. ~session[c].isResetTimeoutPending => x = session[c]
    BY <2>2, TimeoutsResetValues
  <2>. HIDE DEF x
  <2>5. /\ IsSession(y) /\ y.lastHeartbeatFrom = x.lastHeartbeatFrom
        /\ y.recvTimeout = IF isConnected(c) /\ ~x.recvFlag THEN x.recvTimeout + 1
                                                            ELSE x.recvTimeout
        /\ ~y.recvFlag
        /\ \A p \in Consoles :
             /\ y.msgTimeouts[p] = IF p \in Remote(c) /\ ~x.msgFlags[p]
                                   THEN x.msgTimeouts[p] + 1 ELSE x.msgTimeouts[p]
             /\ y.msgFlags[p] <=> p \notin Remote(c) /\ x.msgFlags[p]
    BY <2>3, FrameValues
  <2>. HIDE DEF y
  <2>6. session'[c] = y /\ \A d \in Consoles \ {c} : session'[d] = session[d]
    BY <2>1, <2>2 DEF Domains
  <2>7. /\ silent' \in [Consoles -> [Consoles -> Nat]]
        /\ \A d \in Consoles \ {c} : silent'[d] = silent[d]
        /\ \A p \in Consoles : silent'[c][p] =
             IF p \notin Remote(c) \/ Alive(c, p) \/ session[c].isResetTimeoutPending
             THEN 0 ELSE silent[c][p] + 1
    BY <2>1, <2>2 DEF Domains
  <2>8. Own(c)'
    <3>1. c # 0 => (y.msgFlags[0] => isConnected(c))
      BY <2>2, <2>3, <2>5, Players DEF Own
    <3>. QED
      BY <2>1, <2>2, <2>5, <2>6, <3>1 DEF Own, isConnected
  <2>9. ASSUME NEW d \in Consoles \ {c} PROVE Own(d)'
    BY <2>1, <2>2, <2>6, OwnStays
  <2>10. Domains' /\ Slots' /\ CountedWhenClosed'
    BY <2>1, <2>2, <2>7 DEF Domains, Slots, CountedWhenClosed
  <2>11. ASSUME NEW d \in Consoles, NEW p \in Consoles PROVE Noticing(d, p)'
    <3>1. CASE d # c
      <4>1. PairKept(d, p)
        BY <2>1, <2>6, <2>7, <3>1 DEF PairKept, SameFrames, SameFor, Alive
      <4>. QED
        BY <4>1, PairStays DEF NInv
    <3>2. CASE d = c
      <4>1. SUFFICES ASSUME silent'[c][p] > 0
                     PROVE  /\ ~Alive(c, p) /\ isSessionActive(c) /\ p \in Remote(c)
                            /\ Overdue(y, silent'[c][p], p, Waits(c, p), isConnected(c))
        <5>1. /\ Alive(c, p)' <=> Alive(c, p)
              /\ isSessionActive(c)' <=> isSessionActive(c)
              /\ (p \in Remote(c))' <=> p \in Remote(c)
              /\ isConnected(c)' <=> isConnected(c)
          BY <2>1 DEF Alive, isSessionActive, Remote, isConnected
        <5>2. silent'[c][p] > 0 => (Waits(c, p)' <=> Waits(c, p))
          <6>1. silent'[c][p] > 0 => y.lastHeartbeatFrom = session[c].lastHeartbeatFrom
            BY <2>4, <2>5, <2>7
          <6>. QED
            BY <2>1, <2>6, <6>1 DEF Waits
        <5>. QED
          BY <2>6, <3>2, <4>1, <5>1, <5>2 DEF Noticing, Overdue
      <4>2. /\ p \in Remote(c) /\ ~Alive(c, p) /\ ~session[c].isResetTimeoutPending
            /\ silent'[c][p] = silent[c][p] + 1 /\ silent[c][p] \in Nat
        BY <2>2, <2>7, <4>1 DEF Domains
      <4>3. x = session[c]
        BY <2>4, <4>2
      <4>4. silent[c][p] > 0 => Overdue(x, silent[c][p], p, Waits(c, p), isConnected(c))
        BY <4>2, <4>3 DEF NInv, Noticing
      <4>5. y.recvTimeout < timeout /\ y.msgTimeouts[p] <= timeout
        <5>1. y.recvTimeout \in Nat /\ y.msgTimeouts[p] \in Nat /\ timeout \in Nat
          BY <2>5, WirelessAssumption DEF IsSession, Watched
        <5>. QED
          BY <2>1, <4>2, <5>1 DEF TimedOut
      <4>6. x.msgFlags[p] => isConnected(c)
        <5>1. CASE c = 0
          <6>1. p \in Clients /\ p < raw[0].playerCount /\ raw[0].playerCount \in Nat
            BY <2>1, <2>2, <4>2, <5>1 DEF Remote, isSessionActive, Own, States
          <6>. QED
            BY <5>1, <6>1, Players DEF isConnected
        <5>2. CASE c # 0
          <6>1. p = 0
            BY <2>1, <2>2, <4>2, <5>2 DEF Remote, isSessionActive, Own, States
          <6>. QED
            BY <2>2, <2>3, <5>2, <6>1 DEF Own
        <5>. QED
          BY <5>1, <5>2
      <4>7. /\ ~y.recvFlag /\ ~y.msgFlags[p]
            /\ y.msgTimeouts[p] = IF ~x.msgFlags[p] THEN x.msgTimeouts[p] + 1 ELSE x.msgTimeouts[p]
        BY <2>5, <4>2
      <4>8. Overdue(y, silent[c][p] + 1, p, Waits(c, p), isConnected(c))
        BY <2>3, <2>5, <4>2, <4>4, <4>5, <4>6, <4>7, OverdueLonger
      <4>. QED
        BY <2>1, <4>2, <4>8
    <3>. QED
      BY <3>1, <3>2
  <2>. QED
    BY <2>2, <2>8, <2>9, <2>10, <2>11 DEF NInv, Typed
<1>. QED
  BY <1>1, <1>2

LEMMA SerialNotices ==
  ASSUME NInv, Shape', NEW c \in Consoles, _onSerial(c)
  PROVE  NInv'
<1>1. CASE SignalLevelEnd(c)
  BY <1>1, SignalLevelNotices
<1>2. CASE SendDataEnd(c)
  BY <1>2, SendEndNotices
<1>3. CASE ReceiveDataEnd(c)
  BY <1>3, ServerReceivesNotices, ClientReceivesNotices DEF Consoles
<1>4. CASE CommandFails(c)
  BY <1>4, ResetNotices DEF CommandFails, program
<1>. QED
  BY <1>1, <1>2, <1>3, <1>4 DEF _onSerial

-----------------------------------------------------------------------------
(* The program.                                                            *)

\* Outside of a session nobody is counted as silent.
LEMMA SilentOutside ==
  ASSUME NInv, NEW c \in Consoles, ~isSessionActive(c), NEW p \in Consoles
  PROVE  silent[c][p] = 0
  BY DEF NInv, Typed, Domains, Noticing

\* A console enters a session, or looks for one.
LEMMA EnterNotices ==
  ASSUME NInv, Shape', NEW c \in Consoles, ~isSessionActive(c),
         raw'[c].state \in States(c), raw'[c].playerCount = raw[c].playerCount,
         ~raw'[c].isServerClosed \/ raw'[c].isServerClosed = raw[c].isServerClosed,
         \A d \in Consoles \ {c} : raw'[d] = raw[d],
         UNCHANGED <<session, command, linked, up, down, history, silent>>,
         UNCHANGED call \/ Returns(c)
  PROVE  NInv'
<1>1. Shape /\ Domains /\ Slots /\ CountedWhenClosed /\ (\A d \in Consoles : Own(d))
      /\ UNCHANGED sent
  BY DEF NInv, Typed, history
<1>2. /\ DOMAIN call' = Consoles
      /\ \A d \in Consoles \ {c} : call'[d] = call[d]
      /\ c # 0 => call'[c] \in {"none", "getSignalLevel"}
  BY <1>1 DEF Domains, Own, Returns
<1>3. Own(c)'
  BY <1>1, <1>2 DEF Own, isConnected
<1>4. ASSUME NEW d \in Consoles \ {c} PROVE Own(d)'
  BY <1>1, <1>2, OwnStays
<1>5. CountedWhenClosed'
  <2>1. raw'[0].playerCount = raw[0].playerCount
        /\ (raw'[0].isServerClosed => raw[0].isServerClosed)
    BY Players
  <2>. QED
    BY <1>1, <2>1 DEF CountedWhenClosed
<1>6. Domains' /\ Slots'
  BY <1>1, <1>2 DEF Domains, Slots
<1>7. ASSUME NEW d \in Consoles, NEW p \in Consoles PROVE Noticing(d, p)'
  <2>1. CASE d = c
    BY <2>1, SilentOutside DEF Noticing
  <2>2. CASE d # c
    <3>1. PairKept(d, p)
      BY <2>2 DEF PairKept, SameFrames, SameFor, Alive
    <3>. QED
      BY <3>1, PairStays DEF NInv
  <2>. QED
    BY <2>1, <2>2
<1>. QED
  BY <1>3, <1>4, <1>5, <1>6, <1>7 DEF NInv, Typed

\* A client that is linked starts with nobody silent, on either side, and
\* without a transfer of an earlier session.
LEMMA ConnectNotices ==
  ASSUME NInv, Shape', NEW c \in Consoles, keepConnecting(c)
  PROVE  NInv'
<1>1. Shape /\ Domains /\ Slots /\ CountedWhenClosed /\ (\A d \in Consoles : Own(d))
      /\ DOMAIN raw = Consoles /\ DOMAIN raw[c] = {"state", "playerCount", "isServerClosed"}
      /\ UNCHANGED <<session, command, call, sent>>
  BY Shapes DEF NInv, Typed, keepConnecting, program
<1>2. c \in Clients /\ c # 0 /\ ~isSessionActive(c) /\ ~raw[0].isServerClosed /\ 0 \in Consoles
  BY <1>1, Players DEF keepConnecting, Own, States, Consoles, isSessionActive
<1>3. raw' = [raw EXCEPT ![c].state = "CONNECTED"]
  BY DEF keepConnecting
<1>4. /\ raw'[c].state = "CONNECTED" /\ raw'[c].playerCount = raw[c].playerCount
      /\ \A d \in Consoles \ {c} : raw'[d] = raw[d]
  BY <1>1, <1>3
<1>5. Own(c)'
  BY <1>1, <1>2, <1>4 DEF Own, States, isConnected
<1>6. ASSUME NEW d \in Consoles \ {c} PROVE Own(d)'
  BY <1>1, <1>4, OwnStays
<1>7. linked' = linked \cup {c} /\ up' = [up EXCEPT ![c] = None] /\ down' = [down EXCEPT ![c] = None]
  BY DEF keepConnecting
<1>8. CountedWhenClosed'
  BY <1>1, <1>2, <1>4, <1>7 DEF CountedWhenClosed
<1>9. Slots'
  BY <1>1, <1>7 DEF Slots
<1>10. /\ silent' \in [Consoles -> [Consoles -> Nat]]
       /\ \A p \in Consoles : silent'[c][p] = 0
       /\ silent'[0][c] = 0
       /\ \A p \in Consoles \ {c} : silent'[0][p] = silent[0][p]
       /\ \A d \in Consoles \ {0, c} : silent'[d] = silent[d]
  <2>. DEFINE z == [p \in Consoles |-> 0]
              s == [silent EXCEPT ![c] = z]
  <2>1. silent' = [s EXCEPT ![0][c] = 0]
    BY <1>1, <1>2 DEF keepConnecting, Domains
  <2>2. z \in [Consoles -> Nat] /\ \A p \in Consoles : z[p] = 0
    OBVIOUS
  <2>. HIDE DEF z
  <2>3. /\ s \in [Consoles -> [Consoles -> Nat]] /\ s[c] = z
        /\ \A d \in Consoles \ {c} : s[d] = silent[d]
    BY <1>1, <2>2 DEF Domains
  <2>. HIDE DEF s
  <2>4. /\ silent' \in [Consoles -> [Consoles -> Nat]]
        /\ \A d \in Consoles \ {0} : silent'[d] = s[d]
        /\ silent'[0][c] = 0
        /\ \A p \in Consoles \ {c} : silent'[0][p] = s[0][p]
    BY <1>2, <2>1, <2>3
  <2>. QED
    BY <1>2, <2>2, <2>3, <2>4
<1>11. Domains'
  BY <1>1, <1>10 DEF Domains
<1>12. ASSUME NEW d \in Consoles, NEW p \in Consoles PROVE Noticing(d, p)'
  <2>1. CASE d = c \/ (d = 0 /\ p = c)
    <3>1. silent'[d][p] = 0
      BY <1>10, <2>1
    <3>. QED
      BY <3>1 DEF Noticing
  <2>2. CASE d # c /\ ~(d = 0 /\ p = c)
    <3>1. silent'[d][p] = silent[d][p]
      BY <1>10, <2>2
    <3>2. raw'[d] = raw[d] /\ session'[d] = session[d]
      BY <1>1, <1>4, <2>2
    <3>3. Alive(d, p)' => Alive(d, p)
      BY <1>7, <2>2 DEF Alive
    <3>4. IF d = 0 THEN p \in Clients => up'[p] = up[p] ELSE down'[d] = down[d]
      BY <1>1, <1>7, <2>2 DEF Slots, Consoles
    <3>5. PairKept(d, p)
      BY <3>1, <3>2, <3>3, <3>4 DEF PairKept, SameFrames, SameFor
    <3>. QED
      BY <3>5, PairStays DEF NInv
  <2>. QED
    BY <2>1, <2>2
<1>. QED
  BY <1>5, <1>6, <1>8, <1>9, <1>11, <1>12 DEF NInv, Typed

\* The program outside of a session, and into one.
LEMMA SessionNotices ==
  ASSUME NInv, Shape', NEW c \in Consoles,
         \/ serve /\ c = 0
         \/ getServersAsyncStart(c) \/ getServersAsyncEnd(c)
         \/ connect(c) \/ keepConnecting(c) \/ FailedCall(c)
         \/ deactivate(c) \/ activate(c)
  PROVE  NInv'
<1>1. /\ DOMAIN raw = Consoles /\ DOMAIN raw[c] = {"state", "playerCount", "isServerClosed"}
      /\ Own(c)
  BY Shapes DEF NInv, Typed
<1>2. CASE serve /\ c = 0
  <2>1. raw' = [raw EXCEPT ![c] = Opened(raw[c])] /\ raw[c].state = "AUTHENTICATED"
    BY <1>2 DEF serve, Enters
  <2>2. raw'[c] = Opened(raw[c]) /\ \A d \in Consoles \ {c} : raw'[d] = raw[d]
    BY <1>1, <2>1
  <2>3. /\ raw'[c].state \in States(c) /\ raw'[c].playerCount = raw[c].playerCount
        /\ ~raw'[c].isServerClosed /\ ~isSessionActive(c)
    BY <1>2, <2>1, <2>2 DEF Opened, States, isSessionActive
  <2>. QED
    BY <1>2, <2>2, <2>3, EnterNotices DEF serve, Enters, program
<1>3. CASE getServersAsyncStart(c) \/ getServersAsyncEnd(c) \/ connect(c)
  <2>1. PICK state \in States(c) : raw' = [raw EXCEPT ![c].state = state]
    <3>1. CASE getServersAsyncStart(c) \/ connect(c)
      <4>1. PICK state \in {"SEARCHING", "CONNECTING"} : raw' = [raw EXCEPT ![c].state = state]
        BY <3>1 DEF getServersAsyncStart, connect, Enters
      <4>. QED
        BY <3>1, <4>1 DEF getServersAsyncStart, connect, States
    <3>2. CASE getServersAsyncEnd(c)
      <4>1. raw' = [raw EXCEPT ![c].state = "AUTHENTICATED"]
        BY <1>1, <3>2 DEF getServersAsyncEnd, Enters
      <4>. QED
        BY <4>1 DEF States
    <3>. QED
      BY <1>3, <3>1, <3>2
  <2>2. /\ raw'[c].state = state /\ raw'[c].playerCount = raw[c].playerCount
        /\ raw'[c].isServerClosed = raw[c].isServerClosed
        /\ \A d \in Consoles \ {c} : raw'[d] = raw[d]
    BY <1>1, <2>1
  <2>3. ~isSessionActive(c)
    BY <1>3 DEF getServersAsyncStart, getServersAsyncEnd, connect, isSessionActive
  <2>4. UNCHANGED <<session, command, linked, up, down, call, history, silent>>
    BY <1>3 DEF getServersAsyncStart, getServersAsyncEnd, connect, Enters, adapters, program
  <2>. QED
    BY <2>1, <2>2, <2>3, <2>4, EnterNotices
<1>4. CASE keepConnecting(c)
  BY <1>4, ConnectNotices
<1>5. CASE FailedCall(c)
  BY <1>5, ResetNotices DEF FailedCall, program
<1>6. CASE deactivate(c)
  BY <1>6, RestartNotices DEF deactivate, program
<1>7. CASE activate(c)
  BY <1>7, RestartNotices DEF activate, program
<1>. QED
  BY <1>2, <1>3, <1>4, <1>5, <1>6, <1>7

\* A word in the queue, or one that is read, says nothing of who is there.
LEMMA MessagesNotice ==
  ASSUME NInv, Shape', NEW c \in Consoles,
         send(c) \/ Push(c) \/ receive(c) \/ Popped(c) \/ resetTimeout(c)
  PROVE  NInv'
<1>. DEFINE x == session[c]
<1>1. /\ DOMAIN session = Consoles /\ DOMAIN call = Consoles /\ DOMAIN sent = Consoles
      /\ Own(c) /\ Sending(x) /\ sent[c] \in Nat
  BY DEF NInv, Typed, Domains, Own, IsSession
<1>2. UNCHANGED <<raw, command, linked, up, down, silent, call>>
  BY DEF send, Push, receive, Popped, resetTimeout, Rest, adapters, program
<1>3. /\ DOMAIN sent' = Consoles /\ sent'[c] \in Nat
      /\ \A d \in Consoles \ {c} : sent'[d] = sent[d]
  <2>1. UNCHANGED sent \/ sent' = [sent EXCEPT ![c] = sent[c] + 1]
    BY <1>1 DEF send, Push, receive, Popped, resetTimeout, history
  <2>. QED
    BY <1>1, <2>1
<1>4. PICK y : session' = [session EXCEPT ![c] = y] /\ Kept(x, y)
  <2>1. CASE Push(c)
    <3>. DEFINE message == [data |-> sent[c] + 1, player |-> c, id |-> NO_ID_ASSIGNED_YET]
                q == IF x.needsClear THEN <<>> ELSE push(x.newOutgoing, message)
                y == [x EXCEPT !.newOutgoing = q, !.isWriting = FALSE, !.needsClear = FALSE]
    <3>1. session' = [session EXCEPT ![c] = y]
      BY <1>1, <2>1 DEF Push, Session, Sending, SessionFields
    <3>2. message \in Message
      BY <1>1, Players DEF Message, NO_ID_ASSIGNED_YET, Consoles
    <3>3. <<>> \in Queue
      BY PacketsAssumption DEF Queue
    <3>4. q \in Queue
      <4>. HIDE DEF message
      <4>. QED
        BY <1>1, <3>2, <3>3, PushKeeps DEF Sending
    <3>. HIDE DEF q
    <3>5. Kept(x, y)
      BY <1>1, <3>4 DEF Kept, Sending, SameWatch, SessionFields
    <3>. QED
      BY <3>1, <3>5
  <2>2. CASE send(c)
    <3>. DEFINE y == [x EXCEPT !.isWriting = TRUE]
    <3>1. session' = [session EXCEPT ![c] = y] /\ Kept(x, y)
      BY <1>1, <2>2 DEF send, Session, Kept, Sending, SameWatch, SessionFields
    <3>. QED
      BY <3>1
  <2>3. CASE receive(c)
    <3>. DEFINE y == [x EXCEPT !.isReading = TRUE]
    <3>1. session' = [session EXCEPT ![c] = y] /\ Kept(x, y)
      BY <1>1, <2>3 DEF receive, Session, Kept, Sending, SameWatch, SessionFields
    <3>. QED
      BY <3>1
  <2>4. CASE Popped(c)
    <3>. DEFINE y == [x EXCEPT !.incoming = <<>>, !.isReading = FALSE]
    <3>1. session' = [session EXCEPT ![c] = y] /\ Kept(x, y)
      BY <1>1, <2>4 DEF Popped, Session, Kept, Sending, SameWatch, SessionFields
    <3>. QED
      BY <3>1
  <2>5. CASE resetTimeout(c)
    <3>. DEFINE y == [x EXCEPT !.isResetTimeoutPending = TRUE]
    <3>1. session' = [session EXCEPT ![c] = y] /\ Kept(x, y)
      BY <1>1, <2>5 DEF resetTimeout, Session, Kept, Sending, SameWatch, SessionFields
    <3>. QED
      BY <3>1
  <2>. QED
    BY <2>1, <2>2, <2>3, <2>4, <2>5
<1>5. Bystanding(c)
  BY <1>1, <1>2, <1>3, <1>4 DEF Bystanding
<1>. QED
  BY <1>1, <1>2, <1>3, <1>4, <1>5, BystandersNotice DEF Own

LEMMA OverdueAtMost ==
  ASSUME NEW x, IsSession(x), NEW p \in Consoles, NEW s \in Nat, NEW waits, NEW connected,
         Overdue(x, s, p, waits, connected)
  PROVE  s <= 2 * timeout + 1
<1>1. timeout \in Nat /\ x.msgTimeouts[p] \in Nat
  BY WirelessAssumption DEF IsSession, Watched
<1>2. CASE waits \/ x.msgFlags[p]
  BY <1>1, <1>2 DEF Overdue
<1>3. CASE ~waits /\ ~x.msgFlags[p]
  BY <1>1, <1>3 DEF Overdue
<1>. QED
  BY <1>2, <1>3

\* The server closes: whoever is linked is counted; whoever is not may be out
\* of its sight, and is as long overdue as it was.
LEMMA CloseNotices ==
  ASSUME NInv, Shape', NEW c \in Consoles, Finished(c), call[c] = "closeServer"
  PROVE  NInv'
<1>1. Shape /\ Domains /\ Slots /\ CountedWhenClosed /\ (\A d \in Consoles : Own(d))
      /\ DOMAIN raw = Consoles /\ DOMAIN raw[c] = {"state", "playerCount", "isServerClosed"}
      /\ UNCHANGED <<session, command, linked, up, down, silent, sent>>
  BY Shapes DEF NInv, Typed, Finished, adapters, history
<1>2. c = 0
  BY <1>1 DEF Own
<1>. DEFINE n == 1 + Cardinality(linked)
<1>3. n \in Nat /\ n >= 1
  BY <1>1, CountLinked DEF CountedWhenClosed
<1>4. raw' = [raw EXCEPT ![c] = [raw[c] EXCEPT !.playerCount = n, !.isServerClosed = TRUE]]
  BY DEF Finished
<1>5. /\ raw'[0].state = raw[0].state /\ raw'[0].playerCount = n /\ raw'[0].isServerClosed
      /\ \A d \in Consoles \ {0} : raw'[d] = raw[d]
  <2>. HIDE DEF n
  <2>. QED
    BY <1>1, <1>2, <1>4
<1>6. DOMAIN call' = Consoles /\ \A d \in Consoles \ {0} : call'[d] = call[d]
  BY <1>1, <1>2 DEF Finished, Returns, Domains
<1>7. Own(0)'
  BY <1>1, <1>3, <1>5, Players DEF Own, States
<1>8. ASSUME NEW d \in Consoles \ {0} PROVE Own(d)'
  BY <1>1, <1>5, <1>6, OwnStays
<1>9. Domains' /\ Slots' /\ CountedWhenClosed'
  BY <1>1, <1>3, <1>5, <1>6 DEF Domains, Slots, CountedWhenClosed
<1>10. ASSUME NEW d \in Consoles, NEW p \in Consoles PROVE Noticing(d, p)'
  <2>1. CASE d # 0
    <3>1. PairKept(d, p)
      BY <1>1, <1>5, <2>1 DEF PairKept, SameFrames, SameFor, Alive
    <3>. QED
      BY <3>1, PairStays DEF NInv
  <2>2. CASE d = 0
    <3>1. SUFFICES ASSUME silent[0][p] > 0
                   PROVE  /\ ~Alive(0, p) /\ isSessionActive(0)
                          /\ (p \in Remote(0))' => Overdue(session[0], silent[0][p], p, Waits(0, p), isConnected(0)')
                          /\ ~(p \in Remote(0))' => silent[0][p] <= 2 * timeout + 1
      BY <1>1, <1>5, <2>2 DEF Noticing, Alive, Waits, isSessionActive
    <3>2. /\ ~Alive(0, p) /\ isSessionActive(0)
          /\ p \in Remote(0) => Overdue(session[0], silent[0][p], p, Waits(0, p), isConnected(0))
          /\ p \notin Remote(0) => raw[0].isServerClosed /\ silent[0][p] <= 2 * timeout + 1
      BY <2>2, <3>1 DEF NInv, Noticing
    <3>3. raw[0].state = "SERVING" /\ raw[0].playerCount \in Nat
      BY <1>1, <1>2, <3>2 DEF isSessionActive, Own, States
    <3>4. ASSUME (p \in Remote(0))'
          PROVE  Overdue(session[0], silent[0][p], p, Waits(0, p), isConnected(0)')
      <4>1. p \in Clients /\ p < n
        BY <1>5, <3>3, <3>4 DEF Remote
      <4>2. isConnected(0)'
        BY <1>3, <1>5, <4>1, Players DEF isConnected
      <4>3. p \in Remote(0)
        <5>1. raw[0].isServerClosed => n <= raw[0].playerCount
          BY <1>1 DEF CountedWhenClosed
        <5>2. p \notin Remote(0) => p \in Remote(0)
          BY <1>3, <3>2, <3>3, <4>1, <5>1, Players DEF Remote
        <5>. QED
          BY <5>2
      <4>. QED
        BY <3>2, <4>2, <4>3 DEF Overdue
    <3>5. silent[0][p] <= 2 * timeout + 1
      BY <1>1, <1>2, <3>2, OverdueAtMost DEF Domains, Own
    <3>. QED
      BY <3>2, <3>4, <3>5
  <2>. QED
    BY <2>1, <2>2
<1>. QED
  BY <1>7, <1>8, <1>9, <1>10 DEF NInv, Typed

\* A call with a command of its own.
LEMMA SyncNotices ==
  ASSUME NInv, Shape', NEW c \in Consoles,
         \/ \E name \in {"serve", "closeServer", "getSignalLevel"} : Sync(c, name)
         \/ Check(c) \/ Answered(c) \/ Finished(c) \/ Refused(c)
  PROVE  NInv'
<1>1. /\ DOMAIN session = Consoles /\ DOMAIN call = Consoles /\ DOMAIN sent = Consoles
      /\ DOMAIN raw = Consoles /\ DOMAIN raw[c] = {"state", "playerCount", "isServerClosed"}
      /\ Own(c) /\ sent[c] \in Nat /\ Kept(session[c], session[c])
  BY Shapes DEF NInv, Typed, Domains, Own, IsSession, Kept, SameWatch
<1>2. ASSUME UNCHANGED <<raw, command, linked, up, down, silent, session, sent>>,
             NEW name, c # 0 => name \in {"none", "getSignalLevel"},
             UNCHANGED call \/ call' = [call EXCEPT ![c] = name]
      PROVE  NInv'
  <2>1. Bystanding(c)
    BY <1>1, <1>2 DEF Bystanding
  <2>2. DOMAIN call' = Consoles /\ (c # 0 => call'[c] \in {"none", "getSignalLevel"})
    BY <1>1, <1>2 DEF Own
  <2>. QED
    BY <1>1, <1>2, <2>1, <2>2, BystandersNotice DEF Own
<1>3. CASE \E name \in {"serve", "closeServer", "getSignalLevel"} : Sync(c, name)
  <2>1. PICK name : Sync(c, name)
    BY <1>3
  <2>. QED
    BY <1>2, <2>1 DEF Sync, Rest, adapters, history
<1>4. CASE Check(c)
  BY <1>2, <1>4 DEF Check, Returns, Rest, adapters, history
<1>5. CASE Answered(c)
  BY <1>2, <1>5 DEF Answered, Rest, adapters, history
<1>6. CASE Refused(c)
  BY <1>6, ResetNotices DEF Refused
<1>7. CASE Finished(c) /\ call[c] # "closeServer"
  <2>1. CASE call[c] = "serve" /\ raw[c].state # "SERVING"
    <3>1. c = 0
      BY <1>1, <2>1 DEF Own
    <3>2. raw' = [raw EXCEPT ![c] = Opened(raw[c])]
      BY <1>7, <2>1 DEF Finished
    <3>3. raw'[c] = Opened(raw[c]) /\ \A d \in Consoles \ {c} : raw'[d] = raw[d]
      BY <1>1, <3>2
    <3>4. /\ raw'[c].state \in States(c) /\ raw'[c].playerCount = raw[c].playerCount
          /\ ~raw'[c].isServerClosed
      BY <3>1, <3>3 DEF Opened, States
    <3>5. ~isSessionActive(c)
      BY <1>1, <2>1, <3>1 DEF Own, States, isSessionActive
    <3>. QED
      BY <1>7, <3>1, <3>3, <3>4, <3>5, EnterNotices DEF Finished, adapters
  <2>2. CASE ~(call[c] = "serve" /\ raw[c].state # "SERVING")
    <3>1. raw' = [raw EXCEPT ![c] = raw[c]]
      BY <1>7, <2>2 DEF Finished
    <3>2. UNCHANGED raw
      <4>1. PICK r : raw = [d \in Consoles |-> r[d]]
        BY Zenon DEF NInv, Typed, Shape
      <4>. QED
        BY <3>1, <4>1
    <3>. QED
      BY <1>2, <1>7, <3>2 DEF Finished, Returns, adapters, history
  <2>. QED
    BY <2>1, <2>2
<1>8. CASE Finished(c) /\ call[c] = "closeServer"
  BY <1>8, CloseNotices
<1>. QED
  BY <1>3, <1>4, <1>5, <1>6, <1>7, <1>8

LEMMA StepNInv == Shape' /\ NInv /\ [Next]_vars => NInv'
<1>. SUFFICES ASSUME Shape', NInv, [Next]_vars PROVE NInv'
  OBVIOUS
<1>1. CASE serve
  BY <1>1, SessionNotices, Players
<1>2. CASE UNCHANGED vars
  <2>1. \A d \in Consoles : Own(d)'
    BY <1>2, OwnStays DEF vars, program, history, NInv, Typed
  <2>2. \A d, p \in Consoles : Noticing(d, p)'
    <3>. SUFFICES ASSUME NEW d \in Consoles, NEW p \in Consoles PROVE Noticing(d, p)'
      OBVIOUS
    <3>1. PairKept(d, p)
      BY <1>2 DEF PairKept, SameFrames, SameFor, Alive, vars, adapters
    <3>. QED
      BY <3>1, PairStays DEF NInv
  <2>3. Domains' /\ Slots' /\ CountedWhenClosed'
    BY <1>2 DEF NInv, Typed, Domains, Slots, CountedWhenClosed, vars, adapters, program, history
  <2>. QED
    BY <2>1, <2>2, <2>3 DEF NInv, Typed
<1>. QED
  BY <1>1, <1>2, TimerNotices, SerialNotices, VBlankNotices, SessionNotices, MessagesNotice,
     SyncNotices DEF Next

LEMMA InitNInv == Init => NInv
<1>. SUFFICES ASSUME Init PROVE NInv
  OBVIOUS
<1>1. Shape
  BY InitCInv DEF CInv
<1>2. ASSUME NEW c \in Consoles PROVE IsSession(session[c]) /\ ~session[c].msgFlags[0]
  <2>. DEFINE start == [retransmission |-> TRUE, incoming |-> <<>>, newOutgoing |-> <<>>,
                        isReading |-> FALSE, isWriting |-> FALSE, needsClear |-> FALSE]
  <2>1. session[c] = ResetSession(start)
    BY DEF Init, FreshSession
  <2>2. start.newOutgoing \in Queue
    BY PacketsAssumption DEF Queue
  <2>. HIDE DEF start
  <2>. QED
    BY <2>1, <2>2, ResetIsSession
<1>3. ASSUME NEW c \in Consoles PROVE Own(c)
  BY <1>2, <1>3 DEF Own, Init, FreshRaw, States, None
<1>4. Domains
  <2>1. silent \in [Consoles -> [Consoles -> Nat]]
    BY DEF Init
  <2>. QED
    BY <2>1 DEF Init, Domains
<1>5. Slots
  BY DEF Init, Slots
<1>6. CountedWhenClosed
  BY Players DEF Init, CountedWhenClosed, FreshRaw
<1>7. \A d, p \in Consoles : Noticing(d, p)
  BY DEF Init, Noticing
<1>. QED
  BY <1>1, <1>3, <1>4, <1>5, <1>6, <1>7 DEF NInv, Typed

(* A console never goes on for more than 2 * timeout + 1 frames in a       *)
(* session with a player whose adapter is gone, however many clients there *)
(* are: the adapter's last transfer is heard once more at most, and counts *)
(* as life no longer than timeout frames.                                  *)
THEOREM LeaversAreNoticed == Spec => []LeaverNoticed
<1>1. CInv /\ NInv /\ [Next]_vars => (CInv /\ NInv)'
  BY StepCInv, StepNInv DEF CInv
<1>2. NInv => LeaverNoticed
  <2>. SUFFICES ASSUME NInv, NEW c \in Consoles, NEW p \in Consoles
                PROVE  silent[c][p] <= 2 * timeout + 1
    BY DEF LeaverNoticed
  <2>1. silent[c][p] \in Nat /\ timeout \in Nat /\ IsSession(session[c])
    BY WirelessAssumption DEF NInv, Typed, Domains, Own
  <2>2. CASE silent[c][p] = 0
    BY <2>1, <2>2
  <2>3. CASE silent[c][p] > 0 /\ p \in Remote(c)
    <3>1. Overdue(session[c], silent[c][p], p, Waits(c, p), isConnected(c))
      BY <2>3 DEF NInv, Noticing
    <3>. QED
      BY <2>1, <3>1, OverdueAtMost
  <2>4. CASE silent[c][p] > 0 /\ p \notin Remote(c)
    BY <2>4 DEF NInv, Noticing
  <2>. QED
    BY <2>1, <2>2, <2>3, <2>4
<1>. QED
  BY <1>1, <1>2, InitCInv, InitNInv, PTL DEF Spec

-----------------------------------------------------------------------------
(* The messages between the consoles.  First, how a queue is counted.      *)

\* In the form lemmas about operators need it.
LEMMA QueuePlaces ==
  ASSUME NEW q \in Queue
  PROVE  /\ q \in Seq(Message) /\ Len(q) \in Nat /\ DOMAIN q = 1 .. Len(q)
         /\ \A k \in 1 .. Len(q) : q[k] \in Message /\ q[k].player \in Nat /\ q[k].data \in Nat
                                   /\ q[k].id \in Int
<1>1. q \in Seq(Message) /\ Len(q) \in Nat /\ DOMAIN q = 1 .. Len(q)
  BY Lengths
<1>2. ASSUME NEW k \in 1 .. Len(q) PROVE q[k] \in Message
  BY <1>1
<1>. QED
  BY <1>1, <1>2 DEF Message

\* Messages with an ID come first, as many as are in flight.
LEMMA NumberedFirst ==
  ASSUME NEW q \in Queue, NEW n \in Nat, n <= Len(q),
         \A k \in 1 .. Len(q) : HasId(q[k]) <=> k <= n
  PROVE  Numbered(q) = n
<1>1. Len(q) \in Nat /\ DOMAIN q = 1 .. Len(q)
  BY Lengths
<1>2. {k \in DOMAIN q : HasId(q[k])} = 1 .. n
  BY <1>1
<1>3. Cardinality(1 .. n) = IF 1 > n THEN 0 ELSE n - 1 + 1
  BY FS_Interval
<1>4. (IF 1 > n THEN 0 ELSE n - 1 + 1) = n
  OBVIOUS
<1>. QED
  BY <1>2, <1>3, <1>4 DEF Numbered

LEMMA ForwardedIs ==
  ASSUME NEW q \in Queue
  PROVE  /\ Forwarded(q) = Cardinality(ForwardedPlaces(q)) /\ IsFiniteSet(ForwardedPlaces(q))
         /\ Forwarded(q) \in Nat
<1>1. Len(q) \in Nat /\ DOMAIN q = 1 .. Len(q)
  BY Lengths
<1>2. IsFiniteSet(1 .. Len(q))
  <2>1. 1 \in Int /\ Len(q) \in Int
    BY <1>1
  <2>. QED
    BY <2>1, FS_Interval, Zenon
<1>3. ForwardedPlaces(q) \subseteq 1 .. Len(q)
  BY DEF ForwardedPlaces
<1>4. Forwarded(q) = Cardinality(ForwardedPlaces(q))
  BY <1>1 DEF Forwarded, ForwardedPlaces
<1>. QED
  BY <1>2, <1>3, <1>4, FS_Subset, FS_CardinalityType

\* What comes behind the queue does not count when it is the server's own.
LEMMA ForwardedSame ==
  ASSUME NEW q \in Queue, NEW r \in Queue, Len(q) <= Len(r),
         \A k \in 1 .. Len(q) : r[k].player = q[k].player,
         \A k \in 1 .. Len(r) : k > Len(q) => r[k].player = 0
  PROVE  Forwarded(r) = Forwarded(q)
<1>1. Len(q) \in Nat /\ Len(r) \in Nat
  BY Lengths
<1>2. ForwardedPlaces(r) = ForwardedPlaces(q)
  BY <1>1 DEF ForwardedPlaces
<1>. QED
  BY <1>2, ForwardedIs

LEMMA ForwardedOneMore ==
  ASSUME NEW q \in Queue, NEW r \in Queue, Len(r) = Len(q) + 1,
         \A k \in 1 .. Len(q) : r[k] = q[k], r[Len(q) + 1].player > 0
  PROVE  Forwarded(r) = Forwarded(q) + 1
<1>1. Len(q) \in Nat /\ Len(r) \in Nat
  BY Lengths
<1>2. ForwardedPlaces(r) = ForwardedPlaces(q) \cup {Len(q) + 1}
  BY <1>1 DEF ForwardedPlaces
<1>3. Len(q) + 1 \notin ForwardedPlaces(q)
  BY <1>1 DEF ForwardedPlaces
<1>. QED
  BY <1>2, <1>3, ForwardedIs, FS_AddElement

\* A queue that is cut counts as its two parts.
LEMMA ForwardedCut ==
  ASSUME NEW q \in Queue, NEW n \in Nat, n <= Len(q)
  PROVE  Forwarded(SubSeq(q, n + 1, Len(q))) = Forwarded(q) - Forwarded(SubSeq(q, 1, n))
<1>. DEFINE a == SubSeq(q, 1, n)
            b == SubSeq(q, n + 1, Len(q))
            A == ForwardedPlaces(a)
            B == ForwardedPlaces(b)
            C == {k \in ForwardedPlaces(q) : k > n}
            f == [k \in B |-> k + n]
<1>1. q \in Seq(Message) /\ Len(q) \in Nat
  BY Lengths
<1>2. /\ a \in Queue /\ b \in Queue /\ Len(a) = n /\ Len(b) = Len(q) - n
      /\ \A k \in 1 .. n : a[k] = q[k]
      /\ \A k \in 1 .. Len(q) - n : b[k] = q[n + k]
  <2>1. a \in Queue /\ Len(a) = n
    BY <1>1, PartIsQueue
  <2>2. b \in Queue /\ Len(b) = Len(q) - n
    BY <1>1, PartIsQueue
  <2>3. ASSUME NEW k \in 1 .. n PROVE a[k] = q[k]
    BY <1>1
  <2>4. ASSUME NEW k \in 1 .. Len(q) - n PROVE b[k] = q[n + k]
    BY <1>1
  <2>. QED
    BY <2>1, <2>2, <2>3, <2>4
<1>. HIDE DEF a, b
<1>3. ForwardedPlaces(q) = A \cup C /\ A \cap C = {}
  <2>1. A = {k \in 1 .. n : q[k].player > 0}
    BY <1>2 DEF ForwardedPlaces
  <2>. QED
    BY <1>1, <2>1 DEF ForwardedPlaces
<1>4. f \in Bijection(B, C)
  <2>1. \A k \in B : k \in 1 .. Len(q) - n /\ b[k].player > 0 /\ b[k] = q[n + k]
    BY <1>2 DEF ForwardedPlaces
  <2>2. ASSUME NEW k \in B PROVE f[k] \in C
    BY <1>1, <2>1 DEF ForwardedPlaces
  <2>3. ASSUME NEW j \in B, NEW k \in B, f[j] = f[k] PROVE j = k
    BY <1>1, <2>1, <2>3
  <2>4. ASSUME NEW m \in C PROVE \E k \in B : f[k] = m
    <3>1. m \in Nat /\ n < m /\ m <= Len(q) /\ q[m].player > 0
      BY <1>1 DEF ForwardedPlaces
    <3>2. m - n \in 1 .. Len(q) - n /\ n + (m - n) = m
      BY <1>1, <3>1
    <3>3. b[m - n] = q[m]
      BY <1>2, <3>2
    <3>4. m - n \in B
      BY <1>2, <3>1, <3>2, <3>3 DEF ForwardedPlaces
    <3>5. f[m - n] = m
      BY <3>2, <3>4
    <3>. QED
      BY <3>4, <3>5
  <2>. QED
    BY <2>2, <2>3, <2>4 DEF Bijection, Injection, Surjection, IsInjective
<1>5. IsFiniteSet(B) /\ Cardinality(C) = Cardinality(B) /\ IsFiniteSet(C)
  <2>1. ExistsBijection(B, C)
    BY <1>4 DEF ExistsBijection
  <2>. QED
    BY <1>2, <2>1, ForwardedIs, FS_Bijection
<1>6. Cardinality(A \cup C) = Cardinality(A) + Cardinality(C)
  <2>1. IsFiniteSet(A) /\ Cardinality(A) \in Nat /\ Cardinality(C) \in Nat
    BY <1>2, <1>5, ForwardedIs, FS_CardinalityType
  <2>2. Cardinality(A \cup C) = Cardinality(A) + Cardinality(C) - Cardinality(A \cap C)
    BY <1>5, <2>1, FS_Union
  <2>3. Cardinality(A \cap C) = 0
    BY <1>3, FS_EmptySet
  <2>. QED
    BY <2>1, <2>2, <2>3
<1>7. Forwarded(q) = Forwarded(a) + Forwarded(b)
  BY <1>2, <1>3, <1>5, <1>6, ForwardedIs
<1>8. Forwarded(q) \in Nat /\ Forwarded(a) \in Nat /\ Forwarded(b) \in Nat
  BY <1>2, ForwardedIs
<1>9. Forwarded(b) = Forwarded(q) - Forwarded(a)
  BY <1>7, <1>8
<1>. QED
  BY <1>9 DEF a, b

-----------------------------------------------------------------------------
(* What the operations on the queues do, in terms of their places.         *)

LEMMA Windows ==
  ASSUME NEW c
  PROVE  /\ PacketIds(c) \in Nat /\ MaxInflight(c) \in Nat /\ MaxInflight(c) > 0
         /\ 2 * MaxInflight(c) + 2 = PacketIds(c)
<1>1. PacketIds(c) \in {4, 8, 16, 32, 64}
  BY PacketsAssumption DEF PacketIds
<1>2. MaxInflight(c) = PacketIds(c) \div 2 - 1
  BY DEF MaxInflight
<1>3. /\ 4 \div 2 - 1 = 1 /\ 8 \div 2 - 1 = 3 /\ 16 \div 2 - 1 = 7 /\ 32 \div 2 - 1 = 15
      /\ 64 \div 2 - 1 = 31
  OBVIOUS
<1>. QED
  BY <1>1, <1>2, <1>3

LEMMA MovesIs ==
  ASSUME NEW src \in Queue, NEW dst \in Queue
  PROVE  Moves(src, dst, Fits(src, dst), MovedFrom(src, dst), MovedTo(src, dst))
<1>1. /\ Size \in Nat /\ Len(src) \in Nat /\ Len(dst) \in Nat /\ Len(dst) <= Size
      /\ dst \in Seq(Message) /\ src \in Seq(Message)
  BY Lengths
<1>. DEFINE n == Fits(src, dst)
<1>2. n \in Nat /\ n <= Len(src)
  BY <1>1 DEF Fits
<1>. HIDE DEF n
<1>. DEFINE a == SubSeq(src, 1, n)
<1>3. /\ a \in Seq(Message) /\ Len(a) = n /\ \A k \in 1 .. n : a[k] = src[k]
  <2>1. a \in Queue /\ Len(a) = n
    BY <1>1, <1>2, PartIsQueue
  <2>2. ASSUME NEW k \in 1 .. n PROVE a[k] = src[k]
    BY <1>1, <1>2
  <2>3. a \in Seq(Message)
    BY <2>1, Lengths
  <2>. QED
    BY <2>1, <2>2, <2>3
<1>. HIDE DEF a
<1>4. /\ Len(dst \o a) = Len(dst) + n
      /\ \A k \in 1 .. Len(dst) : (dst \o a)[k] = dst[k]
      /\ \A k \in 1 .. n : (dst \o a)[Len(dst) + k] = a[k]
  BY <1>1, <1>2, <1>3
<1>5. /\ Len(SubSeq(src, n + 1, Len(src))) = Len(src) - n
      /\ \A k \in 1 .. Len(src) - n : SubSeq(src, n + 1, Len(src))[k] = src[n + k]
  BY <1>1, <1>2
<1>. QED
  BY <1>2, <1>3, <1>4, <1>5 DEF Moves, MovedTo, MovedFrom, a, n

LEMMA CopyFlows ==
  ASSUME NEW x, Sending(x), ~x.isWriting
  PROVE  Flows(x, copyOutgoingState(x))
<1>. DEFINE o == MovedTo(x.newOutgoing, x.outgoing)
            n == MovedFrom(x.newOutgoing, x.outgoing)
            y == [x EXCEPT !.outgoing = o, !.newOutgoing = n]
<1>1. y = copyOutgoingState(x)
  BY DEF copyOutgoingState
<1>2. \E k \in Nat : Moves(x.newOutgoing, x.outgoing, k, n, o)
  <2>1. Moves(x.newOutgoing, x.outgoing, Fits(x.newOutgoing, x.outgoing), n, o)
    BY MovesIs DEF Sending
  <2>2. Fits(x.newOutgoing, x.outgoing) \in Nat
    BY <2>1 DEF Moves
  <2>. HIDE DEF n, o
  <2>. QED
    BY <2>1, <2>2
<1>. HIDE DEF o, n
<1>3. /\ y.outgoing = o /\ y.newOutgoing = n /\ SameReceiver(x, y)
      /\ y.lastAckFrom = x.lastAckFrom
      /\ y.isWriting = x.isWriting /\ y.inflightCount = x.inflightCount
      /\ y.forwardedCount = x.forwardedCount /\ y.lastPacketId = x.lastPacketId
  BY DEF Sending, SessionFields, SameReceiver
<1>. QED
  BY <1>1, <1>2, <1>3 DEF Flows

-----------------------------------------------------------------------------
(* The counts agree, step by step.                                         *)

LEMMA CountedNumbered ==
  ASSUME NEW x, NEW c, Counted(x, c)
  PROVE  /\ Numbered(x.outgoing) = x.inflightCount /\ Agree(x, c)
         /\ x.outgoing \in Queue /\ x.newOutgoing \in Queue
         /\ Len(x.outgoing) \in Nat /\ Len(x.newOutgoing) \in Nat
<1>1. Numbered(x.outgoing) = x.inflightCount
  BY NumberedFirst DEF Counted, Sending
<1>. QED
  BY <1>1, Lengths DEF Counted, Agree, Sending

LEMMA CountedSame ==
  ASSUME NEW x, NEW c, Counted(x, c), NEW y, SameSender(x, y)
  PROVE  Counted(y, c)
  BY DEF Counted, SameSender, Sending

LEMMA CountedFlows ==
  ASSUME NEW x, NEW c, Counted(x, c), NEW y, Flows(x, y), Sending(y)
  PROVE  Counted(y, c)
<1>1. PICK n \in Nat : Moves(x.newOutgoing, x.outgoing, n, y.newOutgoing, y.outgoing)
  BY DEF Flows
<1>2. /\ x.outgoing \in Queue /\ y.outgoing \in Queue
      /\ x.newOutgoing \in Queue /\ y.newOutgoing \in Queue
      /\ Len(x.outgoing) \in Nat /\ Len(x.newOutgoing) \in Nat
      /\ Len(y.outgoing) \in Nat /\ Len(y.newOutgoing) \in Nat
  BY Lengths DEF Counted, Sending
<1>3. /\ n <= Len(x.newOutgoing)
      /\ Len(y.outgoing) = Len(x.outgoing) + n /\ Len(y.newOutgoing) = Len(x.newOutgoing) - n
  BY <1>1 DEF Moves
<1>4. \A k \in 1 .. Len(x.outgoing) : y.outgoing[k] = x.outgoing[k]
  BY <1>1 DEF Moves
<1>5. ASSUME NEW k \in 1 .. Len(y.outgoing), k > Len(x.outgoing)
      PROVE  y.outgoing[k].player = c /\ ~HasId(y.outgoing[k])
  <2>1. k - Len(x.outgoing) \in 1 .. n /\ Len(x.outgoing) + (k - Len(x.outgoing)) = k
    BY <1>2, <1>3, <1>5
  <2>2. y.outgoing[k] = x.newOutgoing[k - Len(x.outgoing)]
    BY <1>1, <2>1 DEF Moves
  <2>3. k - Len(x.outgoing) \in 1 .. Len(x.newOutgoing)
    BY <1>2, <1>3, <2>1
  <2>. QED
    BY <2>2, <2>3 DEF Counted
<1>6. ASSUME NEW k \in 1 .. Len(y.newOutgoing)
      PROVE  y.newOutgoing[k].player = c /\ ~HasId(y.newOutgoing[k])
  <2>1. n + k \in 1 .. Len(x.newOutgoing) /\ k \in 1 .. Len(x.newOutgoing) - n
    BY <1>2, <1>3
  <2>2. y.newOutgoing[k] = x.newOutgoing[n + k]
    BY <1>1, <2>1 DEF Moves
  <2>. QED
    BY <2>1, <2>2 DEF Counted
<1>7. x.inflightCount \in Nat /\ x.inflightCount <= Len(x.outgoing) /\ x.inflightCount <= MaxInflight(c)
  BY DEF Counted
<1>8. ASSUME NEW k \in 1 .. Len(y.outgoing)
      PROVE  HasId(y.outgoing[k]) <=> k <= x.inflightCount
  <2>1. CASE k <= Len(x.outgoing)
    <3>1. k \in 1 .. Len(x.outgoing)
      BY <1>2, <2>1
    <3>. QED
      BY <1>4, <3>1 DEF Counted
  <2>2. CASE ~ (k <= Len(x.outgoing))
    <3>1. k > Len(x.outgoing) /\ ~ (k <= x.inflightCount)
      BY <1>2, <1>7, <2>2
    <3>. QED
      BY <1>5, <3>1
  <2>. QED
    BY <2>1, <2>2
<1>9. ASSUME c = 0 PROVE y.forwardedCount = Forwarded(y.outgoing)
  <2>1. Forwarded(y.outgoing) = Forwarded(x.outgoing)
    <3>1. \A k \in 1 .. Len(y.outgoing) : k > Len(x.outgoing) => y.outgoing[k].player = 0
      BY <1>5, <1>9
    <3>2. Len(x.outgoing) <= Len(y.outgoing)
      BY <1>2, <1>3
    <3>. QED
      BY <1>2, <1>4, <3>1, <3>2, ForwardedSame
  <2>. QED
    BY <1>9, <2>1 DEF Counted, Flows
<1>10. x.inflightCount <= Len(y.outgoing)
  BY <1>2, <1>3, <1>7
<1>. QED
  BY <1>6, <1>7, <1>8, <1>9, <1>10 DEF Counted, Flows

LEMMA LeastOfThreeIs ==
  ASSUME NEW a \in Int, NEW b \in Int, NEW c \in Int
  PROVE  /\ Least({a, b, c}) <= a /\ Least({a, b, c}) <= b /\ Least({a, b, c}) <= c
         /\ Least({a, b, c}) \in {a, b, c}
<1>1. \E n \in {a, b, c} : \A m \in {a, b, c} : n <= m
  OBVIOUS
<1>. QED
  BY <1>1 DEF Least

LEMMA AssignedStamps ==
  ASSUME NEW x, NEW c, Counted(x, c)
  PROVE  \E n \in Nat : Stamps(x, Assigned(x, c), c, n)
<1>. DEFINE old == Numbered(x.outgoing)
            new == IF Carried(x, c) > old THEN Carried(x, c) - old ELSE 0
            o == [n \in DOMAIN x.outgoing |->
                    IF n \in old + 1 .. old + new
                    THEN [x.outgoing[n] EXCEPT !.id = (x.lastPacketId + n - old) % PacketIds(c)]
                    ELSE x.outgoing[n]]
            h == IF c = 0 THEN x.localHeartbeat ELSE (x.localHeartbeat + 1) % Heartbeats
            l == (x.lastPacketId + new) % PacketIds(c)
            i == x.inflightCount + new
            y == [x EXCEPT !.outgoing = o, !.inflightCount = i, !.lastPacketId = l,
                           !.localHeartbeat = h]
<1>1. /\ old = x.inflightCount /\ x.inflightCount \in Nat /\ Sending(x)
      /\ x.inflightCount <= Len(x.outgoing) /\ x.inflightCount <= MaxInflight(c)
      /\ DOMAIN x.outgoing = 1 .. Len(x.outgoing) /\ Len(x.outgoing) \in Nat
      /\ \A k \in 1 .. Len(x.outgoing) : x.outgoing[k] \in Message
  BY CountedNumbered, QueuePlaces DEF Counted
<1>2. PacketIds(c) \in Nat /\ PacketIds(c) > 0 /\ MaxInflight(c) \in Nat /\ Transfer \in Nat
  BY Windows, PacketsAssumption
<1>3. /\ Carried(x, c) \in Int /\ Carried(x, c) <= Len(x.outgoing)
      /\ Carried(x, c) <= MaxInflight(c)
  <2>1. old + MaxInflight(c) - x.inflightCount = MaxInflight(c)
    BY <1>1, <1>2
  <2>2. Carried(x, c) = Least({Len(x.outgoing), Transfer, MaxInflight(c)})
    BY <2>1 DEF Carried
  <2>3. Len(x.outgoing) \in Int /\ Transfer \in Int /\ MaxInflight(c) \in Int
    BY <1>1, <1>2
  <2>4. /\ Least({Len(x.outgoing), Transfer, MaxInflight(c)}) <= Len(x.outgoing)
        /\ Least({Len(x.outgoing), Transfer, MaxInflight(c)}) <= MaxInflight(c)
    BY <2>3, LeastOfThreeIs
  <2>5. Carried(x, c) \in Int
    BY <1>1, CarriedInt
  <2>. QED
    BY <2>2, <2>4, <2>5
<1>4. y = Assigned(x, c)
  BY <1>1 DEF Assigned, Sending, SessionFields
<1>5. new \in Nat /\ old + new <= Len(x.outgoing) /\ old + new <= MaxInflight(c)
  BY <1>1, <1>2, <1>3
<1>. HIDE DEF old, new
<1>6. Len(o) = Len(x.outgoing)
  <2>1. DOMAIN o = 1 .. Len(x.outgoing)
    BY <1>1
  <2>2. Kept(x, Assigned(x, c))
    BY <1>1, AssignedKeeps
  <2>3. y.outgoing = o
    BY <1>1 DEF Sending, SessionFields
  <2>. HIDE DEF o
  <2>4. o \in Queue
    BY <1>4, <2>2, <2>3 DEF Kept, Sending
  <2>5. DOMAIN o = 1 .. Len(o) /\ Len(o) \in Nat
    BY <2>4, Lengths
  <2>. QED
    BY <1>1, <2>1, <2>5
<1>7. ASSUME NEW k \in 1 .. Len(x.outgoing)
      PROVE  /\ o[k].data = x.outgoing[k].data /\ o[k].player = x.outgoing[k].player
             /\ o[k].id = IF x.inflightCount < k /\ k <= x.inflightCount + new
                          THEN (x.lastPacketId + k - x.inflightCount) % PacketIds(c)
                          ELSE x.outgoing[k].id
  <2>1. k \in old + 1 .. old + new <=> x.inflightCount < k /\ k <= x.inflightCount + new
    BY <1>1, <1>5
  <2>2. x.outgoing[k] \in Message
    BY <1>1
  <2>3. o[k] = IF k \in old + 1 .. old + new
               THEN [x.outgoing[k] EXCEPT !.id = (x.lastPacketId + k - old) % PacketIds(c)]
               ELSE x.outgoing[k]
    BY <1>1
  <2>. QED
    BY <1>1, <2>1, <2>2, <2>3 DEF Message
<1>8. i <= Len(x.outgoing) /\ i <= MaxInflight(c)
  BY <1>1, <1>5
<1>. HIDE DEF o, h, l, i
<1>9. /\ y.outgoing = o /\ y.inflightCount = i /\ y.lastPacketId = l
      /\ SameReceiver(x, y) /\ y.lastAckFrom = x.lastAckFrom
      /\ y.isWriting = x.isWriting /\ y.newOutgoing = x.newOutgoing
      /\ y.forwardedCount = x.forwardedCount
  BY <1>1 DEF Sending, SessionFields, SameReceiver
<1>10. Stamps(x, y, c, new)
  BY <1>5, <1>6, <1>7, <1>8, <1>9 DEF Stamps, l, i
<1>. QED
  BY <1>4, <1>5, <1>10

LEMMA CountedStamps ==
  ASSUME NEW x, NEW c, Counted(x, c), NEW y, NEW n, Stamps(x, y, c, n), Sending(y)
  PROVE  Counted(y, c)
<1>1. /\ x.inflightCount \in Nat /\ n \in Nat /\ y.inflightCount = x.inflightCount + n
      /\ y.inflightCount <= Len(x.outgoing) /\ y.inflightCount <= MaxInflight(c)
      /\ Len(y.outgoing) = Len(x.outgoing) /\ y.newOutgoing = x.newOutgoing
      /\ y.forwardedCount = x.forwardedCount /\ y.isWriting = x.isWriting
      /\ x.outgoing \in Queue /\ y.outgoing \in Queue /\ Len(x.outgoing) \in Nat
      /\ x.lastPacketId \in Int
  BY CountedNumbered DEF Counted, Stamps, Sending
<1>2. ASSUME NEW k \in 1 .. Len(x.outgoing)
      PROVE  HasId(y.outgoing[k]) <=> k <= y.inflightCount
  <2>1. y.outgoing[k].id = IF x.inflightCount < k /\ k <= x.inflightCount + n
                           THEN (x.lastPacketId + k - x.inflightCount) % PacketIds(c)
                           ELSE x.outgoing[k].id
    BY DEF Stamps
  <2>2. HasId(x.outgoing[k]) <=> k <= x.inflightCount
    BY DEF Counted
  <2>3. (x.lastPacketId + k - x.inflightCount) % PacketIds(c) \in Nat
    <3>. DEFINE id == x.lastPacketId + k - x.inflightCount
                ids == PacketIds(c)
    <3>1. id \in Int
      BY <1>1
    <3>2. ids \in Nat /\ ids > 0
      BY Windows
    <3>. HIDE DEF id, ids
    <3>3. id % ids \in Nat
      BY <3>1, <3>2
    <3>. QED
      BY <3>3 DEF id, ids
  <2>. QED
    BY <1>1, <2>1, <2>2, <2>3 DEF HasId, NO_ID_ASSIGNED_YET
<1>3. Forwarded(y.outgoing) = Forwarded(x.outgoing)
  <2>1. \A k \in 1 .. Len(x.outgoing) : y.outgoing[k].player = x.outgoing[k].player
    BY DEF Stamps
  <2>2. \A k \in 1 .. Len(y.outgoing) : k > Len(x.outgoing) => y.outgoing[k].player = 0
    BY <1>1
  <2>3. x.outgoing \in Queue /\ y.outgoing \in Queue /\ Len(x.outgoing) <= Len(y.outgoing)
    BY <1>1
  <2>. QED
    BY <2>1, <2>2, <2>3, ForwardedSame
<1>. QED
  BY <1>1, <1>2, <1>3 DEF Counted

LEMMA ReleasedCuts ==
  ASSUME NEW x, Sending(x), NEW c, NEW n \in Nat, n <= Len(x.outgoing)
  PROVE  Cuts(x, Released(x, c, n), c, n)
<1>. DEFINE o == SubSeq(x.outgoing, n + 1, Len(x.outgoing))
            f == IF c = 0 THEN x.forwardedCount - Forwarded(SubSeq(x.outgoing, 1, n))
                          ELSE x.forwardedCount
            i == x.inflightCount - n
            y == [x EXCEPT !.outgoing = o, !.inflightCount = i, !.forwardedCount = f]
<1>1. y = Released(x, c, n)
  BY DEF Released, Sending, SessionFields
<1>2. /\ Len(o) = Len(x.outgoing) - n
      /\ \A k \in 1 .. Len(x.outgoing) - n : o[k] = x.outgoing[n + k]
  <2>1. x.outgoing \in Seq(Message) /\ Len(x.outgoing) \in Nat
    BY Lengths DEF Sending
  <2>. QED
    BY <2>1
<1>3. c = 0 => f = x.forwardedCount - Forwarded(SubSeq(x.outgoing, 1, n))
  OBVIOUS
<1>. HIDE DEF f, i, o
<1>4. /\ y.outgoing = o /\ y.inflightCount = i /\ y.forwardedCount = f
      /\ SameReceiver(x, y) /\ y.lastAckFrom = x.lastAckFrom
      /\ y.isWriting = x.isWriting /\ y.newOutgoing = x.newOutgoing
      /\ y.lastPacketId = x.lastPacketId
  BY DEF Sending, SessionFields, SameReceiver
<1>5. Cuts(x, y, c, n)
  BY <1>2, <1>3, <1>4 DEF Cuts, o, i
<1>. QED
  BY <1>1, <1>5

LEMMA CountedCuts ==
  ASSUME NEW x, NEW c, Counted(x, c), NEW n \in Nat, n <= x.inflightCount,
         NEW y, Cuts(x, y, c, n), Sending(y)
  PROVE  Counted(y, c)
<1>1. /\ x.inflightCount \in Nat /\ y.inflightCount = x.inflightCount - n
      /\ x.inflightCount <= Len(x.outgoing) /\ x.inflightCount <= MaxInflight(c)
      /\ Len(y.outgoing) = Len(x.outgoing) - n /\ y.newOutgoing = x.newOutgoing
      /\ y.isWriting = x.isWriting /\ x.outgoing \in Queue /\ Len(x.outgoing) \in Nat
      /\ MaxInflight(c) \in Nat
  BY CountedNumbered, Windows DEF Counted, Cuts
<1>2. ASSUME NEW k \in 1 .. Len(y.outgoing)
      PROVE  HasId(y.outgoing[k]) <=> k <= y.inflightCount
  <2>1. y.outgoing[k] = x.outgoing[n + k] /\ n + k \in 1 .. Len(x.outgoing)
    BY <1>1 DEF Cuts
  <2>2. HasId(x.outgoing[n + k]) <=> n + k <= x.inflightCount
    BY <2>1 DEF Counted
  <2>. QED
    BY <1>1, <2>1, <2>2
<1>3. ASSUME c = 0 PROVE y.forwardedCount = Forwarded(y.outgoing)
  <2>1. Forwarded(SubSeq(x.outgoing, n + 1, Len(x.outgoing)))
          = Forwarded(x.outgoing) - Forwarded(SubSeq(x.outgoing, 1, n))
    BY <1>1, ForwardedCut
  <2>. QED
    BY <1>3, <2>1 DEF Counted, Cuts
<1>4. y.inflightCount \in Nat /\ y.inflightCount <= Len(y.outgoing) /\ y.inflightCount <= MaxInflight(c)
  BY <1>1
<1>. QED
  BY <1>1, <1>2, <1>3, <1>4 DEF Counted

LEMMA CountedClears ==
  ASSUME NEW x, NEW c, Counted(x, c)
  PROVE  /\ Stays(x, clearInflightMessagesIfNeeded(x, c), c)
         /\ x.retransmission => clearInflightMessagesIfNeeded(x, c) = x
<1>1. CASE x.retransmission
  <2>1. clearInflightMessagesIfNeeded(x, c) = x
    BY <1>1 DEF clearInflightMessagesIfNeeded
  <2>. QED
    BY <2>1 DEF Stays
<1>2. CASE ~x.retransmission
  <2>. DEFINE r == Released(x, c, Numbered(x.outgoing))
              y == [r EXCEPT !.inflightCount = 0]
  <2>1. /\ Numbered(x.outgoing) = x.inflightCount /\ x.inflightCount \in Nat
        /\ x.inflightCount <= Len(x.outgoing) /\ Sending(x)
    BY CountedNumbered DEF Counted
  <2>2. Cuts(x, r, c, x.inflightCount) /\ Sending(r)
    BY <2>1, ReleasedCuts, ReleasedKeeps DEF Kept
  <2>3. y = clearInflightMessagesIfNeeded(x, c)
    BY <1>2 DEF clearInflightMessagesIfNeeded
  <2>. HIDE DEF r
  <2>4. Counted(r, c) /\ r.inflightCount = 0
    <3>1. x.inflightCount <= x.inflightCount
      BY <2>1
    <3>2. Counted(r, c)
      BY <2>1, <2>2, <3>1, CountedCuts
    <3>3. r.inflightCount = x.inflightCount - x.inflightCount
      BY <2>2 DEF Cuts
    <3>. QED
      BY <2>1, <3>2, <3>3
  <2>5. SameSender(r, y) /\ y.retransmission = r.retransmission
    BY <2>2, <2>4 DEF SameSender, Sending, SessionFields
  <2>6. y.retransmission = x.retransmission
    BY <2>2, <2>5 DEF Cuts, SameReceiver
  <2>. HIDE DEF y
  <2>. QED
    BY <1>2, <2>3, <2>4, <2>5, <2>6, CountedSame DEF Stays
<1>. QED
  BY <1>1, <1>2

LEMMA RemovedConfirms ==
  ASSUME NEW x, NEW c, Counted(x, c), NEW ack
  PROVE  \E n \in Nat : Confirms(x, removeConfirmedMessages(x, c, ack), c, ack, n)
<1>. DEFINE S == {k \in 1 .. Len(x.outgoing) + 1 :
                    k = Len(x.outgoing) + 1 \/ ~IsConfirmed(x, c, ack, k)}
            n == Least(S) - 1
<1>1. Len(x.outgoing) \in Nat /\ Sending(x)
  BY CountedNumbered DEF Counted
<1>2. removeConfirmedMessages(x, c, ack) = Released(x, c, n)
  BY DEF removeConfirmedMessages, IsConfirmed
<1>3. Len(x.outgoing) + 1 \in S /\ S \subseteq Nat
  BY <1>1
<1>4. Least(S) \in S /\ \A k \in S : Least(S) <= k
  <2>. HIDE DEF S
  <2>. QED
    BY <1>3, LeastNat
<1>5. /\ Least(S) \in 1 .. Len(x.outgoing) + 1
      /\ Least(S) = Len(x.outgoing) + 1 \/ ~IsConfirmed(x, c, ack, Least(S))
  BY <1>4
<1>6. ASSUME NEW k \in 1 .. Len(x.outgoing), k < Least(S) PROVE IsConfirmed(x, c, ack, k)
  <2>0. Least(S) \in Nat /\ k \in Nat
    BY <1>1, <1>5
  <2>1. k \notin S
    <3>. HIDE DEF S
    <3>. QED
      BY <1>4, <1>6, <2>0
  <2>. QED
    BY <1>1, <2>1
<1>. HIDE DEF S
<1>7. n \in Nat /\ n <= Len(x.outgoing) /\ n + 1 = Least(S)
  BY <1>1, <1>5
<1>8. \A k \in 1 .. n : IsConfirmed(x, c, ack, k)
  BY <1>1, <1>6, <1>7
<1>9. n < Len(x.outgoing) => ~IsConfirmed(x, c, ack, n + 1)
  BY <1>1, <1>5, <1>7
<1>. HIDE DEF n
<1>10. n <= x.inflightCount
  <2>1. CASE n = 0
    BY <2>1 DEF Counted
  <2>2. CASE n # 0
    <3>1. n \in 1 .. n /\ n \in 1 .. Len(x.outgoing)
      BY <1>1, <1>7, <2>2
    <3>2. HasId(x.outgoing[n])
      BY <1>8, <3>1 DEF IsConfirmed
    <3>. QED
      BY <3>1, <3>2 DEF Counted
  <2>. QED
    BY <2>1, <2>2
<1>11. Cuts(x, Released(x, c, n), c, n)
  BY <1>1, <1>7, ReleasedCuts
<1>12. Confirms(x, Released(x, c, n), c, ack, n)
  BY <1>8, <1>9, <1>10, <1>11 DEF Confirms
<1>. QED
  BY <1>2, <1>7, <1>12

LEMMA CountedRemoves ==
  ASSUME NEW x, NEW c, Counted(x, c), NEW ack
  PROVE  Stays(x, removeConfirmedMessages(x, c, ack), c)
<1>1. Sending(removeConfirmedMessages(x, c, ack))
  BY RemoveConfirmedKeeps DEF Counted, Kept
<1>2. PICK n \in Nat : Confirms(x, removeConfirmedMessages(x, c, ack), c, ack, n)
  BY RemovedConfirms
<1>3. n <= x.inflightCount /\ Cuts(x, removeConfirmedMessages(x, c, ack), c, n)
  BY <1>2 DEF Confirms
<1>. QED
  BY <1>1, <1>3, CountedCuts DEF Stays, Cuts, SameReceiver

-----------------------------------------------------------------------------
(* A message that is received.                                             *)

LEMMA CountedForwards ==
  ASSUME NEW x, Counted(x, 0), NEW y, Sending(y), NEW item \in Message, Forwards(x, y, item),
         item.player > 0, ~HasId(item)
  PROVE  Counted(y, 0)
<1>1. /\ x.outgoing \in Queue /\ y.outgoing \in Queue /\ Len(x.outgoing) \in Nat
      /\ x.outgoing \in Seq(Message)
      /\ x.inflightCount \in Nat /\ x.inflightCount <= Len(x.outgoing)
      /\ x.inflightCount <= MaxInflight(0)
  BY CountedNumbered, Lengths DEF Counted, Sending
<1>2. y.outgoing = Append(x.outgoing, item)
  BY DEF Forwards
<1>3. /\ Len(y.outgoing) = Len(x.outgoing) + 1 /\ y.outgoing[Len(x.outgoing) + 1] = item
      /\ \A k \in 1 .. Len(x.outgoing) : y.outgoing[k] = x.outgoing[k]
  BY <1>1, <1>2
<1>4. Forwarded(y.outgoing) = Forwarded(x.outgoing) + 1
  BY <1>1, <1>3, ForwardedOneMore
<1>5. ASSUME NEW k \in 1 .. Len(y.outgoing)
      PROVE  HasId(y.outgoing[k]) <=> k <= x.inflightCount
  <2>1. CASE k = Len(x.outgoing) + 1
    BY <1>1, <1>3, <2>1
  <2>2. CASE k # Len(x.outgoing) + 1
    <3>1. k \in 1 .. Len(x.outgoing)
      BY <1>1, <1>3, <2>2
    <3>. QED
      BY <1>3, <3>1 DEF Counted
  <2>. QED
    BY <2>1, <2>2
<1>6. x.inflightCount <= Len(y.outgoing)
  BY <1>1, <1>3
<1>. QED
  BY <1>1, <1>4, <1>5, <1>6 DEF Counted, Forwards

LEMMA MessageTakes ==
  ASSUME NEW x, Sending(x), NEW c, NEW i \in Nat, NEW message, NEW packetId, NEW count \in Nat
  PROVE  IF Accepts(x, i, packetId)
         THEN Takes(x, processMessage(x, c, i, message, packetId, count), c, i,
                    Item(i, message), packetId, count)
         ELSE processMessage(x, c, i, message, packetId, count) = x
<1>. DEFINE item == Item(i, message)
            y == processMessage(x, c, i, message, packetId, count)
            n == IF x.retransmission \/ (i = 0 /\ ~x.didReceiveFirstPacketFromServer)
                 THEN packetId ELSE x.lastPacketIdFrom[i]
            l == [x.lastPacketIdFrom EXCEPT ![i] = n]
            f == x.didReceiveFirstPacketFromServer \/ i = 0
            noted == [x EXCEPT !.lastPacketIdFrom = l, !.didReceiveFirstPacketFromServer = f]
            q == push(x.newIncoming, item)
            v == x.overflow \/ isFull(x.newIncoming)
            added == [noted EXCEPT !.newIncoming = q, !.overflow = v]
            o == Append(added.outgoing, item)
            d == added.forwardedCount + 1
            full == [added EXCEPT !.overflow = TRUE]
            more == [added EXCEPT !.outgoing = o, !.forwardedCount = d]
<1>1. CASE ~Accepts(x, i, packetId)
  BY <1>1 DEF processMessage
<1>2. CASE Accepts(x, i, packetId)
  <2>0. noted = Noted(x, i, packetId)
    BY DEF Noted, Sending, SessionFields
  <2>1. x.retransmission => l = [x.lastPacketIdFrom EXCEPT ![i] = packetId]
    OBVIOUS
  <2>. HIDE DEF l, f
  <2>2. /\ DOMAIN noted = SessionFields /\ noted.lastPacketIdFrom = l
        /\ noted.didReceiveFirstPacketFromServer = f
        /\ noted.retransmission = x.retransmission /\ noted.isReading = x.isReading
        /\ noted.lastAckFrom = x.lastAckFrom /\ noted.incoming = x.incoming
        /\ noted.newIncoming = x.newIncoming /\ noted.overflow = x.overflow
        /\ SameSender(x, noted)
    BY DEF Sending, SessionFields, SameSender
  <2>. HIDE DEF noted
  <2>3. y = IF item.player = c THEN noted
            ELSE IF i > 0 THEN forwardMessage(added, item, count) ELSE added
    BY <1>2, <2>0, <2>2 DEF processMessage, Item
  <2>. HIDE DEF q, v
  <2>4. /\ DOMAIN added = SessionFields /\ added.lastPacketIdFrom = l
        /\ added.didReceiveFirstPacketFromServer = f
        /\ added.retransmission = x.retransmission /\ added.isReading = x.isReading
        /\ added.lastAckFrom = x.lastAckFrom /\ added.incoming = x.incoming
        /\ added.newIncoming = q /\ added.overflow = v
        /\ SameSender(x, added)
    BY <2>2 DEF SessionFields, SameSender
  <2>. HIDE DEF added
  <2>5. forwardMessage(added, item, count)
          = IF count <= 2 THEN added ELSE IF isFull(added.outgoing) THEN full ELSE more
    BY DEF forwardMessage
  <2>6. CASE item.player = c
    <3>1. y = noted
      BY <2>3, <2>6
    <3>. HIDE DEF item, y
    <3>. QED
      BY <1>2, <2>1, <2>2, <2>6, <3>1 DEF Takes, f, y, item
  <2>7. CASE item.player # c /\ y = added
    <3>. HIDE DEF item, y
    <3>. QED
      BY <1>2, <2>1, <2>4, <2>7 DEF Takes, f, q, v, y, item
  <2>8. CASE item.player # c /\ y = full
    <3>1. /\ DOMAIN full = SessionFields /\ full.lastPacketIdFrom = l
          /\ full.didReceiveFirstPacketFromServer = f
          /\ full.retransmission = x.retransmission /\ full.isReading = x.isReading
          /\ full.lastAckFrom = x.lastAckFrom /\ full.incoming = x.incoming
          /\ full.newIncoming = q /\ full.overflow = TRUE
          /\ SameSender(x, full)
      BY <2>4 DEF SessionFields, SameSender
    <3>. HIDE DEF item, y, full
    <3>. QED
      BY <1>2, <2>1, <2>8, <3>1 DEF Takes, f, q, y, item
  <2>9. CASE item.player # c /\ i > 0 /\ count > 2 /\ ~isFull(added.outgoing) /\ y = more
    <3>. HIDE DEF o, d
    <3>1. /\ DOMAIN more = SessionFields /\ more.lastPacketIdFrom = l
          /\ more.didReceiveFirstPacketFromServer = f
          /\ more.retransmission = x.retransmission /\ more.isReading = x.isReading
          /\ more.lastAckFrom = x.lastAckFrom /\ more.incoming = x.incoming
          /\ more.newIncoming = q /\ more.overflow = v
          /\ more.outgoing = o /\ more.forwardedCount = d
          /\ more.newOutgoing = added.newOutgoing /\ more.isWriting = added.isWriting
          /\ more.inflightCount = added.inflightCount /\ more.lastPacketId = added.lastPacketId
      BY <2>4 DEF SessionFields
    <3>. HIDE DEF more
    <3>2. Forwards(x, more, item)
      BY <2>4, <2>9, <3>1 DEF Forwards, SameSender, o, d
    <3>. HIDE DEF item, y
    <3>. QED
      BY <1>2, <2>1, <2>9, <3>1, <3>2 DEF Takes, f, q, v, y, item
  <2>10. \/ item.player = c
         \/ item.player # c /\ y = added
         \/ item.player # c /\ y = full
         \/ item.player # c /\ i > 0 /\ count > 2 /\ ~isFull(added.outgoing) /\ y = more
    <3>. HIDE DEF item, y, full, more
    <3>. QED
      BY <2>3, <2>5
  <2>. QED
    BY <2>6, <2>7, <2>8, <2>9, <2>10
<1>. QED
  BY <1>1, <1>2

LEMMA MessagesInSteps ==
  ASSUME NEW x, NEW c, NEW i, NEW transfer, NEW count, transfer.messages \in Seq(Packet)
  PROVE  \E f : Receives(f, x, processMessages(x, c, i, transfer, count), c, i, transfer, count)
<1>. DEFINE n == Len(transfer.messages)
            f == CHOOSE f : Processed(f, x, c, i, transfer, count, n)
<1>1. n \in Nat
  OBVIOUS
<1>2. processMessages(x, c, i, transfer, count) = f[n]
  BY Zenon DEF processMessages, Processed
<1>3. Processed(f, x, c, i, transfer, count, n)
  BY <1>1, ProcessedExists
<1>. HIDE DEF f
<1>4. \A k \in 0..n : f[k] = IF k = 0 THEN x
        ELSE processMessage(f[k - 1], c, i, transfer.messages[k],
                            (transfer.firstPacketId + k - 1) % PacketIds(i), count)
  BY <1>3 DEF Processed
<1>5. f[0] = x
  BY <1>1, <1>4
<1>6. ASSUME NEW k \in 1..n
      PROVE  f[k] = processMessage(f[k - 1], c, i, transfer.messages[k],
                                   (transfer.firstPacketId + k - 1) % PacketIds(i), count)
  <2>1. k \in 0..n /\ k # 0
    BY <1>1
  <2>. QED
    BY <1>4, <2>1
<1>. QED
  BY <1>2, <1>5, <1>6 DEF Receives

LEMMA DataInSteps ==
  ASSUME NEW x, NEW c, NEW data, NEW remote, NEW count
  PROVE  \E f : /\ Listens(f, x, c, data, remote, count)
                /\ addIncomingMessagesFromData(x, c, data, remote, count)
                     = copyIncomingState(Settled(f[4], c, x.retransmission, count))
<1>. DEFINE g == CHOOSE g : Incoming(g, x, c, data, remote, count)
<1>1. addIncomingMessagesFromData(x, c, data, remote, count)
        = copyIncomingState(Settled(g[4], c, x.retransmission, count))
  BY DEF addIncomingMessagesFromData, Incoming, Settled
<1>2. Incoming(g, x, c, data, remote, count)
  BY IncomingExists
<1>. HIDE DEF g
<1>3. \A i \in -1..4 : g[i] = IF i = -1 THEN x
         ELSE IF i \notin remote \cap DOMAIN data THEN g[i - 1]
         ELSE IF data[i] = None THEN g[i - 1]
         ELSE IncomingFrom(g[i - 1], c, i, data[i], count)
  BY <1>2 DEF Incoming
<1>4. g[-1] = x
  BY <1>3
<1>5. ASSUME NEW i \in 0..4
      PROVE  g[i] = IF i \in remote /\ i \in DOMAIN data /\ data[i] # None
                    THEN IncomingFrom(g[i - 1], c, i, data[i], count)
                    ELSE g[i - 1]
  <2>1. i \in -1..4 /\ i # -1
    OBVIOUS
  <2>2. g[i] = IF i \notin remote \cap DOMAIN data THEN g[i - 1]
               ELSE IF data[i] = None THEN g[i - 1]
               ELSE IncomingFrom(g[i - 1], c, i, data[i], count)
    BY <1>3, <2>1
  <2>. QED
    BY <2>2
<1>. QED
  BY <1>1, <1>4, <1>5 DEF Listens

\* The heartbeat and the ack of a transfer leave the messages alone.
LEMMA HeardLeaves ==
  ASSUME NEW x, DOMAIN x = SessionFields, NEW c, NEW i, NEW transfer
  PROVE  /\ SameSender(x, Heard(x, c, i, transfer)) /\ SameReceiver(x, Heard(x, c, i, transfer))
         /\ Heard(x, c, i, transfer).lastAckFrom = x.lastAckFrom
<1>. DEFINE l == [x.lastHeartbeatFrom EXCEPT ![i] =
                    IF c = 0 THEN transfer.count ELSE x.lastHeartbeatFrom[i]]
            t == [x.msgTimeouts EXCEPT ![0] = 0, ![i] = 0]
            f == [x.msgFlags EXCEPT ![0] = TRUE, ![i] = TRUE]
            y == [x EXCEPT !.lastHeartbeatFrom = l, !.msgTimeouts = t, !.msgFlags = f]
<1>1. Heard(x, c, i, transfer) \in {x, y}
  BY DEF Heard, SessionFields
<1>. HIDE DEF l, t, f
<1>2. SameSender(x, y) /\ SameReceiver(x, y) /\ y.lastAckFrom = x.lastAckFrom
  BY DEF SessionFields, SameSender, SameReceiver
<1>3. SameSender(x, x) /\ SameReceiver(x, x)
  BY DEF SameSender, SameReceiver
<1>. HIDE DEF y
<1>. QED
  BY <1>1, <1>2, <1>3

LEMMA AckedLeaves ==
  ASSUME NEW x, DOMAIN x = SessionFields, NEW c, NEW i, NEW transfer
  PROVE  /\ SameSender(x, Acked(x, c, i, transfer)) /\ SameReceiver(x, Acked(x, c, i, transfer))
         /\ x.retransmission =>
              Acked(x, c, i, transfer).lastAckFrom = [x.lastAckFrom EXCEPT ![i] = transfer.ack[c]]
<1>. DEFINE l == [x.lastAckFrom EXCEPT ![i] =
                    IF x.retransmission THEN transfer.ack[c] ELSE x.lastAckFrom[i]]
            y == [x EXCEPT !.lastAckFrom = l]
<1>1. Acked(x, c, i, transfer) = y
  BY DEF Acked, SessionFields
<1>2. x.retransmission => l = [x.lastAckFrom EXCEPT ![i] = transfer.ack[c]]
  OBVIOUS
<1>. HIDE DEF l
<1>3. SameSender(x, y) /\ SameReceiver(x, y) /\ y.lastAckFrom = l
  BY DEF SessionFields, SameSender, SameReceiver
<1>. HIDE DEF y
<1>. QED
  BY <1>1, <1>2, <1>3

LEMMA IncomingIs ==
  ASSUME NEW x, NEW c, NEW i, NEW transfer, NEW count
  PROVE  IncomingFrom(x, c, i, transfer, count)
           = Heard(processMessages(Acked(x, c, i, transfer), c, i, transfer, count), c, i, transfer)
  BY DEF IncomingFrom, Acked

\* The queues for the program do not matter to a sender.
LEMMA CopyLeavesSender ==
  ASSUME NEW x, DOMAIN x = SessionFields
  PROVE  /\ SameSender(x, copyIncomingState(x))
         /\ copyIncomingState(x).lastAckFrom = x.lastAckFrom
         /\ copyIncomingState(x).overflow = x.overflow
         /\ copyIncomingState(x).isReading = x.isReading
         /\ copyIncomingState(x).retransmission = x.retransmission
         /\ copyIncomingState(x).lastPacketIdFrom = x.lastPacketIdFrom
         /\ copyIncomingState(x).didReceiveFirstPacketFromServer = x.didReceiveFirstPacketFromServer
         /\ x.isReading => copyIncomingState(x) = x
         /\ ~x.isReading =>
              /\ copyIncomingState(x).incoming = MovedTo(x.newIncoming, x.incoming)
              /\ copyIncomingState(x).newIncoming = MovedFrom(x.newIncoming, x.incoming)
<1>. DEFINE i == MovedTo(x.newIncoming, x.incoming)
            n == MovedFrom(x.newIncoming, x.incoming)
            y == [x EXCEPT !.incoming = i, !.newIncoming = n]
<1>1. copyIncomingState(x) = IF x.isReading THEN x ELSE y
  BY DEF copyIncomingState
<1>. HIDE DEF i, n
<1>2. /\ SameSender(x, y) /\ y.lastAckFrom = x.lastAckFrom /\ y.overflow = x.overflow
      /\ y.isReading = x.isReading /\ y.retransmission = x.retransmission
      /\ y.lastPacketIdFrom = x.lastPacketIdFrom
      /\ y.didReceiveFirstPacketFromServer = x.didReceiveFirstPacketFromServer
      /\ y.incoming = i /\ y.newIncoming = n
  BY DEF SessionFields, SameSender
<1>3. SameSender(x, x)
  BY DEF SameSender
<1>. HIDE DEF y
<1>. QED
  BY <1>1, <1>2, <1>3 DEF i, n

-----------------------------------------------------------------------------
(* The counts agree through all that is received.                          *)

LEMMA CountedMessage ==
  ASSUME NEW x, NEW c, Counted(x, c), NEW i \in Nat, c = 0 \/ i = 0, NEW message \in Packet,
         NEW packetId, NEW count \in Nat
  PROVE  Stays(x, processMessage(x, c, i, message, packetId, count), c)
<1>. DEFINE y == processMessage(x, c, i, message, packetId, count)
            item == Item(i, message)
<1>1. Sending(x) /\ Sending(y)
  BY MessageKeeps DEF Counted, Kept
<1>2. IF Accepts(x, i, packetId) THEN Takes(x, y, c, i, item, packetId, count) ELSE y = x
  BY <1>1, MessageTakes
<1>3. item \in Message /\ ~HasId(item) /\ (i > 0 => item.player > 0)
  BY DEF Item, Message, Packet, HasId, NO_ID_ASSIGNED_YET
<1>. HIDE DEF y, item
<1>4. /\ y = x \/ SameSender(x, y) \/ (i > 0 /\ Forwards(x, y, item))
      /\ y.retransmission = x.retransmission
  BY <1>2 DEF Takes
<1>5. CASE SameSender(x, y)
  BY <1>4, <1>5, CountedSame DEF y, Stays
<1>6. CASE i > 0 /\ Forwards(x, y, item)
  <2>1. c = 0
    BY <1>6
  <2>2. Counted(y, 0)
    BY <1>1, <1>3, <1>6, <2>1, CountedForwards
  <2>. QED
    BY <1>4, <2>1, <2>2 DEF y, Stays
<1>. QED
  BY <1>4, <1>5, <1>6 DEF y, Stays

LEMMA CountedMessages ==
  ASSUME NEW x, NEW c, Counted(x, c), NEW i \in Nat, c = 0 \/ i = 0, NEW transfer,
         transfer.messages \in Seq(Packet), NEW count \in Nat
  PROVE  Stays(x, processMessages(x, c, i, transfer, count), c)
<1>. DEFINE y == processMessages(x, c, i, transfer, count)
<1>1. PICK f : Receives(f, x, y, c, i, transfer, count)
  BY MessagesInSteps
<1>. HIDE DEF y
<1>. DEFINE n == Len(transfer.messages)
            S == {k \in Nat : k <= n => Stays(x, f[k], c)}
<1>2. n \in Nat /\ \A k \in 1..n : transfer.messages[k] \in Packet
  OBVIOUS
<1>3. 0 \in S
  BY <1>1 DEF Receives, Stays
<1>4. ASSUME NEW k \in Nat, k \in S PROVE k + 1 \in S
  <2>1. SUFFICES ASSUME k + 1 <= n PROVE Stays(x, f[k + 1], c)
    OBVIOUS
  <2>2. k + 1 \in 1..n /\ k + 1 - 1 = k /\ k <= n
    BY <1>2, <2>1
  <2>3. f[k + 1] = processMessage(f[k], c, i, transfer.messages[k + 1],
                     (transfer.firstPacketId + (k + 1) - 1) % PacketIds(i), count)
    BY <1>1, <2>2 DEF Receives
  <2>4. Stays(x, f[k], c) /\ transfer.messages[k + 1] \in Packet
    BY <1>2, <1>4, <2>2
  <2>. QED
    BY <2>3, <2>4, CountedMessage DEF Stays
<1>. HIDE DEF S
<1>5. n \in S
  BY <1>2, <1>3, <1>4, NatSetInduction
<1>6. f[n] = y
  BY <1>1 DEF Receives
<1>. QED
  BY <1>2, <1>5, <1>6 DEF S, y

LEMMA CountedData ==
  ASSUME NEW x, NEW c, Counted(x, c), NEW data, Transfers(data), NEW remote,
         c = 0 \/ remote = {0}, NEW count \in Nat
  PROVE  Stays(x, addIncomingMessagesFromData(x, c, data, remote, count), c)
<1>1. PICK f : /\ Listens(f, x, c, data, remote, count)
               /\ addIncomingMessagesFromData(x, c, data, remote, count)
                    = copyIncomingState(Settled(f[4], c, x.retransmission, count))
  BY DataInSteps
<1>2. ASSUME NEW i \in 0..4, Stays(x, f[i - 1], c) PROVE Stays(x, f[i], c)
  <2>. DEFINE s == f[i - 1]
  <2>1. CASE i \in remote /\ i \in DOMAIN data /\ data[i] # None
    <3>1. f[i] = IncomingFrom(s, c, i, data[i], count)
      BY <1>1, <2>1 DEF Listens
    <3>2. data[i].messages \in Seq(Packet) /\ (c = 0 \/ i = 0) /\ i \in Nat
      BY <2>1 DEF Transfers
    <3>. DEFINE a == Acked(s, c, i, data[i])
                m == processMessages(a, c, i, data[i], count)
    <3>. HIDE DEF s
    <3>3. Stays(x, s, c)
      BY <1>2 DEF s
    <3>4. Stays(x, a, c)
      <4>1. SameSender(s, a) /\ SameReceiver(s, a)
        BY <3>3, AckedLeaves DEF Stays, Counted, Sending
      <4>. QED
        BY <3>3, <4>1, CountedSame DEF Stays, SameReceiver
    <3>. HIDE DEF a
    <3>5. Stays(x, m, c)
      BY <3>2, <3>4, CountedMessages DEF Stays
    <3>6. f[i] = Heard(m, c, i, data[i])
      BY <3>1, IncomingIs DEF a
    <3>. HIDE DEF m
    <3>7. SameSender(m, f[i]) /\ SameReceiver(m, f[i])
      BY <3>5, <3>6, HeardLeaves DEF Stays, Counted, Sending
    <3>. QED
      BY <3>5, <3>7, CountedSame DEF Stays, SameReceiver
  <2>2. CASE ~ (i \in remote /\ i \in DOMAIN data /\ data[i] # None)
    <3>1. f[i] = f[i - 1]
      BY <1>1, <2>2 DEF Listens
    <3>. QED
      BY <1>2, <3>1
  <2>. QED
    BY <2>1, <2>2
<1>3. Stays(x, f[4], c)
  <2>0. Stays(x, f[-1], c)
    BY <1>1 DEF Listens, Stays
  <2>1. Stays(x, f[0], c)
    <3>1. 0 \in 0..4 /\ 0 - 1 = -1
      OBVIOUS
    <3>. QED
      BY <1>2, <2>0, <3>1
  <2>2. Stays(x, f[1], c)
    BY <1>2, <2>1
  <2>3. Stays(x, f[2], c)
    BY <1>2, <2>2
  <2>4. Stays(x, f[3], c)
    BY <1>2, <2>3
  <2>. QED
    BY <1>2, <2>4
<1>. DEFINE z == Settled(f[4], c, x.retransmission, count)
<1>4. Stays(x, z, c)
  BY <1>3, CountedRemoves DEF Settled, Stays
<1>. HIDE DEF z
<1>5. SameSender(z, copyIncomingState(z)) /\ copyIncomingState(z).retransmission = z.retransmission
  BY <1>4, CopyLeavesSender DEF Stays, Counted, Sending
<1>6. Stays(x, copyIncomingState(z), c)
  BY <1>4, <1>5, CountedSame DEF Stays
<1>. QED
  BY <1>1, <1>6 DEF z

-----------------------------------------------------------------------------
(* The invariant of WirelessMessages about the counts.                     *)

\* A step of console c.
LEMMA CountedStep ==
  ASSUME CountsInv, NEW c \in Consoles, NEW x, Stays(session[c], x, c), Session(c, x), Slots',
         playerCount' \in [Consoles -> Nat], sent' \in [Consoles -> Nat],
         UNCHANGED <<linked, exchange>>
  PROVE  CountsInv'
<1>1. DOMAIN session' = Consoles /\ session'[c] = x
      /\ \A d \in Consoles \ {c} : session'[d] = session[d]
  BY DEF CountsInv, Session
<1>. QED
  BY <1>1 DEF CountsInv, Stays

LEMMA FreshCounted ==
  ASSUME NEW retransmission, NEW c
  PROVE  /\ Counted(FreshSession(retransmission), c)
         /\ FreshSession(retransmission).retransmission = retransmission
<1>. DEFINE x == [retransmission |-> retransmission, incoming |-> <<>>, newOutgoing |-> <<>>,
                  isReading |-> FALSE, isWriting |-> FALSE, needsClear |-> FALSE]
            y == ResetSession(x)
<1>1. <<>> \in Queue /\ Len(<<>>) = 0
  BY PacketsAssumption DEF Queue
<1>2. x.newOutgoing = <<>> /\ ~x.isWriting /\ x.retransmission = retransmission
  OBVIOUS
<1>. HIDE DEF x
<1>3. Sending(y)
  BY <1>1, <1>2, ResetIsSession DEF IsSession
<1>4. /\ y.outgoing = <<>> /\ y.newOutgoing = <<>> /\ y.inflightCount = 0
      /\ y.forwardedCount = 0 /\ ~y.isWriting /\ y.retransmission = retransmission
  BY <1>2 DEF ResetSession
<1>5. Forwarded(<<>>) = 0
  <2>1. ForwardedPlaces(<<>>) = {}
    BY <1>1 DEF ForwardedPlaces
  <2>. QED
    BY <1>1, <2>1, ForwardedIs, FS_EmptySet
<1>6. Counted(y, c)
  BY <1>1, <1>3, <1>4, <1>5, Windows DEF Counted
<1>. QED
  BY <1>4, <1>6 DEF FreshSession, x

LEMMA InitCounts == MessagesInit => CountsInv
<1>. SUFFICES ASSUME MessagesInit PROVE CountsInv
  OBVIOUS
<1>1. \A c \in Consoles : /\ Counted(session[c], c)
                          /\ session[c].retransmission = exchange.retransmission
  BY FreshCounted DEF MessagesInit
<1>. QED
  BY <1>1 DEF MessagesInit, CountsInv, Slots

\* The state in which console c makes its transfer from.
LEMMA ReadyCounted ==
  ASSUME NEW x, NEW c, Counted(x, c)
  PROVE  /\ Counted(copyOutgoingState(x), c)
         /\ Stays(x, Assigned(copyOutgoingState(x), c), c)
<1>. DEFINE y == copyOutgoingState(x)
            z == Assigned(y, c)
<1>1. Flows(x, y) /\ Sending(y)
  BY CopyFlows, CopyOutgoingKeeps DEF Counted, Kept
<1>. HIDE DEF y
<1>2. Counted(y, c)
  BY <1>1, CountedFlows
<1>3. PICK n \in Nat : Stamps(y, z, c, n)
  BY <1>2, AssignedStamps
<1>4. Sending(z)
  BY <1>1, AssignedKeeps DEF Kept
<1>. HIDE DEF z
<1>5. Counted(z, c)
  BY <1>2, <1>3, <1>4, CountedStamps
<1>6. z.retransmission = x.retransmission
  BY <1>1, <1>3 DEF Flows, Stamps, SameReceiver
<1>. QED
  BY <1>2, <1>5, <1>6 DEF y, z, Stays

\* A session that now waits, or no longer does.
LEMMA WaitingLeaves ==
  ASSUME NEW x, DOMAIN x = SessionFields, NEW wait, NEW latch, NEW y,
         y = [x EXCEPT !.shouldWaitForServer = wait, !.sendReceiveLatch = latch]
  PROVE  SameSender(x, y) /\ SameReceiver(x, y) /\ y.lastAckFrom = x.lastAckFrom
  BY DEF SessionFields, SameSender, SameReceiver

LEMMA SendDataCounts ==
  ASSUME CountsInv, NEW c \in Consoles, SendData(c)
  PROVE  CountsInv'
<1>. DEFINE x == Assigned(copyOutgoingState(session[c]), c)
            t == setDataFromOutgoingMessages(x, c, playerCount[c])
            y == clearInflightMessagesIfNeeded(x, c)
            z == [y EXCEPT !.shouldWaitForServer = c # 0, !.sendReceiveLatch = FALSE]
<1>1. /\ Session(c, z) /\ UNCHANGED <<playerCount, linked, sent, exchange>>
      /\ IF c = 0
         THEN down' = [p \in Clients |-> IF p \in linked THEN t ELSE None] /\ UNCHANGED up
         ELSE up' = [up EXCEPT ![c] = t] /\ UNCHANGED down
      /\ c = 0 => playerCount[0] > 1
  BY DEF SendData, Turn
<1>2. Stays(session[c], x, c) /\ Counted(x, c)
  BY ReadyCounted DEF CountsInv, Stays
<1>. HIDE DEF x
<1>3. Sent(t, c)
  <2>1. c = 0 => playerCount[c] \in Nat /\ playerCount[c] > 1
    BY <1>1 DEF CountsInv
  <2>. QED
    BY <1>2, <2>1, TransferIsSent DEF Counted
<1>4. Stays(session[c], y, c)
  BY <1>2, CountedClears DEF Stays
<1>. HIDE DEF y, t
<1>5. Stays(session[c], z, c)
  <2>1. SameSender(y, z) /\ z.retransmission = y.retransmission
    BY <1>4 DEF Stays, Counted, Sending, SessionFields, SameSender
  <2>. HIDE DEF z
  <2>. QED
    BY <1>4, <2>1, CountedSame DEF Stays
<1>. HIDE DEF z
<1>6. Slots'
  <2>1. CASE c = 0
    BY <1>1, <1>3, <2>1 DEF CountsInv, Slots
  <2>2. CASE c # 0
    <3>1. c \in Clients
      BY <2>2 DEF Consoles
    <3>. QED
      BY <1>1, <1>3, <2>2, <3>1 DEF CountsInv, Slots
  <2>. QED
    BY <2>1, <2>2
<1>. QED
  BY <1>1, <1>5, <1>6, CountedStep DEF CountsInv

LEMMA ReceivedLeaves ==
  ASSUME NEW x, DOMAIN x = SessionFields, NEW received
  PROVE  /\ SameSender(x, Received(x, received)) /\ SameReceiver(x, Received(x, received))
         /\ Received(x, received).lastAckFrom = x.lastAckFrom
  BY DEF SessionFields, SameSender, SameReceiver, Received

LEMMA ReceiveDataCounts ==
  ASSUME CountsInv, NEW c \in Consoles, ReceiveData(c)
  PROVE  CountsInv'
<1>. DEFINE data == IF c = 0 THEN up ELSE [i \in {0} |-> down[c]]
            received == \E i \in DOMAIN data : data[i] # None
            count == IF c # 0 /\ received THEN data[0].count ELSE playerCount[c]
            remote == IF c = 0 THEN {p \in Clients : p < count} ELSE {0}
            x == Received(session[c], received)
            y == IF received THEN addIncomingMessagesFromData(x, c, data, remote, count) ELSE x
<1>1. /\ Session(c, y) /\ playerCount' = [playerCount EXCEPT ![c] = count]
      /\ IF c = 0 THEN up' = [p \in Clients |-> None] /\ UNCHANGED down
         ELSE down' = [down EXCEPT ![c] = None] /\ UNCHANGED up
      /\ UNCHANGED <<linked, sent, exchange>>
  BY DEF ReceiveData
<1>2. Slots'
  <2>1. Slots
    BY DEF CountsInv
  <2>2. CASE c = 0
    <3>1. DOMAIN up' = Clients /\ (\A p \in Clients : up'[p] = None) /\ down' = down
      BY <1>1, <2>2
    <3>. QED
      BY <2>1, <3>1 DEF Slots
  <2>3. CASE c # 0
    <3>1. /\ DOMAIN down' = Clients /\ up' = up
          /\ \A p \in Clients : down'[p] = None \/ down'[p] = down[p]
      <4>1. down' = [down EXCEPT ![c] = None] /\ up' = up
        BY <1>1, <2>3
      <4>. QED
        BY <2>1, <4>1 DEF Slots
    <3>. QED
      BY <2>1, <3>1 DEF Slots
  <2>. QED
    BY <2>2, <2>3
<1>3. Transfers(data)
  <2>1. CASE c = 0
    BY <2>1 DEF CountsInv, Slots, Transfers, Sent
  <2>2. CASE c # 0
    <3>1. c \in Clients
      BY <2>2 DEF Consoles
    <3>. QED
      BY <2>2, <3>1 DEF CountsInv, Slots, Transfers, Sent
  <2>. QED
    BY <2>1, <2>2
<1>4. count \in Nat
  <2>1. CASE c # 0 /\ received
    <3>1. c \in Clients
      BY <2>1 DEF Consoles
    <3>2. down[c] # None /\ count = down[c].count
      BY <2>1
    <3>. QED
      BY <3>1, <3>2 DEF CountsInv, Slots, Sent
  <2>2. CASE ~ (c # 0 /\ received)
    BY <2>2 DEF CountsInv
  <2>. QED
    BY <2>1, <2>2
<1>5. Stays(session[c], x, c)
  <2>1. Counted(session[c], c)
    BY DEF CountsInv
  <2>2. SameSender(session[c], x) /\ SameReceiver(session[c], x)
    BY <2>1, ReceivedLeaves DEF Counted, Sending
  <2>. HIDE DEF x
  <2>. QED
    BY <2>1, <2>2, CountedSame DEF Stays, SameReceiver
<1>6. c = 0 \/ remote = {0}
  OBVIOUS
<1>. HIDE DEF x, data, remote, count, received
<1>7. Stays(session[c], y, c)
  BY <1>3, <1>4, <1>5, <1>6, CountedData DEF Stays
<1>. HIDE DEF y
<1>8. playerCount' \in [Consoles -> Nat]
  BY <1>1, <1>4 DEF CountsInv
<1>. QED
  BY <1>1, <1>2, <1>7, <1>8, CountedStep DEF CountsInv

LEMMA SendsCounts ==
  ASSUME CountsInv, NEW c \in Consoles, Sends(c)
  PROVE  CountsInv'
<1>. DEFINE item == [data |-> sent[c] + 1, player |-> c, id |-> NO_ID_ASSIGNED_YET]
            x == session[c]
            q == push(x.newOutgoing, item)
            y == [x EXCEPT !.newOutgoing = q]
<1>1. /\ Session(c, y) /\ sent' = [sent EXCEPT ![c] = @ + 1] /\ ~isFull(x.newOutgoing)
      /\ UNCHANGED <<playerCount, linked, up, down, exchange>>
  BY DEF Sends
<1>2. Counted(x, c) /\ item \in Message /\ ~HasId(item) /\ item.player = c
  <2>1. Counted(x, c)
    BY DEF CountsInv
  <2>2. sent[c] \in Nat
    <3>1. sent \in [Consoles -> Nat]
      BY DEF CountsInv
    <3>. QED
      BY <3>1
  <2>3. c \in Nat
    BY PacketsAssumption DEF Consoles
  <2>4. item \in Message
    BY <2>2, <2>3 DEF Message, NO_ID_ASSIGNED_YET
  <2>5. ~HasId(item) /\ item.player = c
    BY DEF HasId
  <2>. QED
    BY <2>1, <2>4, <2>5
<1>. HIDE DEF item
<1>3. /\ x.newOutgoing \in Queue /\ x.newOutgoing \in Seq(Message) /\ Len(x.newOutgoing) \in Nat
      /\ q = Append(x.newOutgoing, item)
  BY <1>1, <1>2, Lengths DEF Counted, Sending, push
<1>4. q \in Queue
  BY <1>2, <1>3, PushKeeps
<1>5. ASSUME NEW k \in 1 .. Len(q) PROVE q[k].player = c /\ ~HasId(q[k])
  <2>1. CASE k = Len(x.newOutgoing) + 1
    BY <1>2, <1>3, <2>1
  <2>2. CASE k # Len(x.newOutgoing) + 1
    <3>1. k \in 1 .. Len(x.newOutgoing) /\ q[k] = x.newOutgoing[k]
      BY <1>3, <2>2
    <3>. QED
      BY <1>2, <3>1 DEF Counted
  <2>. QED
    BY <2>1, <2>2
<1>. HIDE DEF q, x
<1>6. /\ y.newOutgoing = q /\ y.outgoing = x.outgoing /\ y.isWriting = x.isWriting
      /\ y.inflightCount = x.inflightCount /\ y.forwardedCount = x.forwardedCount
      /\ y.lastPacketId = x.lastPacketId /\ DOMAIN y = SessionFields
      /\ y.retransmission = x.retransmission
  BY <1>2 DEF Counted, Sending, SessionFields
<1>. HIDE DEF y
<1>7. Stays(session[c], y, c)
  BY <1>2, <1>4, <1>5, <1>6 DEF Counted, Sending, Stays, x
<1>8. sent' \in [Consoles -> Nat] /\ Slots'
  BY <1>1 DEF CountsInv, Slots
<1>. QED
  BY <1>1, <1>7, <1>8, CountedStep DEF CountsInv

LEMMA ReadsCounts ==
  ASSUME CountsInv, NEW c \in Consoles, Reads(c)
  PROVE  CountsInv'
<1>. DEFINE y == [session[c] EXCEPT !.incoming = <<>>]
<1>1. Session(c, y) /\ UNCHANGED <<playerCount, linked, up, down, sent, exchange>>
  BY DEF Reads
<1>2. Counted(session[c], c)
  BY DEF CountsInv
<1>3. SameSender(session[c], y) /\ y.retransmission = session[c].retransmission
  BY <1>2 DEF Counted, Sending, SessionFields, SameSender
<1>. HIDE DEF y
<1>4. Stays(session[c], y, c) /\ Slots'
  BY <1>1, <1>2, <1>3, CountedSame DEF CountsInv, Slots, Stays
<1>. QED
  BY <1>1, <1>4, CountedStep DEF CountsInv

LEMMA StepCounts == CountsInv /\ [MessagesNext]_messagesVars => CountsInv'
<1>. SUFFICES ASSUME CountsInv, [MessagesNext]_messagesVars PROVE CountsInv'
  OBVIOUS
<1>1. ASSUME NEW c \in Clients, Joins(c) PROVE CountsInv'
  BY <1>1 DEF Joins, CountsInv, Slots
<1>2. CASE SignalLevel
  <2>1. Cardinality(linked) \in Nat
    BY CountLinked DEF CountsInv
  <2>. QED
    BY <1>2, <2>1, Players DEF SignalLevel, CountsInv, Slots
<1>3. CASE UNCHANGED messagesVars
  BY <1>3 DEF messagesVars, CountsInv, Slots
<1>. QED
  BY <1>1, <1>2, <1>3, SendDataCounts, ReceiveDataCounts, SendsCounts, ReadsCounts DEF MessagesNext

(* The counts a transfer is made from agree with the queue, for any number *)
(* of clients, sizes of the queues and of a transfer, with and without     *)
(* retransmission: setDataFromOutgoingMessages would otherwise number more *)
(* packets than the window allows, or none, or leave out the bitmaps.      *)
THEOREM CountsStayTrue == MessagesSpec => []CountsAgree
<1>1. CountsInv => CountsAgree
  BY CountedNumbered DEF CountsInv, CountsAgree
<1>. QED
  BY <1>1, InitCounts, StepCounts, PTL DEF MessagesSpec

-----------------------------------------------------------------------------
(* No message is lost.  First, packet IDs: they are compared modulo a      *)
(* power of two, and are told apart within half of it.                     *)

LEMMA IdsArePowers ==
  ASSUME NEW c
  PROVE  PacketIds(c) \in Powers /\ 2 * MaxInflight(c) + 2 = PacketIds(c) /\ MaxInflight(c) \in Nat
  BY PacketsAssumption, Windows DEF PacketIds, Powers

LEMMA ModuloIs ==
  ASSUME NEW N \in Powers, NEW a \in Int
  PROVE  a % N \in 0 .. N - 1
<1>1. ASSUME NEW M \in Nat, M > 0 PROVE a % M \in 0 .. M - 1
  BY <1>1
<1>. QED
  BY <1>1 DEF Powers

\* n more packets have an ID.
LEMMA BackGrows ==
  ASSUME NEW N \in Powers, NEW a \in 0 .. N - 1, NEW b \in 0 .. N - 1, NEW n \in 0 .. N - 1
  PROVE  /\ (((a + n) % N) - b) % N <= ((a - b) % N) + n
         /\ ((a - b) % N) + n < N => (((a + n) % N) - b) % N = ((a - b) % N) + n
<1>1. CASE N = 4
  BY <1>1
<1>2. CASE N = 8
  BY <1>2
<1>3. CASE N = 16
  BY <1>3
<1>4. CASE N = 32
  BY <1>4
<1>5. CASE N = 64
  BY <1>5
<1>. QED
  BY <1>1, <1>2, <1>3, <1>4, <1>5 DEF Powers

\* The m-th one of them.
LEMMA BackOfNew ==
  ASSUME NEW N \in Powers, NEW a \in 0 .. N - 1, NEW n \in 0 .. N - 1, NEW m \in 0 .. n
  PROVE  (((a + n) % N) - ((a + m) % N)) % N = n - m
<1>1. CASE N = 4
  BY <1>1
<1>2. CASE N = 8
  BY <1>2
<1>3. CASE N = 16
  BY <1>3
<1>4. CASE N = 32
  BY <1>4
<1>5. CASE N = 64
  BY <1>5
<1>. QED
  BY <1>1, <1>2, <1>3, <1>4, <1>5 DEF Powers

\* The k-th message of a transfer with first packet ID b, when a was the last.
LEMMA BackOfCarried ==
  ASSUME NEW N \in Powers, NEW a \in 0 .. N - 1, NEW b \in 0 .. N - 1,
         NEW k \in 1 .. ((a - b) % N) + 1
  PROVE  (a - ((b + k - 1) % N)) % N = ((a - b) % N) + 1 - k
<1>1. CASE N = 4
  BY <1>1
<1>2. CASE N = 8
  BY <1>2
<1>3. CASE N = 16
  BY <1>3
<1>4. CASE N = 32
  BY <1>4
<1>5. CASE N = 64
  BY <1>5
<1>. QED
  BY <1>1, <1>2, <1>3, <1>4, <1>5 DEF Powers

\* The packet after b, when a was the last one, is one packet less behind.
LEMMA BackOfNext ==
  ASSUME NEW N \in Powers, NEW a \in 0 .. N - 1, NEW b \in 0 .. N - 1,
         ((a - ((b + 1) % N)) % N) + 1 < N
  PROVE  (a - ((b + 1) % N)) % N = ((a - b) % N) - 1
<1>1. CASE N = 4
  BY <1>1
<1>2. CASE N = 8
  BY <1>2
<1>3. CASE N = 16
  BY <1>3
<1>4. CASE N = 32
  BY <1>4
<1>5. CASE N = 64
  BY <1>5
<1>. QED
  BY <1>1, <1>2, <1>3, <1>4, <1>5 DEF Powers

\* Of the packets in a window an ack confirms those that are not after it.
LEMMA BackOfConfirmed ==
  ASSUME NEW N \in Powers, NEW M \in Nat, 2 * M + 2 = N, NEW a \in 0 .. N - 1,
         NEW id \in 0 .. N - 1, NEW ack \in 0 .. N - 1,
         (a - id) % N <= M, (a - ack) % N <= M, (ack - id) % N <= M
  PROVE  (a - ack) % N <= (a - id) % N
<1>1. CASE N = 4
  BY <1>1
<1>2. CASE N = 8
  BY <1>2
<1>3. CASE N = 16
  BY <1>3
<1>4. CASE N = 32
  BY <1>4
<1>5. CASE N = 64
  BY <1>5
<1>. QED
  BY <1>1, <1>2, <1>3, <1>4, <1>5 DEF Powers

-----------------------------------------------------------------------------
(* The words of a player in a queue, by their places.                      *)

LEMMA GreatestNat ==
  ASSUME NEW n \in Nat, NEW T, T \subseteq 1 .. n, T # {}
  PROVE  Greatest(T) \in T /\ \A m \in T : m <= Greatest(T)
<1>. DEFINE L == {n - m : m \in T}
            x == n - Least(L)
<1>1. L \subseteq Nat /\ L # {}
  <2>1. \A m \in T : n - m \in Nat
    OBVIOUS
  <2>2. PICK m \in T : TRUE
    OBVIOUS
  <2>3. n - m \in L
    OBVIOUS
  <2>. QED
    BY <2>1, <2>3
<1>2. Least(L) \in L /\ \A l \in L : Least(L) <= l
  <2>. HIDE DEF L
  <2>. QED
    BY <1>1, LeastNat
<1>3. PICK y \in T : Least(L) = n - y
  BY <1>2
<1>4. \A m \in T : n - y <= n - m
  BY <1>2, <1>3
<1>5. \A m \in T : m <= y
  BY <1>4
<1>. QED
  BY <1>5 DEF Greatest

LEMMA MessagePlaces ==
  ASSUME NEW q \in Seq(Message)
  PROVE  /\ Len(q) \in Nat /\ DOMAIN q = 1 .. Len(q)
         /\ \A k \in 1 .. Len(q) : q[k] \in Message /\ q[k].data \in Nat /\ q[k].player \in Nat
<1>1. \A k \in 1 .. Len(q) : q[k] \in Message
  OBVIOUS
<1>. QED
  BY <1>1 DEF Message

LEMMA PlacesAre ==
  ASSUME NEW q \in Seq(Message), NEW p
  PROVE  /\ \A k : k \in PlacesOf(q, p) <=> k \in 1 .. Len(q) /\ q[k].player = p
         /\ \A k \in PlacesOf(q, p) : k \in Nat /\ k >= 1 /\ k <= Len(q) /\ q[k].data \in Nat
         /\ \A w : w \in WordsOf(q, p) <=> \E k \in 1 .. Len(q) : q[k].player = p /\ w = q[k].data
         /\ WordsOf(q, p) \subseteq Nat
  BY MessagePlaces DEF PlacesOf, WordsOf

\* The last word of p before place n of q, or before q.
LEMMA WordBeforeIs ==
  ASSUME NEW q \in Seq(Message), NEW p, NEW n \in Nat, NEW last
  PROVE  \/ /\ WordBefore(q, p, n, last) = last
            /\ \A k \in PlacesOf(q, p) : ~ (k < n)
         \/ \E m \in PlacesOf(q, p) :
              /\ m < n /\ WordBefore(q, p, n, last) = q[m].data
              /\ \A k \in PlacesOf(q, p) : k < n => k <= m
<1>. DEFINE B == {m \in PlacesOf(q, p) : m < n}
<1>1. WordBefore(q, p, n, last) = IF B = {} THEN last ELSE q[Greatest(B)].data
  BY DEF WordBefore
<1>2. B \subseteq 1 .. Len(q) /\ Len(q) \in Nat
  BY PlacesAre
<1>3. CASE B = {}
  BY <1>1, <1>3
<1>4. CASE B # {}
  <2>1. Greatest(B) \in B /\ \A m \in B : m <= Greatest(B)
    <3>. HIDE DEF B
    <3>. QED
      BY <1>2, <1>4, GreatestNat
  <2>2. Greatest(B) \in PlacesOf(q, p) /\ Greatest(B) < n
    BY <2>1
  <2>3. \A k \in PlacesOf(q, p) : k < n => k <= Greatest(B)
    BY <2>1
  <2>. HIDE DEF B
  <2>. QED
    BY <1>1, <1>4, <2>2, <2>3
<1>. QED
  BY <1>3, <1>4

LEMMA HerePushes ==
  ASSUME NEW a \in Queue, NEW b \in Queue, NEW item \in Message
  PROVE  /\ a \o b \in Seq(Message) /\ a \o push(b, item) \in Seq(Message)
         /\ \E e \in {0, 1} : /\ Pushes(a \o b, a \o push(b, item), item, Len(a), e)
                              /\ ~isFull(b) => e = 0
<1>1. /\ a \in Seq(Message) /\ b \in Seq(Message) /\ Len(a) \in Nat /\ Len(b) \in Nat
      /\ Size \in Nat /\ Size > 0
  BY Lengths
<1>. DEFINE t == IF isFull(b) THEN Tail(b) ELSE b
            e == IF isFull(b) THEN 1 ELSE 0
<1>2. /\ t \in Seq(Message) /\ Len(t) = Len(b) - e /\ e \in {0, 1}
      /\ \A k \in 1 .. Len(t) : t[k] = b[k + e]
  <2>1. CASE isFull(b)
    <3>1. Len(b) > 0
      BY <1>1, <2>1 DEF isFull
    <3>2. Tail(b) \in Seq(Message) /\ Len(Tail(b)) = Len(b) - 1
          /\ \A k \in 1 .. Len(b) - 1 : Tail(b)[k] = b[k + 1]
      BY <1>1, <3>1
    <3>. QED
      BY <2>1, <3>2
  <2>2. CASE ~isFull(b)
    BY <1>1, <2>2
  <2>. QED
    BY <2>1, <2>2
<1>3. push(b, item) = Append(t, item) /\ (~isFull(b) => e = 0)
  BY DEF push
<1>. HIDE DEF t, e
<1>4. /\ Append(t, item) \in Seq(Message) /\ Len(Append(t, item)) = Len(t) + 1
      /\ Append(t, item)[Len(t) + 1] = item
      /\ \A k \in 1 .. Len(t) : Append(t, item)[k] = t[k]
  BY <1>2
<1>. DEFINE u == Append(t, item)
<1>. HIDE DEF u
<1>5. u \in Seq(Message) /\ Len(u) = Len(b) + 1 - e /\ u[Len(u)] = item
      /\ \A k \in 1 .. Len(u) - 1 : u[k] = b[k + e]
  BY <1>1, <1>2, <1>4 DEF u
<1>6. /\ a \o b \in Seq(Message) /\ Len(a \o b) = Len(a) + Len(b)
      /\ \A k \in 1 .. Len(a) : (a \o b)[k] = a[k]
      /\ \A k \in 1 .. Len(b) : (a \o b)[Len(a) + k] = b[k]
  BY <1>1
<1>7. /\ a \o u \in Seq(Message) /\ Len(a \o u) = Len(a) + Len(u)
      /\ \A k \in 1 .. Len(a) : (a \o u)[k] = a[k]
      /\ \A k \in 1 .. Len(u) : (a \o u)[Len(a) + k] = u[k]
  <2>1. a \in Seq(Message) /\ u \in Seq(Message)
    BY <1>1, <1>5
  <2>. QED
    BY <2>1
<1>. DEFINE q == a \o b
            r == a \o u
<1>. HIDE DEF q, r
<1>8. Len(r) = Len(q) + 1 - e /\ Len(u) \in Nat /\ Len(u) >= 1
  <2>1. Len(r) = Len(a) + Len(u) /\ Len(q) = Len(a) + Len(b)
    BY <1>6, <1>7 DEF q, r
  <2>2. Len(u) = Len(b) + 1 - e /\ Len(t) \in Nat
    BY <1>2, <1>5
  <2>. QED
    BY <1>1, <1>2, <2>1, <2>2
<1>9. r[Len(r)] = item
  <2>1. Len(r) = Len(a) + Len(u) /\ Len(u) \in 1 .. Len(u)
    BY <1>7, <1>8 DEF r
  <2>. QED
    BY <1>5, <1>7, <2>1 DEF r
<1>10. ASSUME NEW k \in 1 .. Len(r) - 1
       PROVE  r[k] = q[IF k <= Len(a) THEN k ELSE k + e]
  <2>1. CASE k <= Len(a)
    <3>1. k \in 1 .. Len(a)
      BY <1>1, <2>1
    <3>. QED
      BY <1>6, <1>7, <2>1, <3>1 DEF q, r
  <2>2. CASE ~ (k <= Len(a))
    <3>. DEFINE j == k - Len(a)
    <3>1. j \in 1 .. Len(u) - 1 /\ j \in 1 .. Len(u) /\ Len(a) + j = k
      BY <1>1, <1>5, <1>7, <1>8, <2>2 DEF r
    <3>. HIDE DEF j
    <3>2. j + e \in 1 .. Len(b) /\ Len(a) + (j + e) = k + e
      <4>. DEFINE m == Len(a)
                  n == Len(b)
                  o == Len(u)
      <4>1. m \in Nat /\ n \in Nat /\ e \in {0, 1} /\ o = n + 1 - e /\ j \in 1 .. o - 1 /\ m + j = k
        BY <1>1, <1>2, <1>5, <3>1
      <4>. HIDE DEF m, n, o
      <4>2. j + e \in 1 .. n /\ m + (j + e) = k + e
        BY <4>1
      <4>. QED
        BY <4>2 DEF m, n
    <3>3. r[k] = u[j]
      BY <1>7, <3>1 DEF r
    <3>4. q[k + e] = b[j + e]
      BY <1>6, <3>2 DEF q
    <3>5. u[j] = b[j + e]
      BY <1>5, <3>1
    <3>. QED
      BY <2>2, <3>3, <3>4, <3>5
  <2>. QED
    BY <2>1, <2>2
<1>11. Pushes(q, r, item, Len(a), e)
  BY <1>2, <1>8, <1>9, <1>10 DEF Pushes
<1>. QED
  BY <1>2, <1>3, <1>6, <1>7, <1>11 DEF q, r, u

\* A word that is greater than those there keeps them in order.
LEMMA PushOrder ==
  ASSUME NEW q \in Seq(Message), NEW r \in Seq(Message), NEW item \in Message, NEW l \in Nat,
         NEW e \in {0, 1}, Pushes(q, r, item, l, e), NEW p, NEW last \in Nat,
         InOrder(q, p, last),
         item.player = p => item.data > last /\ \A w \in WordsOf(q, p) : w < item.data
  PROVE  InOrder(r, p, last)
<1>1. /\ Len(q) \in Nat /\ Len(r) \in Nat /\ Len(r) = Len(q) + 1 - e /\ r[Len(r)] = item
      /\ \A k \in 1 .. Len(r) - 1 : r[k] = q[IF k <= l THEN k ELSE k + e]
  BY DEF Pushes
<1>. DEFINE From(k) == IF k <= l THEN k ELSE k + e
<1>2. ASSUME NEW k \in PlacesOf(r, p), k # Len(r)
      PROVE  From(k) \in PlacesOf(q, p) /\ r[k] = q[From(k)]
  <2>1. k \in 1 .. Len(r) - 1 /\ r[k].player = p
    BY <1>1, <1>2, PlacesAre
  <2>2. From(k) \in 1 .. Len(q)
    BY <1>1, <2>1
  <2>3. r[k] = q[From(k)]
    BY <1>1, <2>1
  <2>. QED
    BY <2>1, <2>2, <2>3, PlacesAre
<1>3. ASSUME NEW k \in PlacesOf(r, p), NEW m \in PlacesOf(r, p), m < k
      PROVE  From(m) < From(k) /\ m # Len(r) /\ From(m) \in Nat /\ From(k) \in Nat
  <2>1. k \in 1 .. Len(r) /\ m \in 1 .. Len(r)
    BY PlacesAre
  <2>. QED
    BY <1>1, <1>3, <2>1
<1>. HIDE DEF From
<1>4. ASSUME NEW k \in PlacesOf(r, p)
      PROVE  r[k].data > last /\ \A m \in PlacesOf(r, p) : m < k => r[m].data < r[k].data
  <2>1. CASE k = Len(r)
    <3>1. item.player = p /\ r[k] = item
      BY <1>1, <2>1, PlacesAre
    <3>2. ASSUME NEW m \in PlacesOf(r, p), m < k PROVE r[m].data < item.data
      <4>1. m # Len(r)
        BY <1>3, <3>2
      <4>2. From(m) \in PlacesOf(q, p) /\ r[m] = q[From(m)]
        BY <1>2, <4>1
      <4>3. r[m].data \in WordsOf(q, p)
        BY <4>2 DEF WordsOf
      <4>. QED
        BY <3>1, <4>3
    <3>. QED
      BY <3>1, <3>2
  <2>2. CASE k # Len(r)
    <3>1. From(k) \in PlacesOf(q, p) /\ r[k] = q[From(k)]
      BY <1>2, <2>2
    <3>2. r[k].data > last
      BY <3>1 DEF InOrder
    <3>3. ASSUME NEW m \in PlacesOf(r, p), m < k PROVE r[m].data < r[k].data
      <4>1. m # Len(r) /\ From(m) < From(k)
        BY <1>3, <3>3
      <4>2. From(m) \in PlacesOf(q, p) /\ r[m] = q[From(m)]
        BY <1>2, <4>1
      <4>. QED
        BY <3>1, <4>1, <4>2 DEF InOrder
    <3>. QED
      BY <3>2, <3>3
  <2>. QED
    BY <2>1, <2>2
<1>. QED
  BY <1>4 DEF InOrder

LEMMA PushWords ==
  ASSUME NEW q \in Seq(Message), NEW r \in Seq(Message), NEW item \in Message, NEW l \in Nat,
         NEW e \in {0, 1}, Pushes(q, r, item, l, e), NEW p
  PROVE  /\ WordsOf(r, p) \subseteq WordsOf(q, p) \cup (IF item.player = p THEN {item.data} ELSE {})
         /\ e = 0 => WordsOf(r, p)
                       = WordsOf(q, p) \cup (IF item.player = p THEN {item.data} ELSE {})
<1>1. /\ Len(q) \in Nat /\ Len(r) \in Nat /\ Len(r) = Len(q) + 1 - e /\ r[Len(r)] = item
      /\ \A k \in 1 .. Len(r) - 1 : r[k] = q[IF k <= l THEN k ELSE k + e]
  BY DEF Pushes
<1>2. ASSUME NEW w \in WordsOf(r, p)
      PROVE  w \in WordsOf(q, p) \cup (IF item.player = p THEN {item.data} ELSE {})
  <2>1. PICK k \in 1 .. Len(r) : r[k].player = p /\ w = r[k].data
    BY PlacesAre
  <2>2. CASE k = Len(r)
    BY <1>1, <2>1, <2>2
  <2>3. CASE k # Len(r)
    <3>. DEFINE j == IF k <= l THEN k ELSE k + e
    <3>1. k \in 1 .. Len(r) - 1 /\ j \in 1 .. Len(q)
      BY <1>1, <2>3
    <3>2. r[k] = q[j]
      BY <1>1, <3>1
    <3>. HIDE DEF j
    <3>3. w \in WordsOf(q, p)
      BY <2>1, <3>1, <3>2, PlacesAre
    <3>. QED
      BY <3>3
  <2>. QED
    BY <2>2, <2>3
<1>3. ASSUME e = 0, NEW w \in WordsOf(q, p) PROVE w \in WordsOf(r, p)
  <2>1. PICK k \in 1 .. Len(q) : q[k].player = p /\ w = q[k].data
    BY PlacesAre
  <2>2. k \in 1 .. Len(r) - 1 /\ k \in 1 .. Len(r) /\ (IF k <= l THEN k ELSE k + e) = k
    BY <1>1, <1>3
  <2>3. r[k] = q[k]
    BY <1>1, <2>2
  <2>. QED
    BY <2>1, <2>2, <2>3, PlacesAre
<1>4. ASSUME e = 0, item.player = p PROVE item.data \in WordsOf(r, p)
  <2>1. Len(r) \in 1 .. Len(r)
    BY <1>1, <1>4
  <2>. QED
    BY <1>1, <1>4, <2>1, PlacesAre
<1>. QED
  BY <1>2, <1>3, <1>4

\* What is left when the program has read the first queue.
LEMMA ReadOrder ==
  ASSUME NEW a \in Seq(Message), NEW b \in Seq(Message), NEW p, NEW last \in Nat,
         InOrder(a \o b, p, last), NEW next, next = LastOf(a, p, last)
  PROVE  /\ next \in {last} \cup WordsOf(a \o b, p) /\ next \in Nat
         /\ InOrder(b, p, next) /\ WordsOf(b, p) \subseteq WordsOf(a \o b, p)
         /\ \A v : WordsOf(a \o b, p) = last + 1 .. v => WordsOf(b, p) = next + 1 .. v
<1>. DEFINE q == a \o b
            l == Len(a)
<1>1. /\ q \in Seq(Message) /\ l \in Nat /\ Len(b) \in Nat /\ Len(q) = l + Len(b)
      /\ \A k \in 1 .. l : q[k] = a[k]
      /\ \A k \in 1 .. Len(b) : q[l + k] = b[k]
  OBVIOUS
<1>. HIDE DEF q, l
<1>2. \/ /\ next = last /\ \A k \in PlacesOf(a, p) : ~ (k < l + 1)
      \/ \E m \in PlacesOf(a, p) : /\ next = a[m].data
                                   /\ \A k \in PlacesOf(a, p) : k < l + 1 => k <= m
  <2>1. l + 1 \in Nat
    BY <1>1
  <2>2. next = WordBefore(a, p, l + 1, last)
    BY DEF LastOf, l
  <2>. QED
    BY <2>1, <2>2, WordBeforeIs
<1>3. ASSUME NEW k \in PlacesOf(a, p) PROVE k \in PlacesOf(q, p) /\ q[k] = a[k] /\ k <= l /\ k \in Nat
  <2>1. k \in 1 .. l /\ a[k].player = p
    BY PlacesAre DEF l
  <2>2. q[k] = a[k] /\ k \in 1 .. Len(q) /\ k <= l /\ k \in Nat
    BY <1>1, <2>1
  <2>3. q[k].player = p
    BY <2>1, <2>2
  <2>4. \A i : i \in PlacesOf(q, p) <=> i \in 1 .. Len(q) /\ q[i].player = p
    BY <1>1, PlacesAre
  <2>. QED
    BY <2>2, <2>3, <2>4
<1>4. ASSUME NEW k \in PlacesOf(b, p)
      PROVE  l + k \in PlacesOf(q, p) /\ q[l + k] = b[k] /\ l + k > l /\ k \in Nat
  <2>1. k \in 1 .. Len(b) /\ b[k].player = p
    BY PlacesAre
  <2>2. q[l + k] = b[k] /\ l + k \in 1 .. Len(q) /\ l + k > l /\ k \in Nat
    BY <1>1, <2>1
  <2>3. l + k \in PlacesOf(q, p)
    BY <1>1, <2>1, <2>2, PlacesAre
  <2>. QED
    BY <2>2, <2>3
<1>5. ASSUME NEW k \in PlacesOf(q, p), ~ (k <= l) PROVE k - l \in PlacesOf(b, p) /\ q[k] = b[k - l]
  <2>1. k \in 1 .. Len(q) /\ q[k].player = p
    BY <1>1, PlacesAre
  <2>2. k - l \in 1 .. Len(b) /\ l + (k - l) = k
    BY <1>1, <1>5, <2>1
  <2>3. q[k] = b[k - l]
    BY <1>1, <2>2
  <2>. QED
    BY <2>1, <2>2, <2>3, PlacesAre
<1>6. InOrder(q, p, last)
  BY DEF q
<1>7. \A k \in PlacesOf(q, p) : k \in Nat /\ q[k].data \in Nat /\ q[k].data \in WordsOf(q, p)
  BY <1>1, PlacesAre DEF WordsOf
<1>8. next \in {last} \cup WordsOf(q, p) /\ next \in Nat
  BY <1>2, <1>3, <1>7
<1>9. ASSUME NEW k \in PlacesOf(b, p) PROVE b[k].data > next
  <2>1. l + k \in PlacesOf(q, p) /\ q[l + k] = b[k] /\ l + k > l
    BY <1>4
  <2>2. CASE next = last
    BY <1>6, <2>1, <2>2 DEF InOrder
  <2>3. ASSUME NEW m \in PlacesOf(a, p), next = a[m].data PROVE b[k].data > next
    <3>1. m \in PlacesOf(q, p) /\ q[m] = a[m] /\ m < l + k
      <4>1. m <= l /\ m \in Nat /\ k \in Nat
        BY <1>3, <1>4
      <4>. QED
        BY <1>1, <1>3, <2>1, <4>1
    <3>2. q[m].data < q[l + k].data
      BY <1>6, <2>1, <3>1 DEF InOrder
    <3>3. q[m].data \in Nat /\ q[l + k].data \in Nat
      BY <1>7, <2>1, <3>1
    <3>. QED
      BY <2>1, <2>3, <3>1, <3>2, <3>3
  <2>. QED
    BY <1>2, <2>2, <2>3
<1>10. InOrder(b, p, next)
  <2>1. ASSUME NEW k \in PlacesOf(b, p), NEW m \in PlacesOf(b, p), m < k
        PROVE  b[m].data < b[k].data
    <3>1. l + m < l + k
      BY <1>1, <1>4, <2>1
    <3>. QED
      BY <1>4, <1>6, <3>1 DEF InOrder
  <2>. QED
    BY <1>9, <2>1 DEF InOrder
<1>11. WordsOf(b, p) \subseteq WordsOf(q, p)
  BY <1>4, <1>7 DEF WordsOf
<1>12. ASSUME NEW v, WordsOf(q, p) = last + 1 .. v PROVE WordsOf(b, p) = next + 1 .. v
  <2>1. ASSUME NEW w \in WordsOf(b, p) PROVE w \in next + 1 .. v
    <3>1. w \in last + 1 .. v
      BY <1>11, <1>12, <2>1
    <3>2. w > next
      BY <1>9, <2>1 DEF WordsOf
    <3>. QED
      BY <1>8, <3>1, <3>2
  <2>2. ASSUME NEW w \in next + 1 .. v PROVE w \in WordsOf(b, p)
    <3>1. next >= last
      BY <1>2, <1>3, <1>6, <1>7 DEF InOrder
    <3>2. w \in last + 1 .. v
      BY <1>8, <3>1
    <3>3. PICK k \in PlacesOf(q, p) : w = q[k].data
      BY <1>12, <3>2 DEF WordsOf
    <3>4. CASE ~ (k <= l)
      BY <1>5, <3>3, <3>4 DEF WordsOf
    <3>5. CASE k <= l
      <4>1. k \in PlacesOf(a, p) /\ q[k] = a[k]
        <5>1. k \in 1 .. Len(q) /\ q[k].player = p
          BY <1>1, PlacesAre
        <5>2. k \in 1 .. l
          BY <1>1, <3>5, <5>1
        <5>. QED
          BY <1>1, <5>1, <5>2, PlacesAre DEF l
      <4>2. PICK m \in PlacesOf(a, p) : next = a[m].data /\ k <= m
        <5>1. k < l + 1
          BY <1>1, <1>7, <3>5
        <5>. QED
          BY <1>2, <4>1, <5>1
      <4>3. m \in PlacesOf(q, p) /\ q[m] = a[m]
        BY <1>3
      <4>4. q[k].data <= q[m].data
        <5>1. CASE k = m
          BY <1>7, <5>1
        <5>2. CASE k # m
          <6>1. k < m
            BY <1>7, <4>2, <4>3, <5>2
          <6>. QED
            BY <1>6, <1>7, <4>3, <6>1 DEF InOrder
        <5>. QED
          BY <5>1, <5>2
      <4>. QED
        BY <1>7, <1>8, <2>2, <3>3, <4>2, <4>3, <4>4
    <3>. QED
      BY <3>4, <3>5
  <2>. QED
    BY <2>1, <2>2
<1>. QED
  BY <1>8, <1>10, <1>11, <1>12 DEF q

\* Words that are all there, up to v, and are followed by all that are coming.
LEMMA NoneMissingIs ==
  ASSUME NEW q \in Seq(Message), NEW p, NEW last \in Nat, NEW v \in Nat, NEW end \in Nat,
         last <= v, InOrder(q, p, last), WordsOf(q, p) = last + 1 .. v,
         NEW coming, v + 1 .. end \subseteq coming
  PROVE  NoneMissing(q, p, last, coming, end)
<1>1. \A k \in PlacesOf(q, p) : k \in Nat /\ k <= Len(q) /\ q[k].data \in Nat
                                 /\ q[k].data \in last + 1 .. v
  BY PlacesAre DEF WordsOf
<1>2. ASSUME NEW w \in last + 1 .. v PROVE \E k \in PlacesOf(q, p) : w = q[k].data
  BY <1>2 DEF WordsOf
<1>3. Len(q) \in Nat
  OBVIOUS
<1>4. LastOf(q, p, last) = v
  <2>1. \/ /\ LastOf(q, p, last) = last /\ \A k \in PlacesOf(q, p) : ~ (k < Len(q) + 1)
        \/ \E m \in PlacesOf(q, p) : /\ LastOf(q, p, last) = q[m].data
                                     /\ \A k \in PlacesOf(q, p) : k < Len(q) + 1 => k <= m
    <3>1. Len(q) + 1 \in Nat
      BY <1>3
    <3>. QED
      BY <3>1, WordBeforeIs DEF LastOf
  <2>2. \A k \in PlacesOf(q, p) : k < Len(q) + 1
    BY <1>1, <1>3
  <2>3. CASE last = v
    <3>1. PlacesOf(q, p) = {}
      BY <1>1, <2>3
    <3>. QED
      BY <2>1, <2>3, <3>1
  <2>4. CASE last # v
    <3>1. PICK j \in PlacesOf(q, p) : v = q[j].data
      <4>1. v \in last + 1 .. v
        BY <2>4
      <4>. QED
        BY <1>2, <4>1
    <3>2. PICK m \in PlacesOf(q, p) : LastOf(q, p, last) = q[m].data /\ j <= m
      BY <2>1, <2>2, <3>1
    <3>3. CASE j = m
      BY <3>1, <3>2, <3>3
    <3>4. CASE j # m
      <4>1. j < m
        BY <1>1, <3>2, <3>4
      <4>2. q[j].data < q[m].data
        BY <4>1 DEF InOrder
      <4>. QED
        BY <1>1, <3>1, <4>2
    <3>. QED
      BY <3>3, <3>4
  <2>. QED
    BY <2>3, <2>4
<1>5. ASSUME NEW n \in PlacesOf(q, p) PROVE q[n].data = WordBefore(q, p, n, last) + 1
  <2>. DEFINE b == WordBefore(q, p, n, last)
  <2>1. \/ /\ b = last /\ \A k \in PlacesOf(q, p) : ~ (k < n)
        \/ \E m \in PlacesOf(q, p) : /\ m < n /\ b = q[m].data
                                     /\ \A k \in PlacesOf(q, p) : k < n => k <= m
    <3>1. n \in Nat
      BY <1>1
    <3>. QED
      BY <3>1, WordBeforeIs
  <2>. HIDE DEF b
  <2>2. b \in Nat /\ b >= last /\ b < q[n].data
    BY <1>1, <2>1 DEF InOrder
  <2>3. SUFFICES ASSUME b + 1 < q[n].data PROVE FALSE
    BY <1>1, <2>2 DEF b
  <2>4. b + 1 \in last + 1 .. v
    BY <1>1, <2>2, <2>3
  <2>5. PICK k \in PlacesOf(q, p) : b + 1 = q[k].data
    BY <1>2, <2>4
  <2>6. k < n
    <3>1. ~ (n < k)
      <4>1. SUFFICES ASSUME n < k PROVE FALSE
        OBVIOUS
      <4>2. q[n].data < q[k].data
        BY <4>1 DEF InOrder
      <4>. QED
        BY <1>1, <2>2, <2>3, <2>5, <4>2
    <3>2. n # k
      BY <1>1, <2>2, <2>3, <2>5
    <3>. QED
      BY <1>1, <3>1, <3>2
  <2>7. PICK m \in PlacesOf(q, p) : b = q[m].data /\ k <= m
    BY <2>1, <2>6
  <2>8. k # m
    BY <2>2, <2>5, <2>7
  <2>9. q[k].data < q[m].data
    <3>1. k < m
      BY <1>1, <2>7, <2>8
    <3>. QED
      BY <3>1 DEF InOrder
  <2>. QED
    BY <2>2, <2>5, <2>7, <2>9
<1>. QED
  BY <1>4, <1>5 DEF NoneMissing

-----------------------------------------------------------------------------
(* What is on its way from console i, with session x, to another with      *)
(* session y: in the queue of x, or in the transfer in an adapter's slot.  *)

LEMMA BackIs ==
  ASSUME NEW x, NEW i, Consecutive(x, i), NEW id \in 0 .. PacketIds(i) - 1
  PROVE  /\ Back(x, i, id) \in 0 .. PacketIds(i) - 1 /\ Back(x, i, id) \in Nat
<1>1. PacketIds(i) \in Powers /\ x.lastPacketId - id \in Int /\ PacketIds(i) \in Nat
  BY IdsArePowers DEF Consecutive, Powers
<1>. QED
  BY <1>1, ModuloIs DEF Back

LEMMA SenderIs ==
  ASSUME NEW x, NEW i, Counted(x, i), Consecutive(x, i)
  PROVE  /\ Len(x.outgoing) \in Nat /\ Len(x.newOutgoing) \in Nat /\ x.inflightCount \in Nat
         /\ x.inflightCount <= Len(x.outgoing) /\ x.inflightCount <= MaxInflight(i)
         /\ MaxInflight(i) \in Nat /\ PacketIds(i) \in Nat /\ 2 * MaxInflight(i) + 2 = PacketIds(i)
         /\ x.lastPacketId \in Nat /\ x.lastPacketId < PacketIds(i)
         /\ x.outgoing \in Seq(Message) /\ x.newOutgoing \in Seq(Message)
         /\ \A k \in 1 .. Len(x.outgoing) : x.outgoing[k] \in Message /\ x.outgoing[k].data \in Nat
                                            /\ x.outgoing[k].player \in Nat
<1>1. x.outgoing \in Queue /\ x.newOutgoing \in Queue
  BY CountedNumbered
<1>2. PacketIds(i) \in Nat /\ MaxInflight(i) \in Nat /\ 2 * MaxInflight(i) + 2 = PacketIds(i)
  BY Windows
<1>3. x.lastPacketId \in Nat /\ x.lastPacketId < PacketIds(i)
  BY <1>2 DEF Consecutive
<1>4. /\ x.inflightCount \in Nat /\ x.inflightCount <= Len(x.outgoing)
      /\ x.inflightCount <= MaxInflight(i)
  BY DEF Counted
<1>5. /\ x.outgoing \in Seq(Message) /\ Len(x.outgoing) \in Nat
      /\ \A k \in 1 .. Len(x.outgoing) : x.outgoing[k] \in Message /\ x.outgoing[k].data \in Nat
                                         /\ x.outgoing[k].player \in Nat
  BY <1>1, QueuePlaces
<1>6. x.newOutgoing \in Seq(Message) /\ Len(x.newOutgoing) \in Nat
  BY <1>1, Lengths
<1>. QED
  BY <1>2, <1>3, <1>4, <1>5, <1>6

LEMMA TransferMade ==
  ASSUME NEW x, NEW c, Counted(x, c), NEW count,
         Sent(setDataFromOutgoingMessages(x, c, count), c)
  PROVE  Made(x, c, setDataFromOutgoingMessages(x, c, count))
<1>. DEFINE n == Least({Transfer, Numbered(x.outgoing)})
            t == setDataFromOutgoingMessages(x, c, count)
<1>1. /\ Numbered(x.outgoing) = x.inflightCount /\ x.inflightCount \in Nat
      /\ x.inflightCount <= Len(x.outgoing) /\ Len(x.outgoing) \in Nat
      /\ x.outgoing \in Queue
  BY CountedNumbered DEF Counted
<1>2. n \in Nat /\ n <= x.inflightCount
  <2>1. {Transfer, x.inflightCount} \subseteq Nat
    BY <1>1, PacketsAssumption
  <2>. QED
    BY <1>1, <2>1, LeastNat
<1>. HIDE DEF n
<1>3. /\ t.ack = x.lastPacketIdFrom /\ t.firstPacketId = IF n = 0 THEN 0 ELSE x.outgoing[1].id
      /\ t.messages = [k \in 1..n |->
           [data |-> x.outgoing[k].data,
            player |-> IF x.forwardedCount > 0 THEN x.outgoing[k].player ELSE 0]]
      /\ t # None
  BY DEF setDataFromOutgoingMessages, n, None
<1>4. t.messages \in Seq(Packet)
  BY DEF Sent
<1>. HIDE DEF t
<1>5. Len(t.messages) = n
  <2>1. DOMAIN t.messages = 1 .. n
    BY <1>3
  <2>2. DOMAIN t.messages = 1 .. Len(t.messages) /\ Len(t.messages) \in Nat
    BY <1>4
  <2>. QED
    BY <1>2, <2>1, <2>2
<1>6. ASSUME NEW k \in 1 .. n
      PROVE  /\ t.messages[k].data = x.outgoing[k].data
             /\ c = 0 => t.messages[k].player = x.outgoing[k].player
  <2>1. t.messages[k] = [data |-> x.outgoing[k].data,
            player |-> IF x.forwardedCount > 0 THEN x.outgoing[k].player ELSE 0]
    BY <1>3
  <2>2. ASSUME c = 0, ~ (x.forwardedCount > 0) PROVE x.outgoing[k].player = 0
    <3>1. Cardinality(ForwardedPlaces(x.outgoing)) = 0 /\ IsFiniteSet(ForwardedPlaces(x.outgoing))
      <4>1. x.forwardedCount = Forwarded(x.outgoing)
        BY <2>2 DEF Counted
      <4>. QED
        BY <1>1, <2>2, <4>1, ForwardedIs
    <3>2. ForwardedPlaces(x.outgoing) = {}
      BY <3>1, FS_EmptySet
    <3>3. k \in 1 .. Len(x.outgoing) /\ x.outgoing[k].player \in Nat
      <4>1. k \in 1 .. Len(x.outgoing)
        BY <1>1, <1>2
      <4>. QED
        BY <1>1, <4>1, QueuePlaces
    <3>. QED
      BY <3>2, <3>3 DEF ForwardedPlaces
  <2>. QED
    BY <2>1, <2>2
<1>7. Made(x, c, t)
  BY <1>1, <1>2, <1>3, <1>4, <1>5, <1>6 DEF Made
<1>. QED
  BY <1>7 DEF t

-----------------------------------------------------------------------------
(* What a sender does leaves the IDs one after the other.                  *)

\* The first m messages with an ID are those there were, from the n-th on.
LEMMA ConsecutiveRest ==
  ASSUME NEW x, NEW i, Consecutive(x, i), NEW z, NEW n \in Nat, x.inflightCount \in Nat,
         z.lastPacketId = x.lastPacketId, z.inflightCount = x.inflightCount - n,
         \A k \in 1 .. z.inflightCount : z.outgoing[k] = x.outgoing[n + k]
  PROVE  Consecutive(z, i)
<1>1. ASSUME NEW k \in 1 .. z.inflightCount
      PROVE  /\ z.outgoing[k].id \in 0 .. PacketIds(i) - 1
             /\ Back(z, i, z.outgoing[k].id) = z.inflightCount - k
  <2>1. n + k \in 1 .. x.inflightCount /\ x.inflightCount - (n + k) = z.inflightCount - k
    OBVIOUS
  <2>2. /\ x.outgoing[n + k].id \in 0 .. PacketIds(i) - 1
        /\ Back(x, i, x.outgoing[n + k].id) = x.inflightCount - (n + k)
    BY <2>1 DEF Consecutive
  <2>. QED
    BY <2>1, <2>2 DEF Back
<1>. QED
  BY <1>1 DEF Consecutive

LEMMA ConsecutiveSame ==
  ASSUME NEW x, NEW i, Consecutive(x, i), NEW z, SameSender(x, z)
  PROVE  Consecutive(z, i)
  BY DEF Consecutive, SameSender, Back

LEMMA ConsecutiveFlows ==
  ASSUME NEW x, NEW i, Counted(x, i), Consecutive(x, i), NEW z, Flows(x, z)
  PROVE  Consecutive(z, i)
<1>1. PICK n \in Nat : Moves(x.newOutgoing, x.outgoing, n, z.newOutgoing, z.outgoing)
  BY DEF Flows
<1>2. \A k \in 1 .. Len(x.outgoing) : z.outgoing[k] = x.outgoing[k]
  BY <1>1 DEF Moves
<1>3. z.lastPacketId = x.lastPacketId /\ z.inflightCount = x.inflightCount - 0
      /\ x.inflightCount \in Nat /\ x.inflightCount <= Len(x.outgoing) /\ Len(x.outgoing) \in Nat
  BY SenderIs DEF Flows
<1>4. ASSUME NEW k \in 1 .. z.inflightCount PROVE z.outgoing[k] = x.outgoing[0 + k]
  <2>1. k \in 1 .. Len(x.outgoing) /\ 0 + k = k
    BY <1>3
  <2>. QED
    BY <1>2, <2>1
<1>. QED
  BY <1>3, <1>4, ConsecutiveRest

LEMMA ConsecutiveForwards ==
  ASSUME NEW x, NEW i, Counted(x, i), Consecutive(x, i), NEW item \in Message, NEW z,
         Forwards(x, z, item)
  PROVE  Consecutive(z, i)
<1>1. /\ z.outgoing = Append(x.outgoing, item) /\ z.lastPacketId = x.lastPacketId
      /\ z.inflightCount = x.inflightCount - 0
      /\ x.inflightCount \in Nat /\ x.inflightCount <= Len(x.outgoing) /\ Len(x.outgoing) \in Nat
      /\ x.outgoing \in Seq(Message)
  BY SenderIs DEF Forwards
<1>2. ASSUME NEW k \in 1 .. z.inflightCount PROVE z.outgoing[k] = x.outgoing[0 + k]
  <2>1. k \in 1 .. Len(x.outgoing) /\ 0 + k = k
    BY <1>1
  <2>. QED
    BY <1>1, <2>1
<1>. QED
  BY <1>1, <1>2, ConsecutiveRest

LEMMA ConsecutiveCuts ==
  ASSUME NEW x, NEW i, Counted(x, i), Consecutive(x, i), NEW n \in Nat, NEW z, Cuts(x, z, i, n),
         n <= x.inflightCount
  PROVE  Consecutive(z, i)
<1>1. /\ z.lastPacketId = x.lastPacketId /\ z.inflightCount = x.inflightCount - n
      /\ x.inflightCount \in Nat /\ x.inflightCount <= Len(x.outgoing) /\ Len(x.outgoing) \in Nat
      /\ \A k \in 1 .. Len(x.outgoing) - n : z.outgoing[k] = x.outgoing[n + k]
  BY SenderIs DEF Cuts
<1>2. \A k \in 1 .. z.inflightCount : z.outgoing[k] = x.outgoing[n + k]
  BY <1>1
<1>. QED
  BY <1>1, <1>2, ConsecutiveRest

\* n more packets have an ID: all there are are n more behind.
LEMMA StampsBack ==
  ASSUME NEW x, NEW i, Counted(x, i), Consecutive(x, i), NEW n \in Nat, NEW z, Stamps(x, z, i, n),
         NEW id \in 0 .. PacketIds(i) - 1
  PROVE  /\ Back(z, i, id) <= Back(x, i, id) + n
         /\ Back(x, i, id) + n < PacketIds(i) => Back(z, i, id) = Back(x, i, id) + n
<1>1. /\ PacketIds(i) \in Powers /\ x.lastPacketId \in 0 .. PacketIds(i) - 1
      /\ z.lastPacketId = (x.lastPacketId + n) % PacketIds(i)
  BY IdsArePowers DEF Consecutive, Stamps
<1>2. n \in 0 .. PacketIds(i) - 1
  <2>1. z.inflightCount = x.inflightCount + n /\ z.inflightCount <= MaxInflight(i)
    BY DEF Stamps
  <2>. QED
    BY <2>1, SenderIs
<1>3. /\ (((x.lastPacketId + n) % PacketIds(i)) - id) % PacketIds(i)
           <= ((x.lastPacketId - id) % PacketIds(i)) + n
      /\ ((x.lastPacketId - id) % PacketIds(i)) + n < PacketIds(i)
           => (((x.lastPacketId + n) % PacketIds(i)) - id) % PacketIds(i)
                = ((x.lastPacketId - id) % PacketIds(i)) + n
  BY <1>1, <1>2, BackGrows
<1>. QED
  BY <1>1, <1>3 DEF Back

LEMMA ConsecutiveStamps ==
  ASSUME NEW x, NEW i, Counted(x, i), Consecutive(x, i), NEW n \in Nat, NEW z, Stamps(x, z, i, n)
  PROVE  Consecutive(z, i)
<1>1. /\ PacketIds(i) \in Powers /\ PacketIds(i) \in Nat /\ x.lastPacketId \in 0 .. PacketIds(i) - 1
      /\ z.lastPacketId = (x.lastPacketId + n) % PacketIds(i)
      /\ z.inflightCount = x.inflightCount + n /\ z.inflightCount <= MaxInflight(i)
      /\ z.inflightCount <= Len(x.outgoing) /\ x.inflightCount \in Nat
      /\ 2 * MaxInflight(i) + 2 = PacketIds(i) /\ MaxInflight(i) \in Nat /\ Len(x.outgoing) \in Nat
  BY IdsArePowers, SenderIs DEF Consecutive, Stamps
<1>2. z.lastPacketId \in 0 .. PacketIds(i) - 1
  <2>1. x.lastPacketId + n \in Int
    BY <1>1
  <2>2. (x.lastPacketId + n) % PacketIds(i) \in 0 .. PacketIds(i) - 1
    BY <1>1, <2>1, ModuloIs
  <2>. QED
    BY <1>1, <2>2
<1>3. ASSUME NEW k \in 1 .. z.inflightCount
      PROVE  /\ z.outgoing[k].id \in 0 .. PacketIds(i) - 1
             /\ Back(z, i, z.outgoing[k].id) = z.inflightCount - k
  <2>1. k \in 1 .. Len(x.outgoing)
    <3>. DEFINE l == Len(x.outgoing)
                m == z.inflightCount
    <3>1. /\ l \in Nat /\ x.inflightCount \in Nat /\ m = x.inflightCount + n /\ m <= l
          /\ k \in 1 .. m
      BY SenderIs DEF Stamps
    <3>. HIDE DEF l, m
    <3>2. k \in 1 .. l
      BY <3>1
    <3>. QED
      BY <3>2 DEF l
  <2>2. z.outgoing[k].id = IF x.inflightCount < k /\ k <= x.inflightCount + n
                           THEN (x.lastPacketId + k - x.inflightCount) % PacketIds(i)
                           ELSE x.outgoing[k].id
    BY <2>1 DEF Stamps
  <2>3. CASE k <= x.inflightCount
    <3>1. z.outgoing[k].id = x.outgoing[k].id /\ k \in 1 .. x.inflightCount
      BY <1>1, <2>2, <2>3
    <3>2. /\ x.outgoing[k].id \in 0 .. PacketIds(i) - 1
          /\ Back(x, i, x.outgoing[k].id) = x.inflightCount - k
      BY <3>1 DEF Consecutive
    <3>3. Back(x, i, x.outgoing[k].id) + n < PacketIds(i)
      BY <1>1, <3>2
    <3>4. Back(z, i, x.outgoing[k].id) = Back(x, i, x.outgoing[k].id) + n
      BY <3>2, <3>3, StampsBack
    <3>. QED
      BY <1>1, <3>1, <3>2, <3>4
  <2>4. CASE ~ (k <= x.inflightCount)
    <3>. DEFINE m == k - x.inflightCount
    <3>1. m \in 0 .. n /\ n \in 0 .. PacketIds(i) - 1 /\ n - m = z.inflightCount - k
      <4>1. k \in Nat /\ k <= x.inflightCount + n /\ k > x.inflightCount
        BY <1>1, <2>4
      <4>2. /\ n <= MaxInflight(i) /\ MaxInflight(i) \in Nat /\ n \in Nat
            /\ PacketIds(i) = 2 * MaxInflight(i) + 2
            /\ z.inflightCount = x.inflightCount + n /\ x.inflightCount \in Nat
        BY <1>1
      <4>. QED
        BY <4>1, <4>2
    <3>2. x.inflightCount < k /\ k <= x.inflightCount + n
      BY <1>1, <2>4
    <3>3. z.outgoing[k].id = (x.lastPacketId + m) % PacketIds(i)
      <4>1. x.lastPacketId + k - x.inflightCount = x.lastPacketId + m
        <5>1. x.lastPacketId \in Int /\ k \in Int /\ x.inflightCount \in Int
          BY <1>1
        <5>. QED
          BY <5>1
      <4>. QED
        BY <2>2, <3>2, <4>1
    <3>. HIDE DEF m
    <3>4. (x.lastPacketId + m) % PacketIds(i) \in 0 .. PacketIds(i) - 1
      <4>1. x.lastPacketId + m \in Int
        BY <1>1, <3>1
      <4>. QED
        BY <1>1, <4>1, ModuloIs
    <3>5. (((x.lastPacketId + n) % PacketIds(i)) - ((x.lastPacketId + m) % PacketIds(i)))
            % PacketIds(i) = n - m
      BY <1>1, <3>1, BackOfNew
    <3>6. Back(z, i, z.outgoing[k].id)
            = (((x.lastPacketId + n) % PacketIds(i)) - ((x.lastPacketId + m) % PacketIds(i)))
                % PacketIds(i)
      <4>1. z.lastPacketId = (x.lastPacketId + n) % PacketIds(i)
        BY <1>1
      <4>2. Back(z, i, z.outgoing[k].id) = (z.lastPacketId - z.outgoing[k].id) % PacketIds(i)
        BY DEF Back
      <4>. QED
        BY <3>3, <4>1, <4>2
    <3>. QED
      BY <3>1, <3>3, <3>4, <3>5, <3>6
  <2>. QED
    BY <2>3, <2>4
<1>. QED
  BY <1>2, <1>3 DEF Consecutive

\* The transfer of a session begins with the first of its packets.
LEMMA MadeFits ==
  ASSUME NEW x, NEW i, Counted(x, i), Consecutive(x, i), Receptive(x), NEW slot, Made(x, i, slot)
  PROVE  /\ SlotFits(x, i, slot)
         /\ Full(slot) => Depth(x, i, slot) = x.inflightCount
<1>1. /\ slot # None /\ slot.ack = x.lastPacketIdFrom /\ slot.messages \in Seq(Packet)
      /\ Len(slot.messages) <= x.inflightCount /\ Len(slot.messages) \in Nat
      /\ slot.firstPacketId = IF Len(slot.messages) = 0 THEN 0 ELSE x.outgoing[1].id
  BY DEF Made
<1>2. \A j \in Consoles : slot.ack[j] \in 0 .. PacketIds(j) - 1
  BY <1>1 DEF Receptive
<1>3. ASSUME Full(slot)
      PROVE  /\ Depth(x, i, slot) = x.inflightCount
             /\ slot.firstPacketId \in 0 .. PacketIds(i) - 1
  <2>1. Len(slot.messages) > 0 /\ x.inflightCount \in Nat
    BY <1>3, SenderIs DEF Full
  <2>2. slot.firstPacketId = x.outgoing[1].id /\ 1 \in 1 .. x.inflightCount
    BY <1>1, <2>1
  <2>3. /\ x.outgoing[1].id \in 0 .. PacketIds(i) - 1
        /\ Back(x, i, x.outgoing[1].id) = x.inflightCount - 1
    BY <2>2 DEF Consecutive
  <2>. QED
    BY <2>1, <2>2, <2>3 DEF Depth
<1>4. ASSUME ~Full(slot) PROVE slot.firstPacketId \in 0 .. PacketIds(i) - 1
  <2>1. slot.firstPacketId = 0
    BY <1>1, <1>4 DEF Full
  <2>. QED
    BY <2>1, SenderIs
<1>. QED
  BY <1>1, <1>2, <1>3, <1>4, SenderIs DEF SlotFits

\* Slots stay as they fit while no packet gets an ID, and may be emptied.
LEMMA SlotFitsSame ==
  ASSUME NEW x, NEW i, NEW slot, SlotFits(x, i, slot), NEW z, z.lastPacketId = x.lastPacketId
  PROVE  SlotFits(z, i, slot) /\ SlotFits(z, i, None)
  BY DEF SlotFits, Depth, Back, Full

-----------------------------------------------------------------------------
(* Nothing is lost between two consoles: what the sender does.             *)

\* No packet gets an ID, and those that y may still need stay.
LEMMA ExactAs ==
  ASSUME NEW x, NEW y, NEW i, NEW end, NEW last, NEW slot, NEW back,
         Exact(x, y, i, end, last, slot, back), NEW z, NEW next, AllSent(z, i, next),
         Top(z, next) = Top(x, end), z.lastPacketId = x.lastPacketId,
         Lag(x, y, i) <= z.inflightCount,
         back # None => Back(x, i, back.ack[i]) <= z.inflightCount
  PROVE  Exact(z, y, i, next, last, slot, back)
<1>1. \A id : Back(z, i, id) = Back(x, i, id)
  BY DEF Back
<1>2. Lag(z, y, i) = Lag(x, y, i) /\ Depth(z, i, slot) = Depth(x, i, slot)
  BY <1>1 DEF Lag, Depth
<1>3. AllCarried(z, i, next, slot)
  BY <1>2 DEF Exact, AllCarried
<1>4. Keeps(z, y, i, next, slot, back)
  BY <1>1, <1>2 DEF Exact, Keeps
<1>5. HasAll(y, i, last, Top(z, next) - Lag(z, y, i))
  BY <1>2 DEF Exact
<1>. QED
  BY <1>3, <1>4, <1>5 DEF Exact

LEMMA AllSentFlows ==
  ASSUME NEW x, NEW i, Counted(x, i), Consecutive(x, i), NEW end, OwnWords(x, end),
         NEW z, Flows(x, z)
  PROVE  /\ OwnWords(z, end)
         /\ AllSent(x, i, end) => AllSent(z, i, end) /\ Top(z, end) = Top(x, end)
<1>1. PICK n \in Nat : Moves(x.newOutgoing, x.outgoing, n, z.newOutgoing, z.outgoing)
  BY DEF Flows
<1>. DEFINE a == Len(x.outgoing)
            b == Len(x.newOutgoing)
            c == Len(z.outgoing)
            d == Len(z.newOutgoing)
<1>2. /\ a \in Nat /\ b \in Nat /\ n <= b /\ b <= end /\ c = a + n /\ d = b - n
      /\ z.inflightCount = x.inflightCount /\ x.inflightCount \in Nat /\ end \in Nat
  BY <1>1, SenderIs DEF Moves, Flows, OwnWords
<1>3. /\ \A k \in 1 .. a : z.outgoing[k] = x.outgoing[k]
      /\ \A k \in 1 .. n : z.outgoing[a + k] = x.newOutgoing[k]
      /\ \A k \in 1 .. b - n : z.newOutgoing[k] = x.newOutgoing[n + k]
      /\ \A k \in 1 .. b : x.newOutgoing[k].data = end - b + k /\ x.newOutgoing[k].player = i
      /\ AllSent(x, i, end) => /\ b + a <= end
                               /\ \A k \in 1 .. a : /\ x.outgoing[k].player = i
                                                     /\ x.outgoing[k].data = end - b - a + k
  BY <1>1 DEF Moves, OwnWords, AllSent, Counted
<1>4. Top(z, end) = end - d - c + z.inflightCount /\ Top(x, end) = end - b - a + x.inflightCount
  BY DEF Top
<1>. HIDE DEF a, b, c, d
<1>5. ASSUME NEW k \in 1 .. d PROVE z.newOutgoing[k].data = end - d + k
  <2>1. n + k \in 1 .. b /\ k \in 1 .. b - n /\ end - b + (n + k) = end - d + k
    BY <1>2
  <2>. QED
    BY <1>3, <2>1
<1>6. ASSUME AllSent(x, i, end), NEW k \in 1 .. c
      PROVE  z.outgoing[k].player = i /\ z.outgoing[k].data = end - d - c + k
  <2>1. CASE k <= a
    <3>1. k \in 1 .. a /\ end - b - a + k = end - d - c + k
      BY <1>2, <2>1
    <3>. QED
      BY <1>3, <1>6, <3>1
  <2>2. CASE ~ (k <= a)
    <3>. DEFINE j == k - a
    <3>1. j \in 1 .. n /\ j \in 1 .. b /\ a + j = k /\ end - b + j = end - d - c + k
      BY <1>2, <2>2
    <3>. HIDE DEF j
    <3>2. z.outgoing[k] = x.newOutgoing[j]
      BY <1>3, <3>1
    <3>. QED
      BY <1>3, <3>1, <3>2
  <2>. QED
    BY <2>1, <2>2
<1>7. AllSent(x, i, end) => d + c <= end
  BY <1>2, <1>3
<1>8. Top(z, end) = Top(x, end)
  <2>1. end - d - c + z.inflightCount = end - b - a + x.inflightCount
    BY <1>2
  <2>. QED
    BY <1>4, <2>1
<1>9. d <= end
  BY <1>2
<1>. QED
  BY <1>2, <1>5, <1>6, <1>7, <1>8, <1>9 DEF OwnWords, AllSent, c, d

LEMMA ExactFlows ==
  ASSUME NEW x, NEW i, Counted(x, i), Consecutive(x, i), NEW end, OwnWords(x, end),
         NEW y, NEW last, NEW slot, NEW back, Exact(x, y, i, end, last, slot, back),
         NEW z, Flows(x, z)
  PROVE  Exact(z, y, i, end, last, slot, back)
<1>1. AllSent(z, i, end) /\ Top(z, end) = Top(x, end)
  BY AllSentFlows DEF Exact
<1>2. z.lastPacketId = x.lastPacketId /\ z.inflightCount = x.inflightCount
  BY DEF Flows
<1>3. Lag(x, y, i) <= z.inflightCount /\ (back # None => Back(x, i, back.ack[i]) <= z.inflightCount)
  BY <1>2 DEF Exact, Keeps
<1>. QED
  BY <1>1, <1>2, <1>3, ExactAs

LEMMA ExactSame ==
  ASSUME NEW x, NEW i, NEW end, NEW y, NEW last, NEW slot, NEW back,
         Exact(x, y, i, end, last, slot, back), NEW z, SameSender(x, z)
  PROVE  Exact(z, y, i, end, last, slot, back)
<1>1. /\ z.outgoing = x.outgoing /\ z.newOutgoing = x.newOutgoing
      /\ z.inflightCount = x.inflightCount /\ z.lastPacketId = x.lastPacketId
  BY DEF SameSender
<1>2. AllSent(z, i, end) /\ Top(z, end) = Top(x, end)
  BY <1>1 DEF Exact, AllSent, Top
<1>3. Lag(x, y, i) <= z.inflightCount /\ (back # None => Back(x, i, back.ack[i]) <= z.inflightCount)
  BY <1>1 DEF Exact, Keeps
<1>. QED
  BY <1>1, <1>2, <1>3, ExactAs

\* What is confirmed by the transfer from y leaves.
LEMMA ExactCuts ==
  ASSUME NEW x, NEW i \in Consoles, Counted(x, i), Consecutive(x, i), NEW end, OwnWords(x, end),
         NEW y, NEW last, NEW slot, NEW back, Exact(x, y, i, end, last, slot, back),
         back # None, back.ack[i] \in 0 .. PacketIds(i) - 1, Receptive(y),
         NEW n \in Nat, NEW z, Confirms(x, z, i, back.ack[i], n)
  PROVE  Exact(z, y, i, end, last, slot, back)
<1>. DEFINE ack == back.ack[i]
            A == Back(x, i, ack)
            o == z.outgoing
<1>1. /\ Len(x.outgoing) \in Nat /\ Len(x.newOutgoing) \in Nat /\ x.inflightCount \in Nat
      /\ x.inflightCount <= Len(x.outgoing) /\ x.inflightCount <= MaxInflight(i) /\ end \in Nat
      /\ MaxInflight(i) \in Nat
  BY SenderIs DEF OwnWords
<1>2. /\ n <= x.inflightCount /\ z.lastPacketId = x.lastPacketId
      /\ z.inflightCount = x.inflightCount - n /\ z.newOutgoing = x.newOutgoing
      /\ Len(o) = Len(x.outgoing) - n
      /\ \A k \in 1 .. Len(x.outgoing) - n : o[k] = x.outgoing[n + k]
  BY DEF Confirms, Cuts
<1>3. A \in Nat /\ A <= x.inflightCount /\ Lag(x, y, i) <= A
  BY BackIs DEF Exact, Keeps
<1>4. Lag(x, y, i) \in Nat
  BY BackIs DEF Receptive, Lag
<1>5. A <= x.inflightCount - n
  <2>1. CASE n = 0
    BY <1>1, <1>3, <2>1
  <2>2. CASE n # 0
    <3>1. n \in 1 .. n /\ n \in 1 .. x.inflightCount
      BY <1>1, <1>2, <2>2
    <3>2. (ack - x.outgoing[n].id) % PacketIds(i) <= MaxInflight(i)
      BY <3>1 DEF Confirms, IsConfirmed
    <3>3. /\ x.outgoing[n].id \in 0 .. PacketIds(i) - 1
          /\ Back(x, i, x.outgoing[n].id) = x.inflightCount - n
      BY <3>1 DEF Consecutive
    <3>4. /\ (x.lastPacketId - x.outgoing[n].id) % PacketIds(i) <= MaxInflight(i)
          /\ (x.lastPacketId - ack) % PacketIds(i) <= MaxInflight(i)
      BY <1>1, <1>3, <3>1, <3>3 DEF Back
    <3>5. /\ PacketIds(i) \in Powers /\ 2 * MaxInflight(i) + 2 = PacketIds(i)
          /\ x.lastPacketId \in 0 .. PacketIds(i) - 1
      BY IdsArePowers DEF Consecutive
    <3>6. (x.lastPacketId - ack) % PacketIds(i) <= (x.lastPacketId - x.outgoing[n].id) % PacketIds(i)
      BY <1>1, <3>2, <3>3, <3>4, <3>5, BackOfConfirmed
    <3>. QED
      BY <3>3, <3>6 DEF Back
  <2>. QED
    BY <2>1, <2>2
<1>6. AllSent(z, i, end) /\ Top(z, end) = Top(x, end)
  <2>. DEFINE a == Len(x.outgoing)
              b == Len(x.newOutgoing)
              c == Len(o)
  <2>1. /\ a \in Nat /\ b \in Nat /\ c = a - n /\ Len(z.newOutgoing) = b
        /\ z.inflightCount = x.inflightCount - n
        /\ \A k \in 1 .. a - n : o[k] = x.outgoing[n + k]
        /\ b + a <= end
        /\ \A k \in 1 .. a : x.outgoing[k].player = i /\ x.outgoing[k].data = end - b - a + k
    BY <1>1, <1>2 DEF Exact, AllSent
  <2>2. /\ Top(z, end) = end - b - c + z.inflightCount
        /\ Top(x, end) = end - b - a + x.inflightCount
    BY <1>2 DEF Top
  <2>. HIDE DEF a, b, c
  <2>3. ASSUME NEW k \in 1 .. c PROVE o[k].player = i /\ o[k].data = end - b - c + k
    <3>1. n + k \in 1 .. a /\ k \in 1 .. a - n /\ end - b - a + (n + k) = end - b - c + k
      BY <1>1, <2>1
    <3>. QED
      BY <2>1, <3>1
  <2>4. b + c <= end /\ end - b - c + z.inflightCount = end - b - a + x.inflightCount
    BY <1>1, <2>1
  <2>. QED
    BY <2>1, <2>2, <2>3, <2>4 DEF AllSent, c
<1>8. Lag(x, y, i) <= z.inflightCount /\ A <= z.inflightCount
  BY <1>1, <1>2, <1>3, <1>4, <1>5
<1>. QED
  BY <1>2, <1>6, <1>8, ExactAs

\* The messages that get an ID are no longer due, and y lacks them.
LEMMA ExactStamps ==
  ASSUME NEW x, NEW i \in Consoles, Counted(x, i), Consecutive(x, i), Receptive(x), NEW end,
         OwnWords(x, end), NEW y, Receptive(y), NEW last, NEW slot, NEW back,
         Exact(x, y, i, end, last, slot, back),
         back # None => back.ack[i] \in 0 .. PacketIds(i) - 1,
         NEW n \in Nat, NEW z, Stamps(x, z, i, n), Counted(z, i), Receptive(z),
         NEW made, made = None \/ Made(z, i, made)
  PROVE  /\ Exact(z, y, i, end, last, made, back)
         /\ Top(z, end) - Lag(z, y, i) = Top(x, end) - Lag(x, y, i)
<1>. DEFINE a == Len(x.outgoing)
            b == Len(x.newOutgoing)
            w == x.inflightCount
            m == z.inflightCount
            N == PacketIds(i)
            lag == Lag(x, y, i)
            top == Top(x, end)
<1>0. /\ a \in Nat /\ b \in Nat /\ end \in Nat /\ w \in Nat /\ N \in Nat
      /\ MaxInflight(i) \in Nat /\ 2 * MaxInflight(i) + 2 = N
  BY SenderIs DEF OwnWords
<1>1. /\ m = w + n /\ m <= MaxInflight(i) /\ m <= a
      /\ Len(z.outgoing) = a /\ z.newOutgoing = x.newOutgoing
  BY DEF Stamps
<1>2. /\ b + a <= end
      /\ \A k \in 1 .. a : x.outgoing[k].player = i /\ x.outgoing[k].data = end - b - a + k
  BY DEF Exact, AllSent
<1>3. \A k \in 1 .. a : z.outgoing[k].player = i /\ z.outgoing[k].data = end - b - a + k
  BY <1>2 DEF Stamps
<1>4. top = end - b - a + w /\ Top(z, end) = end - b - a + m
  BY <1>1 DEF Top
<1>5. lag \in Nat /\ lag <= w
  BY BackIs DEF Exact, Keeps, Receptive, Lag
<1>6. AllSent(z, i, end)
  BY <1>1, <1>2, <1>3 DEF AllSent
<1>. HIDE DEF a, b, w, m, N, lag, top
<1>7. Top(z, end) = top + n /\ top \in Nat /\ m <= top + n
  BY <1>0, <1>1, <1>2, <1>4
<1>8. Lag(z, y, i) = lag + n
  <2>1. y.lastPacketIdFrom[i] \in 0 .. PacketIds(i) - 1
    BY DEF Receptive
  <2>2. Back(x, i, y.lastPacketIdFrom[i]) + n < PacketIds(i)
    BY <1>0, <1>1, <1>5 DEF N, lag, Lag
  <2>. QED
    BY <2>1, <2>2, StampsBack DEF Lag, lag
<1>9. back # None => /\ Back(z, i, back.ack[i]) = Back(x, i, back.ack[i]) + n
                     /\ Back(x, i, back.ack[i]) \in Nat
  <2>1. SUFFICES ASSUME back # None PROVE /\ Back(z, i, back.ack[i]) = Back(x, i, back.ack[i]) + n
                                          /\ Back(x, i, back.ack[i]) \in Nat
    OBVIOUS
  <2>2. Back(x, i, back.ack[i]) \in Nat /\ Back(x, i, back.ack[i]) <= w
    BY <2>1, BackIs DEF Exact, Keeps, w
  <2>3. Back(x, i, back.ack[i]) + n < PacketIds(i)
    BY <1>0, <1>1, <2>2 DEF N
  <2>. QED
    BY <2>1, <2>2, <2>3, StampsBack
<1>10. Full(made) => Depth(z, i, made) = m /\ Made(z, i, made)
  <2>1. Consecutive(z, i)
    BY ConsecutiveStamps
  <2>2. made # None => Made(z, i, made)
    OBVIOUS
  <2>3. Full(made) => made # None
    BY DEF Full
  <2>. QED
    BY <2>1, <2>2, <2>3, MadeFits DEF m
<1>11. AllCarried(z, i, end, made)
  <2>1. SUFFICES ASSUME Full(made)
                 PROVE  /\ Depth(z, i, made) <= Top(z, end)
                        /\ \A k \in 1 .. Len(made.messages) :
                             /\ i = 0 => made.messages[k].player = 0
                             /\ made.messages[k].data = Top(z, end) - Depth(z, i, made) + k
    BY DEF AllCarried
  <2>2. ASSUME NEW k \in 1 .. Len(made.messages)
        PROVE  /\ i = 0 => made.messages[k].player = 0
               /\ made.messages[k].data = top + n - m + k
    <3>1. /\ Len(made.messages) <= m /\ Len(made.messages) \in Nat
          /\ made.messages[k].data = z.outgoing[k].data
          /\ i = 0 => made.messages[k].player = z.outgoing[k].player
      BY <1>10, <2>1 DEF Made, m
    <3>2. k \in 1 .. a /\ end - b - a + k = top + n - m + k
      <4>1. k \in Nat /\ k >= 1 /\ k <= m
        BY <1>0, <1>1, <3>1
      <4>. QED
        BY <1>0, <1>1, <1>4, <4>1
    <3>. QED
      BY <1>3, <3>1, <3>2
  <2>3. Depth(z, i, made) = m
    BY <1>10, <2>1
  <2>4. Top(z, end) - Depth(z, i, made) = top + n - m /\ m <= Top(z, end)
    BY <1>0, <1>1, <1>7, <2>3
  <2>. QED
    BY <2>2, <2>3, <2>4
<1>12. Keeps(z, y, i, end, made, back)
  <2>1. lag + n <= m
    BY <1>0, <1>1, <1>5
  <2>2. back # None => lag + n <= Back(z, i, back.ack[i]) /\ Back(z, i, back.ack[i]) <= m
    <3>1. SUFFICES ASSUME back # None
                   PROVE  lag + n <= Back(z, i, back.ack[i]) /\ Back(z, i, back.ack[i]) <= m
      OBVIOUS
    <3>2. lag <= Back(x, i, back.ack[i]) /\ Back(x, i, back.ack[i]) <= w
      BY <3>1 DEF Exact, Keeps, lag, w
    <3>. QED
      BY <1>0, <1>1, <1>5, <1>9, <3>1, <3>2
  <2>3. i = 0 /\ ~y.didReceiveFirstPacketFromServer => lag + n = top + n
    BY DEF Exact, Keeps, lag, top
  <2>. QED
    BY <1>7, <1>8, <1>10, <2>1, <2>2, <2>3 DEF Keeps, m
<1>13. Top(z, end) - Lag(z, y, i) = top - lag
  BY <1>5, <1>7, <1>8
<1>14. HasAll(y, i, last, top - lag)
  BY DEF Exact, top, lag
<1>. QED
  BY <1>6, <1>11, <1>12, <1>13, <1>14 DEF Exact, top, lag

\* A transfer is taken from its slot, or one with what y has is put there.
LEMMA ExactSlots ==
  ASSUME NEW x, NEW y, NEW i, NEW end, NEW last, NEW slot, NEW back, NEW slot2, NEW back2,
         Exact(x, y, i, end, last, slot, back), slot2 = slot \/ slot2 = None,
         back2 = back \/ back2 = None \/ back2.ack[i] = y.lastPacketIdFrom[i],
         Consecutive(x, i), Receptive(y), i \in Consoles
  PROVE  Exact(x, y, i, end, last, slot2, back2)
<1>1. AllCarried(x, i, end, slot2)
  BY DEF Exact, AllCarried, Full
<1>2. Lag(x, y, i) \in Nat
  BY BackIs DEF Receptive, Lag
<1>3. Keeps(x, y, i, end, slot2, back2)
  <2>1. Full(slot2) => Lag(x, y, i) <= Depth(x, i, slot2)
    BY DEF Exact, Keeps, Full
  <2>2. Lag(x, y, i) <= x.inflightCount
    BY DEF Exact, Keeps
  <2>3. ASSUME back2 # None
        PROVE  Lag(x, y, i) <= Back(x, i, back2.ack[i]) /\ Back(x, i, back2.ack[i]) <= x.inflightCount
    <3>1. CASE back2 = back
      BY <2>3, <3>1 DEF Exact, Keeps
    <3>2. CASE back2 # back
      <4>1. Back(x, i, back2.ack[i]) = Lag(x, y, i)
        BY <2>3, <3>2 DEF Lag
      <4>. QED
        BY <1>2, <2>2, <4>1
    <3>. QED
      BY <3>1, <3>2
  <2>4. i = 0 /\ ~y.didReceiveFirstPacketFromServer => Lag(x, y, i) = Top(x, end)
    BY DEF Exact, Keeps
  <2>. QED
    BY <2>1, <2>2, <2>3, <2>4 DEF Keeps
<1>. QED
  BY <1>1, <1>3 DEF Exact

LEMMA ExactAlike ==
  ASSUME NEW x, NEW y, NEW i, NEW end, NEW last, NEW slot, NEW back,
         Exact(x, y, i, end, last, slot, back), NEW z, Alike(y, z)
  PROVE  Exact(x, z, i, end, last, slot, back) /\ Lag(x, z, i) = Lag(x, y, i)
<1>1. Lag(x, z, i) = Lag(x, y, i)
  BY DEF Alike, Lag
<1>2. HasAll(z, i, last, Top(x, end) - Lag(x, z, i))
  BY <1>1 DEF Exact, Alike, HasAll, Has
<1>3. Keeps(x, z, i, end, slot, back)
  BY <1>1 DEF Exact, Alike, Keeps
<1>. QED
  BY <1>1, <1>2, <1>3 DEF Exact

-----------------------------------------------------------------------------
(* Nothing is lost between two consoles: what the receiver does.           *)

LEMMA TakesArrives ==
  ASSUME NEW x, Receptive(x), NEW y, NEW c, NEW i, NEW item \in Message, NEW packetId, NEW count,
         Takes(x, y, c, i, item, packetId, count)
  PROVE  Arrives(x, y, c, i, item, packetId)
<1>1. /\ x.incoming \in Queue /\ x.newIncoming \in Queue /\ x.retransmission
      /\ Here(x) = x.incoming \o x.newIncoming /\ Here(y) = y.incoming \o y.newIncoming
      /\ y.incoming = x.incoming
  BY DEF Receptive, Takes, Here
<1>2. /\ Here(x) \in Seq(Message) /\ x.incoming \o push(x.newIncoming, item) \in Seq(Message)
      /\ \E e \in {0, 1} :
           /\ Pushes(Here(x), x.incoming \o push(x.newIncoming, item), item, Len(x.incoming), e)
           /\ ~isFull(x.newIncoming) => e = 0
  BY <1>1, HerePushes
<1>3. /\ y.lastPacketIdFrom = [x.lastPacketIdFrom EXCEPT ![i] = packetId]
      /\ y.didReceiveFirstPacketFromServer = (x.didReceiveFirstPacketFromServer \/ i = 0)
  BY <1>1 DEF Takes
<1>4. CASE item.player = c
  <2>1. y.newIncoming = x.newIncoming /\ y.overflow = x.overflow
    BY <1>4 DEF Takes
  <2>. QED
    BY <1>1, <1>2, <1>3, <1>4, <2>1 DEF Arrives
<1>5. CASE item.player # c
  <2>1. /\ y.newIncoming = push(x.newIncoming, item)
        /\ ~y.overflow => ~x.overflow /\ ~isFull(x.newIncoming)
    BY <1>5 DEF Takes
  <2>2. Here(y) = x.incoming \o push(x.newIncoming, item)
    BY <1>1, <2>1
  <2>3. Len(x.incoming) \in Nat
    BY <1>1, Lengths
  <2>4. PICK e \in {0, 1} : /\ Pushes(Here(x), Here(y), item, Len(x.incoming), e)
                            /\ ~isFull(x.newIncoming) => e = 0
    BY <1>2, <2>2
  <2>5. ~y.overflow => ~x.overflow /\ e = 0
    BY <2>1, <2>4
  <2>6. Here(y) \in Seq(Message)
    BY <1>2, <2>2
  <2>. QED
    BY <1>2, <1>3, <1>5, <2>3, <2>4, <2>5, <2>6 DEF Arrives
<1>. QED
  BY <1>4, <1>5

LEMMA ArrivesWords ==
  ASSUME NEW x, NEW y, NEW c, NEW i, NEW item, NEW packetId, Arrives(x, y, c, i, item, packetId),
         NEW p
  PROVE  /\ WordsOf(Here(y), p) \subseteq
              WordsOf(Here(x), p) \cup (IF item.player = p /\ p # c THEN {item.data} ELSE {})
         /\ ~y.overflow =>
              /\ ~x.overflow
              /\ WordsOf(Here(y), p) =
                   WordsOf(Here(x), p) \cup (IF item.player = p /\ p # c THEN {item.data} ELSE {})
<1>1. CASE item.player = c
  BY <1>1 DEF Arrives
<1>2. CASE item.player # c
  <2>1. PICK l \in Nat, e \in {0, 1} : /\ Pushes(Here(x), Here(y), item, l, e)
                                       /\ ~y.overflow => ~x.overflow /\ e = 0
    BY <1>2 DEF Arrives
  <2>2. item \in Message /\ Here(x) \in Seq(Message) /\ Here(y) \in Seq(Message)
    BY DEF Arrives
  <2>3. /\ WordsOf(Here(y), p) \subseteq
             WordsOf(Here(x), p) \cup (IF item.player = p THEN {item.data} ELSE {})
        /\ e = 0 => WordsOf(Here(y), p) =
                      WordsOf(Here(x), p) \cup (IF item.player = p THEN {item.data} ELSE {})
    BY <2>1, <2>2, PushWords
  <2>4. item.player = p => p # c
    BY <1>2
  <2>. QED
    BY <2>1, <2>3, <2>4
<1>. QED
  BY <1>1, <1>2

\* Words stay in order when the one that arrives is greater than those before.
LEMMA ArrivesInOrder ==
  ASSUME NEW x, NEW y, NEW c, NEW i, NEW item, NEW packetId, Arrives(x, y, c, i, item, packetId),
         NEW p, NEW last \in Nat, InOrder(Here(x), p, last),
         item.player = p /\ p # c => \A w \in Has(x, p, last) : w < item.data
  PROVE  InOrder(Here(y), p, last)
<1>1. CASE item.player = c
  BY <1>1 DEF Arrives
<1>2. CASE item.player # c
  <2>1. PICK l \in Nat, e \in {0, 1} : Pushes(Here(x), Here(y), item, l, e)
    BY <1>2 DEF Arrives
  <2>2. item \in Message /\ Here(x) \in Seq(Message) /\ Here(y) \in Seq(Message)
    BY DEF Arrives
  <2>3. item.data \in Nat /\ WordsOf(Here(x), p) \subseteq Nat
    BY <2>2, PlacesAre DEF Message
  <2>4. item.player = p => item.data > last /\ \A w \in WordsOf(Here(x), p) : w < item.data
    BY <1>2, <2>3 DEF Has
  <2>. QED
    BY <2>1, <2>2, <2>4, PushOrder
<1>. QED
  BY <1>1, <1>2

\* The k-th packet of a transfer that is accepted is the next one, unless it
\* is the first one at all.
LEMMA LagTakes ==
  ASSUME NEW x, NEW i \in Consoles, Counted(x, i), Consecutive(x, i), NEW slot, SlotFits(x, i, slot),
         Full(slot), NEW k \in 1 .. Len(slot.messages), NEW packetId,
         packetId = (slot.firstPacketId + k - 1) % PacketIds(i),
         NEW y, Receptive(y), Accepts(y, i, packetId),
         NEW z, z.lastPacketIdFrom = [y.lastPacketIdFrom EXCEPT ![i] = packetId]
  PROVE  /\ packetId \in 0 .. PacketIds(i) - 1 /\ k \in Nat /\ k >= 1 /\ k <= Depth(x, i, slot)
         /\ Lag(x, z, i) = Depth(x, i, slot) - k /\ Depth(x, i, slot) \in Nat
         /\ Lag(x, y, i) \in Nat
         /\ ~ (i = 0 /\ ~y.didReceiveFirstPacketFromServer) => Lag(x, y, i) = Depth(x, i, slot) - k + 1
<1>. DEFINE N == PacketIds(i)
            a == x.lastPacketId
            b == slot.firstPacketId
            l == y.lastPacketIdFrom[i]
            d == Depth(x, i, slot)
<1>1. N \in Powers /\ N \in Nat /\ a \in 0 .. N - 1 /\ b \in 0 .. N - 1 /\ l \in 0 .. N - 1
  BY IdsArePowers, SenderIs DEF Consecutive, SlotFits, Full, Receptive
<1>2. slot.messages \in Seq(Packet) /\ Len(slot.messages) <= d /\ d <= MaxInflight(i)
      /\ MaxInflight(i) \in Nat /\ 2 * MaxInflight(i) + 2 = N
  BY SenderIs DEF SlotFits, Full
<1>3. d = ((a - b) % N) + 1 /\ d \in Nat
  <2>1. d = Back(x, i, b) + 1 /\ Back(x, i, b) \in Nat
    BY <1>1, BackIs DEF Depth
  <2>. QED
    BY <2>1 DEF Back
<1>4. Len(slot.messages) \in Nat
  BY <1>2
<1>5. z.lastPacketIdFrom[i] = packetId
  BY DEF Receptive
<1>. DEFINE L == Len(slot.messages)
            M == MaxInflight(i)
<1>6. k \in 1 .. L /\ L \in Nat /\ L <= d /\ d <= M /\ M \in Nat /\ 2 * M + 2 = N
  BY <1>2, <1>4
<1>7. packetId = (b + k - 1) % N /\ Lag(x, z, i) = (a - packetId) % N /\ Lag(x, y, i) = (a - l) % N
  BY <1>5 DEF Lag, Back
<1>8. Accepts(y, i, packetId) /\ y.retransmission
  BY DEF Receptive
<1>9. Lag(x, y, i) \in Nat
  BY <1>1, BackIs DEF Lag
<1>10. ~ (i = 0 /\ ~y.didReceiveFirstPacketFromServer) => packetId = (l + 1) % N
  BY <1>8 DEF Accepts, Expected
<1>. HIDE DEF N, a, b, l, d, L, M
<1>11. k \in 1 .. d /\ k \in Nat /\ k >= 1 /\ k <= d
  BY <1>3, <1>6
<1>12. packetId \in 0 .. N - 1
  <2>1. b + k - 1 \in Int
    BY <1>1, <1>11
  <2>. QED
    BY <1>1, <1>7, <2>1, ModuloIs
<1>13. Lag(x, z, i) = d - k
  <2>1. k \in 1 .. ((a - b) % N) + 1
    BY <1>3, <1>11
  <2>2. (a - ((b + k - 1) % N)) % N = ((a - b) % N) + 1 - k
    BY <1>1, <2>1, BackOfCarried
  <2>3. Lag(x, z, i) = ((a - b) % N) + 1 - k
    BY <1>7, <2>2
  <2>4. (a - b) % N \in Int
    BY <1>1, ModuloIs
  <2>. DEFINE g == (a - b) % N
  <2>5. Lag(x, z, i) = g + 1 - k /\ d = g + 1 /\ g \in Int
    BY <1>3, <2>3, <2>4
  <2>. HIDE DEF g
  <2>. QED
    BY <2>5
<1>14. ASSUME ~ (i = 0 /\ ~y.didReceiveFirstPacketFromServer) PROVE Lag(x, y, i) = d - k + 1
  <2>1. packetId = (l + 1) % N
    BY <1>10, <1>14
  <2>2. (a - ((l + 1) % N)) % N = d - k
    BY <1>7, <1>13, <2>1
  <2>3. ((a - ((l + 1) % N)) % N) + 1 < N
    <3>1. d - k + 1 < N
      BY <1>1, <1>6, <1>3, <1>11
    <3>. QED
      BY <2>2, <3>1
  <2>4. (a - ((l + 1) % N)) % N = ((a - l) % N) - 1
    BY <1>1, <2>3, BackOfNext
  <2>5. d - k = Lag(x, y, i) - 1
    BY <1>7, <2>2, <2>4
  <2>. QED
    BY <1>3, <1>9, <1>11, <2>5
<1>. QED
  BY <1>3, <1>9, <1>11, <1>12, <1>13, <1>14 DEF N, d

LEMMA TopIs ==
  ASSUME NEW x, NEW i, Counted(x, i), Consecutive(x, i), NEW end, OwnWords(x, end), AllSent(x, i, end)
  PROVE  Top(x, end) \in Nat
<1>. DEFINE a == Len(x.outgoing)
            b == Len(x.newOutgoing)
            w == x.inflightCount
<1>1. a \in Nat /\ b \in Nat /\ w \in Nat /\ end \in Nat /\ b + a <= end
      /\ Top(x, end) = end - b - a + w
  BY SenderIs DEF OwnWords, AllSent, Top
<1>. HIDE DEF a, b, w
<1>. QED
  BY <1>1

\* What y has now, with one more word.
LEMMA HasAllTakes ==
  ASSUME NEW y, NEW z, NEW c, NEW i, NEW j, NEW item, NEW packetId,
         Arrives(y, z, c, j, item, packetId), NEW last \in Nat, NEW v \in Int, HasAll(y, i, last, v),
         item.player = i, i # c, item.data = v + 1
  PROVE  HasAll(z, i, last, v + 1) /\ v \in Nat
<1>1. /\ WordsOf(Here(z), i) \subseteq WordsOf(Here(y), i) \cup {v + 1}
      /\ ~z.overflow => ~y.overflow /\ WordsOf(Here(z), i) = WordsOf(Here(y), i) \cup {v + 1}
  BY ArrivesWords
<1>2. \A w \in {last} \cup WordsOf(Here(y), i) : w <= v
  BY DEF HasAll, Has
<1>3. Here(y) \in Seq(Message) /\ WordsOf(Here(y), i) \subseteq Nat
  BY PlacesAre DEF Arrives
<1>4. last <= v /\ v \in Nat
  <2>1. last <= v
    BY <1>2
  <2>. QED
    BY <2>1
<1>5. \A w \in {last} \cup WordsOf(Here(z), i) : w <= v + 1
  BY <1>1, <1>2, <1>3, <1>4
<1>6. ASSUME ~z.overflow PROVE WordsOf(Here(z), i) = last + 1 .. v + 1
  <2>1. WordsOf(Here(y), i) = last + 1 .. v
    BY <1>1, <1>6 DEF HasAll
  <2>2. (last + 1 .. v) \cup {v + 1} = last + 1 .. v + 1
    BY <1>4
  <2>. QED
    BY <1>1, <1>6, <2>1, <2>2
<1>. QED
  BY <1>4, <1>5, <1>6 DEF HasAll, Has

\* A message of the transfer is accepted.
LEMMA ExactTakes ==
  ASSUME NEW x, NEW i \in Consoles, Counted(x, i), Consecutive(x, i), NEW end, OwnWords(x, end),
         NEW slot, SlotFits(x, i, slot), Full(slot), NEW k \in 1 .. Len(slot.messages), NEW packetId,
         packetId = (slot.firstPacketId + k - 1) % PacketIds(i),
         NEW y, Receptive(y), Accepts(y, i, packetId), NEW last \in Nat, NEW back,
         back # None => back.ack[i] \in 0 .. PacketIds(i) - 1,
         Exact(x, y, i, end, last, slot, back), i = 0 /\ ~y.didReceiveFirstPacketFromServer => k = 1,
         NEW c, i # c, NEW z, Arrives(y, z, c, i, Item(i, slot.messages[k]), packetId)
  PROVE  /\ Exact(x, z, i, end, last, slot, back)
         /\ Item(i, slot.messages[k]).player = i
         /\ Advances(x, y, z, i, end, Item(i, slot.messages[k]).data)
<1>. DEFINE item == Item(i, slot.messages[k])
            d == Depth(x, i, slot)
            t == Top(x, end)
<1>1. /\ packetId \in 0 .. PacketIds(i) - 1 /\ k \in Nat /\ k >= 1 /\ k <= d
      /\ Lag(x, z, i) = d - k /\ d \in Nat /\ Lag(x, y, i) \in Nat
      /\ ~ (i = 0 /\ ~y.didReceiveFirstPacketFromServer) => Lag(x, y, i) = d - k + 1
  <2>1. z.lastPacketIdFrom = [y.lastPacketIdFrom EXCEPT ![i] = packetId]
    BY DEF Arrives
  <2>. QED
    BY <2>1, LagTakes
<1>2. item.player = i /\ item.data = t - d + k /\ d <= t
  <2>1. /\ i = 0 => slot.messages[k].player = 0
        /\ slot.messages[k].data = t - d + k /\ d <= t
    BY DEF Exact, AllCarried
  <2>. QED
    BY <2>1 DEF Item
<1>3. t \in Nat
  BY TopIs DEF Exact
<1>4. i = 0 /\ ~y.didReceiveFirstPacketFromServer => Lag(x, y, i) = t /\ Lag(x, y, i) <= d
  BY DEF Exact, Keeps
<1>5. /\ z.didReceiveFirstPacketFromServer = (y.didReceiveFirstPacketFromServer \/ i = 0)
      /\ Arrives(y, z, c, i, item, packetId)
  BY DEF Arrives
<1>6. HasAll(y, i, last, t - Lag(x, y, i))
  BY DEF Exact
<1>7. /\ Lag(x, y, i) <= x.inflightCount /\ Lag(x, y, i) <= d
      /\ back # None => /\ Lag(x, y, i) <= Back(x, i, back.ack[i])
                        /\ Back(x, i, back.ack[i]) <= x.inflightCount
                        /\ Back(x, i, back.ack[i]) \in Nat
  BY BackIs DEF Exact, Keeps
<1>. HIDE DEF item, d, t
<1>8. Lag(x, y, i) = d - k + 1
  <2>1. CASE i = 0 /\ ~y.didReceiveFirstPacketFromServer
    <3>1. k = 1 /\ Lag(x, y, i) = d
      BY <1>1, <1>2, <1>3, <1>4, <2>1
    <3>. QED
      BY <1>1, <3>1
  <2>. QED
    BY <1>1, <2>1
<1>. DEFINE v == t - Lag(x, y, i)
<1>9. v \in Int /\ item.data = v + 1 /\ t - Lag(x, z, i) = v + 1 /\ Lag(x, z, i) = Lag(x, y, i) - 1
  BY <1>1, <1>2, <1>3, <1>8
<1>10. HasAll(y, i, last, v)
  BY <1>6
<1>. HIDE DEF v
<1>11. HasAll(z, i, last, v + 1)
  BY <1>2, <1>5, <1>9, <1>10, HasAllTakes
<1>12. HasAll(z, i, last, t - Lag(x, z, i))
  BY <1>9, <1>11
<1>13. Keeps(x, z, i, end, slot, back)
  <2>1. x.inflightCount \in Nat
    BY SenderIs
  <2>2. /\ Lag(x, z, i) <= x.inflightCount /\ Lag(x, z, i) <= d
        /\ back # None => /\ Lag(x, z, i) <= Back(x, i, back.ack[i])
                          /\ Back(x, i, back.ack[i]) <= x.inflightCount
    BY <1>1, <1>7, <1>9, <2>1
  <2>3. ~ (i = 0 /\ ~z.didReceiveFirstPacketFromServer)
    BY <1>5
  <2>. QED
    BY <2>2, <2>3 DEF Keeps, d
<1>14. Exact(x, z, i, end, last, slot, back)
  BY <1>12, <1>13 DEF Exact, t
<1>15. Advances(x, y, z, i, end, item.data)
  <2>1. item.data = t - Lag(x, y, i) + 1
    BY <1>9 DEF v
  <2>. QED
    BY <1>9, <2>1 DEF Advances, t
<1>. QED
  BY <1>2, <1>14, <1>15 DEF item

\* A message of another console arrives.
LEMMA ExactHears ==
  ASSUME NEW x, NEW y, NEW i, NEW end, NEW last, NEW slot, NEW back,
         Exact(x, y, i, end, last, slot, back),
         NEW c, NEW j, j # 0, i # j, NEW item, item.player # i, NEW packetId,
         NEW z, Arrives(y, z, c, j, item, packetId), i \in Consoles, Receptive(y)
  PROVE  Exact(x, z, i, end, last, slot, back) /\ Lag(x, z, i) = Lag(x, y, i)
<1>1. Lag(x, z, i) = Lag(x, y, i)
  BY DEF Arrives, Receptive, Lag
<1>2. /\ WordsOf(Here(z), i) \subseteq WordsOf(Here(y), i)
      /\ ~z.overflow => ~y.overflow /\ WordsOf(Here(z), i) = WordsOf(Here(y), i)
  BY ArrivesWords
<1>3. HasAll(z, i, last, Top(x, end) - Lag(x, z, i))
  BY <1>1, <1>2 DEF Exact, HasAll, Has
<1>4. ~z.didReceiveFirstPacketFromServer => ~y.didReceiveFirstPacketFromServer
  <2>1. z.didReceiveFirstPacketFromServer = (y.didReceiveFirstPacketFromServer \/ j = 0)
    BY DEF Arrives
  <2>. QED
    BY <2>1
<1>5. Keeps(x, z, i, end, slot, back)
  BY <1>1, <1>4 DEF Exact, Keeps
<1>. QED
  BY <1>1, <1>3, <1>5 DEF Exact

-----------------------------------------------------------------------------
(* Nothing is overtaken or repeated between the server, with session x,    *)
(* and a client, with session y.                                           *)

LEMMA InLineIs ==
  ASSUME NEW x, Counted(x, 0), Consecutive(x, 0), NEW slot, SlotFits(x, 0, slot),
         NEW b, NEW p, NEW w, InLine(x, slot, b, p, w)
  PROVE  /\ b \in Int /\ p \in Nat /\ w \in Nat
         /\ x.inflightCount - Len(x.outgoing) \in Int /\ b >= x.inflightCount - Len(x.outgoing)
<1>. DEFINE a == Len(x.outgoing)
            i == x.inflightCount
<1>1. /\ a \in Nat /\ i \in Nat /\ i <= a
      /\ \A k \in 1 .. a : x.outgoing[k].data \in Nat /\ x.outgoing[k].player \in Nat
  BY SenderIs
<1>2. CASE \E k \in 1 .. a : b = i - k /\ p = x.outgoing[k].player /\ w = x.outgoing[k].data
  <2>1. PICK k \in 1 .. a : b = i - k /\ p = x.outgoing[k].player /\ w = x.outgoing[k].data
    BY <1>2
  <2>2. p \in Nat /\ w \in Nat
    BY <1>1, <2>1
  <2>. HIDE DEF a, i
  <2>3. b \in Int /\ i - a \in Int /\ b >= i - a
    BY <1>1, <2>1
  <2>. QED
    BY <2>2, <2>3 DEF a, i
<1>3. CASE /\ Full(slot)
           /\ \E k \in 1 .. Len(slot.messages) :
                /\ b = Depth(x, 0, slot) - k
                /\ p = slot.messages[k].player /\ w = slot.messages[k].data
  <2>. DEFINE d == Depth(x, 0, slot)
              l == Len(slot.messages)
  <2>1. PICK k \in 1 .. l : b = d - k /\ p = slot.messages[k].player /\ w = slot.messages[k].data
    BY <1>3
  <2>2. slot.messages \in Seq(Packet) /\ l <= d /\ slot.firstPacketId \in 0 .. PacketIds(0) - 1
    BY <1>3 DEF SlotFits, Full
  <2>3. slot.messages[k] \in Packet /\ l \in Nat
    BY <2>1, <2>2
  <2>4. p \in Nat /\ w \in Nat
    BY <2>1, <2>3 DEF Packet
  <2>5. d \in Nat
    BY <2>2, BackIs DEF Depth
  <2>. HIDE DEF a, i, d, l
  <2>6. b \in Int /\ i - a \in Int /\ b >= i - a
    BY <1>1, <2>1, <2>2, <2>3, <2>5
  <2>. QED
    BY <2>4, <2>6 DEF a, i
<1>. QED
  BY <1>2, <1>3 DEF InLine

LEMMA OrderedEmbeds ==
  ASSUME NEW x, NEW y, NEW last, NEW slot, Ordered(x, y, last, slot), NEW n \in Int,
         NEW z, NEW slot2, Embeds(x, slot, z, slot2, n),
         Lag(x, y, 0) \in Int, Lag(z, y, 0) \in Int, Lag(z, y, 0) <= Lag(x, y, 0) + n
  PROVE  Ordered(z, y, last, slot2)
<1>1. SUFFICES ASSUME NEW back, NEW p \in Consoles, NEW word, InLine(z, slot2, back, p, word)
               PROVE  /\ word > 0
                      /\ \A b, w : InLine(z, slot2, b, p, w) /\ b < back => word < w
                      /\ ~y.didReceiveFirstPacketFromServer \/ back < Lag(z, y, 0)
                           => \A w \in Has(y, p, last[p]) : w < word
  BY DEF Ordered
<1>2. back \in Int /\ InLine(x, slot, back - n, p, word)
  BY <1>1 DEF Embeds
<1>3. /\ word > 0
      /\ \A b, w : InLine(x, slot, b, p, w) /\ b < back - n => word < w
      /\ ~y.didReceiveFirstPacketFromServer \/ back - n < Lag(x, y, 0)
           => \A w \in Has(y, p, last[p]) : w < word
  BY <1>2 DEF Ordered
<1>4. ASSUME NEW b, NEW w, InLine(z, slot2, b, p, w), b < back PROVE word < w
  <2>1. b \in Int /\ InLine(x, slot, b - n, p, w)
    BY <1>4 DEF Embeds
  <2>2. b - n < back - n
    BY <1>2, <1>4, <2>1
  <2>. QED
    BY <1>3, <2>1, <2>2
<1>5. back < Lag(z, y, 0) => back - n < Lag(x, y, 0)
  BY <1>2
<1>. QED
  BY <1>3, <1>4, <1>5

LEMMA PlacedEmbeds ==
  ASSUME NEW x, NEW y, NEW slot, NEW p, NEW last, NEW v, Placed(x, y, slot, p, last, v), NEW n,
         NEW z, NEW slot2, Embeds(x, slot, z, slot2, n)
  PROVE  Placed(z, y, slot2, p, last, v)
  BY DEF Placed, Embeds

\* What is the case when no packet gets an ID.
LEMMA EmbedsSame ==
  ASSUME NEW x, Counted(x, 0), Consecutive(x, 0), NEW slot, SlotFits(x, 0, slot),
         NEW z, SameSender(x, z), NEW slot2, slot2 = slot \/ slot2 = None
  PROVE  Embeds(x, slot, z, slot2, 0) /\ \A y : Lag(z, y, 0) = Lag(x, y, 0)
<1>1. z.outgoing = x.outgoing /\ z.inflightCount = x.inflightCount /\ z.lastPacketId = x.lastPacketId
  BY DEF SameSender
<1>2. Full(slot2) => slot2 = slot /\ Depth(z, 0, slot2) = Depth(x, 0, slot)
  BY <1>1 DEF Full, Depth, Back
<1>3. \A b, p, w : InLine(z, slot2, b, p, w) => InLine(x, slot, b, p, w)
  BY <1>1, <1>2 DEF InLine
<1>4. ASSUME NEW b, NEW p, NEW w, InLine(z, slot2, b, p, w)
      PROVE  b \in Int /\ InLine(x, slot, b - 0, p, w)
  <2>1. InLine(x, slot, b, p, w)
    BY <1>3, <1>4
  <2>2. b \in Int /\ b - 0 = b
    BY <2>1, InLineIs
  <2>. QED
    BY <2>1, <2>2
<1>5. \A y : Lag(z, y, 0) = Lag(x, y, 0)
  BY <1>1 DEF Lag, Back
<1>. QED
  BY <1>4, <1>5 DEF Embeds

LEMMA EmbedsStamps ==
  ASSUME NEW x, Counted(x, 0), Consecutive(x, 0), Receptive(x), NEW slot, SlotFits(x, 0, slot),
         NEW n \in Nat, NEW z, Stamps(x, z, 0, n), Counted(z, 0), Receptive(z),
         NEW made, made = None \/ Made(z, 0, made), NEW y, Receptive(y)
  PROVE  /\ Embeds(x, slot, z, made, n)
         /\ Lag(x, y, 0) \in Int /\ Lag(z, y, 0) \in Int /\ Lag(z, y, 0) <= Lag(x, y, 0) + n
<1>. DEFINE a == Len(x.outgoing)
            i == x.inflightCount
            j == z.inflightCount
<1>0. Consecutive(z, 0)
  BY ConsecutiveStamps
<1>1. /\ a \in Nat /\ i \in Nat /\ j = i + n /\ j <= a /\ Len(z.outgoing) = a
      /\ \A k \in 1 .. a : /\ z.outgoing[k].data = x.outgoing[k].data
                           /\ z.outgoing[k].player = x.outgoing[k].player
  BY SenderIs DEF Stamps
<1>2. Full(made) => Made(z, 0, made) /\ Depth(z, 0, made) = j
  <2>1. Full(made) => Made(z, 0, made)
    BY DEF Full
  <2>. QED
    BY <1>0, <2>1, MadeFits
<1>3. ASSUME NEW b, NEW p, NEW w, InLine(z, made, b, p, w)
      PROVE  \E k \in 1 .. a : b = j - k /\ p = x.outgoing[k].player /\ w = x.outgoing[k].data
  <2>1. CASE \E k \in 1 .. Len(z.outgoing) :
               b = z.inflightCount - k /\ p = z.outgoing[k].player /\ w = z.outgoing[k].data
    <3>1. PICK k \in 1 .. Len(z.outgoing) :
                b = z.inflightCount - k /\ p = z.outgoing[k].player /\ w = z.outgoing[k].data
      BY <2>1
    <3>2. k \in 1 .. a
      BY <1>1
    <3>. QED
      BY <1>1, <3>1, <3>2
  <2>2. CASE /\ Full(made)
             /\ \E k \in 1 .. Len(made.messages) :
                  /\ b = Depth(z, 0, made) - k
                  /\ p = made.messages[k].player /\ w = made.messages[k].data
    <3>1. PICK k \in 1 .. Len(made.messages) :
                  /\ b = Depth(z, 0, made) - k
                  /\ p = made.messages[k].player /\ w = made.messages[k].data
      BY <2>2
    <3>2. /\ Len(made.messages) <= j /\ Len(made.messages) \in Nat
          /\ made.messages[k].data = z.outgoing[k].data
          /\ made.messages[k].player = z.outgoing[k].player
      BY <1>2, <2>2 DEF Made
    <3>3. k \in 1 .. a
      <4>. HIDE DEF a, j
      <4>. QED
        BY <1>1, <3>2
    <3>. QED
      BY <1>1, <1>2, <2>2, <3>1, <3>2, <3>3
  <2>. QED
    BY <1>3, <2>1, <2>2 DEF InLine
<1>4. ASSUME NEW b, NEW p, NEW w, InLine(z, made, b, p, w)
      PROVE  b \in Int /\ InLine(x, slot, b - n, p, w)
  <2>1. PICK k \in 1 .. a : b = j - k /\ p = x.outgoing[k].player /\ w = x.outgoing[k].data
    BY <1>3, <1>4
  <2>2. b \in Int /\ b - n = i - k
    <3>. HIDE DEF a, i, j
    <3>. QED
      BY <1>1, <2>1
  <2>. QED
    BY <2>1, <2>2 DEF InLine
<1>5. Embeds(x, slot, z, made, n)
  BY <1>4 DEF Embeds
<1>6. y.lastPacketIdFrom[0] \in 0 .. PacketIds(0) - 1
  BY DEF Receptive, Consoles
<1>7. Lag(x, y, 0) \in Int /\ Lag(z, y, 0) \in Int
  BY <1>0, <1>6, BackIs DEF Lag
<1>8. Lag(z, y, 0) <= Lag(x, y, 0) + n
  BY <1>6, StampsBack DEF Lag
<1>. QED
  BY <1>5, <1>7, <1>8

LEMMA EmbedsCuts ==
  ASSUME NEW x, Counted(x, 0), Consecutive(x, 0), NEW slot, SlotFits(x, 0, slot),
         NEW n \in Nat, NEW z, Cuts(x, z, 0, n), n <= x.inflightCount
  PROVE  Embeds(x, slot, z, slot, 0) /\ \A y : Lag(z, y, 0) = Lag(x, y, 0)
<1>. DEFINE a == Len(x.outgoing)
            i == x.inflightCount
            c == Len(z.outgoing)
            j == z.inflightCount
<1>1. /\ a \in Nat /\ i \in Nat /\ i <= a /\ j = i - n /\ c = a - n
      /\ z.lastPacketId = x.lastPacketId
      /\ \A k \in 1 .. a - n : z.outgoing[k] = x.outgoing[n + k]
  BY SenderIs DEF Cuts
<1>2. Depth(z, 0, slot) = Depth(x, 0, slot) /\ \A y : Lag(z, y, 0) = Lag(x, y, 0)
  BY <1>1 DEF Depth, Lag, Back
<1>3. ASSUME NEW b, NEW p, NEW w, InLine(z, slot, b, p, w) PROVE InLine(x, slot, b, p, w)
  <2>1. CASE \E k \in 1 .. c : b = j - k /\ p = z.outgoing[k].player /\ w = z.outgoing[k].data
    <3>1. PICK k \in 1 .. c : b = j - k /\ p = z.outgoing[k].player /\ w = z.outgoing[k].data
      BY <2>1
    <3>2. n + k \in 1 .. a /\ k \in 1 .. a - n /\ b = i - (n + k)
      <4>. HIDE DEF a, i, c, j
      <4>. QED
        BY <1>1, <3>1
    <3>3. z.outgoing[k] = x.outgoing[n + k]
      BY <1>1, <3>2
    <3>. QED
      BY <3>1, <3>2, <3>3 DEF InLine
  <2>2. CASE /\ Full(slot)
             /\ \E k \in 1 .. Len(slot.messages) :
                  /\ b = Depth(z, 0, slot) - k
                  /\ p = slot.messages[k].player /\ w = slot.messages[k].data
    BY <1>2, <2>2 DEF InLine
  <2>. QED
    BY <1>3, <2>1, <2>2 DEF InLine
<1>4. ASSUME NEW b, NEW p, NEW w, InLine(z, slot, b, p, w)
      PROVE  b \in Int /\ InLine(x, slot, b - 0, p, w)
  <2>1. InLine(x, slot, b, p, w)
    BY <1>3, <1>4
  <2>2. b \in Int /\ b - 0 = b
    BY <2>1, InLineIs
  <2>. QED
    BY <2>1, <2>2
<1>. QED
  BY <1>2, <1>4 DEF Embeds

LEMMA OrderedGrows ==
  ASSUME NEW x, Counted(x, 0), Consecutive(x, 0), NEW slot, SlotFits(x, 0, slot),
         NEW y, NEW last, Ordered(x, y, last, slot), NEW q, NEW v \in Nat, NEW top,
         Placed(x, y, slot, q, last[q], v), NEW z, Grows(x, slot, z, q, v, top),
         Has(y, q, last[q]) \subseteq Nat
  PROVE  Ordered(z, y, last, slot)
<1>. DEFINE e == x.inflightCount - Len(x.outgoing)
<1>0. e \in Int
  BY SenderIs
<1>1. SUFFICES ASSUME NEW back, NEW p \in Consoles, NEW word, InLine(z, slot, back, p, word)
               PROVE  /\ word > 0
                      /\ \A b, w : InLine(z, slot, b, p, w) /\ b < back => word < w
                      /\ ~y.didReceiveFirstPacketFromServer \/ back < Lag(z, y, 0)
                           => \A w \in Has(y, p, last[p]) : w < word
  BY DEF Ordered
<1>2. Lag(z, y, 0) = Lag(x, y, 0)
  BY DEF Grows
<1>3. CASE InLine(x, slot, back, p, word)
  <2>1. /\ word > 0
        /\ \A b, w : InLine(x, slot, b, p, w) /\ b < back => word < w
        /\ ~y.didReceiveFirstPacketFromServer \/ back < Lag(x, y, 0)
             => \A w \in Has(y, p, last[p]) : w < word
    BY <1>3 DEF Ordered
  <2>2. ASSUME NEW b, NEW w, InLine(z, slot, b, p, w), b < back PROVE word < w
    <3>1. CASE InLine(x, slot, b, p, w)
      BY <2>1, <2>2, <3>1
    <3>2. CASE p = q /\ Joined(x, b, v, w, top)
      <4>1. word <= v /\ word \in Nat
        BY <1>3, <3>2, InLineIs DEF Placed
      <4>2. w > v /\ w \in Nat
        BY <3>2 DEF Joined
      <4>. QED
        BY <4>1, <4>2
    <3>. QED
      BY <2>2, <3>1, <3>2 DEF Grows
  <2>. QED
    BY <1>2, <2>1, <2>2
<1>4. CASE p = q /\ Joined(x, back, v, word, top)
  <2>1. back \in Int /\ word \in Nat /\ word > v /\ back + word = e + v
    BY <1>4 DEF Joined
  <2>2. back < e
    <3>. HIDE DEF e
    <3>. QED
      BY <1>0, <2>1
  <2>3. ASSUME NEW b, NEW w, InLine(z, slot, b, p, w), b < back PROVE word < w
    <3>1. CASE InLine(x, slot, b, p, w)
      <4>1. b \in Int /\ b >= e
        BY <3>1, InLineIs
      <4>. HIDE DEF e
      <4>. QED
        BY <1>0, <2>1, <2>2, <2>3, <4>1
    <3>2. CASE p = q /\ Joined(x, b, v, w, top)
      <4>1. b \in Int /\ w \in Nat /\ b + w = e + v
        BY <3>2 DEF Joined
      <4>. HIDE DEF e
      <4>. QED
        BY <1>0, <2>1, <2>3, <4>1
    <3>. QED
      BY <2>3, <3>1, <3>2 DEF Grows
  <2>4. \A w \in Has(y, p, last[p]) : w < word
    <3>1. \A w \in Has(y, p, last[p]) : w <= v /\ w \in Nat
      BY <1>4 DEF Placed
    <3>. QED
      BY <2>1, <3>1
  <2>5. word > 0
    BY <2>1
  <2>. QED
    BY <2>3, <2>4, <2>5
<1>. QED
  BY <1>1, <1>3, <1>4 DEF Grows

LEMMA PlacedGrows ==
  ASSUME NEW x, NEW slot, NEW y, NEW p, NEW last, NEW v \in Int, Placed(x, y, slot, p, last, v),
         NEW q, NEW u, NEW top \in Int, NEW z, Grows(x, slot, z, q, u, top),
         Counted(x, 0), Consecutive(x, 0), SlotFits(x, 0, slot), Has(y, p, last) \subseteq Nat,
         NEW next \in Int, v <= next, p = q => top <= next
  PROVE  Placed(z, y, slot, p, last, next)
<1>1. ASSUME NEW b, NEW w, InLine(z, slot, b, p, w) PROVE w <= next
  <2>1. CASE InLine(x, slot, b, p, w)
    <3>1. w <= v /\ w \in Nat
      BY <2>1, InLineIs DEF Placed
    <3>. QED
      BY <3>1
  <2>2. CASE p = q /\ Joined(x, b, u, w, top)
    BY <2>2 DEF Joined
  <2>. QED
    BY <1>1, <2>1, <2>2 DEF Grows
<1>2. \A w \in Has(y, p, last) : w <= next
  BY DEF Placed
<1>. QED
  BY <1>1, <1>2 DEF Placed

\* The program's own words join the line.
LEMMA GrowsFlows ==
  ASSUME NEW x, Counted(x, 0), Consecutive(x, 0), NEW slot, NEW end, OwnWords(x, end),
         NEW z, Flows(x, z)
  PROVE  /\ Grows(x, slot, z, 0, end - Len(x.newOutgoing), end - Len(z.newOutgoing))
         /\ end - Len(x.newOutgoing) \in Nat /\ end - Len(z.newOutgoing) \in Nat
         /\ end - Len(x.newOutgoing) <= end - Len(z.newOutgoing)
<1>1. PICK n \in Nat : Moves(x.newOutgoing, x.outgoing, n, z.newOutgoing, z.outgoing)
  BY DEF Flows
<1>. DEFINE a == Len(x.outgoing)
            b == Len(x.newOutgoing)
            c == Len(z.outgoing)
            d == Len(z.newOutgoing)
            i == x.inflightCount
            v == end - b
            top == end - d
<1>2. /\ a \in Nat /\ b \in Nat /\ n <= b /\ b <= end /\ c = a + n /\ d = b - n
      /\ z.inflightCount = i /\ i \in Nat /\ end \in Nat /\ z.lastPacketId = x.lastPacketId
  BY <1>1, SenderIs DEF Moves, Flows, OwnWords
<1>3. /\ \A k \in 1 .. a : z.outgoing[k] = x.outgoing[k]
      /\ \A k \in 1 .. n : z.outgoing[a + k] = x.newOutgoing[k]
      /\ \A k \in 1 .. b : x.newOutgoing[k].data = end - b + k /\ x.newOutgoing[k].player = 0
  BY <1>1 DEF Moves, OwnWords, Counted
<1>4. Depth(z, 0, slot) = Depth(x, 0, slot) /\ \A y : Lag(z, y, 0) = Lag(x, y, 0)
  BY <1>2 DEF Depth, Lag, Back
<1>5. v \in Nat /\ top \in Nat /\ v <= top
  <2>. HIDE DEF a, b, c, d, i
  <2>. QED
    BY <1>2
<1>6. ASSUME NEW back, NEW p, NEW w, NEW k \in 1 .. c,
             back = i - k, p = z.outgoing[k].player, w = z.outgoing[k].data
      PROVE  InLine(x, slot, back, p, w) \/ (p = 0 /\ Joined(x, back, v, w, top))
  <2>1. CASE k <= a
    <3>1. k \in 1 .. a
      <4>. HIDE DEF a, b, c, d, i
      <4>. QED
        BY <1>2, <2>1
    <3>. QED
      BY <1>3, <1>6, <3>1 DEF InLine
  <2>2. CASE ~ (k <= a)
    <3>. DEFINE j == k - a
    <3>1. j \in 1 .. n /\ j \in 1 .. b /\ a + j = k
      <4>. HIDE DEF a, b, c, d, i
      <4>. QED
        BY <1>2, <2>2
    <3>2. back = i - (a + j)
      BY <1>6, <3>1
    <3>. HIDE DEF j
    <3>3. z.outgoing[k] = x.newOutgoing[j]
      BY <1>3, <3>1
    <3>4. p = 0 /\ w = v + j
      BY <1>3, <1>6, <3>1, <3>3
    <3>5. back \in Int /\ w \in Nat /\ w > v /\ w <= top /\ back + w = i - a + v
      <4>. HIDE DEF a, b, c, d, i
      <4>. QED
        BY <1>2, <1>5, <3>1, <3>2, <3>4
    <3>. QED
      BY <3>4, <3>5 DEF Joined
  <2>. QED
    BY <2>1, <2>2
<1>7. ASSUME NEW back, NEW p, NEW w, InLine(z, slot, back, p, w)
      PROVE  InLine(x, slot, back, p, w) \/ (p = 0 /\ Joined(x, back, v, w, top))
  <2>1. CASE \E k \in 1 .. c : back = i - k /\ p = z.outgoing[k].player /\ w = z.outgoing[k].data
    <3>1. PICK k \in 1 .. c : back = i - k /\ p = z.outgoing[k].player /\ w = z.outgoing[k].data
      BY <2>1
    <3>. QED
      BY <1>6, <3>1
  <2>2. CASE /\ Full(slot)
             /\ \E k \in 1 .. Len(slot.messages) :
                  /\ back = Depth(z, 0, slot) - k
                  /\ p = slot.messages[k].player /\ w = slot.messages[k].data
    BY <1>4, <2>2 DEF InLine
  <2>. QED
    BY <1>2, <1>7, <2>1, <2>2 DEF InLine
<1>. QED
  BY <1>4, <1>5, <1>7 DEF Grows

\* A client's word does.
LEMMA GrowsForwards ==
  ASSUME NEW x, Counted(x, 0), Consecutive(x, 0), NEW slot, NEW item \in Message, item.data > 0,
         NEW z, Forwards(x, z, item)
  PROVE  Grows(x, slot, z, item.player, item.data - 1, item.data)
<1>. DEFINE a == Len(x.outgoing)
            i == x.inflightCount
            v == item.data - 1
<1>1. /\ a \in Nat /\ i \in Nat /\ x.outgoing \in Seq(Message)
      /\ z.outgoing = Append(x.outgoing, item) /\ z.inflightCount = i
      /\ z.lastPacketId = x.lastPacketId
  BY SenderIs DEF Forwards
<1>2. /\ Len(z.outgoing) = a + 1 /\ z.outgoing[a + 1] = item
      /\ \A k \in 1 .. a : z.outgoing[k] = x.outgoing[k]
  BY <1>1
<1>3. item.data \in Nat /\ v \in Nat /\ v < item.data
  BY DEF Message
<1>4. Depth(z, 0, slot) = Depth(x, 0, slot) /\ \A y : Lag(z, y, 0) = Lag(x, y, 0)
  BY <1>1 DEF Depth, Lag, Back
<1>5. ASSUME NEW back, NEW p, NEW w, InLine(z, slot, back, p, w)
      PROVE  InLine(x, slot, back, p, w) \/ (p = item.player /\ Joined(x, back, v, w, item.data))
  <2>1. CASE \E k \in 1 .. Len(z.outgoing) :
               back = i - k /\ p = z.outgoing[k].player /\ w = z.outgoing[k].data
    <3>1. PICK k \in 1 .. Len(z.outgoing) :
               back = i - k /\ p = z.outgoing[k].player /\ w = z.outgoing[k].data
      BY <2>1
    <3>2. CASE k = a + 1
      <4>1. p = item.player /\ w = item.data /\ back = i - (a + 1)
        BY <1>2, <3>1, <3>2
      <4>2. back \in Int /\ back + w = i - a + v
        <5>1. back = i - (a + 1) /\ w = item.data /\ item.data \in Nat /\ v = item.data - 1
          BY <1>3, <4>1
        <5>. DEFINE g == item.data
        <5>. HIDE DEF a, i, v, g
        <5>. QED
          BY <1>1, <5>1 DEF g
      <4>3. Joined(x, back, v, w, item.data)
        BY <1>3, <4>1, <4>2 DEF Joined
      <4>. QED
        BY <4>1, <4>3
    <3>3. CASE k # a + 1
      <4>1. k \in 1 .. a
        <5>1. k \in 1 .. a + 1
          BY <1>2
        <5>. HIDE DEF a, i
        <5>. QED
          BY <1>1, <3>3, <5>1
      <4>. QED
        BY <1>2, <3>1, <4>1 DEF InLine
    <3>. QED
      BY <3>2, <3>3
  <2>2. CASE /\ Full(slot)
             /\ \E k \in 1 .. Len(slot.messages) :
                  /\ back = Depth(z, 0, slot) - k
                  /\ p = slot.messages[k].player /\ w = slot.messages[k].data
    BY <1>4, <2>2 DEF InLine
  <2>. QED
    BY <1>1, <1>5, <2>1, <2>2 DEF InLine
<1>. QED
  BY <1>4, <1>5 DEF Grows

\* What it takes to be ordered when the client's session changes.
LEMMA OrderedHas ==
  ASSUME NEW x, NEW y, NEW last, NEW slot, Ordered(x, y, last, slot), NEW z, NEW next,
         \A p \in Consoles : Has(z, p, next[p]) \subseteq Has(y, p, last[p]),
         z.lastPacketIdFrom = y.lastPacketIdFrom,
         z.didReceiveFirstPacketFromServer = y.didReceiveFirstPacketFromServer
  PROVE  Ordered(x, z, next, slot)
<1>1. Lag(x, z, 0) = Lag(x, y, 0)
  BY DEF Lag
<1>. QED
  BY <1>1 DEF Ordered

LEMMA PlacedHas ==
  ASSUME NEW x, NEW y, NEW slot, NEW p, NEW last, NEW v, Placed(x, y, slot, p, last, v),
         NEW z, NEW next, Has(z, p, next) \subseteq Has(y, p, last)
  PROVE  Placed(x, z, slot, p, next, v)
  BY DEF Placed

\* The client accepts the k-th message of the transfer for it.
LEMMA OrderedTakes ==
  ASSUME NEW x, Counted(x, 0), Consecutive(x, 0), NEW slot, SlotFits(x, 0, slot), Full(slot),
         NEW k \in 1 .. Len(slot.messages), NEW packetId,
         packetId = (slot.firstPacketId + k - 1) % PacketIds(0),
         NEW y, Receptive(y), Accepts(y, 0, packetId), NEW last, Ordered(x, y, last, slot),
         NEW c, NEW z, NEW item, item = Item(0, slot.messages[k]),
         Arrives(y, z, c, 0, item, packetId)
  PROVE  /\ Ordered(x, z, last, slot)
         /\ item.player \in Consoles =>
              \A w \in Has(y, item.player, last[item.player]) : w < item.data
         /\ \E b : InLine(x, slot, b, item.player, item.data)
<1>. DEFINE d == Depth(x, 0, slot)
            q == item.player
            u == item.data
<1>1. q = slot.messages[k].player /\ u = slot.messages[k].data
  BY DEF Item
<1>2. InLine(x, slot, d - k, q, u)
  BY <1>1 DEF InLine
<1>3. /\ Lag(x, z, 0) = d - k /\ d \in Nat /\ k \in Nat /\ Lag(x, y, 0) \in Nat
      /\ y.didReceiveFirstPacketFromServer => Lag(x, y, 0) = d - k + 1
  <2>1. z.lastPacketIdFrom = [y.lastPacketIdFrom EXCEPT ![0] = packetId] /\ 0 \in Consoles
    BY DEF Arrives, Consoles
  <2>. QED
    BY <2>1, LagTakes
<1>4. q \in Consoles => \A w \in Has(y, q, last[q]) : w < u
  <2>1. y.didReceiveFirstPacketFromServer => d - k < Lag(x, y, 0)
    BY <1>3
  <2>. HIDE DEF d, q, u
  <2>. QED
    BY <1>2, <2>1 DEF Ordered
<1>5. \A p : Has(z, p, last[p]) \subseteq Has(y, p, last[p]) \cup (IF q = p THEN {u} ELSE {})
  BY ArrivesWords DEF Has
<1>. HIDE DEF d, q, u
<1>6. ASSUME NEW back, NEW p \in Consoles, NEW word, InLine(x, slot, back, p, word)
      PROVE  /\ word > 0
             /\ \A b, w : InLine(x, slot, b, p, w) /\ b < back => word < w
             /\ ~z.didReceiveFirstPacketFromServer \/ back < Lag(x, z, 0)
                  => \A w \in Has(z, p, last[p]) : w < word
  <2>1. /\ word > 0
        /\ \A b, w : InLine(x, slot, b, p, w) /\ b < back => word < w
        /\ ~y.didReceiveFirstPacketFromServer \/ back < Lag(x, y, 0)
             => \A w \in Has(y, p, last[p]) : w < word
    BY <1>6 DEF Ordered
  <2>2. z.didReceiveFirstPacketFromServer
    BY DEF Arrives
  <2>3. ASSUME back < Lag(x, z, 0), NEW w \in Has(z, p, last[p]) PROVE w < word
    <3>1. back < d - k /\ back \in Int
      BY <1>3, <1>6, <2>3, InLineIs
    <3>2. CASE w \in Has(y, p, last[p])
      <4>1. y.didReceiveFirstPacketFromServer => back < Lag(x, y, 0)
        BY <1>3, <3>1
      <4>. QED
        BY <2>1, <3>2, <4>1
    <3>3. CASE q = p /\ w = u
      <4>1. InLine(x, slot, d - k, p, u)
        BY <1>2, <3>3
      <4>. QED
        BY <1>6, <3>1, <3>3, <4>1 DEF Ordered
    <3>. QED
      BY <1>5, <2>3, <3>2, <3>3
  <2>. QED
    BY <2>1, <2>2, <2>3
<1>7. Ordered(x, z, last, slot)
  BY <1>6 DEF Ordered
<1>. QED
  BY <1>2, <1>4, <1>7 DEF q, u

LEMMA PlacedTakes ==
  ASSUME NEW x, NEW slot, NEW y, NEW p, NEW last, NEW v, Placed(x, y, slot, p, last, v),
         NEW c, NEW i, NEW packetId, NEW item, \E b : InLine(x, slot, b, item.player, item.data),
         NEW z, Arrives(y, z, c, i, item, packetId)
  PROVE  Placed(x, z, slot, p, last, v)
<1>1. Has(z, p, last) \subseteq Has(y, p, last) \cup (IF item.player = p THEN {item.data} ELSE {})
  BY ArrivesWords DEF Has
<1>2. item.player = p => item.data <= v
  BY DEF Placed
<1>. QED
  BY <1>1, <1>2 DEF Placed

-----------------------------------------------------------------------------
(* A console's own session, and what is between it and the server.         *)

LEMMA SoundIs ==
  ASSUME NEW x, NEW c \in Consoles, Sound(x, c)
  PROVE  /\ Counted(x, c) /\ Consecutive(x, c) /\ OwnWords(x, sent[c]) /\ Receptive(x)
         /\ \A p \in Consoles : got[c][p] \in Nat /\ InOrder(Here(x), p, got[c][p])
         /\ \A p \in Consoles : Has(x, p, got[c][p]) \subseteq Nat
<1>1. Here(x) \in Seq(Message)
  <2>1. x.incoming \in Seq(Message) /\ x.newIncoming \in Seq(Message)
    BY Lengths DEF Sound, Receptive
  <2>. QED
    BY <2>1 DEF Here
<1>2. \A p \in Consoles : got[c][p] \in Nat
  BY DEF Sound
<1>3. \A p \in Consoles : Has(x, p, got[c][p]) \subseteq Nat
  BY <1>1, <1>2, PlacesAre DEF Has
<1>. QED
  BY <1>2, <1>3 DEF Sound

LEMMA BetweenIs ==
  ASSUME NEW y, NEW x, NEW p \in Clients, NEW u, NEW d, NEW v, Between(y, x, p, u, d, v)
  PROVE  /\ SlotFits(x, p, u) /\ SlotFits(y, 0, d)
         /\ Exact(x, y, p, sent[p], got[0][p], u, d)
         /\ Single(p) => Exact(y, x, 0, sent[0], got[p][0], d, u)
         /\ Ordered(y, x, got[p], d)
         /\ \A q \in Consoles : Placed(y, x, d, q, got[p][q], v[q])
         /\ u # None => u.ack[0] \in 0 .. PacketIds(0) - 1
         /\ d # None => d.ack[p] \in 0 .. PacketIds(p) - 1
         /\ p \in Consoles /\ 0 \in Consoles /\ p # 0
<1>1. p \in Consoles /\ 0 \in Consoles /\ p # 0
  BY Players DEF Consoles
<1>2. /\ u # None => u.ack[0] \in 0 .. PacketIds(0) - 1
      /\ d # None => d.ack[p] \in 0 .. PacketIds(p) - 1
  BY <1>1 DEF Between, SlotFits
<1>. QED
  BY <1>1, <1>2 DEF Between

LEMMA AlikeSame ==
  ASSUME NEW x, Receptive(x), NEW z, SameReceiver(x, z), z.lastAckFrom = x.lastAckFrom
  PROVE  Receptive(z) /\ Alike(x, z)
  BY DEF Receptive, SameReceiver, Alike, Here

LEMMA SoundAlike ==
  ASSUME NEW x, NEW c \in Consoles, Sound(x, c), NEW z, Alike(x, z), Receptive(z),
         Counted(z, c), Consecutive(z, c), OwnWords(z, sent[c])
  PROVE  Sound(z, c)
  BY DEF Sound, Alike

LEMMA SoundSame ==
  ASSUME NEW x, NEW c \in Consoles, Sound(x, c), NEW z, SameSender(x, z), Alike(x, z), Receptive(z)
  PROVE  Sound(z, c)
<1>1. Counted(z, c) /\ Consecutive(z, c)
  BY SoundIs, CountedSame, ConsecutiveSame
<1>2. OwnWords(z, sent[c])
  BY SoundIs DEF SameSender, OwnWords
<1>. QED
  BY <1>1, <1>2, SoundAlike

LEMMA SoundFlows ==
  ASSUME NEW x, NEW c \in Consoles, Sound(x, c), NEW z, Flows(x, z), Sending(z)
  PROVE  Sound(z, c)
<1>1. Counted(z, c) /\ Consecutive(z, c)
  BY SoundIs, CountedFlows, ConsecutiveFlows
<1>2. OwnWords(z, sent[c])
  BY SoundIs, AllSentFlows
<1>3. Receptive(z) /\ Alike(x, z)
  BY SoundIs, AlikeSame DEF Flows
<1>. QED
  BY <1>1, <1>2, <1>3, SoundAlike

LEMMA SoundStamps ==
  ASSUME NEW x, NEW c \in Consoles, Sound(x, c), NEW n \in Nat, NEW z, Stamps(x, z, c, n), Sending(z)
  PROVE  Sound(z, c)
<1>1. Counted(z, c) /\ Consecutive(z, c)
  BY SoundIs, CountedStamps, ConsecutiveStamps
<1>2. OwnWords(z, sent[c])
  BY SoundIs DEF Stamps, OwnWords
<1>3. Receptive(z) /\ Alike(x, z)
  BY SoundIs, AlikeSame DEF Stamps
<1>. QED
  BY <1>1, <1>2, <1>3, SoundAlike

LEMMA SoundCuts ==
  ASSUME NEW x, NEW c \in Consoles, Sound(x, c), NEW n \in Nat, n <= x.inflightCount,
         NEW z, Cuts(x, z, c, n), Sending(z)
  PROVE  Sound(z, c)
<1>1. Counted(z, c) /\ Consecutive(z, c)
  BY SoundIs, CountedCuts, ConsecutiveCuts
<1>2. OwnWords(z, sent[c])
  <2>1. z.newOutgoing = x.newOutgoing
    BY DEF Cuts
  <2>2. OwnWords(x, sent[c])
    BY SoundIs
  <2>. QED
    BY <2>1, <2>2 DEF OwnWords
<1>3. Receptive(z) /\ Alike(x, z)
  BY SoundIs, AlikeSame DEF Cuts
<1>. QED
  BY <1>1, <1>2, <1>3, SoundAlike

-----------------------------------------------------------------------------
(* What is between them after a step of the client.                        *)

LEMMA ClientSame ==
  ASSUME NEW y, Sound(y, 0), NEW p \in Clients, NEW x, Sound(x, p), NEW u, NEW d, NEW v,
         Between(y, x, p, u, d, v), NEW z, SameSender(x, z), Alike(x, z), Receptive(z),
         NEW u2, u2 = u \/ u2 = None, NEW d2, d2 = d \/ d2 = None
  PROVE  /\ Between(y, z, p, u2, d2, v)
         /\ Top(z, sent[p]) - Lag(z, y, p) = Top(x, sent[p]) - Lag(x, y, p)
<1>1. /\ Counted(x, p) /\ Consecutive(x, p) /\ Receptive(x) /\ p \in Consoles /\ 0 \in Consoles
      /\ Counted(y, 0) /\ Consecutive(y, 0) /\ Receptive(y)
  BY BetweenIs, SoundIs
<1>2. /\ z.lastPacketId = x.lastPacketId /\ z.outgoing = x.outgoing
      /\ z.newOutgoing = x.newOutgoing /\ z.inflightCount = x.inflightCount
  BY DEF SameSender
<1>3. SlotFits(z, p, u2) /\ SlotFits(y, 0, d2)
  BY <1>2, BetweenIs, SlotFitsSame
<1>4. Exact(z, y, p, sent[p], got[0][p], u2, d2)
  <2>1. Exact(z, y, p, sent[p], got[0][p], u, d)
    BY BetweenIs, ExactSame
  <2>2. Consecutive(z, p)
    BY <1>1, ConsecutiveSame
  <2>. QED
    BY <1>1, <2>1, <2>2, ExactSlots
<1>5. Single(p) => Exact(y, z, 0, sent[0], got[p][0], d2, u2)
  <2>1. SUFFICES ASSUME Single(p) PROVE Exact(y, z, 0, sent[0], got[p][0], d2, u2)
    OBVIOUS
  <2>2. Exact(y, z, 0, sent[0], got[p][0], d, u)
    BY <2>1, BetweenIs, ExactAlike
  <2>. QED
    BY <1>1, <2>2, ExactSlots
<1>6. \A q \in Consoles : Has(z, q, got[p][q]) = Has(x, q, got[p][q])
  BY DEF Alike, Has
<1>7. Ordered(y, z, got[p], d2) /\ \A q \in Consoles : Placed(y, z, d2, q, got[p][q], v[q])
  <2>1. Ordered(y, z, got[p], d)
    BY <1>6, BetweenIs, OrderedHas DEF Alike
  <2>2. \A q \in Consoles : Placed(y, z, d, q, got[p][q], v[q])
    BY <1>6, BetweenIs, PlacedHas
  <2>3. SameSender(y, y)
    BY <1>1 DEF SameSender, Receptive
  <2>4. Embeds(y, d, y, d2, 0)
    BY <1>1, <2>3, BetweenIs, EmbedsSame
  <2>5. Lag(y, z, 0) \in Int /\ Lag(y, z, 0) <= Lag(y, z, 0) + 0
    <3>1. Lag(y, z, 0) \in Nat
      BY <1>1, BackIs DEF Lag, Receptive
    <3>. QED
      BY <3>1
  <2>6. Ordered(y, z, got[p], d2)
    BY <2>1, <2>4, <2>5, OrderedEmbeds
  <2>. QED
    BY <2>2, <2>4, <2>6, PlacedEmbeds
<1>8. Top(z, sent[p]) - Lag(z, y, p) = Top(x, sent[p]) - Lag(x, y, p)
  <2>1. Top(z, sent[p]) = Top(x, sent[p]) /\ Lag(z, y, p) = Lag(x, y, p)
    BY <1>2 DEF Top, Lag, Back
  <2>. QED
    BY <2>1
<1>. QED
  BY <1>3, <1>4, <1>5, <1>7, <1>8 DEF Between

LEMMA ClientFlows ==
  ASSUME NEW y, Sound(y, 0), NEW p \in Clients, NEW x, Sound(x, p), NEW u, NEW d, NEW v,
         Between(y, x, p, u, d, v), NEW z, Flows(x, z)
  PROVE  /\ Between(y, z, p, u, d, v)
         /\ Top(z, sent[p]) - Lag(z, y, p) = Top(x, sent[p]) - Lag(x, y, p)
<1>1. /\ Counted(x, p) /\ Consecutive(x, p) /\ Receptive(x) /\ p \in Consoles /\ 0 \in Consoles
      /\ OwnWords(x, sent[p])
  BY BetweenIs, SoundIs
<1>2. Alike(x, z) /\ z.lastPacketId = x.lastPacketId
  BY <1>1, AlikeSame DEF Flows
<1>3. SlotFits(z, p, u) /\ SlotFits(y, 0, d)
  BY <1>2, BetweenIs, SlotFitsSame
<1>4. Exact(z, y, p, sent[p], got[0][p], u, d)
  BY <1>1, BetweenIs, ExactFlows
<1>5. Single(p) => Exact(y, z, 0, sent[0], got[p][0], d, u)
  BY <1>2, BetweenIs, ExactAlike
<1>6. \A q \in Consoles : Has(z, q, got[p][q]) = Has(x, q, got[p][q])
  BY <1>2 DEF Alike, Has
<1>7. Ordered(y, z, got[p], d) /\ \A q \in Consoles : Placed(y, z, d, q, got[p][q], v[q])
  <2>1. Ordered(y, z, got[p], d)
    BY <1>2, <1>6, BetweenIs, OrderedHas DEF Alike
  <2>. QED
    BY <1>6, <2>1, BetweenIs, PlacedHas
<1>8. Top(z, sent[p]) - Lag(z, y, p) = Top(x, sent[p]) - Lag(x, y, p)
  <2>1. AllSent(x, p, sent[p])
    BY BetweenIs DEF Exact
  <2>2. Top(z, sent[p]) = Top(x, sent[p]) /\ Lag(z, y, p) = Lag(x, y, p)
    BY <1>1, <1>2, <2>1, AllSentFlows DEF Lag, Back
  <2>. QED
    BY <2>2
<1>. QED
  BY <1>3, <1>4, <1>5, <1>7, <1>8 DEF Between

\* The client's new transfer says what the client has, and up to where.
LEMMA ClientStamps ==
  ASSUME NEW y, Sound(y, 0), NEW p \in Clients, NEW x, Sound(x, p), NEW u, NEW d, NEW v,
         Between(y, x, p, u, d, v), NEW n \in Nat, NEW z, Stamps(x, z, p, n), Sound(z, p),
         NEW made, Made(z, p, made)
  PROVE  /\ Between(y, z, p, made, d, v)
         /\ Top(z, sent[p]) - Lag(z, y, p) = Top(x, sent[p]) - Lag(x, y, p)
<1>1. /\ Counted(x, p) /\ Consecutive(x, p) /\ Receptive(x) /\ p \in Consoles /\ 0 \in Consoles
      /\ OwnWords(x, sent[p]) /\ Counted(z, p) /\ Consecutive(z, p) /\ Receptive(z)
      /\ Counted(y, 0) /\ Consecutive(y, 0) /\ Receptive(y)
  BY BetweenIs, SoundIs
<1>2. Alike(x, z)
  BY <1>1, AlikeSame DEF Stamps
<1>3. SlotFits(z, p, made) /\ SlotFits(y, 0, d)
  BY <1>1, BetweenIs, MadeFits
<1>4. /\ Exact(z, y, p, sent[p], got[0][p], made, d)
      /\ Top(z, sent[p]) - Lag(z, y, p) = Top(x, sent[p]) - Lag(x, y, p)
  <2>1. Exact(x, y, p, sent[p], got[0][p], u, d) /\ (d # None => d.ack[p] \in 0 .. PacketIds(p) - 1)
    BY BetweenIs
  <2>. QED
    BY <1>1, <2>1, ExactStamps
<1>5. Single(p) => Exact(y, z, 0, sent[0], got[p][0], d, made)
  <2>1. SUFFICES ASSUME Single(p) PROVE Exact(y, z, 0, sent[0], got[p][0], d, made)
    OBVIOUS
  <2>2. Exact(y, z, 0, sent[0], got[p][0], d, u)
    BY <1>2, <2>1, BetweenIs, ExactAlike
  <2>3. made.ack[0] = z.lastPacketIdFrom[0]
    BY DEF Made
  <2>. QED
    BY <1>1, <2>2, <2>3, ExactSlots
<1>6. \A q \in Consoles : Has(z, q, got[p][q]) = Has(x, q, got[p][q])
  BY <1>2 DEF Alike, Has
<1>7. Ordered(y, z, got[p], d) /\ \A q \in Consoles : Placed(y, z, d, q, got[p][q], v[q])
  <2>1. Ordered(y, z, got[p], d)
    BY <1>2, <1>6, BetweenIs, OrderedHas DEF Alike
  <2>. QED
    BY <1>6, <2>1, BetweenIs, PlacedHas
<1>. QED
  BY <1>3, <1>4, <1>5, <1>7 DEF Between

\* The messages that the server confirms in its transfer leave.
LEMMA ClientCuts ==
  ASSUME NEW y, Sound(y, 0), NEW p \in Clients, NEW x, Sound(x, p), NEW u, NEW d, NEW v,
         Between(y, x, p, u, d, v), d # None, NEW n \in Nat, NEW z, Confirms(x, z, p, d.ack[p], n)
  PROVE  /\ Between(y, z, p, u, d, v)
         /\ Top(z, sent[p]) - Lag(z, y, p) = Top(x, sent[p]) - Lag(x, y, p)
<1>1. /\ Counted(x, p) /\ Consecutive(x, p) /\ Receptive(x) /\ p \in Consoles /\ 0 \in Consoles
      /\ OwnWords(x, sent[p]) /\ Receptive(y)
  BY BetweenIs, SoundIs
<1>2. Cuts(x, z, p, n) /\ n <= x.inflightCount
  BY DEF Confirms
<1>3. Alike(x, z) /\ z.lastPacketId = x.lastPacketId
  BY <1>1, <1>2, AlikeSame DEF Cuts
<1>4. SlotFits(z, p, u) /\ SlotFits(y, 0, d)
  BY <1>3, BetweenIs, SlotFitsSame
<1>5. Exact(x, y, p, sent[p], got[0][p], u, d) /\ d.ack[p] \in 0 .. PacketIds(p) - 1
  BY BetweenIs
<1>6. Exact(z, y, p, sent[p], got[0][p], u, d)
  BY <1>1, <1>5, ExactCuts
<1>7. Single(p) => Exact(y, z, 0, sent[0], got[p][0], d, u)
  BY <1>3, BetweenIs, ExactAlike
<1>8. \A q \in Consoles : Has(z, q, got[p][q]) = Has(x, q, got[p][q])
  BY <1>3 DEF Alike, Has
<1>9. Ordered(y, z, got[p], d) /\ \A q \in Consoles : Placed(y, z, d, q, got[p][q], v[q])
  <2>1. Ordered(y, z, got[p], d)
    BY <1>3, <1>8, BetweenIs, OrderedHas DEF Alike
  <2>. QED
    BY <1>8, <2>1, BetweenIs, PlacedHas
<1>10. Top(z, sent[p]) - Lag(z, y, p) = Top(x, sent[p]) - Lag(x, y, p)
  <2>. DEFINE a == Len(x.outgoing)
              b == Len(x.newOutgoing)
              i == x.inflightCount
              e == sent[p]
  <2>1. /\ a \in Nat /\ b \in Nat /\ i \in Nat /\ Len(z.outgoing) = a - n /\ z.newOutgoing = x.newOutgoing
        /\ z.inflightCount = i - n
    BY <1>1, <1>2, SenderIs DEF Cuts
  <2>2. e \in Nat
    BY <1>1 DEF OwnWords
  <2>3. Top(z, e) = e - b - (a - n) + (i - n) /\ Top(x, e) = e - b - a + i
    BY <2>1 DEF Top
  <2>. HIDE DEF a, b, i, e
  <2>4. Top(z, e) = Top(x, e)
    BY <2>1, <2>2, <2>3
  <2>5. Lag(z, y, p) = Lag(x, y, p)
    BY <1>3 DEF Lag, Back
  <2>. QED
    BY <2>4, <2>5 DEF e
<1>. QED
  BY <1>4, <1>6, <1>7, <1>9, <1>10 DEF Between

\* The client accepts a message of the server's transfer.
LEMMA ClientTakes ==
  ASSUME NEW y, Sound(y, 0), NEW p \in Clients, NEW x, Sound(x, p), NEW u, NEW d, NEW v,
         Between(y, x, p, u, d, v), Full(d), NEW k \in 1 .. Len(d.messages), NEW packetId,
         packetId = (d.firstPacketId + k - 1) % PacketIds(0), Accepts(x, 0, packetId),
         ~x.didReceiveFirstPacketFromServer => k = 1,
         NEW z, SameSender(x, z), z.lastAckFrom = x.lastAckFrom, z.retransmission = x.retransmission,
         z.isReading = x.isReading, z.incoming \in Queue, z.newIncoming \in Queue,
         Arrives(x, z, p, 0, Item(0, d.messages[k]), packetId)
  PROVE  /\ Between(y, z, p, u, d, v) /\ Sound(z, p)
         /\ Top(z, sent[p]) - Lag(z, y, p) = Top(x, sent[p]) - Lag(x, y, p)
<1>. DEFINE item == Item(0, d.messages[k])
<1>1. /\ Counted(x, p) /\ Consecutive(x, p) /\ Receptive(x) /\ p \in Consoles /\ 0 \in Consoles
      /\ Counted(y, 0) /\ Consecutive(y, 0) /\ Receptive(y) /\ OwnWords(y, sent[0]) /\ p # 0
  BY BetweenIs, SoundIs
<1>2. /\ z.lastPacketId = x.lastPacketId /\ z.outgoing = x.outgoing
      /\ z.newOutgoing = x.newOutgoing /\ z.inflightCount = x.inflightCount
      /\ DOMAIN z = SessionFields
  BY DEF SameSender
<1>3. packetId \in 0 .. PacketIds(0) - 1
  <2>1. z.lastPacketIdFrom = [x.lastPacketIdFrom EXCEPT ![0] = packetId]
    BY DEF Arrives
  <2>2. SlotFits(y, 0, d)
    BY BetweenIs
  <2>. QED
    BY <1>1, <2>1, <2>2, LagTakes
<1>4. Receptive(z)
  BY <1>1, <1>2, <1>3 DEF Receptive, Arrives
<1>5. SlotFits(z, p, u) /\ SlotFits(y, 0, d)
  BY <1>2, BetweenIs, SlotFitsSame
<1>6. Exact(z, y, p, sent[p], got[0][p], u, d)
  BY BetweenIs, ExactSame
<1>7. Single(p) => Exact(y, z, 0, sent[0], got[p][0], d, u)
  <2>1. SUFFICES ASSUME Single(p) PROVE Exact(y, z, 0, sent[0], got[p][0], d, u)
    OBVIOUS
  <2>2. /\ Exact(y, x, 0, sent[0], got[p][0], d, u)
        /\ u # None => u.ack[0] \in 0 .. PacketIds(0) - 1
    BY <2>1, BetweenIs
  <2>3. got[p][0] \in Nat /\ 0 # p
    BY <1>1, SoundIs
  <2>. QED
    BY <1>1, <1>5, <2>2, <2>3, ExactTakes
<1>8. /\ Ordered(y, z, got[p], d)
      /\ item.player \in Consoles =>
           \A w \in Has(x, item.player, got[p][item.player]) : w < item.data
      /\ \E b : InLine(y, d, b, item.player, item.data)
  <2>1. Ordered(y, x, got[p], d)
    BY BetweenIs
  <2>. QED
    BY <1>1, <1>5, <2>1, OrderedTakes
<1>. HIDE DEF item
<1>9. Arrives(x, z, p, 0, item, packetId)
  BY DEF item
<1>10. \A q \in Consoles : Placed(y, z, d, q, got[p][q], v[q])
  <2>1. \A q \in Consoles : Placed(y, x, d, q, got[p][q], v[q])
    BY BetweenIs
  <2>. QED
    BY <1>8, <1>9, <2>1, PlacedTakes
<1>11. Sound(z, p)
  <2>1. Counted(z, p) /\ Consecutive(z, p)
    BY <1>1, CountedSame, ConsecutiveSame
  <2>2. OwnWords(z, sent[p])
    <3>1. OwnWords(x, sent[p])
      BY <1>1, SoundIs
    <3>. QED
      BY <1>2, <3>1 DEF OwnWords
  <2>3. ASSUME NEW q \in Consoles PROVE InOrder(Here(z), q, got[p][q])
    <3>1. got[p][q] \in Nat /\ InOrder(Here(x), q, got[p][q])
      BY <1>1, SoundIs
    <3>2. item.player = q => \A w \in Has(x, q, got[p][q]) : w < item.data
      BY <1>8
    <3>. QED
      BY <1>9, <3>1, <3>2, ArrivesInOrder
  <2>. QED
    BY <1>4, <2>1, <2>2, <2>3 DEF Sound
<1>12. Top(z, sent[p]) - Lag(z, y, p) = Top(x, sent[p]) - Lag(x, y, p)
  <2>1. Top(z, sent[p]) = Top(x, sent[p]) /\ Lag(z, y, p) = Lag(x, y, p)
    BY <1>2 DEF Top, Lag, Back
  <2>. QED
    BY <2>1
<1>. QED
  BY <1>5, <1>6, <1>7, <1>8, <1>10, <1>11, <1>12 DEF Between

-----------------------------------------------------------------------------
(* What is between them after a step of the server.                        *)

LEMMA ServerSame ==
  ASSUME NEW y, Sound(y, 0), NEW p \in Clients, NEW x, Sound(x, p), NEW u, NEW d, NEW v,
         Between(y, x, p, u, d, v), NEW z, SameSender(y, z), Alike(y, z), Receptive(z),
         NEW u2, u2 = u \/ u2 = None, NEW d2, d2 = d \/ d2 = None
  PROVE  Between(z, x, p, u2, d2, v)
<1>1. /\ Counted(x, p) /\ Consecutive(x, p) /\ Receptive(x) /\ p \in Consoles /\ 0 \in Consoles
      /\ Counted(y, 0) /\ Consecutive(y, 0) /\ Receptive(y) /\ SlotFits(y, 0, d)
  BY BetweenIs, SoundIs
<1>2. Consecutive(z, 0) /\ z.lastPacketId = y.lastPacketId
  BY <1>1, ConsecutiveSame DEF SameSender
<1>3. SlotFits(x, p, u2) /\ SlotFits(z, 0, d2)
  BY <1>2, BetweenIs, SlotFitsSame
<1>4. Exact(x, z, p, sent[p], got[0][p], u2, d2)
  <2>1. Exact(x, z, p, sent[p], got[0][p], u, d)
    BY BetweenIs, ExactAlike
  <2>. QED
    BY <1>1, <2>1, ExactSlots
<1>5. Single(p) => Exact(z, x, 0, sent[0], got[p][0], d2, u2)
  <2>1. SUFFICES ASSUME Single(p) PROVE Exact(z, x, 0, sent[0], got[p][0], d2, u2)
    OBVIOUS
  <2>2. Exact(z, x, 0, sent[0], got[p][0], d, u)
    BY <2>1, BetweenIs, ExactSame
  <2>. QED
    BY <1>1, <1>2, <2>2, ExactSlots
<1>6. Embeds(y, d, z, d2, 0) /\ Lag(z, x, 0) = Lag(y, x, 0)
  BY <1>1, EmbedsSame
<1>7. Lag(y, x, 0) \in Int /\ Lag(y, x, 0) <= Lag(y, x, 0) + 0
  <2>1. Lag(y, x, 0) \in Nat
    BY <1>1, BackIs DEF Lag, Receptive
  <2>. QED
    BY <2>1
<1>8. Ordered(z, x, got[p], d2)
  <2>1. Ordered(y, x, got[p], d)
    BY BetweenIs
  <2>. QED
    BY <1>6, <1>7, <2>1, OrderedEmbeds
<1>9. \A q \in Consoles : Placed(z, x, d2, q, got[p][q], v[q])
  BY <1>6, BetweenIs, PlacedEmbeds
<1>. QED
  BY <1>3, <1>4, <1>5, <1>8, <1>9 DEF Between

\* Words of console q join the line.
LEMMA ServerGrows ==
  ASSUME NEW y, Sound(y, 0), NEW p \in Clients, NEW x, Sound(x, p), NEW u, NEW d, NEW v,
         Between(y, x, p, u, d, v), NEW z, z.lastPacketId = y.lastPacketId, NEW v2,
         NEW q \in Consoles, Grows(y, d, z, q, v[q], v2[q]), v[q] \in Nat,
         \A j \in Consoles : v[j] \in Int /\ v2[j] \in Int /\ v[j] <= v2[j],
         Exact(x, z, p, sent[p], got[0][p], u, d),
         Single(p) => Exact(z, x, 0, sent[0], got[p][0], d, u)
  PROVE  Between(z, x, p, u, d, v2)
<1>1. /\ p \in Consoles /\ Counted(y, 0) /\ Consecutive(y, 0) /\ SlotFits(y, 0, d)
      /\ \A j \in Consoles : Has(x, j, got[p][j]) \subseteq Nat
  BY BetweenIs, SoundIs
<1>2. SlotFits(x, p, u) /\ SlotFits(z, 0, d)
  BY BetweenIs, SlotFitsSame
<1>3. Ordered(y, x, got[p], d) /\ \A j \in Consoles : Placed(y, x, d, j, got[p][j], v[j])
  BY BetweenIs
<1>4. Ordered(z, x, got[p], d)
  BY <1>1, <1>3, OrderedGrows
<1>5. ASSUME NEW j \in Consoles PROVE Placed(z, x, d, j, got[p][j], v2[j])
  <2>1. v[q] \in Int /\ v2[q] \in Int /\ (j = q => v2[q] <= v2[j])
    OBVIOUS
  <2>. QED
    BY <1>1, <1>3, <2>1, PlacedGrows
<1>. QED
  BY <1>2, <1>4, <1>5 DEF Between

LEMMA ServerFlows ==
  ASSUME NEW y, Sound(y, 0), NEW p \in Clients, NEW x, Sound(x, p), NEW u, NEW d, NEW v,
         Between(y, x, p, u, d, v), NEW z, Flows(y, z), NEW v2,
         v[0] = sent[0] - Len(y.newOutgoing), v2[0] = sent[0] - Len(z.newOutgoing),
         \A j \in Clients : v[j] \in Int /\ v2[j] = v[j]
  PROVE  Between(z, x, p, u, d, v2)
<1>1. /\ Counted(y, 0) /\ Consecutive(y, 0) /\ Receptive(y) /\ OwnWords(y, sent[0])
      /\ 0 \in Consoles
  BY BetweenIs, SoundIs
<1>2. Grows(y, d, z, 0, v[0], v2[0]) /\ v[0] \in Nat /\ v2[0] \in Nat /\ v[0] <= v2[0]
  BY <1>1, GrowsFlows
<1>3. \A j \in Consoles : v[j] \in Int /\ v2[j] \in Int /\ v[j] <= v2[j]
  BY <1>2 DEF Consoles
<1>4. Alike(y, z) /\ z.lastPacketId = y.lastPacketId
  BY <1>1, AlikeSame DEF Flows
<1>5. Exact(x, z, p, sent[p], got[0][p], u, d)
  BY <1>4, BetweenIs, ExactAlike
<1>6. Single(p) => Exact(z, x, 0, sent[0], got[p][0], d, u)
  BY <1>1, BetweenIs, ExactFlows
<1>. QED
  BY <1>1, <1>2, <1>3, <1>4, <1>5, <1>6, ServerGrows

\* The server's new transfer, when client p gets it.
LEMMA ServerStamps ==
  ASSUME NEW y, Sound(y, 0), NEW p \in Clients, NEW x, Sound(x, p), NEW u, NEW d, NEW v,
         Between(y, x, p, u, d, v), NEW n \in Nat, NEW z, Stamps(y, z, 0, n), Sound(z, 0),
         NEW made, made = None \/ Made(z, 0, made)
  PROVE  Between(z, x, p, u, made, v)
<1>1. /\ Counted(x, p) /\ Consecutive(x, p) /\ Receptive(x) /\ p \in Consoles /\ 0 \in Consoles
      /\ Counted(y, 0) /\ Consecutive(y, 0) /\ Receptive(y) /\ SlotFits(y, 0, d)
      /\ OwnWords(y, sent[0])
      /\ Counted(z, 0) /\ Consecutive(z, 0) /\ Receptive(z)
  BY BetweenIs, SoundIs
<1>2. Alike(y, z)
  BY <1>1, AlikeSame DEF Stamps
<1>3. SlotFits(x, p, u) /\ SlotFits(z, 0, made)
  <2>1. CASE made = None
    BY <2>1, BetweenIs DEF SlotFits, Full
  <2>2. CASE Made(z, 0, made)
    BY <1>1, <2>2, BetweenIs, MadeFits
  <2>. QED
    BY <2>1, <2>2
<1>4. Exact(x, z, p, sent[p], got[0][p], u, made)
  <2>1. Exact(x, z, p, sent[p], got[0][p], u, d)
    BY <1>2, BetweenIs, ExactAlike
  <2>2. made = None \/ made.ack[p] = z.lastPacketIdFrom[p]
    BY DEF Made
  <2>. QED
    BY <1>1, <2>1, <2>2, ExactSlots
<1>5. Single(p) => Exact(z, x, 0, sent[0], got[p][0], made, u)
  <2>1. SUFFICES ASSUME Single(p) PROVE Exact(z, x, 0, sent[0], got[p][0], made, u)
    OBVIOUS
  <2>2. /\ Exact(y, x, 0, sent[0], got[p][0], d, u)
        /\ u # None => u.ack[0] \in 0 .. PacketIds(0) - 1
    BY <2>1, BetweenIs
  <2>. QED
    BY <1>1, <2>2, ExactStamps
<1>6. /\ Embeds(y, d, z, made, n)
      /\ Lag(y, x, 0) \in Int /\ Lag(z, x, 0) \in Int /\ Lag(z, x, 0) <= Lag(y, x, 0) + n
  BY <1>1, EmbedsStamps
<1>7. Ordered(z, x, got[p], made)
  <2>1. Ordered(y, x, got[p], d)
    BY BetweenIs
  <2>2. n \in Int
    OBVIOUS
  <2>. QED
    BY <1>6, <2>1, <2>2, OrderedEmbeds
<1>8. \A q \in Consoles : Placed(z, x, made, q, got[p][q], v[q])
  BY <1>6, BetweenIs, PlacedEmbeds
<1>. QED
  BY <1>3, <1>4, <1>5, <1>7, <1>8 DEF Between

\* Messages leave the server's queue: those the client, if it is the only
\* one, confirms in its transfer.
LEMMA ServerCuts ==
  ASSUME NEW y, Sound(y, 0), NEW p \in Clients, NEW x, Sound(x, p), NEW u, NEW d, NEW v,
         Between(y, x, p, u, d, v), NEW n \in Nat, n <= y.inflightCount, NEW z, Cuts(y, z, 0, n),
         Single(p) => u # None /\ Confirms(y, z, 0, u.ack[0], n)
  PROVE  Between(z, x, p, u, d, v)
<1>1. /\ Counted(x, p) /\ Consecutive(x, p) /\ Receptive(x) /\ p \in Consoles /\ 0 \in Consoles
      /\ Counted(y, 0) /\ Consecutive(y, 0) /\ Receptive(y) /\ SlotFits(y, 0, d)
      /\ OwnWords(y, sent[0])
  BY BetweenIs, SoundIs
<1>2. Alike(y, z) /\ z.lastPacketId = y.lastPacketId
  BY <1>1, AlikeSame DEF Cuts
<1>3. SlotFits(x, p, u) /\ SlotFits(z, 0, d)
  BY <1>2, BetweenIs, SlotFitsSame
<1>4. Exact(x, z, p, sent[p], got[0][p], u, d)
  BY <1>2, BetweenIs, ExactAlike
<1>5. Single(p) => Exact(z, x, 0, sent[0], got[p][0], d, u)
  <2>1. SUFFICES ASSUME Single(p) PROVE Exact(z, x, 0, sent[0], got[p][0], d, u)
    OBVIOUS
  <2>2. /\ Exact(y, x, 0, sent[0], got[p][0], d, u)
        /\ u # None /\ u.ack[0] \in 0 .. PacketIds(0) - 1
    BY <2>1, BetweenIs
  <2>3. Confirms(y, z, 0, u.ack[0], n)
    BY <2>1
  <2>. QED
    BY <1>1, <2>2, <2>3, ExactCuts
<1>6. Embeds(y, d, z, d, 0) /\ Lag(z, x, 0) = Lag(y, x, 0)
  BY <1>1, EmbedsCuts
<1>7. Lag(y, x, 0) \in Int /\ Lag(y, x, 0) <= Lag(y, x, 0) + 0
  <2>1. Lag(y, x, 0) \in Nat
    BY <1>1, BackIs DEF Lag, Receptive
  <2>. QED
    BY <2>1
<1>8. Ordered(z, x, got[p], d)
  <2>1. Ordered(y, x, got[p], d)
    BY BetweenIs
  <2>. QED
    BY <1>6, <1>7, <2>1, OrderedEmbeds
<1>9. \A q \in Consoles : Placed(z, x, d, q, got[p][q], v[q])
  BY <1>6, BetweenIs, PlacedEmbeds
<1>. QED
  BY <1>3, <1>4, <1>5, <1>8, <1>9 DEF Between

-----------------------------------------------------------------------------
(* All consoles, with sessions S, and all slots, with transfers U and D.   *)

LEMMA WithIs ==
  ASSUME NEW S, DOMAIN S = Consoles, NEW c \in Consoles, NEW x
  PROVE  /\ DOMAIN With(S, c, x) = Consoles /\ With(S, c, x)[c] = x
         /\ \A d \in Consoles \ {c} : With(S, c, x)[d] = S[d]
         /\ \A y : With(With(S, c, x), c, y) = With(S, c, y)
         /\ With(S, c, x) = [d \in Consoles |-> With(S, c, x)[d]]
  BY DEF With

LEMMA GoodIsFunction ==
  ASSUME NEW S, NEW U, NEW D, Good(S, U, D)
  PROVE  \A c \in Consoles : With(S, c, S[c]) = S
  BY DEF Good, With

LEMMA GoodIs ==
  ASSUME NEW S, NEW U, NEW D, Good(S, U, D)
  PROVE  /\ DOMAIN S = Consoles /\ 0 \in Consoles /\ Sound(S[0], 0) /\ Unlinked(S[0], U)
         /\ \A c \in Consoles : Sound(S[c], c)
         /\ \A p \in Clients : /\ p \in Consoles /\ p # 0 /\ Sound(S[p], p)
                               /\ Between(S[0], S[p], p, U[p], D[p], AllPlaces(S))
<1>1. S = [c \in Consoles |-> S[c]]
  BY DEF Good
<1>2. DOMAIN S = Consoles
  BY <1>1
<1>. QED
  BY <1>2, Players DEF Good

LEMMA PlacesInt ==
  ASSUME NEW S, NEW U, NEW D, Good(S, U, D)
  PROVE  \A p \in Consoles : AllPlaces(S)[p] \in Int
<1>1. ASSUME NEW p \in Clients PROVE Place(S, p) \in Int
  <2>1. /\ Counted(S[p], p) /\ Consecutive(S[p], p) /\ OwnWords(S[p], sent[p])
        /\ Receptive(S[0]) /\ p \in Consoles /\ p # 0
    BY GoodIs, SoundIs
  <2>2. AllSent(S[p], p, sent[p])
    <3>1. Between(S[0], S[p], p, U[p], D[p], AllPlaces(S))
      BY GoodIs
    <3>2. Exact(S[p], S[0], p, sent[p], got[0][p], U[p], D[p])
      BY <3>1, BetweenIs
    <3>. QED
      BY <3>2 DEF Exact
  <2>3. Top(S[p], sent[p]) \in Nat
    BY <2>1, <2>2, TopIs
  <2>4. Lag(S[p], S[0], p) \in Nat
    BY <2>1, BackIs DEF Lag, Receptive
  <2>. QED
    BY <2>1, <2>3, <2>4 DEF Place
<1>2. Place(S, 0) \in Int
  <2>1. Counted(S[0], 0) /\ OwnWords(S[0], sent[0])
    BY GoodIs, SoundIs
  <2>2. Len(S[0].newOutgoing) \in Nat /\ sent[0] \in Nat
    BY <2>1, CountedNumbered DEF OwnWords
  <2>. QED
    BY <2>2 DEF Place
<1>. QED
  BY <1>1, <1>2 DEF AllPlaces, Consoles

LEMMA PlacesOfServer ==
  ASSUME NEW S, DOMAIN S = Consoles, NEW z
  PROVE  /\ AllPlaces(With(S, 0, z))[0] = sent[0] - Len(z.newOutgoing)
         /\ \A p \in Clients : AllPlaces(With(S, 0, z))[p] = Top(S[p], sent[p]) - Lag(S[p], z, p)
         /\ AllPlaces(S)[0] = sent[0] - Len(S[0].newOutgoing)
         /\ \A p \in Clients : AllPlaces(S)[p] = Top(S[p], sent[p]) - Lag(S[p], S[0], p)
<1>1. 0 \in Consoles /\ \A p \in Clients : p \in Consoles /\ p # 0
  BY Players
<1>2. With(S, 0, z)[0] = z /\ \A p \in Clients : With(S, 0, z)[p] = S[p]
  BY <1>1, WithIs
<1>. QED
  BY <1>1, <1>2 DEF AllPlaces, Place

LEMMA PlacesSame ==
  ASSUME NEW S, DOMAIN S = Consoles, NEW z, z.lastPacketIdFrom = S[0].lastPacketIdFrom
  PROVE  /\ \A p \in Clients : AllPlaces(With(S, 0, z))[p] = AllPlaces(S)[p]
         /\ z.newOutgoing = S[0].newOutgoing => AllPlaces(With(S, 0, z)) = AllPlaces(S)
<1>. DEFINE T == With(S, 0, z)
<1>1. /\ T[0] = z /\ 0 \in Consoles
      /\ \A p \in Clients : T[p] = S[p] /\ p \in Consoles /\ p # 0
  <2>1. 0 \in Consoles /\ \A p \in Clients : p \in Consoles /\ p # 0
    BY Players
  <2>. QED
    BY <2>1, WithIs
<1>. HIDE DEF T
<1>2. ASSUME NEW p \in Clients PROVE Place(T, p) = Place(S, p)
  BY <1>1 DEF Place, Lag
<1>3. \A p \in Clients : AllPlaces(T)[p] = AllPlaces(S)[p]
  BY <1>1, <1>2 DEF AllPlaces
<1>4. ASSUME z.newOutgoing = S[0].newOutgoing PROVE AllPlaces(T) = AllPlaces(S)
  <2>1. Place(T, 0) = Place(S, 0)
    BY <1>1, <1>4 DEF Place
  <2>2. \A p \in Consoles : Place(T, p) = Place(S, p)
    BY <1>2, <2>1 DEF Consoles
  <2>. QED
    BY <2>2 DEF AllPlaces
<1>. QED
  BY <1>3, <1>4 DEF T

LEMMA GoodClient ==
  ASSUME NEW S, NEW U, NEW D, Good(S, U, D), NEW p \in Clients, NEW z, Sound(z, p),
         NEW U2, NEW D2, Between(S[0], z, p, U2[p], D2[p], AllPlaces(S)),
         Top(z, sent[p]) - Lag(z, S[0], p) = Top(S[p], sent[p]) - Lag(S[p], S[0], p),
         \A q \in Clients \ {p} : U2[q] = U[q] /\ D2[q] = D[q],
         p \in linked \/ U2[p] = None
  PROVE  Good(With(S, p, z), U2, D2)
<1>. DEFINE T == With(S, p, z)
<1>1. /\ DOMAIN S = Consoles /\ p \in Consoles /\ p # 0 /\ 0 \in Consoles /\ Unlinked(S[0], U)
      /\ \A c \in Consoles : Sound(S[c], c)
      /\ \A q \in Clients : q \in Consoles
                            /\ Between(S[0], S[q], q, U[q], D[q], AllPlaces(S))
  BY GoodIs
<1>2. /\ T = [d \in Consoles |-> T[d]] /\ T[p] = z /\ \A d \in Consoles \ {p} : T[d] = S[d]
  BY <1>1, WithIs
<1>. HIDE DEF T
<1>3. T[0] = S[0]
  BY <1>1, <1>2
<1>4. ASSUME NEW q \in Consoles PROVE Place(T, q) = Place(S, q)
  <2>1. CASE q = p
    BY <1>1, <1>2, <1>3, <2>1 DEF Place
  <2>2. CASE q # p
    BY <1>2, <1>3, <2>2 DEF Place
  <2>. QED
    BY <2>1, <2>2
<1>5. AllPlaces(T) = AllPlaces(S)
  BY <1>4 DEF AllPlaces
<1>6. \A c \in Consoles : Sound(T[c], c)
  BY <1>1, <1>2
<1>7. ASSUME NEW q \in Clients PROVE Between(T[0], T[q], q, U2[q], D2[q], AllPlaces(T))
  <2>1. CASE q = p
    BY <1>2, <1>3, <1>5, <2>1
  <2>2. CASE q # p
    <3>1. q \in Clients \ {p} /\ q \in Consoles \ {p}
      BY <1>1, <2>2
    <3>2. T[q] = S[q] /\ U2[q] = U[q] /\ D2[q] = D[q]
      BY <1>2, <3>1
    <3>. QED
      BY <1>1, <1>3, <1>5, <3>2
  <2>. QED
    BY <2>1, <2>2
<1>8. Unlinked(T[0], U2)
  BY <1>1, <1>3 DEF Unlinked
<1>. QED
  BY <1>2, <1>6, <1>7, <1>8 DEF Good, T

LEMMA GoodServer ==
  ASSUME NEW S, NEW U, NEW D, Good(S, U, D), NEW z, Sound(z, 0),
         NEW U2, NEW D2, Unlinked(z, U2),
         \A p \in Clients : Between(z, S[p], p, U2[p], D2[p], AllPlaces(With(S, 0, z)))
  PROVE  Good(With(S, 0, z), U2, D2)
<1>. DEFINE T == With(S, 0, z)
<1>1. /\ DOMAIN S = Consoles /\ 0 \in Consoles /\ \A c \in Consoles : Sound(S[c], c)
      /\ \A q \in Clients : q \in Consoles \ {0}
  BY GoodIs
<1>2. /\ T = [d \in Consoles |-> T[d]] /\ T[0] = z /\ \A d \in Consoles \ {0} : T[d] = S[d]
  BY <1>1, WithIs
<1>3. \A p \in Clients : Between(z, S[p], p, U2[p], D2[p], AllPlaces(T))
  OBVIOUS
<1>. HIDE DEF T
<1>4. \A c \in Consoles : Sound(T[c], c)
  BY <1>1, <1>2
<1>5. ASSUME NEW q \in Clients PROVE Between(T[0], T[q], q, U2[q], D2[q], AllPlaces(T))
  BY <1>1, <1>2, <1>3
<1>. QED
  BY <1>2, <1>4, <1>5 DEF Good, T

\* A step that changes nothing that is sent or received, or empties slots.
LEMMA GoodSame ==
  ASSUME NEW S, NEW U, NEW D, Good(S, U, D), NEW c \in Consoles, NEW z, SameSender(S[c], z),
         Alike(S[c], z), Receptive(z), NEW U2, NEW D2,
         \A p \in Clients : U2[p] = U[p] \/ U2[p] = None,
         \A p \in Clients : D2[p] = D[p] \/ D2[p] = None,
         c = 0 => \A p \in Clients \ linked : z.lastAckFrom[p] = NO_ACK_RECEIVED_YET,
         c # 0 => \A p \in Clients \ {c} : U2[p] = U[p] /\ D2[p] = D[p]
  PROVE  Good(With(S, c, z), U2, D2)
<1>1. Sound(z, c)
  BY GoodIs, SoundSame
<1>2. CASE c = 0
  <2>1. Unlinked(z, U2)
    BY <1>2, GoodIs DEF Unlinked
  <2>2. AllPlaces(With(S, 0, z)) = AllPlaces(S)
    <3>1. /\ DOMAIN S = Consoles /\ z.newOutgoing = S[0].newOutgoing
          /\ z.lastPacketIdFrom = S[0].lastPacketIdFrom
      BY <1>2, GoodIs DEF SameSender, Alike
    <3>. QED
      BY <3>1, PlacesSame
  <2>3. ASSUME NEW p \in Clients PROVE Between(z, S[p], p, U2[p], D2[p], AllPlaces(With(S, 0, z)))
    <3>1. /\ Sound(S[0], 0) /\ Sound(S[p], p)
          /\ Between(S[0], S[p], p, U[p], D[p], AllPlaces(S))
      BY GoodIs
    <3>. QED
      BY <1>2, <2>2, <3>1, ServerSame
  <2>. QED
    BY <1>1, <1>2, <2>1, <2>3, GoodServer
<1>3. CASE c # 0
  <2>1. c \in Clients
    BY <1>3 DEF Consoles
  <2>2. /\ Sound(S[0], 0) /\ Sound(S[c], c) /\ Unlinked(S[0], U)
        /\ Between(S[0], S[c], c, U[c], D[c], AllPlaces(S))
    BY <2>1, GoodIs
  <2>3. /\ Between(S[0], z, c, U2[c], D2[c], AllPlaces(S))
        /\ Top(z, sent[c]) - Lag(z, S[0], c) = Top(S[c], sent[c]) - Lag(S[c], S[0], c)
    BY <2>1, <2>2, ClientSame
  <2>4. c \in linked \/ U2[c] = None
    BY <2>1, <2>2 DEF Unlinked
  <2>. QED
    BY <1>1, <1>3, <2>1, <2>3, <2>4, GoodClient
<1>. QED
  BY <1>2, <1>3

LEMMA GoodFlows ==
  ASSUME NEW S, NEW U, NEW D, Good(S, U, D), NEW c \in Consoles, NEW z, Flows(S[c], z), Sending(z)
  PROVE  Good(With(S, c, z), U, D)
<1>1. Sound(z, c)
  BY GoodIs, SoundFlows
<1>2. CASE c = 0
  <2>1. Unlinked(z, U)
    BY <1>2, GoodIs DEF Unlinked, Flows
  <2>2. DOMAIN S = Consoles /\ z.lastPacketIdFrom = S[0].lastPacketIdFrom
    BY <1>2, GoodIs DEF Flows, SameReceiver
  <2>. DEFINE v == AllPlaces(S)
              v2 == AllPlaces(With(S, 0, z))
  <2>3. /\ v[0] = sent[0] - Len(S[0].newOutgoing) /\ v2[0] = sent[0] - Len(z.newOutgoing)
        /\ \A p \in Clients : v[p] \in Int /\ v2[p] = v[p]
    <3>1. v[0] = sent[0] - Len(S[0].newOutgoing) /\ v2[0] = sent[0] - Len(z.newOutgoing)
      BY <2>2, PlacesOfServer
    <3>2. \A p \in Clients : v2[p] = v[p]
      BY <2>2, PlacesSame
    <3>3. \A p \in Clients : v[p] \in Int
      BY PlacesInt, Players
    <3>. QED
      BY <3>1, <3>2, <3>3
  <2>4. \A p \in Clients : /\ Sound(S[0], 0) /\ Sound(S[p], p)
                           /\ Between(S[0], S[p], p, U[p], D[p], v)
    BY GoodIs
  <2>. HIDE DEF v, v2
  <2>5. ASSUME NEW p \in Clients PROVE Between(z, S[p], p, U[p], D[p], v2)
    BY <1>2, <2>3, <2>4, ServerFlows
  <2>. QED
    BY <1>1, <1>2, <2>1, <2>5, GoodServer DEF v2
<1>3. CASE c # 0
  <2>1. c \in Clients
    BY <1>3 DEF Consoles
  <2>2. /\ Sound(S[0], 0) /\ Sound(S[c], c) /\ Unlinked(S[0], U)
        /\ Between(S[0], S[c], c, U[c], D[c], AllPlaces(S))
    BY <2>1, GoodIs
  <2>3. /\ Between(S[0], z, c, U[c], D[c], AllPlaces(S))
        /\ Top(z, sent[c]) - Lag(z, S[0], c) = Top(S[c], sent[c]) - Lag(S[c], S[0], c)
    BY <2>1, <2>2, ClientFlows
  <2>4. c \in linked \/ U[c] = None
    BY <2>1, <2>2 DEF Unlinked
  <2>. QED
    BY <1>1, <2>1, <2>3, <2>4, GoodClient
<1>. QED
  BY <1>2, <1>3

\* The server's new transfer is for who is linked.
LEMMA GoodServerStamps ==
  ASSUME NEW S, NEW U, NEW D, Good(S, U, D), NEW n \in Nat, NEW z, Stamps(S[0], z, 0, n), Sending(z),
         NEW D2, \A p \in Clients : D2[p] = None \/ Made(z, 0, D2[p])
  PROVE  Good(With(S, 0, z), U, D2)
<1>1. Sound(z, 0) /\ 0 \in Consoles
  BY GoodIs, SoundStamps
<1>2. Unlinked(z, U)
  BY GoodIs DEF Unlinked, Stamps
<1>3. AllPlaces(With(S, 0, z)) = AllPlaces(S)
  <2>1. /\ DOMAIN S = Consoles /\ z.newOutgoing = S[0].newOutgoing
        /\ z.lastPacketIdFrom = S[0].lastPacketIdFrom
    BY GoodIs DEF Stamps, SameReceiver
  <2>. QED
    BY <2>1, PlacesSame
<1>4. ASSUME NEW p \in Clients PROVE Between(z, S[p], p, U[p], D2[p], AllPlaces(With(S, 0, z)))
  <2>1. /\ Sound(S[0], 0) /\ Sound(S[p], p)
        /\ Between(S[0], S[p], p, U[p], D[p], AllPlaces(S))
    BY GoodIs
  <2>. QED
    BY <1>1, <1>3, <2>1, ServerStamps
<1>. QED
  BY <1>1, <1>2, <1>4, GoodServer

LEMMA GoodClientStamps ==
  ASSUME NEW S, NEW U, NEW D, Good(S, U, D), NEW c \in linked, c \in Clients, NEW n \in Nat,
         NEW z, Stamps(S[c], z, c, n), Sending(z), NEW U2, Made(z, c, U2[c]),
         \A p \in Clients \ {c} : U2[p] = U[p]
  PROVE  Good(With(S, c, z), U2, D)
<1>1. /\ c \in Consoles /\ Sound(S[0], 0) /\ Sound(S[c], c)
      /\ Between(S[0], S[c], c, U[c], D[c], AllPlaces(S))
  BY GoodIs
<1>2. Sound(z, c)
  BY <1>1, SoundStamps
<1>3. /\ Between(S[0], z, c, U2[c], D[c], AllPlaces(S))
      /\ Top(z, sent[c]) - Lag(z, S[0], c) = Top(S[c], sent[c]) - Lag(S[c], S[0], c)
  BY <1>1, <1>2, ClientStamps
<1>. QED
  BY <1>2, <1>3, GoodClient

\* What the server's transfer confirms leaves the client's queue.
LEMMA GoodClientCuts ==
  ASSUME NEW S, NEW U, NEW D, Good(S, U, D), NEW c \in Clients, D[c] # None, NEW n \in Nat,
         NEW z, Confirms(S[c], z, c, D[c].ack[c], n), Sending(z)
  PROVE  Good(With(S, c, z), U, D)
<1>1. /\ c \in Consoles /\ Sound(S[0], 0) /\ Sound(S[c], c) /\ Unlinked(S[0], U)
      /\ Between(S[0], S[c], c, U[c], D[c], AllPlaces(S))
  BY GoodIs
<1>2. Sound(z, c)
  <2>1. Cuts(S[c], z, c, n) /\ n <= S[c].inflightCount
    BY DEF Confirms
  <2>. QED
    BY <1>1, <2>1, SoundCuts
<1>3. /\ Between(S[0], z, c, U[c], D[c], AllPlaces(S))
      /\ Top(z, sent[c]) - Lag(z, S[0], c) = Top(S[c], sent[c]) - Lag(S[c], S[0], c)
  BY <1>1, ClientCuts
<1>4. c \in linked \/ U[c] = None
  BY <1>1 DEF Unlinked
<1>. QED
  BY <1>2, <1>3, <1>4, GoodClient

LEMMA GoodServerCuts ==
  ASSUME NEW S, NEW U, NEW D, Good(S, U, D), NEW ack, NEW n \in Nat,
         NEW z, Confirms(S[0], z, 0, ack, n), Sending(z),
         \A p \in Clients : Single(p) => U[p] # None /\ ack = U[p].ack[0]
  PROVE  Good(With(S, 0, z), U, D)
<1>1. Cuts(S[0], z, 0, n) /\ n <= S[0].inflightCount
  BY DEF Confirms
<1>2. Sound(z, 0) /\ 0 \in Consoles
  BY <1>1, GoodIs, SoundCuts
<1>3. Unlinked(z, U)
  BY <1>1, GoodIs DEF Unlinked, Cuts
<1>4. AllPlaces(With(S, 0, z)) = AllPlaces(S)
  <2>1. /\ DOMAIN S = Consoles /\ z.newOutgoing = S[0].newOutgoing
        /\ z.lastPacketIdFrom = S[0].lastPacketIdFrom
    BY <1>1, GoodIs DEF Cuts, SameReceiver
  <2>. QED
    BY <2>1, PlacesSame
<1>5. ASSUME NEW p \in Clients PROVE Between(z, S[p], p, U[p], D[p], AllPlaces(With(S, 0, z)))
  <2>1. /\ Sound(S[0], 0) /\ Sound(S[p], p)
        /\ Between(S[0], S[p], p, U[p], D[p], AllPlaces(S))
    BY GoodIs
  <2>2. Single(p) => U[p] # None /\ Confirms(S[0], z, 0, U[p].ack[0], n)
    OBVIOUS
  <2>. QED
    BY <1>1, <1>4, <2>1, <2>2, ServerCuts
<1>. QED
  BY <1>2, <1>3, <1>5, GoodServer

-----------------------------------------------------------------------------
(* A console goes through the messages of a transfer.                      *)

LEMMA TakesReceptive ==
  ASSUME NEW x, Receptive(x), NEW c, NEW i \in Consoles, NEW item \in Message, NEW packetId,
         packetId \in 0 .. PacketIds(i) - 1, NEW count, NEW z, Takes(x, z, c, i, item, packetId, count)
  PROVE  Receptive(z) /\ z.lastAckFrom = x.lastAckFrom
<1>1. z.incoming \in Queue /\ z.newIncoming \in Queue
  BY PushKeeps DEF Takes, Receptive
<1>. QED
  BY <1>1 DEF Takes, Receptive

LEMMA ItemIs ==
  ASSUME NEW i \in Nat, NEW message \in Packet
  PROVE  /\ Item(i, message) \in Message /\ ~HasId(Item(i, message))
         /\ i > 0 => Item(i, message).player = i
<1>1. message.data \in Nat /\ message.player \in Nat
  BY DEF Packet
<1>. QED
  BY <1>1 DEF Item, Message, HasId, NO_ID_ASSIGNED_YET

LEMMA GrowsSame ==
  ASSUME NEW y, NEW d, NEW z, SameSender(y, z), NEW q, NEW v, NEW top
  PROVE  Grows(y, d, z, q, v, top)
<1>1. /\ z.outgoing = y.outgoing /\ z.inflightCount = y.inflightCount
      /\ z.lastPacketId = y.lastPacketId
  BY DEF SameSender
<1>2. \A x : Lag(z, x, 0) = Lag(y, x, 0)
  BY <1>1 DEF Lag, Back
<1>3. Depth(z, 0, d) = Depth(y, 0, d)
  BY <1>1 DEF Depth, Back
<1>4. \A b, p, w : InLine(z, d, b, p, w) => InLine(y, d, b, p, w)
  BY <1>1, <1>3 DEF InLine
<1>. QED
  BY <1>2, <1>4 DEF Grows

LEMMA GoodClientTakes ==
  ASSUME NEW S, NEW U, NEW D, Good(S, U, D), NEW c \in Clients, Full(D[c]),
         NEW k \in 1 .. Len(D[c].messages), NEW packetId,
         IdOf(D[c], 0, k, packetId), Accepts(S[c], 0, packetId),
         ~S[c].didReceiveFirstPacketFromServer => k = 1,
         NEW z, NEW count, Takes(S[c], z, c, 0, Item(0, D[c].messages[k]), packetId, count)
  PROVE  /\ Good(With(S, c, z), U, D) /\ z.lastAckFrom = S[c].lastAckFrom
         /\ z.didReceiveFirstPacketFromServer
<1>. DEFINE x == S[c]
            y == S[0]
            d == D[c]
            item == Item(0, d.messages[k])
<1>1. /\ c \in Consoles /\ 0 \in Consoles /\ c # 0 /\ Sound(y, 0) /\ Sound(x, c) /\ Unlinked(y, U)
      /\ Between(y, x, c, U[c], d, AllPlaces(S))
  BY GoodIs
<1>2. Receptive(x) /\ Counted(y, 0) /\ Consecutive(y, 0) /\ SlotFits(y, 0, d)
  BY <1>1, SoundIs, BetweenIs
<1>3. d.messages \in Seq(Packet)
  BY <1>2 DEF SlotFits, Full
<1>4. item \in Message
  <2>1. d.messages[k] \in Packet
    <3>. HIDE DEF d
    <3>. QED
      BY <1>3 DEF d
  <2>2. 0 \in Nat
    OBVIOUS
  <2>. QED
    BY <2>1, <2>2, ItemIs
<1>5. Takes(x, z, c, 0, item, packetId, count)
  OBVIOUS
<1>. HIDE DEF item
<1>6. Arrives(x, z, c, 0, item, packetId)
  BY <1>2, <1>4, <1>5, TakesArrives
<1>7. packetId \in 0 .. PacketIds(0) - 1
  <2>1. z.lastPacketIdFrom = [x.lastPacketIdFrom EXCEPT ![0] = packetId]
    BY <1>6 DEF Arrives
  <2>. QED
    BY <1>1, <1>2, <2>1, LagTakes DEF IdOf
<1>8. Receptive(z) /\ z.lastAckFrom = x.lastAckFrom
  BY <1>1, <1>2, <1>4, <1>5, <1>7, TakesReceptive
<1>9. SameSender(x, z) /\ z.retransmission = x.retransmission /\ z.isReading = x.isReading
  BY <1>5 DEF Takes
<1>10. z.incoming \in Queue /\ z.newIncoming \in Queue
  BY <1>8 DEF Receptive
<1>11. Arrives(x, z, c, 0, Item(0, d.messages[k]), packetId)
  BY <1>6 DEF item
<1>12. /\ Between(y, z, c, U[c], d, AllPlaces(S)) /\ Sound(z, c)
       /\ Top(z, sent[c]) - Lag(z, y, c) = Top(x, sent[c]) - Lag(x, y, c)
  <2>. HIDE DEF x, y, d
  <2>. QED
    BY <1>1, <1>8, <1>9, <1>10, <1>11, ClientTakes DEF x, d, IdOf
<1>13. c \in linked \/ U[c] = None
  BY <1>1 DEF Unlinked
<1>14. Good(With(S, c, z), U, D)
  BY <1>12, <1>13, GoodClient
<1>15. z.didReceiveFirstPacketFromServer
  BY <1>6 DEF Arrives
<1>. QED
  BY <1>8, <1>14, <1>15

LEMMA ServerReaches ==
  ASSUME NEW y, Sound(y, 0), NEW i \in Clients, NEW x, Sound(x, i), NEW u, NEW d, NEW v,
         Between(y, x, i, u, d, v), Full(u), NEW k \in 1 .. Len(u.messages), NEW packetId,
         packetId = (u.firstPacketId + k - 1) % PacketIds(i), Accepts(y, i, packetId),
         NEW z, Arrives(y, z, 0, i, Item(i, u.messages[k]), packetId)
  PROVE  /\ Exact(x, z, i, sent[i], got[0][i], u, d)
         /\ Advances(x, y, z, i, sent[i], Item(i, u.messages[k]).data)
<1>1. i \in Consoles /\ 0 \in Consoles /\ i # 0
  BY BetweenIs
<1>2. /\ Receptive(y) /\ Counted(x, i) /\ Consecutive(x, i) /\ OwnWords(x, sent[i])
      /\ got[0][i] \in Nat /\ SlotFits(x, i, u)
      /\ Exact(x, y, i, sent[i], got[0][i], u, d)
      /\ d # None => d.ack[i] \in 0 .. PacketIds(i) - 1
  BY <1>1, SoundIs, BetweenIs
<1>3. i = 0 /\ ~y.didReceiveFirstPacketFromServer => k = 1
  BY <1>1
<1>. QED
  BY <1>1, <1>2, <1>3, ExactTakes

LEMMA GoodServerTakes ==
  ASSUME NEW S, NEW U, NEW D, Good(S, U, D), NEW i \in Clients, NEW k, NEW packetId, NEW z,
         ServerTaking(S, U, i, k, packetId, z)
  PROVE  Good(With(S, 0, z), U, D) /\ z.lastAckFrom = S[0].lastAckFrom
<1>. DEFINE x == S[i]
            y == S[0]
            u == U[i]
            item == Item(i, u.messages[k])
            v == AllPlaces(S)
            v2 == AllPlaces(With(S, 0, z))
<1>0. /\ Full(U[i]) /\ k \in 1 .. Len(U[i].messages) /\ IdOf(U[i], i, k, packetId)
      /\ Accepts(S[0], i, packetId) /\ Sending(z) /\ playerCount[0] \in Nat
      /\ Takes(S[0], z, 0, i, Item(i, U[i].messages[k]), packetId, playerCount[0])
  BY DEF ServerTaking
<1>. USE <1>0
<1>1. /\ i \in Consoles /\ 0 \in Consoles /\ i # 0 /\ Sound(y, 0) /\ Sound(x, i) /\ Unlinked(y, U)
      /\ Between(y, x, i, u, D[i], v) /\ DOMAIN S = Consoles
  BY GoodIs
<1>2. /\ Receptive(y) /\ Counted(y, 0) /\ Consecutive(y, 0) /\ OwnWords(y, sent[0])
      /\ Receptive(x) /\ Counted(x, i) /\ Consecutive(x, i) /\ OwnWords(x, sent[i])
      /\ got[0][i] \in Nat /\ SlotFits(x, i, u)
      /\ Exact(x, y, i, sent[i], got[0][i], u, D[i])
      /\ (D[i] # None => D[i].ack[i] \in 0 .. PacketIds(i) - 1)
  BY <1>1, SoundIs, BetweenIs
<1>3. i \in Nat /\ i > 0
  BY Players
<1>4. item \in Message /\ ~HasId(item) /\ item.player = i
  <2>1. u.messages \in Seq(Packet)
    BY <1>2 DEF SlotFits, Full
  <2>2. u.messages[k] \in Packet
    <3>. HIDE DEF u
    <3>. QED
      BY <2>1 DEF u
  <2>. QED
    BY <1>3, <2>2, ItemIs
<1>5. Takes(y, z, 0, i, item, packetId, playerCount[0])
  OBVIOUS
<1>6. Arrives(y, z, 0, i, item, packetId)
  <2>. HIDE DEF item
  <2>. QED
    BY <1>2, <1>4, <1>5, TakesArrives
<1>7. packetId \in 0 .. PacketIds(i) - 1
  <2>1. z.lastPacketIdFrom = [y.lastPacketIdFrom EXCEPT ![i] = packetId]
    BY <1>6 DEF Arrives
  <2>. QED
    BY <1>1, <1>2, <2>1, LagTakes DEF IdOf
<1>8. Receptive(z) /\ z.lastAckFrom = y.lastAckFrom
  <2>. HIDE DEF item
  <2>. QED
    BY <1>1, <1>2, <1>4, <1>5, <1>7, TakesReceptive
<1>9. /\ Exact(x, z, i, sent[i], got[0][i], u, D[i]) /\ Lag(x, z, i) = Lag(x, y, i) - 1
      /\ item.data = Top(x, sent[i]) - Lag(x, y, i) + 1
  <2>1. /\ Full(u) /\ k \in 1 .. Len(u.messages) /\ Accepts(y, i, packetId)
        /\ packetId = (u.firstPacketId + k - 1) % PacketIds(i)
    BY DEF IdOf
  <2>2. Arrives(y, z, 0, i, Item(i, u.messages[k]), packetId)
    BY <1>6
  <2>. HIDE DEF x, y, u, item
  <2>3. /\ Exact(x, z, i, sent[i], got[0][i], u, D[i])
        /\ Advances(x, y, z, i, sent[i], Item(i, u.messages[k]).data)
    BY <1>1, <2>1, <2>2, ServerReaches
  <2>. QED
    BY <2>3 DEF item, Advances
<1>. HIDE DEF item, v, v2, x, y, u
<1>10. v[i] \in Nat /\ v2[i] = v[i] + 1 /\ item.data = v[i] + 1
  <2>1. v[i] = Top(x, sent[i]) - Lag(x, y, i) /\ v2[i] = Top(x, sent[i]) - Lag(x, z, i)
    BY <1>1, PlacesOfServer DEF v, v2, x, y
  <2>2. Top(x, sent[i]) \in Nat /\ Lag(x, y, i) \in Nat
    BY <1>1, <1>2, TopIs, BackIs DEF Lag, Receptive, Exact
  <2>3. got[0][i] <= Top(x, sent[i]) - Lag(x, y, i)
    BY <1>2 DEF Exact, HasAll, Has
  <2>. QED
    BY <1>2, <1>9, <2>1, <2>2, <2>3
<1>11. /\ z.newOutgoing = y.newOutgoing /\ z.lastPacketId = y.lastPacketId
       /\ SameSender(y, z) \/ (playerCount[0] > 2 /\ Forwards(y, z, item))
  BY <1>5 DEF Takes, SameSender, Forwards
<1>12. \A j \in Consoles : v[j] \in Int /\ v2[j] \in Int /\ v[j] <= v2[j]
  <2>1. \A j \in Consoles : v[j] \in Int
    BY PlacesInt DEF v
  <2>2. v2[0] = v[0]
    BY <1>1, <1>11, PlacesOfServer DEF v, v2, y
  <2>3. ASSUME NEW j \in Clients, j # i PROVE v2[j] = v[j]
    <3>1. z.lastPacketIdFrom[j] = y.lastPacketIdFrom[j]
      BY <1>6, <2>3 DEF Arrives
    <3>2. v[j] = Top(S[j], sent[j]) - Lag(S[j], y, j) /\ v2[j] = Top(S[j], sent[j]) - Lag(S[j], z, j)
      BY <1>1, PlacesOfServer DEF v, v2, y
    <3>. QED
      BY <3>1, <3>2 DEF Lag
  <2>4. ASSUME NEW j \in Consoles PROVE v2[j] \in Int /\ v[j] <= v2[j]
    <3>1. CASE j = i
      BY <1>10, <3>1
    <3>2. CASE j # i
      <4>1. v2[j] = v[j]
        BY <2>2, <2>3, <3>2 DEF Consoles
      <4>. QED
        BY <2>1, <4>1
    <3>. QED
      BY <3>1, <3>2
  <2>. QED
    BY <2>1, <2>4
<1>13. Sound(z, 0)
  <2>1. Counted(z, 0) /\ Consecutive(z, 0)
    <3>1. CASE SameSender(y, z)
      BY <1>2, <3>1, CountedSame, ConsecutiveSame
    <3>2. CASE Forwards(y, z, item)
      BY <1>2, <1>3, <1>4, <3>2, CountedForwards, ConsecutiveForwards
    <3>. QED
      BY <1>11, <3>1, <3>2
  <2>2. OwnWords(z, sent[0])
    BY <1>2, <1>11 DEF OwnWords
  <2>3. ASSUME NEW q \in Consoles PROVE InOrder(Here(z), q, got[0][q])
    <3>1. got[0][q] \in Nat /\ InOrder(Here(y), q, got[0][q]) /\ Has(y, q, got[0][q]) \subseteq Nat
      BY <1>1, SoundIs
    <3>2. item.player = q => \A w \in Has(y, q, got[0][q]) : w < item.data
      <4>1. SUFFICES ASSUME q = i, NEW w \in Has(y, i, got[0][i]) PROVE w < item.data
        BY <1>4
      <4>2. w \in Nat
        BY <3>1, <4>1
      <4>3. w <= Top(x, sent[i]) - Lag(x, y, i)
        BY <1>2, <4>1 DEF Exact, HasAll
      <4>4. v[i] = Top(x, sent[i]) - Lag(x, y, i)
        BY <1>1, PlacesOfServer DEF v, x, y
      <4>. QED
        BY <1>10, <4>2, <4>3, <4>4
    <3>. QED
      BY <1>6, <3>1, <3>2, ArrivesInOrder
  <2>4. got[0] \in [Consoles -> Nat]
    BY <1>1 DEF Sound
  <2>. QED
    BY <1>8, <2>1, <2>2, <2>3, <2>4 DEF Sound
<1>14. ASSUME NEW p \in Clients PROVE Between(z, S[p], p, U[p], D[p], v2)
  <2>1. /\ p \in Consoles /\ Sound(S[p], p) /\ Between(y, S[p], p, U[p], D[p], v)
    BY GoodIs DEF v, y
  <2>2. Exact(S[p], y, p, sent[p], got[0][p], U[p], D[p])
    BY <1>1, <2>1, BetweenIs
  <2>3. Exact(S[p], z, p, sent[p], got[0][p], U[p], D[p])
    <3>1. CASE p = i
      BY <1>9, <3>1 DEF x, u
    <3>2. CASE p # i
      BY <1>1, <1>2, <1>4, <1>6, <2>1, <2>2, <3>2, ExactHears
    <3>. QED
      BY <3>1, <3>2
  <2>4. Single(p) => Exact(z, S[p], 0, sent[0], got[p][0], D[p], U[p])
    <3>1. SUFFICES ASSUME Single(p) PROVE Exact(z, S[p], 0, sent[0], got[p][0], D[p], U[p])
      OBVIOUS
    <3>2. SameSender(y, z)
      BY <1>11, <3>1 DEF Single
    <3>3. Exact(y, S[p], 0, sent[0], got[p][0], D[p], U[p])
      BY <2>1, <3>1, BetweenIs
    <3>. QED
      BY <3>2, <3>3, ExactSame
  <2>5. Grows(y, D[p], z, i, v[i], v2[i])
    <3>1. CASE SameSender(y, z)
      BY <3>1, GrowsSame
    <3>2. CASE Forwards(y, z, item)
      <4>1. item.data > 0 /\ v[i] = item.data - 1 /\ v2[i] = item.data
        BY <1>10
      <4>2. Grows(y, D[p], z, item.player, item.data - 1, item.data)
        BY <1>2, <1>4, <3>2, <4>1, GrowsForwards
      <4>. QED
        BY <1>4, <4>1, <4>2
    <3>. QED
      BY <1>11, <3>1, <3>2
  <2>. QED
    BY <1>1, <1>10, <1>11, <1>12, <2>1, <2>3, <2>4, <2>5, ServerGrows
<1>15. Unlinked(z, U)
  BY <1>1, <1>8 DEF Unlinked
<1>16. Good(With(S, 0, z), U, D)
  BY <1>13, <1>14, <1>15, GoodServer DEF v2
<1>. QED
  BY <1>8, <1>16 DEF y

LEMMA GoodClientMessage ==
  ASSUME NEW S, DOMAIN S = Consoles, NEW U, NEW D, NEW c \in Clients, D[c] # None, NEW count \in Nat,
         NEW x, NEW k, AtMessage(S, U, D, c, x, k), NEW packetId, IdOf(D[c], 0, k, packetId)
  PROVE  PastMessage(S, U, D, c, x, processMessage(x, c, 0, D[c].messages[k], packetId, count))
<1>. DEFINE T == With(S, c, x)
            message == D[c].messages[k]
            z == processMessage(x, c, 0, message, packetId, count)
<1>0. k \in 1 .. Len(D[c].messages) /\ (x.didReceiveFirstPacketFromServer \/ k = 1)
  BY DEF AtMessage
<1>1. c \in Consoles /\ T[c] = x /\ With(T, c, z) = With(S, c, z)
  BY Players, WithIs
<1>2. Good(T, U, D)
  BY DEF AtMessage
<1>. HIDE DEF T
<1>3. Sending(x) /\ SlotFits(T[0], 0, D[c])
  <2>1. Sound(x, c) /\ Between(T[0], T[c], c, U[c], D[c], AllPlaces(T))
    BY <1>1, <1>2, GoodIs
  <2>2. Counted(x, c)
    BY <1>1, <2>1, SoundIs
  <2>. QED
    BY <2>1, <2>2, BetweenIs DEF Counted
<1>4. Full(D[c])
  <2>1. Len(D[c].messages) \in Nat
    BY <1>3 DEF SlotFits
  <2>. QED
    BY <1>0, <2>1 DEF Full
<1>5. IF Accepts(x, 0, packetId)
      THEN Takes(x, z, c, 0, Item(0, message), packetId, count)
      ELSE z = x
  BY <1>3, MessageTakes
<1>. HIDE DEF z
<1>6. ASSUME Accepts(x, 0, packetId) PROVE PastMessage(S, U, D, c, x, z)
  <2>1. Takes(T[c], z, c, 0, Item(0, D[c].messages[k]), packetId, count)
    BY <1>1, <1>5, <1>6
  <2>2. Accepts(T[c], 0, packetId) /\ (~T[c].didReceiveFirstPacketFromServer => k = 1)
    BY <1>0, <1>1, <1>6
  <2>3. IdOf(D[c], 0, k, packetId)
    OBVIOUS
  <2>. HIDE DEF message
  <2>4. /\ Good(With(T, c, z), U, D) /\ z.lastAckFrom = T[c].lastAckFrom
        /\ z.didReceiveFirstPacketFromServer
    BY ONLY c \in Clients, <1>0, <1>2, <1>4, <2>1, <2>2, <2>3, GoodClientTakes, ZenonT(60)
  <2>. QED
    BY <1>1, <2>4 DEF PastMessage
<1>7. ASSUME ~Accepts(x, 0, packetId) PROVE PastMessage(S, U, D, c, x, z)
  <2>1. x.didReceiveFirstPacketFromServer
    BY <1>7 DEF Accepts
  <2>. QED
    BY <1>1, <1>2, <1>5, <1>7, <2>1 DEF PastMessage, T
<1>8. PastMessage(S, U, D, c, x, z)
  BY <1>6, <1>7
<1>. QED
  BY <1>8 DEF z, message

LEMMA GoodClientMessages ==
  ASSUME NEW S, NEW U, NEW D, Good(S, U, D), NEW c \in Clients, D[c] # None, NEW count \in Nat,
         NEW z, z = processMessages(S[c], c, 0, D[c], count)
  PROVE  Good(With(S, c, z), U, D) /\ z.lastAckFrom = S[c].lastAckFrom
<1>. DEFINE transfer == D[c]
            n == Len(transfer.messages)
<1>1. /\ DOMAIN S = Consoles /\ c \in Consoles
      /\ Between(S[0], S[c], c, U[c], D[c], AllPlaces(S))
  BY GoodIs
<1>2. transfer.messages \in Seq(Packet) /\ n \in Nat
  <2>1. SlotFits(S[0], 0, D[c])
    BY <1>1, BetweenIs
  <2>2. transfer.messages \in Seq(Packet)
    BY <2>1 DEF SlotFits
  <2>. QED
    BY <2>2
<1>3. PICK f : Receives(f, S[c], z, c, 0, transfer, count)
  BY <1>2, MessagesInSteps
<1>. DEFINE P(k) == /\ Good(With(S, c, f[k]), U, D) /\ f[k].lastAckFrom = S[c].lastAckFrom
                    /\ f[k].didReceiveFirstPacketFromServer \/ k = 0
            R == {k \in Nat : k <= n => P(k)}
<1>4. 0 \in R
  <2>1. f[0] = S[c] /\ With(S, c, S[c]) = S
    <3>1. f[0] = S[c]
      BY <1>3 DEF Receives
    <3>2. With(S, c, S[c]) = S
      BY <1>1, GoodIsFunction
    <3>. QED
      BY <3>1, <3>2
  <2>. QED
    BY <2>1
<1>5. ASSUME NEW k \in Nat, k \in R PROVE k + 1 \in R
  <2>1. SUFFICES ASSUME k + 1 <= n PROVE P(k + 1)
    OBVIOUS
  <2>2. k + 1 \in 1..n /\ k + 1 - 1 = k /\ k <= n
    BY <1>2, <2>1
  <2>. DEFINE j == k + 1
              packetId == (transfer.firstPacketId + j - 1) % PacketIds(0)
  <2>3. f[j] = processMessage(f[k], c, 0, transfer.messages[j], packetId, count)
    BY <1>3, <2>2 DEF Receives
  <2>4. P(k)
    BY <1>5, <2>2
  <2>11. DOMAIN S = Consoles
    BY <1>1
  <2>5. j \in 1 .. Len(D[c].messages) /\ (k = 0 => j = 1) /\ j # 0
    BY <2>2
  <2>6. IdOf(D[c], 0, j, packetId)
    BY DEF IdOf
  <2>7. f[j] = processMessage(f[k], c, 0, D[c].messages[j], packetId, count)
    BY <2>3
  <2>. HIDE DEF j, packetId, transfer
  <2>8. Good(With(S, c, f[k]), U, D) /\ (f[k].didReceiveFirstPacketFromServer \/ j = 1)
    BY <2>4, <2>5
  <2>9. AtMessage(S, U, D, c, f[k], j)
    BY <2>5, <2>8 DEF AtMessage
  <2>10. PastMessage(S, U, D, c, f[k], f[j])
    BY <2>6, <2>7, <2>9, <2>11, GoodClientMessage
  <2>12. P(j)
    BY <2>4, <2>10 DEF PastMessage
  <2>. QED
    BY <2>12 DEF j
<1>. HIDE DEF R
<1>6. n \in R
  BY <1>2, <1>4, <1>5, NatSetInduction
<1>7. f[n] = z
  BY <1>3 DEF Receives
<1>. QED
  BY <1>2, <1>6, <1>7 DEF R

LEMMA GoodServerMessage ==
  ASSUME NEW S, DOMAIN S = Consoles, NEW U, NEW D, NEW i \in Clients, U[i] # None,
         playerCount[0] \in Nat, NEW y, Good(With(S, 0, y), U, D),
         NEW k, k \in 1 .. Len(U[i].messages), NEW packetId, IdOf(U[i], i, k, packetId)
  PROVE  ServerPast(S, U, D, y,
                    processMessage(y, 0, i, U[i].messages[k], packetId, playerCount[0]))
<1>. DEFINE T == With(S, 0, y)
            message == U[i].messages[k]
            z == processMessage(y, 0, i, message, packetId, playerCount[0])
<1>1. 0 \in Consoles /\ T[0] = y /\ With(T, 0, z) = With(S, 0, z)
  BY Players, WithIs
<1>2. Good(T, U, D)
  OBVIOUS
<1>. HIDE DEF T
<1>3. Sending(y) /\ SlotFits(T[i], i, U[i])
  <2>1. Sound(y, 0) /\ Between(T[0], T[i], i, U[i], D[i], AllPlaces(T))
    BY <1>1, <1>2, GoodIs
  <2>2. Counted(y, 0)
    BY <1>1, <2>1, SoundIs
  <2>. QED
    BY <2>1, <2>2, BetweenIs DEF Counted
<1>4. Full(U[i]) /\ message \in Packet
  <2>. DEFINE m == U[i].messages
  <2>1. m \in Seq(Packet)
    BY <1>3 DEF SlotFits
  <2>2. k \in 1 .. Len(m)
    OBVIOUS
  <2>3. m[k] \in Packet
    <3>. HIDE DEF m
    <3>. QED
      BY <2>1, <2>2
  <2>4. Len(U[i].messages) \in Nat
    BY <2>1
  <2>. QED
    BY <2>3, <2>4 DEF Full
<1>5. i \in Nat
  BY Players
<1>6. IF Accepts(y, i, packetId)
      THEN Takes(y, z, 0, i, Item(i, message), packetId, playerCount[0])
      ELSE z = y
  BY <1>3, <1>5, MessageTakes
<1>7. Sending(z)
  <2>. HIDE DEF message
  <2>. QED
    BY <1>3, <1>4, <1>5, MessageKeeps DEF Kept
<1>. HIDE DEF z
<1>8. ASSUME Accepts(y, i, packetId) PROVE ServerPast(S, U, D, y, z)
  <2>1. Takes(T[0], z, 0, i, Item(i, U[i].messages[k]), packetId, playerCount[0])
    BY <1>1, <1>6, <1>8
  <2>2. Accepts(T[0], i, packetId)
    BY <1>1, <1>8
  <2>5. k \in 1 .. Len(U[i].messages)
    OBVIOUS
  <2>6. IdOf(U[i], i, k, packetId)
    OBVIOUS
  <2>. HIDE DEF message
  <2>3. Full(U[i])
    BY <1>4
  <2>7. ServerTaking(T, U, i, k, packetId, z)
    BY <1>7, <2>1, <2>2, <2>3, <2>5, <2>6 DEF ServerTaking
  <2>4. Good(With(T, 0, z), U, D) /\ z.lastAckFrom = T[0].lastAckFrom
    BY <1>2, <2>7, GoodServerTakes
  <2>. QED
    BY <1>1, <2>4 DEF ServerPast
<1>9. ASSUME ~Accepts(y, i, packetId) PROVE ServerPast(S, U, D, y, z)
  BY <1>2, <1>6, <1>9 DEF ServerPast, T
<1>10. ServerPast(S, U, D, y, z)
  BY <1>8, <1>9
<1>. QED
  BY <1>10 DEF z, message

LEMMA GoodServerMessages ==
  ASSUME NEW S, DOMAIN S = Consoles, NEW U, NEW D, NEW i \in Clients, U[i] # None,
         playerCount[0] \in Nat, NEW y, Good(With(S, 0, y), U, D)
  PROVE  ServerPast(S, U, D, y, processMessages(y, 0, i, U[i], playerCount[0]))
<1>. DEFINE transfer == U[i]
            n == Len(transfer.messages)
            z == processMessages(y, 0, i, transfer, playerCount[0])
            T == With(S, 0, y)
<1>1. Between(T[0], T[i], i, U[i], D[i], AllPlaces(T))
  <2>. HIDE DEF T
  <2>1. Good(T, U, D)
    BY DEF T
  <2>. QED
    BY <2>1, GoodIs
<1>. HIDE DEF T
<1>2. transfer.messages \in Seq(Packet) /\ n \in Nat
  <2>1. SlotFits(T[i], i, U[i])
    BY <1>1, BetweenIs
  <2>2. transfer.messages \in Seq(Packet)
    BY <2>1 DEF SlotFits
  <2>. QED
    BY <2>2
<1>3. PICK f : Receives(f, y, z, 0, i, transfer, playerCount[0])
  BY <1>2, MessagesInSteps
<1>. DEFINE R == {k \in Nat : k <= n => ServerPast(S, U, D, y, f[k])}
<1>4. 0 \in R
  <2>1. f[0] = y
    BY <1>3 DEF Receives
  <2>2. ServerPast(S, U, D, y, y)
    BY DEF ServerPast
  <2>. QED
    BY <2>1, <2>2
<1>5. ASSUME NEW k \in Nat, k \in R PROVE k + 1 \in R
  <2>1. SUFFICES ASSUME k + 1 <= n PROVE ServerPast(S, U, D, y, f[k + 1])
    OBVIOUS
  <2>2. k + 1 \in 1..n /\ k + 1 - 1 = k /\ k <= n
    BY <1>2, <2>1
  <2>. DEFINE j == k + 1
              packetId == (transfer.firstPacketId + j - 1) % PacketIds(i)
  <2>3. f[j] = processMessage(f[k], 0, i, transfer.messages[j], packetId, playerCount[0])
    BY <1>3, <2>2 DEF Receives
  <2>4. ServerPast(S, U, D, y, f[k])
    BY <1>5, <2>2
  <2>5. j \in 1 .. Len(U[i].messages)
    BY <2>2
  <2>6. IdOf(U[i], i, j, packetId)
    BY DEF IdOf
  <2>7. f[j] = processMessage(f[k], 0, i, U[i].messages[j], packetId, playerCount[0])
    BY <2>3
  <2>. HIDE DEF j, packetId, transfer
  <2>8. Good(With(S, 0, f[k]), U, D)
    BY <2>4 DEF ServerPast
  <2>9. ServerPast(S, U, D, f[k], f[j])
    BY <2>5, <2>6, <2>7, <2>8, GoodServerMessage
  <2>10. ServerPast(S, U, D, y, f[j])
    BY <2>4, <2>9 DEF ServerPast
  <2>. QED
    BY <2>10 DEF j
<1>. HIDE DEF R
<1>6. n \in R
  BY <1>2, <1>4, <1>5, NatSetInduction
<1>7. f[n] = z
  BY <1>3 DEF Receives
<1>8. ServerPast(S, U, D, y, z)
  <2>1. ServerPast(S, U, D, y, f[n])
    BY <1>2, <1>6 DEF R
  <2>. QED
    BY <1>7, <2>1
<1>. QED
  BY <1>8

-----------------------------------------------------------------------------
(* A console goes through what its adapter has of one player.              *)

LEMMA AckedAlike ==
  ASSUME NEW x, Receptive(x), NEW c, NEW i \in Consoles, NEW transfer
  PROVE  LET a == Acked(x, c, i, transfer)
         IN  /\ SameSender(x, a) /\ Alike(x, a) /\ Receptive(a)
             /\ AckNoted(x, a, i, transfer.ack[c])
<1>. DEFINE a == Acked(x, c, i, transfer)
<1>1. /\ SameSender(x, a) /\ SameReceiver(x, a)
      /\ a.lastAckFrom = [x.lastAckFrom EXCEPT ![i] = transfer.ack[c]]
  BY AckedLeaves DEF Receptive
<1>. HIDE DEF a
<1>2. DOMAIN a.lastAckFrom = Consoles
  BY <1>1 DEF Receptive
<1>3. Receptive(a) /\ Alike(x, a)
  BY <1>1, <1>2 DEF Receptive, SameReceiver, Alike, Here
<1>4. SameSender(x, a) /\ Alike(x, a) /\ Receptive(a)
      /\ AckNoted(x, a, i, transfer.ack[c])
  BY <1>1, <1>3 DEF AckNoted
<1>. QED
  BY <1>4 DEF a

LEMMA HeardAlike ==
  ASSUME NEW x, Receptive(x), NEW c, NEW i, NEW transfer
  PROVE  LET h == Heard(x, c, i, transfer)
         IN  SameSender(x, h) /\ Alike(x, h) /\ Receptive(h) /\ h.lastAckFrom = x.lastAckFrom
<1>. DEFINE h == Heard(x, c, i, transfer)
<1>1. SameSender(x, h) /\ SameReceiver(x, h) /\ h.lastAckFrom = x.lastAckFrom
  BY HeardLeaves DEF Receptive
<1>. HIDE DEF h
<1>2. Receptive(h) /\ Alike(x, h)
  BY <1>1, AlikeSame
<1>3. SameSender(x, h) /\ Alike(x, h) /\ Receptive(h) /\ h.lastAckFrom = x.lastAckFrom
  BY <1>1, <1>2
<1>. QED
  BY <1>3 DEF h

LEMMA GoodKept ==
  ASSUME NEW S, NEW U, NEW D, Good(S, U, D), NEW c \in Consoles, NEW z, SameSender(S[c], z),
         Alike(S[c], z), Receptive(z),
         c = 0 => \A p \in Clients \ linked : z.lastAckFrom[p] = NO_ACK_RECEIVED_YET
  PROVE  Good(With(S, c, z), U, D)
  BY GoodSame

LEMMA GoodClientIncoming ==
  ASSUME NEW S, NEW U, NEW D, Good(S, U, D), NEW c \in Clients, D[c] # None, NEW count \in Nat
  PROVE  ClientPast(S, U, D, c, IncomingFrom(S[c], c, 0, D[c], count))
<1>. DEFINE x == S[c]
            d == D[c]
            a == Acked(x, c, 0, d)
            m == processMessages(a, c, 0, d, count)
            h == Heard(m, c, 0, d)
<1>0. /\ DOMAIN S = Consoles /\ c \in Consoles /\ c # 0 /\ 0 \in Consoles /\ Sound(x, c)
  BY GoodIs
<1>1. IncomingFrom(x, c, 0, d, count) = h
  BY IncomingIs
<1>2. Receptive(x)
  BY <1>0, SoundIs
<1>. DEFINE Facts(g) == /\ SameSender(x, g) /\ Alike(x, g) /\ Receptive(g)
                        /\ AckNoted(x, g, 0, d.ack[c])
<1>3. Facts(a)
  <2>1. 0 \in Consoles
    BY <1>0
  <2>. HIDE DEF x, d
  <2>. QED
    BY ONLY <1>2, <2>1, AckedAlike
<1>. DEFINE T == With(S, c, a)
<1>. HIDE DEF a
<1>4. Good(T, U, D)
  BY <1>0, <1>3, GoodKept
<1>5. T[c] = a
  BY <1>0, WithIs
<1>6. \A g : With(T, c, g) = With(S, c, g)
  BY <1>0, WithIs
<1>. HIDE DEF T
<1>7. Good(With(T, c, m), U, D) /\ m.lastAckFrom = a.lastAckFrom
  <2>1. m = processMessages(T[c], c, 0, D[c], count)
    BY <1>5
  <2>. HIDE DEF m
  <2>2. Good(With(T, c, m), U, D) /\ m.lastAckFrom = T[c].lastAckFrom
    BY <1>4, <2>1, GoodClientMessages
  <2>. QED
    BY <1>5, <2>2
<1>. HIDE DEF m
<1>. DEFINE R == With(S, c, m)
<1>8. Good(R, U, D)
  BY <1>6, <1>7
<1>9. R[c] = m /\ \A g : With(R, c, g) = With(S, c, g)
  BY <1>0, WithIs
<1>. HIDE DEF R
<1>10. Receptive(m)
  <2>1. Sound(m, c)
    BY <1>0, <1>8, <1>9, GoodIs
  <2>. QED
    BY <1>0, <2>1, SoundIs
<1>11. SameSender(m, h) /\ Alike(m, h) /\ Receptive(h) /\ h.lastAckFrom = m.lastAckFrom
  <2>. HIDE DEF d
  <2>. QED
    BY <1>10, HeardAlike
<1>. HIDE DEF h
<1>12. Good(With(S, c, h), U, D)
  <2>1. Good(With(R, c, h), U, D)
    BY <1>0, <1>8, <1>9, <1>11, GoodKept
  <2>. QED
    BY <1>9, <2>1
<1>13. h.lastAckFrom[0] = d.ack[c]
  <2>1. h.lastAckFrom = [x.lastAckFrom EXCEPT ![0] = d.ack[c]]
    BY <1>3, <1>7, <1>11 DEF AckNoted
  <2>. QED
    BY <1>0, <1>2, <2>1 DEF Receptive
<1>14. ClientPast(S, U, D, c, h)
  BY <1>12, <1>13 DEF ClientPast
<1>. QED
  BY <1>1, <1>14

LEMMA GoodServerIncoming ==
  ASSUME NEW S, DOMAIN S = Consoles, NEW U, NEW D, NEW i \in Clients, U[i] # None,
         playerCount[0] \in Nat, NEW y, Good(With(S, 0, y), U, D)
  PROVE  HearsFrom(S, U, D, i, y, IncomingFrom(y, 0, i, U[i], playerCount[0]))
<1>. DEFINE u == U[i]
            a == Acked(y, 0, i, u)
            m == processMessages(a, 0, i, u, playerCount[0])
            h == Heard(m, 0, i, u)
            Y == With(S, 0, y)
<1>1. IncomingFrom(y, 0, i, u, playerCount[0]) = h
  BY IncomingIs
<1>2. 0 \in Consoles /\ i \in Consoles /\ Y[0] = y /\ \A g : With(Y, 0, g) = With(S, 0, g)
  BY Players, WithIs
<1>3. Good(Y, U, D)
  OBVIOUS
<1>. HIDE DEF Y
<1>4. Receptive(y) /\ Unlinked(y, U)
  <2>1. Sound(y, 0) /\ Unlinked(y, U)
    BY <1>2, <1>3, GoodIs
  <2>. QED
    BY <1>2, <2>1, SoundIs
<1>. DEFINE Facts(g) == /\ SameSender(y, g) /\ Alike(y, g) /\ Receptive(g)
                        /\ AckNoted(y, g, i, u.ack[0])
<1>5. Facts(a)
  <2>. HIDE DEF u
  <2>. QED
    BY <1>2, <1>4, AckedAlike
<1>. HIDE DEF a
<1>6. \A p \in Clients \ linked : a.lastAckFrom[p] = NO_ACK_RECEIVED_YET
  <2>1. ASSUME NEW p \in Clients \ linked PROVE p # i /\ y.lastAckFrom[p] = NO_ACK_RECEIVED_YET
    BY <1>4 DEF Unlinked
  <2>. QED
    BY <1>5, <2>1 DEF AckNoted
<1>. DEFINE T == With(S, 0, a)
<1>7. Good(T, U, D)
  <2>1. Good(With(Y, 0, a), U, D)
    BY <1>2, <1>3, <1>5, <1>6, GoodKept
  <2>. QED
    BY <1>2, <2>1
<1>8. Good(With(S, 0, m), U, D) /\ m.lastAckFrom = a.lastAckFrom
  <2>. HIDE DEF u
  <2>1. ServerPast(S, U, D, a, m)
    BY <1>7, GoodServerMessages DEF u
  <2>. QED
    BY <2>1 DEF ServerPast
<1>. HIDE DEF m, T
<1>. DEFINE R == With(S, 0, m)
<1>9. Good(R, U, D)
  BY <1>8
<1>10. R[0] = m /\ \A g : With(R, 0, g) = With(S, 0, g)
  BY <1>2, WithIs
<1>. HIDE DEF R
<1>11. Receptive(m)
  <2>1. Sound(m, 0)
    BY <1>9, <1>10, GoodIs
  <2>. QED
    BY <1>2, <2>1, SoundIs
<1>12. SameSender(m, h) /\ Alike(m, h) /\ Receptive(h) /\ h.lastAckFrom = m.lastAckFrom
  <2>. HIDE DEF u
  <2>. QED
    BY <1>11, HeardAlike
<1>. HIDE DEF h
<1>13. Good(With(S, 0, h), U, D)
  <2>1. \A p \in Clients \ linked : h.lastAckFrom[p] = NO_ACK_RECEIVED_YET
    BY <1>6, <1>8, <1>12
  <2>2. Good(With(R, 0, h), U, D)
    BY <1>2, <1>9, <1>10, <1>12, <2>1, GoodKept
  <2>. QED
    BY <1>10, <2>2
<1>14. HearsFrom(S, U, D, i, y, h)
  BY <1>5, <1>8, <1>12, <1>13 DEF HearsFrom, AckNoted
<1>. QED
  BY <1>1, <1>14

-----------------------------------------------------------------------------
(* What is received moves on to the program's queue.                       *)

LEMMA SameMessages ==
  ASSUME NEW q \in Seq(Message), NEW r \in Seq(Message), Len(q) = Len(r),
         \A k \in 1 .. Len(q) : q[k] = r[k]
  PROVE  q = r
<1>1. /\ DOMAIN q = 1 .. Len(q) /\ DOMAIN r = 1 .. Len(q)
      /\ q = [k \in DOMAIN q |-> q[k]] /\ r = [k \in DOMAIN r |-> r[k]]
  OBVIOUS
<1>. QED
  BY <1>1

LEMMA MovesJoin ==
  ASSUME NEW src \in Queue, NEW dst \in Queue, NEW n, NEW from \in Queue, NEW to \in Queue,
         Moves(src, dst, n, from, to)
  PROVE  Whole(to, from, dst, src)
<1>. DEFINE a == Len(dst)
            b == Len(src)
            q == to \o from
            r == dst \o src
<1>1. /\ a \in Nat /\ b \in Nat /\ Len(from) \in Nat /\ Len(to) \in Nat
      /\ src \in Seq(Message) /\ dst \in Seq(Message)
      /\ from \in Seq(Message) /\ to \in Seq(Message)
  BY Lengths
<1>2. n \in Nat /\ n <= b /\ Len(to) = a + n /\ Len(from) = b - n
  BY DEF Moves
<1>3. /\ \A k \in 1 .. a : to[k] = dst[k]
      /\ \A k \in 1 .. n : to[a + k] = src[k]
      /\ \A k \in 1 .. b - n : from[k] = src[n + k]
  BY DEF Moves
<1>4. /\ q \in Seq(Message) /\ Len(q) = Len(to) + Len(from)
      /\ \A k \in 1 .. Len(to) : q[k] = to[k]
      /\ \A k \in 1 .. Len(from) : q[Len(to) + k] = from[k]
  BY <1>1
<1>5. /\ r \in Seq(Message) /\ Len(r) = a + b
      /\ \A k \in 1 .. a : r[k] = dst[k]
      /\ \A k \in 1 .. b : r[a + k] = src[k]
  BY <1>1
<1>. HIDE DEF a, b, q, r
<1>6. Len(q) = Len(r) /\ Len(q) = a + b
  BY <1>1, <1>2, <1>4, <1>5
<1>7. ASSUME NEW k \in 1 .. Len(q) PROVE q[k] = r[k]
  <2>1. CASE k <= a
    <3>1. k \in 1 .. a /\ k \in 1 .. Len(to)
      BY <1>1, <1>2, <1>6, <2>1
    <3>. QED
      BY <1>3, <1>4, <1>5, <3>1
  <2>2. CASE k > a /\ k <= a + n
    <3>. DEFINE j == k - a
    <3>1. j \in 1 .. n /\ j \in 1 .. b /\ k \in 1 .. Len(to) /\ a + j = k
      BY <1>1, <1>2, <1>6, <2>2
    <3>. HIDE DEF j
    <3>2. to[a + j] = src[j] /\ r[a + j] = src[j]
      BY <1>3, <1>5, <3>1
    <3>. QED
      BY <1>4, <3>1, <3>2
  <2>3. CASE k > a + n
    <3>. DEFINE j == k - (a + n)
    <3>1. /\ j \in 1 .. b - n /\ j \in 1 .. Len(from) /\ n + j \in 1 .. b
          /\ Len(to) + j = k /\ a + (n + j) = k
      BY <1>1, <1>2, <1>6, <2>3
    <3>. HIDE DEF j
    <3>2. from[j] = src[n + j] /\ q[Len(to) + j] = from[j] /\ r[a + (n + j)] = src[n + j]
      BY <1>3, <1>4, <1>5, <3>1
    <3>. QED
      BY <3>1, <3>2
  <2>. QED
    BY <1>1, <1>2, <1>6, <2>1, <2>2, <2>3
<1>8. q = r
  BY <1>4, <1>5, <1>6, <1>7, SameMessages
<1>. QED
  BY <1>8 DEF q, r, Whole

LEMMA CopyAlike ==
  ASSUME NEW x, Receptive(x)
  PROVE  LET k == copyIncomingState(x)
         IN  SameSender(x, k) /\ Alike(x, k) /\ Receptive(k) /\ k.lastAckFrom = x.lastAckFrom
<1>. DEFINE k == copyIncomingState(x)
            to == MovedTo(x.newIncoming, x.incoming)
            from == MovedFrom(x.newIncoming, x.incoming)
<1>1. /\ SameSender(x, k) /\ k.lastAckFrom = x.lastAckFrom /\ k.overflow = x.overflow
      /\ k.isReading = x.isReading /\ k.retransmission = x.retransmission
      /\ k.lastPacketIdFrom = x.lastPacketIdFrom
      /\ k.didReceiveFirstPacketFromServer = x.didReceiveFirstPacketFromServer
      /\ k.incoming = to /\ k.newIncoming = from
  <2>. HIDE DEF k, to, from
  <2>1. ~x.isReading
    BY DEF Receptive
  <2>. QED
    BY <2>1, CopyLeavesSender DEF Receptive, k, to, from
<1>2. x.incoming \in Queue /\ x.newIncoming \in Queue
  BY DEF Receptive
<1>3. /\ to \in Queue /\ from \in Queue
      /\ Moves(x.newIncoming, x.incoming, Fits(x.newIncoming, x.incoming), from, to)
  BY <1>2, MoveKeeps, MovesIs
<1>. HIDE DEF to, from, k
<1>4. Whole(to, from, x.incoming, x.newIncoming)
  BY <1>2, <1>3, MovesJoin
<1>5. Alike(x, k)
  BY <1>1, <1>4 DEF Alike, Here, Whole
<1>6. DOMAIN k = SessionFields
  BY <1>1 DEF SameSender
<1>7. Receptive(k)
  BY <1>1, <1>3, <1>6 DEF Receptive
<1>. QED
  BY <1>1, <1>5, <1>7 DEF k

-----------------------------------------------------------------------------
(* What is confirmed leaves.                                               *)

LEMMA RingExists ==
  ASSUME NEW x, NEW count
  PROVE  \E f : Ringed(f, x, count)
<1>. DEFINE Go(s, i) ==
              IF i = 0 \/ i \notin Clients \/ i >= count \/ x.lastAckFrom[i] = NO_ACK_RECEIVED_YET
              THEN IF i = 0 THEN NO_ACK_RECEIVED_YET ELSE s
              ELSE IF \/ s = NO_ACK_RECEIVED_YET
                      \/ (s - x.lastAckFrom[i]) % MAX_PACKET_IDS_CLIENT >= MaxInflight(1)
              THEN x.lastAckFrom[i]
              ELSE s
            s0 == NO_ACK_RECEIVED_YET
            s1 == Go(s0, 1)
            s2 == Go(s1, 2)
            s3 == Go(s2, 3)
            s4 == Go(s3, 4)
            f == [i \in 0..4 |-> IF i = 0 THEN s0 ELSE IF i = 1 THEN s1
                                 ELSE IF i = 2 THEN s2 ELSE IF i = 3 THEN s3 ELSE s4]
<1>0. \A s : Go(s, 0) = s0
  OBVIOUS
<1>. HIDE DEF Go, s0
<1>1. \A i \in 0..4 : f[i] = Go(f[i - 1], i)
  <2>1. f[0] = s0 /\ f[1] = s1 /\ f[2] = s2 /\ f[3] = s3 /\ f[4] = s4
    OBVIOUS
  <2>2. \A i \in 0..4 : i \in {0, 1, 2, 3, 4}
    OBVIOUS
  <2>. HIDE DEF f
  <2>. QED
    BY <1>0, <2>1, <2>2
<1>2. f = [i \in 0..4 |-> f[i]]
  OBVIOUS
<1>. HIDE DEF f
<1>3. f = [i \in 0..4 |-> Go(f[i - 1], i)]
  BY <1>1, <1>2
<1>. QED
  BY <1>3, Zenon DEF Ringed, Go

LEMMA RingOfOne ==
  ASSUME NEW x, NEW count, NEW p \in Clients,
         \A i \in Clients \ {p} : x.lastAckFrom[i] = NO_ACK_RECEIVED_YET,
         RingMinAck(x, count) # NO_ACK_RECEIVED_YET
  PROVE  ~ (p >= count) /\ RingMinAck(x, count) = x.lastAckFrom[p]
<1>. DEFINE f == CHOOSE f : Ringed(f, x, count)
<1>1. RingMinAck(x, count) = f[4]
  BY Zenon DEF RingMinAck, Ringed
<1>2. Ringed(f, x, count)
  BY RingExists
<1>. HIDE DEF f
<1>. DEFINE One(a) == a = NO_ACK_RECEIVED_YET \/ (~ (p >= count) /\ a = x.lastAckFrom[p])
<1>3. f[0] = NO_ACK_RECEIVED_YET
  BY <1>2 DEF Ringed
<1>4. ASSUME NEW i \in 1..4
      PROVE  \/ f[i] = f[i - 1]
             \/ i \in Clients /\ ~ (i >= count) /\ f[i] = x.lastAckFrom[i]
                /\ x.lastAckFrom[i] # NO_ACK_RECEIVED_YET
  <2>1. i \in 0..4 /\ i # 0
    OBVIOUS
  <2>. QED
    BY <1>2, <2>1 DEF Ringed
<1>5. ASSUME NEW i \in 1..4, One(f[i - 1]) PROVE One(f[i])
  <2>1. CASE f[i] = f[i - 1]
    BY <1>5, <2>1
  <2>2. CASE i \in Clients /\ ~ (i >= count) /\ f[i] = x.lastAckFrom[i]
             /\ x.lastAckFrom[i] # NO_ACK_RECEIVED_YET
    <3>1. i = p
      BY <2>2
    <3>. QED
      BY <2>2, <3>1
  <2>. QED
    BY <1>4, <2>1, <2>2
<1>. HIDE DEF One
<1>6. One(f[0])
  BY <1>3 DEF One
<1>7. One(f[1])
  <2>1. 1 \in 1..4 /\ 1 - 1 = 0
    OBVIOUS
  <2>. QED
    BY <1>5, <1>6, <2>1
<1>8. One(f[2])
  BY <1>5, <1>7
<1>9. One(f[3])
  BY <1>5, <1>8
<1>10. One(f[4])
  BY <1>5, <1>9
<1>. QED
  BY <1>1, <1>10 DEF One

-----------------------------------------------------------------------------
(* All that a console makes of what its adapter has.                       *)

LEMMA GoodCopies ==
  ASSUME NEW S, DOMAIN S = Consoles, NEW U, NEW D, NEW c \in Consoles, NEW x,
         Good(With(S, c, x), U, D)
  PROVE  Good(With(S, c, copyIncomingState(x)), U, D)
<1>. DEFINE T == With(S, c, x)
            k == copyIncomingState(x)
<1>1. T[c] = x /\ With(T, c, k) = With(S, c, k)
  BY WithIs
<1>2. Good(T, U, D)
  OBVIOUS
<1>. HIDE DEF T, k
<1>3. Sound(x, c) /\ Unlinked(T[0], U)
  BY <1>1, <1>2, GoodIs
<1>4. Receptive(x)
  BY <1>3, SoundIs
<1>5. SameSender(x, k) /\ Alike(x, k) /\ Receptive(k) /\ k.lastAckFrom = x.lastAckFrom
  BY <1>4, CopyAlike DEF k
<1>6. c = 0 => \A p \in Clients \ linked : k.lastAckFrom[p] = NO_ACK_RECEIVED_YET
  BY <1>1, <1>3, <1>5 DEF Unlinked
<1>7. Good(With(T, c, k), U, D)
  BY <1>1, <1>2, <1>5, <1>6, GoodKept
<1>8. Good(With(S, c, k), U, D)
  BY <1>1, <1>7
<1>. QED
  BY <1>8 DEF k

LEMMA GoodClientData ==
  ASSUME NEW S, NEW U, NEW D, Good(S, U, D), NEW c \in Clients, D[c] # None, NEW count \in Nat,
         NEW data, data = [i \in {0} |-> D[c]]
  PROVE  Good(With(S, c, addIncomingMessagesFromData(S[c], c, data, {0}, count)), U, D)
<1>. DEFINE x == S[c]
<1>0. DOMAIN S = Consoles /\ c \in Consoles /\ c # 0 /\ Sound(x, c)
  BY GoodIs
<1>1. PICK f : /\ Listens(f, x, c, data, {0}, count)
               /\ addIncomingMessagesFromData(x, c, data, {0}, count)
                    = copyIncomingState(Settled(f[4], c, x.retransmission, count))
  BY DataInSteps
<1>2. x.retransmission
  BY <1>0, SoundIs DEF Receptive
<1>3. data[0] = D[c] /\ DOMAIN data = {0}
  OBVIOUS
<1>4. f[0] = IncomingFrom(x, c, 0, D[c], count)
  <2>1. f[-1] = x /\ 0 \in 0..4 /\ 0 - 1 = -1 /\ 0 \in {0}
    BY <1>1 DEF Listens
  <2>. HIDE DEF x
  <2>. QED
    BY <1>1, <1>3, <2>1 DEF Listens
<1>5. f[4] = f[0]
  <2>1. ASSUME NEW i \in 1..4 PROVE f[i] = f[i - 1]
    <3>1. i \in 0..4 /\ i \notin {0}
      OBVIOUS
    <3>. QED
      BY <1>1, <3>1 DEF Listens
  <2>2. f[1] = f[0]
    <3>1. 1 \in 1..4 /\ 1 - 1 = 0
      OBVIOUS
    <3>. QED
      BY <2>1, <3>1
  <2>3. f[2] = f[1]
    BY <2>1
  <2>4. f[3] = f[2]
    BY <2>1
  <2>5. f[4] = f[3]
    BY <2>1
  <2>. QED
    BY <2>2, <2>3, <2>4, <2>5
<1>. DEFINE y == f[4]
            ack == ConfirmedAck(y, c, count)
            z == Settled(y, c, x.retransmission, count)
            T == With(S, c, y)
<1>6. Good(T, U, D) /\ y.lastAckFrom[0] = D[c].ack[c]
  <2>1. ClientPast(S, U, D, c, y)
    BY <1>4, <1>5, GoodClientIncoming
  <2>. QED
    BY <2>1 DEF ClientPast
<1>7. ack = D[c].ack[c]
  BY <1>0, <1>6 DEF ConfirmedAck
<1>8. T[c] = y /\ \A g : With(T, c, g) = With(S, c, g)
  BY <1>0, WithIs
<1>. HIDE DEF T, y
<1>9. Counted(y, c)
  <2>1. Sound(y, c)
    BY <1>0, <1>6, <1>8, GoodIs
  <2>. QED
    BY <1>0, <2>1, SoundIs
<1>. DEFINE r == removeConfirmedMessages(y, c, ack)
<1>10. Good(With(S, c, r), U, D)
  <2>1. Sending(r)
    BY <1>9, RemoveConfirmedKeeps DEF Counted, Kept
  <2>2. \E n \in Nat : Confirms(y, r, c, ack, n)
    BY <1>9, RemovedConfirms
  <2>. HIDE DEF r, ack
  <2>3. PICK n \in Nat : Confirms(y, r, c, ack, n)
    BY <2>2
  <2>4. Confirms(T[c], r, c, D[c].ack[c], n)
    BY <1>7, <1>8, <2>3
  <2>5. Good(With(T, c, r), U, D)
    BY <1>6, <2>1, <2>4, GoodClientCuts
  <2>. QED
    BY <1>8, <2>5
<1>11. z = r \/ z = y
  BY DEF Settled
<1>. HIDE DEF r, ack, z
<1>12. Good(With(S, c, z), U, D)
  BY <1>6, <1>10, <1>11 DEF T
<1>13. Good(With(S, c, copyIncomingState(z)), U, D)
  BY <1>0, <1>12, GoodCopies
<1>. QED
  BY <1>1, <1>13 DEF z, y

LEMMA HeededNext ==
  ASSUME NEW S, DOMAIN S = Consoles, NEW U, DOMAIN U = Clients, NEW D, playerCount[0] \in Nat,
         NEW y, NEW i \in 0..4, Heeded(S, U, D, y, i - 1), NEW remote,
         remote = {p \in Clients : p < playerCount[0]}, NEW z,
         z = IF i \in remote /\ i \in DOMAIN U /\ U[i] # None
             THEN IncomingFrom(y, 0, i, U[i], playerCount[0]) ELSE y
  PROVE  Heeded(S, U, D, z, i)
<1>0. \A p \in Clients : p \in 1..4 /\ p \in Consoles
  BY PacketsAssumption, Players
<1>1. /\ Good(With(S, 0, y), U, D)
      /\ \A p \in Clients : ~ (p >= playerCount[0]) /\ p <= i - 1 /\ U[p] # None
                            => y.lastAckFrom[p] = U[p].ack[0]
  BY DEF Heeded
<1>2. CASE i \in remote /\ i \in DOMAIN U /\ U[i] # None
  <2>1. i \in Clients /\ U[i] # None
    BY <1>2
  <2>2. HearsFrom(S, U, D, i, y, z)
    <3>1. z = IncomingFrom(y, 0, i, U[i], playerCount[0])
      BY <1>2
    <3>. QED
      BY <1>1, <2>1, <3>1, GoodServerIncoming
  <2>3. Good(With(S, 0, z), U, D) /\ z.lastAckFrom = [y.lastAckFrom EXCEPT ![i] = U[i].ack[0]]
    BY <2>2 DEF HearsFrom
  <2>4. DOMAIN y.lastAckFrom = Consoles
    <3>1. Sound(y, 0) /\ 0 \in Consoles
      <4>1. With(S, 0, y)[0] = y /\ 0 \in Consoles
        BY Players, WithIs
      <4>. QED
        BY <1>1, <4>1, GoodIs
    <3>. QED
      BY <3>1, SoundIs DEF Receptive
  <2>5. ASSUME NEW p \in Clients, ~ (p >= playerCount[0]), p <= i, U[p] # None
        PROVE  z.lastAckFrom[p] = U[p].ack[0]
    <3>1. CASE p = i
      BY <1>0, <2>3, <2>4, <3>1
    <3>2. CASE p # i
      <4>1. p <= i - 1
        BY <1>0, <2>5, <3>2
      <4>. QED
        BY <1>0, <1>1, <2>3, <2>4, <2>5, <3>2, <4>1
    <3>. QED
      BY <3>1, <3>2
  <2>. QED
    BY <2>3, <2>5 DEF Heeded
<1>3. CASE ~ (i \in remote /\ i \in DOMAIN U /\ U[i] # None)
  <2>1. z = y
    BY <1>3
  <2>2. ASSUME NEW p \in Clients, ~ (p >= playerCount[0]), p <= i, U[p] # None
        PROVE  y.lastAckFrom[p] = U[p].ack[0]
    <3>1. p # i
      <4>1. SUFFICES ASSUME p = i PROVE FALSE
        OBVIOUS
      <4>2. p \in Int
        BY <1>0
      <4>. QED
        BY <1>3, <2>2, <4>1, <4>2
    <3>2. p <= i - 1
      BY <1>0, <2>2, <3>1
    <3>. QED
      BY <1>1, <2>2, <3>2
  <2>. QED
    BY <1>1, <2>1, <2>2 DEF Heeded
<1>. QED
  BY <1>2, <1>3

LEMMA GoodServerData ==
  ASSUME NEW S, NEW U, DOMAIN U = Clients, NEW D, Good(S, U, D), playerCount[0] \in Nat,
         NEW q \in Clients, U[q] # None, NEW remote, remote = {p \in Clients : p < playerCount[0]}
  PROVE  Good(With(S, 0, addIncomingMessagesFromData(S[0], 0, U, remote, playerCount[0])), U, D)
<1>. DEFINE x == S[0]
            count == playerCount[0]
<1>0. DOMAIN S = Consoles /\ 0 \in Consoles /\ Sound(x, 0) /\ Unlinked(x, U)
  BY GoodIs
<1>1. PICK f : /\ Listens(f, x, 0, U, remote, count)
               /\ addIncomingMessagesFromData(x, 0, U, remote, count)
                    = copyIncomingState(Settled(f[4], 0, x.retransmission, count))
  <2>. HIDE DEF x, count
  <2>. QED
    BY DataInSteps
<1>2. ASSUME NEW i \in 0..4, Heeded(S, U, D, f[i - 1], i - 1) PROVE Heeded(S, U, D, f[i], i)
  <2>1. f[i] = IF i \in remote /\ i \in DOMAIN U /\ U[i] # None
               THEN IncomingFrom(f[i - 1], 0, i, U[i], playerCount[0]) ELSE f[i - 1]
    BY <1>1 DEF Listens
  <2>. DEFINE y == f[i - 1]
  <2>2. Heeded(S, U, D, y, i - 1)
    BY <1>2
  <2>3. f[i] = IF i \in remote /\ i \in DOMAIN U /\ U[i] # None
               THEN IncomingFrom(y, 0, i, U[i], playerCount[0]) ELSE y
    BY <2>1
  <2>. HIDE DEF y
  <2>. QED
    BY <1>0, <2>2, <2>3, HeededNext
<1>3. Heeded(S, U, D, f[4], 4)
  <2>1. Heeded(S, U, D, f[-1], -1)
    <3>1. f[-1] = S[0]
      BY <1>1 DEF Listens
    <3>2. With(S, 0, S[0]) = S
      BY <1>0, GoodIsFunction
    <3>3. ASSUME NEW p \in Clients PROVE ~ (p <= -1)
      <4>1. p \in 1..4
        BY PacketsAssumption
      <4>. QED
        BY <4>1
    <3>. QED
      BY <3>1, <3>2, <3>3 DEF Heeded
  <2>2. Heeded(S, U, D, f[0], 0)
    <3>1. 0 \in 0..4 /\ 0 - 1 = -1
      OBVIOUS
    <3>. QED
      BY <1>2, <2>1, <3>1
  <2>3. Heeded(S, U, D, f[1], 1)
    <3>1. 1 \in 0..4 /\ 1 - 1 = 0
      OBVIOUS
    <3>. QED
      BY <1>2, <2>2, <3>1
  <2>4. Heeded(S, U, D, f[2], 2)
    <3>1. 2 \in 0..4 /\ 2 - 1 = 1
      OBVIOUS
    <3>. QED
      BY <1>2, <2>3, <3>1
  <2>5. Heeded(S, U, D, f[3], 3)
    <3>1. 3 \in 0..4 /\ 3 - 1 = 2
      OBVIOUS
    <3>. QED
      BY <1>2, <2>4, <3>1
  <2>. QED
    <3>1. 4 \in 0..4 /\ 4 - 1 = 3
      OBVIOUS
    <3>. QED
      BY <1>2, <2>5, <3>1
<1>. DEFINE y == f[4]
            ack == RingMinAck(y, count)
            r == removeConfirmedMessages(y, 0, ack)
            z == Settled(y, 0, x.retransmission, count)
            T == With(S, 0, y)
<1>4. Good(T, U, D)
  BY <1>3 DEF Heeded
<1>5. ASSUME NEW p \in Clients, ~ (p >= count), U[p] # None PROVE y.lastAckFrom[p] = U[p].ack[0]
  <2>1. p \in 1..4
    BY PacketsAssumption
  <2>2. p <= 4
    BY <2>1
  <2>. QED
    BY <1>3, <1>5, <2>2 DEF Heeded
<1>6. T[0] = y /\ \A g : With(T, 0, g) = With(S, 0, g)
  BY <1>0, WithIs
<1>. HIDE DEF T, y
<1>7. Sound(y, 0) /\ Unlinked(y, U)
  BY <1>4, <1>6, GoodIs
<1>8. Counted(y, 0)
  BY <1>0, <1>7, SoundIs
<1>9. ASSUME ack # NO_ACK_RECEIVED_YET PROVE Good(With(S, 0, r), U, D)
  <2>1. Sending(r)
    BY <1>8, RemoveConfirmedKeeps DEF Counted, Kept
  <2>2. \E n \in Nat : Confirms(y, r, 0, ack, n)
    BY <1>8, RemovedConfirms
  <2>3. ASSUME NEW p \in Clients, Single(p) PROVE U[p] # None /\ ack = U[p].ack[0]
    <3>1. linked \subseteq {p}
      BY <2>3 DEF Single
    <3>2. q \in linked
      BY <1>0 DEF Unlinked
    <3>3. U[p] # None
      BY <3>1, <3>2
    <3>4. \A i \in Clients \ {p} : y.lastAckFrom[i] = NO_ACK_RECEIVED_YET
      BY <1>7, <3>1 DEF Unlinked
    <3>5. ~ (p >= count) /\ ack = y.lastAckFrom[p]
      BY <1>9, <3>4, RingOfOne
    <3>. QED
      BY <1>5, <3>3, <3>5
  <2>. HIDE DEF r, ack
  <2>4. PICK n \in Nat : Confirms(y, r, 0, ack, n)
    BY <2>2
  <2>5. Confirms(T[0], r, 0, ack, n)
    BY <1>6, <2>4
  <2>6. Good(With(T, 0, r), U, D)
    BY <1>4, <2>1, <2>3, <2>5, GoodServerCuts
  <2>. QED
    BY <1>6, <2>6
<1>10. z = y \/ (ack # NO_ACK_RECEIVED_YET /\ z = r)
  BY DEF Settled, ConfirmedAck
<1>. HIDE DEF r, ack, z
<1>11. Good(With(S, 0, z), U, D)
  BY <1>4, <1>9, <1>10 DEF T
<1>12. Good(With(S, 0, copyIncomingState(z)), U, D)
  BY <1>0, <1>11, GoodCopies
<1>. QED
  BY <1>1, <1>12 DEF z, y

-----------------------------------------------------------------------------
(* The handlers.                                                           *)

\* The whole of sendPendingData().
LEMMA GoodSendData ==
  ASSUME CountsInv, Good(session, up, down), NEW c \in Consoles, SendData(c)
  PROVE  Good(session', up', down')
<1>. DEFINE x == session[c]
            y == copyOutgoingState(x)
            z == Assigned(y, c)
            t == setDataFromOutgoingMessages(z, c, playerCount[c])
            f == [z EXCEPT !.shouldWaitForServer = c # 0, !.sendReceiveLatch = FALSE]
            S1 == With(session, c, y)
            S2 == With(session, c, z)
<1>1. /\ Session(c, [clearInflightMessagesIfNeeded(z, c) EXCEPT
                       !.shouldWaitForServer = c # 0, !.sendReceiveLatch = FALSE])
      /\ IF c = 0
         THEN down' = [p \in Clients |-> IF p \in linked THEN t ELSE None] /\ UNCHANGED up
         ELSE up' = [up EXCEPT ![c] = t] /\ UNCHANGED down
      /\ (c = 0 => playerCount[0] > 1) /\ Online(c)
  BY DEF SendData, Turn
<1>2. DOMAIN session = Consoles /\ Counted(x, c) /\ Counted(y, c) /\ Counted(z, c)
  BY ReadyCounted DEF CountsInv, Stays
<1>3. Flows(x, y) /\ Sending(y)
  BY <1>2, CopyFlows, CopyOutgoingKeeps DEF Counted, Kept
<1>4. Good(S1, up, down) /\ S1[c] = y /\ \A g : With(S1, c, g) = With(session, c, g)
  BY <1>2, <1>3, GoodFlows, WithIs
<1>5. Sending(z) /\ \E n \in Nat : Stamps(y, z, c, n)
  BY <1>2, <1>3, AssignedStamps, AssignedKeeps DEF Kept
<1>. HIDE DEF z
<1>6. Sent(t, c)
  <2>1. c = 0 => playerCount[c] \in Nat /\ playerCount[c] > 1
    BY <1>1 DEF CountsInv
  <2>. QED
    BY <1>2, <2>1, TransferIsSent DEF Counted
<1>7. Made(z, c, t)
  BY <1>2, <1>6, TransferMade
<1>8. PICK n \in Nat : Stamps(y, z, c, n)
  BY <1>5
<1>. HIDE DEF y, t, S1
<1>9. Good(S2, up', down')
  <2>1. CASE c = 0
    <3>1. up' = up /\ \A p \in Clients : down'[p] = None \/ Made(z, 0, down'[p])
      BY <1>1, <1>7, <2>1
    <3>2. Stamps(S1[0], z, 0, n) /\ With(S1, 0, z) = S2
      BY <1>4, <1>8, <2>1
    <3>3. Good(With(S1, 0, z), up, down')
      BY <1>4, <1>5, <3>1, <3>2, GoodServerStamps
    <3>. QED
      BY <3>1, <3>2, <3>3
  <2>2. CASE c # 0
    <3>1. c \in Clients /\ c \in linked
      BY <1>1, <2>2 DEF Consoles, Online
    <3>2. DOMAIN up = Clients
      BY DEF CountsInv, Slots
    <3>3. down' = down /\ up'[c] = t /\ \A p \in Clients \ {c} : up'[p] = up[p]
      BY <1>1, <2>2, <3>1, <3>2
    <3>4. Made(z, c, up'[c]) /\ Stamps(S1[c], z, c, n) /\ With(S1, c, z) = S2
      BY <1>4, <1>7, <1>8, <3>3
    <3>5. Good(With(S1, c, z), up', down)
      BY <1>4, <1>5, <3>1, <3>3, <3>4, GoodClientStamps
    <3>. QED
      BY <3>3, <3>4, <3>5
  <2>. QED
    BY <2>1, <2>2
<1>10. S2[c] = z /\ \A g : With(S2, c, g) = With(session, c, g)
  BY <1>2, WithIs
<1>. HIDE DEF S2
<1>11. Receptive(z) /\ Unlinked(S2[0], up')
  BY <1>9, <1>10, GoodIs, SoundIs
<1>12. session' = With(session, c, f)
  <2>1. clearInflightMessagesIfNeeded(z, c) = z
    BY <1>2, <1>11, CountedClears DEF Receptive
  <2>. QED
    BY <1>1, <2>1 DEF Session, With
<1>13. SameSender(z, f) /\ Alike(z, f) /\ Receptive(f) /\ f.lastAckFrom = z.lastAckFrom
  <2>1. SameSender(z, f) /\ SameReceiver(z, f) /\ f.lastAckFrom = z.lastAckFrom
    <3>1. DOMAIN z = SessionFields
      BY <1>11 DEF Receptive
    <3>. QED
      BY <3>1 DEF SessionFields, SameSender, SameReceiver
  <2>. HIDE DEF f
  <2>. QED
    BY <1>11, <2>1, AlikeSame
<1>. HIDE DEF f
<1>14. c = 0 => \A p \in Clients \ linked : f.lastAckFrom[p] = NO_ACK_RECEIVED_YET
  BY <1>10, <1>11, <1>13 DEF Unlinked
<1>15. Good(With(S2, c, f), up', down')
  BY <1>9, <1>10, <1>13, <1>14, GoodKept
<1>. QED
  BY <1>10, <1>12, <1>15

\* The whole of ReceiveData, and the end of what the adapter had.
LEMMA GoodReceiveData ==
  ASSUME CountsInv, Good(session, up, down), NEW c \in Consoles, ReceiveData(c)
  PROVE  Good(session', up', down')
<1>. DEFINE data == IF c = 0 THEN up ELSE [i \in {0} |-> down[c]]
            received == \E i \in DOMAIN data : data[i] # None
            count == IF c # 0 /\ received THEN data[0].count ELSE playerCount[c]
            remote == IF c = 0 THEN {p \in Clients : p < count} ELSE {0}
            x == Received(session[c], received)
            w == addIncomingMessagesFromData(x, c, data, remote, count)
            y == IF received THEN w ELSE x
            S1 == With(session, c, x)
            S2 == With(session, c, y)
<1>1. /\ Session(c, y)
      /\ IF c = 0 THEN up' = [p \in Clients |-> None] /\ UNCHANGED down
         ELSE down' = [down EXCEPT ![c] = None] /\ UNCHANGED up
  BY DEF ReceiveData
<1>2. /\ DOMAIN session = Consoles /\ DOMAIN up = Clients /\ DOMAIN down = Clients
      /\ playerCount \in [Consoles -> Nat] /\ 0 \in Consoles
      /\ \A p \in Clients : down[p] # None => down[p].count \in Nat
  BY Players DEF CountsInv, Slots, Sent
<1>3. Good(S1, up, down)
  <2>1. Receptive(session[c]) /\ Unlinked(session[0], up)
    BY GoodIs, SoundIs
  <2>2. DOMAIN session[c] = SessionFields
    BY <2>1 DEF Receptive
  <2>3. /\ SameSender(session[c], x) /\ SameReceiver(session[c], x)
        /\ x.lastAckFrom = session[c].lastAckFrom
    BY <2>2, ReceivedLeaves
  <2>. HIDE DEF x
  <2>4. Alike(session[c], x) /\ Receptive(x)
    BY <2>1, <2>3, AlikeSame
  <2>5. c = 0 => \A p \in Clients \ linked : x.lastAckFrom[p] = NO_ACK_RECEIVED_YET
    BY <2>1, <2>3 DEF Unlinked
  <2>. QED
    BY <2>3, <2>4, <2>5, GoodKept
<1>. HIDE DEF x
<1>4. S1[c] = x /\ \A g : With(S1, c, g) = With(session, c, g)
  BY <1>2, WithIs
<1>. HIDE DEF S1
<1>5. ASSUME received PROVE Good(With(session, c, w), up, down)
  <2>1. CASE c = 0
    <3>1. data = up /\ count = playerCount[0] /\ remote = {p \in Clients : p < playerCount[0]}
      BY <2>1
    <3>2. PICK q \in Clients : up[q] # None
      BY <1>2, <1>5, <3>1
    <3>3. playerCount[0] \in Nat
      BY <1>2
    <3>. HIDE DEF data, count, remote
    <3>4. Good(With(S1, 0, addIncomingMessagesFromData(S1[0], 0, up, remote, playerCount[0])), up, down)
      BY <1>2, <1>3, <3>1, <3>2, <3>3, GoodServerData
    <3>. QED
      BY <1>4, <2>1, <3>1, <3>4
  <2>2. CASE c # 0
    <3>1. c \in Clients
      BY <2>2 DEF Consoles
    <3>2. data = [i \in {0} |-> down[c]] /\ remote = {0} /\ down[c] # None
      BY <1>5, <2>2
    <3>3. count = down[c].count /\ count \in Nat
      BY <1>2, <1>5, <2>2, <3>1, <3>2
    <3>. HIDE DEF data, count, remote
    <3>4. Good(With(S1, c, addIncomingMessagesFromData(S1[c], c, data, {0}, count)), up, down)
      BY <1>3, <3>1, <3>2, <3>3, GoodClientData
    <3>. QED
      BY <1>4, <3>2, <3>4
  <2>. QED
    BY <2>1, <2>2
<1>. HIDE DEF w, received, data, count, remote
<1>6. Good(S2, up, down) /\ session' = S2 /\ S2[c] = y
  <2>1. y = w \/ y = x
    OBVIOUS
  <2>2. With(session, c, y)[c] = y
    BY <1>2, WithIs
  <2>3. Good(With(session, c, x), up, down)
    BY <1>3 DEF S1
  <2>4. received => Good(With(session, c, w), up, down)
    BY <1>5
  <2>5. session' = With(session, c, y)
    BY <1>1 DEF Session, With
  <2>6. Good(With(session, c, y), up, down)
    BY <2>3, <2>4
  <2>. QED
    BY <2>2, <2>5, <2>6
<1>. HIDE DEF y, S2
<1>7. With(S2, c, S2[c]) = S2
  BY <1>6, GoodIsFunction
<1>8. /\ \A p \in Clients : up'[p] = up[p] \/ up'[p] = None
      /\ \A p \in Clients : down'[p] = down[p] \/ down'[p] = None
      /\ c # 0 => \A p \in Clients \ {c} : up'[p] = up[p] /\ down'[p] = down[p]
  BY <1>1, <1>2
<1>9. SameSender(y, y) /\ Alike(y, y) /\ Receptive(y) /\ Unlinked(S2[0], up)
  <2>1. Receptive(y) /\ Unlinked(S2[0], up)
    BY <1>6, GoodIs, SoundIs
  <2>. QED
    BY <2>1 DEF SameSender, Alike, Receptive
<1>10. c = 0 => \A p \in Clients \ linked : y.lastAckFrom[p] = NO_ACK_RECEIVED_YET
  BY <1>6, <1>9 DEF Unlinked
<1>11. Good(With(S2, c, y), up', down')
  BY <1>6, <1>8, <1>9, <1>10, GoodSame
<1>. QED
  BY <1>6, <1>7, <1>11

LEMMA SaysKeeps ==
  ASSUME NEW x, NEW c, Counted(x, c), Consecutive(x, c), NEW end, OwnWords(x, end),
         NEW next, After(next, end), NEW z, Says(x, z, next)
  PROVE  /\ OwnWords(z, next) /\ Consecutive(z, c)
         /\ AllSent(x, c, end) => AllSent(z, c, next)
         /\ Top(z, next) = Top(x, end)
         /\ next - Len(z.newOutgoing) = end - Len(x.newOutgoing)
<1>. DEFINE a == Len(x.outgoing)
            b == Len(x.newOutgoing)
            d == Len(z.newOutgoing)
            n == x.inflightCount
<1>1. a \in Nat /\ b \in Nat /\ n \in Nat /\ d = b + 1 /\ end \in Nat /\ b <= end
  BY SenderIs DEF Says, OwnWords
<1>2. /\ z.outgoing = x.outgoing /\ z.inflightCount = n
      /\ \A k \in 1 .. b : z.newOutgoing[k] = x.newOutgoing[k]
      /\ z.newOutgoing[b + 1].data = next
      /\ \A k \in 1 .. b : x.newOutgoing[k].data = end - b + k
      /\ AllSent(x, c, end) => /\ b + a <= end
                               /\ \A k \in 1 .. a : /\ x.outgoing[k].player = c
                                                     /\ x.outgoing[k].data = end - b - a + k
  BY DEF Says, OwnWords, AllSent
<1>3. Len(z.outgoing) = a /\ Len(z.newOutgoing) = d
  BY <1>2
<1>4. Top(x, end) = end - b - a + n
  BY DEF Top
<1>5. Consecutive(z, c)
  BY DEF Says, Consecutive, Back
<1>. HIDE DEF a, b, d, n
<1>6. /\ next \in Nat /\ d <= next /\ next - d = end - b
      /\ next - d - a + n = end - b - a + n
  BY <1>1 DEF After
<1>7. ASSUME NEW k \in 1 .. d PROVE z.newOutgoing[k].data = next - d + k
  <2>1. CASE k = b + 1
    <3>1. next - d + k = next
      BY <1>1, <1>6, <2>1
    <3>. QED
      BY <1>2, <2>1, <3>1
  <2>2. CASE k # b + 1
    <3>1. k \in 1 .. b /\ next - d + k = end - b + k
      BY <1>1, <1>6, <2>2
    <3>. QED
      BY <1>2, <3>1
  <2>. QED
    BY <2>1, <2>2
<1>8. ASSUME AllSent(x, c, end)
      PROVE  d + a <= next
             /\ \A k \in 1 .. a : z.outgoing[k].player = c /\ z.outgoing[k].data = next - d - a + k
  <2>1. d + a <= next
    BY <1>1, <1>2, <1>6, <1>8
  <2>2. ASSUME NEW k \in 1 .. a
        PROVE  z.outgoing[k].player = c /\ z.outgoing[k].data = next - d - a + k
    <3>1. next - d - a + k = end - b - a + k
      BY <1>1, <1>6
    <3>. QED
      BY <1>2, <1>8, <3>1
  <2>. QED
    BY <2>1, <2>2
<1>9. OwnWords(z, next)
  BY <1>3, <1>6, <1>7 DEF OwnWords
<1>10. AllSent(x, c, end) => AllSent(z, c, next)
  BY <1>3, <1>8 DEF AllSent
<1>11. Top(z, next) = Top(x, end)
  BY <1>2, <1>3, <1>4, <1>6 DEF Top
<1>12. next - Len(z.newOutgoing) = end - Len(x.newOutgoing)
  BY <1>3, <1>6 DEF b
<1>. QED
  BY <1>5, <1>9, <1>10, <1>11, <1>12

\* Nothing new is in line.
LEMMA EmbedsSays ==
  ASSUME NEW x, Counted(x, 0), Consecutive(x, 0), NEW slot, SlotFits(x, 0, slot),
         NEW z, NEW word, Says(x, z, word)
  PROVE  Embeds(x, slot, z, slot, 0) /\ \A y : Lag(z, y, 0) = Lag(x, y, 0)
<1>1. /\ z.outgoing = x.outgoing /\ z.inflightCount = x.inflightCount
      /\ \A id : Back(z, 0, id) = Back(x, 0, id)
  BY DEF Says, Back
<1>2. Depth(z, 0, slot) = Depth(x, 0, slot)
  BY <1>1 DEF Depth
<1>3. ASSUME NEW b, NEW p, NEW w, InLine(z, slot, b, p, w)
      PROVE  b \in Int /\ InLine(x, slot, b - 0, p, w)
  <2>1. InLine(x, slot, b, p, w)
    BY <1>1, <1>2, <1>3 DEF InLine
  <2>2. b \in Int
    BY <2>1, InLineIs
  <2>3. b - 0 = b
    BY <2>2
  <2>. QED
    BY <2>1, <2>2, <2>3
<1>. QED
  BY <1>1, <1>3 DEF Embeds, Lag

\* What Between says, after the server, or the client, has one more word.
LEMMA ServerSays ==
  ASSUME NEW y, Sound(y, 0), NEW p \in Clients, NEW x, Sound(x, p), NEW u, NEW d, NEW v,
         Between(y, x, p, u, d, v), NEW next, After(next, sent[0]), NEW z, Says(y, z, next)
  PROVE  /\ SlotFits(x, p, u) /\ SlotFits(z, 0, d)
         /\ Exact(x, z, p, sent[p], got[0][p], u, d)
         /\ Single(p) => Exact(z, x, 0, next, got[p][0], d, u)
         /\ Ordered(z, x, got[p], d)
         /\ \A q \in Consoles : Placed(z, x, d, q, got[p][q], v[q])
<1>1. /\ Counted(y, 0) /\ Consecutive(y, 0) /\ OwnWords(y, sent[0]) /\ Receptive(y)
      /\ SlotFits(y, 0, d) /\ SlotFits(x, p, u) /\ Receptive(x)
  BY BetweenIs, SoundIs
<1>2. z.lastPacketId = y.lastPacketId /\ z.inflightCount = y.inflightCount
  BY DEF Says
<1>3. SlotFits(z, 0, d)
  BY <1>1, <1>2, SlotFitsSame
<1>4. Alike(y, z)
  BY <1>1, AlikeSame DEF Says
<1>5. Exact(x, z, p, sent[p], got[0][p], u, d)
  BY <1>4, BetweenIs, ExactAlike
<1>6. ASSUME Single(p) PROVE Exact(z, x, 0, next, got[p][0], d, u)
  <2>1. Exact(y, x, 0, sent[0], got[p][0], d, u)
    BY <1>6, BetweenIs
  <2>2. AllSent(z, 0, next) /\ Top(z, next) = Top(y, sent[0])
    BY <1>1, <2>1, SaysKeeps DEF Exact
  <2>3. /\ Lag(y, x, 0) <= z.inflightCount
        /\ u # None => Back(y, 0, u.ack[0]) <= z.inflightCount
    BY <1>2, <2>1 DEF Exact, Keeps
  <2>. QED
    BY <1>2, <2>1, <2>2, <2>3, ExactAs
<1>7. Embeds(y, d, z, d, 0) /\ Lag(z, x, 0) = Lag(y, x, 0)
  BY <1>1, EmbedsSays
<1>8. Ordered(z, x, got[p], d)
  <2>1. Ordered(y, x, got[p], d)
    BY BetweenIs
  <2>2. Lag(y, x, 0) \in Nat
    <3>1. 0 \in Consoles
      BY Players
    <3>. QED
      BY <1>1, <3>1, BackIs DEF Lag, Receptive
  <2>3. Lag(y, x, 0) \in Int /\ Lag(z, x, 0) \in Int /\ Lag(z, x, 0) <= Lag(y, x, 0) + 0
    BY <1>7, <2>2
  <2>4. 0 \in Int
    OBVIOUS
  <2>. QED
    BY <1>7, <2>1, <2>3, <2>4, OrderedEmbeds
<1>9. ASSUME NEW q \in Consoles PROVE Placed(z, x, d, q, got[p][q], v[q])
  BY <1>7, BetweenIs, PlacedEmbeds
<1>. QED
  BY <1>1, <1>3, <1>5, <1>6, <1>8, <1>9

LEMMA ClientSays ==
  ASSUME NEW y, Sound(y, 0), NEW p \in Clients, NEW x, Sound(x, p), NEW u, NEW d, NEW v,
         Between(y, x, p, u, d, v), NEW next, After(next, sent[p]), NEW z, Says(x, z, next)
  PROVE  /\ SlotFits(z, p, u) /\ SlotFits(y, 0, d)
         /\ Exact(z, y, p, next, got[0][p], u, d)
         /\ Single(p) => Exact(y, z, 0, sent[0], got[p][0], d, u)
         /\ Ordered(y, z, got[p], d)
         /\ \A q \in Consoles : Placed(y, z, d, q, got[p][q], v[q])
         /\ Top(z, next) - Lag(z, y, p) = Top(x, sent[p]) - Lag(x, y, p)
<1>1. /\ Counted(x, p) /\ Consecutive(x, p) /\ OwnWords(x, sent[p]) /\ Receptive(x)
      /\ SlotFits(y, 0, d) /\ SlotFits(x, p, u) /\ p \in Consoles
  BY BetweenIs, SoundIs
<1>2. z.lastPacketId = x.lastPacketId /\ z.inflightCount = x.inflightCount
  BY DEF Says
<1>3. SlotFits(z, p, u)
  BY <1>1, <1>2, SlotFitsSame
<1>4. Alike(x, z)
  BY <1>1, AlikeSame DEF Says
<1>5. Exact(x, y, p, sent[p], got[0][p], u, d)
  BY BetweenIs
<1>6. AllSent(z, p, next) /\ Top(z, next) = Top(x, sent[p])
  BY <1>1, <1>5, SaysKeeps DEF Exact
<1>7. Exact(z, y, p, next, got[0][p], u, d)
  <2>1. /\ Lag(x, y, p) <= z.inflightCount
        /\ d # None => Back(x, p, d.ack[p]) <= z.inflightCount
    BY <1>2, <1>5 DEF Exact, Keeps
  <2>. QED
    BY <1>2, <1>5, <1>6, <2>1, ExactAs
<1>8. Single(p) => Exact(y, z, 0, sent[0], got[p][0], d, u)
  BY <1>4, BetweenIs, ExactAlike
<1>9. \A q \in Consoles : Has(z, q, got[p][q]) = Has(x, q, got[p][q])
  BY <1>4 DEF Alike, Has
<1>10. Ordered(y, z, got[p], d)
  BY <1>4, <1>9, BetweenIs, OrderedHas DEF Alike
<1>11. \A q \in Consoles : Placed(y, z, d, q, got[p][q], v[q])
  BY <1>9, BetweenIs, PlacedHas
<1>12. Lag(z, y, p) = Lag(x, y, p)
  BY <1>2 DEF Lag, Back
<1>. QED
  BY <1>1, <1>3, <1>6, <1>7, <1>8, <1>10, <1>11, <1>12

LEMMA SendsSays ==
  ASSUME CountsInv, NEW c \in Consoles, Sends(c)
  PROVE  /\ Says(session[c], session'[c], sent'[c]) /\ After(sent'[c], sent[c])
         /\ DOMAIN session = Consoles /\ DOMAIN session' = Consoles
         /\ \A d \in Consoles \ {c} : session'[d] = session[d] /\ sent'[d] = sent[d]
         /\ UNCHANGED <<playerCount, linked, up, down, got>>
<1>. DEFINE item == [data |-> sent[c] + 1, player |-> c, id |-> NO_ID_ASSIGNED_YET]
            x == session[c]
            q == push(x.newOutgoing, item)
            y == [x EXCEPT !.newOutgoing = q]
<1>1. /\ Session(c, y) /\ sent' = [sent EXCEPT ![c] = @ + 1] /\ ~isFull(x.newOutgoing)
      /\ UNCHANGED <<playerCount, linked, up, down, got>>
  BY DEF Sends
<1>2. /\ Counted(x, c) /\ DOMAIN session = Consoles /\ sent \in [Consoles -> Nat]
      /\ item \in Message /\ item.data = sent[c] + 1
  BY PacketsAssumption DEF CountsInv, Message, NO_ID_ASSIGNED_YET, Consoles
<1>3. sent'[c] = sent[c] + 1 /\ \A d \in Consoles \ {c} : sent'[d] = sent[d]
  BY <1>1, <1>2
<1>. HIDE DEF item
<1>4. /\ x.newOutgoing \in Seq(Message) /\ Len(x.newOutgoing) \in Nat
      /\ q = Append(x.newOutgoing, item)
  BY <1>1, <1>2, Lengths DEF Counted, Sending, push
<1>5. /\ Len(q) = Len(x.newOutgoing) + 1 /\ q[Len(x.newOutgoing) + 1] = item
      /\ \A k \in 1 .. Len(x.newOutgoing) : q[k] = x.newOutgoing[k]
  BY <1>2, <1>4
<1>6. DOMAIN x = SessionFields
  BY <1>2 DEF Counted, Sending
<1>. HIDE DEF q, x
<1>7. /\ SameReceiver(x, y) /\ y.lastAckFrom = x.lastAckFrom /\ y.outgoing = x.outgoing
      /\ y.isWriting = x.isWriting /\ y.inflightCount = x.inflightCount
      /\ y.forwardedCount = x.forwardedCount /\ y.lastPacketId = x.lastPacketId
      /\ y.newOutgoing = q
  BY <1>6 DEF SessionFields, SameReceiver
<1>. HIDE DEF y
<1>8. session'[c] = y /\ DOMAIN session' = Consoles
      /\ \A d \in Consoles \ {c} : session'[d] = session[d]
  BY <1>1, <1>2 DEF Session
<1>9. Says(x, y, sent'[c])
  <2>1. q[Len(x.newOutgoing) + 1].data = sent'[c]
    BY <1>2, <1>3, <1>5
  <2>. QED
    BY <1>5, <1>7, <2>1 DEF Says
<1>10. After(sent'[c], sent[c])
  BY <1>3 DEF After
<1>. QED
  BY <1>1, <1>2, <1>3, <1>8, <1>9, <1>10 DEF x

\* Neither the word nor the count changes what the places are.
LEMMA SendsPlaces ==
  ASSUME CountsInv, Good(session, up, down), NEW c \in Consoles, Sends(c)
  PROVE  AllPlaces(session)' = AllPlaces(session)
<1>. DEFINE s == sent
            x == session[c]
            z == session'[c]
<1>1. /\ Says(x, z, sent'[c]) /\ After(sent'[c], sent[c])
      /\ \A d \in Consoles \ {c} : session'[d] = session[d] /\ sent'[d] = sent[d]
  BY SendsSays
<1>2. /\ Counted(x, c) /\ Consecutive(x, c) /\ OwnWords(x, sent[c])
      /\ 0 \in Consoles /\ \A p \in Clients : p \in Consoles /\ p # 0
  BY GoodIs, SoundIs
<1>3. /\ Top(z, sent'[c]) = Top(x, sent[c])
      /\ sent'[c] - Len(z.newOutgoing) = sent[c] - Len(x.newOutgoing)
  BY <1>1, <1>2, SaysKeeps
<1>4. /\ z.lastPacketId = x.lastPacketId /\ z.lastPacketIdFrom = x.lastPacketIdFrom
  BY <1>1 DEF Says, SameReceiver
<1>5. sent'[0] - Len(session'[0].newOutgoing) = sent[0] - Len(session[0].newOutgoing)
  <2>1. CASE c = 0
    BY <1>3, <2>1
  <2>2. CASE c # 0
    BY <1>1, <1>2, <2>2
  <2>. QED
    BY <2>1, <2>2
<1>6. ASSUME NEW p \in Clients
      PROVE  Top(session'[p], sent'[p]) - Lag(session'[p], session'[0], p)
               = Top(session[p], sent[p]) - Lag(session[p], session[0], p)
  <2>1. Top(session'[p], sent'[p]) = Top(session[p], sent[p])
    BY <1>1, <1>2, <1>3
  <2>2. /\ session'[p].lastPacketId = session[p].lastPacketId
        /\ session'[0].lastPacketIdFrom = session[0].lastPacketIdFrom
    BY <1>1, <1>2, <1>4
  <2>3. Lag(session'[p], session'[0], p) = Lag(session[p], session[0], p)
    BY <2>2 DEF Lag, Back
  <2>. QED
    BY <2>1, <2>3
<1>7. ASSUME NEW p \in Consoles PROVE Place(session, p)' = Place(session, p)
  <2>1. CASE p = 0
    BY <1>5, <2>1 DEF Place
  <2>2. CASE p # 0
    <3>1. p \in Clients
      BY <2>2 DEF Consoles
    <3>. QED
      BY <1>6, <2>2, <3>1 DEF Place
  <2>. QED
    BY <2>1, <2>2
<1>. QED
  BY <1>7 DEF AllPlaces

LEMMA GoodSends ==
  ASSUME CountsInv, Good(session, up, down), NEW c \in Consoles, Sends(c)
  PROVE  Good(session, up, down)'
<1>. DEFINE x == session[c]
            z == session'[c]
            v == AllPlaces(session)
<1>1. /\ Says(x, z, sent'[c]) /\ After(sent'[c], sent[c]) /\ DOMAIN session' = Consoles
      /\ \A d \in Consoles \ {c} : session'[d] = session[d] /\ sent'[d] = sent[d]
      /\ UNCHANGED <<playerCount, linked, up, down, got>>
  BY SendsSays
<1>2. /\ 0 \in Consoles /\ Unlinked(session[0], up)
      /\ \A d \in Consoles : Sound(session[d], d)
      /\ \A p \in Clients : /\ p \in Consoles /\ p # 0
                            /\ Between(session[0], session[p], p, up[p], down[p], v)
  BY GoodIs
<1>3. AllPlaces(session)' = v
  BY SendsPlaces
<1>4. Sound(session[c], c)'
  <2>1. /\ Counted(x, c) /\ Consecutive(x, c) /\ OwnWords(x, sent[c]) /\ Receptive(x)
        /\ got[c] \in [Consoles -> Nat] /\ \A p \in Consoles : InOrder(Here(x), p, got[c][p])
    BY <1>2 DEF Sound
  <2>2. OwnWords(z, sent'[c]) /\ Consecutive(z, c)
    BY <1>1, <2>1, SaysKeeps
  <2>3. Alike(x, z) /\ Receptive(z)
    BY <1>1, <2>1, AlikeSame DEF Says
  <2>4. Counted(z, c)
    <3>1. CountsInv'
      BY SendsCounts
    <3>. QED
      BY <3>1 DEF CountsInv
  <2>. QED
    BY <1>1, <2>1, <2>2, <2>3, <2>4 DEF Sound, Alike
<1>5. ASSUME NEW d \in Consoles PROVE Sound(session[d], d)'
  <2>1. CASE d = c
    BY <1>4, <2>1
  <2>2. CASE d # c
    BY <1>1, <1>2, <2>2 DEF Sound
  <2>. QED
    BY <2>1, <2>2
<1>6. ASSUME NEW p \in Clients
      PROVE  /\ SlotFits(session'[p], p, up[p]) /\ SlotFits(session'[0], 0, down[p])
             /\ Exact(session'[p], session'[0], p, sent'[p], got[0][p], up[p], down[p])
             /\ Single(p) =>
                  Exact(session'[0], session'[p], 0, sent'[0], got[p][0], down[p], up[p])
             /\ Ordered(session'[0], session'[p], got[p], down[p])
             /\ \A q \in Consoles :
                  Placed(session'[0], session'[p], down[p], q, got[p][q], v[q])
  <2>0. /\ Sound(session[0], 0) /\ Sound(session[p], p) /\ p \in Consoles /\ p # 0
        /\ Between(session[0], session[p], p, up[p], down[p], v)
    BY <1>2
  <2>1. CASE c = 0
    <3>1. session'[p] = session[p] /\ sent'[p] = sent[p]
      BY <1>1, <2>0, <2>1
    <3>2. Says(session[0], session'[0], sent'[0]) /\ After(sent'[0], sent[0])
      BY <1>1, <2>1
    <3>. HIDE DEF v
    <3>. QED
      BY <2>0, <3>1, <3>2, ServerSays
  <2>2. CASE c = p
    <3>1. session'[0] = session[0] /\ sent'[0] = sent[0]
      BY <1>1, <1>2, <2>0, <2>2
    <3>2. Says(session[p], session'[p], sent'[p]) /\ After(sent'[p], sent[p])
      BY <1>1, <2>2
    <3>. HIDE DEF v
    <3>. QED
      BY <2>0, <3>1, <3>2, ClientSays
  <2>3. CASE c # 0 /\ c # p
    <3>1. /\ session'[0] = session[0] /\ sent'[0] = sent[0]
          /\ session'[p] = session[p] /\ sent'[p] = sent[p]
      BY <1>1, <1>2, <2>0, <2>3
    <3>. HIDE DEF v
    <3>. QED
      BY <2>0, <3>1, BetweenIs
  <2>. QED
    BY <2>1, <2>2, <2>3
<1>. HIDE DEF v
<1>7. ASSUME NEW p \in Clients
      PROVE  Between(session[0], session[p], p, up[p], down[p], AllPlaces(session))'
  <2>1. /\ up' = up /\ down' = down /\ got' = got /\ linked' = linked
        /\ playerCount' = playerCount
    BY <1>1
  <2>. QED
    BY <1>3, <1>6, <2>1 DEF Between, Single
<1>8. Unlinked(session[0], up)'
  <2>1. session'[0].lastAckFrom = session[0].lastAckFrom
    BY <1>1, <1>2 DEF Says
  <2>. QED
    BY <1>1, <1>2, <2>1 DEF Unlinked
<1>9. (session = [d \in Consoles |-> session[d]])'
  <2>1. \E f : session' = [session EXCEPT ![c] = f]
    BY DEF Sends, Session
  <2>2. session = [d \in Consoles |-> session[d]]
    BY DEF Good
  <2>. QED
    BY <2>1, <2>2
<1>. QED
  BY <1>5, <1>7, <1>8, <1>9 DEF Good

LEMMA ReadsDigests ==
  ASSUME CountsInv, NEW c \in Consoles, Sound(session[c], c), DOMAIN got = Consoles, Reads(c)
  PROVE  /\ Digests(session[c], session'[c], got[c], got'[c])
         /\ DOMAIN session = Consoles /\ DOMAIN session' = Consoles
         /\ DOMAIN got' = Consoles
         /\ \A d \in Consoles \ {c} : session'[d] = session[d] /\ got'[d] = got[d]
         /\ UNCHANGED <<playerCount, linked, up, down, sent>>
<1>. DEFINE x == session[c]
            last == got[c]
            z == [x EXCEPT !.incoming = <<>>]
            next == [p \in Consoles |-> LastOf(x.incoming, p, last[p])]
<1>1. /\ Session(c, z) /\ got' = [got EXCEPT ![c] = next]
      /\ UNCHANGED <<playerCount, linked, up, down, sent>>
  BY DEF Reads
<1>2. /\ DOMAIN session = Consoles /\ Receptive(x)
      /\ last \in [Consoles -> Nat] /\ \A p \in Consoles : InOrder(Here(x), p, last[p])
  BY DEF CountsInv, Sound
<1>3. session'[c] = z /\ DOMAIN session' = Consoles
      /\ \A d \in Consoles \ {c} : session'[d] = session[d]
  BY <1>1, <1>2 DEF Session
<1>4. /\ SameSender(x, z) /\ z.lastAckFrom = x.lastAckFrom
      /\ z.overflow = x.overflow /\ z.lastPacketIdFrom = x.lastPacketIdFrom
      /\ z.didReceiveFirstPacketFromServer = x.didReceiveFirstPacketFromServer
      /\ z.incoming = <<>> /\ z.newIncoming = x.newIncoming /\ DOMAIN z = SessionFields
      /\ z.retransmission = x.retransmission /\ z.isReading = x.isReading
  BY <1>2 DEF Receptive, SessionFields, SameSender
<1>. HIDE DEF z, next
<1>5. Receptive(z)
  <2>1. <<>> \in Queue
    BY PacketsAssumption DEF Queue
  <2>. QED
    BY <1>2, <1>4, <2>1 DEF Receptive
<1>. DEFINE a == x.incoming
            b == x.newIncoming
<1>6. a \in Seq(Message) /\ b \in Seq(Message)
  BY <1>2 DEF Receptive, Queue
<1>. HIDE DEF a, b
<1>7. Here(x) = a \o b /\ Here(z) = b
  <2>1. <<>> \o b = b
    BY <1>6
  <2>. QED
    BY <1>4, <2>1 DEF Here, a, b
<1>8. ASSUME NEW p \in Consoles
      PROVE  /\ next[p] \in Nat /\ InOrder(Here(z), p, next[p])
             /\ Has(z, p, next[p]) \subseteq Has(x, p, last[p])
             /\ \A v : HasAll(x, p, last[p], v) => HasAll(z, p, next[p], v)
  <2>1. next[p] = LastOf(a, p, last[p])
    BY DEF next, a
  <2>2. last[p] \in Nat /\ InOrder(a \o b, p, last[p])
    BY <1>2, <1>7
  <2>. DEFINE l == last[p]
              n == next[p]
  <2>. HIDE DEF l, n
  <2>3. n = LastOf(a, p, l) /\ l \in Nat /\ InOrder(a \o b, p, l)
    BY <2>1, <2>2 DEF l, n
  <2>4. /\ n \in {l} \cup WordsOf(a \o b, p) /\ n \in Nat
        /\ InOrder(b, p, n) /\ WordsOf(b, p) \subseteq WordsOf(a \o b, p)
        /\ \A v : WordsOf(a \o b, p) = l + 1 .. v => WordsOf(b, p) = n + 1 .. v
    BY <1>6, <2>3, ReadOrder
  <2>5. Has(z, p, n) \subseteq Has(x, p, l)
    BY <1>7, <2>4 DEF Has
  <2>6. ASSUME NEW v, HasAll(x, p, l, v) PROVE HasAll(z, p, n, v)
    <3>1. \A w \in Has(z, p, n) : w <= v
      BY <2>5, <2>6 DEF HasAll
    <3>2. ~z.overflow => WordsOf(Here(z), p) = n + 1 .. v
      BY <1>4, <1>7, <2>4, <2>6 DEF HasAll
    <3>. QED
      BY <3>1, <3>2 DEF HasAll
  <2>. QED
    BY <1>7, <2>4, <2>5, <2>6 DEF l, n
<1>9. Digests(x, z, last, next)
  <2>1. next \in [Consoles -> Nat]
    BY <1>8 DEF next
  <2>. QED
    BY <1>4, <1>5, <1>8, <2>1 DEF Digests
<1>10. /\ got'[c] = next /\ DOMAIN got' = Consoles
       /\ \A d \in Consoles \ {c} : got'[d] = got[d]
  BY <1>1
<1>. QED
  BY <1>1, <1>2, <1>3, <1>9, <1>10

LEMMA ExactDigests ==
  ASSUME NEW x, NEW y, NEW i \in Consoles, NEW end, NEW last, NEW slot, NEW back,
         Exact(x, y, i, end, last[i], slot, back), NEW z, NEW next, Digests(y, z, last, next)
  PROVE  Exact(x, z, i, end, next[i], slot, back)
<1>1. Lag(x, z, i) = Lag(x, y, i)
  BY DEF Lag, Digests
<1>2. Keeps(x, z, i, end, slot, back)
  BY <1>1 DEF Exact, Keeps, Digests
<1>3. HasAll(z, i, next[i], Top(x, end) - Lag(x, z, i))
  BY <1>1 DEF Exact, Digests
<1>. QED
  BY <1>2, <1>3 DEF Exact

\* What Between says, after the program of the server, or of the client, has read.
LEMMA ServerReads ==
  ASSUME NEW y, Sound(y, 0), NEW p \in Clients, NEW x, Sound(x, p), NEW u, NEW d, NEW v,
         Between(y, x, p, u, d, v), NEW next, NEW z, Digests(y, z, got[0], next)
  PROVE  /\ SlotFits(x, p, u) /\ SlotFits(z, 0, d)
         /\ Exact(x, z, p, sent[p], next[p], u, d)
         /\ Single(p) => Exact(z, x, 0, sent[0], got[p][0], d, u)
         /\ Ordered(z, x, got[p], d)
         /\ \A q \in Consoles : Placed(z, x, d, q, got[p][q], v[q])
<1>1. /\ Counted(y, 0) /\ Consecutive(y, 0) /\ Receptive(x) /\ p \in Consoles /\ 0 \in Consoles
      /\ SlotFits(y, 0, d) /\ SlotFits(x, p, u) /\ SameSender(y, z)
  BY BetweenIs, SoundIs DEF Digests
<1>2. SlotFits(z, 0, d)
  BY <1>1, SlotFitsSame DEF SameSender
<1>3. Exact(x, z, p, sent[p], next[p], u, d)
  BY <1>1, BetweenIs, ExactDigests
<1>4. Single(p) => Exact(z, x, 0, sent[0], got[p][0], d, u)
  BY <1>1, BetweenIs, ExactSame
<1>5. Embeds(y, d, z, d, 0) /\ Lag(z, x, 0) = Lag(y, x, 0)
  BY <1>1, EmbedsSame
<1>6. Ordered(z, x, got[p], d)
  <2>1. Ordered(y, x, got[p], d)
    BY BetweenIs
  <2>2. Lag(y, x, 0) \in Nat
    BY <1>1, BackIs DEF Lag, Receptive
  <2>3. Lag(y, x, 0) \in Int /\ Lag(z, x, 0) \in Int /\ Lag(z, x, 0) <= Lag(y, x, 0) + 0
    BY <1>5, <2>2
  <2>4. 0 \in Int
    OBVIOUS
  <2>. QED
    BY <1>5, <2>1, <2>3, <2>4, OrderedEmbeds
<1>7. ASSUME NEW q \in Consoles PROVE Placed(z, x, d, q, got[p][q], v[q])
  BY <1>5, BetweenIs, PlacedEmbeds
<1>. QED
  BY <1>1, <1>2, <1>3, <1>4, <1>6, <1>7

LEMMA ClientReads ==
  ASSUME NEW y, Sound(y, 0), NEW p \in Clients, NEW x, Sound(x, p), NEW u, NEW d, NEW v,
         Between(y, x, p, u, d, v), NEW next, NEW z, Digests(x, z, got[p], next)
  PROVE  /\ SlotFits(z, p, u) /\ SlotFits(y, 0, d)
         /\ Exact(z, y, p, sent[p], got[0][p], u, d)
         /\ Single(p) => Exact(y, z, 0, sent[0], next[0], d, u)
         /\ Ordered(y, z, next, d)
         /\ \A q \in Consoles : Placed(y, z, d, q, next[q], v[q])
<1>1. /\ SlotFits(y, 0, d) /\ SlotFits(x, p, u) /\ SameSender(x, z) /\ 0 \in Consoles
  BY BetweenIs DEF Digests
<1>2. SlotFits(z, p, u)
  BY <1>1, SlotFitsSame DEF SameSender
<1>3. Exact(z, y, p, sent[p], got[0][p], u, d)
  BY <1>1, BetweenIs, ExactSame
<1>4. Single(p) => Exact(y, z, 0, sent[0], next[0], d, u)
  BY <1>1, BetweenIs, ExactDigests
<1>5. /\ \A q \in Consoles : Has(z, q, next[q]) \subseteq Has(x, q, got[p][q])
      /\ z.lastPacketIdFrom = x.lastPacketIdFrom
      /\ z.didReceiveFirstPacketFromServer = x.didReceiveFirstPacketFromServer
  BY DEF Digests
<1>6. Ordered(y, z, next, d)
  BY <1>5, BetweenIs, OrderedHas
<1>7. ASSUME NEW q \in Consoles PROVE Placed(y, z, d, q, next[q], v[q])
  BY <1>5, BetweenIs, PlacedHas
<1>. QED
  BY <1>1, <1>2, <1>3, <1>4, <1>6, <1>7

LEMMA GoodReads ==
  ASSUME CountsInv, DOMAIN got = Consoles, Good(session, up, down), NEW c \in Consoles, Reads(c)
  PROVE  Good(session, up, down)' /\ DOMAIN got' = Consoles
<1>. DEFINE x == session[c]
            z == session'[c]
            v == AllPlaces(session)
<1>1. /\ 0 \in Consoles /\ Unlinked(session[0], up)
      /\ \A d \in Consoles : Sound(session[d], d)
      /\ \A p \in Clients : /\ p \in Consoles /\ p # 0
                            /\ Between(session[0], session[p], p, up[p], down[p], v)
  BY GoodIs
<1>2. /\ Digests(x, z, got[c], got'[c]) /\ DOMAIN got' = Consoles /\ DOMAIN session' = Consoles
      /\ \A d \in Consoles \ {c} : session'[d] = session[d] /\ got'[d] = got[d]
      /\ UNCHANGED <<playerCount, linked, up, down, sent>>
  BY <1>1, ReadsDigests
<1>3. \A d \in Consoles : /\ SameSender(session[d], session'[d])
                          /\ session'[d].lastPacketIdFrom = session[d].lastPacketIdFrom
                          /\ session'[d].lastAckFrom = session[d].lastAckFrom
  <2>1. ASSUME NEW d \in Consoles PROVE SameSender(session[d], session[d])
    <3>1. Receptive(session[d])
      BY <1>1, SoundIs
    <3>. QED
      BY <3>1 DEF SameSender, Receptive
  <2>2. /\ SameSender(x, z) /\ z.lastPacketIdFrom = x.lastPacketIdFrom
        /\ z.lastAckFrom = x.lastAckFrom
    BY <1>2 DEF Digests
  <2>. QED
    BY <1>2, <2>1, <2>2
<1>4. AllPlaces(session)' = v
  <2>1. ASSUME NEW p \in Consoles PROVE Place(session, p)' = Place(session, p)
    <3>1. session'[0].newOutgoing = session[0].newOutgoing /\ sent' = sent
      BY <1>1, <1>2, <1>3 DEF SameSender
    <3>2. /\ session'[p].lastPacketId = session[p].lastPacketId
          /\ session'[p].outgoing = session[p].outgoing
          /\ session'[p].newOutgoing = session[p].newOutgoing
          /\ session'[p].inflightCount = session[p].inflightCount
      BY <1>3 DEF SameSender
    <3>3. Lag(session'[p], session'[0], p) = Lag(session[p], session[0], p)
      BY <1>1, <1>3, <3>2 DEF Lag, Back
    <3>4. Top(session'[p], sent'[p]) = Top(session[p], sent[p])
      BY <3>1, <3>2 DEF Top
    <3>. QED
      BY <3>1, <3>3, <3>4 DEF Place
  <2>. QED
    BY <2>1 DEF AllPlaces
<1>5. ASSUME NEW d \in Consoles PROVE Sound(session[d], d)'
  <2>1. CASE d = c
    <3>1. Counted(x, c) /\ Consecutive(x, c) /\ OwnWords(x, sent[c]) /\ SameSender(x, z)
      BY <1>1, <1>2 DEF Sound, Digests
    <3>2. Counted(z, c) /\ Consecutive(z, c) /\ OwnWords(z, sent[c])
      BY <3>1, CountedSame, ConsecutiveSame DEF OwnWords, SameSender
    <3>3. /\ Receptive(z) /\ got'[c] \in [Consoles -> Nat]
          /\ \A p \in Consoles : InOrder(Here(z), p, got'[c][p])
      BY <1>2 DEF Digests
    <3>. QED
      BY <1>2, <2>1, <3>2, <3>3 DEF Sound
  <2>2. CASE d # c
    BY <1>1, <1>2, <2>2 DEF Sound
  <2>. QED
    BY <2>1, <2>2
<1>6. ASSUME NEW p \in Clients
      PROVE  /\ SlotFits(session'[p], p, up[p]) /\ SlotFits(session'[0], 0, down[p])
             /\ Exact(session'[p], session'[0], p, sent[p], got'[0][p], up[p], down[p])
             /\ Single(p) =>
                  Exact(session'[0], session'[p], 0, sent[0], got'[p][0], down[p], up[p])
             /\ Ordered(session'[0], session'[p], got'[p], down[p])
             /\ \A q \in Consoles :
                  Placed(session'[0], session'[p], down[p], q, got'[p][q], v[q])
  <2>0. /\ Sound(session[0], 0) /\ Sound(session[p], p) /\ p \in Consoles /\ p # 0
        /\ Between(session[0], session[p], p, up[p], down[p], v)
    BY <1>1
  <2>1. CASE c = 0
    <3>1. session'[p] = session[p] /\ got'[p] = got[p]
      BY <1>2, <2>0, <2>1
    <3>2. Digests(session[0], session'[0], got[0], got'[0])
      BY <1>2, <2>1
    <3>. HIDE DEF v
    <3>. QED
      BY <2>0, <3>1, <3>2, ServerReads
  <2>2. CASE c = p
    <3>1. session'[0] = session[0] /\ got'[0] = got[0]
      BY <1>1, <1>2, <2>0, <2>2
    <3>2. Digests(session[p], session'[p], got[p], got'[p])
      BY <1>2, <2>2
    <3>. HIDE DEF v
    <3>. QED
      BY <2>0, <3>1, <3>2, ClientReads
  <2>3. CASE c # 0 /\ c # p
    <3>1. /\ session'[0] = session[0] /\ got'[0] = got[0]
          /\ session'[p] = session[p] /\ got'[p] = got[p]
      BY <1>1, <1>2, <2>0, <2>3
    <3>. HIDE DEF v
    <3>. QED
      BY <2>0, <3>1, BetweenIs
  <2>. QED
    BY <2>1, <2>2, <2>3
<1>. HIDE DEF v
<1>7. ASSUME NEW p \in Clients
      PROVE  Between(session[0], session[p], p, up[p], down[p], AllPlaces(session))'
  <2>1. /\ up' = up /\ down' = down /\ sent' = sent /\ linked' = linked
        /\ playerCount' = playerCount
    BY <1>2
  <2>. QED
    BY <1>4, <1>6, <2>1 DEF Between, Single
<1>8. Unlinked(session[0], up)'
  BY <1>1, <1>2, <1>3 DEF Unlinked
<1>9. (session = [d \in Consoles |-> session[d]])'
  <2>1. \E f : session' = [session EXCEPT ![c] = f]
    BY DEF Reads, Session
  <2>2. session = [d \in Consoles |-> session[d]]
    BY DEF Good
  <2>. QED
    BY <2>1, <2>2
<1>. QED
  BY <1>2, <1>5, <1>7, <1>8, <1>9 DEF Good

\* The clients that are alone with the server stay so when nobody comes.
LEMMA GoodStays ==
  ASSUME UNCHANGED <<sent, got>>, linked \subseteq linked',
         \A p \in Clients : linked' \subseteq {p} /\ playerCount'[0] <= 2 => Single(p),
         Good(session', up', down')
  PROVE  Good(session, up, down)'
<1>1. sent' = sent /\ got' = got
  OBVIOUS
<1>2. \A p \in Clients : Single(p)' => Single(p)
  BY DEF Single
<1>3. AllPlaces(session') = AllPlaces(session)'
  BY <1>1 DEF AllPlaces, Place
<1>4. ASSUME NEW c \in Consoles PROVE Sound(session[c], c)'
  <2>1. Sound(session'[c], c)
    BY GoodIs
  <2>. QED
    BY <1>1, <2>1 DEF Sound
<1>5. ASSUME NEW p \in Clients
      PROVE  Between(session[0], session[p], p, up[p], down[p], AllPlaces(session))'
  <2>1. Between(session'[0], session'[p], p, up'[p], down'[p], AllPlaces(session)')
    BY <1>3, GoodIs
  <2>. HIDE DEF AllPlaces
  <2>2. /\ SlotFits(session'[p], p, up'[p]) /\ SlotFits(session'[0], 0, down'[p])
        /\ Exact(session'[p], session'[0], p, sent[p], got[0][p], up'[p], down'[p])
        /\ Single(p) =>
             Exact(session'[0], session'[p], 0, sent[0], got[p][0], down'[p], up'[p])
        /\ Ordered(session'[0], session'[p], got[p], down'[p])
        /\ \A q \in Consoles :
             Placed(session'[0], session'[p], down'[p], q, got[p][q], AllPlaces(session)'[q])
    BY <2>1 DEF Between
  <2>. QED
    BY <1>1, <1>2, <2>2 DEF Between
<1>6. Unlinked(session[0], up)'
  <2>1. Unlinked(session'[0], up')
    BY GoodIs
  <2>. QED
    BY <2>1 DEF Unlinked
<1>7. (session = [c \in Consoles |-> session[c]])'
  <2>1. session' = [c \in Consoles |-> session'[c]]
    BY DEF Good
  <2>. QED
    BY <2>1
<1>. QED
  BY <1>4, <1>5, <1>6, <1>7 DEF Good

LEMMA FreshIdle == Idle(FreshSession(TRUE))
<1>. DEFINE x == FreshSession(TRUE)
<1>1. \A i \in Consoles : 0 \in 0 .. PacketIds(i) - 1
  <2>1. ASSUME NEW i \in Consoles PROVE 0 \in 0 .. PacketIds(i) - 1
    BY Windows
  <2>. QED
    BY <2>1
<1>2. <<>> \in Queue
  BY PacketsAssumption DEF Queue
<1>3. 0 \in Consoles /\ \A p \in Clients : p \in Consoles /\ p # 0
  BY Players
<1>. DEFINE y == [retransmission |-> TRUE, incoming |-> <<>>, newOutgoing |-> <<>>,
                  isReading |-> FALSE, isWriting |-> FALSE, needsClear |-> FALSE]
<1>4. y.retransmission = TRUE /\ y.incoming = <<>> /\ y.newOutgoing = <<>> /\ y.isReading = FALSE
  OBVIOUS
<1>. HIDE DEF y
<1>5. x = ResetSession(y)
  BY DEF FreshSession, y
<1>6. /\ x.retransmission = TRUE /\ x.isReading = FALSE /\ x.incoming = <<>>
      /\ x.newIncoming = <<>> /\ x.outgoing = <<>> /\ x.newOutgoing = <<>>
      /\ x.inflightCount = 0 /\ x.lastPacketId = 0
      /\ x.lastPacketIdFrom = [p \in Consoles |-> 0]
      /\ x.lastAckFrom = [p \in Consoles |-> IF p = 0 THEN 0 ELSE NO_ACK_RECEIVED_YET]
      /\ DOMAIN x = SessionFields
  <2>1. DOMAIN x = SessionFields
    BY FreshCounted DEF Counted, Sending
  <2>. HIDE DEF x
  <2>2. /\ x.isReading = y.isReading /\ x.retransmission = y.retransmission
        /\ x.incoming = IF y.isReading THEN y.incoming ELSE <<>>
        /\ x.newOutgoing = IF y.isWriting THEN y.newOutgoing ELSE <<>>
    BY <1>5 DEF ResetSession
  <2>3. y.isWriting = FALSE
    BY DEF y
  <2>4. /\ x.newIncoming = <<>> /\ x.outgoing = <<>>
        /\ x.inflightCount = 0 /\ x.lastPacketId = 0
        /\ x.lastPacketIdFrom = [p \in Consoles |-> 0]
        /\ x.lastAckFrom = [p \in Consoles |-> IF p = 0 THEN 0 ELSE NO_ACK_RECEIVED_YET]
    BY <1>5 DEF ResetSession
  <2>. QED
    BY <1>4, <2>1, <2>2, <2>3, <2>4
<1>. HIDE DEF x
<1>7. Receptive(x)
  BY <1>1, <1>2, <1>6 DEF Receptive
<1>8. Idle(x)
  BY <1>3, <1>6, <1>7 DEF Idle
<1>. QED
  BY <1>8 DEF x

LEMMA IdleIs ==
  ASSUME NEW x, Idle(x)
  PROVE  /\ Receptive(x) /\ Len(x.outgoing) = 0 /\ Len(x.newOutgoing) = 0
         /\ \A p : Has(x, p, 0) = {0} /\ WordsOf(Here(x), p) = {} /\ InOrder(Here(x), p, 0)
         /\ \A i \in Consoles : Consecutive(x, i) /\ Top(x, 0) = 0 /\ AllSent(x, i, 0)
         /\ OwnWords(x, 0) /\ \A y : Idle(y) => \A i \in Consoles : Lag(x, y, i) = 0
<1>1. Len(<<>>) = 0 /\ <<>> \o <<>> = <<>>
  OBVIOUS
<1>2. /\ Here(x) = <<>> /\ x.outgoing = <<>> /\ x.newOutgoing = <<>> /\ x.inflightCount = 0
      /\ x.lastPacketId = 0
  BY <1>1 DEF Idle, Here
<1>3. ASSUME NEW p PROVE PlacesOf(<<>>, p) = {}
  BY DEF PlacesOf
<1>4. ASSUME NEW p
      PROVE  Has(x, p, 0) = {0} /\ WordsOf(Here(x), p) = {} /\ InOrder(Here(x), p, 0)
  BY <1>2, <1>3 DEF Has, WordsOf, InOrder
<1>5. \A i \in Consoles : 0 \in 0 .. PacketIds(i) - 1
  <2>1. ASSUME NEW i \in Consoles PROVE 0 \in 0 .. PacketIds(i) - 1
    BY Windows
  <2>. QED
    BY <2>1
<1>6. ASSUME NEW i \in Consoles PROVE Consecutive(x, i)
  BY <1>2, <1>5 DEF Consecutive
<1>7. Top(x, 0) = 0 /\ OwnWords(x, 0) /\ \A i \in Consoles : AllSent(x, i, 0)
  <2>1. Len(x.outgoing) = 0 /\ Len(x.newOutgoing) = 0 /\ 1 .. 0 = {}
    BY <1>1, <1>2
  <2>2. Top(x, 0) = 0
    <3>1. Top(x, 0) = 0 - Len(x.newOutgoing) - Len(x.outgoing) + x.inflightCount
      BY DEF Top
    <3>2. 0 - Len(x.newOutgoing) - Len(x.outgoing) + x.inflightCount = 0 - 0 - 0 + 0
      BY <1>2, <2>1, Zenon
    <3>3. 0 - 0 - 0 + 0 = 0
      OBVIOUS
    <3>. QED
      BY <3>1, <3>2, <3>3, Zenon
  <2>3. OwnWords(x, 0)
    BY <2>1 DEF OwnWords
  <2>4. ASSUME NEW i \in Consoles PROVE AllSent(x, i, 0)
    BY <2>1 DEF AllSent
  <2>. QED
    BY <2>2, <2>3, <2>4
<1>8. ASSUME NEW y, NEW i \in Consoles, Idle(y) PROVE Lag(x, y, i) = 0
  <2>1. Lag(x, y, i) = (0 - 0) % PacketIds(i)
    BY <1>2, <1>8 DEF Lag, Back, Idle
  <2>2. PacketIds(i) \in Nat /\ PacketIds(i) > 0
    BY <1>5, Windows
  <2>3. PacketIds(i) \in Powers
    BY IdsArePowers
  <2>4. (0 - 0) % PacketIds(i) = 0
    BY <2>3 DEF Powers
  <2>. QED
    BY <2>1, <2>4
<1>. QED
  BY <1>1, <1>2, <1>4, <1>6, <1>7, <1>8 DEF Idle

LEMMA IdleBetween ==
  ASSUME NEW x, Idle(x), NEW y, Idle(y), NEW i \in Consoles
  PROVE  Exact(x, y, i, 0, 0, None, None)
<1>1. AllSent(x, i, 0) /\ Lag(x, y, i) = 0 /\ Top(x, 0) = 0 /\ x.inflightCount = 0
  BY IdleIs DEF Idle
<1>2. AllCarried(x, i, 0, None)
  BY DEF AllCarried, Full
<1>3. Keeps(x, y, i, 0, None, None)
  BY <1>1 DEF Keeps, Full
<1>4. HasAll(y, i, 0, 0)
  <2>1. Has(y, i, 0) = {0} /\ WordsOf(Here(y), i) = {}
    BY IdleIs
  <2>2. 0 + 1 .. 0 = {}
    OBVIOUS
  <2>. QED
    BY <2>1, <2>2 DEF HasAll
<1>5. 0 - 0 = 0
  OBVIOUS
<1>. QED
  BY <1>1, <1>2, <1>3, <1>4, <1>5 DEF Exact

LEMMA InitGood ==
  ASSUME MessagesInit, exchange.retransmission = TRUE
  PROVE  Good(session, up, down)
<1>1. /\ session = [c \in Consoles |-> FreshSession(TRUE)]
      /\ up = [c \in Clients |-> None] /\ down = [c \in Clients |-> None]
      /\ sent = [c \in Consoles |-> 0]
      /\ got = [c \in Consoles |-> [p \in Consoles |-> 0]]
  BY DEF MessagesInit
<1>2. /\ \A c \in Consoles : session[c] = FreshSession(TRUE)
      /\ \A c \in Consoles : Idle(session[c]) /\ sent[c] = 0
      /\ \A p \in Clients : up[p] = None /\ down[p] = None
      /\ \A c, p \in Consoles : got[c][p] = 0
      /\ \A c \in Consoles : got[c] \in [Consoles -> Nat]
      /\ session = [c \in Consoles |-> session[c]]
  BY <1>1, FreshIdle
<1>3. 0 \in Consoles /\ \A p \in Clients : p \in Consoles /\ p # 0
  BY Players
<1>4. ASSUME NEW c \in Consoles PROVE Sound(session[c], c)
  <2>1. Counted(session[c], c)
    BY <1>2, FreshCounted
  <2>2. /\ Receptive(session[c]) /\ Consecutive(session[c], c) /\ OwnWords(session[c], 0)
        /\ \A p : InOrder(Here(session[c]), p, 0)
    BY <1>2, IdleIs
  <2>. QED
    BY <1>2, <2>1, <2>2 DEF Sound
<1>5. ASSUME NEW q \in Consoles PROVE AllPlaces(session)[q] = 0
  <2>1. /\ Len(session[0].newOutgoing) = 0 /\ Top(session[q], 0) = 0
        /\ Lag(session[q], session[0], q) = 0 /\ sent[0] = 0 /\ sent[q] = 0
    BY <1>2, <1>3, IdleIs
  <2>. QED
    BY <2>1 DEF AllPlaces, Place
<1>6. ASSUME NEW p \in Clients
      PROVE  Between(session[0], session[p], p, up[p], down[p], AllPlaces(session))
  <2>. DEFINE y == session[0]
              x == session[p]
  <2>1. /\ Idle(y) /\ Idle(x) /\ up[p] = None /\ down[p] = None /\ p \in Consoles
        /\ sent[0] = 0 /\ sent[p] = 0 /\ got[0][p] = 0 /\ \A q \in Consoles : got[p][q] = 0
    BY <1>2, <1>3
  <2>. HIDE DEF x, y
  <2>2. ~Full(None) /\ SlotFits(x, p, None) /\ SlotFits(y, 0, None)
    BY DEF Full, SlotFits
  <2>3. Exact(x, y, p, 0, 0, None, None) /\ Exact(y, x, 0, 0, 0, None, None)
    BY <1>3, <2>1, IdleBetween
  <2>4. ASSUME NEW b, NEW r, NEW w PROVE ~InLine(y, None, b, r, w)
    <3>1. 1 .. Len(y.outgoing) = {}
      BY <2>1, IdleIs
    <3>. QED
      BY <2>2, <3>1 DEF InLine
  <2>5. Ordered(y, x, got[p], None)
    BY <2>4 DEF Ordered
  <2>6. ASSUME NEW q \in Consoles PROVE Placed(y, x, None, q, got[p][q], AllPlaces(session)[q])
    <3>1. Has(x, q, 0) = {0} /\ got[p][q] = 0 /\ AllPlaces(session)[q] = 0
      BY <1>5, <2>1, IdleIs
    <3>. QED
      BY <2>4, <3>1 DEF Placed
  <2>. QED
    BY <1>3, <2>1, <2>2, <2>3, <2>5, <2>6 DEF Between, x, y
<1>7. Unlinked(session[0], up)
  BY <1>2, <1>3 DEF Unlinked, Idle
<1>. QED
  BY <1>2, <1>4, <1>6, <1>7 DEF Good

-----------------------------------------------------------------------------
(* No message is lost.                                                     *)

\* What is coming reaches from what has come to the last word.
LEMMA ComingHas ==
  ASSUME NEW x, NEW i, Counted(x, i), Consecutive(x, i), NEW end, OwnWords(x, end),
         NEW y, NEW last, NEW slot, NEW back, Exact(x, y, i, end, last, slot, back),
         Lag(x, y, i) \in Nat
  PROVE  /\ Top(x, end) - Lag(x, y, i) + 1 .. end \subseteq Coming(x, i)
         /\ Top(x, end) - Lag(x, y, i) \in Int
<1>. DEFINE a == Len(x.outgoing)
            b == Len(x.newOutgoing)
            n == x.inflightCount
            g == Lag(x, y, i)
            t == Top(x, end)
<1>1. /\ a \in Nat /\ b \in Nat /\ n \in Nat /\ end \in Nat /\ g \in Nat /\ g <= n
      /\ b + a <= end /\ t = end - b - a + n
  BY SenderIs DEF OwnWords, Exact, Keeps, AllSent, Top
<1>2. /\ \A k \in 1 .. a : x.outgoing[k].player = i /\ x.outgoing[k].data = end - b - a + k
      /\ \A k \in 1 .. b : x.newOutgoing[k].player = i /\ x.newOutgoing[k].data = end - b + k
      /\ x.outgoing \in Seq(Message) /\ x.newOutgoing \in Seq(Message)
  BY SenderIs DEF OwnWords, Exact, AllSent, Counted
<1>3. /\ \A w : w \in WordsOf(x.outgoing, i) <=> \E k \in 1 .. a : w = end - b - a + k
      /\ \A w : w \in WordsOf(x.newOutgoing, i) <=> \E k \in 1 .. b : w = end - b + k
  <2>1. /\ \A w : w \in WordsOf(x.outgoing, i)
                    <=> \E k \in 1 .. a : x.outgoing[k].player = i /\ w = x.outgoing[k].data
        /\ \A w : w \in WordsOf(x.newOutgoing, i)
                    <=> \E k \in 1 .. b : x.newOutgoing[k].player = i /\ w = x.newOutgoing[k].data
    <3>1. \A w : w \in WordsOf(x.outgoing, i)
                   <=> \E k \in 1 .. a : x.outgoing[k].player = i /\ w = x.outgoing[k].data
      BY <1>2, PlacesAre
    <3>2. \A w : w \in WordsOf(x.newOutgoing, i)
                   <=> \E k \in 1 .. b : x.newOutgoing[k].player = i /\ w = x.newOutgoing[k].data
      BY <1>2, PlacesAre
    <3>. QED
      BY <3>1, <3>2
  <2>. HIDE DEF a, b
  <2>2. ASSUME NEW w
        PROVE  w \in WordsOf(x.outgoing, i) <=> \E k \in 1 .. a : w = end - b - a + k
    <3>1. \A k \in 1 .. a : x.outgoing[k].player = i /\ x.outgoing[k].data = end - b - a + k
      BY <1>2
    <3>2. w \in WordsOf(x.outgoing, i)
            <=> \E k \in 1 .. a : x.outgoing[k].player = i /\ w = x.outgoing[k].data
      BY <2>1
    <3>. QED
      BY ONLY <3>1, <3>2, Zenon
  <2>3. ASSUME NEW w
        PROVE  w \in WordsOf(x.newOutgoing, i) <=> \E k \in 1 .. b : w = end - b + k
    <3>1. \A k \in 1 .. b : x.newOutgoing[k].player = i /\ x.newOutgoing[k].data = end - b + k
      BY <1>2
    <3>2. w \in WordsOf(x.newOutgoing, i)
            <=> \E k \in 1 .. b : x.newOutgoing[k].player = i /\ w = x.newOutgoing[k].data
      BY <2>1
    <3>. QED
      BY ONLY <3>1, <3>2, Zenon
  <2>. QED
    BY <2>2, <2>3
<1>. DEFINE C == Coming(x, i)
<1>4. WordsOf(x.outgoing, i) \subseteq C /\ WordsOf(x.newOutgoing, i) \subseteq C
  BY DEF Coming
<1>. HIDE DEF a, b, n, g, t, C
<1>5. ASSUME NEW w \in t - g + 1 .. end PROVE w \in C
  <2>1. w \in Int /\ w > end - b - a /\ w <= end
    BY <1>1
  <2>2. CASE w <= end - b
    <3>. DEFINE k == w - (end - b - a)
    <3>1. k \in 1 .. a /\ w = end - b - a + k
      BY <1>1, <2>1, <2>2
    <3>. HIDE DEF k
    <3>2. w \in WordsOf(x.outgoing, i)
      BY <1>3, <3>1
    <3>. QED
      BY <1>4, <3>2
  <2>3. CASE ~ (w <= end - b)
    <3>. DEFINE k == w - (end - b)
    <3>1. k \in 1 .. b /\ w = end - b + k
      BY <1>1, <2>1, <2>3
    <3>. HIDE DEF k
    <3>2. w \in WordsOf(x.newOutgoing, i)
      BY <1>3, <3>1
    <3>. QED
      BY <1>4, <3>2
  <2>. QED
    BY <2>2, <2>3
<1>6. t - g \in Int
  BY <1>1
<1>. QED
  BY <1>5, <1>6 DEF C, t, g

LEMMA ExactIsLossless ==
  ASSUME NEW x, NEW i \in Consoles, Counted(x, i), Consecutive(x, i), NEW end, OwnWords(x, end),
         NEW y, Receptive(y), ~y.overflow, NEW last \in Nat, InOrder(Here(y), i, last),
         NEW slot, NEW back, Exact(x, y, i, end, last, slot, back)
  PROVE  NoneMissing(Here(y), i, last, Coming(x, i), end)
<1>. DEFINE v == Top(x, end) - Lag(x, y, i)
            C == Coming(x, i)
<1>1. Lag(x, y, i) \in Nat
  BY BackIs DEF Lag, Receptive
<1>2. v + 1 .. end \subseteq C /\ v \in Int
  BY <1>1, ComingHas
<1>3. HasAll(y, i, last, v)
  BY DEF Exact
<1>. HIDE DEF v, C
<1>4. last <= v /\ WordsOf(Here(y), i) = last + 1 .. v
  BY <1>3 DEF HasAll, Has
<1>5. v \in Nat /\ end \in Nat
  BY <1>2, <1>4 DEF OwnWords
<1>6. Here(y) \in Seq(Message)
  <2>1. y.incoming \in Seq(Message) /\ y.newIncoming \in Seq(Message)
    BY DEF Receptive, Queue
  <2>. QED
    BY <2>1 DEF Here
<1>7. NoneMissing(Here(y), i, last, C, end)
  BY <1>2, <1>4, <1>5, <1>6, NoneMissingIs
<1>. QED
  BY <1>7 DEF C

LEMMA LossConfigured ==
  ASSUME LossInv, NEW c \in Consoles, session[c].retransmission
  PROVE  exchange.retransmission = TRUE
<1>1. session[c].retransmission = exchange.retransmission
  BY DEF LossInv, CountsInv
<1>2. exchange.retransmission \in BOOLEAN
  BY MessagesAssumption DEF LossInv
<1>. QED
  BY <1>1, <1>2

LEMMA LossIsNone == LossInv => NoMessageLoss
<1>. SUFFICES ASSUME LossInv, NEW p \in Consoles, NEW c \in Consoles, p # c
              PROVE  /\ session[c].retransmission => InOrder(Here(session[c]), p, got[c][p])
                     /\ c = 0 => Lossless(p, c)
                     /\ p = 0 /\ Cardinality(linked) <= 1 /\ playerCount[0] <= 2 => Lossless(p, c)
  BY DEF NoMessageLoss
<1>1. ASSUME exchange.retransmission = TRUE
      PROVE  /\ DOMAIN session = Consoles /\ 0 \in Consoles /\ Sound(session[0], 0)
             /\ \A d \in Consoles : Sound(session[d], d)
             /\ \A q \in Clients : Between(session[0], session[q], q, up[q], down[q],
                                           AllPlaces(session))
  BY <1>1, GoodIs DEF LossInv
<1>2. ASSUME session[c].retransmission PROVE InOrder(Here(session[c]), p, got[c][p])
  <2>1. Sound(session[c], c)
    BY <1>1, <1>2, LossConfigured
  <2>. QED
    BY <2>1, SoundIs
<1>3. ASSUME c = 0 PROVE Lossless(p, c)
  <2>. SUFFICES ASSUME {p, c} \subseteq {0} \cup linked,
                       \A d \in {p, c} : session[d].retransmission /\ ~session[d].overflow
                PROVE  NoneMissing(Here(session[c]), p, got[c][p], Coming(session[p], p), sent[p])
    BY DEF Lossless
  <2>1. exchange.retransmission = TRUE
    BY LossConfigured
  <2>2. p \in Clients /\ p # 0
    BY <1>3 DEF Consoles
  <2>3. /\ Counted(session[p], p) /\ Consecutive(session[p], p) /\ OwnWords(session[p], sent[p])
        /\ Receptive(session[0]) /\ got[0][p] \in Nat
        /\ InOrder(Here(session[0]), p, got[0][p])
    BY <1>1, <2>1, SoundIs
  <2>4. Exact(session[p], session[0], p, sent[p], got[0][p], up[p], down[p])
    BY <1>1, <2>1, <2>2, BetweenIs
  <2>5. ~session[0].overflow
    BY <1>3
  <2>6. NoneMissing(Here(session[0]), p, got[0][p], Coming(session[p], p), sent[p])
    BY <2>3, <2>4, <2>5, ExactIsLossless
  <2>. QED
    BY <1>3, <2>2, <2>6
<1>4. ASSUME p = 0, Cardinality(linked) <= 1, playerCount[0] <= 2 PROVE Lossless(p, c)
  <2>. SUFFICES ASSUME {p, c} \subseteq {0} \cup linked,
                       \A d \in {p, c} : session[d].retransmission /\ ~session[d].overflow
                PROVE  NoneMissing(Here(session[c]), p, got[c][p], Coming(session[p], p), sent[p])
    BY DEF Lossless
  <2>1. exchange.retransmission = TRUE
    BY LossConfigured
  <2>2. c \in Clients /\ c \in linked /\ c # 0
    BY <1>4 DEF Consoles
  <2>3. Single(c)
    <3>1. linked \subseteq Clients
      BY DEF LossInv, CountsInv
    <3>2. ASSUME NEW d \in linked, d # c PROVE FALSE
      <4>1. linked \in SUBSET Clients /\ {c, d} \in SUBSET linked
        BY <2>2, <3>1
      <4>2. Cardinality({c, d}) <= Cardinality(linked) /\ Cardinality(linked) \in Nat
        BY <4>1, CountLinked
      <4>3. Cardinality({c, d}) = 2
        <5>1. IsFiniteSet({d}) /\ Cardinality({d}) = 1
          BY FS_Singleton
        <5>2. Cardinality({d} \cup {c}) = Cardinality({d}) + 1
          BY <3>2, <5>1, FS_AddElement
        <5>3. {d} \cup {c} = {c, d}
          OBVIOUS
        <5>. QED
          BY <5>1, <5>2, <5>3
      <4>. QED
        BY <1>4, <4>2, <4>3
    <3>. QED
      BY <1>4, <3>2 DEF Single
  <2>4. /\ Counted(session[0], 0) /\ Consecutive(session[0], 0) /\ OwnWords(session[0], sent[0])
        /\ Receptive(session[c]) /\ got[c][0] \in Nat
        /\ InOrder(Here(session[c]), 0, got[c][0]) /\ 0 \in Consoles
    BY <1>1, <2>1, SoundIs
  <2>5. Exact(session[0], session[c], 0, sent[0], got[c][0], down[c], up[c])
    BY <1>1, <2>1, <2>2, <2>3, BetweenIs
  <2>6. ~session[c].overflow
    BY <1>4
  <2>7. NoneMissing(Here(session[c]), 0, got[c][0], Coming(session[0], 0), sent[0])
    BY <2>4, <2>5, <2>6, ExactIsLossless
  <2>. QED
    BY <1>4, <2>7
<1>. QED
  BY <1>2, <1>3, <1>4

LEMMA InitLoss == MessagesInit => LossInv
<1>. SUFFICES ASSUME MessagesInit PROVE LossInv
  OBVIOUS
<1>1. DOMAIN got = Consoles /\ exchange \in Exchanges
  BY DEF MessagesInit
<1>. QED
  BY <1>1, InitCounts, InitGood DEF LossInv

LEMMA StepLoss == LossInv /\ [MessagesNext]_messagesVars => LossInv'
<1>. SUFFICES ASSUME LossInv, [MessagesNext]_messagesVars PROVE LossInv'
  OBVIOUS
<1>1. CountsInv /\ CountsInv'
  BY StepCounts DEF LossInv
<1>2. ASSUME DOMAIN got' = Consoles, exchange' = exchange,
             Good(session, up, down) => Good(session, up, down)'
      PROVE  LossInv'
  BY <1>1, <1>2 DEF LossInv
<1>3. /\ DOMAIN got = Consoles /\ playerCount \in [Consoles -> Nat] /\ 0 \in Consoles
      /\ Cardinality(linked) \in Nat
  BY Players, CountLinked DEF LossInv, CountsInv
<1>4. ASSUME NEW c \in Consoles, SendData(c) PROVE LossInv'
  <2>1. UNCHANGED <<playerCount, linked, sent, got, exchange>>
    BY <1>4 DEF SendData
  <2>2. ASSUME Good(session, up, down) PROVE Good(session, up, down)'
    <3>1. Good(session', up', down')
      BY <1>1, <1>4, <2>2, GoodSendData
    <3>2. \A p \in Clients : linked' \subseteq {p} /\ playerCount'[0] <= 2 => Single(p)
      BY <2>1 DEF Single
    <3>. QED
      BY <2>1, <3>1, <3>2, GoodStays
  <2>. QED
    BY <1>2, <1>3, <2>1, <2>2
<1>5. ASSUME NEW c \in Consoles, ReceiveData(c) PROVE LossInv'
  <2>1. UNCHANGED <<linked, sent, got, exchange>> /\ playerCount'[0] = playerCount[0]
    <3>1. \E count : /\ playerCount' = [playerCount EXCEPT ![c] = count]
                     /\ c = 0 => count = playerCount[c]
      BY <1>5 DEF ReceiveData
    <3>2. playerCount'[0] = playerCount[0]
      BY <1>3, <3>1
    <3>. QED
      BY <1>5, <3>2 DEF ReceiveData
  <2>2. ASSUME Good(session, up, down) PROVE Good(session, up, down)'
    <3>1. Good(session', up', down')
      BY <1>1, <1>5, <2>2, GoodReceiveData
    <3>2. \A p \in Clients : linked' \subseteq {p} /\ playerCount'[0] <= 2 => Single(p)
      BY <2>1 DEF Single
    <3>. QED
      BY <2>1, <3>1, <3>2, GoodStays
  <2>. QED
    BY <1>2, <1>3, <2>1, <2>2
<1>6. ASSUME NEW c \in Consoles, Sends(c) PROVE LossInv'
  <2>1. UNCHANGED <<got, exchange>>
    BY <1>6 DEF Sends
  <2>. QED
    BY <1>1, <1>2, <1>3, <1>6, <2>1, GoodSends
<1>7. ASSUME NEW c \in Consoles, Reads(c) PROVE LossInv'
  <2>1. exchange' = exchange
    BY <1>7 DEF Reads
  <2>2. DOMAIN got' = Consoles
    BY <1>3, <1>7 DEF Reads
  <2>. QED
    BY <1>1, <1>2, <1>3, <1>7, <2>1, <2>2, GoodReads
<1>8. ASSUME UNCHANGED <<session, up, down, sent, got, exchange>>, linked \subseteq linked',
             playerCount'[0] <= 2 => playerCount[0] <= 2
      PROVE  LossInv'
  <2>1. ASSUME Good(session, up, down) PROVE Good(session, up, down)'
    <3>1. Good(session', up', down')
      BY <1>8, <2>1
    <3>2. \A p \in Clients : linked' \subseteq {p} /\ playerCount'[0] <= 2 => Single(p)
      BY <1>8 DEF Single
    <3>. QED
      BY <1>8, <3>1, <3>2, GoodStays
  <2>. QED
    BY <1>2, <1>3, <1>8, <2>1
<1>9. ASSUME NEW c \in Clients, Joins(c) PROVE LossInv'
  BY <1>8, <1>9 DEF Joins
<1>10. CASE SignalLevel
  <2>1. /\ UNCHANGED <<session, linked, up, down, sent, got, exchange>>
        /\ Cardinality(linked) >= playerCount[0]
        /\ playerCount'[0] = 1 + Cardinality(linked)
    BY <1>3, <1>10 DEF SignalLevel
  <2>2. playerCount'[0] <= 2 => playerCount[0] <= 2
    BY <1>3, <2>1
  <2>. QED
    BY <1>8, <2>1, <2>2
<1>11. CASE UNCHANGED messagesVars
  BY <1>8, <1>11 DEF messagesVars
<1>. QED
  BY <1>4, <1>5, <1>6, <1>7, <1>9, <1>10, <1>11 DEF MessagesNext

(* Between any number of consoles, for any sizes of the queues, the        *)
(* windows and a transfer: with retransmission every word of a client has  *)
(* got to the server, or is still in the client's queues, and so with the  *)
(* server's words for its only client, from the first word on, as long as  *)
(* no queue overflows; and no word, forwarded ones included, is repeated   *)
(* or overtaken.  A packet ID that is reused too early, a slot that is     *)
(* read twice, or an ack that confirms what was not received would break   *)
(* it.                                                                     *)
THEOREM NoMessageIsMissing == MessagesSpec => []NoMessageLoss
<1>. QED
  BY InitLoss, StepLoss, LossIsNone, PTL DEF MessagesSpec
=============================================================================
