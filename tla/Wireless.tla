------------------------------ MODULE Wireless ------------------------------
(***************************************************************************)
(* gbashared/lib/LinkWireless.hpp: a server and its clients exchange       *)
(* messages through Wireless Adapters, on the commands and the session     *)
(* state of LinkRawWireless.hpp.                                           *)
(*                                                                         *)
(* Every console has three handlers, VBLANK, TIMER and SERIAL, which run   *)
(* to completion, and a program.  TIMER starts an asynchronous command of  *)
(* the adapter, SERIAL ends it; the program's own commands are synchronous *)
(* and isSendingSyncCommand keeps the two apart.                           *)
(*                                                                         *)
(* The adapters are external.  An adapter holds the last transfer for its  *)
(* console, a newer one replaces it, and a transfer may be lost; the slot  *)
(* of a client that has left is read again and again.                      *)
(***************************************************************************)
EXTENDS WirelessPackets

CONSTANTS
  timeout,    \* config.timeout, in frames
  Budgets     \* bound: how many words a program sends, how many calls with a
              \*   command of their own there are in a session, and how many times a
              \*   transfer is lost, a command fails, a handler times out or a
              \*   program makes another call that interrupts the exchange

ASSUME WirelessAssumption ==
  /\ timeout \in Nat \ {0}
  /\ Budgets \subseteq [words : Nat, calls : Nat, incidents : Nat]

VARIABLES
  raw,             \* per console, LinkRawWireless: state and sessionState
  command,         \* per console, the asynchronous command at work
  isSendingSyncCommand, isEnabled,
  joined,          \* the clients that were linked since the server opened
  writer,          \* the console whose program sends
  at, call,        \* per console, where its program is, and in which call
  silent,          \* per console and player, frames since that player was lost
  budget           \* what is left of the one chosen

adapters == <<linked, joined, up, down>>
program  == <<at, call>>
history  == <<writer, sent, got>>
vars == <<raw, session, command, isSendingSyncCommand, isEnabled, adapters, program,
          history, silent, budget>>

-----------------------------------------------------------------------------
(* The state of a console.                                                 *)

FreshRaw(state) == [state |-> state, playerCount |-> 1, isServerClosed |-> FALSE]

\* A server opens, or opens again.
Opened(r) == [state |-> "SERVING", playerCount |-> r.playerCount, isServerClosed |-> FALSE]

isSessionActive(c) == raw[c].state \in {"SERVING", "CONNECTED"}
isConnected(c) == raw[c].playerCount > 1
isAsyncCommandActive(c) == command[c] # None

\* The players a console listens to.
Remote(c) ==
  IF raw[c].state = "SERVING" THEN {p \in Clients : p < raw[c].playerCount} ELSE {0}

-----------------------------------------------------------------------------
(* Every adapter answers and nobody is in a session.                       *)

Init ==
  /\ raw = [c \in Consoles |-> FreshRaw("AUTHENTICATED")]
  /\ session = [c \in Consoles |-> FreshSession(TRUE)]
  /\ command = [c \in Consoles |-> None]
  /\ isSendingSyncCommand = [c \in Consoles |-> FALSE]
  /\ isEnabled = [c \in Consoles |-> TRUE]
  /\ linked = {} /\ joined = {}
  /\ up = [c \in Clients |-> None] /\ down = [c \in Clients |-> None]
  /\ writer \in Consoles
  /\ at = [c \in Consoles |-> "idle"] /\ call = [c \in Consoles |-> "none"]
  /\ sent = [c \in Consoles |-> 0]
  /\ got = [c \in Consoles |-> [p \in Consoles |-> 0]]
  /\ silent = [c \in Consoles |-> [p \in Consoles |-> 0]]
  /\ budget \in Budgets

Incident == budget.incidents > 0 /\ budget' = [budget EXCEPT !.incidents = @ - 1]

\* resetState() and stop(): the session, the adapter and its links.
Restarted(c, state) ==
  /\ raw' = [raw EXCEPT ![c] = FreshRaw(state)]
  /\ session' = [session EXCEPT ![c] = ResetSession(@)]
  /\ command' = [command EXCEPT ![c] = None]
  /\ isSendingSyncCommand' = [isSendingSyncCommand EXCEPT ![c] = FALSE]
  /\ linked' = IF c = 0 THEN {} ELSE linked \ {c}
  /\ joined' = IF c = 0 THEN {} ELSE joined
  /\ silent' = [silent EXCEPT ![c] = [p \in Consoles |-> 0]]
  /\ UNCHANGED <<up, down, history>>

\* reset() starts the adapter again; the login may fail.
reset(c) ==
  /\ \E state \in {"AUTHENTICATED", "NEEDS_RESET"} : Restarted(c, state)
  /\ UNCHANGED isEnabled

-----------------------------------------------------------------------------
(* The handlers.                                                           *)

Starts(c, x, type, data) ==
  /\ session' = [session EXCEPT ![c] = x]
  /\ command' = [command EXCEPT ![c] = [type |-> type, data |-> data]]

\* sendCommandAsync() refuses while the program has the adapter.
SignalLevelStart(c) ==
  /\ raw[c].state = "SERVING" /\ ~session[c].signalLevelCalled
  /\ ~isSendingSyncCommand[c]
  /\ Starts(c, [session[c] EXCEPT !.signalLevelCalled = TRUE], "SIGNAL_LEVEL", None)

sendPendingData(c) ==
  LET x == Assigned(copyOutgoingState(session[c]), c)
  IN  IF isSendingSyncCommand[c]
      THEN session' = [session EXCEPT ![c] = x] /\ UNCHANGED command
      ELSE Starts(c, clearInflightMessagesIfNeeded(x, c), "SEND_DATA",
                  setDataFromOutgoingMessages(x, c, raw[c].playerCount))

TransferData(c) ==
  /\ raw[c].state = "SERVING" => session[c].signalLevelCalled /\ isConnected(c)
  /\ IF ~session[c].sendReceiveLatch \/ session[c].shouldWaitForServer
     THEN ~isSendingSyncCommand[c] /\ Starts(c, session[c], "RECEIVE_DATA", None)
     ELSE sendPendingData(c)

_onTimer(c) ==
  /\ isEnabled[c] /\ isSessionActive(c)
  /\ ~isAsyncCommandActive(c)
  /\ SignalLevelStart(c) \/ TransferData(c)
  /\ UNCHANGED <<raw, isSendingSyncCommand, isEnabled, adapters, program, history, silent,
                 budget>>

Ends(c, x) ==
  /\ session' = [session EXCEPT ![c] = x]
  /\ command' = [command EXCEPT ![c] = None]
  /\ UNCHANGED <<isSendingSyncCommand, isEnabled, linked, joined, program, history, silent>>

\* The players seen only ever grow in number.
SignalLevelEnd(c) ==
  LET players == 1 + Cardinality(linked)
  IN  /\ command[c].type = "SIGNAL_LEVEL"
      /\ raw' = [raw EXCEPT ![c].playerCount = IF players > @ THEN players ELSE @]
      /\ Ends(c, session[c])
      /\ UNCHANGED <<up, down, budget>>

SendDataEnd(c) ==
  /\ command[c].type = "SEND_DATA"
  /\ \E lost \in SUBSET (IF c = 0 THEN linked ELSE linked \cap {c}) :
       /\ IF lost = {} THEN UNCHANGED budget ELSE Incident
       /\ IF c = 0
          THEN /\ down' = [p \in Clients |->
                            IF p \in linked \ lost THEN command[c].data ELSE down[p]]
               /\ UNCHANGED up
          ELSE /\ up' = IF c \in linked \ lost THEN [up EXCEPT ![c] = command[c].data] ELSE up
               /\ UNCHANGED down
  /\ Ends(c, [session[c] EXCEPT
                !.shouldWaitForServer = @ \/ raw[c].state = "CONNECTED",
                !.sendReceiveLatch = ~@])
  /\ UNCHANGED raw

ReceiveDataEnd(c) ==
  LET data == IF c = 0 THEN up ELSE [i \in {0} |-> down[c]]
      received == \E i \in DOMAIN data : data[i] # None
      latch == session[c].shouldWaitForServer \/ ~session[c].sendReceiveLatch
      playerCount == IF c # 0 /\ received THEN data[0].count ELSE raw[c].playerCount
      x == [session[c] EXCEPT !.sendReceiveLatch = latch, !.recvFlag = TRUE, !.recvTimeout = 0,
                              !.shouldWaitForServer = FALSE]
  IN  /\ command[c].type = "RECEIVE_DATA"
      /\ raw' = [raw EXCEPT ![c].playerCount = playerCount]
      /\ Ends(c, IF received THEN addIncomingMessagesFromData(x, c, data, Remote(c), playerCount)
                 ELSE [session[c] EXCEPT !.sendReceiveLatch = latch])
      /\ \E repeated \in SUBSET (joined \ linked) :
           up' = IF c = 0 THEN [p \in Clients |-> IF p \in repeated THEN up[p] ELSE None] ELSE up
      /\ down' = IF c = 0 THEN down ELSE [down EXCEPT ![c] = None]
      /\ UNCHANGED budget

\* A command fails, or the adapter does not acknowledge a word of it: abort().
CommandFails(c) ==
  /\ isAsyncCommandActive(c)
  /\ Incident
  /\ reset(c)
  /\ UNCHANGED program

_onSerial(c) ==
  /\ isEnabled[c]
  /\ SignalLevelEnd(c) \/ SendDataEnd(c) \/ ReceiveDataEnd(c) \/ CommandFails(c)

TimeoutsReset(x) ==
  IF x.isResetTimeoutPending
  THEN [x EXCEPT !.recvTimeout = 0, !.msgTimeouts = [p \in Consoles |-> 0],
                 !.isResetTimeoutPending = FALSE]
  ELSE x

\* A frame, for the console and for the players it listens to.
Frame(x, c) ==
  [x EXCEPT !.recvTimeout = IF isConnected(c) /\ ~x.recvFlag THEN @ + 1 ELSE @,
            !.recvFlag = FALSE,
            !.signalLevelCalled = FALSE,
            !.msgTimeouts = [p \in Consoles |->
               IF p \in Remote(c) /\ ~x.msgFlags[p] THEN @[p] + 1 ELSE @[p]],
            !.msgFlags = [p \in Consoles |-> p \notin Remote(c) /\ x.msgFlags[p]]]

TimedOut(x, c) == x.recvTimeout >= timeout \/ \E p \in Remote(c) : x.msgTimeouts[p] > timeout

Alive(c, p) == IF c = 0 THEN p \in linked ELSE c \in linked

_onVBlank(c) ==
  LET x == Frame(TimeoutsReset(session[c]), c)
  IN  /\ isEnabled[c] /\ isSessionActive(c)
      /\ IF TimedOut(x, c)
         THEN Incident /\ reset(c)
         ELSE /\ session' = [session EXCEPT ![c] = x]
              /\ silent' = [silent EXCEPT ![c] = [p \in Consoles |->
                   IF p \notin Remote(c) \/ Alive(c, p) \/ session[c].isResetTimeoutPending
                   THEN 0 ELSE @[p] + 1]]
              /\ UNCHANGED <<raw, command, isSendingSyncCommand, isEnabled, adapters, history,
                             budget>>
      /\ UNCHANGED program

-----------------------------------------------------------------------------
(* The program: the session.  The handlers do nothing outside of one.      *)

Calls(c) == at[c] = "idle" /\ isEnabled[c]

Enters(c, r) ==
  /\ raw' = [raw EXCEPT ![c] = r]
  /\ UNCHANGED <<session, command, isSendingSyncCommand, isEnabled, linked, joined, up, down,
                 program, history, silent, budget>>

serve ==
  /\ Calls(0) /\ raw[0].state = "AUTHENTICATED"
  /\ Enters(0, Opened(raw[0]))

getServersAsyncStart(c) ==
  /\ Calls(c) /\ c # 0 /\ raw[c].state = "AUTHENTICATED"
  /\ Incident
  /\ raw' = [raw EXCEPT ![c].state = "SEARCHING"]
  /\ UNCHANGED <<session, command, isSendingSyncCommand, isEnabled, adapters, program, history,
                 silent>>

getServersAsyncEnd(c) ==
  /\ Calls(c) /\ raw[c].state = "SEARCHING"
  /\ Enters(c, [raw[c] EXCEPT !.state = "AUTHENTICATED"])

connect(c) ==
  /\ Calls(c) /\ c # 0 /\ raw[c].state = "AUTHENTICATED"
  /\ Enters(c, [raw[c] EXCEPT !.state = "CONNECTING"])

\* The words of a player that had left its queues before a client joined are not
\* for that client.
Gone(p) ==
  sent[p] - Cardinality(PlacesOf(session[p].outgoing \o session[p].newOutgoing, p))

\* The server's adapter takes a client in, by the next player ID.
keepConnecting(c) ==
  /\ Calls(c) /\ raw[c].state = "CONNECTING"
  /\ raw[0].state = "SERVING" /\ ~raw[0].isServerClosed
  /\ joined = {p \in Clients : p < c}
  /\ raw' = [raw EXCEPT ![c].state = "CONNECTED"]
  /\ linked' = linked \cup {c} /\ joined' = joined \cup {c}
  /\ up' = [up EXCEPT ![c] = None] /\ down' = [down EXCEPT ![c] = None]
  /\ got' = [got EXCEPT ![c] = [p \in Consoles |-> IF p = 0 THEN Gone(0) ELSE 0],
                        ![0][c] = Gone(c)]
  /\ silent' = [silent EXCEPT ![c] = [p \in Consoles |-> 0], ![0][c] = 0]
  /\ UNCHANGED <<session, command, isSendingSyncCommand, isEnabled, program, writer,
                 sent, budget>>

\* A call finds no server, a command fails, or the macro that most calls begin
\* with finds a failed login: reset().
FailedCall(c) ==
  /\ Calls(c) /\ ~isSessionActive(c)
  /\ IF raw[c].state = "NEEDS_RESET" THEN UNCHANGED budget ELSE Incident
  /\ reset(c)
  /\ UNCHANGED program

\* deactivate(), which leaves the adapter idle, then activate().
deactivate(c) ==
  /\ Calls(c)
  /\ Incident
  /\ isEnabled' = [isEnabled EXCEPT ![c] = FALSE]
  /\ Restarted(c, "NEEDS_RESET")
  /\ UNCHANGED program

\* activate() resets the console before the handlers may run again.
activate(c) ==
  /\ at[c] = "idle" /\ ~isEnabled[c]
  /\ isEnabled' = [isEnabled EXCEPT ![c] = TRUE]
  /\ \E state \in {"AUTHENTICATED", "NEEDS_RESET"} : Restarted(c, state)
  /\ UNCHANGED <<program, budget>>

-----------------------------------------------------------------------------
(* The program: in a session.  The handlers run between its steps.         *)

GoTo(c, place) == at' = [at EXCEPT ![c] = place]
Rest == <<raw, command, isEnabled, adapters, silent>>

send(c) ==
  /\ Calls(c) /\ isSessionActive(c)
  /\ c = writer /\ budget.words > 0
  /\ ~isFull(session[c].newOutgoing)
  /\ Session(c, [session[c] EXCEPT !.isWriting = TRUE])
  /\ GoTo(c, "push")
  /\ UNCHANGED <<Rest, isSendingSyncCommand, call, history, budget>>

\* The queue is cleared when a handler reset the session in between; it is out
\* of the handlers' reach until then.
Push(c) ==
  /\ at[c] = "push"
  /\ LET message == [data |-> sent[c] + 1, player |-> c, id |-> NO_ID_ASSIGNED_YET]
         x == session[c]
     IN  Session(c, [x EXCEPT
           !.newOutgoing = IF x.needsClear THEN <<>> ELSE push(@, message),
           !.isWriting = FALSE, !.needsClear = FALSE])
  /\ sent' = [sent EXCEPT ![c] = @ + 1]
  /\ budget' = [budget EXCEPT !.words = @ - 1]
  /\ GoTo(c, "idle")
  /\ UNCHANGED <<Rest, isSendingSyncCommand, call, writer, got>>

\* receive(): the handlers leave incomingMessages alone until stopReading().
receive(c) ==
  /\ Calls(c) /\ isSessionActive(c)
  /\ session[c].incoming # <<>>
  /\ Session(c, [session[c] EXCEPT !.isReading = TRUE])
  /\ GoTo(c, "pop")
  /\ UNCHANGED <<Rest, isSendingSyncCommand, call, history, budget>>

Popped(c) ==
  /\ at[c] = "pop"
  /\ got' = [got EXCEPT ![c] = [p \in Consoles |-> LastOf(session[c].incoming, p, @[p])]]
  /\ Session(c, [session[c] EXCEPT !.incoming = <<>>, !.isReading = FALSE])
  /\ GoTo(c, "idle")
  /\ UNCHANGED <<Rest, isSendingSyncCommand, call, writer, sent, budget>>

\* A call with a synchronous command: serve() of a server that serves,
\* closeServer(), and getSignalLevel() of a client.
Sync(c, name) ==
  /\ Calls(c) /\ isSessionActive(c)
  /\ IF c = 0 THEN name \in {"serve", "closeServer"} ELSE name = "getSignalLevel"
  /\ name = "closeServer" => ~raw[c].isServerClosed
  /\ budget.calls > 0
  /\ budget' = [budget EXCEPT !.calls = @ - 1]
  /\ isSendingSyncCommand' = [isSendingSyncCommand EXCEPT ![c] = TRUE]
  /\ call' = [call EXCEPT ![c] = name]
  /\ GoTo(c, "check")
  /\ UNCHANGED <<Rest, session, history>>

Returns(c) == GoTo(c, "idle") /\ call' = [call EXCEPT ![c] = "none"]

\* Mutant: the command is sent whatever the handlers do.
CheckNothing(c) ==
  /\ at[c] = "check"
  /\ GoTo(c, "command")
  /\ UNCHANGED <<Rest, session, isSendingSyncCommand, call, history, budget>>
\* BUSY_TRY_AGAIN while an asynchronous command is active.
Check(c) ==
  /\ at[c] = "check"
  /\ IF isAsyncCommandActive(c)
     THEN /\ isSendingSyncCommand' = [isSendingSyncCommand EXCEPT ![c] = FALSE]
          /\ Returns(c)
     ELSE GoTo(c, "command") /\ UNCHANGED <<isSendingSyncCommand, call>>
  /\ UNCHANGED <<Rest, session, history, budget>>

\* The adapter refuses when a handler has reset it, unless it is to serve.
Answered(c) ==
  /\ at[c] = "command"
  /\ \/ isSessionActive(c)
     \/ call[c] = "serve" /\ raw[c].state = "AUTHENTICATED"
  /\ GoTo(c, "answered")
  /\ UNCHANGED <<Rest, session, isSendingSyncCommand, call, history, budget>>

Refused(c) ==
  /\ at[c] = "command"
  /\ IF isSessionActive(c) THEN Incident ELSE UNCHANGED budget
  /\ reset(c)
  /\ Returns(c)

\* What the call makes of the answer, whatever a handler did in between.
Finished(c) ==
  /\ at[c] = "answered"
  /\ raw' = [raw EXCEPT ![c] =
       CASE call[c] = "closeServer" ->
              [@ EXCEPT !.playerCount = 1 + Cardinality(linked), !.isServerClosed = TRUE]
         [] call[c] = "serve" /\ @.state # "SERVING" -> Opened(@)
         [] OTHER -> @]
  /\ isSendingSyncCommand' = [isSendingSyncCommand EXCEPT ![c] = FALSE]
  /\ Returns(c)
  /\ UNCHANGED <<session, command, isEnabled, adapters, silent, history, budget>>

resetTimeout(c) ==
  /\ Calls(c)
  /\ Incident
  /\ Session(c, [session[c] EXCEPT !.isResetTimeoutPending = TRUE])
  /\ UNCHANGED <<Rest, isSendingSyncCommand, program, history>>

Next ==
  \/ serve
  \/ \E c \in Consoles :
       \/ _onTimer(c) \/ _onSerial(c) \/ _onVBlank(c)
       \/ getServersAsyncStart(c) \/ getServersAsyncEnd(c)
       \/ connect(c) \/ keepConnecting(c) \/ FailedCall(c)
       \/ deactivate(c) \/ activate(c)
       \/ send(c) \/ Push(c) \/ receive(c) \/ Popped(c)
       \/ \E name \in {"serve", "closeServer", "getSignalLevel"} : Sync(c, name)
       \/ Check(c) \/ Answered(c) \/ Refused(c) \/ Finished(c)
       \/ resetTimeout(c)

Spec == Init /\ [][Next]_vars

-----------------------------------------------------------------------------
(* Properties.                                                             *)

(* Both are in the session that linked their adapters.                     *)
Linked(p, c) == \A d \in {p, c} : isSessionActive(d) /\ (d # 0 => d \in linked)

(* No word sent after a client joined is lost, repeated or overtaken on    *)
(* its way to the server, or from the server to its only client, in        *)
(* whatever order transfers are replaced, lost and confirmed, while no     *)
(* queue overflows.                                                        *)
NoPacketLoss ==
  \A p, c \in Consoles :
    /\ p # c /\ 0 \in {p, c} /\ Linked(p, c)
    /\ p = 0 => joined = {c}
    /\ \A d \in {p, c} : ~session[d].overflow
    => NoneMissing(Here(session[c]), p, got[c][p], Coming(session[p], p), sent[p])

(* The program's command and a handler's are never with the adapter at the *)
(* same time.                                                              *)
OneCommandAtATime ==
  \A c \in Consoles : at[c] \in {"command", "answered"} => command[c] = None

(* A client that has left is noticed although its adapter repeats its last *)
(* transfer, and so is a server that is gone.                              *)
LeaverNoticed ==
  \A c, p \in Consoles : silent[c][p] <= 2 * timeout + 1

=============================================================================
