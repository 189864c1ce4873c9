----------------------------- MODULE LinkMobile -----------------------------
(***************************************************************************)
(* gbashared/lib/LinkMobile.hpp: the driver for the Mobile Adapter GB.  The *)
(* program queues requests; VBLANK turns the first into a command; a       *)
(* command and its answer go over the link word by word, TIMER starting    *)
(* each transfer and SERIAL ending it.  The program is interrupted, the    *)
(* handlers are not.                                                       *)
(*                                                                         *)
(* The adapter is external: it takes commands and answers them, may be     *)
(* slow, refuse, be lost or leave, and has phone calls of its own.         *)
(***************************************************************************)
EXTENDS Naturals, Sequences

CONSTANTS
  Slots,            \* the structs (DNSQuery, DataTransfer, ...) results are put into
  Questions,        \* per struct, what a program may ask for with it: domains, addresses,
                    \*   connections, bytes to transfer
  Uses,             \* triples: the requests a program makes, whether its adapter has
                    \*   SIO32, and which request each struct is for
  QueueSize,        \* LINK_MOBILE_QUEUE_SIZE
  Timeout,          \* config.timeout
  InitWait,         \* INIT_WAIT_FRAMES
  InitTimeout,      \* INIT_TIMEOUT_FRAMES
  PingFrequency,    \* PING_FREQUENCY_FRAMES
  MaxIncidents      \* bound: garbled words, odd answers, an adapter that leaves, and
                    \* programs that stop or start the driver again

NoSlot == "no slot"
Answered == {"DNS_QUERY", "OPEN_CONNECTION", "CLOSE_CONNECTION", "TRANSFER"}
Types == Answered \cup {"CALL", "PPP_LOGIN", "HANG_UP", "SHUTDOWN"}

ASSUME LinkMobileAssumption ==
  /\ NoSlot \notin Slots /\ Uses \subseteq (SUBSET Types) \X BOOLEAN \X [Slots -> Answered]
  /\ {QueueSize, InitWait, InitTimeout, PingFrequency} \subseteq Nat \ {0}
  /\ Timeout \in Nat \ {0, 1}
  /\ MaxIncidents \in Nat

VARIABLES
  m,            \* the driver, with the results its requests point to
  main,         \* where the program is, and the request it is making
  adapter,
  use, incidents

vars == <<m, main, adapter, use, incidents>>

Link == INSTANCE LinkPort WITH Empty <- <<"no data">>

-----------------------------------------------------------------------------
(* Words.  A part of a message stands for the bytes or words it is cut     *)
(* into: 8 bits at a time the two sides acknowledge with a device and then *)
(* with the command, 32 bits at a time with both at once.                  *)

Parts(wide) == IF wide THEN <<"header", "body", "ack">>
               ELSE <<"header", "body", "device", "ack">>
Last(wide) == Len(Parts(wide))

Zero    == <<"zero">>
Waiting == <<"waiting">>               \* GBA_WAITING, ADAPTER_WAITING
Garbled == <<"garbled">>
OddSize(id) == <<"odd size", id>>      \* a header whose size cannot be
NoId   == "none"
NoData == <<>>
Nobody == "nobody"                     \* ACK_SENDER

\* The part of a message about command id; answers acknowledge to nobody.
Word(part, id, data) ==
  CASE part = "header" -> <<"header", id>>
    [] part = "body"   -> <<"body", id, data>>
    [] part = "device" -> <<"device">>
    [] part = "ack"    -> <<"ack", id>>

-----------------------------------------------------------------------------
(* The driver: its states, and what several handlers do.                   *)

Starting == {"PINGING", "WAITING_TO_START", "STARTING_SESSION", "ACTIVATING_SIO32",
             "WAITING_32BIT_SWITCH", "READING_CONFIGURATION"}
InSession == {"SESSION_ACTIVE", "CALL_REQUESTED", "CALLING", "CALL_ESTABLISHED",
              "ISP_CALL_REQUESTED", "ISP_CALLING", "PPP_LOGIN", "PPP_ACTIVE",
              "SHUTDOWN_REQUESTED"}
Ending == {"ENDING_SESSION", "WAITING_8BIT_SWITCH", "SHUTDOWN"}
States == {"NEEDS_RESET"} \cup Starting \cup InSession \cup Ending

isSessionActive(d) == d.state \in InSession
shouldAbortOnStateTimeout(d) == d.state \in Starting

NoCommand == [isActive |-> FALSE, direction |-> "SENDING", transferred |-> 0,
              id |-> NoId, data |-> NoData, result |-> "PENDING"]

\* A struct, and the last request it was given to.
Unused == [completed |-> TRUE, success |-> FALSE, data |-> NoData, type |-> "none",
           asks |-> NoData]

setState(d, s) == [d EXCEPT !.state = s, !.role = "NO_P2P_CONNECTION",
                            !.timeoutStateFrames = 0, !.pingFrameCount = 0]

\* A mutant: the word that waits for TIMER is not forgotten.
resetStateKeepsWord(d) ==
  [setState(d, "NEEDS_RESET") EXCEPT !.requests = <<>>, !.needsClear = @ \/ d.isWriting,
     !.async = NoCommand, !.waitFrames = 0]

\* The queue is cleared now and, when the program is in its push, again after it.
resetState(d) ==
  [setState(d, "NEEDS_RESET") EXCEPT !.requests = <<>>, !.needsClear = @ \/ d.isWriting,
     !.async = NoCommand, !.waitFrames = 0, !.pending = Link!NoWord]

stop(d) == [d EXCEPT !.port = Link!deactivate(@, "spi")]

abort(d, error) == stop([resetState(d) EXCEPT !.error = error])

transferAsync(d, word) == [d EXCEPT !.pending = word]

setDataSize(d, wide) == [d EXCEPT !.port = Link!activate(@, "spi"), !.wide = wide]

start(d) == transferAsync(setState(setDataSize(d, FALSE), "PINGING"), Zero)

advance(d, word) == [transferAsync(d, word) EXCEPT !.async.transferred = @ + 1]

\* The data of a command stands for what the adapter is asked.
sendCommandAsync(d, id, data) ==
  advance([d EXCEPT !.async = [NoCommand EXCEPT !.isActive = TRUE, !.id = id, !.data = data],
                    !.asked = id],
          Word("header", id, data))

receiveCommandAsync(d) ==
  transferAsync([d EXCEPT !.async = [NoCommand EXCEPT !.isActive = TRUE,
                                                      !.direction = "RECEIVING"]], Waiting)

\* Puts a result into the struct of a request.
Filled(d, r, success, data) ==
  IF r.slot = NoSlot THEN d
  ELSE LET old == d.results[r.slot]
       IN  [d EXCEPT !.results[r.slot] = [old EXCEPT !.completed = TRUE, !.success = success,
                                            !.data = IF success THEN data ELSE old.data]]

\* A mutant: the struct of a request that goes unserved is left as it is.
popRequestUnanswered(d) == [d EXCEPT !.requests = Tail(@)]

\* A request that goes unserved has failed, unless it was finished before.
popRequest(d) ==
  LET r == Head(d.requests)
      e == IF r.finished THEN d ELSE Filled(d, r, FALSE, NoData)
  IN  [e EXCEPT !.requests = Tail(@)]

-----------------------------------------------------------------------------
(* VBLANK.                                                                 *)

\* One state after the other, each as soon as no command is under way.
Dial(d, r) ==
  LET e == IF d.state = "SESSION_ACTIVE" THEN setState(d, "CALL_REQUESTED") ELSE d
  IN  IF d.async.isActive THEN e
      ELSE popRequest(sendCommandAsync(setState(e, "CALLING"), "DIAL_TELEPHONE", <<"p2p">>))

Login(d, r) ==
  LET e == IF d.state = "SESSION_ACTIVE" THEN setState(d, "ISP_CALL_REQUESTED") ELSE d
  IN  IF d.async.isActive \/ e.state # "ISP_CALL_REQUESTED" THEN e
      ELSE sendCommandAsync(setState(e, "ISP_CALLING"), "DIAL_TELEPHONE", <<"ppp">>)

EndSession(d, r) ==
  LET e == IF d.state # "SHUTDOWN_REQUESTED" THEN setState(d, "SHUTDOWN_REQUESTED") ELSE d
  IN  IF d.async.isActive THEN e
      ELSE popRequest(sendCommandAsync(setState(e, "ENDING_SESSION"), "END_SESSION", NoData))

\* The states a request is served in; in others it is popped.
ServedIn(type) ==
  CASE type = "CALL"      -> {"SESSION_ACTIVE", "CALL_REQUESTED"}
    [] type = "PPP_LOGIN" -> {"SESSION_ACTIVE", "ISP_CALL_REQUESTED", "ISP_CALLING"}
    [] type \in {"TRANSFER", "HANG_UP"} -> {"CALL_ESTABLISHED", "PPP_ACTIVE"}
    [] type = "SHUTDOWN"  -> States
    [] OTHER              -> {"PPP_ACTIVE"}

\* commandSent is set in a copy of the request, so nothing here depends on it.
Serve(d, r) ==
  CASE d.state \notin ServedIn(r.type) -> popRequest(d)
    [] d.state \in ServedIn(r.type) /\ r.type = "CALL"      -> Dial(d, r)
    [] d.state \in ServedIn(r.type) /\ r.type = "PPP_LOGIN" -> Login(d, r)
    [] d.state \in ServedIn(r.type) /\ r.type = "SHUTDOWN"  -> EndSession(d, r)
    [] OTHER -> IF d.async.isActive THEN d ELSE sendCommandAsync(d, r.type, <<r.type, r.asks>>)

\* The age of a request is counted in a copy as well: it never gets beyond one frame.
processUserRequests(d) ==
  LET e == IF Head(d.requests).finished THEN [d EXCEPT !.requests = Tail(@)] ELSE d
      request == [Head(e.requests) EXCEPT !.timeout = @ + 1]
  IN  CASE d.isWriting \/ d.requests = <<>> -> d
        [] ~d.isWriting /\ d.requests # <<>> /\ ~isSessionActive(d) ->
             [d EXCEPT !.requests = <<>>]
        [] OTHER -> IF e.requests = <<>> THEN e
                    ELSE IF request.timeout >= Timeout THEN abort(e, "TIMEOUT")
                    ELSE Serve(e, request)

\* The states that wait for frames go on when none is left.
Waited(d) == IF d.waitFrames > 1 THEN [d EXCEPT !.waitFrames = @ - 1] ELSE
  LET e == [d EXCEPT !.waitFrames = 0]
  IN  CASE d.state = "WAITING_TO_START" ->
             sendCommandAsync(setState(e, "STARTING_SESSION"), "BEGIN_SESSION", NoData)
        [] d.state = "WAITING_32BIT_SWITCH" ->
             sendCommandAsync(setState(e, "READING_CONFIGURATION"), "READ_CONFIGURATION", <<"1st">>)
        [] d.state = "WAITING_8BIT_SWITCH" ->
             setState([e EXCEPT !.error = "NONE"], "SHUTDOWN")

processNewFrame(d) ==
  CASE d.state \in {"WAITING_TO_START", "WAITING_32BIT_SWITCH", "WAITING_8BIT_SWITCH"} ->
         Waited(d)
    [] d.state = "SESSION_ACTIVE" /\ ~d.async.isActive ->
         sendCommandAsync(d, "WAIT_FOR_TELEPHONE_CALL", NoData)
    [] OTHER -> d

\* The adapter is asked for its status now and then, when no command is under way.
Ping(d) ==
  LET e == [d EXCEPT !.pingFrameCount = IF @ < PingFrequency THEN @ + 1 ELSE @]
  IN  IF e.pingFrameCount >= PingFrequency /\ isSessionActive(e) /\ ~e.async.isActive
      THEN sendCommandAsync([e EXCEPT !.pingFrameCount = 0], "TELEPHONE_STATUS", NoData)
      ELSE e

\* A frame more in a state that must not last.
counted(d) ==
  IF shouldAbortOnStateTimeout(d) THEN [d EXCEPT !.timeoutStateFrames = @ + 1] ELSE d

-----------------------------------------------------------------------------
(* SERIAL.                                                                 *)

ErrorStatus == "ERROR_STATUS"

Done(d, result) == [d EXCEPT !.async.isActive = FALSE, !.async.result = result]

Odd == <<"odd">>   \* data whose size is not that of its command's answer

\* The body of an error names the command it is about.
finish(d) ==
  CASE d.async.id # ErrorStatus -> Done(d, "SUCCESS")
    [] d.async.id = ErrorStatus /\ d.async.data = Odd -> Done(d, "WEIRD_ERROR_CODE")
    [] OTHER -> Done([d EXCEPT !.async.id = d.async.data[1]], "ERROR_CODE")

\* A part after the other; then the answers to the last two of them are looked at.
sendAsyncCommand(d, data) ==
  LET t == d.async.transferred
      next == Word(Parts(d.wide)[t + 1], d.async.id, d.async.data)
  IN  CASE t = Last(d.wide) ->
             IF data = Word("ack", d.async.id, NoData) THEN finish(d)
             ELSE Done(d, "INVALID_COMMAND_ACK")
        [] t < Last(d.wide) /\ Parts(d.wide)[t] = "device" /\ data # Word("device", NoId, NoData) ->
             Done(d, "INVALID_DEVICE_ID")
        [] OTHER -> advance(d, next)

\* The driver waits until the answer begins, and acknowledges it at its end.
receiveAsyncCommand(d, data) ==
  LET t == d.async.transferred
      part == Parts(d.wide)[t + 1]
      stored == CASE part = "header" -> [d EXCEPT !.async.id = data[2]]
                  [] part = "body"   -> [d EXCEPT !.async.data = data[3]]
                  [] OTHER           -> d
      acked == Word(Parts(d.wide)[t + 2], d.async.id, NoData)
  IN  CASE part = "header" /\ data = Waiting -> transferAsync(d, Waiting)
        [] part = "header" /\ data[1] = "odd size" -> Done(stored, "WEIRD_DATA_SIZE")
        [] part = "header" /\ data[1] \notin {"waiting", "header", "odd size"} ->
             Done(d, "INVALID_MAGIC_BYTES")
        [] part = "body" /\ data[1] # "body" -> Done(d, "WRONG_CHECKSUM")
        [] part = "device" /\ data[1] # "device" -> Done(d, "INVALID_DEVICE_ID")
        [] part = "ack" -> IF data = Word("ack", Nobody, NoData) THEN finish(d)
                           ELSE Done(d, "INVALID_COMMAND_ACK")
        [] part = "header" /\ data[1] = "header" -> advance(stored, Waiting)
        [] OTHER -> advance(stored, acked)

relatedCommandId(d) == d.async.id
respondsTo(d, id) == d.async.direction = "RECEIVING" /\ relatedCommandId(d) = id

\* Commands that may fail; none may while it is sent.
shouldAbortOnCommandFailure(d) ==
  \/ d.async.direction = "SENDING"
  \/ relatedCommandId(d) \notin Answered \cup {"WAIT_FOR_TELEPHONE_CALL", "DIAL_TELEPHONE"}

\* A mutant: the request is not finished, and so becomes a command again.
AnswerUnfinished(d, type) ==
  Filled(d, Head(d.requests), d.async.result = "SUCCESS", d.async.data)

\* The first request gets the answer of the command it has become.
Answer(d, type) ==
  LET r == Head(d.requests)
      ok == d.async.result = "SUCCESS"
  IN  CASE r.type # type -> abort(d, "WTF")
        [] r.type = type /\ ok /\ d.async.data = Odd /\ type # "CLOSE_CONNECTION" ->
             abort(d, "WEIRD_RESPONSE")
        [] OTHER -> [Filled(d, r, ok, d.async.data) EXCEPT !.requests[1].finished = TRUE]

ConnectionClosed(d) ==
  LET r == Head(d.requests)
  IN  IF r.type # "TRANSFER" THEN abort(d, "WTF")
      ELSE [Filled(d, r, FALSE, NoData) EXCEPT !.requests[1].finished = TRUE]

\* The phone call of the program has been answered, or not.
Dialled(d) ==
  IF d.async.result = "SUCCESS"
  THEN [setState(d, "CALL_ESTABLISHED") EXCEPT !.role = "CALLER"]
  ELSE setState(d, "SESSION_ACTIVE")

DialledISP(d) ==
  LET e == IF d.async.result = "SUCCESS"
           THEN sendCommandAsync(setState(d, "PPP_LOGIN"), "ISP_LOGIN", NoData)
           ELSE setState(d, "SESSION_ACTIVE")
  IN  IF d.requests = <<>> \/ Head(d.requests).type # "PPP_LOGIN" THEN abort(d, "WTF")
      ELSE [e EXCEPT !.requests[1].finished = TRUE]

HungUp(d) == setState(d, "SESSION_ACTIVE")

\* What an answer means in each state.
processAnswer(d) ==
  LET ok == d.async.result = "SUCCESS"
  IN
  CASE respondsTo(d, "TELEPHONE_STATUS") ->
         IF d.async.data = Odd THEN abort(d, "WEIRD_RESPONSE")
         ELSE IF d.state = "CALL_ESTABLISHED" /\ d.async.data # <<"in call">> THEN HungUp(d)
         ELSE d
    [] d.state = "STARTING_SESSION" /\ respondsTo(d, "BEGIN_SESSION") ->
         IF d.async.data = Odd THEN abort(d, "WEIRD_RESPONSE")
         ELSE sendCommandAsync(setState(d, "ACTIVATING_SIO32"), "SIO32", NoData)
    [] d.state = "ACTIVATING_SIO32" /\ respondsTo(d, "RESET") ->
         sendCommandAsync(setState(d, "READING_CONFIGURATION"), "READ_CONFIGURATION", <<"1st">>)
    [] d.state = "ACTIVATING_SIO32" /\ respondsTo(d, "SIO32") ->
         setDataSize([setState(d, "WAITING_32BIT_SWITCH") EXCEPT !.waitFrames = InitWait], TRUE)
    [] d.state = "READING_CONFIGURATION" /\ respondsTo(d, "READ_CONFIGURATION") ->
         (CASE d.async.data = <<"1st">> -> sendCommandAsync(d, "READ_CONFIGURATION", <<"2nd">>)
            [] d.async.data = <<"2nd">> -> setState(d, "SESSION_ACTIVE")
            [] OTHER -> abort(d, "WEIRD_RESPONSE"))
    [] d.state = "SESSION_ACTIVE" /\ respondsTo(d, "WAIT_FOR_TELEPHONE_CALL") /\ ok ->
         [setState(d, "CALL_ESTABLISHED") EXCEPT !.role = "RECEIVER"]
    [] d.state = "CALLING" /\ respondsTo(d, "DIAL_TELEPHONE") -> Dialled(d)
    [] d.state \in {"CALL_ESTABLISHED", "PPP_ACTIVE"} /\ respondsTo(d, "HANG_UP") -> HungUp(d)
    [] d.state = "CALL_ESTABLISHED" /\ respondsTo(d, "TRANSFER") ->
         IF d.requests = <<>> THEN abort(d, "WTF") ELSE Answer(d, "TRANSFER")
    [] d.state = "ISP_CALLING" /\ respondsTo(d, "DIAL_TELEPHONE") -> DialledISP(d)
    [] d.state = "PPP_LOGIN" /\ respondsTo(d, "ISP_LOGIN") ->
         IF ok THEN setState(d, "PPP_ACTIVE") ELSE abort(d, "PPP_LOGIN_FAILED")
    [] d.state = "PPP_ACTIVE" /\ d.requests # <<>> /\ relatedCommandId(d) \in Answered ->
         Answer(d, relatedCommandId(d))
    [] d.state = "PPP_ACTIVE" /\ d.requests # <<>> /\ respondsTo(d, "CONNECTION_CLOSED") ->
         ConnectionClosed(d)
    [] d.state = "ENDING_SESSION" /\ respondsTo(d, "END_SESSION") ->
         setDataSize([setState(d, "WAITING_8BIT_SWITCH") EXCEPT !.waitFrames = InitWait], FALSE)
    [] OTHER -> d

\* Once a command is sent its answer is received; a failure may be fatal.
processAsyncCommand(d) ==
  IF d.async.result # "SUCCESS" /\ shouldAbortOnCommandFailure(d) THEN abort(d, "COMMAND_FAILED")
  ELSE IF d.async.direction = "SENDING" THEN receiveCommandAsync(d)
  ELSE processAnswer(d)

processLoosePacket(d) ==
  IF d.state = "PINGING" THEN [setState(d, "WAITING_TO_START") EXCEPT !.waitFrames = InitWait]
  ELSE d

transferred(d, data) ==
  IF d.async.direction = "SENDING" THEN sendAsyncCommand(d, data) ELSE receiveAsyncCommand(d, data)

-----------------------------------------------------------------------------
(* The adapter.  It listens for a command, then answers it; every word it  *)
(* gets is answered in the same transfer.                                  *)

NoAnswer == [id |-> NoId, data |-> NoData]

\* mode: awake, asleep (it is woken by a transfer), lost or absent.
Fresh == [mode |-> "asleep", wide |-> FALSE, call |-> "none", turn |-> "listen", at |-> 1,
          id |-> NoId, data |-> NoData, answer |-> NoAnswer]

\* What the adapter expects next.
Expected(a) ==
  LET part == Parts(a.wide)[a.at]
  IN  IF a.turn = "answer" /\ part \in {"header", "body"} THEN "waiting" ELSE part

\* The word it answers with, unless something goes wrong.
Reply(a) ==
  LET part == Parts(a.wide)[a.at]
  IN  CASE a.turn = "listen" /\ part = "ack" -> Word("ack", a.id, NoData)
        [] a.turn = "listen" /\ part = "device" -> Word("device", NoId, NoData)
        [] a.turn = "answer" /\ part = "ack" -> Word("ack", Nobody, NoData)
        [] a.turn = "answer" /\ part # "ack" /\ a.answer # NoAnswer ->
             Word(part, a.answer.id, a.answer.data)
        [] OTHER -> Waiting

\* A word that is expected takes it to its next part; the answer may not be ready yet.
Heard(a, word) ==
  LET b == CASE word[1] = "header" -> [a EXCEPT !.id = word[2]]
             [] word[1] = "body"   -> [a EXCEPT !.data = word[3]]
             [] OTHER -> a
  IN  CASE a.at < Last(a.wide) /\ ~(a.turn = "answer" /\ a.answer = NoAnswer) ->
             [b EXCEPT !.at = @ + 1]
        [] a.turn = "listen" /\ a.at = Last(a.wide) -> [a EXCEPT !.turn = "answer", !.at = 1]
        [] a.turn = "answer" /\ a.at = Last(a.wide) ->
             [Fresh EXCEPT !.mode = a.mode, !.call = a.call,
                           !.wide = CASE a.answer.id = "SIO32" -> TRUE
                                      [] a.answer.id = "END_SESSION" -> FALSE
                                      [] OTHER -> a.wide]
        [] OTHER -> a

\* What it may answer to the command it has, and the call it is in after that.
Outcomes(a) ==
  LET yes(data, call) == [id |-> a.id, data |-> data, call |-> call]
      no == [id |-> ErrorStatus, data |-> <<a.id>>, call |-> a.call]
      closed == [id |-> "CONNECTION_CLOSED", data |-> NoData, call |-> a.call]
  IN  CASE a.id = "SIO32" -> {IF use[2] THEN yes(NoData, a.call)
                               ELSE [yes(NoData, a.call) EXCEPT !.id = "RESET"]}
        [] a.id = "TELEPHONE_STATUS" ->
             {yes(<<IF a.call = "none" THEN "no call" ELSE "in call">>, a.call)}
        [] a.id = "WAIT_FOR_TELEPHONE_CALL" ->
             IF a.call = "none" THEN {yes(NoData, "p2p"), no} ELSE {no}
        [] a.id = "DIAL_TELEPHONE" -> IF a.call = "none" THEN {yes(NoData, a.data[1]), no} ELSE {no}
        [] a.id = "HANG_UP" -> {yes(NoData, "none")}
        [] a.id = "TRANSFER" ->
             {no} \cup (IF a.call = "none" THEN {} ELSE {yes(a.data, a.call)})
                  \cup (IF a.call = "ppp" THEN {closed} ELSE {})
        [] a.id \in (Answered \ {"TRANSFER"}) \cup {"ISP_LOGIN"} ->
             {yes(a.data, a.call), no}
        [] a.id = "END_SESSION" -> {yes(NoData, "none")}
        [] OTHER -> {yes(a.data, a.call)}

-----------------------------------------------------------------------------
(* The handlers and the adapter, as actions.                               *)

\* The program has written before the queue: anything may follow.
Running == main.pc # "out of bounds"

NoRequest == [type |-> "none", slot |-> NoSlot, asks |-> NoData, timeout |-> 0,
              finished |-> FALSE]

\* Once the program has called activate().
Init ==
  /\ m = start([state |-> "NEEDS_RESET", role |-> "NO_P2P_CONNECTION", requests |-> <<>>,
          isWriting |-> FALSE, needsClear |-> FALSE, async |-> NoCommand, waitFrames |-> 0,
          timeoutStateFrames |-> 0, pingFrameCount |-> 0, pending |-> Link!NoWord,
          asked |-> NoId, wide |-> TRUE, port |-> Link!ClosedPort, error |-> "NONE", isEnabled |-> TRUE,
          results |-> [s \in Slots |-> Unused]])
  /\ main = [pc |-> "main", request |-> NoRequest, cleared |-> FALSE]
  /\ adapter = Fresh
  /\ use \in Uses /\ incidents = 0

\* An adapter tells its status well before it is asked again.
Pinging == m.async.isActive /\ m.asked = "TELEPHONE_STATUS"

\* A mutant: requests come before the question for the status.
VBlankPingsLast ==
  /\ Running /\ m.isEnabled
  /\ Pinging => m.pingFrameCount + 2 < PingFrequency
  /\ \E d \in {counted(m)} :
       IF d.timeoutStateFrames >= InitTimeout THEN m' = abort(d, "ADAPTER_NOT_CONNECTED")
       ELSE \E e \in {processUserRequests(d)} : \E f \in {Ping(e)} : m' = processNewFrame(f)
  /\ UNCHANGED <<main, adapter, use, incidents>>

VBlank ==
  /\ Running /\ m.isEnabled
  /\ Pinging => m.pingFrameCount + 2 < PingFrequency
  /\ \E d \in {counted(m)} :
       IF d.timeoutStateFrames >= InitTimeout THEN m' = abort(d, "ADAPTER_NOT_CONNECTED")
       ELSE \E e \in {Ping(d)} : \E f \in {processUserRequests(e)} : m' = processNewFrame(f)
  /\ UNCHANGED <<main, adapter, use, incidents>>

Timer ==
  /\ Running /\ m.isEnabled /\ m.pending # Link!NoWord
  /\ m' = [m EXCEPT !.port = Link!transferAsync(@, "spi", m.pending), !.pending = Link!NoWord]
  /\ UNCHANGED <<main, adapter, use, incidents>>

\* What the adapter makes of a word it does not expect.
Surprised(word) ==
  LET again == [Fresh EXCEPT !.mode = "awake", !.call = adapter.call, !.wide = adapter.wide]
  IN  {[Fresh EXCEPT !.mode = "lost"]} \cup
      (CASE m.wide # adapter.wide -> {}
         [] m.wide = adapter.wide /\ word[1] = "header" ->
              {[again EXCEPT !.at = 2, !.id = word[2]]}
         [] OTHER -> {again})

\* The adapters there may be after a word, and the word each answers with.
Exchanged(word) ==
  CASE adapter.mode = "asleep" -> {<<[Fresh EXCEPT !.mode = "awake"], Garbled>>}
    [] adapter.mode \in {"lost", "absent"} -> {<<adapter, Garbled>>}
    [] adapter.mode = "awake" /\ m.wide = adapter.wide /\ word[1] = Expected(adapter) ->
         {<<Heard(adapter, word), Reply(adapter)>>}
    [] OTHER -> {<<a, Garbled>> : a \in Surprised(word)}

\* The transfer ends and the handler runs, with the word linkSPI has taken.
Received(word) ==
  LET port == Link!_onSerial(Link!stopTransfer(m.port), "spi", word)
      data == Link!AsyncData(port, "spi")
  IN  \E d \in {[m EXCEPT !.port = Link!DataTaken(port, "spi")]} :
        CASE d.state = "NEEDS_RESET" -> m' = d
          [] d.state # "NEEDS_RESET" /\ ~d.async.isActive -> m' = processLoosePacket(d)
          [] OTHER -> \E e \in {transferred(d, data)} :
               m' = IF e.async.isActive THEN e ELSE processAsyncCommand(e)

Serial ==
  /\ Running /\ Link!isSending(m.port)
  /\ \E x \in Exchanged(m.port.wire) : adapter' = x[1] /\ Received(x[2])
  /\ UNCHANGED <<main, use, incidents>>

Incident == Running /\ incidents < MaxIncidents /\ incidents' = incidents + 1

GarbledSerial ==
  /\ Incident /\ Link!isSending(m.port)
  /\ \E x \in Exchanged(m.port.wire) :
       /\ adapter' = x[1]
       /\ \/ Received(Garbled)
          \/ x[2][1] = "header" /\ Received(OddSize(x[2][2]))
  /\ UNCHANGED <<main, use>>

Answering == /\ Running /\ adapter.mode = "awake"
             /\ adapter.turn = "answer" /\ adapter.answer = NoAnswer

AdapterAnswers ==
  /\ Answering
  /\ \E o \in Outcomes(adapter) :
       adapter' = [adapter EXCEPT !.answer = [id |-> o.id, data |-> o.data], !.call = o.call]
  /\ UNCHANGED <<m, main, use, incidents>>

OddAnswer ==
  /\ Incident /\ Answering
  /\ \E o \in Outcomes(adapter) :
       adapter' = [adapter EXCEPT !.answer = [id |-> o.id, data |-> Odd], !.call = o.call]
  /\ UNCHANGED <<m, main, use>>

RemoteHangsUp ==
  /\ Running /\ adapter.call = "p2p"
  /\ adapter' = [adapter EXCEPT !.call = "none"]
  /\ UNCHANGED <<m, main, use, incidents>>

AdapterLeaves ==
  /\ Incident /\ adapter.mode # "absent"
  /\ adapter' = [Fresh EXCEPT !.mode = "absent"]
  /\ UNCHANGED <<m, main, use>>

\* It falls asleep when it has been left alone, and may be plugged in again.
AdapterSleeps ==
  /\ Running /\ m.state \in {"NEEDS_RESET", "SHUTDOWN"} /\ adapter.mode # "asleep"
  /\ adapter' = Fresh
  /\ UNCHANGED <<m, main, use, incidents>>

-----------------------------------------------------------------------------
(* The program.                                                            *)

canShutdown(d) == isSessionActive(d) /\ d.state # "SHUTDOWN_REQUESTED"

\* What the calls check before they push a request.
Possible(type) ==
  /\ CASE type \in {"CALL", "PPP_LOGIN"}    -> m.state = "SESSION_ACTIVE"
       [] type \in {"TRANSFER", "HANG_UP"}  -> m.state \in {"CALL_ESTABLISHED", "PPP_ACTIVE"}
       [] type = "SHUTDOWN"                 -> canShutdown(m)
       [] OTHER                             -> m.state = "PPP_ACTIVE"
  /\ Len(m.requests) < QueueSize

At(pc) == Running /\ main.pc = pc

\* deactivate(), and activate(), which begins with the same.
Deactivated == stop(resetState([m EXCEPT !.isEnabled = FALSE, !.error = "NONE"]))

\* What the program waited for before, it has given up.
activate ==
  /\ Incident /\ At("main")
  /\ m' = [start([Deactivated EXCEPT !.isEnabled = TRUE])
            EXCEPT !.results = [s \in Slots |-> Unused]]
  /\ UNCHANGED <<main, adapter, use>>

deactivate ==
  /\ Incident /\ At("main") /\ m.isEnabled
  /\ m' = Deactivated
  /\ UNCHANGED <<main, adapter, use>>

\* A program gives a struct to one request at a time.
Free(s) == m.results[s].completed \/ \A i \in 1..Len(m.requests) : m.requests[i].slot # s

SlotsFor(type) ==
  IF type \in Answered THEN {s \in Slots : use[3][s] = type /\ Free(s)} ELSE {NoSlot}

AskedWith(slot) == IF slot = NoSlot THEN {NoData} ELSE Questions[slot]

\* call(), callISP(), dnsQuery(), ..., and the beginning of syncPush().
Request(type, slot, asks) ==
  /\ At("main") /\ Possible(type)
  /\ main' = [main EXCEPT !.pc = "writing",
       !.request = [NoRequest EXCEPT !.type = type, !.slot = slot, !.asks = asks]]
  /\ m' = [m EXCEPT !.isWriting = TRUE,
       !.results = [s \in Slots |-> IF s # slot THEN @[s]
                    ELSE [Unused EXCEPT !.completed = FALSE, !.type = type, !.asks = asks]]]
  /\ UNCHANGED <<adapter, use, incidents>>

\* result->fail()
Refused(type, slot) ==
  /\ At("main") /\ ~Possible(type) /\ slot # NoSlot
  /\ m' = [m EXCEPT !.results[slot].completed = TRUE, !.results[slot].success = FALSE]
  /\ UNCHANGED <<main, adapter, use, incidents>>

\* The rest of syncPush(): an interrupt may come between its stores.
\* rear is moved on...
RearMoves ==
  /\ At("writing")
  /\ main' = [main EXCEPT !.pc = "storing", !.cleared = m.needsClear]
  /\ UNCHANGED <<m, adapter, use, incidents>>

\* ... and the request stored there, which is nowhere when it was cleared meanwhile.
RequestStored ==
  /\ At("storing")
  /\ IF m.needsClear /\ ~main.cleared
     THEN main' = [main EXCEPT !.pc = "out of bounds"] /\ UNCHANGED m
     ELSE /\ main' = [main EXCEPT !.pc = "stored"]
          /\ m' = [m EXCEPT !.requests = Append(@, main.request)]
  /\ UNCHANGED <<adapter, use, incidents>>

PushEnds ==
  /\ At("stored")
  /\ m' = [m EXCEPT !.isWriting = FALSE, !.needsClear = FALSE,
                    !.requests = IF m.needsClear THEN <<>> ELSE @]
  /\ main' = [main EXCEPT !.pc = "main", !.request = NoRequest, !.cleared = FALSE]
  /\ UNCHANGED <<adapter, use, incidents>>

\* waitFor() is a loop between interrupts.
Awaited(s) == isSessionActive(m) /\ s \in Slots /\ ~m.results[s].completed

waitFor(s) ==
  /\ At("main") /\ ~m.results[s].completed
  /\ main' = [main EXCEPT !.pc = "waitFor", !.request.slot = s]
  /\ UNCHANGED <<m, adapter, use, incidents>>

WaitEnds ==
  /\ At("waitFor") /\ ~Awaited(main.request.slot)
  /\ main' = [main EXCEPT !.pc = "main", !.request = NoRequest]
  /\ UNCHANGED <<m, adapter, use, incidents>>

Push == RearMoves \/ RequestStored \/ PushEnds

Next ==
  \/ VBlank \/ Timer \/ Serial \/ GarbledSerial
  \/ AdapterAnswers \/ OddAnswer \/ RemoteHangsUp \/ AdapterLeaves \/ AdapterSleeps
  \/ activate \/ deactivate \/ Push \/ WaitEnds
  \/ \E type \in use[1] : \E slot \in SlotsFor(type) :
       Refused(type, slot) \/ \E asks \in AskedWith(slot) : Request(type, slot, asks)
  \/ \E s \in Slots : waitFor(s)

Spec == Init /\ [][Next]_vars

\* Interrupts come, and the adapter answers in the end.
FairSpec == Spec /\ WF_vars(VBlank) /\ WF_vars(Timer \/ Serial) /\ WF_vars(AdapterAnswers)

-----------------------------------------------------------------------------
(* Properties.                                                             *)

Idle(d) == ~Link!isSending(d.port) /\ d.port.lib["spi"].asyncState # "WAITING"

\* One transfer at a time, and always one while a command is under way: TIMER
\* never finds linkSPI busy (it would drop the word and the command would hang),
\* no word replaces one that waits for TIMER, and nothing is left of a session
\* that was aborted or of a command that ended.
OneTransferAtATime ==
  /\ m.pending # Link!NoWord => Idle(m) /\ m.isEnabled /\ m.port.lib["spi"].asyncState = "IDLE"
  /\ m.async.isActive => m.pending # Link!NoWord \/ Link!isSending(m.port)
  /\ ~m.async.isActive /\ m.state # "PINGING" => m.pending = Link!NoWord /\ Idle(m)

\* A struct that reports success holds the answer to the last request it was given
\* to: to what that request asks for, not what another one does, be it in another
\* struct or an earlier one in this struct.  What a connection is closed with may
\* have an odd size: its struct has no room for it and no one looks.
AnswersBelong ==
  \A s \in Slots :
    LET result == m.results[s]
    IN  result.success =>
          /\ result.completed
          /\ \/ result.data = <<result.type, result.asks>>
             \/ result.type = "CLOSE_CONNECTION" /\ result.data = Odd

\* waitFor() returns: a request it waits for is answered, fails, or its session ends.
WaitsReturn == (main.pc = "waitFor") ~> ~Awaited(main.request.slot)

\* A call that the other side has ended is noticed, however busy the program is.
CallEndNoticed ==
  (m.state = "CALL_ESTABLISHED" /\ adapter.call # "p2p") ~> (m.state # "CALL_ESTABLISHED")

=============================================================================
