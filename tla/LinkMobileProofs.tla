-------------------------- MODULE LinkMobileProofs --------------------------
(***************************************************************************)
(* Proofs about LinkMobile, for any program, queue, timeouts and number of *)
(* things that go wrong: one transfer at a time is under way, and a struct *)
(* that reports success holds the answer to its own request.               *)
(***************************************************************************)
EXTENDS LinkMobile, SequenceTheorems, TLAPS

-----------------------------------------------------------------------------
(* The driver's record, as far as its fields go: what most of them hold is *)
(* of no concern here.                                                     *)

Fields == {"state", "role", "requests", "isWriting", "needsClear", "async", "waitFrames",
           "timeoutStateFrames", "pingFrameCount", "pending", "asked", "wide", "port",
           "error", "isEnabled", "results"}
CommandFields == {"isActive", "direction", "transferred", "id", "data", "result"}

Shaped(d) ==
  /\ DOMAIN d = Fields /\ DOMAIN d.async = CommandFields
  /\ DOMAIN d.port = {"lib", "mode", "interrupts", "wire"}
  /\ DOMAIN d.port.lib = Link!Links
  /\ DOMAIN d.port.lib["spi"] = {"isEnabled", "asyncState", "asyncData"}

-----------------------------------------------------------------------------
(* What the link does: nothing, or a word waits for TIMER to send it, or   *)
(* is sent and waits for SERIAL.                                           *)

Open(d) == d.isEnabled /\ d.port.mode = "spi" /\ d.port.lib["spi"].isEnabled

NothingSent(d) ==
  d.pending = Link!NoWord /\ d.port.wire = Link!NoWord /\ d.port.lib["spi"].asyncState = "IDLE"

WordWaits(d) ==
  /\ d.pending # Link!NoWord /\ d.port.wire = Link!NoWord
  /\ d.port.lib["spi"].asyncState = "IDLE" /\ Open(d)

WordSent(d) ==
  /\ d.pending = Link!NoWord /\ d.port.wire # Link!NoWord
  /\ d.port.lib["spi"].asyncState = "WAITING" /\ Open(d)

\* How far the command under way has come: its header is sent at once.
Progressing(d) ==
  \/ d.async.direction = "SENDING" /\ d.async.transferred \in 1..Last(d.wide)
  \/ d.async.direction = "RECEIVING" /\ d.async.transferred \in 0..(Last(d.wide) - 1)

\* In these states no command is under way, and none may begin before they end.
Calm == {"NEEDS_RESET", "PINGING", "WAITING_TO_START", "WAITING_32BIT_SWITCH",
         "WAITING_8BIT_SWITCH"}

(* The link carries the words of one command at a time, and is silent when *)
(* none is under way; it is open unless the driver has given up.           *)
Sound(d) ==
  /\ Shaped(d)
  /\ NothingSent(d) \/ WordWaits(d) \/ WordSent(d)
  /\ d.async.isActive => (WordWaits(d) \/ WordSent(d)) /\ Progressing(d) /\ d.state \notin Calm
  /\ ~d.async.isActive /\ d.state # "PINGING" => NothingSent(d)
  /\ d.state # "NEEDS_RESET" => Open(d)

\* No command is under way, but one may begin.
Ready(d) == Shaped(d) /\ NothingSent(d) /\ ~d.async.isActive /\ Open(d)

USE DEF Fields, CommandFields

LEMMA WordsAreSent ==
  ASSUME NEW part \in {"header", "body", "device", "ack"}, NEW id, NEW data
  PROVE  Word(part, id, data) # Link!NoWord
  BY DEF Word, Link!NoWord

LEMMA SignalsAreSent == Zero # Link!NoWord /\ Waiting # Link!NoWord
  BY DEF Zero, Waiting, Link!NoWord

LEMMA PartsOfAMessage ==
  ASSUME NEW wide
  PROVE  /\ Last(wide) \in {3, 4}
         /\ \A t \in 1..Last(wide) : Parts(wide)[t] \in {"header", "body", "device", "ack"}
         /\ Parts(wide)[1] = "header" /\ Parts(wide)[Last(wide)] = "ack"
         /\ \A t \in 1..(Last(wide) - 1) : Parts(wide)[t] # "ack"
  BY DEF Parts, Last

LEMMA SoundParts ==
  ASSUME NEW d, Sound(d)
  PROVE  Shaped(d)
  BY DEF Sound

-----------------------------------------------------------------------------
(* What the handlers' helpers make of a driver.                            *)

LEMMA SetState ==
  ASSUME NEW d, Shaped(d), NEW s, NEW e, e = setState(d, s)
  PROVE  /\ Shaped(e) /\ e.state = s
         /\ e.async = d.async /\ e.pending = d.pending /\ e.port = d.port
         /\ e.isEnabled = d.isEnabled /\ e.wide = d.wide /\ e.requests = d.requests
  BY DEF setState, Shaped

\* The state, what is sent, and the command, as far as they are kept.
SameLink(d, e) ==
  /\ e.async = d.async /\ e.pending = d.pending /\ e.port = d.port
  /\ e.isEnabled = d.isEnabled /\ e.wide = d.wide

LEMMA SameIsSound ==
  ASSUME NEW d, Sound(d), NEW e, Shaped(e), SameLink(d, e), e.state = d.state
  PROVE  Sound(e)
  BY DEF Sound, SameLink, NothingSent, WordWaits, WordSent, Open, Progressing

LEMMA ReadyIsSound ==
  ASSUME NEW d, Ready(d)
  PROVE  Sound(d)
  BY DEF Ready, Sound

LEMMA SameIsReady ==
  ASSUME NEW d, Ready(d), NEW e, Shaped(e), SameLink(d, e)
  PROVE  Ready(e)
  BY DEF Ready, SameLink, NothingSent, Open

LEMMA AbortIsSound ==
  ASSUME NEW d, Shaped(d), NEW error
  PROVE  /\ Sound(abort(d, error)) /\ Sound(stop(resetState(d)))
         /\ stop(resetState(d)).state = "NEEDS_RESET"
<1>1. ASSUME NEW e, Shaped(e), e.pending = Link!NoWord, e.state = "NEEDS_RESET",
             e.async = NoCommand, NEW x, x = stop(e)
      PROVE  Sound(x) /\ x.state = "NEEDS_RESET"
  <2>1. /\ Shaped(x) /\ x.pending = Link!NoWord /\ x.port.wire = Link!NoWord
        /\ x.port.lib["spi"].asyncState = "IDLE" /\ x.state = "NEEDS_RESET"
        /\ x.async = NoCommand
    BY <1>1 DEF stop, Shaped, Link!deactivate, Link!Disabled, Link!Links
  <2>2. ~x.async.isActive
    BY <2>1 DEF NoCommand
  <2>. QED
    BY <2>1, <2>2 DEF Sound, NothingSent
<1>2. ASSUME NEW e, e = resetState(d)
      PROVE  /\ Shaped(e) /\ e.pending = Link!NoWord /\ e.state = "NEEDS_RESET"
             /\ e.async = NoCommand
  <2>. DEFINE s == setState(d, "NEEDS_RESET")
  <2>1. Shaped(s) /\ s.state = "NEEDS_RESET" /\ s.port = d.port
    BY SetState
  <2>2. e = [s EXCEPT !.requests = <<>>, !.needsClear = @ \/ d.isWriting,
                      !.async = NoCommand, !.waitFrames = 0, !.pending = Link!NoWord]
    BY <1>2 DEF resetState
  <2>. HIDE DEF s
  <2>. QED
    BY <2>1, <2>2 DEF Shaped, NoCommand
<1>3. Sound(stop(resetState(d))) /\ stop(resetState(d)).state = "NEEDS_RESET"
  BY <1>1, <1>2
<1>4. Sound(abort(d, error))
  <2>. DEFINE r == resetState(d)
              e == [r EXCEPT !.error = error]
  <2>1. /\ Shaped(r) /\ r.pending = Link!NoWord /\ r.state = "NEEDS_RESET"
        /\ r.async = NoCommand
    BY <1>2
  <2>. HIDE DEF r
  <2>2. /\ Shaped(e) /\ e.pending = Link!NoWord /\ e.state = "NEEDS_RESET"
        /\ e.async = NoCommand
    BY <2>1 DEF Shaped
  <2>3. abort(d, error) = stop(e)
    BY DEF abort, r
  <2>. HIDE DEF e
  <2>. QED
    BY <1>1, <2>2, <2>3
<1>. QED
  BY <1>3, <1>4

\* A word waits for TIMER, as the first of a command or the next one.
LEMMA LoadedIsSound ==
  ASSUME NEW d, Shaped(d), NothingSent(d), Open(d), d.state \notin Calm,
         NEW word, word # Link!NoWord,
         NEW e, Shaped(e), e.pending = word, e.port = d.port, e.isEnabled = d.isEnabled,
         e.state = d.state, e.async.isActive, Progressing(e)
  PROVE  Sound(e) /\ WordWaits(e)
<1>1. WordWaits(e)
  BY DEF NothingSent, WordWaits, Open
<1>. QED
  BY <1>1 DEF Sound, Open

LEMMA SendIsSound ==
  ASSUME NEW d, Ready(d), d.state \notin Calm, NEW id, NEW data,
         NEW e, e = sendCommandAsync(d, id, data)
  PROVE  /\ Sound(e) /\ e.state = d.state /\ e.async.isActive
         /\ Shaped(e) /\ e.requests = d.requests
<1>. DEFINE word == Word("header", id, data)
            async == [NoCommand EXCEPT !.isActive = TRUE, !.id = id, !.data = data]
            x == [d EXCEPT !.async = async, !.asked = id]
            y == [x EXCEPT !.pending = word]
<1>1. word # Link!NoWord
  BY WordsAreSent
<1>2. /\ DOMAIN async = CommandFields /\ async.isActive /\ async.direction = "SENDING"
      /\ async.transferred = 0
  BY DEF NoCommand
<1>3. e = [y EXCEPT !.async.transferred = @ + 1]
  BY DEF sendCommandAsync, advance, transferAsync
<1>. HIDE DEF word, async
<1>4. /\ Shaped(x) /\ x.async = async /\ x.port = d.port /\ x.isEnabled = d.isEnabled
      /\ x.state = d.state /\ x.wide = d.wide /\ x.requests = d.requests
  BY <1>2 DEF Ready, Shaped
<1>. HIDE DEF x
<1>5. /\ Shaped(y) /\ y.async = async /\ y.port = d.port /\ y.isEnabled = d.isEnabled
      /\ y.state = d.state /\ y.wide = d.wide /\ y.pending = word /\ y.requests = d.requests
  BY <1>4 DEF Shaped
<1>. HIDE DEF y
<1>6. /\ Shaped(e) /\ e.port = d.port /\ e.isEnabled = d.isEnabled
      /\ e.state = d.state /\ e.wide = d.wide /\ e.pending = word
      /\ e.async.isActive /\ e.async.direction = "SENDING" /\ e.async.transferred = 1
      /\ e.requests = d.requests
  BY <1>2, <1>3, <1>5 DEF Shaped
<1>7. Progressing(e)
  BY <1>6, PartsOfAMessage DEF Progressing
<1>. QED
  BY <1>1, <1>6, <1>7, LoadedIsSound DEF Ready

LEMMA ReceiveIsSound ==
  ASSUME NEW d, Ready(d), d.state \notin Calm
  PROVE  Sound(receiveCommandAsync(d))
<1>. DEFINE async == [NoCommand EXCEPT !.isActive = TRUE, !.direction = "RECEIVING"]
            x == [d EXCEPT !.async = async]
            e == receiveCommandAsync(d)
<1>1. /\ DOMAIN async = CommandFields /\ async.isActive /\ async.direction = "RECEIVING"
      /\ async.transferred = 0
  BY DEF NoCommand
<1>2. e = [x EXCEPT !.pending = Waiting]
  BY DEF receiveCommandAsync, transferAsync
<1>. HIDE DEF async, e
<1>3. /\ Shaped(x) /\ x.async = async /\ x.port = d.port /\ x.isEnabled = d.isEnabled
      /\ x.state = d.state /\ x.wide = d.wide
  BY <1>1 DEF Ready, Shaped
<1>. HIDE DEF x
<1>4. /\ Shaped(e) /\ e.async = async /\ e.port = d.port /\ e.isEnabled = d.isEnabled
      /\ e.state = d.state /\ e.wide = d.wide /\ e.pending = Waiting
  BY <1>2, <1>3 DEF Shaped
<1>5. Progressing(e)
  BY <1>1, <1>4, PartsOfAMessage DEF Progressing
<1>6. Sound(e)
  BY <1>1, <1>4, <1>5, SignalsAreSent, LoadedIsSound DEF Ready
<1>. QED
  BY <1>6 DEF e

\* A driver without a command may begin one, unless it has given up or pings.
LEMMA MayBegin ==
  ASSUME NEW d, Sound(d), ~d.async.isActive, d.state \notin {"NEEDS_RESET", "PINGING"}
  PROVE  Ready(d)
  BY DEF Sound, Ready

LEMMA StateIsSound ==
  ASSUME NEW d, Sound(d), d.state \notin Calm, NEW s, s \notin Calm,
         NEW e, e = setState(d, s)
  PROVE  Sound(e) /\ e.state = s /\ e.async = d.async
<1>1. /\ Shaped(e) /\ e.state = s /\ e.async = d.async /\ SameLink(d, e)
  BY SetState DEF Sound, SameLink
<1>2. d.state \notin {"NEEDS_RESET", "PINGING"} /\ e.state # "NEEDS_RESET"
  BY <1>1 DEF Calm
<1>. QED
  BY <1>1, <1>2 DEF Sound, SameLink, NothingSent, WordWaits, WordSent, Open, Progressing

LEMMA ReadyState ==
  ASSUME NEW d, Ready(d), NEW s, NEW e, e = setState(d, s)
  PROVE  Ready(e) /\ e.state = s /\ e.requests = d.requests /\ e.async = d.async
  BY SetState, SameIsReady DEF Ready, SameLink

\* Only the requests, the results or the counts change.
Kept(d, e) == Shaped(e) /\ SameLink(d, e) /\ e.state = d.state

LEMMA FilledKeeps ==
  ASSUME NEW d, Shaped(d), NEW r, NEW success, NEW data
  PROVE  Kept(d, Filled(d, r, success, data))
<1>1. CASE r.slot = NoSlot
  BY <1>1 DEF Filled, Kept, SameLink
<1>2. CASE r.slot # NoSlot
  <2>. DEFINE e == Filled(d, r, success, data)
  <2>1. PICK results : e = [d EXCEPT !.results = results]
    BY <1>2 DEF Filled, Shaped
  <2>. HIDE DEF e
  <2>2. Kept(d, e)
    BY <2>1 DEF Kept, SameLink, Shaped
  <2>. QED
    BY <2>2 DEF e
<1>. QED
  BY <1>1, <1>2

LEMMA PopKeeps ==
  ASSUME NEW d, Shaped(d)
  PROVE  Kept(d, popRequest(d))
<1>. DEFINE r == Head(d.requests)
            e == IF r.finished THEN d ELSE Filled(d, r, FALSE, NoData)
<1>1. Kept(d, e)
  <2>1. Kept(d, Filled(d, r, FALSE, NoData))
    BY FilledKeeps, Zenon
  <2>2. Kept(d, d)
    BY DEF Kept, SameLink
  <2>. QED
    BY <2>1, <2>2
<1>2. popRequest(d) = [e EXCEPT !.requests = Tail(@)]
  BY DEF popRequest
<1>. HIDE DEF e
<1>3. Kept(e, [e EXCEPT !.requests = Tail(@)])
  BY <1>1 DEF Kept, SameLink, Shaped
<1>. QED
  BY <1>1, <1>2, <1>3 DEF Kept, SameLink

LEMMA KeptIsSound ==
  ASSUME NEW d, Sound(d), NEW e, Kept(d, e)
  PROVE  Sound(e) /\ e.state = d.state /\ e.async = d.async
  BY SameIsSound DEF Kept, SameLink

-----------------------------------------------------------------------------
(* VBLANK.                                                                 *)

LEMMA DialIsSound ==
  ASSUME NEW d, Sound(d), isSessionActive(d), NEW r
  PROVE  Sound(Dial(d, r))
<1>. DEFINE e == IF d.state = "SESSION_ACTIVE" THEN setState(d, "CALL_REQUESTED") ELSE d
            f == setState(e, "CALLING")
            g == sendCommandAsync(f, "DIAL_TELEPHONE", <<"p2p">>)
<1>1. d.state \notin Calm
  BY DEF isSessionActive, InSession, Calm
<1>2. Sound(e) /\ e.state \notin Calm /\ e.async = d.async
  <2>1. "CALL_REQUESTED" \notin Calm
    BY DEF Calm
  <2>. QED
    BY <1>1, <2>1, StateIsSound
<1>3. Dial(d, r) = IF d.async.isActive THEN e ELSE popRequest(g)
  BY DEF Dial
<1>4. ASSUME ~d.async.isActive PROVE Sound(popRequest(g))
  <2>. HIDE DEF e
  <2>1. Ready(e)
    BY <1>2, <1>4, MayBegin DEF Calm
  <2>2. Ready(f) /\ f.state \notin Calm
    BY <2>1, ReadyState DEF Calm
  <2>. HIDE DEF f
  <2>3. Sound(g)
    BY <2>2, SendIsSound
  <2>. HIDE DEF g
  <2>. QED
    BY <2>3, PopKeeps, KeptIsSound, SoundParts
<1>. QED
  BY <1>2, <1>3, <1>4

LEMMA LoginIsSound ==
  ASSUME NEW d, Sound(d), isSessionActive(d), NEW r
  PROVE  Sound(Login(d, r))
<1>. DEFINE e == IF d.state = "SESSION_ACTIVE" THEN setState(d, "ISP_CALL_REQUESTED") ELSE d
            f == setState(e, "ISP_CALLING")
            g == sendCommandAsync(f, "DIAL_TELEPHONE", <<"ppp">>)
<1>1. d.state \notin Calm
  BY DEF isSessionActive, InSession, Calm
<1>2. Sound(e) /\ e.state \notin Calm /\ e.async = d.async
  <2>1. "ISP_CALL_REQUESTED" \notin Calm
    BY DEF Calm
  <2>. QED
    BY <1>1, <2>1, StateIsSound
<1>3. Login(d, r) = IF d.async.isActive \/ e.state # "ISP_CALL_REQUESTED" THEN e ELSE g
  BY DEF Login
<1>4. ASSUME ~d.async.isActive PROVE Sound(g)
  <2>. HIDE DEF e
  <2>1. Ready(e)
    BY <1>2, <1>4, MayBegin DEF Calm
  <2>2. Ready(f) /\ f.state \notin Calm
    BY <2>1, ReadyState DEF Calm
  <2>. HIDE DEF f
  <2>. QED
    BY <2>2, SendIsSound
<1>. QED
  BY <1>2, <1>3, <1>4

LEMMA EndSessionIsSound ==
  ASSUME NEW d, Sound(d), isSessionActive(d), NEW r
  PROVE  Sound(EndSession(d, r))
<1>. DEFINE e == IF d.state # "SHUTDOWN_REQUESTED" THEN setState(d, "SHUTDOWN_REQUESTED") ELSE d
            f == setState(e, "ENDING_SESSION")
            g == sendCommandAsync(f, "END_SESSION", NoData)
<1>1. d.state \notin Calm
  BY DEF isSessionActive, InSession, Calm
<1>2. Sound(e) /\ e.state \notin Calm /\ e.async = d.async
  <2>1. "SHUTDOWN_REQUESTED" \notin Calm
    BY DEF Calm
  <2>. QED
    BY <1>1, <2>1, StateIsSound
<1>3. EndSession(d, r) = IF d.async.isActive THEN e ELSE popRequest(g)
  BY DEF EndSession
<1>4. ASSUME ~d.async.isActive PROVE Sound(popRequest(g))
  <2>. HIDE DEF e
  <2>1. Ready(e)
    BY <1>2, <1>4, MayBegin DEF Calm
  <2>2. Ready(f) /\ f.state \notin Calm
    BY <2>1, ReadyState DEF Calm
  <2>. HIDE DEF f
  <2>3. Sound(g)
    BY <2>2, SendIsSound
  <2>. HIDE DEF g
  <2>. QED
    BY <2>3, PopKeeps, KeptIsSound, SoundParts
<1>. QED
  BY <1>2, <1>3, <1>4

LEMMA ServeIsSound ==
  ASSUME NEW d, Sound(d), isSessionActive(d), NEW r
  PROVE  Sound(Serve(d, r))
<1>1. Sound(popRequest(d))
  BY PopKeeps, KeptIsSound, SoundParts
<1>2. Sound(Dial(d, r)) /\ Sound(Login(d, r)) /\ Sound(EndSession(d, r))
  BY DialIsSound, LoginIsSound, EndSessionIsSound
<1>3. Sound(IF d.async.isActive THEN d ELSE sendCommandAsync(d, r.type, <<r.type, r.asks>>))
  <2>1. d.state \notin Calm
    BY DEF isSessionActive, InSession, Calm
  <2>2. ~d.async.isActive => Ready(d)
    BY <2>1, MayBegin DEF Calm
  <2>. QED
    BY <2>1, <2>2, SendIsSound
<1>. QED
  BY <1>1, <1>2, <1>3 DEF Serve

LEMMA RequestsAreSound ==
  ASSUME NEW d, Sound(d)
  PROVE  Sound(processUserRequests(d))
<1>. DEFINE e == IF Head(d.requests).finished THEN [d EXCEPT !.requests = Tail(@)] ELSE d
            request == [Head(e.requests) EXCEPT !.timeout = @ + 1]
<1>1. Kept(d, [d EXCEPT !.requests = <<>>]) /\ Kept(d, [d EXCEPT !.requests = Tail(@)])
  BY DEF Kept, SameLink, Shaped, Sound
<1>2. Sound([d EXCEPT !.requests = <<>>]) /\ Sound(e) /\ e.state = d.state
  BY <1>1, KeptIsSound
<1>3. /\ d.isWriting \/ d.requests = <<>> => processUserRequests(d) = d
      /\ ~(d.isWriting \/ d.requests = <<>>) /\ ~isSessionActive(d) =>
           processUserRequests(d) = [d EXCEPT !.requests = <<>>]
      /\ ~(d.isWriting \/ d.requests = <<>>) /\ isSessionActive(d) =>
           processUserRequests(d) \in {e, abort(e, "TIMEOUT"), Serve(e, request)}
  <2>1. CASE d.isWriting \/ d.requests = <<>>
    BY <2>1 DEF processUserRequests
  <2>2. CASE ~(d.isWriting \/ d.requests = <<>>) /\ ~isSessionActive(d)
    BY <2>2 DEF processUserRequests
  <2>3. CASE ~(d.isWriting \/ d.requests = <<>>) /\ isSessionActive(d)
    <3>1. processUserRequests(d) =
            IF e.requests = <<>> THEN e
            ELSE IF request.timeout >= Timeout THEN abort(e, "TIMEOUT")
            ELSE Serve(e, request)
      BY <2>3, Zenon DEF processUserRequests
    <3>. QED
      BY <2>3, <3>1
  <2>. QED
    BY <2>1, <2>2, <2>3
<1>. HIDE DEF e, request
<1>4. Sound(abort(e, "TIMEOUT"))
  BY <1>2, AbortIsSound, SoundParts
<1>5. isSessionActive(d) => Sound(Serve(e, request))
  BY <1>2, ServeIsSound DEF isSessionActive
<1>. QED
  BY <1>2, <1>3, <1>4, <1>5

LEMMA WaitedIsSound ==
  ASSUME NEW d, Sound(d),
         d.state \in {"WAITING_TO_START", "WAITING_32BIT_SWITCH", "WAITING_8BIT_SWITCH"}
  PROVE  Sound(Waited(d))
<1>. DEFINE e == [d EXCEPT !.waitFrames = 0]
            f == [e EXCEPT !.error = "NONE"]
<1>1. /\ Kept(d, [d EXCEPT !.waitFrames = @ - 1]) /\ Kept(d, e)
      /\ ~d.async.isActive
  BY DEF Kept, SameLink, Shaped, Sound, Calm
<1>2. Sound([d EXCEPT !.waitFrames = @ - 1]) /\ Sound(e) /\ e.state = d.state /\ Ready(e)
  BY <1>1, KeptIsSound, MayBegin
<1>. HIDE DEF e
<1>3. Kept(e, f) /\ Ready(f)
  <2>1. Kept(e, f)
    BY <1>2 DEF Kept, SameLink, Shaped, Ready
  <2>. HIDE DEF f
  <2>. QED
    BY <1>2, <2>1, SameIsReady DEF Kept
<1>. HIDE DEF f
<1>4. /\ Ready(setState(e, "STARTING_SESSION"))
      /\ setState(e, "STARTING_SESSION").state = "STARTING_SESSION"
      /\ Ready(setState(e, "READING_CONFIGURATION"))
      /\ setState(e, "READING_CONFIGURATION").state = "READING_CONFIGURATION"
      /\ Ready(setState(f, "SHUTDOWN"))
  BY <1>2, <1>3, ReadyState
<1>5. /\ Sound(sendCommandAsync(setState(e, "STARTING_SESSION"), "BEGIN_SESSION", NoData))
      /\ Sound(sendCommandAsync(setState(e, "READING_CONFIGURATION"), "READ_CONFIGURATION",
                                <<"1st">>))
  <2>1. "STARTING_SESSION" \notin Calm /\ "READING_CONFIGURATION" \notin Calm
    BY DEF Calm
  <2>. QED
    BY <1>4, <2>1, SendIsSound
<1>6. Sound(setState(f, "SHUTDOWN"))
  BY <1>4, ReadyIsSound
<1>. QED
  BY <1>2, <1>5, <1>6 DEF Waited, e, f

LEMMA FrameIsSound ==
  ASSUME NEW d, Sound(d)
  PROVE  Sound(processNewFrame(d))
<1>1. d.state = "SESSION_ACTIVE" /\ ~d.async.isActive =>
        Sound(sendCommandAsync(d, "WAIT_FOR_TELEPHONE_CALL", NoData))
  BY MayBegin, SendIsSound DEF Calm
<1>. QED
  BY <1>1, WaitedIsSound DEF processNewFrame

LEMMA PingIsSound ==
  ASSUME NEW d, Sound(d)
  PROVE  Sound(Ping(d))
<1>. DEFINE e == [d EXCEPT !.pingFrameCount = IF @ < PingFrequency THEN @ + 1 ELSE @]
            f == [e EXCEPT !.pingFrameCount = 0]
<1>1. Kept(d, e)
  BY DEF Kept, SameLink, Shaped, Sound
<1>2. Sound(e)
  BY <1>1, KeptIsSound
<1>3. Ping(d) = IF e.pingFrameCount >= PingFrequency /\ isSessionActive(e) /\ ~e.async.isActive
                THEN sendCommandAsync(f, "TELEPHONE_STATUS", NoData) ELSE e
  BY DEF Ping
<1>. HIDE DEF e
<1>4. Kept(e, f)
  BY <1>2 DEF Kept, SameLink, Shaped, Sound
<1>5. Sound(f) /\ f.state = e.state /\ f.async = e.async
  BY <1>2, <1>4, KeptIsSound
<1>. HIDE DEF f
<1>6. isSessionActive(e) /\ ~e.async.isActive =>
        Sound(sendCommandAsync(f, "TELEPHONE_STATUS", NoData))
  <2>. SUFFICES ASSUME isSessionActive(e), ~e.async.isActive
                PROVE  Sound(sendCommandAsync(f, "TELEPHONE_STATUS", NoData))
    OBVIOUS
  <2>1. f.state \notin Calm /\ ~f.async.isActive
    BY <1>5 DEF isSessionActive, InSession, Calm
  <2>2. Ready(f)
    BY <1>5, <2>1, MayBegin DEF Calm
  <2>. QED
    BY <2>1, <2>2, SendIsSound
<1>. QED
  BY <1>2, <1>3, <1>6

LEMMA CountedIsSound ==
  ASSUME NEW d, Sound(d)
  PROVE  Sound(counted(d))
<1>1. Kept(d, [d EXCEPT !.timeoutStateFrames = @ + 1])
  BY DEF Kept, SameLink, Shaped, Sound
<1>2. Sound([d EXCEPT !.timeoutStateFrames = @ + 1])
  BY <1>1, KeptIsSound
<1>. QED
  BY <1>2 DEF counted

LEMMA VBlankIsSound ==
  ASSUME Sound(m), VBlank
  PROVE  Sound(m')
<1>. DEFINE d == counted(m)
<1>1. \/ m' = abort(d, "ADAPTER_NOT_CONNECTED")
      \/ m' = processNewFrame(processUserRequests(Ping(d)))
  BY DEF VBlank
<1>2. Sound(d)
  BY CountedIsSound
<1>. HIDE DEF d
<1>3. Sound(processNewFrame(processUserRequests(Ping(d))))
  <2>1. Sound(Ping(d))
    BY <1>2, PingIsSound
  <2>2. Sound(processUserRequests(Ping(d)))
    BY <2>1, RequestsAreSound
  <2>. QED
    BY <2>2, FrameIsSound
<1>. QED
  BY <1>1, <1>2, <1>3, AbortIsSound, SoundParts

-----------------------------------------------------------------------------
(* SERIAL.                                                                 *)

\* The command goes on, or has ended and leaves the link silent.
GoesOn(d, e) ==
  \/ Sound(e) /\ e.async.isActive
  \/ Ready(e) /\ e.state = d.state

\* A word has arrived for the command under way.
Arrived(d) ==
  /\ Shaped(d) /\ NothingSent(d) /\ Open(d) /\ d.async.isActive
  /\ d.state \notin Calm

LEMMA DoneIsReady ==
  ASSUME NEW d, Shaped(d), NothingSent(d), Open(d), NEW result
  PROVE  Ready(Done(d, result)) /\ Done(d, result).state = d.state
<1>. DEFINE e == Done(d, result)
<1>1. e = [d EXCEPT !.async = [d.async EXCEPT !.isActive = FALSE, !.result = result]]
  BY DEF Done, Shaped
<1>. HIDE DEF e
<1>2. /\ Shaped(e) /\ ~e.async.isActive /\ e.port = d.port /\ e.pending = d.pending
      /\ e.isEnabled = d.isEnabled /\ e.state = d.state
  BY <1>1 DEF Shaped
<1>3. Ready(e) /\ e.state = d.state
  BY <1>2 DEF Ready, NothingSent, Open
<1>. QED
  BY <1>3 DEF e

LEMMA AdvanceIsSound ==
  ASSUME NEW d, Arrived(d), NEW word, word # Link!NoWord,
         \/ d.async.direction = "SENDING" /\ d.async.transferred \in 1..(Last(d.wide) - 1)
         \/ d.async.direction = "RECEIVING" /\ d.async.transferred \in 0..(Last(d.wide) - 2)
  PROVE  Sound(advance(d, word)) /\ advance(d, word).async.isActive
<1>. DEFINE x == [d EXCEPT !.pending = word]
            e == advance(d, word)
<1>1. e = [x EXCEPT !.async = [x.async EXCEPT !.transferred = @ + 1]]
  BY DEF advance, transferAsync, Arrived, Shaped
<1>2. /\ Shaped(x) /\ x.async = d.async /\ x.port = d.port /\ x.isEnabled = d.isEnabled
      /\ x.state = d.state /\ x.wide = d.wide /\ x.pending = word
  BY DEF Arrived, Shaped
<1>. HIDE DEF x, e
<1>3. /\ Shaped(e) /\ e.port = d.port /\ e.isEnabled = d.isEnabled
      /\ e.state = d.state /\ e.wide = d.wide /\ e.pending = word /\ e.async.isActive
      /\ e.async.direction = d.async.direction
      /\ e.async.transferred = d.async.transferred + 1
  BY <1>1, <1>2 DEF Shaped, Arrived
<1>4. Progressing(e)
  BY <1>3, PartsOfAMessage DEF Progressing
<1>5. Sound(e) /\ e.async.isActive
  BY <1>3, <1>4, LoadedIsSound DEF Arrived
<1>. QED
  BY <1>5 DEF e

LEMMA FinishIsReady ==
  ASSUME NEW d, Arrived(d)
  PROVE  GoesOn(d, finish(d))
<1>. DEFINE x == [d EXCEPT !.async.id = d.async.data[1]]
<1>1. x = [d EXCEPT !.async = [d.async EXCEPT !.id = d.async.data[1]]]
  BY DEF Arrived, Shaped
<1>2. Shaped(x) /\ NothingSent(x) /\ Open(x) /\ x.state = d.state
  <2>. HIDE DEF x
  <2>. QED
    BY <1>1 DEF Arrived, Shaped, NothingSent, Open
<1>3. finish(d) \in {Done(d, "SUCCESS"), Done(d, "WEIRD_ERROR_CODE"), Done(x, "ERROR_CODE")}
  BY DEF finish
<1>. HIDE DEF x
<1>. QED
  BY <1>2, <1>3, DoneIsReady DEF GoesOn, Arrived

LEMMA SendingGoesOn ==
  ASSUME NEW d, Arrived(d), d.async.direction = "SENDING",
         d.async.transferred \in 1..Last(d.wide), NEW data
  PROVE  GoesOn(d, sendAsyncCommand(d, data))
<1>. DEFINE t == d.async.transferred
            next == Word(Parts(d.wide)[t + 1], d.async.id, d.async.data)
<1>1. sendAsyncCommand(d, data) \in {finish(d), Done(d, "INVALID_COMMAND_ACK"),
                                     Done(d, "INVALID_DEVICE_ID"), advance(d, next)}
  BY DEF sendAsyncCommand
<1>2. sendAsyncCommand(d, data) = advance(d, next) /\ t = Last(d.wide) =>
        sendAsyncCommand(d, data) \in {finish(d), Done(d, "INVALID_COMMAND_ACK")}
  BY DEF sendAsyncCommand
<1>3. GoesOn(d, finish(d)) /\ GoesOn(d, Done(d, "INVALID_COMMAND_ACK"))
      /\ GoesOn(d, Done(d, "INVALID_DEVICE_ID"))
  BY FinishIsReady, DoneIsReady DEF GoesOn, Arrived
<1>4. t # Last(d.wide) => GoesOn(d, advance(d, next))
  <2>. SUFFICES ASSUME t # Last(d.wide) PROVE GoesOn(d, advance(d, next))
    OBVIOUS
  <2>1. t \in 1..(Last(d.wide) - 1) /\ t + 1 \in 1..Last(d.wide)
    BY PartsOfAMessage
  <2>2. next # Link!NoWord
    BY <2>1, PartsOfAMessage, WordsAreSent
  <2>. HIDE DEF next
  <2>3. Sound(advance(d, next)) /\ advance(d, next).async.isActive
    BY <2>1, <2>2, AdvanceIsSound
  <2>. QED
    BY <2>3 DEF GoesOn
<1>. QED
  BY <1>1, <1>2, <1>3, <1>4

LEMMA ReceivingGoesOn ==
  ASSUME NEW d, Arrived(d), d.async.direction = "RECEIVING",
         d.async.transferred \in 0..(Last(d.wide) - 1), NEW data
  PROVE  GoesOn(d, receiveAsyncCommand(d, data))
<1>. DEFINE t == d.async.transferred
            part == Parts(d.wide)[t + 1]
            stored == CASE part = "header" -> [d EXCEPT !.async.id = data[2]]
                        [] part = "body"   -> [d EXCEPT !.async.data = data[3]]
                        [] OTHER           -> d
            acked == Word(Parts(d.wide)[t + 2], d.async.id, NoData)
            e == receiveAsyncCommand(d, data)
<1>1. /\ Last(d.wide) \in {3, 4} /\ t + 1 \in 1..Last(d.wide)
      /\ part \in {"header", "body", "device", "ack"}
      /\ part # "ack" => t \in 0..(Last(d.wide) - 2)
  BY PartsOfAMessage
<1>2. /\ Arrived(stored) /\ stored.async.direction = "RECEIVING" /\ stored.state = d.state
      /\ stored.async.transferred = t /\ stored.wide = d.wide
  <2>1. ASSUME NEW x, \/ \E v : x = [d EXCEPT !.async = [d.async EXCEPT !.id = v]]
                      \/ \E v : x = [d EXCEPT !.async = [d.async EXCEPT !.data = v]]
        PROVE  /\ Arrived(x) /\ x.async.direction = "RECEIVING" /\ x.state = d.state
               /\ x.async.transferred = t /\ x.wide = d.wide
    BY <2>1 DEF Arrived, Shaped, NothingSent, Open
  <2>2. /\ [d EXCEPT !.async.id = data[2]] = [d EXCEPT !.async = [d.async EXCEPT !.id = data[2]]]
        /\ [d EXCEPT !.async.data = data[3]] = [d EXCEPT !.async = [d.async EXCEPT !.data = data[3]]]
    BY DEF Arrived, Shaped
  <2>3. stored \in {[d EXCEPT !.async.id = data[2]], [d EXCEPT !.async.data = data[3]], d}
    <3>. HIDE DEF part
    <3>. QED
      OBVIOUS
  <2>4. ASSUME NEW x, x \in {[d EXCEPT !.async.id = data[2]], [d EXCEPT !.async.data = data[3]], d}
        PROVE  /\ Arrived(x) /\ x.async.direction = "RECEIVING" /\ x.state = d.state
               /\ x.async.transferred = t /\ x.wide = d.wide
    <3>1. CASE x = d
      BY <3>1
    <3>2. CASE x = [d EXCEPT !.async.id = data[2]]
      BY <2>1, <2>2, <3>2
    <3>3. CASE x = [d EXCEPT !.async.data = data[3]]
      BY <2>1, <2>2, <3>3
    <3>. QED
      BY <2>4, <3>1, <3>2, <3>3
  <2>. HIDE DEF stored, t
  <2>. QED
    BY <2>3, <2>4
<1>3. part = "ack" => e \in {finish(d), Done(d, "INVALID_COMMAND_ACK")}
  <2>. SUFFICES ASSUME part = "ack" PROVE e \in {finish(d), Done(d, "INVALID_COMMAND_ACK")}
    OBVIOUS
  <2>. HIDE DEF t, stored, acked
  <2>. QED
    BY DEF receiveAsyncCommand, t
<1>4. \/ e \in {finish(d), Done(d, "INVALID_COMMAND_ACK"), Done(stored, "WEIRD_DATA_SIZE"),
                Done(d, "INVALID_MAGIC_BYTES"), Done(d, "WRONG_CHECKSUM"),
                Done(d, "INVALID_DEVICE_ID")}
      \/ e = transferAsync(d, Waiting)
      \/ e \in {advance(stored, Waiting), advance(stored, acked)}
  <2>. HIDE DEF acked, stored, part
  <2>. QED
    BY DEF receiveAsyncCommand, t, acked, stored, part
<1>. HIDE DEF e, stored
<1>5. /\ GoesOn(d, finish(d)) /\ GoesOn(d, Done(d, "INVALID_COMMAND_ACK"))
      /\ GoesOn(d, Done(d, "INVALID_MAGIC_BYTES")) /\ GoesOn(d, Done(d, "WRONG_CHECKSUM"))
      /\ GoesOn(d, Done(d, "INVALID_DEVICE_ID")) /\ GoesOn(d, Done(stored, "WEIRD_DATA_SIZE"))
  BY <1>2, FinishIsReady, DoneIsReady DEF GoesOn, Arrived
<1>6. GoesOn(d, transferAsync(d, Waiting))
  <2>. DEFINE x == transferAsync(d, Waiting)
  <2>1. /\ Shaped(x) /\ x.pending = Waiting /\ x.port = d.port /\ x.isEnabled = d.isEnabled
        /\ x.state = d.state /\ x.async = d.async /\ x.wide = d.wide
    BY DEF transferAsync, Arrived, Shaped
  <2>2. Progressing(x) /\ x.async.isActive
    BY <2>1 DEF Progressing, Arrived
  <2>. HIDE DEF x
  <2>3. Sound(x)
    BY <2>1, <2>2, SignalsAreSent, LoadedIsSound DEF Arrived
  <2>. QED
    BY <2>2, <2>3 DEF GoesOn, x
<1>7. part # "ack" => GoesOn(d, advance(stored, Waiting)) /\ GoesOn(d, advance(stored, acked))
  <2>. SUFFICES ASSUME part # "ack"
                PROVE  GoesOn(d, advance(stored, Waiting)) /\ GoesOn(d, advance(stored, acked))
    OBVIOUS
  <2>1. t \in 0..(Last(d.wide) - 2) /\ t + 2 \in 1..Last(d.wide)
    BY <1>1
  <2>2. acked # Link!NoWord
    BY <2>1, PartsOfAMessage, WordsAreSent
  <2>. HIDE DEF acked, t
  <2>3. ASSUME NEW w, w # Link!NoWord
        PROVE  Sound(advance(stored, w)) /\ advance(stored, w).async.isActive
    BY <1>2, <2>1, <2>3, AdvanceIsSound
  <2>. QED
    BY <2>2, <2>3, SignalsAreSent DEF GoesOn
<1>. HIDE DEF part, acked
<1>. QED
  BY <1>3, <1>4, <1>5, <1>6, <1>7 DEF e

LEMMA TransferredGoesOn ==
  ASSUME NEW d, Arrived(d), Progressing(d), NEW data
  PROVE  GoesOn(d, transferred(d, data))
  BY SendingGoesOn, ReceivingGoesOn DEF Progressing, transferred

LEMMA ResizedIsReady ==
  ASSUME NEW d, Ready(d), NEW wide, NEW e, e = setDataSize(d, wide)
  PROVE  Ready(e) /\ e.state = d.state
<1>1. /\ Shaped(e) /\ e.state = d.state /\ e.pending = d.pending /\ e.async = d.async
      /\ e.isEnabled = d.isEnabled /\ e.port.wire = Link!NoWord /\ e.port.mode = "spi"
      /\ e.port.lib["spi"].asyncState = "IDLE" /\ e.port.lib["spi"].isEnabled
  BY DEF Ready, Shaped, setDataSize, Link!activate, Link!Disabled, Link!Links
<1>. QED
  BY <1>1 DEF Ready, NothingSent, Open

\* The role, the frames to wait, the results and the requests are nobody's concern.
LEMMA AsideIsReady ==
  ASSUME NEW d, Ready(d), NEW v
  PROVE  /\ Ready([d EXCEPT !.role = v]) /\ Ready([d EXCEPT !.waitFrames = v])
         /\ Ready([d EXCEPT !.requests = v])
<1>1. /\ Kept(d, [d EXCEPT !.role = v]) /\ Kept(d, [d EXCEPT !.waitFrames = v])
      /\ Kept(d, [d EXCEPT !.requests = v])
  BY DEF Kept, SameLink, Shaped, Ready
<1>. QED
  BY <1>1, SameIsReady DEF Kept

\* A command may follow at once in the state the answer leads to.
LEMMA FollowedIsSound ==
  ASSUME NEW d, Ready(d), NEW s, s \notin Calm, NEW id, NEW data
  PROVE  Sound(sendCommandAsync(setState(d, s), id, data))
<1>. DEFINE e == setState(d, s)
<1>1. Ready(e) /\ e.state = s
  BY ReadyState
<1>. HIDE DEF e
<1>2. Sound(sendCommandAsync(e, id, data))
  BY <1>1, SendIsSound
<1>. QED
  BY <1>2 DEF e

LEMMA SwitchIsSound ==
  ASSUME NEW d, Ready(d), NEW s, NEW wide
  PROVE  Sound(setDataSize([setState(d, s) EXCEPT !.waitFrames = InitWait], wide))
<1>. DEFINE e == setState(d, s)
            f == [e EXCEPT !.waitFrames = InitWait]
<1>1. Ready(e)
  BY ReadyState
<1>. HIDE DEF e
<1>2. Ready(f)
  BY <1>1, AsideIsReady
<1>. HIDE DEF f
<1>3. Sound(setDataSize(f, wide))
  BY <1>2, ResizedIsReady, ReadyIsSound
<1>. QED
  BY <1>3 DEF e, f

\* The first request is finished, with a result or without one.
LEMMA FinishedIsSound ==
  ASSUME NEW d, Sound(d)
  PROVE  Sound([d EXCEPT !.requests[1].finished = TRUE])
<1>. DEFINE e == [d EXCEPT !.requests[1].finished = TRUE]
<1>1. PICK v : e = [d EXCEPT !.requests = v]
  BY SoundParts DEF Shaped
<1>. HIDE DEF e
<1>2. Kept(d, e)
  BY <1>1 DEF Kept, SameLink, Shaped, Sound
<1>3. Sound(e)
  BY <1>2, KeptIsSound
<1>. QED
  BY <1>3 DEF e

LEMMA AnswerIsSound ==
  ASSUME NEW d, Ready(d), NEW type
  PROVE  Sound(Answer(d, type))
<1>. DEFINE r == Head(d.requests)
            e == Filled(d, r, d.async.result = "SUCCESS", d.async.data)
<1>1. Answer(d, type) \in {abort(d, "WTF"), abort(d, "WEIRD_RESPONSE"),
                           [e EXCEPT !.requests[1].finished = TRUE]}
  BY Zenon DEF Answer
<1>2. Sound(e)
  <2>1. Sound(d) /\ Shaped(d)
    BY ReadyIsSound, SoundParts
  <2>2. Kept(d, e)
    BY <2>1, FilledKeeps, Zenon
  <2>. HIDE DEF e
  <2>. QED
    BY <2>1, <2>2, KeptIsSound
<1>. HIDE DEF e
<1>3. Sound([e EXCEPT !.requests[1].finished = TRUE])
  BY <1>2, FinishedIsSound
<1>4. Sound(abort(d, "WTF")) /\ Sound(abort(d, "WEIRD_RESPONSE"))
  BY AbortIsSound DEF Ready
<1>. QED
  BY <1>1, <1>3, <1>4

LEMMA ClosedIsSound ==
  ASSUME NEW d, Ready(d)
  PROVE  Sound(ConnectionClosed(d))
<1>. DEFINE r == Head(d.requests)
            e == Filled(d, r, FALSE, NoData)
<1>1. ConnectionClosed(d) \in {abort(d, "WTF"), [e EXCEPT !.requests[1].finished = TRUE]}
  BY Zenon DEF ConnectionClosed
<1>2. Sound(e)
  <2>1. Sound(d) /\ Shaped(d)
    BY ReadyIsSound, SoundParts
  <2>2. Kept(d, e)
    BY <2>1, FilledKeeps, Zenon
  <2>. HIDE DEF e
  <2>. QED
    BY <2>1, <2>2, KeptIsSound
<1>. HIDE DEF e
<1>3. Sound([e EXCEPT !.requests[1].finished = TRUE])
  BY <1>2, FinishedIsSound
<1>4. Sound(abort(d, "WTF"))
  BY AbortIsSound DEF Ready
<1>. QED
  BY <1>1, <1>3, <1>4

LEMMA DialledIsSound ==
  ASSUME NEW d, Ready(d)
  PROVE  Sound(Dialled(d)) /\ Sound(DialledISP(d)) /\ Sound(HungUp(d))
<1>. DEFINE e == setState(d, "CALL_ESTABLISHED")
            f == setState(d, "SESSION_ACTIVE")
            g == sendCommandAsync(setState(d, "PPP_LOGIN"), "ISP_LOGIN", NoData)
<1>1. Ready(e) /\ Ready(f) /\ Sound(f)
  BY ReadyState, ReadyIsSound
<1>2. Sound(g)
  BY FollowedIsSound DEF Calm
<1>3. Sound(abort(d, "WTF"))
  BY AbortIsSound DEF Ready
<1>4. /\ Dialled(d) \in {[e EXCEPT !.role = "CALLER"], f}
      /\ HungUp(d) = f
      /\ DialledISP(d) \in {abort(d, "WTF"), [g EXCEPT !.requests[1].finished = TRUE],
                            [f EXCEPT !.requests[1].finished = TRUE]}
  BY Zenon DEF Dialled, DialledISP, HungUp
<1>. HIDE DEF e, f, g
<1>5. /\ Sound([e EXCEPT !.role = "CALLER"]) /\ Sound([g EXCEPT !.requests[1].finished = TRUE])
      /\ Sound([f EXCEPT !.requests[1].finished = TRUE])
  BY <1>1, <1>2, AsideIsReady, ReadyIsSound, FinishedIsSound
<1>. QED
  BY <1>1, <1>3, <1>4, <1>5

LEMMA AnswerProcessedIsSound ==
  ASSUME NEW d, Ready(d), d.state \notin Calm
  PROVE  Sound(processAnswer(d))
<1>1. Sound(d) /\ \A error : Sound(abort(d, error))
  BY ReadyIsSound, AbortIsSound DEF Ready
<1>2. \A s : Sound(setState(d, s))
  BY ReadyState, ReadyIsSound
<1>3. /\ Sound(sendCommandAsync(setState(d, "ACTIVATING_SIO32"), "SIO32", NoData))
      /\ Sound(sendCommandAsync(setState(d, "READING_CONFIGURATION"), "READ_CONFIGURATION",
                                <<"1st">>))
      /\ Sound(sendCommandAsync(d, "READ_CONFIGURATION", <<"2nd">>))
  <2>1. "ACTIVATING_SIO32" \notin Calm /\ "READING_CONFIGURATION" \notin Calm
    BY DEF Calm
  <2>. QED
    BY <2>1, FollowedIsSound, SendIsSound
<1>4. /\ Sound(setDataSize([setState(d, "WAITING_32BIT_SWITCH") EXCEPT !.waitFrames = InitWait],
                           TRUE))
      /\ Sound(setDataSize([setState(d, "WAITING_8BIT_SWITCH") EXCEPT !.waitFrames = InitWait],
                           FALSE))
  BY SwitchIsSound, Zenon
<1>5. Sound([setState(d, "CALL_ESTABLISHED") EXCEPT !.role = "RECEIVER"])
  <2>. DEFINE e == setState(d, "CALL_ESTABLISHED")
  <2>1. Ready(e)
    BY ReadyState
  <2>. HIDE DEF e
  <2>2. Sound([e EXCEPT !.role = "RECEIVER"])
    BY <2>1, AsideIsReady, ReadyIsSound
  <2>. QED
    BY <2>2 DEF e
<1>6. /\ \A type : Sound(Answer(d, type))
      /\ Sound(ConnectionClosed(d)) /\ Sound(Dialled(d)) /\ Sound(DialledISP(d))
      /\ Sound(HungUp(d))
  BY AnswerIsSound, ClosedIsSound, DialledIsSound
<1>. QED
  BY <1>1, <1>2, <1>3, <1>4, <1>5, <1>6 DEF processAnswer

LEMMA CommandProcessedIsSound ==
  ASSUME NEW d, Ready(d), d.state \notin Calm
  PROVE  Sound(processAsyncCommand(d))
<1>1. Sound(abort(d, "COMMAND_FAILED"))
  BY AbortIsSound DEF Ready
<1>. QED
  BY <1>1, ReceiveIsSound, AnswerProcessedIsSound DEF processAsyncCommand

LEMMA LooseIsSound ==
  ASSUME NEW d, Ready(d)
  PROVE  Sound(processLoosePacket(d))
<1>. DEFINE e == setState(d, "WAITING_TO_START")
<1>1. Ready(e)
  BY ReadyState
<1>2. processLoosePacket(d) \in {[e EXCEPT !.waitFrames = InitWait], d}
  BY DEF processLoosePacket
<1>. HIDE DEF e
<1>. QED
  BY <1>1, <1>2, AsideIsReady, ReadyIsSound

\* The transfer has ended and the link takes another.
LEMMA WordTaken ==
  ASSUME NEW d, WordSent(d), Shaped(d), NEW word, NEW port, NEW e,
         port = Link!_onSerial(Link!stopTransfer(d.port), "spi", word),
         e = [d EXCEPT !.port = Link!DataTaken(port, "spi")]
  PROVE  /\ Shaped(e) /\ NothingSent(e) /\ Open(e)
         /\ e.async = d.async /\ e.state = d.state /\ e.wide = d.wide
<1>. DEFINE free == Link!stopTransfer(d.port)
<1>1. /\ DOMAIN free = DOMAIN d.port /\ free.lib = d.port.lib /\ free.mode = d.port.mode
      /\ free.wire = Link!NoWord
  BY DEF Shaped, Link!stopTransfer
<1>2. port = Link!_onSerial(free, "spi", word)
  OBVIOUS
<1>. HIDE DEF free
<1>3. /\ DOMAIN port = DOMAIN d.port /\ port.mode = d.port.mode /\ port.wire = Link!NoWord
      /\ DOMAIN port.lib = Link!Links /\ DOMAIN port.lib["spi"] = DOMAIN d.port.lib["spi"]
      /\ port.lib["spi"].isEnabled /\ port.lib["spi"].asyncState = "READY"
  <2>1. free.lib["spi"].isEnabled /\ free.lib["spi"].asyncState = "WAITING"
    BY <1>1 DEF WordSent, Open
  <2>2. port = [free EXCEPT !.interrupts = FALSE, !.lib["spi"].asyncState = "READY",
                            !.lib["spi"].asyncData = word]
    BY <1>2, <2>1 DEF Link!_onSerial
  <2>. DEFINE spi == [free.lib["spi"] EXCEPT !.asyncState = "READY", !.asyncData = word]
              lib == [free.lib EXCEPT !["spi"] = spi]
  <2>3. /\ "spi" \in DOMAIN free.lib
        /\ DOMAIN free.lib["spi"] = {"isEnabled", "asyncState", "asyncData"}
        /\ DOMAIN free = {"lib", "mode", "interrupts", "wire"}
    BY <1>1 DEF Shaped, Link!Links
  <2>4. DOMAIN spi = DOMAIN free.lib["spi"] /\ spi.isEnabled /\ spi.asyncState = "READY"
    BY <2>1, <2>3
  <2>5. port = [free EXCEPT !.interrupts = FALSE, !.lib = lib]
    BY <2>2, <2>3
  <2>. HIDE DEF spi
  <2>6. DOMAIN lib = DOMAIN free.lib /\ lib["spi"] = spi
    BY <2>3
  <2>. HIDE DEF lib
  <2>. QED
    BY <1>1, <2>3, <2>4, <2>5, <2>6 DEF Shaped
<1>. DEFINE taken == Link!DataTaken(port, "spi")
<1>4. /\ DOMAIN taken = DOMAIN d.port /\ taken.mode = d.port.mode /\ taken.wire = Link!NoWord
      /\ DOMAIN taken.lib = Link!Links /\ DOMAIN taken.lib["spi"] = DOMAIN d.port.lib["spi"]
      /\ taken.lib["spi"].isEnabled /\ taken.lib["spi"].asyncState = "IDLE"
  BY <1>3 DEF Shaped, Link!DataTaken, Link!Links
<1>5. e = [d EXCEPT !.port = taken]
  OBVIOUS
<1>. HIDE DEF taken
<1>. QED
  BY <1>4, <1>5 DEF Shaped, WordSent, NothingSent, Open

LEMMA ReceivedIsSound ==
  ASSUME Sound(m), Link!isSending(m.port), NEW word, Received(word)
  PROVE  Sound(m')
<1>. DEFINE port == Link!_onSerial(Link!stopTransfer(m.port), "spi", word)
            data == Link!AsyncData(port, "spi")
            d == [m EXCEPT !.port = Link!DataTaken(port, "spi")]
            e == transferred(d, data)
<1>1. WordSent(m) /\ Shaped(m)
  BY DEF Sound, NothingSent, WordWaits, Link!isSending
<1>2. m.state # "NEEDS_RESET"
  BY <1>1 DEF Sound, NothingSent, WordSent, Calm
<1>3. /\ Shaped(d) /\ NothingSent(d) /\ Open(d)
      /\ d.async = m.async /\ d.state = m.state /\ d.wide = m.wide
  <2>1. /\ port = Link!_onSerial(Link!stopTransfer(m.port), "spi", word)
        /\ d = [m EXCEPT !.port = Link!DataTaken(port, "spi")]
    OBVIOUS
  <2>. HIDE DEF port, d
  <2>. QED
    BY <1>1, <2>1, WordTaken
<1>4. \/ ~d.async.isActive /\ m' = processLoosePacket(d)
      \/ d.async.isActive /\ m' = IF e.async.isActive THEN e ELSE processAsyncCommand(e)
  <2>1. d.state # "NEEDS_RESET"
    BY <1>2, <1>3
  <2>. QED
    BY <2>1, Zenon DEF Received
<1>. HIDE DEF d
<1>5. ASSUME ~d.async.isActive PROVE Sound(processLoosePacket(d))
  BY <1>3, <1>5, LooseIsSound DEF Ready
<1>6. ASSUME d.async.isActive PROVE GoesOn(d, e) /\ d.state \notin Calm
  <2>1. Arrived(d) /\ Progressing(d) /\ d.state \notin Calm
    BY <1>3, <1>6 DEF Sound, Arrived, Progressing
  <2>. HIDE DEF data
  <2>. QED
    BY <2>1, TransferredGoesOn
<1>. HIDE DEF e
<1>7. ASSUME GoesOn(d, e), d.state \notin Calm
      PROVE  Sound(IF e.async.isActive THEN e ELSE processAsyncCommand(e))
  BY <1>7, CommandProcessedIsSound DEF GoesOn, Ready
<1>. QED
  BY <1>4, <1>5, <1>6, <1>7

-----------------------------------------------------------------------------
(* TIMER, and the program.                                                 *)

LEMMA TimerIsSound ==
  ASSUME Sound(m), Timer
  PROVE  Sound(m')
<1>. DEFINE spi == [m.port.lib["spi"] EXCEPT !.asyncState = "WAITING"]
            lib == [m.port.lib EXCEPT !["spi"] = spi]
            port == [m.port EXCEPT !.lib = lib, !.interrupts = TRUE, !.wire = m.pending]
<1>1. Shaped(m) /\ WordWaits(m)
  BY DEF Timer, Sound, NothingSent, WordSent
<1>2. /\ "spi" \in DOMAIN m.port.lib
      /\ DOMAIN m.port.lib["spi"] = {"isEnabled", "asyncState", "asyncData"}
      /\ DOMAIN m.port = {"lib", "mode", "interrupts", "wire"}
  BY <1>1 DEF Shaped, Link!Links
<1>3. Link!transferAsync(m.port, "spi", m.pending)
        = [m.port EXCEPT !.lib["spi"].asyncState = "WAITING", !.interrupts = TRUE,
                         !.wire = m.pending]
  BY <1>1 DEF WordWaits, Open, Link!transferAsync, Link!Accepts, Link!Started
<1>4. m' = [m EXCEPT !.port = port, !.pending = Link!NoWord]
  BY <1>2, <1>3 DEF Timer
<1>5. DOMAIN spi = DOMAIN m.port.lib["spi"] /\ spi.isEnabled /\ spi.asyncState = "WAITING"
  BY <1>1, <1>2 DEF WordWaits, Open
<1>. HIDE DEF spi
<1>6. DOMAIN lib = DOMAIN m.port.lib /\ lib["spi"] = spi
  BY <1>2
<1>. HIDE DEF lib
<1>7. /\ DOMAIN port = DOMAIN m.port /\ port.lib = lib /\ port.mode = m.port.mode
      /\ port.wire = m.pending
  BY <1>2
<1>. HIDE DEF port
<1>8. /\ Shaped(m') /\ m'.pending = Link!NoWord /\ m'.port = port
      /\ m'.isEnabled = m.isEnabled /\ m'.async = m.async /\ m'.wide = m.wide
      /\ m'.state = m.state
  BY <1>1, <1>4, <1>5, <1>6, <1>7 DEF Shaped
<1>9. WordSent(m') /\ Open(m')
  BY <1>1, <1>5, <1>6, <1>7, <1>8 DEF WordWaits, WordSent, Open
<1>. QED
  BY <1>1, <1>8, <1>9 DEF Sound, Progressing, NothingSent, WordWaits

LEMMA StartIsSound ==
  ASSUME NEW d, Shaped(d), d.isEnabled, ~d.async.isActive
  PROVE  Sound(start(d))
<1>. DEFINE e == setDataSize(d, FALSE)
            f == setState(e, "PINGING")
            g == transferAsync(f, Zero)
<1>1. /\ Shaped(e) /\ e.async = d.async /\ e.isEnabled /\ e.port.wire = Link!NoWord
      /\ e.port.mode = "spi" /\ e.port.lib["spi"].asyncState = "IDLE"
      /\ e.port.lib["spi"].isEnabled
  BY DEF Shaped, setDataSize, Link!activate, Link!Disabled, Link!Links
<1>. HIDE DEF e
<1>2. /\ Shaped(f) /\ f.async = d.async /\ f.isEnabled /\ f.port = e.port
      /\ f.state = "PINGING"
  BY <1>1, SetState
<1>3. start(d) = g
  BY DEF start, e
<1>. HIDE DEF f
<1>4. /\ Shaped(g) /\ g.async = d.async /\ g.isEnabled /\ g.port = e.port
      /\ g.state = "PINGING" /\ g.pending = Zero
  BY <1>2 DEF transferAsync, Shaped
<1>. HIDE DEF g
<1>5. Sound(g)
  BY <1>1, <1>4, SignalsAreSent DEF Sound, WordWaits, Open
<1>. QED
  BY <1>3, <1>5

LEMMA Stopped ==
  ASSUME Sound(m)
  PROVE  Sound(Deactivated) /\ Shaped(Deactivated) /\ ~Deactivated.async.isActive
<1>. DEFINE d == [m EXCEPT !.isEnabled = FALSE, !.error = "NONE"]
<1>1. Shaped(d)
  BY DEF Sound, Shaped
<1>2. Deactivated = stop(resetState(d))
  BY DEF Deactivated
<1>. HIDE DEF d
<1>3. Sound(Deactivated) /\ Deactivated.state = "NEEDS_RESET"
  BY <1>1, <1>2, AbortIsSound
<1>. QED
  BY <1>3, SoundParts DEF Sound, Calm

LEMMA ActivateIsSound ==
  ASSUME Sound(m), activate
  PROVE  Sound(m')
<1>. DEFINE d == Deactivated
            e == [d EXCEPT !.isEnabled = TRUE]
            f == start(e)
<1>1. Shaped(d) /\ ~d.async.isActive
  BY Stopped
<1>2. m' = [f EXCEPT !.results = [s \in Slots |-> Unused]]
  BY DEF activate
<1>. HIDE DEF d
<1>3. Shaped(e) /\ e.isEnabled /\ ~e.async.isActive
  BY <1>1 DEF Shaped
<1>. HIDE DEF e
<1>4. Sound(f)
  BY <1>3, StartIsSound
<1>. HIDE DEF f
<1>5. Kept(f, m')
  BY <1>2, <1>4 DEF Kept, SameLink, Shaped, Sound
<1>. QED
  BY <1>4, <1>5, KeptIsSound

LEMMA ProgramIsSound ==
  ASSUME Sound(m),
         \/ Push \/ \E type, slot : Refused(type, slot) \/ \E asks : Request(type, slot, asks)
  PROVE  Sound(m')
<1>1. \/ m' = m
      \/ \E v, w : m' = [m EXCEPT !.isWriting = v, !.results = w]
      \/ \E v : m' = [m EXCEPT !.results = v]
      \/ \E v : m' = [m EXCEPT !.requests = v]
      \/ \E v, w, x : m' = [m EXCEPT !.isWriting = v, !.needsClear = w, !.requests = x]
  <2>1. CASE RearMoves
    BY <2>1 DEF RearMoves
  <2>2. CASE RequestStored
    BY <2>2 DEF RequestStored
  <2>3. CASE PushEnds
    BY <2>3 DEF PushEnds
  <2>4. ASSUME NEW type, NEW slot, NEW asks, Request(type, slot, asks)
        PROVE  \E v, w : m' = [m EXCEPT !.isWriting = v, !.results = w]
    BY <2>4 DEF Request
  <2>5. ASSUME NEW type, NEW slot, Refused(type, slot)
        PROVE  \E v : m' = [m EXCEPT !.results = v]
    <3>. DEFINE r == [m.results EXCEPT ![slot].completed = TRUE]
                q == [r EXCEPT ![slot].success = FALSE]
                e == [m EXCEPT !.results = r]
    <3>1. DOMAIN m = Fields
      BY SoundParts DEF Shaped
    <3>2. m' = [m EXCEPT !.results[slot].completed = TRUE, !.results[slot].success = FALSE]
      BY <2>5 DEF Refused
    <3>3. /\ [m EXCEPT !.results[slot].completed = TRUE] = e
          /\ e.results = r /\ DOMAIN e = Fields
      BY <3>1
    <3>4. m' = [e EXCEPT !.results[slot].success = FALSE]
      BY <3>2, <3>3
    <3>5. m' = [e EXCEPT !.results = q]
      BY <3>3, <3>4
    <3>. HIDE DEF r, q
    <3>6. m' = [m EXCEPT !.results = q]
      BY <3>1, <3>5
    <3>. QED
      BY <3>6
  <2>. QED
    BY <2>1, <2>2, <2>3, <2>4, <2>5 DEF Push
<1>2. Kept(m, m')
  BY <1>1 DEF Kept, SameLink, Shaped, Sound
<1>. QED
  BY <1>2, KeptIsSound

LEMMA InitIsSound ==
  ASSUME Init
  PROVE  Sound(m)
<1>1. PICK d : /\ m = start(d)
               /\ DOMAIN d = Fields /\ d.async = NoCommand /\ d.port = Link!ClosedPort
               /\ d.isEnabled
  BY DEF Init
<1>2. Shaped(d) /\ ~d.async.isActive
  <2>1. DOMAIN d.async = CommandFields /\ ~d.async.isActive
    BY <1>1 DEF NoCommand
  <2>2. /\ DOMAIN d.port = {"lib", "mode", "interrupts", "wire"}
        /\ DOMAIN d.port.lib = Link!Links /\ d.port.lib["spi"] = Link!Disabled
    BY <1>1 DEF Link!ClosedPort, Link!Links
  <2>3. DOMAIN Link!Disabled = {"isEnabled", "asyncState", "asyncData"}
    BY DEF Link!Disabled
  <2>. QED
    BY <1>1, <2>1, <2>2, <2>3 DEF Shaped
<1>. QED
  BY <1>1, <1>2, StartIsSound

LEMMA NextIsSound ==
  ASSUME Sound(m), [Next]_vars
  PROVE  Sound(m')
<1>1. CASE VBlank
  BY <1>1, VBlankIsSound
<1>2. CASE Timer
  BY <1>2, TimerIsSound
<1>3. CASE Serial
  BY <1>3, ReceivedIsSound DEF Serial
<1>4. CASE GarbledSerial
  BY <1>4, ReceivedIsSound DEF GarbledSerial
<1>5. CASE activate
  BY <1>5, ActivateIsSound
<1>6. CASE deactivate
  BY <1>6, Stopped DEF deactivate
<1>7. CASE Push
  BY <1>7, ProgramIsSound
<1>8. ASSUME NEW type \in use[1], NEW slot \in SlotsFor(type),
             Refused(type, slot) \/ \E asks \in AskedWith(slot) : Request(type, slot, asks)
      PROVE  Sound(m')
  BY <1>8, ProgramIsSound
<1>9. CASE \/ AdapterAnswers \/ OddAnswer \/ RemoteHangsUp \/ AdapterLeaves
           \/ AdapterSleeps \/ WaitEnds \/ \E s \in Slots : waitFor(s)
           \/ UNCHANGED vars
  <2>1. m' = m
    BY <1>9 DEF AdapterAnswers, OddAnswer, RemoteHangsUp, AdapterLeaves, AdapterSleeps,
                WaitEnds, waitFor, vars
  <2>. QED
    BY <2>1
<1>. QED
  BY <1>1, <1>2, <1>3, <1>4, <1>5, <1>6, <1>7, <1>8, <1>9 DEF Next

(* TIMER never finds linkSPI busy, no word replaces one that waits, a      *)
(* command under way always has a word to send or to wait for, and nothing *)
(* is left of one that ended: whatever the program asks for, whatever the  *)
(* adapter answers, and whenever the session is aborted or restarted.      *)
THEOREM TransfersDoNotOverlap == Spec => []OneTransferAtATime
<1>1. Init => Sound(m)
  BY InitIsSound
<1>2. Sound(m) /\ [Next]_vars => Sound(m)'
  <2>. SUFFICES ASSUME Sound(m), [Next]_vars PROVE Sound(m')
    BY DEF Sound, Shaped, NothingSent, WordWaits, WordSent, Open, Progressing, Calm
  <2>. QED
    BY NextIsSound
<1>3. Sound(m) => OneTransferAtATime
  BY DEF Sound, OneTransferAtATime, NothingSent, WordWaits, WordSent, Open, Idle,
         Link!isSending
<1>. QED
  BY <1>1, <1>2, <1>3, PTL DEF Spec

-----------------------------------------------------------------------------
(* The requests and the structs.                                           *)

Commands == Answered \cup
  {"BEGIN_SESSION", "SIO32", "READ_CONFIGURATION", "WAIT_FOR_TELEPHONE_CALL", "TELEPHONE_STATUS",
   "DIAL_TELEPHONE", "ISP_LOGIN", "HANG_UP", "END_SESSION"}

ResultFields == {"completed", "success", "data", "type", "asks"}

AllQuestions == {NoData} \cup UNION {Questions[s] : s \in Slots}

Requests == {r \in [type : Types, slot : Slots \cup {NoSlot}, asks : AllQuestions, timeout : Nat,
                    finished : BOOLEAN] :
               r.slot = NoSlot <=> r.type \notin Answered}

\* The struct of a request waits for it.
Awaits(d, r) ==
  r.slot \in Slots => /\ d.results[r.slot].type = r.type /\ d.results[r.slot].asks = r.asks
                     /\ ~d.results[r.slot].completed

Holds(d, s) ==
  d.results[s].success => /\ d.results[s].completed
                          /\ \/ d.results[s].data = <<d.results[s].type, d.results[s].asks>>
                             \/ d.results[s].type = "CLOSE_CONNECTION" /\ d.results[s].data = Odd

Results(d) ==
  /\ DOMAIN d.results = Slots
  /\ \A s \in Slots : DOMAIN d.results[s] = ResultFields /\ Holds(d, s)

(* Only the first request may be finished; the others, and those that the  *)
(* program is about to queue, have a struct each that waits for them.      *)
Queued(d, coming) ==
  /\ Results(d)
  /\ d.requests \in Seq(Requests)
  /\ \A i \in 1..Len(d.requests) :
       /\ d.requests[i].finished => i = 1
       /\ ~d.requests[i].finished => Awaits(d, d.requests[i])
       /\ \A j \in 1..Len(d.requests) :
            ~d.requests[i].finished /\ ~d.requests[j].finished /\ i # j =>
              d.requests[i].slot # d.requests[j].slot \/ d.requests[i].slot = NoSlot
  /\ \A r \in coming :
       /\ r \in Requests /\ ~r.finished /\ Awaits(d, r)
       /\ \A i \in 1..Len(d.requests) :
            ~d.requests[i].finished => d.requests[i].slot # r.slot \/ r.slot = NoSlot

\* The queue is cleared after a push only when the session was aborted in it.
Clearing(d, writing) ==
  /\ d.isWriting = writing
  /\ d.needsClear => d.isWriting /\ d.state = "NEEDS_RESET"

\* The first request has become the command that is under way.
Served(d) ==
  /\ d.requests # <<>> /\ ~d.requests[1].finished /\ d.requests[1].type = d.asked
  /\ d.state \in ServedIn(d.asked)

Commanded(d) ==
  /\ d.asked \in Commands
  /\ d.asked \in Answered => Served(d)
  /\ d.async.direction = "SENDING" =>
       /\ d.async.id = d.asked
       /\ d.asked \in Answered => d.async.data = <<d.asked, d.requests[1].asks>>

\* The answer is to the command that was sent; its data comes after its header.
Named(d) ==
  /\ d.async.id \in Answered => d.async.id = d.asked
  /\ d.async.id = "CONNECTION_CLOSED" => d.asked = "TRANSFER"

Told(d) ==
  /\ d.async.id \in Answered => d.async.data \in {Odd, <<d.asked, d.requests[1].asks>>}
  /\ d.async.id = ErrorStatus => d.async.data \in {Odd, <<d.asked>>}

Hearing(d) ==
  d.async.direction = "RECEIVING" => Named(d) /\ (d.async.transferred > 1 => Told(d))

\* The words on the link, or waiting for it.
Worded(d) ==
  \A word \in {d.pending, d.port.wire} : word # Link!NoWord =>
    /\ d.state = "PINGING" => word = Zero
    /\ d.async.isActive /\ d.async.direction = "SENDING" =>
         word = Word(Parts(d.wide)[d.async.transferred], d.async.id, d.async.data)
    /\ d.async.isActive /\ d.async.direction = "RECEIVING" =>
         word[1] \in {"waiting", "device", "ack"}

AdapterFields == {"mode", "wide", "call", "turn", "at", "id", "data", "answer"}

Truthful(a) ==
  LET x == a.answer
  IN  x # NoAnswer =>
        /\ x.id \in {a.id, ErrorStatus, "CONNECTION_CLOSED", "RESET"}
        /\ x.id = "CONNECTION_CLOSED" => a.id = "TRANSFER"
        /\ x.id = ErrorStatus => x.data \in {Odd, <<a.id>>}
        /\ x.id = a.id /\ a.id \in Answered => x.data \in {Odd, a.data}

Adapted(a) ==
  /\ DOMAIN a = AdapterFields
  /\ a.turn \in {"listen", "answer"} /\ a.at \in 1..Last(a.wide)
  /\ a.turn = "listen" => a.answer = NoAnswer
  /\ a.mode # "awake" => a.turn = "listen" /\ a.at = 1

\* It answers nothing but what it was asked.
Kind(a) == Adapted(a) /\ (a.id \in Commands => Truthful(a))

InTune(d, a) ==
  /\ Kind(a)
  /\ a.turn = "listen" /\ a.at > 1 /\ d.state \notin {"NEEDS_RESET", "PINGING"} =>
       /\ d.async.isActive /\ d.async.direction = "SENDING" /\ d.async.transferred = a.at
       /\ a.id = d.async.id /\ (a.at > 2 => a.data = d.async.data)
  /\ a.turn = "answer" /\ d.async.isActive /\ d.async.direction = "RECEIVING" =>
       /\ a.id = d.asked /\ (d.asked \in Answered => a.data = <<d.asked, d.requests[1].asks>>)
       /\ d.async.transferred > 0 => a.answer # NoAnswer /\ a.answer.id = d.async.id

Right(d, a, writing, coming) ==
  /\ Queued(d, coming) /\ Clearing(d, writing)
  /\ d.async.isActive => Commanded(d) /\ Hearing(d)
  /\ Worded(d) /\ InTune(d, a)

-----------------------------------------------------------------------------
(* The queue: what happens to its first request.                           *)

LEMMA FirstRequest ==
  ASSUME NEW q \in Seq(Requests), q # <<>>
  PROVE  /\ Head(q) = q[1] /\ q[1] \in Requests /\ Len(q) \in Nat \ {0}
         /\ Tail(q) \in Seq(Requests) /\ Len(Tail(q)) = Len(q) - 1
         /\ \A i \in 1..Len(Tail(q)) : Tail(q)[i] = q[i + 1]
  BY HeadTailProperties, LenProperties, ElementOfSeq, EmptySeq

LEMMA RequestParts ==
  ASSUME NEW r \in Requests
  PROVE  /\ DOMAIN r = {"type", "slot", "asks", "timeout", "finished"}
         /\ r.type \in Types /\ r.finished \in BOOLEAN
         /\ r.type \in Answered => r.slot \in Slots
         /\ r.type \notin Answered => r.slot = NoSlot
         /\ NoSlot \notin Slots
  BY LinkMobileAssumption DEF Requests

LEMMA SameIsQueued ==
  ASSUME NEW d, NEW coming, Queued(d, coming),
         NEW e, e.requests = d.requests, e.results = d.results
  PROVE  Queued(e, coming)
  BY DEF Queued, Results, Holds, Awaits

LEMMA ClearedIsQueued ==
  ASSUME NEW d, NEW coming, Queued(d, coming),
         NEW e, e.requests = <<>>, e.results = d.results
  PROVE  Queued(e, coming)
<1>1. e.requests \in Seq(Requests) /\ Len(e.requests) = 0
  BY EmptySeq
<1>. QED
  BY <1>1 DEF Queued, Results, Holds, Awaits

LEMMA DroppedIsQueued ==
  ASSUME NEW d, NEW coming, Queued(d, coming), d.requests # <<>>,
         NEW e, e.requests = Tail(d.requests), e.results = d.results
  PROVE  Queued(e, coming) /\ \A i \in 1..Len(e.requests) : ~e.requests[i].finished
<1>. DEFINE q == d.requests
            t == Tail(q)
<1>1. q \in Seq(Requests) /\ q # <<>>
  BY DEF Queued
<1>2. /\ Len(q) \in Nat \ {0} /\ t \in Seq(Requests) /\ Len(t) = Len(q) - 1
      /\ \A i \in 1..Len(t) : t[i] = q[i + 1]
  BY <1>1, FirstRequest
<1>3. \A i \in 1..Len(t) : i + 1 \in 1..Len(q) /\ i + 1 # 1 /\ ~q[i + 1].finished
  <2>1. \A i \in 1..Len(t) : i + 1 \in 1..Len(q) /\ i + 1 # 1
    BY <1>2
  <2>2. \A i \in 1..Len(q) : q[i].finished => i = 1
    BY DEF Queued
  <2>. QED
    BY <2>1, <2>2
<1>4. Results(e)
  BY DEF Queued, Results, Holds
<1>5. \A i \in 1..Len(t) : ~t[i].finished /\ Awaits(e, t[i])
  <2>1. \A i \in 1..Len(q) : ~q[i].finished => Awaits(d, q[i])
    BY DEF Queued
  <2>. HIDE DEF q, t
  <2>. QED
    BY <1>2, <1>3, <2>1 DEF Awaits
<1>6. \A i, j \in 1..Len(t) : i # j => t[i].slot # t[j].slot \/ t[i].slot = NoSlot
  <2>1. \A i, j \in 1..Len(q) : ~q[i].finished /\ ~q[j].finished /\ i # j =>
              q[i].slot # q[j].slot \/ q[i].slot = NoSlot
    BY DEF Queued
  <2>. TAKE i, j \in 1..Len(t)
  <2>. HAVE i # j
  <2>2. i + 1 # j + 1
    BY <1>2
  <2>. HIDE DEF q, t
  <2>. QED
    BY <1>2, <1>3, <2>1, <2>2
<1>7. \A r \in coming :
       /\ r \in Requests /\ ~r.finished /\ Awaits(e, r)
       /\ \A i \in 1..Len(t) : t[i].slot # r.slot \/ r.slot = NoSlot
  <2>1. \A r \in coming :
       /\ r \in Requests /\ ~r.finished /\ Awaits(d, r)
       /\ \A i \in 1..Len(q) : ~q[i].finished => q[i].slot # r.slot \/ r.slot = NoSlot
    BY DEF Queued
  <2>. HIDE DEF q, t
  <2>. QED
    BY <1>2, <1>3, <2>1 DEF Awaits
<1>8. e.requests = t
  OBVIOUS
<1>. HIDE DEF q, t
<1>. QED
  BY <1>2, <1>4, <1>5, <1>6, <1>7, <1>8 DEF Queued

\* What a struct is filled with: an answer to its request, or nothing.
Belongs(r, success, data) ==
  success => \/ data = <<r.type, r.asks>>
             \/ r.type = "CLOSE_CONNECTION" /\ data = Odd

\* A struct is filled, and nothing else happens.
OnlyResults(d, e) ==
  /\ e.requests = d.requests /\ e.isWriting = d.isWriting /\ e.needsClear = d.needsClear
  /\ e.asked = d.asked

LEMMA FilledIsApart ==
  ASSUME NEW d, Shaped(d), NEW r, NEW success, NEW data
  PROVE  OnlyResults(d, Filled(d, r, success, data))
<1>. DEFINE e == Filled(d, r, success, data)
<1>1. \/ e = d
      \/ \E results : e = [d EXCEPT !.results = results]
  BY DEF Filled, Shaped
<1>. HIDE DEF e
<1>2. OnlyResults(d, e)
  BY <1>1 DEF OnlyResults, Shaped
<1>. QED
  BY <1>2 DEF e

LEMMA FilledParts ==
  ASSUME NEW d, Shaped(d), Results(d), NEW r \in Requests, Awaits(d, r),
         NEW success, NEW data, Belongs(r, success, data),
         NEW e, e = Filled(d, r, success, data)
  PROVE  /\ Results(e)
         /\ \A s \in Slots : s # r.slot => e.results[s] = d.results[s]
<1>1. CASE r.slot = NoSlot
  BY <1>1, RequestParts DEF Filled
<1>2. CASE r.slot # NoSlot
  <2>. DEFINE old == d.results[r.slot]
              new == [old EXCEPT !.completed = TRUE, !.success = success,
                                 !.data = IF success THEN data ELSE old.data]
              results == [d.results EXCEPT ![r.slot] = new]
  <2>1. r.slot \in Slots
    BY <1>2, RequestParts
  <2>2. DOMAIN old = ResultFields /\ old.type = r.type /\ old.asks = r.asks
    BY <2>1 DEF Results, Awaits
  <2>3. /\ DOMAIN new = ResultFields /\ new.completed = TRUE /\ new.success = success
        /\ new.type = r.type /\ new.asks = r.asks
        /\ success => new.data = data
    BY <2>2 DEF ResultFields
  <2>4. e = [d EXCEPT !.results[r.slot] = new]
    BY <1>2 DEF Filled
  <2>. HIDE DEF new
  <2>5. e = [d EXCEPT !.results = results]
    BY <2>4 DEF Shaped
  <2>6. DOMAIN d.results = Slots
    BY DEF Results
  <2>7. /\ DOMAIN results = Slots /\ results[r.slot] = new
        /\ \A s \in Slots : s # r.slot => results[s] = d.results[s]
    BY <2>1, <2>6
  <2>. HIDE DEF results
  <2>8. e.results = results
    BY <2>5 DEF Shaped
  <2>9. Holds(e, r.slot)
    BY <2>3, <2>7, <2>8 DEF Holds, Belongs
  <2>10. \A s \in Slots : DOMAIN e.results[s] = ResultFields /\ Holds(e, s)
    <3>1. ASSUME NEW s \in Slots, s # r.slot
          PROVE  DOMAIN e.results[s] = ResultFields /\ Holds(e, s)
      <4>1. e.results[s] = d.results[s] /\ DOMAIN d.results[s] = ResultFields /\ Holds(d, s)
        BY <2>7, <2>8, <3>1 DEF Results
      <4>. QED
        BY <4>1 DEF Holds
    <3>. QED
      BY <2>3, <2>7, <2>8, <2>9, <3>1
  <2>. QED
    BY <2>7, <2>8, <2>10 DEF Results
<1>. QED
  BY <1>1, <1>2

LEMMA FinishedIsQueued ==
  ASSUME NEW d, NEW coming, Shaped(d), Queued(d, coming), d.requests # <<>>,
         ~d.requests[1].finished, NEW success, NEW data,
         Belongs(d.requests[1], success, data),
         NEW e, e.requests = [d.requests EXCEPT ![1].finished = TRUE],
         e.results = Filled(d, d.requests[1], success, data).results
  PROVE  Queued(e, coming)
<1>. DEFINE q == d.requests
            r == q[1]
            f == Filled(d, r, success, data)
            t == e.requests
<1>1. q \in Seq(Requests) /\ q # <<>>
  BY DEF Queued
<1>2. Len(q) \in Nat \ {0} /\ r \in Requests /\ q \in [1..Len(q) -> Requests]
  BY <1>1, FirstRequest, LenProperties
<1>3. /\ Results(d) /\ Awaits(d, r)
      /\ \A i \in 1..Len(q) : q[i].finished => i = 1
      /\ \A i \in 1..Len(q) : ~q[i].finished => Awaits(d, q[i])
      /\ \A i, j \in 1..Len(q) : ~q[i].finished /\ ~q[j].finished /\ i # j =>
              q[i].slot # q[j].slot \/ q[i].slot = NoSlot
      /\ \A x \in coming :
           /\ x \in Requests /\ ~x.finished /\ Awaits(d, x)
           /\ \A i \in 1..Len(q) : ~q[i].finished => q[i].slot # x.slot \/ x.slot = NoSlot
  BY <1>2 DEF Queued
<1>4. Results(f) /\ \A s \in Slots : s # r.slot => f.results[s] = d.results[s]
  BY <1>2, <1>3, FilledParts
<1>5. Results(e) /\ \A s \in Slots : s # r.slot => e.results[s] = d.results[s]
  <2>1. e.results = f.results
    OBVIOUS
  <2>. HIDE DEF f, q
  <2>. QED
    BY <1>4, <2>1 DEF Results, Holds
<1>6. /\ t \in Seq(Requests) /\ Len(t) = Len(q)
      /\ t[1].finished /\ \A i \in 1..Len(q) : i # 1 => t[i] = q[i]
  <2>. DEFINE n == [r EXCEPT !.finished = TRUE]
  <2>1. n \in Requests /\ n.finished
    BY <1>2 DEF Requests
  <2>2. t = [q EXCEPT ![1] = n]
    OBVIOUS
  <2>. HIDE DEF n, q, t, f
  <2>3. t \in [1..Len(q) -> Requests] /\ t[1] = n /\ \A i \in 1..Len(q) : i # 1 => t[i] = q[i]
    BY <1>2, <2>1, <2>2
  <2>4. t \in Seq(Requests)
    BY <1>2, <2>3, SeqDef
  <2>5. Len(t) = Len(q)
    BY <1>2, <2>3, <2>4, LenProperties
  <2>. QED
    BY <2>1, <2>3, <2>4, <2>5
<1>. HIDE DEF f, t
<1>7. \A i \in 1..Len(t) : t[i].finished => i = 1
  BY <1>3, <1>6
<1>8. ASSUME NEW x, Awaits(d, x), x.slot # r.slot \/ x.slot = NoSlot
      PROVE  Awaits(e, x)
  BY <1>5, <1>8, RequestParts, <1>2 DEF Awaits
<1>9. \A i \in 1..Len(t) : ~t[i].finished => Awaits(e, t[i])
  <2>. SUFFICES ASSUME NEW i \in 1..Len(t), ~t[i].finished PROVE Awaits(e, t[i])
    OBVIOUS
  <2>1. i # 1 /\ i \in 1..Len(q) /\ 1 \in 1..Len(q) /\ t[i] = q[i] /\ ~q[i].finished /\ ~r.finished
    BY <1>2, <1>6
  <2>2. Awaits(d, q[i]) /\ (q[i].slot # r.slot \/ q[i].slot = NoSlot)
    BY <1>3, <2>1
  <2>3. Awaits(e, q[i])
    BY <1>8, <2>2
  <2>. QED
    BY <2>1, <2>3
<1>10. \A i, j \in 1..Len(t) : ~t[i].finished /\ ~t[j].finished /\ i # j =>
              t[i].slot # t[j].slot \/ t[i].slot = NoSlot
  BY <1>3, <1>6
<1>11. \A x \in coming :
           /\ x \in Requests /\ ~x.finished /\ Awaits(e, x)
           /\ \A i \in 1..Len(t) : ~t[i].finished => t[i].slot # x.slot \/ x.slot = NoSlot
  <2>. SUFFICES ASSUME NEW x \in coming
                PROVE  /\ x \in Requests /\ ~x.finished /\ Awaits(e, x)
                       /\ \A i \in 1..Len(t) : ~t[i].finished => t[i].slot # x.slot \/ x.slot = NoSlot
    OBVIOUS
  <2>1. 1 \in 1..Len(q) /\ ~r.finished
    BY <1>2
  <2>2. Awaits(d, x) /\ (x.slot # r.slot \/ x.slot = NoSlot)
    BY <1>3, <2>1
  <2>3. Awaits(e, x)
    BY <1>8, <2>2
  <2>. QED
    BY <1>3, <1>6, <2>3
<1>. QED
  BY <1>5, <1>6, <1>7, <1>9, <1>10, <1>11 DEF Queued, t

\* The first request gets its result and is finished.
Finishes(d, e, success, data) ==
  /\ Belongs(d.requests[1], success, data)
  /\ e.requests = [d.requests EXCEPT ![1].finished = TRUE]
  /\ e.results = Filled(d, d.requests[1], success, data).results

LEMMA FinishesIsQueued ==
  ASSUME NEW d, NEW coming, Shaped(d), Queued(d, coming), d.requests # <<>>,
         ~d.requests[1].finished, NEW success, NEW data, NEW e, Finishes(d, e, success, data)
  PROVE  Queued(e, coming)
<1>1. /\ Belongs(d.requests[1], success, data)
      /\ e.requests = [d.requests EXCEPT ![1].finished = TRUE]
      /\ e.results = Filled(d, d.requests[1], success, data).results
  BY DEF Finishes
<1>. QED
  BY <1>1, FinishedIsQueued

-----------------------------------------------------------------------------
(* What the handlers' helpers make of a driver and its requests.           *)

\* Nothing but the link, the state and what is of no concern here changes.
SameQueue(d, e) ==
  /\ e.requests = d.requests /\ e.results = d.results
  /\ e.isWriting = d.isWriting /\ e.needsClear = d.needsClear

\* No command is under way in a session, and the adapter waits for one.
Restful(d) ==
  /\ ~d.async.isActive /\ d.pending = Link!NoWord /\ d.port.wire = Link!NoWord
  /\ d.state \notin {"NEEDS_RESET", "PINGING"}

LEMMA ReadyIsRestful ==
  ASSUME NEW d, Ready(d), d.state \notin {"NEEDS_RESET", "PINGING"}
  PROVE  Restful(d) /\ Shaped(d)
  BY DEF Ready, Restful, NothingSent

LEMMA RestIsRight ==
  ASSUME NEW d, NEW a, NEW writing, NEW coming, Right(d, a, writing, coming), ~d.async.isActive,
         d.state \notin {"NEEDS_RESET", "PINGING"}, NEW e, Restful(e),
         Queued(e, coming), e.isWriting = d.isWriting, e.needsClear = d.needsClear
  PROVE  Right(e, a, writing, coming)
<1>1. Clearing(e, writing)
  BY DEF Right, Clearing
<1>2. Worded(e)
  BY DEF Worded, Restful
<1>3. InTune(e, a)
  BY DEF Right, InTune, Restful
<1>. QED
  BY <1>1, <1>2, <1>3 DEF Right, Restful

LEMMA StillIsRight ==
  ASSUME NEW d, NEW a, NEW writing, NEW coming, Right(d, a, writing, coming), ~d.async.isActive,
         d.state \notin {"NEEDS_RESET", "PINGING"}, NEW e, Restful(e), SameQueue(d, e)
  PROVE  Right(e, a, writing, coming)
<1>1. Queued(e, coming)
  BY SameIsQueued DEF Right, SameQueue
<1>. QED
  BY <1>1, RestIsRight DEF SameQueue

\* The command under way goes on, and its request is still the first.
LEMMA SameIsRight ==
  ASSUME NEW d, NEW a, NEW writing, NEW coming, Right(d, a, writing, coming),
         NEW e, SameLink(d, e), e.asked = d.asked, e.state = d.state,
         Queued(e, coming), e.isWriting = d.isWriting, e.needsClear = d.needsClear,
         d.async.isActive /\ d.asked \in Answered =>
           e.requests # <<>> /\ e.requests[1] = d.requests[1]
  PROVE  Right(e, a, writing, coming)
<1>1. Clearing(e, writing)
  BY DEF Right, Clearing
<1>2. Worded(e)
  BY DEF Right, Worded, SameLink
<1>3. d.async.isActive /\ d.async.id \in Answered /\ d.async.direction = "RECEIVING"
        => d.asked \in Answered
  BY DEF Right, Hearing, Named
<1>4. d.async.isActive => Commanded(e)
  BY DEF Right, Commanded, Served, SameLink
<1>5. d.async.isActive => Hearing(e)
  BY <1>3 DEF Right, Hearing, Named, Told, SameLink
<1>6. InTune(e, a)
  BY DEF Right, InTune, SameLink
<1>. QED
  BY <1>1, <1>2, <1>4, <1>5, <1>6 DEF Right, SameLink

LEMMA AsideIsRight ==
  ASSUME NEW d, NEW a, NEW writing, NEW coming, Right(d, a, writing, coming),
         NEW e, SameLink(d, e), e.asked = d.asked, e.state = d.state, SameQueue(d, e)
  PROVE  Right(e, a, writing, coming)
<1>1. Queued(e, coming)
  BY SameIsQueued DEF Right, SameQueue
<1>2. d.async.isActive /\ d.asked \in Answered => d.requests # <<>>
  BY DEF Right, Commanded, Served
<1>. QED
  BY <1>1, <1>2, SameIsRight DEF SameQueue

LEMMA SetStateParts ==
  ASSUME NEW d, Shaped(d), NEW s, NEW e, e = setState(d, s)
  PROVE  SameQueue(d, e) /\ e.asked = d.asked /\ SameLink(d, e) /\ e.state = s /\ Shaped(e)
  BY DEF setState, Shaped, SameQueue, SameLink

\* The state may change under a command, unless that serves the first request.
LEMMA StateIsRight ==
  ASSUME NEW d, NEW a, NEW writing, NEW coming, Right(d, a, writing, coming), Shaped(d),
         d.state \notin {"NEEDS_RESET", "PINGING"}, NEW s, s \notin {"NEEDS_RESET", "PINGING"},
         d.async.isActive => d.asked \notin Answered, NEW e, e = setState(d, s)
  PROVE  Right(e, a, writing, coming) /\ e.state = s /\ e.asked = d.asked /\ e.requests = d.requests
<1>1. SameQueue(d, e) /\ e.asked = d.asked /\ SameLink(d, e) /\ e.state = s
  BY SetStateParts
<1>2. Queued(e, coming)
  BY <1>1, SameIsQueued DEF Right, SameQueue
<1>3. Clearing(e, writing)
  BY <1>1 DEF Right, Clearing, SameQueue
<1>4. Worded(e)
  BY <1>1 DEF Right, Worded, SameLink
<1>5. d.async.isActive => Commanded(e)
  BY <1>1 DEF Right, Commanded, SameLink
<1>6. d.async.isActive => Hearing(e)
  BY <1>1 DEF Right, Hearing, Named, Told, SameLink, SameQueue
<1>7. InTune(e, a)
  BY <1>1 DEF Right, InTune, SameLink
<1>. QED
  BY <1>1, <1>2, <1>3, <1>4, <1>5, <1>6, <1>7 DEF Right, SameLink, SameQueue

LEMMA SentParts ==
  ASSUME NEW d, Shaped(d), NEW id, NEW data, NEW e, e = sendCommandAsync(d, id, data)
  PROVE  /\ SameQueue(d, e) /\ e.asked = id /\ e.state = d.state /\ e.wide = d.wide
         /\ e.port = d.port /\ e.pending = Word("header", id, data)
         /\ e.async.isActive /\ e.async.direction = "SENDING" /\ e.async.transferred = 1
         /\ e.async.id = id /\ e.async.data = data
<1>. DEFINE word == Word("header", id, data)
            async == [NoCommand EXCEPT !.isActive = TRUE, !.id = id, !.data = data]
            x == [d EXCEPT !.async = async, !.asked = id]
            y == [x EXCEPT !.pending = word]
<1>1. /\ DOMAIN async = CommandFields /\ async.isActive /\ async.direction = "SENDING"
      /\ async.transferred = 0 /\ async.id = id /\ async.data = data
  BY DEF NoCommand
<1>2. e = [y EXCEPT !.async.transferred = @ + 1]
  BY DEF sendCommandAsync, advance, transferAsync
<1>. HIDE DEF word, async
<1>3. /\ DOMAIN x = Fields /\ x.async = async /\ x.port = d.port /\ x.asked = id
      /\ x.state = d.state /\ x.wide = d.wide /\ SameQueue(d, x)
  BY <1>1 DEF Shaped, SameQueue
<1>. HIDE DEF x
<1>4. /\ DOMAIN y = Fields /\ y.async = async /\ y.port = d.port /\ y.asked = id
      /\ y.state = d.state /\ y.wide = d.wide /\ y.pending = word /\ SameQueue(d, y)
  BY <1>3 DEF SameQueue
<1>. HIDE DEF y
<1>5. e = [y EXCEPT !.async = [async EXCEPT !.transferred = @ + 1]]
  BY <1>2, <1>4
<1>. DEFINE new == [async EXCEPT !.transferred = @ + 1]
<1>6. /\ new.isActive /\ new.direction = "SENDING" /\ new.transferred = 1
      /\ new.id = id /\ new.data = data
  BY <1>1
<1>. HIDE DEF new
<1>7. e = [y EXCEPT !.async = new]
  BY <1>5 DEF new
<1>8. /\ e.async = new /\ e.port = d.port /\ e.asked = id
      /\ e.state = d.state /\ e.wide = d.wide /\ e.pending = word /\ SameQueue(d, e)
  BY <1>4, <1>7 DEF SameQueue
<1>. QED
  BY <1>6, <1>8 DEF word

\* A command begins; when an answer goes to a request, for the first one.
LEMMA SendIsRight ==
  ASSUME NEW d, NEW a, NEW writing, NEW coming, Right(d, a, writing, coming), Ready(d),
         d.state \notin {"NEEDS_RESET", "PINGING"}, NEW id \in Commands, NEW data,
         id \in Answered => /\ d.requests # <<>> /\ ~d.requests[1].finished
                            /\ d.requests[1].type = id /\ d.state \in ServedIn(id)
                            /\ data = <<id, d.requests[1].asks>>,
         NEW e, e = sendCommandAsync(d, id, data)
  PROVE  Right(e, a, writing, coming) /\ e.requests = d.requests /\ e.asked = id
<1>1. /\ SameQueue(d, e) /\ e.asked = id /\ e.state = d.state /\ e.wide = d.wide
      /\ e.port = d.port /\ e.pending = Word("header", id, data)
      /\ e.async.isActive /\ e.async.direction = "SENDING" /\ e.async.transferred = 1
      /\ e.async.id = id /\ e.async.data = data
  BY SentParts DEF Ready
<1>2. Queued(e, coming)
  BY <1>1, SameIsQueued DEF Right, SameQueue
<1>3. Clearing(e, writing)
  BY <1>1 DEF Right, Clearing, SameQueue
<1>4. Worded(e)
  BY <1>1, PartsOfAMessage DEF Worded, Ready, NothingSent
<1>5. Commanded(e)
  BY <1>1 DEF Commanded, Served, SameQueue
<1>6. Hearing(e)
  BY <1>1 DEF Hearing
<1>7. InTune(e, a)
  BY <1>1 DEF Right, InTune, Ready
<1>. QED
  BY <1>1, <1>2, <1>3, <1>4, <1>5, <1>6, <1>7 DEF Right, SameQueue

\* What is left when a session is aborted.
LEMMA StoppedParts ==
  ASSUME NEW d, Shaped(d), NEW e, e = stop(resetState(d)) \/ \E x : e = abort(d, x)
  PROVE  /\ e.requests = <<>> /\ e.results = d.results /\ e.isWriting = d.isWriting
         /\ e.needsClear = (d.needsClear \/ d.isWriting) /\ e.state = "NEEDS_RESET"
         /\ e.asked = d.asked /\ ~e.async.isActive
         /\ e.pending = Link!NoWord /\ e.port.wire = Link!NoWord
<1>. DEFINE s == setState(d, "NEEDS_RESET")
            r == resetState(d)
<1>1. Shaped(s) /\ s.state = "NEEDS_RESET" /\ SameQueue(d, s) /\ s.asked = d.asked /\ s.port = d.port
  BY SetStateParts DEF SameLink
<1>2. r = [s EXCEPT !.requests = <<>>, !.needsClear = @ \/ d.isWriting,
                    !.async = NoCommand, !.waitFrames = 0, !.pending = Link!NoWord]
  BY DEF resetState
<1>. HIDE DEF s
<1>3. /\ DOMAIN r = Fields /\ DOMAIN r.port = {"lib", "mode", "interrupts", "wire"}
      /\ r.requests = <<>> /\ r.results = d.results /\ r.isWriting = d.isWriting
      /\ r.needsClear = (d.needsClear \/ d.isWriting) /\ r.state = "NEEDS_RESET"
      /\ r.asked = d.asked /\ r.async = NoCommand /\ r.pending = Link!NoWord
  BY <1>1, <1>2 DEF Shaped, SameQueue
<1>. HIDE DEF r
<1>4. ASSUME NEW x, x = r \/ \E y : x = [r EXCEPT !.error = y], e = stop(x)
      PROVE  /\ e.requests = <<>> /\ e.results = d.results /\ e.isWriting = d.isWriting
             /\ e.needsClear = (d.needsClear \/ d.isWriting) /\ e.state = "NEEDS_RESET"
             /\ e.asked = d.asked /\ ~e.async.isActive
             /\ e.pending = Link!NoWord /\ e.port.wire = Link!NoWord
  <2>1. /\ DOMAIN x = Fields /\ DOMAIN x.port = {"lib", "mode", "interrupts", "wire"}
        /\ x.requests = <<>> /\ x.results = d.results /\ x.isWriting = d.isWriting
        /\ x.needsClear = (d.needsClear \/ d.isWriting) /\ x.state = "NEEDS_RESET"
        /\ x.asked = d.asked /\ x.async = NoCommand /\ x.pending = Link!NoWord
    BY <1>3, <1>4
  <2>2. ~NoCommand.isActive
    BY DEF NoCommand
  <2>. DEFINE port == Link!deactivate(x.port, "spi")
  <2>3. e = [x EXCEPT !.port = port]
    BY <1>4 DEF stop
  <2>4. port.wire = Link!NoWord
    BY <2>1 DEF Link!deactivate
  <2>. HIDE DEF port
  <2>. QED
    BY <2>1, <2>2, <2>3, <2>4
<1>. QED
  BY <1>4 DEF abort, r

LEMMA StoppedAnyway ==
  ASSUME NEW d, NEW a, NEW writing, NEW coming, Queued(d, coming), Clearing(d, writing), Kind(a),
         Shaped(d), NEW e, e = stop(resetState(d)) \/ \E x : e = abort(d, x)
  PROVE  Right(e, a, writing, coming)
<1>1. /\ e.requests = <<>> /\ e.results = d.results /\ e.isWriting = d.isWriting
      /\ e.needsClear = (d.needsClear \/ d.isWriting) /\ e.state = "NEEDS_RESET"
      /\ e.asked = d.asked /\ ~e.async.isActive
      /\ e.pending = Link!NoWord /\ e.port.wire = Link!NoWord
  BY StoppedParts
<1>2. Queued(e, coming)
  BY <1>1, ClearedIsQueued
<1>3. Clearing(e, writing) /\ Worded(e) /\ InTune(e, a)
  BY <1>1 DEF Clearing, Worded, InTune
<1>. QED
  BY <1>1, <1>2, <1>3 DEF Right

LEMMA StoppedIsRight ==
  ASSUME NEW d, NEW a, NEW writing, NEW coming, Right(d, a, writing, coming), Shaped(d),
         NEW e, e = stop(resetState(d)) \/ \E x : e = abort(d, x)
  PROVE  Right(e, a, writing, coming)
  BY StoppedAnyway DEF Right, InTune

\* The first request leaves, served or not, when no command is under way for it.
LEMMA DroppedIsRight ==
  ASSUME NEW d, NEW a, NEW writing, NEW coming, Right(d, a, writing, coming), Shaped(d),
         d.requests # <<>>, d.async.isActive => d.asked \notin Answered
  PROVE  Right([d EXCEPT !.requests = Tail(@)], a, writing, coming)
<1>. DEFINE e == [d EXCEPT !.requests = Tail(@)]
<1>1. /\ e.requests = Tail(d.requests) /\ e.results = d.results /\ e.isWriting = d.isWriting
      /\ e.needsClear = d.needsClear /\ SameLink(d, e) /\ e.asked = d.asked /\ e.state = d.state
  BY DEF Shaped, SameLink
<1>. HIDE DEF e
<1>2. Queued(e, coming)
  BY <1>1, DroppedIsQueued DEF Right
<1>3. Right(e, a, writing, coming)
  BY <1>1, <1>2, SameIsRight
<1>. QED
  BY <1>3 DEF e

LEMMA PopIsRight ==
  ASSUME NEW d, NEW a, NEW writing, NEW coming, Right(d, a, writing, coming), Shaped(d),
         d.requests # <<>>, d.async.isActive => d.asked \notin Answered
  PROVE  Right(popRequest(d), a, writing, coming)
<1>. DEFINE r == Head(d.requests)
            f == Filled(d, r, FALSE, NoData)
            g == [f EXCEPT !.requests = Tail(@)]
<1>1. CASE r.finished
  <2>1. popRequest(d) = [d EXCEPT !.requests = Tail(@)]
    BY <1>1 DEF popRequest
  <2>2. Right([d EXCEPT !.requests = Tail(@)], a, writing, coming)
    BY DroppedIsRight
  <2>. QED
    BY <2>1, <2>2, Zenon
<1>2. CASE ~r.finished
  <2>1. popRequest(d) = g
    BY <1>2 DEF popRequest
  <2>2. /\ d.requests \in Seq(Requests) /\ r = d.requests[1] /\ r \in Requests
        /\ 1 \in 1..Len(d.requests)
    BY FirstRequest DEF Right, Queued
  <2>3. Results(d) /\ Awaits(d, r) /\ ~r.finished
    BY <1>2, <2>2 DEF Right, Queued
  <2>4. Belongs(r, FALSE, NoData)
    BY DEF Belongs
  <2>5. /\ f.requests = d.requests /\ f.isWriting = d.isWriting /\ f.needsClear = d.needsClear
        /\ f.asked = d.asked /\ Kept(d, f)
    <3>1. Kept(d, f) /\ OnlyResults(d, f)
      BY FilledKeeps, FilledIsApart, Zenon
    <3>. QED
      BY <3>1 DEF OnlyResults
  <2>. DEFINE x == [f EXCEPT !.requests = [d.requests EXCEPT ![1].finished = TRUE]]
  <2>6. /\ x.requests = [d.requests EXCEPT ![1].finished = TRUE] /\ x.results = f.results
    BY <2>5 DEF Kept, Shaped
  <2>7. f.results = Filled(d, d.requests[1], FALSE, NoData).results
    BY <2>2
  <2>. HIDE DEF x, f
  <2>8. Queued(x, coming)
    <3>1. ~d.requests[1].finished /\ Belongs(d.requests[1], FALSE, NoData) /\ Queued(d, coming)
      BY <2>2, <2>3, <2>4 DEF Right
    <3>2. x.results = Filled(d, d.requests[1], FALSE, NoData).results
      BY <2>6, <2>7
    <3>3. x.requests = [d.requests EXCEPT ![1].finished = TRUE]
      BY <2>6
    <3>. QED
      BY <3>1, <3>2, <3>3, FinishedIsQueued, Zenon
  <2>9. /\ g.requests = Tail(x.requests) /\ g.results = x.results /\ x.requests # <<>>
    <3>1. g.requests = Tail(d.requests) /\ g.results = x.results
      BY <2>5, <2>6 DEF Kept, Shaped
    <3>2. Tail([d.requests EXCEPT ![1].finished = TRUE]) = Tail(d.requests)
      <4>. DEFINE q == d.requests
                  t == [q EXCEPT ![1].finished = TRUE]
      <4>1. /\ Len(q) \in Nat \ {0} /\ DOMAIN q = 1..Len(q)
        BY <2>2, FirstRequest, LenProperties
      <4>2. DOMAIN t = DOMAIN q /\ \A i \in 2..Len(q) : t[i] = q[i]
        BY <4>1
      <4>3. Len(t) = Len(q)
        BY <4>1, <4>2
      <4>. QED
        BY <4>1, <4>2, <4>3
    <3>3. [d.requests EXCEPT ![1].finished = TRUE] # <<>>
      BY <2>2, FirstRequest
    <3>. QED
      BY <2>6, <3>1, <3>2, <3>3
  <2>10. Queued(g, coming)
    BY <2>8, <2>9, DroppedIsQueued
  <2>11. /\ SameLink(d, g) /\ g.asked = d.asked /\ g.state = d.state
         /\ g.isWriting = d.isWriting /\ g.needsClear = d.needsClear
    BY <2>5 DEF Kept, Shaped, SameLink
  <2>. HIDE DEF g
  <2>. QED
    BY <2>1, <2>10, <2>11, SameIsRight
<1>. QED
  BY <1>1, <1>2

-----------------------------------------------------------------------------
(* VBLANK: requests become commands.                                       *)

\* The request that is looked at, in a session.
Facing(d, r) ==
  /\ Sound(d) /\ isSessionActive(d) /\ d.requests # <<>> /\ ~d.requests[1].finished
  /\ r.type = d.requests[1].type /\ r.slot = d.requests[1].slot
  /\ r.asks = d.requests[1].asks
  /\ d.requests[1] \in Requests

LEMMA OtherCommand ==
  ASSUME NEW d, NEW a, NEW writing, NEW coming, Right(d, a, writing, coming),
         NEW r, Facing(d, r), r.type \notin Answered \/ d.state \notin ServedIn(r.type)
  PROVE  d.async.isActive => d.asked \notin Answered
  BY DEF Right, Commanded, Served, Facing

LEMMA SessionStates ==
  ASSUME NEW d, isSessionActive(d)
  PROVE  d.state \notin {"NEEDS_RESET", "PINGING"} /\ d.state \notin Calm
  BY DEF isSessionActive, InSession, Calm

LEMMA DialIsRight ==
  ASSUME NEW d, NEW a, NEW writing, NEW coming, Right(d, a, writing, coming),
         NEW r, Facing(d, r), r.type = "CALL"
  PROVE  Right(Dial(d, r), a, writing, coming)
<1>. DEFINE e == IF d.state = "SESSION_ACTIVE" THEN setState(d, "CALL_REQUESTED") ELSE d
            f == setState(e, "CALLING")
            g == sendCommandAsync(f, "DIAL_TELEPHONE", <<"p2p">>)
<1>1. /\ d.async.isActive => d.asked \notin Answered
      /\ Sound(d) /\ Shaped(d) /\ d.state \notin {"NEEDS_RESET", "PINGING"} /\ d.state \notin Calm
      /\ d.requests # <<>>
  BY OtherCommand, SoundParts, SessionStates DEF Facing, Answered
<1>2. /\ Right(e, a, writing, coming) /\ e.state \notin {"NEEDS_RESET", "PINGING"}
      /\ Sound(e) /\ e.requests = d.requests /\ e.async = d.async
  BY <1>1, StateIsRight, StateIsSound DEF Calm
<1>3. Dial(d, r) = IF d.async.isActive THEN e ELSE popRequest(g)
  BY DEF Dial
<1>4. ASSUME ~d.async.isActive PROVE Right(popRequest(g), a, writing, coming)
  <2>. HIDE DEF e
  <2>1. Ready(e) /\ Shaped(e)
    BY <1>2, <1>4, MayBegin, SoundParts
  <2>2. /\ Ready(f) /\ f.state = "CALLING" /\ Right(f, a, writing, coming)
        /\ f.requests = d.requests
    BY <1>2, <1>4, <2>1, ReadyState, StateIsRight
  <2>. HIDE DEF f
  <2>3. "DIAL_TELEPHONE" \in Commands \ Answered
    BY DEF Commands, Answered
  <2>4. Right(g, a, writing, coming) /\ g.requests = d.requests /\ g.asked = "DIAL_TELEPHONE"
    BY <2>2, <2>3, SendIsRight
  <2>5. Shaped(g)
    BY <2>2, SendIsSound DEF Calm
  <2>. HIDE DEF g
  <2>. QED
    BY <1>1, <2>3, <2>4, <2>5, PopIsRight
<1>. QED
  BY <1>2, <1>3, <1>4

LEMMA LoginIsRight ==
  ASSUME NEW d, NEW a, NEW writing, NEW coming, Right(d, a, writing, coming),
         NEW r, Facing(d, r), r.type = "PPP_LOGIN"
  PROVE  Right(Login(d, r), a, writing, coming)
<1>. DEFINE e == IF d.state = "SESSION_ACTIVE" THEN setState(d, "ISP_CALL_REQUESTED") ELSE d
            f == setState(e, "ISP_CALLING")
            g == sendCommandAsync(f, "DIAL_TELEPHONE", <<"ppp">>)
<1>1. /\ d.async.isActive => d.asked \notin Answered
      /\ Sound(d) /\ Shaped(d) /\ d.state \notin {"NEEDS_RESET", "PINGING"} /\ d.state \notin Calm
      /\ d.requests # <<>>
  BY OtherCommand, SoundParts, SessionStates DEF Facing, Answered
<1>2. /\ Right(e, a, writing, coming) /\ e.state \notin {"NEEDS_RESET", "PINGING"}
      /\ Sound(e) /\ e.requests = d.requests /\ e.async = d.async
  BY <1>1, StateIsRight, StateIsSound DEF Calm
<1>3. Login(d, r) = IF d.async.isActive \/ e.state # "ISP_CALL_REQUESTED" THEN e ELSE g
  BY DEF Login
<1>4. ASSUME ~d.async.isActive PROVE Right(g, a, writing, coming)
  <2>. HIDE DEF e
  <2>1. Ready(e) /\ Shaped(e)
    BY <1>2, <1>4, MayBegin, SoundParts
  <2>2. /\ Ready(f) /\ f.state = "ISP_CALLING" /\ Right(f, a, writing, coming)
    BY <1>2, <1>4, <2>1, ReadyState, StateIsRight
  <2>. HIDE DEF f
  <2>3. "DIAL_TELEPHONE" \in Commands \ Answered
    BY DEF Commands, Answered
  <2>. QED
    BY <2>2, <2>3, SendIsRight
<1>. QED
  BY <1>2, <1>3, <1>4

LEMMA EndSessionIsRight ==
  ASSUME NEW d, NEW a, NEW writing, NEW coming, Right(d, a, writing, coming),
         NEW r, Facing(d, r), r.type = "SHUTDOWN"
  PROVE  Right(EndSession(d, r), a, writing, coming)
<1>. DEFINE e == IF d.state # "SHUTDOWN_REQUESTED" THEN setState(d, "SHUTDOWN_REQUESTED") ELSE d
            f == setState(e, "ENDING_SESSION")
            g == sendCommandAsync(f, "END_SESSION", NoData)
<1>1. /\ d.async.isActive => d.asked \notin Answered
      /\ Sound(d) /\ Shaped(d) /\ d.state \notin {"NEEDS_RESET", "PINGING"} /\ d.state \notin Calm
      /\ d.requests # <<>>
  BY OtherCommand, SoundParts, SessionStates DEF Facing, Answered
<1>2. /\ Right(e, a, writing, coming) /\ e.state \notin {"NEEDS_RESET", "PINGING"}
      /\ Sound(e) /\ e.requests = d.requests /\ e.async = d.async
  BY <1>1, StateIsRight, StateIsSound DEF Calm
<1>3. EndSession(d, r) = IF d.async.isActive THEN e ELSE popRequest(g)
  BY DEF EndSession
<1>4. ASSUME ~d.async.isActive PROVE Right(popRequest(g), a, writing, coming)
  <2>. HIDE DEF e
  <2>1. Ready(e) /\ Shaped(e)
    BY <1>2, <1>4, MayBegin, SoundParts
  <2>2. /\ Ready(f) /\ f.state = "ENDING_SESSION" /\ Right(f, a, writing, coming)
        /\ f.requests = d.requests
    BY <1>2, <1>4, <2>1, ReadyState, StateIsRight
  <2>. HIDE DEF f
  <2>3. "END_SESSION" \in Commands \ Answered
    BY DEF Commands, Answered
  <2>4. Right(g, a, writing, coming) /\ g.requests = d.requests /\ g.asked = "END_SESSION"
    BY <2>2, <2>3, SendIsRight
  <2>5. Shaped(g)
    BY <2>2, SendIsSound DEF Calm
  <2>. HIDE DEF g
  <2>. QED
    BY <1>1, <2>3, <2>4, <2>5, PopIsRight
<1>. QED
  BY <1>2, <1>3, <1>4

LEMMA ServeIsRight ==
  ASSUME NEW d, NEW a, NEW writing, NEW coming, Right(d, a, writing, coming),
         NEW r, Facing(d, r)
  PROVE  Right(Serve(d, r), a, writing, coming)
<1>1. /\ Shaped(d) /\ d.requests # <<>> /\ d.state \notin {"NEEDS_RESET", "PINGING"}
      /\ r.type \in Types /\ Sound(d) /\ d.requests[1].type = r.type
  BY SoundParts, RequestParts, SessionStates DEF Facing
<1>2. CASE d.state \notin ServedIn(r.type)
  <2>1. Serve(d, r) = popRequest(d)
    BY <1>2 DEF Serve
  <2>. QED
    BY <1>1, <1>2, <2>1, OtherCommand, PopIsRight
<1>3. CASE d.state \in ServedIn(r.type) /\ r.type = "CALL"
  BY <1>3, DialIsRight DEF Serve
<1>4. CASE d.state \in ServedIn(r.type) /\ r.type = "PPP_LOGIN"
  BY <1>4, LoginIsRight DEF Serve
<1>5. CASE d.state \in ServedIn(r.type) /\ r.type = "SHUTDOWN"
  BY <1>5, EndSessionIsRight DEF Serve
<1>6. CASE d.state \in ServedIn(r.type) /\ r.type \notin {"CALL", "PPP_LOGIN", "SHUTDOWN"}
  <2>1. Serve(d, r) = IF d.async.isActive THEN d
                      ELSE sendCommandAsync(d, r.type, <<r.type, r.asks>>)
    BY <1>6 DEF Serve
  <2>2. CASE d.async.isActive
    BY <2>1, <2>2
  <2>3. CASE ~d.async.isActive
    <3>1. r.type \in Commands
      BY <1>1, <1>6 DEF Types, Commands, Answered
    <3>2. Ready(d)
      BY <1>1, <2>3, MayBegin
    <3>3. /\ ~d.requests[1].finished /\ <<r.type, r.asks>> = <<r.type, d.requests[1].asks>>
      BY DEF Facing
    <3>4. Right(sendCommandAsync(d, r.type, <<r.type, r.asks>>), a, writing, coming)
      BY <1>1, <1>6, <3>1, <3>2, <3>3, SendIsRight
    <3>. QED
      BY <2>1, <2>3, <3>4
  <2>. QED
    BY <2>2, <2>3
<1>. QED
  BY <1>2, <1>3, <1>4, <1>5, <1>6

LEMMA RequestsAreRight ==
  ASSUME NEW d, NEW a, NEW writing, NEW coming, Right(d, a, writing, coming), Sound(d)
  PROVE  Right(processUserRequests(d), a, writing, coming)
<1>. DEFINE c == [d EXCEPT !.requests = <<>>]
            t == [d EXCEPT !.requests = Tail(@)]
            e == IF Head(d.requests).finished THEN t ELSE d
            request == [Head(e.requests) EXCEPT !.timeout = @ + 1]
<1>1. CASE d.isWriting \/ d.requests = <<>>
  BY <1>1 DEF processUserRequests
<1>2. CASE ~(d.isWriting \/ d.requests = <<>>) /\ ~isSessionActive(d)
  <2>1. processUserRequests(d) = c
    BY <1>2 DEF processUserRequests
  <2>2. /\ c.requests = <<>> /\ c.results = d.results /\ c.isWriting = d.isWriting
        /\ c.needsClear = d.needsClear /\ SameLink(d, c) /\ c.asked = d.asked /\ c.state = d.state
    BY SoundParts DEF Shaped, SameLink
  <2>. HIDE DEF c
  <2>3. Queued(c, coming)
    BY <2>2, ClearedIsQueued DEF Right
  <2>4. ~(d.async.isActive /\ d.asked \in Answered)
    <3>1. d.async.isActive /\ d.asked \in Answered => d.state \in ServedIn(d.asked)
      BY DEF Right, Commanded, Served
    <3>2. d.asked \in Answered /\ d.state \in ServedIn(d.asked) =>
            d.state \in {"CALL_ESTABLISHED", "PPP_ACTIVE"}
      BY DEF ServedIn, Answered
    <3>. QED
      BY <1>2, <3>1, <3>2 DEF isSessionActive, InSession
  <2>. QED
    BY <2>1, <2>2, <2>3, <2>4, SameIsRight
<1>3. CASE ~(d.isWriting \/ d.requests = <<>>) /\ isSessionActive(d)
  <2>1. processUserRequests(d) =
            IF e.requests = <<>> THEN e
            ELSE IF request.timeout >= Timeout THEN abort(e, "TIMEOUT")
            ELSE Serve(e, request)
    BY <1>3, Zenon DEF processUserRequests
  <2>2. /\ d.requests \in Seq(Requests) /\ d.requests # <<>> /\ Shaped(d)
        /\ Head(d.requests) = d.requests[1] /\ d.requests[1] \in Requests
    BY <1>3, FirstRequest, SoundParts DEF Right, Queued
  <2>3. /\ Right(e, a, writing, coming) /\ Sound(e) /\ e.state = d.state
        /\ e.requests \in Seq(Requests)
        /\ e.requests # <<>> => ~e.requests[1].finished
    <3>1. CASE ~Head(d.requests).finished
      BY <2>2, <3>1
    <3>2. CASE Head(d.requests).finished
      <4>1. d.async.isActive => d.asked \notin Answered
        BY <2>2, <3>2 DEF Right, Commanded, Served
      <4>2. Right(t, a, writing, coming)
        BY <2>2, <4>1, DroppedIsRight
      <4>3. Kept(d, t) /\ t.requests = Tail(d.requests) /\ t.results = d.results
        BY <2>2 DEF Kept, SameLink, Shaped
      <4>. HIDE DEF t
      <4>4. Sound(t) /\ t.state = d.state
        BY <4>3, KeptIsSound
      <4>5. \A i \in 1..Len(t.requests) : ~t.requests[i].finished
        BY <2>2, <4>3, DroppedIsQueued DEF Right
      <4>6. t.requests \in Seq(Requests) /\ (t.requests # <<>> => 1 \in 1..Len(t.requests))
        <5>1. t.requests \in Seq(Requests)
          BY <2>2, <4>3, FirstRequest
        <5>. QED
          BY <5>1, FirstRequest
      <4>. QED
        BY <3>2, <4>2, <4>4, <4>5, <4>6
    <3>. QED
      BY <3>1, <3>2
  <2>. HIDE DEF e
  <2>4. Right(abort(e, "TIMEOUT"), a, writing, coming)
    BY <2>3, StoppedIsRight, SoundParts
  <2>5. e.requests # <<>> => Right(Serve(e, request), a, writing, coming)
    <3>. SUFFICES ASSUME e.requests # <<>> PROVE Right(Serve(e, request), a, writing, coming)
      OBVIOUS
    <3>1. Head(e.requests) = e.requests[1] /\ e.requests[1] \in Requests
      BY <2>3, FirstRequest
    <3>2. /\ request.type = e.requests[1].type /\ request.slot = e.requests[1].slot
          /\ request.asks = e.requests[1].asks
      BY <3>1, RequestParts
    <3>. HIDE DEF request
    <3>3. Facing(e, request)
      BY <1>3, <2>3, <3>1, <3>2 DEF Facing, isSessionActive
    <3>. QED
      BY <2>3, <3>3, ServeIsRight
  <2>. QED
    BY <2>1, <2>3, <2>4, <2>5
<1>. QED
  BY <1>1, <1>2, <1>3

LEMMA PingIsRight ==
  ASSUME NEW d, NEW a, NEW writing, NEW coming, Right(d, a, writing, coming), Sound(d)
  PROVE  Right(Ping(d), a, writing, coming)
<1>. DEFINE e == [d EXCEPT !.pingFrameCount = IF @ < PingFrequency THEN @ + 1 ELSE @]
            f == [e EXCEPT !.pingFrameCount = 0]
<1>1. Kept(d, e) /\ SameQueue(d, e) /\ e.asked = d.asked
  BY SoundParts DEF Kept, SameLink, Shaped, SameQueue
<1>2. Ping(d) = IF e.pingFrameCount >= PingFrequency /\ isSessionActive(e) /\ ~e.async.isActive
                THEN sendCommandAsync(f, "TELEPHONE_STATUS", NoData) ELSE e
  BY DEF Ping
<1>. HIDE DEF e
<1>3. Right(e, a, writing, coming) /\ Sound(e)
  BY <1>1, AsideIsRight, KeptIsSound DEF Kept
<1>4. Kept(e, f) /\ SameQueue(e, f) /\ f.asked = e.asked
  BY <1>3, SoundParts DEF Kept, SameLink, Shaped, SameQueue
<1>. HIDE DEF f
<1>5. Right(f, a, writing, coming) /\ Sound(f) /\ f.state = e.state /\ f.async = e.async
  BY <1>3, <1>4, AsideIsRight, KeptIsSound DEF Kept
<1>6. isSessionActive(e) /\ ~e.async.isActive =>
        Right(sendCommandAsync(f, "TELEPHONE_STATUS", NoData), a, writing, coming)
  <2>. SUFFICES ASSUME isSessionActive(e), ~e.async.isActive
                PROVE  Right(sendCommandAsync(f, "TELEPHONE_STATUS", NoData), a, writing, coming)
    OBVIOUS
  <2>1. f.state \notin {"NEEDS_RESET", "PINGING"} /\ ~f.async.isActive
    BY <1>5, SessionStates
  <2>2. Ready(f)
    BY <1>5, <2>1, MayBegin
  <2>3. "TELEPHONE_STATUS" \in Commands \ Answered
    BY DEF Commands, Answered
  <2>. QED
    BY <1>5, <2>1, <2>2, <2>3, SendIsRight
<1>. QED
  BY <1>2, <1>3, <1>6

LEMMA WaitedIsRight ==
  ASSUME NEW d, NEW a, NEW writing, NEW coming, Right(d, a, writing, coming), Sound(d),
         d.state \in {"WAITING_TO_START", "WAITING_32BIT_SWITCH", "WAITING_8BIT_SWITCH"}
  PROVE  Right(Waited(d), a, writing, coming)
<1>. DEFINE c == [d EXCEPT !.waitFrames = @ - 1]
            e == [d EXCEPT !.waitFrames = 0]
            f == [e EXCEPT !.error = "NONE"]
<1>1. /\ Kept(d, c) /\ Kept(d, e) /\ SameQueue(d, c) /\ SameQueue(d, e)
      /\ c.asked = d.asked /\ e.asked = d.asked /\ ~d.async.isActive
      /\ d.state \notin {"NEEDS_RESET", "PINGING"}
  BY SoundParts DEF Kept, SameLink, Shaped, SameQueue, Sound, Calm
<1>2. /\ Right(c, a, writing, coming) /\ Right(e, a, writing, coming) /\ Sound(e)
      /\ e.state = d.state /\ ~e.async.isActive
  <2>. HIDE DEF c, e
  <2>. QED
    BY <1>1, AsideIsRight, KeptIsSound DEF Kept
<1>3. Ready(e) /\ Shaped(e)
  BY <1>1, <1>2, MayBegin, SoundParts
<1>4. Waited(d) = IF d.waitFrames > 1 THEN c ELSE
         CASE d.state = "WAITING_TO_START" ->
               sendCommandAsync(setState(e, "STARTING_SESSION"), "BEGIN_SESSION", NoData)
          [] d.state = "WAITING_32BIT_SWITCH" ->
               sendCommandAsync(setState(e, "READING_CONFIGURATION"), "READ_CONFIGURATION", <<"1st">>)
          [] d.state = "WAITING_8BIT_SWITCH" -> setState(f, "SHUTDOWN")
  BY DEF Waited
<1>. HIDE DEF c, e
<1>5. /\ f.state = e.state /\ Kept(e, f) /\ SameQueue(e, f) /\ f.asked = e.asked
  BY <1>3 DEF Kept, SameLink, Shaped, SameQueue
<1>. HIDE DEF f
<1>6. Right(f, a, writing, coming) /\ Shaped(f) /\ ~f.async.isActive
  BY <1>2, <1>5, AsideIsRight DEF Kept, SameLink
<1>7. Right(setState(f, "SHUTDOWN"), a, writing, coming)
  BY <1>1, <1>2, <1>5, <1>6, StateIsRight
<1>8. ASSUME NEW s \in {"STARTING_SESSION", "READING_CONFIGURATION"},
             NEW id \in {"BEGIN_SESSION", "READ_CONFIGURATION"}, NEW data
      PROVE  Right(sendCommandAsync(setState(e, s), id, data), a, writing, coming)
  <2>. DEFINE g == setState(e, s)
  <2>1. Ready(g) /\ g.state = s /\ Right(g, a, writing, coming)
    BY <1>1, <1>2, <1>3, ReadyState, StateIsRight
  <2>2. id \in Commands \ Answered
    BY DEF Commands, Answered
  <2>. HIDE DEF g
  <2>3. Right(sendCommandAsync(g, id, data), a, writing, coming)
    BY <2>1, <2>2, SendIsRight
  <2>. QED
    BY <2>3 DEF g
<1>. QED
  BY <1>2, <1>4, <1>7, <1>8

LEMMA FrameIsRight ==
  ASSUME NEW d, NEW a, NEW writing, NEW coming, Right(d, a, writing, coming), Sound(d)
  PROVE  Right(processNewFrame(d), a, writing, coming)
<1>1. d.state = "SESSION_ACTIVE" /\ ~d.async.isActive =>
        Right(sendCommandAsync(d, "WAIT_FOR_TELEPHONE_CALL", NoData), a, writing, coming)
  <2>1. "WAIT_FOR_TELEPHONE_CALL" \in Commands \ Answered
    BY DEF Commands, Answered
  <2>. QED
    BY <2>1, MayBegin, SendIsRight
<1>. QED
  BY <1>1, WaitedIsRight DEF processNewFrame

LEMMA VBlankIsRight ==
  ASSUME Sound(m), VBlank, NEW writing, NEW coming, Right(m, adapter, writing, coming)
  PROVE  Right(m', adapter, writing, coming)
<1>. DEFINE d == counted(m)
<1>1. \/ m' = abort(d, "ADAPTER_NOT_CONNECTED")
      \/ m' = processNewFrame(processUserRequests(Ping(d)))
  BY DEF VBlank
<1>2. Sound(d) /\ Right(d, adapter, writing, coming)
  <2>. DEFINE e == [m EXCEPT !.timeoutStateFrames = @ + 1]
  <2>1. Kept(m, e) /\ SameQueue(m, e) /\ e.asked = m.asked
    BY SoundParts DEF Kept, SameLink, Shaped, SameQueue
  <2>2. d = e \/ d = m
    BY DEF counted
  <2>. HIDE DEF e
  <2>3. Right(e, adapter, writing, coming)
    BY <2>1, AsideIsRight DEF Kept
  <2>. QED
    BY <2>2, <2>3, CountedIsSound
<1>. HIDE DEF d
<1>3. Right(processNewFrame(processUserRequests(Ping(d))), adapter, writing, coming)
  <2>1. Sound(Ping(d)) /\ Right(Ping(d), adapter, writing, coming)
    BY <1>2, PingIsSound, PingIsRight
  <2>2. /\ Sound(processUserRequests(Ping(d)))
        /\ Right(processUserRequests(Ping(d)), adapter, writing, coming)
    BY <2>1, RequestsAreSound, RequestsAreRight
  <2>. QED
    BY <2>2, FrameIsRight
<1>. QED
  BY <1>1, <1>2, <1>3, StoppedIsRight, SoundParts

-----------------------------------------------------------------------------
(* SERIAL: the adapter hears a word, and answers it.                       *)

LEMMA PartsInOrder ==
  ASSUME NEW wide
  PROVE  /\ Parts(wide)[1] = "header" /\ Parts(wide)[2] = "body"
         /\ \A t \in 3..Last(wide) : Parts(wide)[t] \in {"device", "ack"}
         /\ \A t \in 1..Last(wide) : Parts(wide)[t] = "ack" => t = Last(wide)
         /\ Parts(wide)[Last(wide)] = "ack" /\ Last(wide) \in {3, 4}
  BY DEF Parts, Last

LEMMA PartOfWord ==
  ASSUME NEW part \in {"header", "body", "device", "ack"}, NEW id, NEW data
  PROVE  /\ Word(part, id, data)[1] = part
         /\ part \in {"header", "ack"} => Word(part, id, data)[2] = id
         /\ part = "body" => Word(part, id, data)[2] = id /\ Word(part, id, data)[3] = data
         /\ part = "ack" => Word(part, id, data) = <<"ack", id>>
  BY DEF Word

\* What a word does to the adapter, as far as it listens to a command then.
Listens(a, w, wide, b) ==
  b.turn = "listen" /\ b.at > 1 =>
    \/ w[1] = "header" /\ b.at = 2 /\ b.id = w[2]
    \/ /\ a.turn = "listen" /\ wide = a.wide /\ a.at \in 2..(Last(wide) - 1)
       /\ w[1] = Parts(wide)[a.at] /\ b.at = a.at + 1 /\ b.id = a.id
       /\ b.data = IF w[1] = "body" THEN w[3] ELSE a.data

\* ... and as far as it answers one.
Answers(a, w, wide, b) ==
  b.turn = "answer" =>
    /\ b.id = a.id /\ b.data = a.data
    /\ \/ a.turn = "listen" /\ wide = a.wide /\ a.at = Last(wide) /\ b.answer = NoAnswer
       \/ a.turn = "answer" /\ b.answer = a.answer

\* The word it answers with.
Replies(a, wide, b, reply) ==
  /\ reply[1] \in {"header", "body"} => a.turn = "answer" /\ a.answer # NoAnswer
  /\ reply[1] = "header" => reply[2] = a.answer.id
  /\ reply[1] = "body" => reply[3] = a.answer.data
  /\ reply[1] = "waiting" => reply = Waiting
  /\ reply[1] = "ack" =>
       \/ reply = <<"ack", Nobody>>
       \/ a.turn = "listen" /\ a.at = Last(wide) /\ reply = <<"ack", a.id>> /\ b.turn = "answer"

LEMMA AdapterParts ==
  ASSUME NEW a, Kind(a)
  PROVE  /\ DOMAIN a = AdapterFields /\ a.turn \in {"listen", "answer"} /\ a.at \in 1..Last(a.wide)
         /\ a.turn = "listen" => a.answer = NoAnswer
         /\ Last(a.wide) \in {3, 4}
         /\ Parts(a.wide)[a.at] \in {"header", "body", "device", "ack"}
  BY PartsOfAMessage DEF Kind, Adapted

LEMMA FreshIsKind ==
  ASSUME NEW a, DOMAIN a = AdapterFields, a.turn = "listen", a.at = 1, a.answer = NoAnswer
  PROVE  Kind(a)
  BY PartsOfAMessage DEF Kind, Adapted, Truthful

LEMMA FreshParts ==
  /\ DOMAIN Fresh = AdapterFields /\ Fresh.turn = "listen" /\ Fresh.at = 1
  /\ Fresh.answer = NoAnswer
  BY DEF Fresh, AdapterFields

LEMMA HeardParts ==
  ASSUME NEW a, Kind(a), a.mode = "awake", NEW w, w[1] = Expected(a), NEW b, b = Heard(a, w)
  PROVE  /\ Kind(b) /\ Listens(a, w, a.wide, b) /\ Answers(a, w, a.wide, b)
         /\ a.turn = "listen" /\ a.at = Last(a.wide) => b.turn = "answer"
<1>1. /\ DOMAIN a = AdapterFields /\ a.turn \in {"listen", "answer"} /\ a.at \in 1..Last(a.wide)
      /\ a.turn = "listen" => a.answer = NoAnswer
      /\ Last(a.wide) \in {3, 4}
      /\ Parts(a.wide)[a.at] \in {"header", "body", "device", "ack"}
  BY AdapterParts
<1>2. /\ a.turn = "listen" => w[1] = Parts(a.wide)[a.at]
      /\ a.turn = "answer" => w[1] \notin {"header", "body"}
  BY <1>1 DEF Expected
<1>. DEFINE c == CASE w[1] = "header" -> [a EXCEPT !.id = w[2]]
                   [] w[1] = "body"   -> [a EXCEPT !.data = w[3]]
                   [] OTHER -> a
<1>3. /\ DOMAIN c = AdapterFields /\ c.turn = a.turn /\ c.at = a.at /\ c.wide = a.wide
      /\ c.answer = a.answer /\ c.mode = a.mode
      /\ c.id = IF w[1] = "header" THEN w[2] ELSE a.id
      /\ c.data = IF w[1] = "body" THEN w[3] ELSE a.data
  BY <1>1 DEF AdapterFields
<1>4. CASE a.at < Last(a.wide) /\ ~(a.turn = "answer" /\ a.answer = NoAnswer)
  <2>1. b = [c EXCEPT !.at = @ + 1]
    <3>1. a.at # Last(a.wide)
      BY <1>1, <1>4
    <3>. QED
      BY <1>4, <3>1, Zenon DEF Heard
  <2>. HIDE DEF c
  <2>2. /\ DOMAIN b = AdapterFields /\ b.turn = a.turn /\ b.at = a.at + 1 /\ b.wide = a.wide
        /\ b.answer = a.answer /\ b.mode = a.mode /\ b.id = c.id /\ b.data = c.data
    BY <1>3, <2>1 DEF AdapterFields
  <2>3. Adapted(b)
    BY <1>1, <1>4, <2>2 DEF Kind, Adapted
  <2>4. b.id \in Commands => Truthful(b)
    BY <1>1, <1>2, <1>3, <2>2 DEF Kind, Truthful
  <2>5. Listens(a, w, a.wide, b)
    BY <1>1, <1>2, <1>3, <1>4, <2>2, PartsInOrder DEF Listens
  <2>6. Answers(a, w, a.wide, b)
    BY <1>1, <1>2, <1>3, <2>2 DEF Answers
  <2>. QED
    BY <1>1, <1>4, <2>3, <2>4, <2>5, <2>6 DEF Kind
<1>5. CASE ~(a.at < Last(a.wide) /\ ~(a.turn = "answer" /\ a.answer = NoAnswer))
           /\ a.turn = "listen" /\ a.at = Last(a.wide)
  <2>1. b = [a EXCEPT !.turn = "answer", !.at = 1]
    BY <1>5 DEF Heard
  <2>2. /\ DOMAIN b = AdapterFields /\ b.turn = "answer" /\ b.at = 1 /\ b.wide = a.wide
        /\ b.answer = a.answer /\ b.mode = a.mode /\ b.id = a.id /\ b.data = a.data
    BY <1>1, <2>1 DEF AdapterFields
  <2>3. Kind(b)
    BY <1>1, <2>2 DEF Kind, Adapted, Truthful
  <2>. QED
    BY <1>1, <1>5, <2>2, <2>3 DEF Listens, Answers
<1>6. CASE ~(a.at < Last(a.wide) /\ ~(a.turn = "answer" /\ a.answer = NoAnswer))
           /\ a.turn = "answer" /\ a.at = Last(a.wide)
  <2>1. \E wide : b = [Fresh EXCEPT !.mode = a.mode, !.call = a.call, !.wide = wide]
    BY <1>6 DEF Heard
  <2>2. /\ DOMAIN b = AdapterFields /\ b.turn = "listen" /\ b.at = 1 /\ b.answer = NoAnswer
    BY <2>1, FreshParts DEF AdapterFields
  <2>. QED
    BY <1>6, <2>2, FreshIsKind DEF Listens, Answers
<1>7. CASE ~(a.at < Last(a.wide) /\ ~(a.turn = "answer" /\ a.answer = NoAnswer))
           /\ a.at # Last(a.wide)
  <2>1. b = a /\ a.turn = "answer"
    BY <1>1, <1>7 DEF Heard
  <2>. QED
    BY <2>1 DEF Listens, Answers
<1>. QED
  BY <1>1, <1>4, <1>5, <1>6, <1>7

LEMMA ReplyParts ==
  ASSUME NEW a, Kind(a), NEW b, a.turn = "listen" /\ a.at = Last(a.wide) => b.turn = "answer"
  PROVE  Replies(a, a.wide, b, Reply(a))
<1>. DEFINE part == Parts(a.wide)[a.at]
<1>1. /\ part \in {"header", "body", "device", "ack"}
      /\ a.turn \in {"listen", "answer"} /\ a.at \in 1..Last(a.wide)
  BY AdapterParts
<1>2. part = "ack" => a.at = Last(a.wide)
  BY <1>1, PartsInOrder
<1>. HIDE DEF part
<1>3. \/ a.turn = "listen" /\ part = "ack" /\ Reply(a) = Word("ack", a.id, NoData)
      \/ Reply(a) = Word("device", NoId, NoData)
      \/ Reply(a) = Word("ack", Nobody, NoData)
      \/ a.turn = "answer" /\ a.answer # NoAnswer /\ part # "ack"
         /\ Reply(a) = Word(part, a.answer.id, a.answer.data)
      \/ Reply(a) = Waiting
  BY DEF Reply, part
<1>4. Waiting[1] = "waiting"
  BY DEF Waiting
<1>5. Word("ack", a.id, NoData) = <<"ack", a.id>> /\ Word("ack", Nobody, NoData) = <<"ack", Nobody>>
      /\ Word("device", NoId, NoData)[1] = "device"
  BY DEF Word
<1>6. LET w == Word(part, a.answer.id, a.answer.data)
      IN  /\ w[1] = part /\ (part = "header" => w[2] = a.answer.id)
          /\ (part = "body" => w[3] = a.answer.data)
  BY <1>1, PartOfWord
<1>. QED
  BY <1>1, <1>2, <1>3, <1>4, <1>5, <1>6 DEF Replies

LEMMA ExchangedParts ==
  ASSUME Kind(adapter), NEW w, NEW x \in Exchanged(w)
  PROVE  /\ Kind(x[1]) /\ Listens(adapter, w, m.wide, x[1]) /\ Answers(adapter, w, m.wide, x[1])
         /\ Replies(adapter, m.wide, x[1], x[2]) /\ x[2][1] # "odd size"
<1>. DEFINE a == adapter
<1>1. Garbled[1] = "garbled"
  BY DEF Garbled
<1>2. ASSUME NEW b, DOMAIN b = AdapterFields, b.turn = "listen", b.at = 1, b.answer = NoAnswer,
             x = <<b, Garbled>>
      PROVE  /\ Kind(x[1]) /\ Listens(a, w, m.wide, x[1]) /\ Answers(a, w, m.wide, x[1])
             /\ Replies(a, m.wide, x[1], x[2]) /\ x[2][1] # "odd size"
  <2>1. x[1] = b /\ x[2] = Garbled /\ Kind(b)
    BY <1>2, FreshIsKind
  <2>2. Listens(a, w, m.wide, b) /\ Answers(a, w, m.wide, b) /\ Replies(a, m.wide, b, Garbled)
    BY <1>1, <1>2 DEF Listens, Answers, Replies
  <2>. QED
    BY <1>1, <2>1, <2>2
<1>3. CASE a.mode = "asleep"
  <2>. DEFINE b == [Fresh EXCEPT !.mode = "awake"]
  <2>1. x = <<b, Garbled>>
    BY <1>3 DEF Exchanged
  <2>2. DOMAIN b = AdapterFields /\ b.turn = "listen" /\ b.at = 1 /\ b.answer = NoAnswer
    BY FreshParts DEF AdapterFields
  <2>. HIDE DEF b
  <2>. QED
    BY <1>2, <2>1, <2>2
<1>4. CASE a.mode \in {"lost", "absent"}
  <2>1. x = <<a, Garbled>>
    BY <1>4 DEF Exchanged
  <2>2. DOMAIN a = AdapterFields /\ a.turn = "listen" /\ a.at = 1 /\ a.answer = NoAnswer
    BY <1>4 DEF Kind, Adapted
  <2>. QED
    BY <1>2, <2>1, <2>2
<1>5. CASE a.mode = "awake" /\ m.wide = a.wide /\ w[1] = Expected(a)
  <2>1. x = <<Heard(a, w), Reply(a)>>
    BY <1>5 DEF Exchanged
  <2>2. /\ Kind(Heard(a, w)) /\ Listens(a, w, a.wide, Heard(a, w))
        /\ Answers(a, w, a.wide, Heard(a, w))
        /\ a.turn = "listen" /\ a.at = Last(a.wide) => Heard(a, w).turn = "answer"
    BY <1>5, HeardParts
  <2>3. Replies(a, a.wide, Heard(a, w), Reply(a))
    BY <2>2, ReplyParts
  <2>4. Reply(a)[1] # "odd size"
    <3>1. Parts(a.wide)[a.at] \in {"header", "body", "device", "ack"}
      BY AdapterParts
    <3>2. \A part \in {"header", "body", "device", "ack"} : \A id, data :
             Word(part, id, data)[1] # "odd size"
      BY PartOfWord
    <3>3. Waiting[1] # "odd size"
      BY DEF Waiting
    <3>. QED
      BY <3>1, <3>2, <3>3 DEF Reply
  <2>. QED
    BY <1>5, <2>1, <2>2, <2>3, <2>4
<1>6. CASE ~(a.mode \in {"asleep", "lost", "absent"})
           /\ ~(a.mode = "awake" /\ m.wide = a.wide /\ w[1] = Expected(a))
  <2>. DEFINE again == [Fresh EXCEPT !.mode = "awake", !.call = a.call, !.wide = a.wide]
              lost == [Fresh EXCEPT !.mode = "lost"]
              named == [again EXCEPT !.at = 2, !.id = w[2]]
  <2>1. PICK b \in Surprised(w) : x = <<b, Garbled>>
    BY <1>6 DEF Exchanged
  <2>2. b \in {again, lost} \/ (w[1] = "header" /\ b = named)
    <3>. DEFINE S == CASE m.wide # a.wide -> {}
                       [] m.wide = a.wide /\ w[1] = "header" -> {named}
                       [] OTHER -> {again}
    <3>1. Surprised(w) = {lost} \cup S
      BY Zenon DEF Surprised
    <3>. HIDE DEF named, again, lost
    <3>2. m.wide # a.wide => S = {}
      BY Zenon
    <3>3. m.wide = a.wide /\ w[1] = "header" => S = {named}
      BY Zenon
    <3>4. m.wide = a.wide /\ w[1] # "header" => S = {again}
      BY Zenon
    <3>. HIDE DEF S
    <3>. QED
      BY <2>1, <3>1, <3>2, <3>3, <3>4
  <2>3. /\ DOMAIN again = AdapterFields /\ again.turn = "listen" /\ again.at = 1
        /\ again.answer = NoAnswer /\ again.mode = "awake"
    BY FreshParts DEF AdapterFields
  <2>4. /\ DOMAIN lost = AdapterFields /\ lost.turn = "listen" /\ lost.at = 1
        /\ lost.answer = NoAnswer
    BY FreshParts DEF AdapterFields
  <2>. HIDE DEF again, lost
  <2>5. /\ DOMAIN named = AdapterFields /\ named.turn = "listen" /\ named.at = 2
        /\ named.answer = NoAnswer /\ named.mode = "awake" /\ named.id = w[2]
    BY <2>3 DEF AdapterFields
  <2>. HIDE DEF named
  <2>6. CASE b \in {again, lost}
    BY <1>2, <2>1, <2>3, <2>4, <2>6
  <2>7. CASE w[1] = "header" /\ b = named
    <3>1. Kind(b)
      BY <2>5, <2>7, PartsOfAMessage DEF Kind, Adapted, Truthful
    <3>. QED
      BY <1>1, <2>1, <2>5, <2>7, <3>1 DEF Listens, Answers, Replies
  <2>. QED
    BY <2>2, <2>6, <2>7
<1>. QED
  BY <1>3, <1>4, <1>5, <1>6

-----------------------------------------------------------------------------
(* SERIAL: the driver takes the word, and goes on with its command.        *)

LEMMA WordIsTaken ==
  ASSUME NEW d, WordSent(d), Shaped(d), NEW word, NEW port,
         port = Link!_onSerial(Link!stopTransfer(d.port), "spi", word)
  PROVE  Link!AsyncData(port, "spi") = word
<1>. DEFINE free == Link!stopTransfer(d.port)
<1>1. free.lib = d.port.lib /\ DOMAIN free = DOMAIN d.port
  BY DEF Shaped, Link!stopTransfer
<1>2. port = Link!_onSerial(free, "spi", word)
  OBVIOUS
<1>. HIDE DEF free
<1>3. port = [free EXCEPT !.interrupts = FALSE, !.lib["spi"].asyncState = "READY",
                          !.lib["spi"].asyncData = word]
  BY <1>1, <1>2 DEF WordSent, Open, Link!_onSerial
<1>. DEFINE spi == [free.lib["spi"] EXCEPT !.asyncState = "READY", !.asyncData = word]
            lib == [free.lib EXCEPT !["spi"] = spi]
<1>4. /\ "spi" \in DOMAIN free.lib
      /\ DOMAIN free.lib["spi"] = {"isEnabled", "asyncState", "asyncData"}
      /\ DOMAIN free = {"lib", "mode", "interrupts", "wire"}
  BY <1>1 DEF Shaped, Link!Links
<1>5. spi.asyncState = "READY" /\ spi.asyncData = word
  BY <1>4
<1>6. port = [free EXCEPT !.interrupts = FALSE, !.lib = lib]
  BY <1>3, <1>4
<1>. HIDE DEF spi
<1>7. lib["spi"] = spi
  BY <1>4
<1>. HIDE DEF lib
<1>8. port.lib = lib
  BY <1>4, <1>6
<1>. QED
  BY <1>5, <1>7, <1>8 DEF Link!AsyncData

\* Only the command under way and the link change.
Beside(d, e) ==
  SameQueue(d, e) /\ e.asked = d.asked /\ e.state = d.state /\ e.wide = d.wide

LEMMA BesideIsQueued ==
  ASSUME NEW d, NEW writing, NEW coming, Queued(d, coming), Clearing(d, writing),
         NEW e, Beside(d, e)
  PROVE  Queued(e, coming) /\ Clearing(e, writing)
<1>1. Queued(e, coming)
  BY SameIsQueued DEF Beside, SameQueue
<1>. QED
  BY <1>1 DEF Clearing, Beside, SameQueue

LEMMA DoneParts ==
  ASSUME NEW d, Shaped(d), NEW result, NEW e, e = Done(d, result)
  PROVE  /\ Beside(d, e) /\ Shaped(e) /\ e.port = d.port /\ e.pending = d.pending
         /\ ~e.async.isActive /\ e.async.direction = d.async.direction
         /\ e.async.id = d.async.id /\ e.async.data = d.async.data /\ e.async.result = result
<1>. DEFINE async == [d.async EXCEPT !.isActive = FALSE, !.result = result]
<1>1. e = [d EXCEPT !.async = async]
  BY DEF Done, Shaped
<1>2. /\ DOMAIN async = CommandFields /\ ~async.isActive /\ async.direction = d.async.direction
      /\ async.id = d.async.id /\ async.data = d.async.data /\ async.result = result
  BY DEF Shaped
<1>. HIDE DEF async
<1>3. /\ Beside(d, e) /\ Shaped(e) /\ e.port = d.port /\ e.pending = d.pending
      /\ e.async = async
  BY <1>1, <1>2 DEF Shaped, Beside, SameQueue
<1>. QED
  BY <1>2, <1>3

\* Something of the answer is kept with the command.
Stored(d, e, async) ==
  /\ Beside(d, e) /\ Shaped(e) /\ e.port = d.port /\ e.pending = d.pending
  /\ e.isEnabled = d.isEnabled /\ e.async = async

LEMMA StoredParts ==
  ASSUME NEW d, Shaped(d), NEW v, NEW e
  PROVE  /\ e = [d EXCEPT !.async.id = v] => Stored(d, e, [d.async EXCEPT !.id = v])
         /\ e = [d EXCEPT !.async.data = v] => Stored(d, e, [d.async EXCEPT !.data = v])
<1>1. ASSUME NEW async, DOMAIN async = CommandFields, e = [d EXCEPT !.async = async]
      PROVE  Stored(d, e, async)
  BY <1>1 DEF Shaped, Beside, SameQueue, Stored
<1>2. /\ [d EXCEPT !.async.id = v] = [d EXCEPT !.async = [d.async EXCEPT !.id = v]]
      /\ [d EXCEPT !.async.data = v] = [d EXCEPT !.async = [d.async EXCEPT !.data = v]]
      /\ DOMAIN [d.async EXCEPT !.id = v] = CommandFields
      /\ DOMAIN [d.async EXCEPT !.data = v] = CommandFields
  BY DEF Shaped
<1>. QED
  BY <1>1, <1>2

\* The command goes on with its next word.
Advanced(d, word, e) ==
  /\ Beside(d, e) /\ e.port = d.port /\ e.pending = word
  /\ d.async.isActive => e.async.isActive
  /\ e.async.direction = d.async.direction
  /\ e.async.id = d.async.id /\ e.async.data = d.async.data
  /\ e.async.transferred = d.async.transferred + 1

LEMMA AdvanceParts ==
  ASSUME NEW d, Shaped(d), NEW word, NEW e, e = advance(d, word)
  PROVE  Advanced(d, word, e)
<1>. DEFINE x == [d EXCEPT !.pending = word]
            async == [d.async EXCEPT !.transferred = @ + 1]
<1>1. e = [x EXCEPT !.async = [x.async EXCEPT !.transferred = @ + 1]]
  BY DEF advance, transferAsync, Shaped
<1>2. /\ Shaped(x) /\ x.async = d.async /\ x.port = d.port /\ Beside(d, x) /\ x.pending = word
  BY DEF Shaped, Beside, SameQueue
<1>. HIDE DEF x
<1>3. e = [x EXCEPT !.async = async]
  BY <1>1, <1>2
<1>4. /\ DOMAIN async = CommandFields /\ (d.async.isActive => async.isActive)
      /\ async.direction = d.async.direction /\ async.id = d.async.id
      /\ async.data = d.async.data /\ async.transferred = d.async.transferred + 1
  BY DEF Shaped
<1>. HIDE DEF async
<1>5. e.async = async /\ e.port = x.port /\ e.pending = x.pending /\ Beside(x, e)
  BY <1>2, <1>3 DEF Shaped, Beside, SameQueue
<1>. QED
  BY <1>2, <1>4, <1>5 DEF Advanced, Beside, SameQueue

LEMMA ReceiveParts ==
  ASSUME NEW d, Shaped(d), NEW e, e = receiveCommandAsync(d)
  PROVE  /\ Beside(d, e) /\ e.port = d.port /\ e.pending = Waiting
         /\ e.async.isActive /\ e.async.direction = "RECEIVING" /\ e.async.transferred = 0
         /\ e.async.id = NoId
<1>. DEFINE async == [NoCommand EXCEPT !.isActive = TRUE, !.direction = "RECEIVING"]
            x == [d EXCEPT !.async = async]
<1>1. /\ async.isActive /\ async.direction = "RECEIVING" /\ async.transferred = 0
      /\ async.id = NoId
  BY DEF NoCommand
<1>2. e = [x EXCEPT !.pending = Waiting]
  BY DEF receiveCommandAsync, transferAsync
<1>. HIDE DEF async
<1>3. e.async = async /\ e.port = d.port /\ e.pending = Waiting /\ Beside(d, e)
  BY <1>2 DEF Shaped, Beside, SameQueue
<1>. QED
  BY <1>1, <1>3

\* A word has been taken for the command under way, and the next one is not sent yet.
Midway(d, writing, coming) ==
  /\ Arrived(d) /\ Progressing(d) /\ Queued(d, coming) /\ Clearing(d, writing)
  /\ Commanded(d) /\ Hearing(d)

LEMMA MidwayParts ==
  ASSUME NEW d, NEW writing, NEW coming, Midway(d, writing, coming)
  PROVE  /\ Shaped(d) /\ d.async.isActive /\ d.state \notin Calm
         /\ d.state \notin {"NEEDS_RESET", "PINGING"}
         /\ d.pending = Link!NoWord /\ d.port.wire = Link!NoWord
         /\ d.asked \in Commands /\ Last(d.wide) \in {3, 4}
         /\ Queued(d, coming) /\ Clearing(d, writing)
  BY PartsOfAMessage DEF Midway, Arrived, NothingSent, Commanded, Calm

LEMMA CommandsAreNamed ==
  /\ Nobody \notin Commands /\ ErrorStatus \notin Commands /\ NoId \notin Commands
  /\ "CONNECTION_CLOSED" \notin Commands /\ "RESET" \notin Commands /\ Answered \subseteq Commands
  BY DEF Commands, Answered, Nobody, ErrorStatus, NoId

LEMMA WordsOfAParts ==
  /\ Waiting[1] = "waiting" /\ Garbled[1] = "garbled" /\ Zero[1] = "zero"
  /\ \A id : OddSize(id)[1] = "odd size" /\ OddSize(id)[2] = id
  BY DEF Waiting, Garbled, Zero, OddSize

\* A command that is sent goes on with its next word.
LEMMA AdvancedIsRight ==
  ASSUME NEW d, NEW writing, NEW coming, Midway(d, writing, coming),
         d.async.direction = "SENDING", NEW b, Kind(b),
         b.turn = "listen" /\ b.at > 1 =>
           /\ b.at = d.async.transferred + 1 /\ b.id = d.async.id
           /\ b.at > 2 => b.data = d.async.data,
         NEW word, word = Word(Parts(d.wide)[d.async.transferred + 1], d.async.id, d.async.data),
         NEW e, e = advance(d, word)
  PROVE  Right(e, b, writing, coming) /\ e.async.isActive
<1>1. /\ Shaped(d) /\ d.async.isActive /\ d.state \notin {"NEEDS_RESET", "PINGING"}
      /\ d.port.wire = Link!NoWord /\ Queued(d, coming) /\ Clearing(d, writing)
  BY MidwayParts
<1>2. Advanced(d, word, e)
  BY <1>1, AdvanceParts
<1>3. /\ Beside(d, e) /\ e.port = d.port /\ e.pending = word
      /\ e.async.isActive /\ e.async.direction = d.async.direction
      /\ e.async.id = d.async.id /\ e.async.data = d.async.data
      /\ e.async.transferred = d.async.transferred + 1
  BY <1>1, <1>2 DEF Advanced
<1>4. Queued(e, coming) /\ Clearing(e, writing)
  BY <1>1, <1>3, BesideIsQueued
<1>5. Commanded(e)
  BY <1>3 DEF Midway, Commanded, Served, Beside, SameQueue
<1>6. Hearing(e)
  BY <1>3 DEF Hearing
<1>7. Worded(e)
  BY <1>1, <1>3 DEF Worded, Beside
<1>8. InTune(e, b)
  BY <1>1, <1>3 DEF InTune, Beside
<1>. QED
  BY <1>1, <1>3, <1>4, <1>5, <1>6, <1>7, <1>8 DEF Right

\* A command that the adapter has acknowledged is followed by its answer.
LEMMA ReceiveIsRight ==
  ASSUME NEW d, NEW writing, NEW coming, Midway(d, writing, coming),
         NEW c, Beside(d, c), Shaped(c), c.port = d.port, c.pending = d.pending,
         NEW b, Kind(b), b.turn = "answer", b.id = d.asked,
         d.asked \in Answered => b.data = <<d.asked, d.requests[1].asks>>,
         NEW e, e = receiveCommandAsync(c)
  PROVE  Right(e, b, writing, coming)
<1>1. /\ Shaped(d) /\ d.state \notin {"NEEDS_RESET", "PINGING"}
      /\ d.port.wire = Link!NoWord /\ Queued(d, coming) /\ Clearing(d, writing)
  BY MidwayParts
<1>2. /\ Beside(c, e) /\ e.port = c.port /\ e.pending = Waiting
      /\ e.async.isActive /\ e.async.direction = "RECEIVING" /\ e.async.transferred = 0
      /\ e.async.id = NoId
  BY ReceiveParts
<1>3. Beside(d, e) /\ e.port.wire = Link!NoWord
  BY <1>1, <1>2 DEF Beside, SameQueue
<1>4. Queued(e, coming) /\ Clearing(e, writing)
  BY <1>1, <1>3, BesideIsQueued
<1>5. Commanded(e)
  BY <1>2, <1>3 DEF Midway, Commanded, Served, Beside, SameQueue
<1>6. Hearing(e)
  <2>1. NoId \notin Answered /\ NoId # "CONNECTION_CLOSED"
    BY DEF NoId, Answered
  <2>. QED
    BY <1>2, <2>1 DEF Hearing, Named
<1>7. Worded(e)
  BY <1>1, <1>2, <1>3, WordsOfAParts DEF Worded, Beside
<1>8. InTune(e, b)
  BY <1>1, <1>2, <1>3 DEF InTune, Beside, SameQueue
<1>. QED
  BY <1>2, <1>4, <1>5, <1>6, <1>7, <1>8 DEF Right

\* What is known of the adapter while a command is sent, after a word of it.
LEMMA SentIsHeard ==
  ASSUME NEW writing, NEW coming, Right(m, adapter, writing, coming),
         m.async.isActive, m.async.direction = "SENDING", m.state \notin {"NEEDS_RESET", "PINGING"},
         m.async.transferred \in 1..Last(m.wide), NEW w, w = m.port.wire, w # Link!NoWord,
         NEW b, Listens(adapter, w, m.wide, b), Answers(adapter, w, m.wide, b), NEW y,
         Replies(adapter, m.wide, b, y)
  PROVE  /\ b.turn = "listen" /\ b.at > 1 =>
              /\ b.at = m.async.transferred + 1 /\ b.id = m.async.id
              /\ b.at > 2 => b.data = m.async.data
         /\ y[1] = "ack" /\ y # <<"ack", Nobody>> =>
              /\ b.turn = "answer" /\ b.id = m.async.id /\ b.data = m.async.data
<1>. DEFINE t == m.async.transferred
            part == Parts(m.wide)[t]
<1>1. /\ Worded(m) /\ InTune(m, adapter)
  BY DEF Right
<1>2. part \in {"header", "body", "device", "ack"}
  BY PartsOfAMessage
<1>3. w = Word(part, m.async.id, m.async.data)
  BY <1>1 DEF Worded
<1>4. /\ w[1] = part /\ (part = "header" => w[2] = m.async.id)
      /\ (part = "body" => w[3] = m.async.data)
  BY <1>2, <1>3, PartOfWord
<1>5. part = "header" => t = 1
  BY PartsInOrder
<1>6. adapter.turn = "listen" /\ adapter.at > 1 =>
        /\ t = adapter.at /\ adapter.id = m.async.id
        /\ adapter.at > 2 => adapter.data = m.async.data
  BY <1>1 DEF InTune
<1>. HIDE DEF part
<1>7. ASSUME b.turn = "listen", b.at > 1
      PROVE  /\ b.at = t + 1 /\ b.id = m.async.id
             /\ b.at > 2 => b.data = m.async.data
  <2>1. CASE w[1] = "header" /\ b.at = 2 /\ b.id = w[2]
    BY <1>4, <1>5, <2>1
  <2>2. CASE /\ adapter.turn = "listen" /\ adapter.at \in 2..(Last(m.wide) - 1)
             /\ w[1] = Parts(m.wide)[adapter.at] /\ b.at = adapter.at + 1 /\ b.id = adapter.id
             /\ b.data = IF w[1] = "body" THEN w[3] ELSE adapter.data
    <3>1. Last(m.wide) \in {3, 4}
      BY PartsOfAMessage
    <3>2. adapter.at > 1 /\ (adapter.at = 2 \/ adapter.at > 2)
      BY <2>2, <3>1
    <3>3. t = adapter.at /\ adapter.id = m.async.id
      BY <1>6, <2>2, <3>2
    <3>4. adapter.at = 2 => w[1] = "body"
      BY <2>2, PartsInOrder
    <3>5. b.data = m.async.data
      BY <1>4, <1>6, <2>2, <3>2, <3>4
    <3>. QED
      BY <2>2, <3>3, <3>5
  <2>. QED
    BY <1>7, <2>1, <2>2 DEF Listens
<1>8. ASSUME y[1] = "ack", y # <<"ack", Nobody>>
      PROVE  b.turn = "answer" /\ b.id = m.async.id /\ b.data = m.async.data
  <2>1. adapter.turn = "listen" /\ adapter.at = Last(m.wide) /\ b.turn = "answer"
    BY <1>8 DEF Replies
  <2>2. adapter.at > 1 /\ adapter.at > 2
    BY <2>1, PartsOfAMessage
  <2>3. adapter.id = m.async.id /\ adapter.data = m.async.data
    BY <1>6, <2>1, <2>2
  <2>. QED
    BY <2>1, <2>3 DEF Answers
<1>. QED
  BY <1>7, <1>8

\* A command while it is sent: it goes on, is answered, or is given up with the session.
LEMMA SendingIsRight ==
  ASSUME NEW d, NEW writing, NEW coming, Midway(d, writing, coming),
         d.async.direction = "SENDING", NEW b, Kind(b), NEW y,
         b.turn = "listen" /\ b.at > 1 =>
           /\ b.at = d.async.transferred + 1 /\ b.id = d.async.id
           /\ b.at > 2 => b.data = d.async.data,
         y[1] = "ack" /\ y # <<"ack", Nobody>> =>
           /\ b.turn = "answer" /\ b.id = d.async.id /\ b.data = d.async.data,
         NEW e, e = sendAsyncCommand(d, y)
  PROVE  Right(IF e.async.isActive THEN e ELSE processAsyncCommand(e), b, writing, coming)
<1>. DEFINE t == d.async.transferred
            next == Word(Parts(d.wide)[t + 1], d.async.id, d.async.data)
<1>1. /\ Shaped(d) /\ d.state \notin {"NEEDS_RESET", "PINGING"} /\ d.async.isActive
      /\ Queued(d, coming) /\ Clearing(d, writing) /\ d.asked \in Commands
      /\ t \in 1..Last(d.wide) /\ d.async.id = d.asked
      /\ d.asked \in Answered => d.async.data = <<d.asked, d.requests[1].asks>>
  BY MidwayParts DEF Midway, Progressing, Commanded
<1>2. ASSUME NEW result, result # "SUCCESS", e = Done(d, result)
      PROVE  Right(IF e.async.isActive THEN e ELSE processAsyncCommand(e), b, writing, coming)
  <2>1. /\ Beside(d, e) /\ Shaped(e) /\ ~e.async.isActive
        /\ e.async.direction = "SENDING" /\ e.async.result # "SUCCESS"
    BY <1>1, <1>2, DoneParts
  <2>2. processAsyncCommand(e) = abort(e, "COMMAND_FAILED")
    BY <2>1 DEF processAsyncCommand, shouldAbortOnCommandFailure
  <2>3. Queued(e, coming) /\ Clearing(e, writing)
    BY <1>1, <2>1, BesideIsQueued
  <2>4. Right(abort(e, "COMMAND_FAILED"), b, writing, coming)
    BY <2>1, <2>3, StoppedAnyway
  <2>. QED
    BY <2>1, <2>2, <2>4
<1>. HIDE DEF t
<1>6. t = Last(d.wide) => ~(t < Last(d.wide))
  BY <1>1, PartsOfAMessage
<1>3. CASE t = Last(d.wide) /\ y = Word("ack", d.async.id, NoData)
  <2>1. y = <<"ack", d.async.id>> /\ d.async.id # Nobody /\ d.async.id # ErrorStatus
    BY <1>1, <1>3, CommandsAreNamed DEF Word
  <2>2. b.turn = "answer" /\ b.id = d.async.id /\ b.data = d.async.data
    BY <2>1
  <2>3. e = Done(d, "SUCCESS")
    BY <1>3, <1>6, <2>1 DEF sendAsyncCommand, finish, t
  <2>4. /\ Beside(d, e) /\ Shaped(e) /\ ~e.async.isActive /\ e.port = d.port
        /\ e.pending = d.pending
        /\ e.async.direction = "SENDING" /\ e.async.result = "SUCCESS"
    BY <1>1, <2>3, DoneParts
  <2>5. processAsyncCommand(e) = receiveCommandAsync(e)
    BY <2>4 DEF processAsyncCommand
  <2>6. Right(receiveCommandAsync(e), b, writing, coming)
    BY <1>1, <2>2, <2>4, ReceiveIsRight
  <2>. QED
    BY <2>4, <2>5, <2>6
<1>4. CASE t = Last(d.wide) /\ y # Word("ack", d.async.id, NoData)
  <2>1. e = Done(d, "INVALID_COMMAND_ACK")
    BY <1>4, <1>6 DEF sendAsyncCommand, t
  <2>. QED
    BY <1>2, <2>1
<1>5. CASE t # Last(d.wide)
  <2>1. t < Last(d.wide)
    BY <1>1, <1>5, PartsOfAMessage
  <2>2. e = Done(d, "INVALID_DEVICE_ID") \/ e = advance(d, next)
    BY <1>5, <2>1 DEF sendAsyncCommand, t
  <2>3. ASSUME e = advance(d, next)
        PROVE  Right(IF e.async.isActive THEN e ELSE processAsyncCommand(e), b, writing, coming)
    BY <2>3, AdvancedIsRight DEF t
  <2>. QED
    BY <1>2, <2>2, <2>3
<1>. QED
  BY <1>3, <1>4, <1>5

\* What an answer's header and body may say.
Says(d, id) ==
  /\ id \in Answered => id = d.asked
  /\ id = "CONNECTION_CLOSED" => d.asked = "TRANSFER"

Tells(d, id, data) ==
  /\ id \in Answered => data \in {Odd, <<d.asked, d.requests[1].asks>>}
  /\ id = ErrorStatus => data \in {Odd, <<d.asked>>}

\* The adapter while its answer is received, and once its header is.
Attends(d, b) ==
  /\ b.turn = "listen" => b.at = 1
  /\ b.turn = "answer" =>
       b.id = d.asked /\ (d.asked \in Answered => b.data = <<d.asked, d.requests[1].asks>>)

Speaks(b, id) == b.turn = "answer" => b.answer # NoAnswer /\ b.answer.id = id

Reported(d, b, y) ==
  /\ y[1] = "waiting" => y = Waiting
  /\ y[1] \in {"header", "odd size"} => Says(d, y[2])
  /\ y[1] = "header" => Speaks(b, y[2])
  /\ y[1] = "body" /\ d.async.transferred > 0 => Tells(d, d.async.id, y[3])

\* The words that the driver may get when the adapter answers with another.
Garbles(y, reply) ==
  \/ y = reply /\ y[1] # "odd size"
  \/ y = Garbled
  \/ reply[1] = "header" /\ y = OddSize(reply[2])

LEMMA AnswerIsHeard ==
  ASSUME NEW writing, NEW coming, Right(m, adapter, writing, coming),
         m.async.isActive, m.async.direction = "RECEIVING", m.state \notin {"NEEDS_RESET", "PINGING"},
         NEW w, w = m.port.wire, w # Link!NoWord,
         NEW b, Kind(b), Listens(adapter, w, m.wide, b), Answers(adapter, w, m.wide, b),
         NEW reply, Replies(adapter, m.wide, b, reply), NEW y, Garbles(y, reply)
  PROVE  /\ Attends(m, b) /\ (m.async.transferred > 0 => Speaks(b, m.async.id)) /\ Reported(m, b, y)
         /\ y[1] = "ack" => y = reply
<1>. DEFINE a == adapter
            asks == m.requests[1].asks
<1>1. /\ Worded(m) /\ InTune(m, a) /\ Kind(a) /\ m.asked \in Commands
  BY DEF Right, InTune, Commanded
<1>2. w[1] \in {"waiting", "device", "ack"}
  BY <1>1 DEF Worded
<1>3. a.turn = "listen" => ~(a.at > 1)
  BY <1>1 DEF InTune
<1>4. a.turn = "answer" =>
        /\ a.id = m.asked /\ (m.asked \in Answered => a.data = <<m.asked, asks>>)
        /\ m.async.transferred > 0 => a.answer # NoAnswer /\ a.answer.id = m.async.id
  BY <1>1 DEF InTune
<1>5. b.turn = "answer" =>
        a.turn = "answer" /\ b.id = a.id /\ b.data = a.data /\ b.answer = a.answer
  <2>1. a.at = Last(m.wide) => a.at > 1
    BY PartsOfAMessage
  <2>. QED
    BY <1>3, <2>1 DEF Answers
<1>6. b.turn = "listen" => b.at = 1
  <2>1. a.at \in 2..(Last(m.wide) - 1) => a.at > 1
    BY PartsOfAMessage
  <2>2. b.turn = "listen" => ~(b.at > 1)
    BY <1>2, <1>3, <2>1 DEF Listens
  <2>3. b.at \in 1..Last(b.wide) /\ Last(b.wide) \in {3, 4}
    BY AdapterParts
  <2>. QED
    BY <2>2, <2>3
<1>7. Attends(m, b) /\ (m.async.transferred > 0 => Speaks(b, m.async.id))
  BY <1>4, <1>5, <1>6 DEF Attends, Speaks
<1>8. /\ y[1] \in {"header", "odd size"} => reply[1] = "header" /\ y[2] = reply[2]
      /\ y[1] \in {"body", "waiting", "ack"} => y = reply
  BY WordsOfAParts DEF Garbles
<1>9. y[1] = "waiting" => y = Waiting
  BY <1>8 DEF Replies
<1>10. a.turn = "answer" /\ a.answer # NoAnswer =>
         /\ a.answer.id \in {m.asked, ErrorStatus, "CONNECTION_CLOSED", "RESET"}
         /\ a.answer.id = "CONNECTION_CLOSED" => m.asked = "TRANSFER"
         /\ a.answer.id = ErrorStatus => a.answer.data \in {Odd, <<m.asked>>}
         /\ a.answer.id = m.asked /\ m.asked \in Answered =>
               a.answer.data \in {Odd, <<m.asked, asks>>}
  BY <1>1, <1>4 DEF Kind, Truthful
<1>11. ErrorStatus \notin Answered /\ "CONNECTION_CLOSED" \notin Answered /\ "RESET" \notin Answered
  BY DEF Answered, ErrorStatus
<1>. HIDE DEF asks
<1>12. y[1] \in {"header", "odd size"} =>
         a.turn = "answer" /\ a.answer # NoAnswer /\ y[2] = a.answer.id
  BY <1>8 DEF Replies
<1>13. y[1] \in {"header", "odd size"} => Says(m, y[2])
  BY <1>10, <1>11, <1>12 DEF Says
<1>14. y[1] = "header" => Speaks(b, y[2])
  BY <1>5, <1>12 DEF Speaks
<1>15. y[1] = "body" /\ m.async.transferred > 0 => Tells(m, m.async.id, y[3])
  <2>1. y[1] = "body" => a.turn = "answer" /\ a.answer # NoAnswer /\ y[3] = a.answer.data
    BY <1>8 DEF Replies
  <2>. QED
    BY <1>4, <1>10, <1>11, <2>1 DEF Tells, asks
<1>. QED
  BY <1>7, <1>8, <1>9, <1>13, <1>14, <1>15 DEF Reported

\* The command has ended, with what its answer said.
Ended(d) ==
  /\ d.async.direction = "RECEIVING" /\ Commanded(d) /\ Says(d, d.async.id)
  /\ d.async.result = "SUCCESS" => Tells(d, d.async.id, d.async.data)

LEMMA EndedByWord ==
  ASSUME NEW d, NEW writing, NEW coming, Midway(d, writing, coming), d.async.direction = "RECEIVING",
         NEW b, Kind(b), b.turn = "listen" => b.at = 1,
         NEW c, Beside(d, c), Shaped(c), c.port = d.port, c.pending = d.pending,
         c.isEnabled = d.isEnabled, c.async.direction = "RECEIVING", Says(d, c.async.id),
         NEW result, result = "SUCCESS" => Tells(d, c.async.id, c.async.data),
         NEW e, e = Done(c, result)
  PROVE  Right(e, b, writing, coming) /\ Ended(e) /\ Ready(e) /\ e.state \notin Calm
<1>1. /\ Shaped(d) /\ d.state \notin {"NEEDS_RESET", "PINGING"} /\ d.state \notin Calm
      /\ d.pending = Link!NoWord /\ d.port.wire = Link!NoWord
      /\ Queued(d, coming) /\ Clearing(d, writing)
  BY MidwayParts
<1>2. /\ Beside(c, e) /\ Shaped(e) /\ e.port = c.port /\ e.pending = c.pending
      /\ ~e.async.isActive /\ e.async.direction = c.async.direction
      /\ e.async.id = c.async.id /\ e.async.data = c.async.data /\ e.async.result = result
  BY DoneParts
<1>3. Beside(d, e) /\ e.port = d.port /\ e.pending = d.pending
  BY <1>2 DEF Beside, SameQueue
<1>4. Queued(e, coming) /\ Clearing(e, writing)
  BY <1>1, <1>3, BesideIsQueued
<1>5. Ready(e)
  <2>1. Shaped(c) /\ NothingSent(c) /\ Open(c)
    BY DEF Midway, Arrived, NothingSent, Open
  <2>. QED
    BY <2>1, DoneIsReady
<1>6. Commanded(e)
  BY <1>2, <1>3 DEF Midway, Commanded, Served, Beside, SameQueue
<1>7. Ended(e)
  BY <1>2, <1>3, <1>6 DEF Ended, Says, Tells, Beside, SameQueue
<1>8. Worded(e)
  BY <1>1, <1>3 DEF Worded
<1>9. InTune(e, b)
  BY <1>2 DEF InTune
<1>. QED
  BY <1>1, <1>2, <1>3, <1>4, <1>5, <1>7, <1>8, <1>9 DEF Right, Beside

\* The answer goes on, and the driver sends a word that says nothing.
LEMMA HeardIsRight ==
  ASSUME NEW d, NEW writing, NEW coming, Midway(d, writing, coming), d.async.direction = "RECEIVING",
         NEW e, Beside(d, e), e.port = d.port, e.async.isActive, e.async.direction = "RECEIVING",
         NEW b, Kind(b), Attends(d, b), e.async.transferred > 0 => Speaks(b, e.async.id),
         Says(d, e.async.id), e.async.transferred > 1 => Tells(d, e.async.id, e.async.data),
         e.pending[1] \in {"waiting", "device", "ack"}
  PROVE  Right(e, b, writing, coming)
<1>1. /\ Shaped(d) /\ d.state \notin {"NEEDS_RESET", "PINGING"} /\ d.port.wire = Link!NoWord
      /\ Queued(d, coming) /\ Clearing(d, writing)
  BY MidwayParts
<1>2. Queued(e, coming) /\ Clearing(e, writing)
  BY <1>1, BesideIsQueued
<1>3. Commanded(e)
  BY DEF Midway, Commanded, Served, Beside, SameQueue
<1>4. Hearing(e)
  BY DEF Hearing, Named, Told, Says, Tells, Beside, SameQueue
<1>5. Worded(e)
  BY <1>1 DEF Worded, Beside
<1>6. InTune(e, b)
  BY <1>1 DEF InTune, Attends, Speaks, Beside, SameQueue
<1>. QED
  BY <1>2, <1>3, <1>4, <1>5, <1>6 DEF Right

\* The command goes on, or has ended.
WentOn(e, b, writing, coming) ==
  /\ Right(e, b, writing, coming)
  /\ ~e.async.isActive => Ended(e) /\ Ready(e) /\ e.state \notin Calm

LEMMA FinishWentOn ==
  ASSUME NEW d, NEW writing, NEW coming, Midway(d, writing, coming), d.async.direction = "RECEIVING",
         Says(d, d.async.id), Tells(d, d.async.id, d.async.data),
         NEW b, Kind(b), b.turn = "listen" => b.at = 1
  PROVE  WentOn(finish(d), b, writing, coming)
<1>1. /\ Shaped(d) /\ d.asked \in Commands
  BY MidwayParts
<1>2. Beside(d, d)
  BY DEF Beside, SameQueue
<1>3. ASSUME NEW result, result = "SUCCESS" \/ result = "WEIRD_ERROR_CODE"
      PROVE  WentOn(Done(d, result), b, writing, coming)
  BY <1>1, <1>2, EndedByWord DEF WentOn
<1>4. CASE d.async.id # ErrorStatus
  BY <1>3, <1>4 DEF finish
<1>5. CASE d.async.id = ErrorStatus /\ d.async.data = Odd
  BY <1>3, <1>5 DEF finish
<1>6. CASE d.async.id = ErrorStatus /\ d.async.data # Odd
  <2>. DEFINE v == d.async.data[1]
              c == [d EXCEPT !.async.id = v]
  <2>1. finish(d) = Done(c, "ERROR_CODE")
    BY <1>6 DEF finish
  <2>2. v = d.asked
    BY <1>6 DEF Tells
  <2>. HIDE DEF v
  <2>3. Stored(d, c, [d.async EXCEPT !.id = v])
    BY <1>1, StoredParts
  <2>. HIDE DEF c
  <2>4. /\ Beside(d, c) /\ Shaped(c) /\ c.port = d.port /\ c.pending = d.pending
        /\ c.isEnabled = d.isEnabled /\ c.async = [d.async EXCEPT !.id = v]
    BY <2>3 DEF Stored
  <2>5. c.async.id = v /\ c.async.direction = "RECEIVING"
    BY <1>1, <2>4 DEF Shaped
  <2>6. Says(d, c.async.id)
    BY <1>1, <2>2, <2>5, CommandsAreNamed DEF Says
  <2>. DEFINE e == Done(c, "ERROR_CODE")
  <2>7. Right(e, b, writing, coming) /\ Ended(e) /\ Ready(e) /\ e.state \notin Calm
    BY <2>4, <2>5, <2>6, EndedByWord
  <2>. QED
    BY <2>1, <2>7 DEF WentOn
<1>. QED
  BY <1>4, <1>5, <1>6

\* A part of the answer that is wrong ends it; its name is kept, or was just heard.
LEMMA WrongWentOn ==
  ASSUME NEW d, NEW writing, NEW coming, Midway(d, writing, coming), d.async.direction = "RECEIVING",
         NEW b, Kind(b), b.turn = "listen" => b.at = 1,
         NEW c, Beside(d, c), Shaped(c), c.port = d.port, c.pending = d.pending,
         c.isEnabled = d.isEnabled, c.async.direction = "RECEIVING", Says(d, c.async.id),
         NEW result, result # "SUCCESS"
  PROVE  WentOn(Done(c, result), b, writing, coming)
<1>. DEFINE e == Done(c, result)
<1>1. Right(e, b, writing, coming) /\ Ended(e) /\ Ready(e) /\ e.state \notin Calm
  <2>. HIDE DEF e
  <2>1. e = Done(c, result)
    BY DEF e
  <2>. QED
    BY <2>1, EndedByWord
<1>. QED
  BY <1>1 DEF WentOn

LEMMA AdvancedWentOn ==
  ASSUME NEW d, NEW writing, NEW coming, Midway(d, writing, coming), d.async.direction = "RECEIVING",
         NEW c, Beside(d, c), Shaped(c), c.port = d.port,
         c.async.isActive, c.async.direction = "RECEIVING",
         c.async.transferred = d.async.transferred, Says(d, c.async.id),
         d.async.transferred > 0 => Tells(d, c.async.id, c.async.data),
         NEW b, Kind(b), Attends(d, b), Speaks(b, c.async.id),
         NEW w, w[1] \in {"waiting", "device", "ack"}
  PROVE  WentOn(advance(c, w), b, writing, coming)
<1>. DEFINE e == advance(c, w)
<1>1. Advanced(c, w, e)
  BY AdvanceParts
<1>. HIDE DEF e
<1>2. /\ Beside(d, e) /\ e.port = d.port /\ e.pending = w
      /\ e.async.isActive /\ e.async.direction = "RECEIVING"
      /\ e.async.id = c.async.id /\ e.async.data = c.async.data
      /\ e.async.transferred = d.async.transferred + 1
  BY <1>1 DEF Advanced, Beside, SameQueue
<1>3. d.async.transferred \in Nat
  BY MidwayParts DEF Midway, Progressing
<1>4. Speaks(b, e.async.id)
  BY <1>2
<1>5. e.async.transferred > 1 => Tells(d, e.async.id, e.async.data)
  BY <1>2, <1>3
<1>6. Says(d, e.async.id)
  BY <1>2
<1>7. Right(e, b, writing, coming)
  BY <1>2, <1>4, <1>5, <1>6, HeardIsRight
<1>. QED
  BY <1>2, <1>7 DEF WentOn, e

LEMMA ReceivingWentOn ==
  ASSUME NEW d, NEW writing, NEW coming, Midway(d, writing, coming), d.async.direction = "RECEIVING",
         NEW b, Kind(b), Attends(d, b), d.async.transferred > 0 => Speaks(b, d.async.id),
         NEW y, Reported(d, b, y)
  PROVE  WentOn(receiveAsyncCommand(d, y), b, writing, coming)
<1>. DEFINE t == d.async.transferred
            part == Parts(d.wide)[t + 1]
            named == [d EXCEPT !.async.id = y[2]]
            told == [d EXCEPT !.async.data = y[3]]
            stored == CASE part = "header" -> named
                        [] part = "body"   -> told
                        [] OTHER           -> d
            acked == Word(Parts(d.wide)[t + 2], d.async.id, NoData)
            e == receiveAsyncCommand(d, y)
<1>1. /\ Shaped(d) /\ Last(d.wide) \in {3, 4} /\ t \in 0..(Last(d.wide) - 1)
      /\ d.async.isActive
  BY MidwayParts DEF Midway, Progressing
<1>2. /\ part \in {"header", "body", "device", "ack"}
      /\ part = "header" => t = 0
      /\ part = "body" => t = 1
      /\ part \in {"device", "ack"} => t > 1
      /\ part # "ack" => t + 1 < Last(d.wide)
      /\ part # "header" => t > 0
  BY <1>1, PartsInOrder
<1>3. part \in {"body", "device"} => acked[1] \in {"waiting", "device", "ack"}
  <2>1. part \in {"body", "device"} => t + 2 \in 3..Last(d.wide)
    BY <1>1, <1>2
  <2>2. part \in {"body", "device"} => Parts(d.wide)[t + 2] \in {"device", "ack"}
    BY <2>1, PartsInOrder
  <2>. QED
    BY <2>2, PartOfWord
<1>4. /\ Says(d, d.async.id) /\ (t > 1 => Tells(d, d.async.id, d.async.data))
  BY DEF Midway, Hearing, Named, Told, Says, Tells
<1>5. b.turn = "listen" => b.at = 1
  BY DEF Attends
<1>6. Beside(d, d)
  BY DEF Beside, SameQueue
<1>7. Stored(d, named, [d.async EXCEPT !.id = y[2]])
  BY <1>1, StoredParts
<1>8. Stored(d, told, [d.async EXCEPT !.data = y[3]])
  BY <1>1, StoredParts
<1>9. /\ named.async.id = y[2] /\ named.async.direction = "RECEIVING"
      /\ named.async.transferred = t /\ named.async.isActive
      /\ told.async.id = d.async.id /\ told.async.direction = "RECEIVING"
      /\ told.async.data = y[3] /\ told.async.transferred = t /\ told.async.isActive
  <2>. HIDE DEF named, told
  <2>. QED
    BY <1>1, <1>7, <1>8 DEF Shaped, Stored
<1>9a. /\ Beside(d, named) /\ Shaped(named) /\ named.port = d.port
       /\ Beside(d, told) /\ Shaped(told) /\ told.port = d.port
  BY <1>7, <1>8, Zenon DEF Stored
<1>10. ASSUME NEW result, result # "SUCCESS", e = Done(d, result)
       PROVE  WentOn(e, b, writing, coming)
  BY <1>1, <1>4, <1>5, <1>6, <1>10, WrongWentOn
<1>. HIDE DEF named, told
<1>11. /\ part = "header" => stored = named
       /\ part = "body" => stored = told
       /\ part = "device" => stored = d
  BY Zenon
<1>. HIDE DEF stored, acked, part, t
<1>12. CASE part = "header"
  <2>1. CASE y = Waiting
    <3>. DEFINE x == transferAsync(d, Waiting)
    <3>1. e = x
      BY <1>12, <2>1, WordsOfAParts DEF receiveAsyncCommand, part, t
    <3>2. Beside(d, x) /\ x.port = d.port /\ x.async = d.async /\ x.pending = Waiting
      BY <1>1 DEF transferAsync, Shaped, Beside, SameQueue
    <3>. HIDE DEF x
    <3>3. Right(x, b, writing, coming)
      BY <1>1, <1>2, <1>4, <1>12, <3>2, WordsOfAParts, HeardIsRight DEF t
    <3>. QED
      BY <1>1, <3>1, <3>2, <3>3 DEF WentOn
  <2>2. CASE y # Waiting /\ y[1] = "odd size"
    <3>1. e = Done(stored, "WEIRD_DATA_SIZE")
      BY <1>12, <2>2 DEF receiveAsyncCommand, part, t, stored, named, told
    <3>2. Says(d, named.async.id)
      BY <1>9, <2>2 DEF Reported
    <3>3. WentOn(Done(named, "WEIRD_DATA_SIZE"), b, writing, coming)
      BY <1>5, <1>7, <1>9, <3>2, WrongWentOn DEF Stored
    <3>. QED
      BY <1>11, <1>12, <3>1, <3>3
  <2>3. CASE y # Waiting /\ y[1] \notin {"waiting", "header", "odd size"}
    <3>1. e = Done(d, "INVALID_MAGIC_BYTES")
      BY <1>12, <2>3 DEF receiveAsyncCommand, part, t
    <3>. QED
      BY <1>10, <3>1
  <2>4. CASE y # Waiting /\ y[1] = "header"
    <3>1. e = advance(stored, Waiting)
      BY <1>12, <2>4 DEF receiveAsyncCommand, part, t, stored, named, told
    <3>2. Says(d, named.async.id) /\ Speaks(b, named.async.id)
      BY <1>9, <2>4 DEF Reported
    <3>3. ~(d.async.transferred > 0)
      BY <1>2, <1>12 DEF t
    <3>4. WentOn(advance(named, Waiting), b, writing, coming)
      <4>1. named.async.transferred = d.async.transferred
        BY <1>9 DEF t
      <4>2. d.async.transferred > 0 => Tells(d, named.async.id, named.async.data)
        BY <3>3
      <4>3. Waiting[1] \in {"waiting", "device", "ack"}
        BY WordsOfAParts
      <4>. QED
        BY <1>9, <1>9a, <3>2, <4>1, <4>2, <4>3, AdvancedWentOn
    <3>. QED
      BY <1>11, <1>12, <3>1, <3>4
  <2>5. ~(y # Waiting /\ y[1] = "waiting")
    BY DEF Reported
  <2>. QED
    BY <2>1, <2>2, <2>3, <2>4, <2>5
<1>13. Speaks(b, d.async.id) \/ part = "header"
  BY <1>2 DEF t
<1>14. CASE part = "body" /\ y[1] # "body"
  <2>1. e = Done(d, "WRONG_CHECKSUM")
    BY <1>14 DEF receiveAsyncCommand, part, t
  <2>. QED
    BY <1>10, <2>1
<1>15. CASE part = "body" /\ y[1] = "body"
  <2>1. e = advance(stored, acked)
    BY <1>15 DEF receiveAsyncCommand, part, t, stored, acked, named, told
  <2>2. Tells(d, told.async.id, told.async.data) /\ Says(d, told.async.id)
    BY <1>2, <1>4, <1>9, <1>15 DEF Reported, t
  <2>3. WentOn(advance(told, acked), b, writing, coming)
    <3>1. told.async.transferred = d.async.transferred
      BY <1>9 DEF t
    <3>2. Speaks(b, told.async.id)
      BY <1>9, <1>13, <1>15
    <3>. QED
      BY <1>3, <1>9, <1>15, <1>9a, <2>2, <3>1, <3>2, AdvancedWentOn
  <2>. QED
    BY <1>11, <1>15, <2>1, <2>3
<1>16. CASE part = "device" /\ y[1] # "device"
  <2>1. e = Done(d, "INVALID_DEVICE_ID")
    BY <1>16 DEF receiveAsyncCommand, part, t
  <2>. QED
    BY <1>10, <2>1
<1>17. CASE part = "device" /\ y[1] = "device"
  <2>1. e = advance(stored, acked)
    BY <1>17 DEF receiveAsyncCommand, part, t, stored, acked, named, told
  <2>2. d.async.transferred > 0 /\ Tells(d, d.async.id, d.async.data) /\ Speaks(b, d.async.id)
    BY <1>2, <1>4, <1>13, <1>17 DEF t
  <2>3. WentOn(advance(d, acked), b, writing, coming)
    BY <1>1, <1>3, <1>4, <1>6, <1>17, <2>2, AdvancedWentOn
  <2>. QED
    BY <1>11, <1>17, <2>1, <2>3
<1>18. CASE part = "ack" /\ y = Word("ack", Nobody, NoData)
  <2>1. e = finish(d)
    BY <1>18 DEF receiveAsyncCommand, part, t
  <2>. QED
    BY <1>2, <1>4, <1>5, <1>18, <2>1, FinishWentOn
<1>19. CASE part = "ack" /\ y # Word("ack", Nobody, NoData)
  <2>1. e = Done(d, "INVALID_COMMAND_ACK")
    BY <1>19 DEF receiveAsyncCommand, part, t
  <2>. QED
    BY <1>10, <2>1
<1>. QED
  BY <1>2, <1>12, <1>14, <1>15, <1>16, <1>17, <1>18, <1>19

-----------------------------------------------------------------------------
(* SERIAL: what the driver makes of an answer.                             *)

Over(d, b, writing, coming) ==
  Right(d, b, writing, coming) /\ Ended(d) /\ Ready(d) /\ d.state \notin Calm

LEMMA OverParts ==
  ASSUME NEW d, NEW b, NEW writing, NEW coming, Over(d, b, writing, coming)
  PROVE  /\ Right(d, b, writing, coming) /\ Ready(d) /\ Shaped(d) /\ ~d.async.isActive
         /\ Restful(d) /\ d.state \notin {"NEEDS_RESET", "PINGING"} /\ Queued(d, coming)
         /\ d.asked \in Answered => Served(d)
         /\ d.async.id \in Answered => d.asked = d.async.id
         /\ d.async.id = "CONNECTION_CLOSED" => d.asked = "TRANSFER"
         /\ d.async.direction = "RECEIVING"
  BY ReadyIsRestful DEF Over, Ready, Calm, Ended, Commanded, Says, Right

\* The first request of a driver is finished.
Marked(d, e) ==
  /\ e.requests = [d.requests EXCEPT ![1].finished = TRUE] /\ e.results = d.results
  /\ e.isWriting = d.isWriting /\ e.needsClear = d.needsClear /\ Kept(d, e)
  /\ e.asked = d.asked

LEMMA MarkedParts ==
  ASSUME NEW d, Shaped(d), NEW e, e = [d EXCEPT !.requests[1].finished = TRUE]
  PROVE  Marked(d, e)
<1>. DEFINE requests == [d.requests EXCEPT ![1].finished = TRUE]
<1>1. e = [d EXCEPT !.requests = requests]
  BY DEF Shaped
<1>. HIDE DEF requests
<1>2. /\ e.requests = requests /\ e.results = d.results
      /\ e.isWriting = d.isWriting /\ e.needsClear = d.needsClear /\ Kept(d, e)
      /\ e.asked = d.asked
  BY <1>1 DEF Shaped, Kept, SameLink
<1>. QED
  BY <1>2 DEF requests, Marked

LEMMA FinishIsRight ==
  ASSUME NEW d, NEW b, NEW writing, NEW coming, Over(d, b, writing, coming),
         d.asked \in Answered, NEW success, NEW data, Belongs(d.requests[1], success, data),
         NEW f, f = Filled(d, Head(d.requests), success, data),
         NEW e, e = [f EXCEPT !.requests[1].finished = TRUE]
  PROVE  Right(e, b, writing, coming)
<1>1. /\ Shaped(d) /\ Restful(d) /\ Queued(d, coming) /\ Served(d) /\ Right(d, b, writing, coming)
      /\ d.state \notin {"NEEDS_RESET", "PINGING"} /\ ~d.async.isActive
  BY OverParts
<1>2. d.requests # <<>> /\ ~d.requests[1].finished /\ Head(d.requests) = d.requests[1]
  BY <1>1, FirstRequest DEF Served, Queued
<1>3. Kept(d, f) /\ OnlyResults(d, f)
  BY <1>1, FilledKeeps, FilledIsApart, Zenon
<1>4. /\ e.requests = [f.requests EXCEPT ![1].finished = TRUE] /\ e.results = f.results
      /\ e.isWriting = f.isWriting /\ e.needsClear = f.needsClear /\ Kept(f, e)
  <2>1. Shaped(f)
    BY <1>3 DEF Kept
  <2>2. Marked(f, e)
    BY <2>1, MarkedParts
  <2>. QED
    BY <2>2 DEF Marked
<1>5. f.requests = d.requests /\ f.isWriting = d.isWriting /\ f.needsClear = d.needsClear
  BY <1>3 DEF OnlyResults
<1>6. e.requests = [d.requests EXCEPT ![1].finished = TRUE]
  BY <1>4, <1>5
<1>7. e.results = Filled(d, d.requests[1], success, data).results
  BY <1>2, <1>4
<1>8. Queued(e, coming)
  <2>1. Finishes(d, e, success, data)
    BY <1>6, <1>7 DEF Finishes
  <2>. QED
    BY <1>1, <1>2, <2>1, FinishesIsQueued
<1>9. Restful(e)
  BY <1>1, <1>3, <1>4 DEF Restful, Kept, SameLink
<1>10. e.isWriting = d.isWriting /\ e.needsClear = d.needsClear
  BY <1>4, <1>5
<1>. QED
  BY <1>1, <1>8, <1>9, <1>10, RestIsRight

LEMMA AnswerIsRight ==
  ASSUME NEW d, NEW b, NEW writing, NEW coming, Over(d, b, writing, coming),
         NEW type \in Answered, d.async.id = type
  PROVE  Right(Answer(d, type), b, writing, coming)
<1>. DEFINE r == Head(d.requests)
            ok == d.async.result = "SUCCESS"
            f == Filled(d, r, ok, d.async.data)
            e == [f EXCEPT !.requests[1].finished = TRUE]
<1>1. /\ Shaped(d) /\ Queued(d, coming) /\ Served(d) /\ Right(d, b, writing, coming)
      /\ d.asked = type
  BY OverParts
<1>2. d.requests # <<>> /\ r = d.requests[1] /\ r.type = type
  BY <1>1, FirstRequest DEF Served, Queued
<1>3. ok => d.async.data \in {Odd, <<r.type, r.asks>>}
  BY <1>1, <1>2 DEF Over, Ended, Tells
<1>4. \A error : Right(abort(d, error), b, writing, coming)
  BY <1>1, StoppedIsRight
<1>5. CASE ok /\ d.async.data = Odd /\ type # "CLOSE_CONNECTION"
  <2>1. Answer(d, type) = abort(d, "WEIRD_RESPONSE")
    BY <1>2, <1>5 DEF Answer
  <2>. QED
    BY <1>4, <2>1
<1>6. CASE ~(ok /\ d.async.data = Odd /\ type # "CLOSE_CONNECTION")
  <2>1. Answer(d, type) = e
    BY <1>2, <1>6, Zenon DEF Answer
  <2>2. Belongs(r, ok, d.async.data)
    BY <1>2, <1>3, <1>6 DEF Belongs
  <2>. HIDE DEF ok
  <2>3. Belongs(d.requests[1], ok, d.async.data)
    BY <1>2, <2>2
  <2>4. f = Filled(d, Head(d.requests), ok, d.async.data) /\ d.asked \in Answered
    BY <1>1
  <2>5. e = [f EXCEPT !.requests[1].finished = TRUE]
    OBVIOUS
  <2>. HIDE DEF f, e, r
  <2>6. Right(e, b, writing, coming)
    BY <2>3, <2>4, <2>5, FinishIsRight, Zenon
  <2>. QED
    BY <2>1, <2>6
<1>. QED
  BY <1>5, <1>6

LEMMA ClosedIsRight ==
  ASSUME NEW d, NEW b, NEW writing, NEW coming, Over(d, b, writing, coming),
         d.async.id = "CONNECTION_CLOSED"
  PROVE  Right(ConnectionClosed(d), b, writing, coming)
<1>. DEFINE r == Head(d.requests)
            f == Filled(d, r, FALSE, NoData)
            e == [f EXCEPT !.requests[1].finished = TRUE]
<1>1. ConnectionClosed(d) \in {abort(d, "WTF"), e}
  BY Zenon DEF ConnectionClosed
<1>2. Right(abort(d, "WTF"), b, writing, coming)
  BY OverParts, StoppedIsRight
<1>3. d.asked \in Answered
  BY OverParts DEF Answered
<1>4. Belongs(d.requests[1], FALSE, NoData)
  BY DEF Belongs
<1>5. f = Filled(d, Head(d.requests), FALSE, NoData) /\ e = [f EXCEPT !.requests[1].finished = TRUE]
  OBVIOUS
<1>. HIDE DEF f, e
<1>6. Right(e, b, writing, coming)
  BY <1>3, <1>4, <1>5, FinishIsRight, Zenon
<1>. QED
  BY <1>1, <1>2, <1>6

\* A request without a struct is finished, which the command under way is not for.
LEMMA MarkedIsRight ==
  ASSUME NEW d, NEW b, NEW writing, NEW coming, Right(d, b, writing, coming), Shaped(d),
         d.requests # <<>>, d.requests[1].slot = NoSlot,
         d.async.isActive => d.asked \notin Answered,
         NEW e, e = [d EXCEPT !.requests[1].finished = TRUE]
  PROVE  Right(e, b, writing, coming)
<1>. DEFINE q == d.requests
<1>1. /\ e.requests = [q EXCEPT ![1].finished = TRUE] /\ e.results = d.results
      /\ e.isWriting = d.isWriting /\ e.needsClear = d.needsClear /\ Kept(d, e)
      /\ e.asked = d.asked
  <2>1. Marked(d, e)
    BY MarkedParts
  <2>. QED
    BY <2>1 DEF Marked
<1>2. Queued(d, coming) /\ q \in Seq(Requests) /\ q[1] \in Requests /\ Len(q) \in Nat \ {0}
  BY FirstRequest DEF Right, Queued
<1>3. CASE ~q[1].finished
  <2>1. Filled(d, q[1], FALSE, NoData) = d /\ Belongs(q[1], FALSE, NoData)
    BY DEF Filled, Belongs
  <2>2. e.results = Filled(d, q[1], FALSE, NoData).results
    BY <1>1, <2>1
  <2>3. Queued(e, coming)
    <3>1. Finishes(d, e, FALSE, NoData)
      BY <1>1, <2>1, <2>2 DEF Finishes
    <3>2. \E success, data : Finishes(d, e, success, data)
      BY <3>1
    <3>. QED
      BY <1>2, <1>3, <3>2, FinishesIsQueued
  <2>. QED
    BY <1>1, <2>3, SameIsRight DEF Kept
<1>4. CASE q[1].finished
  <2>. DEFINE n == [q[1] EXCEPT !.finished = TRUE]
  <2>1. DOMAIN q[1] = {"type", "slot", "asks", "timeout", "finished"} /\ q[1].finished = TRUE
    BY <1>2, <1>4, RequestParts
  <2>2. n = q[1]
    BY <1>2, <2>1 DEF Requests
  <2>3. e.requests = [q EXCEPT ![1] = n]
    BY <1>1
  <2>4. [q EXCEPT ![1] = q[1]] = q
    BY <1>2, LenProperties
  <2>5. Queued(e, coming)
    BY <1>1, <1>2, <2>2, <2>3, <2>4, SameIsQueued
  <2>. QED
    BY <1>1, <2>5, SameIsRight DEF Kept
<1>. QED
  BY <1>3, <1>4

\* A command follows in the state the answer leads to.
LEMMA FollowedIsRight ==
  ASSUME NEW d, NEW b, NEW writing, NEW coming, Over(d, b, writing, coming),
         NEW s, s \notin {"NEEDS_RESET", "PINGING"}, NEW id \in Commands \ Answered, NEW data,
         NEW e, e = sendCommandAsync(setState(d, s), id, data)
  PROVE  Right(e, b, writing, coming) /\ e.requests = d.requests /\ e.asked = id
<1>. DEFINE f == setState(d, s)
<1>1. /\ Right(d, b, writing, coming) /\ Ready(d) /\ Shaped(d) /\ ~d.async.isActive
      /\ d.state \notin {"NEEDS_RESET", "PINGING"}
  BY OverParts
<1>2. Right(f, b, writing, coming) /\ Ready(f) /\ f.state = s /\ f.requests = d.requests
  BY <1>1, StateIsRight, ReadyState
<1>3. e = sendCommandAsync(f, id, data)
  OBVIOUS
<1>. HIDE DEF f
<1>. QED
  BY <1>2, <1>3, SendIsRight

\* The link is opened again for words of another size.
LEMMA SwitchIsRight ==
  ASSUME NEW d, NEW b, NEW writing, NEW coming, Over(d, b, writing, coming),
         NEW s, s \notin {"NEEDS_RESET", "PINGING"}, NEW wide
  PROVE  Right(setDataSize([setState(d, s) EXCEPT !.waitFrames = InitWait], wide),
               b, writing, coming)
<1>. DEFINE e == setState(d, s)
            f == [e EXCEPT !.waitFrames = InitWait]
            g == setDataSize(f, wide)
<1>1. /\ Right(d, b, writing, coming) /\ Ready(d) /\ Shaped(d) /\ ~d.async.isActive
      /\ d.state \notin {"NEEDS_RESET", "PINGING"}
  BY OverParts
<1>2. Ready(e) /\ SameQueue(d, e) /\ e.state = s
  BY <1>1, ReadyState, SetStateParts
<1>. HIDE DEF e
<1>3. Ready(f) /\ SameQueue(d, f) /\ f.state = s
  <2>1. Ready(f)
    BY <1>2, AsideIsReady
  <2>. QED
    BY <1>2, <2>1 DEF Ready, Shaped, SameQueue
<1>. HIDE DEF f
<1>4. Ready(g) /\ SameQueue(d, g) /\ g.state = s
  <2>1. Ready(g) /\ g.state = f.state
    BY <1>3, ResizedIsReady
  <2>2. SameQueue(d, g)
    BY <1>3 DEF setDataSize, Ready, Shaped, SameQueue
  <2>. QED
    BY <1>3, <2>1, <2>2
<1>. HIDE DEF g
<1>5. Restful(g)
  BY <1>4, ReadyIsRestful
<1>6. Right(g, b, writing, coming)
  BY <1>1, <1>4, <1>5, StillIsRight
<1>. QED
  BY <1>6 DEF e, f, g

\* The role in the call is nobody's concern.
LEMMA RoleIsRight ==
  ASSUME NEW d, NEW b, NEW writing, NEW coming, Over(d, b, writing, coming), NEW role
  PROVE  Right([setState(d, "CALL_ESTABLISHED") EXCEPT !.role = role], b, writing, coming)
<1>. DEFINE e == setState(d, "CALL_ESTABLISHED")
            f == [e EXCEPT !.role = role]
<1>1. /\ Right(d, b, writing, coming) /\ Shaped(d) /\ ~d.async.isActive
      /\ d.state \notin {"NEEDS_RESET", "PINGING"}
  BY OverParts
<1>2. Right(e, b, writing, coming) /\ Shaped(e)
  BY <1>1, StateIsRight, SetStateParts
<1>. HIDE DEF e
<1>3. SameLink(e, f) /\ f.asked = e.asked /\ f.state = e.state /\ SameQueue(e, f)
  BY <1>2 DEF Shaped, SameLink, SameQueue
<1>. HIDE DEF f
<1>4. Right(f, b, writing, coming)
  BY <1>2, <1>3, AsideIsRight
<1>. QED
  BY <1>4 DEF e, f

LEMMA OverStateIsRight ==
  ASSUME NEW d, NEW b, NEW writing, NEW coming, Over(d, b, writing, coming),
         NEW s, s \notin {"NEEDS_RESET", "PINGING"}
  PROVE  Right(setState(d, s), b, writing, coming)
  BY OverParts, StateIsRight

LEMMA DialledIspIsRight ==
  ASSUME NEW d, NEW b, NEW writing, NEW coming, Over(d, b, writing, coming)
  PROVE  Right(DialledISP(d), b, writing, coming)
<1>. DEFINE f == setState(d, "SESSION_ACTIVE")
            g == sendCommandAsync(setState(d, "PPP_LOGIN"), "ISP_LOGIN", NoData)
            e == IF d.async.result = "SUCCESS" THEN g ELSE f
<1>1. /\ Right(d, b, writing, coming) /\ Shaped(d) /\ ~d.async.isActive /\ Ready(d)
      /\ d.state \notin {"NEEDS_RESET", "PINGING"} /\ Queued(d, coming)
  BY OverParts
<1>2. Right(abort(d, "WTF"), b, writing, coming)
  BY <1>1, StoppedIsRight
<1>3. DialledISP(d) = IF d.requests = <<>> \/ Head(d.requests).type # "PPP_LOGIN" THEN abort(d, "WTF")
                      ELSE [e EXCEPT !.requests[1].finished = TRUE]
  BY DEF DialledISP
<1>4. "ISP_LOGIN" \in Commands \ Answered
  BY DEF Commands, Answered
<1>5. /\ Right(f, b, writing, coming) /\ f.requests = d.requests /\ ~f.async.isActive /\ Shaped(f)
  BY <1>1, StateIsRight, ReadyState DEF Ready
<1>6. /\ Right(g, b, writing, coming) /\ g.requests = d.requests /\ g.asked \notin Answered
      /\ Shaped(g)
  <2>1. Right(g, b, writing, coming) /\ g.requests = d.requests /\ g.asked = "ISP_LOGIN"
    BY <1>4, FollowedIsRight
  <2>2. Ready(setState(d, "PPP_LOGIN")) /\ setState(d, "PPP_LOGIN").state = "PPP_LOGIN"
    BY <1>1, ReadyState
  <2>3. Shaped(g)
    BY <2>2, SendIsSound DEF Calm
  <2>. QED
    BY <1>4, <2>1, <2>3
<1>. HIDE DEF f, g
<1>7. /\ Right(e, b, writing, coming) /\ e.requests = d.requests /\ Shaped(e)
      /\ e.async.isActive => e.asked \notin Answered
  BY <1>5, <1>6
<1>. HIDE DEF e
<1>8. ASSUME d.requests # <<>>, Head(d.requests).type = "PPP_LOGIN"
      PROVE  Right([e EXCEPT !.requests[1].finished = TRUE], b, writing, coming)
  <2>1. d.requests[1] \in Requests /\ d.requests[1].type = "PPP_LOGIN"
    BY <1>1, <1>8, FirstRequest DEF Queued
  <2>2. d.requests[1].slot = NoSlot
    BY <2>1, RequestParts DEF Answered
  <2>. QED
    BY <1>7, <1>8, <2>2, MarkedIsRight
<1>. QED
  BY <1>2, <1>3, <1>8

LEMMA AnswerProcessedIsRight ==
  ASSUME NEW d, NEW b, NEW writing, NEW coming, Over(d, b, writing, coming)
  PROVE  Right(processAnswer(d), b, writing, coming)
<1>1. Right(d, b, writing, coming) /\ \A error : Right(abort(d, error), b, writing, coming)
  BY OverParts, StoppedIsRight
<1>2. \A s \in {"SESSION_ACTIVE", "PPP_ACTIVE"} : Right(setState(d, s), b, writing, coming)
  BY OverStateIsRight
<1>3. /\ Right(sendCommandAsync(setState(d, "ACTIVATING_SIO32"), "SIO32", NoData),
               b, writing, coming)
      /\ Right(sendCommandAsync(setState(d, "READING_CONFIGURATION"), "READ_CONFIGURATION",
                                <<"1st">>), b, writing, coming)
      /\ Right(sendCommandAsync(d, "READ_CONFIGURATION", <<"2nd">>), b, writing, coming)
  <2>1. "SIO32" \in Commands \ Answered /\ "READ_CONFIGURATION" \in Commands \ Answered
    BY DEF Commands, Answered
  <2>2. Right(sendCommandAsync(d, "READ_CONFIGURATION", <<"2nd">>), b, writing, coming)
    BY <2>1, OverParts, SendIsRight
  <2>. QED
    BY <2>1, <2>2, FollowedIsRight
<1>4. /\ Right(setDataSize([setState(d, "WAITING_32BIT_SWITCH") EXCEPT !.waitFrames = InitWait],
                           TRUE), b, writing, coming)
      /\ Right(setDataSize([setState(d, "WAITING_8BIT_SWITCH") EXCEPT !.waitFrames = InitWait],
                           FALSE), b, writing, coming)
  BY SwitchIsRight
<1>5. /\ Right([setState(d, "CALL_ESTABLISHED") EXCEPT !.role = "RECEIVER"], b, writing, coming)
      /\ Right([setState(d, "CALL_ESTABLISHED") EXCEPT !.role = "CALLER"], b, writing, coming)
  BY RoleIsRight
<1>6. Right(Dialled(d), b, writing, coming) /\ Right(HungUp(d), b, writing, coming)
  BY <1>2, <1>5 DEF Dialled, HungUp
<1>7. respondsTo(d, "TRANSFER") => Right(Answer(d, "TRANSFER"), b, writing, coming)
  <2>1. "TRANSFER" \in Answered /\ (respondsTo(d, "TRANSFER") => d.async.id = "TRANSFER")
    BY DEF respondsTo, relatedCommandId, Answered
  <2>. QED
    BY <2>1, AnswerIsRight
<1>8. relatedCommandId(d) \in Answered => Right(Answer(d, relatedCommandId(d)), b, writing, coming)
  <2>1. relatedCommandId(d) = d.async.id
    BY DEF relatedCommandId
  <2>. QED
    BY <2>1, AnswerIsRight
<1>9. respondsTo(d, "CONNECTION_CLOSED") => Right(ConnectionClosed(d), b, writing, coming)
  BY ClosedIsRight DEF respondsTo, relatedCommandId
<1>. QED
  BY <1>1, <1>2, <1>3, <1>4, <1>5, <1>6, <1>7, <1>8, <1>9, DialledIspIsRight DEF processAnswer

LEMMA CommandProcessedIsRight ==
  ASSUME NEW d, NEW b, NEW writing, NEW coming, Over(d, b, writing, coming)
  PROVE  Right(processAsyncCommand(d), b, writing, coming)
<1>1. Right(abort(d, "COMMAND_FAILED"), b, writing, coming)
  BY OverParts, StoppedIsRight
<1>2. processAsyncCommand(d) \in {abort(d, "COMMAND_FAILED"), processAnswer(d)}
  BY OverParts DEF processAsyncCommand
<1>. QED
  BY <1>1, <1>2, AnswerProcessedIsRight

\* A word that belongs to no command ends the pinging.
LEMMA LooseIsRight ==
  ASSUME NEW d, NEW writing, NEW coming, Ready(d), Queued(d, coming), Clearing(d, writing),
         d.state = "PINGING", NEW b, Kind(b), ~(b.turn = "listen" /\ b.at > 1)
  PROVE  Right(processLoosePacket(d), b, writing, coming)
<1>. DEFINE e == setState(d, "WAITING_TO_START")
            f == [e EXCEPT !.waitFrames = InitWait]
<1>1. Ready(e) /\ SameQueue(d, e)
  BY ReadyState, SetStateParts DEF Ready
<1>. HIDE DEF e
<1>2. Ready(f) /\ SameQueue(d, f)
  <2>1. Ready(f)
    BY <1>1, AsideIsReady
  <2>. QED
    BY <1>1, <2>1 DEF Ready, Shaped, SameQueue
<1>. HIDE DEF f
<1>3. Queued(f, coming) /\ Clearing(f, writing)
  <2>1. Queued(f, coming)
    BY <1>2, SameIsQueued DEF SameQueue
  <2>. QED
    BY <1>2, <2>1 DEF Clearing, SameQueue
<1>4. ~f.async.isActive /\ Worded(f) /\ InTune(f, b)
  BY <1>2 DEF Ready, NothingSent, Worded, InTune
<1>5. processLoosePacket(d) = f
  BY DEF processLoosePacket, e, f
<1>. QED
  BY <1>3, <1>4, <1>5 DEF Right

-----------------------------------------------------------------------------
(* SERIAL: a word arrives.                                                 *)

LEMMA DataTakenParts ==
  ASSUME NEW d, Shaped(d), NEW port, NEW e, e = [d EXCEPT !.port = port]
  PROVE  /\ Beside(d, e) /\ e.async = d.async /\ e.isEnabled = d.isEnabled
  BY DEF Shaped, Beside, SameQueue

LEMMA ReceivedIsRight ==
  ASSUME Sound(m), NEW writing, NEW coming, Right(m, adapter, writing, coming),
         Link!isSending(m.port), NEW x \in Exchanged(m.port.wire),
         NEW y, Garbles(y, x[2]), Received(y)
  PROVE  Right(m', x[1], writing, coming)
<1>. DEFINE port == Link!_onSerial(Link!stopTransfer(m.port), "spi", y)
            data == Link!AsyncData(port, "spi")
            taken == Link!DataTaken(port, "spi")
            d == [m EXCEPT !.port = taken]
            e == transferred(d, data)
            b == x[1]
            w == m.port.wire
<1>1. WordSent(m) /\ Shaped(m) /\ m.state # "NEEDS_RESET"
  BY DEF Sound, NothingSent, WordSent, WordWaits, Link!isSending, Calm
<1>2. data = y
  <2>1. port = Link!_onSerial(Link!stopTransfer(m.port), "spi", y)
    OBVIOUS
  <2>. HIDE DEF port
  <2>. QED
    BY <1>1, <2>1, WordIsTaken
<1>3. /\ Shaped(d) /\ NothingSent(d) /\ Open(d)
      /\ d.async = m.async /\ d.state = m.state /\ d.wide = m.wide
  <2>1. /\ port = Link!_onSerial(Link!stopTransfer(m.port), "spi", y)
        /\ d = [m EXCEPT !.port = Link!DataTaken(port, "spi")]
    OBVIOUS
  <2>. HIDE DEF port, d
  <2>. QED
    BY <1>1, <2>1, WordTaken
<1>4. Beside(m, d) /\ d.isEnabled = m.isEnabled
  <2>. HIDE DEF taken
  <2>. QED
    BY <1>1, DataTakenParts
<1>5. \/ ~d.async.isActive /\ m' = processLoosePacket(d)
      \/ d.async.isActive /\ m' = IF e.async.isActive THEN e ELSE processAsyncCommand(e)
  <2>1. d.state # "NEEDS_RESET"
    BY <1>1, <1>3
  <2>. QED
    BY <2>1, Zenon DEF Received
<1>. HIDE DEF data, taken, d
<1>6. /\ Kind(adapter) /\ Queued(m, coming) /\ Clearing(m, writing) /\ Worded(m)
      /\ w # Link!NoWord
  BY <1>1 DEF Right, InTune, WordSent
<1>7. /\ Kind(b) /\ Listens(adapter, w, m.wide, b) /\ Answers(adapter, w, m.wide, b)
      /\ Replies(adapter, m.wide, b, x[2])
  BY <1>6, ExchangedParts
<1>8. Queued(d, coming) /\ Clearing(d, writing)
  BY <1>4, <1>6, BesideIsQueued
<1>9. CASE ~d.async.isActive
  <2>1. d.state = "PINGING" /\ w = Zero
    BY <1>1, <1>3, <1>6, <1>9 DEF Sound, NothingSent, WordSent, Worded
  <2>2. adapter.turn = "listen" /\ adapter.at \in 2..(Last(m.wide) - 1) /\ m.wide = adapter.wide
          => Parts(m.wide)[adapter.at] \in {"header", "body", "device", "ack"}
    BY <1>6, AdapterParts
  <2>3. ~(b.turn = "listen" /\ b.at > 1)
    BY <1>7, <2>1, <2>2 DEF Listens, Zero
  <2>4. Ready(d)
    BY <1>3, <1>9 DEF Ready
  <2>5. Right(processLoosePacket(d), b, writing, coming)
    BY <1>7, <1>8, <2>1, <2>3, <2>4, LooseIsRight
  <2>. QED
    BY <1>5, <1>9, <2>5
<1>10. CASE d.async.isActive
  <2>1. /\ m.async.isActive /\ m.state \notin Calm /\ Progressing(m)
        /\ m.state \notin {"NEEDS_RESET", "PINGING"}
    BY <1>3, <1>10 DEF Sound, Calm
  <2>2. Midway(d, writing, coming)
    BY <1>3, <1>4, <1>8, <1>10, <2>1
       DEF Midway, Arrived, Progressing, Right, Commanded, Served, Hearing, Named, Told,
           Beside, SameQueue
  <2>3. m' = IF e.async.isActive THEN e ELSE processAsyncCommand(e)
    BY <1>5, <1>10
  <2>4. CASE d.async.direction = "SENDING"
    <3>1. e = sendAsyncCommand(d, y)
      BY <1>2, <2>4 DEF transferred
    <3>2. m.async.transferred \in 1..Last(m.wide) /\ m.async.direction = "SENDING"
      BY <1>3, <2>1, <2>4 DEF Progressing
    <3>3. y[1] = "ack" => y = x[2]
      BY WordsOfAParts DEF Garbles
    <3>4. /\ b.turn = "listen" /\ b.at > 1 =>
               /\ b.at = m.async.transferred + 1 /\ b.id = m.async.id
               /\ b.at > 2 => b.data = m.async.data
          /\ x[2][1] = "ack" /\ x[2] # <<"ack", Nobody>> =>
               /\ b.turn = "answer" /\ b.id = m.async.id /\ b.data = m.async.data
      BY <1>6, <1>7, <2>1, <3>2, SentIsHeard
    <3>5. /\ b.turn = "listen" /\ b.at > 1 =>
               /\ b.at = d.async.transferred + 1 /\ b.id = d.async.id
               /\ b.at > 2 => b.data = d.async.data
          /\ y[1] = "ack" /\ y # <<"ack", Nobody>> =>
               /\ b.turn = "answer" /\ b.id = d.async.id /\ b.data = d.async.data
      BY <1>3, <3>3, <3>4
    <3>. HIDE DEF e
    <3>6. Right(IF e.async.isActive THEN e ELSE processAsyncCommand(e), b, writing, coming)
      BY <1>7, <2>2, <2>4, <3>1, <3>5, SendingIsRight
    <3>. QED
      BY <2>3, <3>6
  <2>5. CASE d.async.direction # "SENDING"
    <3>1. d.async.direction = "RECEIVING" /\ m.async.direction = "RECEIVING"
      BY <1>3, <2>1, <2>5 DEF Progressing
    <3>2. e = receiveAsyncCommand(d, y)
      BY <1>2, <2>5 DEF transferred
    <3>3. /\ Attends(m, b) /\ (m.async.transferred > 0 => Speaks(b, m.async.id))
          /\ Reported(m, b, y)
      BY <1>6, <1>7, <2>1, <3>1, AnswerIsHeard
    <3>4. /\ Attends(d, b) /\ (d.async.transferred > 0 => Speaks(b, d.async.id))
          /\ Reported(d, b, y)
      BY <1>3, <1>4, <3>3 DEF Attends, Reported, Says, Tells, Beside, SameQueue
    <3>5. WentOn(e, b, writing, coming)
      BY <1>7, <2>2, <3>1, <3>2, <3>4, ReceivingWentOn
    <3>. HIDE DEF e
    <3>6. ~e.async.isActive => Over(e, b, writing, coming)
      BY <3>5 DEF WentOn, Over
    <3>. QED
      BY <2>3, <3>5, <3>6, CommandProcessedIsRight DEF WentOn
  <2>. QED
    BY <2>4, <2>5
<1>. QED
  BY <1>9, <1>10

-----------------------------------------------------------------------------
(* TIMER, and the adapter.                                                 *)

LEMMA TimerIsRight ==
  ASSUME Sound(m), NEW writing, NEW coming, Right(m, adapter, writing, coming), Timer
  PROVE  Right(m', adapter, writing, coming)
<1>. DEFINE port == Link!transferAsync(m.port, "spi", m.pending)
<1>1. Shaped(m) /\ WordWaits(m)
  BY DEF Timer, Sound, NothingSent, WordSent
<1>2. port.wire = m.pending
  <2>1. port = [m.port EXCEPT !.lib["spi"].asyncState = "WAITING", !.interrupts = TRUE,
                              !.wire = m.pending]
    BY <1>1 DEF WordWaits, Open, Link!transferAsync, Link!Accepts, Link!Started
  <2>. DEFINE lib == [m.port.lib EXCEPT !["spi"].asyncState = "WAITING"]
  <2>2. port = [m.port EXCEPT !.lib = lib, !.interrupts = TRUE, !.wire = m.pending]
    BY <1>1, <2>1 DEF Shaped
  <2>. HIDE DEF lib, port
  <2>. QED
    BY <1>1, <2>2 DEF Shaped
<1>3. m' = [m EXCEPT !.port = port, !.pending = Link!NoWord]
  BY DEF Timer
<1>. HIDE DEF port
<1>4. /\ Beside(m, m') /\ m'.port = port /\ m'.pending = Link!NoWord /\ m'.async = m.async
  BY <1>1, <1>3 DEF Shaped, Beside, SameQueue
<1>5. Queued(m', coming) /\ Clearing(m', writing)
  BY <1>4, BesideIsQueued DEF Right
<1>6. m'.async.isActive => Commanded(m') /\ Hearing(m')
  BY <1>4 DEF Right, Commanded, Served, Hearing, Named, Told, Beside, SameQueue
<1>7. Worded(m')
  BY <1>2, <1>4 DEF Right, Worded, Beside
<1>8. InTune(m', adapter)
  BY <1>4 DEF Right, InTune, Beside, SameQueue
<1>. QED
  BY <1>5, <1>6, <1>7, <1>8 DEF Right

\* What it answers is what it was asked, an error about it, or that there is no more to say.
LEMMA OutcomesAreTrue ==
  ASSUME Kind(adapter), adapter.id \in Commands, NEW o \in Outcomes(adapter)
  PROVE  /\ o.id \in {adapter.id, ErrorStatus, "CONNECTION_CLOSED", "RESET"}
         /\ o.id = "CONNECTION_CLOSED" => adapter.id = "TRANSFER"
         /\ o.id = ErrorStatus => o.data = <<adapter.id>>
         /\ o.id = adapter.id /\ adapter.id \in Answered => o.data = adapter.data
<1>. DEFINE a == adapter
            yes(data, call) == [id |-> a.id, data |-> data, call |-> call]
            no == [id |-> ErrorStatus, data |-> <<a.id>>, call |-> a.call]
            closed == [id |-> "CONNECTION_CLOSED", data |-> NoData, call |-> a.call]
            reset == [yes(NoData, a.call) EXCEPT !.id = "RESET"]
            True(x) ==
              /\ x.id \in {a.id, ErrorStatus, "CONNECTION_CLOSED", "RESET"}
              /\ x.id = "CONNECTION_CLOSED" => a.id = "TRANSFER"
              /\ x.id = ErrorStatus => x.data = <<a.id>>
              /\ x.id = a.id /\ a.id \in Answered => x.data = a.data
<1>1. /\ a.id # ErrorStatus /\ a.id # "CONNECTION_CLOSED" /\ ErrorStatus # "CONNECTION_CLOSED"
      /\ a.id # "RESET" /\ "RESET" # ErrorStatus
  BY CommandsAreNamed DEF ErrorStatus
<1>2. \A data, call : a.id \notin Answered \/ data = a.data => True(yes(data, call))
  BY <1>1
<1>3. True(no) /\ (a.id = "TRANSFER" => True(closed)) /\ True(reset)
  BY <1>1
<1>4. CASE a.id \in Answered
  <2>1. o = no \/ (a.id = "TRANSFER" /\ o = closed) \/ \E call : o = yes(a.data, call)
    BY <1>4 DEF Outcomes, Answered
  <2>. HIDE DEF no, closed, yes
  <2>2. True(o)
    BY <1>2, <1>3, <2>1
  <2>. QED
    BY <2>2
<1>5. CASE a.id \notin Answered
  <2>1. o = no \/ o = reset \/ \E data, call : o = yes(data, call)
    BY <1>5 DEF Outcomes, Answered
  <2>. HIDE DEF no, reset, yes
  <2>2. True(o)
    BY <1>2, <1>3, <1>5, <2>1
  <2>. QED
    BY <2>2
<1>. QED
  BY <1>4, <1>5

LEMMA AnsweredIsRight ==
  ASSUME NEW writing, NEW coming, Right(m, adapter, writing, coming), Answering,
         NEW o \in Outcomes(adapter), NEW data, data = o.data \/ data = Odd, NEW call,
         NEW b, b = [adapter EXCEPT !.answer = [id |-> o.id, data |-> data], !.call = call]
  PROVE  Right(m, b, writing, coming)
<1>. DEFINE answer == [id |-> o.id, data |-> data]
            a == adapter
<1>1. Kind(a) /\ InTune(m, a)
  BY DEF Right, InTune
<1>2. /\ a.turn = "answer" /\ a.answer = NoAnswer /\ a.mode = "awake" /\ DOMAIN a = AdapterFields
  BY <1>1 DEF Answering, Kind, Adapted
<1>3. answer.id = o.id /\ answer.data = data
  OBVIOUS
<1>. HIDE DEF answer
<1>4. /\ DOMAIN b = AdapterFields /\ b.answer = answer /\ b.id = a.id /\ b.data = a.data
      /\ b.turn = a.turn /\ b.at = a.at /\ b.wide = a.wide /\ b.mode = a.mode
  BY <1>2 DEF AdapterFields, answer
<1>5. Adapted(b)
  BY <1>1, <1>2, <1>4 DEF Kind, Adapted
<1>6. a.id \in Commands => Truthful(b)
  <2>. SUFFICES ASSUME a.id \in Commands PROVE Truthful(b)
    OBVIOUS
  <2>1. /\ o.id \in {a.id, ErrorStatus, "CONNECTION_CLOSED", "RESET"}
        /\ o.id = "CONNECTION_CLOSED" => a.id = "TRANSFER"
        /\ o.id = ErrorStatus => o.data = <<a.id>>
        /\ o.id = a.id /\ a.id \in Answered => o.data = a.data
    BY <1>1, OutcomesAreTrue
  <2>. QED
    BY <1>3, <1>4, <2>1 DEF Truthful
<1>7. Kind(b)
  BY <1>4, <1>5, <1>6 DEF Kind
<1>8. InTune(m, b)
  BY <1>1, <1>2, <1>4, <1>7 DEF InTune
<1>. QED
  BY <1>8 DEF Right

LEMMA AdapterIsRight ==
  ASSUME NEW writing, NEW coming, Right(m, adapter, writing, coming),
         AdapterAnswers \/ OddAnswer \/ RemoteHangsUp \/ AdapterLeaves \/ AdapterSleeps
  PROVE  Right(m, adapter', writing, coming)
<1>1. CASE AdapterAnswers
  <2>1. PICK o \in Outcomes(adapter) :
          adapter' = [adapter EXCEPT !.answer = [id |-> o.id, data |-> o.data], !.call = o.call]
    BY <1>1 DEF AdapterAnswers
  <2>2. Answering
    BY <1>1 DEF AdapterAnswers
  <2>. QED
    BY <2>1, <2>2, AnsweredIsRight
<1>2. CASE OddAnswer
  <2>1. PICK o \in Outcomes(adapter) :
          adapter' = [adapter EXCEPT !.answer = [id |-> o.id, data |-> Odd], !.call = o.call]
    BY <1>2 DEF OddAnswer
  <2>2. Answering
    BY <1>2 DEF OddAnswer
  <2>. QED
    BY <2>1, <2>2, AnsweredIsRight
<1>3. CASE RemoteHangsUp
  <2>1. adapter' = [adapter EXCEPT !.call = "none"] /\ Kind(adapter) /\ InTune(m, adapter)
    BY <1>3 DEF RemoteHangsUp, Right, InTune
  <2>2. /\ DOMAIN adapter' = AdapterFields /\ adapter'.answer = adapter.answer
        /\ adapter'.id = adapter.id /\ adapter'.data = adapter.data
        /\ adapter'.turn = adapter.turn /\ adapter'.at = adapter.at
        /\ adapter'.wide = adapter.wide /\ adapter'.mode = adapter.mode
    BY <2>1 DEF Kind, Adapted, AdapterFields
  <2>3. Kind(adapter')
    BY <2>1, <2>2 DEF Kind, Adapted, Truthful
  <2>4. InTune(m, adapter')
    BY <2>1, <2>2, <2>3 DEF InTune
  <2>. QED
    BY <2>4 DEF Right
<1>4. CASE AdapterLeaves \/ AdapterSleeps
  <2>1. adapter' = [Fresh EXCEPT !.mode = "absent"] \/ adapter' = Fresh
    BY <1>4 DEF AdapterLeaves, AdapterSleeps
  <2>2. /\ DOMAIN adapter' = AdapterFields /\ adapter'.turn = "listen" /\ adapter'.at = 1
        /\ adapter'.answer = NoAnswer
    BY <2>1 DEF Fresh, AdapterFields
  <2>3. Kind(adapter')
    BY <2>2, FreshIsKind
  <2>4. InTune(m, adapter')
    BY <2>2, <2>3 DEF InTune
  <2>. QED
    BY <2>4 DEF Right
<1>. QED
  BY <1>1, <1>2, <1>3, <1>4

LEMMA WordIsRight ==
  ASSUME Sound(m), NEW writing, NEW coming, Right(m, adapter, writing, coming),
         Serial \/ GarbledSerial
  PROVE  Right(m', adapter', writing, coming)
<1>1. Link!isSending(m.port)
  BY DEF Serial, GarbledSerial
<1>2. Kind(adapter)
  BY DEF Right, InTune
<1>3. CASE Serial
  <2>1. PICK x \in Exchanged(m.port.wire) : adapter' = x[1] /\ Received(x[2])
    BY <1>3 DEF Serial
  <2>2. x[2][1] # "odd size"
    BY <1>2, ExchangedParts
  <2>3. Garbles(x[2], x[2])
    BY <2>2 DEF Garbles
  <2>4. Right(m', x[1], writing, coming)
    BY <1>1, <2>1, <2>3, ReceivedIsRight
  <2>. QED
    BY <2>1, <2>4
<1>4. CASE GarbledSerial
  <2>1. PICK x \in Exchanged(m.port.wire) :
          /\ adapter' = x[1]
          /\ \/ Received(Garbled)
             \/ x[2][1] = "header" /\ Received(OddSize(x[2][2]))
    BY <1>4 DEF GarbledSerial
  <2>2. \E y : Garbles(y, x[2]) /\ Received(y)
    BY <2>1 DEF Garbles
  <2>3. Right(m', x[1], writing, coming)
    BY <1>1, <2>2, ReceivedIsRight
  <2>. QED
    BY <2>1, <2>3
<1>. QED
  BY <1>3, <1>4

-----------------------------------------------------------------------------
(* The program.                                                            *)

\* It is in a push, and has a request that is in the queue later.
Writing == main.pc \in {"writing", "storing", "stored", "out of bounds"}
Coming == IF main.pc \in {"writing", "storing"} THEN {main.request} ELSE {}

Programmed == DOMAIN main = {"pc", "request", "cleared"} /\ use \in Uses

AnswersAreRight == Sound(m) /\ Right(m, adapter, Writing, Coming) /\ Programmed

\* A driver that has just started.
Started(d) ==
  /\ d.requests = <<>> /\ d.results = [s \in Slots |-> Unused]
  /\ d.isWriting = FALSE /\ d.needsClear = FALSE /\ d.state = "PINGING" /\ d.pending = Zero
  /\ d.port.wire = Link!NoWord /\ ~d.async.isActive

LEMMA StartedIsRight ==
  ASSUME NEW d, Started(d), NEW a, Kind(a), NEW writing, writing = FALSE
  PROVE  Right(d, a, writing, {})
<1>1. DOMAIN Unused = ResultFields /\ Unused.success = FALSE
  BY DEF Unused, ResultFields
<1>2. Results(d)
  BY <1>1 DEF Started, Results, Holds
<1>3. d.requests \in Seq(Requests) /\ Len(d.requests) = 0
  BY EmptySeq DEF Started
<1>4. Queued(d, {})
  BY <1>2, <1>3 DEF Queued
<1>5. Clearing(d, writing) /\ Worded(d) /\ InTune(d, a)
  BY DEF Started, Clearing, Worded, InTune
<1>. QED
  BY <1>4, <1>5 DEF Started, Right

LEMMA StartParts ==
  ASSUME NEW d, Shaped(d), NEW e, e = start(d)
  PROVE  /\ SameQueue(d, e) /\ e.state = "PINGING" /\ e.pending = Zero
         /\ e.port.wire = Link!NoWord /\ e.async = d.async /\ DOMAIN e = Fields
<1>. DEFINE x == setDataSize(d, FALSE)
            y == setState(x, "PINGING")
<1>1. /\ Shaped(x) /\ SameQueue(d, x) /\ x.async = d.async /\ x.port.wire = Link!NoWord
  BY DEF Shaped, SameQueue, setDataSize, Link!activate, Link!Disabled, Link!Links
<1>. HIDE DEF x
<1>2. /\ Shaped(y) /\ SameQueue(x, y) /\ y.state = "PINGING" /\ y.async = x.async
      /\ y.port = x.port
  BY <1>1, SetStateParts DEF SameLink
<1>. HIDE DEF y
<1>3. e = [y EXCEPT !.pending = Zero]
  BY DEF start, transferAsync, x, y
<1>. QED
  BY <1>1, <1>2, <1>3 DEF Shaped, SameQueue

LEMMA InitIsRight ==
  ASSUME Init
  PROVE  Right(m, adapter, Writing, Coming)
<1>1. PICK d : /\ m = start(d)
               /\ DOMAIN d = Fields /\ d.async = NoCommand /\ d.port = Link!ClosedPort
               /\ d.requests = <<>> /\ d.results = [s \in Slots |-> Unused]
               /\ d.isWriting = FALSE /\ d.needsClear = FALSE
  BY DEF Init
<1>2. Shaped(d) /\ ~d.async.isActive
  <2>1. DOMAIN d.async = CommandFields /\ ~d.async.isActive
    BY <1>1 DEF NoCommand
  <2>2. /\ DOMAIN d.port = {"lib", "mode", "interrupts", "wire"}
        /\ DOMAIN d.port.lib = Link!Links /\ d.port.lib["spi"] = Link!Disabled
    BY <1>1 DEF Link!ClosedPort, Link!Links
  <2>3. DOMAIN Link!Disabled = {"isEnabled", "asyncState", "asyncData"}
    BY DEF Link!Disabled
  <2>. QED
    BY <1>1, <2>1, <2>2, <2>3 DEF Shaped
<1>3. Started(m)
  BY <1>1, <1>2, StartParts DEF Started, SameQueue
<1>4. Kind(adapter) /\ main.pc = "main"
  BY FreshParts, FreshIsKind DEF Init
<1>5. Writing = FALSE /\ Coming = {}
  BY <1>4 DEF Writing, Coming
<1>. QED
  BY <1>3, <1>4, <1>5, StartedIsRight

LEMMA DeactivatedParts ==
  ASSUME Sound(m), Right(m, adapter, Writing, Coming)
  PROVE  /\ Right(Deactivated, adapter, Writing, Coming)
         /\ Deactivated.requests = <<>> /\ Deactivated.isWriting = m.isWriting
         /\ Deactivated.needsClear = (m.needsClear \/ m.isWriting)
<1>. DEFINE d == [m EXCEPT !.isEnabled = FALSE, !.error = "NONE"]
            e == Deactivated
<1>1. /\ Shaped(d) /\ SameQueue(m, d)
  BY DEF Sound, Shaped, SameQueue
<1>2. e = stop(resetState(d))
  BY DEF Deactivated
<1>3. Queued(d, Coming) /\ Clearing(d, Writing)
  <2>. HIDE DEF d
  <2>1. Queued(d, Coming)
    BY <1>1, SameIsQueued DEF Right, SameQueue
  <2>2. d.state = m.state
    BY SoundParts DEF Shaped, d
  <2>. QED
    BY <1>1, <2>1, <2>2 DEF Right, Clearing, SameQueue
<1>. HIDE DEF d, e
<1>4. Kind(adapter)
  BY DEF Right, InTune
<1>5. Right(e, adapter, Writing, Coming)
  BY <1>1, <1>2, <1>3, <1>4, StoppedAnyway
<1>6. /\ e.requests = <<>> /\ e.isWriting = d.isWriting
      /\ e.needsClear = (d.needsClear \/ d.isWriting)
  BY <1>1, <1>2, StoppedParts
<1>. QED
  BY <1>1, <1>5, <1>6 DEF e, SameQueue

LEMMA ActivateIsRight ==
  ASSUME AnswersAreRight, activate
  PROVE  Right(m', adapter, Writing', Coming')
<1>. DEFINE d == Deactivated
            e == [d EXCEPT !.isEnabled = TRUE]
            f == start(e)
<1>1. Sound(m) /\ Right(m, adapter, Writing, Coming) /\ main.pc = "main" /\ main' = main
  BY DEF AnswersAreRight, activate, At
<1>2. Writing = FALSE /\ Writing' = FALSE /\ Coming' = {}
  <2>1. main.pc = "main" /\ main'.pc = "main"
    BY <1>1
  <2>2. Writing = FALSE
    BY <2>1 DEF Writing
  <2>3. Writing' = FALSE /\ Coming' = {}
    BY <2>1 DEF Writing, Coming
  <2>. QED
    BY <2>2, <2>3
<1>3. m.isWriting = FALSE /\ m.needsClear = FALSE
  BY <1>1, <1>2 DEF Right, Clearing
<1>4. d.requests = <<>> /\ d.isWriting = FALSE /\ d.needsClear = FALSE
  BY <1>1, <1>3, DeactivatedParts
<1>5. Shaped(d) /\ ~d.async.isActive
  BY <1>1, Stopped
<1>6. m' = [f EXCEPT !.results = [s \in Slots |-> Unused]]
  BY DEF activate
<1>. HIDE DEF d
<1>7. /\ Shaped(e) /\ ~e.async.isActive /\ SameQueue(d, e)
  BY <1>5 DEF Shaped, SameQueue
<1>. HIDE DEF e
<1>8. /\ SameQueue(e, f) /\ f.state = "PINGING" /\ f.pending = Zero
      /\ f.port.wire = Link!NoWord /\ f.async = e.async /\ DOMAIN f = Fields
  BY <1>7, StartParts
<1>. HIDE DEF f
<1>9. Started(m')
  BY <1>4, <1>6, <1>7, <1>8 DEF Started, SameQueue
<1>10. Kind(adapter)
  BY <1>1 DEF Right, InTune
<1>. QED
  BY <1>2, <1>9, <1>10, StartedIsRight

LEMMA DeactivateIsRight ==
  ASSUME AnswersAreRight, deactivate
  PROVE  Right(m', adapter, Writing', Coming')
<1>1. m' = Deactivated /\ main' = main
  BY DEF deactivate
<1>2. Writing' = Writing /\ Coming' = Coming
  BY <1>1 DEF Writing, Coming
<1>. QED
  BY <1>1, <1>2, DeactivatedParts DEF AnswersAreRight

\* A request has a struct for its result, which no other request waits for.
Fits(d, type, slot, asks) ==
  /\ asks \in AllQuestions
  /\ type \in Types /\ slot \in Slots \cup {NoSlot} /\ (slot = NoSlot <=> type \notin Answered)
  /\ slot \in Slots => \/ d.results[slot].completed
                       \/ \A i \in 1..Len(d.requests) : d.requests[i].slot # slot

\* ... and the struct waits for its result from then on.
Gives(d, e, type, slot, asks, r) ==
  /\ r = [NoRequest EXCEPT !.type = type, !.slot = slot, !.asks = asks]
  /\ e.requests = d.requests
  /\ e.results = [s \in Slots |-> IF s # slot THEN d.results[s]
                                  ELSE [Unused EXCEPT !.completed = FALSE, !.type = type, !.asks = asks]]

LEMMA RequestIsQueued ==
  ASSUME NEW d, Queued(d, {}), NEW type, NEW slot, NEW asks, Fits(d, type, slot, asks),
         NEW r, NEW e, Gives(d, e, type, slot, asks, r)
  PROVE  Queued(e, {r})
<1>. DEFINE q == d.requests
            new == [Unused EXCEPT !.completed = FALSE, !.type = type, !.asks = asks]
<1>1. /\ DOMAIN new = ResultFields /\ new.completed = FALSE /\ new.type = type
      /\ new.asks = asks /\ new.success = FALSE
  BY DEF Unused, ResultFields
<1>2. r \in Requests /\ r.type = type /\ r.slot = slot /\ r.asks = asks /\ ~r.finished
  BY DEF NoRequest, Requests, Fits, Gives
<1>3. /\ Results(d) /\ q \in Seq(Requests)
      /\ \A i \in 1..Len(q) : q[i].finished => i = 1
      /\ \A i \in 1..Len(q) : ~q[i].finished => Awaits(d, q[i])
      /\ \A i \in 1..Len(q) : \A j \in 1..Len(q) :
            ~q[i].finished /\ ~q[j].finished /\ i # j => q[i].slot # q[j].slot \/ q[i].slot = NoSlot
  BY DEF Queued
<1>4. \A i \in 1..Len(q) : q[i] \in Requests
  BY <1>3, ElementOfSeq
<1>. HIDE DEF new, q
<1>5. /\ DOMAIN e.results = Slots
      /\ \A s \in Slots : e.results[s] = IF s # slot THEN d.results[s] ELSE new
  BY DEF new, Gives
<1>6. Results(e)
  BY <1>1, <1>3, <1>5 DEF Results, Holds
<1>7. \A i \in 1..Len(q) : ~q[i].finished => q[i].slot # slot \/ slot = NoSlot
  BY <1>3, <1>4, RequestParts DEF Awaits, q, Fits
<1>8. \A i \in 1..Len(q) : ~q[i].finished => Awaits(e, q[i])
  <2>. SUFFICES ASSUME NEW i \in 1..Len(q), ~q[i].finished, q[i].slot \in Slots
                PROVE  /\ e.results[q[i].slot].type = q[i].type
                       /\ e.results[q[i].slot].asks = q[i].asks /\ ~e.results[q[i].slot].completed
    BY DEF Awaits
  <2>1. q[i].slot # slot
    BY <1>7, RequestParts, <1>2
  <2>2. e.results[q[i].slot] = d.results[q[i].slot]
    BY <1>5, <2>1
  <2>. QED
    BY <1>3, <2>2 DEF Awaits
<1>9. Awaits(e, r)
  BY <1>1, <1>2, <1>5 DEF Awaits
<1>10. \A i \in 1..Len(q) : ~q[i].finished => q[i].slot # r.slot \/ r.slot = NoSlot
  BY <1>2, <1>7
<1>. QED
  BY <1>2, <1>3, <1>6, <1>8, <1>9, <1>10 DEF Queued, Gives, q

\* A struct that no request waits for fails.
LEMMA RefusedIsQueued ==
  ASSUME NEW d, Queued(d, {}), NEW slot \in Slots,
         \/ d.results[slot].completed
         \/ \A i \in 1..Len(d.requests) : d.requests[i].slot # slot,
         NEW e, e.requests = d.requests,
         e.results = [d.results EXCEPT ![slot].completed = TRUE, ![slot].success = FALSE]
  PROVE  Queued(e, {})
<1>. DEFINE q == d.requests
            new == [d.results[slot] EXCEPT !.completed = TRUE, !.success = FALSE]
<1>1. /\ Results(d) /\ q \in Seq(Requests)
      /\ \A i \in 1..Len(q) : q[i].finished => i = 1
      /\ \A i \in 1..Len(q) : ~q[i].finished => Awaits(d, q[i])
      /\ \A i \in 1..Len(q) : \A j \in 1..Len(q) :
            ~q[i].finished /\ ~q[j].finished /\ i # j => q[i].slot # q[j].slot \/ q[i].slot = NoSlot
  BY DEF Queued
<1>2. DOMAIN d.results = Slots /\ DOMAIN d.results[slot] = ResultFields
  BY <1>1 DEF Results
<1>3. DOMAIN new = ResultFields /\ new.completed = TRUE /\ new.success = FALSE
  BY <1>2 DEF ResultFields
<1>4. e.results = [d.results EXCEPT ![slot] = new]
  BY <1>2
<1>. HIDE DEF new, q
<1>5. /\ DOMAIN e.results = Slots /\ e.results[slot] = new
      /\ \A s \in Slots : s # slot => e.results[s] = d.results[s]
  BY <1>2, <1>4
<1>6. Results(e)
  BY <1>1, <1>3, <1>5 DEF Results, Holds
<1>7. \A i \in 1..Len(q) : ~q[i].finished => Awaits(e, q[i])
  <2>. SUFFICES ASSUME NEW i \in 1..Len(q), ~q[i].finished, q[i].slot \in Slots
                PROVE  /\ e.results[q[i].slot].type = q[i].type
                       /\ e.results[q[i].slot].asks = q[i].asks /\ ~e.results[q[i].slot].completed
    BY DEF Awaits
  <2>1. Awaits(d, q[i])
    BY <1>1
  <2>2. q[i].slot # slot
    BY <2>1 DEF Awaits, q
  <2>3. e.results[q[i].slot] = d.results[q[i].slot]
    BY <1>5, <2>2
  <2>. QED
    BY <2>1, <2>3 DEF Awaits
<1>. QED
  BY <1>1, <1>6, <1>7 DEF Queued, q

LEMMA AppendedIsQueued ==
  ASSUME NEW d, NEW r, Queued(d, {r}), NEW e, e.requests = Append(d.requests, r),
         e.results = d.results
  PROVE  /\ Queued(e, {}) /\ e.requests # <<>>
         /\ d.requests # <<>> => e.requests[1] = d.requests[1]
<1>. DEFINE q == d.requests
            t == e.requests
<1>1. /\ Results(d) /\ q \in Seq(Requests)
      /\ \A i \in 1..Len(q) : q[i].finished => i = 1
      /\ \A i \in 1..Len(q) : ~q[i].finished => Awaits(d, q[i])
      /\ \A i \in 1..Len(q) : \A j \in 1..Len(q) :
            ~q[i].finished /\ ~q[j].finished /\ i # j => q[i].slot # q[j].slot \/ q[i].slot = NoSlot
      /\ r \in Requests /\ ~r.finished /\ Awaits(d, r)
      /\ \A i \in 1..Len(q) : ~q[i].finished => q[i].slot # r.slot \/ r.slot = NoSlot
  BY DEF Queued
<1>. HIDE DEF q
<1>2. t = Append(q, r) /\ Len(q) \in Nat
  BY <1>1, LenProperties DEF q
<1>. HIDE DEF t
<1>3. /\ t \in Seq(Requests) /\ Len(t) = Len(q) + 1 /\ t[Len(q) + 1] = r
      /\ \A i \in 1..Len(q) : t[i] = q[i]
  BY <1>1, <1>2, AppendProperties
<1>4. \A i \in 1..Len(t) : (i \in 1..Len(q) /\ t[i] = q[i]) \/ (i = Len(t) /\ t[i] = r)
  BY <1>2, <1>3
<1>5. Results(e) /\ \A x : Awaits(d, x) => Awaits(e, x)
  BY <1>1 DEF Results, Holds, Awaits
<1>6. \A i \in 1..Len(t) : (t[i].finished => i = 1) /\ (~t[i].finished => Awaits(e, t[i]))
  BY <1>1, <1>4, <1>5
<1>7. \A i \in 1..Len(t) : \A j \in 1..Len(t) :
         ~t[i].finished /\ ~t[j].finished /\ i # j => t[i].slot # t[j].slot \/ t[i].slot = NoSlot
  BY <1>1, <1>4
<1>8. Queued(e, {})
  BY <1>3, <1>5, <1>6, <1>7 DEF Queued, t
<1>9. q # <<>> => 1 \in 1..Len(q)
  BY <1>1, <1>2, EmptySeq
<1>10. t # <<>>
  BY <1>2, <1>3, EmptySeq
<1>. QED
  BY <1>3, <1>8, <1>9, <1>10 DEF q, t

\* What the program does leaves the rest of the driver as it is.
Beyond(d, e) ==
  /\ SameLink(d, e) /\ e.state = d.state /\ e.asked = d.asked
  /\ d.async.isActive /\ d.requests # <<>> => e.requests # <<>> /\ e.requests[1] = d.requests[1]

\* The command under way is still for the first request.
LEMMA StillServed ==
  ASSUME NEW d, NEW a, NEW writing, NEW coming, Right(d, a, writing, coming),
         NEW e, Beyond(d, e), NEW now, NEW next, Queued(e, next), Clearing(e, now)
  PROVE  Right(e, a, now, next)
<1>1. Worded(e)
  BY DEF Right, Worded, SameLink, Beyond
<1>2. d.async.isActive => Commanded(e)
  BY DEF Right, Commanded, Served, SameLink, Beyond
<1>3. d.async.isActive /\ d.asked \in Answered => e.requests[1] = d.requests[1]
  BY DEF Right, Commanded, Served, Beyond
<1>4. d.async.isActive /\ d.async.id \in Answered /\ d.async.direction = "RECEIVING"
        => d.asked \in Answered
  BY DEF Right, Hearing, Named
<1>5. d.async.isActive => Hearing(e)
  BY <1>3, <1>4 DEF Right, Hearing, Named, Told, SameLink, Beyond
<1>6. InTune(e, a)
  BY <1>3 DEF Right, InTune, SameLink, Beyond
<1>. QED
  BY <1>1, <1>2, <1>5, <1>6 DEF Right, SameLink, Beyond

LEMMA RequestIsRight ==
  ASSUME AnswersAreRight, NEW type \in use[1], NEW slot \in SlotsFor(type),
         NEW asks \in AskedWith(slot), Request(type, slot, asks)
  PROVE  Right(m', adapter, Writing', Coming')
<1>. DEFINE r == [NoRequest EXCEPT !.type = type, !.slot = slot, !.asks = asks]
            results == [s \in Slots |-> IF s # slot THEN m.results[s]
                          ELSE [Unused EXCEPT !.completed = FALSE, !.type = type, !.asks = asks]]
<1>1. /\ Shaped(m) /\ Right(m, adapter, Writing, Coming) /\ main.pc = "main"
      /\ DOMAIN main = {"pc", "request", "cleared"} /\ use \in Uses
  BY SoundParts DEF AnswersAreRight, Programmed, Request, At
<1>2. type \in Types
  BY <1>1, LinkMobileAssumption
<1>3. Fits(m, type, slot, asks)
  <2>1. asks \in AllQuestions
    BY LinkMobileAssumption DEF SlotsFor, AskedWith, AllQuestions
  <2>. QED
    BY <1>2, <2>1, LinkMobileAssumption DEF SlotsFor, Free, Fits
<1>4. /\ main' = [main EXCEPT !.pc = "writing", !.request = r]
      /\ m' = [m EXCEPT !.isWriting = TRUE, !.results = results]
  BY <1>1 DEF Request, Shaped
<1>. HIDE DEF r, results
<1>5. main'.pc = "writing" /\ main'.request = r
  BY <1>1, <1>4
<1>6. Writing = FALSE /\ Coming = {}
  BY <1>1 DEF Writing, Coming
<1>7. Writing' = TRUE /\ Coming' = {r}
  BY <1>5 DEF Writing, Coming
<1>8. /\ m'.requests = m.requests /\ m'.results = results /\ m'.isWriting = TRUE
      /\ m'.needsClear = m.needsClear /\ Beyond(m, m')
  BY <1>1, <1>4 DEF Shaped, Beyond, SameLink
<1>9. Queued(m, {}) /\ m.isWriting = FALSE /\ (m.needsClear => m.isWriting)
  BY <1>1, <1>6 DEF Right, Clearing
<1>10. Queued(m', {r})
  <2>1. Gives(m, m', type, slot, asks, r)
    BY <1>8 DEF Gives, r, results
  <2>. QED
    BY <1>3, <1>9, <2>1, RequestIsQueued
<1>11. Clearing(m', Writing')
  BY <1>7, <1>8, <1>9 DEF Clearing
<1>. QED
  BY <1>1, <1>7, <1>8, <1>10, <1>11, StillServed

LEMMA RefusedIsRight ==
  ASSUME AnswersAreRight, NEW type \in use[1], NEW slot \in SlotsFor(type),
         Refused(type, slot)
  PROVE  Right(m', adapter, Writing', Coming')
<1>. DEFINE results == [m.results EXCEPT ![slot].completed = TRUE, ![slot].success = FALSE]
<1>1. /\ Shaped(m) /\ Right(m, adapter, Writing, Coming) /\ main.pc = "main" /\ main' = main
  BY SoundParts DEF AnswersAreRight, Refused, At
<1>2. /\ slot \in Slots
      /\ \/ m.results[slot].completed
         \/ \A i \in 1..Len(m.requests) : m.requests[i].slot # slot
  BY DEF SlotsFor, Free, Refused
<1>3. m' = [m EXCEPT !.results = results]
  <2>. DEFINE q == [m.results EXCEPT ![slot].completed = TRUE]
              e == [m EXCEPT !.results = q]
  <2>1. m' = [m EXCEPT !.results[slot].completed = TRUE, !.results[slot].success = FALSE]
    BY DEF Refused
  <2>2. /\ [m EXCEPT !.results[slot].completed = TRUE] = e
        /\ e.results = q /\ DOMAIN e = Fields
    BY <1>1 DEF Shaped
  <2>3. m' = [e EXCEPT !.results[slot].success = FALSE]
    BY <2>1, <2>2
  <2>4. m' = [e EXCEPT !.results = [q EXCEPT ![slot].success = FALSE]]
    BY <2>2, <2>3
  <2>5. [q EXCEPT ![slot].success = FALSE] = results
    OBVIOUS
  <2>. HIDE DEF q, results
  <2>. QED
    BY <1>1, <2>4, <2>5 DEF Shaped
<1>. HIDE DEF results
<1>4. Writing = FALSE /\ Coming = {}
  BY <1>1 DEF Writing, Coming
<1>5. Writing' = Writing /\ Coming' = {}
  <2>1. main'.pc = "main"
    BY <1>1
  <2>2. Writing' = FALSE /\ Coming' = {}
    BY <2>1 DEF Writing, Coming
  <2>. QED
    BY <1>4, <2>2
<1>6. /\ m'.requests = m.requests /\ m'.results = results /\ m'.isWriting = m.isWriting
      /\ m'.needsClear = m.needsClear /\ Beyond(m, m')
  BY <1>1, <1>3 DEF Shaped, Beyond, SameLink
<1>7. Queued(m, {}) /\ Clearing(m, Writing)
  BY <1>1, <1>4 DEF Right
<1>8. Queued(m', {})
  <2>1. m'.results = [m.results EXCEPT ![slot].completed = TRUE, ![slot].success = FALSE]
    BY <1>6 DEF results
  <2>. QED
    BY <1>2, <1>6, <1>7, <2>1, RefusedIsQueued
<1>9. Clearing(m', Writing')
  BY <1>5, <1>6, <1>7 DEF Clearing, Beyond
<1>. QED
  BY <1>1, <1>5, <1>6, <1>8, <1>9, StillServed

LEMMA PushIsRight ==
  ASSUME AnswersAreRight, Push
  PROVE  Right(m', adapter, Writing', Coming')
<1>1. /\ Shaped(m) /\ Sound(m) /\ Right(m, adapter, Writing, Coming)
      /\ DOMAIN main = {"pc", "request", "cleared"}
  BY SoundParts DEF AnswersAreRight, Programmed
<1>2. CASE RearMoves
  <2>1. /\ main.pc = "writing" /\ m' = m
        /\ main' = [main EXCEPT !.pc = "storing", !.cleared = m.needsClear]
    BY <1>2 DEF RearMoves, At
  <2>2. main'.pc = "storing" /\ main'.request = main.request
    BY <1>1, <2>1
  <2>3. Writing = TRUE /\ Coming = {main.request}
    BY <2>1 DEF Writing, Coming
  <2>4. Writing' = TRUE /\ Coming' = {main.request}
    BY <2>2 DEF Writing, Coming
  <2>. QED
    BY <1>1, <2>1, <2>3, <2>4
<1>3. CASE RequestStored
  <2>1. main.pc = "storing"
    BY <1>3 DEF RequestStored, At
  <2>2. Writing = TRUE /\ Coming = {main.request}
    BY <2>1 DEF Writing, Coming
  <2>3. CASE main' = [main EXCEPT !.pc = "out of bounds"] /\ m' = m
    <3>1. main'.pc = "out of bounds"
      BY <1>1, <2>3
    <3>2. Writing' = TRUE /\ Coming' = {}
      BY <3>1 DEF Writing, Coming
    <3>3. Queued(m, {})
      BY <1>1, <2>2 DEF Right, Queued
    <3>. QED
      BY <1>1, <2>2, <2>3, <3>2, <3>3 DEF Right
  <2>4. CASE /\ main' = [main EXCEPT !.pc = "stored"]
             /\ m' = [m EXCEPT !.requests = Append(@, main.request)]
    <3>1. main'.pc = "stored"
      BY <1>1, <2>4
    <3>2. Writing' = TRUE /\ Coming' = {}
      BY <3>1 DEF Writing, Coming
    <3>3. /\ m'.requests = Append(m.requests, main.request) /\ m'.results = m.results
          /\ m'.isWriting = m.isWriting /\ m'.needsClear = m.needsClear
          /\ SameLink(m, m') /\ m'.state = m.state /\ m'.asked = m.asked
      BY <1>1, <2>4 DEF Shaped, SameLink
    <3>4. Queued(m, {main.request}) /\ Clearing(m, Writing)
      BY <1>1, <2>2 DEF Right
    <3>5. /\ Queued(m', {}) /\ m'.requests # <<>>
          /\ m.requests # <<>> => m'.requests[1] = m.requests[1]
      BY <3>3, <3>4, AppendedIsQueued
    <3>6. Clearing(m', Writing')
      BY <2>2, <3>2, <3>3, <3>4 DEF Clearing
    <3>7. Beyond(m, m')
      BY <3>3, <3>5 DEF Beyond
    <3>. QED
      BY <1>1, <3>2, <3>5, <3>6, <3>7, StillServed
  <2>. QED
    BY <1>3, <2>3, <2>4 DEF RequestStored
<1>4. CASE PushEnds
  <2>1. /\ main.pc = "stored"
        /\ m' = [m EXCEPT !.isWriting = FALSE, !.needsClear = FALSE,
                          !.requests = IF m.needsClear THEN <<>> ELSE @]
        /\ main' = [main EXCEPT !.pc = "main", !.request = NoRequest, !.cleared = FALSE]
    BY <1>4 DEF PushEnds, At
  <2>2. Writing = TRUE /\ Coming = {}
    BY <2>1 DEF Writing, Coming
  <2>3. main'.pc = "main"
    BY <1>1, <2>1
  <2>4. Writing' = FALSE /\ Coming' = {}
    BY <2>3 DEF Writing, Coming
  <2>5. /\ m'.requests = (IF m.needsClear THEN <<>> ELSE m.requests) /\ m'.results = m.results
        /\ m'.isWriting = FALSE /\ m'.needsClear = FALSE
        /\ SameLink(m, m') /\ m'.state = m.state /\ m'.asked = m.asked
    BY <1>1, <2>1 DEF Shaped, SameLink
  <2>6. Queued(m, {})
    BY <1>1, <2>2 DEF Right
  <2>7. Queued(m', {})
    BY <2>5, <2>6, SameIsQueued, ClearedIsQueued
  <2>8. Clearing(m', Writing')
    BY <2>4, <2>5 DEF Clearing
  <2>9. m.needsClear => ~m.async.isActive
    BY <1>1 DEF Right, Clearing, Sound, Calm
  <2>10. m.async.isActive => m'.requests = m.requests
    BY <2>5, <2>9
  <2>11. Beyond(m, m')
    BY <2>5, <2>10 DEF Beyond
  <2>. QED
    BY <1>1, <2>4, <2>7, <2>8, <2>11, StillServed
<1>. QED
  BY <1>2, <1>3, <1>4 DEF Push

LEMMA WaitsAreRight ==
  ASSUME AnswersAreRight, WaitEnds \/ \E s \in Slots : waitFor(s)
  PROVE  Right(m', adapter, Writing', Coming')
<1>1. m' = m /\ main.pc \in {"main", "waitFor"} /\ main'.pc \in {"main", "waitFor"}
  BY DEF AnswersAreRight, Programmed, WaitEnds, waitFor, At
<1>2. ASSUME NEW pc, pc \in {"main", "waitFor"}
      PROVE  /\ (pc \in {"writing", "storing", "stored", "out of bounds"}) = FALSE
             /\ pc \notin {"writing", "storing"}
  <2>1. CASE pc = "main"
    BY <2>1
  <2>2. CASE pc = "waitFor"
    BY <2>2
  <2>. QED
    BY <1>2, <2>1, <2>2
<1>3. Writing = FALSE /\ Writing' = FALSE
  BY <1>1, <1>2, Zenon DEF Writing
<1>4. Coming = {} /\ Coming' = {}
  BY <1>1, <1>2, Zenon DEF Coming
<1>. QED
  BY <1>1, <1>3, <1>4 DEF AnswersAreRight

LEMMA ProgramStays ==
  ASSUME Programmed, [Next]_vars
  PROVE  Programmed'
<1>1. use' = use
  BY DEF Next, VBlank, Timer, Serial, GarbledSerial, AdapterAnswers, OddAnswer, RemoteHangsUp,
         AdapterLeaves, AdapterSleeps, activate, deactivate, Push, RearMoves, RequestStored,
         PushEnds, WaitEnds, waitFor, Request, Refused, vars
<1>2. DOMAIN main' = DOMAIN main
  BY DEF Next, VBlank, Timer, Serial, GarbledSerial, AdapterAnswers, OddAnswer, RemoteHangsUp,
         AdapterLeaves, AdapterSleeps, activate, deactivate, Push, RearMoves, RequestStored,
         PushEnds, WaitEnds, waitFor, Request, Refused, vars
<1>. QED
  BY <1>1, <1>2 DEF Programmed

LEMMA NextIsRight ==
  ASSUME AnswersAreRight, [Next]_vars
  PROVE  Right(m', adapter', Writing', Coming')
<1>. USE DEF AnswersAreRight
<1>1. ASSUME main' = main PROVE Writing' = Writing /\ Coming' = Coming
  BY <1>1 DEF Writing, Coming
<1>2. CASE VBlank
  <2>1. main' = main /\ adapter' = adapter
    BY <1>2 DEF VBlank
  <2>. QED
    BY <1>1, <1>2, <2>1, VBlankIsRight
<1>3. CASE Timer
  <2>1. main' = main /\ adapter' = adapter
    BY <1>3 DEF Timer
  <2>. QED
    BY <1>1, <1>3, <2>1, TimerIsRight
<1>4. CASE Serial \/ GarbledSerial
  <2>1. main' = main
    BY <1>4 DEF Serial, GarbledSerial
  <2>. QED
    BY <1>1, <1>4, <2>1, WordIsRight
<1>5. CASE AdapterAnswers \/ OddAnswer \/ RemoteHangsUp \/ AdapterLeaves \/ AdapterSleeps
  <2>1. main' = main /\ m' = m
    BY <1>5 DEF AdapterAnswers, OddAnswer, RemoteHangsUp, AdapterLeaves, AdapterSleeps
  <2>2. Right(m, adapter', Writing, Coming)
    BY <1>5, AdapterIsRight
  <2>. QED
    BY <1>1, <2>1, <2>2
<1>6. CASE activate
  BY <1>6, ActivateIsRight DEF activate
<1>7. CASE deactivate
  BY <1>7, DeactivateIsRight DEF deactivate
<1>8. CASE Push
  <2>1. adapter' = adapter
    BY <1>8 DEF Push, RearMoves, RequestStored, PushEnds
  <2>. QED
    BY <1>8, <2>1, PushIsRight
<1>9. ASSUME NEW type \in use[1], NEW slot \in SlotsFor(type),
             Refused(type, slot) \/ \E asks \in AskedWith(slot) : Request(type, slot, asks)
      PROVE  Right(m', adapter', Writing', Coming')
  <2>1. adapter' = adapter
    BY <1>9 DEF Request, Refused
  <2>. QED
    BY <1>9, <2>1, RequestIsRight, RefusedIsRight
<1>10. CASE WaitEnds \/ \E s \in Slots : waitFor(s)
  <2>1. adapter' = adapter
    BY <1>10 DEF WaitEnds, waitFor
  <2>. QED
    BY <1>10, <2>1, WaitsAreRight
<1>11. CASE UNCHANGED vars
  <2>1. main' = main /\ adapter' = adapter /\ m' = m
    BY <1>11 DEF vars
  <2>. QED
    BY <1>1, <2>1
<1>. QED
  BY <1>2, <1>3, <1>4, <1>5, <1>6, <1>7, <1>8, <1>9, <1>10, <1>11 DEF Next

(* A struct that reports success holds the answer to what the last request *)
(* it was given to asks for, whatever the program asks for with any number *)
(* of structs and whenever it stops: no answer that comes late, to another *)
(* request, or to a command of an earlier session is put into it, and no   *)
(* request that was aborted counts as answered.                            *)
THEOREM AnswersStayTrue == Spec => []AnswersBelong
<1>1. Init => AnswersAreRight
  <2>. SUFFICES ASSUME Init PROVE AnswersAreRight
    OBVIOUS
  <2>1. Programmed
    BY DEF Init, Programmed
  <2>. QED
    BY <2>1, InitIsSound, InitIsRight DEF AnswersAreRight
<1>2. AnswersAreRight /\ [Next]_vars => AnswersAreRight'
  <2>. SUFFICES ASSUME AnswersAreRight, [Next]_vars PROVE AnswersAreRight'
    OBVIOUS
  <2>1. Sound(m') /\ Programmed'
    BY NextIsSound, ProgramStays DEF AnswersAreRight
  <2>2. Right(m', adapter', Writing', Coming')
    BY NextIsRight
  <2>3. Sound(m)' = Sound(m') /\ Right(m, adapter, Writing, Coming)' = Right(m', adapter', Writing', Coming')
    OBVIOUS
  <2>. QED
    BY <2>1, <2>2, <2>3 DEF AnswersAreRight
<1>3. AnswersAreRight => AnswersBelong
  BY DEF AnswersAreRight, Right, Queued, Results, Holds, AnswersBelong
<1>. QED
  BY <1>1, <1>2, <1>3, PTL DEF Spec

=============================================================================
