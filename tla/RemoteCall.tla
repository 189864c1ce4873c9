----------------------------- MODULE RemoteCall -----------------------------
(***************************************************************************)
(* The remote calls of puffboy_advance, word by word: the framing of       *)
(* shared/command.h, wait_for of wii/pba_ops.c, the conversation of        *)
(* CMD_WRITE in wii/node/write.c, and on the other side the loop of main() *)
(* and handle_write_request of gba/src/main.cpp.                           *)
(*                                                                         *)
(* A message is a sequence of words of W bits (32 in the code).  A packet  *)
(* has its top bit set, so that it differs from the 0 the Wii reads while  *)
(* there is nothing to read, and carries W - 1 bits of the message; the    *)
(* bits that do not fit wait in the remainder.  A byte is swapped as often *)
(* as it is swapped back on the way, so words keep their values.           *)
(*                                                                         *)
(* The link is the one of JoybusPipe, with the register the Wii reads:     *)
(* a poll answers JOY_TRANS and loads the next word, or 0 while the Game   *)
(* Boy is inside send().  The Wii's file server may be ended at any time   *)
(* and started again; the Game Boy knows nothing of it.                    *)
(***************************************************************************)
EXTENDS Integers, SequencesExt

CONSTANTS
  W,            \* SIZE: the bits of a word
  Words,        \* the words messages are made of
  Room,         \* LINK_CUBE_QUEUE_SIZE
  Timeout,      \* MSG_TIMEOUT and READY_TIMEOUT
  Code,         \* CMD_STATVFS, CMD_READ, ...: the word of a command
  RequestLen,   \* the words of a request, by command (0: no request is sent)
  ResponseLen,  \* the words of a response, by command
  ChunkLen,     \* the words of a write_buf_req
  MaxCalls,     \* bound: remote calls
  MaxStarts     \* bound: starts of the file server

Commands == DOMAIN Code

ASSUME CallAssumption ==
  /\ W \in Nat \ {0, 1} /\ Words \subseteq 0..(2^W - 1)
  /\ Room \in Nat \ {0} /\ Timeout \in Nat
  /\ "WRITE" \in Commands /\ {"boot", "main", "CHUNK"} \cap Commands = {}
  /\ DOMAIN RequestLen = Commands /\ DOMAIN ResponseLen = Commands
  /\ \A c \in Commands : Code[c] \in 1..(2^(W - 1) - 1)
  /\ \A c, d \in Commands : Code[c] = Code[d] => c = d
  /\ \A c \in Commands : RequestLen[c] \in Nat /\ ResponseLen[c] \in Nat \ {0}
  /\ RequestLen["WRITE"] > 0 /\ ChunkLen \in Nat \ {0}
  /\ MaxCalls \in Nat /\ MaxStarts \in Nat \ {0}

VARIABLES
  toGba,      \* words the Game Boy has not read
  toWii,      \* words the Game Boy has sent
  JOY_TRANS,  \* the word the Wii's next read gets
  wii,        \* where the file server is
  cmd,        \* the command of its call
  polls,      \* count in wait_for
  out,        \* words it has still to write
  wiiIn,      \* its receive_response
  wiiLeft,    \* chunks left of its write (*resid)
  gba,        \* where the Game Boy is: "main" or the command it serves
  gbaOut,     \* packets it has still to send
  gbaIn,      \* its receive_response
  gbaLeft,    \* chunks left of its write (wreq.resid)
  request,    \* the message the Wii passed to send_request last
  response,   \* the message the Game Boy passed to send_request last
  garbled,    \* a write was given up in the middle for an err never set
  cut,        \* the server was ended while the Game Boy was not in main
  calls, starts

link    == <<toGba, toWii, JOY_TRANS>>
server  == <<wii, cmd, polls, out, wiiIn, wiiLeft, request>>
gameboy == <<gba, gbaOut, gbaIn, gbaLeft, response>>
faults  == <<garbled, cut>>
bounds  == <<calls, starts>>
vars == <<link, server, gameboy, faults, bounds>>

-----------------------------------------------------------------------------
(* shared/command.h: framing.                                              *)

BIT_MAX   == W - 1
CHUNK_MAX == W - 2
Mark      == 2^BIT_MAX

\* __BITS(0, n - 1) of a word, and __BITS(n, BIT_MAX) of it.
LowBits(word, n)  == word % 2^n
HighBits(word, n) == word - LowBits(word, n)

\* Mutant: a packet is not marked.
packUnmarked(s, cur) ==
  [sent      |-> Append(s.sent, s.remainder + LowBits(cur, BIT_MAX - s.carry)),
   remainder |-> HighBits(cur, BIT_MAX - s.carry) \div 2,
   carry     |-> s.carry + 1]

\* One turn of send_request's loop.
pack(s, cur) ==
  LET pkt       == Mark + s.remainder + LowBits(cur, BIT_MAX - s.carry)
      remainder == HighBits(cur, BIT_MAX - s.carry) \div 2
  IN  IF s.carry + 1 = BIT_MAX
      THEN [sent |-> s.sent \o <<pkt, Mark + remainder>>, remainder |-> 0, carry |-> 0]
      ELSE [sent |-> Append(s.sent, pkt), remainder |-> remainder,
            carry |-> s.carry + 1]

\* The packets send_request passes to do_send: those of its turns, and the
\* remainder.
Turns(msg) ==
  LET turn[i \in 0..Len(msg)] ==
        IF i = 0 THEN [sent |-> <<>>, remainder |-> 0, carry |-> 0]
        ELSE pack(turn[i - 1], msg[i])
  IN  turn

\* Mutant: the remainder is lost in the last packet.
send_request_cut(msg) ==
  LET end == Turns(msg)[Len(msg)]
  IN  IF end.carry > 0 THEN Append(end.sent, Mark) ELSE end.sent
send_request(msg) ==
  LET end == Turns(msg)[Len(msg)]
  IN  IF end.carry > 0 THEN Append(end.sent, Mark + end.remainder) ELSE end.sent

Messages(n) == [1..n -> Words]

\* The queues have room for a message and its command.
ASSUME MessagesFit ==
  \A n \in {RequestLen[c] : c \in Commands} \cup {ResponseLen[c] : c \in Commands} \cup {ChunkLen} :
    \A msg \in Messages(n) : Len(send_request(msg)) < Room

\* receive_response before its first packet, for a message of sz words.
Receive(sz) == [msg |-> <<>>, in |-> 0, carry |-> 0, first |-> TRUE, left |-> sz]

\* What it makes of a packet: the start of a message (or of a new run after
\* a full carry), or the rest of a word and the start of the next one.
receive_response(r, recv) ==
  IF r.first
  THEN [r EXCEPT !.in = LowBits(recv, BIT_MAX), !.first = FALSE]
  ELSE LET rest  == HighBits((2 * recv) % 2^W, BIT_MAX - r.carry)
           carry == r.carry + 1
       IN  IF carry = BIT_MAX
           THEN [msg |-> Append(r.msg, r.in + rest), in |-> 0, carry |-> 0,
                 first |-> TRUE, left |-> r.left - 1]
           ELSE [msg |-> Append(r.msg, r.in + rest),
                 in |-> LowBits(recv, BIT_MAX - carry), carry |-> carry,
                 first |-> FALSE, left |-> r.left - 1]

Received(r) == r.left = 0

-----------------------------------------------------------------------------
(* The link.  A full queue drops its oldest word.                          *)

Push(q, w) == Append(IF Len(q) = Room THEN Tail(q) ELSE q, w)

\* gba_read: a poll by the Wii.  Until the program on the Game Boy runs,
\* the register keeps what the loader left in it.
Poll ==
  \/ gba = "boot" /\ UNCHANGED <<toWii, JOY_TRANS>>
  \/ /\ gba # "boot"
     /\ IF toWii = <<>> THEN JOY_TRANS' = 0 /\ UNCHANGED toWii
        ELSE JOY_TRANS' = Head(toWii) /\ toWii' = Tail(toWii)
  \/ gbaOut # <<>> /\ JOY_TRANS' = 0 /\ UNCHANGED toWii

Init ==
  /\ toGba = <<>> /\ toWii = <<>>
  /\ JOY_TRANS = Mark
  /\ wii = "start" /\ cmd = "none" /\ polls = 0 /\ out = <<>>
  /\ wiiIn = Receive(0) /\ wiiLeft = 0 /\ request = <<>>
  /\ gba = "boot" /\ gbaOut = <<>> /\ gbaIn = Receive(0) /\ gbaLeft = 0
  /\ response = <<>>
  /\ garbled = FALSE /\ cut = FALSE
  /\ calls = 0 /\ starts = 1

-----------------------------------------------------------------------------
(* The Wii.                                                                *)

\* Nothing has made the two sides lose each other.  Bound: no call is made
\* once something has.
InStep == ~garbled /\ ~cut

\* A puffs callback makes a remote call.
Call ==
  /\ wii = "idle" /\ calls < MaxCalls /\ InStep
  /\ cmd' \in Commands
  /\ wii' = "clear" /\ polls' = 0
  /\ calls' = calls + 1
  /\ UNCHANGED <<link, out, wiiIn, wiiLeft, request, gameboy, faults, starts>>

\* Mutant: wait_for takes any word for the one it waits for.
WaitAny ==
  /\ wii \in {"start", "clear"}
  /\ Poll
  /\ wii' = IF wii = "start" THEN "idle" ELSE "write"
  /\ UNCHANGED <<toGba, cmd, polls, out, wiiIn, wiiLeft, request, gameboy, faults,
                 bounds>>

\* wait_clear: polls until it reads 0; ends the server after Timeout words.
wait_for ==
  /\ wii \in {"start", "clear"}
  /\ Poll
  /\ \/ /\ JOY_TRANS = 0
        /\ wii' = IF wii = "start" THEN "idle" ELSE "write"
        /\ UNCHANGED polls
     \/ /\ JOY_TRANS # 0 /\ polls > Timeout
        /\ wii' = "exited"
        /\ UNCHANGED polls
     \/ /\ JOY_TRANS # 0 /\ polls <= Timeout
        /\ polls' = polls + 1
        /\ UNCHANGED wii
  /\ UNCHANGED <<toGba, cmd, out, wiiIn, wiiLeft, request, gameboy, faults, bounds>>

\* The command word and, when the call has one, the request.  *resid is a
\* word of a write's request.
prepare(msg) ==
  /\ request' = msg
  /\ out' = <<Code[cmd]>> \o send_request(msg)
  /\ wiiLeft' = IF cmd = "WRITE" THEN msg[1] ELSE 0
  /\ wiiIn' = Receive(ResponseLen[cmd])
  /\ wii' = "send"
  /\ UNCHANGED <<link, cmd, polls, gameboy, faults, bounds>>

Prepare ==
  /\ wii = "write"
  /\ \E msg \in Messages(RequestLen[cmd]) : prepare(msg)

\* gba_write of the next word.
Write ==
  /\ wii = "send"
  /\ toGba' = Push(toGba, Head(out))
  /\ out' = Tail(out)
  /\ wii' = IF Len(out) = 1 THEN "receive" ELSE "send"
  /\ UNCHANGED <<toWii, JOY_TRANS, cmd, polls, wiiIn, wiiLeft, request, gameboy,
                 faults, bounds>>

\* The next chunk of a write, with the response awaited for it.
NextChunk(chunk) ==
  /\ request' = chunk
  /\ out' = send_request(chunk)
  /\ wiiIn' = Receive(ResponseLen["WRITE"])
  /\ wii' = "send"

\* The call has its response: it returns, or a write goes on with a chunk.
\* puffboy_node_write looks at err after every response.
Return(resp) ==
  LET left == IF cmd = "CHUNK" THEN wiiLeft - 1 ELSE wiiLeft
      more == cmd \in {"WRITE", "CHUNK"} /\ resp[1] = 0 /\ left > 0
  IN  /\ wiiLeft' = left
      /\ IF more
         THEN /\ cmd' = "CHUNK"
              /\ \E chunk \in Messages(ChunkLen) : NextChunk(chunk)
         ELSE wii' = "idle" /\ UNCHANGED <<cmd, out, request>>
      /\ garbled' = (garbled \/ (cmd = "CHUNK" /\ resp[1] # 0 /\ left > 0))

\* do_receive: words that are 0 are passed over.
ReceiveWord ==
  /\ wii = "receive"
  /\ Poll
  /\ IF JOY_TRANS = 0
     THEN UNCHANGED <<wii, cmd, out, wiiIn, wiiLeft, request, garbled>>
     ELSE LET r == receive_response(wiiIn, JOY_TRANS) IN
          IF Received(r)
          THEN Return(r.msg) /\ (wii' = "idle" => wiiIn' = r)
          ELSE /\ wiiIn' = r
               /\ UNCHANGED <<wii, cmd, out, wiiLeft, request, garbled>>
  /\ UNCHANGED <<toGba, polls, gameboy, cut, bounds>>

\* The file server is killed, or has exited, and is started again.
Restart ==
  /\ starts < MaxStarts
  /\ starts' = starts + 1
  /\ wii' = "start" /\ polls' = 0 /\ out' = <<>>
  /\ cut' = (cut \/ gba \notin {"boot", "main"} \/ toGba # <<>>)
  /\ UNCHANGED <<link, cmd, wiiIn, wiiLeft, request, gameboy, garbled, calls>>

-----------------------------------------------------------------------------
(* The Game Boy.                                                           *)

\* activate(), and the first turn of main's loop.
Boot ==
  /\ gba = "boot"
  /\ gba' = "main"
  /\ JOY_TRANS' = 0
  /\ UNCHANGED <<toGba, toWii, server, gbaOut, gbaIn, gbaLeft, response, faults,
                 bounds>>

\* send_request with the response.
Respond(n) ==
  \E msg \in Messages(n) :
    /\ response' = msg
    /\ gbaOut' = send_request(msg)

\* main's loop: a word that is no command is passed over.
ReadCommand ==
  /\ gba = "main" /\ toGba # <<>>
  /\ toGba' = Tail(toGba)
  /\ \/ /\ \A c \in Commands : Head(toGba) # Code[c]
        /\ UNCHANGED <<gba, gbaIn, gbaOut, response>>
     \/ \E c \in Commands :
          /\ Head(toGba) = Code[c]
          /\ gba' = c
          /\ gbaIn' = Receive(RequestLen[c])
          /\ IF RequestLen[c] = 0 THEN Respond(ResponseLen[c])
             ELSE UNCHANGED <<gbaOut, response>>
  /\ UNCHANGED <<toWii, JOY_TRANS, gbaLeft, server, faults, bounds>>

(* do_receive in a handler.  With the whole request the handler answers;   *)
(* err of the answer to a chunk is whatever the stack held.                *)
ReceiveRequest ==
  /\ gba \in Commands \cup {"CHUNK"} /\ gbaOut = <<>> /\ ~Received(gbaIn)
  /\ toGba # <<>>
  /\ toGba' = Tail(toGba)
  /\ LET r == receive_response(gbaIn, Head(toGba)) IN
     /\ gbaIn' = r
     /\ IF Received(r)
        THEN /\ Respond(IF gba = "CHUNK" THEN ResponseLen["WRITE"]
                        ELSE ResponseLen[gba])
             /\ gbaLeft' = IF gba = "WRITE" THEN r.msg[1]
                           ELSE IF gba = "CHUNK" THEN gbaLeft - 1 ELSE gbaLeft
        ELSE UNCHANGED <<gbaOut, response, gbaLeft>>
  /\ UNCHANGED <<toWii, JOY_TRANS, gba, server, faults, bounds>>

\* send() of the next packet.  After its answer a handler returns to main;
\* the handler of a write stays for its chunks unless it has refused it.
SendPacket ==
  /\ gbaOut # <<>>
  /\ toWii' = Push(toWii, Head(gbaOut))
  /\ gbaOut' = Tail(gbaOut)
  /\ IF Len(gbaOut) > 1 THEN UNCHANGED <<gba, gbaIn>>
     ELSE LET stays == /\ gba = "WRITE" => response[1] = 0
                       /\ gba \in {"WRITE", "CHUNK"} /\ gbaLeft > 0
          IN  /\ gba' = IF stays THEN "CHUNK" ELSE "main"
              /\ gbaIn' = IF stays THEN Receive(ChunkLen) ELSE gbaIn
  /\ UNCHANGED <<toGba, JOY_TRANS, gbaLeft, response, server, faults, bounds>>

-----------------------------------------------------------------------------
Next == \/ Call \/ wait_for \/ Prepare \/ Write \/ ReceiveWord \/ Restart
        \/ Boot \/ ReadCommand \/ ReceiveRequest \/ SendPacket

Spec == Init /\ [][Next]_vars

(* Fairness: the Wii goes on with a call it has begun; the Game Boy boots  *)
(* and goes on with its loop.  A poll that falls into send() again and     *)
(* again is not ruled out, but send() ends.                                *)
FairSpec ==
  /\ Spec
  /\ WF_vars(wait_for) /\ WF_vars(Prepare) /\ WF_vars(Write) /\ WF_vars(ReceiveWord)
  /\ WF_vars(Boot) /\ WF_vars(ReadCommand) /\ WF_vars(ReceiveRequest)
  /\ WF_vars(SendPacket)

-----------------------------------------------------------------------------
(* Properties.                                                             *)

\* A receiver has the beginning of a message, and all of it once it stops.
Matches(r, msg) == IsPrefix(r.msg, msg) /\ (Received(r) => r.msg = msg)

(* What either side has put together from packets, before and after it     *)
(* takes in the word it reads next, is the beginning of what the other     *)
(* passed to send_request, and the whole of it when that word completes    *)
(* the message: whatever the words are, at every carry and at the last     *)
(* word too, and through commands, polls that find nothing and chunks.     *)
MessagesIntact ==
  InStep =>
    /\ gba \notin {"boot", "main"} /\ gbaOut = <<>> =>
         /\ Matches(gbaIn, request)
         /\ toGba # <<>> => Matches(receive_response(gbaIn, Head(toGba)), request)
    /\ wii = "receive" =>
         /\ Matches(wiiIn, response)
         /\ JOY_TRANS # 0 => Matches(receive_response(wiiIn, JOY_TRANS), response)

(* When a command is written nothing of an earlier call is left: no packet *)
(* is under way, which this call would take for its own, and the Game Boy  *)
(* waits for a command; after writes of several chunks too, and after a    *)
(* restart of the server with an answer under way.  One 0 would not do:    *)
(* the register is loaded by the poll before, so the first poll can answer *)
(* 0 although the Game Boy has sent words.                                 *)
QuietBeforeCommand ==
  InStep /\ wii = "write" =>
    gba = "main" /\ toGba = <<>> /\ toWii = <<>> /\ JOY_TRANS = 0

(* A call returns: no word that is awaited is 0, and neither side awaits   *)
(* more packets than the other sends.                                      *)
CallsReturn ==
  wii \in {"clear", "write", "send", "receive"}
    ~> (wii \in {"start", "idle", "exited"} \/ ~InStep)

=============================================================================
