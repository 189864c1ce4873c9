--------------------------- MODULE CableMultiboot ---------------------------
(***************************************************************************)
(* gbashared/lib/LinkCableMultiboot.hpp: a Game Boy loads a rom into up to *)
(* three others.  Async does it in the VBLANK and SERIAL handlers, while   *)
(* the program goes on; sendRom() blocks, and leaves the rom itself to     *)
(* the BIOS.                                                               *)
(*                                                                         *)
(* The SERIAL handler of Async lets other interrupts in, so that VBLANK's  *)
(* may run between two of its steps; startMultibootSend(), called by the   *)
(* handlers and by the program, sets the state before the data of the      *)
(* transfer is back.  The loaders in the other consoles' BIOS are          *)
(* external: each answers a word in the transfer that follows it.          *)
(***************************************************************************)
EXTENDS Integers, Sequences

CONSTANTS
  Clients,          \* the other consoles
  Kinds,            \* "async", "sync": the ways the program calls it
  Modes,            \* the cables: "cable" (Multi-Play) or "spi"
  HeaderParts,      \* HEADER_PARTS
  RomParts,         \* the parts of the rom after its header
  Tries,            \* DETECTION_TRIES
  InitialWait,      \* the frames startMultibootSend() waits for
  MainWait,         \* WAIT_BEFORE_MAIN_TRANSFER_FRAMES
  MaxFinal,         \* MAX_FINAL_HANDSHAKE_ATTEMPS
  MaxIrqTimeout,    \* MAX_IRQ_TIMEOUT_FRAMES
  MaxIncidents      \* bound: bit errors, clients that restart, VBLANKs at an odd moment

ASSUME CableMultibootAssumption ==
  /\ Clients \subseteq 1..3
  /\ Kinds \subseteq {"async", "sync"} /\ Modes \subseteq {"cable", "spi"}
  /\ {HeaderParts, RomParts, Tries, InitialWait, MainWait, MaxFinal, MaxIrqTimeout}
       \subseteq Nat \ {0}
  /\ InitialWait < MaxIrqTimeout /\ MainWait < MaxIrqTimeout
  /\ MaxIncidents \in Nat

VARIABLES
  port,         \* LinkRawCable and LinkSPI
  irq,          \* the responses a pending SERIAL interrupt reports
  client,       \* the loaders of the clients
  state, result,
  fixed, dyn,   \* fixedData, dynamicData
  main,         \* where the program is
  handler,      \* where the SERIAL handler is: interrupt is set unless "none"
  saved,        \* what a startMultibootSend() in progress is to put back
  response,     \* what the SERIAL handler is processing
  kind, mode,   \* the call, and config.mode
  incidents

vars == <<port, irq, client, state, result, fixed, dyn, main, handler, saved, response,
          kind, mode, incidents>>

Disconnected == <<"FFFF">>
EmptyResponse == [c \in Clients |-> Disconnected]
Link == INSTANCE LinkPort WITH Empty <- EmptyResponse

-----------------------------------------------------------------------------
(* The words, and the loader of a client.                                  *)

Handshake == <<"6200">>
Palette   == <<"63PP">>
RomEnd    == <<"0065">>
FinalCrc  == <<"0066">>
Confirm(mask)  == <<"6100", mask>>
Header(n)      == <<"header", n>>
Data           == <<"64HH">>
Length         == <<"length">>
RomWord(n)     == <<"rom", n>>
Crc(crcB, rom) == <<"crc", crcB, rom>>

Ack(c)     == <<"720X", c>>
Left(n, c) == <<"NN0X", n, c>>
Data73     == <<"73CC">>
Offset(n)  == <<"offset", n>>
RomEndAck  == <<"0075">>
Other      == <<"other">>

Loader == [phase |-> "detect", left |-> 0, seen |-> {}, rom |-> <<>>, reply |-> Other]

Off == [Loader EXCEPT !.phase = "off"]

\* Where a client may be: a SPI cable has one end.
Plugs(c) == mode = "spi" => c = 1

\* The rom is sent in halves over a cable, whole over SPI.
Halves(m) == IF m = "cable" THEN 2 ELSE 1
Whole(m) == [n \in 1..(RomParts * Halves(m)) |-> n - 1]

\* The loader k of client c after a word: it expects one thing, or starts again.
\* all are the responses of that transfer, which every console sees.
Step(k, c, word, all) ==
  CASE k.phase = "off" -> k
    [] k.phase \in {"detect", "palette"} /\ word = Handshake -> [k EXCEPT !.reply = Ack(c)]
    [] k.phase = "detect" /\ word[1] = "6100" /\ c \in word[2] ->
         [k EXCEPT !.phase = "header", !.left = HeaderParts, !.reply = Left(HeaderParts, c)]
    [] k.phase = "header" /\ word[1] = "header" ->
         [k EXCEPT !.phase = IF k.left = 1 THEN "palette" ELSE "header",
                   !.left = @ - 1, !.reply = Left(k.left - 1, c)]
    [] k.phase = "palette" /\ word[1] = "6200+" -> [k EXCEPT !.reply = Ack(c)]
    [] k.phase \in {"palette", "data"} /\ word = Palette ->
         [k EXCEPT !.phase = "data", !.reply = Data73]
    [] k.phase = "data" /\ word = Data -> [k EXCEPT !.phase = "length", !.reply = Data73]
    [] k.phase = "length" /\ word = Length ->
         [k EXCEPT !.phase = "rom", !.rom = <<>>, !.reply = Offset(0),
                   !.seen = {d \in Clients : all[d] # Disconnected}]
    [] k.phase = "rom" /\ word[1] = "rom" ->
         [k EXCEPT !.rom = Append(@, word[2]), !.reply = Offset(Len(k.rom) + 1)]
    [] k.phase \in {"rom", "end"} /\ word = RomEnd /\ k.rom = Whole(mode) ->
         [k EXCEPT !.phase = "end", !.reply = RomEndAck]
    [] k.phase = "end" /\ word = FinalCrc ->
         [k EXCEPT !.phase = "crc", !.reply = Crc(k.seen, k.rom)]
    [] k.phase = "crc" /\ word = Crc(k.seen, k.rom) -> [k EXCEPT !.phase = "run"]
    [] k.phase = "run" -> k
    [] OTHER -> Loader

\* A loader that gets no word for the frames before a handshake starts it again.
AfterWait == [c \in Clients |-> IF client[c].phase \in {"header", "palette"} THEN Loader
                               ELSE client[c]]

-----------------------------------------------------------------------------
(* What the program makes of the responses.                                *)

\* At least one client is connected, and every one is among those that pass.
validateResponse(r, pass) == LET there == {c \in Clients : r[c] # Disconnected}
                             IN  there # {} /\ there \subseteq pass

isResponseSameAsValue(r, mask, wanted) ==
  validateResponse(r, {c \in Clients : c \in mask => r[c] = wanted})

\* Here what is wanted depends on the client.
isResponseSameAsValueWithClientBit(r, mask, wanted) ==
  validateResponse(r, {c \in Clients : c \in mask => r[c] = wanted[c]})
Acks == [c \in Clients |-> Ack(c)]
Lefts(n) == [c \in Clients |-> Left(n, c)]

\* The clients found before the first response that is not an acknowledgement.
Found(r) == {c \in Clients : \A d \in 1..c \cap Clients : r[d] \in {Disconnected, Ack(d)}}
              \cap {c \in Clients : r[c] = Ack(c)}
AllFound(r) == isResponseSameAsValueWithClientBit(r, Clients, Acks)
AllSentData(r, mask) == /\ validateResponse(r, {c \in mask : r[c] = Data73})
                        /\ \A c \in mask : r[c] # Disconnected

-----------------------------------------------------------------------------
NoFixed == [rom |-> FALSE, wait |-> FALSE, mode |-> "cable"]
NoDyn == [clientMask |-> {}, crcB |-> {}, crcC |-> <<>>, irqTimeout |-> 0, waitFrames |-> 0,
          wait |-> 0, tryCount |-> 0, headerRemaining |-> 0, part |-> 0, ready |-> FALSE]

Init ==
  /\ kind \in Kinds /\ mode \in Modes
  /\ port = Link!ClosedPort
  /\ irq = EmptyResponse
  /\ client \in [Clients -> {Loader, Off}]
  /\ \A c \in Clients : client[c] = Off \/ Plugs(c)
  /\ state = "STOPPED" /\ result = "NONE"
  /\ fixed = NoFixed /\ dyn = NoDyn
  /\ main = "idle" /\ handler = "none"
  /\ saved = <<>> /\ response = EmptyResponse
  /\ incidents = 0

\* The driver's state, of which a step sets some fields.
Set(p, s, d) == port' = p /\ state' = s /\ dyn' = d
SendAsync(s, d, word) == Set(Link!transferAsync(port, fixed.mode, word), s, d)

\* stop(newResult).
stop(newResult) ==
  /\ result' = newResult
  /\ fixed' = NoFixed
  /\ Set(Link!deactivate(port, fixed.mode), "STOPPED", NoDyn)

\* startMultibootSend(), up to the assignment of state, and the rest.
\* What it puts back; the confirmed players are for display.
Restarting(d) == [fixed |-> fixed, ready |-> d.ready]
StartAgain(d) ==
  /\ result' = "NONE"
  /\ fixed' = NoFixed
  /\ saved' = Restarting(d)
  /\ Set(Link!deactivate(port, fixed.mode), "WAITING", NoDyn)
\* Mutant: a restart forgets fixedData.
PutBackForgetful ==
  /\ UNCHANGED fixed
  /\ dyn' = [dyn EXCEPT !.ready = saved.ready, !.waitFrames = InitialWait]
  /\ saved' = <<>>
PutBack ==
  /\ fixed' = saved.fixed
  /\ dyn' = [dyn EXCEPT !.ready = saved.ready, !.waitFrames = InitialWait]
  /\ saved' = <<>>

-----------------------------------------------------------------------------
(* The cable.  A transfer takes longer than the rest of the function, or   *)
(* of the SERIAL handler, that was interrupted when it began.              *)

Incident == incidents < MaxIncidents /\ incidents' = incidents + 1

\* Nobody is heard in the mode of the other cable.
Responses == [c \in Clients |-> IF client[c].phase = "off" \/ port.mode # mode
                                THEN Disconnected ELSE client[c].reply]

\* A transfer ends; with an error, which the clients may not have seen.
EndTransfer(error, lost) ==
  /\ Link!isSending(port) /\ main # "start" /\ handler = "none"
  /\ port' = Link!stopTransfer(port)
  /\ client' = IF lost \/ port.mode # mode THEN client
               ELSE [c \in Clients |-> Step(client[c], c, port.wire, Responses)]
  /\ irq' = IF error THEN EmptyResponse ELSE Responses
  /\ handler' = IF port.interrupts THEN "raised" ELSE "none"
  /\ main' = IF main = "transfer" THEN "response" ELSE main
  /\ IF error THEN Incident ELSE UNCHANGED incidents
  /\ UNCHANGED <<state, result, fixed, dyn, saved, response, kind, mode>>

\* A loader starts again, or its console is unplugged or plugged in.
Change(c) ==
  /\ client[c].phase # "run" /\ Plugs(c)
  /\ Incident
  /\ \E k \in {Loader, Off} : client' = [client EXCEPT ![c] = k]
  /\ UNCHANGED <<port, irq, state, result, fixed, dyn, main, handler, saved, response,
                 kind, mode>>

-----------------------------------------------------------------------------
(* Async: the program.                                                     *)

sendRom ==
  /\ kind = "async" /\ main = "idle" /\ handler = "none"
  /\ state = "STOPPED" /\ result = "NONE"
  /\ \E w \in BOOLEAN :
       LET f == [rom |-> TRUE, wait |-> w, mode |-> mode]
       IN  /\ saved' = [fixed |-> f, ready |-> FALSE]
           /\ port' = Link!deactivate(port, mode)
  /\ state' = "WAITING"
  /\ fixed' = NoFixed /\ dyn' = NoDyn
  /\ main' = "start"
  /\ UNCHANGED <<irq, client, result, handler, response, kind, mode, incidents>>

\* The rest of startMultibootSend(), in the program.
Resume ==
  /\ main = "start" /\ handler = "none"
  /\ PutBack
  /\ main' = "idle"
  /\ UNCHANGED <<port, irq, client, state, result, handler, response, kind, mode, incidents>>

reset ==
  /\ kind = "async" /\ main = "idle" /\ handler = "none"
  /\ state # "STOPPED"
  /\ Incident
  /\ stop("NONE")
  /\ UNCHANGED <<irq, client, main, handler, saved, response, kind, mode>>

markReady ==
  /\ main = "idle" /\ handler = "none"
  /\ state # "STOPPED" /\ ~dyn.ready /\ fixed.wait
  /\ dyn' = [dyn EXCEPT !.ready = TRUE]
  /\ UNCHANGED <<port, irq, client, state, result, fixed, main, handler, saved, response,
                 kind, mode, incidents>>

-----------------------------------------------------------------------------
(* Async: _onVBlank.  It runs where nothing keeps interrupts off, and no   *)
(* transfer takes as long as the timeout.  That it comes in the middle of  *)
(* a startMultibootSend() is an incident.                                  *)

_onVBlank ==
  /\ kind = "async" /\ state # "STOPPED"
  /\ dyn.irqTimeout + 1 >= MaxIrqTimeout => ~Link!isSending(port) /\ handler # "raised"
  /\ LET late == dyn.irqTimeout + 1 >= MaxIrqTimeout
         interrupt == handler \in {"process", "start", "end"}
         d == [dyn EXCEPT !.irqTimeout = IF late THEN MaxIrqTimeout ELSE @ + 1]
         w == [d EXCEPT !.wait = @ + 1]
     IN  \/ /\ late /\ interrupt
            /\ dyn' = d
            /\ UNCHANGED <<port, client, state, result, fixed, saved>>
         \/ /\ late /\ ~interrupt
            /\ result' = "NONE"
            /\ Set(Link!deactivate(port, fixed.mode), "WAITING",
                   [NoDyn EXCEPT !.ready = dyn.ready, !.waitFrames = InitialWait])
            /\ UNCHANGED <<client, fixed, saved>>
         \/ /\ ~late /\ state = "WAITING"
            /\ IF w.wait >= w.waitFrames
               THEN /\ Set(Link!transferAsync(Link!activate(port, fixed.mode), fixed.mode,
                                              Handshake),
                           "DETECTING_CLIENTS", w)
                    /\ client' = IF w.waitFrames = 0 THEN client ELSE AfterWait
               ELSE Set(port, state, w) /\ UNCHANGED client
            /\ UNCHANGED <<result, fixed, saved>>
         \/ /\ ~late /\ state = "WAITING_BEFORE_MAIN_TRANSFER"
            /\ IF w.wait >= w.waitFrames
               THEN SendAsync("CALCULATING_CRCB", w, Length)
               ELSE Set(port, state, w)
            /\ UNCHANGED <<client, result, fixed, saved>>
         \/ /\ ~late /\ state = "SENDING_ROM_END_WAITING"
            /\ IF d.tryCount + 1 >= MaxFinal
               THEN stop("FINAL_HANDSHAKE_FAILURE")
               ELSE /\ SendAsync("SENDING_ROM_END", [d EXCEPT !.tryCount = @ + 1], RomEnd)
                    /\ UNCHANGED <<result, fixed>>
            /\ UNCHANGED <<client, saved>>
         \/ /\ ~late
            /\ state \notin {"WAITING", "WAITING_BEFORE_MAIN_TRANSFER",
                             "SENDING_ROM_END_WAITING"}
            /\ dyn' = d
            /\ UNCHANGED <<port, client, state, result, fixed, saved>>
  /\ IF saved = <<>> THEN UNCHANGED incidents ELSE Incident
  /\ UNCHANGED <<irq, main, handler, response, kind, mode>>

-----------------------------------------------------------------------------
(* Async: _onSerial, in the steps between which VBLANK's handler may run:  *)
(* it takes the response, processes it and clears interrupt.               *)

_onSerial ==
  /\ handler = "raised"
  /\ IF state = "STOPPED"
     THEN handler' = "none" /\ UNCHANGED <<port, response>>
     ELSE LET p == Link!_onSerial(port, fixed.mode, irq)
          IN  /\ handler' = "process"
              /\ response' = Link!AsyncData(p, fixed.mode)
              /\ port' = Link!DataTaken(p, fixed.mode)
  /\ UNCHANGED <<irq, client, state, result, fixed, dyn, main, saved, kind, mode, incidents>>

Restart == StartAgain(dyn) /\ handler' = "start"
Ends(r) == stop(r) /\ handler' = "end" /\ UNCHANGED saved
\* A step that sends a word goes on with interrupts off.
Goes(s, d, word) == /\ SendAsync(s, [d EXCEPT !.irqTimeout = 0], word)
                    /\ handler' = "none"
                    /\ UNCHANGED <<result, fixed, saved>>
Waits(s, d) == /\ Set(port, s, [d EXCEPT !.irqTimeout = 0])
               /\ handler' = "end"
               /\ UNCHANGED <<result, fixed, saved>>

Detecting ==
  /\ state = "DETECTING_CLIENTS"
  /\ LET d == [dyn EXCEPT !.clientMask = Found(response)]
     IN  IF AllFound(response)
         THEN Goes("DETECTING_CLIENTS_END", d, Confirm(d.clientMask))
         ELSE IF d.tryCount + 1 >= Tries THEN Restart
         ELSE Goes(state, [d EXCEPT !.tryCount = @ + 1], Handshake)

sendHeaderPart(d) ==
  IF d.headerRemaining = 0
  THEN Goes("SENDING_PALETTE", [d EXCEPT !.tryCount = 0], Palette)
  ELSE Goes("SENDING_HEADER", d, Header(HeaderParts - d.headerRemaining))

DetectingEnd ==
  /\ state = "DETECTING_CLIENTS_END"
  /\ IF /\ isResponseSameAsValueWithClientBit(response, dyn.clientMask, Acks)
        /\ fixed.wait => dyn.ready
     THEN sendHeaderPart([dyn EXCEPT !.headerRemaining = HeaderParts])
     ELSE Restart

SendingHeader ==
  /\ state = "SENDING_HEADER"
  /\ IF isResponseSameAsValueWithClientBit(response, dyn.clientMask, Lefts(dyn.headerRemaining))
     THEN sendHeaderPart([dyn EXCEPT !.headerRemaining = @ - 1])
     ELSE Restart

SendingPalette ==
  /\ state = "SENDING_PALETTE"
  /\ IF AllSentData(response, dyn.clientMask)
     THEN Goes("CONFIRMING_HANDSHAKE_DATA", dyn, Data)
     ELSE IF dyn.tryCount + 1 >= Tries THEN Restart
     ELSE Goes(state, [dyn EXCEPT !.tryCount = @ + 1], Palette)

Confirming ==
  /\ state = "CONFIRMING_HANDSHAKE_DATA"
  /\ IF isResponseSameAsValue(response, dyn.clientMask, Data73)
     THEN Waits("WAITING_BEFORE_MAIN_TRANSFER", [dyn EXCEPT !.waitFrames = MainWait])
     ELSE Restart

sendRomPart(d) ==
  IF d.part >= RomParts * Halves(fixed.mode)
  THEN Goes("SENDING_ROM_END", [d EXCEPT !.tryCount = 0], RomEnd)
  ELSE Goes("SENDING_ROM", d, RomWord(d.part))

\* The bytes the clients contribute are taken as they are.
CalculatingCrcB ==
  /\ state = "CALCULATING_CRCB"
  /\ sendRomPart([dyn EXCEPT !.crcB = {c \in dyn.clientMask : response[c] # Disconnected},
                             !.crcC = <<>>, !.part = 0])

SendingRom ==
  /\ state = "SENDING_ROM"
  /\ IF isResponseSameAsValue(response, dyn.clientMask, Offset(dyn.part))
     THEN sendRomPart([dyn EXCEPT !.crcC = Append(@, dyn.part), !.part = @ + 1])
     ELSE Ends("SEND_FAILURE")

SendingRomEnd ==
  /\ state = "SENDING_ROM_END"
  /\ IF isResponseSameAsValue(response, dyn.clientMask, RomEndAck)
     THEN Goes("SENDING_FINAL_CRC", dyn, FinalCrc)
     ELSE Waits("SENDING_ROM_END_WAITING", dyn)

SendingFinalCrc ==
  /\ state = "SENDING_FINAL_CRC"
  /\ Goes("CHECKING_FINAL_CRC", dyn, Crc(dyn.crcB, dyn.crcC))

\* Mutant: whoever answers at the end has the rom.
AnyCrc ==
  /\ state = "CHECKING_FINAL_CRC"
  /\ Ends(IF response # EmptyResponse THEN "SUCCESS" ELSE "CRC_FAILURE")
CheckingFinalCrc ==
  /\ state = "CHECKING_FINAL_CRC"
  /\ Ends(IF isResponseSameAsValue(response, dyn.clientMask, Crc(dyn.crcB, dyn.crcC))
          THEN "SUCCESS" ELSE "CRC_FAILURE")

\* A response that comes when none is waited for.
Stale ==
  /\ state \in {"STOPPED", "WAITING", "WAITING_BEFORE_MAIN_TRANSFER",
                "SENDING_ROM_END_WAITING"}
  /\ Waits(state, dyn)

processResponse ==
  /\ handler = "process"
  /\ \/ Detecting \/ DetectingEnd \/ SendingHeader \/ SendingPalette \/ Confirming
     \/ CalculatingCrcB \/ SendingRom \/ SendingRomEnd \/ SendingFinalCrc
     \/ CheckingFinalCrc \/ Stale
  /\ response' = EmptyResponse
  /\ UNCHANGED <<irq, client, main, kind, mode, incidents>>

ResumeSerial ==
  /\ handler = "start"
  /\ PutBack
  /\ handler' = "end"
  /\ UNCHANGED <<port, irq, client, state, result, main, response, kind, mode, incidents>>

LeaveSerial ==
  /\ handler = "end"
  /\ handler' = "none"
  /\ UNCHANGED <<port, irq, client, state, result, fixed, dyn, main, saved, response, kind,
                 mode, incidents>>

-----------------------------------------------------------------------------
(* sendRom() of LinkCableMultiboot: the program sends a word, waits for    *)
(* the transfer to end and looks at the responses.                         *)

Send ==
  /\ kind = "sync" /\ main = "idle"
  /\ state = "STOPPED" /\ result = "NONE"
  /\ Set(Link!activate(port, mode), "DETECT", NoDyn)
  /\ main' = "send"
  /\ UNCHANGED <<irq, client, result, fixed, handler, saved, response, kind, mode, incidents>>

NextWord ==
  CASE state = "DETECT"  -> Handshake
    [] state = "CONFIRM" -> Confirm(dyn.clientMask)
    [] state = "HEADER"  -> Header(HeaderParts - dyn.headerRemaining)
    [] state = "AGAIN"   -> Handshake
    [] state = "AGAIN2"  -> <<"6200+">>
    [] state = "PALETTE" -> Palette
    [] state = "DATA"    -> Data

Transfer ==
  /\ main = "send" /\ state # "SWI"
  /\ port' = Link!transfer(port, mode, NextWord)
  /\ main' = "transfer"
  /\ UNCHANGED <<irq, client, state, result, fixed, dyn, handler, saved, response, kind,
                 mode, incidents>>

\* cancel() says so during a transfer.
Cancel ==
  /\ kind = "sync" /\ main = "transfer"
  /\ Incident
  /\ Set(Link!deactivate(port, mode), "STOPPED", NoDyn)
  /\ result' = "CANCELED"
  /\ main' = "idle"
  /\ UNCHANGED <<irq, client, fixed, handler, saved, response, kind, mode>>

To(s, d) == Set(port, s, d) /\ UNCHANGED client
Retry == /\ Set(Link!activate(Link!deactivate(port, mode), mode), "DETECT", NoDyn)
         /\ client' = AfterWait
\* DETECTION_TRIES times the same word.
TryAgain(d) == IF d.tryCount + 1 >= Tries THEN Retry
               ELSE To(state, [d EXCEPT !.tryCount = @ + 1])

Response ==
  /\ main = "response"
  /\ LET mask == dyn.clientMask
         n == dyn.headerRemaining
     IN  \/ /\ state = "DETECT"
            /\ LET d == [dyn EXCEPT !.clientMask = Found(irq)]
               IN  IF AllFound(irq) THEN To("CONFIRM", d) ELSE TryAgain(d)
         \/ /\ state = "CONFIRM"
            /\ IF isResponseSameAsValueWithClientBit(irq, mask, Acks)
               THEN To("HEADER", [dyn EXCEPT !.headerRemaining = HeaderParts]) ELSE Retry
         \/ /\ state = "HEADER"
            /\ IF isResponseSameAsValueWithClientBit(irq, mask, Lefts(n))
               THEN To(IF n = 1 THEN "AGAIN" ELSE state, [dyn EXCEPT !.headerRemaining = n - 1])
               ELSE Retry
         \/ /\ state = "AGAIN"
            /\ IF isResponseSameAsValueWithClientBit(irq, mask, Lefts(0))
               THEN To("AGAIN2", dyn) ELSE Retry
         \/ /\ state = "AGAIN2"
            /\ IF isResponseSameAsValueWithClientBit(irq, mask, Acks)
               THEN To("PALETTE", [dyn EXCEPT !.tryCount = 0]) ELSE Retry
         \/ /\ state = "PALETTE"
            /\ IF AllSentData(irq, mask) THEN To("DATA", dyn) ELSE TryAgain(dyn)
         \/ /\ state = "DATA"
            /\ IF isResponseSameAsValue(irq, mask, Data73) THEN To("SWI", dyn) ELSE Retry
  /\ main' = "send"
  /\ UNCHANGED <<irq, result, fixed, handler, saved, response, kind, mode, incidents>>

\* The BIOS call sends the rom to the clients that are ready for it.
_MultiBoot ==
  /\ main = "send" /\ state = "SWI"
  /\ LET ready == {c \in Clients : client[c].phase = "length"}
     IN  /\ client' = [c \in Clients |->
              IF c \in ready THEN [client[c] EXCEPT !.phase = "run", !.rom = Whole(mode)]
              ELSE client[c]]
         /\ result' = IF dyn.clientMask \subseteq ready THEN "SUCCESS"
                      ELSE "FAILURE_DURING_TRANSFER"
  /\ Set(Link!deactivate(port, mode), "STOPPED", NoDyn)
  /\ main' = "idle"
  /\ UNCHANGED <<irq, fixed, handler, saved, response, kind, mode, incidents>>

-----------------------------------------------------------------------------
Next ==
  \/ EndTransfer(FALSE, FALSE)
  \/ \E lost \in BOOLEAN : EndTransfer(TRUE, lost)
  \/ \E c \in Clients : Change(c)
  \/ sendRom \/ Resume \/ reset \/ markReady
  \/ _onVBlank \/ _onSerial \/ processResponse \/ ResumeSerial \/ LeaveSerial
  \/ Send \/ Transfer \/ Cancel \/ Response \/ _MultiBoot

Spec == Init /\ [][Next]_vars

(* Fairness: transfers end, interrupts come, their handlers and the        *)
(* program's calls go on, and the program, which gets to run between two  *)
(* handlers time and again, marks a transfer it started as ready.          *)
FairSpec ==
  /\ Spec
  /\ WF_vars(EndTransfer(FALSE, FALSE))
  /\ WF_vars(_onVBlank)
  /\ WF_vars(_onSerial \/ processResponse \/ ResumeSerial \/ LeaveSerial)
  /\ WF_vars(Resume) /\ SF_vars(markReady)
  /\ WF_vars(Transfer \/ Response \/ _MultiBoot)

-----------------------------------------------------------------------------
(* Properties.                                                             *)

(* A transfer reported as a success has loaded the whole rom, in order,    *)
(* into every client that was found and was there to the end: whatever was *)
(* lost, restarted or unplugged on the way.                                *)
SuccessMeansLoaded ==
  [][result' = "SUCCESS" /\ result # "SUCCESS" =>
       \A c \in dyn.clientMask : irq[c] # Disconnected => client'[c].rom = Whole(mode)]_vars

(* With a client on the cable a call comes to its end: whatever a bit      *)
(* error, a client that starts again or an interrupt in the middle of      *)
(* startMultibootSend() left behind, the transfer is given up or started   *)
(* again until it is through.                                              *)
MultibootEnds ==
  <>[](\E c \in Clients : client[c].phase # "off") => []<>(state = "STOPPED")

=============================================================================
