------------------------ MODULE CableMultibootProofs ------------------------
(***************************************************************************)
(* Theorems about CableMultiboot: a transfer that is reported as a success *)
(* has loaded the whole rom, for any clients, sizes of the rom, limits and *)
(* sequences of incidents.                                                 *)
(***************************************************************************)
EXTENDS CableMultiboot, TLAPS

Cables    == {"cable", "spi"}
NoWord    == <<"none">>
DynFields == {"clientMask", "crcB", "crcC", "irqTimeout", "waitFrames", "wait", "tryCount",
              "headerRemaining", "part", "ready"}

-----------------------------------------------------------------------------
(* The invariant.                                                          *)

\* Nothing that has been received is left in the port.
PortOK(p) ==
  /\ DOMAIN p = {"lib", "mode", "interrupts", "wire"}
  /\ DOMAIN p.lib = Cables
  /\ \A l \in Cables :
       /\ DOMAIN p.lib[l] = {"isEnabled", "asyncState", "asyncData"}
       /\ p.lib[l].asyncState \in {"IDLE", "WAITING"}
       /\ p.lib[l].isEnabled \in BOOLEAN
  /\ p.interrupts \in BOOLEAN

\* A loader that has got to the end has the rom, and its checksum is of it.
Fits(k, m) ==
  /\ DOMAIN k = {"phase", "left", "seen", "rom", "reply"}
  /\ k.phase \in {"end", "crc", "run"} => k.rom = Whole(m)
  /\ k.reply[1] = "crc" => k.phase \in {"crc", "run"} /\ k.reply = Crc(k.seen, k.rom)

Loaders == DOMAIN client = Clients /\ \A c \in Clients : Fits(client[c], mode)

SyncStates == {"STOPPED", "DETECT", "CONFIRM", "HEADER", "AGAIN", "AGAIN2", "PALETTE", "DATA",
               "SWI"}

\* sendRom() and Async do not run at once, and startMultibootSend() has
\* something to put back.
Calls ==
  /\ kind \in {"sync", "async"} /\ mode \in Cables /\ fixed.mode \in Cables
  /\ kind = "sync" => /\ handler = "none" /\ ~port.interrupts /\ state \in SyncStates
                      /\ main \in {"idle", "send", "transfer", "response"}
  /\ kind = "async" => main \in {"idle", "start"}
  /\ main = "start" => handler = "none"
  /\ main = "start" \/ handler = "start" => saved.fixed.mode \in Cables

Answers ==
  /\ DOMAIN irq = Clients
  /\ handler = "process" => response \in {irq, EmptyResponse}

\* At the end the transfer under way is the checksum's, and a client that
\* answers with the same one takes it for its own.
Ending ==
  /\ state \in {"SENDING_FINAL_CRC", "CHECKING_FINAL_CRC"} /\ handler # "none"
       => port.wire = NoWord
  /\ state = "CHECKING_FINAL_CRC" /\ port.wire # NoWord => port.wire = Crc(dyn.crcB, dyn.crcC)
  /\ state = "CHECKING_FINAL_CRC" /\ handler \in {"raised", "process"} =>
       \A c \in Clients : irq[c] = Crc(dyn.crcB, dyn.crcC) => client[c].phase = "run"

DynOK(d) == DOMAIN d = DynFields /\ d.clientMask \subseteq Clients

SInv == /\ PortOK(port) /\ Loaders /\ DynOK(dyn)
        /\ Calls /\ Answers /\ Ending

-----------------------------------------------------------------------------
(* The port.                                                               *)

LEMMA TransferAsyncPort ==
  ASSUME NEW p, PortOK(p), NEW l \in Cables, NEW word
  PROVE  /\ PortOK(Link!transferAsync(p, l, word))
         /\ Link!transferAsync(p, l, word).wire \in {p.wire, word, NoWord}
<1> DEFINE lib == [p.lib EXCEPT ![l] = [p.lib[l] EXCEPT !.asyncState = "WAITING"]]
           r   == [p EXCEPT !.lib = lib, !.interrupts = TRUE, !.wire = Link!Started(p, l, word)]
<1>1. CASE ~Link!Accepts(p, l)
  BY <1>1 DEF Link!transferAsync
<1>2. CASE Link!Accepts(p, l)
  <2>1. Link!transferAsync(p, l, word) = r
    BY <1>2 DEF Link!transferAsync
  <2>2. Link!Started(p, l, word) \in {word, NoWord}
    BY DEF Link!Started, Link!NoWord, NoWord
  <2>3. /\ DOMAIN lib = Cables
        /\ \A x \in Cables : /\ DOMAIN lib[x] = {"isEnabled", "asyncState", "asyncData"}
                             /\ lib[x].asyncState \in {"IDLE", "WAITING"}
                             /\ lib[x].isEnabled \in BOOLEAN
    BY DEF PortOK, Cables
  <2> HIDE DEF lib
  <2>4. /\ DOMAIN r = {"lib", "mode", "interrupts", "wire"} /\ r.lib = lib
        /\ r.interrupts \in BOOLEAN /\ r.wire = Link!Started(p, l, word)
    BY DEF PortOK
  <2> HIDE DEF r
  <2> QED
    BY <2>1, <2>2, <2>3, <2>4 DEF PortOK
<1> QED
  BY <1>1, <1>2

LEMMA TransferPort ==
  ASSUME NEW p, PortOK(p), NEW l \in Cables, NEW word
  PROVE  /\ PortOK(Link!transfer(p, l, word))
         /\ ~p.interrupts => ~Link!transfer(p, l, word).interrupts
BY DEF PortOK, Link!transfer

LEMMA ActivatePort ==
  ASSUME NEW p, PortOK(p), NEW l \in Cables
  PROVE  /\ PortOK(Link!activate(p, l)) /\ Link!activate(p, l).wire = NoWord
         /\ ~Link!activate(p, l).interrupts
<1> DEFINE one == [Link!Disabled EXCEPT !.isEnabled = TRUE]
           lib == [p.lib EXCEPT ![l] = one]
           r   == [p EXCEPT !.lib = lib, !.mode = l, !.interrupts = FALSE, !.wire = NoWord]
<1>1. Link!activate(p, l) = r
  BY DEF Link!activate, Link!NoWord, NoWord
<1>2. /\ DOMAIN one = {"isEnabled", "asyncState", "asyncData"} /\ one.asyncState = "IDLE"
      /\ one.isEnabled \in BOOLEAN
  BY DEF Link!Disabled
<1> HIDE DEF one
<1>3. /\ DOMAIN lib = Cables
      /\ \A x \in Cables : /\ DOMAIN lib[x] = {"isEnabled", "asyncState", "asyncData"}
                           /\ lib[x].asyncState \in {"IDLE", "WAITING"}
                           /\ lib[x].isEnabled \in BOOLEAN
  BY <1>2 DEF PortOK, Cables
<1> HIDE DEF lib
<1>4. /\ DOMAIN r = {"lib", "mode", "interrupts", "wire"} /\ r.lib = lib
      /\ ~r.interrupts /\ r.interrupts \in BOOLEAN /\ r.wire = NoWord
  BY DEF PortOK
<1> HIDE DEF r
<1> QED
  BY <1>1, <1>3, <1>4 DEF PortOK

LEMMA DeactivatePort ==
  ASSUME NEW p, PortOK(p), NEW l \in Cables
  PROVE  /\ PortOK(Link!deactivate(p, l)) /\ Link!deactivate(p, l).wire = NoWord
         /\ ~p.interrupts => ~Link!deactivate(p, l).interrupts
<1> DEFINE one == Link!Disabled
           lib == [p.lib EXCEPT ![l] = one]
           r   == [p EXCEPT !.lib = lib, !.mode = "general", !.wire = NoWord]
<1>1. Link!deactivate(p, l) = r
  BY DEF Link!deactivate, Link!NoWord, NoWord
<1>2. /\ DOMAIN one = {"isEnabled", "asyncState", "asyncData"} /\ one.asyncState = "IDLE"
      /\ one.isEnabled \in BOOLEAN
  BY DEF Link!Disabled
<1> HIDE DEF one
<1>3. /\ DOMAIN lib = Cables
      /\ \A x \in Cables : /\ DOMAIN lib[x] = {"isEnabled", "asyncState", "asyncData"}
                           /\ lib[x].asyncState \in {"IDLE", "WAITING"}
                           /\ lib[x].isEnabled \in BOOLEAN
  BY <1>2 DEF PortOK, Cables
<1> HIDE DEF lib
<1>4. /\ DOMAIN r = {"lib", "mode", "interrupts", "wire"} /\ r.lib = lib
      /\ r.interrupts \in BOOLEAN /\ r.wire = NoWord /\ (~p.interrupts => ~r.interrupts)
  BY DEF PortOK
<1> HIDE DEF r
<1> QED
  BY <1>1, <1>3, <1>4 DEF PortOK

LEMMA StopPort ==
  ASSUME NEW p, PortOK(p)
  PROVE  /\ PortOK(Link!stopTransfer(p)) /\ Link!stopTransfer(p).wire = NoWord
         /\ Link!stopTransfer(p).interrupts <=> p.interrupts
BY DEF PortOK, Link!stopTransfer, Link!NoWord, NoWord

\* The data of a transfer is taken when the interrupt sets it.
LEMMA SerialPort ==
  ASSUME NEW p, PortOK(p), NEW l \in Cables, NEW data, NEW q, q = Link!_onSerial(p, l, data)
  PROVE  /\ PortOK(Link!DataTaken(q, l)) /\ Link!DataTaken(q, l).wire = p.wire
         /\ Link!AsyncData(q, l) \in {data, EmptyResponse}
<1>1. CASE ~(p.lib[l].isEnabled /\ p.lib[l].asyncState = "WAITING")
  <2>1. q = p
    BY <1>1 DEF Link!_onSerial
  <2>2. p.lib[l].asyncState # "READY"
    BY DEF PortOK
  <2> QED
    BY <2>1, <2>2 DEF Link!DataTaken, Link!AsyncData
<1>2. CASE p.lib[l].isEnabled /\ p.lib[l].asyncState = "WAITING"
  <2> DEFINE one == [[p.lib[l] EXCEPT !.asyncState = "READY"] EXCEPT !.asyncData = data]
             lib == [p.lib EXCEPT ![l] = one]
             r   == [p EXCEPT !.interrupts = FALSE, !.lib = lib]
             two == [[one EXCEPT !.asyncState = "IDLE"] EXCEPT !.asyncData = EmptyResponse]
             li2 == [lib EXCEPT ![l] = two]
             s   == [r EXCEPT !.lib = li2]
  <2>1. /\ DOMAIN one = {"isEnabled", "asyncState", "asyncData"} /\ one.asyncState = "READY"
        /\ one.asyncData = data /\ one.isEnabled \in BOOLEAN
    BY DEF PortOK
  <2>2. q = r
    BY <1>2 DEF Link!_onSerial, PortOK
  <2>3. /\ DOMAIN two = {"isEnabled", "asyncState", "asyncData"} /\ two.asyncState = "IDLE"
        /\ two.isEnabled \in BOOLEAN
    <3> HIDE DEF one
    <3> QED
      BY <2>1
  <2> HIDE DEF one
  <2>4. DOMAIN lib = Cables /\ lib[l] = one
    BY DEF PortOK
  <2>5. r.lib = lib /\ r.wire = p.wire /\ r.interrupts \in BOOLEAN
        /\ DOMAIN r = {"lib", "mode", "interrupts", "wire"}
    <3> HIDE DEF lib
    <3> QED
      BY DEF PortOK
  <2>6. r.lib[l] = one
    BY <2>4, <2>5
  <2>7. Link!AsyncData(r, l) = data
    <3> HIDE DEF r
    <3> QED
      BY <2>1, <2>6 DEF Link!AsyncData
  <2>8. Link!DataTaken(r, l) = s
    <3>1. r.lib[l].asyncState = "READY"
      BY <2>1, <2>6
    <3> HIDE DEF r, lib
    <3>2. Link!DataTaken(r, l)
            = [r EXCEPT !.lib = [r.lib EXCEPT ![l] = [[r.lib[l] EXCEPT !.asyncState = "IDLE"]
                                                       EXCEPT !.asyncData = EmptyResponse]]]
      BY <2>4, <2>5, <3>1 DEF Link!DataTaken
    <3> QED
      BY <2>5, <2>6, <3>2
  <2> HIDE DEF two
  <2>9. /\ DOMAIN li2 = Cables
        /\ \A x \in Cables : /\ DOMAIN li2[x] = {"isEnabled", "asyncState", "asyncData"}
                             /\ li2[x].asyncState \in {"IDLE", "WAITING"}
                             /\ li2[x].isEnabled \in BOOLEAN
    BY <2>3 DEF PortOK, Cables
  <2> HIDE DEF lib, li2, r
  <2>10. /\ DOMAIN s = {"lib", "mode", "interrupts", "wire"} /\ s.lib = li2
         /\ s.interrupts \in BOOLEAN /\ s.wire = p.wire
    BY <2>5
  <2> HIDE DEF s
  <2> QED
    BY <2>2, <2>7, <2>8, <2>9, <2>10 DEF PortOK
<1> QED
  BY <1>1, <1>2

-----------------------------------------------------------------------------
(* The loaders.                                                            *)

LEMMA LoaderFits ==
  ASSUME NEW m
  PROVE  Fits(Loader, m) /\ Fits(Off, m)
BY DEF Fits, Loader, Off, Other

\* Each kind of word, and the rest.
LEMMA StepFits ==
  ASSUME NEW k, NEW c, NEW word, NEW all, Fits(k, mode)
  PROVE  Fits(Step(k, c, word, all), mode)
<1> DEFINE s == Step(k, c, word, all)
<1> SUFFICES Fits(s, mode)
  OBVIOUS
<1>1. CASE k.phase = "off"
  <2>1. s = k
    BY <1>1 DEF Step, Handshake, Palette, Data, Length, RomEnd, FinalCrc, Crc, Confirm
  <2> HIDE DEF s
  <2> QED
    BY <1>1, <2>1 DEF Fits, Ack, Left, Data73, Offset, RomEndAck, Crc
<1>2. CASE k.phase \in {"detect", "palette"} /\ word = Handshake
  <2>1. s = [k EXCEPT !.reply = Ack(c)]
    BY <1>2 DEF Step, Handshake, Palette, Data, Length, RomEnd, FinalCrc, Crc, Confirm
  <2> HIDE DEF s
  <2> QED
    BY <1>2, <2>1 DEF Fits, Ack, Left, Data73, Offset, RomEndAck, Crc
<1>3. CASE k.phase = "detect" /\ word[1] = "6100" /\ c \in word[2]
  <2>1. s = [k EXCEPT !.phase = "header", !.left = HeaderParts, !.reply = Left(HeaderParts, c)]
    BY <1>3 DEF Step, Handshake, Palette, Data, Length, RomEnd, FinalCrc, Crc, Confirm
  <2> HIDE DEF s
  <2> QED
    BY <1>3, <2>1 DEF Fits, Ack, Left, Data73, Offset, RomEndAck, Crc
<1>4. CASE k.phase = "header" /\ word[1] = "header"
  <2>1. s = [k EXCEPT !.phase = IF k.left = 1 THEN "palette" ELSE "header",
                        !.left = @ - 1, !.reply = Left(k.left - 1, c)]
    BY <1>4 DEF Step, Handshake, Palette, Data, Length, RomEnd, FinalCrc, Crc, Confirm
  <2> HIDE DEF s
  <2> QED
    BY <1>4, <2>1 DEF Fits, Ack, Left, Data73, Offset, RomEndAck, Crc
<1>5. CASE k.phase = "palette" /\ word[1] = "6200+"
  <2>1. s = [k EXCEPT !.reply = Ack(c)]
    BY <1>5 DEF Step, Handshake, Palette, Data, Length, RomEnd, FinalCrc, Crc, Confirm
  <2> HIDE DEF s
  <2> QED
    BY <1>5, <2>1 DEF Fits, Ack, Left, Data73, Offset, RomEndAck, Crc
<1>6. CASE k.phase \in {"palette", "data"} /\ word = Palette
  <2>1. s = [k EXCEPT !.phase = "data", !.reply = Data73]
    BY <1>6 DEF Step, Handshake, Palette, Data, Length, RomEnd, FinalCrc, Crc, Confirm
  <2> HIDE DEF s
  <2> QED
    BY <1>6, <2>1 DEF Fits, Ack, Left, Data73, Offset, RomEndAck, Crc
<1>7. CASE k.phase = "data" /\ word = Data
  <2>1. s = [k EXCEPT !.phase = "length", !.reply = Data73]
    BY <1>7 DEF Step, Handshake, Palette, Data, Length, RomEnd, FinalCrc, Crc, Confirm
  <2> HIDE DEF s
  <2> QED
    BY <1>7, <2>1 DEF Fits, Ack, Left, Data73, Offset, RomEndAck, Crc
<1>8. CASE k.phase = "length" /\ word = Length
  <2>1. s = [k EXCEPT !.phase = "rom", !.rom = <<>>, !.reply = Offset(0),
                        !.seen = {d \in Clients : all[d] # Disconnected}]
    BY <1>8 DEF Step, Handshake, Palette, Data, Length, RomEnd, FinalCrc, Crc, Confirm
  <2> HIDE DEF s
  <2> QED
    BY <1>8, <2>1 DEF Fits, Ack, Left, Data73, Offset, RomEndAck, Crc
<1>9. CASE k.phase = "rom" /\ word[1] = "rom"
  <2>1. s = [k EXCEPT !.rom = Append(@, word[2]), !.reply = Offset(Len(k.rom) + 1)]
    BY <1>9 DEF Step, Handshake, Palette, Data, Length, RomEnd, FinalCrc, Crc, Confirm
  <2> HIDE DEF s
  <2> QED
    BY <1>9, <2>1 DEF Fits, Ack, Left, Data73, Offset, RomEndAck, Crc
<1>10. CASE k.phase \in {"rom", "end"} /\ word = RomEnd /\ k.rom = Whole(mode)
  <2>1. s = [k EXCEPT !.phase = "end", !.reply = RomEndAck]
    BY <1>10 DEF Step, Handshake, Palette, Data, Length, RomEnd, FinalCrc, Crc, Confirm
  <2> HIDE DEF s
  <2> QED
    BY <1>10, <2>1 DEF Fits, Ack, Left, Data73, Offset, RomEndAck, Crc
<1>11. CASE k.phase = "end" /\ word = FinalCrc
  <2>1. s = [k EXCEPT !.phase = "crc", !.reply = Crc(k.seen, k.rom)]
    BY <1>11 DEF Step, Handshake, Palette, Data, Length, RomEnd, FinalCrc, Crc, Confirm
  <2> HIDE DEF s
  <2> QED
    BY <1>11, <2>1 DEF Fits, Ack, Left, Data73, Offset, RomEndAck, Crc
<1>12. CASE k.phase = "crc" /\ word = Crc(k.seen, k.rom)
  <2>1. s = [k EXCEPT !.phase = "run"]
    BY <1>12 DEF Step, Handshake, Palette, Data, Length, RomEnd, FinalCrc, Crc, Confirm
  <2> HIDE DEF s
  <2> QED
    BY <1>12, <2>1 DEF Fits, Ack, Left, Data73, Offset, RomEndAck, Crc
<1>13. CASE k.phase = "run"
  <2>1. s = k
    BY <1>13 DEF Step, Handshake, Palette, Data, Length, RomEnd, FinalCrc, Crc, Confirm
  <2> HIDE DEF s
  <2> QED
    BY <1>13, <2>1 DEF Fits, Ack, Left, Data73, Offset, RomEndAck, Crc
<1>14. CASE /\ k.phase # "off" /\ k.phase # "run"
             /\ ~(k.phase \in {"detect", "palette"} /\ word = Handshake)
             /\ ~(k.phase = "detect" /\ word[1] = "6100" /\ c \in word[2])
             /\ ~(k.phase = "header" /\ word[1] = "header")
             /\ ~(k.phase = "palette" /\ word[1] = "6200+")
             /\ ~(k.phase \in {"palette", "data"} /\ word = Palette)
             /\ ~(k.phase = "data" /\ word = Data)
             /\ ~(k.phase = "length" /\ word = Length)
             /\ ~(k.phase = "rom" /\ word[1] = "rom")
             /\ ~(k.phase \in {"rom", "end"} /\ word = RomEnd /\ k.rom = Whole(mode))
             /\ ~(k.phase = "end" /\ word = FinalCrc)
             /\ ~(k.phase = "crc" /\ word = Crc(k.seen, k.rom))
  <2>1. s = Loader
    BY <1>14, Zenon DEF Step
  <2> HIDE DEF s
  <2> QED
    BY <2>1, LoaderFits
<1> QED
  BY <1>1, <1>2, <1>3, <1>4, <1>5, <1>6, <1>7, <1>8, <1>9, <1>10, <1>11, <1>12, <1>13, <1>14

LEMMA StepRuns ==
  ASSUME NEW k, NEW c, NEW word, NEW all, k.phase \in {"crc", "run"}, word = Crc(k.seen, k.rom),
         DOMAIN k = {"phase", "left", "seen", "rom", "reply"}
  PROVE  Step(k, c, word, all).phase = "run"
BY DEF Step

\* The fields that are set here and there, but for the clients found.
LEMMA DynKept ==
  ASSUME NEW d, DynOK(d), NEW x
  PROVE  /\ DynOK([d EXCEPT !.irqTimeout = x]) /\ DynOK([d EXCEPT !.waitFrames = x])
         /\ DynOK([d EXCEPT !.wait = x]) /\ DynOK([d EXCEPT !.tryCount = x])
         /\ DynOK([d EXCEPT !.headerRemaining = x]) /\ DynOK([d EXCEPT !.part = x])
         /\ DynOK([d EXCEPT !.ready = x]) /\ DynOK([d EXCEPT !.crcB = x])
         /\ DynOK([d EXCEPT !.crcC = x])
BY DEF DynOK, DynFields

LEMMA NoDynOK == DynOK(NoDyn) /\ NoFixed.mode \in Cables
BY DEF DynOK, DynFields, NoDyn, NoFixed, Cables

LEMMA FoundOK ==
  ASSUME NEW d, DynOK(d), NEW r
  PROVE  DynOK([d EXCEPT !.clientMask = Found(r)])
BY DEF DynOK, DynFields, Found

LEMMA LoadersKept == Loaders /\ UNCHANGED <<client, mode>> => Loaders'
BY DEF Loaders

LEMMA AfterWaitOK == Loaders /\ client' = AfterWait /\ mode' = mode => Loaders'
BY LoaderFits DEF Loaders, AfterWait

-----------------------------------------------------------------------------
(* The cable.                                                              *)

LEMMA InitInv == Init => SInv
<1> SUFFICES ASSUME Init PROVE SInv
  OBVIOUS
<1>1. PortOK(port)
  BY DEF Init, PortOK, Link!ClosedPort, Link!Disabled, Link!Links, Cables
<1>2. Loaders
  BY LoaderFits DEF Init, Loaders
<1>3. Calls
  BY CableMultibootAssumption, NoDynOK
     DEF Init, Calls, Cables, SyncStates, CableMultibootAssumption, Link!ClosedPort
<1>4. Answers /\ Ending
  BY DEF Init, Answers, Ending, EmptyResponse
<1> QED
  BY <1>1, <1>2, <1>3, <1>4, NoDynOK DEF Init, SInv

LEMMA EndTransferInv ==
  ASSUME SInv, NEW error \in BOOLEAN, NEW lost \in BOOLEAN, EndTransfer(error, lost),
         lost => error
  PROVE  SInv'
<1>1. PortOK(port') /\ port'.wire = NoWord /\ (port'.interrupts <=> port.interrupts)
  BY StopPort DEF SInv, EndTransfer
<1>2. Loaders'
  BY StepFits DEF SInv, EndTransfer, Loaders
<1>3. Calls'
  BY <1>1 DEF SInv, EndTransfer, Calls
<1>4. Answers'
  BY DEF SInv, EndTransfer, Answers, EmptyResponse, Responses
<1>5. Ending'
  <2>1. SUFFICES ASSUME state = "CHECKING_FINAL_CRC", NEW c \in Clients,
                        irq'[c] = Crc(dyn.crcB, dyn.crcC)
                 PROVE  client'[c].phase = "run"
    BY <1>1 DEF EndTransfer, Ending
  <2>2. ~error /\ irq' = Responses
    BY <2>1 DEF EndTransfer, EmptyResponse, Disconnected, Crc
  <2>3. port.mode = mode /\ client[c].reply = Crc(dyn.crcB, dyn.crcC)
    BY <2>1, <2>2 DEF Responses, Disconnected, Crc
  <2>4. client'[c] = Step(client[c], c, port.wire, Responses)
    BY <2>2, <2>3 DEF EndTransfer
  <2>5. port.wire = Crc(dyn.crcB, dyn.crcC)
    BY <2>1 DEF SInv, Ending, EndTransfer, Link!isSending, Link!NoWord, NoWord
  <2>6. Fits(client[c], mode)
    BY DEF SInv, Loaders
  <2>7. client[c].phase \in {"crc", "run"} /\ client[c].reply = Crc(client[c].seen, client[c].rom)
        /\ DOMAIN client[c] = {"phase", "left", "seen", "rom", "reply"}
    <3>1. client[c].reply[1] = "crc"
      BY <2>3 DEF Crc
    <3> QED
      BY <2>6, <3>1 DEF Fits
  <2> QED
    BY <2>3, <2>4, <2>5, <2>7, StepRuns
<1>6. DynOK(dyn')
  BY DEF SInv, EndTransfer
<1> QED
  BY <1>1, <1>2, <1>3, <1>4, <1>5, <1>6 DEF SInv

LEMMA ChangeInv ==
  ASSUME SInv, NEW c \in Clients, Change(c)
  PROVE  SInv'
<1>1. Loaders'
  BY LoaderFits DEF SInv, Change, Loaders
<1>2. Ending'
  BY DEF SInv, Change, Ending, Loaders
<1>3. PortOK(port') /\ DynOK(dyn') /\ Calls' /\ Answers'
  BY DEF SInv, Change, Calls, Answers
<1> QED
  BY <1>1, <1>2, <1>3 DEF SInv

-----------------------------------------------------------------------------
(* Async.                                                                  *)

LEMMA sendRomInv == SInv /\ sendRom => SInv'
<1> SUFFICES ASSUME SInv, sendRom PROVE SInv'
  OBVIOUS
<1>1. PortOK(port')
  BY DeactivatePort DEF SInv, sendRom, Calls
<1>2. Loaders' /\ DynOK(dyn')
  BY LoadersKept, NoDynOK DEF SInv, sendRom
<1>3. Calls'
  BY NoDynOK DEF SInv, sendRom, Calls
<1>4. Answers' /\ Ending'
  BY DEF SInv, sendRom, Answers, Ending
<1> QED
  BY <1>1, <1>2, <1>3, <1>4 DEF SInv

\* startMultibootSend() puts back what the call was made with.
LEMMA PutBackInv ==
  ASSUME SInv, PutBack, saved.fixed.mode \in Cables
  PROVE  /\ DynOK(dyn') /\ fixed'.mode \in Cables
         /\ dyn'.crcB = dyn.crcB /\ dyn'.crcC = dyn.crcC
<1> DEFINE d == [dyn EXCEPT !.ready = saved.ready]
<1>1. DynOK(d) /\ d.crcB = dyn.crcB /\ d.crcC = dyn.crcC
  BY DynKept DEF SInv, DynOK, DynFields
<1>2. dyn' = [d EXCEPT !.waitFrames = InitialWait] /\ fixed' = saved.fixed
  BY DEF PutBack
<1> HIDE DEF d
<1> QED
  BY <1>1, <1>2, DynKept DEF DynOK, DynFields

LEMMA ResumeInv == SInv /\ (Resume \/ ResumeSerial) => SInv'
<1> SUFFICES ASSUME SInv, Resume \/ ResumeSerial PROVE SInv'
  OBVIOUS
<1>1. DynOK(dyn') /\ fixed'.mode \in Cables /\ dyn'.crcB = dyn.crcB /\ dyn'.crcC = dyn.crcC
  BY PutBackInv DEF SInv, Calls, Resume, ResumeSerial
<1>2. PortOK(port') /\ Loaders'
  BY LoadersKept DEF SInv, Resume, ResumeSerial
<1>3. Calls'
  BY <1>1 DEF SInv, Resume, ResumeSerial, Calls
<1>4. Answers' /\ Ending'
  BY <1>1 DEF SInv, Resume, ResumeSerial, Answers, Ending
<1> QED
  BY <1>1, <1>2, <1>3, <1>4 DEF SInv

LEMMA resetInv == SInv /\ reset => SInv'
<1> SUFFICES ASSUME SInv, reset PROVE SInv'
  OBVIOUS
<1>1. PortOK(port')
  BY DeactivatePort DEF SInv, reset, stop, Set, Calls
<1>2. Loaders' /\ DynOK(dyn')
  BY LoadersKept, NoDynOK DEF SInv, reset, stop, Set
<1>3. Calls'
  BY NoDynOK DEF SInv, reset, stop, Set, Calls
<1>4. Answers' /\ Ending'
  BY DEF SInv, reset, stop, Set, Answers, Ending
<1> QED
  BY <1>1, <1>2, <1>3, <1>4 DEF SInv

LEMMA markReadyInv == SInv /\ markReady => SInv'
<1> SUFFICES ASSUME SInv, markReady PROVE SInv'
  OBVIOUS
<1>1. DynOK(dyn') /\ dyn'.crcB = dyn.crcB /\ dyn'.crcC = dyn.crcC
  BY DynKept DEF SInv, markReady, DynOK, DynFields
<1>2. PortOK(port') /\ Loaders' /\ Calls'
  BY LoadersKept DEF SInv, markReady, Calls
<1>3. Answers' /\ Ending'
  BY <1>1 DEF SInv, markReady, Answers, Ending
<1> QED
  BY <1>1, <1>2, <1>3 DEF SInv

LEMMA _onVBlankInv == SInv /\ _onVBlank => SInv'
<1> SUFFICES ASSUME SInv, _onVBlank PROVE SInv'
  OBVIOUS
<1> DEFINE late == dyn.irqTimeout + 1 >= MaxIrqTimeout
           d == [dyn EXCEPT !.irqTimeout = IF late THEN MaxIrqTimeout ELSE dyn.irqTimeout + 1]
           w == [d EXCEPT !.wait = d.wait + 1]
<1>1. /\ DynOK(d) /\ d.crcB = dyn.crcB /\ d.crcC = dyn.crcC
  BY DynKept DEF SInv, DynOK, DynFields
<1>2. DynOK(w)
  <2> HIDE DEF d
  <2> QED
    BY <1>1, DynKept
<1>3. kind = "async" /\ UNCHANGED <<irq, main, handler, response, kind, mode>>
  BY DEF _onVBlank
<1>4. fixed.mode \in Cables /\ PortOK(port)
  BY DEF SInv, Calls
<1>5. CASE /\ dyn' = d
           /\ UNCHANGED <<port, client, state, result, fixed, saved>>
  <2> HIDE DEF d
  <2>1. PortOK(port') /\ Loaders' /\ Calls'
    BY <1>3, <1>5, LoadersKept DEF SInv, Calls
  <2>2. Answers' /\ Ending'
    BY <1>1, <1>3, <1>5 DEF SInv, Answers, Ending
  <2> QED
    BY <1>1, <1>5, <2>1, <2>2 DEF SInv
<1>6. CASE /\ PortOK(port') /\ DynOK(dyn') /\ Loaders' /\ UNCHANGED saved
           /\ fixed'.mode \in Cables /\ state' \notin {"SENDING_FINAL_CRC", "CHECKING_FINAL_CRC"}
  <2> HIDE DEF d
  <2>1. Calls'
    BY <1>3, <1>6 DEF SInv, Calls
  <2>2. Answers' /\ Ending'
    BY <1>3, <1>6 DEF SInv, Answers, Ending
  <2> QED
    BY <1>6, <2>1, <2>2 DEF SInv
<1>7. CASE /\ Set(Link!deactivate(port, fixed.mode), "WAITING",
                  [NoDyn EXCEPT !.ready = dyn.ready, !.waitFrames = InitialWait])
           /\ UNCHANGED <<client, fixed, saved>>
  <2>1. DynOK(dyn')
    BY <1>7 DEF Set, DynOK, DynFields, NoDyn
  <2>2. PortOK(port')
    BY <1>4, <1>7, DeactivatePort DEF Set
  <2>3. Loaders'
    BY <1>3, <1>7, LoadersKept DEF SInv
  <2> QED
    BY <1>4, <1>6, <1>7, <2>1, <2>2, <2>3 DEF Set
<1>8. CASE /\ state = "WAITING"
           /\ IF w.wait >= w.waitFrames
              THEN /\ Set(Link!transferAsync(Link!activate(port, fixed.mode), fixed.mode,
                                             Handshake),
                          "DETECTING_CLIENTS", w)
                   /\ client' = IF w.waitFrames = 0 THEN client ELSE AfterWait
              ELSE Set(port, state, w) /\ UNCHANGED client
           /\ UNCHANGED <<result, fixed, saved>>
  <2> HIDE DEF w
  <2>1. PortOK(port') /\ DynOK(dyn')
    BY <1>2, <1>4, <1>8, ActivatePort, TransferAsyncPort DEF Set
  <2>2. Loaders'
    BY <1>3, <1>8, LoadersKept, AfterWaitOK DEF SInv
  <2> QED
    BY <1>4, <1>6, <1>8, <2>1, <2>2 DEF Set
<1>9. CASE /\ state = "WAITING_BEFORE_MAIN_TRANSFER"
           /\ IF w.wait >= w.waitFrames
              THEN SendAsync("CALCULATING_CRCB", w, Length)
              ELSE Set(port, state, w)
           /\ UNCHANGED <<client, result, fixed, saved>>
  <2> HIDE DEF w
  <2>1. PortOK(port') /\ DynOK(dyn')
    BY <1>2, <1>4, <1>9, TransferAsyncPort DEF SendAsync, Set
  <2>2. Loaders'
    BY <1>3, <1>9, LoadersKept DEF SInv
  <2> QED
    BY <1>4, <1>6, <1>9, <2>1, <2>2 DEF SendAsync, Set
<1>10. CASE /\ state = "SENDING_ROM_END_WAITING"
            /\ IF d.tryCount + 1 >= MaxFinal
               THEN stop("FINAL_HANDSHAKE_FAILURE")
               ELSE /\ SendAsync("SENDING_ROM_END", [d EXCEPT !.tryCount = @ + 1], RomEnd)
                    /\ UNCHANGED <<result, fixed>>
            /\ UNCHANGED <<client, saved>>
  <2> HIDE DEF d
  <2>1. PortOK(port')
    BY <1>4, <1>10, TransferAsyncPort, DeactivatePort DEF SendAsync, stop, Set
  <2>2. DynOK(dyn') /\ fixed'.mode \in Cables
    <3>1. DynOK([d EXCEPT !.tryCount = d.tryCount + 1])
      BY <1>1, DynKept
    <3>2. CASE d.tryCount + 1 >= MaxFinal
      BY <1>10, <3>2, NoDynOK DEF stop, Set
    <3>3. CASE ~(d.tryCount + 1 >= MaxFinal)
      BY <1>4, <1>10, <3>1, <3>3 DEF SendAsync, Set
    <3> QED
      BY <3>2, <3>3
  <2>3. Loaders'
    BY <1>3, <1>10, LoadersKept DEF SInv
  <2> QED
    BY <1>4, <1>6, <1>10, <2>1, <2>2, <2>3 DEF SendAsync, stop, Set
<1> QED
  BY <1>5, <1>7, <1>8, <1>9, <1>10 DEF _onVBlank

LEMMA _onSerialInv == SInv /\ _onSerial => SInv'
<1> SUFFICES ASSUME SInv, _onSerial PROVE SInv'
  OBVIOUS
<1>1. fixed.mode \in Cables /\ kind = "async" /\ PortOK(port)
  BY DEF SInv, Calls, Cables, _onSerial
<1>2. /\ PortOK(port') /\ port'.wire = port.wire
      /\ handler' = "process" => response' \in {irq, EmptyResponse}
  BY <1>1, SerialPort DEF _onSerial
<1>3. Loaders' /\ DynOK(dyn')
  BY LoadersKept DEF SInv, _onSerial
<1>4. Calls'
  BY <1>1 DEF SInv, _onSerial, Calls
<1>5. Answers' /\ Ending'
  BY <1>2 DEF SInv, _onSerial, Answers, Ending
<1> QED
  BY <1>2, <1>3, <1>4, <1>5 DEF SInv

LEMMA LeaveSerialInv == SInv /\ LeaveSerial => SInv'
<1> SUFFICES ASSUME SInv, LeaveSerial PROVE SInv'
  OBVIOUS
<1>1. PortOK(port') /\ Loaders' /\ DynOK(dyn')
  BY LoadersKept DEF SInv, LeaveSerial
<1>2. Calls' /\ Answers' /\ Ending'
  BY DEF SInv, LeaveSerial, Calls, Answers, Ending
<1> QED
  BY <1>1, <1>2 DEF SInv

-----------------------------------------------------------------------------
(* Async: what the SERIAL handler does with a response.                    *)

Busy == {"SENDING_FINAL_CRC", "CHECKING_FINAL_CRC"}

\* Whatever it does: the next word is on its way, or nothing is.
LEMMA ProcessInv ==
  ASSUME SInv, handler = "process",
         PortOK(port'), DynOK(dyn'), fixed'.mode \in Cables, handler' \in {"none", "start", "end"},
         handler' = "start" => saved'.fixed.mode \in Cables, UNCHANGED saved \/ handler' = "start",
         handler' # "none" => state' \notin Busy,
         state' = "CHECKING_FINAL_CRC" => port'.wire \in {NoWord, Crc(dyn'.crcB, dyn'.crcC)},
         UNCHANGED <<irq, client, main, kind, mode>>
  PROVE  SInv'
<1>1. Loaders'
  BY LoadersKept DEF SInv
<1>2. Calls'
  BY DEF SInv, Calls
<1>3. Answers' /\ Ending'
  BY DEF SInv, Answers, Ending, Busy
<1> QED
  BY <1>1, <1>2, <1>3 DEF SInv

LEMMA RestartInv ==
  ASSUME SInv, handler = "process", Restart, UNCHANGED <<irq, client, main, kind, mode>>
  PROVE  SInv'
<1>1. PortOK(port') /\ DynOK(dyn') /\ fixed'.mode \in Cables
  BY DeactivatePort, NoDynOK DEF SInv, Calls, Restart, StartAgain, Set
<1>2. saved'.fixed.mode \in Cables
  BY DEF SInv, Calls, Restart, StartAgain, Restarting
<1>3. handler' = "start" /\ state' = "WAITING"
  BY DEF Restart, StartAgain, Set
<1> QED
  BY <1>1, <1>2, <1>3, ProcessInv DEF Busy

LEMMA EndsInv ==
  ASSUME SInv, handler = "process", NEW r, Ends(r), UNCHANGED <<irq, client, main, kind, mode>>
  PROVE  SInv'
<1>1. PortOK(port') /\ DynOK(dyn') /\ fixed'.mode \in Cables
  BY DeactivatePort, NoDynOK DEF SInv, Calls, Ends, stop, Set
<1>2. handler' = "end" /\ state' = "STOPPED" /\ UNCHANGED saved
  BY DEF Ends, stop, Set
<1> QED
  BY <1>1, <1>2, ProcessInv DEF Busy

LEMMA GoesInv ==
  ASSUME SInv, handler = "process", NEW s, NEW d, NEW word, Goes(s, d, word), DynOK(d),
         s # "CHECKING_FINAL_CRC", UNCHANGED <<irq, client, main, kind, mode>>
  PROVE  SInv'
<1>1. PortOK(port')
  BY TransferAsyncPort DEF SInv, Calls, Goes, SendAsync, Set
<1>2. DynOK(dyn') /\ fixed'.mode \in Cables
  BY DynKept DEF SInv, Calls, Goes, SendAsync, Set
<1>3. handler' = "none" /\ state' = s /\ UNCHANGED saved
  BY DEF Goes, SendAsync, Set
<1> QED
  BY <1>1, <1>2, <1>3, ProcessInv

LEMMA WaitsInv ==
  ASSUME SInv, handler = "process", NEW s, NEW d, Waits(s, d), DynOK(d), s \notin Busy,
         UNCHANGED <<irq, client, main, kind, mode>>
  PROVE  SInv'
<1>1. PortOK(port') /\ DynOK(dyn') /\ fixed'.mode \in Cables
  BY DynKept DEF SInv, Calls, Waits, Set
<1>2. handler' = "end" /\ state' = s /\ UNCHANGED saved
  BY DEF Waits, Set
<1> QED
  BY <1>1, <1>2, ProcessInv DEF Busy

LEMMA sendHeaderPartInv ==
  ASSUME SInv, handler = "process", NEW d, sendHeaderPart(d), DynOK(d),
         UNCHANGED <<irq, client, main, kind, mode>>
  PROVE  SInv'
BY GoesInv, DynKept DEF sendHeaderPart

LEMMA sendRomPartInv ==
  ASSUME SInv, handler = "process", NEW d, sendRomPart(d), DynOK(d),
         UNCHANGED <<irq, client, main, kind, mode>>
  PROVE  SInv'
BY GoesInv, DynKept DEF sendRomPart

LEMMA processResponseInv == SInv /\ processResponse => SInv'
<1> SUFFICES ASSUME SInv, processResponse PROVE SInv'
  OBVIOUS
<1>1. handler = "process" /\ UNCHANGED <<irq, client, main, kind, mode>> /\ DynOK(dyn)
  BY DEF processResponse, SInv
<1>2. CASE Detecting
  <2> DEFINE d == [dyn EXCEPT !.clientMask = Found(response)]
  <2>1. DynOK(d)
    BY <1>1, FoundOK
  <2>2. DynOK([d EXCEPT !.tryCount = d.tryCount + 1])
    <3> HIDE DEF d
    <3> QED
      BY <2>1, DynKept
  <2>3. \/ Goes("DETECTING_CLIENTS_END", d, Confirm(d.clientMask))
        \/ Restart
        \/ Goes("DETECTING_CLIENTS", [d EXCEPT !.tryCount = d.tryCount + 1], Handshake)
    BY <1>2 DEF Detecting
  <2> HIDE DEF d
  <2> QED
    BY <1>1, <2>1, <2>2, <2>3, GoesInv, RestartInv
<1>3. CASE DetectingEnd \/ SendingHeader
  <2>1. \/ Restart
        \/ \E d : DynOK(d) /\ sendHeaderPart(d)
    BY <1>1, <1>3, DynKept DEF DetectingEnd, SendingHeader
  <2> QED
    BY <1>1, <2>1, sendHeaderPartInv, RestartInv
<1>4. CASE SendingPalette
  <2>1. DynOK([dyn EXCEPT !.tryCount = dyn.tryCount + 1])
    BY <1>1, DynKept
  <2>2. \/ Goes("CONFIRMING_HANDSHAKE_DATA", dyn, Data)
        \/ Restart
        \/ Goes("SENDING_PALETTE", [dyn EXCEPT !.tryCount = dyn.tryCount + 1], Palette)
    BY <1>4 DEF SendingPalette
  <2> QED
    BY <1>1, <2>1, <2>2, GoesInv, RestartInv
<1>5. CASE Confirming
  <2>1. DynOK([dyn EXCEPT !.waitFrames = MainWait])
    BY <1>1, DynKept
  <2> QED
    BY <1>1, <1>5, <2>1, WaitsInv, RestartInv DEF Confirming, Busy
<1>6. CASE CalculatingCrcB
  <2> DEFINE b == [dyn EXCEPT !.crcB = {c \in dyn.clientMask : response[c] # Disconnected}]
             e == [b EXCEPT !.crcC = <<>>]
             d == [e EXCEPT !.part = 0]
  <2>1. DynOK(b)
    BY <1>1, DynKept
  <2>2. DynOK(e)
    <3> HIDE DEF b
    <3> QED
      BY <2>1, DynKept
  <2>3. DynOK(d)
    <3> HIDE DEF e
    <3> QED
      BY <2>2, DynKept
  <2>4. sendRomPart(d)
    BY <1>6 DEF CalculatingCrcB
  <2> HIDE DEF d
  <2> QED
    BY <1>1, <2>3, <2>4, sendRomPartInv
<1>7. CASE SendingRom
  <2> DEFINE e == [dyn EXCEPT !.crcC = Append(dyn.crcC, dyn.part)]
             d == [e EXCEPT !.part = dyn.part + 1]
  <2>1. DynOK(e)
    BY <1>1, DynKept
  <2>2. DynOK(d)
    <3> HIDE DEF e
    <3> QED
      BY <2>1, DynKept
  <2>3. sendRomPart(d) \/ Ends("SEND_FAILURE")
    BY <1>1, <1>7 DEF SendingRom, DynOK, DynFields
  <2> HIDE DEF d
  <2> QED
    BY <1>1, <2>2, <2>3, sendRomPartInv, EndsInv
<1>8. CASE SendingRomEnd
  BY <1>1, <1>8, GoesInv, WaitsInv DEF SendingRomEnd, Busy
<1>9. CASE SendingFinalCrc
  <2> DEFINE d == [dyn EXCEPT !.irqTimeout = 0]
             word == Crc(dyn.crcB, dyn.crcC)
  <2>1. DynOK(d) /\ d.crcB = dyn.crcB /\ d.crcC = dyn.crcC
    BY <1>1, DynKept DEF DynOK, DynFields
  <2>2. /\ port' = Link!transferAsync(port, fixed.mode, word) /\ dyn' = d
        /\ handler' = "none" /\ UNCHANGED <<fixed, saved>>
    BY <1>9 DEF SendingFinalCrc, Goes, SendAsync, Set
  <2>3. port.wire = NoWord
    BY <1>1, <1>9 DEF SendingFinalCrc, SInv, Ending
  <2>4. PortOK(port') /\ port'.wire \in {NoWord, word}
    BY <2>2, <2>3, TransferAsyncPort DEF SInv, Calls
  <2> HIDE DEF d
  <2>5. DynOK(dyn') /\ word = Crc(dyn'.crcB, dyn'.crcC) /\ fixed'.mode \in Cables
    BY <2>1, <2>2 DEF SInv, Calls
  <2> QED
    BY <1>1, <2>2, <2>4, <2>5, ProcessInv
<1>10. CASE CheckingFinalCrc
  BY <1>1, <1>10, EndsInv DEF CheckingFinalCrc
<1>11. CASE Stale
  BY <1>1, <1>11, WaitsInv DEF Stale, Busy
<1> QED
  BY <1>2, <1>3, <1>4, <1>5, <1>6, <1>7, <1>8, <1>9, <1>10, <1>11 DEF processResponse

-----------------------------------------------------------------------------
(* sendRom() of LinkCableMultiboot.                                        *)

\* Where sendRom() is, neither a handler nor Async is.
LEMMA SyncInv ==
  ASSUME SInv, kind = "sync", PortOK(port'), ~port'.interrupts, DynOK(dyn'), Loaders',
         state' \in SyncStates, main' \in {"idle", "send", "transfer", "response"},
         UNCHANGED <<irq, fixed, handler, saved, response, kind, mode>>
  PROVE  SInv'
<1>1. Calls' /\ Answers'
  BY DEF SInv, Calls, Answers
<1>2. Ending'
  BY DEF SInv, Calls, Ending, SyncStates
<1> QED
  BY <1>1, <1>2 DEF SInv

LEMMA SendInv == SInv /\ Send => SInv'
<1> SUFFICES ASSUME SInv, Send PROVE SInv'
  OBVIOUS
<1>1. PortOK(port') /\ ~port'.interrupts
  BY ActivatePort DEF SInv, Calls, Send, Set
<1>2. DynOK(dyn') /\ Loaders' /\ state' \in SyncStates
  BY NoDynOK, LoadersKept DEF SInv, Send, Set, SyncStates
<1> QED
  BY <1>1, <1>2, SyncInv DEF Send

LEMMA TransferInv == SInv /\ Transfer => SInv'
<1> SUFFICES ASSUME SInv, Transfer PROVE SInv'
  OBVIOUS
<1>1. kind = "sync" /\ ~port.interrupts /\ state \in SyncStates
  BY DEF SInv, Calls, Transfer
<1>2. PortOK(port') /\ ~port'.interrupts
  BY <1>1, TransferPort DEF SInv, Calls, Transfer
<1>3. DynOK(dyn') /\ Loaders'
  BY LoadersKept DEF SInv, Transfer
<1> QED
  BY <1>1, <1>2, <1>3, SyncInv DEF Transfer

LEMMA CancelInv == SInv /\ Cancel => SInv'
<1> SUFFICES ASSUME SInv, Cancel PROVE SInv'
  OBVIOUS
<1>1. PortOK(port') /\ ~port'.interrupts
  BY DeactivatePort DEF SInv, Calls, Cancel, Set
<1>2. DynOK(dyn') /\ Loaders' /\ state' \in SyncStates
  BY NoDynOK, LoadersKept DEF SInv, Cancel, Set, SyncStates
<1> QED
  BY <1>1, <1>2, SyncInv DEF Cancel

\* A word that is answered leads to the next, or to another try.
LEMMA ResponseStep ==
  ASSUME SInv, Response
  PROVE  \/ Retry
         \/ \E s \in SyncStates : \E d : DynOK(d) /\ To(s, d)
<1> DEFINE f == [dyn EXCEPT !.clientMask = Found(irq)]
<1>1. /\ DynOK(dyn) /\ DynOK([dyn EXCEPT !.tryCount = 0])
      /\ DynOK([dyn EXCEPT !.tryCount = dyn.tryCount + 1])
      /\ DynOK([dyn EXCEPT !.headerRemaining = HeaderParts])
      /\ DynOK([dyn EXCEPT !.headerRemaining = dyn.headerRemaining - 1])
  BY DynKept DEF SInv
<1>2. DynOK(f)
  BY <1>1, FoundOK
<1>3. DynOK([f EXCEPT !.tryCount = f.tryCount + 1])
  <2> HIDE DEF f
  <2> QED
    BY <1>2, DynKept
<1>4. CASE /\ state = "DETECT"
           /\ IF AllFound(irq) THEN To("CONFIRM", f) ELSE TryAgain(f)
  <2> HIDE DEF f
  <2> QED
    BY <1>2, <1>3, <1>4 DEF TryAgain, SyncStates
<1>5. CASE /\ state = "CONFIRM"
           /\ Retry \/ To("HEADER", [dyn EXCEPT !.headerRemaining = HeaderParts])
  BY <1>1, <1>5 DEF SyncStates
<1>6. CASE /\ state = "HEADER"
           /\ Retry \/ To(IF dyn.headerRemaining = 1 THEN "AGAIN" ELSE "HEADER",
                          [dyn EXCEPT !.headerRemaining = dyn.headerRemaining - 1])
  BY <1>1, <1>6 DEF SyncStates
<1>7. CASE Retry \/ To("AGAIN2", dyn)
  BY <1>1, <1>7 DEF SyncStates
<1>8. CASE Retry \/ To("PALETTE", [dyn EXCEPT !.tryCount = 0])
  BY <1>1, <1>8 DEF SyncStates
<1>9. CASE state = "PALETTE" /\ (To("DATA", dyn) \/ TryAgain(dyn))
  BY <1>1, <1>9 DEF TryAgain, SyncStates
<1>10. CASE Retry \/ To("SWI", dyn)
  BY <1>1, <1>10 DEF SyncStates
<1> QED
  BY <1>4, <1>5, <1>6, <1>7, <1>8, <1>9, <1>10 DEF Response

LEMMA ResponseInv == SInv /\ Response => SInv'
<1> SUFFICES ASSUME SInv, Response PROVE SInv'
  OBVIOUS
<1>1. /\ kind = "sync" /\ ~port.interrupts /\ main' = "send" /\ mode \in Cables
      /\ UNCHANGED <<irq, fixed, handler, saved, response, kind, mode>>
  BY DEF SInv, Calls, Response
<1>2. CASE Retry
  <2>1. PortOK(port') /\ ~port'.interrupts
    BY <1>1, <1>2, ActivatePort, DeactivatePort DEF SInv, Retry, Set
  <2>2. DynOK(dyn') /\ Loaders' /\ state' \in SyncStates
    BY <1>1, <1>2, NoDynOK, AfterWaitOK DEF SInv, Retry, Set, SyncStates
  <2> QED
    BY <1>1, <2>1, <2>2, SyncInv
<1>3. CASE \E s \in SyncStates : \E d : DynOK(d) /\ To(s, d)
  <2>1. PortOK(port') /\ ~port'.interrupts /\ DynOK(dyn') /\ state' \in SyncStates
        /\ UNCHANGED client
    BY <1>1, <1>3 DEF SInv, To, Set
  <2>2. Loaders'
    BY <1>1, <2>1, LoadersKept DEF SInv
  <2> QED
    BY <1>1, <2>1, <2>2, SyncInv
<1> QED
  BY <1>2, <1>3, ResponseStep

LEMMA _MultiBootInv == SInv /\ _MultiBoot => SInv'
<1> SUFFICES ASSUME SInv, _MultiBoot PROVE SInv'
  OBVIOUS
<1>1. kind = "sync"
  BY DEF SInv, Calls, _MultiBoot
<1>2. PortOK(port') /\ ~port'.interrupts
  BY <1>1, DeactivatePort DEF SInv, Calls, _MultiBoot, Set
<1>3. DynOK(dyn') /\ state' \in SyncStates
  BY NoDynOK DEF _MultiBoot, Set, SyncStates
<1>4. Loaders'
  <2>1. \A k : Fits(k, mode) /\ k.phase = "length"
               => Fits([k EXCEPT !.phase = "run", !.rom = Whole(mode)], mode)
    BY DEF Fits
  <2>2. /\ DOMAIN client' = Clients /\ mode' = mode
        /\ \A c \in Clients : \/ client'[c] = client[c]
                             \/ /\ client[c].phase = "length"
                                /\ client'[c] = [client[c] EXCEPT !.phase = "run",
                                                                  !.rom = Whole(mode)]
    BY DEF _MultiBoot
  <2>3. ASSUME NEW c \in Clients
        PROVE  Fits(client'[c], mode)
    <3>1. Fits(client[c], mode)
      BY DEF SInv, Loaders
    <3>2. CASE client'[c] = client[c]
      BY <3>1, <3>2
    <3>3. CASE /\ client[c].phase = "length"
               /\ client'[c] = [client[c] EXCEPT !.phase = "run", !.rom = Whole(mode)]
      BY <2>1, <3>1, <3>3
    <3> QED
      BY <2>2, <3>2, <3>3
  <2> QED
    BY <2>2, <2>3 DEF Loaders
<1> QED
  BY <1>1, <1>2, <1>3, <1>4, SyncInv DEF _MultiBoot

-----------------------------------------------------------------------------
(* The theorem.                                                            *)

LEMMA NextInv == SInv /\ [Next]_vars => SInv'
<1> SUFFICES ASSUME SInv, [Next]_vars PROVE SInv'
  OBVIOUS
<1>1. CASE UNCHANGED vars
  <2>1. Loaders'
    BY <1>1, LoadersKept DEF SInv, vars
  <2> QED
    BY <1>1, <2>1 DEF vars, SInv, Calls, Answers, Ending
<1>2. CASE EndTransfer(FALSE, FALSE) \/ \E lost \in BOOLEAN : EndTransfer(TRUE, lost)
  BY <1>2, EndTransferInv
<1>3. CASE \E c \in Clients : Change(c)
  BY <1>3, ChangeInv
<1>4. CASE sendRom \/ Resume \/ reset \/ markReady \/ _onVBlank \/ _onSerial
  BY <1>4, sendRomInv, ResumeInv, resetInv, markReadyInv, _onVBlankInv, _onSerialInv
<1>5. CASE processResponse \/ ResumeSerial \/ LeaveSerial
  BY <1>5, processResponseInv, ResumeInv, LeaveSerialInv
<1>6. CASE Send \/ Transfer \/ Cancel \/ Response \/ _MultiBoot
  BY <1>6, SendInv, TransferInv, CancelInv, ResponseInv, _MultiBootInv
<1> QED
  BY <1>1, <1>2, <1>3, <1>4, <1>5, <1>6 DEF Next

\* Success is said by the end of Async's transfer, and by the BIOS's.
LEMMA WhoSucceeds ==
  ASSUME Next, result' = "SUCCESS", result # "SUCCESS"
  PROVE  (processResponse /\ CheckingFinalCrc) \/ _MultiBoot
<1>1. CASE EndTransfer(FALSE, FALSE) \/ \E lost \in BOOLEAN : EndTransfer(TRUE, lost)
  BY <1>1 DEF EndTransfer
<1>2. CASE \E c \in Clients : Change(c)
  BY <1>2 DEF Change
<1>3. CASE sendRom \/ Resume \/ reset \/ markReady
  BY <1>3 DEF sendRom, Resume, reset, stop, markReady
<1>4. CASE _onVBlank
  BY <1>4 DEF _onVBlank, stop
<1>5. CASE _onSerial \/ ResumeSerial \/ LeaveSerial
  BY <1>5 DEF _onSerial, ResumeSerial, LeaveSerial
<1>6. CASE processResponse
  <2>1. ~Restart /\ (\A s, d, word : ~Goes(s, d, word)) /\ (\A s, d : ~Waits(s, d))
        /\ ~Ends("SEND_FAILURE")
    BY DEF Restart, StartAgain, Goes, Waits, Ends, stop
  <2>2. ~Detecting /\ ~SendingPalette /\ ~Confirming
    BY <2>1 DEF Detecting, SendingPalette, Confirming
  <2>3. ~DetectingEnd /\ ~SendingHeader
    BY <2>1 DEF DetectingEnd, SendingHeader, sendHeaderPart
  <2>4. ~CalculatingCrcB /\ ~SendingRom
    BY <2>1 DEF CalculatingCrcB, SendingRom, sendRomPart
  <2>5. ~SendingRomEnd /\ ~SendingFinalCrc /\ ~Stale
    BY <2>1 DEF SendingRomEnd, SendingFinalCrc, Stale
  <2> QED
    BY <1>6, <2>2, <2>3, <2>4, <2>5 DEF processResponse
<1>7. CASE Send \/ Transfer \/ Cancel \/ Response
  BY <1>7 DEF Send, Transfer, Cancel, Response
<1> QED
  BY <1>1, <1>2, <1>3, <1>4, <1>5, <1>6, <1>7 DEF Next

LEMMA SuccessStep ==
  ASSUME SInv, Next, result' = "SUCCESS", result # "SUCCESS", NEW c \in dyn.clientMask,
         irq[c] # Disconnected
  PROVE  client'[c].rom = Whole(mode)
<1>1. c \in Clients /\ Fits(client[c], mode)
  BY DEF SInv, DynOK, Loaders
<1>2. CASE processResponse /\ CheckingFinalCrc
  <2> DEFINE wanted == Crc(dyn.crcB, dyn.crcC)
  <2>1. handler = "process" /\ state = "CHECKING_FINAL_CRC" /\ UNCHANGED client
    BY <1>2 DEF processResponse, CheckingFinalCrc
  <2>2. isResponseSameAsValue(response, dyn.clientMask, wanted)
    BY <1>2 DEF CheckingFinalCrc, Ends, stop
  <2>3. /\ {d \in Clients : response[d] # Disconnected} # {}
        /\ {d \in Clients : response[d] # Disconnected}
             \subseteq {d \in Clients : d \in dyn.clientMask => response[d] = wanted}
    BY <2>2 DEF isResponseSameAsValue, validateResponse
  <2>4. response = irq
    BY <2>1, <2>3 DEF SInv, Answers, EmptyResponse
  <2>5. irq[c] = wanted
    BY <1>1, <2>3, <2>4
  <2>6. client[c].phase = "run"
    BY <1>1, <2>1, <2>5 DEF SInv, Ending
  <2> QED
    BY <1>1, <2>1, <2>6 DEF Fits
<1>3. CASE _MultiBoot
  <2>1. client[c].phase = "length"
    BY <1>3 DEF _MultiBoot
  <2>2. client'[c] = [client[c] EXCEPT !.phase = "run", !.rom = Whole(mode)]
    BY <1>1, <1>3, <2>1 DEF _MultiBoot
  <2> QED
    BY <1>1, <2>2 DEF Fits
<1> QED
  BY <1>2, <1>3, WhoSucceeds

(* Whatever bit errors, restarts and unplugged clients there were, and     *)
(* however the handlers interleaved: when a transfer is reported as a      *)
(* success, every client that was found and still answers has the whole    *)
(* rom, in order.                                                          *)
THEOREM SuccessIsLoaded == Spec => SuccessMeansLoaded
<1>1. SInv /\ [Next]_vars
        => [result' = "SUCCESS" /\ result # "SUCCESS" =>
              \A c \in dyn.clientMask : irq[c] # Disconnected => client'[c].rom = Whole(mode)]_vars
  BY SuccessStep DEF vars
<1> QED
  BY <1>1, InitInv, NextInv, PTL DEF Spec, SuccessMeansLoaded

=============================================================================
