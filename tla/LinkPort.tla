------------------------------ MODULE LinkPort ------------------------------
(***************************************************************************)
(* gbashared/lib/LinkRawCable.hpp and LinkSPI.hpp: one transfer at a time  *)
(* over the link port of the Game Boy, blocking or asynchronous.  The two  *)
(* drivers have the same asynchronous state, one each, and share the       *)
(* registers; a port is a record of both.                                  *)
(***************************************************************************)
CONSTANT Empty     \* EMPTY_RESPONSE, noData()

Links == {"cable", "spi"}
NoWord == <<"none">>

Disabled == [isEnabled |-> FALSE, asyncState |-> "IDLE", asyncData |-> Empty]

\* mode: whose registers are set up.  wire: the word of a transfer in progress.
ClosedPort == [lib |-> [l \in Links |-> Disabled], mode |-> "general",
               interrupts |-> FALSE, wire |-> NoWord]

activate(port, l) ==
  [port EXCEPT !.lib[l] = [Disabled EXCEPT !.isEnabled = TRUE], !.mode = l,
               !.interrupts = FALSE, !.wire = NoWord]

deactivate(port, l) ==
  [port EXCEPT !.lib[l] = Disabled, !.mode = "general", !.wire = NoWord]

\* Nothing is sent before the data of the last asynchronous transfer is taken.
Accepts(port, l) == port.lib[l].isEnabled /\ port.lib[l].asyncState = "IDLE"

\* Starts a transfer; a master's ends whether others are there or not.
Started(port, l, word) == IF port.mode = l THEN word ELSE NoWord

transferAsync(port, l, word) ==
  IF Accepts(port, l)
  THEN [port EXCEPT !.lib[l].asyncState = "WAITING", !.interrupts = TRUE,
                    !.wire = Started(port, l, word)]
  ELSE port

\* transfer(), up to its loop; stopTransfer() in the loop when it is cancelled.
transfer(port, l, word) ==
  IF Accepts(port, l)
  THEN [port EXCEPT !.interrupts = FALSE, !.wire = Started(port, l, word)]
  ELSE port
stopTransfer(port) == [port EXCEPT !.wire = NoWord]

isSending(port) == port.wire # NoWord

_onSerial(port, l, data) ==
  IF port.lib[l].isEnabled /\ port.lib[l].asyncState = "WAITING"
  THEN [port EXCEPT !.interrupts = FALSE, !.lib[l].asyncState = "READY",
                    !.lib[l].asyncData = data]
  ELSE port

\* getAsyncData(): its answer, and the state it leaves.  The data is not read again
\* before it is set, and so forgotten.
AsyncData(port, l) ==
  IF port.lib[l].asyncState = "READY" THEN port.lib[l].asyncData ELSE Empty
DataTaken(port, l) ==
  IF port.lib[l].asyncState = "READY" THEN [port EXCEPT !.lib[l].asyncState = "IDLE", !.lib[l].asyncData = Empty]
  ELSE port

=============================================================================
