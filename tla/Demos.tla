------------------------------- MODULE Demos --------------------------------
(***************************************************************************)
(* The demos: echo/ and performance_test/ on the Wii and on the Game Boy,  *)
(* and the multiboot sender they may begin with.  One of them runs.        *)
(*                                                                         *)
(* Link: toGba and toWii are the queues of LinkCube, JOY_TRANS the word a  *)
(* poll answers before it loads the next one (RemoteCall has more of it).  *)
(***************************************************************************)
EXTENDS Multiboot

CONSTANTS
  Device,      \* the worker whose Game Boy echo and performance_test use
  Room,        \* LINK_CUBE_QUEUE_SIZE
  Timeout,     \* READY_TIMEOUT and MSG_TIMEOUT
  Texts,       \* the messages a user may enter, as words; no word is 0
  Sends,       \* the words the Game Boy sends for a test: 1024
  Counted,     \* the words the Wii counts: 1024 / 4
  MaxRounds,   \* bound: messages or tests
  MaxStarts    \* bound: starts of the program on the Wii

ASSUME DemoAssumption ==
  /\ Device \in Workers /\ Room \in Nat \ {0} /\ Timeout \in Nat
  /\ \A text \in Texts : text \in Seq(Nat \ {0}) /\ Len(text) <= Room
  /\ Sends \in Nat /\ Counted \in 1..(Sends - 1) /\ Sends <= Room
  /\ MaxRounds \in Nat /\ MaxStarts \in Nat \ {0}

VARIABLES
  program,    \* which of the programs runs
  at,         \* where its main() is
  polls,      \* count in wait_clear
  msg,        \* the words of the message, or of the request
  sent,       \* how many of them have been sent
  inmsg,      \* the words received for it that are not 0
  gba,        \* where the program of the Game Boy is
  todo,       \* the words it has still to send()
  toGba, toWii, JOY_TRANS,
  cut,        \* the Wii's program was ended while words were under way
  rounds, starts

main   == <<at, polls, msg, sent, inmsg>>
link   == <<toGba, toWii, JOY_TRANS>>
bounds == <<rounds, starts>>
vars   == <<mbvars, program, main, gba, todo, link, cut, bounds>>

Push(q, w) == Append(IF Len(q) = Room THEN Tail(q) ELSE q, w)

\* With -g the program begins with multiboot(), otherwise the Game Boy
\* runs already.
Init ==
  /\ program \in {"multiboot", "echo", "performance"}
  /\ \/ /\ MultibootInit(IF program = "multiboot" THEN Workers ELSE {Device})
        /\ at = "multiboot" /\ gba = "off" /\ JOY_TRANS = 1
     \/ /\ program # "multiboot"
        /\ MultibootInit({})
        /\ at = "ready" /\ gba = "main" /\ JOY_TRANS = 0
  /\ polls = 0 /\ msg = <<>> /\ sent = 0 /\ inmsg = <<>>
  /\ todo = <<>> /\ toGba = <<>> /\ toWii = <<>>
  /\ cut = FALSE
  /\ rounds = 0 /\ starts = 1

-----------------------------------------------------------------------------
(* multiboot(): for the sender of that name all there is, for the others   *)
(* the beginning.                                                          *)

Multiboot ==
  /\ \E w \in Workers : multiboot(w) \/ Unplug(w)
  /\ UNCHANGED <<program, main, gba, todo, link, cut, bounds>>

\* errx("failed to multiboot"), or on to wait_clear.
Booted ==
  /\ at = "multiboot" /\ program # "multiboot"
  /\ Ended(Device) /\ ~exited
  /\ at' = IF pc[Device] = "done" THEN "ready" ELSE "exited"
  /\ UNCHANGED <<mbvars, program, polls, msg, sent, inmsg, gba, todo, link, cut, bounds>>

\* main() of the rom: activate().
Activate ==
  /\ gba = "off" /\ bios[Device] = "running" /\ program # "multiboot"
  /\ gba' = "main" /\ JOY_TRANS' = 0
  /\ UNCHANGED <<mbvars, program, main, todo, toGba, toWii, cut, bounds>>

-----------------------------------------------------------------------------
(* The Wii.                                                                *)

\* gba_read.  A Game Boy without its program keeps what is in the register.
Poll ==
  IF gba = "off" THEN UNCHANGED <<toWii, JOY_TRANS>>
  ELSE \/ /\ toWii = <<>>
          /\ JOY_TRANS' = 0
          /\ UNCHANGED toWii
       \/ /\ toWii # <<>>
          /\ JOY_TRANS' = Head(toWii)
          /\ toWii' = Tail(toWii)
       \/ /\ todo # <<>>        \* the program is inside send()
          /\ JOY_TRANS' = 0
          /\ UNCHANGED toWii

\* Where main() goes from a wait: after the first one to the prompt, after
\* echo's for a message to sending it.
Cleared == IF at = "ready" THEN "prompt" ELSE "send"

\* Mutant: any word is taken for the 0.
wait_any ==
  /\ at \in {"ready", "clear"} /\ plugged[Device]
  /\ Poll
  /\ at' = Cleared
  /\ UNCHANGED <<mbvars, program, polls, msg, sent, inmsg, gba, todo, toGba, cut, bounds>>

wait_clear ==
  /\ at \in {"ready", "clear"} /\ plugged[Device]
  /\ Poll
  /\ \/ /\ JOY_TRANS = 0
        /\ at' = Cleared
        /\ polls' = 0
     \/ /\ JOY_TRANS # 0 /\ polls > Timeout
        /\ at' = "exited"
        /\ UNCHANGED polls
     \/ /\ JOY_TRANS # 0 /\ polls <= Timeout
        /\ polls' = polls + 1
        /\ UNCHANGED at
  /\ UNCHANGED <<mbvars, program, msg, sent, inmsg, gba, todo, toGba, cut, bounds>>

\* A message, or return for a test.  Only echo waits before it sends.
Enter ==
  /\ at = "prompt" /\ rounds < MaxRounds
  /\ rounds' = rounds + 1
  /\ \/ program = "echo" /\ msg' \in Texts /\ at' = "clear"
     \/ program = "performance" /\ msg' = <<1>> /\ at' = "send"
  /\ sent' = 0 /\ inmsg' = <<>>
  /\ UNCHANGED <<mbvars, program, polls, gba, todo, link, cut, starts>>

\* gba_write of a word of the message.
Send ==
  /\ at = "send" /\ plugged[Device]
  /\ IF sent < Len(msg)
     THEN /\ toGba' = Push(toGba, msg[sent + 1])
          /\ sent' = sent + 1
          /\ UNCHANGED at
     ELSE at' = "await" /\ UNCHANGED <<toGba, sent>>
  /\ UNCHANGED <<mbvars, program, polls, msg, inmsg, gba, todo, toWii, JOY_TRANS, cut,
                 bounds>>

Awaited == IF program = "echo" THEN Len(msg) ELSE Counted

\* The loops that read the answer; words that are 0 do not count.
Await ==
  /\ at = "await" /\ plugged[Device]
  /\ \/ /\ Len(inmsg) < Awaited
        /\ Poll
        /\ inmsg' = IF JOY_TRANS # 0 THEN Append(inmsg, JOY_TRANS) ELSE inmsg
        /\ UNCHANGED at
     \/ /\ Len(inmsg) >= Awaited
        /\ at' = "prompt"
        /\ UNCHANGED <<toWii, JOY_TRANS, inmsg>>
  /\ UNCHANGED <<mbvars, program, polls, msg, sent, gba, todo, toGba, cut, bounds>>

\* An ioctl fails: errx() in gba_read or gba_write.
Lost ==
  /\ at \in {"ready", "clear", "send", "await"} /\ ~plugged[Device]
  /\ at' = "exited"
  /\ UNCHANGED <<mbvars, program, polls, msg, sent, inmsg, gba, todo, link, cut,
                 bounds>>

\* The program is ended and started again without -g.
Restart ==
  /\ starts < MaxStarts /\ at # "multiboot"
  /\ starts' = starts + 1
  /\ at' = "ready" /\ polls' = 0 /\ msg' = <<>> /\ sent' = 0 /\ inmsg' = <<>>
  /\ cut' = (cut \/ toGba # <<>> \/ todo # <<>>)
  /\ UNCHANGED <<mbvars, program, gba, todo, link, rounds>>

-----------------------------------------------------------------------------
(* The Game Boy's main().                                                  *)

\* Mutant: no more words are sent than the Wii counts, the 0 among them.
ReadFew ==
  /\ gba = "main" /\ todo = <<>> /\ toGba # <<>>
  /\ toGba' = Tail(toGba)
  /\ todo' = IF program = "echo" THEN <<Head(toGba)>>
             ELSE [n \in 1..Counted |-> n - 1]
  /\ UNCHANGED <<mbvars, program, main, gba, toWii, JOY_TRANS, cut, bounds>>

\* Echo sends the word back; the performance test sends 0, 1, 2, ...
Read ==
  /\ gba = "main" /\ todo = <<>> /\ toGba # <<>>
  /\ toGba' = Tail(toGba)
  /\ todo' = IF program = "echo" THEN <<Head(toGba)>>
             ELSE [n \in 1..Sends |-> n - 1]
  /\ UNCHANGED <<mbvars, program, main, gba, toWii, JOY_TRANS, cut, bounds>>

\* send().
SendWord ==
  /\ todo # <<>>
  /\ toWii' = Push(toWii, Head(todo))
  /\ todo' = Tail(todo)
  /\ UNCHANGED <<mbvars, program, main, gba, toGba, JOY_TRANS, cut, bounds>>

-----------------------------------------------------------------------------
Next == \/ Multiboot \/ Booted \/ Activate
        \/ wait_clear \/ Enter \/ Send \/ Await \/ Lost \/ Restart
        \/ Read \/ SendWord

Spec == Init /\ [][Next]_vars

(* Fairness: the threads and main() of the Wii and the program of the Game *)
(* Boy go on; the user may stop, and nothing is unplugged or restarted of  *)
(* necessity.                                                              *)
FairSpec ==
  /\ Spec
  /\ \A w \in Workers : WF_vars(Multiboot /\ multiboot(w))
  /\ WF_vars(Booted) /\ WF_vars(Activate)
  /\ WF_vars(wait_clear) /\ WF_vars(Send) /\ WF_vars(Await) /\ WF_vars(Lost)
  /\ WF_vars(Read) /\ WF_vars(SendWord)

-----------------------------------------------------------------------------
(* Properties.                                                             *)

(* What echo prints is the message it sent: nothing of an earlier message  *)
(* is on the link when it is sent, whenever the Wii's program was ended    *)
(* before, as long as the Game Boy had answered all.                       *)
EchoExact == program = "echo" /\ at = "await" /\ ~cut =>
               inmsg = SubSeq(msg, 1, Len(inmsg))

(* A message or test that was started ends: the Game Boy sends at least as *)
(* many words that are not 0 as the Wii counts, although the queue drops   *)
(* words that the Wii left unread in the test before.                      *)
RoundsEnd == at \in {"clear", "send", "await"} ~> at \in {"ready", "prompt", "exited"}

=============================================================================
