# Verification of NetBSD-Wii-Joybus

TLA+ models of the programs and drivers in this repository, with the TLC
configurations that check them and the theorems proved about them with TLAPS.

The programs talk over the Joybus, the serial link between a Wii running NetBSD
and a Game Boy Advance. The largest is *puffboy_advance*: a file system whose files
live in the memory of the Game Boy, mounted on NetBSD through puffs. The others
are an echo demo, a throughput test and a sender for the multiboot protocol that
loads a program into the Game Boy. Beside them the repository carries a library of
drivers for everything the Game Boy's link port can do; the Joybus driver is one of
them, and those for the link cable, the wireless adapter and the Mobile Adapter GB are modelled too.

## 1. Inventory

| Component | State | Operations | Module |
|---|---|---|---|
| GBA file store, `puffboy_advance/gba/src/main.cpp` | `ENTRIES` (directory entries linked by `child` and `next`), `GBA_BLOCKS` (blocks tagged with owner and index), `ID` | one handler for each of 11 commands | `PbaStore` |
| Wii mount handlers, `puffboy_advance/wii` | list of puffs nodes; cookies the kernel holds | 8 puffs callbacks that change state, one remote call each (read and write: a loop), and 4 queries | `PbaMount` |
| Framing and remote calls, `puffboy_advance/shared/command.h`, `wii/pba_ops.c`, `wii/node/write.c` | `carry`, `remainder`; the loop of `main()` | `send_request`, `receive_response`, `wait_for`, the conversation of `CMD_WRITE` | `RemoteCall` |
| Joybus access from the Wii, `wiishared/lib/gcport_ioctl.h` | none | `gba_write`, `gba_read`, `cmd_reset`, `cmd_identify` | the Wii's actions in `LinkCube`, `RemoteCall`, `Multiboot`, `Demos` |
| Joybus driver, `gbashared/lib/LinkCube.hpp`, and `Link::Queue` | three ring buffers, `isReading`/`isWriting`, deferred clears, `resetFlag`; registers `JOYCNT`, `JOY_RECV`, `JOY_TRANS` | interrupt handler; `send`, `read`, `wait`, `didReset`, `didQueueOverflow` | `LinkCube` over `JoybusPipe` |
| Multiboot sender, `wiishared/lib/multiboot.h`, `multiboot_helloworld/wii` | retry count, session key, checksum; up to 4 threads on one rom | `multiboot`, `read_rom` | `Multiboot` |
| Echo and performance test, `echo`, `performance_test` | words sent and awaited | send a message, await as many words | `Demos`, which extends `Multiboot` |
| Link cable, `LinkCable.hpp` | queues of outgoing, incoming and new messages per player, timeouts | VBLANK, SERIAL, TIMER handlers; `send`, `sync`, `read`, `waitFor`, `resetTimeout`, `activate`, `deactivate` | `LinkCable` |
| Raw transfers, `LinkRawCable.hpp`, `LinkSPI.hpp` | `asyncState`, `asyncData`, the registers of the port | `activate`, `transfer`, `transferAsync`, `getAsyncData`, SERIAL handler | `LinkPort` (operators on records) |
| Cable multiboot, `LinkCableMultiboot.hpp` | state machine of ten states, client mask, timeouts | `sendRom`; `Async`: `sendRom`, `markReady`, `reset`, VBLANK and SERIAL handlers | `CableMultiboot` over `LinkPort` |
| Wireless, `LinkWireless.hpp`, `LinkRawWireless.hpp` | messages with IDs, acknowledgements and bitmaps per player; session; timeouts | handlers; `serve`, `connect`, `keepConnecting`, `send`, `receive`, `closeServer`, ... | `WirelessPackets`, `Wireless`, `WirelessMessages` |
| Mobile adapter, `LinkMobile.hpp` | state machine of 18 states, queue of requests, command under way, word that waits for TIMER, frame counters | `activate`, `deactivate`, `shutdown`, `call`, `callISP`, `dnsQuery`, `openConnection`, `closeConnection`, `transfer`, `hangUp`, `waitFor`; VBLANK, SERIAL, TIMER handlers | `LinkMobile` over `LinkPort` |
| The other drivers of `gbashared/lib` (wireless multiboot, universal, card, GPIO, IR, PS/2, UART, SDK) | - | - | not modelled |
| Graphics and runtime libraries, `gbashared/_lib`; the demo game | - | - | not modelled |

How they interact. The NetBSD kernel calls the puffs handlers one at a time (the
puffs main loop is single-threaded). A handler waits until the Game Boy has
nothing to send, writes a command word and a request, and reads a response: a
strict remote call. The words go through the ioctl of `gcport_ioctl.h`; on the
Game Boy the hardware raises a SERIAL interrupt for each, `_onSerial` moves words
between the registers and the queues, and `main()` takes them out with `read()`
and answers with `send()`. So there are two places where things happen
concurrently: between the interrupt handler and the program it interrupts, and
between the Wii's commands and the handler.

The cable and wireless drivers have no Wii: their actors are consoles, each with a
program and up to three handlers (VBLANK counts frames, TIMER starts transfers,
SERIAL ends them), and the cable or the adapters between them.

What is hard here:

* `_onSerial` and the program share the queues without ever disabling interrupts;
  what protects them are flags and the order of single accesses.
* The Wii's commands are acknowledged through a register write that acknowledges
  more than was handled; overflow drops words; a reset can fall anywhere.
* The store leaves stale pointers and stale tags behind: removed entries stay in
  lists, reclaimed slots are handed out again, growths fail half way. What must
  not follow is that an id names the wrong file or a read shows the wrong bytes.
* A remote call has no length or end marker: both sides must agree on the number of
  packets, and a restart of the file server leaves the Game Boy in the middle.
* A driver's timeout stands for everything that may be wrong; what is left over from
  before it must not be taken for what comes after.
* Wireless packets are repeated until they are confirmed, with IDs of 6 or 4 bits
  that wrap around, over adapters that repeat, replace and lose transfers.

`PROJECT.json` lists the hazards, each at its line, with the properties that cover
it.

What makes each component correct:

* store: ids are unique and never reused; the sizes of a file agree with each
  other and with its blocks; a command changes one file only; resizing and writing
  keep the bytes they do not concern, and what is written is stored; aligned reads are exact;
* mount: the cookies the kernel holds name live files, no freed node is used again;
* remote calls: messages arrive as they were, a call begins on a quiet link, and
  every call returns;
* Joybus driver: the two queues of the abstract link, whatever the interleaving;
  delivery; consistent queues across resets;
* multiboot and demos: every sender finishes or gives up, what runs is the rom, what
  is printed is what was sent;
* link cable: messages are read once and in order, none is lost without an overflow
  or an error, a silent player is noticed;
* cable multiboot: success means that the whole rom is loaded, and every call ends;
* wireless: what has not got to the other side is kept and sent again, nothing is repeated
  or overtaken; one command at a time with the adapter; who has left is noticed;
* mobile adapter: one transfer at a time and none forgotten, a struct gets the answer to what
  it was last used to ask, every wait returns, the end of a call is noticed.

## 2. Plan

Done: the store and its proofs; the abstract link and the Joybus driver that
implements it; the mount, on top of the store; remote calls; multiboot, echo and
performance test; the drivers for the link cable, cable multiboot, wireless and the mobile adapter.

Left, in this order:

1. `LinkWirelessMultiboot.hpp`: a state machine of the same kind as `CableMultiboot`. It
   drives the login and the words of a command in `LinkRawWireless.hpp`, which
   `Wireless` takes as one step.
2. `LinkUniversal.hpp`: the composition of `LinkCable` and `Wireless` that switches
   between them.
3. Proof: `NoPacketLoss` of `Wireless`, from the lemmas of `NoMessageIsMissing` about sessions.
4. A store of files as functions from ids to byte strings, which `PbaStore` implements
   as long as no write crosses a block boundary in the middle.

## 3. Modules

**PbaStore.** `entries`, `blocks` and `ID` are the globals of `main.cpp`. Slots are
numbered from 1, `0` is the null pointer. A handler runs to completion between two
commands, so each is one action, with the entry and block helpers it calls (and
the loops in them) folded into its primed variables: `entry_append`, `entry_remove`
and `entry_reclaim` are part of `handle_create_request`, `handle_rm_request` and
`handle_reclaim_request`. `CMD_WRITE` is the exception: its handler answers and then
blocks for the chunks, so `writing` holds its locals and each chunk is an action of its
own. `hung` says that the handler has entered a loop it never leaves: a walk of a
list that has become circular, or the chunk loop after `x` has wrapped. After
that no action is enabled, which is why these runs do not check for deadlock.
`Chain` is the walk down a directory's list; it is followed for as many steps as
there are slots, after which a list that has not ended is circular. `resp` is the
last response. A scan of a table is the least element of a set.
Data is small: a byte is a model number, `Garbage` stands for memory that is read
beyond what was meant, names are model values, attributes no behaviour
depends on are left out. `Names`, `Bytes` and `Extents` are what requests may carry;
the requests are those the kernel makes (directory operations on directories, data
operations on files, no reclaim of the root).

**PbaMount** extends `PbaStore` and uses its handlers: a callback is one action because
the puffs main loop makes one at a time and each waits for its response. `nodes` is
`ctx.head` (the first node `pba_cmap` finds for a cookie), `vnodes` what the kernel
was given by lookup, create and mkdir and has not reclaimed. `NodeReclaim` may happen
at any time to any vnode but the root, because the kernel recycles vnodes when it likes;
the setback of remove and inactive only asks it to. `puffboy_node_read` and
`puffboy_node_write` send several requests, so they are an action for the call and one
for each request; `reading` holds the locals of the read loop. `aborted` is the return of
`puffboy_node_write` in the middle of a write because of an `err` the Game Boy never set;
nothing is enabled after it. `Lacks` and `Finds` are the lookups the kernel makes before
a create and a remove. Lookups of `..` are answered without a remote call and change
nothing. Queries (getattr, readdir, statvfs, pathconf) keep no state; the commands they
send are checked in `PbaStore`.

**RemoteCall** has what `PbaMount` takes as one step: the words of a call. A message is
a sequence of words of `W` bits; a packet has its top bit set, carries `W - 1` bits, and
what does not fit waits in the remainder, so that after `W - 1` words there is one packet
more (`Turns` is the loop of `send_request`). The word the Wii's poll gets is in `JOY_TRANS`, loaded by the poll before: a poll
may answer 0 although words wait, which is why `wait_for` counts several. Commands are
the constants `Code`, `RequestLen` and `ResponseLen`; a write goes on with chunks.
`Restart` ends the file server at any point and starts it again, with the Game Boy where
it was. `garbled` marks a write given up for the `err` that is never set, `cut` a server
ended while the Game Boy was in a handler: after either the two are out of step for good,
and the properties are about calls that are in step.

**JoybusPipe** is the abstract link: a queue of words each way that loses words only
when more are under way than there is room for.

**LinkCube.** `_onSerial` is one action (interrupts do not nest), split by the flag it
finds first. `send()`, `read()`, `wait()`, `didReset()` and `didQueueOverflow()` are
sequences of actions, one for each access the handler can come between;
`main` is the point the program has reached and `tmp` the value it has loaded. The
Wii's commands set flags in `JOYCNT`. `use`, chosen once among `Uses`, says which calls the
program makes, how many words are sent and resets made, and whether the Wii is *paced*: it
then waits for the handler between two commands (the `udelay` of `gcport_ioctl.h`);
without that several flags may be set at once and the write-back in `setBitHigh`
acknowledges them all. `Pipe` is the refinement mapping: the words under way to the Game
Boy are those in the two queues and the register, except that a `pop` or `push` that has
moved `front` and not yet stored `count` has already taken its word out.

**Multiboot** is `multiboot()` word by word, one instance per worker (the threads of
`multiboot_helloworld`, which share nothing but the rom and the process). Keys and checksums are
symbols: an encrypted word is the word with the number of key steps and the address it
was mixed with, and the loader of the BIOS, external, gets it back only if it is at the
same ones; a checksum is the words it covers. `settled` is whether a loader that reports ready takes
the word that follows at once. `exited` is `errx` after a failed ioctl, which ends all threads.

**Demos** extends it with the two programs that may begin with a multiboot: `program` says
which runs. Both sides of echo and of the performance test are actions over the queues
and the register; a test sends more words than the Wii counts, and the rest is left to
the next round. `Restart` starts the Wii's program again.

**LinkCable.** Consoles with the three handlers as actions, the program's calls as
one action per access to what the handlers share (`isReadingMessages` and the move out of
`readyToSyncMessages` in `sync()`), and the cable: a transfer takes the words the registers
held when it began and raises SERIAL on every console. The next begins when every
handler has run: the timer's interval is longer than a handler. Bit errors, consoles that are
plugged, unplugged, deactivated or reset spend `incidents`. Queues are sequences, since
`LinkCube` has their fields. `silent` and `lossy` are history variables for the properties.

**LinkPort** has the asynchronous and blocking transfers of `LinkRawCable` and `LinkSPI`
as operators on a record: the two keep the same state, and share the registers.

**CableMultiboot** uses it for both ways to send a rom. In `Async`, the SERIAL handler
enables nested interrupts, so VBLANK's can run between its steps: it is three steps
(take the response, process it, clear `interrupt`), with one operator per state for the
second. `startMultibootSend()` is called by handlers and by the program; `saved` is what it
puts back when a VBLANK came in its middle. A loader answers a word in the transfer
that follows it. `sendRom()` blocks and hands the rom to the BIOS's `MultiBoot`.

**WirelessPackets** has what `LinkWireless` does with its messages, as functions of a
record of its `SessionState`: queueing, building a transfer, taking one apart, acknowledging, forwarding,
releasing, declares the variables both of its users have, and says what is meant by words that are in order or missing
(`NoneMissing`: every word after the last one read has been received, or is in its sender's own queues; what only a
transfer carries does not count, since any transfer may be lost). Two modules use it. **Wireless** has the handlers and calls of a console step by step, with adapters
that are external: each holds the last transfer for its console, loses transfers and
repeats what a client that has left sent last. **WirelessMessages** takes a command of the adapter as one step, has
only consoles that stay, and so affords two clients, forwarding and longer exchanges.

**LinkMobile.** The driver is a record `m`, with its part of the port in `m.port` and the structs
results are put into in `m.results`. VBLANK, TIMER and SERIAL are actions made of one operator per method;
`\E d \in {...}` binds what one method leaves for the next. Messages go in parts (header, body, in 8-bit mode the device, acknowledgement),
so that both word sizes are one protocol of four or three transfers, and the part under way is
`async.transferred`. What a request asks (a domain, an address, a connection, bytes to transfer) is a member of `Questions`, of which a
struct has its own; `Uses` gives each struct one type of request, as its C++ type does. An answer names the type and the question, so
the answer to another struct's request, or to an earlier one of the same struct, is a different value. A call of the program checks, queues its request and returns; its push is split between the stores of
`syncPush`, because an abort in a handler clears the queue in its middle. When that happens between
the assignment of `rear` and the store that uses it the request is written before the array:
`main.pc = "out of bounds"`, after which nothing is enabled. `commandSent` is left out and the age of a request is counted in a copy, as in the
code (section 6). The adapter is external: it listens to a command, takes its time, answers, refuses, or
says that a connection was closed; an incident garbles a word, makes an answer of another size, unplugs it, or is a
program that calls `activate` or `deactivate`. `asked` is a history variable; `Pinging` says that
the adapter answers a question for its status within the second there is between two of them.

The `MC` modules carry the configurations. Operators marked as mutants are plausible
mistakes in the code they stand beside; each property is violated when one of them
replaces the definition after it.

## 4. Runs

| Run | Bounds | Shows |
|---|---|---|
| `store` | all 11 commands, 3 slots, 1 name, 1 created file, 3 blocks of 2 bytes, sizes and offsets 0, 1 and 3, link counts modulo 3 | ids are unique and never come back, through removes and reclaims that leave dangling or circular lists; sizes, blocks and bytes survive growth, shrinking, exhaustion, failed growth, chunked writes and the wrapping chunk; every chunk is stored whole; aligned reads are exact |
| `mount` | 3 slots, 2 names, 1 created file, 2 blocks, sizes and offsets 0 and 3, reads at 0, 1 and 2 of 1 or 4 bytes | the kernel's vnodes name live files of their type; nodes are neither freed nor stale; reads of whole blocks are complete |
| `mount_read_fits` | as above without creates, violated | a read of 1 byte copies 2 and goes on |
| `store_reclaim` | writes and reclaims, violated | reclaim keeps the blocks of the file |
| `cube` | queues of 2; paced: send, read, wait, 5 words each way; unpaced: all calls, 3 words, 1 reset | the driver implements `JoybusPipe` and delivers; across a reset the queues of received words stay consistent and each word popped is later than the one before |
| `remote_calls` | words of 3 bits (0 and 5), queues of 7, 3 polls, 2 calls of 3 commands with up to 3 words, 2 starts | messages arrive as they were, to the last word, calls begin on a quiet link and return |
| `demos` | 2 workers, a rom of 4 words, 1 retry, 1 unplug, queues of 4, 3 rounds, 2 starts | the rom boots or the sender gives up; echo is exact; rounds end |
| `cable` | 2 consoles, queues of 1, timeout 1, 2 words, 1 incident | messages are read once, in order, none is lost, silence is noticed |
| `cable_multiboot` | 2 clients, 1 part of header and rom, 3 tries, 3 incidents, both kinds and modes | success means loaded; every call ends |
| `mobile` | 3 structs, queue of 2, timeout 2, 1 frame to wait, 3 to start and between pings, 1 incident; four programs: transfers with two structs, transfers with one struct and two questions, call and shut down, log in, transfer and close a connection | commands keep the port to themselves, a struct gets the answer to what it asked, waits return, the end of a call is noticed |
| `wireless` | 1 client, IDs modulo 4, queues and transfers of 1, timeout 1, 2 words, or 1 word and 1 incident, or 1 call and 1 incident | every word sent since the client joined is received or still queued, in order and once; one command at a time; leavers noticed |
| `wireless_messages` | 2 clients, queues of 1, four exchanges of up to 2 words | with retransmission every word is received or still queued (from the server while it has one client), none is repeated or overtaken, forwarded ones included; the counts agree |

Why the bounds are enough. *Store*: two blocks a file, with a third block, give
growth within a block, across one, and failure half way; two files are what it takes to
confuse owners, and duplicate indices need a failed growth, a shrink of
the other file to one block and a second growth, which fit. Offsets 0, 1 and 3 cover the start, the middle and a block
that is not the first, and a write of more than a block that starts inside one. The `VIEW` of this run leaves out the last
response unless it is one a property looks at; nothing the store does depends on it. Two names are what `mount` has. One created
file is enough for a slot to be reclaimed while linked and be used again, which is
when a list becomes circular: the new file is appended to itself. *Mount*: it also holds
with two created files (`MaxID = 4`, 750 000 states). A read of 4 bytes of a file of 3 takes
a whole block, a short one and an empty response; a read of 1 byte makes
`*resid` (modulo 8) wrap. *Driver*: a queue of two with five words overflows at the front, in the
middle and at its end, and wraps. *Remote calls*: with 3 bits a packet carries two, so two words fill
the carry and the extra packet comes; 0 and 5 have the top bit clear and set; the write has two
chunks; the second call finds what a first one or a first server left. *Cable*: a queue of one overflows with
the second word; more than one incident and longer timeouts are beyond the time limit, while two consoles are enough for every
pair of sender and receiver except that clients do not hear each other first. *Cable multiboot*: two clients, of which
either may leave or answer late; one part more repeats the same state. *Wireless*: IDs modulo 4 wrap within one exchange and
a window of half of them is what 6 and 4 bits have too; an incident may be a lost transfer, a failed command, a
timed-out handler or another call. Two words of one console are what it
takes to lose the first of them and see the second, or to overtake; a transfer replaced before it is
read takes no incident. A handler that times out needs an incident, so behaviours that have spent theirs stop
where one would come. *Messages*: two clients are what forwarding takes; both the client
and the server send two words in an exchange of their own.
*Mobile*: `DNS_QUERY` and `OPEN_CONNECTION` are answered like `TRANSFER`, so no program of the run makes them; a queue of two has a
request behind the one served; with a timeout of two frames a request would be given up at its second, if its age were kept;
two structs, one question each, have requests outstanding together; one struct with two questions is used again while an
older answer may be on its way. The four programs between them make every call that leads to another state, with and without SIO32.

Deadlock is not checked: calls and words are bounded, and several models have states in which
the system really stops (a Game Boy in an endless loop, a process that has ended).

Fairness. `LinkCube`: weak fairness of `onSerial`, since an interrupt that is
requested is delivered; of the steps inside `send()` and `read()`, since
the program is not stopped in a call; strong fairness of `Read`: the program polls
`canRead()` in its main loop (`main.cpp`, line 717) and takes a word that is there,
although the queue may be busy each time it looks; weak fairness of `WiiRead`:
`do_receive` polls in a loop. None is assumed of sending, so the link has to
deliver the last word too. `RemoteCall` and `Demos`: weak fairness of each side's next step, none of restarts,
unplugging or the user. `CableMultiboot`: transfers end, VBLANK comes, handlers and calls go on; strong fairness of
`markReady`, which the program calls in its loop and which a handler may disable each time. `LinkMobile`: weak fairness of VBLANK,
of the transfers (TIMER, then SERIAL) and of the adapter's answers; none of the program, the other side of a call or incidents.
`LinkCable` and `Wireless` have no liveness property: that silence is noticed is stated as a bound on the frames instead,
which needs no fairness.

## 5. What is proved

All theorems hold for any values of the constants that satisfy the module's assumption.

`PbaProofs` has the store's theorems first, which hold for tables, blocks, names, bytes and requests of any size:

* `TypeCorrect`: `Spec => []TypeOK`;
* `IdsStayUnique`: `Spec => []IdsUnique`;
* `SizesStayAgreed`: `Spec => []SizesAgree`;
* `BlocksStayCovered`: `Spec => [](SizesAgree /\ BlocksCovered)`;
* `DeadIdsStayDead`: `Spec => DeadStayDeadAlways`.

The inductive invariant is `IInv == TypeOK /\ IdsUnique /\ SizesAgree /\ BlocksCovered`.
The parts need each other. That a shrink finds its blocks (and so stores its
sizes) is `BlocksCovered`; that it frees no block of another file and that a growth's new
block belongs to this file alone is `IdsUnique`; that the new number of blocks of a
shrink is not above the old one is `SizesAgree`, with a lemma on division; and reclaim,
which wipes blocks with tag 0 only, disturbs no live file because a live id is not
0. The lemmas go from arithmetic (`DivMod`, `DivMonotone`) over the block scans
(`FoundById`, `FoundBlock`) and the two halves of `entry_setsize` (`ShrinkKeeps`,
`GrowKeeps`, which also covers the growth that runs out of blocks) to one lemma per
handler, and `StepIInv` has one case per action. `IdsStep`, proved alongside,
says that a step keeps ids or takes the next one, which gives the action property.

It goes on with the bytes of the files:

* `SparesStayBlank`: `Spec => []SparesBlank`;
* `FilesStayApart`: `Spec => OneFileChangesAlways`;
* `WritesStayInRange`: `Spec => WriteStaysInRangeAlways`;
* `ResizesKeepBytes`: `Spec => ResizeKeepsBytesAlways`;
* `ReadsExact`: `Spec => []AlignedReadExact`.

The invariant of these is `DInv == IInv /\ WriteFits /\ SparesBlank`. `WriteFits` says that a write under
way is within the size of its file, which is needed because a chunk must not
reach the blocks beyond it: these are the spares a failed growth left tagged with the file, and they
are blank as long as nothing writes them. `SetsizeEffect` and `ChunkEffect` say what the two
operations that change blocks do to them; `StepKinds` says that every step is
one of these or leaves all files alone, so each theorem about bytes has three cases
and not twelve. `ChunkStored` is what `WritesStayInRange` needs beside them: the scan finds the block of each byte of a chunk, as the blocks cover the file. That a growth reads as zeros needs `SparesBlank` (the block found may be an old spare) and that
a scan finds a block when there is one (`ScanFinds`, from the well-foundedness of `<`). `RInv` adds to `DInv` that the file of the last answer is still live.

`WirelessProofs`, for any number of clients, queue sizes, timeouts and budgets; its invariants, and what an
operation does to a session, are stated in `WirelessInvariants`:

* `CommandsStayApart`: `Spec => []OneCommandAtATime`;
* `LeaversAreNoticed`: `Spec => []LeaverNoticed`;
* `CountsStayTrue`: `MessagesSpec => []CountsAgree`;
* `NoMessageIsMissing`: `MessagesSpec => []NoMessageLoss`.

The invariant of the first is `CInv == Shape /\ HandlersKeptOut /\ OneCommandAtATime`. The
property is not inductive: a handler that starts a command while the program has the adapter is kept out by
`isSendingSyncCommand`, but a VBLANK that times out clears that flag in the middle of the program's call.
`HandlersKeptOut` says what holds then: the session has ended with it, and handlers
start commands in a session only. One lemma per action follows from what it does to one console (`OneConsole`).
The second is a fact about each pair of consoles. `LeaverNoticed` bounds the frames of silence by one timeout, but two counters
take turns in noticing it: `recvTimeout` counts the frames without any data, and `msgTimeouts` the transfers
without a packet of the player. `Noticing(c, p)` is what both are worth at a time. A transfer of the player that waits in a slot of the adapter can be
heard once more; while it waits the silence is at most one of the two counters, and once
nothing waits it is at most `msgTimeouts` and one timeout more. A restart of a console zeroes its counts (`Restarted`), and a player
who drops out of the players still looked at does so because the server that has closed its session has counted everyone
who is linked (`CountedWhenClosed`).
The invariant of the third, `CountsInv`, says of every session (`Counted`) that the messages with an ID are the first
`inflightCount` ones of its queue and fit the window, that what the program has sent has no ID yet, and that
`forwardedCount` is the number of messages in the queue that come from others; it also fixes the session's configuration to that of the exchange. Each operation on a session is stated once as what it does to
the fields of the record (`Flows`, `Stamps`, `Takes`, `Forwards`, `Cuts`, `Confirms`), and the loops over the
messages of a transfer and over the players as functions of their steps (`Receives`, `Listens`).

The invariant of the fourth, `LossInv`, is `CountsInv` and, when the sessions retransmit, `Good`. `NoMessageLoss` alone
is not inductive: it relates a queue of one console to one of another, and says nothing of the acks and packets between them that the
next transfer acts on. `Good` says three things.

* `Sound`, of each session. The packets in flight have the last IDs, one after the other
  (`Consecutive`), so an ID stands for a place: `Back(x, i, id)` is how many packets were stamped since it. The program's own
  words are the last ones it sent, in order (`OwnWords`), and those it can read are in order for each player.
* `Between`, of the server and each client. A transfer that waits in a slot carries packets with consecutive IDs, the first one `Depth` places from the
  last ID given (`SlotFits`). `Lag` is how many packets with an ID the receiver has not accepted, and it, `Depth` and the ack on
  the way back are at most the window, which is less than half of the IDs (`Keeps`): this is why an old ack or
  an ID that is used again is never taken for a new one. `Exact` then says that the receiver has all words up to
  `Top - Lag` and nothing else, from the first word on, so the rest is in the queues of the sender. It holds on the way to the server, and to a client while it is the only one (`Single`): with two the
  server releases what one of them has confirmed. What still holds to every client is `Ordered`, that a word it may yet accept is
  later than all it has of that player, and `Placed`, that no forwarded word has come further than the
  server's queue.
* `Unlinked`: who has not joined has sent and confirmed nothing.

The proof has one lemma for each thing that happens to a pair of sessions: a push, a read, a stamp, a transfer made, an ack
heard, a list of packets taken one by one, a forwarded word, a new client. The loops of `addIncomingMessagesFromData` are followed with
what holds after each player (`Heeded`).

The second half of `PbaProofs` is about the mount, on top of the first, for any tables, names and reads of any size:

* `HeldStayLive`: `MountSpec => []HeldLive`;
* `FreedNodesStayAway`: `MountSpec => []NoFreedNode`;
* `LinkCountsStayCached`: `MountSpec => []LinkCountCached`;
* `ReadsAreComplete`: `MountSpec => []ReadComplete`.

`MountInv` adds to `IInv` what the Wii keeps about a file next to what the file's slot holds. A node need not belong
to a vnode the kernel holds, so `NodesAgree` speaks of the node of every live file: it is in use and its link
count is the slot's or unknown. `FreshIds` says that an id not handed out yet has no node,
which is what makes the node of a create the only one `pba_cmap` can find, also after creates that hang in a circular list and never
answer. `LookupKeeps` needs that a lookup answers with an entry of the list, and that a list that does not end
is one that hangs: `WalkExists` and `ChainTyped` are about the walk down a list of any length, by the least step at which
they could fail. `Progress` is the invariant of the loop of `node/read.c`; the theorem about it holds for reads of whole
blocks that start anywhere, and asks of a read only that its size fits the 32 bits of `size_t` (`MountAssumption`).

`LinkCableProofs`, for any number of consoles, queue sizes, timeouts and incidents:

* `TypeCorrect`: `Spec => []TypeOK`;
* `SilenceIsNoticed`: `Spec => []SilenceNoticed`;
* `ReadAtMostOnce`: `Spec => []AtMostOnce`;
* `NoMessageIsLost`: `Spec => []NothingLost`.

`SilenceInv` relates the history variable to the counters of the driver: the transfers a player has been silent in are at
most its `msgTimeouts` and one more, and these are at most the configured timeout and the
frames without an interrupt. The order of messages is a fact about each pair of
consoles. `Flow(p, c)` puts the places in a row in which a message of `p` for `c` may be: read, in `synced`, in the
collected queue, in `new`, carried by the transfer or the handler's argument, in the register, in `outgoing`.
Messages rise along the row, and if neither console has lost anything each number
sent is at one of the places. The lemmas are about the row alone (a message is copied, stored, fetched, or some places are emptied),
and each action is one of these for every pair. `WireInv` and `ConsoleInv` say when a register holds
what the transfer under way carries, and which queues the handlers keep off.

`LinkMobileProofs`, for any timeouts, frames, requests and sequences of incidents:

* `TransfersDoNotOverlap`: `Spec => []OneTransferAtATime`;
* `AnswersStayTrue`: `Spec => []AnswersBelong`.

`Sound(d)` is an invariant of the driver's record: a word waits or is sent exactly while a command is active (or the driver
pings), the command's progress fits its direction, no command is active in the states that begin one, and the port is open
unless the driver has given up. There is a lemma for each method, over the record it takes and the one it returns, so the handlers and the program's calls
are put together from them.

`AnswersStayTrue` needs to know why an answer is that to the first request. `Right(d, a, writing, coming)` relates the driver
`d` to the adapter `a`. `Queued`: only the first request may be finished, and each other one, with the one the program is about to
store (`coming`), has a struct of its own that waits for its type and its question. `Commanded`: while a command for a struct is under way its
request is still the first, unfinished, in a state that serves it (`Served`), so the state only changes under commands that
belong to no struct. `InTune`: while a command is sent the adapter, if it has taken its header, is at the word the driver is at and holds what the driver has
sent; while the answer is received, the adapter answers (if it answers at all) the command that was asked, with the question of the first request.
This is what makes an answer of an earlier session harmless: an adapter that still answers when a session begins is not
acknowledged, since the word it gets is not the one it expects, and takes a header for the beginning of a command whatever it did before. `Truthful` is the only
assumption about the adapter: what it answers is to the command it has, an error about it, or that the connection is closed. Garbled
words end the command or the session, and an `Odd` answer is put into no struct but that of a connection to close, which has no room for it (`Told`, `Tells`).

`LinkCubeProofs`, for queues of any size and any uses:

* `QueuesStayConsistent`: `Spec => []IncomingConsistent`;
* `WordsAreReadInOrder`: `Spec => ReadInOrder`;
* `DriverIsAPipe`: `Spec => ImplementsPipe`.

The first part is about `Link::Queue` alone: slots modulo the size, and what `push`, `pop` and a full push do to the
sequence of items. The loop of the handler that moves words from one queue to the other is unrolled by induction on
the number of words (`Steps`). `Received` says that the words held rise from the last word read to the
one in `JOY_RECV`, in every use and through resets, so a `pop` always takes a later word than the last one. `OutInv` is the same for words sent, in uses that are a pipe (`Piped`: paced, and without
resets). There the refinement is proved step by step: `WiiWrite` is the pipe's write, `Pop` its read, `PushCount` its send and
`WiiRead` its receive when there is a word; a receive or `PushDrop` with a full queue loses
the oldest word; all other steps stutter. In the other uses the mapping is constant.

`DemosProofs`, for any rom, number of Game Boys, messages that fit the queues and restarts:

* `RomsBoot`: `Spec => []BootsTheRom`;
* `EchoesAreExact`: `Spec => []EchoExact`.

`Loading(w)` says that a sender and its loader are in step: what has been loaded is the rom up to the next word, the key has been advanced
once a word, the checksum covers the words behind the header; a loader that missed its first word is one word short, so its
checksum is wrong whatever the words are. The threads share nothing, so each step is a matter of one worker.
For the echo the words of a message stand in a row (`Flow`): those the Wii has read, the one in `JOY_TRANS`, `toWii`, the word in
`send()`, `toGba`. No step reorders the row, only `Send` makes it longer, and its length bounds the queues, so nothing is dropped. What makes it start empty is the
wait for a 0: between messages nothing is on the link but what a poll that answers 0 has shown to be empty (`Answered`), and a Game Boy
that has not started its program answers its 1 for ever (`Off`).

`CableMultibootProofs`, for any clients, sizes of the rom, limits and sequences of incidents:

* `SuccessIsLoaded`: `Spec => SuccessMeansLoaded`.

A loader that has come to the end has the rom, and the checksum it answers is of what it has (`Fits`). `Ending` ties the driver
to it: while it waits for the last answer, the word under way is its own checksum, so that a client whose answer of
the same transfer is that checksum takes the word for its own and runs. This needs that nothing else is under way at that
time. It holds because interrupts are off from the word that is sent to the next transfer's end, and because a data
item that was not taken never stays in the port (`PortOK`). A response is the one of the last interrupt or empty (`Answers`), whatever
VBLANK has done to the state in the middle of the SERIAL handler.

`RemoteCallProofs`, for words of any width, any words, messages and commands, and any time-outs, restarts and calls:

* `CallsStayQuiet`: `Spec => []QuietBeforeCommand`;
* `MessagesStayIntact`: `Spec => []MessagesIntact`.

It assumes that commands have codes of their own (`CallAssumption`) and that the queues have room for the packets of a message
and its command (`MessagesFit`; in the code the longest message is the answer to a read, 34 words in 36 packets, and a queue holds 120). `CallInv` is
that of a protocol: while the two sides are in step, either nothing is under way (`Resting`, `Quiet`), or the request is
(`Asking`: its command or the rest of it is on the way in order, and nothing comes back), or the response is (`Answering`:
what is in `JOY_TRANS`, in the queue and still in `send_request`, in this order, is the rest of it, and the Game Boy goes
where the Wii expects it: back to `main()` or on to the next chunk). `Resting` says what the wait of
`main()` at the start is for: the 0 it reads may have been in the register while words of an old answer wait, but the poll that
read it has loaded the register again, so that after it a 0 means that no word waits, which is what the 0 of a call's own `wait_clear` shows. `Aligned(r, msg, k)` says how far a receiver is after `k` packets:
its words are those of the message, its `carry` that of the sender's turn, and its `in` the low bits of the next word; `AlignedStep` is that
the next packet, the last one of a message included, whether the start of a run or the rest of one word and the start of the next, keeps it so. That the two halves of a word
make the word (`FirstPacket`, `LaterPacket`, `Fits`) rests on powers of 2, which are counted as subsets of an interval because
`^` has no other facts in the prover; `Turns` is a recursive function and its existence is proved from a least counterexample.

Only model-checked: `NoPacketLoss` of `Wireless`, which adds to the lossless exchange of `WirelessMessages` the commands, timeouts and
restarts of the driver (see section 2, item 3). Out of the prover's reach: all liveness properties (`InboundDelivered`, `OutboundDelivered`, `CallsReturn`,
`WorkersEnd`, `RoundsEnd`, `MultibootEnds`, `WaitsReturn`, `CallEndNoticed`), since they rest on fairness and `ENABLED`. What a loop or a walk of any length does is
proved where it can be said of a set of natural numbers (a least counterexample, or a set closed under successor); the
induction theorems of the library, which take a predicate, cannot be used.

## 6. What the models say about the code

Shown by a run that is violated:

* `entry_reclaim` clears the id it goes on to search for: the blocks of a reclaimed
  file are never free again (`store_reclaim`).
* `handle_read_request` ignores `copylen`: a read of less than a block returns a block,
  `*resid` wraps and the loop copies the rest of the file (`mount_read_fits`).

Built into the actions, as the code has it; the checked properties say what survives it:

* `entry_remove` cannot unlink the first entry of a directory. That entry's
  link count also starts one too low, because `entry_append` returns before the increment,
  and wraps when it is removed. Reclaimed entries stay in lists, so a list can become circular
  and the next walk of it hangs.
* A chunk that crosses a block in the middle of a write makes `x` wrap, fills the rest of the write
  from memory after the chunk and never answers. `write_buf_resp.err` is sent without having been set.
* A read that does not start at a block boundary returns bytes from beyond the block. A failed growth of
  `CMD_SETSIZE` is answered as a success.
* The Wii reclaims a file on the Game Boy whenever the kernel recycles its vnode, linked or
  not: the file is gone. What still holds is that no vnode is left that names it (`HeldLive`). A file the
  Wii has not created itself (`hello.txt`) has a node of type `VNON`: setting its size is refused.
* `syncPush` clears the outgoing queue with the writing flag already down, so a poll may come between its stores;
  `didReset` loads and then clears, so a reset in between is not reported, as with `didQueueOverflow`.
* `LinkCableMultiboot::Async`: what the clients contribute to the checksum is taken as it comes;
  `startMultibootSend()` sets its state before the data of a transfer is back.
* `LinkWireless`: the comment on the smallest acknowledgement (`LinkWireless.hpp`, 1647) speaks of the least of the
  clients' acks in the circle of IDs; of two that are less than 7 apart the code (1649) keeps the larger. A packet one client has
  and another has not can so be released; `NoPacketLoss` claims the way from the server while it has one client. A client that
  joins late acknowledges from 0. Without retransmission the repeated slot of a client that has left delivers its messages again. A command that
  ends after a VBLANK has reset the console may write the player count it read before.
* `LinkMobile`: `processUserRequests` works on what `peek()` returns (`LinkMobile.hpp`, 924), a copy: the timeout it counts there (925) never
  gets beyond one frame and the `commandSent` it sets is lost. So a request that takes longer than `config.timeout` does not reset the
  connection, as line 264 promises, and one whose answer has not finished it is sent again.
  `waitFor` still returns (`WaitsReturn`): answers, failures and the end of the session see to it.
* The requests in the queue when a session ends are dropped without completing their structs; `waitFor` returns because there is no session.
* An abort while the program is between the stores of `push()` clears `rear` to -1 and the request is written before the array (`_link_common.hpp`, 293).

## 7. Not modelled

* The drivers for the wireless multiboot, universal link, card reader, GPIO, infrared, PS/2, UART and the
  SDK protocol, and their C bindings: see section 2 for those worth the effort; the others have no more state than registers.
* Of `LinkRawWireless.hpp` the words of a command, the login and the commands `LinkWireless` does not use; of `LinkWireless.hpp`
  `restoreExistingConnection`, nested interrupts, `resetTimer`; of `LinkCable.hpp` `resetTimer` and `peek`; of `LinkSPI.hpp` the slave.
  `ResetSession` clears `overflow`, while the code keeps `outgoingMessages.overflow` until it is asked for.
* Of `LinkMobile.hpp` what `readConfiguration`, `getState`, `getError` and the like return, the type of adapter, and the bytes of
  requests, answers and checksums: an answer has the size its command expects or not.
* The queries of the mount copy attributes and are not modelled beyond their commands.
* `activate()` and `deactivate()` of `LinkCube` while transfers run: the programs activate once.
* Graphics, sound and text of the demos, and the libraries under `gbashared/_lib`.
* `ID` is a C `int` that would wrap after 2^31 creations; it is bounded by `MaxID` here.
