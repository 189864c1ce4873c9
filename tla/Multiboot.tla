----------------------------- MODULE Multiboot ------------------------------
(***************************************************************************)
(* wiishared/lib/multiboot.h: loading a rom into a Game Boy over the       *)
(* Joybus, and multiboot_helloworld/wii/multiboot.c: a thread for each     *)
(* Game Boy, all of one rom.                                               *)
(*                                                                         *)
(* An encrypted word is [data, key, at]: the word, how often the session   *)
(* key has been advanced, and the address it was mixed with; the loader of *)
(* the Game Boy gets the word back if it is at the same key and address,   *)
(* and Garbage otherwise.  The checksum stands for the words it covers.    *)
(* The loader, in the Game Boy's BIOS, is external.                        *)
(***************************************************************************)
EXTENDS Integers, Sequences, FiniteSets

CONSTANTS
  Workers,     \* the devices given with -d
  Rom,         \* the words of the file, padded by read_rom
  HeaderLen,   \* the words of the header: 0xC0 bytes
  MaxRetry,    \* MB_MAX_RETRY
  MaxUnplugs   \* bound: Game Boys that are disconnected

ASSUME MultibootAssumption ==
  /\ Rom \in Seq({Rom[n] : n \in DOMAIN Rom})
  /\ HeaderLen \in Nat \ {0} /\ Len(Rom) > HeaderLen
  /\ MaxRetry \in Nat /\ MaxUnplugs \in Nat

VARIABLES
  pc,        \* where a worker is in multiboot()
  count,     \* resets that found the Game Boy not ready
  i,         \* the word it sends next
  key,       \* how often its session key has been advanced
  fcrc,      \* the words in its checksum
  bios,      \* where the loader is
  loaded,    \* the words it has received
  settled,   \* the loader takes words as soon as it says it is ready
  plugged,   \* the Game Boy answers the device
  exited     \* errx() has ended the process, with all its threads

loader  == <<bios, loaded, settled>>
sender  == <<pc, count, i, key, fcrc>>
mbvars  == <<sender, loader, plugged, exited>>

Garbage == "garbage"

\* The threads of the workers that are started call multiboot().
MultibootInit(started) ==
  /\ pc = [w \in Workers |-> IF w \in started THEN "reset" ELSE "none"]
  /\ count = [w \in Workers |-> 0]
  /\ i = [w \in Workers |-> 1]
  /\ key = [w \in Workers |-> 0]
  /\ fcrc = [w \in Workers |-> <<>>]
  /\ bios = [w \in Workers |-> "off"]
  /\ loaded = [w \in Workers |-> <<>>]
  /\ settled \in [Workers -> BOOLEAN]
  /\ plugged = [w \in Workers |-> TRUE]
  /\ exited = FALSE

At(w, l)     == ~exited /\ pc[w] = l
GoTo(w, l)   == pc' = [pc EXCEPT ![w] = l]
Command(w, l) == At(w, l) /\ plugged[w]

-----------------------------------------------------------------------------
(* The loader.                                                             *)

\* What it makes of an encrypted word.
Plain(w, enc) ==
  IF enc.key = Len(loaded[w]) - HeaderLen + 1 /\ enc.at = Len(loaded[w]) + 1
  THEN enc.data ELSE Garbage

\* It takes a word; the first one is lost on a loader not ready for it.
Takes(w, word) ==
  loaded' = [loaded EXCEPT ![w] = IF settled[w] \/ i[w] > 1 THEN Append(@, word)
                                  ELSE @]

\* It compares the checksum with its own, and starts the program.
Judges(w, crc) ==
  bios' = [bios EXCEPT ![w] =
             IF /\ crc.words = SubSeq(loaded[w], HeaderLen + 1, Len(loaded[w]))
                /\ crc.size = Len(loaded[w])
                /\ crc.key = crc.size - HeaderLen + 1 /\ crc.at = crc.size + 1
             THEN "running" ELSE "failed"]

-----------------------------------------------------------------------------
(* multiboot().                                                            *)

cmd_reset(w) ==
  /\ Command(w, "reset")
  /\ bios' = [bios EXCEPT ![w] = "reset"]
  /\ loaded' = [loaded EXCEPT ![w] = <<>>]
  /\ GoTo(w, "identify")
  /\ UNCHANGED <<count, i, key, fcrc, settled, plugged, exited>>

\* Mutant: the retries are not counted.
cmd_identify_forever(w) ==
  /\ Command(w, "identify")
  /\ \E ready \in BOOLEAN : GoTo(w, IF ready THEN "key" ELSE "reset")
  /\ UNCHANGED <<count, i, key, fcrc, loader, plugged, exited>>

cmd_identify(w) ==
  /\ Command(w, "identify")
  /\ \/ GoTo(w, "key") /\ UNCHANGED count
     \/ /\ count[w] > MaxRetry
        /\ GoTo(w, "gave up")
        /\ UNCHANGED count
     \/ /\ count[w] <= MaxRetry
        /\ count' = [count EXCEPT ![w] = @ + 1]
        /\ GoTo(w, "reset")
  /\ UNCHANGED <<i, key, fcrc, loader, plugged, exited>>

\* The session key is read and our key, which tells the size, is written.
exchange_keys(w) ==
  /\ Command(w, "key")
  /\ bios' = [bios EXCEPT ![w] = "loading"]
  /\ key' = [key EXCEPT ![w] = 0]
  /\ i' = [i EXCEPT ![w] = 1]
  /\ fcrc' = [fcrc EXCEPT ![w] = <<>>]
  /\ GoTo(w, "header")
  /\ UNCHANGED <<count, loaded, settled, plugged, exited>>

send_header(w) ==
  /\ Command(w, "header")
  /\ Takes(w, Rom[i[w]])
  /\ i' = [i EXCEPT ![w] = @ + 1]
  /\ GoTo(w, IF i[w] = HeaderLen THEN "rom" ELSE "header")
  /\ UNCHANGED <<count, key, fcrc, bios, settled, plugged, exited>>

\* Mutant: the key is advanced after it was used.
send_rom_key_late(w) ==
  /\ Command(w, "rom") /\ i[w] <= Len(Rom)
  /\ key' = [key EXCEPT ![w] = @ + 1]
  /\ fcrc' = [fcrc EXCEPT ![w] = Append(@, Rom[i[w]])]
  /\ Takes(w, Plain(w, [data |-> Rom[i[w]], key |-> key[w], at |-> i[w]]))
  /\ i' = [i EXCEPT ![w] = @ + 1]
  /\ UNCHANGED <<pc, count, bios, settled, plugged, exited>>

send_rom(w) ==
  /\ Command(w, "rom") /\ i[w] <= Len(Rom)
  /\ key' = [key EXCEPT ![w] = @ + 1]
  /\ fcrc' = [fcrc EXCEPT ![w] = Append(@, Rom[i[w]])]
  /\ Takes(w, Plain(w, [data |-> Rom[i[w]], key |-> key[w] + 1, at |-> i[w]]))
  /\ i' = [i EXCEPT ![w] = @ + 1]
  /\ UNCHANGED <<pc, count, bios, settled, plugged, exited>>

\* The checksum, and the read after which the loader starts the program.
\* multiboot() returns 0 whatever the loader made of it.
send_crc(w) ==
  /\ Command(w, "rom") /\ i[w] > Len(Rom)
  /\ key' = [key EXCEPT ![w] = @ + 1]
  /\ Judges(w, [words |-> fcrc[w], size |-> Len(Rom), key |-> key[w] + 1,
                at |-> i[w]])
  /\ GoTo(w, "done")
  /\ UNCHANGED <<count, i, fcrc, loaded, settled, plugged, exited>>

\* An ioctl fails: errx() ends the process.
ioctl_fails(w) ==
  /\ ~exited /\ ~plugged[w]
  /\ pc[w] \in {"reset", "identify", "key", "header", "rom"}
  /\ exited' = TRUE
  /\ UNCHANGED <<sender, loader, plugged>>

Unplug(w) ==
  /\ Cardinality({u \in Workers : ~plugged[u]}) < MaxUnplugs
  /\ plugged' = [plugged EXCEPT ![w] = FALSE]
  /\ UNCHANGED <<sender, loader, exited>>

multiboot(w) == cmd_reset(w) \/ cmd_identify(w) \/ exchange_keys(w) \/ send_header(w)
                \/ send_rom(w) \/ send_crc(w) \/ ioctl_fails(w)

-----------------------------------------------------------------------------
(* Properties.                                                             *)

Ended(w) == pc[w] \in {"none", "gave up", "done"}

(* The program a Game Boy runs is the rom, all of it and in order, and     *)
(* multiboot() does not return 0 for a Game Boy that does not run it,      *)
(* unless the loader missed a word while it was not ready (which the       *)
(* comment after cmd_identify expects): the session key, the address and   *)
(* the checksum of both sides go through header, rom and end in step,      *)
(* also after resets in the middle of another thread's transfer.           *)
BootsTheRom ==
  \A w \in Workers :
    /\ bios[w] = "running" => loaded[w] = Rom
    /\ pc[w] = "done" /\ settled[w] => bios[w] = "running"

(* Every thread ends, also on a Game Boy that never becomes ready, so that *)
(* pthread_join returns; or the process has.                               *)
WorkersEnd == <>(exited \/ \A w \in Workers : Ended(w))

=============================================================================
