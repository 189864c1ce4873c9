----------------------------- MODULE DemosProofs -----------------------------
(***************************************************************************)
(* Theorems about Demos: a Game Boy that runs a program runs the whole     *)
(* rom, and echo prints the message that was sent.                         *)
(***************************************************************************)
EXTENDS Demos, SequenceTheorems, TLAPS

Code == {Rom[n] : n \in DOMAIN Rom}
Word == Code \cup {Garbage}

MType ==
  /\ DOMAIN pc = Workers /\ DOMAIN bios = Workers
  /\ i \in [Workers -> Nat] /\ key \in [Workers -> Nat]
  /\ fcrc \in [Workers -> Seq(Word)] /\ loaded \in [Workers -> Seq(Word)]
  /\ settled \in [Workers -> BOOLEAN]

\* What the loader has: the words sent so far, but for the first one if it
\* was not ready for it.
Got(w) ==
  /\ settled[w] => loaded[w] = SubSeq(Rom, 1, i[w] - 1)
  /\ ~settled[w] => Len(loaded[w]) = IF i[w] = 1 THEN 0 ELSE i[w] - 2

\* The sender and the loader of a Game Boy are in step.
Loading(w) ==
  /\ pc[w] \in {"identify", "key"} => loaded[w] = <<>>
  /\ pc[w] = "header" => /\ i[w] \in 1..HeaderLen
                         /\ key[w] = 0 /\ fcrc[w] = <<>>
                         /\ Got(w)
  /\ pc[w] = "rom" => /\ i[w] \in HeaderLen + 1 .. Len(Rom) + 1
                      /\ key[w] = i[w] - HeaderLen - 1
                      /\ fcrc[w] = SubSeq(Rom, HeaderLen + 1, i[w] - 1)
                      /\ Got(w)
  /\ bios[w] = "running" => pc[w] = "done" /\ loaded[w] = Rom
  /\ pc[w] = "done" /\ settled[w] => bios[w] = "running"

MInv == MType /\ \A w \in Workers : Loading(w)

\* A step of another worker leaves a worker alone.
Alone(w) ==
  /\ pc'[w] = pc[w] /\ bios'[w] = bios[w]
  /\ i'[w] = i[w] /\ key'[w] = key[w] /\ fcrc'[w] = fcrc[w]
  /\ loaded'[w] = loaded[w] /\ (settled'[w] <=> settled[w])

-----------------------------------------------------------------------------
(* The rom as a sequence.                                                  *)

LEMMA RomFacts ==
  /\ Rom \in Seq(Code) /\ Rom \in Seq(Word) /\ Len(Rom) \in Nat
  /\ HeaderLen \in Nat \ {0} /\ Len(Rom) > HeaderLen
  /\ \A n \in 1..Len(Rom) : Rom[n] \in Word
<1>1. Rom \in Seq(Code) /\ HeaderLen \in Nat \ {0} /\ Len(Rom) > HeaderLen
  BY MultibootAssumption DEF Code
<1>2. Code \subseteq Word
  BY DEF Word
<1>3. Rom \in Seq(Word)
  BY <1>1, <1>2, SeqMonotonic
<1>4. Len(Rom) \in Nat
  BY <1>3, LenProperties
<1>5. \A n \in 1..Len(Rom) : Rom[n] \in Word
  BY <1>3, ElementOfSeq
<1> QED
  BY <1>1, <1>3, <1>4, <1>5

LEMMA RomPart ==
  ASSUME NEW m \in 1..Len(Rom) + 1, NEW n \in m - 1 .. Len(Rom)
  PROVE  SubSeq(Rom, m, n) \in Seq(Word) /\ Len(SubSeq(Rom, m, n)) = n - m + 1
<1>1. m \in Int /\ n \in Int
  BY RomFacts
<1>2. \A k \in m..n : Rom[k] \in Word
  BY RomFacts
<1>3. /\ SubSeq(Rom, m, n) \in Seq(Word)
      /\ Len(SubSeq(Rom, m, n)) = IF m <= n THEN n - m + 1 ELSE 0
  BY <1>1, <1>2, SubSeqProperties
<1> QED
  BY <1>1, <1>3, RomFacts

\* One more word of the rom.
LEMMA RomGrows ==
  ASSUME NEW m \in 1..Len(Rom), NEW n \in m..Len(Rom)
  PROVE  Append(SubSeq(Rom, m, n - 1), Rom[n]) = SubSeq(Rom, m, n)
<1>1. SubSeq(Rom, m, n) = SubSeq(Rom, m, n - 1) \o <<Rom[n]>>
  BY RomFacts, SubSeqRecursiveSecond
<1>2. m \in 1..Len(Rom) + 1 /\ n - 1 \in m - 1 .. Len(Rom) /\ n \in 1..Len(Rom)
  BY RomFacts
<1>3. SubSeq(Rom, m, n - 1) \in Seq(Word) /\ Rom[n] \in Word
  BY <1>2, RomPart, RomFacts
<1>4. Append(SubSeq(Rom, m, n - 1), Rom[n]) = SubSeq(Rom, m, n - 1) \o <<Rom[n]>>
  BY <1>3, AppendIsConcat
<1> QED
  BY <1>1, <1>4

-----------------------------------------------------------------------------
(* Multiboot.                                                              *)

LEMMA AloneKeeps ==
  ASSUME NEW w \in Workers, Loading(w), Alone(w)
  PROVE  Loading(w)'
<1>1. Got(w) => Got(w)'
  BY DEF Got, Alone
<1> QED
  BY <1>1 DEF Loading, Alone

LEMMA ResetKeeps ==
  ASSUME MType, NEW v \in Workers, Loading(v), cmd_reset(v)
  PROVE  MType' /\ Loading(v)' /\ \A w \in Workers \ {v} : Alone(w)
<1>1. pc[v] = "reset" /\ pc' = [pc EXCEPT ![v] = "identify"]
  BY DEF cmd_reset, Command, At, GoTo
<1>2. /\ bios' = [bios EXCEPT ![v] = "reset"]
      /\ loaded' = [loaded EXCEPT ![v] = <<>>]
      /\ i' = i /\ key' = key /\ fcrc' = fcrc /\ settled' = settled
  BY DEF cmd_reset
<1>3. <<>> \in Seq(Word)
  OBVIOUS
<1>4. MType'
  BY <1>1, <1>2, <1>3 DEF MType
<1>5. pc'[v] = "identify" /\ bios'[v] = "reset" /\ loaded'[v] = <<>>
  BY <1>1, <1>2 DEF MType
<1>6. Loading(v)'
  BY <1>5 DEF Loading
<1>7. \A w \in Workers \ {v} : Alone(w)
  BY <1>1, <1>2 DEF MType, Alone
<1> QED
  BY <1>4, <1>6, <1>7

LEMMA IdentifyKeeps ==
  ASSUME MType, NEW v \in Workers, Loading(v), cmd_identify(v)
  PROVE  MType' /\ Loading(v)' /\ \A w \in Workers \ {v} : Alone(w)
<1>1. PICK l \in {"key", "gave up", "reset"} : pc' = [pc EXCEPT ![v] = l]
  BY DEF cmd_identify, GoTo
<1>2. /\ bios' = bios /\ loaded' = loaded
      /\ i' = i /\ key' = key /\ fcrc' = fcrc /\ settled' = settled
      /\ pc[v] = "identify"
  BY DEF cmd_identify, loader, Command, At
<1>3. MType'
  BY <1>1, <1>2 DEF MType
<1>4. pc'[v] = l
  BY <1>1 DEF MType
<1>5. bios[v] # "running" /\ loaded[v] = <<>>
  BY <1>2 DEF Loading
<1>6. Loading(v)'
  BY <1>2, <1>4, <1>5 DEF Loading
<1>7. \A w \in Workers \ {v} : Alone(w)
  BY <1>1, <1>2 DEF MType, Alone
<1> QED
  BY <1>3, <1>6, <1>7

LEMMA KeysKeep ==
  ASSUME MType, NEW v \in Workers, Loading(v), exchange_keys(v)
  PROVE  MType' /\ Loading(v)' /\ \A w \in Workers \ {v} : Alone(w)
<1>1. pc[v] = "key" /\ pc' = [pc EXCEPT ![v] = "header"]
  BY DEF exchange_keys, Command, At, GoTo
<1>2. /\ bios' = [bios EXCEPT ![v] = "loading"]
      /\ key' = [key EXCEPT ![v] = 0] /\ i' = [i EXCEPT ![v] = 1]
      /\ fcrc' = [fcrc EXCEPT ![v] = <<>>]
      /\ loaded' = loaded /\ settled' = settled
  BY DEF exchange_keys
<1>3. <<>> \in Seq(Word) /\ 0 \in Nat /\ 1 \in Nat
  OBVIOUS
<1>4. MType'
  BY <1>1, <1>2, <1>3 DEF MType
<1>5. /\ pc'[v] = "header" /\ bios'[v] = "loading" /\ key'[v] = 0 /\ i'[v] = 1
      /\ fcrc'[v] = <<>> /\ loaded'[v] = loaded[v] /\ (settled'[v] <=> settled[v])
  BY <1>1, <1>2 DEF MType
<1>6. loaded[v] = <<>>
  BY <1>1 DEF Loading
<1>7. SubSeq(Rom, 1, 0) = <<>>
  BY SubSeqEmpty
<1>8. Got(v)'
  BY <1>5, <1>6, <1>7 DEF Got
<1>9. Loading(v)'
  BY <1>5, <1>8, RomFacts DEF Loading
<1>10. \A w \in Workers \ {v} : Alone(w)
  BY <1>1, <1>2 DEF MType, Alone
<1> QED
  BY <1>4, <1>9, <1>10

\* A word arrives that the loader makes into the next word of the rom, if
\* it has missed none.
LEMMA WordTaken ==
  ASSUME MType, NEW v \in Workers, Got(v), i[v] \in 1..Len(Rom),
         NEW word \in Word, settled[v] => word = Rom[i[v]],
         Takes(v, word), i' = [i EXCEPT ![v] = @ + 1], settled' = settled
  PROVE  Got(v)' /\ loaded' \in [Workers -> Seq(Word)]
<1>1. loaded[v] \in Seq(Word) /\ settled[v] \in BOOLEAN
  BY DEF MType
<1>2. /\ Append(loaded[v], word) \in Seq(Word)
      /\ Len(Append(loaded[v], word)) = Len(loaded[v]) + 1
  BY <1>1, AppendProperties
<1>3. i'[v] = i[v] + 1 /\ (settled'[v] <=> settled[v])
  BY DEF MType
<1>4. settled[v] \/ i[v] > 1 => loaded'[v] = Append(loaded[v], word)
  BY DEF Takes, MType
<1>5. ~(settled[v] \/ i[v] > 1) => loaded'[v] = loaded[v]
  BY DEF Takes, MType
<1>6. settled[v] => loaded'[v] = SubSeq(Rom, 1, i[v])
  <2> HAVE settled[v]
  <2>1. loaded'[v] = Append(SubSeq(Rom, 1, i[v] - 1), Rom[i[v]])
    BY <1>4 DEF Got
  <2>2. 1 \in 1..Len(Rom)
    BY RomFacts
  <2> QED
    BY <2>1, <2>2, RomGrows
<1>7. i[v] \in Int
  BY RomFacts
<1>8. ~settled[v] => Len(loaded'[v]) = i[v] - 1
  BY <1>1, <1>2, <1>4, <1>5, <1>7 DEF Got
<1>9. i[v] + 1 - 1 = i[v] /\ i[v] + 1 # 1 /\ i[v] + 1 - 2 = i[v] - 1
  BY <1>7
<1>10. Got(v)'
  BY <1>3, <1>6, <1>8, <1>9 DEF Got
<1>11. loaded' \in [Workers -> Seq(Word)]
  BY <1>1, <1>2 DEF Takes, MType
<1> QED
  BY <1>10, <1>11

LEMMA HeaderKeeps ==
  ASSUME MType, NEW v \in Workers, Loading(v), send_header(v)
  PROVE  MType' /\ Loading(v)' /\ \A w \in Workers \ {v} : Alone(w)
<1> DEFINE l == IF i[v] = HeaderLen THEN "rom" ELSE "header"
<1>1. pc[v] = "header" /\ pc' = [pc EXCEPT ![v] = l]
  BY DEF send_header, Command, At, GoTo
<1>2. /\ Takes(v, Rom[i[v]]) /\ i' = [i EXCEPT ![v] = @ + 1]
      /\ key' = key /\ fcrc' = fcrc /\ bios' = bios /\ settled' = settled
  BY DEF send_header
<1>3. /\ i[v] \in 1..HeaderLen /\ key[v] = 0 /\ fcrc[v] = <<>> /\ Got(v)
      /\ bios[v] # "running"
  BY <1>1 DEF Loading
<1>4. i[v] \in 1..Len(Rom) /\ Rom[i[v]] \in Word
  BY <1>3, RomFacts
<1>5. Got(v)' /\ loaded' \in [Workers -> Seq(Word)]
  BY <1>2, <1>3, <1>4, WordTaken
<1>6. MType'
  <2>1. i' \in [Workers -> Nat]
    BY <1>2 DEF MType
  <2>2. DOMAIN pc' = Workers
    BY <1>1 DEF MType
  <2> QED
    BY <1>2, <1>5, <2>1, <2>2 DEF MType
<1>7. /\ pc'[v] = l /\ i'[v] = i[v] + 1 /\ key'[v] = 0 /\ fcrc'[v] = <<>>
      /\ bios'[v] # "running"
  BY <1>1, <1>2, <1>3 DEF MType
<1>8. i[v] = HeaderLen => Loading(v)'
  <2> HAVE i[v] = HeaderLen
  <2>1. pc'[v] = "rom" /\ i'[v] = HeaderLen + 1
    BY <1>7
  <2>2. SubSeq(Rom, HeaderLen + 1, i'[v] - 1) = <<>>
    BY <2>1, RomFacts, SubSeqEmpty
  <2>3. i'[v] \in HeaderLen + 1 .. Len(Rom) + 1 /\ key'[v] = i'[v] - HeaderLen - 1
    BY <1>7, <2>1, RomFacts
  <2>4. fcrc'[v] = SubSeq(Rom, HeaderLen + 1, i'[v] - 1)
    BY <1>7, <2>2
  <2> QED
    BY <1>5, <1>7, <2>1, <2>3, <2>4 DEF Loading
<1>9. i[v] # HeaderLen => Loading(v)'
  <2> HAVE i[v] # HeaderLen
  <2>1. pc'[v] = "header"
    BY <1>7
  <2>2. i'[v] \in 1..HeaderLen
    BY <1>3, <1>7, RomFacts
  <2> QED
    BY <1>5, <1>7, <2>1, <2>2 DEF Loading
<1>10. \A w \in Workers \ {v} : Alone(w)
  BY <1>1, <1>2 DEF MType, Alone, Takes
<1> QED
  BY <1>5, <1>6, <1>8, <1>9, <1>10


\* The loader gets the word back, if it has missed none.
LEMMA PlainWord ==
  ASSUME MType, NEW v \in Workers, Got(v), i[v] \in HeaderLen + 1 .. Len(Rom),
         key[v] = i[v] - HeaderLen - 1, NEW word,
         word = Plain(v, [data |-> Rom[i[v]], key |-> key[v] + 1, at |-> i[v]])
  PROVE  word \in Word /\ (settled[v] => word = Rom[i[v]])
<1>1. i[v] \in 1..Len(Rom) /\ i[v] \in Int
  BY RomFacts
<1>2. Rom[i[v]] \in Word /\ Garbage \in Word
  BY <1>1, RomFacts DEF Word
<1>3. word \in {Rom[i[v]], Garbage}
  BY DEF Plain
<1>4. settled[v] => word = Rom[i[v]]
  <2> HAVE settled[v]
  <2>1. loaded[v] = SubSeq(Rom, 1, i[v] - 1)
    BY DEF Got
  <2>2. 1 \in 1..Len(Rom) + 1 /\ i[v] - 1 \in 1 - 1 .. Len(Rom)
    BY <1>1, RomFacts
  <2>3. Len(loaded[v]) = i[v] - 1
    BY <1>1, <2>1, <2>2, RomPart
  <2>4. key[v] + 1 = Len(loaded[v]) - HeaderLen + 1 /\ i[v] = Len(loaded[v]) + 1
    BY <1>1, <2>3, RomFacts
  <2> QED
    BY <2>4 DEF Plain
<1> QED
  BY <1>2, <1>3, <1>4

LEMMA RomKeeps ==
  ASSUME MType, NEW v \in Workers, Loading(v), send_rom(v)
  PROVE  MType' /\ Loading(v)' /\ \A w \in Workers \ {v} : Alone(w)
<1> DEFINE word == Plain(v, [data |-> Rom[i[v]], key |-> key[v] + 1, at |-> i[v]])
<1>1. /\ pc[v] = "rom" /\ i[v] <= Len(Rom) /\ pc' = pc
      /\ bios' = bios /\ settled' = settled
  BY DEF send_rom, Command, At
<1>2. /\ Takes(v, word) /\ i' = [i EXCEPT ![v] = @ + 1]
      /\ key' = [key EXCEPT ![v] = @ + 1]
      /\ fcrc' = [fcrc EXCEPT ![v] = Append(@, Rom[i[v]])]
  BY DEF send_rom
<1>3. /\ i[v] \in HeaderLen + 1 .. Len(Rom) + 1 /\ key[v] = i[v] - HeaderLen - 1
      /\ fcrc[v] = SubSeq(Rom, HeaderLen + 1, i[v] - 1) /\ Got(v)
      /\ bios[v] # "running"
  BY <1>1 DEF Loading
<1>4. i[v] \in HeaderLen + 1 .. Len(Rom) /\ i[v] \in 1..Len(Rom) /\ Rom[i[v]] \in Word
  BY <1>1, <1>3, RomFacts
<1>5. word \in Word /\ (settled[v] => word = Rom[i[v]])
  BY <1>3, <1>4, PlainWord
<1>6. Got(v)' /\ loaded' \in [Workers -> Seq(Word)]
  <2> HIDE DEF word
  <2> QED
    BY <1>1, <1>2, <1>3, <1>4, <1>5, WordTaken
<1>7. MType'
  <2>1. i' \in [Workers -> Nat] /\ key' \in [Workers -> Nat]
    BY <1>2 DEF MType
  <2>2. Append(fcrc[v], Rom[i[v]]) \in Seq(Word)
    BY <1>4, AppendProperties DEF MType
  <2>3. fcrc' \in [Workers -> Seq(Word)]
    BY <1>2, <2>2 DEF MType
  <2> QED
    BY <1>1, <1>6, <2>1, <2>3 DEF MType
<1>8. /\ pc'[v] = "rom" /\ bios'[v] # "running" /\ i'[v] = i[v] + 1
      /\ key'[v] = key[v] + 1 /\ fcrc'[v] = Append(fcrc[v], Rom[i[v]])
  BY <1>1, <1>2, <1>3 DEF MType
<1>9. i'[v] \in HeaderLen + 1 .. Len(Rom) + 1 /\ key'[v] = i'[v] - HeaderLen - 1
      /\ i'[v] - 1 = i[v]
  <2>1. i[v] \in HeaderLen + 1 .. Len(Rom) /\ key[v] = i[v] - HeaderLen - 1
    BY <1>3, <1>4
  <2>2. i'[v] = i[v] + 1 /\ key'[v] = key[v] + 1
    BY <1>8
  <2>3. HeaderLen \in Nat /\ Len(Rom) \in Nat
    BY RomFacts
  <2> QED
    BY <2>1, <2>2, <2>3
<1>10. fcrc'[v] = SubSeq(Rom, HeaderLen + 1, i[v])
  <2>1. HeaderLen + 1 \in 1..Len(Rom)
    BY RomFacts
  <2> QED
    BY <1>3, <1>4, <1>8, <2>1, RomGrows
<1>11. Loading(v)'
  BY <1>6, <1>8, <1>9, <1>10 DEF Loading
<1>12. \A w \in Workers \ {v} : Alone(w)
  BY <1>1, <1>2 DEF MType, Alone, Takes
<1> QED
  BY <1>7, <1>11, <1>12

\* The checksum is right exactly for a loader that has missed nothing.
LEMMA CrcKeeps ==
  ASSUME MType, NEW v \in Workers, Loading(v), send_crc(v)
  PROVE  MType' /\ Loading(v)' /\ \A w \in Workers \ {v} : Alone(w)
<1> DEFINE crc == [words |-> fcrc[v], size |-> Len(Rom), key |-> key[v] + 1, at |-> i[v]]
           right == /\ crc.words = SubSeq(loaded[v], HeaderLen + 1, Len(loaded[v]))
                    /\ crc.size = Len(loaded[v])
                    /\ crc.key = crc.size - HeaderLen + 1 /\ crc.at = crc.size + 1
<1>1. pc[v] = "rom" /\ i[v] > Len(Rom) /\ pc' = [pc EXCEPT ![v] = "done"]
  BY DEF send_crc, Command, At, GoTo
<1>2. /\ key' = [key EXCEPT ![v] = @ + 1] /\ i' = i /\ fcrc' = fcrc
      /\ loaded' = loaded /\ settled' = settled
      /\ bios' = [bios EXCEPT ![v] = IF right THEN "running" ELSE "failed"]
  BY DEF send_crc, Judges
<1>3. /\ i[v] = Len(Rom) + 1 /\ key[v] = Len(Rom) - HeaderLen
      /\ fcrc[v] = SubSeq(Rom, HeaderLen + 1, Len(Rom)) /\ Got(v)
  <2>1. /\ i[v] \in HeaderLen + 1 .. Len(Rom) + 1 /\ key[v] = i[v] - HeaderLen - 1
        /\ fcrc[v] = SubSeq(Rom, HeaderLen + 1, i[v] - 1) /\ Got(v)
    BY <1>1 DEF Loading
  <2>2. i[v] = Len(Rom) + 1
    <3>1. i[v] \in HeaderLen + 1 .. Len(Rom) + 1 /\ i[v] > Len(Rom)
      BY <1>1, <2>1
    <3>2. HeaderLen \in Nat /\ Len(Rom) \in Nat
      BY RomFacts
    <3> QED
      BY <3>1, <3>2
  <2>3. i[v] - 1 = Len(Rom) /\ key[v] = Len(Rom) - HeaderLen
    BY <2>1, <2>2, RomFacts
  <2> QED
    BY <2>1, <2>2, <2>3
<1>4. settled[v] => loaded[v] = Rom
  <2> HAVE settled[v]
  <2>1. loaded[v] = SubSeq(Rom, 1, i[v] - 1) /\ i[v] - 1 = Len(Rom)
    BY <1>3, RomFacts DEF Got
  <2> QED
    BY <2>1, RomFacts, SubSeqFull
<1>5. ~settled[v] => Len(loaded[v]) # Len(Rom)
  BY <1>3, RomFacts DEF Got
<1>6. right <=> settled[v]
  <2>1. crc.words = fcrc[v] /\ crc.size = Len(Rom) /\ crc.key = key[v] + 1 /\ crc.at = i[v]
    OBVIOUS
  <2>2. settled[v] => right
    <3> HIDE DEF crc
    <3> QED
      BY <1>3, <1>4, <2>1
  <2>3. right => settled[v]
    BY <1>5, <2>1
  <2> QED
    BY <2>2, <2>3 DEF MType
<1> HIDE DEF right
<1>7. MType'
  <2>1. key' \in [Workers -> Nat]
    BY <1>2 DEF MType
  <2> QED
    BY <1>1, <1>2, <2>1 DEF MType
<1>8. /\ pc'[v] = "done" /\ loaded'[v] = loaded[v] /\ (settled'[v] <=> settled[v])
      /\ settled[v] => bios'[v] = "running"
      /\ ~settled[v] => bios'[v] = "failed"
  BY <1>1, <1>2, <1>6 DEF MType
<1>9. Loading(v)'
  BY <1>4, <1>8 DEF Loading
<1>10. \A w \in Workers \ {v} : Alone(w)
  BY <1>1, <1>2 DEF MType, Alone
<1> QED
  BY <1>7, <1>9, <1>10

LEMMA MStep ==
  ASSUME MInv, NEW v \in Workers, multiboot(v) \/ Unplug(v)
  PROVE  MInv'
<1>1. MType /\ Loading(v) /\ \A w \in Workers : Loading(w)
  BY DEF MInv
<1>2. MType' /\ Loading(v)' /\ \A w \in Workers \ {v} : Alone(w)
  <2>1. CASE ioctl_fails(v) \/ Unplug(v)
    <3>1. UNCHANGED <<sender, loader>>
      BY <2>1 DEF ioctl_fails, Unplug
    <3>2. /\ pc' = pc /\ bios' = bios /\ i' = i /\ key' = key
          /\ fcrc' = fcrc /\ loaded' = loaded /\ settled' = settled
      BY <3>1 DEF sender, loader
    <3>3. MType'
      BY <1>1, <3>2 DEF MType
    <3>4. \A w \in Workers : Alone(w)
      BY <3>2 DEF Alone
    <3> QED
      BY <1>1, <3>3, <3>4, AloneKeeps
  <2> QED
    BY <1>1, <2>1, ResetKeeps, IdentifyKeeps, KeysKeep, HeaderKeeps, RomKeeps, CrcKeeps
       DEF multiboot
<1>3. \A w \in Workers : Loading(w)'
  BY <1>1, <1>2, AloneKeeps
<1> QED
  BY <1>2, <1>3 DEF MInv

LEMMA MInit ==
  ASSUME NEW started, MultibootInit(started)
  PROVE  MInv
<1>1. <<>> \in Seq(Word)
  OBVIOUS
<1>2. MType
  BY <1>1 DEF MType, MultibootInit
<1>3. ASSUME NEW w \in Workers
      PROVE  pc[w] \in {"reset", "none"} /\ bios[w] = "off"
  BY DEF MultibootInit
<1> QED
  BY <1>2, <1>3 DEF MInv, Loading

LEMMA MOther ==
  ASSUME MInv, UNCHANGED mbvars
  PROVE  MInv'
<1>1. /\ pc' = pc /\ bios' = bios /\ i' = i /\ key' = key
      /\ fcrc' = fcrc /\ loaded' = loaded /\ settled' = settled
  BY DEF mbvars, sender, loader
<1>2. MType'
  BY <1>1 DEF MInv, MType
<1>3. \A w \in Workers : Alone(w)
  BY <1>1 DEF Alone
<1> QED
  BY <1>2, <1>3, AloneKeeps DEF MInv

(* BootsTheRom (multiboot.h): a Game Boy that runs a program runs the      *)
(* whole rom, and the sender reports success for no other, unless the      *)
(* loader missed its first word.                                           *)
THEOREM RomsBoot == Spec => []BootsTheRom
<1>1. Init => MInv
  BY MInit DEF Init
<1>2. MInv /\ [Next]_vars => MInv'
  <2> SUFFICES ASSUME MInv, [Next]_vars PROVE MInv'
    OBVIOUS
  <2>1. CASE Multiboot
    BY <2>1, MStep DEF Multiboot
  <2>2. CASE ~Multiboot
    <3>1. UNCHANGED mbvars
      BY <2>2 DEF Next, vars, Booted, Activate, wait_clear, Enter, Send, Await, Lost,
                  Restart, Read, SendWord
    <3> QED
      BY <3>1, MOther
  <2> QED
    BY <2>1, <2>2
<1>3. MInv => BootsTheRom
  BY DEF MInv, Loading, BootsTheRom
<1> QED
  BY <1>1, <1>2, <1>3, PTL DEF Spec

-----------------------------------------------------------------------------
(* Echo: the words of a message stand in a row, from those the Wii has     *)
(* read back to those the Game Boy has not read yet.                       *)

Payload == Nat \ {0}
Held(j) == IF j = 0 THEN <<>> ELSE <<j>>
Row(got, j, out, now, back) == got \o Held(j) \o out \o now \o back
Flow    == Row(inmsg, JOY_TRANS, toWii, todo, toGba)
Quiet   == toGba = <<>> /\ todo = <<>>

LEMMA Associative ==
  \A s, t, u \in Seq(Payload) : (s \o t) \o u = s \o (t \o u)
BY ConcatAssociative

LEMMA Regroup ==
  ASSUME NEW a \in Seq(Payload), NEW e \in Payload, NEW t \in Seq(Payload)
  PROVE  (a \o <<e>>) \o t = a \o (<<e>> \o t)
<1>1. ASSUME NEW h \in Seq(Payload)
      PROVE  (a \o h) \o t = a \o (h \o t)
  BY Associative
<1>2. <<e>> \in Seq(Payload)
  OBVIOUS
<1> QED
  BY <1>1, <1>2

LEMMA HeldType ==
  ASSUME NEW j \in Nat
  PROVE  /\ Held(j) \in Seq(Payload)
         /\ Len(Held(j)) = IF j = 0 THEN 0 ELSE 1
<1>1. j # 0 => j \in Payload
  BY DEF Payload
<1> QED
  BY <1>1 DEF Held

\* The beginnings of a row.
LEMMA RowParts ==
  ASSUME NEW got \in Seq(Payload), NEW j \in Nat, NEW out \in Seq(Payload),
         NEW now \in Seq(Payload)
  PROVE  /\ got \o Held(j) \in Seq(Payload)
         /\ got \o Held(j) \o out \in Seq(Payload)
         /\ got \o Held(j) \o out \o now \in Seq(Payload)
<1>1. got \o Held(j) \in Seq(Payload)
  BY HeldType, ConcatProperties
<1>2. got \o Held(j) \o out \in Seq(Payload)
  BY <1>1, ConcatProperties
<1>3. got \o Held(j) \o out \o now \in Seq(Payload)
  BY <1>2, ConcatProperties
<1> QED
  BY <1>1, <1>2, <1>3

LEMMA HeadAndTail ==
  ASSUME NEW s \in Seq(Payload), s # <<>>
  PROVE  /\ Head(s) \in Payload /\ Tail(s) \in Seq(Payload)
         /\ <<Head(s)>> \o Tail(s) = s
<1>1. Len(s) \in Nat \ {0}
  BY EmptySeq
<1>2. Head(s) \in Payload /\ Tail(s) \in Seq(Payload) /\ Tail(s) = SubSeq(s, 2, Len(s))
  BY HeadTailProperties, TailIsSubSeq
<1>3. 1 \in 1..Len(s) /\ Len(s) \in 1..Len(s)
  BY <1>1
<1>4. SubSeq(s, 1, Len(s)) = <<s[1]>> \o SubSeq(s, 1 + 1, Len(s))
  BY <1>3, SubSeqRecursiveFirst
<1>5. SubSeq(s, 1, Len(s)) = s
  BY SubSeqFull
<1>6. Head(s) = s[1] /\ 1 + 1 = 2
  BY <1>1
<1> QED
  BY <1>2, <1>4, <1>5, <1>6

\* A poll that finds no word to load takes the one in the register.
LEMMA RowPolled ==
  ASSUME NEW got \in Seq(Payload), NEW j \in Nat, NEW out, NEW now, NEW back
  PROVE  Row(got \o Held(j), 0, out, now, back) = Row(got, j, out, now, back)
<1>1. got \o Held(j) \in Seq(Payload)
  BY HeldType, ConcatProperties
<1>2. (got \o Held(j)) \o Held(0) = got \o Held(j)
  BY <1>1, ConcatEmptySeq DEF Held
<1> QED
  BY <1>2 DEF Row

LEMMA RowLoaded ==
  ASSUME NEW got \in Seq(Payload), NEW j \in Nat, NEW out \in Seq(Payload), out # <<>>,
         NEW now, NEW back
  PROVE  Row(got \o Held(j), Head(out), Tail(out), now, back) = Row(got, j, out, now, back)
<1>1. got \o Held(j) \in Seq(Payload)
  BY HeldType, ConcatProperties
<1>2. /\ Head(out) \in Payload /\ Tail(out) \in Seq(Payload)
      /\ <<Head(out)>> \o Tail(out) = out
  BY HeadAndTail
<1>3. Held(Head(out)) = <<Head(out)>> /\ <<Head(out)>> \in Seq(Payload)
  BY <1>2 DEF Held, Payload
<1>4. ((got \o Held(j)) \o Held(Head(out))) \o Tail(out) = (got \o Held(j)) \o out
  <2>1. ASSUME NEW a \in Seq(Payload)
        PROVE  (a \o <<Head(out)>>) \o Tail(out) = a \o out
    BY <1>2, Regroup
  <2> QED
    BY <1>1, <1>3, <2>1
<1> QED
  BY <1>4 DEF Row

\* The Game Boy reads a word and begins to send it.
LEMMA RowRead ==
  ASSUME NEW got \in Seq(Payload), NEW j \in Nat, NEW out \in Seq(Payload),
         NEW back \in Seq(Payload), back # <<>>
  PROVE  Row(got, j, out, <<Head(back)>>, Tail(back)) = Row(got, j, out, <<>>, back)
<1> DEFINE a == got \o Held(j) \o out
<1>1. <<>> \in Seq(Payload)
  OBVIOUS
<1>2. a \in Seq(Payload)
  BY <1>1, RowParts
<1>3. /\ Head(back) \in Payload /\ Tail(back) \in Seq(Payload)
      /\ <<Head(back)>> \o Tail(back) = back
  BY HeadAndTail
<1>5. Row(got, j, out, <<Head(back)>>, Tail(back)) = (a \o <<Head(back)>>) \o Tail(back)
      /\ Row(got, j, out, <<>>, back) = (a \o <<>>) \o back
  BY DEF Row
<1> HIDE DEF a
<1>6. (a \o <<Head(back)>>) \o Tail(back) = a \o back
  BY <1>2, <1>3, Regroup
<1>7. a \o <<>> = a
  BY <1>2, ConcatEmptySeq
<1> QED
  BY <1>5, <1>6, <1>7

\* It puts it into its queue.
LEMMA RowSent ==
  ASSUME NEW got \in Seq(Payload), NEW j \in Nat, NEW out \in Seq(Payload),
         NEW now \in Seq(Payload), now # <<>>, NEW back
  PROVE  Row(got, j, Append(out, Head(now)), Tail(now), back) = Row(got, j, out, now, back)
<1> DEFINE a == got \o Held(j)
<1>1. a \in Seq(Payload)
  BY HeldType, ConcatProperties
<1>2. /\ Head(now) \in Payload /\ Tail(now) \in Seq(Payload)
      /\ <<Head(now)>> \o Tail(now) = now
  BY HeadAndTail
<1>3. <<Head(now)>> \in Seq(Payload) /\ Append(out, Head(now)) = out \o <<Head(now)>>
  BY <1>2, AppendIsConcat
<1>4. /\ Row(got, j, Append(out, Head(now)), Tail(now), back)
           = ((a \o (out \o <<Head(now)>>)) \o Tail(now)) \o back
      /\ Row(got, j, out, now, back) = ((a \o out) \o now) \o back
  BY <1>3 DEF Row
<1> HIDE DEF a
<1>5. a \o (out \o <<Head(now)>>) = (a \o out) \o <<Head(now)>>
  BY <1>1, <1>3, Associative
<1>6. a \o out \in Seq(Payload)
  BY <1>1, ConcatProperties
<1>7. ((a \o out) \o <<Head(now)>>) \o Tail(now) = (a \o out) \o now
  <2>1. ASSUME NEW b \in Seq(Payload)
        PROVE  (b \o <<Head(now)>>) \o Tail(now) = b \o now
    BY <1>2, Regroup
  <2> QED
    BY <1>6, <2>1
<1> QED
  BY <1>4, <1>5, <1>7

\* What has been read is a beginning of the row.
LEMMA RowBegins ==
  ASSUME NEW got \in Seq(Payload), NEW j \in Nat, NEW out \in Seq(Payload),
         NEW now \in Seq(Payload), NEW back \in Seq(Payload)
  PROVE  SubSeq(Row(got, j, out, now, back), 1, Len(got)) = got
<1>1. Held(j) \in Seq(Payload)
  BY HeldType
<1>2. PICK r \in Seq(Payload) : Row(got, j, out, now, back) = got \o r
  <2>1. Held(j) \o out \in Seq(Payload)
    BY <1>1, ConcatProperties
  <2>2. got \o Held(j) \o out = got \o (Held(j) \o out)
    BY <1>1, Associative
  <2> DEFINE b == Held(j) \o out
  <2>3. Row(got, j, out, now, back) = ((got \o b) \o now) \o back
    BY <2>2 DEF Row
  <2> HIDE DEF b
  <2>4. b \in Seq(Payload)
    BY <2>1 DEF b
  <2>5. b \o now \in Seq(Payload) /\ (got \o b) \o now = got \o (b \o now)
    BY <2>4, ConcatProperties, Associative
  <2>6. (b \o now) \o back \in Seq(Payload)
        /\ (got \o (b \o now)) \o back = got \o ((b \o now) \o back)
    BY <2>5, ConcatProperties, Associative
  <2> QED
    BY <2>3, <2>5, <2>6
<1>3. Len(got) \in Nat
  BY LenProperties
<1>4. CASE Len(got) = 0
  <2>1. got = <<>>
    BY <1>3, <1>4, EmptySeq
  <2>2. SubSeq(Row(got, j, out, now, back), 1, 0) = <<>>
    BY SubSeqEmpty
  <2> QED
    BY <1>4, <2>1, <2>2
<1>5. CASE Len(got) # 0
  <2>1. 1 \in 1..Len(got) /\ Len(got) \in 1..Len(got)
    BY <1>3, <1>5
  <2>2. SubSeq(got \o r, 1, Len(got)) = SubSeq(got, 1, Len(got))
    BY <2>1, SubSeqOfConcat1
  <2> QED
    BY <1>2, <2>2, SubSeqFull
<1> QED
  BY <1>4, <1>5

-----------------------------------------------------------------------------
(* The invariant of echo.                                                  *)

ETypes ==
  /\ toGba \in Seq(Payload) /\ todo \in Seq(Payload) /\ toWii \in Seq(Payload)
  /\ inmsg \in Seq(Payload) /\ JOY_TRANS \in Nat
  /\ msg \in Texts \cup {<<>>} /\ sent \in Nat

\* A Game Boy that has not begun its program leaves the register alone, so
\* that main() does not get past its first wait.
Off == gba = "off" => /\ JOY_TRANS = 1 /\ Quiet /\ toWii = <<>>
                      /\ at \in {"multiboot", "ready", "exited"}

\* Between two messages nothing is on the link but an end of zeros; while
\* one is under way the row is what has been sent of it.
Answered == Quiet /\ (JOY_TRANS = 0 => toWii = <<>>)

Echoing ==
  /\ at = "ready" => Quiet
  /\ at \in {"prompt", "clear"} => Answered
  /\ at = "clear" => sent = 0 /\ inmsg = <<>> /\ msg \in Texts
  /\ at \in {"send", "await"} => msg \in Texts /\ sent <= Len(msg)
                                 /\ Flow = SubSeq(msg, 1, sent)
  /\ at = "send" => inmsg = <<>>
  /\ at = "await" => sent = Len(msg)

EInv ==
  /\ Off
  /\ at = "multiboot" => Quiet
  /\ program = "echo" => ETypes
  /\ program = "echo" /\ ~cut => Echoing

\* The Wii writes a word.
LEMMA FlowWritten ==
  ASSUME ETypes, NEW word \in Payload
  PROVE  Row(inmsg, JOY_TRANS, toWii, todo, Append(toGba, word)) = Flow \o <<word>>
<1> DEFINE a == inmsg \o Held(JOY_TRANS) \o toWii \o todo
<1>1. a \in Seq(Payload) /\ toGba \in Seq(Payload)
  BY RowParts DEF ETypes
<1>2. <<word>> \in Seq(Payload) /\ Append(toGba, word) = toGba \o <<word>>
  BY <1>1, AppendIsConcat
<1>3. /\ Row(inmsg, JOY_TRANS, toWii, todo, Append(toGba, word)) = a \o (toGba \o <<word>>)
      /\ Flow = a \o toGba
  BY <1>2 DEF Row, Flow
<1> HIDE DEF a
<1>4. ASSUME NEW h \in Seq(Payload)
      PROVE  a \o (toGba \o h) = (a \o toGba) \o h
  BY <1>1, Associative
<1> QED
  BY <1>2, <1>3, <1>4

LEMMA TextFacts ==
  ASSUME NEW text \in Texts \cup {<<>>}
  PROVE  /\ text \in Seq(Payload) /\ Len(text) \in Nat /\ Len(text) <= Room
         /\ \A n \in 1..Len(text) : text[n] \in Payload
<1>1. text \in Seq(Payload) /\ Len(text) <= Room
  <2>1. CASE text \in Texts
    BY <2>1, DemoAssumption DEF Payload
  <2>2. CASE text = <<>>
    <3>1. <<>> \in Seq(Payload) /\ Len(<<>>) = 0 /\ 0 <= Room
      BY DemoAssumption, EmptySeq
    <3> QED
      BY <2>2, <3>1
  <2> QED
    BY <2>1, <2>2
<1> QED
  BY <1>1, LenProperties, ElementOfSeq

LEMMA PushFacts ==
  ASSUME NEW q \in Seq(Payload), NEW word \in Payload
  PROVE  /\ Push(q, word) \in Seq(Payload)
         /\ Len(q) < Room => Push(q, word) = Append(q, word)
<1>1. Room \in Nat \ {0}
  BY DemoAssumption
<1>2. Len(q) = Room => Tail(q) \in Seq(Payload)
  <2> HAVE Len(q) = Room
  <2>1. q # <<>>
    BY <1>1
  <2> QED
    BY <2>1, HeadTailProperties
<1>3. Len(q) < Room => Len(q) # Room
  BY <1>1, LenProperties
<1> QED
  BY <1>2, <1>3, AppendProperties DEF Push

LEMMA FlowLength ==
  ASSUME ETypes
  PROVE  Len(Flow) = Len(inmsg) + Len(Held(JOY_TRANS)) + Len(toWii) + Len(todo) + Len(toGba)
<1> DEFINE a == inmsg \o Held(JOY_TRANS)
           b == a \o toWii
           d == b \o todo
<1>1. /\ inmsg \in Seq(Payload) /\ Held(JOY_TRANS) \in Seq(Payload) /\ toWii \in Seq(Payload)
      /\ todo \in Seq(Payload) /\ toGba \in Seq(Payload)
  BY HeldType DEF ETypes
<1>2. a \in Seq(Payload) /\ b \in Seq(Payload) /\ d \in Seq(Payload)
  BY RowParts DEF ETypes
<1>3. Flow = d \o toGba
  BY DEF Flow, Row
<1>4. Len(a) = Len(inmsg) + Len(Held(JOY_TRANS))
  BY <1>1, ConcatProperties
<1> HIDE DEF a
<1>5. Len(b) = Len(a) + Len(toWii)
  BY <1>1, <1>2, ConcatProperties
<1> HIDE DEF b
<1>6. Len(d) = Len(b) + Len(todo)
  BY <1>1, <1>2, ConcatProperties
<1> HIDE DEF d
<1>7. Len(Flow) = Len(d) + Len(toGba)
  BY <1>1, <1>2, <1>3, ConcatProperties
<1> QED
  BY <1>4, <1>5, <1>6, <1>7

\* While a message is under way its words fit the queues.
LEMMA FlowFits ==
  ASSUME ETypes, msg \in Texts, sent <= Len(msg), Flow = SubSeq(msg, 1, sent)
  PROVE  /\ Len(inmsg) + Len(Held(JOY_TRANS)) + Len(toWii) + Len(todo) + Len(toGba) = sent
         /\ sent <= Room
<1>1. /\ inmsg \in Seq(Payload) /\ JOY_TRANS \in Nat /\ toWii \in Seq(Payload)
      /\ todo \in Seq(Payload) /\ toGba \in Seq(Payload) /\ sent \in Nat
  BY DEF ETypes
<1>2. Len(Flow) = Len(inmsg) + Len(Held(JOY_TRANS)) + Len(toWii) + Len(todo) + Len(toGba)
  BY FlowLength
<1>3. /\ msg \in Seq(Payload) /\ Len(msg) \in Nat /\ Len(msg) <= Room
      /\ \A n \in 1..Len(msg) : msg[n] \in Payload
  BY TextFacts
<1>4. Len(SubSeq(msg, 1, sent)) = sent
  <2>1. \A n \in 1..sent : msg[n] \in Payload
    BY <1>1, <1>3
  <2>2. Len(SubSeq(msg, 1, sent)) = IF 1 <= sent THEN sent - 1 + 1 ELSE 0
    BY <1>1, <2>1, SubSeqProperties
  <2> QED
    BY <1>1, <2>2
<1>5. Room \in Nat
  BY DemoAssumption
<1> QED
  BY <1>1, <1>2, <1>3, <1>4, <1>5

\* A poll by a program that runs: the word in the register goes to the
\* Wii, and the next one takes its place if there is one.
LEMMA Polled ==
  ASSUME ETypes, Poll, gba # "off", UNCHANGED <<todo, toGba>>
  PROVE  /\ JOY_TRANS' \in Nat /\ toWii' \in Seq(Payload)
         /\ Row(inmsg \o Held(JOY_TRANS), JOY_TRANS', toWii', todo, toGba) = Flow
         /\ todo = <<>> /\ JOY_TRANS' = 0 => toWii' = <<>>
<1>1. /\ inmsg \in Seq(Payload) /\ JOY_TRANS \in Nat /\ toWii \in Seq(Payload)
  BY DEF ETypes
<1>2. CASE JOY_TRANS' = 0 /\ toWii' = toWii /\ (toWii = <<>> \/ todo # <<>>)
  <2>1. Row(inmsg \o Held(JOY_TRANS), 0, toWii, todo, toGba)
          = Row(inmsg, JOY_TRANS, toWii, todo, toGba)
    BY <1>1, RowPolled
  <2> QED
    BY <1>1, <1>2, <2>1 DEF Flow
<1>3. CASE toWii # <<>> /\ JOY_TRANS' = Head(toWii) /\ toWii' = Tail(toWii)
  <2>1. Head(toWii) \in Payload /\ Tail(toWii) \in Seq(Payload)
    BY <1>1, <1>3, HeadAndTail
  <2>2. Row(inmsg \o Held(JOY_TRANS), Head(toWii), Tail(toWii), todo, toGba)
          = Row(inmsg, JOY_TRANS, toWii, todo, toGba)
    BY <1>1, <1>3, RowLoaded
  <2> QED
    BY <1>3, <2>1, <2>2 DEF Flow, Payload
<1> QED
  BY <1>2, <1>3 DEF Poll

LEMMA EchoSame ==
  ASSUME EInv, UNCHANGED <<program, main, gba, todo, link, cut>>
  PROVE  EInv'
<1>1. /\ program' = program /\ at' = at /\ msg' = msg /\ sent' = sent /\ inmsg' = inmsg
      /\ gba' = gba /\ todo' = todo /\ (cut' <=> cut)
      /\ toGba' = toGba /\ toWii' = toWii /\ JOY_TRANS' = JOY_TRANS
  BY DEF main, link
<1>2. Flow' = Flow
  BY <1>1 DEF Flow
<1>3. (Quiet' <=> Quiet) /\ (Answered' <=> Answered) /\ (ETypes' <=> ETypes)
  BY <1>1 DEF Quiet, Answered, ETypes
<1>4. Off'
  BY <1>1, <1>3 DEF EInv, Off
<1>5. Echoing => Echoing'
  BY <1>1, <1>2, <1>3 DEF Echoing
<1> QED
  BY <1>1, <1>3, <1>4, <1>5 DEF EInv

LEMMA BootedEcho ==
  ASSUME EInv, Booted
  PROVE  EInv'
<1>1. /\ program' = program /\ msg' = msg /\ sent' = sent /\ inmsg' = inmsg
      /\ gba' = gba /\ todo' = todo /\ toGba' = toGba /\ toWii' = toWii
      /\ JOY_TRANS' = JOY_TRANS /\ at = "multiboot" /\ at' \in {"ready", "exited"}
  BY DEF Booted, link
<1>2. Quiet' /\ (ETypes' <=> ETypes)
  BY <1>1 DEF EInv, Quiet, ETypes
<1>3. Off'
  BY <1>1, <1>2 DEF EInv, Off
<1>4. Echoing'
  BY <1>1, <1>2 DEF Echoing
<1> QED
  BY <1>1, <1>2, <1>3, <1>4 DEF EInv

LEMMA ActivateEcho ==
  ASSUME EInv, Activate
  PROVE  EInv'
<1>1. /\ program' = program /\ at' = at /\ msg' = msg /\ sent' = sent /\ inmsg' = inmsg
      /\ todo' = todo /\ toGba' = toGba /\ toWii' = toWii
      /\ JOY_TRANS' = 0 /\ gba = "off" /\ gba' = "main"
  BY DEF Activate, main
<1>2. Quiet' /\ (ETypes => ETypes') /\ at' \in {"multiboot", "ready", "exited"}
  BY <1>1 DEF EInv, Off, Quiet, ETypes
<1>3. Off'
  BY <1>1 DEF Off
<1>4. Echoing'
  BY <1>1, <1>2 DEF Echoing
<1> QED
  BY <1>1, <1>2, <1>3, <1>4 DEF EInv

LEMMA WaitEcho ==
  ASSUME EInv, wait_clear
  PROVE  EInv'
<1>1. /\ program' = program /\ msg' = msg /\ sent' = sent /\ inmsg' = inmsg
      /\ gba' = gba /\ todo' = todo /\ toGba' = toGba /\ (cut' <=> cut)
      /\ at \in {"ready", "clear"} /\ Poll
      /\ \/ JOY_TRANS = 0 /\ at' = Cleared
         \/ JOY_TRANS # 0 /\ at' \in {at, "exited"}
  BY DEF wait_clear
<1>2. Quiet' <=> Quiet
  BY <1>1 DEF Quiet
<1>3. Off'
  <2> SUFFICES ASSUME gba = "off"
               PROVE  /\ JOY_TRANS' = 1 /\ Quiet' /\ toWii' = <<>>
                      /\ at' \in {"multiboot", "ready", "exited"}
    BY <1>1 DEF Off
  <2>1. JOY_TRANS = 1 /\ Quiet /\ toWii = <<>> /\ at \in {"multiboot", "ready", "exited"}
    BY DEF EInv, Off
  <2>2. JOY_TRANS' = JOY_TRANS /\ toWii' = toWii
    BY <1>1 DEF Poll
  <2> QED
    BY <1>1, <1>2, <2>1, <2>2
<1>4. program = "echo" => ETypes'
  <2> HAVE program = "echo"
  <2>1. ETypes
    BY DEF EInv
  <2>2. JOY_TRANS' \in Nat /\ toWii' \in Seq(Payload)
    <3>1. CASE gba = "off"
      BY <1>1, <2>1, <3>1 DEF Poll, ETypes
    <3>2. CASE gba # "off"
      BY <1>1, <2>1, <3>2, Polled
    <3> QED
      BY <3>1, <3>2
  <2> QED
    BY <1>1, <2>1, <2>2 DEF ETypes
<1>5. program = "echo" /\ ~cut => Echoing'
  <2> HAVE program = "echo" /\ ~cut
  <2>1. Quiet /\ ETypes /\ Echoing
    BY <1>1 DEF EInv, Echoing, Answered
  <2>2. at' # "ready" => at' = "exited" \/ gba # "off"
    BY <1>1 DEF EInv, Off
  <2>3. gba # "off" => Answered'
    <3> HAVE gba # "off"
    <3>1. todo = <<>>
      BY <2>1 DEF Quiet
    <3>2. JOY_TRANS' = 0 => toWii' = <<>>
      BY <1>1, <2>1, <3>1, Polled
    <3> QED
      BY <1>2, <2>1, <3>2 DEF Answered
  <2>4. CASE at' = "ready" \/ at' = "exited"
    BY <1>2, <2>1, <2>4 DEF Echoing
  <2>5. CASE at' = "prompt"
    BY <2>2, <2>3, <2>5 DEF Echoing
  <2>6. CASE at' = "clear"
    <3>1. at = "clear"
      BY <1>1, <2>6 DEF Cleared
    <3>2. sent' = 0 /\ inmsg' = <<>> /\ msg' \in Texts
      BY <1>1, <2>1, <3>1 DEF Echoing
    <3> QED
      BY <2>2, <2>3, <2>6, <3>2 DEF Echoing
  <2>7. CASE at' = "send"
    <3>1. at = "clear" /\ JOY_TRANS = 0
      BY <1>1, <2>7 DEF Cleared
    <3>2. sent' = 0 /\ inmsg' = <<>> /\ msg' \in Texts /\ toWii = <<>>
      BY <1>1, <2>1, <3>1 DEF Echoing, Answered
    <3>3. todo' = <<>> /\ toGba' = <<>> /\ toWii' = <<>> /\ JOY_TRANS' = 0
      BY <1>1, <2>1, <2>2, <2>7, <3>2 DEF Quiet, Poll
    <3>4. Flow' = <<>> \o <<>> \o <<>> \o <<>> \o <<>>
      BY <3>2, <3>3 DEF Flow, Row, Held
    <3>5. <<>> \o <<>> = <<>>
      BY ConcatEmptySeq, EmptySeq
    <3>6. Flow' = <<>>
      BY <3>4, <3>5
    <3>7. SubSeq(msg', 1, 0) = <<>>
      BY SubSeqEmpty
    <3>8. 0 <= Len(msg')
      BY <3>2, TextFacts
    <3> QED
      BY <2>7, <3>2, <3>6, <3>7, <3>8 DEF Echoing
  <2>8. at' \in {"ready", "exited", "prompt", "clear", "send"}
    BY <1>1 DEF Cleared
  <2> QED
    BY <2>4, <2>5, <2>6, <2>7, <2>8
<1>6. at' # "multiboot"
  BY <1>1 DEF Cleared
<1> QED
  BY <1>1, <1>3, <1>4, <1>5, <1>6 DEF EInv

LEMMA EnterEcho ==
  ASSUME EInv, Enter
  PROVE  EInv'
<1>1. /\ program' = program /\ gba' = gba /\ todo' = todo /\ toGba' = toGba
      /\ toWii' = toWii /\ JOY_TRANS' = JOY_TRANS /\ (cut' <=> cut)
      /\ sent' = 0 /\ inmsg' = <<>> /\ at = "prompt"
      /\ program = "echo" => msg' \in Texts /\ at' = "clear"
      /\ at' \in {"clear", "send"}
  BY DEF Enter, link
<1>2. (Quiet' <=> Quiet) /\ (Answered' <=> Answered)
  BY <1>1 DEF Quiet, Answered
<1>3. Off'
  BY <1>1 DEF EInv, Off
<1>4. program = "echo" => ETypes'
  BY <1>1 DEF EInv, ETypes
<1>5. program = "echo" /\ ~cut => Echoing'
  BY <1>1, <1>2 DEF EInv, Echoing
<1> QED
  BY <1>1, <1>3, <1>4, <1>5 DEF EInv

\* at goes back to "ready", with nothing on the link unless it was cut.
LEMMA RestartEcho ==
  ASSUME EInv, Restart
  PROVE  EInv'
<1>1. /\ program' = program /\ gba' = gba /\ todo' = todo /\ toGba' = toGba
      /\ toWii' = toWii /\ JOY_TRANS' = JOY_TRANS
      /\ (cut' <=> cut \/ toGba # <<>> \/ todo # <<>>)
      /\ sent' = 0 /\ inmsg' = <<>> /\ msg' = <<>> /\ at' = "ready"
  BY DEF Restart, link
<1>2. Quiet' <=> Quiet
  BY <1>1 DEF Quiet
<1>3. Off'
  BY <1>1, <1>2 DEF EInv, Off
<1>4. program = "echo" => ETypes'
  BY <1>1 DEF EInv, ETypes
<1>5. ~cut' => Echoing'
  BY <1>1 DEF Echoing, Quiet
<1> QED
  BY <1>1, <1>3, <1>4, <1>5 DEF EInv

LEMMA LostEcho ==
  ASSUME EInv, Lost
  PROVE  EInv'
<1>1. /\ program' = program /\ msg' = msg /\ sent' = sent /\ inmsg' = inmsg
      /\ gba' = gba /\ todo' = todo /\ toGba' = toGba /\ toWii' = toWii
      /\ JOY_TRANS' = JOY_TRANS /\ at' = "exited"
  BY DEF Lost, link
<1>2. (Quiet' <=> Quiet) /\ (ETypes' <=> ETypes)
  BY <1>1 DEF Quiet, ETypes
<1>3. Off' /\ Echoing'
  BY <1>1, <1>2 DEF EInv, Off, Echoing
<1> QED
  BY <1>1, <1>2, <1>3 DEF EInv

LEMMA SendEcho ==
  ASSUME EInv, Send
  PROVE  EInv'
<1>1. /\ program' = program /\ msg' = msg /\ inmsg' = inmsg /\ gba' = gba /\ todo' = todo
      /\ toWii' = toWii /\ JOY_TRANS' = JOY_TRANS /\ (cut' <=> cut)
      /\ at = "send" /\ at' \in {"send", "await"}
  BY DEF Send
<1>2. /\ sent < Len(msg) => /\ toGba' = Push(toGba, msg[sent + 1])
                            /\ sent' = sent + 1 /\ at' = "send"
      /\ ~(sent < Len(msg)) => toGba' = toGba /\ sent' = sent /\ at' = "await"
  BY <1>1 DEF Send
<1>3. Off'
  BY <1>1 DEF EInv, Off
<1>4. program = "echo" => ETypes'
  <2> HAVE program = "echo"
  <2>1. ETypes
    BY DEF EInv
  <2>2. toGba' \in Seq(Payload) /\ sent' \in Nat
    <3>1. CASE sent < Len(msg)
      <4>1. sent + 1 \in 1..Len(msg)
        BY <2>1, <3>1, TextFacts DEF ETypes
      <4>2. msg[sent + 1] \in Payload
        BY <2>1, <4>1, TextFacts DEF ETypes
      <4> QED
        BY <1>2, <2>1, <3>1, <4>2, PushFacts DEF ETypes
    <3>2. CASE ~(sent < Len(msg))
      BY <1>2, <2>1, <3>2 DEF ETypes
    <3> QED
      BY <3>1, <3>2
  <2> QED
    BY <1>1, <2>1, <2>2 DEF ETypes
<1>5. program = "echo" /\ ~cut => Echoing'
  <2> HAVE program = "echo" /\ ~cut
  <2>1. ETypes /\ Echoing
    BY DEF EInv
  <2>2. /\ msg \in Texts /\ sent <= Len(msg) /\ Flow = SubSeq(msg, 1, sent)
        /\ inmsg = <<>> /\ sent \in Nat
    BY <1>1, <2>1 DEF Echoing, ETypes
  <2>3. /\ msg \in Seq(Payload) /\ Len(msg) \in Nat /\ Len(msg) <= Room
        /\ \A n \in 1..Len(msg) : msg[n] \in Payload
    BY <2>2, TextFacts
  <2>4. CASE sent < Len(msg)
    <3>1. sent + 1 \in 1..Len(msg) /\ msg[sent + 1] \in Payload
      BY <2>2, <2>3, <2>4
    <3>2. Len(toGba) < Room
      <4>1. Len(inmsg) + Len(Held(JOY_TRANS)) + Len(toWii) + Len(todo) + Len(toGba) = sent
        BY <2>1, <2>2, FlowFits
      <4>2. /\ Len(inmsg) \in Nat /\ Len(Held(JOY_TRANS)) \in Nat /\ Len(toWii) \in Nat
            /\ Len(todo) \in Nat /\ Len(toGba) \in Nat
        BY <2>1, HeldType, LenProperties DEF ETypes
      <4>3. Room \in Nat
        BY DemoAssumption
      <4> QED
        BY <2>2, <2>3, <2>4, <4>1, <4>2, <4>3
    <3>3. toGba' = Append(toGba, msg[sent + 1])
      BY <1>2, <2>1, <2>4, <3>1, <3>2, PushFacts DEF ETypes
    <3>4. Flow' = Flow \o <<msg[sent + 1]>>
      <4>1. Flow' = Row(inmsg, JOY_TRANS, toWii, todo, Append(toGba, msg[sent + 1]))
        BY <1>1, <3>3 DEF Flow
      <4> QED
        BY <2>1, <3>1, <4>1, FlowWritten
    <3>5. SubSeq(msg, 1, sent + 1) = SubSeq(msg, 1, sent) \o <<msg[sent + 1]>>
      <4>1. 1 \in 1..Len(msg) /\ sent + 1 \in 1..Len(msg) /\ sent + 1 - 1 = sent
        BY <2>2, <2>3, <3>1
      <4> QED
        BY <2>2, <2>3, <4>1, SubSeqRecursiveSecond
    <3>6. sent + 1 <= Len(msg)
      BY <2>2, <2>3, <2>4
    <3> QED
      BY <1>1, <1>2, <2>2, <2>4, <3>4, <3>5, <3>6 DEF Echoing
  <2>5. CASE ~(sent < Len(msg))
    <3>1. sent = Len(msg)
      BY <2>2, <2>3, <2>5
    <3>2. Flow' = Flow
      BY <1>1, <1>2, <2>5 DEF Flow
    <3> QED
      BY <1>1, <1>2, <2>2, <2>5, <3>1, <3>2 DEF Echoing
  <2> QED
    BY <2>4, <2>5
<1> QED
  BY <1>1, <1>3, <1>4, <1>5 DEF EInv

LEMMA AwaitEcho ==
  ASSUME EInv, Await
  PROVE  EInv'
<1>1. /\ program' = program /\ msg' = msg /\ sent' = sent /\ gba' = gba /\ todo' = todo
      /\ toGba' = toGba /\ (cut' <=> cut)
      /\ at = "await" /\ at' \in {"await", "prompt"}
      /\ \/ /\ Poll /\ at' = "await"
            /\ inmsg' = IF JOY_TRANS # 0 THEN Append(inmsg, JOY_TRANS) ELSE inmsg
         \/ /\ Len(inmsg) >= Awaited /\ at' = "prompt"
            /\ toWii' = toWii /\ JOY_TRANS' = JOY_TRANS /\ inmsg' = inmsg
  BY DEF Await
<1>2. gba # "off" /\ Off'
  BY <1>1 DEF EInv, Off
<1>3. ASSUME program = "echo", Poll, at' = "await",
             inmsg' = IF JOY_TRANS # 0 THEN Append(inmsg, JOY_TRANS) ELSE inmsg
      PROVE  ETypes' /\ Flow' = Flow
  <2>1. ETypes /\ inmsg \in Seq(Payload) /\ JOY_TRANS \in Nat
    BY <1>3 DEF EInv, ETypes
  <2>2. inmsg' = inmsg \o Held(JOY_TRANS)
    <3>1. JOY_TRANS # 0 => JOY_TRANS \in Payload
      BY <2>1 DEF Payload
    <3>2. JOY_TRANS # 0 => Append(inmsg, JOY_TRANS) = inmsg \o <<JOY_TRANS>>
      BY <2>1, <3>1, AppendIsConcat
    <3>3. inmsg \o <<>> = inmsg
      BY <2>1, ConcatEmptySeq
    <3> QED
      BY <1>3, <3>2, <3>3 DEF Held
  <2>3. inmsg' \in Seq(Payload)
    BY <2>1, <2>2, HeldType, ConcatProperties
  <2>4. /\ JOY_TRANS' \in Nat /\ toWii' \in Seq(Payload)
        /\ Row(inmsg \o Held(JOY_TRANS), JOY_TRANS', toWii', todo, toGba) = Flow
    BY <1>1, <1>2, <1>3, <2>1, Polled
  <2> QED
    BY <1>1, <2>1, <2>2, <2>3, <2>4 DEF Flow, ETypes
<1>4. program = "echo" => ETypes'
  <2> HAVE program = "echo"
  <2>1. CASE at' = "await"
    BY <1>1, <1>3, <2>1
  <2>2. CASE at' = "prompt"
    BY <1>1, <2>2 DEF EInv, ETypes
  <2> QED
    BY <1>1, <2>1, <2>2
<1>5. program = "echo" /\ ~cut => Echoing'
  <2> HAVE program = "echo" /\ ~cut
  <2>1. ETypes /\ Echoing
    BY DEF EInv
  <2>2. /\ msg \in Texts /\ sent = Len(msg) /\ sent <= Len(msg)
        /\ Flow = SubSeq(msg, 1, sent)
    BY <1>1, <2>1 DEF Echoing
  <2>3. CASE at' = "await"
    <3>1. Flow' = Flow
      BY <1>1, <1>3, <2>3
    <3> QED
      BY <1>1, <2>2, <2>3, <3>1 DEF Echoing
  <2>4. CASE at' = "prompt"
    <3>1. Len(inmsg) >= Len(msg) /\ toWii' = toWii /\ JOY_TRANS' = JOY_TRANS
      BY <1>1, <2>4 DEF Awaited
    <3>2. Len(inmsg) + Len(Held(JOY_TRANS)) + Len(toWii) + Len(todo) + Len(toGba) = sent
      BY <2>1, <2>2, FlowFits
    <3>3. /\ Len(inmsg) \in Nat /\ Len(Held(JOY_TRANS)) \in Nat /\ Len(toWii) \in Nat
          /\ Len(todo) \in Nat /\ Len(toGba) \in Nat /\ Len(msg) \in Nat
      BY <2>1, <2>2, HeldType, LenProperties, TextFacts DEF ETypes
    <3>4. Len(toWii) = 0 /\ Len(todo) = 0 /\ Len(toGba) = 0
      BY <2>2, <3>1, <3>2, <3>3
    <3>5. toWii = <<>> /\ todo = <<>> /\ toGba = <<>>
      BY <2>1, <3>4, EmptySeq DEF ETypes
    <3> QED
      BY <1>1, <2>4, <3>1, <3>5 DEF Echoing, Answered, Quiet
  <2> QED
    BY <1>1, <2>3, <2>4
<1> QED
  BY <1>1, <1>2, <1>4, <1>5 DEF EInv

LEMMA ReadEcho ==
  ASSUME EInv, Read
  PROVE  EInv'
<1>1. /\ program' = program /\ at' = at /\ msg' = msg /\ sent' = sent /\ inmsg' = inmsg
      /\ gba' = gba /\ toWii' = toWii /\ JOY_TRANS' = JOY_TRANS /\ (cut' <=> cut)
      /\ gba = "main" /\ todo = <<>> /\ toGba # <<>> /\ toGba' = Tail(toGba)
      /\ program = "echo" => todo' = <<Head(toGba)>>
  BY DEF Read, main
<1>2. Off' /\ at # "multiboot"
  BY <1>1 DEF EInv, Off, Quiet
<1>3. program = "echo" => ETypes' /\ Flow' = Flow
  <2> HAVE program = "echo"
  <2>1. ETypes
    BY DEF EInv
  <2>2. Head(toGba) \in Payload /\ Tail(toGba) \in Seq(Payload)
    BY <1>1, <2>1, HeadAndTail DEF ETypes
  <2>3. <<Head(toGba)>> \in Seq(Payload)
    BY <2>2
  <2>4. Row(inmsg, JOY_TRANS, toWii, <<Head(toGba)>>, Tail(toGba))
          = Row(inmsg, JOY_TRANS, toWii, <<>>, toGba)
    BY <1>1, <2>1, RowRead DEF ETypes
  <2>5. Flow' = Flow
    BY <1>1, <2>4 DEF Flow
  <2>6. ETypes'
    BY <1>1, <2>1, <2>2, <2>3 DEF ETypes
  <2> QED
    BY <2>5, <2>6
<1>4. program = "echo" /\ ~cut => Echoing'
  <2> HAVE program = "echo" /\ ~cut
  <2>1. Echoing /\ ~Quiet /\ Flow' = Flow
    BY <1>1, <1>3 DEF EInv, Quiet
  <2> QED
    BY <1>1, <2>1 DEF Echoing, Answered
<1> QED
  BY <1>1, <1>2, <1>3, <1>4 DEF EInv

LEMMA SendWordEcho ==
  ASSUME EInv, SendWord
  PROVE  EInv'
<1>1. /\ program' = program /\ at' = at /\ msg' = msg /\ sent' = sent /\ inmsg' = inmsg
      /\ gba' = gba /\ toGba' = toGba /\ JOY_TRANS' = JOY_TRANS /\ (cut' <=> cut)
      /\ todo # <<>> /\ toWii' = Push(toWii, Head(todo)) /\ todo' = Tail(todo)
  BY DEF SendWord, main
<1>2. ~Quiet /\ Off' /\ at # "multiboot"
  BY <1>1 DEF EInv, Off, Quiet
<1>3. program = "echo" => ETypes'
  <2> HAVE program = "echo"
  <2>1. ETypes
    BY DEF EInv
  <2>2. Head(todo) \in Payload /\ Tail(todo) \in Seq(Payload)
    BY <1>1, <2>1, HeadAndTail DEF ETypes
  <2>3. Push(toWii, Head(todo)) \in Seq(Payload)
    BY <2>1, <2>2, PushFacts DEF ETypes
  <2> QED
    BY <1>1, <2>1, <2>2, <2>3 DEF ETypes
<1>4. program = "echo" /\ ~cut => Echoing'
  <2> HAVE program = "echo" /\ ~cut
  <2>1. ETypes /\ Echoing
    BY DEF EInv
  <2>2. at \notin {"ready", "prompt", "clear"}
    BY <1>2, <2>1 DEF Echoing, Answered
  <2>3. CASE at \in {"send", "await"}
    <3>1. msg \in Texts /\ sent <= Len(msg) /\ Flow = SubSeq(msg, 1, sent)
      BY <2>1, <2>3 DEF Echoing
    <3>2. Head(todo) \in Payload
      BY <1>1, <2>1, HeadAndTail DEF ETypes
    <3>3. Len(toWii) < Room
      <4>1. /\ Len(inmsg) + Len(Held(JOY_TRANS)) + Len(toWii) + Len(todo) + Len(toGba) = sent
            /\ sent <= Room
        BY <2>1, <3>1, FlowFits
      <4>2. /\ Len(inmsg) \in Nat /\ Len(Held(JOY_TRANS)) \in Nat /\ Len(toWii) \in Nat
            /\ Len(todo) \in Nat \ {0} /\ Len(toGba) \in Nat
        BY <1>1, <2>1, HeldType, LenProperties, EmptySeq DEF ETypes
      <4>3. Room \in Nat
        BY DemoAssumption
      <4> QED
        BY <4>1, <4>2, <4>3
    <3>4. toWii' = Append(toWii, Head(todo))
      BY <1>1, <2>1, <3>2, <3>3, PushFacts DEF ETypes
    <3>5. Flow' = Flow
      <4>1. Row(inmsg, JOY_TRANS, Append(toWii, Head(todo)), Tail(todo), toGba)
              = Row(inmsg, JOY_TRANS, toWii, todo, toGba)
        BY <1>1, <2>1, RowSent DEF ETypes
      <4> QED
        BY <1>1, <3>4, <4>1 DEF Flow
    <3> QED
      BY <1>1, <2>1, <2>3, <3>1, <3>5 DEF Echoing
  <2>4. CASE at \notin {"send", "await"}
    BY <1>1, <2>2, <2>4 DEF Echoing
  <2> QED
    BY <2>3, <2>4
<1> QED
  BY <1>1, <1>2, <1>3, <1>4 DEF EInv

(* EchoExact (echo.c): what echo prints is the message that was sent, and  *)
(* nothing of an earlier one, also after the program was started again.    *)
THEOREM EchoesAreExact == Spec => []EchoExact
<1>1. Init => EInv
  <2> SUFFICES ASSUME Init PROVE EInv
    OBVIOUS
  <2>1. /\ todo = <<>> /\ toGba = <<>> /\ toWii = <<>> /\ msg = <<>> /\ sent = 0
        /\ inmsg = <<>>
        /\ \/ at = "multiboot" /\ gba = "off" /\ JOY_TRANS = 1
           \/ at = "ready" /\ gba = "main" /\ JOY_TRANS = 0
    BY DEF Init
  <2>2. Off /\ Quiet /\ ETypes
    BY <2>1 DEF Off, Quiet, ETypes
  <2>3. Echoing
    BY <2>1, <2>2 DEF Echoing
  <2> QED
    BY <2>2, <2>3 DEF EInv
<1>2. EInv /\ [Next]_vars => EInv'
  <2> SUFFICES ASSUME EInv, [Next]_vars PROVE EInv'
    OBVIOUS
  <2>1. CASE Multiboot \/ UNCHANGED vars
    <3>1. UNCHANGED <<program, main, gba, todo, link, cut>>
      BY <2>1 DEF Multiboot, vars
    <3> QED
      BY <3>1, EchoSame
  <2> QED
    BY <2>1, BootedEcho, ActivateEcho, WaitEcho, EnterEcho, SendEcho, AwaitEcho, LostEcho,
       RestartEcho, ReadEcho, SendWordEcho DEF Next
<1>3. EInv => EchoExact
  <2> SUFFICES ASSUME EInv, program = "echo", at = "await", ~cut
               PROVE  inmsg = SubSeq(msg, 1, Len(inmsg))
    BY DEF EchoExact
  <2>1. /\ ETypes /\ msg \in Texts /\ sent = Len(msg) /\ Flow = SubSeq(msg, 1, sent)
    BY DEF EInv, Echoing
  <2>2. Flow = msg
    BY <2>1, TextFacts, SubSeqFull
  <2>3. SubSeq(Flow, 1, Len(inmsg)) = inmsg
    <3>1. SubSeq(Row(inmsg, JOY_TRANS, toWii, todo, toGba), 1, Len(inmsg)) = inmsg
      BY <2>1, RowBegins DEF ETypes
    <3> QED
      BY <3>1 DEF Flow
  <2> QED
    BY <2>2, <2>3
<1> QED
  BY <1>1, <1>2, <1>3, PTL DEF Spec

=============================================================================
