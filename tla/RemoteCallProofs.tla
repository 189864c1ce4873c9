-------------------------- MODULE RemoteCallProofs --------------------------
(***************************************************************************)
(* Proofs about RemoteCall, for words of any width, messages of any size,  *)
(* any commands and restarts of the file server.                           *)
(***************************************************************************)
EXTENDS RemoteCall, SequenceTheorems, FiniteSetTheorems, WellFoundedInduction, TLAPS

-----------------------------------------------------------------------------
(* The invariant.                                                          *)

\* How far a receiver is that has taken k packets of a message: it has i
\* words, and t is where send_request was after them.
AlignedAt(r, msg, k, i, t) ==
  /\ DOMAIN r = {"msg", "in", "carry", "first", "left"}
  /\ r.first \in BOOLEAN
  /\ r.msg \in Seq(Words) /\ i <= Len(msg) /\ \A j \in 1..i : r.msg[j] = msg[j]
  /\ r.left = Len(msg) - i
  /\ r.left = 0 => k = Len(send_request(msg))
  /\ r.left > 0 /\ r.first => r.carry = 0 /\ t.carry = 0 /\ k = Len(t.sent)
  /\ r.left > 0 /\ ~r.first => /\ r.carry = t.carry /\ k = Len(t.sent) + 1
                               /\ r.in = LowBits(msg[i + 1], BIT_MAX - t.carry)
Aligned(r, msg, k) == AlignedAt(r, msg, k, Len(r.msg), Turns(msg)[Len(r.msg)])

\* q is what is left of the packets s after k of them.
Remains(q, s, k) == k \in Nat /\ Len(q) + k = Len(s) /\ \A j \in 1..Len(q) : q[j] = s[k + j]

Packets == {x \in Nat : x >= Mark}

\* The words of the message of a command, or of a chunk of a write, and of
\* its answer.
RequestWords(c)  == IF c = "CHUNK" THEN ChunkLen ELSE RequestLen[c]
ResponseWords(c) == IF c = "CHUNK" THEN ResponseLen["WRITE"] ELSE ResponseLen[c]

\* Nobody makes a call, and what is left of the last answer drains away.
Resting ==
  /\ gba \in {"boot", "main"} /\ toGba = <<>> /\ gbaOut = <<>>
  /\ toWii \in Seq(Packets)
  /\ gba = "boot" => toWii = <<>> /\ JOY_TRANS = Mark /\ wii \in {"start", "exited"}
  /\ wii \in {"idle", "clear"} /\ JOY_TRANS = 0 => toWii = <<>>

\* Nothing is under way.
Quiet == gba = "main" /\ toGba = <<>> /\ toWii = <<>> /\ JOY_TRANS = 0 /\ gbaOut = <<>>

\* The Game Boy will read the command, and the request after it ...
CommandComes ==
  /\ gba = "main" /\ cmd # "CHUNK"
  /\ toGba \o out # <<>> /\ Head(toGba \o out) = Code[cmd]
  /\ Remains(Tail(toGba \o out), send_request(request), 0)
  /\ cmd = "WRITE" => wiiLeft = request[1]

\* ... or the rest of the request.
RequestComes ==
  /\ gba = cmd /\ gbaIn.left > 0
  /\ \E k \in Nat : Aligned(gbaIn, request, k)
                    /\ Remains(toGba \o out, send_request(request), k)
  /\ cmd = "WRITE" => wiiLeft = request[1]
  /\ cmd = "CHUNK" => wiiLeft = gbaLeft

\* The request is under way, and nothing comes back.
Asking ==
  /\ request \in Messages(RequestWords(cmd))
  /\ toWii = <<>> /\ JOY_TRANS = 0 /\ gbaOut = <<>>
  /\ wiiIn = Receive(ResponseWords(cmd))
  /\ CommandComes \/ RequestComes

\* Where the Game Boy goes after its answer.
Goes == IF cmd \in {"WRITE", "CHUNK"} /\ (cmd = "WRITE" => response[1] = 0) /\ gbaLeft > 0
        THEN "CHUNK" ELSE "main"

\* The response is under way, in the register first, then in the queue, then
\* in send_request; the Game Boy goes where the Wii expects it.
ResponseComes(k) ==
  /\ Aligned(wiiIn, response, k)
  /\ IF JOY_TRANS = 0 THEN Remains(toWii \o gbaOut, send_request(response), k)
     ELSE /\ JOY_TRANS = send_request(response)[k + 1]
          /\ Remains(toWii \o gbaOut, send_request(response), k + 1)
Answering ==
  /\ toGba = <<>> /\ out = <<>>
  /\ response \in Messages(ResponseWords(cmd))
  /\ wiiIn.left > 0
  /\ \E k \in Nat : ResponseComes(k)
  /\ gbaOut # <<>> => gba = cmd
  /\ gbaOut = <<>> => gba = Goes /\ (gba = "CHUNK" => gbaIn = Receive(ChunkLen))
  /\ cmd = "WRITE" => wiiLeft = gbaLeft
  /\ cmd = "CHUNK" => wiiLeft = gbaLeft + 1

Types ==
  /\ wii \in {"start", "idle", "clear", "write", "send", "receive", "exited"}
  /\ toGba \in Seq(Int) /\ toWii \in Seq(Int) /\ out \in Seq(Int) /\ gbaOut \in Seq(Int)
  /\ request \in Seq(Words) /\ response \in Seq(Words)
  /\ gbaLeft \in Int /\ wiiLeft \in Int

Protocol ==
  /\ wii \in {"start", "idle", "clear", "exited"} => Resting
  /\ wii = "write" => Quiet
  /\ wii \in {"clear", "write"} => cmd \in Commands
  /\ wii \in {"send", "receive"} => cmd \in Commands \cup {"CHUNK"}
  /\ wii = "send" => Asking /\ out # <<>>
  /\ wii = "receive" => (Asking /\ out = <<>>) \/ Answering

Together == Types /\ Protocol
CallInv  == InStep => Together

-----------------------------------------------------------------------------
(* Induction, as a fact about sets.                                        *)

LEMMA LeastNat ==
  ASSUME NEW T, T \subseteq Nat, T # {}
  PROVE  \E x \in T : \A y \in T : x <= y
<1> DEFINE Less == {ss \in Nat \X Nat : ss[1] < ss[2]}
<1>1. IsWellFoundedOn(Less, Nat)
  BY NatLessThanWellFounded, Zenon DEF OpToRel
<1>2. PICK x \in T : \A y \in T : ~ (<<y, x>> \in Less)
  <2> HIDE DEF Less
  <2> QED
    BY <1>1, WFMin
<1>3. \A y \in T : x <= y
  <2> TAKE y \in T
  <2>1. <<y, x>> \in Nat \X Nat
    OBVIOUS
  <2>2. ~(y < x)
    BY <1>2, <2>1 DEF Less
  <2> QED
    BY <2>2
<1> QED
  BY <1>3

LEMMA UpTo ==
  ASSUME NEW n \in Nat, NEW S, 0 \in S, \A i \in Nat : i < n /\ i \in S => i + 1 \in S
  PROVE  0..n \subseteq S
<1> SUFFICES ASSUME (0..n) \ S # {} PROVE FALSE
  OBVIOUS
<1>1. PICK x \in (0..n) \ S : \A y \in (0..n) \ S : x <= y
  <2>1. (0..n) \ S \subseteq Nat
    OBVIOUS
  <2> QED
    BY <2>1, LeastNat, Zenon
<1>2. x # 0 /\ x - 1 \in 0..n
  BY <1>1
<1>3. x - 1 \in S
  BY <1>1, <1>2
<1> QED
  BY <1>2, <1>3

-----------------------------------------------------------------------------
(* Powers of 2, which count the subsets of an interval.                    *)

LEMMA PowerCounts ==
  ASSUME NEW n \in Nat
  PROVE  IsFiniteSet(SUBSET (1..n)) /\ Cardinality(SUBSET (1..n)) = 2^n
<1>1. 1 \in Int /\ n \in Int /\ (1 <= n + 1)
  OBVIOUS
<1>2. IsFiniteSet(1..n) /\ Cardinality(1..n) = n
  BY <1>1, FS_Interval
<1> QED
  BY <1>2, FS_SUBSET

LEMMA PowerPositive ==
  ASSUME NEW n \in Nat
  PROVE  2^n \in Nat \ {0}
<1>1. SUBSET (1..n) # {}
  BY Zenon
<1> QED
  BY <1>1, PowerCounts, FS_EmptySet, FS_CardinalityType

LEMMA PowerDoubles ==
  ASSUME NEW n \in Nat
  PROVE  2^(n + 1) = 2 * 2^n
<1> DEFINE A  == SUBSET (1..n)
           Ax == {B \cup {n + 1} : B \in A}
<1>1. SUBSET (1..(n + 1)) = A \cup Ax
  <2>1. 1..(n + 1) = (1..n) \cup {n + 1} /\ n + 1 \notin 1..n
    OBVIOUS
  <2>2. ASSUME NEW B, B \subseteq 1..(n + 1), n + 1 \in B
        PROVE  B \in Ax
    <3>1. B \ {n + 1} \in A /\ B = (B \ {n + 1}) \cup {n + 1}
      BY <2>1, <2>2
    <3> QED
      BY <3>1
  <2>3. ASSUME NEW B, B \subseteq 1..(n + 1), n + 1 \notin B
        PROVE  B \in A
    BY <2>1, <2>3
  <2>4. ASSUME NEW B \in A \cup Ax
        PROVE  B \subseteq 1..(n + 1)
    BY <2>1
  <2> HIDE DEF A, Ax
  <2> QED
    BY <2>2, <2>3, <2>4
<1>2. A \cap Ax = {}
  BY n + 1 \notin 1..n
<1>3. ExistsBijection(A, Ax)
  <2> DEFINE f == [B \in A |-> B \cup {n + 1}]
  <2>1. f \in Surjection(A, Ax)
    BY Zenon DEF Surjection
  <2>2. ASSUME NEW B \in A, NEW C \in A, f[B] = f[C]
        PROVE  B = C
    <3>1. B \cup {n + 1} = C \cup {n + 1} /\ n + 1 \notin B /\ n + 1 \notin C
      BY <2>2
    <3> QED
      BY <3>1
  <2>3. f \in Injection(A, Ax)
    <3>1. f \in [A -> Ax]
      BY Zenon
    <3> HIDE DEF f, A, Ax
    <3> QED
      BY <2>2, <3>1 DEF Injection, IsInjective
  <2>4. f \in Bijection(A, Ax)
    BY <2>1, <2>3 DEF Bijection
  <2> QED
    BY <2>4, Zenon DEF ExistsBijection
<1>4. IsFiniteSet(A) /\ Cardinality(A) = 2^n
  BY PowerCounts
<1> HIDE DEF A, Ax
<1>5. IsFiniteSet(Ax) /\ Cardinality(Ax) = Cardinality(A)
  BY <1>3, <1>4, FS_Bijection
<1>6. Cardinality(A \cup Ax) = Cardinality(A) + Cardinality(Ax) - Cardinality(A \cap Ax)
  BY <1>4, <1>5, FS_Union
<1>7. Cardinality(A \cap Ax) = 0
  BY <1>2, FS_EmptySet
<1>8. Cardinality(A \cup Ax) = 2^(n + 1)
  BY <1>1, PowerCounts
<1>9. 2^n \in Nat
  BY PowerPositive
<1> QED
  BY <1>4, <1>5, <1>6, <1>7, <1>8, <1>9

LEMMA PowerSum ==
  ASSUME NEW i \in Nat, NEW j \in Nat
  PROVE  2^(i + j) = 2^i * 2^j
<1> DEFINE S == {k \in Nat : 2^(i + k) = 2^i * 2^k}
<1>1. 0 \in S
  BY PowerPositive
<1>2. ASSUME NEW k \in Nat, k \in S
      PROVE  k + 1 \in S
  <2>1. 2^(i + k + 1) = 2 * 2^(i + k) /\ 2^(k + 1) = 2 * 2^k /\ i + (k + 1) = i + k + 1
    BY PowerDoubles
  <2>2. 2^(i + k) = 2^i * 2^k
    BY <1>2
  <2>3. \A a, b \in Nat : 2 * (a * b) = a * (2 * b)
    OBVIOUS
  <2> QED
    BY <2>1, <2>2, <2>3, PowerPositive
<1> HIDE DEF S
<1>3. j \in S
  BY <1>1, <1>2, UpTo
<1> QED
  BY <1>3 DEF S

-----------------------------------------------------------------------------
(* send_request's turns.                                                   *)

LEMMA TurnsStep ==
  ASSUME NEW msg, Len(msg) \in Nat
  PROVE  /\ Turns(msg)[0] = [sent |-> <<>>, remainder |-> 0, carry |-> 0]
         /\ \A i \in 1..Len(msg) : Turns(msg)[i] = pack(Turns(msg)[i - 1], msg[i])
<1> DEFINE n == Len(msg)
           start == [sent |-> <<>>, remainder |-> 0, carry |-> 0]
           Good(f, k) == f = [i \in 0..k |-> IF i = 0 THEN start ELSE pack(f[i - 1], msg[i])]
           S == {k \in 0..n : \E f : Good(f, k)}
<1>1. 0 \in S
  <2> DEFINE z == [i \in 0..0 |-> start]
  <2>1. Good(z, 0)
    OBVIOUS
  <2> HIDE DEF z, Good
  <2> QED
    BY <2>1
<1>2. ASSUME NEW k \in Nat, k < n, k \in S
      PROVE  k + 1 \in S
  <2>1. PICK f : Good(f, k)
    BY <1>2
  <2> DEFINE g == [i \in 0..(k + 1) |-> IF i <= k THEN f[i] ELSE pack(f[k], msg[k + 1])]
  <2>2. ASSUME NEW i \in 0..(k + 1)
        PROVE  g[i] = IF i = 0 THEN start ELSE pack(g[i - 1], msg[i])
    <3>1. CASE i <= k
      <4>1. g[i] = f[i] /\ (i # 0 => g[i - 1] = f[i - 1])
        BY <3>1
      <4>2. f[i] = IF i = 0 THEN start ELSE pack(f[i - 1], msg[i])
        BY <2>1, <3>1
      <4> QED
        BY <4>1, <4>2
    <3>2. CASE i = k + 1
      BY <3>2
    <3> QED
      BY <3>1, <3>2
  <2>3. Good(g, k + 1)
    <3>1. DOMAIN g = 0..(k + 1) /\ g = [i \in 0..(k + 1) |-> g[i]]
      OBVIOUS
    <3> HIDE DEF g, start
    <3> QED
      BY <2>2, <3>1
  <2>4. k + 1 \in 0..n
    BY <1>2
  <2> HIDE DEF g, Good
  <2> QED
    BY <2>3, <2>4
<1>3. \E f : Good(f, n)
  <2> HIDE DEF S
  <2>1. 0..n \subseteq S
    BY <1>1, <1>2, UpTo
  <2>2. n \in S
    BY <2>1
  <2> HIDE DEF Good
  <2> QED
    BY <2>2 DEF S
<1>4. Good(Turns(msg), n)
  BY <1>3, Zenon DEF Turns
<1> DEFINE f == Turns(msg)
<1>5. f = [i \in 0..n |-> IF i = 0 THEN start ELSE pack(f[i - 1], msg[i])]
  BY <1>4
<1> HIDE DEF f, start
<1>6. f[0] = start /\ \A i \in 1..n : f[i] = pack(f[i - 1], msg[i])
  BY <1>5
<1> QED
  BY <1>6 DEF f, start

-----------------------------------------------------------------------------
(* The bits of a word on both sides.                                       *)

LEMMA Division ==
  ASSUME NEW x \in Nat, NEW p \in Nat \ {0}
  PROVE  x % p \in 0..(p - 1) /\ x \div p \in Nat /\ x = p * (x \div p) + (x % p)
OBVIOUS

LEMMA ModUnique ==
  ASSUME NEW p \in Nat \ {0}, NEW m \in Nat, NEW l \in 0..(p - 1)
  PROVE  (m * p + l) % p = l
<1> DEFINE x == m * p + l
           q == x \div p
           r == x % p
<1>1. m * p \in Nat
  OBVIOUS
<1>2. x \in Nat
  BY <1>1
<1>3. r \in 0..(p - 1) /\ q \in Nat /\ x = p * q + r
  <2> HIDE DEF x
  <2> QED
    BY <1>2, Division
<1> HIDE DEF q, r
<1>4. m * p + l = q * p + r /\ q * p \in Nat
  BY <1>3
<1>5. ~(q >= m + 1)
  <2>1. SUFFICES ASSUME q >= m + 1 PROVE FALSE
    OBVIOUS
  <2>2. PICK d \in Nat : q = m + 1 + d
    <3>1. q - (m + 1) \in Nat /\ q = m + 1 + (q - (m + 1))
      BY <1>3, <2>1
    <3> QED
      BY <3>1
  <2>3. q * p = m * p + p + d * p /\ d * p \in Nat
    BY <2>2
  <2> QED
    BY <1>1, <1>3, <1>4, <2>3
<1>6. ~(m >= q + 1)
  <2>1. SUFFICES ASSUME m >= q + 1 PROVE FALSE
    OBVIOUS
  <2>2. PICK d \in Nat : m = q + 1 + d
    <3>1. m - (q + 1) \in Nat /\ m = q + 1 + (m - (q + 1))
      BY <1>3, <2>1
    <3> QED
      BY <3>1
  <2>3. m * p = q * p + p + d * p /\ d * p \in Nat
    BY <1>3, <2>2
  <2> QED
    BY <1>1, <1>3, <1>4, <2>3
<1>7. q = m
  BY <1>3, <1>5, <1>6
<1> QED
  BY <1>3, <1>4, <1>7 DEF r, x

\* The bits above the lowest n are a multiple of 2^n.
LEMMA HighMultiple ==
  ASSUME NEW word \in Nat, NEW n \in Nat
  PROVE  /\ LowBits(word, n) \in 0..(2^n - 1)
         /\ \E m \in Nat : HighBits(word, n) = m * 2^n /\ word = m * 2^n + LowBits(word, n)
<1> DEFINE p == 2^n
           m == word \div p
<1>1. p \in Nat \ {0}
  BY PowerPositive
<1> HIDE DEF p
<1>2. word % p \in 0..(p - 1) /\ m \in Nat /\ word = p * m + (word % p)
  BY <1>1, Division
<1>3. word - (word % p) = m * p /\ word = m * p + (word % p)
  <2> HIDE DEF m
  <2>1. p * m = m * p /\ m * p \in Nat
    BY <1>1, <1>2
  <2> QED
    BY <1>2, <2>1
<1> QED
  BY <1>2, <1>3 DEF HighBits, LowBits, p

LEMMA BitsAreNat ==
  ASSUME NEW word \in Nat, NEW n \in Nat
  PROVE  LowBits(word, n) \in Nat /\ HighBits(word, n) \in Nat
<1>1. 2^n \in Nat
  BY PowerPositive
<1>2. LowBits(word, n) \in Nat
  BY <1>1, HighMultiple
<1>3. PICK m \in Nat : HighBits(word, n) = m * 2^n
  BY HighMultiple
<1>4. m * 2^n \in Nat
  BY <1>1
<1> QED
  BY <1>2, <1>3, <1>4

LEMMA Widths ==
  /\ W \in Nat \ {0, 1} /\ BIT_MAX \in Nat \ {0} /\ Mark \in Nat \ {0} /\ 2^W = 2 * Mark
  /\ Words \subseteq 0..(2 * Mark - 1)
<1>1. BIT_MAX \in Nat \ {0} /\ W = BIT_MAX + 1
  BY CallAssumption DEF BIT_MAX
<1>2. 2^W = 2 * 2^BIT_MAX /\ 2^BIT_MAX \in Nat \ {0}
  BY <1>1, PowerDoubles, PowerPositive
<1> QED
  BY <1>1, <1>2, CallAssumption DEF Mark

\* The first packet of a message, or after a full carry.
LEMMA FirstPacket ==
  ASSUME NEW low \in 0..(Mark - 1)
  PROVE  LowBits(Mark + low, BIT_MAX) = low /\ Mark + low \in Packets
<1>1. (1 * Mark + low) % Mark = low
  BY Widths, ModUnique
<1>2. 1 * Mark = Mark
  BY Widths
<1> QED
  BY <1>1, <1>2, Widths DEF LowBits, Mark, Packets

\* A receiver with c bits of a word at hand takes the rest of the word out
\* of recv, and the low bits of the next.
Fits(word, c, d, low, recv) ==
  /\ LowBits(recv, BIT_MAX - d) = low
  /\ LowBits(word, BIT_MAX - c) + HighBits((2 * recv) % 2^W, BIT_MAX - c) = word

\* A later packet: the rest of a word, and the low bits of the next.
LEMMA LaterPacket ==
  ASSUME NEW word \in Words, NEW c \in 1..BIT_MAX, NEW low \in 0..(2^(BIT_MAX - c) - 1),
         NEW rem, rem = HighBits(word, BIT_MAX - (c - 1)) \div 2,
         NEW recv, recv = Mark + rem + low
  PROVE  recv \in Packets /\ Fits(word, c - 1, c, low, recv)
<1> DEFINE n == BIT_MAX - c
           p == 2^n
           l == LowBits(word, n + 1)
           k == 2^c
<1>1. n \in Nat /\ c \in Nat /\ n + 1 \in Nat /\ BIT_MAX - (c - 1) = n + 1 /\ BIT_MAX = c + n
  BY Widths
<1>2. /\ p \in Nat \ {0} /\ k \in Nat \ {0} /\ 2^(n + 1) = 2 * p /\ Mark = k * p
  <2>1. 2^(c + n) = 2^c * 2^n
    BY <1>1, PowerSum
  <2> QED
    BY <1>1, <2>1, PowerPositive, PowerDoubles DEF Mark
<1>3. word \in Nat /\ word <= 2 * Mark - 1
  BY Widths
<1>4. PICK m \in Nat : /\ HighBits(word, n + 1) = m * 2^(n + 1)
                       /\ word = m * 2^(n + 1) + LowBits(word, n + 1)
  BY <1>1, <1>3, HighMultiple
<1>5. l \in 0..(2 * p - 1)
  BY <1>1, <1>2, <1>3, HighMultiple
<1> HIDE DEF n, l
<1>6. HighBits(word, n + 1) = 2 * (m * p) /\ word = 2 * (m * p) + l /\ m * p \in Nat
  <2>1. m * 2^(n + 1) = 2 * (m * p) /\ m * p \in Nat
    <3> HIDE DEF p
    <3> QED
      BY <1>2
  <2> QED
    BY <1>4, <2>1 DEF l
<1> HIDE DEF p, k
<1>7. rem = m * p
  BY <1>1, <1>6
<1>8. m * p + low \in 0..(Mark - 1)
  <2>1. low \in 0..(p - 1)
    BY DEF n, p
  <2>2. m + 1 <= k
    <3>1. SUFFICES ASSUME m >= k PROVE FALSE
      BY <1>2
    <3>2. PICK d \in Nat : m = k + d
      <4>1. m - k \in Nat /\ m = k + (m - k)
        BY <1>2, <3>1
      <4> QED
        BY <4>1
    <3>3. m * p = k * p + d * p /\ d * p \in Nat
      BY <1>2, <3>2
    <3> QED
      BY <1>2, <1>3, <1>5, <1>6, <3>3, Widths
  <2>3. PICK d \in Nat : k = m + 1 + d
    <3>1. k - (m + 1) \in Nat /\ k = m + 1 + (k - (m + 1))
      BY <1>2, <2>2
    <3> QED
      BY <3>1
  <2>4. k * p = m * p + p + d * p /\ d * p \in Nat
    BY <1>2, <2>3
  <2> QED
    BY <1>2, <1>6, <2>1, <2>4
<1>9. recv \in Packets
  BY <1>7, <1>8, Widths DEF Packets
<1>10. LowBits(recv, n) = low
  <2>1. (k + m) * p = k * p + m * p /\ k + m \in Nat
    BY <1>2
  <2>2. recv = (k + m) * p + low
    BY <1>2, <1>6, <1>7, <2>1, Widths
  <2>3. low \in 0..(p - 1)
    BY DEF n, p
  <2>4. recv % p = low
    BY <1>2, <2>1, <2>2, <2>3, ModUnique
  <2> QED
    BY <2>4 DEF LowBits, p
<1>11. (2 * recv) % 2^W = 2 * (m * p + low)
  <2>1. 2 * (m * p + low) \in 0..(2 * Mark - 1)
    BY <1>8, Widths
  <2>2. 2 * recv = 1 * (2 * Mark) + 2 * (m * p + low)
    BY <1>6, <1>7, Widths
  <2>3. 2 * Mark \in Nat \ {0}
    BY Widths
  <2>4. (1 * (2 * Mark) + 2 * (m * p + low)) % (2 * Mark) = 2 * (m * p + low)
    BY <2>1, <2>3, ModUnique
  <2> QED
    BY <2>2, <2>4, Widths
<1>12. HighBits(2 * (m * p + low), n + 1) = 2 * (m * p)
  <2>1. low \in 0..(p - 1)
    BY DEF n, p
  <2>2. 2 * low \in 0..(2 * p - 1) /\ 2 * p \in Nat \ {0}
    BY <1>2, <2>1
  <2>3. (m * (2 * p) + 2 * low) % (2 * p) = 2 * low
    BY <2>2, ModUnique
  <2>4. m * (2 * p) + 2 * low = 2 * (m * p + low)
    <3>1. m * (2 * p) = 2 * (m * p)
      BY <1>2
    <3> QED
      BY <1>6, <2>1, <3>1
  <2>5. (2 * (m * p + low)) % 2^(n + 1) = 2 * low
    BY <1>2, <2>3, <2>4
  <2> QED
    BY <1>6, <2>1, <2>5 DEF HighBits, LowBits
<1> QED
  BY <1>1, <1>5, <1>6, <1>9, <1>10, <1>11, <1>12 DEF n, l, Fits

-----------------------------------------------------------------------------
(* The packets of a message.                                               *)

\* The state of the loop between two turns.
TurnOK(t, i, msg) ==
  /\ t = [sent |-> t.sent, remainder |-> t.remainder, carry |-> t.carry]
  /\ t.sent \in Seq(Packets) /\ t.carry \in 0..(BIT_MAX - 1)
  /\ t.remainder \in Nat
  /\ t.carry = 0 => t.remainder = 0
  /\ t.carry > 0 => i > 0 /\ t.remainder = HighBits(msg[i], BIT_MAX - (t.carry - 1)) \div 2

\* What a turn sends first, and at a full carry second.
Starting(t, word) == Mark + t.remainder + LowBits(word, BIT_MAX - t.carry)
Carried(t, word)  == HighBits(word, BIT_MAX - t.carry) \div 2

\* A turn with a word leads from t to u.
Turned(t, word, u) ==
  /\ t.carry + 1 < BIT_MAX => /\ u.carry = t.carry + 1 /\ u.remainder = Carried(t, word)
                              /\ u.sent = Append(t.sent, Starting(t, word))
  /\ t.carry + 1 = BIT_MAX => /\ u.carry = 0
                              /\ u.sent = t.sent \o <<Starting(t, word), Mark + Carried(t, word)>>

LEMMA MessageIsSeq ==
  ASSUME NEW n \in Nat, NEW msg \in Messages(n)
  PROVE  Len(msg) = n /\ msg \in Seq(Words) /\ \A i \in 1..n : msg[i] \in Words
BY DEF Messages

LEMMA TurnTypes ==
  ASSUME NEW msg, NEW i, NEW t, TurnOK(t, i, msg), NEW word \in Words
  PROVE  /\ t.sent \in Seq(Packets) /\ t.carry \in 0..(BIT_MAX - 1) /\ t.remainder \in Nat
         /\ BIT_MAX \in Nat \ {0} /\ Mark \in Nat
         /\ Starting(t, word) \in Packets /\ Carried(t, word) \in Nat
         /\ Mark + Carried(t, word) \in Packets
<1> DEFINE m == BIT_MAX - t.carry
<1>1. t.sent \in Seq(Packets) /\ t.carry \in 0..(BIT_MAX - 1) /\ t.remainder \in Nat
  BY DEF TurnOK
<1>2. BIT_MAX \in Nat \ {0} /\ Mark \in Nat /\ word \in Nat
  BY Widths
<1>3. m \in Nat
  BY <1>1, <1>2
<1>4. /\ Starting(t, word) = Mark + t.remainder + LowBits(word, m)
      /\ Carried(t, word) = HighBits(word, m) \div 2
  BY DEF Starting, Carried
<1> HIDE DEF m
<1>5. LowBits(word, m) \in Nat /\ HighBits(word, m) \in Nat
  BY <1>2, <1>3, BitsAreNat, Zenon
<1>6. Starting(t, word) \in Packets /\ Carried(t, word) \in Nat
  <2> DEFINE low  == LowBits(word, m)
             high == HighBits(word, m)
             rem  == t.remainder
  <2>1. /\ low \in Nat /\ high \in Nat /\ rem \in Nat /\ Mark \in Nat
        /\ Starting(t, word) = Mark + rem + low /\ Carried(t, word) = high \div 2
    BY <1>1, <1>2, <1>4, <1>5
  <2> HIDE DEF low, high, rem
  <2> QED
    BY <2>1 DEF Packets
<1>7. Mark + Carried(t, word) \in Packets
  BY <1>2, <1>6 DEF Packets
<1> QED
  BY <1>1, <1>2, <1>6, <1>7

LEMMA PackStep ==
  ASSUME NEW msg, NEW i \in Nat, NEW j \in Nat, NEW t, NEW u,
         j > i, TurnOK(t, i, msg), msg[j] \in Words, u = pack(t, msg[j])
  PROVE  TurnOK(u, j, msg) /\ Turned(t, msg[j], u)
<1> DEFINE word == msg[j]
           c == t.carry
           n == BIT_MAX - c
           first == Starting(t, word)
           rem == Carried(t, word)
<1>1. BIT_MAX \in Nat \ {0} /\ Mark \in Nat /\ c \in 0..(BIT_MAX - 1)
  BY TurnTypes
<1>4. first \in Packets /\ rem \in Nat /\ Mark + rem \in Packets
  <2>1. word \in Words
    OBVIOUS
  <2> HIDE DEF word
  <2> QED
    BY <2>1, TurnTypes
<1>5. t.sent \in Seq(Packets)
  BY DEF TurnOK
<1>6. CASE c + 1 < BIT_MAX
  <2>1. u = [sent |-> Append(t.sent, first), remainder |-> rem, carry |-> c + 1]
    BY <1>1, <1>6 DEF pack, Starting, Carried
  <2> HIDE DEF first
  <2>2. u.sent = Append(t.sent, first) /\ u.sent \in Seq(Packets) /\ u.carry = c + 1 /\ u.remainder = rem
    BY <1>4, <1>5, <2>1
  <2>3. c + 1 \in 0..(BIT_MAX - 1) /\ BIT_MAX - ((c + 1) - 1) = BIT_MAX - c /\ c + 1 > 0 /\ j > 0
    BY <1>1, <1>6
  <2>4. TurnOK(u, j, msg)
    BY <1>4, <2>1, <2>2, <2>3 DEF TurnOK, Carried
  <2> QED
    BY <1>1, <1>6, <2>2, <2>4 DEF first, Turned
<1>7. CASE c + 1 = BIT_MAX
  <2>1. u = [sent |-> t.sent \o <<first, Mark + rem>>, remainder |-> 0, carry |-> 0]
    BY <1>7 DEF pack, Starting, Carried
  <2> HIDE DEF first, rem
  <2>2. <<first, Mark + rem>> \in Seq(Packets)
    BY <1>1, <1>4
  <2>3. u.sent = t.sent \o <<first, Mark + rem>> /\ u.sent \in Seq(Packets)
    <3> DEFINE two == <<first, Mark + rem>>
    <3> HIDE DEF two
    <3>1. t.sent \o two \in Seq(Packets)
      BY <1>5, <2>2 DEF two
    <3> QED
      BY <2>1, <3>1 DEF two
  <2>4. TurnOK(u, j, msg) /\ u.carry = 0
    BY <1>1, <2>1, <2>3 DEF TurnOK
  <2> QED
    BY <1>1, <1>7, <2>3, <2>4 DEF first, rem, Turned
<1>8. c + 1 < BIT_MAX \/ c + 1 = BIT_MAX
  BY <1>1
<1> QED
  BY <1>6, <1>7, <1>8, Zenon

LEMMA TurnsOK ==
  ASSUME NEW n \in Nat, NEW msg \in Messages(n)
  PROVE  \A i \in 0..n : TurnOK(Turns(msg)[i], i, msg)
<1> DEFINE S == {i \in 0..n : TurnOK(Turns(msg)[i], i, msg)}
<1>1. Len(msg) = n /\ \A i \in 1..n : msg[i] \in Words
  BY MessageIsSeq
<1>2. 0 \in S
  <2>1. Turns(msg)[0] = [sent |-> <<>>, remainder |-> 0, carry |-> 0]
    BY <1>1, TurnsStep
  <2>2. TurnOK([sent |-> <<>>, remainder |-> 0, carry |-> 0], 0, msg)
    BY Widths DEF TurnOK
  <2> QED
    BY <2>1, <2>2
<1>3. ASSUME NEW i \in Nat, i < n, i \in S
      PROVE  i + 1 \in S
  <2> DEFINE j == i + 1
  <2>1. j \in 1..n /\ j \in Nat /\ j - 1 = i /\ j > i
    BY <1>3
  <2> HIDE DEF j
  <2>2. Turns(msg)[j] = pack(Turns(msg)[i], msg[j])
    BY <1>1, <2>1, TurnsStep
  <2>3. TurnOK(Turns(msg)[i], i, msg)
    BY <1>3
  <2>4. TurnOK(Turns(msg)[j], j, msg)
    BY <1>1, <2>1, <2>2, <2>3, PackStep, Zenon
  <2>5. j \in S
    BY <2>1, <2>4
  <2> QED
    BY <2>5 DEF j
<1> HIDE DEF S
<1>4. 0..n \subseteq S
  BY <1>2, <1>3, UpTo
<1> QED
  BY <1>4 DEF S

LEMMA TurnStep ==
  ASSUME NEW n \in Nat, NEW msg \in Messages(n), NEW i \in 0..n, NEW j \in 1..n, j = i + 1,
         NEW t, t = Turns(msg)[i], NEW u, u = Turns(msg)[j]
  PROVE  /\ TurnOK(t, i, msg) /\ TurnOK(u, j, msg) /\ msg[j] \in Words
         /\ Turned(t, msg[j], u)
<1>1. i \in Nat /\ j - 1 = i /\ j \in Nat /\ j > i
  OBVIOUS
<1>2. Len(msg) = n /\ msg[j] \in Words
  BY MessageIsSeq
<1>3. u = pack(t, msg[j])
  BY <1>1, <1>2, TurnsStep
<1>4. TurnOK(t, i, msg)
  BY TurnsOK
<1> QED
  BY <1>1, <1>2, <1>3, <1>4, PackStep, Zenon

\* t begins with s.
Begins(s, t) == Len(s) <= Len(t) /\ \A j \in 1..Len(s) : t[j] = s[j]

LEMMA AppendBegins ==
  ASSUME NEW s \in Seq(Packets), NEW x \in Packets, NEW t, t = Append(s, x)
  PROVE  /\ t \in Seq(Packets) /\ Len(t) = Len(s) + 1
         /\ t[Len(s) + 1] = x /\ Begins(s, t)
BY DEF Begins

LEMMA ConcatBegins ==
  ASSUME NEW s \in Seq(Packets), NEW e \in Seq(Packets), Len(e) = 2, NEW t, t = s \o e
  PROVE  /\ t \in Seq(Packets) /\ Len(t) = Len(s) + 2
         /\ t[Len(s) + 1] = e[1] /\ t[Len(s) + 2] = e[2] /\ Begins(s, t)
<1>1. /\ t \in Seq(Packets) /\ Len(t) = Len(s) + Len(e)
      /\ \A i \in 1..(Len(s) + Len(e)) : t[i] = IF i <= Len(s) THEN s[i] ELSE e[i - Len(s)]
  BY ConcatProperties
<1>2. t[Len(s) + 1] = e[1] /\ t[Len(s) + 2] = e[2]
  <2>1. Len(s) \in Nat
    OBVIOUS
  <2> DEFINE l == Len(s)
             a == l + 1
             b == l + 2
  <2>2. /\ a \in 1..(Len(s) + Len(e)) /\ ~(a <= Len(s)) /\ a - Len(s) = 1
        /\ b \in 1..(Len(s) + Len(e)) /\ ~(b <= Len(s)) /\ b - Len(s) = 2
    BY <2>1
  <2> HIDE DEF a, b
  <2>3. t[a] = e[1] /\ t[b] = e[2]
    BY <1>1, <2>2
  <2> QED
    BY <2>3 DEF a, b
<1>3. \A j \in 1..Len(s) : t[j] = s[j]
  OBVIOUS
<1> QED
  BY <1>1, <1>2, <1>3 DEF Begins

LEMMA BeginsTrans ==
  ASSUME NEW s \in Seq(Packets), NEW t \in Seq(Packets), NEW u \in Seq(Packets),
         Begins(s, t), Begins(t, u)
  PROVE  Begins(s, u)
<1>1. ASSUME NEW j \in 1..Len(s)
      PROVE  u[j] = s[j]
  <2>1. j \in 1..Len(t)
    BY DEF Begins
  <2>2. u[j] = t[j] /\ t[j] = s[j]
    BY <2>1 DEF Begins
  <2> QED
    BY <2>2
<1> QED
  BY <1>1 DEF Begins

\* What is sent in a turn, and where.
TurnSends(t, word, u) ==
  /\ Begins(t.sent, u.sent)
  /\ u.sent[Len(t.sent) + 1] = Starting(t, word)
  /\ Starting(t, word) \in Packets
  /\ t.carry + 1 < BIT_MAX => Len(u.sent) = Len(t.sent) + 1
  /\ t.carry + 1 = BIT_MAX => /\ Len(u.sent) = Len(t.sent) + 2
                              /\ u.sent[Len(t.sent) + 2] = Mark + Carried(t, word)
                              /\ Mark + Carried(t, word) \in Packets

LEMMA SendsInTurn ==
  ASSUME NEW n \in Nat, NEW msg \in Messages(n), NEW i \in 0..n, NEW j \in 1..n, j = i + 1,
         NEW t, t = Turns(msg)[i], NEW u, u = Turns(msg)[j]
  PROVE  TurnSends(t, msg[j], u)
<1> DEFINE word == msg[j]
           first == Starting(t, word)
           rem == Carried(t, word)
           c == t.carry
<1>1. TurnOK(t, i, msg) /\ word \in Words /\ Turned(t, word, u)
  BY TurnStep
<1> HIDE DEF word
<1>2. first \in Packets /\ rem \in Nat /\ Mark + rem \in Packets
  BY <1>1, TurnTypes
<1>3. t.sent \in Seq(Packets) /\ c \in 0..(BIT_MAX - 1) /\ BIT_MAX \in Nat
  BY <1>1, TurnTypes
<1>4. CASE c + 1 < BIT_MAX
  <2> DEFINE a == t.sent
             b == u.sent
  <2>1. b = Append(a, first) /\ a \in Seq(Packets)
    BY <1>1, <1>3, <1>4 DEF Turned
  <2> HIDE DEF first, a, b
  <2>2. Len(b) = Len(a) + 1 /\ b[Len(a) + 1] = first /\ Begins(a, b)
    BY <1>2, <2>1, AppendBegins, Zenon
  <2> QED
    BY <1>2, <1>3, <1>4, <2>2 DEF TurnSends, first, word, a, b
<1>5. CASE c + 1 = BIT_MAX
  <2> DEFINE a      == t.sent
             b      == u.sent
             second == Mark + rem
             e      == <<first, second>>
  <2>1. b = a \o e /\ a \in Seq(Packets)
    BY <1>1, <1>3, <1>5 DEF Turned
  <2>2. first \in Packets /\ second \in Packets
    BY <1>2
  <2> HIDE DEF first, second, a, b
  <2>3. e \in Seq(Packets) /\ Len(e) = 2 /\ e[1] = first /\ e[2] = second
    BY <2>2
  <2> HIDE DEF e
  <2>4. /\ Len(b) = Len(a) + 2 /\ b[Len(a) + 1] = e[1]
        /\ b[Len(a) + 2] = e[2] /\ Begins(a, b)
    BY <2>1, <2>3, ConcatBegins, Zenon
  <2> QED
    BY <1>2, <1>3, <1>5, <2>3, <2>4 DEF TurnSends, first, second, word, a, b
<1>6. c + 1 < BIT_MAX \/ c + 1 = BIT_MAX
  BY <1>3
<1> QED
  BY <1>4, <1>5, <1>6, Zenon

\* The last turn, and the packet for the remainder.
LEMMA SendsLast ==
  ASSUME NEW n \in Nat, NEW msg \in Messages(n), NEW t, t = Turns(msg)[n],
         NEW s, s = send_request(msg)
  PROVE  /\ s \in Seq(Packets) /\ Begins(t.sent, s)
         /\ t.carry = 0 => Len(s) = Len(t.sent)
         /\ t.carry > 0 => /\ Len(s) = Len(t.sent) + 1
                           /\ s[Len(t.sent) + 1] = Mark + t.remainder
<1>1. Len(msg) = n
  BY MessageIsSeq
<1>2. TurnOK(t, n, msg)
  BY TurnsOK
<1>3. /\ t.sent \in Seq(Packets) /\ t.carry \in Nat /\ t.remainder \in Nat
      /\ Mark + t.remainder \in Packets
  BY <1>2, Widths DEF TurnOK, Packets
<1>4. s = IF t.carry > 0 THEN Append(t.sent, Mark + t.remainder) ELSE t.sent
  BY <1>1, Zenon DEF send_request
<1> DEFINE last == Mark + t.remainder
<1> HIDE DEF last
<1>5. CASE t.carry > 0
  <2>1. s = Append(t.sent, last) /\ last \in Packets
    BY <1>3, <1>4, <1>5 DEF last
  <2>2. s \in Seq(Packets) /\ Len(s) = Len(t.sent) + 1 /\ s[Len(t.sent) + 1] = last /\ Begins(t.sent, s)
    BY <1>3, <2>1, AppendBegins
  <2> QED
    BY <1>3, <1>5, <2>2 DEF last
<1>6. CASE t.carry = 0
  BY <1>3, <1>4, <1>6 DEF Begins
<1> QED
  BY <1>3, <1>5, <1>6

\* What a turn has sent is the beginning of what is sent.
LEMMA TurnsBegin ==
  ASSUME NEW n \in Nat, NEW msg \in Messages(n)
  PROVE  \A i \in 0..n : Begins(Turns(msg)[i].sent, send_request(msg))
<1> DEFINE s == send_request(msg)
           S == {d \in 0..n : \A i \in 0..n : i + d = n => Begins(Turns(msg)[i].sent, s)}
<1>1. s \in Seq(Packets) /\ Begins(Turns(msg)[n].sent, s)
  BY SendsLast
<1> HIDE DEF s
<1>2. 0 \in S
  BY <1>1
<1>3. ASSUME NEW d \in Nat, d < n, d \in S
      PROVE  d + 1 \in S
  <2>1. ASSUME NEW i \in 0..n, i + (d + 1) = n
        PROVE  Begins(Turns(msg)[i].sent, s)
    <3>1. PICK j \in 1..n : j = i + 1
      BY <1>3, <2>1
    <3>2. PICK t : t = Turns(msg)[i]
      OBVIOUS
    <3>3. PICK u : u = Turns(msg)[j]
      OBVIOUS
    <3>4. TurnSends(t, msg[j], u) /\ TurnOK(t, i, msg) /\ TurnOK(u, j, msg)
      BY <3>1, <3>2, <3>3, SendsInTurn, TurnStep
    <3>5. Begins(u.sent, s)
      BY <1>3, <2>1, <3>1, <3>3
    <3>6. t.sent \in Seq(Packets) /\ u.sent \in Seq(Packets) /\ Begins(t.sent, u.sent)
      BY <3>4 DEF TurnOK, TurnSends
    <3> QED
      BY <1>1, <3>2, <3>5, <3>6, BeginsTrans
  <2> QED
    BY <1>3, <2>1
<1> HIDE DEF S
<1>4. 0..n \subseteq S
  BY <1>2, <1>3, UpTo
<1>5. ASSUME NEW i \in 0..n
      PROVE  Begins(Turns(msg)[i].sent, s)
  <2>1. n - i \in 0..n /\ i + (n - i) = n
    OBVIOUS
  <2> QED
    BY <1>4, <2>1 DEF S
<1> QED
  BY <1>5 DEF s

-----------------------------------------------------------------------------
(* The receiver.                                                           *)

LEMMA LaterFits ==
  ASSUME NEW word \in Words, NEW c \in 0..(BIT_MAX - 1), NEW d \in Nat, d = c + 1,
         NEW low \in 0..(2^(BIT_MAX - d) - 1),
         NEW recv, recv = Mark + (HighBits(word, BIT_MAX - c) \div 2) + low
  PROVE  Fits(word, c, d, low, recv)
<1>1. d \in 1..BIT_MAX /\ d - 1 = c
  BY Widths
<1>2. PICK rem : rem = HighBits(word, BIT_MAX - (d - 1)) \div 2
  OBVIOUS
<1>3. recv = Mark + rem + low
  BY <1>1, <1>2
<1>4. Fits(word, d - 1, d, low, recv)
  BY <1>1, <1>2, <1>3, LaterPacket, Zenon
<1> QED
  BY <1>1, <1>4

\* The low bits of a word that fit beside c bits of the word before.
LEMMA LowFits ==
  ASSUME NEW word \in Words, NEW c \in 0..BIT_MAX
  PROVE  LowBits(word, BIT_MAX - c) \in 0..(2^(BIT_MAX - c) - 1)
<1>1. BIT_MAX - c \in Nat /\ word \in Nat
  BY Widths
<1> DEFINE m == BIT_MAX - c
<1> HIDE DEF m
<1>2. m \in Nat
  BY <1>1 DEF m
<1>3. LowBits(word, m) \in 0..(2^m - 1)
  BY <1>1, <1>2, HighMultiple
<1> QED
  BY <1>3 DEF m

\* The packet at hand when some words are there: the first of a run, or the
\* one with the rest of the word after them.
RunSent(word, t, s) ==
  /\ Len(t.sent) \in Nat /\ Len(t.sent) < Len(s) /\ s[Len(t.sent) + 1] \in Packets
  /\ LowBits(s[Len(t.sent) + 1], BIT_MAX) = LowBits(word, BIT_MAX)

LEMMA FirstOfRun ==
  ASSUME NEW n \in Nat, NEW msg \in Messages(n), NEW i \in 0..n, NEW j \in 1..n, j = i + 1,
         NEW t, t = Turns(msg)[i], t.carry = 0, NEW s, s = send_request(msg)
  PROVE  RunSent(msg[j], t, s)
<1>1. PICK u : u = Turns(msg)[j]
  OBVIOUS
<1>2. /\ TurnOK(t, i, msg) /\ TurnOK(u, j, msg) /\ msg[j] \in Words
      /\ TurnSends(t, msg[j], u)
  BY <1>1, TurnStep, SendsInTurn
<1>3. Begins(u.sent, s)
  BY <1>1, TurnsBegin
<1> DEFINE word == msg[j]
           low  == LowBits(word, BIT_MAX)
           a    == t.sent
           b    == u.sent
<1>4. a \in Seq(Packets) /\ b \in Seq(Packets) /\ t.remainder = 0
  BY <1>2 DEF TurnOK
<1>5. Starting(t, word) = Mark + low /\ low \in 0..(Mark - 1)
  <2>1. BIT_MAX - t.carry = BIT_MAX /\ BIT_MAX - 0 = BIT_MAX /\ 0 \in 0..BIT_MAX
    BY Widths
  <2>2. low \in 0..(Mark - 1)
    BY <1>2, <2>1, LowFits DEF Mark
  <2>3. Starting(t, word) = Mark + t.remainder + low
    BY <2>1 DEF Starting
  <2> HIDE DEF low
  <2> QED
    BY <1>4, <2>2, <2>3, Widths
<1>6. b[Len(a) + 1] = Starting(t, word) /\ Len(a) + 1 <= Len(b)
  <2>1. t.carry + 1 < BIT_MAX \/ t.carry + 1 = BIT_MAX
    BY <1>2, Widths DEF TurnOK
  <2> QED
    BY <1>2, <1>4, <2>1 DEF TurnSends
<1>7. s \in Seq(Packets)
  BY SendsLast
<1> HIDE DEF word, low, a, b
<1>8. LowBits(Mark + low, BIT_MAX) = low /\ Mark + low \in Packets
  BY <1>5, FirstPacket
<1>9. s[Len(a) + 1] = b[Len(a) + 1] /\ Len(a) + 1 <= Len(s) /\ Len(a) \in Nat
  BY <1>3, <1>4, <1>6, <1>7 DEF Begins, b
<1> QED
  BY <1>5, <1>6, <1>7, <1>8, <1>9 DEF a, low, word, RunSent

RestSent(n, msg, j, t, u, s, d) ==
  /\ Len(t.sent) + 2 <= Len(s) /\ s[Len(t.sent) + 2] \in Packets
  /\ t.carry \in 0..(BIT_MAX - 1) /\ Len(t.sent) \in Nat
  /\ d = BIT_MAX =>
       /\ u.carry = 0 /\ Len(u.sent) = Len(t.sent) + 2
       /\ \E low : Fits(msg[j], t.carry, d, low, s[Len(t.sent) + 2])
       /\ j = n => Len(s) = Len(t.sent) + 2
  /\ d # BIT_MAX =>
       /\ u.carry = d /\ Len(u.sent) = Len(t.sent) + 1
       /\ j < n => Fits(msg[j], t.carry, d, LowBits(msg[j + 1], BIT_MAX - d),
                        s[Len(t.sent) + 2])
       /\ j = n => /\ Len(s) = Len(t.sent) + 2
                   /\ \E low : Fits(msg[j], t.carry, d, low, s[Len(t.sent) + 2])

LEMMA RestOfWord ==
  ASSUME NEW n \in Nat, NEW msg \in Messages(n), NEW i \in 0..n, NEW j \in 1..n, j = i + 1,
         NEW t, t = Turns(msg)[i], NEW u, u = Turns(msg)[j], NEW s, s = send_request(msg),
         NEW d \in Nat, d = t.carry + 1
  PROVE  RestSent(n, msg, j, t, u, s, d)
<1>1. /\ TurnOK(t, i, msg) /\ TurnOK(u, j, msg) /\ msg[j] \in Words
      /\ Turned(t, msg[j], u) /\ TurnSends(t, msg[j], u)
  BY TurnStep, SendsInTurn
<1>2. Begins(u.sent, s) /\ s \in Seq(Packets)
  BY TurnsBegin, SendsLast
<1> DEFINE word == msg[j]
           a == t.sent
           b == u.sent
           l == Len(a) + 2
           rem == Carried(t, word)
           c == t.carry
<1>3. /\ a \in Seq(Packets) /\ b \in Seq(Packets) /\ c \in 0..(BIT_MAX - 1) /\ BIT_MAX \in Nat \ {0}
      /\ rem \in Nat /\ Mark + rem \in Packets /\ Mark \in Nat
  <2> HIDE DEF word
  <2>1. word \in Words
    BY <1>1 DEF word
  <2> QED
    BY <1>1, <2>1, TurnTypes
<1>4. rem = HighBits(word, BIT_MAX - c) \div 2
  BY DEF Carried
<1>5. Len(a) \in Nat /\ Len(b) \in Nat /\ Len(s) \in Nat
  <2> HIDE DEF a, b
  <2> QED
    BY <1>2, <1>3, LenProperties
<1>8. BIT_MAX \in Nat /\ c \in Nat /\ c + 1 <= BIT_MAX
  <2> HIDE DEF a, b, c, rem
  <2> QED
    BY <1>3
<1>6. CASE d = BIT_MAX
  <2>1. u.carry = 0 /\ Len(b) = l /\ b[l] = Mark + rem
    BY <1>1, <1>6 DEF Turned, TurnSends
  <2>2. l <= Len(s) /\ s[l] = Mark + rem
    <3>1. l \in 1..Len(b)
      BY <1>5, <2>1
    <3> HIDE DEF l, rem
    <3>2. s[l] = b[l] /\ Len(b) <= Len(s)
      BY <1>2, <3>1 DEF Begins
    <3> QED
      BY <1>5, <2>1, <3>2
  <2>3. Fits(word, c, d, 0, Mark + rem)
    <3>1. 0 \in 0..(2^(BIT_MAX - d) - 1)
      <4>1. BIT_MAX - d \in Nat
        BY <1>6, <1>8
      <4>2. 2^(BIT_MAX - d) \in Nat \ {0}
        BY <4>1, PowerPositive
      <4> QED
        BY <4>2
    <3>2. Mark + rem = Mark + rem + 0
      BY <1>3
    <3> HIDE DEF word, c, rem
    <3> QED
      BY <1>1, <1>3, <1>4, <3>1, <3>2, LaterFits DEF word, c
  <2>4. j = n => Len(s) = l
    <3>1. j = n => u = Turns(msg)[n]
      OBVIOUS
    <3> QED
      BY <2>1, <3>1, SendsLast
  <2> HIDE DEF l, word, c, rem
  <2>5. \E low : Fits(word, c, d, low, s[l])
    BY <2>2, <2>3
  <2>6. s[l] \in Packets
    BY <1>3, <2>2 DEF rem
  <2>7. /\ Len(t.sent) + 2 <= Len(s) /\ s[Len(t.sent) + 2] \in Packets
        /\ t.carry \in 0..(BIT_MAX - 1) /\ Len(t.sent) \in Nat
    BY <1>3, <1>5, <2>2, <2>6, Zenon DEF l, a, c
  <2>8. \E low : Fits(msg[j], t.carry, d, low, s[Len(t.sent) + 2])
    BY <2>5, Zenon DEF word, c, l, a
  <2>9. u.carry = 0 /\ Len(u.sent) = Len(t.sent) + 2 /\ (j = n => Len(s) = Len(t.sent) + 2)
    BY <2>1, <2>4, Zenon DEF a, b, l
  <2> QED
    BY <1>6, <2>7, <2>8, <2>9, Zenon DEF RestSent
<1>7. CASE d # BIT_MAX
  <2>1. c + 1 < BIT_MAX
    BY <1>3, <1>7
  <2>2. u.carry = d /\ u.remainder = rem /\ Len(b) = Len(a) + 1
    BY <1>1, <2>1 DEF Turned, TurnSends
  <2>3. CASE j = n
    <3>1. u = Turns(msg)[n] /\ u.carry > 0
      BY <1>8, <2>2, <2>3
    <3>2. Len(s) = Len(b) + 1 /\ s[Len(b) + 1] = Mark + u.remainder
      BY <3>1, SendsLast
    <3>3. Len(s) = l /\ s[l] = Mark + rem
      BY <1>5, <2>2, <3>2
    <3>4. Fits(word, c, d, 0, Mark + rem)
      <4>1. 0 \in 0..(2^(BIT_MAX - d) - 1)
        <5>1. BIT_MAX - d \in Nat
          BY <1>8, <2>1
        <5>2. 2^(BIT_MAX - d) \in Nat \ {0}
          BY <5>1, PowerPositive
        <5> QED
          BY <5>2
      <4>2. Mark + rem = Mark + rem + 0
        BY <1>3
      <4> HIDE DEF word, c, rem
      <4> QED
        BY <1>1, <1>3, <1>4, <4>1, <4>2, LaterFits DEF word, c
    <3> HIDE DEF l, word, c, rem
    <3>5. \E low : Fits(word, c, d, low, s[l])
      BY <3>3, <3>4
    <3>6. l <= Len(s) /\ s[l] \in Packets
      BY <1>3, <1>5, <3>3 DEF l, rem
    <3>7. /\ Len(t.sent) + 2 <= Len(s) /\ s[Len(t.sent) + 2] \in Packets
          /\ t.carry \in 0..(BIT_MAX - 1) /\ Len(t.sent) \in Nat
      BY <1>3, <1>5, <3>6, Zenon DEF l, a, c
    <3>8. \E low : Fits(msg[j], t.carry, d, low, s[Len(t.sent) + 2])
      BY <3>5, Zenon DEF word, c, l, a
    <3>9. u.carry = d /\ Len(u.sent) = Len(t.sent) + 1 /\ Len(s) = Len(t.sent) + 2
      BY <2>2, <3>3, Zenon DEF a, b, l
    <3>10. ~(j < n)
      BY <2>3
    <3> QED
      BY <1>7, <3>7, <3>8, <3>9, <3>10, Zenon DEF RestSent
  <2>4. CASE j < n
    <3> DEFINE jj   == j + 1
               next == msg[jj]
               low  == LowBits(next, BIT_MAX - d)
    <3>1. jj \in 1..n /\ jj = j + 1 /\ j \in 0..n
      BY <2>4
    <3> HIDE DEF jj
    <3>2. PICK v : v = Turns(msg)[jj]
      OBVIOUS
    <3>3. next \in Words /\ TurnSends(u, next, v) /\ TurnOK(v, jj, msg)
      BY <3>1, <3>2, TurnStep, SendsInTurn
    <3>4. Begins(v.sent, s) /\ v.sent \in Seq(Packets)
      BY <3>1, <3>2, <3>3, TurnsBegin DEF TurnOK
    <3>5. Starting(u, next) = Mark + rem + low
      BY <2>2 DEF Starting
    <3>6. v.sent[l] = Starting(u, next) /\ l <= Len(v.sent) /\ Starting(u, next) \in Packets
      <4>1. u.carry + 1 < BIT_MAX \/ u.carry + 1 = BIT_MAX
        <5>1. d < BIT_MAX /\ u.carry = d
          BY <2>1, <2>2
        <5> QED
          BY <1>8, <5>1
      <4>2. Begins(u.sent, v.sent) /\ v.sent[Len(u.sent) + 1] = Starting(u, next)
            /\ Starting(u, next) \in Packets
            /\ (Len(v.sent) = Len(u.sent) + 1 \/ Len(v.sent) = Len(u.sent) + 2)
        BY <3>3, <4>1, Zenon DEF TurnSends
      <4>3. Len(u.sent) = Len(a) + 1 /\ Len(u.sent) + 1 = l
        BY <1>5, <2>2
      <4>4. v.sent[l] = Starting(u, next)
        BY <4>2, <4>3, Zenon
      <4> HIDE DEF a, b, next
      <4> QED
        BY <1>5, <4>2, <4>3, <4>4
    <3>7. s[l] = Starting(u, next) /\ l <= Len(s)
      <4>1. Len(v.sent) \in Nat
        BY <3>4, LenProperties
      <4>2. l \in 1..Len(v.sent)
        <5> HIDE DEF a
        <5> QED
          BY <1>5, <3>6, <4>1
      <4>3. s[l] = v.sent[l] /\ Len(v.sent) <= Len(s)
        <5> HIDE DEF l
        <5> QED
          BY <3>4, <4>2, Zenon DEF Begins
      <4> HIDE DEF a, next
      <4> QED
        BY <1>5, <3>6, <4>1, <4>3
    <3>8. low \in 0..(2^(BIT_MAX - d) - 1)
      <4>1. d \in 0..BIT_MAX
        BY <1>3, <2>1
      <4> HIDE DEF next
      <4> QED
        BY <3>3, <4>1, LowFits
    <3>9. Fits(word, c, d, low, Mark + rem + low)
      <4> HIDE DEF word, c, rem, low
      <4> QED
        BY <1>1, <1>3, <1>4, <3>8, LaterFits DEF word, c
    <3> HIDE DEF next, rem
    <3>10. s[l] = Mark + rem + low /\ s[l] \in Packets
      BY <3>5, <3>6, <3>7, Zenon
    <3>11. Fits(word, c, d, low, s[l])
      BY <3>9, <3>10, Zenon
    <3>12. Fits(msg[j], t.carry, d, LowBits(msg[j + 1], BIT_MAX - d), s[Len(t.sent) + 2])
      BY <3>11, Zenon DEF word, c, l, a, low, next, jj
    <3>13. j # n
      BY <2>4
    <3>14. u.carry = d /\ Len(u.sent) = Len(t.sent) + 1
      BY <2>2, Zenon DEF a, b
    <3>15. /\ Len(t.sent) + 2 <= Len(s) /\ s[Len(t.sent) + 2] \in Packets
           /\ t.carry \in 0..(BIT_MAX - 1) /\ Len(t.sent) \in Nat
      BY <1>3, <1>5, <3>7, <3>10, Zenon DEF l, a, c
    <3> QED
      BY <1>7, <3>12, <3>13, <3>14, <3>15, Zenon DEF RestSent
  <2> QED
    BY <2>3, <2>4
<1> QED
  BY <1>6, <1>7, Zenon

LEMMA AlignedStart ==
  ASSUME NEW n \in Nat \ {0}, NEW msg \in Messages(n)
  PROVE  Aligned(Receive(n), msg, 0)
<1> DEFINE r == Receive(n)
           t == Turns(msg)[0]
<1>1. Len(msg) = n
  BY MessageIsSeq
<1>2. t = [sent |-> <<>>, remainder |-> 0, carry |-> 0]
  BY <1>1, TurnsStep
<1>3. t.carry = 0 /\ Len(t.sent) = 0
  <2> HIDE DEF t
  <2> QED
    BY <1>2
<1>4. /\ DOMAIN r = {"msg", "in", "carry", "first", "left"} /\ r.first = TRUE
      /\ r.msg = <<>> /\ r.carry = 0 /\ r.left = n
  BY DEF Receive
<1> HIDE DEF r, t
<1>5. Len(r.msg) = 0 /\ r.msg \in Seq(Words)
  BY <1>4
<1>6. t = Turns(msg)[Len(r.msg)]
  BY <1>5 DEF t
<1> QED
  <2>1. AlignedAt(r, msg, 0, 0, t)
    <3>1. DOMAIN r = {"msg", "in", "carry", "first", "left"} /\ r.first \in BOOLEAN
      BY <1>1, <1>3, <1>4, <1>5
    <3>2. r.msg \in Seq(Words) /\ 0 <= Len(msg) /\ (\A a \in 1..0 : r.msg[a] = msg[a])
      BY <1>1, <1>3, <1>4, <1>5
    <3>3. r.left = Len(msg) - 0
      BY <1>1, <1>3, <1>4, <1>5
    <3>4. r.left = 0 => 0 = Len(send_request(msg))
      BY <1>1, <1>3, <1>4, <1>5
    <3>5. r.left > 0 /\ r.first => t.carry = 0 /\ r.carry = 0 /\ 0 = Len(t.sent)
      BY <1>1, <1>3, <1>4, <1>5
    <3>6. r.left > 0 /\ ~r.first => r.carry = t.carry /\ 0 = Len(t.sent) + 1 /\ r.in = LowBits(msg[0 + 1], BIT_MAX - t.carry)
      BY <1>1, <1>3, <1>4, <1>5
    <3> QED
      BY <3>1, <3>2, <3>3, <3>4, <3>5, <3>6, Zenon DEF AlignedAt
  <2> QED
    BY <1>5, <1>6, <2>1 DEF Aligned, r

LEMMA AlignedStep ==
  ASSUME NEW n \in Nat, NEW msg \in Messages(n), NEW s, s = send_request(msg),
         NEW r, NEW k, Aligned(r, msg, k), r.left > 0
  PROVE  /\ k \in Nat /\ k < Len(s) /\ s[k + 1] \in Packets
         /\ Aligned(receive_response(r, s[k + 1]), msg, k + 1)
<1>1. Len(msg) = n /\ \A i \in 1..n : msg[i] \in Words
  BY MessageIsSeq
<1> DEFINE i == Len(r.msg)
           j == i + 1
<1>2. PICK t : t = Turns(msg)[i]
  OBVIOUS
<1>3. /\ DOMAIN r = {"msg", "in", "carry", "first", "left"} /\ r.first \in BOOLEAN
      /\ r.msg \in Seq(Words) /\ i <= n /\ \A m \in 1..i : r.msg[m] = msg[m]
      /\ r.left = n - i
      /\ r.first => r.carry = 0 /\ t.carry = 0 /\ k = Len(t.sent)
      /\ ~r.first => /\ r.carry = t.carry /\ k = Len(t.sent) + 1
                     /\ r.in = LowBits(msg[j], BIT_MAX - t.carry)
  BY <1>1, <1>2 DEF Aligned, AlignedAt
<1>4. i \in 0..n /\ j \in 1..n /\ j = i + 1 /\ msg[j] \in Words
  <2>1. i \in 0..n /\ j \in 1..n
    BY <1>3
  <2> HIDE DEF j
  <2> QED
    BY <1>1, <2>1 DEF j
<1> DEFINE p == s[k + 1]
           rr == receive_response(r, p)
           K == k + 1
<1>5. CASE r.first
  <2>1. /\ k \in Nat /\ k < Len(s) /\ p \in Packets
        /\ LowBits(p, BIT_MAX) = LowBits(msg[j], BIT_MAX) /\ K = Len(t.sent) + 1
    <3>1. t.carry = 0 /\ k = Len(t.sent)
      BY <1>3, <1>5, Zenon
    <3> HIDE DEF i, j
    <3>2. RunSent(msg[j], t, s)
      BY <1>2, <1>4, <3>1, FirstOfRun, Zenon
    <3> QED
      BY <3>1, <3>2, Zenon DEF RunSent
  <2> HIDE DEF p
  <2>2. rr = [r EXCEPT !.in = LowBits(p, BIT_MAX), !.first = FALSE]
    BY <1>5 DEF receive_response
  <2> HIDE DEF rr
  <2>3. /\ DOMAIN rr = {"msg", "in", "carry", "first", "left"} /\ rr.first = FALSE
        /\ rr.msg = r.msg /\ rr.left = r.left /\ rr.carry = r.carry
        /\ rr.in = LowBits(p, BIT_MAX)
    BY <1>3, <2>2
  <2>4. BIT_MAX - t.carry = BIT_MAX
    BY <1>3, <1>5, Widths
  <2> HIDE DEF i, j, K
  <2>5. Len(rr.msg) = i /\ Len(rr.msg) + 1 = j
    BY <2>3 DEF i, j
  <2>6. Aligned(rr, msg, K)
    <3>1. AlignedAt(rr, msg, K, i, t)
      <4>1. DOMAIN rr = {"msg", "in", "carry", "first", "left"} /\ rr.first \in BOOLEAN
        BY <1>1, <1>3, <1>4, <1>5, <2>1, <2>3, <2>4
      <4>2. rr.msg \in Seq(Words) /\ i <= Len(msg) /\ (\A a \in 1..i : rr.msg[a] = msg[a])
        BY <1>1, <1>3, <1>4, <1>5, <2>1, <2>3, <2>4
      <4>3. rr.left = Len(msg) - i
        BY <1>1, <1>3, <1>4, <1>5, <2>1, <2>3, <2>4
      <4>4. rr.left = 0 => K = Len(send_request(msg))
        BY <1>1, <1>3, <1>4, <1>5, <2>1, <2>3, <2>4
      <4>5. rr.left > 0 /\ rr.first => t.carry = 0 /\ rr.carry = 0 /\ K = Len(t.sent)
        BY <1>1, <1>3, <1>4, <1>5, <2>1, <2>3, <2>4
      <4>6. rr.left > 0 /\ ~rr.first => rr.carry = t.carry /\ K = Len(t.sent) + 1 /\ rr.in = LowBits(msg[i + 1], BIT_MAX - t.carry)
        BY <1>1, <1>3, <1>4, <1>5, <2>1, <2>3, <2>4
      <4> QED
        BY <4>1, <4>2, <4>3, <4>4, <4>5, <4>6, Zenon DEF AlignedAt
    <3> QED
      BY <1>2, <2>5, <3>1 DEF Aligned
  <2> QED
    BY <2>1, <2>6 DEF p, rr, K
<1>6. CASE ~r.first
  <2>1. PICK u : u = Turns(msg)[j]
    OBVIOUS
  <2> DEFINE d == t.carry + 1
             c == t.carry
             word == msg[j]
  <2>2. c \in 0..(BIT_MAX - 1) /\ d \in Nat
    <3>1. TurnOK(t, i, msg)
      BY <1>2, <1>4, TurnsOK
    <3> QED
      BY <3>1, Widths DEF TurnOK
  <2>3. k = Len(t.sent) + 1
    BY <1>3, <1>6
  <2> HIDE DEF d, i, j
  <2>4. RestSent(n, msg, j, t, u, s, d)
    BY <1>2, <1>4, <2>1, <2>2, RestOfWord, Zenon DEF d
  <2>5. /\ Len(t.sent) + 2 <= Len(s) /\ s[Len(t.sent) + 2] \in Packets
        /\ Len(t.sent) \in Nat
        /\ d = BIT_MAX =>
             /\ u.carry = 0 /\ Len(u.sent) = Len(t.sent) + 2
             /\ \E low : Fits(msg[j], t.carry, d, low, s[Len(t.sent) + 2])
             /\ j = n => Len(s) = Len(t.sent) + 2
        /\ d # BIT_MAX =>
             /\ u.carry = d /\ Len(u.sent) = Len(t.sent) + 1
             /\ j < n => Fits(msg[j], t.carry, d, LowBits(msg[j + 1], BIT_MAX - d),
                              s[Len(t.sent) + 2])
             /\ j = n => /\ Len(s) = Len(t.sent) + 2
                         /\ \E low : Fits(msg[j], t.carry, d, low, s[Len(t.sent) + 2])
    BY <2>4 DEF RestSent
  <2>6. /\ k \in Nat /\ k < Len(s) /\ p \in Packets /\ p = s[Len(t.sent) + 2]
        /\ K = Len(t.sent) + 2
    <3>1. Len(t.sent) + 2 = k + 1
      BY <2>3, <2>5
    <3> QED
      BY <2>3, <2>5, <3>1
  <2> HIDE DEF p, K
  <2> DEFINE rest == HighBits((2 * p) % 2^W, BIT_MAX - r.carry)
  <2>7. r.in + rest = word
    <3>1. \E low : Fits(word, c, d, low, p)
      BY <1>4, <2>5, <2>6
    <3>2. LowBits(word, BIT_MAX - c) + HighBits((2 * p) % 2^W, BIT_MAX - c) = word
      BY <3>1 DEF Fits
    <3> QED
      BY <1>3, <1>6, <3>2
  <2> DEFINE m == Append(r.msg, word)
  <2>8. /\ m \in Seq(Words) /\ Len(m) = j /\ \A a \in 1..j : m[a] = msg[a]
    <3>1. r.msg \in Seq(Words) /\ word \in Words /\ Len(r.msg) = i
      BY <1>3, <1>4 DEF i
    <3>2. ASSUME NEW a \in 1..j
          PROVE  m[a] = msg[a]
      <4>1. i \in Nat /\ (a \in 1..i \/ a = j)
        BY <1>4
      <4>2. CASE a \in 1..i
        BY <1>3, <3>1, <4>2
      <4>3. CASE a = j
        <5>1. m[Len(r.msg) + 1] = word
          BY <3>1
        <5> QED
          BY <1>4, <3>1, <4>3, <5>1
      <4> QED
        BY <4>1, <4>2, <4>3
    <3> QED
      BY <1>4, <3>1, <3>2
  <2> HIDE DEF m, rest, word
  <2>9. CASE d = BIT_MAX
    <3>1. rr = [msg |-> m, in |-> 0, carry |-> 0, first |-> TRUE, left |-> r.left - 1]
      BY <1>3, <1>6, <2>7, <2>9 DEF receive_response, d, m, rest
    <3> HIDE DEF rr
    <3>2. /\ DOMAIN rr = {"msg", "in", "carry", "first", "left"} /\ rr.first = TRUE
          /\ rr.msg = m /\ rr.left = n - j /\ rr.carry = 0
      BY <1>3, <1>4, <3>1 DEF i
    <3>3. u.carry = 0 /\ K = Len(u.sent) /\ (j = n => K = Len(s))
      BY <2>5, <2>6, <2>9
    <3>4. u = Turns(msg)[Len(rr.msg)] /\ Len(rr.msg) = j
      BY <2>1, <2>8, <3>2
    <3>5. AlignedAt(rr, msg, K, j, u)
      <4>1. DOMAIN rr = {"msg", "in", "carry", "first", "left"} /\ rr.first \in BOOLEAN
        BY <1>1, <1>4, <2>8, <3>2, <3>3
      <4>2. rr.msg \in Seq(Words) /\ j <= Len(msg) /\ (\A a \in 1..j : rr.msg[a] = msg[a])
        BY <1>1, <1>4, <2>8, <3>2, <3>3
      <4>3. rr.left = Len(msg) - j
        BY <1>1, <1>4, <2>8, <3>2, <3>3
      <4>4. rr.left = 0 => K = Len(send_request(msg))
        BY <1>1, <1>4, <2>8, <3>2, <3>3
      <4>5. rr.left > 0 /\ rr.first => u.carry = 0 /\ rr.carry = 0 /\ K = Len(u.sent)
        BY <1>1, <1>4, <2>8, <3>2, <3>3
      <4>6. rr.left > 0 /\ ~rr.first => rr.carry = u.carry /\ K = Len(u.sent) + 1 /\ rr.in = LowBits(msg[j + 1], BIT_MAX - u.carry)
        BY <1>1, <1>4, <2>8, <3>2, <3>3
      <4> QED
        BY <4>1, <4>2, <4>3, <4>4, <4>5, <4>6, Zenon DEF AlignedAt
    <3>6. Aligned(rr, msg, K)
      BY <3>4, <3>5 DEF Aligned
    <3> QED
      BY <2>6, <3>6 DEF p, rr, K
  <2>10. CASE d # BIT_MAX
    <3> DEFINE low == LowBits(p, BIT_MAX - d)
    <3>1. rr = [msg |-> m, in |-> low, carry |-> d, first |-> FALSE, left |-> r.left - 1]
      BY <1>3, <1>6, <2>7, <2>10 DEF receive_response, d, m, rest
    <3> HIDE DEF rr, low
    <3>2. /\ DOMAIN rr = {"msg", "in", "carry", "first", "left"} /\ rr.first = FALSE
          /\ rr.msg = m /\ rr.left = n - j /\ rr.carry = d /\ rr.in = low
      BY <1>3, <1>4, <3>1 DEF i
    <3>3. u.carry = d /\ K = Len(u.sent) + 1 /\ (j = n => K = Len(s))
      <4>1. Len(u.sent) = Len(t.sent) + 1
        BY <2>5, <2>10
      <4> QED
        BY <2>5, <2>6, <2>10, <4>1
    <3>4. j < n => low = LowBits(msg[j + 1], BIT_MAX - u.carry)
      <4>1. SUFFICES ASSUME j < n PROVE low = LowBits(msg[j + 1], BIT_MAX - d)
        BY <3>3
      <4>2. Fits(msg[j], t.carry, d, LowBits(msg[j + 1], BIT_MAX - d), p)
        BY <2>5, <2>6, <2>10, <4>1
      <4> QED
        BY <4>2 DEF Fits, low
    <3>5. u = Turns(msg)[Len(rr.msg)] /\ Len(rr.msg) = j
      BY <2>1, <2>8, <3>2
    <3>6. AlignedAt(rr, msg, K, j, u)
      <4>1. DOMAIN rr = {"msg", "in", "carry", "first", "left"} /\ rr.first \in BOOLEAN
        BY <1>1, <1>4, <2>8, <3>2, <3>3, <3>4
      <4>2. rr.msg \in Seq(Words) /\ j <= Len(msg) /\ (\A a \in 1..j : rr.msg[a] = msg[a])
        BY <1>1, <1>4, <2>8, <3>2, <3>3, <3>4
      <4>3. rr.left = Len(msg) - j
        BY <1>1, <1>4, <2>8, <3>2, <3>3, <3>4
      <4>4. rr.left = 0 => K = Len(send_request(msg))
        BY <1>1, <1>4, <2>8, <3>2, <3>3, <3>4
      <4>5. rr.left > 0 /\ rr.first => u.carry = 0 /\ rr.carry = 0 /\ K = Len(u.sent)
        BY <1>1, <1>4, <2>8, <3>2, <3>3, <3>4
      <4>6. rr.left > 0 /\ ~rr.first => rr.carry = u.carry /\ K = Len(u.sent) + 1 /\ rr.in = LowBits(msg[j + 1], BIT_MAX - u.carry)
        BY <1>1, <1>4, <2>8, <3>2, <3>3, <3>4
      <4> QED
        BY <4>1, <4>2, <4>3, <4>4, <4>5, <4>6, Zenon DEF AlignedAt
    <3>7. Aligned(rr, msg, K)
      BY <3>5, <3>6 DEF Aligned
    <3> QED
      BY <2>6, <3>7 DEF p, rr, K
  <2> QED
    BY <2>9, <2>10
<1> QED
  BY <1>5, <1>6

-----------------------------------------------------------------------------
(* What is left of a message, in the queues between the two sides.         *)

LEMMA PacketsAreInts ==
  Packets \subseteq Int /\ Seq(Packets) \subseteq Seq(Int) /\ 0 \notin Packets
<1>1. Packets \subseteq Int /\ 0 \notin Packets
  BY Widths DEF Packets
<1>2. ASSUME NEW q \in Seq(Packets)
      PROVE  q \in Seq(Int)
  <2>1. \A j \in 1..Len(q) : q[j] \in Packets
    OBVIOUS
  <2>2. \A j \in 1..Len(q) : q[j] \in Int
    BY <1>1, <2>1
  <2> QED
    BY <2>2
<1> QED
  BY <1>1, <1>2

LEMMA Sent ==
  ASSUME NEW n \in Nat, NEW msg \in Messages(n)
  PROVE  /\ send_request(msg) \in Seq(Packets) /\ send_request(msg) \in Seq(Int)
         /\ n = 0 => send_request(msg) = <<>>
         /\ n # 0 => send_request(msg) # <<>>
<1>1. send_request(msg) \in Seq(Packets)
  BY SendsLast
<1>2. send_request(msg) \in Seq(Int)
  BY <1>1, PacketsAreInts
<1>3. n # 0 => send_request(msg) # <<>>
  <2>1. SUFFICES ASSUME n # 0 PROVE send_request(msg) # <<>>
    OBVIOUS
  <2>2. Aligned(Receive(n), msg, 0) /\ Receive(n).left > 0
    <3>1. n \in Nat \ {0}
      BY <2>1
    <3> QED
      BY <3>1, AlignedStart DEF Receive
  <2>3. 0 < Len(send_request(msg))
    BY <2>2, AlignedStep
  <2> QED
    BY <2>3
<1>4. n = 0 => send_request(msg) = <<>>
  <2>1. SUFFICES ASSUME n = 0 PROVE send_request(msg) = <<>>
    OBVIOUS
  <2>2. Len(msg) = 0
    BY <2>1, MessageIsSeq
  <2>3. Turns(msg)[0] = [sent |-> <<>>, remainder |-> 0, carry |-> 0]
    BY <2>2, TurnsStep
  <2> QED
    BY <2>2, <2>3 DEF send_request
<1> QED
  BY <1>1, <1>2, <1>3, <1>4

LEMMA Lengths ==
  ASSUME NEW c \in Commands \cup {"CHUNK"}
  PROVE  /\ RequestWords(c) \in Nat /\ ResponseWords(c) \in Nat \ {0}
         /\ c \in {"WRITE", "CHUNK"} => RequestWords(c) # 0
         /\ \A msg \in Messages(RequestWords(c)) \cup Messages(ResponseWords(c)) :
              Len(send_request(msg)) < Room
<1>1. RequestWords(c) \in Nat /\ ResponseWords(c) \in Nat \ {0}
  BY CallAssumption DEF RequestWords, ResponseWords
<1>2. c \in {"WRITE", "CHUNK"} => RequestWords(c) # 0
  BY CallAssumption DEF RequestWords
<1> DEFINE L == {RequestLen[d] : d \in Commands} \cup {ResponseLen[d] : d \in Commands}
                  \cup {ChunkLen}
<1>3. RequestWords(c) \in L /\ ResponseWords(c) \in L
  BY CallAssumption DEF RequestWords, ResponseWords
<1>4. \A n \in L : \A msg \in Messages(n) : Len(send_request(msg)) < Room
  BY MessagesFit
<1> HIDE DEF L
<1> QED
  BY <1>1, <1>2, <1>3, <1>4

LEMMA RemainsStart ==
  ASSUME NEW s \in Seq(Int)
  PROVE  Remains(s, s, 0)
BY DEF Remains

LEMMA RemainsHead ==
  ASSUME NEW q \in Seq(Int), q # <<>>, NEW s \in Seq(Int), NEW k \in Nat,
         Remains(q, s, k)
  PROVE  Head(q) = s[k + 1] /\ Remains(Tail(q), s, k + 1)
<1>1. k \in Nat /\ Len(q) + k = Len(s) /\ (\A j \in 1..Len(q) : q[j] = s[k + j])
  BY DEF Remains
<1> DEFINE p == Tail(q)
<1>2. p \in Seq(Int) /\ Len(p) = Len(q) - 1 /\ Len(q) \in Nat /\ Len(q) >= 1 /\ Head(q) = q[1]
  OBVIOUS
<1>3. \A j \in 1..Len(p) : p[j] = q[j + 1]
  OBVIOUS
<1> HIDE DEF p
<1> DEFINE l == k + 1
<1>4. ASSUME NEW j \in 1..Len(p)
      PROVE  p[j] = s[l + j]
  <2> DEFINE m == j + 1
  <2>1. m \in 1..Len(q) /\ k + m = l + j
    BY <1>1, <1>2
  <2>2. p[j] = q[m]
    BY <1>3
  <2> HIDE DEF m, l
  <2> QED
    BY <1>1, <2>1, <2>2
<1>5. Remains(p, s, l)
  <2>1. l \in Nat /\ Len(p) + l = Len(s)
    <3>1. k \in Nat /\ Len(q) + k = Len(s)
      BY <1>1
    <3>2. Len(p) = Len(q) - 1 /\ Len(q) \in Nat
      BY <1>2
    <3>3. PICK a \in Nat : a = Len(q)
      BY <3>2
    <3>4. l \in Nat
      BY <3>1
    <3>5. Len(p) = a - 1 /\ a + k = Len(s)
      BY <3>1, <3>2, <3>3
    <3>6. Len(p) + l = a + k
      BY <3>5
    <3> QED
      BY <3>4, <3>5, <3>6
  <2> HIDE DEF l
  <2> QED
    BY <1>4, <2>1 DEF Remains
<1>6. Head(q) = s[k + 1]
  BY <1>1, <1>2
<1> QED
  BY <1>5, <1>6 DEF p

LEMMA RemainsNone ==
  ASSUME NEW q \in Seq(Int), NEW s \in Seq(Int), Remains(q, s, Len(s))
  PROVE  q = <<>>
BY DEF Remains

LEMMA RemainsPackets ==
  ASSUME NEW q \in Seq(Int), NEW s \in Seq(Packets), NEW k, Remains(q, s, k)
  PROVE  q \in Seq(Packets) /\ Len(q) <= Len(s)
<1>1. k \in Nat /\ Len(q) + k = Len(s) /\ (\A j \in 1..Len(q) : q[j] = s[k + j])
  BY DEF Remains
<1>2. ASSUME NEW j \in 1..Len(q)
      PROVE  q[j] \in Packets
  <2>1. PICK m : m = k + j
    OBVIOUS
  <2>2. m \in 1..Len(s)
    BY <1>1, <2>1
  <2> QED
    BY <1>1, <2>1, <2>2
<1> QED
  BY <1>1, <1>2

LEMMA Joined ==
  ASSUME NEW q \in Seq(Int), NEW p \in Seq(Int)
  PROVE  /\ q \o p \in Seq(Int) /\ Len(q \o p) = Len(q) + Len(p)
         /\ p = <<>> => q \o p = q
         /\ q = <<>> => q \o p = p
         /\ q \o p = <<>> => q = <<>> /\ p = <<>>
         /\ q # <<>> => /\ q \o p # <<>> /\ Head(q \o p) = Head(q)
                        /\ Tail(q \o p) = Tail(q) \o p
         /\ p # <<>> => /\ q \o p # <<>>
                        /\ Append(q, Head(p)) \o Tail(p) = q \o p
<1>1. /\ q \o p \in Seq(Int) /\ Len(q \o p) = Len(q) + Len(p)
      /\ p = <<>> => q \o p = q
      /\ q = <<>> => q \o p = p
      /\ q \o p = <<>> => q = <<>> /\ p = <<>>
  BY ConcatProperties, ConcatEmptySeq, ConcatEqualIffEmpty
<1>2. ASSUME q # <<>>
      PROVE  Head(q \o p) = Head(q) /\ Tail(q \o p) = Tail(q) \o p
  BY <1>2
<1>3. ASSUME p # <<>>
      PROVE  Append(q, Head(p)) \o Tail(p) = q \o p
  <2> DEFINE h    == Head(p)
             rest == Tail(p)
  <2>1. h \in Int /\ rest \in Seq(Int) /\ <<h>> \in Seq(Int)
    BY <1>3
  <2>2. <<h>> \o rest = p
    BY <1>3
  <2> HIDE DEF h, rest
  <2>3. Append(q, h) = q \o <<h>>
    BY <2>1
  <2>4. (q \o <<h>>) \o rest = q \o (<<h>> \o rest)
    BY <2>1, ConcatAssociative
  <2> QED
    BY <2>2, <2>3, <2>4, Zenon DEF h, rest
<1> QED
  BY <1>1, <1>2, <1>3

-----------------------------------------------------------------------------
(* The actions, while nothing has made the two sides lose each other.      *)

LEMMA Names ==
  /\ "boot" \notin Commands /\ "main" \notin Commands /\ "CHUNK" \notin Commands
  /\ "WRITE" \in Commands
BY CallAssumption

LEMMA Lone ==
  ASSUME NEW q \in Seq(Int), NEW w, Len(q) < Room
  PROVE  Push(q, w) = Append(q, w)
<1>1. Len(q) \in Nat /\ Room \in Nat
  BY CallAssumption
<1> QED
  BY <1>1 DEF Push

LEMMA CallKeeps ==
  ASSUME Together, Call
  PROVE  Together'
<1>1. Types'
  BY DEF Together, Types, Call, link, gameboy
<1>2. Protocol'
  BY DEF Together, Protocol, Resting, Call, link, gameboy
<1> QED
  BY <1>1, <1>2 DEF Together

\* A poll while nobody makes a call.
LEMMA RestingPoll ==
  ASSUME Types, Resting, Poll
  PROVE  /\ toWii' \in Seq(Packets) /\ toWii' \in Seq(Int)
         /\ gba = "boot" => toWii' = <<>> /\ JOY_TRANS' = Mark
         /\ gba # "boot" /\ JOY_TRANS' = 0 => toWii' = <<>>
         /\ gba # "boot" /\ toWii = <<>> => toWii' = <<>> /\ JOY_TRANS' = 0
<1>1. CASE gba = "boot"
  BY <1>1, PacketsAreInts DEF Resting, Poll
<1>2. CASE gba # "boot"
  <2>1. gbaOut = <<>> /\ toWii \in Seq(Packets)
    BY DEF Resting
  <2>2. CASE toWii = <<>>
    BY <1>2, <2>1, <2>2, PacketsAreInts DEF Poll
  <2>3. CASE toWii # <<>>
    <3>1. JOY_TRANS' = Head(toWii) /\ toWii' = Tail(toWii)
      BY <1>2, <2>1, <2>3 DEF Poll
    <3>2. Head(toWii) \in Packets /\ Tail(toWii) \in Seq(Packets)
      BY <2>1, <2>3
    <3> QED
      BY <1>2, <2>3, <3>1, <3>2, PacketsAreInts
  <2> QED
    BY <2>2, <2>3
<1> QED
  BY <1>1, <1>2

LEMMA WaitKeeps ==
  ASSUME Together, wait_for
  PROVE  Together'
<1>1. Types /\ Protocol
  BY DEF Together
<1>2. wii \in {"start", "clear"} /\ Resting /\ Poll /\ (wii = "clear" => cmd \in Commands)
  BY <1>1 DEF Protocol, wait_for
<1>3. /\ toWii' \in Seq(Packets) /\ toWii' \in Seq(Int)
      /\ gba = "boot" => toWii' = <<>> /\ JOY_TRANS' = Mark
      /\ gba # "boot" /\ JOY_TRANS' = 0 => toWii' = <<>>
      /\ gba # "boot" /\ toWii = <<>> => toWii' = <<>> /\ JOY_TRANS' = 0
  BY <1>1, <1>2, RestingPoll, Zenon
<1>4. /\ toGba' = toGba /\ out' = out /\ wiiLeft' = wiiLeft /\ gba' = gba /\ gbaOut' = gbaOut
      /\ gbaLeft' = gbaLeft /\ response' = response /\ cmd' = cmd /\ request' = request
  BY DEF wait_for, gameboy
<1>5. \/ JOY_TRANS = 0 /\ wii = "start" /\ wii' = "idle"
      \/ JOY_TRANS = 0 /\ wii = "clear" /\ wii' = "write"
      \/ wii' = "exited"
      \/ wii' = wii
  BY <1>2 DEF wait_for
<1>6. Types'
  BY <1>1, <1>2, <1>3, <1>4, <1>5 DEF Types
<1>7. Mark # 0
  BY Widths
<1>8. CASE wii' = "write"
  <2>1. JOY_TRANS = 0 /\ wii = "clear"
    BY <1>2, <1>5, <1>8
  <2>2. gba = "main" /\ toWii = <<>>
    BY <1>2, <2>1 DEF Resting
  <2>3. Quiet' /\ cmd' \in Commands
    BY <1>2, <1>3, <1>4, <2>1, <2>2 DEF Quiet, Resting
  <2> QED
    BY <1>6, <1>8, <2>3 DEF Together, Protocol
<1>9. CASE wii' # "write"
  <2>1. wii' \in {"start", "idle", "clear", "exited"} /\ (wii' = "clear" => wii = "clear")
    BY <1>2, <1>5, <1>9
  <2>2. gba' = "boot" => wii' \in {"start", "exited"}
    BY <1>2, <1>4, <1>5, <1>7 DEF Resting
  <2>3. Resting'
    BY <1>2, <1>3, <1>4, <1>7, <2>1, <2>2 DEF Resting
  <2> QED
    BY <1>2, <1>4, <1>6, <1>9, <2>1, <2>3 DEF Together, Protocol
<1> QED
  BY <1>8, <1>9

LEMMA PrepareKeeps ==
  ASSUME Together, Prepare
  PROVE  Together'
<1>1. Types /\ Quiet /\ wii = "write" /\ cmd \in Commands
  BY DEF Together, Protocol, Prepare
<1>2. PICK msg \in Messages(RequestLen[cmd]) : prepare(msg)
  BY DEF Prepare
<1> DEFINE s == send_request(msg)
           c == <<Code[cmd]>>
<1>3. /\ request' = msg /\ out' = c \o s /\ wii' = "send"
      /\ wiiLeft' = (IF cmd = "WRITE" THEN msg[1] ELSE 0)
      /\ wiiIn' = Receive(ResponseLen[cmd])
      /\ toGba' = toGba /\ toWii' = toWii /\ JOY_TRANS' = JOY_TRANS /\ cmd' = cmd
      /\ gba' = gba /\ gbaOut' = gbaOut /\ gbaLeft' = gbaLeft /\ response' = response
  BY <1>2 DEF prepare, link, gameboy
<1>4. RequestWords(cmd) = RequestLen[cmd] /\ ResponseWords(cmd) = ResponseLen[cmd]
  BY <1>1, Names DEF RequestWords, ResponseWords
<1>5. RequestLen[cmd] \in Nat /\ (cmd = "WRITE" => RequestLen[cmd] > 0) /\ Code[cmd] \in Int
  BY <1>1, CallAssumption
<1>6. s \in Seq(Int)
  BY <1>5, Sent
<1>7. cmd = "WRITE" => msg[1] \in Int
  <2>1. SUFFICES ASSUME cmd = "WRITE" PROVE msg[1] \in Int
    OBVIOUS
  <2>2. msg[1] \in Words
    BY <1>5, <2>1, MessageIsSeq
  <2>3. Words \subseteq Int
    BY Widths
  <2> QED
    BY <2>2, <2>3
<1>8. c \in Seq(Int) /\ c # <<>> /\ Head(c) = Code[cmd] /\ Tail(c) = <<>>
  BY <1>5
<1> HIDE DEF s, c
<1>9. /\ c \o s \in Seq(Int) /\ c \o s # <<>> /\ Head(c \o s) = Code[cmd] /\ Tail(c \o s) = s
  <2>1. /\ c \o s \in Seq(Int) /\ c \o s # <<>> /\ Head(c \o s) = Head(c)
        /\ Tail(c \o s) = Tail(c) \o s
    BY <1>6, <1>8, Joined
  <2>2. <<>> \in Seq(Int) /\ <<>> \o s = s
    BY <1>6, Joined
  <2> QED
    BY <1>8, <2>1, <2>2
<1>10. toGba' \o out' = c \o s
  <2>1. toGba' = <<>>
    BY <1>1, <1>3 DEF Quiet
  <2>2. <<>> \in Seq(Int) /\ <<>> \o (c \o s) = c \o s
    BY <1>9, Joined
  <2> QED
    BY <1>3, <2>1, <2>2
<1>11. Types'
  <2>1. msg \in Seq(Words)
    BY <1>5, MessageIsSeq
  <2> QED
    BY <1>1, <1>3, <1>7, <1>9, <2>1 DEF Types
<1>12. CommandComes'
  <2>1. Remains(s, send_request(request'), 0)
    BY <1>3, <1>6, RemainsStart DEF s
  <2>2. cmd' = "WRITE" => wiiLeft' = request'[1]
    BY <1>3
  <2>3. gba' = "main" /\ cmd' # "CHUNK"
    BY <1>1, <1>3, Names DEF Quiet
  <2> QED
    BY <1>3, <1>9, <1>10, <2>1, <2>2, <2>3, Zenon DEF CommandComes
<1>13. Asking' /\ out' # <<>>
  <2>1. request' \in Messages(RequestWords(cmd')) /\ wiiIn' = Receive(ResponseWords(cmd'))
    BY <1>2, <1>3, <1>4
  <2>2. toWii' = <<>> /\ JOY_TRANS' = 0 /\ gbaOut' = <<>>
    BY <1>1, <1>3 DEF Quiet
  <2> QED
    BY <1>3, <1>9, <1>12, <2>1, <2>2, Zenon DEF Asking
<1> QED
  BY <1>1, <1>3, <1>11, <1>13 DEF Together, Protocol

\* What is left of a request finds room in the queue.
LEMMA AskingFits ==
  ASSUME Types, Asking, cmd \in Commands \cup {"CHUNK"}
  PROVE  Len(toGba \o out) <= Room
<1>1. request \in Messages(RequestWords(cmd)) /\ RequestWords(cmd) \in Nat
  BY Lengths DEF Asking
<1> DEFINE s == send_request(request)
           q == toGba \o out
<1>2. Len(s) < Room /\ s \in Seq(Packets) /\ s \in Seq(Int) /\ Room \in Nat
  BY <1>1, Sent, Lengths, CallAssumption
<1>3. q \in Seq(Int)
  BY Joined DEF Types
<1>4. CASE CommandComes
  <2>1. q # <<>> /\ Remains(Tail(q), s, 0)
    BY <1>4 DEF CommandComes
  <2> HIDE DEF q, s
  <2>2. Tail(q) \in Seq(Int) /\ Len(Tail(q)) = Len(q) - 1 /\ Len(q) \in Nat
    BY <1>3, <2>1
  <2>3. Len(Tail(q)) <= Len(s)
    BY <1>2, <2>1, <2>2, RemainsPackets
  <2>4. Len(s) \in Nat
    BY <1>2
  <2> QED
    BY <1>2, <2>2, <2>3, <2>4 DEF q
<1>5. CASE RequestComes
  <2>1. PICK k \in Nat : Remains(q, s, k)
    BY <1>5 DEF RequestComes
  <2> HIDE DEF q, s
  <2>2. Len(q) <= Len(s) /\ Len(s) \in Nat /\ Len(q) \in Nat
    BY <1>2, <1>3, <2>1, RemainsPackets
  <2> QED
    BY <1>2, <2>2 DEF q
<1> QED
  BY <1>4, <1>5 DEF Asking

LEMMA WriteKeeps ==
  ASSUME Together, Write
  PROVE  Together'
<1>1. Types /\ Asking /\ wii = "send" /\ out # <<>> /\ cmd \in Commands \cup {"CHUNK"}
  BY DEF Together, Protocol, Write
<1>2. toGba \in Seq(Int) /\ out \in Seq(Int)
  BY <1>1 DEF Types
<1>3. toGba' = Append(toGba, Head(out))
  <2>1. Len(toGba \o out) <= Room /\ Len(toGba \o out) = Len(toGba) + Len(out)
    BY <1>1, <1>2, AskingFits, Joined
  <2>2. Len(toGba) < Room
    <3>1. Len(toGba) \in Nat /\ Len(out) \in Nat \ {0} /\ Room \in Nat
      BY <1>1, <1>2, CallAssumption
    <3> QED
      BY <2>1, <3>1
  <2>3. Push(toGba, Head(out)) = Append(toGba, Head(out))
    BY <1>2, <2>2, Lone
  <2> QED
    BY <2>3 DEF Write
<1>4. /\ out' = Tail(out) /\ wii' = (IF Len(out) = 1 THEN "receive" ELSE "send")
      /\ toWii' = toWii /\ JOY_TRANS' = JOY_TRANS /\ cmd' = cmd /\ wiiIn' = wiiIn
      /\ wiiLeft' = wiiLeft /\ request' = request /\ gba' = gba /\ gbaOut' = gbaOut
      /\ gbaIn' = gbaIn /\ gbaLeft' = gbaLeft /\ response' = response
  BY DEF Write, gameboy
<1>5. toGba' \o out' = toGba \o out
  BY <1>1, <1>2, <1>3, <1>4, Joined
<1>6. toGba' \in Seq(Int) /\ out' \in Seq(Int) /\ (out' = <<>> <=> Len(out) = 1)
  <2> DEFINE h == Head(out)
             p == Tail(out)
  <2>1. h \in Int /\ p \in Seq(Int) /\ Len(p) = Len(out) - 1 /\ Len(out) \in Nat
    BY <1>1, <1>2
  <2>2. toGba' = Append(toGba, h) /\ out' = p
    BY <1>3, <1>4
  <2> HIDE DEF h, p
  <2>3. p = <<>> <=> Len(p) = 0
    BY <2>1, EmptySeq
  <2>4. p = <<>> <=> Len(out) = 1
    BY <2>1, <2>3
  <2> QED
    BY <1>2, <2>1, <2>2, <2>4
<1>7. Types'
  BY <1>1, <1>4, <1>6 DEF Types
<1>8. Asking'
  <2>1. CommandComes => CommandComes'
    BY <1>4, <1>5, Zenon DEF CommandComes
  <2>2. RequestComes => RequestComes'
    BY <1>4, <1>5, Zenon DEF RequestComes
  <2> QED
    BY <1>1, <1>4, <2>1, <2>2, Zenon DEF Asking
<1> QED
  BY <1>1, <1>4, <1>6, <1>7, <1>8 DEF Together, Protocol

LEMMA RestartKeeps ==
  ASSUME Together, Restart, InStep'
  PROVE  Together'
<1>1. Types /\ Protocol
  BY DEF Together
<1>2. /\ wii' = "start" /\ out' = <<>> /\ toGba' = toGba /\ toWii' = toWii
      /\ JOY_TRANS' = JOY_TRANS /\ wiiLeft' = wiiLeft /\ gba' = gba /\ gbaOut' = gbaOut
      /\ gbaLeft' = gbaLeft /\ response' = response /\ request' = request
  BY DEF Restart, link, gameboy
<1>3. gba \in {"boot", "main"} /\ toGba = <<>>
  BY Zenon DEF Restart, InStep
<1>4. Types'
  BY <1>1, <1>2 DEF Types
<1>5. /\ gbaOut = <<>> /\ toWii \in Seq(Packets)
      /\ gba = "boot" => toWii = <<>> /\ JOY_TRANS = Mark
  <2>1. CASE wii \in {"start", "idle", "clear", "exited"}
    BY <1>1, <2>1 DEF Protocol, Resting
  <2>2. CASE wii = "write"
    BY <1>1, <2>2 DEF Protocol, Quiet
  <2>3. CASE Asking
    <3>1. cmd # "boot" /\ wii \in {"send", "receive"} => gba # "boot"
      BY <2>3 DEF Asking, CommandComes, RequestComes
    <3>2. wii \in {"send", "receive"} => cmd # "boot"
      BY <1>1, Names DEF Protocol
    <3>3. gbaOut = <<>> /\ toWii = <<>> /\ <<>> \in Seq(Packets)
      BY <2>3 DEF Asking
    <3>4. CASE wii \in {"send", "receive"}
      BY <3>1, <3>2, <3>3, <3>4
    <3>5. CASE wii \notin {"send", "receive"}
      BY <1>1, <2>1, <2>2, <3>5 DEF Types
    <3> QED
      BY <3>4, <3>5
  <2>4. CASE wii = "receive" /\ Answering
    <3>1. cmd \in Commands \cup {"CHUNK"}
      BY <1>1, <2>4 DEF Protocol
    <3>2. gbaOut = <<>> /\ gba # "boot"
      <4>1. gbaOut # <<>> => gba = cmd
        BY <2>4 DEF Answering
      <4>2. gbaOut = <<>> => gba # "boot"
        BY <2>4 DEF Answering, Goes
      <4> QED
        BY <1>3, <3>1, <4>1, <4>2, Names
    <3>3. response \in Messages(ResponseWords(cmd)) /\ ResponseWords(cmd) \in Nat
      BY <2>4, <3>1, Lengths DEF Answering
    <3> DEFINE s == send_request(response)
    <3>4. s \in Seq(Packets)
      BY <3>3, Sent
    <3>5. PICK k : Remains(toWii \o gbaOut, s, k)
      BY <2>4 DEF Answering, ResponseComes
    <3>6. toWii \o gbaOut = toWii /\ toWii \in Seq(Int)
      BY <1>1, <3>2, Joined DEF Types
    <3> HIDE DEF s
    <3>7. toWii \in Seq(Packets)
      BY <3>4, <3>5, <3>6, RemainsPackets
    <3> QED
      BY <3>2, <3>7
  <2> QED
    BY <1>1, <2>1, <2>2, <2>3, <2>4 DEF Protocol, Types
<1>6. Resting'
  BY <1>2, <1>3, <1>5 DEF Resting
<1> QED
  BY <1>2, <1>4, <1>6 DEF Together, Protocol

LEMMA BootKeeps ==
  ASSUME Together, Boot
  PROVE  Together'
<1>1. Types /\ Protocol /\ gba = "boot"
  BY DEF Together, Boot
<1>2. /\ gba' = "main" /\ JOY_TRANS' = 0 /\ toGba' = toGba /\ toWii' = toWii
      /\ wii' = wii /\ cmd' = cmd /\ out' = out /\ wiiLeft' = wiiLeft /\ gbaOut' = gbaOut
      /\ gbaLeft' = gbaLeft /\ response' = response /\ request' = request
  BY DEF Boot, server
<1>3. wii \notin {"send", "receive"}
  <2>1. SUFFICES ASSUME wii \in {"send", "receive"} PROVE FALSE
    OBVIOUS
  <2>2. cmd \in Commands \cup {"CHUNK"} /\ cmd # "boot"
    BY <1>1, <2>1, Names DEF Protocol
  <2>3. ~Asking
    BY <1>1, <2>2 DEF Asking, CommandComes, RequestComes
  <2>4. ~Answering
    BY <1>1, <2>2 DEF Answering, Goes
  <2> QED
    BY <1>1, <2>1, <2>3, <2>4 DEF Protocol
<1>4. wii # "write"
  BY <1>1 DEF Protocol, Quiet
<1>5. Resting /\ wii \in {"start", "exited"}
  BY <1>1, <1>3, <1>4 DEF Protocol, Types, Resting
<1>6. Types'
  BY <1>1, <1>2 DEF Types
<1>7. Resting'
  BY <1>1, <1>2, <1>5 DEF Resting
<1> QED
  BY <1>2, <1>5, <1>6, <1>7 DEF Together, Protocol

LEMMA ReadCommandKeeps ==
  ASSUME Together, ReadCommand
  PROVE  Together'
<1>1. Types /\ Protocol /\ gba = "main" /\ toGba # <<>> /\ toGba' = Tail(toGba)
  BY DEF Together, ReadCommand
<1>2. Asking /\ wii \in {"send", "receive"}
  BY <1>1 DEF Protocol, Types, Resting, Quiet, Answering
<1>3. cmd \in Commands \cup {"CHUNK"} /\ (wii = "send" <=> out # <<>>)
  BY <1>1, <1>2 DEF Protocol, Answering
<1>4. CommandComes
  BY <1>1, <1>2, <1>3, Names DEF Asking, RequestComes
<1>5. cmd \in Commands
  BY <1>3, <1>4 DEF CommandComes
<1>6. toGba \in Seq(Int) /\ out \in Seq(Int) /\ toGba' \in Seq(Int)
  BY <1>1 DEF Types
<1>7. Head(toGba) = Code[cmd] /\ Tail(toGba \o out) = toGba' \o out
  <2>1. Head(toGba \o out) = Head(toGba) /\ Tail(toGba \o out) = Tail(toGba) \o out
    BY <1>1, <1>6, Joined
  <2> QED
    BY <1>1, <1>4, <2>1 DEF CommandComes
<1>8. /\ gba' = cmd /\ gbaIn' = Receive(RequestLen[cmd])
      /\ IF RequestLen[cmd] = 0 THEN Respond(ResponseLen[cmd])
         ELSE gbaOut' = gbaOut /\ response' = response
  <2>1. PICK c \in Commands :
          /\ Head(toGba) = Code[c] /\ gba' = c /\ gbaIn' = Receive(RequestLen[c])
          /\ IF RequestLen[c] = 0 THEN Respond(ResponseLen[c])
             ELSE gbaOut' = gbaOut /\ response' = response
    BY <1>5, <1>7 DEF ReadCommand
  <2>2. c = cmd
    BY <1>5, <1>7, <2>1, CallAssumption
  <2> QED
    BY <2>1, <2>2
<1>9. /\ toWii' = toWii /\ JOY_TRANS' = JOY_TRANS /\ gbaLeft' = gbaLeft /\ wii' = wii
      /\ cmd' = cmd /\ out' = out /\ wiiIn' = wiiIn /\ wiiLeft' = wiiLeft
      /\ request' = request
  BY DEF ReadCommand, server
<1>10. /\ RequestWords(cmd) = RequestLen[cmd] /\ ResponseWords(cmd) = ResponseLen[cmd]
       /\ RequestLen[cmd] \in Nat /\ ResponseLen[cmd] \in Nat \ {0}
       /\ cmd = "WRITE" => RequestLen[cmd] # 0
  BY <1>5, Names, CallAssumption DEF RequestWords, ResponseWords
<1>11. /\ request \in Messages(RequestLen[cmd]) /\ toWii = <<>> /\ JOY_TRANS = 0 /\ gbaOut = <<>>
       /\ wiiIn = Receive(ResponseLen[cmd])
       /\ Remains(toGba' \o out, send_request(request), 0)
       /\ cmd = "WRITE" => wiiLeft = request[1]
  BY <1>2, <1>4, <1>7, <1>10 DEF Asking, CommandComes
<1>12. CASE RequestLen[cmd] # 0
  <2>1. gbaOut' = gbaOut /\ response' = response
    BY <1>8, <1>12
  <2>2. Types'
    BY <1>1, <1>6, <1>9, <2>1 DEF Types
  <2>3. Aligned(gbaIn', request', 0) /\ gbaIn'.left > 0
    <3>1. RequestLen[cmd] \in Nat \ {0}
      BY <1>10, <1>12
    <3>2. Aligned(Receive(RequestLen[cmd]), request, 0)
      BY <1>11, <3>1, AlignedStart
    <3>3. Receive(RequestLen[cmd]).left = RequestLen[cmd]
      BY DEF Receive
    <3> QED
      BY <1>8, <1>9, <3>1, <3>2, <3>3
  <2>4. RequestComes'
    <3>1. Remains(toGba' \o out', send_request(request'), 0)
      BY <1>9, <1>11
    <3>2. gba' = cmd' /\ (cmd' = "WRITE" => wiiLeft' = request'[1]) /\ cmd' # "CHUNK"
      BY <1>5, <1>8, <1>9, <1>11, Names
    <3>3. 0 \in Nat
      OBVIOUS
    <3> QED
      BY <2>3, <3>1, <3>2, <3>3, Zenon DEF RequestComes
  <2>5. Asking'
    BY <1>2, <1>9, <2>1, <2>4, Zenon DEF Asking
  <2> QED
    BY <1>2, <1>3, <1>9, <2>2, <2>5 DEF Together, Protocol
<1>13. CASE RequestLen[cmd] = 0
  <2>1. PICK msg \in Messages(ResponseLen[cmd]) : response' = msg /\ gbaOut' = send_request(msg)
    BY <1>8, <1>13 DEF Respond
  <2> DEFINE s == send_request(msg)
  <2>2. s \in Seq(Int) /\ s # <<>>
    BY <1>10, Sent
  <2>3. toGba' = <<>> /\ out = <<>>
    <3>1. send_request(request) = <<>>
      BY <1>11, <1>13, Sent
    <3>2. Remains(toGba' \o out, <<>>, 0) /\ <<>> \in Seq(Int) /\ Len(<<>>) = 0
      BY <1>11, <3>1
    <3>3. toGba' \o out \in Seq(Int)
      BY <1>6, Joined
    <3>4. toGba' \o out = <<>>
      BY <3>2, <3>3, RemainsNone
    <3> QED
      BY <1>6, <3>4, Joined
  <2>4. wii = "receive"
    BY <1>2, <1>3, <2>3
  <2>5. response' \in Seq(Words)
    BY <1>10, <2>1, MessageIsSeq
  <2>6. Types'
    BY <1>1, <1>6, <1>9, <2>1, <2>2, <2>5 DEF Types
  <2>7. Aligned(wiiIn', response', 0) /\ wiiIn'.left > 0
    <3>1. Aligned(Receive(ResponseLen[cmd]), msg, 0)
      BY <1>10, AlignedStart
    <3>2. Receive(ResponseLen[cmd]).left = ResponseLen[cmd]
      BY DEF Receive
    <3> QED
      BY <1>9, <1>10, <1>11, <2>1, <3>1, <3>2
  <2>8. ResponseComes(0)'
    <3>1. toWii' \o gbaOut' = s
      <4>1. <<>> \in Seq(Int) /\ <<>> \o s = s
        BY <2>2, Joined
      <4> QED
        BY <1>9, <1>11, <2>1, <4>1
    <3>2. Remains(toWii' \o gbaOut', send_request(response'), 0)
      BY <2>1, <2>2, <3>1, RemainsStart
    <3>3. JOY_TRANS' = 0
      BY <1>9, <1>11
    <3> QED
      BY <2>7, <3>2, <3>3, Zenon DEF ResponseComes
  <2>9. cmd # "WRITE" /\ cmd # "CHUNK"
    BY <1>5, <1>10, <1>13, Names
  <2>10. Answering'
    <3>1. response' \in Messages(ResponseWords(cmd'))
      BY <1>9, <1>10, <2>1
    <3>2. toGba' = <<>> /\ out' = <<>> /\ gba' = cmd' /\ gbaOut' # <<>>
      BY <1>8, <1>9, <2>1, <2>2, <2>3
    <3>3. \E k \in Nat : ResponseComes(k)'
      BY <2>8
    <3> QED
      BY <1>9, <2>7, <2>9, <3>1, <3>2, <3>3, Zenon DEF Answering
  <2> QED
    BY <1>5, <1>9, <2>4, <2>6, <2>10 DEF Together, Protocol
<1> QED
  BY <1>12, <1>13

LEMMA ReceiveRequestKeeps ==
  ASSUME Together, ReceiveRequest
  PROVE  Together'
<1>1. /\ Types /\ Protocol /\ gba \in Commands \cup {"CHUNK"} /\ gbaOut = <<>>
      /\ gbaIn.left # 0 /\ toGba # <<>> /\ toGba' = Tail(toGba)
  BY DEF Together, ReceiveRequest, Received
<1>2. Asking /\ wii \in {"send", "receive"}
  BY <1>1, Names DEF Protocol, Types, Resting, Quiet, Answering
<1>3. cmd \in Commands \cup {"CHUNK"} /\ (wii = "send" <=> out # <<>>)
  BY <1>1, <1>2 DEF Protocol, Answering
<1>4. RequestComes
  BY <1>1, <1>2, Names DEF Asking, CommandComes
<1>5. PICK k \in Nat : /\ Aligned(gbaIn, request, k)
                       /\ Remains(toGba \o out, send_request(request), k)
  BY <1>4 DEF RequestComes
<1> DEFINE n == RequestWords(cmd)
           s == send_request(request)
           r == receive_response(gbaIn, Head(toGba))
           l == k + 1
<1>6. n \in Nat /\ request \in Messages(n) /\ s \in Seq(Int) /\ Len(request) = n
  BY <1>2, <1>3, Lengths, Sent, MessageIsSeq DEF Asking
<1>7. toGba \in Seq(Int) /\ out \in Seq(Int) /\ toGba' \in Seq(Int)
  BY <1>1 DEF Types
<1>8. Head(toGba) = s[k + 1] /\ Remains(toGba' \o out, s, l)
  <2>1. /\ toGba \o out \in Seq(Int) /\ toGba \o out # <<>>
        /\ Head(toGba \o out) = Head(toGba) /\ Tail(toGba \o out) = toGba' \o out
    BY <1>1, <1>7, Joined
  <2> HIDE DEF s
  <2>2. Head(toGba \o out) = s[k + 1] /\ Remains(Tail(toGba \o out), s, k + 1)
    BY <1>5, <1>6, <2>1, RemainsHead DEF s
  <2> QED
    BY <2>1, <2>2
<1>9. Aligned(r, request, l) /\ gba = cmd /\ gbaIn.left > 0
  <2>1. gba = cmd /\ gbaIn.left > 0
    BY <1>4 DEF RequestComes
  <2>2. Aligned(receive_response(gbaIn, s[k + 1]), request, k + 1)
    BY <1>5, <1>6, <2>1, AlignedStep
  <2> QED
    BY <1>8, <2>1, <2>2
<1>10. /\ gbaIn' = r
       /\ IF r.left = 0
          THEN /\ Respond(IF gba = "CHUNK" THEN ResponseLen["WRITE"] ELSE ResponseLen[gba])
               /\ gbaLeft' = (IF gba = "WRITE" THEN r.msg[1]
                              ELSE IF gba = "CHUNK" THEN gbaLeft - 1 ELSE gbaLeft)
          ELSE gbaOut' = gbaOut /\ response' = response /\ gbaLeft' = gbaLeft
  BY DEF ReceiveRequest, Received
<1>11. /\ toWii' = toWii /\ JOY_TRANS' = JOY_TRANS /\ gba' = gba /\ wii' = wii
       /\ cmd' = cmd /\ out' = out /\ wiiIn' = wiiIn /\ wiiLeft' = wiiLeft
       /\ request' = request
  BY DEF ReceiveRequest, server
<1>12. /\ toWii = <<>> /\ JOY_TRANS = 0 /\ wiiIn = Receive(ResponseWords(cmd))
       /\ cmd = "WRITE" => wiiLeft = request[1]
       /\ cmd = "CHUNK" => wiiLeft = gbaLeft
  BY <1>2, <1>4 DEF Asking, RequestComes
<1>13. /\ r.msg \in Seq(Words) /\ (\A j \in 1..Len(r.msg) : r.msg[j] = request[j])
       /\ r.left = n - Len(r.msg) /\ Len(r.msg) <= n /\ (r.left = 0 => l = Len(s))
  BY <1>6, <1>9 DEF Aligned, AlignedAt
<1> HIDE DEF n, s, r, l
<1>14. CASE r.left # 0
  <2>1. gbaOut' = gbaOut /\ response' = response /\ gbaLeft' = gbaLeft
    BY <1>10, <1>14
  <2>2. Types'
    BY <1>1, <1>7, <1>11, <2>1 DEF Types
  <2>3. RequestComes'
    <3>1. l \in Nat /\ gbaIn'.left > 0
      <4>1. Len(r.msg) \in Nat
        BY <1>13
      <4> QED
        BY <1>6, <1>10, <1>13, <1>14, <4>1 DEF l
    <3>2. Aligned(gbaIn', request', l) /\ Remains(toGba' \o out', send_request(request'), l)
      BY <1>8, <1>9, <1>10, <1>11 DEF s
    <3>3. /\ gba' = cmd' /\ (cmd' = "WRITE" => wiiLeft' = request'[1])
          /\ (cmd' = "CHUNK" => wiiLeft' = gbaLeft')
      BY <1>9, <1>11, <1>12, <2>1
    <3> QED
      BY <3>1, <3>2, <3>3, Zenon DEF RequestComes
  <2>4. Asking'
    BY <1>2, <1>11, <2>1, <2>3, Zenon DEF Asking
  <2> QED
    BY <1>2, <1>3, <1>11, <2>2, <2>4 DEF Together, Protocol
<1>15. CASE r.left = 0
  <2>1. ResponseWords(cmd) = IF cmd = "CHUNK" THEN ResponseLen["WRITE"] ELSE ResponseLen[cmd]
    BY DEF ResponseWords
  <2>2. PICK msg \in Messages(ResponseWords(cmd)) : response' = msg /\ gbaOut' = send_request(msg)
    BY <1>9, <1>10, <1>15, <2>1 DEF Respond
  <2>3. ResponseWords(cmd) \in Nat \ {0}
    BY <1>3, Lengths
  <2> DEFINE p == send_request(msg)
  <2>4. p \in Seq(Int) /\ p # <<>>
    BY <2>3, Sent
  <2>5. toGba' = <<>> /\ out = <<>>
    <3>1. toGba' \o out \in Seq(Int) /\ Remains(toGba' \o out, s, Len(s))
      BY <1>7, <1>8, <1>13, <1>15, Joined
    <3>2. toGba' \o out = <<>>
      BY <1>6, <3>1, RemainsNone
    <3> QED
      BY <1>7, <3>2, Joined
  <2>6. wii = "receive"
    BY <1>2, <1>3, <2>5
  <2>7. /\ gbaLeft' \in Int
        /\ cmd = "WRITE" => wiiLeft = gbaLeft'
        /\ cmd = "CHUNK" => wiiLeft = gbaLeft' + 1
    <3>1. CASE cmd = "WRITE"
      <4>1. gbaLeft' = r.msg[1] /\ cmd # "CHUNK"
        BY <1>9, <1>10, <1>15, <3>1
      <4>2. n # 0
        BY <1>3, <3>1, Lengths DEF n
      <4>3. 1 \in 1..Len(r.msg)
        <5>1. Len(r.msg) \in Nat
          BY <1>13
        <5> QED
          BY <1>6, <1>13, <1>15, <4>2, <5>1
      <4>4. r.msg[1] = request[1] /\ r.msg[1] \in Words
        BY <1>13, <4>3
      <4>5. Words \subseteq Int
        BY Widths
      <4> QED
        BY <1>12, <3>1, <4>1, <4>4, <4>5
    <3>2. CASE cmd # "WRITE"
      <4>1. gbaLeft \in Int
        BY <1>1 DEF Types
      <4> QED
        BY <1>9, <1>10, <1>12, <1>15, <3>2, <4>1
    <3> QED
      BY <3>1, <3>2
  <2>8. response' \in Seq(Words)
    BY <2>2, <2>3, MessageIsSeq
  <2>9. Types'
    BY <1>1, <1>7, <1>11, <2>2, <2>4, <2>7, <2>8 DEF Types
  <2>10. Aligned(wiiIn', response', 0) /\ wiiIn'.left > 0
    <3>1. Aligned(Receive(ResponseWords(cmd)), msg, 0)
      BY <2>3, AlignedStart
    <3>2. Receive(ResponseWords(cmd)).left = ResponseWords(cmd)
      BY DEF Receive
    <3> QED
      BY <1>11, <1>12, <2>2, <2>3, <3>1, <3>2
  <2>11. ResponseComes(0)'
    <3>1. toWii' \o gbaOut' = p
      <4>1. <<>> \in Seq(Int) /\ <<>> \o p = p
        BY <2>4, Joined
      <4> QED
        BY <1>11, <1>12, <2>2, <4>1
    <3>2. Remains(toWii' \o gbaOut', send_request(response'), 0)
      BY <2>2, <2>4, <3>1, RemainsStart
    <3>3. JOY_TRANS' = 0
      BY <1>11, <1>12
    <3> QED
      BY <2>10, <3>2, <3>3, Zenon DEF ResponseComes
  <2>12. Answering'
    <3>1. response' \in Messages(ResponseWords(cmd'))
      BY <1>11, <2>2
    <3>2. toGba' = <<>> /\ out' = <<>> /\ gba' = cmd' /\ gbaOut' # <<>>
      BY <1>9, <1>11, <2>2, <2>4, <2>5
    <3>3. \E q \in Nat : ResponseComes(q)'
      BY <2>11
    <3> QED
      BY <1>11, <2>7, <2>10, <3>1, <3>2, <3>3, Zenon DEF Answering
  <2> QED
    BY <1>3, <1>11, <2>6, <2>9, <2>12 DEF Together, Protocol
<1> QED
  BY <1>14, <1>15

LEMMA SendPacketKeeps ==
  ASSUME Together, SendPacket
  PROVE  Together'
<1>1. Types /\ Protocol /\ gbaOut # <<>>
  BY DEF Together, SendPacket
<1>2. wii = "receive" /\ Answering
  BY <1>1 DEF Protocol, Types, Resting, Quiet, Asking
<1>3. cmd \in Commands \cup {"CHUNK"} /\ gba = cmd
  BY <1>1, <1>2 DEF Protocol, Answering
<1>4. PICK k \in Nat : ResponseComes(k)
  BY <1>2 DEF Answering
<1> DEFINE s == send_request(response)
<1>5. /\ response \in Messages(ResponseWords(cmd)) /\ ResponseWords(cmd) \in Nat
      /\ s \in Seq(Packets) /\ s \in Seq(Int) /\ Len(s) < Room /\ Room \in Nat
  <2>1. response \in Messages(ResponseWords(cmd)) /\ ResponseWords(cmd) \in Nat
    BY <1>2, <1>3, Lengths DEF Answering
  <2> QED
    BY <1>3, <2>1, Sent, Lengths, CallAssumption
<1>6. toWii \in Seq(Int) /\ gbaOut \in Seq(Int)
  BY <1>1 DEF Types
<1>7. toWii' = Append(toWii, Head(gbaOut)) /\ gbaOut' = Tail(gbaOut)
  <2>1. PICK m : Remains(toWii \o gbaOut, s, m)
    BY <1>4 DEF ResponseComes
  <2>2. toWii \o gbaOut \in Seq(Int) /\ Len(toWii \o gbaOut) = Len(toWii) + Len(gbaOut)
    BY <1>6, Joined
  <2> HIDE DEF s
  <2>3. Len(toWii \o gbaOut) <= Len(s)
    BY <1>5, <2>1, <2>2, RemainsPackets
  <2>4. Len(toWii) < Room
    <3>1. Len(toWii) \in Nat /\ Len(gbaOut) \in Nat /\ Len(s) \in Nat
      BY <1>5, <1>6
    <3> QED
      BY <1>5, <2>2, <2>3, <3>1
  <2> QED
    BY <1>6, <2>4, Lone DEF SendPacket
<1>8. toWii' \o gbaOut' = toWii \o gbaOut
  BY <1>1, <1>6, <1>7, Joined
<1>9. toWii' \in Seq(Int) /\ gbaOut' \in Seq(Int) /\ (gbaOut' = <<>> <=> ~(Len(gbaOut) > 1))
  <2> DEFINE h == Head(gbaOut)
             p == Tail(gbaOut)
  <2>1. /\ h \in Int /\ p \in Seq(Int) /\ Len(p) = Len(gbaOut) - 1
        /\ Len(gbaOut) \in Nat \ {0}
    BY <1>1, <1>6
  <2>2. toWii' = Append(toWii, h) /\ gbaOut' = p
    BY <1>7
  <2> HIDE DEF h, p
  <2>3. p = <<>> <=> Len(p) = 0
    BY <2>1
  <2>4. p = <<>> <=> ~(Len(gbaOut) > 1)
    BY <2>1, <2>3
  <2> QED
    BY <1>6, <2>1, <2>2, <2>4
<1>10. /\ toGba' = toGba /\ JOY_TRANS' = JOY_TRANS /\ gbaLeft' = gbaLeft
       /\ response' = response /\ wii' = wii /\ cmd' = cmd /\ out' = out /\ wiiIn' = wiiIn
       /\ wiiLeft' = wiiLeft /\ request' = request
  BY DEF SendPacket, server
<1>11. Types'
  BY <1>1, <1>9, <1>10 DEF Types
<1>12. ResponseComes(k)'
  BY <1>4, <1>8, <1>10, Zenon DEF ResponseComes
<1>13. gbaOut' # <<>> => gba' = cmd'
  BY <1>3, <1>9, <1>10 DEF SendPacket
<1>14. gbaOut' = <<>> => gba' = Goes' /\ (gba' = "CHUNK" => gbaIn' = Receive(ChunkLen))
  <2>1. SUFFICES ASSUME gbaOut' = <<>>
                 PROVE  gba' = Goes' /\ (gba' = "CHUNK" => gbaIn' = Receive(ChunkLen))
    OBVIOUS
  <2> DEFINE stays == /\ gba = "WRITE" => response[1] = 0
                      /\ gba \in {"WRITE", "CHUNK"} /\ gbaLeft > 0
  <2>2. /\ gba' = IF stays THEN "CHUNK" ELSE "main"
        /\ gbaIn' = IF stays THEN Receive(ChunkLen) ELSE gbaIn
    BY <1>9, <2>1 DEF SendPacket
  <2>3. Goes' = IF stays THEN "CHUNK" ELSE "main"
    <3>1. Goes' = IF /\ cmd \in {"WRITE", "CHUNK"} /\ (cmd = "WRITE" => response[1] = 0)
                     /\ gbaLeft > 0
                  THEN "CHUNK" ELSE "main"
      BY <1>10 DEF Goes
    <3> QED
      BY <1>3, <3>1
  <2> HIDE DEF stays
  <2> QED
    BY <2>2, <2>3
<1>15. Answering'
  <2>1. \E q \in Nat : ResponseComes(q)'
    BY <1>12
  <2>2. /\ toGba = <<>> /\ out = <<>> /\ wiiIn.left > 0
        /\ cmd = "WRITE" => wiiLeft = gbaLeft
        /\ cmd = "CHUNK" => wiiLeft = gbaLeft + 1
    BY <1>2 DEF Answering
  <2> QED
    BY <1>5, <1>10, <1>13, <1>14, <2>1, <2>2, Zenon DEF Answering
<1> QED
  BY <1>2, <1>3, <1>10, <1>11, <1>15 DEF Together, Protocol

\* A poll while a response is under way.
LEMMA ResponsePoll ==
  ASSUME Types, Poll, gba # "boot", gbaOut' = gbaOut, NEW s \in Seq(Packets), NEW k \in Nat,
         Remains(toWii \o gbaOut, s, k)
  PROVE  /\ toWii' \in Seq(Int)
         /\ IF JOY_TRANS' = 0 THEN Remains(toWii' \o gbaOut', s, k)
            ELSE JOY_TRANS' = s[k + 1] /\ Remains(toWii' \o gbaOut', s, k + 1)
<1>1. toWii \in Seq(Int) /\ gbaOut \in Seq(Int) /\ s \in Seq(Int)
  BY PacketsAreInts DEF Types
<1>2. CASE toWii' = toWii /\ JOY_TRANS' = 0
  BY <1>1, <1>2
<1>3. CASE toWii # <<>> /\ JOY_TRANS' = Head(toWii) /\ toWii' = Tail(toWii)
  <2> DEFINE q == toWii \o gbaOut
  <2>1. /\ q \in Seq(Int) /\ q # <<>> /\ Head(q) = Head(toWii) /\ Tail(q) = Tail(toWii) \o gbaOut
    BY <1>1, <1>3, Joined
  <2>2. toWii' \o gbaOut' = Tail(q) /\ JOY_TRANS' = Head(q)
    BY <1>3, <2>1
  <2>3. Remains(q, s, k)
    OBVIOUS
  <2> HIDE DEF q
  <2>4. JOY_TRANS' = s[k + 1] /\ Remains(toWii' \o gbaOut', s, k + 1)
    BY <1>1, <2>1, <2>2, <2>3, RemainsHead
  <2>5. Head(q) \in Packets
    <3>1. q \in Seq(Packets)
      BY <2>1, <2>3, RemainsPackets
    <3> QED
      BY <2>1, <3>1
  <2>6. toWii' \in Seq(Int)
    BY <1>1, <1>3
  <2> QED
    BY <2>2, <2>4, <2>5, <2>6, PacketsAreInts
<1> QED
  BY <1>2, <1>3 DEF Poll

\* The response is complete.
LEMMA ReturnKeeps ==
  ASSUME Together, Answering, wii = "receive", gbaOut = <<>>, NEW resp, resp[1] = response[1],
         Return(resp), InStep', toGba' = toGba, gba' = gba, gbaOut' = gbaOut, gbaIn' = gbaIn,
         gbaLeft' = gbaLeft, response' = response, toWii' = <<>>, JOY_TRANS' = 0
  PROVE  Together'
<1>1. Types /\ Protocol /\ cmd \in Commands \cup {"CHUNK"}
  BY DEF Together, Protocol
<1>2. /\ toGba = <<>> /\ out = <<>> /\ gba = Goes /\ (gba = "CHUNK" => gbaIn = Receive(ChunkLen))
      /\ cmd = "WRITE" => wiiLeft = gbaLeft
      /\ cmd = "CHUNK" => wiiLeft = gbaLeft + 1
  BY DEF Answering
<1> DEFINE left == IF cmd = "CHUNK" THEN wiiLeft - 1 ELSE wiiLeft
           more == cmd \in {"WRITE", "CHUNK"} /\ resp[1] = 0 /\ left > 0
<1>3. /\ wiiLeft' = left
      /\ more => cmd' = "CHUNK" /\ (\E chunk \in Messages(ChunkLen) : NextChunk(chunk))
      /\ ~more => wii' = "idle" /\ cmd' = cmd /\ out' = out /\ request' = request
      /\ garbled' = (garbled \/ (cmd = "CHUNK" /\ resp[1] # 0 /\ left > 0))
  <2> HIDE DEF left
  <2> QED
    BY Zenon DEF Return, left
<1>4. left \in Int /\ (cmd \in {"WRITE", "CHUNK"} => left = gbaLeft)
  BY <1>1, <1>2 DEF Types
<1>5. ~(cmd = "CHUNK" /\ resp[1] # 0 /\ left > 0)
  <2> HIDE DEF left
  <2> QED
    BY <1>3, Zenon DEF InStep
<1>6. more <=> Goes = "CHUNK"
  <2> HIDE DEF left
  <2> QED
    BY <1>4, <1>5, Names DEF Goes
<1> HIDE DEF left, more
<1>7. CASE more
  <2>1. gba = "CHUNK" /\ gbaIn = Receive(ChunkLen) /\ cmd \in {"WRITE", "CHUNK"} /\ wiiLeft' = gbaLeft
    BY <1>2, <1>3, <1>4, <1>6, <1>7 DEF more
  <2>2. PICK chunk \in Messages(ChunkLen) : NextChunk(chunk)
    BY <1>3, <1>7
  <2> DEFINE s == send_request(chunk)
  <2>3. request' = chunk /\ out' = s /\ wiiIn' = Receive(ResponseLen["WRITE"]) /\ wii' = "send"
    BY <2>2 DEF NextChunk
  <2>4. cmd' = "CHUNK" /\ ChunkLen \in Nat \ {0}
    BY <1>3, <1>7, CallAssumption
  <2>5. s \in Seq(Int) /\ s # <<>>
    BY <2>4, Sent
  <2>6. Types'
    <3>1. <<>> \in Seq(Int) /\ chunk \in Seq(Words)
      BY <2>4, MessageIsSeq
    <3> QED
      BY <1>1, <1>3, <1>4, <2>3, <2>5, <3>1 DEF Types
  <2>7. Aligned(gbaIn', request', 0) /\ gbaIn'.left > 0
    <3>1. Aligned(Receive(ChunkLen), chunk, 0)
      BY <2>4, AlignedStart
    <3>2. Receive(ChunkLen).left = ChunkLen
      BY DEF Receive
    <3> QED
      BY <2>1, <2>3, <2>4, <3>1, <3>2
  <2>8. Remains(toGba' \o out', send_request(request'), 0)
    <3>1. toGba' \o out' = s
      <4>1. <<>> \in Seq(Int) /\ <<>> \o s = s
        BY <2>5, Joined
      <4> QED
        BY <1>2, <2>3, <4>1
    <3> QED
      BY <2>3, <2>5, <3>1, RemainsStart
  <2>9. RequestComes'
    <3>1. gba' = cmd' /\ cmd' # "WRITE" /\ wiiLeft' = gbaLeft' /\ 0 \in Nat
      BY <2>1, <2>4
    <3> QED
      BY <2>7, <2>8, <3>1, Zenon DEF RequestComes
  <2>10. Asking'
    <3>1. request' \in Messages(RequestWords(cmd')) /\ wiiIn' = Receive(ResponseWords(cmd'))
      BY <2>2, <2>3, <2>4 DEF RequestWords, ResponseWords
    <3> QED
      BY <2>9, <3>1, Zenon DEF Asking
  <2> QED
    BY <2>3, <2>4, <2>5, <2>6, <2>10 DEF Together, Protocol
<1>8. CASE ~more
  <2>1. wii' = "idle" /\ cmd' = cmd /\ out' = <<>> /\ gba' = "main"
    BY <1>2, <1>3, <1>6, <1>8 DEF Goes
  <2>2. Types'
    <3>1. request' = request /\ <<>> \in Seq(Int)
      BY <1>3, <1>8
    <3> QED
      BY <1>1, <1>3, <1>4, <2>1, <3>1 DEF Types
  <2>3. Resting'
    <3>1. <<>> \in Seq(Packets)
      OBVIOUS
    <3> QED
      BY <1>2, <2>1, <3>1 DEF Resting
  <2> QED
    BY <2>1, <2>2, <2>3 DEF Together, Protocol
<1> QED
  BY <1>7, <1>8

LEMMA ReceiveWordKeeps ==
  ASSUME Together, ReceiveWord, InStep'
  PROVE  Together'
<1>1. Types /\ Protocol /\ wii = "receive" /\ Poll /\ cmd \in Commands \cup {"CHUNK"}
  BY DEF Together, Protocol, ReceiveWord
<1>2. /\ toGba' = toGba /\ gba' = gba /\ gbaOut' = gbaOut /\ gbaIn' = gbaIn
      /\ gbaLeft' = gbaLeft /\ response' = response
  BY DEF ReceiveWord, gameboy
<1>3. JOY_TRANS = 0 => /\ wii' = wii /\ cmd' = cmd /\ out' = out /\ wiiIn' = wiiIn
                       /\ wiiLeft' = wiiLeft /\ request' = request
  BY DEF ReceiveWord
<1>4. CASE Asking /\ out = <<>>
  <2>1. toWii = <<>> /\ JOY_TRANS = 0 /\ gba # "boot"
    BY <1>1, <1>4, Names DEF Asking, CommandComes, RequestComes
  <2>2. toWii' = <<>> /\ JOY_TRANS' = 0
    BY <1>1, <2>1 DEF Poll
  <2>3. Types'
    BY <1>1, <1>2, <1>3, <2>1, <2>2 DEF Types
  <2>4. CommandComes => CommandComes'
    BY <1>2, <1>3, <2>1, Zenon DEF CommandComes
  <2>5. RequestComes => RequestComes'
    BY <1>2, <1>3, <2>1, Zenon DEF RequestComes
  <2>6. Asking'
    BY <1>2, <1>3, <1>4, <2>1, <2>2, <2>4, <2>5, Zenon DEF Asking
  <2> QED
    BY <1>1, <1>3, <1>4, <2>1, <2>3, <2>6 DEF Together, Protocol
<1>5. CASE Answering
  <2> DEFINE n == ResponseWords(cmd)
             s == send_request(response)
  <2>1. n \in Nat \ {0} /\ response \in Messages(n) /\ s \in Seq(Packets) /\ Len(response) = n
    <3>1. n \in Nat \ {0} /\ response \in Messages(n)
      BY <1>1, <1>5, Lengths DEF Answering
    <3> HIDE DEF n
    <3> QED
      BY <3>1, Sent, MessageIsSeq
  <2>2. PICK k \in Nat : ResponseComes(k)
    BY <1>5 DEF Answering
  <2>3. gba # "boot"
    BY <1>1, <1>5, Names DEF Answering, Goes
  <2>4. /\ toGba = <<>> /\ out = <<>> /\ wiiIn.left > 0 /\ Aligned(wiiIn, response, k)
    BY <1>5, <2>2 DEF Answering, ResponseComes
  <2>5. ASSUME NEW l \in Nat, Remains(toWii \o gbaOut, s, l),
               Aligned(wiiIn', response, l), wiiIn'.left > 0,
               wii' = wii, cmd' = cmd, out' = out, wiiLeft' = wiiLeft, request' = request
        PROVE  Together'
    <3>1. /\ toWii' \in Seq(Int)
          /\ IF JOY_TRANS' = 0 THEN Remains(toWii' \o gbaOut', s, l)
             ELSE JOY_TRANS' = s[l + 1] /\ Remains(toWii' \o gbaOut', s, l + 1)
      <4> HIDE DEF s
      <4> QED
        BY <1>1, <1>2, <2>1, <2>3, <2>5, ResponsePoll
    <3>2. Types'
      BY <1>1, <1>2, <2>5, <3>1 DEF Types
    <3>3. ResponseComes(l)'
      BY <1>2, <2>5, <3>1, Zenon DEF ResponseComes
    <3>4. Goes' = Goes
      BY <1>2, <2>5 DEF Goes
    <3>5. \E q \in Nat : ResponseComes(q)'
      BY <3>3
    <3>6. Answering'
      BY <1>2, <1>5, <2>5, <3>4, <3>5, Zenon DEF Answering
    <3> QED
      BY <1>1, <2>5, <3>2, <3>6 DEF Together, Protocol
  <2>6. CASE JOY_TRANS = 0
    <3>1. Remains(toWii \o gbaOut, s, k)
      BY <2>2, <2>6 DEF ResponseComes
    <3> QED
      BY <1>3, <2>4, <2>5, <2>6, <3>1
  <2>7. CASE JOY_TRANS # 0
    <3> DEFINE r == receive_response(wiiIn, JOY_TRANS)
               l == k + 1
    <3>1. JOY_TRANS = s[k + 1] /\ Remains(toWii \o gbaOut, s, l) /\ l \in Nat
      BY <2>2, <2>7 DEF ResponseComes
    <3>2. Aligned(r, response, l)
      <4>1. Aligned(receive_response(wiiIn, s[k + 1]), response, k + 1)
        BY <2>1, <2>4, AlignedStep
      <4> QED
        BY <3>1, <4>1
    <3>3. /\ IF r.left = 0
             THEN Return(r.msg) /\ (wii' = "idle" => wiiIn' = r)
             ELSE /\ wiiIn' = r /\ wii' = wii /\ cmd' = cmd /\ out' = out
                  /\ wiiLeft' = wiiLeft /\ request' = request
      BY <2>7 DEF ReceiveWord, Received
    <3>4. /\ r.msg \in Seq(Words) /\ (\A j \in 1..Len(r.msg) : r.msg[j] = response[j])
          /\ r.left = n - Len(r.msg) /\ Len(r.msg) <= n /\ (r.left = 0 => l = Len(s))
      BY <2>1, <3>2 DEF Aligned, AlignedAt
    <3> HIDE DEF n, s, r, l
    <3>5. Len(r.msg) \in Nat
      BY <3>4
    <3>6. CASE r.left # 0
      <4>1. wiiIn' = r /\ r.left > 0
        BY <2>1, <3>3, <3>4, <3>5, <3>6
      <4> QED
        BY <2>5, <3>1, <3>2, <3>3, <3>6, <4>1
    <3>7. CASE r.left = 0
      <4>1. toWii = <<>> /\ gbaOut = <<>>
        <5>1. toWii \in Seq(Int) /\ gbaOut \in Seq(Int) /\ s \in Seq(Int)
          BY <1>1, <2>1, PacketsAreInts DEF Types
        <5>2. toWii \o gbaOut = <<>>
          <6>1. toWii \o gbaOut \in Seq(Int) /\ Remains(toWii \o gbaOut, s, Len(s))
            BY <3>1, <3>4, <3>7, <5>1, Joined
          <6> QED
            BY <5>1, <6>1, RemainsNone
        <5> QED
          BY <5>1, <5>2, Joined
      <4>2. toWii' = <<>> /\ JOY_TRANS' = 0
        BY <1>1, <2>3, <4>1 DEF Poll
      <4>3. r.msg[1] = response[1]
        <5>1. 1 \in 1..Len(r.msg)
          BY <2>1, <3>4, <3>5, <3>7
        <5> QED
          BY <3>4, <5>1
      <4>4. Return(r.msg)
        BY <3>3, <3>7
      <4> QED
        BY <1>1, <1>2, <1>5, <4>1, <4>2, <4>3, <4>4, ReturnKeeps
    <3> QED
      BY <3>6, <3>7
  <2> QED
    BY <2>6, <2>7
<1> QED
  BY <1>1, <1>4, <1>5 DEF Protocol

-----------------------------------------------------------------------------
(* The invariant, and what follows from it.                                *)

LEMMA CallInit ==
  Init => CallInv
<1> SUFFICES ASSUME Init PROVE CallInv
  OBVIOUS
<1>1. Types
  BY DEF Init, Types
<1>2. Resting
  <2>1. <<>> \in Seq(Packets)
    OBVIOUS
  <2> QED
    BY <2>1 DEF Init, Resting
<1>3. Protocol
  BY <1>2 DEF Init, Protocol
<1> QED
  BY <1>1, <1>3 DEF CallInv, Together

\* Once lost, the two sides stay so.
LEMMA StepsAgo ==
  ASSUME [Next]_vars, InStep'
  PROVE  InStep
<1>1. CASE Restart
  BY <1>1, Zenon DEF Restart, InStep
<1>2. CASE ReceiveWord
  <2>1. ~garbled' /\ ~cut'
    BY Zenon DEF InStep
  <2>2. cut' = cut
    BY <1>2 DEF ReceiveWord
  <2>3. \/ garbled' = garbled
        \/ Return(receive_response(wiiIn, JOY_TRANS).msg)
    BY <1>2 DEF ReceiveWord
  <2>4. ~garbled
    <3>1. CASE garbled' = garbled
      BY <2>1, <3>1, Zenon
    <3>2. CASE Return(receive_response(wiiIn, JOY_TRANS).msg)
      BY <2>1, <3>2, Zenon DEF Return
    <3> QED
      BY <2>3, <3>1, <3>2
  <2> QED
    BY <2>1, <2>2, <2>4, Zenon DEF InStep
<1>3. CASE Call \/ wait_for \/ Prepare \/ Write \/ Boot \/ ReadCommand \/ ReceiveRequest
           \/ SendPacket \/ UNCHANGED vars
  <2>1. cut' = cut /\ garbled' = garbled
    BY <1>3 DEF Call, wait_for, Prepare, prepare, Write, Boot, ReadCommand, ReceiveRequest,
                SendPacket, faults, vars
  <2> QED
    BY <2>1, Zenon DEF InStep
<1> QED
  BY <1>1, <1>2, <1>3, Zenon DEF Next

LEMMA CallNext ==
  CallInv /\ [Next]_vars => CallInv'
<1> SUFFICES ASSUME CallInv, [Next]_vars, InStep'
             PROVE  Together'
  BY DEF CallInv
<1>1. Together
  BY StepsAgo, Zenon DEF CallInv
<1>2. CASE Call
  BY <1>1, <1>2, CallKeeps
<1>3. CASE wait_for
  BY <1>1, <1>3, WaitKeeps
<1>4. CASE Prepare
  BY <1>1, <1>4, PrepareKeeps
<1>5. CASE Write
  BY <1>1, <1>5, WriteKeeps
<1>6. CASE ReceiveWord
  BY <1>1, <1>6, ReceiveWordKeeps
<1>7. CASE Restart
  BY <1>1, <1>7, RestartKeeps
<1>8. CASE Boot
  BY <1>1, <1>8, BootKeeps
<1>9. CASE ReadCommand
  BY <1>1, <1>9, ReadCommandKeeps
<1>10. CASE ReceiveRequest
  BY <1>1, <1>10, ReceiveRequestKeeps
<1>11. CASE SendPacket
  BY <1>1, <1>11, SendPacketKeeps
<1>12. CASE UNCHANGED vars
  <2>1. Types'
    BY <1>1, <1>12 DEF Together, Types, vars, link, server, gameboy
  <2>2. /\ wii' = wii /\ cmd' = cmd /\ out' = out /\ gba' = gba /\ toGba' = toGba
        /\ toWii' = toWii /\ JOY_TRANS' = JOY_TRANS /\ gbaOut' = gbaOut /\ gbaIn' = gbaIn
        /\ gbaLeft' = gbaLeft /\ wiiLeft' = wiiLeft /\ wiiIn' = wiiIn
        /\ request' = request /\ response' = response
    BY <1>12 DEF vars, link, server, gameboy
  <2>3. Resting' = Resting /\ Quiet' = Quiet
    BY <2>2 DEF Resting, Quiet
  <2>4. Asking => Asking'
    BY <2>2, Zenon DEF Asking, CommandComes, RequestComes
  <2>5. Answering => Answering'
    <3>1. Goes' = Goes
      BY <2>2 DEF Goes
    <3>2. ASSUME NEW k, ResponseComes(k) PROVE ResponseComes(k)'
      BY <2>2, <3>2, Zenon DEF ResponseComes
    <3> QED
      BY <2>2, <3>1, <3>2, Zenon DEF Answering
  <2>6. Protocol'
    BY <1>1, <2>2, <2>3, <2>4, <2>5 DEF Together, Protocol
  <2> QED
    BY <2>1, <2>6 DEF Together
<1> QED
  BY <1>2, <1>3, <1>4, <1>5, <1>6, <1>7, <1>8, <1>9, <1>10, <1>11, <1>12, Zenon DEF Next

LEMMA CallsHold == Spec => []CallInv
BY CallInit, CallNext, PTL DEF Spec

(* When a command is written the Game Boy waits for it and no word of an   *)
(* earlier call is on its way, for messages and words of any size.         *)
THEOREM CallsStayQuiet == Spec => []QuietBeforeCommand
<1>1. CallInv => QuietBeforeCommand
  BY DEF CallInv, Together, Protocol, Quiet, QuietBeforeCommand
<1> QED
  BY <1>1, CallsHold, PTL

LEMMA PrefixOf ==
  ASSUME NEW s \in Seq(Words), NEW t \in Seq(Words), Len(s) <= Len(t),
         \A j \in 1..Len(s) : s[j] = t[j]
  PROVE  IsPrefix(s, t)
<1>1. SubSeq(s, 1, Len(s)) = SubSeq(t, 1, Len(s))
  OBVIOUS
<1> QED
  BY <1>1 DEF IsPrefix

\* What Aligned says of the words.
LEMMA AlignedMatches ==
  ASSUME NEW n \in Nat, NEW msg \in Messages(n), NEW r, NEW k, Aligned(r, msg, k)
  PROVE  Matches(r, msg)
<1>1. msg \in Seq(Words) /\ Len(msg) = n
  BY MessageIsSeq
<1> DEFINE m == r.msg
<1>2. /\ m \in Seq(Words) /\ Len(m) <= Len(msg) /\ \A j \in 1..Len(m) : m[j] = msg[j]
      /\ r.left = Len(msg) - Len(m)
  BY DEF Aligned, AlignedAt
<1> HIDE DEF m
<1>3. IsPrefix(m, msg)
  BY <1>1, <1>2, PrefixOf
<1>4. ASSUME r.left = 0 PROVE m = msg
  <2>1. Len(m) \in Nat /\ Len(msg) \in Nat
    BY <1>1, <1>2
  <2>2. Len(m) = Len(msg)
    BY <1>2, <1>4, <2>1
  <2> QED
    BY <1>1, <1>2, <2>2
<1> QED
  BY <1>3, <1>4 DEF Matches, Received, m

\* Before the first packet.
LEMMA NoneMatches ==
  ASSUME NEW n \in Nat \ {0}, NEW msg \in Seq(Words)
  PROVE  Matches(Receive(n), msg)
<1> DEFINE m == Receive(n).msg
<1>1. m = <<>> /\ Receive(n).left = n
  BY DEF Receive
<1> HIDE DEF m
<1>2. m \in Seq(Words) /\ Len(m) = 0 /\ Len(msg) \in Nat
  BY <1>1
<1>3. Len(m) <= Len(msg) /\ \A j \in 1..Len(m) : m[j] = msg[j]
  BY <1>2
<1>4. IsPrefix(m, msg)
  BY <1>2, <1>3, PrefixOf
<1> QED
  BY <1>1, <1>4 DEF Matches, Received, m

\* The Game Boy, with its next packet.
LEMMA RequestMatches ==
  ASSUME Together, wii \in {"send", "receive"}, Asking, gba \notin {"boot", "main"}
  PROVE  /\ Matches(gbaIn, request)
         /\ toGba # <<>> => Matches(receive_response(gbaIn, Head(toGba)), request)
<1>1. cmd \in Commands \cup {"CHUNK"} /\ toGba \in Seq(Int) /\ out \in Seq(Int)
  BY DEF Together, Protocol, Types
<1> DEFINE n == RequestWords(cmd)
           s == send_request(request)
<1>2. n \in Nat /\ request \in Messages(n) /\ s \in Seq(Int)
  BY <1>1, Lengths, Sent DEF Asking
<1>3. RequestComes
  BY DEF Asking, CommandComes
<1>4. PICK k \in Nat : Aligned(gbaIn, request, k) /\ Remains(toGba \o out, s, k)
  BY <1>3 DEF RequestComes
<1>5. Matches(gbaIn, request)
  BY <1>2, <1>4, AlignedMatches
<1>6. ASSUME toGba # <<>>
      PROVE  Matches(receive_response(gbaIn, Head(toGba)), request)
  <2>1. Aligned(receive_response(gbaIn, s[k + 1]), request, k + 1)
    BY <1>2, <1>3, <1>4, AlignedStep DEF RequestComes
  <2> HIDE DEF s
  <2>2. /\ toGba \o out \in Seq(Int) /\ toGba \o out # <<>>
        /\ Head(toGba \o out) = Head(toGba)
    BY <1>1, <1>6, Joined
  <2>3. Head(toGba) = s[k + 1]
    BY <1>2, <1>4, <2>2, RemainsHead
  <2> QED
    BY <1>2, <2>1, <2>3, AlignedMatches
<1> QED
  BY <1>5, <1>6

\* The Wii, with its next packet.
LEMMA ResponseMatches ==
  ASSUME Together, wii = "receive", Answering
  PROVE  /\ Matches(wiiIn, response)
         /\ JOY_TRANS # 0 => Matches(receive_response(wiiIn, JOY_TRANS), response)
<1>1. cmd \in Commands \cup {"CHUNK"}
  BY DEF Together, Protocol
<1> DEFINE n == ResponseWords(cmd)
           s == send_request(response)
<1>2. n \in Nat /\ response \in Messages(n)
  BY <1>1, Lengths DEF Answering
<1>3. PICK k \in Nat : ResponseComes(k)
  BY DEF Answering
<1>4. Aligned(wiiIn, response, k) /\ (JOY_TRANS # 0 => JOY_TRANS = s[k + 1])
  BY <1>3 DEF ResponseComes
<1>5. Aligned(receive_response(wiiIn, s[k + 1]), response, k + 1)
  BY <1>2, <1>4, AlignedStep DEF Answering
<1> QED
  BY <1>2, <1>4, <1>5, AlignedMatches

(* What one side has put together from packets is the beginning of what    *)
(* the other passed to send_request, and all of it when the word it reads  *)
(* next is the last one, whatever the words, their width and the length of *)
(* the messages.                                                           *)
THEOREM MessagesStayIntact == Spec => []MessagesIntact
<1>1. CallInv => MessagesIntact
  <2> SUFFICES ASSUME CallInv, InStep PROVE
        /\ gba \notin {"boot", "main"} /\ gbaOut = <<>> =>
             /\ Matches(gbaIn, request)
             /\ toGba # <<>> => Matches(receive_response(gbaIn, Head(toGba)), request)
        /\ wii = "receive" =>
             /\ Matches(wiiIn, response)
             /\ JOY_TRANS # 0 => Matches(receive_response(wiiIn, JOY_TRANS), response)
    BY DEF MessagesIntact
  <2>1. Together /\ Types /\ Protocol
    BY DEF CallInv, Together
  <2>2. ASSUME gba \notin {"boot", "main"}, gbaOut = <<>>
        PROVE  /\ Matches(gbaIn, request)
               /\ toGba # <<>> => Matches(receive_response(gbaIn, Head(toGba)), request)
    <3>1. wii \in {"send", "receive"}
      BY <2>1, <2>2 DEF Types, Protocol, Resting, Quiet
    <3>2. CASE Asking
      BY <2>1, <2>2, <3>1, <3>2, RequestMatches
    <3>3. CASE wii = "receive" /\ Answering
      <4>1. gba = "CHUNK" /\ gbaIn = Receive(ChunkLen) /\ toGba = <<>>
        BY <2>2, <3>3 DEF Answering, Goes
      <4>2. request \in Seq(Words) /\ ChunkLen \in Nat \ {0}
        BY <2>1, CallAssumption DEF Types
      <4> QED
        BY <4>1, <4>2, NoneMatches
    <3> QED
      BY <2>1, <3>1, <3>2, <3>3 DEF Protocol
  <2>3. ASSUME wii = "receive"
        PROVE  /\ Matches(wiiIn, response)
               /\ JOY_TRANS # 0 => Matches(receive_response(wiiIn, JOY_TRANS), response)
    <3>1. CASE Asking
      <4>1. wiiIn = Receive(ResponseWords(cmd)) /\ JOY_TRANS = 0
        BY <3>1 DEF Asking
      <4>2. response \in Seq(Words) /\ ResponseWords(cmd) \in Nat \ {0}
        BY <2>1, <2>3, Lengths DEF Types, Protocol
      <4> QED
        BY <4>1, <4>2, NoneMatches
    <3>2. CASE Answering
      BY <2>1, <2>3, <3>2, ResponseMatches
    <3> QED
      BY <2>1, <2>3, <3>1, <3>2 DEF Protocol
  <2> QED
    BY <2>2, <2>3
<1> QED
  BY <1>1, CallsHold, PTL

=============================================================================
