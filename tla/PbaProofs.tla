------------------------------ MODULE PbaProofs ------------------------------
(* Proofs about PbaStore, for every size of its tables, and then about     *)
(* PbaMount, for tables, ids and reads of any size.                        *)
EXTENDS PbaMount, WellFoundedInduction, NaturalsInduction, TLAPS

(* The inductive invariant.  Each part needs the others: a slot entry_init *)
(* reuses keeps ids unique only because ID is beyond every id in use, and  *)
(* a shrinking file finds the blocks it gives back, and so completes, only *)
(* because numblocks follows va_size and every index below it is covered.  *)
IInv == TypeOK /\ IdsUnique /\ SizesAgree /\ BlocksCovered

(* What a step may do to the file ids: a slot keeps its id, is freed, or   *)
(* is given the next id.                                                   *)
IdsStep ==
  \A s \in Slots : entries'[s].va_fileid \in {entries[s].va_fileid, 0, ID}

-----------------------------------------------------------------------------
(* Division by the block size.                                             *)

\* A position within a file is in a block with a natural number.
LEMMA DivMod ==
  ASSUME NEW n \in Nat
  PROVE  /\ BLOCKNUM(n) \in Nat
         /\ BLOCKOFF(n) \in Offsets
         /\ n = BLOCKNUM(n) * BlockSize + BLOCKOFF(n)
  BY StoreAssumption DEF BLOCKNUM, BLOCKOFF, Offsets

\* A smaller size ends in the same block or an earlier one.
LEMMA DivMonotone ==
  ASSUME NEW m \in Nat, NEW n \in Nat, m <= n
  PROVE  BLOCKNUM(m) <= BLOCKNUM(n)
<1> DEFINE p == BLOCKNUM(m)
           q == BLOCKNUM(n)
<1>1. /\ p \in Nat /\ q \in Nat
      /\ m = p * BlockSize + BLOCKOFF(m) /\ BLOCKOFF(m) \in 0..(BlockSize - 1)
      /\ n = q * BlockSize + BLOCKOFF(n) /\ BLOCKOFF(n) \in 0..(BlockSize - 1)
  BY DivMod DEF Offsets
<1> HIDE DEF p, q
<1>2. SUFFICES ASSUME p >= q + 1 PROVE FALSE
  BY <1>1 DEF p, q
<1>3. p * BlockSize >= (q + 1) * BlockSize
  BY <1>1, <1>2, StoreAssumption
<1>4. (q + 1) * BlockSize = q * BlockSize + BlockSize
  BY <1>1, StoreAssumption
<1>. QED
  BY <1>1, <1>3, <1>4, StoreAssumption

\* The remainder is no more than the number.
LEMMA ModBound ==
  ASSUME NEW n \in Nat
  PROVE  n % BlockSize \in Nat /\ n % BlockSize <= n
<1>1. BLOCKNUM(n) \in Nat /\ BLOCKOFF(n) \in Nat
  BY DivMod, StoreAssumption DEF Offsets
<1>2. BLOCKNUM(n) * BlockSize \in Nat
  BY <1>1, StoreAssumption
<1>. QED
  BY <1>1, <1>2, DivMod, StoreAssumption DEF BLOCKOFF, Offsets

-----------------------------------------------------------------------------
(* Searching.                                                              *)

\* A scan's hit is one of the slots it looks for.
LEMMA FoundById ==
  ASSUME NEW id, NEW s \in find_by_id(id)
  PROVE  s \in Slots /\ entries[s].va_fileid = id
  BY DEF find_by_id, First

\* A scan over the blocks finds a block with the owner and index asked for.
LEMMA FoundBlock ==
  ASSUME NEW id, NEW i, NEW b \in BLOCKFETCH(id, i)
  PROVE  b \in Blocks /\ blocks[b].va_fileid = id /\ blocks[b].idx = i
  BY DEF BLOCKFETCH, First, Holders

-----------------------------------------------------------------------------
(* entry_setsize.                                                          *)

\* What the growth or shrinking of the blocks of a live file promises.
Covering(s, n) ==
  /\ blocks' \in [Blocks -> Block]
  /\ \A b \in Blocks : blocks'[b].va_fileid < ID
  /\ \A t \in Slots : Live(t) /\ t # s =>
       \A i \in 0..(entries[t].numblocks - 1) :
         \E b \in Blocks : /\ blocks'[b].va_fileid = entries[t].va_fileid
                           /\ blocks'[b].idx = i
  /\ \A i \in 0..(n - 1) :
       \E b \in Blocks : /\ blocks'[b].va_fileid = entries[s].va_fileid
                         /\ blocks'[b].idx = i

\* Shrinking a covered file finds every block it gives back.
LEMMA ShrinkKeeps ==
  ASSUME IInv, NEW s \in Slots, Live(s), NEW n \in Nat,
         n <= entries[s].numblocks, NEW err, Shrink(s, n, err)
  PROVE  err = 0 /\ Covering(s, n)
<1> DEFINE e       == entries[s]
           surplus == n..(e.numblocks - 1)
           missing == {i \in surplus : Holders(e.va_fileid, i) = {}}
           freed   == {i \in surplus : \A j \in missing : i < j}
<1>1. e \in Entry /\ e.numblocks \in Nat
  BY DEF IInv, TypeOK, Entry
<1>2. missing = {}
  BY <1>1 DEF IInv, BlocksCovered
<1>3. err = 0
  BY <1>2 DEF Shrink, Surplus
<1>4. blocks' = [b \in Blocks |->
                   IF \E i \in freed : b \in BLOCKFETCH(e.va_fileid, i)
                   THEN FreeBlock ELSE blocks[b]]
  BY DEF Shrink, Surplus
<1>5. FreeBlock \in Block
  BY StoreAssumption DEF FreeBlock, Block, ZeroData
<1>6. blocks' \in [Blocks -> Block]
  BY <1>4, <1>5 DEF IInv, TypeOK
<1>7. ASSUME NEW b \in Blocks PROVE blocks'[b].va_fileid < ID
  <2>1. blocks'[b] = FreeBlock \/ blocks'[b] = blocks[b]
    BY <1>4
  <2>2. FreeBlock.va_fileid = 0 /\ 0 < ID
    BY StoreAssumption DEF FreeBlock, IInv, TypeOK
  <2>. QED  BY <2>1, <2>2 DEF IInv, IdsUnique
<1>8. ASSUME NEW b \in Blocks,
             \/ blocks[b].va_fileid # e.va_fileid
             \/ blocks[b].idx < n
      PROVE  blocks'[b] = blocks[b]
  <2>1. ~ \E i \in freed : b \in BLOCKFETCH(e.va_fileid, i)
    BY <1>1, <1>8, FoundBlock
  <2>. QED  BY <1>4, <2>1
<1>9. ASSUME NEW t \in Slots, Live(t), t # s,
             NEW i \in 0..(entries[t].numblocks - 1)
      PROVE  \E b \in Blocks : /\ blocks'[b].va_fileid = entries[t].va_fileid
                               /\ blocks'[b].idx = i
  <2>1. PICK b \in Blocks : /\ blocks[b].va_fileid = entries[t].va_fileid
                            /\ blocks[b].idx = i
    BY <1>9 DEF IInv, BlocksCovered, Holders
  <2>2. entries[t].va_fileid # e.va_fileid
    BY <1>9 DEF IInv, IdsUnique
  <2>. QED  BY <1>8, <2>1, <2>2
<1>10. ASSUME NEW i \in 0..(n - 1)
       PROVE  \E b \in Blocks : /\ blocks'[b].va_fileid = e.va_fileid
                                /\ blocks'[b].idx = i
  <2>1. i \in 0..(e.numblocks - 1)
    BY <1>1
  <2>2. PICK b \in Blocks : blocks[b].va_fileid = e.va_fileid /\ blocks[b].idx = i
    BY <2>1 DEF IInv, BlocksCovered, Holders
  <2>. QED  BY <1>8, <2>2
<1>. QED
  BY <1>3, <1>6, <1>7, <1>9, <1>10 DEF Covering

\* Growing gives the file a block for each index it did not have, and takes
\* none from another file, also when it runs out of blocks half way.
LEMMA GrowKeeps ==
  ASSUME IInv, NEW s \in Slots, Live(s), NEW n \in Nat, NEW err,
         Grow(s, n, err)
  PROVE  Covering(s, IF err = 0 THEN n ELSE entries[s].numblocks)
<1> DEFINE e == entries[s]
<1>1. /\ e \in Entry /\ e.numblocks \in Nat
      /\ e.va_fileid \in 0..MaxID /\ e.va_fileid < ID
  BY DEF IInv, TypeOK, Entry, IdsUnique
<1> DEFINE Grants(stop, grant) ==
        /\ \A i, j \in e.numblocks..(stop - 1) : i < j => grant[i] < grant[j]
        /\ stop < n => {grant[i] : i \in e.numblocks..(stop - 1)} = FreeBlocks
        /\ err = (IF stop < n THEN ENOBLOCKSFREE ELSE 0)
        /\ blocks' = [b \in Blocks |->
             IF b \in {grant[i] : i \in e.numblocks..(stop - 1)}
             THEN [va_fileid |-> e.va_fileid, data |-> ZeroData,
                   idx |-> CHOOSE i \in e.numblocks..(stop - 1) : grant[i] = b]
             ELSE blocks[b]]
<1>a. PICK stop \in e.numblocks..n :
        \E grant \in [e.numblocks..(stop - 1) -> FreeBlocks] : Grants(stop, grant)
  BY DEF Grow
<1>b. PICK grant \in [e.numblocks..(stop - 1) -> FreeBlocks] : Grants(stop, grant)
  BY <1>a
<1>2. /\ stop \in e.numblocks..n
      /\ grant \in [e.numblocks..(stop - 1) -> FreeBlocks]
      /\ Grants(stop, grant)
  BY <1>a, <1>b
<1> DEFINE range   == e.numblocks..(stop - 1)
           granted == {grant[i] : i \in range}
<1>3. \A i \in range : /\ grant[i] \in Blocks
                       /\ blocks[grant[i]].va_fileid = 0
  BY <1>2 DEF FreeBlocks
<1>4. \A i, j \in range : grant[i] = grant[j] => i = j
  <2> SUFFICES ASSUME NEW i \in range, NEW j \in range, grant[i] = grant[j], i # j
               PROVE  FALSE
    OBVIOUS
  <2>1. i \in Int /\ j \in Int /\ grant[i] \in Int /\ grant[j] \in Int
    BY <1>1, <1>2, <1>3 DEF Blocks
  <2>2. grant[i] < grant[j] \/ grant[j] < grant[i]
    BY <1>2, <2>1
  <2>. QED  BY <2>1, <2>2
<1>5. ASSUME NEW i \in range
      PROVE  /\ blocks'[grant[i]].va_fileid = e.va_fileid
             /\ blocks'[grant[i]].idx = i
             /\ blocks'[grant[i]] \in Block
  <2>1. (CHOOSE j \in range : grant[j] = grant[i]) = i
    BY <1>4
  <2>2. blocks'[grant[i]] = [va_fileid |-> e.va_fileid, data |-> ZeroData,
                             idx |-> i]
    BY <1>2, <1>3, <2>1
  <2>3. ZeroData \in [Offsets -> Bytes \cup {0, Garbage}]
    BY DEF ZeroData
  <2>4. i \in Nat
    BY <1>1, <1>2
  <2>. HIDE DEF e, range
  <2>. QED  BY <1>1, <2>2, <2>3, <2>4 DEF Block
<1>6. \A b \in Blocks : blocks[b].va_fileid # 0 => blocks'[b] = blocks[b]
  BY <1>2, <1>3
<1>7. \A b \in Blocks : b \in granted \/ blocks'[b] = blocks[b]
  BY <1>2
<1>8. blocks' \in [Blocks -> Block]
  <2>1. \A i \in range : blocks'[grant[i]] \in Block
    BY <1>5
  <2>2. \A b \in Blocks : blocks'[b] \in Block
    BY <1>7, <2>1 DEF IInv, TypeOK
  <2>. QED  BY <1>2, <2>2
<1>9. \A b \in Blocks : blocks'[b].va_fileid < ID
  <2>1. \A i \in range : blocks'[grant[i]].va_fileid = e.va_fileid
    BY <1>5
  <2>. QED  BY <1>1, <1>7, <2>1 DEF IInv, IdsUnique
<1>10. ASSUME NEW t \in Slots, Live(t),
              NEW i \in 0..(entries[t].numblocks - 1)
       PROVE  \E b \in Blocks : /\ blocks'[b].va_fileid = entries[t].va_fileid
                                /\ blocks'[b].idx = i
  <2>1. PICK b \in Blocks : /\ blocks[b].va_fileid = entries[t].va_fileid
                            /\ blocks[b].idx = i
    BY <1>10 DEF IInv, BlocksCovered, Holders
  <2>. QED  BY <1>6, <1>10, <2>1 DEF Live
<1>11. ASSUME err = 0, NEW i \in 0..(n - 1)
       PROVE  \E b \in Blocks : /\ blocks'[b].va_fileid = e.va_fileid
                                /\ blocks'[b].idx = i
  <2>1. stop = n
    BY <1>1, <1>2, <1>11 DEF ENOBLOCKSFREE
  <2>2. i \in range \/ i \in 0..(e.numblocks - 1)
    BY <1>1, <2>1
  <2>3. CASE i \in range
    BY <1>3, <1>5, <2>3
  <2>4. CASE i \in 0..(e.numblocks - 1)
    BY <1>10, <2>4
  <2>. QED  BY <2>2, <2>3, <2>4
<1>. QED
  BY <1>8, <1>9, <1>10, <1>11 DEF Covering

\* entry_setsize keeps the invariant, whatever it returns.
LEMMA SetsizeKeeps ==
  ASSUME IInv, NEW s \in Slots, Live(s), NEW n \in Nat, NEW err,
         entry_setsize(s, n, err), ID' = ID
  PROVE  /\ entries' \in [Slots -> Entry] /\ blocks' \in [Blocks -> Block]
         /\ IdsUnique' /\ SizesAgree' /\ BlocksCovered' /\ IdsStep
<1> DEFINE e         == entries[s]
           newblocks == BLOCKNUM(n) + 1
<1>1. /\ e \in Entry /\ e.numblocks \in Nat /\ e.datalen \in Nat
      /\ e.va_size \in Nat /\ e.datalen = e.va_size
      /\ \/ e.numblocks = BLOCKNUM(e.va_size) + 1
         \/ e.numblocks = 0 /\ e.va_size = 0
  BY DEF IInv, TypeOK, Entry, SizesAgree
<1>2. newblocks \in Nat
  BY DivMod
<1>3. CASE /\ ~(n > e.datalen % BlockSize) /\ ~(n < e.va_size)
           /\ entries' = [entries EXCEPT ![s].va_size = n]
           /\ UNCHANGED blocks
  <2>1. n = e.va_size
    <3>1. e.datalen % BlockSize \in Nat /\ e.datalen % BlockSize <= e.datalen
      BY <1>1, ModBound
    <3>. QED  BY <1>1, <1>3, <3>1
  <2>2. entries' = entries
    <3>1. [e EXCEPT !.va_size = e.va_size] = e
      <4>. HIDE DEF e
      <4>. QED  BY <1>1 DEF Entry
    <3>2. entries'[s] = [e EXCEPT !.va_size = n]
      BY <1>3 DEF IInv, TypeOK
    <3>3. \A t \in Slots : t # s => entries'[t] = entries[t]
      BY <1>3 DEF IInv, TypeOK
    <3>4. /\ entries' = [t \in Slots |-> entries'[t]]
          /\ entries = [t \in Slots |-> entries[t]]
      BY <1>3 DEF IInv, TypeOK
    <3>5. \A t \in Slots : entries'[t] = entries[t]
      BY <2>1, <3>1, <3>2, <3>3
    <3>. QED
      <4>1. [t \in Slots |-> entries'[t]] = [t \in Slots |-> entries[t]]
        BY <3>5
      <4>. QED  BY <3>4, <4>1, Zenon
  <2>3. blocks' = blocks
    BY <1>3
  <2>4. entries' \in [Slots -> Entry] /\ blocks' \in [Blocks -> Block]
    BY <2>2, <2>3 DEF IInv, TypeOK
  <2>5. IdsUnique'
    BY <2>2, <2>3 DEF IInv, IdsUnique, Live
  <2>6. SizesAgree'
    BY <2>2, <2>3 DEF IInv, SizesAgree, Live, BLOCKNUM
  <2>7. BlocksCovered'
    BY <2>2, <2>3 DEF IInv, BlocksCovered, Live, Holders
  <2>. QED  BY <2>2, <2>4, <2>5, <2>6, <2>7 DEF IdsStep
<1>4. CASE /\ IF n < e.va_size THEN Shrink(s, newblocks, err)
                               ELSE Grow(s, newblocks, err)
           /\ entries' = IF err = 0
                         THEN [entries EXCEPT ![s].va_size = n,
                                              ![s].datalen = n,
                                              ![s].numblocks = newblocks]
                         ELSE entries
  <2>1. Covering(s, IF err = 0 THEN newblocks ELSE e.numblocks)
    <3>1. CASE n < e.va_size
      <4>1. newblocks <= e.numblocks
        <5>1. BLOCKNUM(n) <= BLOCKNUM(e.va_size) /\ BLOCKNUM(e.va_size) \in Nat
          BY <1>1, <3>1, DivMonotone, DivMod
        <5>. QED  BY <1>1, <1>2, <3>1, <5>1, DivMod
      <4>. QED  BY <1>2, <1>4, <3>1, <4>1, ShrinkKeeps
    <3>2. CASE ~(n < e.va_size)
      BY <1>2, <1>4, <3>2, GrowKeeps
    <3>. QED  BY <3>1, <3>2
  <2>2. /\ entries' \in [Slots -> Entry]
        /\ \A t \in Slots : t # s => entries'[t] = entries[t]
        /\ entries'[s].va_fileid = e.va_fileid
        /\ entries'[s].numblocks = IF err = 0 THEN newblocks ELSE e.numblocks
        /\ err = 0 => entries'[s].va_size = n /\ entries'[s].datalen = n
        /\ err # 0 => entries'[s] = e
    <3>1. CASE err = 0
      <4>. HIDE DEF newblocks
      <4>. QED  BY <1>1, <1>2, <1>4, <3>1 DEF IInv, TypeOK, Entry
    <3>2. CASE err # 0
      BY <1>4, <3>2 DEF IInv, TypeOK
    <3>. QED  BY <3>1, <3>2
  <2>3. \A t \in Slots : entries'[t].va_fileid = entries[t].va_fileid
    BY <2>2
  <2>4. IdsUnique'
    BY <2>1, <2>3 DEF Covering, IInv, IdsUnique, Live
  <2>5. SizesAgree'
    <3> SUFFICES ASSUME NEW t \in Slots, Live(t)'
                 PROVE  /\ entries'[t].datalen = entries'[t].va_size
                        /\ \/ entries'[t].numblocks =
                                BLOCKNUM(entries'[t].va_size) + 1
                           \/ entries'[t].numblocks = 0 /\ entries'[t].va_size = 0
      BY DEF SizesAgree, BLOCKNUM
    <3>1. CASE t # s
      BY <2>2, <3>1 DEF IInv, SizesAgree, Live
    <3>2. CASE t = s
      BY <1>1, <2>2, <3>2
    <3>. QED  BY <3>1, <3>2
  <2>6. BlocksCovered'
    <3> SUFFICES ASSUME NEW t \in Slots, Live(t)',
                        NEW i \in 0..(entries'[t].numblocks - 1)
                 PROVE  \E b \in Blocks :
                          /\ blocks'[b].va_fileid = entries'[t].va_fileid
                          /\ blocks'[b].idx = i
      BY DEF BlocksCovered, Holders
    <3>1. CASE t # s
      BY <2>1, <2>2, <2>3, <3>1 DEF Covering, Live
    <3>2. CASE t = s
      BY <2>1, <2>2, <3>2 DEF Covering
    <3>. QED  BY <3>1, <3>2
  <2>. QED  BY <2>1, <2>2, <2>3, <2>4, <2>5, <2>6 DEF Covering, IdsStep
<1>. QED
  BY <1>3, <1>4 DEF entry_setsize, Resized

-----------------------------------------------------------------------------
(* The handlers keep the invariant.                                        *)

\* A handler that only answers, or hangs.
LEMMA UnchangedKeeps ==
  ASSUME IInv, UnchangedStore, hung' \in BOOLEAN
  PROVE  IInv' /\ IdsStep
<1>1. TypeOK'
  BY DEF IInv, TypeOK, UnchangedStore
<1>2. IdsUnique'
  BY DEF IInv, IdsUnique, UnchangedStore, Live
<1>3. SizesAgree'
  BY DEF IInv, SizesAgree, UnchangedStore, Live, BLOCKNUM
<1>4. BlocksCovered'
  BY DEF IInv, BlocksCovered, UnchangedStore, Live, Holders
<1>5. IdsStep
  BY DEF UnchangedStore, IdsStep
<1>. QED  BY <1>1, <1>2, <1>3, <1>4, <1>5 DEF IInv

\* A step that leaves the blocks, the ids and the sizes of the entries alone.
LEMMA LinksKeep ==
  ASSUME IInv, entries' \in [Slots -> Entry], UNCHANGED <<blocks, ID, writing>>,
         hung' \in BOOLEAN,
         \A s \in Slots : /\ entries'[s].va_fileid = entries[s].va_fileid
                          /\ entries'[s].va_size = entries[s].va_size
                          /\ entries'[s].datalen = entries[s].datalen
                          /\ entries'[s].numblocks = entries[s].numblocks
  PROVE  IInv' /\ IdsStep
<1>1. TypeOK'
  BY DEF IInv, TypeOK
<1>2. IdsUnique'
  BY DEF IInv, IdsUnique, Live
<1>3. SizesAgree'
  BY DEF IInv, SizesAgree, Live, BLOCKNUM
<1>4. BlocksCovered'
  BY DEF IInv, BlocksCovered, Live, Holders
<1>. QED  BY <1>1, <1>2, <1>3, <1>4 DEF IInv, IdsStep

\* handle_rm_request changes links and link counts only.
LEMMA RmKeeps ==
  ASSUME IInv, NEW id, NEW n, handle_rm_request(id, n)
  PROVE  IInv' /\ IdsStep
<1>1. hung' \in BOOLEAN
  BY DEF handle_rm_request, Respond, Hang, IInv, TypeOK
<1>2. CASE UNCHANGED entries
  BY <1>1, <1>2, UnchangedKeeps DEF handle_rm_request, UnchangedStore
<1>3. CASE \E p \in find_by_id(id), ent \in Slots :
             entries' = Unlinked(p, ent)
  <2>1. PICK p \in find_by_id(id), ent \in Slots :
             entries' = Unlinked(p, ent)
    BY <1>3
  <2> DEFINE link(s)  == IF s = ent THEN (entries[s].va_nlink - 1 + U32) % U32
                         ELSE entries[s].va_nlink
             after(s) == IF \E k \in Preceding(p, ent) : s = Chain(entries, p)[k]
                         THEN entries[ent].next ELSE entries[s].next
  <2>2. ASSUME NEW s \in Slots
        PROVE  /\ entries[s] \in Entry
               /\ link(s) \in 0..(U32 - 1) /\ after(s) \in Slots \cup {NULL}
    <3>1. entries[s] \in Entry /\ entries[ent] \in Entry
      BY DEF IInv, TypeOK
    <3>2. entries[s].va_nlink \in 0..(U32 - 1)
      BY <3>1 DEF Entry
    <3>3. link(s) \in 0..(U32 - 1)
      BY <3>2, StoreAssumption
    <3>. QED  BY <3>1, <3>3 DEF Entry
  <2>3. ASSUME NEW s \in Slots
        PROVE  entries'[s] = [entries[s] EXCEPT !.va_nlink = link(s),
                                                !.next = after(s)]
    BY <2>1 DEF Unlinked
  <2>. HIDE DEF link, after
  <2>4. ASSUME NEW s \in Slots
        PROVE  /\ entries'[s] \in Entry
               /\ entries'[s].va_fileid = entries[s].va_fileid
               /\ entries'[s].va_size = entries[s].va_size
               /\ entries'[s].datalen = entries[s].datalen
               /\ entries'[s].numblocks = entries[s].numblocks
    <3>1. /\ entries[s] \in Entry
          /\ link(s) \in 0..(U32 - 1) /\ after(s) \in Slots \cup {NULL}
      BY <2>2
    <3>2. entries'[s] = [entries[s] EXCEPT !.va_nlink = link(s),
                                           !.next = after(s)]
      BY <2>3
    <3> DEFINE e == entries[s]
               f == entries'[s]
               l == link(s)
               x == after(s)
    <3>3. e \in Entry /\ l \in 0..(U32 - 1) /\ x \in Slots \cup {NULL}
          /\ f = [e EXCEPT !.va_nlink = l, !.next = x]
      BY <3>1, <3>2
    <3>. HIDE DEF e, f, l, x
    <3>4. /\ f \in Entry
          /\ f.va_fileid = e.va_fileid /\ f.va_size = e.va_size
          /\ f.datalen = e.datalen /\ f.numblocks = e.numblocks
      BY <3>3 DEF Entry
    <3>. QED  BY <3>4 DEF e, f
  <2>5. entries' \in [Slots -> Entry]
    BY <2>1, <2>4 DEF Unlinked
  <2>. QED  BY <1>1, <2>4, <2>5, LinksKeep DEF handle_rm_request
<1>. QED
  BY <1>2, <1>3 DEF handle_rm_request

\* handle_reclaim_request frees a slot and blocks that no live file owns.
LEMMA ReclaimKeeps ==
  ASSUME IInv, NEW id \in FileIds, handle_reclaim_request(id)
  PROVE  IInv' /\ IdsStep
<1>1. CASE UNCHANGED <<entries, blocks>>
  BY <1>1, UnchangedKeeps
  DEF handle_reclaim_request, UnchangedStore, Respond, IInv, TypeOK
<1>2. CASE \E s \in find_by_id(id) :
             /\ entries' = [entries EXCEPT ![s].va_fileid = 0]
             /\ blocks' = [b \in Blocks |->
                             IF blocks[b].va_fileid = entries'[s].va_fileid
                             THEN FreeBlock ELSE blocks[b]]
             /\ UNCHANGED <<ID, writing, hung>>
  <2>1. PICK s \in find_by_id(id) :
             /\ entries' = [entries EXCEPT ![s].va_fileid = 0]
             /\ blocks' = [b \in Blocks |->
                             IF blocks[b].va_fileid = entries'[s].va_fileid
                             THEN FreeBlock ELSE blocks[b]]
    BY <1>2
  <2>2. s \in Slots /\ entries[s] \in Entry /\ ID > 0
    BY FoundById DEF IInv, TypeOK
  <2>3. /\ entries' \in [Slots -> Entry]
        /\ entries'[s].va_fileid = 0
        /\ \A t \in Slots : t # s => entries'[t] = entries[t]
    BY <2>1, <2>2, StoreAssumption DEF IInv, TypeOK, Entry
  <2>4. FreeBlock \in Block /\ FreeBlock.va_fileid = 0
    BY StoreAssumption DEF FreeBlock, Block, ZeroData
  <2>5. ASSUME NEW b \in Blocks
        PROVE  /\ blocks'[b] \in Block
               /\ blocks[b].va_fileid # 0 => blocks'[b] = blocks[b]
               /\ blocks'[b] = blocks[b] \/ blocks'[b].va_fileid = 0
    BY <2>1, <2>3, <2>4 DEF IInv, TypeOK
  <2>6. TypeOK'
    <3>1. blocks' \in [Blocks -> Block]
      BY <2>1, <2>5
    <3>. QED  BY <1>2, <2>3, <3>1 DEF IInv, TypeOK
  <2>7. IdsUnique'
    <3>1. \A t \in Slots : entries'[t].va_fileid < ID
      BY <2>2, <2>3 DEF IInv, IdsUnique
    <3>2. \A t, u \in Slots : entries'[t].va_fileid # 0
            /\ entries'[t].va_fileid = entries'[u].va_fileid => t = u
      BY <2>3 DEF IInv, IdsUnique, Live
    <3>3. \A b \in Blocks : blocks'[b].va_fileid < ID
      BY <2>2, <2>5 DEF IInv, IdsUnique
    <3>. QED  BY <1>2, <3>1, <3>2, <3>3 DEF IdsUnique, Live
  <2>8. \A t \in Slots : entries'[t].va_fileid # 0 =>
          entries'[t] = entries[t] /\ Live(t)
    BY <2>3 DEF Live
  <2>9. SizesAgree'
    BY <2>8 DEF IInv, SizesAgree, Live, BLOCKNUM
  <2>10. BlocksCovered'
    <3> SUFFICES ASSUME NEW t \in Slots, entries'[t].va_fileid # 0,
                        NEW i \in 0..(entries'[t].numblocks - 1)
                 PROVE  \E b \in Blocks :
                          /\ blocks'[b].va_fileid = entries'[t].va_fileid
                          /\ blocks'[b].idx = i
      BY DEF BlocksCovered, Holders, Live
    <3>1. PICK b \in Blocks : /\ blocks[b].va_fileid = entries[t].va_fileid
                              /\ blocks[b].idx = i
      BY <2>8 DEF IInv, BlocksCovered, Holders
    <3>. QED  BY <2>5, <2>8, <3>1
  <2>11. IdsStep
    BY <2>3 DEF IdsStep
  <2>. QED  BY <2>6, <2>7, <2>9, <2>10, <2>11 DEF IInv
<1>. QED
  BY <1>1, <1>2 DEF handle_reclaim_request, Respond

\* handle_create_request gives a free slot an id no entry or block has.
LEMMA CreateKeeps ==
  ASSUME IInv, NEW id, NEW n \in Names, NEW vt \in {"VREG", "VDIR"},
         handle_create_request(id, n, vt)
  PROVE  IInv' /\ IdsStep
<1>1. hung' \in BOOLEAN
  BY DEF handle_create_request, Respond, Hang, IInv, TypeOK
<1>2. CASE UNCHANGED <<entries, ID>>
  BY <1>1, <1>2, UnchangedKeeps DEF handle_create_request, UnchangedStore
<1>3. CASE ~ UNCHANGED <<entries, ID>>
  <2>1. PICK p \in find_by_id(id), s \in First(FreeSlots) :
          /\ ID <= MaxID
          /\ ID' = ID + 1
          /\ LET inited == [entries EXCEPT ![s] = NewEntry(ID, vt, @.name)] IN
             \/ entries' = [inited EXCEPT ![p].child = s, ![s].name = n]
             \/ \E last \in LastOf(inited, p) :
                  entries' = [inited EXCEPT ![last].next = s,
                                            ![s].va_nlink = @ + 1,
                                            ![s].name = n]
             \/ entries' = inited
    BY <1>3 DEF handle_create_request, entry_init
  <2> DEFINE new    == NewEntry(ID, vt, entries[s].name)
             inited == [entries EXCEPT ![s] = new]
  <2>2. /\ p \in Slots /\ s \in Slots /\ entries[s].va_fileid = 0
        /\ ID \in Nat /\ ID <= MaxID /\ UNCHANGED <<blocks, writing>>
    <3>1. p \in Slots
      BY FoundById
    <3>2. s \in Slots /\ entries[s].va_fileid = 0
      BY DEF First, FreeSlots
    <3>3. ID \in Nat
      BY StoreAssumption DEF IInv, TypeOK
    <3>4. UNCHANGED <<blocks, writing>>
      BY DEF handle_create_request, entry_init
    <3>. QED  BY <2>1, <3>1, <3>2, <3>3, <3>4
  <2>3. /\ new \in Entry /\ new.va_fileid = ID /\ new.va_size = 0
        /\ new.datalen = 0 /\ new.numblocks = 0
        /\ new.va_nlink \in 0..1
    <3>1. entries[s].name \in Names \cup {NoName}
      BY <2>2 DEF IInv, TypeOK, Entry
    <3>. QED  BY <2>2, <3>1, StoreAssumption DEF NewEntry, Entry, NULL
  <2>. HIDE DEF new
  <2>4. /\ inited \in [Slots -> Entry]
        /\ inited[s] = new
        /\ \A t \in Slots : t # s => inited[t] = entries[t]
    BY <2>2, <2>3 DEF IInv, TypeOK
  <2>. HIDE DEF inited
  <2>5. /\ entries' \in [Slots -> Entry]
        /\ \A t \in Slots : /\ entries'[t].va_fileid = inited[t].va_fileid
                            /\ entries'[t].va_size = inited[t].va_size
                            /\ entries'[t].datalen = inited[t].datalen
                            /\ entries'[t].numblocks = inited[t].numblocks
    <3>1. CASE entries' = [inited EXCEPT ![p].child = s, ![s].name = n]
      <4> DEFINE one == [inited EXCEPT ![p].child = s]
      <4>1. /\ one \in [Slots -> Entry]
            /\ \A t \in Slots : /\ one[t].va_fileid = inited[t].va_fileid
                                /\ one[t].va_size = inited[t].va_size
                                /\ one[t].datalen = inited[t].datalen
                                /\ one[t].numblocks = inited[t].numblocks
        BY <2>2, <2>4 DEF Entry
      <4>2. entries' = [one EXCEPT ![s].name = n]
        BY <3>1
      <4>. HIDE DEF one
      <4>. QED  BY <2>2, <4>1, <4>2 DEF Entry
    <3>2. CASE \E last \in LastOf(inited, p) :
                 entries' = [inited EXCEPT ![last].next = s,
                                           ![s].va_nlink = @ + 1,
                                           ![s].name = n]
      <4>1. PICK last \in LastOf(inited, p) :
                 entries' = [inited EXCEPT ![last].next = s,
                                           ![s].va_nlink = @ + 1,
                                           ![s].name = n]
        BY <3>2
      <4> DEFINE one == [inited EXCEPT ![last].next = s]
                 two == [one EXCEPT ![s].va_nlink = @ + 1]
      <4>2. last \in Slots
        BY DEF LastOf
      <4>3. /\ one \in [Slots -> Entry]
            /\ one[s].va_nlink \in 0..1
            /\ \A t \in Slots : /\ one[t].va_fileid = inited[t].va_fileid
                                /\ one[t].va_size = inited[t].va_size
                                /\ one[t].datalen = inited[t].datalen
                                /\ one[t].numblocks = inited[t].numblocks
        BY <2>2, <2>3, <2>4, <4>2 DEF Entry
      <4>4. entries' = [two EXCEPT ![s].name = n]
        BY <4>1
      <4>. HIDE DEF one
      <4>5. /\ two \in [Slots -> Entry]
            /\ \A t \in Slots : /\ two[t].va_fileid = inited[t].va_fileid
                                /\ two[t].va_size = inited[t].va_size
                                /\ two[t].datalen = inited[t].datalen
                                /\ two[t].numblocks = inited[t].numblocks
        <5>1. one[s].va_nlink + 1 \in 0..(U32 - 1)
          BY <4>3, StoreAssumption
        <5>. QED  BY <2>2, <4>3, <5>1 DEF Entry
      <4>. HIDE DEF two
      <4>. QED  BY <2>2, <4>4, <4>5 DEF Entry
    <3>3. CASE entries' = inited
      BY <2>4, <3>3
    <3>. QED  BY <2>1, <3>1, <3>2, <3>3 DEF inited, new
  <2>6. TypeOK'
    BY <1>1, <2>1, <2>2, <2>5, StoreAssumption DEF IInv, TypeOK
  <2>7. IdsUnique'
    <3>1. \A t \in Slots : entries[t].va_fileid < ID
      BY DEF IInv, IdsUnique
    <3>2. \A t \in Slots : entries'[t].va_fileid =
            IF t = s THEN ID ELSE entries[t].va_fileid
      BY <2>3, <2>4, <2>5
    <3>3. \A t \in Slots : entries[t].va_fileid \in Nat
      BY StoreAssumption DEF IInv, TypeOK, Entry
    <3>4. \A t \in Slots : entries'[t].va_fileid < ID'
      BY <2>1, <2>2, <3>1, <3>2, <3>3
    <3>5. \A t, u \in Slots :
            entries'[t].va_fileid # 0 /\ entries'[t].va_fileid = entries'[u].va_fileid
            => t = u
      BY <2>2, <3>1, <3>2, <3>3 DEF IInv, IdsUnique, Live
    <3>6. \A b \in Blocks : blocks'[b].va_fileid < ID'
      BY <2>1, <2>2, StoreAssumption DEF IInv, IdsUnique, TypeOK, Block
    <3>. QED  BY <3>4, <3>5, <3>6 DEF IdsUnique, Live
  <2>8. SizesAgree'
    BY <2>3, <2>4, <2>5 DEF IInv, SizesAgree, Live, BLOCKNUM
  <2>9. BlocksCovered'
    <3> SUFFICES ASSUME NEW t \in Slots, entries'[t].va_fileid # 0,
                        NEW i \in 0..(entries'[t].numblocks - 1)
                 PROVE  \E b \in Blocks :
                          /\ blocks'[b].va_fileid = entries'[t].va_fileid
                          /\ blocks'[b].idx = i
      BY DEF BlocksCovered, Holders, Live
    <3>1. t # s
      BY <2>3, <2>4, <2>5
    <3>2. /\ entries'[t].va_fileid = entries[t].va_fileid
          /\ entries'[t].numblocks = entries[t].numblocks
      BY <2>4, <2>5, <3>1
    <3>. QED  BY <2>2, <3>2 DEF IInv, BlocksCovered, Holders, Live
  <2>10. IdsStep
    BY <2>3, <2>4, <2>5 DEF IdsStep
  <2>. QED  BY <2>6, <2>7, <2>8, <2>9, <2>10 DEF IInv
<1>. QED
  BY <1>2, <1>3

\* handle_setsize_request keeps the invariant though it drops the result.
LEMMA SetsizeRequestKeeps ==
  ASSUME IInv, NEW id \in FileIds, NEW size \in Nat,
         handle_setsize_request(id, size)
  PROVE  IInv' /\ IdsStep
<1>1. UNCHANGED <<ID, writing, hung>>
  BY DEF handle_setsize_request, Respond
<1>2. CASE UNCHANGED <<entries, blocks>>
  BY <1>1, <1>2, UnchangedKeeps DEF UnchangedStore, IInv, TypeOK
<1>3. CASE \E s \in find_by_id(id), err \in SetsizeResults :
             entry_setsize(s, size, err)
  <2>1. PICK s \in find_by_id(id), err \in SetsizeResults :
          entry_setsize(s, size, err)
    BY <1>3
  <2>2. s \in Slots /\ Live(s)
    BY FoundById DEF Live, FileIds
  <2>3. /\ entries' \in [Slots -> Entry] /\ blocks' \in [Blocks -> Block]
        /\ IdsUnique' /\ SizesAgree' /\ BlocksCovered' /\ IdsStep
    BY <1>1, <2>1, <2>2, SetsizeKeeps
  <2>. QED  BY <1>1, <2>3 DEF IInv, TypeOK
<1>. QED
  BY <1>2, <1>3 DEF handle_setsize_request

\* handle_write_request keeps it, also when the growth fails half way.
LEMMA WriteRequestKeeps ==
  ASSUME IInv, NEW id \in FileIds, NEW offset \in Nat, NEW resid \in Nat,
         handle_write_request(id, offset, resid)
  PROVE  IInv' /\ IdsStep
<1>1. UNCHANGED <<ID, hung>>
  BY DEF handle_write_request, Respond
<1>2. CASE UNCHANGED <<entries, blocks, writing>>
  BY <1>1, <1>2, UnchangedKeeps DEF UnchangedStore, IInv, TypeOK
<1>3. CASE \E s \in find_by_id(id), err \in SetsizeResults :
             /\ IF offset + resid > entries[s].va_size
                THEN entry_setsize(s, offset + resid, err)
                ELSE err = 0 /\ UNCHANGED <<entries, blocks>>
             /\ writing' = IF err = 0 /\ resid > 0
                           THEN [slot |-> s, offset |-> offset, resid |-> resid]
                           ELSE Idle
  <2>1. PICK s \in find_by_id(id), err \in SetsizeResults :
             /\ IF offset + resid > entries[s].va_size
                THEN entry_setsize(s, offset + resid, err)
                ELSE err = 0 /\ UNCHANGED <<entries, blocks>>
             /\ writing' = IF err = 0 /\ resid > 0
                           THEN [slot |-> s, offset |-> offset, resid |-> resid]
                           ELSE Idle
    BY <1>3
  <2>2. s \in Slots /\ Live(s)
    BY FoundById DEF Live, FileIds
  <2>3. writing' \in [slot : Slots \cup {NULL}, offset : Nat, resid : Nat]
    BY <2>1, <2>2 DEF Idle
  <2>4. /\ entries' \in [Slots -> Entry] /\ blocks' \in [Blocks -> Block]
        /\ IdsUnique' /\ SizesAgree' /\ BlocksCovered' /\ IdsStep
    <3>1. CASE entry_setsize(s, offset + resid, err)
      BY <1>1, <2>2, <3>1, SetsizeKeeps
    <3>2. CASE UNCHANGED <<entries, blocks>>
      <4>1. entries' \in [Slots -> Entry] /\ blocks' \in [Blocks -> Block]
        BY <3>2 DEF IInv, TypeOK
      <4>2. IdsUnique'
        BY <1>1, <3>2 DEF IInv, IdsUnique, Live
      <4>3. SizesAgree'
        BY <3>2 DEF IInv, SizesAgree, Live, BLOCKNUM
      <4>4. BlocksCovered'
        BY <3>2 DEF IInv, BlocksCovered, Live, Holders
      <4>5. IdsStep
        BY <3>2 DEF IdsStep
      <4>. QED  BY <4>1, <4>2, <4>3, <4>4, <4>5
    <3>. QED  BY <2>1, <3>1, <3>2
  <2>. QED  BY <1>1, <2>3, <2>4 DEF IInv, TypeOK
<1>. QED
  BY <1>2, <1>3 DEF handle_write_request

\* A chunk changes the data of blocks, whole or overrun, and nothing else.
LEMMA ChunkKeeps ==
  ASSUME IInv, NEW chunk, handle_write_chunk(chunk)
  PROVE  IInv' /\ IdsStep
<1> DEFINE w       == writing
           len     == Least(w.resid, BlockSize)
           crosses == BLOCKOFF(w.offset) # 0 /\ w.resid > BlockSize
           copied  == IF crosses THEN w.resid ELSE len
           data    == [i \in 0..(copied - 1) |->
                         IF i < len THEN chunk[i] ELSE Garbage]
           id      == entries[w.slot].va_fileid
<1>1. /\ w \in [slot : Slots \cup {NULL}, offset : Nat, resid : Nat]
      /\ len \in Nat /\ copied \in Nat /\ copied <= w.resid
  BY StoreAssumption DEF IInv, TypeOK, Least
<1>2. /\ chunk \in [0..(len - 1) -> Bytes]
      /\ blocks' = Stored(id, w.offset, data)
      /\ writing' = IF copied = w.resid THEN Idle
                    ELSE [w EXCEPT !.offset = @ + copied, !.resid = @ - copied]
      /\ UNCHANGED <<entries, ID>>
  BY DEF handle_write_chunk
<1>3. hung' \in BOOLEAN
  BY DEF handle_write_chunk, Respond, Hang, IInv, TypeOK
<1>4. \A i \in DOMAIN data : data[i] \in Bytes \cup {0, Garbage}
  BY <1>1, <1>2
<1>5. writing' \in [slot : Slots \cup {NULL}, offset : Nat, resid : Nat]
  <2>1. Idle \in [slot : Slots \cup {NULL}, offset : Nat, resid : Nat]
    BY DEF Idle
  <2>2. w.offset + copied \in Nat /\ w.resid - copied \in Nat
    BY <1>1
  <2>. HIDE DEF w, copied
  <2>. QED  BY <1>1, <1>2, <2>1, <2>2
<1>. HIDE DEF data, id, w
<1>6. ASSUME NEW b \in Blocks
      PROVE  /\ blocks'[b] \in Block
             /\ blocks'[b].va_fileid = blocks[b].va_fileid
             /\ blocks'[b].idx = blocks[b].idx
  <2> DEFINE pos(o) == blocks[b].idx * BlockSize + o - w.offset
             d == [o \in Offsets |-> IF pos(o) \in DOMAIN data THEN data[pos(o)]
                                     ELSE blocks[b].data[o]]
  <2>1. blocks[b] \in Block
    BY DEF IInv, TypeOK
  <2>2. d \in [Offsets -> Bytes \cup {0, Garbage}]
    BY <1>4, <2>1 DEF Block
  <2>3. \/ blocks'[b] = blocks[b]
        \/ blocks'[b] = [blocks[b] EXCEPT !.data = d]
    BY <1>2 DEF Stored
  <2>. HIDE DEF d
  <2>. QED  BY <2>1, <2>2, <2>3 DEF Block
<1>7. blocks' \in [Blocks -> Block]
  BY <1>2, <1>6 DEF Stored
<1>8. TypeOK'
  BY <1>2, <1>3, <1>5, <1>7 DEF IInv, TypeOK
<1>9. IdsUnique'
  BY <1>2, <1>6 DEF IInv, IdsUnique, Live
<1>10. SizesAgree'
  BY <1>2 DEF IInv, SizesAgree, Live, BLOCKNUM
<1>11. BlocksCovered'
  BY <1>2, <1>6 DEF IInv, BlocksCovered, Live, Holders
<1>12. IdsStep
  BY <1>2 DEF IdsStep
<1>. QED  BY <1>8, <1>9, <1>10, <1>11, <1>12 DEF IInv

-----------------------------------------------------------------------------
(* The theorems.                                                           *)

\* The store main() sets up satisfies the invariant.
LEMMA InitIInv ==
  ASSUME Init PROVE IInv
<1>1. \A s \in Slots : /\ entries[s] \in Entry
                       /\ entries[s].va_size = 0 /\ entries[s].datalen = 0
                       /\ entries[s].numblocks = 0
                       /\ entries[s].va_fileid = IF s \in {1, 2} THEN s ELSE 0
  <2> TAKE s \in Slots
  <2>1. CASE s = 1
    BY <2>1, StoreAssumption
    DEF Init, Slots, NewEntry, Entry, NULL
  <2>2. CASE s = 2
    BY <2>2, StoreAssumption DEF Init, Slots, NewEntry, Entry, NULL
  <2>3. CASE s # 1 /\ s # 2
    <3>1. entries[s] = BlankEntry
      BY <2>3 DEF Init
    <3>2. BlankEntry \in Entry
      BY StoreAssumption DEF BlankEntry, Entry, NULL
    <3>. QED  BY <2>3, <3>1, <3>2 DEF BlankEntry
  <2>. QED  BY <2>1, <2>2, <2>3
<1>2. \A b \in Blocks : blocks[b] \in Block /\ blocks[b].va_fileid = 0
  BY StoreAssumption DEF Init, FreeBlock, ZeroData, Block
<1>3. ID = 3 /\ writing = Idle /\ hung = FALSE
  BY DEF Init
<1>4. /\ entries = [s \in Slots |-> entries[s]]
      /\ blocks = [b \in Blocks |-> blocks[b]]
  BY DEF Init
<1>5. TypeOK
  <2>1. entries \in [Slots -> Entry] /\ blocks \in [Blocks -> Block]
    BY <1>1, <1>2, <1>4
  <2>2. ID \in 3..(MaxID + 1)
    BY <1>3, StoreAssumption
  <2>. QED  BY <1>3, <2>1, <2>2 DEF TypeOK, Idle
<1>6. IdsUnique
  BY <1>1, <1>2, <1>3 DEF IdsUnique, Live, Slots
<1>7. SizesAgree
  BY <1>1 DEF SizesAgree
<1>8. BlocksCovered
  BY <1>1 DEF BlocksCovered
<1>. QED  BY <1>5, <1>6, <1>7, <1>8 DEF IInv

\* Every step keeps it.
LEMMA StepIInv ==
  ASSUME IInv, [Next]_vars PROVE IInv' /\ IdsStep
<1>1. CASE UNCHANGED vars
  BY <1>1, UnchangedKeeps DEF vars, UnchangedStore, IInv, TypeOK
<1>2. CASE Statvfs
  BY <1>2, UnchangedKeeps
  DEF Statvfs, handle_statvfs_request, Respond, IInv, TypeOK
<1>3. CASE Readdir
  BY <1>3, UnchangedKeeps
  DEF Readdir, handle_readdir_request, Respond, IInv, TypeOK
<1>4. CASE Lookup
  BY <1>4, UnchangedKeeps
  DEF Lookup, handle_lookup_request, Respond, Hang, IInv, TypeOK
<1>5. CASE Getattr
  BY <1>5, UnchangedKeeps
  DEF Getattr, handle_getattr_request, Respond, IInv, TypeOK
<1>6. CASE Create
  BY <1>6, CreateKeeps DEF Create
<1>7. CASE Mkdir
  BY <1>7, CreateKeeps DEF Mkdir
<1>8. CASE Rm
  BY <1>8, RmKeeps DEF Rm
<1>9. CASE Reclaim
  BY <1>9, ReclaimKeeps DEF Reclaim
<1>10. CASE Setsize
  BY <1>10, SetsizeRequestKeeps, StoreAssumption DEF Setsize, OfType
<1>11. CASE Read
  BY <1>11, UnchangedKeeps
  DEF Read, handle_read_request, Respond, IInv, TypeOK
<1>12. CASE Write
  BY <1>12, WriteRequestKeeps, StoreAssumption DEF Write, OfType
<1>13. CASE Chunk
  BY <1>13, ChunkKeeps DEF Chunk
<1>. QED
  BY <1>1, <1>2, <1>3, <1>4, <1>5, <1>6, <1>7, <1>8, <1>9, <1>10, <1>11,
     <1>12, <1>13 DEF Next

(* The types of the store's tables, for tables of any size.                *)
THEOREM TypeCorrect == Spec => []TypeOK
<1>1. Init => IInv
  BY InitIInv
<1>2. IInv /\ [Next]_vars => IInv'
  BY StepIInv
<1>3. IInv => TypeOK
  BY DEF IInv
<1>. QED  BY <1>1, <1>2, <1>3, PTL DEF Spec

(* find_by_id finds the one entry a file id stands for: ids stay unique    *)
(* over any run of creates, removes and reclaims.                          *)
THEOREM IdsStayUnique == Spec => []IdsUnique
<1>1. Init => IInv
  BY InitIInv
<1>2. IInv /\ [Next]_vars => IInv'
  BY StepIInv
<1>3. IInv => IdsUnique
  BY DEF IInv
<1>. QED  BY <1>1, <1>2, <1>3, PTL DEF Spec

(* va_size, datalen and numblocks of a live file say the same, after any   *)
(* sequence of writes, truncations and growths that run out of blocks half *)
(* way.                                                                    *)
THEOREM SizesStayAgreed == Spec => []SizesAgree
<1>1. Init => IInv
  BY InitIInv
<1>2. IInv /\ [Next]_vars => IInv'
  BY StepIInv
<1>3. IInv => SizesAgree
  BY DEF IInv
<1>. QED  BY <1>1, <1>2, <1>3, PTL DEF Spec

(* A live file has a block for every index below its numblocks, and its    *)
(* size fields agree, so no read or write within the size follows a null   *)
(* block and entry_setsize never fails with EBLOCKNOTFOUND.                *)
THEOREM BlocksStayCovered == Spec => [](SizesAgree /\ BlocksCovered)
<1>1. Init => IInv
  BY InitIInv
<1>2. IInv /\ [Next]_vars => IInv'
  BY StepIInv
<1>3. IInv => SizesAgree /\ BlocksCovered
  BY DEF IInv
<1>. QED  BY <1>1, <1>2, <1>3, PTL DEF Spec

(* A file id that went out of use never names a file again, for any number *)
(* of slots and any order of creates and reclaims.                         *)
THEOREM DeadIdsStayDead == Spec => DeadStayDeadAlways
<1>1. Init => IInv
  BY InitIInv
<1>2. IInv /\ [Next]_vars => IInv'
  BY StepIInv
<1>3. IInv /\ [Next]_vars => [DeadStayDead]_vars
  <2> SUFFICES ASSUME IInv, [Next]_vars,
                      NEW id \in 1..(ID - 1), id \notin LiveIds, id \in LiveIds'
               PROVE  FALSE
    BY DEF DeadStayDead
  <2>1. PICK s \in Slots : entries'[s].va_fileid = id
    BY DEF LiveIds
  <2>2. entries'[s].va_fileid \in {entries[s].va_fileid, 0, ID}
    BY StepIInv DEF IdsStep
  <2>3. entries[s].va_fileid # id
    BY DEF LiveIds, Live
  <2>4. ID \in Nat
    BY StoreAssumption DEF IInv, TypeOK
  <2>. QED  BY <2>1, <2>2, <2>3, <2>4
<1>. QED  BY <1>1, <1>2, <1>3, PTL DEF Spec, DeadStayDeadAlways

-----------------------------------------------------------------------------
(* The bytes of the files, on top of the inductive invariant.              *)

\* A write under way is one to a live file that has been made to hold it.
WriteFits ==
  writing # Idle =>
    /\ writing.slot \in Slots /\ Live(writing.slot)
    /\ writing.offset + writing.resid <= entries[writing.slot].va_size

-----------------------------------------------------------------------------
(* Where a byte is.                                                        *)

\* A step that leaves the blocks with a file's tag alone leaves the file's
\* bytes alone.
LEMMA SameBlocksSameBytes ==
  ASSUME NEW id, NEW o,
         \A b \in Blocks : blocks[b].va_fileid = id \/ blocks'[b].va_fileid = id
                           => blocks'[b] = blocks[b]
  PROVE  ByteAt(id, o)' = ByteAt(id, o)
<1>1. Holders(id, BLOCKNUM(o))' = Holders(id, BLOCKNUM(o))
  BY DEF Holders, BLOCKNUM
<1>2. BLOCKFETCH(id, BLOCKNUM(o))' = BLOCKFETCH(id, BLOCKNUM(o))
  BY <1>1 DEF BLOCKFETCH, First, BLOCKNUM
<1>3. \A b \in BLOCKFETCH(id, BLOCKNUM(o)) : blocks'[b] = blocks[b]
  BY FoundBlock
<1> DEFINE found == BLOCKFETCH(id, BLOCKNUM(o))
           b == CHOOSE x \in found : TRUE
<1>4. CASE found = {}
  BY <1>2, <1>4 DEF ByteAt
<1>5. CASE found # {}
  <2>1. b \in found
    BY <1>5
  <2>2. blocks'[b].data[BLOCKOFF(o)] = blocks[b].data[BLOCKOFF(o)]
    BY <1>3, <2>1
  <2>3. ByteAt(id, o)' = blocks'[b].data[BLOCKOFF(o)]
    BY <1>2, <1>5 DEF ByteAt, BLOCKOFF
  <2>4. ByteAt(id, o) = blocks[b].data[BLOCKOFF(o)]
    BY <1>5 DEF ByteAt
  <2>. QED
    BY <2>2, <2>3, <2>4
<1>. QED
  BY <1>4, <1>5

\* A live file is in one slot.
LEMMA OneSlot ==
  ASSUME IdsUnique, NEW s \in Slots, Live(s)
  PROVE  SlotOf(entries[s].va_fileid) = s
  BY DEF IdsUnique, SlotOf

\* A step that leaves the entry of a file and the blocks with its tag alone
\* leaves the file alone.
LEMMA FileUntouched ==
  ASSUME IdsUnique, IdsUnique', NEW s \in Slots, Live(s),
         entries'[s].va_fileid = entries[s].va_fileid,
         entries'[s].va_size = entries[s].va_size,
         \A b \in Blocks : \/ blocks[b].va_fileid = entries[s].va_fileid
                           \/ blocks'[b].va_fileid = entries[s].va_fileid
                           => blocks'[b] = blocks[b]
  PROVE  LET id == entries[s].va_fileid
         IN  /\ SizeOf(id)' = SizeOf(id)
             /\ \A o : ByteAt(id, o)' = ByteAt(id, o)
<1> DEFINE id == entries[s].va_fileid
<1>1. SlotOf(id) = s
  BY OneSlot
<1>2. (CHOOSE t \in Slots : entries'[t].va_fileid = id) = s
  BY DEF IdsUnique, Live
<1>3. SizeOf(id)' = entries'[s].va_size
  BY <1>2 DEF SizeOf, SlotOf
<1>. QED
  BY <1>1, <1>3, SameBlocksSameBytes DEF SizeOf

-----------------------------------------------------------------------------
(* What entry_setsize does, as far as the bytes are concerned.             *)

\* Blocks of the file in slot s that the scan finds, from index n on, are freed.
Freed(s, n) ==
  \A b \in Blocks :
    \/ blocks'[b] = blocks[b]
    \/ /\ blocks'[b] = FreeBlock
       /\ blocks[b].va_fileid = entries[s].va_fileid
       /\ blocks[b].idx \in n..(entries[s].numblocks - 1)

\* Of the blocks freed none is left that the scan found.
FreedAll(s, n) ==
  \A i \in n..(entries[s].numblocks - 1) :
    \A b \in BLOCKFETCH(entries[s].va_fileid, i) : blocks'[b] = FreeBlock

\* Free blocks become zeroed ones of the file in slot s, below index n.
Granted(s, n) ==
  \A b \in Blocks :
    \/ blocks'[b] = blocks[b]
    \/ /\ blocks[b].va_fileid = 0
       /\ blocks'[b].va_fileid = entries[s].va_fileid
       /\ blocks'[b].data = ZeroData
       /\ blocks'[b].idx \in entries[s].numblocks..(n - 1)

\* The size and the number of blocks of slot s, and of the others.
SizeStays(t) == /\ entries'[t].va_size = entries[t].va_size
                /\ entries'[t].numblocks = entries[t].numblocks
SizeBecomes(s, n) == /\ entries'[s].va_size = n
                     /\ entries'[s].numblocks = BLOCKNUM(n) + 1

LEMMA ShrinkFrees ==
  ASSUME IInv, NEW s \in Slots, Live(s), NEW n \in Nat, NEW err, Shrink(s, n, err)
  PROVE  err = 0 /\ Freed(s, n) /\ FreedAll(s, n)
<1> DEFINE e       == entries[s]
           surplus == n..(e.numblocks - 1)
           missing == {i \in surplus : Holders(e.va_fileid, i) = {}}
           freed   == {i \in surplus : \A j \in missing : i < j}
<1>1. e \in Entry /\ e.numblocks \in Nat
  BY DEF IInv, TypeOK, Entry
<1>2. missing = {}
  BY <1>1 DEF IInv, BlocksCovered
<1>3. err = 0
  BY <1>2 DEF Shrink, Surplus
<1>4. blocks' = [b \in Blocks |->
                   IF \E i \in freed : b \in BLOCKFETCH(e.va_fileid, i)
                   THEN FreeBlock ELSE blocks[b]]
  BY DEF Shrink, Surplus
<1>5. freed = surplus
  BY <1>2
<1>6. Freed(s, n)
  BY <1>4, <1>5, FoundBlock DEF Freed
<1>7. FreedAll(s, n)
  BY <1>4, <1>5, FoundBlock DEF FreedAll
<1>. QED
  BY <1>3, <1>6, <1>7

LEMMA GrowGrants ==
  ASSUME IInv, NEW s \in Slots, Live(s), NEW n \in Nat, NEW err, Grow(s, n, err)
  PROVE  Granted(s, n)
<1> DEFINE e == entries[s]
           Grants(stop, grant) ==
        blocks' = [b \in Blocks |->
             IF b \in {grant[i] : i \in e.numblocks..(stop - 1)}
             THEN [va_fileid |-> e.va_fileid, data |-> ZeroData,
                   idx |-> CHOOSE i \in e.numblocks..(stop - 1) : grant[i] = b]
             ELSE blocks[b]]
<1>1. e \in Entry /\ e.numblocks \in Nat
  BY DEF IInv, TypeOK, Entry
<1>2. PICK stop \in e.numblocks..n :
        \E grant \in [e.numblocks..(stop - 1) -> FreeBlocks] : Grants(stop, grant)
  BY DEF Grow
<1>3. PICK grant \in [e.numblocks..(stop - 1) -> FreeBlocks] : Grants(stop, grant)
  BY <1>2
<1>4. ASSUME NEW b \in Blocks, blocks'[b] # blocks[b]
      PROVE  /\ blocks[b].va_fileid = 0
             /\ blocks'[b].va_fileid = e.va_fileid
             /\ blocks'[b].data = ZeroData
             /\ blocks'[b].idx \in e.numblocks..(n - 1)
  <2>1. PICK i \in e.numblocks..(stop - 1) : grant[i] = b
    BY <1>3, <1>4
  <2>2. b \in FreeBlocks
    BY <2>1
  <2> DEFINE j == CHOOSE k \in e.numblocks..(stop - 1) : grant[k] = b
  <2>3. j \in e.numblocks..(stop - 1)
    BY <2>1
  <2>4. blocks'[b] = [va_fileid |-> e.va_fileid, data |-> ZeroData, idx |-> j]
    BY <1>3, <2>1
  <2>5. j \in e.numblocks..(n - 1)
    BY <1>1, <1>2, <2>3
  <2>. HIDE DEF j, e
  <2>. QED
    BY <2>2, <2>4, <2>5 DEF FreeBlocks
<1>. QED
  BY <1>4 DEF Granted

\* entry_setsize leaves the sizes alone, frees blocks beyond a smaller size, or
\* takes blocks for a larger one, as many as there are.
LEMMA SetsizeEffect ==
  ASSUME IInv, NEW s \in Slots, Live(s), NEW n \in Nat, NEW err, entry_setsize(s, n, err)
  PROVE  /\ \A t \in Slots : entries'[t].va_fileid = entries[t].va_fileid
         /\ \A t \in Slots : t # s => SizeStays(t)
         /\ \/ SizeStays(s) /\ UNCHANGED blocks /\ err = 0 /\ n = entries[s].va_size
            \/ /\ n < entries[s].va_size /\ SizeBecomes(s, n) /\ err = 0
               /\ Freed(s, BLOCKNUM(n) + 1) /\ FreedAll(s, BLOCKNUM(n) + 1)
            \/ /\ n >= entries[s].va_size /\ Granted(s, BLOCKNUM(n) + 1)
               /\ IF err = 0 THEN SizeBecomes(s, n) ELSE SizeStays(s)
<1> DEFINE e         == entries[s]
           newblocks == BLOCKNUM(n) + 1
<1>1. /\ e \in Entry /\ e.datalen \in Nat
      /\ e.va_size \in Nat /\ e.datalen = e.va_size
  BY DEF IInv, TypeOK, Entry, SizesAgree
<1>2. newblocks \in Nat
  BY DivMod
<1>3. CASE /\ ~(n > e.datalen % BlockSize) /\ ~(n < e.va_size)
           /\ err = 0
           /\ entries' = [entries EXCEPT ![s].va_size = n]
           /\ UNCHANGED blocks
  <2>1. n = e.va_size
    <3>1. e.datalen % BlockSize \in Nat /\ e.datalen % BlockSize <= e.datalen
      BY <1>1, ModBound
    <3>. QED
      BY <1>1, <1>3, <3>1
  <2>2. \A t \in Slots : /\ entries'[t].va_fileid = entries[t].va_fileid
                         /\ SizeStays(t)
    <3>1. \A t \in Slots : entries'[t] = IF t = s THEN [e EXCEPT !.va_size = n] ELSE entries[t]
      BY <1>3 DEF IInv, TypeOK
    <3>2. LET new == [e EXCEPT !.va_size = n]
          IN  /\ new.va_fileid = e.va_fileid /\ new.va_size = n
              /\ new.numblocks = e.numblocks
      <4>. HIDE DEF e
      <4>. QED
        BY <1>1 DEF Entry
    <3>. QED
      BY <2>1, <3>1, <3>2 DEF SizeStays
  <2>. QED
    BY <1>3, <2>1, <2>2
<1>4. CASE /\ IF n < e.va_size THEN Shrink(s, newblocks, err)
                               ELSE Grow(s, newblocks, err)
           /\ entries' = IF err = 0
                         THEN [entries EXCEPT ![s].va_size = n,
                                              ![s].datalen = n,
                                              ![s].numblocks = newblocks]
                         ELSE entries
  <2>1. /\ \A t \in Slots : entries'[t].va_fileid = entries[t].va_fileid
        /\ \A t \in Slots : t # s => SizeStays(t)
        /\ IF err = 0 THEN SizeBecomes(s, n) ELSE SizeStays(s)
    <3>1. CASE err = 0
      <4>. HIDE DEF newblocks
      <4>1. /\ \A t \in Slots : entries'[t].va_fileid = entries[t].va_fileid
            /\ \A t \in Slots : t # s => SizeStays(t)
            /\ entries'[s].va_size = n /\ entries'[s].numblocks = newblocks
        BY <1>1, <1>2, <1>4, <3>1 DEF IInv, TypeOK, Entry, SizeStays
      <4>. QED
        BY <3>1, <4>1 DEF SizeBecomes, newblocks
    <3>2. CASE err # 0
      BY <1>4, <3>2 DEF SizeStays
    <3>. QED
      BY <3>1, <3>2
  <2>2. CASE n < e.va_size
    BY <1>2, <1>4, <2>1, <2>2, ShrinkFrees
  <2>3. CASE ~(n < e.va_size)
    <3>1. Granted(s, newblocks)
      BY <1>2, <1>4, <2>3, GrowGrants
    <3>2. n >= e.va_size
      BY <1>1, <2>3
    <3>. QED
      BY <2>1, <3>1, <3>2
  <2>. QED
    BY <2>2, <2>3
<1>. QED
  BY <1>3, <1>4 DEF entry_setsize, Resized

-----------------------------------------------------------------------------
(* One command changes one file.                                           *)

\* The file in slot t, if it keeps its id, is left alone.
Untouched(t) ==
  Live(t) /\ entries'[t].va_fileid = entries[t].va_fileid =>
    /\ SizeStays(t)
    /\ \A b \in Blocks : \/ blocks[b].va_fileid = entries[t].va_fileid
                         \/ blocks'[b].va_fileid = entries[t].va_fileid
                         => blocks'[b] = blocks[b]

\* No file but the one in slot s is changed.
Only(s) == \A t \in Slots : t # s => Untouched(t)

LEMMA SetsizeOnly ==
  ASSUME IInv, NEW s \in Slots, Live(s), NEW n \in Nat, NEW err, entry_setsize(s, n, err)
  PROVE  Only(s)
<1>. SUFFICES ASSUME NEW t \in Slots, t # s, Live(t) PROVE Untouched(t)
  BY DEF Only, Untouched
<1>1. /\ entries[t].va_fileid # entries[s].va_fileid /\ entries[t].va_fileid # 0
  BY DEF IInv, IdsUnique, Live
<1>2. SizeStays(t)
  BY SetsizeEffect
<1>3. UNCHANGED blocks \/ Freed(s, BLOCKNUM(n) + 1) \/ Granted(s, BLOCKNUM(n) + 1)
  BY SetsizeEffect
<1>4. CASE UNCHANGED blocks
  BY <1>2, <1>4 DEF Untouched, SizeStays
<1>5. CASE Freed(s, BLOCKNUM(n) + 1)
  BY <1>1, <1>2, <1>5 DEF Untouched, SizeStays, Freed, FreeBlock
<1>6. CASE Granted(s, BLOCKNUM(n) + 1)
  BY <1>1, <1>2, <1>6 DEF Untouched, SizeStays, Granted
<1>. QED
  BY <1>3, <1>4, <1>5, <1>6

\* A create takes a slot that is free; the blocks and the sizes stay.
LEMMA CreateOnly ==
  ASSUME IInv, NEW id, NEW n, NEW vt, handle_create_request(id, n, vt)
  PROVE  \A t \in Slots : Untouched(t)
<1>. SUFFICES ASSUME NEW t \in Slots, Live(t)
              PROVE  SizeStays(t)
  BY DEF Untouched, handle_create_request
<1>1. CASE UNCHANGED entries
  BY <1>1 DEF SizeStays
<1>2. CASE \E p \in find_by_id(id), s \in First(FreeSlots) :
             LET inited == entry_init(s, vt) IN
             \/ entries' = [inited EXCEPT ![p].child = s, ![s].name = n]
             \/ \E last \in LastOf(inited, p) :
                  entries' = [inited EXCEPT ![last].next = s,
                                            ![s].va_nlink = @ + 1,
                                            ![s].name = n]
             \/ entries' = inited
  <2>1. PICK p \in find_by_id(id), s \in First(FreeSlots) :
             LET inited == entry_init(s, vt) IN
             \/ entries' = [inited EXCEPT ![p].child = s, ![s].name = n]
             \/ \E last \in LastOf(inited, p) :
                  entries' = [inited EXCEPT ![last].next = s,
                                            ![s].va_nlink = @ + 1,
                                            ![s].name = n]
             \/ entries' = inited
    BY <1>2
  <2> DEFINE inited == entry_init(s, vt)
             Kept(E) == /\ E[t].va_size = entries[t].va_size
                        /\ E[t].numblocks = entries[t].numblocks
  <2>2. t # s
    BY DEF First, FreeSlots, Live
  <2>3. /\ inited[t] = entries[t] /\ entries[t] \in Entry
        /\ inited = [u \in Slots |-> inited[u]]
    BY <2>2 DEF entry_init, IInv, TypeOK
  <2>. HIDE DEF inited
  <2>4. CASE entries' = [inited EXCEPT ![p].child = s, ![s].name = n]
    <3> DEFINE one == [inited EXCEPT ![p].child = s]
    <3>1. Kept(one) /\ one = [u \in Slots |-> one[u]]
      BY <2>3 DEF Entry
    <3>2. entries' = [one EXCEPT ![s].name = n]
      BY <2>4
    <3>. HIDE DEF one
    <3>. QED
      BY <2>2, <3>1, <3>2 DEF SizeStays
  <2>5. ASSUME NEW last \in LastOf(inited, p),
               entries' = [inited EXCEPT ![last].next = s,
                                         ![s].va_nlink = @ + 1,
                                         ![s].name = n]
        PROVE  SizeStays(t)
    <3> DEFINE one == [inited EXCEPT ![last].next = s]
               two == [one EXCEPT ![s].va_nlink = @ + 1]
    <3>1. Kept(one) /\ one = [u \in Slots |-> one[u]]
      BY <2>3 DEF Entry
    <3>2. entries' = [two EXCEPT ![s].name = n]
      BY <2>5
    <3>. HIDE DEF one
    <3>3. Kept(two) /\ two = [u \in Slots |-> two[u]]
      BY <2>2, <3>1
    <3>. HIDE DEF two
    <3>. QED
      BY <2>2, <3>2, <3>3 DEF SizeStays
  <2>6. CASE entries' = inited
    BY <2>3, <2>6 DEF SizeStays
  <2>7. \/ entries' = [inited EXCEPT ![p].child = s, ![s].name = n]
        \/ \E last \in LastOf(inited, p) :
             entries' = [inited EXCEPT ![last].next = s,
                                       ![s].va_nlink = @ + 1,
                                       ![s].name = n]
        \/ entries' = inited
    BY <2>1, Zenon DEF inited
  <2>. QED
    BY <2>4, <2>5, <2>6, <2>7, Zenon
<1>. QED
  BY <1>1, <1>2 DEF handle_create_request

\* A chunk is stored in blocks of the file being written.
LEMMA ChunkOnly ==
  ASSUME IInv, NEW chunk, handle_write_chunk(chunk), WriteFits
  PROVE  Only(writing.slot)
<1> DEFINE id == entries[writing.slot].va_fileid
<1>1. PICK data : blocks' = Stored(id, writing.offset, data)
  BY DEF handle_write_chunk
<1>2. \A b \in Blocks : /\ blocks'[b].va_fileid = blocks[b].va_fileid
                        /\ blocks[b].va_fileid # id => blocks'[b] = blocks[b]
  <2> TAKE b \in Blocks
  <2> DEFINE d == [o \in Offsets |->
             LET i == blocks[b].idx * BlockSize + o - writing.offset IN
             IF i \in DOMAIN data THEN data[i] ELSE blocks[b].data[o]]
  <2>1. IF b \in BLOCKFETCH(id, blocks[b].idx)
        THEN blocks'[b] = [blocks[b] EXCEPT !.data = d] ELSE blocks'[b] = blocks[b]
    BY <1>1 DEF Stored
  <2>2. blocks[b] \in Block
    BY DEF IInv, TypeOK
  <2>. HIDE DEF d
  <2>. QED
    BY <2>1, <2>2, FoundBlock DEF Block
<1>3. writing.slot \in Slots /\ Live(writing.slot) /\ UNCHANGED entries
  BY DEF handle_write_chunk, WriteFits
<1>4. \A t \in Slots : t # writing.slot /\ Live(t) => entries[t].va_fileid # id
  BY <1>3 DEF IInv, IdsUnique
<1>5. ASSUME NEW t \in Slots, t # writing.slot, Live(t)
      PROVE  Untouched(t)
  <2>1. entries[t].va_fileid # id
    BY <1>3, <1>4, <1>5
  <2>. HIDE DEF id
  <2>2. ASSUME NEW b \in Blocks,
               blocks[b].va_fileid = entries[t].va_fileid
                 \/ blocks'[b].va_fileid = entries[t].va_fileid
        PROVE  blocks'[b] = blocks[b]
    <3>1. blocks[b].va_fileid # id
      BY <1>2, <2>1, <2>2
    <3>. QED
      BY <1>2, <3>1
  <2>. QED
    BY <1>3, <2>2 DEF Untouched, SizeStays
<1>. QED
  BY <1>5 DEF Only, Untouched

\* Every file is left alone, and the next id has no blocks.
AllUntouched == /\ \A t \in Slots : Untouched(t)
                /\ \A b \in Blocks : blocks'[b].va_fileid < ID

\* A file is resized.
Resizes(s, n) == Live(s) /\ \E err : entry_setsize(s, n, err)

\* A step leaves all files alone, resizes one, or stores a chunk.
LEMMA StepKinds ==
  ASSUME IInv, [Next]_vars
  PROVE  \/ AllUntouched
         \/ \E s \in Slots, n \in Nat : Resizes(s, n)
         \/ \E chunk : handle_write_chunk(chunk)
<1>1. CASE UNCHANGED <<entries, blocks>>
  BY <1>1 DEF AllUntouched, Untouched, SizeStays, IInv, IdsUnique
<1>2. CASE Create \/ Mkdir
  <2>1. PICK id, n, vt : handle_create_request(id, n, vt)
    BY <1>2 DEF Create, Mkdir
  <2>2. UNCHANGED blocks
    BY <2>1 DEF handle_create_request
  <2>. QED
    BY <2>1, <2>2, CreateOnly DEF AllUntouched, IInv, IdsUnique
<1>3. CASE Rm
  <2>1. PICK id, n : handle_rm_request(id, n)
    BY <1>3 DEF Rm
  <2>2. UNCHANGED blocks
    BY <2>1 DEF handle_rm_request
  <2>3. CASE UNCHANGED entries
    BY <1>1, <2>2, <2>3
  <2>4. ASSUME NEW p, NEW ent, entries' = Unlinked(p, ent), NEW s \in Slots
        PROVE  SizeStays(s)
    <3> DEFINE link == IF s = ent THEN (entries[s].va_nlink - 1 + U32) % U32
                       ELSE entries[s].va_nlink
               after == IF \E k \in Preceding(p, ent) : s = Chain(entries, p)[k]
                        THEN entries[ent].next ELSE entries[s].next
    <3>1. entries'[s] = [entries[s] EXCEPT !.va_nlink = link, !.next = after]
      BY <2>4 DEF Unlinked
    <3>2. entries[s] \in Entry
      BY DEF IInv, TypeOK
    <3>. HIDE DEF link, after
    <3>. QED
      BY <3>1, <3>2 DEF Entry, SizeStays
  <2>5. (\A s \in Slots : SizeStays(s)) => AllUntouched
    BY <2>2 DEF AllUntouched, Untouched, IInv, IdsUnique
  <2>. QED
    BY <2>1, <2>3, <2>4, <2>5 DEF handle_rm_request
<1>4. CASE Reclaim
  <2>1. PICK id \in FileIds \ {1} : handle_reclaim_request(id)
    BY <1>4 DEF Reclaim
  <2>2. CASE \E s \in find_by_id(id) :
               /\ entries' = [entries EXCEPT ![s].va_fileid = 0]
               /\ blocks' = [b \in Blocks |->
                          IF blocks[b].va_fileid = entries'[s].va_fileid
                          THEN FreeBlock ELSE blocks[b]]
    <3>1. PICK s \in find_by_id(id) :
               /\ entries' = [entries EXCEPT ![s].va_fileid = 0]
               /\ blocks' = [b \in Blocks |->
                          IF blocks[b].va_fileid = entries'[s].va_fileid
                          THEN FreeBlock ELSE blocks[b]]
      BY <2>2
    <3>2. s \in Slots /\ entries'[s].va_fileid = 0
      BY <3>1, FoundById DEF IInv, TypeOK, Entry
    <3>3. \A t \in Slots : t # s => entries'[t] = entries[t]
      BY <3>1 DEF IInv, TypeOK
    <3>4. \A b \in Blocks : blocks'[b] = IF blocks[b].va_fileid = 0 THEN FreeBlock ELSE blocks[b]
      BY <3>1, <3>2
    <3>5. \A t \in Slots : Untouched(t)
      BY <3>2, <3>3, <3>4 DEF Untouched, Live, FreeBlock, SizeStays
    <3>6. ID > 0
      BY StoreAssumption DEF IInv, TypeOK
    <3>. QED
      BY <3>4, <3>5, <3>6 DEF AllUntouched, IInv, IdsUnique, FreeBlock
  <2>. QED
    BY <1>1, <2>1, <2>2 DEF handle_reclaim_request
<1>5. CASE Setsize
  <2>1. PICK id \in FileIds, size \in Nat : handle_setsize_request(id, size)
    BY <1>5, StoreAssumption DEF Setsize, OfType
  <2>2. \A s \in find_by_id(id) : s \in Slots /\ Live(s)
    BY FoundById DEF Live, FileIds
  <2>. QED
    BY <1>1, <2>1, <2>2 DEF handle_setsize_request, Resizes
<1>6. CASE Write
  <2>1. PICK id \in FileIds, offset \in Nat, resid \in Nat :
          handle_write_request(id, offset, resid)
    BY <1>6, StoreAssumption DEF Write, OfType
  <2>2. \A s \in find_by_id(id) : s \in Slots /\ Live(s)
    BY FoundById DEF Live, FileIds
  <2>3. offset + resid \in Nat
    OBVIOUS
  <2>. QED
    BY <1>1, <2>1, <2>2, <2>3 DEF handle_write_request, Resizes
<1>7. CASE Chunk
  BY <1>7 DEF Chunk
<1>8. Statvfs \/ Readdir \/ Lookup \/ Getattr \/ Read \/ UNCHANGED vars
      => UNCHANGED <<entries, blocks>>
  BY DEF Statvfs, Readdir, Lookup, Getattr, Read, handle_statvfs_request,
         handle_readdir_request, handle_lookup_request, handle_getattr_request,
         handle_read_request, UnchangedStore, vars
<1>. QED
  BY <1>1, <1>2, <1>3, <1>4, <1>5, <1>6, <1>7, <1>8 DEF Next

-----------------------------------------------------------------------------
(* The invariants about bytes.                                             *)

(* The store's invariant with those about the bytes.                       *)
DInv == IInv /\ WriteFits /\ SparesBlank

\* A write begins when its file has been made to hold it, and every chunk
\* takes from it what it stores.
LEMMA WriteStillFits ==
  ASSUME IInv, WriteFits, [Next]_vars
  PROVE  WriteFits'
<1>1. CASE UNCHANGED <<entries, writing>>
  BY <1>1 DEF WriteFits, Live
<1>2. CASE writing' = Idle
  BY <1>2 DEF WriteFits
<1>3. CASE Write
  <2>1. PICK id \in FileIds, offset \in Nat, resid \in Nat :
          handle_write_request(id, offset, resid)
    BY <1>3, StoreAssumption DEF Write, OfType
  <2>2. CASE UNCHANGED <<entries, writing>>
    BY <1>1, <2>2
  <2>3. ASSUME NEW s \in find_by_id(id), NEW err,
               IF offset + resid > entries[s].va_size
               THEN entry_setsize(s, offset + resid, err)
               ELSE err = 0 /\ UNCHANGED <<entries, blocks>>,
               err = 0,
               writing' = [slot |-> s, offset |-> offset, resid |-> resid]
        PROVE  WriteFits'
    <3>1. s \in Slots /\ Live(s) /\ entries[s].va_size \in Nat
      BY FoundById DEF Live, FileIds, IInv, TypeOK, Entry
    <3>2. entries'[s].va_fileid = entries[s].va_fileid /\ offset + resid <= entries'[s].va_size
      <4>1. CASE offset + resid > entries[s].va_size
        <5>1. entry_setsize(s, offset + resid, err) /\ offset + resid \in Nat
          BY <2>3, <4>1
        <5>. QED
          BY <2>3, <3>1, <4>1, <5>1, SetsizeEffect DEF SizeBecomes
      <4>2. CASE ~(offset + resid > entries[s].va_size)
        BY <2>3, <3>1, <4>2
      <4>. QED
        BY <4>1, <4>2
    <3>. QED
      BY <2>3, <3>1, <3>2 DEF WriteFits, Live
  <2>. QED
    BY <1>2, <2>1, <2>2, <2>3 DEF handle_write_request
<1>4. CASE Chunk
  <2>1. PICK chunk : handle_write_chunk(chunk)
    BY <1>4 DEF Chunk
  <2> DEFINE w == writing
             copied == IF BLOCKOFF(w.offset) # 0 /\ w.resid > BlockSize THEN w.resid
                       ELSE Least(w.resid, BlockSize)
  <2>2. /\ writing # Idle /\ UNCHANGED entries
        /\ writing' = IF copied = w.resid THEN Idle
                      ELSE [w EXCEPT !.offset = @ + copied, !.resid = @ - copied]
    BY <2>1 DEF handle_write_chunk
  <2>3. w \in [slot : Slots \cup {NULL}, offset : Nat, resid : Nat] /\ copied \in Nat
    BY StoreAssumption DEF IInv, TypeOK, Least
  <2>. HIDE DEF copied
  <2>4. CASE copied # w.resid
    <3>1. /\ writing'.slot = w.slot /\ writing'.offset = w.offset + copied
          /\ writing'.resid = w.resid - copied
      BY <2>2, <2>3, <2>4
    <3>2. writing'.offset + writing'.resid = w.offset + w.resid
      BY <2>3, <3>1
    <3>. QED
      BY <2>2, <3>1, <3>2 DEF WriteFits, Live
  <2>. QED
    BY <1>2, <2>2, <2>4
<1>5. ASSUME Ready, UNCHANGED writing PROVE WriteFits'
  BY <1>2, <1>5 DEF Ready
<1>6. Statvfs \/ Readdir \/ Lookup \/ Getattr \/ Create \/ Mkdir \/ Rm \/ Reclaim \/ Setsize \/ Read
      => Ready /\ UNCHANGED writing
  BY DEF Statvfs, Readdir, Lookup, Getattr, Create, Mkdir, Rm, Reclaim, Setsize, Read,
         handle_statvfs_request, handle_readdir_request, handle_lookup_request,
         handle_getattr_request, handle_create_request, handle_rm_request,
         handle_reclaim_request, handle_setsize_request, handle_read_request, UnchangedStore
<1>7. UNCHANGED vars => UNCHANGED <<entries, writing>>
  BY DEF vars
<1>. QED
  BY <1>1, <1>3, <1>4, <1>5, <1>6, <1>7 DEF Next

\* What a scan of the blocks B finds.
Scan(B, id, i) == First({b \in Blocks : B[b].va_fileid = id /\ B[b].idx = i})

\* Of the blocks B with tag id those that a scan does not find below n are blank.
BlankIn(B, id, n) ==
  \A b \in Blocks :
    B[b].va_fileid = id /\ (B[b].idx >= n \/ b \notin Scan(B, id, B[b].idx))
    => B[b].data = ZeroData

Blank(s) == BlankIn(blocks, entries[s].va_fileid, entries[s].numblocks)

LEMMA SparesByFile == SparesBlank <=> \A s \in Slots : Live(s) => Blank(s)
  BY DEF SparesBlank, Blank, BlankIn, Scan, BLOCKFETCH, Holders

LEMMA UntouchedBlank ==
  ASSUME NEW s \in Slots, Live(s), Blank(s), Untouched(s),
         entries'[s].va_fileid = entries[s].va_fileid
  PROVE  Blank(s)'
<1> DEFINE id == entries[s].va_fileid
           n == entries[s].numblocks
<1>1. \A b \in Blocks : blocks[b].va_fileid = id \/ blocks'[b].va_fileid = id
                       => blocks'[b] = blocks[b]
  BY DEF Untouched
<1>2. entries'[s].numblocks = n /\ entries'[s].va_fileid = id
  BY DEF Untouched, SizeStays
<1>3. BlankIn(blocks, id, n)
  BY DEF Blank
<1>. HIDE DEF id, n
<1>4. \A i : Scan(blocks', id, i) = Scan(blocks, id, i)
  BY <1>1 DEF Scan
<1>5. BlankIn(blocks', id, n)
  BY <1>1, <1>3, <1>4 DEF BlankIn
<1>. QED
  BY <1>2, <1>5 DEF Blank

\* A smaller file gives back the blocks that hold its bytes beyond the end,
\* a larger one gets blank ones.
LEMMA ResizedBlank ==
  ASSUME IInv, NEW s \in Slots, Blank(s), NEW n \in Nat, Resizes(s, n)
  PROVE  Blank(s)'
<1>1. PICK err : entry_setsize(s, n, err)
  BY DEF Resizes
<1> DEFINE id == entries[s].va_fileid
           newblocks == BLOCKNUM(n) + 1
<1>2. Live(s) /\ id # 0 /\ entries'[s].va_fileid = id
  BY <1>1, SetsizeEffect DEF Live, Resizes
<1>3. /\ newblocks \in Nat /\ entries[s].numblocks \in Nat
      /\ \A b \in Blocks : blocks[b].idx \in Nat
  BY DivMod DEF IInv, TypeOK, Entry, Block
<1>4. CASE SizeStays(s) /\ UNCHANGED blocks
  BY <1>2, <1>4, UntouchedBlank DEF Untouched
<1>5. CASE /\ SizeBecomes(s, n) /\ newblocks <= entries[s].numblocks
           /\ Freed(s, newblocks) /\ FreedAll(s, newblocks)
  <2>. SUFFICES ASSUME NEW b \in Blocks, blocks'[b].va_fileid = id,
                       \/ blocks'[b].idx >= newblocks
                       \/ b \notin Scan(blocks', id, blocks'[b].idx)
                PROVE  blocks'[b].data = ZeroData
    BY <1>2, <1>5 DEF Blank, BlankIn, SizeBecomes
  <2>1. blocks'[b] = blocks[b]
    BY <1>2, <1>5 DEF Freed, FreeBlock
  <2>2. CASE blocks[b].idx >= entries[s].numblocks \/ b \notin Scan(blocks, id, blocks[b].idx)
    BY <2>1, <2>2 DEF Blank, BlankIn
  <2>3. CASE /\ blocks[b].idx < entries[s].numblocks /\ blocks[b].idx >= newblocks
             /\ b \in Scan(blocks, id, blocks[b].idx)
    <3>1. blocks[b].idx \in newblocks..(entries[s].numblocks - 1)
      BY <1>3, <2>3
    <3>. QED
      BY <1>2, <1>5, <2>3, <3>1 DEF FreedAll, FreeBlock, BLOCKFETCH, Holders, Scan
  <2>4. CASE blocks[b].idx < newblocks /\ b \in Scan(blocks, id, blocks[b].idx)
    <3> DEFINE i == blocks[b].idx
    <3>1. ASSUME NEW c \in Blocks
          PROVE  (blocks'[c].va_fileid = id /\ blocks'[c].idx = i)
                   <=> (blocks[c].va_fileid = id /\ blocks[c].idx = i)
      <4>1. blocks'[c] = blocks[c] \/ /\ blocks'[c].va_fileid = 0
                                      /\ blocks[c].idx \in newblocks..(entries[s].numblocks - 1)
        BY <1>5 DEF Freed, FreeBlock
      <4>. QED
        BY <1>2, <1>3, <2>4, <4>1
    <3>2. Scan(blocks', id, i) = Scan(blocks, id, i)
      BY <3>1 DEF Scan
    <3>. QED
      BY <1>3, <2>1, <2>4, <3>2
  <2>. QED
    BY <1>3, <2>2, <2>3, <2>4
<1>6. CASE /\ Granted(s, newblocks)
           /\ SizeStays(s) \/ (SizeBecomes(s, n) /\ entries[s].numblocks <= newblocks)
  <2>. SUFFICES ASSUME NEW b \in Blocks, blocks'[b].va_fileid = id,
                       \/ blocks'[b].idx >= entries'[s].numblocks
                       \/ b \notin Scan(blocks', id, blocks'[b].idx)
                PROVE  blocks'[b].data = ZeroData
    BY <1>2 DEF Blank, BlankIn
  <2>1. entries'[s].numblocks \in Nat /\ entries'[s].numblocks >= entries[s].numblocks
    BY <1>3, <1>6 DEF SizeStays, SizeBecomes
  <2>2. CASE blocks'[b] # blocks[b]
    BY <1>6, <2>2 DEF Granted
  <2>3. CASE /\ blocks'[b] = blocks[b]
             /\ blocks[b].idx >= entries[s].numblocks \/ b \notin Scan(blocks, id, blocks[b].idx)
    BY <2>3 DEF Blank, BlankIn
  <2>4. CASE /\ blocks'[b] = blocks[b]
             /\ blocks[b].idx < entries[s].numblocks /\ b \in Scan(blocks, id, blocks[b].idx)
    <3> DEFINE i == blocks[b].idx
    <3>1. ASSUME NEW c \in Blocks
          PROVE  (blocks'[c].va_fileid = id /\ blocks'[c].idx = i)
                   <=> (blocks[c].va_fileid = id /\ blocks[c].idx = i)
      <4>1. blocks'[c] = blocks[c] \/ /\ blocks[c].va_fileid = 0
                                      /\ blocks'[c].idx \in entries[s].numblocks..(newblocks - 1)
        BY <1>6 DEF Granted
      <4>. QED
        BY <1>2, <1>3, <2>4, <4>1
    <3>2. Scan(blocks', id, i) = Scan(blocks, id, i)
      BY <3>1 DEF Scan
    <3>. QED
      BY <1>3, <2>1, <2>4, <3>2
  <2>. QED
    BY <1>3, <2>2, <2>3, <2>4
<1>7. n < entries[s].va_size => newblocks <= entries[s].numblocks
  <2>. SUFFICES ASSUME n < entries[s].va_size PROVE newblocks <= entries[s].numblocks
    OBVIOUS
  <2>1. entries[s].va_size \in Nat /\ entries[s].numblocks = BLOCKNUM(entries[s].va_size) + 1
    BY <1>2 DEF IInv, TypeOK, Entry, SizesAgree
  <2>2. BLOCKNUM(n) <= BLOCKNUM(entries[s].va_size) /\ BLOCKNUM(entries[s].va_size) \in Nat
    BY <2>1, DivMonotone, DivMod
  <2>. QED
    BY <1>3, <2>1, <2>2, DivMod
<1>8. n >= entries[s].va_size => entries[s].numblocks <= newblocks
  <2>. SUFFICES ASSUME n >= entries[s].va_size PROVE entries[s].numblocks <= newblocks
    OBVIOUS
  <2>1. /\ entries[s].va_size \in Nat
        /\ entries[s].numblocks \in {0, BLOCKNUM(entries[s].va_size) + 1}
    BY <1>2 DEF IInv, TypeOK, Entry, SizesAgree
  <2>2. BLOCKNUM(entries[s].va_size) <= BLOCKNUM(n) /\ BLOCKNUM(entries[s].va_size) \in Nat
    BY <2>1, DivMonotone, DivMod
  <2>. QED
    BY <1>3, <2>1, <2>2, DivMod
<1>. QED
  BY <1>1, <1>2, <1>4, <1>5, <1>6, <1>7, <1>8, SetsizeEffect

\* The end of a file is in its last block.
LEMMA BeyondEnd ==
  ASSUME NEW n \in Nat, NEW i \in Nat, i >= BLOCKNUM(n) + 1
  PROVE  i * BlockSize > n
<1> DEFINE q == BLOCKNUM(n)
<1>1. q \in Nat /\ n = q * BlockSize + BLOCKOFF(n) /\ BLOCKOFF(n) \in 0..(BlockSize - 1)
  BY DivMod DEF Offsets
<1>. HIDE DEF q
<1>2. i * BlockSize >= (q + 1) * BlockSize
  BY <1>1, StoreAssumption DEF q
<1>3. (q + 1) * BlockSize = q * BlockSize + BlockSize
  BY <1>1, StoreAssumption
<1>4. i * BlockSize \in Nat /\ q * BlockSize \in Nat
  BY <1>1, StoreAssumption
<1>. QED
  BY <1>1, <1>2, <1>3, <1>4, StoreAssumption

\* A chunk changes bytes of blocks that a scan for the file finds, in the range
\* of the write.
LEMMA ChunkEffect ==
  ASSUME IInv, NEW chunk, handle_write_chunk(chunk)
  PROVE  /\ writing # Idle /\ UNCHANGED entries
         /\ \A b \in Blocks :
              /\ blocks'[b].va_fileid = blocks[b].va_fileid
              /\ blocks'[b].idx = blocks[b].idx
              /\ b \notin BLOCKFETCH(entries[writing.slot].va_fileid, blocks[b].idx)
                   => blocks'[b] = blocks[b]
              /\ \A o \in Offsets :
                   blocks[b].idx * BlockSize + o - writing.offset \notin 0..(writing.resid - 1)
                   => blocks'[b].data[o] = blocks[b].data[o]
<1> DEFINE w       == writing
           len     == Least(w.resid, BlockSize)
           crosses == BLOCKOFF(w.offset) # 0 /\ w.resid > BlockSize
           copied  == IF crosses THEN w.resid ELSE len
           data    == [i \in 0..(copied - 1) |-> IF i < len THEN chunk[i] ELSE Garbage]
           id      == entries[w.slot].va_fileid
<1>1. /\ writing # Idle /\ UNCHANGED entries
      /\ blocks' = Stored(id, w.offset, data)
  BY DEF handle_write_chunk
<1>2. /\ w.offset \in Nat /\ w.resid \in Nat
      /\ copied \in Nat /\ copied <= w.resid
  BY StoreAssumption DEF IInv, TypeOK, Least
<1>3. DOMAIN data \subseteq 0..(w.resid - 1)
  BY <1>2
<1>. HIDE DEF data, id, w
<1>4. ASSUME NEW b \in Blocks
      PROVE  /\ blocks'[b].va_fileid = blocks[b].va_fileid
             /\ blocks'[b].idx = blocks[b].idx
             /\ b \notin BLOCKFETCH(id, blocks[b].idx) => blocks'[b] = blocks[b]
             /\ \A o \in Offsets :
                  blocks[b].idx * BlockSize + o - w.offset \notin 0..(w.resid - 1)
                  => blocks'[b].data[o] = blocks[b].data[o]
  <2> DEFINE pos(o) == blocks[b].idx * BlockSize + o - w.offset
             d == [o \in Offsets |-> IF pos(o) \in DOMAIN data THEN data[pos(o)]
                                     ELSE blocks[b].data[o]]
  <2>1. blocks[b] \in Block
    BY DEF IInv, TypeOK
  <2>2. IF b \in BLOCKFETCH(id, blocks[b].idx) THEN blocks'[b] = [blocks[b] EXCEPT !.data = d]
                                               ELSE blocks'[b] = blocks[b]
    BY <1>1 DEF Stored
  <2>3. \A o \in Offsets : pos(o) \notin 0..(w.resid - 1) => d[o] = blocks[b].data[o]
    BY <1>3
  <2>. HIDE DEF d, pos
  <2>4. \A o \in Offsets : pos(o) \notin 0..(w.resid - 1) => blocks'[b].data[o] = blocks[b].data[o]
    BY <2>1, <2>2, <2>3 DEF Block
  <2>5. /\ blocks'[b].va_fileid = blocks[b].va_fileid
        /\ blocks'[b].idx = blocks[b].idx
    BY <2>1, <2>2 DEF Block
  <2>. QED
    BY <2>2, <2>4, <2>5 DEF pos
<1>. QED
  BY <1>1, <1>4 DEF id, w

\* A write stays below the file's size, and so below its last block.
LEMMA ChunkBlank ==
  ASSUME IInv, WriteFits, NEW chunk, handle_write_chunk(chunk),
         NEW s \in Slots, Live(s), Blank(s)
  PROVE  Blank(s)'
<1> DEFINE id == entries[s].va_fileid
           n  == entries[s].numblocks
           w  == writing
<1>1. /\ entries'[s] = entries[s] /\ BlankIn(blocks, id, n)
      /\ w.slot \in Slots /\ Live(w.slot) /\ w.offset + w.resid <= entries[w.slot].va_size
      /\ w.offset \in Nat /\ w.resid \in Nat
  BY ChunkEffect DEF Blank, WriteFits, IInv, TypeOK
<1>2. entries[w.slot].va_fileid = id => w.slot = s
  BY <1>1 DEF IInv, IdsUnique
<1>3. \A i : Scan(blocks', id, i) = Scan(blocks, id, i)
  BY ChunkEffect DEF Scan
<1>. SUFFICES ASSUME NEW b \in Blocks, blocks'[b].va_fileid = id,
                     blocks'[b].idx >= n \/ b \notin Scan(blocks', id, blocks'[b].idx)
              PROVE  blocks'[b].data = ZeroData
  BY <1>1 DEF Blank, BlankIn
<1>4. /\ blocks[b].va_fileid = id /\ blocks'[b].idx = blocks[b].idx
      /\ blocks[b].idx >= n \/ b \notin Scan(blocks, id, blocks[b].idx)
  BY <1>3, ChunkEffect
<1>5. blocks[b].data = ZeroData
  BY <1>1, <1>4 DEF BlankIn
<1>6. CASE b \notin BLOCKFETCH(entries[w.slot].va_fileid, blocks[b].idx)
  BY <1>5, <1>6, ChunkEffect
<1>7. CASE b \in BLOCKFETCH(entries[w.slot].va_fileid, blocks[b].idx)
  <2>1. entries[w.slot].va_fileid = id /\ w.slot = s
    BY <1>2, <1>4, <1>7, FoundBlock
  <2>2. blocks[b].idx >= n
    BY <1>4, <1>7, <2>1 DEF Scan, BLOCKFETCH, Holders
  <2>3. /\ entries[s].va_size \in Nat /\ blocks[b].idx \in Nat
        /\ n = BLOCKNUM(entries[s].va_size) + 1 \/ entries[s].va_size = 0
    BY DEF IInv, TypeOK, Entry, Block, SizesAgree
  <2>4. blocks[b].idx * BlockSize > entries[s].va_size \/ w.resid = 0
    BY <1>1, <2>1, <2>2, <2>3, BeyondEnd
  <2>5. blocks[b].idx * BlockSize \in Nat
    BY <2>3, StoreAssumption
  <2>6. \A o \in Offsets : blocks[b].idx * BlockSize + o - w.offset \notin 0..(w.resid - 1)
    BY <1>1, <2>1, <2>4, <2>5, <2>3, StoreAssumption DEF Offsets
  <2>7. \A o \in Offsets : blocks'[b].data[o] = blocks[b].data[o]
    BY <2>6, ChunkEffect
  <2>8. /\ blocks'[b].data \in [Offsets -> Bytes \cup {0, Garbage}]
        /\ blocks[b].data \in [Offsets -> Bytes \cup {0, Garbage}]
    BY ChunkKeeps DEF IInv, TypeOK, Block
  <2>. QED
    BY <1>5, <2>7, <2>8
<1>. QED
  BY <1>6, <1>7

\* Every step leaves the blocks that are not found blank.
LEMMA StepDInv ==
  ASSUME DInv, [Next]_vars PROVE DInv'
<1>1. IInv' /\ IdsStep
  BY StepIInv DEF DInv
<1>2. WriteFits'
  BY WriteStillFits DEF DInv
<1>3. ASSUME NEW s \in Slots, Live(s)' PROVE Blank(s)'
  <2>1. \A t \in Slots : Live(t) => Blank(t)
    BY SparesByFile DEF DInv
  <2>2. CASE entries'[s].va_fileid # entries[s].va_fileid
    <3>1. entries'[s].va_fileid = ID
      BY <1>1, <1>3, <2>2 DEF IdsStep, Live
    <3>2. AllUntouched
      <4>1. ~ \E t \in Slots, n \in Nat : Resizes(t, n)
        BY <2>2, SetsizeEffect DEF Resizes, DInv
      <4>2. ~ \E chunk : handle_write_chunk(chunk)
        BY <2>2, ChunkEffect DEF DInv
      <4>. QED
        BY <4>1, <4>2, StepKinds DEF DInv
    <3>3. \A b \in Blocks : blocks'[b].va_fileid # ID
      <4>1. \A b \in Blocks : blocks'[b].va_fileid < ID
        BY <3>2 DEF AllUntouched
      <4>2. ID \in Nat
        BY StoreAssumption DEF DInv, IInv, TypeOK
      <4>. QED
        BY <4>1, <4>2
    <3>. QED
      BY <3>1, <3>3 DEF Blank, BlankIn
  <2>3. CASE entries'[s].va_fileid = entries[s].va_fileid
    <3>1. Live(s) /\ Blank(s)
      BY <1>3, <2>1, <2>3 DEF Live
    <3>2. CASE Untouched(s)
      BY <2>3, <3>1, <3>2, UntouchedBlank
    <3>3. ASSUME NEW t \in Slots, NEW n \in Nat, Resizes(t, n) PROVE Blank(s)'
      <4>1. CASE t = s
        BY <3>1, <3>3, <4>1, ResizedBlank DEF DInv
      <4>2. CASE t # s
        BY <3>2, <3>3, <4>2, SetsizeOnly DEF Resizes, Only, DInv
      <4>. QED
        BY <4>1, <4>2
    <3>4. ASSUME NEW chunk, handle_write_chunk(chunk) PROVE Blank(s)'
      BY <3>1, <3>4, ChunkBlank DEF DInv
    <3>. QED
      BY <3>2, <3>3, <3>4, StepKinds DEF DInv, AllUntouched
  <2>. QED
    BY <2>2, <2>3
<1>4. SparesBlank'
  BY <1>3 DEF SparesBlank, Blank, BlankIn, Scan, BLOCKFETCH, Holders, Live, First
<1>. QED
  BY <1>1, <1>2, <1>4 DEF DInv

LEMMA InitDInv ==
  ASSUME Init PROVE DInv
<1>1. WriteFits
  BY DEF Init, WriteFits
<1>2. \A b \in Blocks : blocks[b].data = ZeroData
  BY DEF Init, FreeBlock
<1>3. SparesBlank
  BY <1>2 DEF SparesBlank
<1>. QED
  BY <1>1, <1>3, InitIInv DEF DInv

\* A block of a live file that no scan finds holds no bytes of it, however many
\* growths failed half way.
THEOREM SparesStayBlank == Spec => []SparesBlank
<1>1. Init => DInv
  BY InitDInv
<1>2. DInv /\ [Next]_vars => DInv'
  BY StepDInv
<1>3. DInv => SparesBlank
  BY DEF DInv
<1>. QED
  BY <1>1, <1>2, <1>3, PTL DEF Spec

-----------------------------------------------------------------------------
(* What a step may do to the bytes.                                        *)

\* A file that outlives a step stays in its slot.
LEMMA SameSlot ==
  ASSUME IInv, IdsStep, NEW i \in LiveIds \cap LiveIds'
  PROVE  \E s \in Slots : /\ Live(s) /\ entries[s].va_fileid = i
                          /\ entries'[s].va_fileid = entries[s].va_fileid
<1>1. PICK t \in Slots : entries'[t].va_fileid = i /\ i # 0
  BY DEF LiveIds, Live
<1>2. PICK s \in Slots : entries[s].va_fileid = i
  BY DEF LiveIds
<1>3. i # ID
  BY <1>2 DEF IInv, IdsUnique, TypeOK
<1>4. entries[t].va_fileid = i
  BY <1>1, <1>3 DEF IdsStep
<1>. QED
  BY <1>1, <1>4 DEF Live

\* A command that is not for the file in slot s keeps its size and its bytes.
LEMMA OthersKeep ==
  ASSUME IInv, IInv', NEW s \in Slots, Live(s), Untouched(s),
         entries'[s].va_fileid = entries[s].va_fileid
  PROVE  LET id == entries[s].va_fileid
         IN  /\ SizeOf(id)' = SizeOf(id)
             /\ \A o : ByteAt(id, o)' = ByteAt(id, o)
  BY FileUntouched DEF Untouched, SizeStays, IInv

\* At most one slot is not left alone.
LEMMA OneSlotTouched ==
  ASSUME DInv, [Next]_vars
  PROVE  \E s \in Slots : Only(s)
<1>1. ASSUME NEW s \in Slots, NEW n \in Nat, Resizes(s, n) PROVE Only(s)
  BY <1>1, SetsizeOnly DEF Resizes, DInv
<1>2. ASSUME NEW chunk, handle_write_chunk(chunk)
      PROVE  writing.slot \in Slots /\ Only(writing.slot)
  BY <1>2, ChunkOnly, ChunkEffect DEF DInv, WriteFits
<1>3. AllUntouched => Only(1) /\ 1 \in Slots
  BY StoreAssumption DEF AllUntouched, Only, Slots
<1>. QED
  BY <1>1, <1>2, <1>3, StepKinds DEF DInv

\* A command changes the bytes or the size of at most one file, however the
\* blocks of the files are mixed in the table.
THEOREM FilesStayApart == Spec => OneFileChangesAlways
<1>1. Init => DInv
  BY InitDInv
<1>2. DInv /\ [Next]_vars => DInv'
  BY StepDInv
<1>3. DInv /\ [Next]_vars => [OneFileChanges]_vars
  <2>. SUFFICES ASSUME DInv, [Next]_vars,
                       NEW i \in LiveIds \cap LiveIds', NEW j \in LiveIds \cap LiveIds', i # j
                PROVE  \/ /\ SizeOf(i)' = SizeOf(i)
                          /\ \A o : ByteAt(i, o)' = ByteAt(i, o)
                       \/ /\ SizeOf(j)' = SizeOf(j)
                          /\ \A o : ByteAt(j, o)' = ByteAt(j, o)
    BY DEF OneFileChanges
  <2>1. IInv /\ IInv' /\ IdsStep
    BY StepIInv DEF DInv
  <2>2. PICK s \in Slots : /\ Live(s) /\ entries[s].va_fileid = i
                           /\ entries'[s].va_fileid = entries[s].va_fileid
    BY <2>1, SameSlot
  <2>3. PICK t \in Slots : /\ Live(t) /\ entries[t].va_fileid = j
                           /\ entries'[t].va_fileid = entries[t].va_fileid
    BY <2>1, SameSlot
  <2>4. PICK u \in Slots : Only(u)
    BY OneSlotTouched
  <2>5. CASE s # u
    BY <2>1, <2>2, <2>4, <2>5, OthersKeep DEF Only
  <2>6. CASE t # u
    BY <2>1, <2>3, <2>4, <2>6, OthersKeep DEF Only
  <2>. QED
    BY <2>2, <2>3, <2>5, <2>6
<1>. QED
  BY <1>1, <1>2, <1>3, PTL DEF Spec, OneFileChangesAlways

\* A scan of the blocks finds one when there is one.
LEMMA ScanFinds ==
  ASSUME NEW S \in SUBSET Blocks, S # {} PROVE First(S) # {}
<1>1. S \subseteq Nat
  BY StoreAssumption DEF Blocks
<1>2. PICK x \in S : \A y \in S : ~ (<<y, x>> \in OpToRel(<, Nat))
  BY <1>1, WFMin, NatLessThanWellFounded
<1>3. \A y \in S : ~ (y < x)
  BY <1>1, <1>2 DEF OpToRel
<1>. QED
  BY <1>1, <1>3 DEF First

\* Every byte of the chunk of a write is afterwards where the write wants it.
LEMMA ChunkStored ==
  ASSUME DInv, NEW id, id = entries[writing.slot].va_fileid,
         NEW chunk \in [0..(Least(writing.resid, BlockSize) - 1) -> Bytes],
         handle_write_chunk(chunk),
         NEW o \in writing.offset..(writing.offset + Least(writing.resid, BlockSize) - 1)
  PROVE  ByteAt(id, o)' = chunk[o - writing.offset]
<1> DEFINE w       == writing
           len     == Least(w.resid, BlockSize)
           crosses == BLOCKOFF(w.offset) # 0 /\ w.resid > BlockSize
           copied  == IF crosses THEN w.resid ELSE len
           data    == [i \in 0..(copied - 1) |-> IF i < len THEN chunk[i] ELSE Garbage]
           size    == entries[w.slot].va_size
           i       == BLOCKNUM(o)
           off     == BLOCKOFF(o)
           b       == CHOOSE x \in BLOCKFETCH(id, i) : TRUE
<1>1. /\ w.slot \in Slots /\ Live(w.slot) /\ size \in Nat
      /\ w.offset \in Nat /\ w.resid \in Nat /\ w.offset + w.resid <= size
  <2>1. writing # Idle
    BY DEF handle_write_chunk
  <2>. QED
    BY <2>1 DEF DInv, IInv, TypeOK, WriteFits, Entry
<1>2. /\ len \in Nat /\ len <= w.resid /\ copied \in Nat /\ len <= copied
  BY <1>1, StoreAssumption DEF Least
<1>3. /\ o \in Nat /\ o < size /\ o - w.offset \in 0..(len - 1)
      /\ o - w.offset \in 0..(copied - 1) /\ o - w.offset < len
  <2> HIDE DEF len, copied, size
  <2>1. o \in w.offset..(w.offset + len - 1)
    BY DEF len
  <2>. QED
    BY <1>1, <1>2, <2>1
<1>4. /\ data[o - w.offset] = chunk[o - w.offset]
      /\ o - w.offset \in DOMAIN data
  <2> HIDE DEF len, copied
  <2>. QED
    BY <1>3
<1>5. blocks' = Stored(id, w.offset, data) /\ UNCHANGED entries
  BY DEF handle_write_chunk
<1>6. BLOCKFETCH(id, i) # {}
  <2>1. i \in Nat /\ BLOCKNUM(size) \in Nat /\ i <= BLOCKNUM(size)
    <3> HIDE DEF size
    <3>1. o <= size
      BY <1>1, <1>3
    <3>. QED
      BY <1>1, <1>3, <3>1, DivMod, DivMonotone
  <2>2. entries[w.slot].numblocks = BLOCKNUM(size) + 1
    BY <1>1, <1>3 DEF DInv, IInv, SizesAgree
  <2>3. Holders(id, i) # {}
    <3> HIDE DEF i, size
    <3>1. i \in 0..(entries[w.slot].numblocks - 1)
      BY <2>1, <2>2
    <3>. QED
      BY <1>1, <3>1 DEF DInv, IInv, BlocksCovered
  <2>4. Holders(id, i) \in SUBSET Blocks
    BY DEF Holders
  <2>. QED
    BY <2>3, <2>4, ScanFinds DEF BLOCKFETCH
<1>7. b \in BLOCKFETCH(id, i) /\ b \in Blocks /\ blocks[b].idx = i
  BY <1>6, FoundBlock
<1>8. BLOCKFETCH(id, i)' = BLOCKFETCH(id, i)
  <2>1. Holders(id, i)' = Holders(id, i)
    BY ChunkEffect DEF Holders, BLOCKNUM, DInv
  <2>. QED
    BY <2>1 DEF BLOCKFETCH, First, BLOCKNUM
<1>9. /\ off \in Offsets /\ i * BlockSize \in Nat
      /\ o = i * BlockSize + off
  <2>1. o \in Nat
    BY <1>3
  <2>2. i \in Nat /\ off \in Offsets /\ o = i * BlockSize + off
    BY <2>1, DivMod
  <2> HIDE DEF i
  <2>. QED
    BY <2>2, StoreAssumption
<1>10. blocks'[b].data[off] = data[o - w.offset]
  <2> DEFINE pos(x) == i * BlockSize + x - w.offset
             d == [x \in Offsets |-> IF pos(x) \in DOMAIN data THEN data[pos(x)]
                                     ELSE blocks[b].data[x]]
  <2> HIDE DEF data
  <2>1. blocks'[b] = [blocks[b] EXCEPT !.data = d]
    BY <1>5, <1>7 DEF Stored
  <2>2. blocks[b] \in Block
    BY <1>7 DEF DInv, IInv, TypeOK
  <2>3. pos(off) = o - w.offset
    <3> HIDE DEF i, off
    <3>1. off \in Nat /\ i * BlockSize \in Nat
      BY <1>9, StoreAssumption DEF Offsets
    <3>. QED
      BY <1>1, <1>9, <3>1
  <2>4. d[off] = data[o - w.offset]
    BY <1>4, <1>9, <2>3
  <2> HIDE DEF d
  <2>. QED
    BY <2>1, <2>2, <2>4 DEF Block
<1>11. ByteAt(id, o)' = blocks'[b].data[off]
  BY <1>6, <1>8 DEF ByteAt, BLOCKNUM, BLOCKOFF
<1>. QED
  BY <1>4, <1>10, <1>11

\* A chunk of a write changes bytes in the range of the write only, and is in
\* the file afterwards, byte by byte, even when it crosses a block.
THEOREM WritesStayInRange == Spec => WriteStaysInRangeAlways
<1>1. Init => DInv
  BY InitDInv
<1>2. DInv /\ [Next]_vars => DInv'
  BY StepDInv
<1>3. DInv /\ [Next]_vars => [WriteStaysInRange]_vars
  <2>. SUFFICES ASSUME DInv, [Next]_vars, NEW id \in LiveIds, writing # Idle,
                       id = entries[writing.slot].va_fileid,
                       NEW o \in 0..(SizeOf(id) - 1), ByteAt(id, o)' # ByteAt(id, o)
                PROVE  o \in writing.offset..(writing.offset + writing.resid - 1)
    BY ChunkStored DEF WriteStaysInRange
  <2> DEFINE found == BLOCKFETCH(id, BLOCKNUM(o))
             b == CHOOSE x \in found : TRUE
             off == BLOCKOFF(o)
  <2>1. o \in Nat
    <3>1. writing.slot \in Slots /\ Live(writing.slot)
      BY DEF DInv, WriteFits
    <3>2. SizeOf(id) = entries[writing.slot].va_size
      BY <3>1, OneSlot DEF DInv, IInv, SizeOf
    <3>. QED
      BY <3>1, <3>2 DEF DInv, IInv, TypeOK, Entry
  <2>2. ~ UNCHANGED blocks
    <3>1. UNCHANGED blocks => ByteAt(id, o)' = ByteAt(id, o)
      BY SameBlocksSameBytes
    <3>. QED
      BY <3>1
  <2>3. PICK chunk : handle_write_chunk(chunk)
    <3>1. Statvfs \/ Readdir \/ Lookup \/ Getattr \/ Create \/ Mkdir \/ Rm \/ Reclaim \/ Setsize \/ Read
          \/ Write => Ready
      BY DEF Statvfs, Readdir, Lookup, Getattr, Create, Mkdir, Rm, Reclaim, Setsize, Read, Write,
             handle_statvfs_request, handle_readdir_request, handle_lookup_request,
             handle_getattr_request, handle_create_request, handle_rm_request,
             handle_reclaim_request, handle_setsize_request, handle_read_request,
             handle_write_request
    <3>2. Chunk
      BY <2>2, <3>1 DEF Next, vars, Ready
    <3>. QED
      BY <3>2 DEF Chunk
  <2>4. /\ UNCHANGED entries
        /\ \A x \in Blocks :
              /\ blocks'[x].va_fileid = blocks[x].va_fileid
              /\ blocks'[x].idx = blocks[x].idx
              /\ \A p \in Offsets :
                   blocks[x].idx * BlockSize + p - writing.offset \notin 0..(writing.resid - 1)
                   => blocks'[x].data[p] = blocks[x].data[p]
    BY <2>3, ChunkEffect DEF DInv
  <2>5. BLOCKFETCH(id, BLOCKNUM(o))' = found
    <3>1. Holders(id, BLOCKNUM(o))' = Holders(id, BLOCKNUM(o))
      BY <2>4 DEF Holders, BLOCKNUM
    <3>. QED
      BY <3>1 DEF BLOCKFETCH, First, BLOCKNUM
  <2>6. found # {}
    BY <2>5 DEF ByteAt
  <2>7. b \in Blocks /\ blocks[b].idx = BLOCKNUM(o)
    BY <2>6, FoundBlock
  <2>8. blocks'[b].data[off] # blocks[b].data[off]
    BY <2>5, <2>6 DEF ByteAt, BLOCKOFF
  <2>9. /\ off \in Offsets /\ BLOCKNUM(o) * BlockSize \in Nat
        /\ o = BLOCKNUM(o) * BlockSize + off
    BY <2>1, DivMod, StoreAssumption
  <2>10. writing.offset \in Nat /\ writing.resid \in Nat
    BY DEF DInv, IInv, TypeOK
  <2>11. blocks[b].idx * BlockSize + off - writing.offset \in 0..(writing.resid - 1)
    BY <2>4, <2>7, <2>8, <2>9
  <2> DEFINE start == blocks[b].idx * BlockSize
  <2>12. start \in Nat /\ o = start + off /\ off \in Nat
    BY <2>7, <2>9 DEF Offsets
  <2>13. start + off - writing.offset \in 0..(writing.resid - 1)
    BY <2>11
  <2>. HIDE DEF start, off
  <2>. QED
    BY <2>10, <2>12, <2>13
<1>. QED
  BY <1>1, <1>2, <1>3, PTL DEF Spec, WriteStaysInRangeAlways

-----------------------------------------------------------------------------
(* Changing the size of a file.                                            *)

\* A byte stays when the blocks with its file and its index do.
LEMMA SameHoldersSameByte ==
  ASSUME NEW id, NEW o,
         \A b \in Blocks :
           \/ blocks[b].va_fileid = id /\ blocks[b].idx = BLOCKNUM(o)
           \/ blocks'[b].va_fileid = id /\ blocks'[b].idx = BLOCKNUM(o)
           => blocks'[b] = blocks[b]
  PROVE  ByteAt(id, o)' = ByteAt(id, o)
<1> DEFINE found == BLOCKFETCH(id, BLOCKNUM(o))
           b == CHOOSE x \in found : TRUE
<1>1. Holders(id, BLOCKNUM(o))' = Holders(id, BLOCKNUM(o))
  BY DEF Holders, BLOCKNUM
<1>2. BLOCKFETCH(id, BLOCKNUM(o))' = found
  BY <1>1 DEF BLOCKFETCH, First, BLOCKNUM
<1>3. CASE found = {}
  BY <1>2, <1>3 DEF ByteAt
<1>4. CASE found # {}
  <2>1. blocks'[b] = blocks[b]
    BY <1>4, FoundBlock
  <2>2. ByteAt(id, o)' = blocks'[b].data[BLOCKOFF(o)]
    BY <1>2, <1>4 DEF ByteAt, BLOCKOFF
  <2>3. ByteAt(id, o) = blocks[b].data[BLOCKOFF(o)]
    BY <1>4 DEF ByteAt
  <2>. QED
    BY <2>1, <2>2, <2>3
<1>. QED
  BY <1>3, <1>4

\* A file that shrinks keeps the bytes it has room for.
LEMMA ShrinkKeepsBytes ==
  ASSUME IInv, NEW s \in Slots, Live(s), NEW id, entries[s].va_fileid = id,
         NEW n \in Nat,
         Freed(s, BLOCKNUM(n) + 1), NEW o \in Nat, o < n
  PROVE  ByteAt(id, o)' = ByteAt(id, o)
<1> DEFINE last == BLOCKNUM(n)
           i == BLOCKNUM(o)
<1>1. last \in Nat /\ i \in Nat /\ i <= last /\ id # 0
  BY DivMod, DivMonotone DEF Live
<1>2. \A b \in Blocks : \/ blocks'[b] = blocks[b]
                        \/ /\ blocks'[b].va_fileid = 0
                           /\ blocks[b].idx \in (last + 1)..(entries[s].numblocks - 1)
  BY DEF Freed, FreeBlock
<1>3. entries[s].numblocks \in Nat
  BY DEF IInv, TypeOK, Entry
<1>. HIDE DEF last, i
<1>4. \A b \in Blocks :
           \/ blocks[b].va_fileid = id /\ blocks[b].idx = i
           \/ blocks'[b].va_fileid = id /\ blocks'[b].idx = i
           => blocks'[b] = blocks[b]
  BY <1>1, <1>2, <1>3
<1>. QED
  BY <1>4, SameHoldersSameByte DEF i

\* A file that grows keeps the bytes it has.
LEMMA GrowthKeepsBytes ==
  ASSUME IInv, NEW s \in Slots, Live(s), NEW id, entries[s].va_fileid = id,
         NEW n \in Nat, Granted(s, n),
         NEW o \in Nat, o < entries[s].va_size
  PROVE  ByteAt(id, o)' = ByteAt(id, o)
<1> DEFINE i == BLOCKNUM(o)
<1>1. /\ entries[s].va_size \in Nat
      /\ entries[s].numblocks = BLOCKNUM(entries[s].va_size) + 1
  BY DEF IInv, TypeOK, Entry, SizesAgree
<1>2. /\ BLOCKNUM(entries[s].va_size) \in Nat
      /\ i \in Nat /\ i <= BLOCKNUM(entries[s].va_size) /\ id # 0
  BY <1>1, DivMod, DivMonotone DEF Live
<1>3. \A b \in Blocks : \/ blocks'[b] = blocks[b]
                        \/ /\ blocks[b].va_fileid = 0
                           /\ blocks'[b].idx \in entries[s].numblocks..(n - 1)
  BY DEF Granted
<1>. HIDE DEF i
<1>4. \A b \in Blocks :
           \/ blocks[b].va_fileid = id /\ blocks[b].idx = i
           \/ blocks'[b].va_fileid = id /\ blocks'[b].idx = i
           => blocks'[b] = blocks[b]
  BY <1>1, <1>2, <1>3
<1>. QED
  BY <1>4, SameHoldersSameByte DEF i

\* A block that a file did not have before it grew is blank: one just granted,
\* or one left over from a growth that failed.
LEMMA GrowthIsBlank ==
  ASSUME DInv, DInv', NEW s \in Slots, Live(s), NEW id, entries[s].va_fileid = id,
         NEW n \in Nat,
         Granted(s, BLOCKNUM(n) + 1), SizeBecomes(s, n),
         entries'[s].va_fileid = id, NEW o \in Nat, o < n, BLOCKNUM(o) >= entries[s].numblocks
  PROVE  ByteAt(id, o)' = 0
<1> DEFINE i == BLOCKNUM(o)
           S == {b \in Blocks : blocks'[b].va_fileid = id /\ blocks'[b].idx = i}
<1>1. i \in 0..(entries'[s].numblocks - 1) /\ BLOCKOFF(o) \in Offsets
  BY DivMod, DivMonotone DEF SizeBecomes
<1>2. S # {}
  BY <1>1 DEF DInv, IInv, BlocksCovered, Holders, Live
<1>3. First(S) # {} /\ First(S) \subseteq S
  BY <1>2, ScanFinds DEF First
<1>4. \A b \in S : blocks'[b].data = ZeroData
  <2>. SUFFICES ASSUME NEW b \in S PROVE blocks'[b].data = ZeroData
    OBVIOUS
  <2>1. CASE blocks'[b] # blocks[b]
    BY <2>1 DEF Granted
  <2>2. CASE blocks'[b] = blocks[b]
    <3>1. blocks[b].va_fileid = id /\ blocks[b].idx >= entries[s].numblocks
      BY <2>2
    <3>. QED
      BY <2>2, <3>1 DEF DInv, SparesBlank
  <2>. QED
    BY <2>1, <2>2
<1>5. ByteAt(id, o)' = blocks'[CHOOSE x \in First(S) : TRUE].data[BLOCKOFF(o)]
  BY <1>3 DEF ByteAt, BLOCKFETCH, Holders, First, BLOCKNUM, BLOCKOFF
<1>. QED
  BY <1>1, <1>3, <1>4, <1>5 DEF ZeroData

\* A file that changes its size keeps its bytes, and the blocks it gets read
\* as zeros, for any sequence of growths that fail, shrinks and reclaims.
THEOREM ResizesKeepBytes == Spec => ResizeKeepsBytesAlways
<1>1. Init => DInv
  BY InitDInv
<1>2. DInv /\ [Next]_vars => DInv'
  BY StepDInv
<1>3. DInv /\ [Next]_vars => [ResizeKeepsBytes]_vars
  <2>. SUFFICES ASSUME DInv, [Next]_vars, NEW id \in LiveIds \cap LiveIds', SizeOf(id) # SizeOf(id)'
                PROVE  /\ \A o \in 0..(Least(SizeOf(id), SizeOf(id)') - 1) :
                            ByteAt(id, o)' = ByteAt(id, o)
                       /\ \A o \in SizeOf(id)..(SizeOf(id)' - 1) :
                            BLOCKNUM(o) >= entries[SlotOf(id)].numblocks => ByteAt(id, o)' = 0
    BY DEF ResizeKeepsBytes
  <2>1. DInv' /\ IInv /\ IInv' /\ IdsStep
    BY StepDInv, StepIInv DEF DInv
  <2>2. PICK s \in Slots : /\ Live(s) /\ entries[s].va_fileid = id
                           /\ entries'[s].va_fileid = entries[s].va_fileid
    BY <2>1, SameSlot
  <2>3. SlotOf(id) = s /\ SizeOf(id) = entries[s].va_size
    BY <2>1, <2>2, OneSlot DEF IInv, SizeOf
  <2>4. SizeOf(id)' = entries'[s].va_size
    <3>1. (CHOOSE t \in Slots : entries'[t].va_fileid = id) = s
      BY <2>1, <2>2 DEF IInv, IdsUnique, Live
    <3>. QED
      BY <3>1 DEF SizeOf, SlotOf
  <2>5. ~ Untouched(s)
    BY <2>2, <2>3, <2>4 DEF Untouched, SizeStays
  <2>6. PICK n \in Nat : Resizes(s, n)
    <3>1. ~ \E chunk : handle_write_chunk(chunk)
      BY <2>1, <2>3, <2>4, ChunkEffect
    <3>2. PICK t \in Slots, n \in Nat : Resizes(t, n)
      BY <2>1, <2>5, <3>1, StepKinds DEF AllUntouched
    <3>3. Only(t)
      BY <2>1, <3>2, SetsizeOnly DEF Resizes
    <3>. QED
      BY <2>5, <3>2, <3>3 DEF Only
  <2>7. \/ n < entries[s].va_size /\ SizeBecomes(s, n) /\ Freed(s, BLOCKNUM(n) + 1)
        \/ n >= entries[s].va_size /\ SizeBecomes(s, n) /\ Granted(s, BLOCKNUM(n) + 1)
    BY <2>1, <2>3, <2>4, <2>6, SetsizeEffect DEF Resizes, SizeStays
  <2>8. entries'[s].va_size = n /\ entries[s].va_size \in Nat
    BY <2>1, <2>7 DEF SizeBecomes, IInv, TypeOK, Entry
  <2>9. CASE n < entries[s].va_size /\ Freed(s, BLOCKNUM(n) + 1)
    BY <2>1, <2>2, <2>3, <2>4, <2>8, <2>9, ShrinkKeepsBytes DEF Least
  <2>10. CASE /\ n >= entries[s].va_size /\ SizeBecomes(s, n)
              /\ Granted(s, BLOCKNUM(n) + 1)
    <3>1. \A o \in 0..(entries[s].va_size - 1) : ByteAt(id, o)' = ByteAt(id, o)
      BY <2>1, <2>2, <2>8, <2>10, GrowthKeepsBytes, DivMod
    <3>2. \A o \in entries[s].va_size..(n - 1) :
            BLOCKNUM(o) >= entries[s].numblocks => ByteAt(id, o)' = 0
      BY <2>1, <2>2, <2>8, <2>10, GrowthIsBlank
    <3>. QED
      BY <2>3, <2>4, <2>8, <2>10, <3>1, <3>2 DEF Least
  <2>. QED
    BY <2>7, <2>9, <2>10
<1>. QED
  BY <1>1, <1>2, <1>3, PTL DEF Spec, ResizeKeepsBytesAlways

-----------------------------------------------------------------------------
(* Reading.                                                                *)

(* The last answer, when it was one to a read: the file is live, and no    *)
(* write is under way, so that nothing but a command that hangs can follow *)
(* it without an answer of its own.                                        *)
RInv ==
  /\ DInv
  /\ resp.cmd = "READ" => writing = Idle
  /\ resp.cmd = "READ" /\ resp.err = 0 => resp.fileid \in LiveIds
  /\ AlignedReadExact

\* The bytes after the start of a block are in it.
LEMMA SameBlock ==
  ASSUME NEW q \in Nat, NEW i \in 0..(BlockSize - 1), NEW n \in Nat, n = q * BlockSize + i
  PROVE  BLOCKNUM(n) = q /\ BLOCKOFF(n) = i
<1> DEFINE p == BLOCKNUM(n)
           r == BLOCKOFF(n)
<1>1. p \in Nat /\ n = p * BlockSize + r /\ r \in 0..(BlockSize - 1)
  BY DivMod DEF Offsets
<1>. HIDE DEF p, r
<1>2. p * BlockSize \in Nat /\ q * BlockSize \in Nat
  BY <1>1, StoreAssumption
<1>3. CASE p < q
  <2>1. (p + 1) * BlockSize <= q * BlockSize
    BY <1>1, <1>3, StoreAssumption
  <2>2. (p + 1) * BlockSize = p * BlockSize + BlockSize
    BY <1>1, StoreAssumption
  <2>. QED
    BY <1>1, <1>2, <2>1, <2>2, StoreAssumption
<1>4. CASE q < p
  <2>1. (q + 1) * BlockSize <= p * BlockSize
    BY <1>1, <1>4, StoreAssumption
  <2>2. (q + 1) * BlockSize = q * BlockSize + BlockSize
    BY StoreAssumption
  <2>. QED
    BY <1>1, <1>2, <2>1, <2>2, StoreAssumption
<1>5. CASE p = q
  <2>1. r = i
    BY <1>1, <1>2, <1>5
  <2>. QED
    BY <1>5, <2>1 DEF p, r
<1>. QED
  BY <1>1, <1>3, <1>4, <1>5

\* What a read answers.
LEMMA ReadExact ==
  ASSUME DInv, NEW id \in FileIds, NEW offset \in Nat, handle_read_request(id, offset)
  PROVE  /\ resp'.err = 0 => resp'.fileid \in LiveIds
         /\ AlignedReadExact'
<1>1. UNCHANGED <<entries, blocks>>
  BY DEF handle_read_request, UnchangedStore
<1>2. CASE resp' = Refused("READ", 1) \/ resp' = Refused("READ", 2)
  BY <1>2 DEF Refused, AlignedReadExact
<1>3. CASE \E s \in find_by_id(id) :
          LET left    == entries[s].datalen - offset
              copylen == Least(left, BlockSize)
              block   == BLOCKFETCH(id, BLOCKNUM(offset))
          IN  /\ ~(left < 0)
              /\ resp' = [cmd |-> "READ", err |-> 0, copylen |-> copylen,
                          fileid |-> id, offset |-> offset,
                          buf |-> [i \in 0..(copylen - 1) |->
                            IF block # {} /\ i < BLOCKLEFT(offset)
                            THEN blocks[CHOOSE b \in block : TRUE]
                                   .data[BLOCKOFF(offset) + i]
                            ELSE Garbage]]
  <2> DEFINE block == BLOCKFETCH(id, BLOCKNUM(offset))
             Buf(copylen) == [i \in 0..(copylen - 1) |->
                            IF block # {} /\ i < BLOCKLEFT(offset)
                            THEN blocks[CHOOSE b \in block : TRUE]
                                   .data[BLOCKOFF(offset) + i]
                            ELSE Garbage]
  <2>1. PICK s \in find_by_id(id) :
          LET left    == entries[s].datalen - offset
              copylen == Least(left, BlockSize)
          IN  /\ ~(left < 0)
              /\ resp' = [cmd |-> "READ", err |-> 0, copylen |-> copylen,
                          fileid |-> id, offset |-> offset, buf |-> Buf(copylen)]
    BY <1>3
  <2> DEFINE left    == entries[s].datalen - offset
             copylen == Least(left, BlockSize)
  <2>2. s \in Slots /\ entries[s].va_fileid = id /\ Live(s)
    BY FoundById DEF Live, FileIds
  <2>3. /\ left \in Nat /\ entries[s].datalen = entries[s].va_size
        /\ copylen \in 0..BlockSize /\ (copylen = 0 <=> left = 0)
    BY <2>1, <2>2, StoreAssumption DEF DInv, IInv, TypeOK, Entry, SizesAgree, Least
  <2>4. id \in LiveIds /\ SizeOf(id) = entries[s].va_size
    BY <2>2, OneSlot DEF DInv, IInv, LiveIds, SizeOf
  <2>5. ASSUME BLOCKOFF(offset) = 0, NEW i \in 0..(copylen - 1)
        PROVE  Buf(copylen)[i] = ByteAt(id, offset + i)
    <3>1. /\ i \in 0..(BlockSize - 1)
          /\ offset = BLOCKNUM(offset) * BlockSize /\ BLOCKNUM(offset) \in Nat
      BY <2>3, <2>5, DivMod, StoreAssumption
    <3>2. /\ BLOCKNUM(offset + i) = BLOCKNUM(offset)
          /\ BLOCKOFF(offset + i) = i
      BY <3>1, SameBlock
    <3>3. BLOCKLEFT(offset) = BlockSize
      BY <2>5, StoreAssumption DEF BLOCKLEFT
    <3>4. BLOCKOFF(offset) + i = i /\ i < BLOCKLEFT(offset)
      BY <2>5, <3>1, <3>3, StoreAssumption
    <3>. HIDE DEF copylen
    <3>5. Buf(copylen)[i] = IF block # {} /\ i < BLOCKLEFT(offset)
                            THEN blocks[CHOOSE b \in block : TRUE].data[BLOCKOFF(offset) + i]
                            ELSE Garbage
      OBVIOUS
    <3>6. ByteAt(id, offset + i) = IF block = {} THEN Garbage
                                   ELSE blocks[CHOOSE b \in block : TRUE].data[i]
      <4> DEFINE At(S, k) == IF S = {} THEN Garbage
                             ELSE blocks[CHOOSE b \in S : TRUE].data[k]
      <4>1. ByteAt(id, offset + i) = At(BLOCKFETCH(id, BLOCKNUM(offset + i)), BLOCKOFF(offset + i))
        BY DEF ByteAt
      <4>2. BLOCKFETCH(id, BLOCKNUM(offset + i)) = block /\ BLOCKOFF(offset + i) = i
        BY <3>2
      <4>3. ByteAt(id, offset + i) = At(block, i)
        <5>. HIDE DEF At, block
        <5>. QED
          BY <4>1, <4>2
      <4>. QED
        BY <4>3
    <3>. QED
      BY <3>4, <3>5, <3>6
  <2>6. /\ resp'.cmd = "READ" /\ resp'.err = 0 /\ resp'.copylen = copylen
        /\ resp'.fileid = id /\ resp'.offset = offset /\ resp'.buf = Buf(copylen)
    BY <2>1
  <2>7. copylen = 0 <=> offset = SizeOf(id)
    <3>1. entries[s].datalen \in Nat
      BY <2>2 DEF DInv, IInv, TypeOK, Entry
    <3>2. left = 0 <=> offset = entries[s].datalen
      BY <3>1
    <3>. HIDE DEF left, copylen
    <3>. QED
      BY <2>3, <2>4, <3>2
  <2>8. /\ \A o : ByteAt(id, o)' = ByteAt(id, o)
        /\ SizeOf(id)' = SizeOf(id)
    BY <1>1, SameBlocksSameBytes DEF SizeOf, SlotOf
  <2>. HIDE DEF copylen, Buf
  <2>9. AlignedReadExact'
    BY <2>5, <2>6, <2>7, <2>8 DEF AlignedReadExact, BLOCKOFF
  <2>. QED
    BY <2>4, <2>6, <2>9
<1>4. \/ resp' = Refused("READ", 1) \/ resp' = Refused("READ", 2)
      \/ \E s \in find_by_id(id) :
          LET left    == entries[s].datalen - offset
              copylen == Least(left, BlockSize)
              block   == BLOCKFETCH(id, BLOCKNUM(offset))
          IN  /\ ~(left < 0)
              /\ resp' = [cmd |-> "READ", err |-> 0, copylen |-> copylen,
                          fileid |-> id, offset |-> offset,
                          buf |-> [i \in 0..(copylen - 1) |->
                            IF block # {} /\ i < BLOCKLEFT(offset)
                            THEN blocks[CHOOSE b \in block : TRUE]
                                   .data[BLOCKOFF(offset) + i]
                            ELSE Garbage]]
  BY DEF handle_read_request, Respond
<1>. QED
  BY <1>2, <1>3, <1>4

\* A step that is not a read answers something else, or leaves the answer, the
\* files in use and their bytes alone.
LEMMA AnswerKinds ==
  ASSUME IInv, [Next]_vars
  PROVE  \/ Read
         \/ resp'.cmd # "READ"
         \/ /\ UNCHANGED <<resp, writing>>
            /\ \A t \in Slots : Live(t) => entries'[t] = entries[t]
            /\ UNCHANGED blocks
         \/ writing # Idle /\ UNCHANGED resp
<1>1. CASE UNCHANGED <<entries, blocks, writing, resp>>
  BY <1>1
<1>2. CASE Statvfs \/ Readdir \/ Lookup \/ Getattr
  BY <1>2
  DEF Statvfs, Readdir, Lookup, Getattr, handle_statvfs_request, handle_readdir_request,
      handle_lookup_request, handle_getattr_request, Respond, Hang, UnchangedStore,
      Absent, Attributes
<1>3. CASE Create \/ Mkdir
  <2>1. PICK id, n, vt : handle_create_request(id, n, vt)
    BY <1>3 DEF Create, Mkdir
  <2>2. \/ UNCHANGED entries /\ Respond(Absent("CREATE"))
        \/ \E e : Respond(Attributes("CREATE", e))
        \/ \E s \in First(FreeSlots) : entries' = entry_init(s, vt) /\ Hang
    BY <2>1, Zenon DEF handle_create_request
  <2>3. \/ resp'.cmd = "CREATE"
        \/ \E s \in First(FreeSlots) : entries' = entry_init(s, vt) /\ UNCHANGED resp
    BY <2>2 DEF Respond, Hang, Absent, Attributes
  <2>4. ASSUME NEW s \in First(FreeSlots), entries' = entry_init(s, vt)
        PROVE  \A t \in Slots : Live(t) => entries'[t] = entries[t]
    BY <2>4 DEF First, FreeSlots, Live, entry_init, IInv, TypeOK
  <2>5. UNCHANGED <<blocks, writing>>
    BY <2>1 DEF handle_create_request
  <2>. QED
    BY <2>3, <2>4, <2>5
<1>4. CASE Rm
  BY <1>4 DEF Rm, handle_rm_request, Respond, Hang, Refused
<1>5. CASE Reclaim \/ Setsize
  BY <1>5 DEF Reclaim, Setsize, handle_reclaim_request, handle_setsize_request, Respond, Refused
<1>6. CASE Write
  BY <1>6 DEF Write, handle_write_request, Respond
<1>7. CASE Chunk
  BY <1>7 DEF Chunk, handle_write_chunk, Respond, Hang
<1>. QED
  BY <1>1, <1>2, <1>3, <1>4, <1>5, <1>6, <1>7 DEF Next, vars

LEMMA StepRInv ==
  ASSUME RInv, [Next]_vars PROVE RInv'
<1>1. DInv' /\ IInv /\ IInv' /\ IdsStep
  BY StepDInv, StepIInv DEF RInv, DInv
<1>2. CASE Read
  <2>1. PICK id \in FileIds, offset \in Nat : handle_read_request(id, offset)
    BY <1>2, StoreAssumption DEF Read, OfType
  <2>2. UNCHANGED <<entries, writing>> /\ writing = Idle
    BY <2>1 DEF handle_read_request, UnchangedStore, Ready
  <2>3. resp'.err = 0 => resp'.fileid \in LiveIds'
    BY <2>1, <2>2, ReadExact DEF RInv, LiveIds, Live
  <2>. QED
    BY <1>1, <2>1, <2>2, <2>3, ReadExact DEF RInv
<1>3. CASE resp'.cmd # "READ"
  BY <1>1, <1>3 DEF RInv, AlignedReadExact
<1>4. CASE /\ UNCHANGED <<resp, writing, blocks>>
           /\ \A t \in Slots : Live(t) => entries'[t] = entries[t]
  <2>1. ASSUME resp.cmd = "READ", resp.err = 0
        PROVE  /\ resp.fileid \in LiveIds'
               /\ SizeOf(resp.fileid)' = SizeOf(resp.fileid)
               /\ \A o : ByteAt(resp.fileid, o)' = ByteAt(resp.fileid, o)
    <3>1. PICK s \in Slots : Live(s) /\ entries[s].va_fileid = resp.fileid
      BY <2>1 DEF RInv, LiveIds
    <3>2. entries'[s].va_fileid = entries[s].va_fileid
      BY <1>4, <3>1
    <3>3. Untouched(s)
      BY <1>4, <3>1 DEF Untouched, SizeStays
    <3>. QED
      BY <1>1, <1>4, <3>1, <3>2, <3>3, OthersKeep DEF LiveIds, Live
  <2>. QED
    BY <1>1, <1>4, <2>1 DEF RInv, AlignedReadExact, BLOCKOFF
<1>5. CASE writing # Idle /\ UNCHANGED resp
  BY <1>3, <1>5 DEF RInv
<1>. QED
  BY <1>1, <1>2, <1>3, <1>4, <1>5, AnswerKinds

\* A read at the start of a block answers with the bytes of the file, and with
\* none at its end only, for files of any size.
THEOREM ReadsExact == Spec => []AlignedReadExact
<1>1. Init => RInv
  <2>1. Init => resp.cmd = "NONE"
    BY DEF Init
  <2>. QED
    BY <2>1, InitDInv DEF RInv, AlignedReadExact
<1>2. RInv /\ [Next]_vars => RInv'
  BY StepRInv
<1>3. RInv => AlignedReadExact
  BY DEF RInv
<1>. QED
  BY <1>1, <1>2, <1>3, PTL DEF Spec

-----------------------------------------------------------------------------
(***************************************************************************)
(* The Wii's side of the mount.                                            *)
(***************************************************************************)
(* The inductive invariant: what the Wii keeps about a file, and what the  *)
(* Game Boy keeps in the file's slot.                                      *)

Types == {None, "VNON", "VREG", "VDIR"}
Node  == [va_type : Types, va_nlink : Int, freed : BOOLEAN]
Reads == [id : Nat, start : Nat, offset : Nat, asked : Nat, resid : Nat, eof : BOOLEAN]

MountTypeOK ==
  /\ vnodes \in [FileIds -> Types]
  /\ nodes \in [FileIds -> Node]
  /\ reading \in Reads

\* A node as pba_cmap may answer with it for a file of that many links.
Agrees(n, nlink) == n = NoNode \/ (~n.freed /\ n.va_nlink \in {NOVAL, nlink})

(* The node of a live file, whether the kernel holds its vnode or not, is  *)
(* in use and has the link count of the slot, if it has any.               *)
NodesAgree ==
  \A s \in Slots : Live(s) => Agrees(nodes[entries[s].va_fileid], entries[s].va_nlink)

\* A file id not handed out yet has no node: a create that hangs makes none.
FreshIds == \A id \in FileIds : id >= ID => nodes[id] = NoNode

\* How far the loop of node/read.c has come in a file of that size.
Progress(r, size) ==
  \/ r.offset = r.start /\ r.resid = r.asked /\ r.asked > 0 /\ ~r.eof
  \/ /\ r.offset <= size
     /\ r.eof => r.offset = size
     /\ BLOCKOFF(r.asked) = 0 =>
          /\ r.resid <= r.asked /\ r.offset = r.start + (r.asked - r.resid)
          /\ BLOCKOFF(r.resid) = 0 \/ r.offset = size

ReadSound ==
  reading # NotReading =>
    /\ Ready /\ reading.resid < U32
    /\ \E s \in Slots : entries[s].va_fileid = reading.id /\ Live(s)
                        /\ Progress(reading, entries[s].va_size)

MountInv == IInv /\ MountTypeOK /\ HeldLive /\ NodesAgree /\ FreshIds /\ ReadSound

-----------------------------------------------------------------------------
(* The walk down a directory's list.                                       *)

LEMMA LeastNat ==
  ASSUME NEW T, T \subseteq Nat, T # {}
  PROVE  \E x \in T : \A y \in T : x <= y
<1>. DEFINE Less == {ss \in Nat \X Nat : ss[1] < ss[2]}
<1>1. IsWellFoundedOn(Less, Nat)
  BY NatLessThanWellFounded, Zenon DEF OpToRel
<1>2. PICK x \in T : \A y \in T : ~ (<<y, x>> \in Less)
  <2>. HIDE DEF Less
  <2>. QED
    BY <1>1, WFMin
<1>3. \A y \in T : x <= y
  <2>. TAKE y \in T
  <2>1. <<y, x>> \in Nat \X Nat
    OBVIOUS
  <2>2. ~(y < x)
    BY <1>2, <2>1 DEF Less
  <2>. QED
    BY <2>2
<1>. QED
  BY <1>3

\* c holds the first n + 1 slots of the walk.
Walk(c, p, n) ==
  c = [k \in 0..n |->
         IF k = 0 THEN entries[p].child
         ELSE IF c[k - 1] = NULL THEN NULL ELSE entries[c[k - 1]].next]

LEMMA WalkSteps ==
  ASSUME NEW c, NEW p, NEW n \in Nat, Walk(c, p, n)
  PROVE  /\ c[0] = entries[p].child
         /\ \A k \in 1..n : c[k] = IF c[k - 1] = NULL THEN NULL ELSE entries[c[k - 1]].next
<1>1. \A k \in 0..n :
        c[k] = IF k = 0 THEN entries[p].child
               ELSE IF c[k - 1] = NULL THEN NULL ELSE entries[c[k - 1]].next
  BY DEF Walk
<1>. QED
  BY <1>1

\* A walk can be continued, so there is one of every length.
LEMMA WalkExists ==
  ASSUME NEW p, NEW n \in Nat
  PROVE  \E c : Walk(c, p, n)
<1>. DEFINE T == {k \in Nat : ~ \E c : Walk(c, p, k)}
<1>. SUFFICES ASSUME T # {} PROVE FALSE
  OBVIOUS
<1>1. PICK m \in T : \A y \in T : m <= y
  <2>. HIDE DEF T
  <2>1. T \subseteq Nat
    BY DEF T
  <2>. QED
    BY <2>1, LeastNat
<1>2. CASE m = 0
  <2>. DEFINE c == [k \in 0..0 |-> entries[p].child]
  <2>1. Walk(c, p, 0)
    BY DEF Walk
  <2>. QED
    BY <1>1, <1>2, <2>1
<1>3. CASE m # 0
  <2>. DEFINE k == m - 1
  <2>1. k \in Nat /\ k \notin T /\ m = k + 1
    BY <1>1, <1>3
  <2>2. PICK c : Walk(c, p, k)
    BY <2>1
  <2>. HIDE DEF k
  <2>. DEFINE after == IF c[k] = NULL THEN NULL ELSE entries[c[k]].next
              d     == [i \in 0..(k + 1) |-> IF i <= k THEN c[i] ELSE after]
  <2>3. ASSUME NEW i \in 0..(k + 1)
        PROVE  d[i] = IF i = 0 THEN entries[p].child
                      ELSE IF d[i - 1] = NULL THEN NULL ELSE entries[d[i - 1]].next
    <3>1. CASE i = 0
      BY <2>1, <2>2, <3>1, WalkSteps
    <3>2. CASE i \in 1..k
      BY <2>1, <2>2, <3>2, WalkSteps
    <3>3. CASE i = k + 1
      <4>1. d[i] = after /\ d[i - 1] = c[k]
        BY <2>1, <3>3
      <4>. QED
        BY <2>1, <3>3, <4>1
    <3>. QED
      BY <2>1, <3>1, <3>2, <3>3
  <2>4. d = [i \in 0..(k + 1) |-> d[i]]
    OBVIOUS
  <2>. HIDE DEF d
  <2>5. Walk(d, p, k + 1)
    BY <2>3, <2>4 DEF Walk
  <2>. QED
    BY <1>1, <2>1, <2>5
<1>. QED
  BY <1>2, <1>3

\* Every position of the walk is a slot or the null pointer.
LEMMA ChainTyped ==
  ASSUME TypeOK, NEW p \in Slots, NEW n \in 0..EntriesMax
  PROVE  Chain(entries, p)[n] \in Slots \cup {NULL}
<1>. DEFINE c == CHOOSE d : Walk(d, p, EntriesMax)
<1>1. EntriesMax \in Nat
  BY StoreAssumption
<1>2. Walk(c, p, EntriesMax)
  BY <1>1, WalkExists
<1>3. Chain(entries, p) = c
  BY DEF Chain, Walk
<1>. HIDE DEF c
<1>4. c[0] = entries[p].child
      /\ \A k \in 1..EntriesMax :
           c[k] = IF c[k - 1] = NULL THEN NULL ELSE entries[c[k - 1]].next
  BY <1>1, <1>2, WalkSteps
<1>5. \A s \in Slots : entries[s].child \in Slots \cup {NULL} /\ entries[s].next \in Slots \cup {NULL}
  BY DEF TypeOK, Entry
<1>. DEFINE T == {k \in 0..EntriesMax : c[k] \notin Slots \cup {NULL}}
<1>6. ASSUME T # {} PROVE FALSE
  <2>1. T \subseteq Nat
    BY <1>1
  <2>2. PICK m \in T : \A y \in T : m <= y
    <3>. HIDE DEF T
    <3>. QED
      BY <1>6, <2>1, LeastNat
  <2>3. m # 0
    BY <1>4, <1>5
  <2>4. m - 1 \in 0..EntriesMax /\ m - 1 \notin T /\ m \in 1..EntriesMax
    BY <1>1, <2>2, <2>3
  <2>5. c[m - 1] \in Slots \cup {NULL}
    BY <2>4
  <2>. QED
    BY <1>4, <1>5, <2>2, <2>4, <2>5
<1>. QED
  BY <1>3, <1>6

\* A name is found in a slot.
LEMMA NamedSlot ==
  ASSUME TypeOK, NEW p \in Slots, NEW n, NEW k \in Named(p, n)
  PROVE  Chain(entries, p)[k] \in Slots
<1>1. k \in 0..(EntriesMax - 1) /\ Chain(entries, p)[k] # NULL
  BY DEF Named, First, Positions
<1>2. k \in 0..EntriesMax
  BY <1>1, StoreAssumption
<1>. QED
  BY <1>1, <1>2, ChainTyped

-----------------------------------------------------------------------------
(* The invariant, part by part.                                            *)

\* A file id has one slot.
LEMMA SlotIs ==
  ASSUME IdsUnique, NEW s \in Slots, Live(s)
  PROVE  SlotOf(entries[s].va_fileid) = s
<1>1. \A t \in Slots : entries[t].va_fileid = entries[s].va_fileid => t = s
  BY DEF IdsUnique, Live
<1>. QED
  BY <1>1 DEF SlotOf

\* What a live slot's file id is.
LEMMA LiveId ==
  ASSUME IInv, NEW s \in Slots, Live(s)
  PROVE  entries[s].va_fileid \in FileIds /\ entries[s].va_fileid < ID
<1>1. entries[s].va_fileid \in 0..MaxID /\ entries[s].va_fileid # 0
  BY DEF IInv, TypeOK, Entry, Live
<1>. QED
  BY <1>1, StoreAssumption DEF FileIds, IInv, IdsUnique

\* A vnode the kernel holds has its slot.
LEMMA HeldSlot ==
  ASSUME MountInv, NEW id \in FileIds, vnodes[id] # None
  PROVE  /\ id < ID
         /\ \E s \in Slots : /\ entries[s].va_fileid = id /\ Live(s)
                             /\ entries[s].va_type = vnodes[id]
<1>1. PICK s \in Slots : entries[s].va_fileid = id /\ entries[s].va_type = vnodes[id]
  BY DEF MountInv, HeldLive, Held
<1>2. Live(s)
  BY <1>1 DEF Live, FileIds
<1>. QED
  BY <1>1, <1>2, LiveId DEF MountInv

\* Nothing about slot s that the Wii keeps has changed.
Same(s) ==
  /\ entries'[s].va_fileid = entries[s].va_fileid
  /\ entries'[s].va_type = entries[s].va_type
  /\ entries'[s].va_nlink = entries[s].va_nlink

\* The kernel is given no cookie, and nodes are left alone or are new.
Quiet ==
  /\ \A id \in FileIds : vnodes'[id] \in {vnodes[id], None}
  /\ \A id \in FileIds : \/ nodes'[id] = nodes[id]
                         \/ nodes'[id] = NewNode /\ id < ID

LEMMA QuietKeeps ==
  ASSUME MountInv, IInv', MountTypeOK', ReadSound', ID' = ID, Quiet,
         \A s \in Slots : Same(s)
  PROVE  MountInv'
<1>1. HeldLive'
  BY DEF Quiet, MountInv, HeldLive, Held, Same
<1>2. NodesAgree'
  <2>. SUFFICES ASSUME NEW s \in Slots, Live(s)'
                PROVE  Agrees(nodes[entries[s].va_fileid], entries[s].va_nlink)'
    BY DEF NodesAgree
  <2>1. Live(s)
    BY DEF Live, Same
  <2>. DEFINE id == entries[s].va_fileid
  <2>2. id \in FileIds /\ entries'[s].va_fileid = id /\ entries'[s].va_nlink = entries[s].va_nlink
    BY <2>1, LiveId DEF MountInv, Same
  <2>3. Agrees(nodes[id], entries[s].va_nlink)
    BY <2>1 DEF MountInv, NodesAgree
  <2>4. Agrees(NewNode, entries[s].va_nlink)
    BY DEF Agrees, NewNode
  <2>5. Agrees(nodes'[id], entries[s].va_nlink)
    BY <2>2, <2>3, <2>4 DEF Quiet
  <2>. QED
    BY <2>2, <2>5 DEF Agrees
<1>3. FreshIds'
  BY StoreAssumption DEF Quiet, MountInv, FreshIds, IInv, TypeOK, FileIds
<1>. QED
  BY <1>1, <1>2, <1>3 DEF MountInv

\* While no read is under way there is nothing to keep about one.
LEMMA NoRead ==
  ASSUME MountInv, Called, UNCHANGED reading
  PROVE  ReadSound' /\ reading' \in Reads /\ reading = NotReading /\ reading' = NotReading
  BY DEF MountInv, ReadSound, MountTypeOK, Called

LEMMA NewNodes ==
  ASSUME MountInv, NEW id \in FileIds
  PROVE  /\ NewNode \in Node
         /\ pba_cmap(id) \in [FileIds -> Node]
         /\ \A j \in FileIds : \/ pba_cmap(id)[j] = nodes[j]
                               \/ j = id /\ pba_cmap(id)[j] = NewNode
<1>1. NewNode \in Node
  BY DEF NewNode, Node, Types, NOVAL
<1>. QED
  BY <1>1 DEF pba_cmap, MountInv, MountTypeOK

\* A callback that leaves the store alone and looks for a node, if at all.
LEMMA CmapKeeps ==
  ASSUME MountInv, IInv', Called, UNCHANGED reading, ID' = ID,
         NEW id \in FileIds, vnodes[id] # None,
         nodes' \in {nodes, pba_cmap(id)},
         vnodes' \in [FileIds -> Types],
         \A j \in FileIds : vnodes'[j] \in {vnodes[j], None},
         \A s \in Slots : Same(s)
  PROVE  MountInv'
<1>1. ReadSound' /\ reading' \in Reads
  BY NoRead
<1>2. id < ID
  BY HeldSlot
<1>3. MountTypeOK'
  BY <1>1, NewNodes DEF MountTypeOK, MountInv
<1>4. Quiet
  BY <1>2, NewNodes DEF Quiet
<1>. QED
  BY <1>1, <1>3, <1>4, QuietKeeps

LEMMA UnchangedSame ==
  ASSUME UNCHANGED entries
  PROVE  \A s \in Slots : Same(s)
  BY DEF Same

-----------------------------------------------------------------------------
(* Lookup, inactive and setattr.                                           *)

LEMMA LookupKeeps ==
  ASSUME MountInv, NEW dir \in FileIds, NEW n, puffboy_node_lookup(dir, n)
  PROVE  MountInv'
<1>1. Called /\ UNCHANGED <<nodes, reading>> /\ UnchangedStore /\ hung' \in BOOLEAN
  BY DEF puffboy_node_lookup, handle_lookup_request, Respond, Hang, MountInv, IInv, TypeOK
<1>2. IInv'
  BY <1>1, UnchangedKeeps DEF MountInv
<1>3. /\ entries' = entries /\ ID' = ID /\ \A s \in Slots : Same(s)
      /\ ReadSound' /\ reading' \in Reads
  BY <1>1, NoRead, UnchangedSame DEF UnchangedStore
<1>4. CASE UNCHANGED vnodes
  <2>1. MountTypeOK' /\ Quiet
    BY <1>1, <1>3, <1>4 DEF MountTypeOK, MountInv, Quiet
  <2>. QED
    BY <1>2, <1>3, <2>1, QuietKeeps
<1>5. CASE vnodes' # vnodes
  <2>1. ~hung' /\ resp'.exists # 0 /\ GivenCookie(resp'.va_fileid, resp'.va_type)
    BY <1>5 DEF puffboy_node_lookup
  <2>2. PICK p \in find_by_id(dir) : \E k \in Named(p, n) :
               resp' = Attributes("LOOKUP", entries[Chain(entries, p)[k]])
    BY <2>1 DEF puffboy_node_lookup, handle_lookup_request, Absent, Respond, Hang
  <2>3. PICK k \in Named(p, n) : resp' = Attributes("LOOKUP", entries[Chain(entries, p)[k]])
    BY <2>2
  <2>. DEFINE s == Chain(entries, p)[k]
  <2>4. p \in Slots
    BY FoundById
  <2>5. s \in Slots
    BY <2>3, <2>4, NamedSlot DEF MountInv, IInv
  <2>. HIDE DEF s
  <2>6. resp'.va_fileid = entries[s].va_fileid /\ resp'.va_type = entries[s].va_type
    BY <2>3 DEF Attributes, s
  <2>7. entries[s].va_fileid # 0 /\ Live(s)
    BY <1>5, <2>1, <2>6 DEF GivenCookie, Live
  <2>. DEFINE id == entries[s].va_fileid
  <2>8. id \in FileIds /\ vnodes' = [vnodes EXCEPT ![id] = entries[s].va_type]
    BY <2>1, <2>5, <2>6, <2>7, LiveId DEF GivenCookie, MountInv
  <2>9. entries[s].va_type \in Types
    BY <2>5 DEF Types, MountInv, IInv, TypeOK, Entry
  <2>10. MountTypeOK'
    BY <1>1, <1>3, <2>8, <2>9 DEF MountTypeOK, MountInv
  <2>11. HeldLive'
    <3>. SUFFICES ASSUME NEW j \in FileIds, vnodes'[j] # None
                  PROVE  \E t \in Slots : entries'[t].va_fileid = j /\ entries'[t].va_type = vnodes'[j]
      BY DEF HeldLive, Held
    <3>1. CASE j = id
      BY <1>3, <2>5, <2>8, <3>1 DEF MountInv, MountTypeOK
    <3>2. CASE j # id
      <4>1. vnodes'[j] = vnodes[j]
        BY <2>8, <3>2 DEF MountInv, MountTypeOK
      <4>. QED
        BY <1>3, <4>1 DEF MountInv, HeldLive, Held
    <3>. QED
      BY <3>1, <3>2
  <2>12. NodesAgree' /\ FreshIds'
    BY <1>1, <1>3 DEF MountInv, NodesAgree, FreshIds, Live, Agrees
  <2>. QED
    BY <1>2, <1>3, <2>10, <2>11, <2>12 DEF MountInv
<1>. QED
  BY <1>4, <1>5

LEMMA InactiveKeeps ==
  ASSUME MountInv, NEW id \in FileIds, vnodes[id] # None, puffboy_node_inactive(id)
  PROVE  MountInv'
<1>1. /\ Called /\ UNCHANGED <<vnodes, reading>> /\ nodes' = pba_cmap(id)
      /\ UnchangedStore /\ hung' \in BOOLEAN /\ entries' = entries /\ ID' = ID
  BY DEF puffboy_node_inactive, store, UnchangedStore, MountInv, IInv, TypeOK
<1>2. IInv'
  BY <1>1, UnchangedKeeps DEF MountInv
<1>3. vnodes' \in [FileIds -> Types]
  BY <1>1 DEF MountInv, MountTypeOK
<1>. QED
  BY <1>1, <1>2, <1>3, CmapKeeps, UnchangedSame

\* entry_setsize changes sizes only.
LEMMA SetsizeSame ==
  ASSUME IInv, NEW s \in Slots, NEW n, NEW err, entry_setsize(s, n, err)
  PROVE  \A t \in Slots : Same(t)
<1>1. \/ entries' = [entries EXCEPT ![s].va_size = n]
      \/ entries' = [entries EXCEPT ![s] = Resized(@, n, BLOCKNUM(n) + 1)]
      \/ entries' = entries
  BY DEF entry_setsize
<1>2. entries \in [Slots -> Entry]
  BY DEF IInv, TypeOK
<1>3. CASE entries' = [entries EXCEPT ![s].va_size = n]
  BY <1>2, <1>3 DEF Same, Entry
<1>4. CASE entries' = [entries EXCEPT ![s] = Resized(@, n, BLOCKNUM(n) + 1)]
  BY <1>2, <1>4 DEF Same, Entry, Resized
<1>. QED
  BY <1>1, <1>3, <1>4, UnchangedSame

LEMMA SetattrKeeps ==
  ASSUME MountInv, NEW id \in FileIds, vnodes[id] # None, NEW size \in Nat,
         puffboy_node_setattr(id, size)
  PROVE  MountInv'
<1>1. Called /\ UNCHANGED <<vnodes, reading>> /\ nodes' = pba_cmap(id)
  BY DEF puffboy_node_setattr
<1>2. IInv' /\ ID' = ID /\ \A s \in Slots : Same(s)
  <2>1. CASE handle_setsize_request(id, size)
    <3>1. IInv' /\ ID' = ID
      BY <2>1, SetsizeRequestKeeps DEF MountInv, handle_setsize_request
    <3>2. \/ UNCHANGED entries
          \/ \E s \in find_by_id(id), err \in SetsizeResults : entry_setsize(s, size, err)
      BY <2>1 DEF handle_setsize_request
    <3>. QED
      BY <3>1, <3>2, SetsizeSame, UnchangedSame, FoundById DEF MountInv
  <2>2. CASE UNCHANGED store
    <3>1. UnchangedStore /\ hung' \in BOOLEAN /\ entries' = entries /\ ID' = ID
      BY <2>2 DEF store, UnchangedStore, MountInv, IInv, TypeOK
    <3>. QED
      BY <3>1, UnchangedKeeps, UnchangedSame DEF MountInv
  <2>. QED
    BY <2>1, <2>2 DEF puffboy_node_setattr
<1>3. vnodes' \in [FileIds -> Types]
  BY <1>1 DEF MountInv, MountTypeOK
<1>. QED
  BY <1>1, <1>2, <1>3, CmapKeeps

-----------------------------------------------------------------------------
(* Write.                                                                  *)

LEMMA WriteKeeps ==
  ASSUME MountInv, NEW id \in FileIds, NEW offset \in Nat, NEW resid \in Nat,
         vnodes[id] # None, puffboy_node_write(id, offset, resid)
  PROVE  MountInv'
<1>1. Called /\ UNCHANGED <<vnodes, nodes, reading>> /\ handle_write_request(id, offset, resid)
  BY DEF puffboy_node_write, mount
<1>2. IInv' /\ ID' = ID
  BY <1>1, WriteRequestKeeps DEF MountInv, handle_write_request
<1>3. \A s \in Slots : Same(s)
  <2>1. \/ UNCHANGED entries
        \/ \E s \in find_by_id(id), err \in SetsizeResults : entry_setsize(s, offset + resid, err)
    BY <1>1 DEF handle_write_request
  <2>. QED
    BY <2>1, SetsizeSame, UnchangedSame, FoundById DEF MountInv
<1>4. vnodes' \in [FileIds -> Types]
  BY <1>1 DEF MountInv, MountTypeOK
<1>. QED
  BY <1>1, <1>2, <1>3, <1>4, CmapKeeps

LEMMA WriteChunkKeeps ==
  ASSUME MountInv, NEW chunk, do_gba_write(chunk)
  PROVE  MountInv'
<1>1. /\ UNCHANGED <<vnodes, nodes, reading, entries, ID>>
      /\ handle_write_chunk(chunk) /\ writing # Idle
  BY DEF do_gba_write, handle_write_chunk
<1>2. IInv'
  BY <1>1, ChunkKeeps DEF MountInv
<1>3. reading = NotReading /\ reading' = NotReading
  BY <1>1 DEF MountInv, ReadSound, Ready
<1>4. MountTypeOK' /\ ReadSound' /\ Quiet
  BY <1>1, <1>3 DEF MountInv, MountTypeOK, ReadSound, Quiet
<1>. QED
  BY <1>1, <1>2, <1>4, QuietKeeps, UnchangedSame

-----------------------------------------------------------------------------
(* Remove and reclaim.                                                     *)

\* The node of id gets the link count of its slot; nothing else changes.
LEMMA CountedAgree ==
  ASSUME MountInv, NEW id \in FileIds, NEW s \in Slots, entries[s].va_fileid = id,
         ID' = ID,
         nodes' = LinkCount(id, entries'[s].va_nlink),
         entries'[s].va_nlink \in Int,
         \A t \in Slots : entries'[t].va_fileid = entries[t].va_fileid,
         \A t \in Slots \ {s} : Same(t)
  PROVE  /\ nodes' \in [FileIds -> Node]
         /\ NodesAgree' /\ FreshIds'
<1>. DEFINE link == entries'[s].va_nlink
            base == pba_cmap(id)
<1>1. Live(s)
  BY DEF Live, FileIds
<1>2. /\ base \in [FileIds -> Node]
      /\ \A j \in FileIds : \/ base[j] = nodes[j]
                            \/ j = id /\ base[j] = NewNode
  BY NewNodes
<1>3. nodes' = [base EXCEPT ![id].va_nlink = link]
  BY DEF LinkCount
<1>4. Agrees(nodes[id], entries[s].va_nlink)
  BY <1>1 DEF MountInv, NodesAgree
<1>5. id < ID
  BY <1>1, LiveId DEF MountInv
<1>6. ~base[id].freed
  BY <1>2, <1>4 DEF Agrees, NewNode, NoNode, pba_cmap, MountInv, MountTypeOK
<1>. HIDE DEF base, link
<1>7. /\ nodes' \in [FileIds -> Node]
      /\ ~nodes'[id].freed /\ nodes'[id].va_nlink = link
      /\ \A j \in FileIds \ {id} : nodes'[j] = nodes[j]
  <2>1. link \in Int
    BY DEF link
  <2>2. [base[id] EXCEPT !.va_nlink = link] \in Node
    BY <1>2, <2>1 DEF Node
  <2>3. nodes' = [base EXCEPT ![id] = [base[id] EXCEPT !.va_nlink = link]]
    BY <1>2, <1>3
  <2>4. nodes' \in [FileIds -> Node] /\ nodes'[id] = [base[id] EXCEPT !.va_nlink = link]
        /\ \A j \in FileIds \ {id} : nodes'[j] = base[j]
    BY <1>2, <2>2, <2>3
  <2>5. base[id] \in Node
    BY <1>2
  <2>6. ~nodes'[id].freed /\ nodes'[id].va_nlink = link
    BY <1>6, <2>4, <2>5 DEF Node
  <2>. QED
    BY <1>2, <2>4, <2>6
<1>8. NodesAgree'
  <2>. SUFFICES ASSUME NEW t \in Slots, Live(t)'
                PROVE  Agrees(nodes[entries[t].va_fileid], entries[t].va_nlink)'
    BY DEF NodesAgree
  <2>. DEFINE j == entries[t].va_fileid
  <2>1. Live(t) /\ entries'[t].va_fileid = j
    BY DEF Live
  <2>2. j \in FileIds
    BY <2>1, LiveId DEF MountInv
  <2>3. CASE t = s
    BY <1>7, <2>1, <2>3 DEF Agrees, link
  <2>4. CASE t # s
    <3>1. j # id
      BY <1>1, <2>1, <2>4 DEF MountInv, IInv, IdsUnique
    <3>2. nodes'[j] = nodes[j] /\ entries'[t].va_nlink = entries[t].va_nlink
      BY <1>7, <2>2, <2>4, <3>1 DEF Same
    <3>3. Agrees(nodes[j], entries[t].va_nlink)
      BY <2>1 DEF MountInv, NodesAgree
    <3>. QED
      BY <2>1, <3>2, <3>3 DEF Agrees
  <2>. QED
    BY <2>3, <2>4
<1>9. FreshIds'
  BY <1>5, <1>7, StoreAssumption DEF MountInv, FreshIds, IInv, TypeOK, FileIds
<1>. QED
  BY <1>7, <1>8, <1>9

LEMMA RemoveKeeps ==
  ASSUME MountInv, NEW dir \in FileIds, NEW targ \in FileIds, NEW n,
         vnodes[targ] # None, puffboy_node_remove(dir, targ, n)
  PROVE  MountInv'
<1>1. /\ Called /\ UNCHANGED <<vnodes, reading, ID>>
      /\ Finds(dir, n, targ) /\ handle_rm_request(dir, n)
      /\ nodes' = IF hung' \/ resp'.err # 0 THEN pba_cmap(targ)
                  ELSE LinkCount(targ, resp'.va_nlink)
  BY DEF puffboy_node_remove, handle_rm_request
<1>2. IInv'
  BY <1>1, RmKeeps DEF MountInv
<1>3. vnodes' \in [FileIds -> Types] /\ ReadSound' /\ reading' \in Reads
  BY <1>1, NoRead DEF MountInv, MountTypeOK
<1>4. CASE hung' \/ resp'.err # 0
  <2>1. UNCHANGED entries
    BY <1>1, <1>4 DEF handle_rm_request, Respond, Refused, Ready
  <2>. QED
    BY <1>1, <1>2, <1>3, <1>4, <2>1, CmapKeeps, UnchangedSame
<1>5. CASE ~(hung' \/ resp'.err # 0)
  <2>1. PICK p \in find_by_id(dir), ent \in Slots :
          /\ \E k \in Named(p, n) : ent = Chain(entries, p)[k]
          /\ entries' = Unlinked(p, ent)
          /\ resp' = [cmd |-> "RM", err |-> 0, va_fileid |-> entries[ent].va_fileid,
                      va_nlink |-> entries'[ent].va_nlink]
    BY <1>1, <1>5 DEF handle_rm_request, Respond, Refused, Hang, ENOENT, ENOTDIR
  <2>2. PICK k \in Named(p, n) : ent = Chain(entries, p)[k]
    BY <2>1
  <2>3. entries[ent].va_fileid = targ
    <3>0. PICK q \in find_by_id(dir) :
            \E j \in Named(q, n) : entries[Chain(entries, q)[j]].va_fileid = targ
      BY <1>1 DEF Finds
    <3>1. PICK j \in Named(q, n) : entries[Chain(entries, q)[j]].va_fileid = targ
      BY <3>0
    <3>2. q = p
      <4>1. \A a, b \in First({s \in Slots : entries[s].va_fileid = dir}) : a = b
        BY StoreAssumption DEF First, Slots
      <4>. QED
        BY <2>1, <3>0, <4>1 DEF find_by_id
    <3>3. j = k
      <4>1. Named(p, n) = First({i \in Positions(entries, p) : entries[Chain(entries, p)[i]].name = n})
        BY DEF Named
      <4>2. \A i \in Positions(entries, p) : i \in Nat
        BY StoreAssumption DEF Positions
      <4>3. j \in Named(p, n)
        BY <3>1, <3>2
      <4>. QED
        BY <2>2, <4>1, <4>2, <4>3 DEF First
    <3>. QED
      BY <2>2, <3>1, <3>2, <3>3
  <2>4. \A s \in Slots :
          /\ entries'[s].va_fileid = entries[s].va_fileid
          /\ entries'[s].va_type = entries[s].va_type
          /\ s # ent => entries'[s].va_nlink = entries[s].va_nlink
    <3>. TAKE s \in Slots
    <3>1. entries[s] \in Entry
      BY DEF MountInv, IInv, TypeOK
    <3>. DEFINE e    == entries[s]
                after == IF \E i \in Preceding(p, ent) : s = Chain(entries, p)[i]
                         THEN entries[ent].next ELSE entries[s].next
                nlink == IF s = ent THEN (e.va_nlink - 1 + U32) % U32 ELSE e.va_nlink
    <3>2. entries'[s] = [e EXCEPT !.va_nlink = nlink, !.next = after]
      BY <2>1 DEF Unlinked
    <3>3. s # ent => nlink = e.va_nlink
      OBVIOUS
    <3>. HIDE DEF e, after, nlink
    <3>4. e \in Entry
      BY <3>1 DEF e
    <3>5. /\ entries'[s].va_fileid = e.va_fileid /\ entries'[s].va_type = e.va_type
          /\ entries'[s].va_nlink = nlink
      BY <3>2, <3>4 DEF Entry
    <3>. QED
      BY <3>3, <3>5 DEF e
  <2>5. entries'[ent].va_nlink \in Int
    BY <1>2, StoreAssumption DEF IInv, TypeOK, Entry
  <2>6. nodes' = LinkCount(targ, entries'[ent].va_nlink)
    BY <1>1, <1>5, <2>1
  <2>7. nodes' \in [FileIds -> Node] /\ NodesAgree' /\ FreshIds'
    BY <1>1, <2>3, <2>4, <2>5, <2>6, CountedAgree DEF Same
  <2>8. HeldLive'
    BY <1>1, <2>4 DEF MountInv, HeldLive, Held
  <2>. QED
    BY <1>2, <1>3, <2>7, <2>8 DEF MountInv, MountTypeOK
<1>. QED
  BY <1>4, <1>5

\* The slot of a held cookie is found, so the reclaim of it is not refused.
LEMMA ReclaimNodeKeeps ==
  ASSUME MountInv, NEW id \in FileIds, vnodes[id] # None, puffboy_node_reclaim(id)
  PROVE  MountInv'
<1>1. /\ Called /\ UNCHANGED <<reading, ID>> /\ vnodes' = [vnodes EXCEPT ![id] = None]
      /\ handle_reclaim_request(id)
      /\ nodes' = IF resp'.err # 0 THEN pba_cmap(id)
                  ELSE [LinkCount(id, resp'.va_nlink) EXCEPT
                          ![id].freed = @ \/ resp'.va_nlink = 0]
  BY DEF puffboy_node_reclaim, handle_reclaim_request
<1>2. IInv'
  BY <1>1, ReclaimKeeps DEF MountInv
<1>3. vnodes' \in [FileIds -> Types] /\ ReadSound' /\ reading' \in Reads
      /\ vnodes'[id] = None /\ \A j \in FileIds \ {id} : vnodes'[j] = vnodes[j]
  BY <1>1, NoRead DEF MountInv, MountTypeOK, Types
<1>4. CASE resp'.err # 0
  <2>1. UNCHANGED entries
    BY <1>1, <1>4 DEF handle_reclaim_request, Respond
  <2>2. \A j \in FileIds : vnodes'[j] \in {vnodes[j], None}
    BY <1>3
  <2>. QED
    BY <1>1, <1>2, <1>3, <1>4, <2>1, <2>2, CmapKeeps, UnchangedSame
<1>5. CASE ~(resp'.err # 0)
  <2>1. PICK s \in find_by_id(id) :
          /\ entries' = [entries EXCEPT ![s].va_fileid = 0]
          /\ resp'.va_nlink = entries[s].va_nlink
    BY <1>1, <1>5 DEF handle_reclaim_request, Respond, Refused, ENOENT
  <2>2. s \in Slots /\ entries[s].va_fileid = id /\ Live(s)
    BY <2>1, FoundById DEF Live, FileIds
  <2>3. /\ entries'[s].va_fileid = 0
        /\ \A t \in Slots \ {s} : entries'[t] = entries[t]
    <3>1. entries \in [Slots -> Entry] /\ entries[s] \in Entry
      BY <2>2 DEF MountInv, IInv, TypeOK
    <3>2. entries' = [entries EXCEPT ![s] = [entries[s] EXCEPT !.va_fileid = 0]]
      BY <2>1
    <3>3. [entries[s] EXCEPT !.va_fileid = 0].va_fileid = 0
      BY <3>1 DEF Entry
    <3>. QED
      BY <2>2, <3>1, <3>2, <3>3
  <2>4. \A t \in Slots \ {s} : entries[t].va_fileid # id
    BY <2>2 DEF MountInv, IInv, IdsUnique, Live
  <2>5. /\ nodes' \in [FileIds -> Node]
        /\ \A j \in FileIds \ {id} : nodes'[j] = nodes[j]
    <3>. DEFINE base  == pba_cmap(id)
                count == resp'.va_nlink
                low   == [base[id] EXCEPT !.va_nlink = count]
                node  == [low EXCEPT !.freed = @ \/ count = 0]
    <3>1. base \in [FileIds -> Node] /\ \A j \in FileIds \ {id} : base[j] = nodes[j]
      BY NewNodes
    <3>2. entries[s] \in Entry
      BY <2>2 DEF MountInv, IInv, TypeOK
    <3>3. count \in Int
      BY <2>1, <3>2, StoreAssumption DEF Entry
    <3>4. nodes' = [[base EXCEPT ![id].va_nlink = count] EXCEPT ![id].freed = @ \/ count = 0]
      BY <1>1, <1>5 DEF LinkCount
    <3>. HIDE DEF base, count
    <3>5. base[id] \in Node
      BY <3>1
    <3>6. low \in Node
      BY <3>3, <3>5 DEF Node
    <3>. HIDE DEF low
    <3>7. node \in Node
      BY <3>6 DEF Node
    <3>8. nodes' = [base EXCEPT ![id] = node]
      BY <3>1, <3>4 DEF low
    <3>. HIDE DEF node
    <3>. QED
      BY <3>1, <3>7, <3>8
  <2>6. HeldLive'
    <3>. SUFFICES ASSUME NEW j \in FileIds, vnodes'[j] # None
                  PROVE  \E t \in Slots : entries'[t].va_fileid = j /\ entries'[t].va_type = vnodes'[j]
      BY DEF HeldLive, Held
    <3>1. j # id /\ vnodes'[j] = vnodes[j]
      BY <1>3
    <3>2. PICK t \in Slots : entries[t].va_fileid = j /\ entries[t].va_type = vnodes[j]
      BY <3>1 DEF MountInv, HeldLive, Held
    <3>. QED
      BY <2>2, <2>3, <3>1, <3>2
  <2>7. NodesAgree'
    <3>. SUFFICES ASSUME NEW t \in Slots, Live(t)'
                  PROVE  Agrees(nodes[entries[t].va_fileid], entries[t].va_nlink)'
      BY DEF NodesAgree
    <3>1. t # s /\ entries'[t] = entries[t]
      BY <2>3 DEF Live
    <3>2. Live(t) /\ entries[t].va_fileid # id
      BY <2>4, <3>1 DEF Live
    <3>3. entries[t].va_fileid \in FileIds
      BY <3>2, LiveId DEF MountInv
    <3>4. nodes'[entries[t].va_fileid] = nodes[entries[t].va_fileid]
      BY <2>5, <3>2, <3>3
    <3>5. Agrees(nodes[entries[t].va_fileid], entries[t].va_nlink)
      BY <3>2 DEF MountInv, NodesAgree
    <3>. QED
      BY <3>1, <3>4, <3>5 DEF Agrees
  <2>8. FreshIds'
    <3>1. id < ID
      BY <2>2, LiveId DEF MountInv
    <3>. QED
      BY <1>1, <2>5, <3>1, StoreAssumption DEF MountInv, FreshIds, IInv, TypeOK, FileIds
  <2>. QED
    BY <1>2, <1>3, <2>5, <2>6, <2>7, <2>8 DEF MountInv, MountTypeOK
<1>. QED
  BY <1>4, <1>5

-----------------------------------------------------------------------------
(* Create and mkdir.                                                       *)

\* What a create that takes a slot makes of the table.
CreatedIn(s, vt) ==
  /\ s \in Slots /\ entries[s].va_fileid = 0
  /\ ID \in FileIds /\ ID' = ID + 1
  /\ entries'[s].va_fileid = ID /\ entries'[s].va_type = vt
  /\ \A t \in Slots \ {s} : Same(t)

LEMMA CreateTakesSlot ==
  ASSUME IInv, NEW dir, NEW n, NEW vt, handle_create_request(dir, n, vt), ID' # ID
  PROVE  \E s \in Slots : /\ CreatedIn(s, vt)
                          /\ hung' \/ resp' = Attributes("CREATE", entries'[s])
<1>1. PICK p \in find_by_id(dir), s \in First(FreeSlots) :
        /\ ID <= MaxID /\ ID' = ID + 1
        /\ hung' \/ resp' = Attributes("CREATE", entries'[s])
        /\ LET inited == [entries EXCEPT ![s] = NewEntry(ID, vt, @.name)] IN
           \/ entries' = [inited EXCEPT ![p].child = s, ![s].name = n]
           \/ \E last \in LastOf(inited, p) :
                entries' = [inited EXCEPT ![last].next = s, ![s].va_nlink = @ + 1, ![s].name = n]
           \/ entries' = inited
  BY DEF handle_create_request, entry_init, Respond, Hang
<1>. DEFINE new    == NewEntry(ID, vt, entries[s].name)
            inited == [entries EXCEPT ![s] = new]
            Files  == [va_fileid : {ID}, va_type : {vt}]
<1>2. /\ p \in Slots /\ s \in Slots /\ entries[s].va_fileid = 0
      /\ entries \in [Slots -> Entry]
  <2>1. s \in Slots /\ entries[s].va_fileid = 0
    BY DEF First, FreeSlots
  <2>. QED
    BY <2>1, FoundById DEF IInv, TypeOK
<1>3. ID \in FileIds
  BY <1>1, StoreAssumption DEF IInv, TypeOK, FileIds
<1>4. /\ DOMAIN new = {"va_fileid", "va_type", "va_nlink", "va_size", "name", "next", "child",
                       "numblocks", "datalen"}
      /\ new.va_fileid = ID /\ new.va_type = vt
  BY DEF NewEntry
<1>5. \A t \in Slots : DOMAIN entries[t] = DOMAIN new
  BY <1>2, <1>4 DEF Entry
<1>6. /\ DOMAIN inited = Slots /\ inited[s] = new
      /\ \A t \in Slots \ {s} : inited[t] = entries[t]
      /\ \A t \in Slots : DOMAIN inited[t] = DOMAIN new
  BY <1>2, <1>5
<1>. HIDE DEF new, inited
\* A table that differs from inited in other fields only.
<1>. DEFINE Kept(e) == /\ DOMAIN e = Slots
                       /\ \A t \in Slots : /\ DOMAIN e[t] = DOMAIN new
                                           /\ e[t].va_fileid = inited[t].va_fileid
                                           /\ e[t].va_type = inited[t].va_type
                                           /\ t # s => e[t].va_nlink = inited[t].va_nlink
<1>7. Kept(inited)
  BY <1>6
<1>8. ASSUME NEW e, Kept(e), NEW q \in Slots, NEW v
      PROVE  Kept([e EXCEPT ![q].child = v]) /\ Kept([e EXCEPT ![q].next = v])
             /\ Kept([e EXCEPT ![q].name = v])
  BY <1>4, <1>8
<1>9. ASSUME NEW e, Kept(e), NEW v
      PROVE  Kept([e EXCEPT ![s].va_nlink = v])
  BY <1>2, <1>4, <1>9
<1>. HIDE DEF Kept
<1>10. Kept(entries')
  <2>1. CASE entries' = [inited EXCEPT ![p].child = s, ![s].name = n]
    <3>. DEFINE e == [inited EXCEPT ![p].child = s]
    <3>1. Kept(e)
      BY <1>2, <1>7, <1>8
    <3>2. entries' = [e EXCEPT ![s].name = n]
      BY <2>1
    <3>. HIDE DEF e
    <3>. QED
      BY <1>2, <1>8, <3>1, <3>2
  <2>2. ASSUME NEW last \in Slots,
               entries' = [inited EXCEPT ![last].next = s, ![s].va_nlink = @ + 1, ![s].name = n]
        PROVE  Kept(entries')
    <3>. DEFINE e == [inited EXCEPT ![last].next = s]
                v == e[s].va_nlink + 1
                f == [e EXCEPT ![s].va_nlink = v]
    <3>1. Kept(e)
      BY <1>7, <1>8
    <3>2. entries' = [f EXCEPT ![s].name = n]
      BY <2>2
    <3>. HIDE DEF e
    <3>. HIDE DEF v
    <3>3. Kept(f)
      BY <1>9, <3>1
    <3>. HIDE DEF f
    <3>. QED
      BY <1>2, <1>8, <3>2, <3>3
  <2>3. CASE entries' = inited
    BY <1>7, <2>3
  <2>4. \A last \in LastOf(inited, p) : last \in Slots
    BY DEF LastOf
  <2>. QED
    BY <1>1, <2>1, <2>2, <2>3, <2>4 DEF inited, new
<1>11. CreatedIn(s, vt)
  BY <1>1, <1>2, <1>3, <1>4, <1>6, <1>10 DEF Kept, CreatedIn, Same
<1>. QED
  BY <1>1, <1>2, <1>11

LEMMA CreateNodeKeeps ==
  ASSUME MountInv, NEW dir \in FileIds, NEW n \in Names, NEW vt \in {"VREG", "VDIR"},
         puffboy_node_create(dir, n, vt)
  PROVE  MountInv'
<1>1. Called /\ UNCHANGED reading /\ handle_create_request(dir, n, vt)
  BY DEF puffboy_node_create
<1>2. IInv' /\ hung' \in BOOLEAN
  BY <1>1, CreateKeeps DEF MountInv, IInv, TypeOK
<1>3. ReadSound' /\ reading' \in Reads
  BY <1>1, NoRead
<1>4. CASE ID' = ID
  <2>1. UNCHANGED entries /\ resp'.exists = 0
    BY <1>1, <1>4, StoreAssumption
    DEF handle_create_request, Respond, Absent, MountInv, IInv, TypeOK
  <2>2. UNCHANGED <<vnodes, nodes>>
    BY <2>1 DEF puffboy_node_create
  <2>3. MountTypeOK' /\ Quiet
    BY <1>3, <2>2 DEF MountInv, MountTypeOK, Quiet
  <2>. QED
    BY <1>2, <1>3, <1>4, <2>1, <2>3, QuietKeeps, UnchangedSame
<1>5. CASE ID' # ID
  <2>1. PICK s \in Slots : /\ CreatedIn(s, vt)
                           /\ hung' \/ resp' = Attributes("CREATE", entries'[s])
    BY <1>1, <1>5, CreateTakesSlot DEF MountInv
  <2>. DEFINE links == entries'[s].va_nlink
  <2>2. /\ ID \in FileIds /\ ID' = ID + 1 /\ entries[s].va_fileid = 0
        /\ entries'[s].va_fileid = ID /\ entries'[s].va_type = vt
        /\ \A t \in Slots \ {s} : Same(t)
    BY <2>1 DEF CreatedIn
  <2>3. nodes[ID] = NoNode
    BY <2>2, StoreAssumption DEF MountInv, FreshIds, FileIds
  <2>4. links \in Int
    BY <1>2, StoreAssumption DEF IInv, TypeOK, Entry
  <2>5. /\ vnodes' \in [FileIds -> Types] /\ nodes' \in [FileIds -> Node]
        /\ vnodes'[ID] \in {vnodes[ID], vt}
        /\ \A j \in FileIds \ {ID} : vnodes'[j] = vnodes[j] /\ nodes'[j] = nodes[j]
        /\ Agrees(nodes'[ID], links)
    <3>1. CASE UNCHANGED <<vnodes, nodes>>
      BY <2>2, <2>3, <3>1 DEF MountInv, MountTypeOK, Agrees
    <3>2. CASE ~ UNCHANGED <<vnodes, nodes>>
      <4>. DEFINE node == IF vt = "VDIR" THEN NewNode
                          ELSE [NewNode EXCEPT !.va_type = vt, !.va_nlink = links]
      <4>1. resp' = Attributes("CREATE", entries'[s])
        BY <2>1, <3>2 DEF puffboy_node_create
      <4>2. resp'.va_fileid = ID /\ resp'.va_nlink = links
        BY <2>2, <4>1 DEF Attributes
      <4>3. ID # 0
        BY <2>2 DEF FileIds
      <4>4. vnodes' = [vnodes EXCEPT ![ID] = vt] /\ nodes' = [nodes EXCEPT ![ID] = node]
        BY <3>2, <4>2, <4>3 DEF puffboy_node_create, GivenCookie
      <4>5. node \in Node /\ Agrees(node, links)
        <5>1. NewNode \in Node /\ ~NewNode.freed /\ NewNode.va_nlink = NOVAL
          BY NewNodes, <2>2 DEF NewNode
        <5>. HIDE DEF links
        <5>2. CASE vt = "VDIR"
          BY <5>1, <5>2 DEF Agrees
        <5>3. CASE vt # "VDIR"
          <6>1. /\ node \in Node /\ node.va_nlink = links /\ node.freed = NewNode.freed
            BY <2>4, <5>1, <5>3 DEF Node, Types
          <6>. QED
            BY <5>1, <6>1 DEF Agrees
        <5>. QED
          BY <5>2, <5>3
      <4>. HIDE DEF node, links
      <4>. QED
        BY <2>2, <4>4, <4>5 DEF MountInv, MountTypeOK, Types
    <3>. QED
      BY <3>1, <3>2
  <2>6. ASSUME NEW t \in Slots, Live(t)
        PROVE  t # s /\ Same(t) /\ entries[t].va_fileid \in FileIds \ {ID}
    <3>1. t # s
      BY <2>2, <2>6 DEF Live
    <3>2. entries[t].va_fileid \in FileIds /\ entries[t].va_fileid < ID
      BY <2>6, LiveId DEF MountInv
    <3>. QED
      BY <2>2, <3>1, <3>2, StoreAssumption DEF FileIds
  <2>7. HeldLive'
    <3>. SUFFICES ASSUME NEW j \in FileIds, vnodes'[j] # None
                  PROVE  \E t \in Slots : entries'[t].va_fileid = j /\ entries'[t].va_type = vnodes'[j]
      BY DEF HeldLive, Held
    <3>1. CASE vnodes'[j] = vnodes[j]
      <4>1. PICK t \in Slots : /\ entries[t].va_fileid = j /\ Live(t)
                               /\ entries[t].va_type = vnodes[j]
        BY <3>1, HeldSlot
      <4>. QED
        BY <2>6, <3>1, <4>1 DEF Same
    <3>2. CASE vnodes'[j] # vnodes[j]
      BY <2>2, <2>5, <3>2
    <3>. QED
      BY <3>1, <3>2
  <2>8. NodesAgree'
    <3>. SUFFICES ASSUME NEW t \in Slots, Live(t)'
                  PROVE  Agrees(nodes[entries[t].va_fileid], entries[t].va_nlink)'
      BY DEF NodesAgree
    <3>1. CASE t = s
      BY <2>2, <2>5, <3>1 DEF Agrees
    <3>2. CASE t # s
      <4>1. Same(t) /\ Live(t)
        BY <2>2, <3>2 DEF Same, Live
      <4>2. Agrees(nodes[entries[t].va_fileid], entries[t].va_nlink)
        BY <4>1 DEF MountInv, NodesAgree
      <4>3. nodes'[entries[t].va_fileid] = nodes[entries[t].va_fileid]
        BY <2>5, <2>6, <4>1
      <4>. QED
        BY <4>1, <4>2, <4>3 DEF Same, Agrees
    <3>. QED
      BY <3>1, <3>2
  <2>9. FreshIds'
    BY <2>2, <2>5, StoreAssumption DEF MountInv, FreshIds, FileIds
  <2>. QED
    BY <1>2, <1>3, <2>5, <2>7, <2>8, <2>9 DEF MountInv, MountTypeOK
<1>. QED
  BY <1>4, <1>5

-----------------------------------------------------------------------------
(* Read.                                                                   *)

LEMMA ReadKeeps ==
  ASSUME MountInv, NEW id \in FileIds, NEW offset \in ReadOffsets, NEW asked \in ReadSizes,
         vnodes[id] # None, puffboy_node_read(id, offset, asked)
  PROVE  MountInv'
<1>1. /\ Ready /\ UNCHANGED <<vnodes, nodes, entries, ID>> /\ Ready'
      /\ reading' = [id |-> id, start |-> offset, offset |-> offset, asked |-> asked,
                     resid |-> asked, eof |-> FALSE]
      /\ UnchangedStore /\ hung' \in BOOLEAN
  BY DEF puffboy_node_read, store, Ready, UnchangedStore, MountInv, IInv, TypeOK
<1>2. IInv'
  BY <1>1, UnchangedKeeps DEF MountInv
<1>3. asked \in Nat /\ asked > 0 /\ asked < U32 /\ offset \in Nat /\ id \in Nat
  BY MountAssumption, StoreAssumption DEF FileIds
<1>4. MountTypeOK'
  BY <1>1, <1>3 DEF MountInv, MountTypeOK, Reads
<1>5. ReadSound'
  <2>1. PICK s \in Slots : entries[s].va_fileid = id /\ Live(s)
    BY HeldSlot
  <2>2. Progress(reading', entries'[s].va_size)
    BY <1>1, <1>3 DEF Progress
  <2>3. /\ reading'.resid < U32 /\ entries'[s].va_fileid = reading'.id
        /\ Live(s)' /\ Progress(reading, entries[s].va_size)'
    BY <1>1, <1>3, <2>1, <2>2 DEF Live, Progress, BLOCKOFF
  <2>. QED
    BY <1>1, <2>3 DEF ReadSound
<1>6. Quiet
  BY <1>1 DEF Quiet
<1>. QED
  BY <1>1, <1>2, <1>4, <1>5, <1>6, QuietKeeps, UnchangedSame

\* Whole blocks less one are whole blocks.
LEMMA BlockLess ==
  ASSUME NEW n \in Nat, BLOCKOFF(n) = 0, n # 0
  PROVE  n >= BlockSize /\ BLOCKOFF(n - BlockSize) = 0
<1>. DEFINE q == BLOCKNUM(n)
<1>1. q \in Nat /\ n = q * BlockSize
  BY DivMod, StoreAssumption DEF BLOCKOFF, Offsets
<1>. HIDE DEF q
<1>2. q >= 1 /\ q - 1 \in Nat /\ n = (q - 1) * BlockSize + BlockSize
  BY <1>1, StoreAssumption
<1>3. (q - 1) * BlockSize \in Nat /\ n - BlockSize = (q - 1) * BlockSize
  BY <1>2, StoreAssumption
<1>. DEFINE m == n - BlockSize
            p == BLOCKNUM(m)
            k == q - 1
<1>4. m \in Nat /\ k \in Nat /\ m = k * BlockSize /\ n >= BlockSize
  BY <1>2, <1>3, StoreAssumption
<1>. HIDE DEF m, k
<1>5. p \in Nat /\ m = p * BlockSize + BLOCKOFF(m) /\ BLOCKOFF(m) \in 0..(BlockSize - 1)
  BY <1>4, DivMod DEF Offsets
<1>. HIDE DEF p
<1>6. CASE p = k
  BY <1>4, <1>5, <1>6, StoreAssumption DEF m
<1>7. ASSUME p >= k + 1 PROVE FALSE
  <2>1. p * BlockSize >= (k + 1) * BlockSize /\ (k + 1) * BlockSize = k * BlockSize + BlockSize
    BY <1>4, <1>5, <1>7, StoreAssumption
  <2>. QED
    BY <1>4, <1>5, <2>1, StoreAssumption
<1>8. ASSUME k >= p + 1 PROVE FALSE
  <2>1. k * BlockSize >= (p + 1) * BlockSize /\ (p + 1) * BlockSize = p * BlockSize + BlockSize
    BY <1>4, <1>5, <1>8, StoreAssumption
  <2>. QED
    BY <1>4, <1>5, <2>1, StoreAssumption
<1>. QED
  BY <1>4, <1>5, <1>6, <1>7, <1>8

\* Taking no more than there is does not wrap; taking more does.
LEMMA Taken ==
  ASSUME NEW n \in 0..(U32 - 1), NEW k \in Nat
  PROVE  /\ (n - k + U32) % U32 \in 0..(U32 - 1)
         /\ k <= n => (n - k + U32) % U32 = n - k
<1>1. n - k + U32 \in Int /\ U32 \in Nat /\ U32 > 0
  BY StoreAssumption
<1>2. (n - k + U32) % U32 \in 0..(U32 - 1)
  BY <1>1
<1>3. ASSUME k <= n PROVE (n - k + U32) % U32 = n - k
  <2>1. n - k \in 0..(U32 - 1)
    BY <1>3, StoreAssumption
  <2>2. ASSUME NEW x \in 0..(U32 - 1) PROVE (x + U32) % U32 = x
    BY <1>1
  <2>. QED
    BY <2>1, <2>2
<1>. QED
  BY <1>2, <1>3

LEMMA ReadResponseKeeps ==
  ASSUME MountInv, do_gba_read
  PROVE  MountInv'
<1>. DEFINE r == reading
<1>1. /\ r # NotReading /\ r.resid > 0 /\ ~r.eof
      /\ Ready /\ UnchangedStore /\ UNCHANGED <<vnodes, nodes, entries, ID, writing>>
      /\ hung' \in BOOLEAN
  BY DEF do_gba_read, handle_read_request, UnchangedStore, Respond, MountInv, IInv, TypeOK
<1>2. IInv'
  BY <1>1, UnchangedKeeps DEF MountInv
<1>3. r \in Reads /\ r.resid < U32
  BY <1>1 DEF MountInv, MountTypeOK, ReadSound
<1>4. PICK s \in Slots : /\ entries[s].va_fileid = r.id /\ Live(s)
                         /\ Progress(r, entries[s].va_size)
  BY <1>1 DEF MountInv, ReadSound
<1>5. Quiet
  BY <1>1 DEF Quiet
<1>6. CASE resp'.err # 0
  <2>1. reading' = NotReading
    BY <1>6 DEF do_gba_read
  <2>2. MountTypeOK' /\ ReadSound'
    BY <1>1, <2>1 DEF MountInv, MountTypeOK, ReadSound, NotReading, Reads
  <2>. QED
    BY <1>1, <1>2, <1>5, <2>2, QuietKeeps, UnchangedSame
<1>7. CASE ~(resp'.err # 0)
  <2>. DEFINE size == entries[s].va_size
              c    == Least(size - r.offset, BlockSize)
              left == (r.resid - c + U32) % U32
  <2>1. PICK t \in find_by_id(r.id) :
          /\ ~(entries[t].datalen - r.offset < 0)
          /\ resp'.copylen = Least(entries[t].datalen - r.offset, BlockSize)
          /\ UNCHANGED hung
    BY <1>7 DEF do_gba_read, handle_read_request, Respond, Refused
  <2>2. t = s
    BY <1>4, <2>1, FoundById DEF MountInv, IInv, IdsUnique, Live
  <2>3. entries[s].datalen = size /\ size \in Nat
    BY <1>4 DEF MountInv, IInv, SizesAgree, TypeOK, Entry
  <2>4. size >= r.offset /\ resp'.copylen = c
    BY <1>3, <2>1, <2>2, <2>3 DEF Reads
  <2>5. reading' = [r EXCEPT !.offset = @ + c, !.resid = (@ - c + U32) % U32, !.eof = c = 0]
    BY <1>7, <2>4 DEF do_gba_read, copy
  <2>6. /\ r.offset \in Nat /\ r.start \in Nat /\ r.asked \in Nat /\ r.id \in Nat
        /\ r.resid \in 1..(U32 - 1) /\ r.resid \in Nat /\ BlockSize \in Nat \ {0}
    BY <1>1, <1>3, StoreAssumption DEF Reads
  <2>. HIDE DEF r, size
  <2>7. /\ c \in Nat /\ c <= BlockSize /\ r.offset + c <= size
        /\ c = 0 => r.offset = size
        /\ c = BlockSize \/ r.offset + c = size
    BY <2>3, <2>4, <2>6 DEF Least
  <2>. HIDE DEF c
  <2>8. left \in 0..(U32 - 1) /\ (c <= r.resid => left = r.resid - c)
    BY <2>6, <2>7, Taken
  <2>9. left \in Nat /\ left < U32
    BY <2>8, StoreAssumption
  <2>10. /\ reading'.id = r.id /\ reading'.start = r.start /\ reading'.asked = r.asked
         /\ reading'.offset = r.offset + c /\ reading'.resid = left
         /\ reading'.eof <=> c = 0
    BY <1>3, <2>5 DEF Reads
  <2>11. reading' \in Reads
    <3>1. r.offset + c \in Nat
      BY <2>6, <2>7
    <3>. HIDE DEF left
    <3>. QED
      BY <1>3, <2>5, <2>9, <3>1 DEF Reads, left
  <2>. HIDE DEF left
  <2>12. Progress(reading', size)
    <3>1. reading'.offset <= size /\ (reading'.eof => reading'.offset = size)
      BY <2>3, <2>6, <2>7, <2>10
    <3>2. ASSUME BLOCKOFF(r.asked) = 0
          PROVE  /\ left <= r.asked /\ r.offset + c = r.start + (r.asked - left)
                 /\ BLOCKOFF(left) = 0 \/ r.offset + c = size
      <4>1. /\ r.resid <= r.asked /\ r.offset = r.start + (r.asked - r.resid)
            /\ BLOCKOFF(r.resid) = 0 \/ r.offset = size
        BY <1>4, <2>6, <3>2 DEF Progress, size, r
      <4>2. CASE r.offset = size
        <5>1. c = 0
          BY <2>3, <2>6, <2>7, <4>2
        <5>2. left = r.resid
          BY <2>6, <2>8, <5>1
        <5>. QED
          BY <2>6, <4>1, <4>2, <5>1, <5>2
      <4>3. CASE r.offset # size
        <5>1. r.resid >= BlockSize /\ BLOCKOFF(r.resid - BlockSize) = 0
          BY <2>6, <4>1, <4>3, BlockLess
        <5>2. left = r.resid - c
          BY <2>6, <2>7, <2>8, <5>1
        <5>3. left <= r.asked /\ r.offset + c = r.start + (r.asked - left)
          BY <2>6, <2>7, <4>1, <5>1, <5>2
        <5>4. BLOCKOFF(left) = 0 \/ r.offset + c = size
          BY <2>7, <5>1, <5>2
        <5>. QED
          BY <5>3, <5>4
      <4>. QED
        BY <4>2, <4>3
    <3>. QED
      BY <2>10, <3>1, <3>2 DEF Progress
  <2>13. MountTypeOK' /\ ReadSound'
    <3>1. Ready' /\ entries'[s].va_fileid = reading'.id /\ Live(s)'
      BY <1>1, <1>4, <2>1, <2>10 DEF Ready, Live, r
    <3>2. Progress(reading, entries[s].va_size)'
      BY <1>1, <2>12 DEF size, Progress, BLOCKOFF
    <3>. QED
      BY <1>1, <2>9, <2>10, <2>11, <3>1, <3>2 DEF MountInv, MountTypeOK, ReadSound
  <2>. QED
    BY <1>1, <1>2, <1>5, <2>13, QuietKeeps, UnchangedSame
<1>. QED
  BY <1>6, <1>7

LEMMA ReadDoneKeeps ==
  ASSUME MountInv, ReadDone
  PROVE  MountInv'
<1>1. /\ UNCHANGED <<vnodes, nodes, entries, ID>> /\ UnchangedStore /\ hung' \in BOOLEAN
      /\ reading' = NotReading
  BY DEF ReadDone, store, UnchangedStore, MountInv, IInv, TypeOK
<1>2. IInv'
  BY <1>1, UnchangedKeeps DEF MountInv
<1>3. MountTypeOK' /\ ReadSound' /\ Quiet
  BY <1>1 DEF MountInv, MountTypeOK, ReadSound, NotReading, Reads, Quiet
<1>. QED
  BY <1>1, <1>2, <1>3, QuietKeeps, UnchangedSame

-----------------------------------------------------------------------------
(* The invariant holds.                                                    *)

LEMMA InitMountInv ==
  ASSUME MountInit PROVE MountInv
<1>1. Init /\ IInv
  BY InitIInv DEF MountInit
<1>2. 1 \in FileIds /\ 2 \in FileIds /\ 1 \in Slots /\ 2 \in Slots /\ 1 # 2
  BY StoreAssumption DEF FileIds, Slots
<1>3. NewNode \in Node /\ NoNode \in Node /\ [NewNode EXCEPT !.va_type = "VDIR"] \in Node
  <2>1. NewNode \in Node
    BY DEF NewNode, Node, Types, NOVAL
  <2>2. NoNode \in Node
    BY DEF NoNode, Node, Types
  <2>3. [NewNode EXCEPT !.va_type = "VDIR"] \in Node
    BY <2>1 DEF Node, Types
  <2>. QED
    BY <2>1, <2>2, <2>3
<1>4. /\ entries[1].va_fileid = 1 /\ entries[1].va_type = "VDIR"
      /\ \A s \in Slots : Live(s) => s = 1 \/ s = 2
      /\ entries[2].va_fileid = 2 /\ ID = 3
  BY <1>1, <1>2 DEF Init, NewEntry, BlankEntry, Live
<1>5. MountTypeOK
  BY <1>3 DEF MountInit, MountTypeOK, Types, NotReading, Reads
<1>6. HeldLive
  BY <1>2, <1>4 DEF MountInit, HeldLive, Held
<1>7. NodesAgree
  <2>1. Agrees(nodes[1], entries[1].va_nlink) /\ Agrees(nodes[2], entries[2].va_nlink)
    BY <1>2 DEF MountInit, Agrees, NewNode, NoNode, NOVAL
  <2>. QED
    BY <1>4, <2>1 DEF NodesAgree
<1>8. FreshIds /\ ReadSound
  BY <1>4 DEF MountInit, FreshIds, ReadSound
<1>. QED
  BY <1>1, <1>5, <1>6, <1>7, <1>8 DEF MountInv

LEMMA StepMountInv ==
  ASSUME MountInv, [MountNext]_mvars PROVE MountInv'
<1>1. CASE UNCHANGED mvars
  <2>1. /\ UNCHANGED <<vnodes, nodes, reading, entries, ID, writing, hung>>
        /\ UnchangedStore /\ hung' \in BOOLEAN
    BY <1>1 DEF mvars, mount, store, UnchangedStore, MountInv, IInv, TypeOK
  <2>2. IInv'
    BY <2>1, UnchangedKeeps DEF MountInv
  <2>3. MountTypeOK' /\ ReadSound' /\ Quiet
    BY <2>1 DEF MountInv, MountTypeOK, ReadSound, Quiet, Ready, Live, Progress, BLOCKOFF
  <2>. QED
    BY <2>1, <2>2, <2>3, QuietKeeps, UnchangedSame
<1>2. \A vt : Holds(vt) = {id \in FileIds : vnodes[id] = vt}
  BY DEF Holds
<1>3. "VDIR" # None /\ "VREG" # None /\ Extents \subseteq Nat
  BY StoreAssumption DEF None
<1>4. CASE NodeLookup
  BY <1>2, <1>4, LookupKeeps DEF NodeLookup
<1>5. CASE NodeCreate
  BY <1>2, <1>5, CreateNodeKeeps DEF NodeCreate
<1>6. CASE NodeRemove
  BY <1>2, <1>3, <1>6, RemoveKeeps DEF NodeRemove
<1>7. CASE NodeInactive
  BY <1>2, <1>3, <1>7, InactiveKeeps DEF NodeInactive
<1>8. CASE NodeReclaim
  BY <1>2, <1>3, <1>8, ReclaimNodeKeeps DEF NodeReclaim
<1>9. CASE NodeSetattr
  BY <1>2, <1>3, <1>9, SetattrKeeps DEF NodeSetattr
<1>10. CASE NodeWrite
  BY <1>2, <1>3, <1>10, WriteKeeps DEF NodeWrite
<1>11. CASE WriteChunk
  BY <1>11, WriteChunkKeeps DEF WriteChunk
<1>12. CASE NodeRead
  BY <1>2, <1>3, <1>12, ReadKeeps DEF NodeRead
<1>13. CASE do_gba_read
  BY <1>13, ReadResponseKeeps
<1>14. CASE ReadDone
  BY <1>14, ReadDoneKeeps
<1>. QED
  BY <1>1, <1>4, <1>5, <1>6, <1>7, <1>8, <1>9, <1>10, <1>11, <1>12, <1>13, <1>14 DEF MountNext

(* Every vnode the kernel holds names a file that is live on the Game Boy  *)
(* and of its type, over any sequence of callbacks.                        *)
THEOREM HeldStayLive == MountSpec => []HeldLive
<1>1. MountInv => HeldLive
  BY DEF MountInv
<1>. QED
  BY <1>1, InitMountInv, StepMountInv, PTL DEF MountSpec

(* No callback is made with a node that puffs_pn_put has freed, although   *)
(* reclaim.c leaves freed nodes where pba_cmap looks.                      *)
THEOREM FreedNodesStayAway == MountSpec => []NoFreedNode
<1>1. ASSUME MountInv, NEW id \in FileIds, vnodes[id] # None PROVE ~nodes[id].freed
  <2>1. PICK s \in Slots : entries[s].va_fileid = id /\ Live(s)
    BY <1>1, HeldSlot
  <2>2. Agrees(nodes[id], entries[s].va_nlink)
    BY <1>1, <2>1 DEF MountInv, NodesAgree
  <2>. QED
    BY <2>2 DEF Agrees, NoNode
<1>2. MountInv => NoFreedNode
  BY <1>1 DEF NoFreedNode, Held
<1>. QED
  BY <1>2, InitMountInv, StepMountInv, PTL DEF MountSpec

(* The link count of a node is the Game Boy's or not known yet, whatever   *)
(* creates, removes and reclaims of other files come between.              *)
THEOREM LinkCountsStayCached == MountSpec => []LinkCountCached
<1>1. ASSUME MountInv, NEW id \in FileIds, vnodes[id] # None, nodes[id] # NoNode
      PROVE  nodes[id].va_nlink \in {NOVAL, entries[SlotOf(id)].va_nlink}
  <2>1. PICK s \in Slots : entries[s].va_fileid = id /\ Live(s)
    BY <1>1, HeldSlot
  <2>2. Agrees(nodes[id], entries[s].va_nlink)
    BY <1>1, <2>1 DEF MountInv, NodesAgree
  <2>3. SlotOf(id) = s
    BY <1>1, <2>1, SlotIs DEF MountInv, IInv
  <2>. QED
    BY <1>1, <2>2, <2>3 DEF Agrees
<1>2. MountInv => LinkCountCached
  BY <1>1 DEF LinkCountCached, Held
<1>. QED
  BY <1>2, InitMountInv, StepMountInv, PTL DEF MountSpec

(* A read of whole blocks ends with what was asked for or with all up to   *)
(* the end of the file, for files, blocks and reads of any size.           *)
THEOREM ReadsAreComplete == MountSpec => []ReadComplete
<1>1. ASSUME MountInv, reading # NotReading, reading.resid = 0 \/ reading.eof,
             BLOCKOFF(reading.asked) = 0
      PROVE  reading.offset = Least(reading.start + reading.asked, SizeOf(reading.id))
  <2>. DEFINE r == reading
  <2>1. PICK s \in Slots : /\ entries[s].va_fileid = r.id /\ Live(s)
                           /\ Progress(r, entries[s].va_size)
    BY <1>1 DEF MountInv, ReadSound
  <2>2. SizeOf(r.id) = entries[s].va_size
    BY <1>1, <2>1, SlotIs DEF MountInv, IInv, SizeOf
  <2>3. /\ r.offset \in Nat /\ r.start \in Nat /\ r.asked \in Nat /\ r.resid \in Nat
        /\ entries[s].va_size \in Nat
    BY <1>1 DEF MountInv, MountTypeOK, Reads, IInv, TypeOK, Entry
  <2>4. /\ r.offset <= entries[s].va_size /\ (r.eof => r.offset = entries[s].va_size)
        /\ r.resid <= r.asked /\ r.offset = r.start + (r.asked - r.resid)
    BY <1>1, <2>1, <2>3 DEF Progress
  <2>. HIDE DEF r
  <2>5. r.offset = Least(r.start + r.asked, entries[s].va_size)
    <3>1. CASE r.eof
      BY <2>3, <2>4, <3>1 DEF Least
    <3>2. CASE r.resid = 0
      BY <2>3, <2>4, <3>2 DEF Least
    <3>. QED
      BY <1>1, <3>1, <3>2 DEF r
  <2>. QED
    BY <2>2, <2>5 DEF r
<1>2. MountInv => ReadComplete
  BY <1>1 DEF ReadComplete
<1>. QED
  BY <1>2, InitMountInv, StepMountInv, PTL DEF MountSpec

=============================================================================
