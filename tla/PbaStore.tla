------------------------------ MODULE PbaStore ------------------------------
(***************************************************************************)
(* The GBA side of puffboy_advance: the file store kept in the Game Boy's  *)
(* memory and the handler of every command its main loop accepts.          *)
(*                                                                         *)
(* The store is a fixed table of directory entries, linked by the pointers *)
(* child (first entry of a directory) and next (its sibling), and a fixed  *)
(* table of data blocks, each tagged with the file it belongs to and its   *)
(* index in that file.  A handler runs to completion before main() reads   *)
(* the next command, so every handler is one action; the exception is      *)
(* CMD_WRITE, whose handler blocks for the chunks of the write, and which  *)
(* is one action for the request and one for each chunk.                   *)
(*                                                                         *)
(* Slots of the entry table are 1..EntriesMax and 0 is the null pointer; a *)
(* slot or a block whose va_fileid is 0 is free.                           *)
(***************************************************************************)
EXTENDS Integers, FiniteSets

CONSTANTS
  EntriesMax,  \* ENTRIES_MAX, the length of ENTRIES
  BlockMax,    \* BLOCK_MAX, the length of GBA_BLOCKS
  BlockSize,   \* BLOCKSIZE, the bytes of a block
  U32,         \* the modulus of uint32_t arithmetic (2^32 in the code)
  Names,       \* the names a request may carry
  TestName,    \* the name main() gives the file it creates
  Bytes,       \* the byte values a write may carry
  MaxID,       \* bound: no entry is created once ID has passed it
  Extents,     \* bound: the offsets, lengths and sizes a request may carry
  Commands     \* bound: the commands that may arrive

ASSUME StoreAssumption ==
  /\ EntriesMax \in Nat /\ EntriesMax >= 2
  /\ BlockMax \in Nat \ {0}
  /\ BlockSize \in Nat \ {0}
  /\ U32 \in Nat /\ U32 > 2
  /\ TestName \in Names
  /\ Bytes \subseteq Nat
  /\ MaxID \in Nat /\ MaxID >= 2
  /\ Extents \subseteq Nat
  /\ Commands \subseteq
       {"STATVFS", "READDIR", "LOOKUP", "GETATTR", "CREATE", "WRITE", "READ",
        "MKDIR", "RM", "RECLAIM", "SETSIZE"}

VARIABLES
  entries,  \* ENTRIES
  blocks,   \* GBA_BLOCKS
  ID,       \* ID, the next fileid to hand out
  writing,  \* the locals of handle_write_request while it awaits a chunk
  hung,     \* the main loop is in a loop it never leaves
  resp      \* the last response sent

vars == <<entries, blocks, ID, writing, hung, resp>>

NULL    == 0
Slots   == 1..EntriesMax
Blocks  == 1..BlockMax
Offsets == 0..(BlockSize - 1)
FileIds == 1..MaxID

NoName  == "unnamed"   \* what ENTRIES[i].name holds before it is ever set
Garbage == -1          \* a byte of memory that is not part of what was meant
Idle    == [slot |-> NULL, offset |-> 0, resid |-> 0]

\* The error numbers the handlers answer with.
ENOENT         == 2
ENOTDIR        == 20
EBLOCKNOTFOUND == 1
ENOBLOCKSFREE  == 2

-----------------------------------------------------------------------------
(* Searching the tables.  A scan stops at its first hit: it yields the     *)
(* least member of the set of hits, as a set of one, or the empty set.     *)

First(S) == {s \in S : \A t \in S : s <= t}

find_by_id(id) == First({s \in Slots : entries[s].va_fileid = id})

\* Mutant: BLOCKFETCH does not compare va_fileid.
HoldersOfAnyFile(id, i) == {b \in Blocks : blocks[b].idx = i}

Holders(id, i) ==
  {b \in Blocks : blocks[b].va_fileid = id /\ blocks[b].idx = i}

BLOCKFETCH(id, i) == First(Holders(id, i))

FreeSlots  == {s \in Slots : entries[s].va_fileid = 0}
FreeBlocks == {b \in Blocks : blocks[b].va_fileid = 0}

BLOCKNUM(n)  == n \div BlockSize
BLOCKOFF(n)  == n % BlockSize

\* Mutant: one byte short.
BLOCKLEFTShort(n) == BlockSize - BLOCKOFF(n) - 1
BLOCKLEFT(n)      == BlockSize - BLOCKOFF(n)

\* Mutant: a copy is always a whole block.
LeastWhole(m, n) == n

Least(m, n) == IF m <= n THEN m ELSE n

(* The walk down a directory's list in the entry table E: position k of    *)
(* Chain(E, p) is the k-th slot the walk visits, NULL once it has ended.   *)
(* A walk that visits EntriesMax slots and is not over never ends.         *)

Chain(E, p) ==
  LET c[k \in 0..EntriesMax] ==
        IF k = 0 THEN E[p].child
        ELSE IF c[k - 1] = NULL THEN NULL ELSE E[c[k - 1]].next
  IN  c

Positions(E, p) == {k \in 0..(EntriesMax - 1) : Chain(E, p)[k] # NULL}
Endless(E, p)   == Chain(E, p)[EntriesMax] # NULL

\* The position at which a walk looking for name n stops.
Named(p, n) ==
  First({k \in Positions(entries, p) : entries[Chain(entries, p)[k]].name = n})

\* The slot at which a walk to the end of the list stops.
LastOf(E, p) ==
  {s \in Slots : /\ E[s].next = NULL
                 /\ \E k \in Positions(E, p) : Chain(E, p)[k] = s}

-----------------------------------------------------------------------------
(* The state after main() has set up the root and the test file.           *)

ZeroData  == [o \in Offsets |-> 0]
FreeBlock == [va_fileid |-> 0, idx |-> 0, data |-> ZeroData]

BlankEntry ==
  [va_fileid |-> 0, va_type |-> "VNON", va_nlink |-> 0, va_size |-> 0,
   name |-> NoName, next |-> NULL, child |-> NULL, numblocks |-> 0,
   datalen |-> 0]

\* What entry_init leaves in a slot whose name field holds old.
NewEntry(id, vt, old) ==
  [va_fileid |-> id, va_type |-> vt,
   va_nlink |-> IF vt = "VDIR" THEN 1 ELSE 0, va_size |-> 0,
   name |-> old, next |-> NULL, child |-> NULL, numblocks |-> 0,
   datalen |-> 0]

\* entry_append(root, test) finds no child: it links test and returns.
Init ==
  /\ entries = [s \in Slots |->
       CASE s = 1 -> [NewEntry(1, "VDIR", NoName) EXCEPT !.child = 2]
         [] s = 2 -> NewEntry(2, "VREG", TestName)
         [] OTHER -> BlankEntry]
  /\ blocks = [b \in Blocks |-> FreeBlock]
  /\ ID = 3
  /\ writing = Idle
  /\ hung = FALSE
  /\ resp = [cmd |-> "NONE"]

\* main() reads the next command.
Ready == ~hung /\ writing = Idle

UnchangedStore == UNCHANGED <<entries, blocks, ID, writing>>

\* The handler enters a loop that never ends; no response is sent.
Hang == hung' = TRUE /\ UNCHANGED resp

Respond(r) == resp' = r /\ UNCHANGED hung

-----------------------------------------------------------------------------
(* Directory handlers.                                                     *)

Absent(c) == [cmd |-> c, exists |-> 0]

Attributes(c, e) ==
  [cmd |-> c, exists |-> 1, va_fileid |-> e.va_fileid, va_type |-> e.va_type,
   va_nlink |-> e.va_nlink, va_size |-> e.va_size]

handle_lookup_request(id, n) ==
  /\ Ready
  /\ UnchangedStore
  /\ \/ /\ find_by_id(id) = {}
        /\ Respond(Absent("LOOKUP"))
     \/ \E p \in find_by_id(id) :
          \/ \E k \in Named(p, n) :
               Respond(Attributes("LOOKUP", entries[Chain(entries, p)[k]]))
          \/ /\ Named(p, n) = {}
             /\ IF Endless(entries, p) THEN Hang ELSE Respond(Absent("LOOKUP"))

handle_getattr_request(id) ==
  /\ Ready
  /\ UnchangedStore
  /\ \/ find_by_id(id) = {} /\ Respond(Absent("GETATTR"))
     \/ \E s \in find_by_id(id) : Respond(Attributes("GETATTR", entries[s]))

\* The n-th entry of the directory; the walk stops there, so it ends.
handle_readdir_request(id, n) ==
  /\ Ready
  /\ UnchangedStore
  /\ \/ find_by_id(id) = {} /\ Respond(Absent("READDIR"))
     \/ \E p \in find_by_id(id) :
          IF Chain(entries, p)[n] = NULL
          THEN Respond(Absent("READDIR"))
          ELSE LET e == entries[Chain(entries, p)[n]] IN
               Respond([cmd |-> "READDIR", exists |-> 1, name |-> e.name,
                        va_fileid |-> e.va_fileid, va_type |-> e.va_type])

\* Mutants: a file id is the number of its slot; ID is read before ID++.
entry_init_of_slot(s, vt) == [entries EXCEPT ![s] = NewEntry(s, vt, @.name)]
entry_init_late(s, vt)    == [entries EXCEPT ![s] = NewEntry(ID - 1, vt, @.name)]

\* The entries once entry_init has taken the free slot s.
entry_init(s, vt) == [entries EXCEPT ![s] = NewEntry(ID, vt, @.name)]

(* CMD_CREATE and CMD_MKDIR.  entry_append returns before it increments    *)
(* va_nlink when the directory had no child; its walk starts after         *)
(* entry_init has reset the pointers of the slot it was given.             *)
handle_create_request(id, n, vt) ==
  /\ Ready
  /\ UNCHANGED <<blocks, writing>>
  /\ \/ /\ find_by_id(id) = {} \/ FreeSlots = {}
        /\ Respond(Absent("CREATE"))
        /\ UNCHANGED <<entries, ID>>
     \/ /\ ID <= MaxID
        /\ ID' = ID + 1
        /\ \E p \in find_by_id(id), s \in First(FreeSlots) :
             LET inited == entry_init(s, vt) IN
             \/ /\ inited[p].child = NULL
                /\ entries' = [inited EXCEPT ![p].child = s, ![s].name = n]
                /\ Respond(Attributes("CREATE", entries'[s]))
             \/ /\ inited[p].child # NULL
                /\ \E last \in LastOf(inited, p) :
                     entries' = [inited EXCEPT ![last].next = s,
                                               ![s].va_nlink = @ + 1,
                                               ![s].name = n]
                /\ Respond(Attributes("CREATE", entries'[s]))
             \/ /\ Endless(inited, p)
                /\ entries' = inited
                /\ Hang

(* entry_remove looks for the entry that precedes ent: it never unlinks    *)
(* the first entry of a list, and it finds ent by its va_fileid.           *)
Preceding(p, ent) ==
  First({k \in Positions(entries, p) :
           LET n == entries[Chain(entries, p)[k]].next IN
           n # NULL /\ entries[n].va_fileid = entries[ent].va_fileid})

\* Mutant: the entry is given up although the Wii still holds its cookie.
UnlinkedAndFreed(p, ent) ==
  [entries EXCEPT ![ent].va_fileid = 0, ![ent].va_nlink = (@ - 1 + U32) % U32]

\* The entries once ent is unlinked, if it can be, and its va_nlink counted.
Unlinked(p, ent) ==
  [s \in Slots |->
     [entries[s] EXCEPT
        !.va_nlink = IF s = ent THEN (@ - 1 + U32) % U32 ELSE @,
        !.next = IF \E k \in Preceding(p, ent) : s = Chain(entries, p)[k]
                 THEN entries[ent].next ELSE @]]

Refused(c, e) == [cmd |-> c, err |-> e]

handle_rm_request(id, n) ==
  /\ Ready
  /\ UNCHANGED <<blocks, ID, writing>>
  /\ \/ /\ \A p \in find_by_id(id) :
             entries[p].child = NULL \/ entries[p].va_type # "VDIR"
        /\ Respond(Refused("RM",
             IF \E p \in find_by_id(id) : entries[p].child # NULL
             THEN ENOTDIR ELSE ENOENT))
        /\ UNCHANGED entries
     \/ \E p \in find_by_id(id) :
          /\ entries[p].child # NULL /\ entries[p].va_type = "VDIR"
          /\ Named(p, n) = {}
          /\ IF Endless(entries, p) THEN Hang ELSE Respond(Refused("RM", ENOENT))
          /\ UNCHANGED entries
     \/ \E p \in find_by_id(id), ent \in Slots :
          /\ entries[p].child # NULL /\ entries[p].va_type = "VDIR"
          /\ \E k \in Named(p, n) : ent = Chain(entries, p)[k]
          /\ \/ /\ Preceding(p, ent) = {} /\ Endless(entries, p)
                /\ Hang
                /\ UNCHANGED entries
             \/ /\ Preceding(p, ent) # {} \/ ~Endless(entries, p)
                /\ entries' = Unlinked(p, ent)
                /\ Respond([cmd |-> "RM", err |-> 0,
                            va_fileid |-> entries[ent].va_fileid,
                            va_nlink |-> entries'[ent].va_nlink])

(* entry_reclaim clears the entry's va_fileid first, so its scan of the    *)
(* blocks looks for owner 0 and wipes the blocks that are free already.    *)
handle_reclaim_request(id) ==
  /\ Ready
  /\ UNCHANGED <<ID, writing>>
  /\ \/ /\ find_by_id(id) = {}
        /\ Respond(Refused("RECLAIM", ENOENT))
        /\ UNCHANGED <<entries, blocks>>
     \/ \E s \in find_by_id(id) :
          /\ entries' = [entries EXCEPT ![s].va_fileid = 0]
          /\ blocks' = [b \in Blocks |->
                          IF blocks[b].va_fileid = entries'[s].va_fileid
                          THEN FreeBlock ELSE blocks[b]]
          /\ Respond([cmd |-> "RECLAIM", err |-> 0, va_fileid |-> id,
                      va_nlink |-> entries[s].va_nlink])

-----------------------------------------------------------------------------
(* entry_setsize: resize the file in slot s.  It returns err.              *)

\* Mutant: the last block that is still needed is one of them.
SurplusOneMore(e, newblocks) == (newblocks - 1)..(e.numblocks - 1)

\* The indices of the blocks a file of newblocks blocks has no use for.
Surplus(e, newblocks) == newblocks..(e.numblocks - 1)

\* Blocks beyond the new end are given back, up to the first that is missing.
Shrink(s, newblocks, err) ==
  LET e       == entries[s]
      surplus == Surplus(e, newblocks)
      missing == {i \in surplus : Holders(e.va_fileid, i) = {}}
      freed   == {i \in surplus : \A j \in missing : i < j}
  IN  /\ err = (IF missing = {} THEN 0 ELSE EBLOCKNOTFOUND)
      /\ blocks' = [b \in Blocks |->
                      IF \E i \in freed : b \in BLOCKFETCH(e.va_fileid, i)
                      THEN FreeBlock ELSE blocks[b]]

(* Indices numblocks..newblocks-1 are given the free blocks in the order   *)
(* of the table until there is none left; grant maps an index to a block.  *)
Grow(s, newblocks, err) ==
  LET e == entries[s] IN
  \E stop \in e.numblocks..newblocks :
  \E grant \in [e.numblocks..(stop - 1) -> FreeBlocks] :
    LET granted == {grant[i] : i \in e.numblocks..(stop - 1)} IN
    /\ \A i, j \in e.numblocks..(stop - 1) : i < j => grant[i] < grant[j]
    /\ \A b \in FreeBlocks \ granted : \A g \in granted : g < b
    /\ stop < newblocks => granted = FreeBlocks
    /\ err = (IF stop < newblocks THEN ENOBLOCKSFREE ELSE 0)
    /\ blocks' = [b \in Blocks |->
         IF b \in granted
         THEN [va_fileid |-> e.va_fileid, data |-> ZeroData,
               idx |-> CHOOSE i \in e.numblocks..(stop - 1) : grant[i] = b]
         ELSE blocks[b]]

\* Mutant: the file's datalen is not updated.
ResizedEntryOnly(e, newsize, newblocks) ==
  [e EXCEPT !.va_size = newsize, !.numblocks = newblocks]

Resized(e, newsize, newblocks) ==
  [e EXCEPT !.va_size = newsize, !.datalen = newsize, !.numblocks = newblocks]

\* ROUNDUP(datalen, PBA_BLOCKSIZE) is datalen modulo the block size.
entry_setsize(s, newsize, err) ==
  LET e         == entries[s]
      needalloc == newsize > e.datalen % BlockSize
      shrinks   == newsize < e.va_size
      newblocks == BLOCKNUM(newsize) + 1
  IN
  \/ /\ ~needalloc /\ ~shrinks
     /\ err = 0
     /\ entries' = [entries EXCEPT ![s].va_size = newsize]
     /\ UNCHANGED blocks
  \/ /\ needalloc \/ shrinks
     /\ IF shrinks THEN Shrink(s, newblocks, err) ELSE Grow(s, newblocks, err)
     /\ entries' = IF err = 0
                   THEN [entries EXCEPT ![s] = Resized(@, newsize, newblocks)]
                   ELSE entries

\* What entry_setsize may return.
SetsizeResults == {0, EBLOCKNOTFOUND, ENOBLOCKSFREE}

\* The handler drops entry_setsize's result and answers with the size.
handle_setsize_request(id, size) ==
  /\ Ready
  /\ UNCHANGED <<ID, writing>>
  /\ \/ /\ find_by_id(id) = {}
        /\ Respond(Refused("SETSIZE", ENOENT))
        /\ UNCHANGED <<entries, blocks>>
     \/ \E s \in find_by_id(id), err \in SetsizeResults :
          /\ entry_setsize(s, size, err)
          /\ Respond([cmd |-> "SETSIZE", err |-> 0, va_fileid |-> id,
                      va_size |-> entries'[s].va_size])

-----------------------------------------------------------------------------
(* Data handlers.                                                          *)

handle_statvfs_request ==
  /\ Ready
  /\ UnchangedStore
  /\ Respond([cmd |-> "STATVFS", f_bfree |-> Cardinality(FreeBlocks),
              f_ffree |-> Cardinality(FreeSlots)])

(* The reply carries up to a block of bytes, whatever copylen the request  *)
(* names; memcpy runs from the offset on, and past the end of the block    *)
(* what it copies is the memory that follows.                              *)
handle_read_request(id, offset) ==
  /\ Ready
  /\ UnchangedStore
  /\ \/ find_by_id(id) = {} /\ Respond(Refused("READ", 1))
     \/ \E s \in find_by_id(id) :
          LET left    == entries[s].datalen - offset
              copylen == Least(left, BlockSize)
              block   == BLOCKFETCH(id, BLOCKNUM(offset))
          IN
          IF left < 0
          THEN Respond(Refused("READ", 2))
          ELSE Respond([cmd |-> "READ", err |-> 0, copylen |-> copylen,
                        fileid |-> id, offset |-> offset,
                        buf |-> [i \in 0..(copylen - 1) |->
                          IF block # {} /\ i < BLOCKLEFT(offset)
                          THEN blocks[CHOOSE b \in block : TRUE]
                                 .data[BLOCKOFF(offset) + i]
                          ELSE Garbage]])

\* The request of CMD_WRITE: the file is extended to hold the whole write.
handle_write_request(id, offset, resid) ==
  /\ Ready
  /\ UNCHANGED ID
  /\ \/ /\ find_by_id(id) = {}
        /\ Respond([cmd |-> "WRITE", exists |-> 0, err |-> 1])
        /\ UNCHANGED <<entries, blocks, writing>>
     \/ \E s \in find_by_id(id), err \in SetsizeResults :
          /\ IF offset + resid > entries[s].va_size
             THEN entry_setsize(s, offset + resid, err)
             ELSE err = 0 /\ UNCHANGED <<entries, blocks>>
          /\ Respond([cmd |-> "WRITE", exists |-> 1, err |-> err])
          /\ writing' = IF err = 0 /\ resid > 0
                        THEN [slot |-> s, offset |-> offset, resid |-> resid]
                        ELSE Idle

\* Mutants: every block with the owner and the index is written; every block
\* of the file is.
StoredInDuplicates(id, start, data) ==
  [b \in Blocks |->
     IF blocks[b].va_fileid = id
     THEN [blocks[b] EXCEPT !.data = [o \in Offsets |->
             LET i == blocks[b].idx * BlockSize + o - start IN
             IF i \in DOMAIN data THEN data[i] ELSE @[o]]]
     ELSE blocks[b]]
StoredInEveryBlock(id, start, data) ==
  [b \in Blocks |->
     IF b \in BLOCKFETCH(id, blocks[b].idx)
     THEN [blocks[b] EXCEPT !.data = [o \in Offsets |->
             LET i == o - BLOCKOFF(start) IN
             IF i \in DOMAIN data THEN data[i] ELSE @[o]]]
     ELSE blocks[b]]

\* The bytes of data copied to the file id from position start on.
Stored(id, start, data) ==
  [b \in Blocks |->
     IF b \in BLOCKFETCH(id, blocks[b].idx)
     THEN [blocks[b] EXCEPT !.data = [o \in Offsets |->
             LET i == blocks[b].idx * BlockSize + o - start IN
             IF i \in DOMAIN data THEN data[i] ELSE @[o]]]
     ELSE blocks[b]]

(* A chunk of the write: node/write.c sends at most a block at a time.     *)
(* copylen is bounded by what is left of the write and of the block, not   *)
(* by what is left (x) of the chunk: when the chunk crosses a block and    *)
(* the write goes on after it, x wraps, everything left of the write is    *)
(* filled from beyond the chunk, and x never gets to 0.                    *)
(* write_buf_resp.err is sent without having been set.                     *)
handle_write_chunk(chunk) ==
  /\ ~hung
  /\ writing # Idle
  /\ LET w       == writing
         len     == Least(w.resid, BlockSize)
         crosses == BLOCKOFF(w.offset) # 0 /\ w.resid > BlockSize
         copied  == IF crosses THEN w.resid ELSE len
     IN
     /\ chunk \in [0..(len - 1) -> Bytes]
     /\ blocks' = Stored(entries[w.slot].va_fileid, w.offset,
                     [i \in 0..(copied - 1) |->
                        IF i < len THEN chunk[i] ELSE Garbage])
     /\ writing' = IF copied = w.resid THEN Idle
                   ELSE [w EXCEPT !.offset = @ + copied, !.resid = @ - copied]
     /\ IF crosses THEN Hang
        ELSE \E err \in {0, 1} : Respond([cmd |-> "WRITEBUF", err |-> err])
  /\ UNCHANGED <<entries, ID>>

-----------------------------------------------------------------------------
(* The requests that may arrive: the kernel sends directory operations for *)
(* directories and data operations for regular files, never asks for the   *)
(* file id 0, and never reclaims the root.                                 *)

OfType(vt) ==
  {id \in FileIds : \A s \in find_by_id(id) : entries[s].va_type = vt}

\* One command each.
Statvfs == "STATVFS" \in Commands /\ handle_statvfs_request
Readdir == "READDIR" \in Commands /\ \E id \in OfType("VDIR"), n \in 0..EntriesMax :
             handle_readdir_request(id, n)
Lookup  == "LOOKUP" \in Commands /\ \E id \in OfType("VDIR"), n \in Names :
             handle_lookup_request(id, n)
Getattr == "GETATTR" \in Commands /\ \E id \in FileIds : handle_getattr_request(id)
Create  == "CREATE" \in Commands /\ \E id \in OfType("VDIR"), n \in Names :
             handle_create_request(id, n, "VREG")
Mkdir   == "MKDIR" \in Commands /\ \E id \in OfType("VDIR"), n \in Names :
             handle_create_request(id, n, "VDIR")
Rm      == "RM" \in Commands /\ \E id \in OfType("VDIR"), n \in Names :
             handle_rm_request(id, n)
Reclaim == "RECLAIM" \in Commands /\ \E id \in FileIds \ {1} :
             handle_reclaim_request(id)
Setsize == "SETSIZE" \in Commands /\ \E id \in OfType("VREG"), size \in Extents :
             handle_setsize_request(id, size)
Read    == "READ" \in Commands /\ \E id \in OfType("VREG"), offset \in Extents :
             handle_read_request(id, offset)
Write   == "WRITE" \in Commands /\ \E id \in OfType("VREG"), offset \in Extents,
                                   resid \in Extents \ {0} :
             handle_write_request(id, offset, resid)
Chunk   == \E len \in 1..BlockSize : \E chunk \in [0..(len - 1) -> Bytes] :
             handle_write_chunk(chunk)

Next ==
  \/ Statvfs \/ Readdir \/ Lookup \/ Getattr \/ Create \/ Mkdir \/ Rm
  \/ Reclaim \/ Setsize \/ Read \/ Write \/ Chunk

Spec == Init /\ [][Next]_vars

-----------------------------------------------------------------------------
(* Properties.                                                             *)

Live(s) == entries[s].va_fileid # 0

Entry ==
  [va_fileid : 0..MaxID, va_type : {"VNON", "VREG", "VDIR"},
   va_nlink : 0..(U32 - 1), va_size : Nat, name : Names \cup {NoName},
   next : Slots \cup {NULL}, child : Slots \cup {NULL},
   numblocks : Nat, datalen : Nat]
Block ==
  [va_fileid : 0..MaxID, idx : Nat, data : [Offsets -> Bytes \cup {0, Garbage}]]

\* Every variable has its type; ids handed out are within the bound.
TypeOK ==
  /\ entries \in [Slots -> Entry]
  /\ blocks \in [Blocks -> Block]
  /\ ID \in 3..(MaxID + 1)
  /\ writing \in [slot : Slots \cup {NULL}, offset : Nat, resid : Nat]
  /\ hung \in BOOLEAN

(* No two entries share a file id and every id in either table was handed  *)
(* out before, so find_by_id finds the one file the Wii means, whatever    *)
(* entry_init and entry_reclaim did to the slots in between.               *)
IdsUnique ==
  /\ \A s \in Slots : entries[s].va_fileid < ID
  /\ \A s, t \in Slots :
       Live(s) /\ entries[s].va_fileid = entries[t].va_fileid => s = t
  /\ \A b \in Blocks : blocks[b].va_fileid < ID

(* entry_setsize keeps va_size, datalen and numblocks, which it updates on *)
(* different paths, in agreement: a file that ever had bytes has the block *)
(* its end lies in, even when the end is the start of that block.          *)
SizesAgree ==
  \A s \in Slots : Live(s) =>
    /\ entries[s].datalen = entries[s].va_size
    /\ \/ entries[s].numblocks = BLOCKNUM(entries[s].va_size) + 1
       \/ entries[s].numblocks = 0 /\ entries[s].va_size = 0

(* Every block index below a live file's numblocks has a block in the      *)
(* table, through failed growths and reclaims of other files: BLOCKFETCH   *)
(* never answers NULL to a read or write within the size, and shrinking    *)
(* never meets EBLOCKNOTFOUND.                                             *)
BlocksCovered ==
  \A s \in Slots : Live(s) =>
    \A i \in 0..(entries[s].numblocks - 1) :
      Holders(entries[s].va_fileid, i) # {}

(* Of the blocks tagged with a live file, those BLOCKFETCH does not reach  *)
(* below numblocks are zero: the blocks a growth took before it failed     *)
(* with ENOBLOCKSFREE, and their duplicates of a later growth, hold no     *)
(* bytes that could surface once they are the ones found.                  *)
SparesBlank ==
  \A s \in Slots, b \in Blocks :
    /\ Live(s)
    /\ blocks[b].va_fileid = entries[s].va_fileid
    /\ \/ blocks[b].idx >= entries[s].numblocks
       \/ b \notin BLOCKFETCH(entries[s].va_fileid, blocks[b].idx)
    => blocks[b].data = ZeroData

\* The byte at position o of the file id, Garbage when it has no block.
ByteAt(id, o) ==
  LET b == BLOCKFETCH(id, BLOCKNUM(o)) IN
  IF b = {} THEN Garbage
  ELSE blocks[CHOOSE x \in b : TRUE].data[BLOCKOFF(o)]

LiveIds    == {entries[s].va_fileid : s \in {t \in Slots : Live(t)}}
SlotOf(id) == CHOOSE s \in Slots : entries[s].va_fileid = id
SizeOf(id) == entries[SlotOf(id)].va_size

(* CMD_READ at the start of a block answers with the bytes of the file, as *)
(* many as are left of it, and copylen is 0 at the end of the file only.   *)
AlignedReadExact ==
  resp.cmd = "READ" /\ resp.err = 0 /\ BLOCKOFF(resp.offset) = 0 =>
    /\ \A i \in 0..(resp.copylen - 1) :
         resp.buf[i] = ByteAt(resp.fileid, resp.offset + i)
    /\ resp.copylen = 0 <=> resp.offset = SizeOf(resp.fileid)

(* One command changes the bytes or the size of at most one of the files   *)
(* that outlive it, and leaves every block of the other files alone.       *)
OneFileChanges ==
  \A i, j \in LiveIds \cap LiveIds' :
    LET changed(id) ==
          \/ SizeOf(id)' # SizeOf(id)
          \/ \E o \in 0..(SizeOf(id) - 1) : ByteAt(id, o)' # ByteAt(id, o)
    IN  changed(i) /\ changed(j) => i = j

OneFileChangesAlways == [][OneFileChanges]_vars

(* Changing a file's size keeps every byte below both sizes, and the bytes *)
(* of blocks the file did not have before read as zero: no growth shows    *)
(* bytes of another file or of a block that was given back.                *)
ResizeKeepsBytes ==
  \A id \in LiveIds \cap LiveIds' :
    LET size == SizeOf(id) new == SizeOf(id)' IN
    size # new =>
      /\ \A o \in 0..(Least(size, new) - 1) : ByteAt(id, o)' = ByteAt(id, o)
      /\ \A o \in size..(new - 1) :
           BLOCKNUM(o) >= entries[SlotOf(id)].numblocks => ByteAt(id, o)' = 0

ResizeKeepsBytesAlways == [][ResizeKeepsBytes]_vars

(* While a write is under way only the bytes it still has to store change, *)
(* and a chunk taken is in the file, byte by byte from the write's offset  *)
(* on, also when it crosses a block and when it is the one that makes x    *)
(* wrap.                                                                   *)
WriteStaysInRange ==
  \A id \in LiveIds :
    writing # Idle /\ id = entries[writing.slot].va_fileid =>
      /\ \A o \in 0..(SizeOf(id) - 1) :
           ByteAt(id, o)' # ByteAt(id, o) =>
             o \in writing.offset..(writing.offset + writing.resid - 1)
      /\ \A chunk \in [0..(Least(writing.resid, BlockSize) - 1) -> Bytes] :
           handle_write_chunk(chunk) =>
             \A o \in writing.offset..(writing.offset + Least(writing.resid, BlockSize) - 1) :
               ByteAt(id, o)' = chunk[o - writing.offset]

WriteStaysInRangeAlways == [][WriteStaysInRange]_vars

(* A file id that is no longer in use never names a file again: a cookie   *)
(* the Wii still holds can go stale but never denotes another file.        *)
DeadStayDead ==
  \A id \in 1..(ID - 1) : id \notin LiveIds => id \notin LiveIds'

DeadStayDeadAlways == [][DeadStayDead]_vars

-----------------------------------------------------------------------------
(* What comments of the repository say of the handlers, and they do not do.*)

(* wii/node/reclaim.c: reclaim "is where we actually delete the blocks";   *)
(* every block in use belongs to an entry in use.                          *)
ReclaimFreesBlocks == \A b \in Blocks : blocks[b].va_fileid \in LiveIds \cup {0}

=============================================================================
