------------------------------ MODULE PbaMount ------------------------------
(***************************************************************************)
(* The Wii side of puffboy_advance: the puffs callbacks of node/*.c, each  *)
(* composed with the handler of PbaStore that serves its remote call.      *)
(*                                                                         *)
(* The puffs main loop calls one callback at a time and a callback waits   *)
(* for its response, so a callback is one action; read and write send      *)
(* several requests and are one action for each.  The cookie of a file is  *)
(* its file id.  The file server keeps a puffs node for each cookie it has *)
(* needed one for; the NetBSD kernel keeps a vnode for each cookie it was  *)
(* given, and recycles vnodes as it pleases.                               *)
(***************************************************************************)
EXTENDS PbaStore

CONSTANTS
  ReadOffsets,  \* bound: where the kernel's reads start
  ReadSizes     \* bound: how many bytes they ask for

ASSUME MountAssumption ==
  /\ ReadOffsets \subseteq Nat
  /\ ReadSizes \subseteq 1..(U32 - 1)  \* *resid is a size_t, of 32 bits

VARIABLES
  vnodes,   \* the type of the vnode the kernel holds for a cookie, or None
  nodes,    \* ctx.head: the puffs node of a cookie, or NoNode
  reading,  \* the locals of puffboy_node_read, or NotReading
  aborted   \* puffboy_node_write has returned in the middle of a write

mount  == <<vnodes, nodes, reading, aborted>>
store  == <<entries, blocks, ID, writing, hung, resp>>
mvars  == <<store, mount>>

None       == "none"
NoNode     == [va_type |-> None, va_nlink |-> 0, freed |-> FALSE]
NOVAL      == -1   \* PUFFS_VNOVAL
NotReading == [id |-> 0, start |-> 0, offset |-> 0, asked |-> 0, resid |-> 0,
               eof |-> FALSE]

\* puffs_pn_new: a node with no attributes.
NewNode == [va_type |-> "VNON", va_nlink |-> NOVAL, freed |-> FALSE]

\* The nodes once pba_cmap has looked for a cookie.
pba_cmap(id) == IF nodes[id] = NoNode THEN [nodes EXCEPT ![id] = NewNode] ELSE nodes

MountInit ==
  /\ Init
  /\ vnodes = [id \in FileIds |-> IF id = 1 THEN "VDIR" ELSE None]
  /\ nodes = [id \in FileIds |->
                IF id = 1 THEN [NewNode EXCEPT !.va_type = "VDIR"] ELSE NoNode]
  /\ reading = NotReading
  /\ aborted = FALSE

\* The kernel calls a callback.
Called == ~aborted /\ reading = NotReading

Holds(vt) == {id \in FileIds : vnodes[id] = vt}

\* A lookup of name n in dir answers with the file id.
Finds(dir, n, id) ==
  \E p \in find_by_id(dir) : \E k \in Named(p, n) :
    entries[Chain(entries, p)[k]].va_fileid = id

\* The name is free: the lookup before a create answered ENOENT.
Lacks(dir, n) ==
  \A p \in find_by_id(dir) : Named(p, n) = {} /\ ~Endless(entries, p)

-----------------------------------------------------------------------------
(* node/lookup.c, create.c, mkdir.c: the kernel is given a cookie.  It has *)
(* no use for the cookie 0.                                                *)

GivenCookie(id, vt) ==
  vnodes' = IF id # 0 THEN [vnodes EXCEPT ![id] = vt] ELSE vnodes

puffboy_node_lookup(dir, n) ==
  /\ Called
  /\ handle_lookup_request(dir, n)
  /\ IF hung' \/ resp'.exists = 0
     THEN UNCHANGED vnodes
     ELSE GivenCookie(resp'.va_fileid, resp'.va_type)
  /\ UNCHANGED <<nodes, reading, aborted>>

\* mkdir.c leaves va_type and va_nlink of the node as they are.
puffboy_node_create(dir, n, vt) ==
  /\ Called
  /\ Lacks(dir, n)
  /\ handle_create_request(dir, n, vt)
  /\ IF hung' \/ resp'.exists = 0
     THEN UNCHANGED <<vnodes, nodes>>
     ELSE /\ GivenCookie(resp'.va_fileid, vt)
          /\ nodes' = [nodes EXCEPT ![resp'.va_fileid] =
                         IF vt = "VDIR" THEN NewNode
                         ELSE [NewNode EXCEPT !.va_type = vt,
                                              !.va_nlink = resp'.va_nlink]]
  /\ UNCHANGED <<reading, aborted>>

-----------------------------------------------------------------------------
(* node/remove.c and reclaim.c: the node takes over the link count of the  *)
(* response; when it is 0, reclaim frees the node, which stays in ctx.head.*)

\* Mutant: puffs_pn_put is called whatever the link count is.
PutAlways(id, n) ==
  [pba_cmap(id) EXCEPT ![id].va_nlink = n, ![id].freed = TRUE]

\* Mutant: the node's link count is not replaced.
LinkCountKept(id, n) == pba_cmap(id)

LinkCount(id, n) == [pba_cmap(id) EXCEPT ![id].va_nlink = n]

puffboy_node_remove(dir, targ, n) ==
  /\ Called
  /\ Finds(dir, n, targ)
  /\ handle_rm_request(dir, n)
  /\ nodes' = IF hung' \/ resp'.err # 0 THEN pba_cmap(targ)
              ELSE LinkCount(targ, resp'.va_nlink)
  /\ UNCHANGED <<vnodes, reading, aborted>>

puffboy_node_reclaim(id) ==
  /\ Called
  /\ vnodes' = [vnodes EXCEPT ![id] = None]
  /\ handle_reclaim_request(id)
  /\ nodes' = IF resp'.err # 0 THEN pba_cmap(id)
              ELSE [LinkCount(id, resp'.va_nlink) EXCEPT
                      ![id].freed = @ \/ resp'.va_nlink = 0]
  /\ UNCHANGED <<reading, aborted>>

\* node/inactive.c: a vnode with link count 0 is offered for reclaim, which
\* the kernel may do at any time anyhow.
puffboy_node_inactive(id) ==
  /\ Called /\ Ready
  /\ nodes' = pba_cmap(id)
  /\ UNCHANGED <<store, vnodes, reading, aborted>>

-----------------------------------------------------------------------------
(* node/setattr.c: the size of a node that only pba_cmap has made cannot   *)
(* be set, because its va_type is VNON.                                    *)

puffboy_node_setattr(id, size) ==
  /\ Called
  /\ nodes' = pba_cmap(id)
  /\ IF nodes'[id].va_type = "VREG"
     THEN handle_setsize_request(id, size)
     ELSE Ready /\ UNCHANGED store
  /\ UNCHANGED <<vnodes, reading, aborted>>

-----------------------------------------------------------------------------
(* node/write.c: the request and then a chunk at a time; an err in a       *)
(* response ends the callback, whatever the Game Boy is waiting for.       *)

puffboy_node_write(id, offset, resid) ==
  /\ Called
  /\ handle_write_request(id, offset, resid)
  /\ UNCHANGED mount

do_gba_write(chunk) ==
  /\ ~aborted
  /\ handle_write_chunk(chunk)
  /\ aborted' = (~hung' /\ resp'.err > 0 /\ writing' # Idle)
  /\ UNCHANGED <<vnodes, nodes, reading>>

-----------------------------------------------------------------------------
(* node/read.c: a request for a block at a time, until all that was asked  *)
(* for is there or a response is empty.  *resid is a size_t.               *)

puffboy_node_read(id, offset, asked) ==
  /\ Called
  /\ Ready
  /\ reading' = [id |-> id, start |-> offset, offset |-> offset, asked |-> asked,
                 resid |-> asked, eof |-> FALSE]
  /\ UNCHANGED <<store, vnodes, nodes, aborted>>

\* Mutant: the offset of the next request is not advanced.
copyInPlace(r) ==
  [reading EXCEPT !.resid = (@ - r.copylen + U32) % U32, !.eof = r.copylen = 0]

\* What the loop makes of a response.
copy(r) ==
  [reading EXCEPT !.offset = @ + r.copylen,
                  !.resid = (@ - r.copylen + U32) % U32,
                  !.eof = r.copylen = 0]

do_gba_read ==
  /\ reading # NotReading /\ reading.resid > 0 /\ ~reading.eof
  /\ handle_read_request(reading.id, reading.offset)
  /\ reading' = IF resp'.err # 0 THEN NotReading ELSE copy(resp')
  /\ UNCHANGED <<vnodes, nodes, aborted>>

ReadDone ==
  /\ reading # NotReading /\ (reading.resid = 0 \/ reading.eof)
  /\ reading' = NotReading
  /\ UNCHANGED <<store, vnodes, nodes, aborted>>

-----------------------------------------------------------------------------
(* The kernel calls what it likes on the vnodes it holds; it never         *)
(* recycles the vnode of the root.                                         *)

NodeLookup   == \E dir \in Holds("VDIR"), n \in Names : puffboy_node_lookup(dir, n)
NodeCreate   == \E dir \in Holds("VDIR"), n \in Names, vt \in {"VREG", "VDIR"} :
                  puffboy_node_create(dir, n, vt)
NodeRemove   == \E dir \in Holds("VDIR"), targ \in Holds("VREG"), n \in Names :
                  puffboy_node_remove(dir, targ, n)
NodeInactive == \E id \in Holds("VDIR") \cup Holds("VREG") : puffboy_node_inactive(id)
NodeReclaim  == \E id \in (Holds("VDIR") \cup Holds("VREG")) \ {1} :
                  puffboy_node_reclaim(id)
NodeSetattr  == \E id \in Holds("VDIR") \cup Holds("VREG"), size \in Extents :
                  puffboy_node_setattr(id, size)
NodeWrite    == \E id \in Holds("VREG"), offset \in Extents, resid \in Extents \ {0} :
                  puffboy_node_write(id, offset, resid)
WriteChunk   == \E len \in 1..BlockSize : \E chunk \in [0..(len - 1) -> Bytes] :
                  do_gba_write(chunk)
NodeRead     == \E id \in Holds("VREG"), offset \in ReadOffsets, asked \in ReadSizes :
                  puffboy_node_read(id, offset, asked)

MountNext ==
  \/ NodeLookup \/ NodeCreate \/ NodeRemove \/ NodeInactive \/ NodeReclaim
  \/ NodeSetattr \/ NodeWrite \/ WriteChunk \/ NodeRead \/ do_gba_read \/ ReadDone

MountSpec == MountInit /\ [][MountNext]_mvars

-----------------------------------------------------------------------------
(* Properties.                                                             *)

Held == {id \in FileIds : vnodes[id] # None}

(* Every vnode the kernel holds names a file that is live on the Game Boy  *)
(* and of the vnode's type: only the reclaim of its own cookie ends a      *)
(* file, whatever lists a lookup may have found the file in.               *)
HeldLive ==
  \A id \in Held :
    \E s \in Slots : entries[s].va_fileid = id /\ entries[s].va_type = vnodes[id]

(* pba_cmap never answers with a node that puffs_pn_put has freed, though  *)
(* reclaim.c leaves freed nodes in ctx.head: no callback is made with such *)
(* a cookie again.                                                         *)
NoFreedNode == \A id \in Held : ~nodes[id].freed

(* The link count of a node, by which remove.c and inactive.c decide that  *)
(* a file is to go, is the Game Boy's or not known yet, although the two   *)
(* are changed by different callbacks and the Game Boy's may have wrapped. *)
LinkCountCached ==
  \A id \in Held :
    nodes[id] # NoNode =>
      nodes[id].va_nlink \in {NOVAL, entries[SlotOf(id)].va_nlink}

(* The loop of node/read.c, asked for whole blocks from any offset, ends   *)
(* when it has what was asked for or all up to the end of the file, no     *)
(* matter how the responses divide it.                                     *)
ReadComplete ==
  LET r == reading IN
  /\ r # NotReading /\ (r.resid = 0 \/ r.eof)
  /\ BLOCKOFF(r.asked) = 0
  => r.offset = Least(r.start + r.asked, SizeOf(r.id))

(* node/read.c: "submit the offset and how many bytes to copy / get back   *)
(* the bytes and how many were actually copied": the loop never copies     *)
(* more than it was asked for.                                             *)
ReadFits == reading.offset - reading.start <= reading.asked

=============================================================================
