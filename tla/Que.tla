-------------------------------- MODULE Que --------------------------------
(***************************************************************************)
(* The chunked queue of include/iel_priv/que.tpl.h: an array of pointers   *)
(* to chunks (map), of which chunk_s .. chunk_e are live, and the offsets  *)
(* os_s, os_e of the first element and of the first free entry.  iel_quep  *)
(* (task queues, pop1) and ielb_ioux_xsq (SQ overflow queue, pop_to) are   *)
(* instances of the template.                                              *)
(***************************************************************************)
EXTENDS Integers, Sequences, Functions

CONSTANTS
    Elem,       \* IEL_QUE_ELEM
    C,          \* entries per chunk
    MinChunks,  \* IEL_QUE_MINCHUNKS
    MaxMap,     \* realloc fails beyond this many map entries
    MaxBlk,     \* largest blk_sz a caller passes to pop_to
    NoElem      \* an entry that was never written

ASSUME QueAssumption ==
    /\ C \in Nat \ {0}
    /\ MinChunks \in Nat \ {0}
    /\ MaxMap \in Nat /\ MaxMap >= MinChunks
    /\ MaxBlk \in Nat
    /\ NoElem \notin Elem

VARIABLES
    map,        \* live chunks: map index -> entries
    mapcap,     \* entries of the map array
    chunk_s, chunk_e, os_s, os_e,
    out,        \* *vout or blk_out of the last pop
    alive       \* between init and del

vars == <<map, mapcap, chunk_s, chunk_e, os_s, os_e, out, alive>>

----------------------------------------------------------------------------

Offset == 0 .. C - 1
Chunk == [Offset -> Elem \cup {NoElem}]
FreshChunk == [o \in Offset |-> NoElem]

\* Mutants of NextOffset: the mask is not applied, or is one bit too narrow.
NextOffsetUnmasked(o) == o + 1
NextOffsetNarrow(o) == (o + 1) % (IF C = 1 THEN 1 ELSE C \div 2)

\* (o + 1) & IEL_QUE_CHUNK_ENTS_MASK
NextOffset(o) == IF o + 1 = C THEN 0 ELSE o + 1

Size == (chunk_e - chunk_s) * C + os_e - os_s
IsEmpty == chunk_e = chunk_s /\ os_e = os_s

\* The k-th element, k \in 0 .. Size - 1.
At(k) == map[chunk_s + (os_s + k) \div C][(os_s + k) % C]
Items == [k \in 1 .. Size |-> At(k - 1)]

\* The chunks the indices claim: chunk_e is allocated once its first entry is.
Claimed == chunk_s .. (chunk_e - 1) \cup (IF os_e # 0 THEN {chunk_e} ELSE {})

----------------------------------------------------------------------------

Init ==
    /\ map = <<>> /\ mapcap = MinChunks
    /\ chunk_s = 0 /\ chunk_e = 0 /\ os_s = 0 /\ os_e = 0
    /\ out = <<>>
    /\ alive = FALSE

\* init; when malloc fails nothing changes and the caller gives up.
InitQue ==
    /\ ~alive /\ alive' = TRUE
    /\ mapcap' = MinChunks
    /\ chunk_s' = 0 /\ chunk_e' = 0 /\ os_s' = 0 /\ os_e' = 0
    /\ UNCHANGED <<map, out>>

\* Mutant of GrownCap: the map grows one chunk too late.
GrownCapLate == IF os_e = 0 /\ chunk_e > mapcap THEN 2 * mapcap ELSE mapcap

\* The map capacity rsv1 needs: doubled when a new chunk has no map entry.
GrownCap == IF os_e = 0 /\ chunk_e >= mapcap THEN 2 * mapcap ELSE mapcap

\* rsv1, and the caller's store through the pointer it returns.
Rsv1(e) ==
    /\ alive
    /\ GrownCap <= MaxMap
    /\ mapcap' = GrownCap
    /\ LET old == IF os_e = 0 THEN FreshChunk ELSE map[chunk_e]
       IN  map' = [i \in DOMAIN map \cup {chunk_e} |->
                      IF i = chunk_e THEN [old EXCEPT ![os_e] = e] ELSE map[i]]
    /\ os_e' = NextOffset(os_e)
    /\ chunk_e' = IF NextOffset(os_e) = 0 THEN chunk_e + 1 ELSE chunk_e
    /\ UNCHANGED <<chunk_s, os_s, out, alive>>

\* rsv1 returns NULL because the chunk cannot be allocated: a map that was
\* grown stays grown.  (When the map itself cannot grow nothing changes.)
Rsv1NoChunk ==
    /\ alive
    /\ os_e = 0
    /\ GrownCap <= MaxMap
    /\ mapcap' = GrownCap
    /\ UNCHANGED <<map, chunk_s, chunk_e, os_s, os_e, out, alive>>

\* Mutants: pop1 takes a queue down to its last chunk for an empty one, or
\* forgets the chunk being filled when it restarts.
DrainedChunk(cs, os) == chunk_e = cs
TailKept(chunks) == chunks

\* After the pop: nothing is left.
Drained(cs, os) == chunk_e = cs /\ os_e = os

\* The chunks that stay when the chunk being filled, if any, is freed.
TailFreed(chunks) == IF os_e # 0 THEN chunks \ {chunk_e} ELSE chunks

\* pop1: 119-140.  The chunk left behind is freed, and a queue that becomes
\* empty also frees the chunk it was filling and restarts at chunk 0.
Pop1 ==
    /\ alive
    /\ ~IsEmpty
    /\ out' = <<map[chunk_s][os_s]>>
    /\ LET os == NextOffset(os_s)
           cs == IF os = 0 THEN chunk_s + 1 ELSE chunk_s
           left == IF os = 0 THEN DOMAIN map \ {chunk_s} ELSE DOMAIN map
       IN  IF Drained(cs, os)
           THEN /\ map' = Restrict(map, TailFreed(left))
                /\ chunk_s' = 0 /\ chunk_e' = 0 /\ os_s' = 0 /\ os_e' = 0
           ELSE /\ map' = Restrict(map, left)
                /\ chunk_s' = cs /\ os_s' = os
                /\ UNCHANGED <<chunk_e, os_e>>
    /\ UNCHANGED <<mapcap, alive>>

\* Mutant of Pop1Last: the stop position is not compared.
Pop1LastOnlyEmpty(chunk_stop, os_stop) ==
    LET os == NextOffset(os_s)
        cs == IF os = 0 THEN chunk_s + 1 ELSE chunk_s
    IN  Drained(cs, os)

\* What pop1 returns to a caller that stops at <<chunk_stop, os_stop>>:
\* 1 when it emptied the queue or reached the stop, 0 otherwise.
Pop1Last(chunk_stop, os_stop) ==
    LET os == NextOffset(os_s)
        cs == IF os = 0 THEN chunk_s + 1 ELSE chunk_s
    IN  \/ Drained(cs, os)
        \/ chunk_stop = cs /\ os_stop = os

\* Mutant of BlockEnd: off by one at a chunk boundary.
BlockEndLate(n) == chunk_s + (os_s + n) \div C

\* The chunk in which a block of n entries is exhausted.
BlockEnd(n) == chunk_s + (os_s + n - 1) \div C

\* pop_to: 142-189, with the loop over chunks in closed form.  The whole
\* span of the chunk in which the block is exhausted is consumed.
PopTo(n) ==
    /\ alive
    /\ n > 0
    /\ IF Size < n
       THEN /\ out' = Items
            /\ map' = Restrict(map, DOMAIN map \ Claimed)
            /\ chunk_s' = 0 /\ chunk_e' = 0 /\ os_s' = 0 /\ os_e' = 0
       ELSE LET last == BlockEnd(n)
            IN  /\ out' = SubSeq(Items, 1, n)
                /\ IF last = chunk_e
                   THEN /\ chunk_s' = chunk_e /\ os_s' = os_e
                        /\ map' = Restrict(map, DOMAIN map \ (chunk_s .. (last - 1)))
                   ELSE /\ chunk_s' = last + 1 /\ os_s' = 0
                        /\ map' = Restrict(map, DOMAIN map \ (chunk_s .. last))
                /\ UNCHANGED <<chunk_e, os_e>>
    /\ UNCHANGED <<mapcap, alive>>

\* trim: 198-221.  Live chunks move to the front of the map; an allocated
\* chunk with no element left in it is freed; shrinking the map may fail.
Trim ==
    /\ alive
    /\ LET drop == os_e # 0 /\ chunk_e = chunk_s /\ os_e = os_s
           sz == chunk_e - chunk_s + (IF os_e # 0 /\ ~drop THEN 1 ELSE 0)
           want == IF sz < MinChunks THEN MinChunks ELSE sz
       IN  /\ map' = [i \in 0 .. sz - 1 |-> map[i + chunk_s]]
           /\ os_s' = (IF drop THEN 0 ELSE os_s)
           /\ os_e' = (IF drop THEN 0 ELSE os_e)
           /\ mapcap' \in {want, mapcap}
    /\ chunk_s' = 0
    /\ chunk_e' = chunk_e - chunk_s
    /\ UNCHANGED <<out, alive>>

\* qtrim: trim once the dead prefix of the map is long.
QTrim == (chunk_s > 4096 \/ chunk_s > mapcap \div 8) /\ Trim

\* del: frees every chunk the indices claim, then the map.
Del ==
    /\ alive /\ alive' = FALSE
    /\ map' = Restrict(map, DOMAIN map \ Claimed)
    /\ out' = <<>>
    /\ UNCHANGED <<mapcap, chunk_s, chunk_e, os_s, os_e>>

Next ==
    \/ InitQue
    \/ \E e \in Elem : Rsv1(e)
    \/ Rsv1NoChunk
    \/ Pop1
    \/ \E n \in 1 .. MaxBlk : PopTo(n)
    \/ Trim
    \/ QTrim
    \/ Del

Spec == Init /\ [][Next]_vars

----------------------------------------------------------------------------

\* Every variable holds what its C type and the template allow.
TypeOK ==
    /\ DOMAIN map \subseteq Nat
    /\ \A i \in DOMAIN map : map[i] \in Chunk
    /\ mapcap \in MinChunks .. MaxMap
    /\ chunk_s \in Nat /\ chunk_e \in Nat
    /\ os_s \in Offset /\ os_e \in Offset
    /\ out \in Seq(Elem \cup {NoElem})
    /\ alive \in BOOLEAN

\* The allocated chunks are exactly those the indices claim: pop1, pop_to,
\* trim and del never free a chunk twice, never keep a chunk nobody can
\* reach, and leave nothing allocated behind del.
ChunksOwned == DOMAIN map = IF alive THEN Claimed ELSE {}

\* The two ends stay ordered and every chunk has a map entry, so neither
\* rsv1's store into map[chunk_e] nor a pop reads or writes past the map.
InBounds ==
    alive =>
        /\ chunk_s < chunk_e \/ (chunk_s = chunk_e /\ os_s <= os_e)
        /\ chunk_e <= mapcap
        /\ os_e # 0 => chunk_e < mapcap

\* The comment of pop_to's last branch: the chunk is given up when it was
\* "also exhausted, rare (span == blk_sz)"; so a block pop takes from the
\* queue what it copied to blk_out and nothing else.
BlockPopKeepsRest ==
    [][\A n \in 1 .. MaxBlk : PopTo(n) => Size' = Size - Len(out')]_vars

\* The queue is the sequence of its elements: rsv1, pop1, pop_to, trim and
\* del change that sequence as ChunkFifo says and no other way.
Fifo == INSTANCE ChunkFifo WITH
            q <- IF alive THEN [items |-> Items, off |-> os_s]
                 ELSE [items |-> <<>>, off |-> 0]

ImplementsChunkFifo == Fifo!FifoSpec
=============================================================================
