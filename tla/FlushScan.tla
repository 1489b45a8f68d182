----------------------------- MODULE FlushScan -----------------------------
(***************************************************************************)
(* The two loops of a flush over the chunks of the overflow queue: the one *)
(* of lrun1, which walks backwards, from the last request that could fit   *)
(* into the SQ, to one without IOSQE_IO_LINK, and the one of pop_to.       *)
(***************************************************************************)
EXTENDS Que, Loops

CONSTANTS
    Linked,     \* the requests with IOSQE_IO_LINK
    SqLen       \* sring_mask + 1

ASSUME FlushAssumption == SqLen \in Nat \ {0}

Seqs == INSTANCE ChunkSeq

----------------------------------------------------------------------------
(* The walk.  A position is <<chunk_tail, os_tail>>. *)

Position == Int \X Offset

\* os_tail and chunk_tail before the walk.
PopMaxIdx == (IF SqLen < Size THEN SqLen ELSE Size) - 1
ChunkTail == chunk_s + (os_s + PopMaxIdx) \div C
OsTail == (os_s + PopMaxIdx) % C

\* Mutant of Back: the borrow from the chunk number is forgotten.
BackNoBorrow(p) == <<p[1], IF p[2] = 0 THEN C - 1 ELSE p[2] - 1>>

\* One entry back.
Back(p) == IF p[2] = 0 THEN <<p[1] - 1, C - 1>> ELSE <<p[1], p[2] - 1>>

\* In front of the queue: from here on the code reads what is not part of the
\* queue, or not even of the map.
InFront(p) == p[1] < chunk_s \/ (p[1] = chunk_s /\ p[2] < os_s)

WalkBody ==
    [p \in Position |->
        IF InFront(p) \/ map[p[1]][p[2]] \notin Linked THEN p ELSE Back(p)]

WalkEnd == After(PopMaxIdx + 1, WalkBody, <<ChunkTail, OsTail>>)

\* safe_popsz, or 0 when the walk went past the front of the queue.
Walk == IF InFront(WalkEnd) THEN 0 ELSE (WalkEnd[1] - chunk_s) * C + WalkEnd[2] - os_s + 1

\* The walk stays in live chunks until it leaves the front of the queue, and
\* what it finds is the longest prefix that fits the ring and does not end
\* within a chain: the flush neither reads a freed chunk nor cuts a chain.
WalkIsUnlinkedPrefix ==
    alive /\ ~IsEmpty => Walk = Seqs!UnlinkedPrefix(Items, SqLen, Linked)

----------------------------------------------------------------------------
(* pop_to *)

\* What the loop of pop_to changes: chunk_s, os_s, chunk_e, os_e, the rest of
\* blk_sz, sz, and whether it has returned.
Popping ==
    [cs : Nat, os : Offset, ce : Nat, oe : Offset, blk : Nat, sz : Nat, done : BOOLEAN]

PopBody ==
    [s \in Popping |->
        LET span == IF s.ce = s.cs THEN s.oe - s.os ELSE C - s.os
            nextOs == (s.os + span) % C
            nextCs == IF nextOs = 0 THEN s.cs + 1 ELSE s.cs
            emptied == [s EXCEPT !.cs = 0, !.os = 0, !.ce = 0, !.oe = 0, !.done = TRUE]
        IN  IF s.done THEN s
            ELSE IF s.ce = s.cs /\ span = 0 THEN emptied
            ELSE IF span >= s.blk
            THEN [s EXCEPT !.cs = nextCs, !.os = nextOs, !.sz = @ + s.blk, !.done = TRUE]
            ELSE IF nextOs # 0 THEN [emptied EXCEPT !.sz = @ + span]
            ELSE [s EXCEPT !.cs = nextCs, !.os = nextOs, !.blk = @ - span, !.sz = @ + span]]

\* pop_to of a block of n: each iteration but the last takes a chunk.
PopLoop(n) ==
    After(chunk_e - chunk_s + 2, PopBody,
          [cs |-> chunk_s, os |-> os_s, ce |-> chunk_e, oe |-> os_e,
           blk |-> n, sz |-> 0, done |-> FALSE])

\* pop_to in closed form moves the indices and counts the copied elements
\* as the loop over chunks does, whatever the queue's shape.
PopToIsTheLoop ==
    [][\A n \in 1 .. MaxBlk :
          PopTo(n) =>
              /\ PopLoop(n).done
              /\ chunk_s' = PopLoop(n).cs /\ os_s' = PopLoop(n).os
              /\ chunk_e' = PopLoop(n).ce /\ os_e' = PopLoop(n).oe
              /\ Len(out') = PopLoop(n).sz]_vars
=============================================================================
