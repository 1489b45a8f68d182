------------------------------ MODULE ChunkSeq ------------------------------
(***************************************************************************)
(* What the operations of the chunked queue template of                    *)
(* include/iel_priv/que.tpl.h do to its contents: the sequence of elements *)
(* and the offset of the first one in its chunk.  The offset matters       *)
(* because pop_to consumes whole chunk spans, so what a block pop removes  *)
(* depends on it.  Que is shown to implement these operators (ChunkFifo);  *)
(* IouLoop uses them for the SQ overflow queue.                            *)
(***************************************************************************)
EXTENDS Integers, Sequences

CONSTANT C      \* 1 << IEL_QUE_CHUNK_ENTS_BIT: entries of one chunk

----------------------------------------------------------------------------

Smaller(a, b) == IF a <= b THEN a ELSE b

\* How much of s a flush to a ring of n entries moves: not past a request that
\* is linked with one that stays behind.  0: each request that fits is linked.
UnlinkedPrefix(s, n, linked) ==
    LET ends == {k \in 1 .. Smaller(Len(s), n) : s[k] \notin linked}
    IN  IF ends = {} THEN 0 ELSE CHOOSE k \in ends : \A j \in ends : j <= k

Empty == [items |-> <<>>, off |-> 0]

\* rsv1, and the caller's store through the slot it returns.
Put(q, e) == [q EXCEPT !.items = Append(@, e)]

\* pop1: taking the last element rewinds the queue to its first chunk.
TakeOne(q) ==
    IF Len(q.items) = 1 THEN Empty
    ELSE [items |-> Tail(q.items), off |-> (q.off + 1) % C]

\* The elements up to the end of the chunk that holds the n-th one.
SpanThrough(q, n) ==
    Smaller(((q.off + n - 1) \div C + 1) * C - q.off, Len(q.items))

\* pop_to: what it copies out ...
Block(q, n) == SubSeq(q.items, 1, Smaller(n, Len(q.items)))

\* ... and what it leaves.  The branch that exhausts the block advances os_s
\* by the span of the chunk, not by what was left of the block.
TakeBlock(q, n) ==
    IF n = 0 THEN q
    ELSE IF Len(q.items) < n THEN Empty
    ELSE LET gone == SpanThrough(q, n)
         IN  [items |-> SubSeq(q.items, gone + 1, Len(q.items)),
              off   |-> (q.off + gone) % C]
=============================================================================
