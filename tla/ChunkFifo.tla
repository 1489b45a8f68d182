----------------------------- MODULE ChunkFifo -----------------------------
(***************************************************************************)
(* The promise of the chunked queue template to its callers, as a state    *)
(* machine over the operators of ChunkSeq: no chunks, no map, no failed    *)
(* allocations.  Que implements it (Que!ImplementsChunkFifo).              *)
(***************************************************************************)
EXTENDS ChunkSeq

CONSTANT Elem   \* IEL_QUE_ELEM: what the queue stores

VARIABLES
    q,          \* the queue: its elements and the offset of the first
    out,        \* what the last pop handed to its caller
    alive       \* between init and del

fvars == <<q, out, alive>>

FifoInit == q = Empty /\ out = <<>> /\ alive = FALSE

Open == ~alive /\ alive' = TRUE /\ UNCHANGED <<q, out>>

PutStep == alive /\ (\E e \in Elem : q' = Put(q, e)) /\ UNCHANGED <<out, alive>>

TakeOneStep ==
    /\ alive
    /\ q.items # <<>>
    /\ out' = <<Head(q.items)>>
    /\ q' = TakeOne(q)
    /\ UNCHANGED alive

TakeBlockStep ==
    /\ alive
    /\ \E n \in 1 .. Len(q.items) + 1 :
           /\ out' = Block(q, n)
           /\ q' = TakeBlock(q, n)
    /\ UNCHANGED alive

\* Trimming an empty queue gives up the chunk it still holds.
Rewind == alive /\ q.items = <<>> /\ q' = Empty /\ UNCHANGED <<out, alive>>

Close == alive /\ alive' = FALSE /\ q' = Empty /\ out' = <<>>

FifoNext == Open \/ PutStep \/ TakeOneStep \/ TakeBlockStep \/ Rewind \/ Close

FifoSpec == FifoInit /\ [][FifoNext]_fvars
=============================================================================
