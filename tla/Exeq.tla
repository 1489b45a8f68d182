-------------------------------- MODULE Exeq --------------------------------
(***************************************************************************)
(* ielb_ioux_exeq of src/backends/iou.c on an iel_quep queue (soonque or   *)
(* prepque): it remembers where the queue ended when it was called and     *)
(* pops and calls one task at a time until pop1 reports that end or an     *)
(* empty queue.  The callbacks push new tasks (esoon) while it runs, so    *)
(* the chunks it compares positions in are freed, allocated and renumbered *)
(* under it.                                                               *)
(***************************************************************************)
EXTENDS Que

VARIABLES
    pc,         \* "idle", "pop": about to call pop1, "cb": in a callback
    chunk_stop, os_stop,
    last,       \* res > 0 of the last pop1
    due,        \* history: the tasks queued when this call began
    ran,        \* history: the tasks it has called
    late        \* history: the tasks pushed since it began

exeqVars == <<pc, chunk_stop, os_stop, last, due, ran, late>>
allVars == <<vars, exeqVars>>

ExeqInit ==
    /\ Init
    /\ pc = "idle"
    /\ chunk_stop = 0 /\ os_stop = 0 /\ last = FALSE
    /\ due = <<>> /\ ran = <<>> /\ late = <<>>

\* Between calls of exeq the queue is used in every way there is: soonque and
\* prepque only by esoon, lnew and ldel, the overflow queue also by pop_to.
Idle == pc = "idle" /\ Next /\ UNCHANGED exeqVars

\* esoon from a callback.
PushInCallback ==
    /\ pc = "cb"
    /\ \E e \in Elem : Rsv1(e) /\ late' = Append(late, e)
    /\ UNCHANGED <<pc, chunk_stop, os_stop, last, due, ran>>

\* esoon that returns NULL: no memory for the chunk.
PushFails == pc = "cb" /\ Rsv1NoChunk /\ UNCHANGED exeqVars

Begin ==
    /\ alive
    /\ pc = "idle"
    /\ pc' = "pop"
    /\ chunk_stop' = chunk_e /\ os_stop' = os_e
    /\ due' = Items
    /\ UNCHANGED <<vars, last, ran, late>>

\* exeq returns, and its locals are gone.
Return ==
    /\ pc' = "idle"
    /\ chunk_stop' = 0 /\ os_stop' = 0 /\ last' = FALSE
    /\ due' = <<>> /\ ran' = <<>> /\ late' = <<>>

\* pop1 returns -1.
PopNothing ==
    /\ pc = "pop"
    /\ IsEmpty
    /\ Return
    /\ UNCHANGED vars

\* pop1 returns a task and the callback is entered.
PopTask ==
    /\ pc = "pop"
    /\ Pop1
    /\ last' = Pop1Last(chunk_stop, os_stop)
    /\ ran' = ran \o out'
    /\ pc' = "cb"
    /\ UNCHANGED <<chunk_stop, os_stop, due, late>>

\* The callback returns; res, read before it ran, decides.
CallbackReturns ==
    /\ pc = "cb"
    /\ IF last THEN Return
       ELSE pc' = "pop" /\ UNCHANGED <<chunk_stop, os_stop, last, due, ran, late>>
    /\ UNCHANGED vars

ExeqNext ==
    \/ Idle
    \/ PushInCallback
    \/ PushFails
    \/ Begin
    \/ PopNothing
    \/ PopTask
    \/ CallbackReturns

ExeqSpec == ExeqInit /\ [][ExeqNext]_allVars

----------------------------------------------------------------------------

ExeqTypeOK ==
    /\ pc \in {"idle", "pop", "cb"}
    /\ chunk_stop \in Nat /\ os_stop \in Offset
    /\ last \in BOOLEAN
    /\ due \in Seq(Elem) /\ ran \in Seq(Elem) /\ late \in Seq(Elem)

\* While exeq runs no task is lost, duplicated or overtaken: the tasks it
\* called followed by those still queued are the tasks it found followed by
\* those the callbacks pushed.
TasksKept == pc # "idle" => ran \o Items = due \o late

\* A call of exeq ends having called exactly the tasks it found in the
\* queue, in order: a task pushed by a callback waits for the next call
\* even when the queue ran empty, wrapped into new chunks or was renumbered
\* meanwhile.
BatchIsExact == [][pc # "idle" /\ pc' = "idle" => ran = due]_allVars
=============================================================================
