----------------------------- MODULE ExeqProofs -----------------------------
(***************************************************************************)
(* Proofs about Exeq for every chunk size, map bound and task set: a call  *)
(* of ielb_ioux_exeq calls the tasks it found and no other, whatever its   *)
(* callbacks push and wherever the chunks end up.                          *)
(***************************************************************************)
EXTENDS Exeq, QueProofs

\* How far the stop position is ahead of the first element.
Ahead == (chunk_stop - chunk_s) * C + (os_stop - os_s)

\* What holds from Begin to Return.  After a pop that emptied the queue the
\* position means nothing any more: the indices start again at chunk 0.
Running ==
    /\ alive
    /\ due \in Seq(Entry) /\ ran \in Seq(Entry) /\ late \in Seq(Entry)
    /\ chunk_stop \in Nat /\ os_stop \in Offset
    /\ ran \o Items = due \o late
    /\ pc = "pop" =>
           /\ Ahead = Len(due) - Len(ran)
           /\ Len(ran) < Len(due) \/ (Len(ran) = Len(due) /\ late = <<>>)
    /\ pc = "cb" /\ ~last => Ahead = Len(due) - Len(ran) /\ Len(ran) < Len(due)
    /\ pc = "cb" /\ last => Len(ran) = Len(due)

EInv ==
    /\ IInv
    /\ pc \in {"idle", "pop", "cb"} /\ last \in BOOLEAN
    /\ pc = "idle" => ran = <<>> /\ late = <<>>
    /\ pc # "idle" => Running

----------------------------------------------------------------------------

\* Two positions are the same when there is nothing between them.
LEMMA SamePosition ==
    ASSUME NEW a \in Int, NEW r \in Offset, NEW s \in Offset, a * C + (r - s) = 0
    PROVE  a = 0 /\ r = s
    <1>1. C \in Nat \ {0} /\ r \in 0 .. C - 1 /\ s \in 0 .. C - 1
      BY QueAssumption DEF Offset
    <1>2. CASE a >= 1
      <2>1. a * C >= C
        BY <1>1, <1>2
      <2>2. QED
        BY <1>1, <2>1
    <1>3. CASE a <= -1
      <2>1. a * C <= (-1) * C
        BY <1>1, <1>3
      <2>2. QED
        BY <1>1, <2>1
    <1>4. CASE a = 0
      <2>1. a * C = 0
        BY <1>1, <1>4
      <2>2. QED
        BY <1>1, <1>4, <2>1
    <1>5. QED
      BY <1>2, <1>3, <1>4

\* Prefixes of one length are the same.
LEMMA SamePrefix ==
    ASSUME NEW s \in Seq(Entry), NEW t \in Seq(Entry), NEW u \in Seq(Entry), NEW v \in Seq(Entry),
           s \o u = t \o v, Len(s) = Len(t)
    PROVE  s = t
    <1>1. ASSUME NEW i \in 1 .. Len(s)
          PROVE  s[i] = t[i]
      <2>1. (s \o u)[i] = s[i] /\ (t \o v)[i] = t[i]
        BY ConcatProperties
      <2>2. QED
        BY <2>1
    <1>2. QED
      BY <1>1, SeqEqual

\* What is queued is what was found and not called, and what was pushed.
LEMMA RunningSize ==
    ASSUME EInv, pc # "idle"
    PROVE  /\ Contents
           /\ Len(due) \in Nat /\ Len(ran) \in Nat /\ Len(late) \in Nat
           /\ Size = Len(due) + Len(late) - Len(ran)
    <1>1. Contents
      BY ContentsNow DEF EInv, Running
    <1>2. Len(ran \o Items) = Len(ran) + Len(Items) /\ Len(due \o late) = Len(due) + Len(late)
      BY <1>1, ConcatProperties DEF EInv, Running, Contents
    <1>3. Len(ran) \in Nat /\ Len(due) \in Nat /\ Len(late) \in Nat
      BY DEF EInv, Running
    <1>4. QED
      BY <1>1, <1>2, <1>3 DEF EInv, Running, Contents

----------------------------------------------------------------------------

LEMMA ExeqInitInv == ExeqInit => EInv
    BY InitIInv DEF ExeqInit, EInv

LEMMA IdleInv == EInv /\ Idle => EInv'
    <1> SUFFICES ASSUME EInv, Idle PROVE EInv'
      OBVIOUS
    <1>1. IInv'
      BY NextIInv DEF EInv, Idle
    <1>2. pc = "idle" /\ pc' = "idle" /\ ran' = ran /\ late' = late /\ last' = last
      BY DEF Idle, exeqVars
    <1>3. QED
      BY <1>1, <1>2 DEF EInv

\* A callback's push lies behind the stop position.
LEMMA PushInCallbackInv == EInv /\ PushInCallback => EInv'
    <1> SUFFICES ASSUME EInv, PushInCallback PROVE EInv'
      OBVIOUS
    <1>1. PICK e \in Elem : Rsv1(e) /\ late' = Append(late, e)
      BY DEF PushInCallback
    <1>2. /\ pc = "cb" /\ pc' = "cb" /\ chunk_stop' = chunk_stop /\ os_stop' = os_stop
          /\ last' = last /\ due' = due /\ ran' = ran
      BY DEF PushInCallback
    <1>3. Running /\ Contents
      BY <1>2, RunningSize DEF EInv
    <1>4. /\ alive' /\ chunk_s' = chunk_s /\ os_s' = os_s /\ Items' = Append(Items, e)
          /\ IInv'
      BY <1>1, Rsv1IInv, Rsv1Items DEF Rsv1, EInv
    <1>5. e \in Entry /\ Items \in Seq(Entry) /\ <<e>> \in Seq(Entry)
      BY <1>3 DEF Entry, Contents
    <1>6. ran' \o Items' = due' \o late'
      <2>1. Items' = Items \o <<e>> /\ late' = late \o <<e>>
        BY <1>1, <1>3, <1>4, <1>5, AppendIsConcat DEF Running
      <2>2. ran \in Seq(Entry) /\ due \in Seq(Entry) /\ late \in Seq(Entry)
        BY <1>3 DEF Running
      <2>3. ran \o (Items \o <<e>>) = (ran \o Items) \o <<e>>
        BY <1>5, <2>2, ConcatAssociative
      <2>4. due \o (late \o <<e>>) = (due \o late) \o <<e>>
        BY <1>5, <2>2, ConcatAssociative
      <2>5. QED
        BY <1>2, <1>3, <2>1, <2>3, <2>4 DEF Running
    <1>7. late' \in Seq(Entry)
      BY <1>1, <1>3, <1>5, AppendProperties DEF Running
    <1>8. Running'
      BY <1>2, <1>3, <1>4, <1>6, <1>7 DEF Running, Ahead
    <1>9. QED
      BY <1>2, <1>4, <1>8 DEF EInv

LEMMA PushFailsInv == EInv /\ PushFails => EInv'
    <1> SUFFICES ASSUME EInv, PushFails PROVE EInv'
      OBVIOUS
    <1>1. IInv' /\ UNCHANGED exeqVars
      BY Rsv1NoChunkIInv DEF EInv, PushFails
    <1>2. UNCHANGED <<map, chunk_s, chunk_e, os_s, os_e, alive>>
      BY DEF PushFails, Rsv1NoChunk
    <1>3. QED
      BY <1>1, <1>2 DEF EInv, Running, Ahead, Items, At, Size, exeqVars

\* The stop position is as far ahead as there are tasks.
LEMMA BeginInv == EInv /\ Begin => EInv'
    <1> SUFFICES ASSUME EInv, Begin PROVE EInv'
      OBVIOUS
    <1>1. /\ alive /\ pc = "idle" /\ pc' = "pop" /\ due' = Items
          /\ chunk_stop' = chunk_e /\ os_stop' = os_e
          /\ ran' = <<>> /\ late' = <<>>
      BY DEF Begin, EInv
    <1>2. UNCHANGED vars /\ last' = last /\ last \in BOOLEAN
      BY DEF Begin, EInv
    <1>3. IInv /\ IInv' /\ alive'
      BY <1>1, <1>2, NextIInv DEF EInv, vars
    <1>4. Contents /\ Items' = Items
      BY <1>1, <1>2, <1>3, ContentsNow DEF vars, Items, At, Size
    <1>5. Ahead' = Len(Items)
      <2>1. Ahead' = (chunk_e - chunk_s) * C + (os_e - os_s)
        BY <1>1, <1>2 DEF Ahead, vars
      <2>2. QED
        BY <1>1, <1>3, <1>4, <2>1, SizeType DEF Contents
    <1>6. chunk_stop' \in Nat /\ os_stop' \in Offset
      BY <1>1, <1>3, Facts
    <1>7. due' \in Seq(Entry) /\ ran' \in Seq(Entry) /\ late' \in Seq(Entry) /\ Len(ran') = 0
      BY <1>1, <1>4 DEF Contents
    <1>8. ran' \o Items' = due' \o late'
      <2>1. <<>> \o Items = Items /\ Items \o <<>> = Items
        BY <1>4, ConcatEmptySeq DEF Contents
      <2>2. QED
        BY <1>1, <1>4, <2>1
    <1>9. Len(due') \in Nat /\ Ahead' = Len(due') - Len(ran')
      BY <1>1, <1>4, <1>5, <1>7 DEF Contents
    <1>10. Running'
      BY <1>1, <1>3, <1>6, <1>7, <1>8, <1>9 DEF Running
    <1>11. QED
      BY <1>1, <1>2, <1>3, <1>10 DEF EInv

LEMMA ReturnInv == EInv /\ Return /\ UNCHANGED vars => EInv'
    <1> SUFFICES ASSUME EInv, Return, UNCHANGED vars PROVE EInv'
      OBVIOUS
    <1>1. IInv'
      BY NextIInv DEF EInv
    <1>2. QED
      BY <1>1 DEF EInv, Return

\* pop1 takes a task that was found, and reports the last of them.
LEMMA PopTaskInv == EInv /\ PopTask => EInv'
    <1> SUFFICES ASSUME EInv, PopTask PROVE EInv'
      OBVIOUS
    <1> USE Facts
    <1> DEFINE os == NextOffset(os_s)
               cs == IF os = 0 THEN chunk_s + 1 ELSE chunk_s
    <1>1. /\ pc = "pop" /\ pc' = "cb" /\ Pop1
          /\ last' = (Drained(cs, os) \/ (chunk_stop = cs /\ os_stop = os))
          /\ ran' = ran \o out'
          /\ chunk_stop' = chunk_stop /\ os_stop' = os_stop /\ due' = due /\ late' = late
      BY DEF PopTask, Pop1Last
    <1>2. IInv /\ Running /\ Contents
      BY <1>1, RunningSize DEF EInv
    <1>3. /\ Len(due) \in Nat /\ Len(ran) \in Nat /\ Len(late) \in Nat /\ Size \in Nat
          /\ Size = Len(due) + Len(late) - Len(ran)
          /\ Ahead = Len(due) - Len(ran)
      BY <1>1, <1>2, RunningSize DEF Running, Contents
    <1>4. /\ Size > 0 /\ out' = <<Items[1]>> /\ Items' = Tail(Items)
          /\ IInv' /\ alive' /\ last' \in BOOLEAN
      BY <1>1, <1>2, Pop1Items, Pop1IInv DEF Pop1
    <1>5. Len(ran) < Len(due)
      BY <1>1, <1>2, <1>3, <1>4 DEF Running
    <1>6. Items \in Seq(Entry) /\ Items # <<>> /\ Items[1] \in Entry /\ <<Items[1]>> \in Seq(Entry)
      <2>1. Items \in Seq(Entry) /\ Len(Items) = Size
        BY <1>2 DEF Contents
      <2>2. Items # <<>> /\ 1 \in 1 .. Len(Items)
        BY <1>3, <1>4, <2>1
      <2>3. Items[1] \in Entry
        BY <2>1, <2>2, ElementOfSeq
      <2>4. QED
        BY <2>1, <2>2, <2>3
    <1>7. ran' \in Seq(Entry) /\ Len(ran') = Len(ran) + 1
      <2>1. ran' = Append(ran, Items[1])
        BY <1>1, <1>2, <1>4, <1>6, AppendIsConcat DEF Running
      <2>2. QED
        BY <1>2, <1>6, <2>1, AppendProperties DEF Running
    <1>8. ran' \o Items' = due' \o late'
      <2>1. ran \in Seq(Entry) /\ Tail(Items) \in Seq(Entry)
        BY <1>2, <1>6, HeadTailProperties DEF Running
      <2>2. (ran \o <<Items[1]>>) \o Tail(Items) = ran \o (<<Items[1]>> \o Tail(Items))
        BY <1>6, <2>1, ConcatAssociative
      <2>3. <<Items[1]>> \o Tail(Items) = Items
        <3>1. /\ Tail(Items) = SubSeq(Items, 2, Len(Items))
              /\ SubSeq(Items, 1, Len(Items)) = Items
          BY <1>6, TailIsSubSeq, SubSeqFull
        <3>2. 1 \in 1 .. Len(Items) /\ Len(Items) \in 1 .. Len(Items)
          BY <1>2, <1>3, <1>4 DEF Contents
        <3>3. SubSeq(Items, 1, Len(Items)) = <<Items[1]>> \o SubSeq(Items, 1 + 1, Len(Items))
          BY <1>6, <3>2, SubSeqRecursiveFirst
        <3>4. QED
          BY <3>1, <3>3
      <2>4. QED
        BY <1>1, <1>2, <1>4, <2>2, <2>3 DEF Running
    <1>9. /\ os \in Offset
          /\ os = 0 <=> os_s + 1 = C
          /\ os # 0 => os = os_s + 1
      BY <1>2, NextOffsetType
    <1>10. (chunk_stop - cs) * C + (os_stop - os) = Ahead - 1
      <2>1. chunk_stop \in Nat /\ os_stop \in Offset /\ os_stop \in Nat
        BY <1>2 DEF Running, Offset
      <2>2. Ahead = (chunk_stop - chunk_s) * C + (os_stop - os_s)
        BY DEF Ahead
      <2>3. CASE os = 0
        <3>1. (chunk_stop - (chunk_s + 1)) * C = (chunk_stop - chunk_s) * C - C
          BY <1>2, <2>1
        <3>2. (chunk_stop - chunk_s) * C \in Int
          BY <1>2, <2>1
        <3>3. QED
          BY <1>2, <1>9, <2>1, <2>2, <2>3, <3>1, <3>2
      <2>4. CASE os # 0
        <3>1. (chunk_stop - chunk_s) * C \in Int
          BY <1>2, <2>1
        <3>2. QED
          BY <1>2, <1>9, <2>1, <2>2, <2>4, <3>1
      <2>5. QED
        BY <2>3, <2>4
    <1>11. CASE Drained(cs, os)
      <2>1. Size' = 0 /\ Size = 1
        <3>1. chunk_s' = 0 /\ chunk_e' = 0 /\ os_s' = 0 /\ os_e' = 0
          BY <1>1, <1>11 DEF Pop1
        <3>2. Size' = (0 - 0) * C + 0 - 0
          BY <3>1 DEF Size
        <3>3. Size' = 0
          BY <1>2, <3>2
        <3>4. QED
          BY <1>1, <1>2, <1>3, <3>3, Pop1Items
      <2>2. last' = TRUE
        BY <1>1, <1>11
      <2>3. Len(ran') = Len(due')
        BY <1>1, <1>3, <1>5, <1>7, <2>1
      <2>4. QED
        BY <1>1, <1>2, <1>4, <1>7, <1>8, <2>2, <2>3 DEF EInv, Running
    <1>12. CASE ~Drained(cs, os)
      <2>1. chunk_s' = cs /\ os_s' = os
        BY <1>1, <1>12 DEF Pop1
      <2>2. Ahead' = Ahead - 1
        BY <1>1, <1>10, <2>1 DEF Ahead
      <2>3. last' <=> Ahead' = 0
        <3>1. os_stop \in Offset /\ chunk_stop \in Nat /\ cs \in Nat
          <4>1. os_stop \in Offset /\ chunk_stop \in Nat
            BY <1>2 DEF Running
          <4>2. QED
            BY <1>2, <4>1
        <3> HIDE DEF cs, os
        <3>2. ASSUME Ahead' = 0 PROVE chunk_stop = cs /\ os_stop = os
          <4>1. (chunk_stop - cs) * C + (os_stop - os) = 0
            BY <1>10, <2>2, <3>2
          <4>2. PICK a \in Int : a = chunk_stop - cs
            BY <3>1
          <4>3. a = 0 /\ os_stop = os
            BY <1>9, <3>1, <4>1, <4>2, SamePosition
          <4>4. QED
            BY <3>1, <4>2, <4>3
        <3>3. ASSUME chunk_stop = cs, os_stop = os PROVE Ahead' = 0
          <4>1. (chunk_stop - cs) * C = 0 /\ os_stop - os = 0
            BY <1>2, <1>9, <3>1, <3>3 DEF Offset
          <4>2. Ahead' = (chunk_stop - cs) * C + (os_stop - os)
            BY <1>10, <2>2
          <4>3. QED
            BY <4>1, <4>2
        <3>4. QED
          BY <1>1, <1>12, <3>2, <3>3
      <2>4. Ahead' = Len(due') - Len(ran') /\ Len(ran') <= Len(due')
        BY <1>1, <1>3, <1>5, <1>7, <2>2
      <2>5. /\ last' => Len(ran') = Len(due')
            /\ ~last' => Len(ran') < Len(due')
        BY <1>1, <1>3, <1>7, <2>3, <2>4
      <2>6. QED
        BY <1>1, <1>2, <1>4, <1>7, <1>8, <2>4, <2>5 DEF EInv, Running
    <1>13. QED
      BY <1>11, <1>12

\* exeq goes on only while a task it found is left.
LEMMA CallbackReturnsInv == EInv /\ CallbackReturns => EInv'
    <1> SUFFICES ASSUME EInv, CallbackReturns PROVE EInv'
      OBVIOUS
    <1>1. CASE last
      BY <1>1, ReturnInv DEF CallbackReturns
    <1>2. CASE ~last
      <2>1. pc = "cb" /\ pc' = "pop" /\ UNCHANGED <<chunk_stop, os_stop, last, due, ran, late>>
        BY <1>2 DEF CallbackReturns
      <2>2. UNCHANGED vars
        BY DEF CallbackReturns
      <2>3. IInv'
        BY <2>2, NextIInv DEF EInv
      <2>4. QED
        BY <1>2, <2>1, <2>2, <2>3 DEF EInv, Running, Ahead, Items, At, Size, vars
    <1>3. QED
      BY <1>1, <1>2

LEMMA ExeqNextInv == EInv /\ [ExeqNext]_allVars => EInv'
    <1> SUFFICES ASSUME EInv, [ExeqNext]_allVars PROVE EInv'
      OBVIOUS
    <1>1. CASE Idle
      BY <1>1, IdleInv
    <1>2. CASE PushInCallback
      BY <1>2, PushInCallbackInv
    <1>3. CASE PushFails
      BY <1>3, PushFailsInv
    <1>4. CASE Begin
      BY <1>4, BeginInv
    <1>5. CASE PopNothing
      BY <1>5, ReturnInv DEF PopNothing
    <1>6. CASE PopTask
      BY <1>6, PopTaskInv
    <1>7. CASE CallbackReturns
      BY <1>7, CallbackReturnsInv
    <1>8. CASE UNCHANGED allVars
      <2>1. UNCHANGED vars /\ UNCHANGED exeqVars
        BY <1>8 DEF allVars
      <2>2. IInv'
        BY <2>1, NextIInv DEF EInv
      <2>3. QED
        BY <2>1, <2>2 DEF EInv, Running, Ahead, Items, At, Size, vars, exeqVars
    <1>9. QED
      BY <1>1, <1>2, <1>3, <1>4, <1>5, <1>6, <1>7, <1>8 DEF ExeqNext

\* The inductive invariant of a call of exeq.
THEOREM ExeqInvariant == ExeqSpec => []EInv
    BY ExeqInitInv, ExeqNextInv, PTL DEF ExeqSpec

\* No task is lost, duplicated or overtaken while exeq runs its callbacks.
THEOREM ExeqKeepsTasks == ExeqSpec => []TasksKept
    <1>1. EInv => TasksKept
      BY DEF EInv, Running, TasksKept
    <1>2. QED
      BY <1>1, ExeqInvariant, PTL

\* exeq returns only when it has called what it found.
LEMMA ReturnsDone ==
    ASSUME EInv, [ExeqNext]_allVars, pc # "idle", pc' = "idle"
    PROVE  ran = due
    <1>1. CASE PopNothing
      <2>1. pc = "pop" /\ IsEmpty
        BY <1>1 DEF PopNothing
      <2>2. Size = 0
        <3>1. chunk_s \in Nat /\ os_s \in Nat /\ C \in Nat
          BY Facts DEF EInv
        <3>2. (chunk_e - chunk_s) * C = 0
          BY <2>1, <3>1 DEF IsEmpty
        <3>3. QED
          BY <2>1, <3>1, <3>2 DEF IsEmpty, Size
      <2>3. Len(ran) = Len(due)
        BY <2>1, <2>2, RunningSize DEF EInv, Running
      <2>4. Items \in Seq(Entry)
        BY RunningSize DEF Contents
      <2>5. QED
        BY <2>3, <2>4, SamePrefix DEF EInv, Running
    <1>2. CASE CallbackReturns
      <2>1. pc = "cb" /\ last
        BY <1>2 DEF CallbackReturns
      <2>2. Items \in Seq(Entry)
        BY RunningSize DEF Contents
      <2>3. QED
        BY <2>1, <2>2, SamePrefix DEF EInv, Running
    <1>3. QED
      BY <1>1, <1>2 DEF ExeqNext, Idle, PushInCallback, PushFails, Begin, PopTask,
                        allVars, exeqVars

\* exeq calls exactly the tasks it found, for every chunk size and however
\* the queue moves through its chunks while the callbacks push.
THEOREM ExeqBatchIsExact == ExeqSpec => BatchIsExact
    <1>1. EInv /\ [ExeqNext]_allVars => [pc # "idle" /\ pc' = "idle" => ran = due]_allVars
      BY ReturnsDone
    <1>2. QED
      BY <1>1, ExeqInvariant, PTL DEF ExeqSpec, BatchIsExact

\* exeq and its callbacks use the queue as Que says, so what is proved of Que
\* (QueInvariant, QueIsAFifo) holds while exeq runs.
THEOREM ExeqUsesQue == ExeqSpec => Spec
    <1>1. ExeqInit => Init
      BY DEF ExeqInit
    <1>2. [ExeqNext]_allVars => [Next]_vars
      BY DEF ExeqNext, Idle, PushInCallback, PushFails, Begin, PopNothing, PopTask,
             CallbackReturns, allVars, Next
    <1>3. QED
      BY <1>1, <1>2, PTL DEF ExeqSpec, Spec
----------------------------------------------------------------------------
(* Types: what is popped was once pushed *)

\* The live queue holds elements only, never the content of a fresh chunk.
Stored == alive => Items \in Seq(Elem)

LEMMA NextStored ==
    ASSUME IInv, Stored, [Next]_vars
    PROVE  Stored'
    <1> SUFFICES ASSUME alive' PROVE Items' \in Seq(Elem)
      BY DEF Stored
    <1>1. IInv' /\ Contents'
      BY NextIInv, ContentsNext
    <1>2. alive => Contents
      BY ContentsNow
    <1>3. Size' = 0 => Items' \in Seq(Elem)
      BY <1>1, EmptySeq DEF Contents
    <1>4. CASE InitQue
      <2>1. chunk_e' = 0 /\ chunk_s' = 0 /\ os_e' = 0 /\ os_s' = 0
        BY <1>4 DEF InitQue
      <2>2. Size' = (0 - 0) * C + 0 - 0
        BY <2>1 DEF Size
      <2>3. QED
        BY <1>3, <2>2, QueAssumption
    <1>5. ASSUME NEW e \in Elem, Rsv1(e) PROVE Items' \in Seq(Elem)
      <2>1. Items' = Append(Items, e)
        BY <1>5, Rsv1Items
      <2>2. Items \in Seq(Elem)
        BY <1>5 DEF Rsv1, Stored
      <2>3. QED
        BY <2>1, <2>2, AppendProperties
    <1>6. CASE Rsv1NoChunk \/ UNCHANGED vars
      <2>1. UNCHANGED <<map, chunk_s, chunk_e, os_s, os_e, alive>>
        BY <1>6 DEF Rsv1NoChunk, vars
      <2>2. Items' = Items
        BY <2>1 DEF Items, At, Size
      <2>3. QED
        BY <2>1, <2>2 DEF Stored
    <1>7. CASE Pop1
      <2>1. Size > 0 /\ Items' = Tail(Items)
        BY <1>7, Pop1Items
      <2>2. Items \in Seq(Elem) /\ Len(Items) = Size
        BY <1>2, <1>7 DEF Pop1, Stored, Contents
      <2>3. QED
        BY <2>1, <2>2
    <1>8. ASSUME NEW n \in 1 .. MaxBlk, PopTo(n) PROVE Items' \in Seq(Elem)
      <2>1. Items \in Seq(Elem) /\ Len(Items) = Size /\ Size \in Nat /\ n \in Nat
        BY <1>2, <1>8, QueAssumption DEF PopTo, Stored, Contents
      <2>2. CASE Size < n
        <3>1. chunk_e' = 0 /\ chunk_s' = 0 /\ os_e' = 0 /\ os_s' = 0
          BY <1>8, <2>2 DEF PopTo
        <3>2. Size' = (0 - 0) * C + 0 - 0
          BY <3>1 DEF Size
        <3>3. QED
          BY <1>3, <3>2, QueAssumption
      <2>3. CASE n <= Size
        <3>1. Gone(n) \in Nat /\ Items' = SubSeq(Items, Gone(n) + 1, Size)
          BY <1>8, <2>3, PopToItems
        <3>2. QED
          BY <2>1, <3>1, SubSeqProperties
      <2>4. QED
        BY <2>1, <2>2, <2>3
    <1>9. CASE Trim \/ QTrim
      <2>1. Trim
        BY <1>9 DEF QTrim
      <2>2. Items' = Items /\ alive
        BY <2>1, TrimItems DEF Trim
      <2>3. QED
        BY <2>2 DEF Stored
    <1>10. CASE Del
      BY <1>10 DEF Del
    <1>11. QED
      BY <1>4, <1>5, <1>6, <1>7, <1>8, <1>9, <1>10 DEF Next

LEMMA NextTypes ==
    ASSUME EInv, Stored, ExeqTypeOK, [ExeqNext]_allVars
    PROVE  Stored' /\ ExeqTypeOK'
    <1>1. IInv /\ [Next]_vars
      BY DEF EInv, ExeqNext, Idle, PushInCallback, PushFails, Begin, PopNothing, PopTask,
             CallbackReturns, allVars, Next
    <1>2. Stored'
      BY <1>1, NextStored
    <1> SUFFICES ExeqTypeOK'
      BY <1>2
    <1>3. <<>> \in Seq(Elem) /\ 0 \in Nat /\ 0 \in Offset
      BY <1>1, Facts, EmptySeq
    <1>4. CASE Idle \/ PushFails \/ UNCHANGED allVars
      <2>1. UNCHANGED <<pc, chunk_stop, os_stop, last, due, ran, late>>
        BY <1>4 DEF Idle, PushFails, allVars, exeqVars
      <2>2. QED
        BY <2>1 DEF ExeqTypeOK
    <1>5. CASE PushInCallback
      <2>1. PICK e \in Elem : late' = Append(late, e)
        BY <1>5 DEF PushInCallback
      <2>2. late' \in Seq(Elem)
        BY <2>1, AppendProperties DEF ExeqTypeOK
      <2>3. QED
        BY <1>5, <2>2 DEF PushInCallback, ExeqTypeOK
    <1>6. CASE Begin
      <2>1. Items \in Seq(Elem) /\ chunk_e \in Nat /\ os_e \in Offset
        BY <1>1, <1>6, Facts DEF Begin, Stored
      <2>2. QED
        BY <1>3, <1>6, <2>1 DEF Begin, ExeqTypeOK
    <1>7. CASE PopTask
      <2>1. Size > 0 /\ out' = <<Items[1]>>
        BY <1>1, <1>7, Pop1Items DEF PopTask
      <2>2. Items \in Seq(Elem) /\ Len(Items) = Size
        BY <1>1, <1>7, ContentsNow DEF PopTask, Pop1, Stored, Contents
      <2>3. out' \in Seq(Elem)
        BY <2>1, <2>2
      <2>4. ran' \in Seq(Elem)
        BY <1>7, <2>3, ConcatProperties DEF PopTask, ExeqTypeOK
      <2>5. last' \in BOOLEAN
        BY <1>7 DEF PopTask, Pop1Last
      <2>6. QED
        BY <1>7, <2>4, <2>5 DEF PopTask, ExeqTypeOK
    <1>8. CASE PopNothing \/ CallbackReturns
      BY <1>3, <1>8 DEF PopNothing, CallbackReturns, Return, ExeqTypeOK
    <1>9. QED
      BY <1>4, <1>5, <1>6, <1>7, <1>8 DEF ExeqNext

\* Types of exeq; in particular pop1 hands exeq a task that was pushed, never
\* an entry of a chunk that nothing was stored in.
THEOREM ExeqTypes == ExeqSpec => []ExeqTypeOK
    <1>1. ExeqInit => Stored /\ ExeqTypeOK
      <2>1. <<>> \in Seq(Elem) /\ 0 \in Nat /\ 0 \in 0 .. C - 1
        BY QueAssumption, EmptySeq
      <2>2. QED
        BY <2>1, Zenon DEF ExeqInit, Init, Stored, ExeqTypeOK, Offset
    <1>2. EInv /\ Stored /\ ExeqTypeOK /\ [ExeqNext]_allVars => (Stored /\ ExeqTypeOK)'
      BY NextTypes
    <1>3. QED
      BY <1>1, <1>2, ExeqInvariant, PTL DEF ExeqSpec
=============================================================================
