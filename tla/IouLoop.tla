------------------------------ MODULE IouLoop ------------------------------
(***************************************************************************)
(* The event loop of src/backends/iou.c: the submission calls, lrun1, the  *)
(* callbacks it runs, and the io_uring instance they share two rings with. *)
(*                                                                         *)
(* A request is named by what its user_data identifies: a Task (a callback *)
(* the caller may submit again once it was called) or, for a request with  *)
(* IEL_FLAG_REQLNK, a Link.  soonque and prepque are sequences (Que and    *)
(* Exeq show that iel_quep is one); sqofq is a ChunkSeq queue, because     *)
(* what its pop_to removes depends on chunks.                              *)
(*                                                                         *)
(* Callers are assumed to pass a NULL user_data with IEL_FLAG_REQLNK.      *)
(* backends.h:223 says that it is ignored, but submit_to_sq stores it      *)
(* (255), so a callback passed there would run if the request fails, and   *)
(* never if it succeeds.                                                   *)
(***************************************************************************)
EXTENDS ChunkSeq, FiniteSets, Functions

CONSTANTS
    Task,       \* user_data values: callbacks
    Timer,      \* the tasks that are submitted with etime
    Link,       \* requests submitted with IEL_FLAG_REQLNK
    NoLink,
    N,          \* sring_mask + 1
    M,          \* cring_mask + 1
    W,          \* ring counters are unsigned: they wrap at W
    Stale,      \* the content of a ring slot that has been consumed
    MaxLeak,    \* bound: submissions that fail for lack of memory
    Interrupts, \* a signal may end the wait after SQEs were submitted
    EnterFails, \* io_uring_enter may fail
    Rejects,    \* the kernel may refuse an SQE and leave those behind it
    Split,      \* callers may let a link chain straddle the end of the SQ
    Bursty      \* callers may overflow the SQ by more than pop_to preserves

ASSUME LoopAssumption ==
    /\ Timer \subseteq Task
    /\ NoLink \notin Link /\ Stale \notin Task \cup Link /\ Task \cap Link = {}
    /\ N \in Nat \ {0} /\ M \in Nat \ {0} /\ C \in Nat \ {0}
    /\ W \in Nat /\ W > N /\ W > M /\ W % N = 0 /\ W % M = 0
    /\ MaxLeak \in Nat
    /\ {Interrupts, EnterFails, Rejects, Split, Bursty} \subseteq BOOLEAN

VARIABLES
    \* the rings
    sq, sring_head, sring_tail, lcl_stail,
    cq, cring_head, cring_tail, lcl_chead,
    \* the queues of struct ielb_iou_ctx_st
    sqofq, soonque, prepque,
    \* where lrun1 is, where a callback returns to, what exeq has left to call
    pc, ret, todo,
    \* the kernel: link chains it has taken, completions the CQ has no room for
    kernel, backlog,
    \* etime wrappers allocated, and those lost by a failed submission
    wraps, leaked,
    \* history: tasks handed to the loop and not called; tasks the kernel
    \* cancelled without a CQE; the link a request must wait for; the link
    \* still lacking a successor; whether the last io_uring_enter took any SQE
    pend, cancelled, pred, open, submitted

rings == <<sq, sring_head, sring_tail, lcl_stail, cq, cring_head, cring_tail, lcl_chead>>
queues == <<sqofq, soonque, prepque>>
control == <<pc, ret, todo>>
ring0 == <<kernel, backlog>>
memory == <<wraps, leaked>>
history == <<pend, cancelled, pred, open, submitted>>
vars == <<rings, queues, control, ring0, memory, history>>

----------------------------------------------------------------------------
(* Ring arithmetic *)

Req == Task \cup Link

\* Mutant of Plus: the counter does not wrap.
PlusUnwrapped(x, k) == x + k

\* unsigned addition and subtraction
Plus(x, k) == IF x + k >= W THEN x + k - W ELSE x + k
Dist(from, to) == IF to >= from THEN to - from ELSE to - from + W

SqEnts == Dist(sring_head, lcl_stail)
CqEnts == Dist(lcl_chead, cring_tail)
SqFull == SqEnts = N

\* SQEs written and not yet taken by the kernel; CQEs not yet passed.
SqHeld == [k \in 1 .. SqEnts |-> sq[(sring_head + k - 1) % N]]
CqHeld == [k \in 1 .. CqEnts |-> cq[(lcl_chead + k - 1) % M]]

\* The requests the kernel or the rings still hold.
Outstanding ==
    Range(SqHeld) \cup Range(CqHeld) \cup Range(sqofq.items)
        \cup Range(backlog) \cup UNION {Range(c) : c \in kernel}

----------------------------------------------------------------------------

Init ==
    /\ sq = [i \in 0 .. N - 1 |-> Stale]
    /\ sring_head = 0 /\ sring_tail = 0 /\ lcl_stail = 0
    /\ cq = [i \in 0 .. M - 1 |-> Stale]
    /\ cring_head = 0 /\ cring_tail = 0 /\ lcl_chead = 0
    /\ sqofq = Empty /\ soonque = <<>> /\ prepque = <<>>
    /\ pc = "app" /\ ret = "app" /\ todo = 0
    /\ kernel = {} /\ backlog = <<>>
    /\ wraps = 0 /\ leaked = 0
    /\ pend = {} /\ cancelled = {}
    /\ pred = [r \in Req |-> NoLink]
    /\ open = NoLink
    /\ submitted = FALSE

----------------------------------------------------------------------------
(* The calls of the application, from outside the loop or from a callback *)

InUser == pc \in {"app", "cb"}

\* Callers that do not Split chains start one only where its next member is
\* sure to follow it into the same ring or queue.
ChainFits == Split \/ SqFull \/ N - SqEnts >= 2

\* Callers that are not Bursty keep the overflow queue within the contiguous
\* free slots that the next flush fills with its first pop_to.
OverflowFits ==
    Bursty \/ sqofq'.items = <<>> \/ Len(sqofq'.items) <= N - (lcl_stail' % N)

\* Mutant of HasLinkFlag: the request is filled in without its flags.
LinkFlagLost(r) == FALSE

\* IOSQE_IO_LINK in sqe->flags (with it always IOSQE_CQE_SKIP_SUCCESS).
HasLinkFlag(r) == r \in Link

\* submit_to_sq: the next SQ slot, or the overflow queue when the SQ is full.
SubmitToSq(r) ==
    /\ IF SqFull
       THEN sqofq' = Put(sqofq, r) /\ UNCHANGED <<sq, lcl_stail>>
       ELSE /\ sq' = [sq EXCEPT ![lcl_stail % N] = r]
            /\ lcl_stail' = Plus(lcl_stail, 1)
            /\ UNCHANGED sqofq
    /\ OverflowFits
    /\ UNCHANGED <<sring_head, sring_tail, cq, cring_head, cring_tail, lcl_chead>>

\* fpr .. sc and etime.  etime allocates the wrapper whose address is the
\* user_data the kernel sees.
SubmitTask(t) ==
    /\ InUser
    /\ t \notin pend
    /\ SubmitToSq(t)
    /\ pend' = pend \cup {t}
    /\ pred' = [pred EXCEPT ![t] = open]
    /\ open' = NoLink
    /\ wraps' = IF t \in Timer THEN wraps + 1 ELSE wraps
    /\ UNCHANGED <<soonque, prepque, control, ring0, leaked, cancelled, submitted>>

\* The same calls with IEL_FLAG_REQLNK and a NULL user_data; a caller that
\* starts a chain has a task left to end it with.
SubmitLink(l) ==
    /\ InUser
    /\ l \notin Outstanding /\ l # open
    /\ Task \ pend # {}
    /\ ChainFits
    /\ SubmitToSq(l)
    /\ pred' = [pred EXCEPT ![l] = open]
    /\ open' = l
    /\ UNCHANGED <<soonque, prepque, control, ring0, memory, pend, cancelled, submitted>>

\* etime when the overflow queue has no memory: the wrapper is not freed.
ETimeFails(t) ==
    /\ InUser
    /\ open = NoLink
    /\ t \in Timer \ pend
    /\ SqFull
    /\ leaked < MaxLeak
    /\ wraps' = wraps + 1 /\ leaked' = leaked + 1
    /\ UNCHANGED <<rings, queues, control, ring0, history>>

\* esoon without and with IEL_FLAG_ESOON_NEXT.
ESoon(t) ==
    /\ InUser
    /\ open = NoLink
    /\ t \notin pend
    /\ pend' = pend \cup {t}
    /\ \/ soonque' = Append(soonque, t) /\ UNCHANGED prepque
       \/ prepque' = Append(prepque, t) /\ UNCHANGED soonque
    /\ UNCHANGED <<rings, sqofq, control, ring0, memory, cancelled, pred, open, submitted>>

----------------------------------------------------------------------------
(* lrun1, one step per callback and per stage.  A callback is a step to pc
   "cb", any number of calls above, and CbReturn. *)

LRun1 ==
    /\ pc = "app"
    /\ open = NoLink
    /\ pc' = "prep"
    /\ todo' = Len(prepque)
    /\ UNCHANGED <<rings, queues, ret, ring0, memory, pend, cancelled, pred, open, submitted>>

\* Mutant of Remaining: the end of the queue is read again for each task.
RemainingNow(queue) == Len(queue) - 1

\* exeq: how many tasks are left of those found when it was called.
Remaining(queue) == todo - 1

\* exeq calls the next of the tasks it found ...
RunPrep ==
    /\ pc = "prep" /\ todo > 0
    /\ pc' = "cb" /\ ret' = "prep"
    /\ prepque' = Tail(prepque)
    /\ todo' = Remaining(prepque)
    /\ pend' = pend \ {Head(prepque)}
    /\ UNCHANGED <<rings, sqofq, soonque, ring0, memory, cancelled, pred, open, submitted>>

RunSoon ==
    /\ pc \in {"soon", "cqsoon"} /\ todo > 0
    /\ pc' = "cb" /\ ret' = pc
    /\ soonque' = Tail(soonque)
    /\ todo' = Remaining(soonque)
    /\ pend' = pend \ {Head(soonque)}
    /\ UNCHANGED <<rings, sqofq, prepque, ring0, memory, cancelled, pred, open, submitted>>

\* ... and returns when there is none left.
ExeqDone ==
    /\ pc \in {"prep", "soon", "cqsoon"} /\ todo = 0
    /\ pc' = CASE pc = "prep" -> "soon" [] pc = "soon" -> "enter" [] pc = "cqsoon" -> "cq"
    /\ todo' = IF pc = "prep" THEN Len(soonque) ELSE 0
    /\ UNCHANGED <<rings, queues, ret, ring0, memory, history>>

\* The chains in a batch of SQEs: a chain ends with a request that has no
\* link flag, or with the batch.
Chains(s) ==
    LET Whole(i, j) ==
            /\ i <= j
            /\ i = 1 \/ ~HasLinkFlag(s[i - 1])
            /\ \A k \in i .. j - 1 : HasLinkFlag(s[k])
            /\ ~HasLinkFlag(s[j]) \/ j = Len(s)
    IN  {SubSeq(s, b[1], b[2]) : b \in {b \in (DOMAIN s) \X (DOMAIN s) : Whole(b[1], b[2])}}

\* CQEs move to the ring in order while it has room.
Posted(ring, tail, head, uds) ==
    LET n == Smaller(M - Dist(head, tail), Len(uds))
    IN  [ring |-> [i \in 0 .. M - 1 |->
                      IF \E k \in 1 .. n : (tail + k - 1) % M = i
                      THEN uds[CHOOSE k \in 1 .. n : (tail + k - 1) % M = i]
                      ELSE ring[i]],
         tail |-> Plus(tail, n),
         rest |-> SubSeq(uds, n + 1, Len(uds))]

\* Mutant of Released: also what was posted and not yet passed.
ReleasedEarly == cring_tail

\* The CQ space the loop gives back: everything it has passed.
Released == lcl_chead

\* Mutants of Polls: one of the two queues is forgotten.
PollsSoonOnly == soonque # <<>>
PollsNextOnly == prepque # <<>>

\* A zero timeout is passed when a task is queued to run soon.
Polls == soonque # <<>> \/ prepque # <<>>

\* io_uring_enter: publish both rings; the kernel takes the SQEs, moves its
\* backlog into the freed CQ space and waits for a completion.  With a zero
\* timeout lrun1 returns without looking at the result.
Enter ==
    /\ pc = "enter"
    /\ sring_tail' = lcl_stail
    /\ cring_head' = Released
    /\ sring_head' = lcl_stail
    /\ sq' = [i \in DOMAIN sq |-> Stale]
    /\ kernel' = kernel \cup Chains(SqHeld)
    /\ LET p == Posted(cq, cring_tail, Released, backlog)
       IN  cq' = p.ring /\ cring_tail' = p.tail /\ backlog' = p.rest
    /\ submitted' = (Interrupts /\ SqEnts > 0)
    /\ pc' = IF Polls THEN "app" ELSE "wait"
    /\ UNCHANGED <<lcl_stail, lcl_chead, queues, ret, todo, memory, pend, cancelled, pred, open>>

\* The kernel refuses the k-th SQE, which is in no chain: it posts its error,
\* leaves the SQEs behind it where they are, and does not wait.  (Only while
\* there is no overflow, which the flush would write over them, if not Bursty.)
EnterRejects(k) ==
    /\ Rejects
    /\ pc = "enter"
    /\ ~Bursty => sqofq.items = <<>>
    /\ k > 1 => ~HasLinkFlag(SqHeld[k - 1])
    /\ ~HasLinkFlag(SqHeld[k])
    /\ sring_tail' = lcl_stail
    /\ cring_head' = Released
    /\ sring_head' = Plus(sring_head, k)
    /\ sq' = [i \in DOMAIN sq |->
                 IF \E j \in 1 .. k : (sring_head + j - 1) % N = i THEN Stale ELSE sq[i]]
    /\ kernel' = kernel \cup Chains(SubSeq(SqHeld, 1, k - 1))
    /\ LET p == Posted(cq, cring_tail, Released, Append(backlog, SqHeld[k]))
       IN  cq' = p.ring /\ cring_tail' = p.tail /\ backlog' = p.rest
    /\ pred' = [pred EXCEPT ![SqHeld[k]] = NoLink]
    /\ submitted' = FALSE
    /\ pc' = IF Polls THEN "app" ELSE "wait"
    /\ UNCHANGED <<lcl_stail, lcl_chead, queues, ret, todo, memory, pend, cancelled, open>>

\* io_uring_enter returns an error: lrun1 returns -1, or 0 with a zero timeout.
EnterError ==
    /\ EnterFails
    /\ pc = "enter"
    /\ pc' = "app"
    /\ sring_tail' = lcl_stail
    /\ cring_head' = Released
    /\ submitted' = FALSE
    /\ UNCHANGED <<sq, sring_head, lcl_stail, cq, cring_tail, lcl_chead, queues, ret, todo,
                   ring0, memory, pend, cancelled, pred, open>>

\* Mutant of SafePop: the flush leaves the last request behind.
SafePopShort(s) == IF Len(s) > 1 THEN Smaller(Len(s) - 1, N) ELSE 1

\* How much of the overflow queue is flushed (FlushScan has the code's walk).
\* 0: it leaves the queue at its front.
SafePop(s) == UnlinkedPrefix(s, N, {r \in Req : HasLinkFlag(r)})

\* The overflow queue moves to the SQ, to the end of the ring first and then
\* to its start.
Flush ==
    LET n  == SafePop(sqofq.items)
        at == lcl_stail % N
        n1 == Smaller(N - at, n)
        b1 == Block(sqofq, n1)
        q1 == TakeBlock(sqofq, n1)
        n2 == Smaller(at, n - Len(b1))
        b2 == Block(q1, n2)
    IN  /\ sq' = [i \in DOMAIN sq |->
                     IF i \in at .. at + Len(b1) - 1 THEN b1[i - at + 1]
                     ELSE IF i < Len(b2) THEN b2[i + 1]
                     ELSE sq[i]]
        /\ lcl_stail' = Plus(lcl_stail, n)
        /\ sqofq' = TakeBlock(q1, n2)

\* lrun1 after the wait: flush the overflow queue, then dispatch.
AfterWait ==
    /\ pc = "wait"
    /\ IF sqofq.items = <<>>
       THEN pc' = "cq" /\ UNCHANGED <<sq, lcl_stail, sqofq>>
       ELSE IF SafePop(sqofq.items) = 0
       THEN pc' = "wild" /\ UNCHANGED <<sq, lcl_stail, sqofq>>
       ELSE pc' = "cq" /\ Flush
    /\ UNCHANGED <<sring_head, sring_tail, cq, cring_head, cring_tail, lcl_chead,
                   soonque, prepque, ret, todo, ring0, memory, history>>

\* Mutant of Wake: min_complete is 0.
WakeAnyTime == AfterWait

\* The wait ends with a completion in the CQ, or with a signal, when
\* io_uring_enter returns the number of SQEs it took (its retry sees EINTR only).
Woken == cring_tail # cring_head \/ (Interrupts /\ submitted)

Wake == Woken /\ AfterWait

\* The end of the dispatch loop's body: pass the CQE, return when the CQ is
\* empty, otherwise run the soon tasks queued so far.
NextCqe ==
    /\ lcl_chead' = Plus(lcl_chead, 1)
    /\ IF lcl_chead' = cring_tail
       THEN pc' = "app" /\ UNCHANGED todo
       ELSE pc' = "cqsoon" /\ todo' = Len(soonque)
    /\ ret' = "app"

\* Mutant of WrapsAfterCall: the wrapper is not freed.
WrapsAfterCallLeak(t) == wraps

\* etime_cb frees the wrapper before it calls the user's callback.
WrapsAfterCall(t) == IF t \in Timer THEN wraps - 1 ELSE wraps

\* A CQE with user_data: its callback runs.
Dispatch ==
    /\ pc = "cq"
    /\ LET t == cq[lcl_chead % M]
       IN  /\ t \in Task
           /\ pend' = pend \ {t}
           /\ wraps' = WrapsAfterCall(t)
    /\ cq' = [cq EXCEPT ![lcl_chead % M] = Stale]
    /\ pc' = "cb" /\ ret' = "cq"
    /\ UNCHANGED <<sq, sring_head, sring_tail, lcl_stail, cring_head, cring_tail, lcl_chead,
                   queues, todo, ring0, leaked, cancelled, pred, open, submitted>>

\* A CQE without: a linked request that failed.
SkipNull ==
    /\ pc = "cq"
    /\ cq[lcl_chead % M] \in Link
    /\ cq' = [cq EXCEPT ![lcl_chead % M] = Stale]
    /\ NextCqe
    /\ UNCHANGED <<sq, sring_head, sring_tail, lcl_stail, cring_head, cring_tail,
                   queues, ring0, memory, history>>

CbReturn ==
    /\ pc = "cb"
    /\ open = NoLink
    /\ IF ret = "cq" THEN NextCqe
       ELSE pc' = ret /\ ret' = "app" /\ UNCHANGED <<lcl_chead, todo>>
    /\ UNCHANGED <<sq, sring_head, sring_tail, lcl_stail, cq, cring_head, cring_tail,
                   queues, ring0, memory, history>>

LoopStep ==
    \/ LRun1 \/ RunPrep \/ RunSoon \/ ExeqDone
    \/ Enter \/ Wake \/ Dispatch \/ SkipNull \/ CbReturn

----------------------------------------------------------------------------
(* The kernel's side of io_uring *)

\* Post CQEs behind those that already overflowed.
Post(uds) ==
    LET p == Posted(cq, cring_tail, cring_head, IF backlog = <<>> THEN uds ELSE <<>>)
    IN  /\ cq' = p.ring /\ cring_tail' = p.tail
        /\ backlog' = IF backlog = <<>> THEN p.rest ELSE backlog \o uds

\* A link that is gone holds nobody back any more.
Unlinked(gone) == [r \in Req |-> IF pred[r] \in gone THEN NoLink ELSE pred[r]]

\* The first request of a chain succeeds.  A linked one posts no CQE
\* (IOSQE_CQE_SKIP_SUCCESS) and the next one starts.
Succeeds(c) ==
    /\ kernel' = (kernel \ {c}) \cup (IF Len(c) > 1 THEN {Tail(c)} ELSE {})
    /\ IF Head(c) \in Link
       THEN pred' = Unlinked({Head(c)}) /\ UNCHANGED <<cq, cring_tail, backlog>>
       ELSE Post(<<Head(c)>>) /\ UNCHANGED pred
    /\ UNCHANGED <<sq, sring_head, sring_tail, lcl_stail, cring_head, lcl_chead, queues, control,
                   memory, pend, cancelled, open, submitted>>

\* It fails: its CQE is posted and the rest of its chain is cancelled, with
\* or without a CQE each.
Fails(c) ==
    /\ Head(c) \in Link
    /\ kernel' = kernel \ {c}
    /\ pred' = Unlinked(Range(c))
    /\ \/ Post(c) /\ UNCHANGED cancelled
       \/ Post(<<Head(c)>>) /\ cancelled' = cancelled \cup (Range(Tail(c)) \cap Task)
    /\ UNCHANGED <<sq, sring_head, sring_tail, lcl_stail, cring_head, lcl_chead, queues, control,
                   memory, pend, open, submitted>>

----------------------------------------------------------------------------

Next ==
    \/ \E t \in Task : SubmitTask(t) \/ ETimeFails(t) \/ ESoon(t)
    \/ \E l \in Link : SubmitLink(l)
    \/ LoopStep
    \/ EnterError
    \/ \E k \in 1 .. SqEnts : EnterRejects(k)
    \/ \E c \in kernel : Succeeds(c) \/ Fails(c)

Spec == Init /\ [][Next]_vars

\* The application keeps calling lrun1 and its callbacks return; a timer
\* that has started expires.  Other requests need not complete.  (Without
\* Interrupts: signals are not fair.)
FairSpec ==
    /\ Spec
    /\ WF_vars(LoopStep)
    /\ \A t \in Timer : WF_vars(<<t>> \in kernel /\ Succeeds(<<t>>))

----------------------------------------------------------------------------
(* Properties *)

Slot == Req \cup {Stale}

TypeOK ==
    /\ sq \in [0 .. N - 1 -> Slot] /\ cq \in [0 .. M - 1 -> Slot]
    /\ {sring_head, sring_tail, lcl_stail, cring_head, cring_tail, lcl_chead}
           \subseteq 0 .. W - 1
    /\ sqofq.items \in Seq(Req) /\ sqofq.off \in 0 .. C - 1
    /\ soonque \in Seq(Task) /\ prepque \in Seq(Task)
    /\ pc \in {"app", "prep", "soon", "enter", "wait", "cq", "cqsoon", "cb"}
    /\ ret \in {"app", "prep", "soon", "cq", "cqsoon"}
    /\ todo \in Nat
    /\ \A c \in kernel : c \in Seq(Req) /\ c # <<>>
    /\ backlog \in Seq(Req)
    /\ wraps \in Nat /\ leaked \in 0 .. MaxLeak
    /\ pend \subseteq Task /\ cancelled \subseteq pend
    /\ pred \in [Req -> Link \cup {NoLink}] /\ open \in Link \cup {NoLink}
    /\ submitted \in BOOLEAN

Count(s, r) == Cardinality({k \in DOMAIN s : s[k] = r})

\* In how many places of the loop, the rings and the kernel r is.
Places(r) ==
    Count(SqHeld, r) + Count(sqofq.items, r) + Cardinality({c \in kernel : r \in Range(c)})
        + Count(CqHeld, r) + Count(backlog, r) + Count(soonque, r) + Count(prepque, r)

\* Through the SQ, the overflow queue, the kernel, the CQ and its backlog,
\* soonque and prepque, across counter wrap-around and callbacks that submit
\* again: a task handed to the loop is in exactly one of them until its
\* callback is called, and in none before or after, so it is called once.
ExactlyOnce ==
    \A t \in Task : Places(t) = IF t \in pend \ cancelled THEN 1 ELSE 0

\* Neither ring overruns: no more than N SQEs wait for the kernel and no more
\* than M completions for the loop, no slot of either is reused before it was
\* consumed, and the loop passes no CQE that was not posted.
RingsSound ==
    /\ SqEnts <= N /\ Dist(sring_head, sring_tail) <= SqEnts
    /\ Dist(cring_head, cring_tail) <= M
    /\ Dist(cring_head, lcl_chead) <= Dist(cring_head, cring_tail)
    /\ Stale \notin Range(SqHeld)
    /\ \A k \in DOMAIN CqHeld : CqHeld[k] = Stale => k = 1 /\ pc = "cb" /\ ret = "cq"

\* The comment "Assuming CQ non-empty, get the entry": each time the dispatch
\* loop reads a CQE there is one.
CqNonEmpty == pc = "cq" => lcl_chead # cring_tail

\* When io_uring_enter blocks and nothing is left that could wake it, no task
\* is waiting in a queue that only lrun1 itself empties.
NeverSleepsOnWork ==
    pc = "wait" /\ kernel = {} /\ cring_tail = cring_head =>
        /\ sqofq.items = <<>> /\ soonque = <<>> /\ prepque = <<>>
        /\ pend = cancelled

\* IEL_FLAG_REQLNK "links the current task with the next one": the kernel does
\* not start a request before the linked one ahead of it has completed.
LinkedAfter == \A c \in kernel : pred[Head(c)] = NoLink

\* The loop keeps the promise of Callbacks: a task is called only while it
\* waits, soon tasks in the order of esoon, and as IEL_FLAG_ESOON_NEXT "calls
\* the callback on next loop", the NEXT tasks queued before lrun1 was entered
\* ahead of anything else, and none that was queued since.
Promise == INSTANCE Callbacks WITH
               at <- IF pc \in {"app", "cb"} THEN pc ELSE "loop",
               waiting <- Task \cap Outstanding,
               soon <- soonque, next <- prepque,
               due <- IF "prep" \in {pc, ret} THEN todo ELSE 0,
               dropped <- cancelled

ImplementsCallbacks == Promise!CbSpec

\* A timer's wrapper lives exactly as long as its request is in the ring: it
\* is not freed early or twice, and only a failed submission or a silent
\* cancellation loses one.
WrappersOwned ==
    wraps = leaked + Cardinality({t \in Timer : t \in Outstanding})
                   + Cardinality(cancelled \cap Timer)

\* A soon task is called in the end, however often the callbacks queue more
\* of them, the same one included, and whatever the kernel does.
SoonRuns == \A t \in Task : t \in Range(soonque) ~> t \notin Range(soonque)

\* So is a NEXT task: the lrun1 after the one it was queued in calls it.
NextRuns == \A t \in Task : t \in Range(prepque) ~> t \notin Range(prepque)

\* From some time on lrun1 finds no task queued to run soon.
Quiet == <>[](pc = "enter" => ~Polls)

\* A posted completion is dispatched once no task is queued to run soon when
\* lrun1 enters the kernel.  (A task that queues itself in each lrun1 puts it
\* off for ever: the zero-timeout exit skips the dispatch.)
DispatchedWhenQuiet ==
    Quiet => \A t \in Task : t \in Range(CqHeld) ~> t \notin Range(CqHeld)

\* "etime: Execute after TIME": a timer handed to the loop is called, when no
\* soon task keeps the loop from waiting, whatever the other requests do.
TimerFires == Quiet => \A t \in Timer : t \in pend ~> t \notin pend
=============================================================================
