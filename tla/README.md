# Verification of iel

iel is an asynchronous I/O library in C with one backend, Linux io_uring
(`src/backends/iou.c`). This directory holds TLA+ modules that model its
stateful parts, TLC configurations that check them on small instances, and
TLAPS proofs. Paths below are relative to the repository.

## 1. The system

| component | state | operations | interacts with |
|---|---|---|---|
| chunked queue, `include/iel_priv/que.tpl.h` | `map`, `mapcap`, `chunk_s/e`, `os_s/e` | `init rsv1 pop1 pop_to size trim qtrim del` | instantiated as `iel_quep` (soonque, prepque) and `ielb_ioux_xsq` (SQ overflow) |
| soon execution, `ielb_ioux_exeq` | the queue it empties, the stop position it remembers | one run | calls user callbacks, which push to the same queue |
| event loop, `iou.c` 211-540 | `lcl_stail`, `lcl_chead`, the shared rings, `sqofq`, `soonque`, `prepque`, etime wrappers | the `fp*`, `f*`, `s*` calls, `etime`, `esoon`, `lrun1` | shares two rings with the kernel; calls user callbacks, which submit again |
| registered files, `iou.c` 107-209 and `bitmap.h` | `filetable`, `filetable_bitmap`, the kernel's copy | `xreg` (register, deregister, close) | callers keep the slot numbers |
| creation and destruction, `iou.c` 542-817 | everything above | `lnew`, `lnew_us`, `ldel` | kernel set-up calls, a helper thread |
| backend table, `vtsetup`, `xcntl`, `xfeat` | the table's `p_lnew` | fill the table, read constants | picks `lnew` or `lnew_us` by the process's seccomp mode |
| min-heap, `src/minheap.c` | array of entries | push, pop, grow | not used by the backend yet |
| tagged pointers, `src/tagptr.c`, `tp_tagh.tpl.h` | three words of the process: two functions and a shift | init, tag, untag, max | `user_data` of the callbacks; any thread may call `iel_init` |
| client program, `dev/be/iou.c` | objects, buffers and sockets that callbacks hand on | set-up and callbacks | uses all of the above |
| allocator, errno | a thread-local integer | wrappers | |

`PROJECT.json` lists the same components with their status.

What is hard here:

* **Callbacks that re-enter.** Every queue and ring is changed by callbacks while
  `exeq` or `lrun1` stands in the middle of it with positions read earlier.
* **Two rings shared with the kernel**, with wrapping counters published at one
  point of `lrun1` and advanced at others.
* **Limits.** A full SQ spills to a chunked queue that is flushed back by two block
  pops; a full CQ spills into the kernel; the map of a queue doubles.
* **Liveness.** `lrun1` decides between polling and blocking, and a wrong decision
  sleeps on queued work or never looks at the completions.
* **Failures** of allocation, of `io_uring_enter` and of registration, half-way
  through an operation.

* **What callbacks own.** A callback that keeps an operation going submits the next
  request, or calls the next callback itself when that fails, and must free each object
  on exactly one of those paths.

There are no threads in the loop itself (a loop belongs to one thread) and nothing
is persisted, so there is no crash recovery to model; the concurrent parties are the
loop, its callbacks and the kernel. The one place where threads interleave is
`iel_tp_init`, which several threads of a process may call.

The correctness of each component, and where it is stated:

* queue: a FIFO of elements (`ImplementsChunkFifo`), no chunk leaked or freed twice
  (`ChunksOwned`), no access outside the map (`InBounds`);
* exeq: calls exactly the batch it found (`BatchIsExact`), loses nothing
  (`TasksKept`);
* loop: every task is called once (`ExactlyOnce`), no ring overruns (`RingsSound`),
  the CQ is not read empty (`CqNonEmpty`), links are respected (`LinkedAfter`), NEXT
  means next and callbacks come in order (`ImplementsCallbacks`), wrappers are freed once (`WrappersOwned`), the loop
  never sleeps on work (`NeverSleepsOnWork`), soon tasks run and completions are
  dispatched (`SoonRuns`, `NextRuns`, `DispatchedWhenQuiet`), and a flush takes the
  longest run of requests that cuts no chain (`WalkIsUnlinkedPrefix`);
* files: every slot has one owner (`SlotsOwned`) and the kernel agrees
  (`KernelAgrees`), and slots behind the end of the table are the last to be handed out
  (`PastTheEndLast`);
* creation and destruction: whatever stage fails, nothing stays behind
  (`AllReleased`) and nothing is released that is not held (`ReleasedOnce`); a seccomp
  filter makes `lnew` fail and does not end the process (`SurvivesFilter`);
* tagged pointers: what was tagged untags to the same address and tag, in every state
  that several initialising threads leave the functions in (`RoundTrip`);
* client: every tag arrives (`TagsDelivered`), memory is held while it is needed
  (`MemoryHeld`) and no longer (`NoOrphans`), and so are sockets (`SocketsOwned`).

## 2. The modules

```
ChunkSeq      pure: a sequence of elements that knows where chunks end
  ChunkFifo   abstract machine: what a chunked queue promises
  IouLoop     the event loop (uses ChunkSeq for its overflow queue)
    MCIouLoop
    RingProofs     proofs: the two rings of IouLoop
      OnceProofs   proofs: its requests, chains and sleep, and its promise
Callbacks     abstract machine: what the loop promises its callers; IouLoop implements it
Loops         pure: a loop of the source as an expression
  LoopFacts   proofs: induction over its iterations
Que           the queue, pointer by pointer; implements ChunkFifo
  Exeq        exeq on a Que, with callbacks that push
  FlushScan   the two loops of a flush over the chunks of a Que: lrun1's walk and pop_to
    MCQue       instance of the three
    QueProofs   proofs: Que, that it implements ChunkFifo, and FlushScan
      ExeqProofs   proofs: Exeq
FileTable     xreg and the bitmap
  FileScan    the two loops by which xreg finds free slots
  Lifecycle   vtsetup, lnew, ldel, and the use of the file table between them
    MCLifecycle      instance of the three
    LifecycleProofs  proofs: the three
TagPtr        tagged pointers and their initialisation by several threads
  Client      the program dev/be/iou.c on the promise of the loop; checks both
    ClientProofs     proofs: the two
MinHeap       the binary heap
  MCMinHeap   its instances
  HeapProofs  proofs
```

### Loops

Where the source loops over data, the body of the loop is a function on the values of the
variables it changes, which it leaves as they are once the loop has ended, and `After(n,
body, s)` is what n iterations make of s. n is a number of iterations that suffices. The
theorems say, where this is not plain, that it does. The two sifts of the heap, the
walk of a flush, `pop_to` and the scan of `xreg` are such loops.

### Que, ChunkSeq, ChunkFifo

The six variables of `struct iel_que_st` appear by name. `map` is a function on the
indices of the *allocated* chunks, so a leak, a double free and an access to a freed
chunk are all visible as a wrong domain. `Rsv1` includes the caller's store through
the returned pointer. Both allocations of `rsv1` can fail: when the chunk cannot be
had after the map has grown, the map stays grown (`Rsv1NoChunk`). `Trim` may fail to
shrink. `PopTo` is the loop of `pop_to` in closed form; `PopToIsTheLoop` compares it
with the loop itself, `PopLoop` of `FlushScan`.

`ChunkFifo` is what the queue promises: a sequence, pushed at one end and popped at
the other, by one or by block. `pop_to` does not take just the block: it drops the
rest of the chunk in which the block ends. This is visible to the caller, so
`ChunkFifo` keeps, besides the items, the offset of the first one in its chunk, and
`TakeBlock` drops what the code drops. The refinement mapping is in `Que`
(`Fifo == INSTANCE ChunkFifo WITH ...`), checked as the property
`ImplementsChunkFifo`. `IouLoop` uses the same pure operators for `sqofq`, so what
the queue does to a flush is not idealised there.

### Exeq

Three program points (idle, about to pop, in a callback), the stop position read at
the start, and the result of the last `pop1`, which is read before the callback and
used after it. Callbacks push any number of elements, and pushes may fail. Between two
calls of `exeq` (`Idle`) the queue is used in every way `Que` has, so a batch starts at
any offset, in any chunk, of a map of any size.

### FlushScan

Before a flush `lrun1` walks back over the chunks of the overflow queue, from the last
request that could fit the SQ to one without a link flag (423-448), and computes the
count from the chunk and offset where it stopped. `Walk` is that walk (a loop of `WalkBody`
over positions, which are a chunk and an offset) on the variables of `Que`;
`WalkIsUnlinkedPrefix` says that it reads live chunks only and finds
`UnlinkedPrefix`, the operator by which `IouLoop` flushes. When every request that fits is
linked the code walks on in front of the queue; both are then 0, and `IouLoop` goes to a
`pc` that its `TypeOK` does not have. `PopLoop` is the other loop, the one of `pop_to`.

### IouLoop

| model | code |
|---|---|
| `sq`, `sring_head`, `sring_tail`, `lcl_stail` | SQE array and its counters; `sring_array` is the identity in every path (235, 471) and is left out |
| `cq`, `cring_head`, `cring_tail`, `lcl_chead` | CQE array and its counters |
| `sqofq` | the overflow queue, a `ChunkSeq` value |
| `soonque`, `prepque` | sequences, which `Que` and `Exeq` justify |
| `pc`, `ret`, `todo` | the stage of `lrun1`; where a callback returns to; what is left of the batch of `exeq` |
| `kernel`, `backlog` | link chains the kernel works on; completions the CQ has no room for (IORING_FEAT_NODROP) |
| `wraps`, `leaked` | etime wrappers allocated, and lost by failed submissions |
| `pend`, `cancelled`, `pred`, `open`, `submitted` | history |

Actions: `SubmitTask`, `SubmitLink`, `ETimeFails`, `ESoon` (calls of the application,
from outside the loop or from a callback); `LRun1`, `RunPrep`, `RunSoon`, `ExeqDone`,
`Enter`, `EnterError`, `EnterRejects`, `Wake`, `Dispatch`, `SkipNull`, `CbReturn` (`lrun1`, one step
for each stage and callback); `Succeeds`, `Fails` (kernel). `Wake` contains the whole flush and can
come at any time after the kernel posted a completion, or, with `Interrupts`, after a
signal. `EnterRejects(k)` is a kernel that refuses the k-th SQE as malformed or unknown:
it takes those before it, posts an error for it and leaves those behind it in the ring,
so the next `lrun1` starts from an SQ that is not empty.

`Callbacks` is the promise of the loop without rings, overflow or kernel: which callbacks
may come next, given what was submitted. `Promise` maps the loop's state to it (what is
anywhere in rings, overflow and kernel is *waiting*), and `ImplementsCallbacks` is the
refinement: no callback without a submission, soon tasks in order, NEXT tasks ahead of
everything in the next `lrun1` and never in the one they were queued in.

The many `fp*`, `f*` and `s*` calls differ only in the fields they fill in; they are
one action. A *Task* stands for a `user_data` value: the callback may be submitted
again once it was called, also by itself. A request with `IEL_FLAG_REQLNK` has a
NULL `user_data` and is a *Link* (an assumption on callers, below).

What callers are assumed to do, as named constants that runs switch off:

* `Split = FALSE`: a link chain is only started where its next member follows it into
  the same ring or queue. With `TRUE`, `loop_split` shows the chain cut.
* `Bursty = FALSE`: the overflow stays within the contiguous free slots that the first
  `pop_to` of the next flush fills. Beyond it the flush loses requests and resubmits
  stale SQEs, and one after a rejected SQE writes over those that were left: with
  `Bursty = TRUE` `ExactlyOnce` and `RingsSound` fail. No document promises otherwise, so this is listed under the hazards and not as a finding.
* With `IEL_FLAG_REQLNK` the caller passes a NULL `user_data`. `backends.h:223` says that
  the argument is ignored; `submit_to_sq` stores it (255), and a callback given there would
  be called when the request fails and never when it succeeds (524-527). The model has no
  run for this divergence.
* A callback does not call `lrun1`, and the next link of a chain is submitted
  before the loop is entered.

### FileTable

`filetable_bitmap` is the set of free slots; elements of the bitmap are blocks of
`Bits` slots. A table that ends within an element has bits without slots: a descriptor
that gets one is stored behind the table, where the kernel does not look (`stray`), and
`PastTheEndLast` says when that can happen. `Picks` and `Overrun` are the scan of `regfiles`
in closed form. `FileScan` has its two nested loops (`ScanClear` over the elements of the
bitmap, `RegLoop` over the descriptors), and `PickedIsTheLoop` compares the slots picked, the
bits cleared and whether the scan ran out of slots. Registration has three outcomes: registered
(`RegFiles`), out of slots and rolled back (`RegNoBufs`), refused by the kernel
(`RegRefused`); deregistration may be refused as well (`DeRegRefused`), which loses
the slot. When the kernel refuses a registration the code's roll-back starts one
entry behind the last one picked (line 153 with `i` at the count), at memory that may
hold any slot number: the model frees an arbitrary slot and sets `stray`, and
`SlotsOwned` and `KernelAgrees` are claims about executions without it. What the entry is
in the client program is part of `Client`.

The kernel follows the table entry by entry and may stop at any entry where there is
something to remove or to add (`StopsAt`, `UpdatedTo`). It returns a negative number only
when it has done none; otherwise it returns how many it has done. The code asks for a
negative number (143, 187), so an update that stopped at a later entry passes for success
(`Accepted`): the loop hands out handles that the kernel does not know, or frees a slot that
the kernel still fills. `behind` records the slots that the kernel has not followed; an
update that gets past them makes up for them. `KernelAgrees` says that nothing else differs,
but for slots that were lost. A short update is also one more way in which the `nr_args`
that `xreg` returns does not mean that all succeeded, beside the one `files_short` shows.

### Lifecycle

`Stages` are the steps of `ielb_ioux_lnew_base` that can fail, in order. `LNew` takes
them all (or, with `max_files = 0`, those without the table); `LNewFails(s)` takes those
before `s` and unwinds through the labels at the end of the function from the one that `s`
jumps to. `owned` is what is held; `misfreed` is what the last unwinding or `ldel` released
without holding it. `single` is IORING_FEAT_SINGLE_MMAP, with which the completion ring
has no mapping of its own. `ThreadFails` is the helper thread that `lnew` (and not
`lnew_us`) sets the ring up in: when a SIGSYS ends it or it cannot restore the handler,
`lnew` returns at once, and a ring it set up is lost. A call with `flags` set returns
before anything is changed and is left out.

`VtSetup` is the part of `vtsetup` that has an effect later: it picks `lnew_us` when the
process has no seccomp filter. `Sandbox` is the process that installs one, at any time. A
filter that traps `io_uring_setup` ends the helper thread of `lnew` (`ThreadFails`) and
the caller of `lnew_us` (`Trapped`); `SurvivesFilter` allows the latter only when the
filter came after `vtsetup`.

A context's memory may hold anything at first, and is used again after `ldel`:
`dangling` says which of the two table pointers point to something that is not allocated.
`ldel` frees both even when the loop has no table. `ReleasedOnce` names this as the one
exception; without it TLC finds `lnew` without a table and `ldel` in memory that was not
cleared, and also in memory that was, when an earlier `lnew` got as far as a table there.

### TagPtr

A word is the set of the numbers of its bits that are 1, out of `W`: OR is union, a mask is
an intersection, a shift adds to each number. Callers count tags, so a tag is a number and
`Bits` its word; an alignment is the number of low bits it leaves free.
`iel_tp_init` is three steps for each thread, which may call it any number of times.
`RoundTrips` is the table of all combinations of the three stored values for which every
pointer, alignment and tag comes back; `RoundTrip` says that the combination is one of
those as soon as one thread has returned from `iel_tp_init`. Sign extension is left out:
without `IEL_PF_MMLOWUSER` the file does not compile (lines 67 and 70).

### Client

`dev/be/iou.c` is the one user of the library in the repository. It is modelled on the
promise of the loop: `calls` counts the requests that name each callback, the loop calls
any of them with any result, and a submission may fail, upon which the program calls the
callback itself. `live`, `soonlive` and `net` are the allocated objects, the tagged soon
objects and the sockets; `wild` is set by a use or a free of what is not allocated. The
soon objects, to which `malloc` gives any address of `Addr` that is free and that the
processor has, travel through `soonque` as tagged pointers, while `Initialise` of another
thread may still be under way.

`echo.buf` is where the pointer of `struct tcpecho` points. `xreg` may find no file table,
or be refused by the kernel (`Registered`); the second ruins that pointer, since the
roll-back of a registration of one socket begins at the structure's next member
(`iou.c:152-157`, `dev/be/iou.c:148-149`): it takes the upper half of `buf` for a slot
number, clears that bit and slot far outside the arrays (against the assertion of
`bitmap.h:48`), and sets that half to -1. The program goes on with the pointer, passes it to
the kernel and frees it. That `xreg` runs out of slots does not happen here: `main` asks for
1024 and the program holds two at most. `net.table` is the loop's table; what the kernel
makes of it is `FileTable`'s.

Two things are exempt by name. `early`: four failures use memory that was freed or
overwritten for them (a failing `sc`, whose caller writes to the buffer afterwards, 283-286;
a failing `esoon` in `taskcb`, which frees an object that is queued with later tags, 136; the
same during the set-up, 346; a registration that the kernel refuses, 165 and 378). `broken`: after a failed or short write the copying stops without
freeing the reader (79-84). They are behaviours of an example program in which no document
promises anything.

### MinHeap

The array is a function on its indices. The two sifts are the code's loops over the array
and `cur`. `content` is history: how often each node was inserted and not popped. `iel_mh_sdn` swaps as long as the keys differ, where
a heap swaps only with a lesser child: `MinAtRoot` fails (run `heap_min`).
`OrderKept` says when the code does keep the order.

## 3. The runs

All bounds are constants of the .cfg files or guards named in the modules.

| run | asks | instance |
|---|---|---|
| `que` | Does any order of operations keep the queue a FIFO and its memory sound, does `exeq` call exactly its batch while callbacks push, and does the flush's walk end where it should? | 2 elements, chunks of 2, map of 1 growing to 4, blocks up to 5: growth, blocks that start and end inside chunks, chunk boundaries, failing allocations, restart and trim all occur; one element is a linked request, for a ring of 3 |
| `que_block` | Does a block pop take only what it returns? (violated) | as above |
| `loop` | All safety properties of the loop | 3 tasks, one of them a timer, 1 link, rings of 2, counters that wrap at 4, failing enters, rejected SQEs and one failing etime |
| `loop_live` | Do soon and NEXT tasks run, and are completions dispatched? | 3 tasks, rings of 1, counters that wrap at 2, rejected SQEs |
| `loop_split`, `loop_signal`, `loop_timer` | three statements of the documents and comments (violated) | the smallest instances that show them |
| `files` | Do `lnew` and `ldel` release everything once, and is the file table between them sound under failures? | 2 descriptors, 3 or 4 slots in 2 bitmap elements, up to 2 descriptors for each call (the scan by itself: 3), one refused registration for each loop, updates that stop at any entry; any number of loops after another with and without a table, failing at each of 13 stages; a seccomp filter of either kind at any time |
| `client` | Does the client keep its memory, sockets and tags right? | words of 7 bits, 3 and 2 top bits for tags, alignments that leave 0, 1 or 2 bits free, 3 addresses, 2 threads, 5 soon tasks: each of the three tag functions, objects with one tag and with all |
| `heap` | Does the heap keep its nodes, and when its order? | 3 keys, 2 values, an array of 3 that grows to 6: every shape of a tree of depth 2 |
| `heap_min` | Is the root the least node? (violated) | 4 keys, up to 8 nodes |
| `files_short` | Does `nr_args` mean that all succeeded? (violated) | 2 descriptors, 2 slots in 1 element |

Why these bounds are enough: the queue's code depends on positions only through the
offset in a chunk, whether two positions are in the same chunk, and the distance to
the capacity; chunks of two entries and maps of up to four chunks reach each
combination, and the proofs of section 5 remove the bounds for the invariants. In
the loop, with N = M = 2 and three tasks and a link there can be SQ overflow of two
entries, a link chain within it, a backlog in the kernel, and counters at every
phase of their wrap; `N = M = 1` in `loop_live` makes every submission after the
first overflow. That these cases do occur was checked by asking TLC for each as a
violated invariant.

Deadlock checking is off in the loop runs: an application may stop submitting, and
then `lrun1` blocks for ever, which is right. It is off in `files` and `files_short`,
where SIGSYS may end the process.

Fairness (`FairSpec`): weak fairness of the loop's own steps taken together - an
application that keeps calling `lrun1`, whose callbacks return - and of the expiry of
a timer that the kernel has. Other requests need not complete (a socket may never
become readable), callbacks need not submit, and nothing is assumed about when the
kernel posts. A callback may queue tasks for ever: `CbReturn` is then still enabled
and must be taken.

### Findings

Six statements found in the sources are not what the code does; each is a run
that TLC refutes, and `PROJECT.json` quotes the line.

1. `que_block`: `pop_to` advances by the chunk's span and not by the block.
2. `loop_split`: a chain that straddles the end of the SQ is cut in two.
3. `loop_signal`: after a signal the dispatch loop may read an empty CQ.
4. `loop_timer`: a timer in the overflow queue waits for an unrelated completion.
5. `files_short`: `xreg` reports full success for a partial registration.
6. `heap_min`: sift-down swaps with a greater child, so the heap loses its order: after
   inserting 1, 2, 1 and one pop, 2 is above 1.

Not a finding, as no document promises otherwise, but worth knowing: the zero-timeout
exit of `lrun1` (416) starves posted completions as long as some callback keeps queueing
itself. `DispatchedWhenQuiet` states what holds, and its premise `Quiet` is needed.

`CqNonEmpty` is a property of two runs: it holds when no signal interrupts the wait
(`loop`) and fails when one may (`loop_signal`).

## 4. Mutants

For each property of a passing run `PROJECT.json` names a mutant: a definition that
models code, and a variant of it written just before it (`Mutant of ...`) with the
kind of mistake that could have been made there. Each property fails under its mutant.

## 5. Proofs

All theorems hold for every value of the constants that the named assumptions allow
(`QueAssumption`, `FlushAssumption`, `LoopAssumption`, `FileTableAssumption`,
`TagPtrAssumption`, `ClientAssumption`, `MinHeapAssumption`); TLC evaluates these
assumptions in every run. Each proof has one lemma for each action; the temporal step is
PTL. TLC checks the same properties on the instances of section 3.

**Loops** (`LoopFacts`). The library's induction theorems take a predicate as a parameter,
which the provers cannot instantiate. Here induction is about a *set* of numbers that has 0
and the successor of each member (`Induction`), from the theorem that `<` is well-founded on
Nat. From it: `AfterStep` (`After` does what its recursive function says, which needs that
such a function exists: `RunExists`, `RunUnique`), `AfterInvariant` (a set that no iteration
leaves) and `LoopEnds` (when each iteration lowers a measure or changes nothing, the loop has
ended after as many iterations as the measure says).

**The queue** (`QueProofs`)

* `QueTypeOK`, `ChunksAreOwned`, `MapStaysInBounds`: `TypeOK`, `ChunksOwned`, `InBounds`.
  They follow from `QueInvariant`, `Spec => []IInv`, where `IInv` is the conjunction of
  the three. None is inductive by itself: that `pop1` reads and frees an allocated chunk
  needs `ChunksOwned` and the order of the two ends in `InBounds`; that `rsv1` fills a
  claimed chunk within the map needs `InBounds`; that the freed chunks are the claimed
  ones needs the types. Under the lemmas for the actions lies one that element k of the
  queue is in an allocated chunk (`ChunkOf`, from `DivChunk` and `DivBound`).
* `QueIsAFifo`: `Spec => ImplementsChunkFifo`. A lemma for each operation says what becomes of the sequence that the chunks hold (`Rsv1Items`, `Pop1Items`,
  `PopToItems`, `TrimItems`); each action of `Que` is then an action of `ChunkFifo` or a
  stutter. `PopToItems` needs that a block that ends in chunk d leaves the queue at a
  chunk boundary or empty, in terms of the room left in the first chunk (`Room`, `Gone`).
* `FlushFindsPrefix`: `Spec => []WalkIsUnlinkedPrefix`. The invariant of the walk says that
  all requests between the position it has reached and the one it started at are linked
  (`WalkStep`). One entry back from the position of element k is that of element k - 1, also
  across chunks (`BackOne`); the measure is the number of elements up to the position.
* `BlockPopLoops`: `Spec => PopToIsTheLoop`. The invariant says how much of the block is
  copied and that each chunk after the first is entered at its start (`PopStep`); the measure
  counts the chunks that are left.

**exeq** (`ExeqProofs`)

* `ExeqKeepsTasks` and `ExeqBatchIsExact`, from `ExeqInvariant`. Its invariant says that
  while a batch runs the stop position lies ahead of the front by as many elements as are
  still due, also after the map was moved or the first chunk freed, and that the queue's
  content is what is due followed by what the callbacks pushed.
* `ExeqTypes`, with `Stored`: a queue in use holds elements and never what a fresh chunk holds.
* `ExeqUsesQue`: `ExeqSpec => Spec`, so what is proved of `Que` holds while `exeq` runs.

**The rings** (`RingProofs`), for rings and counters of every size, link chains, failing
enters and refused SQEs, assuming `~Interrupts` and `~Bursty`:

* `RingsAreSound` and `CqIsNotReadEmpty`, from `RingInvariant`. `RInv` says that what lies
  between head and tail of either ring is a request (for the CQ: except the one whose
  callback runs), that the distances of the three counters of each ring add up, that the
  overflow fits behind the tail without wrapping and the SQ is empty when a flush comes
  (`FlushFits`), and that where the loop dispatches it stands on a CQE (`Dispatches`). The
  two assumptions are needed: without the first TLC finds `CqNonEmpty` violated
  (`loop_signal`), without the second `RingsSound`. The wrap of the counters enters by
  `SlotWraps` (the ring's size divides W, which `LoopAssumption` states of `unsigned` and
  powers of two), the reuse of slots by `SlotsDiffer`.

**The requests** (`OnceProofs`), for any number of tasks, links and timers, under the same
two assumptions; `LinksAreKept` and `LoopSleepsOnNothing` also assume `~Split`:

* `OnePlaceEach` and `LoopKeepsPromise` (`ExactlyOnce`, the refinement of `Callbacks`), from
  `OnceInvariant`. `Places` counts over seven places. The invariant states the same
  without counting: the SQ, the overflow, the chains in the kernel, and the CQ with its backlog repeat nothing
  and share nothing (`RingsApart`), the tasks among them and those of `soonque` and
  `prepque` are apart and together the outstanding ones (`Placed`). Each step moves a
  request from one to another. Two more parts are needed. `Control`: what is left of
  an `exeq` batch is no more than the queue holds, so that `pop1` finds a task. `Links`: a
  link can be last in the overflow only while the chain is open and the SQ full, so the
  walk of a flush ends at a request that is not linked. `RInv` is the third: without
  `FlushFits` a flush would lose requests.
* `WrappersAreOwned`, by the same steps (`WrapInv`), with the finite cardinalities that the
  definition needs; `LoopTypes`.
* `LinksAreKept`, from `ChainInvariant`: in each place a request is behind its link,
  and no place ends in a link but where the open chain is (the overflow if the SQ is
  full, else the SQ). The kernel takes what is in the SQ only where no chain is open.
* `LoopSleepsOnNothing`, from `SleepInv`: while `lrun1` waits the soon queues are
  empty, the kernel holds completions back only when the CQ is full, an SQE that it left
  means a CQE that is posted, and an overflow beside an SQ with room means that there is
  something to wake up for.

**Files and lifecycle** (`LifecycleProofs`), for every table length,
size of a bitmap element and set of descriptors:

* `SlotsAreOwned`, `KernelsTableAgrees`, `PastTheEndComesLast`, from `TInv` of the table
  (types, the two properties and `HandlesInTable`) carried through all lives of the loop by
  `LInv`: between `ldel` and `lnew` there is no table and no handle (`NoTable`).
  `AcceptedFollows` and `RefusedKeeps` say what an update that stops at entry k leaves
  different: what was, what changed, and k.
* `EverythingIsReleased`, `NothingIsReleasedTwice` and `LifeTypes`, from `HoldInvariant`:
  what is held is exactly what the stages that were taken acquire. The step is
  `LabelUndoes`, which goes through the 13 stages and their labels.
* `FilterIsSurvived`, from `FilterKnown`: `lnew_us` meets a trapping filter only if that
  came late.

* `ScansPick`: `LifeSpec => []PickedIsTheLoop`. `ScanFinds` is about the inner loop: it
  finds the lowest bit of the elements from `it` on, and leaves `it` behind that bit's
  element. The invariant of the outer one, `PickedSoFar`, says that the slots picked are the
  lowest bits of all elements before `it`, in order, and that the bits cleared are these;
  hence they are a sequence that `Picks` allows (`LoopPicks`), and there is only one
  (`PicksUnique`).

**The heap** (`HeapProofs`), for all keys, values and sizes

* `HeapTypes` and `HeapKeepsNodes`, from `HeapInv`: an iteration of a sift swaps two nodes,
  and a swap keeps the number of places in which a node stands (`SwapPlaces`).
* `HeapKeepsOrder`: `OrderKept`. Between two iterations of sift-up only the node at `cur` may
  be less than its parent (`UpState`). In sift-down, which also swaps with a *greater*
  child, the order survives when the node that goes down has the greatest key; the
  invariant is that then only the children of `cur` may be less than it (`DownState`).

**Tags and the client** (`ClientProofs`), for words of every width, all alignments, tag
lengths and addresses, any number of threads and of soon tasks

* `TagsRoundTrip`. `TagThenUntag` is the arithmetic of the masks and shifts, on sets of bit
  numbers. That a tag below `iel_tp_max` fits into the free bits is `BitsBelow`; that two
  tags have different words is `BitsInjective`; both are inductions over the halving of a
  number. `TpInv` says what a thread finds while others are within `iel_tp_init`: they all
  store the same.
* `TasksKeepTheirTags`, from `TagInv`: the queue holds the tagged pointers of what was sent.
* `ClientHoldsMemory` and `ClientLosesNothing`, from `MemInv`, `BufInv` and `SoonInv`.
  `MemInv`: each of the three chains of callbacks has at most one request outstanding, and
  allocated is what it needs. `BufInv`: until one of the four failures, the echo's pointer is
  its buffer's, and the buffer is not allocated without the echo. `SoonInv` is about the soon objects. `LastFrees`: a task with `FreeTag` is the
  last of its object and no second one of it can queue another. This holds because the tags
  handed out while `amain_s` fills the queue stay below `NSoon`, which `FreeTag` is not
  (`FillingSoon`). `WillBeFreed`: each object has a task that frees it or will queue the one
  that does; when a tag as great as `AgainTag` fits beside an object, one object takes all
  tasks and its tags reach `AgainTag`.
* `ClientOwnsSockets`, from `NetInv`; `ClientTypes`.

`ClientAssumption` states what the program's constants satisfy: 0x33 < 66 <= 0x81, and both
of the two tags fit beside an object, or neither. `TagPtrAssumption` says that the tag bits
leave an address at least one bit beside those of its alignment.

Every safety property of every passing run, and both refinements, are thus proved, those of
`IouLoop` under the assumptions that the run `loop` gives its constants. Only model-checked
are the three liveness properties of `loop_live` (`SoonRuns`, `NextRuns`,
`DispatchedWhenQuiet`): liveness under fairness, and ENABLED, are outside what TLAPS does
here. The six violated statements are counterexamples and need no proof.

## 6. Not modelled

* The fields of an SQE other than its link flag and `user_data`; results of requests.
* Flag and argument checks that return before any state changes; debug printing,
  including the loop at 382 that prints the SQ.
* `lrun1` called from a callback.
* `ldel` while requests or tasks are queued: it drops them, and no document says what
  becomes of them.
* The growth of a queue's map without bound when it never runs empty.
* `xcntl`, `xfeat`, the allocator, errno and the test programs of `dev/` other than
  `be/iou.c` (reasons in `PROJECT.json`); the AArch64 half of `tagptr.c`, which is compiled out.

## 7. Plan

1. Done: `Que` with its abstract specification and invariants proved, `Exeq` and
   `FlushScan` on it, `IouLoop` with `Callbacks`, `FileTable`, `Lifecycle`, `MinHeap`,
   `TagPtr` and `Client`.
2. Done: proofs of all safety properties, of the two refinements, and that the closed forms
   of `pop_to`, the flush's walk and the scan of `xreg` are what the source's loops do.
3. Left: callers that overflow the SQ by more than one `pop_to` (`Bursty`), once the flush is
   mended.
