------------------------------- MODULE Client -------------------------------
(***************************************************************************)
(* The program of src/dev/be/iou.c, the library's own example of callbacks *)
(* that keep an operation going: it copies its input to its output, echoes *)
(* one TCP connection, waits for a timer and runs tagged soon tasks ('s'), *)
(* or connects, sends and verifies the echo ('c').                         *)
(*                                                                         *)
(* A request is named by its callback.  The loop calls it in any order and *)
(* with any result; a submission may also return NULL, and then the        *)
(* program calls the callback itself, with an error.                       *)
(***************************************************************************)
EXTENDS TagPtr, Sequences

CONSTANTS
    Main,       \* the program's thread
    Al,         \* IEL_CB_ALIGN
    Addr,       \* what malloc may return for a soon object
    NSoon,      \* soon tasks queued at first (66)
    AgainTag,   \* the tag of the task that queues another (0x33) ...
    FreeTag     \* ... with the tag of the one that frees the object (0x81)

ASSUME ClientAssumption ==
    /\ Main \in Thread /\ Al \in Aligns
    /\ Addr \subseteq Word \ {{}} /\ \A obj \in Addr : Aligned(obj, Al)
    /\ {NSoon, AgainTag, FreeTag} \subseteq Nat
    /\ AgainTag < NSoon /\ NSoon <= FreeTag
    \* the two tags fit beside the object, or neither does
    /\ FreeTag < Pow2(Al + LA57_TAGH)
    /\ AgainTag < Pow2(Al) => FreeTag < Pow2(Al)

VARIABLES
    phase,      \* where main is
    stop,       \* loop.stop
    filling,    \* amain_s, its loop: the object, the next tag, the tasks so far
    calls,      \* how many requests name each callback
    soonque,    \* tagged pointers
    live,       \* allocated memory, but for the soon objects
    soonlive,   \* the soon objects that are allocated
    net,        \* sockets: open, in the file table, not deregistered by the kernel
    echo,       \* rstate, sock.raw, whether sock.reg is valid, where buf points
    \* history: what was queued; memory that was not allocated was used; a call
    \* failed and what is still in use was freed or overwritten for it; the
    \* output failed
    sent, wild, early, broken

clientVars == <<phase, stop, filling, calls, soonque, live, soonlive, net, echo,
                sent, wild, early, broken>>
vars == <<tpVars, clientVars>>

Callback == {"onread", "onwrite", "ontimer", "echo_read", "echo_write",
             "dowrite", "doread", "vfy"}

\* What a request needs: the object its callback is in and the buffer.
Mem(cb) ==
    CASE cb = "onread" -> {"rd", "rdbuf"}
      [] cb = "onwrite" -> {"wr", "rd", "rdbuf"}
      [] cb = "ontimer" -> {"timer"}
      [] cb \in {"echo_read", "echo_write"} -> {"echo", "echobuf"}
      [] cb \in {"dowrite", "doread", "vfy"} -> {"conn", "connbuf"}

\* buf: "echobuf", or "nowhere" once the pointer is overwritten.
NoEcho == [rstate |-> "A", raw |-> "none", reg |-> FALSE, buf |-> "echobuf"]

ClientInit ==
    /\ TpInit
    /\ phase = "main" /\ stop = FALSE
    /\ filling = [obj |-> {}, tag |-> 0, i |-> 0]
    /\ calls = [cb \in Callback |-> 0] /\ soonque = <<>>
    /\ live = {} /\ soonlive = {}
    /\ net = [open |-> {}, table |-> {}, stuck |-> {}]
    /\ echo = NoEcho
    /\ sent = <<>> /\ wild = FALSE /\ early = FALSE /\ broken = FALSE

----------------------------------------------------------------------------

\* The callbacks in done were called, the requests in next were submitted.
Calls(done, next) ==
    calls' = [cb \in Callback |-> calls[cb] - (IF cb \in done THEN 1 ELSE 0)
                                            + (IF cb \in next THEN 1 ELSE 0)]

\* What is in new is allocated, what is in used is used, what is in old freed.
Memory(new, used, old) ==
    /\ live' = (live \cup new) \ old
    /\ wild' = (wild \/ ~(used \cup old \subseteq live \cup new))

\* The sockets once s is taken out of the table, when it has a handle, and
\* closed.  A kernel that does not take it out leaves it open (iou.c:189).
Closed(n, s, reg) ==
    {[n EXCEPT !.open = @ \ {s}, !.table = @ \ {s}]}
        \cup (IF reg THEN {[n EXCEPT !.stuck = @ \cup {s}]} ELSE {})

\* The sockets once s was opened and xreg was called for it: .table is the
\* loop's own (FileTable relates it to the kernel's).  A slot is always free:
\* main asks lnew for 1024 and the program holds at most two.
Opened(n, s, reg) ==
    [n EXCEPT !.open = @ \cup {s}, !.table = IF reg THEN @ \cup {s} ELSE @]

----------------------------------------------------------------------------
(* Input to output: onread_comp and onwrite_comp *)

\* The end of onread_comp: the input has ended or failed, or malloc has.
ReadEnds(done, old) ==
    /\ Calls(done, {})
    /\ Memory({}, Mem("onread"), {"rd", "rdbuf"} \cup old)
    /\ stop' = TRUE
    /\ UNCHANGED broken

OnRead ==
    /\ phase = "loop"
    /\ calls["onread"] > 0
    /\ \/ ReadEnds({"onread"}, {})
       \/ /\ Calls({"onread"}, {"onwrite"}) /\ Memory({"wr"}, Mem("onwrite"), {})
          /\ UNCHANGED <<stop, broken>>
       \/ /\ Calls({"onread"}, {}) /\ Memory({"wr"}, Mem("onwrite"), {"wr"})
          /\ broken' = TRUE
          /\ UNCHANGED stop
    /\ UNCHANGED <<tpVars, phase, filling, soonque, soonlive, net, echo, sent, early>>

\* Mutant of Written: the object is freed on the error path only.
WrittenKept == {}

\* What onwrite_comp frees when it goes on.
Written == {"wr"}

OnWrite ==
    /\ phase = "loop"
    /\ calls["onwrite"] > 0
    /\ \/ /\ Calls({"onwrite"}, {"onread"}) /\ Memory({}, Mem("onwrite"), Written)
          /\ UNCHANGED <<stop, broken>>
       \/ ReadEnds({"onwrite"}, Written)
       \/ /\ Calls({"onwrite"}, {}) /\ Memory({}, {"wr"}, {"wr"})
          /\ broken' = TRUE
          /\ UNCHANGED stop
    /\ UNCHANGED <<tpVars, phase, filling, soonque, soonlive, net, echo, sent, early>>

OnTimer ==
    /\ phase = "loop"
    /\ calls["ontimer"] > 0
    /\ Calls({"ontimer"}, {}) /\ Memory({}, {"timer"}, {"timer"})
    /\ UNCHANGED <<tpVars, phase, stop, filling, soonque, soonlive, net, echo, sent, early, broken>>

----------------------------------------------------------------------------
(* Tagged soon tasks *)

\* Mutant of TagMax: the last tag is one too great.
TagMaxOver == MaxTag(Al, maxtag_shl) + 1

TagMax == MaxTag(Al, maxtag_shl)

\* esoon of the object with a tag.
Queue(q, s, obj, tag) ==
    /\ soonque' = Append(q, Tag(tp_v, obj, Bits(tag)))
    /\ sent' = Append(s, [tag |-> Bits(tag), ptr |-> obj])

\* Mutant of NextTag: the object is freed by a task that is queued already.
NextTagSoon == AgainTag + 1

NextTag == FreeTag

\* taskcb, when q and s are left of the queue; failed: because esoon did.
TaskCb(tagged, q, s, failed) ==
    LET ut == Untag(utp_v, tagged, Al)
        again == ut.tag = Bits(AgainTag)
        free == ut.tag = Bits(NextTag)
    IN  /\ wild' = (wild \/ ut.ptr \notin soonlive)
        /\ \/ /\ again
              /\ Queue(q, s, ut.ptr, NextTag)
              /\ UNCHANGED soonlive
           \/ /\ again \/ free
              /\ soonlive' = soonlive \ {ut.ptr}
              /\ soonque' = q /\ sent' = s
           \/ /\ ~again /\ ~free
              /\ UNCHANGED soonlive
              /\ soonque' = q /\ sent' = s
        /\ early' = (early \/ (again /\ (failed \/ soonlive' # soonlive)))

RunSoon ==
    /\ phase = "loop"
    /\ soonque # <<>>
    /\ TaskCb(Head(soonque), Tail(soonque), Tail(sent), FALSE)
    /\ UNCHANGED <<tpVars, phase, stop, filling, calls, live, net, echo, broken>>

\* amain_s allocates the next object, or stops filling the queue.
SoonAlloc ==
    /\ phase = "soon" /\ filling.obj = {}
    /\ \/ phase' = "timer" /\ UNCHANGED <<filling, soonlive>>
       \/ \E obj \in (Addr \cap UserPtr(Picked)) \ soonlive :
             /\ filling' = [filling EXCEPT !.obj = obj, !.tag = 0]
             /\ soonlive' = soonlive \cup {obj}
             /\ UNCHANGED phase
    /\ UNCHANGED <<tpVars, stop, calls, soonque, live, net, echo, sent, wild, early, broken>>

\* Mutant of Filled: one task too many.
FilledLate == filling.i + 1 > NSoon

Filled == filling.i + 1 >= NSoon

\* It queues the object with one tag more; when esoon fails it calls taskcb.
SoonFill ==
    /\ phase = "soon" /\ filling.obj # {}
    /\ \/ /\ Queue(soonque, sent, filling.obj, filling.tag)
          /\ UNCHANGED <<soonlive, wild, early>>
       \/ TaskCb(Tag(tp_v, filling.obj, Bits(filling.tag)), soonque, sent, TRUE)
    /\ filling' = [obj |-> IF filling.tag + 1 < TagMax THEN filling.obj ELSE {},
                   tag |-> filling.tag + 1, i |-> filling.i + 1]
    /\ phase' = IF Filled THEN "timer" ELSE "soon"
    /\ UNCHANGED <<tpVars, stop, calls, live, net, echo, broken>>

----------------------------------------------------------------------------
(* The echo: tcpecho_read (accept, then send) and tcpecho_write (receive) *)

\* pcb once xreg was called for its new socket s: with a handle; with none, as
\* there is no file table; or refused by the kernel, when the roll-back begins
\* at out[1].reg (iou.c:138, 152-157), the upper half of pcb->buf: it resets
\* the slot of that number, outside the table, and sets that half to -1.
Registered(st, s, buf, r, refused) ==
    [rstate |-> st, raw |-> s, reg |-> r /\ ~refused,
     buf |-> IF refused THEN "nowhere" ELSE buf]

\* What the two callbacks pass to the loop and free: pcb and pcb->buf.  Nothing
\* is allocated where an overwritten pointer points.
PcbMem(e) == {"echo", e.buf}

\* Either callback with an error, when the sockets are n and echo is e.  (new:
\* what was allocated just before.)
EchoEnds(n, done, new, e) ==
    /\ Calls(done, {})
    /\ Memory(new, {}, PcbMem(e))
    /\ net' \in Closed(n, e.raw, e.reg)
    /\ echo' = NoEcho

\* The next request of the echo is submitted, or cannot be.
EchoGoesOn(n, done, next, new, e) ==
    \/ /\ Calls(done, {next})
       /\ Memory(new, PcbMem(e), {})
       /\ net' = n /\ echo' = e
    \/ EchoEnds(n, done, new, e)

\* Mutant of Replaced: sock.raw is overwritten before the old one is closed.
ReplacedLate == "peer"

\* The socket deregistered and closed once a connection is accepted.
Replaced == echo.raw

EchoAccepted ==
    /\ phase = "loop"
    /\ calls["echo_read"] > 0 /\ echo.rstate = "A"
    /\ \E n \in Closed(net, Replaced, echo.reg), r, refused \in BOOLEAN :
           LET e == Registered("W", "peer", echo.buf, r, refused)
           IN  /\ EchoGoesOn(Opened(n, "peer", e.reg), {"echo_read"}, "echo_write", {}, e)
               /\ early' = (early \/ refused)
    /\ UNCHANGED <<tpVars, phase, stop, filling, soonque, soonlive, sent, broken>>

EchoSent ==
    /\ phase = "loop"
    /\ calls["echo_read"] > 0 /\ echo.rstate = "W"
    /\ EchoGoesOn(net, {"echo_read"}, "echo_write", {}, echo)
    /\ UNCHANGED <<tpVars, phase, stop, filling, soonque, soonlive, sent, early, broken>>

EchoReceived ==
    /\ phase = "loop"
    /\ calls["echo_write"] > 0
    /\ EchoGoesOn(net, {"echo_write"}, "echo_read", {}, echo)
    /\ UNCHANGED <<tpVars, phase, stop, filling, soonque, soonlive, sent, early, broken>>

EchoFails ==
    /\ phase = "loop"
    /\ \E cb \in {"echo_read", "echo_write"} :
           calls[cb] > 0 /\ EchoEnds(net, {cb}, {}, echo)
    /\ UNCHANGED <<tpVars, phase, stop, filling, soonque, soonlive, sent, early, broken>>

----------------------------------------------------------------------------
(* The other side: onconnect_dowrite, onconnect_doread, onconnect_vfy *)

\* An error, or the echo was verified: everything is given back.
ConnEnds(done) ==
    /\ Calls(done, {})
    /\ Memory({}, Mem("vfy"), {"conn", "connbuf"})
    /\ net' \in Closed(net, "conn", FALSE)
    /\ stop' = TRUE

OnConnect(cb, next) ==
    /\ phase = "loop"
    /\ calls[cb] > 0
    /\ \/ ConnEnds({cb})
       \/ Calls({cb}, next) /\ next # {} /\ Memory({}, Mem(cb), {}) /\ UNCHANGED <<net, stop>>
    /\ UNCHANGED <<tpVars, phase, filling, soonque, soonlive, echo, sent, early, broken>>

----------------------------------------------------------------------------
(* main and its parts amain_s and amain_c *)

Start ==
    /\ phase = "main" /\ at[Main] = "ready"
    /\ phase' \in {"read", "connect"}
    /\ UNCHANGED <<tpVars, stop, filling, calls, soonque, live, soonlive, net, echo, sent, wild,
                   early, broken>>

\* amain_s: the first read, then the timer's memory.  A read that cannot be
\* submitted ends the copying and the loop, not amain_s.
AmainRead ==
    /\ phase = "read"
    /\ \/ phase' = "out" /\ UNCHANGED <<calls, live, stop>>
       \/ \E submitted, timer \in BOOLEAN :
             /\ phase' = IF timer THEN "soon" ELSE "out"
             /\ live' = (IF submitted THEN Mem("onread") ELSE {})
                            \cup (IF timer THEN {"timer"} ELSE {})
             /\ Calls({}, IF submitted THEN {"onread"} ELSE {})
             /\ stop' = ~submitted
    /\ UNCHANGED <<tpVars, filling, soonque, soonlive, net, echo, sent, wild, early, broken>>

AmainTimer ==
    /\ phase = "timer" /\ phase' = "serve"
    /\ \/ Calls({}, {"ontimer"}) /\ Memory({}, {"timer"}, {})
       \/ Memory({}, {"timer"}, {"timer"}) /\ UNCHANGED calls
    /\ UNCHANGED <<tpVars, stop, filling, soonque, soonlive, net, echo, sent, early, broken>>

AmainServe ==
    /\ phase = "serve"
    /\ \/ phase' = "out" /\ UNCHANGED <<calls, live, wild, net, echo, early>>
       \/ \E r, refused \in BOOLEAN :
             LET e == Registered("A", "listen", "echobuf", r, refused)
             IN  /\ EchoGoesOn(Opened(net, "listen", e.reg), {}, "echo_read",
                               Mem("echo_read"), e)
                 /\ phase' = "loop"
                 /\ early' = (early \/ refused)
    /\ UNCHANGED <<tpVars, stop, filling, soonque, soonlive, sent, broken>>

\* amain_c writes to the buffer after the call that may have freed it.
AmainConnect ==
    /\ phase = "connect"
    /\ \/ phase' = "out" /\ UNCHANGED <<calls, live, stop, wild, net, early>>
       \/ /\ phase' = "loop"
          /\ Calls({}, {"dowrite"}) /\ Memory(Mem("dowrite"), {}, {})
          /\ net' = Opened(net, "conn", FALSE)
          /\ UNCHANGED <<stop, early>>
       \/ phase' = "loop" /\ stop' = TRUE /\ wild' = TRUE /\ early' = TRUE
          /\ UNCHANGED <<calls, live, net>>
    /\ UNCHANGED <<tpVars, filling, soonque, soonlive, echo, sent, broken>>

\* The callbacks that lrun1 calls.
Called ==
    \/ OnRead \/ OnWrite \/ OnTimer \/ RunSoon
    \/ EchoAccepted \/ EchoSent \/ EchoReceived \/ EchoFails
    \/ OnConnect("dowrite", {"doread"}) \/ OnConnect("doread", {"vfy"}) \/ OnConnect("vfy", {})

\* main leaves its loop when stop is set and lrun1 has returned, or when lrun1
\* failed; what is still in the loop's hands then is dropped by ldel.
Leave ==
    /\ phase = "loop" /\ phase' = "out"
    /\ UNCHANGED <<tpVars, stop, filling, calls, soonque, live, soonlive, net, echo, sent, wild,
                   early, broken>>

ClientNext ==
    \/ \E t \in Thread : (t = Main => phase = "main") /\ Initialise(t) /\ UNCHANGED clientVars
    \/ Start \/ AmainRead \/ SoonAlloc \/ SoonFill \/ AmainTimer \/ AmainServe \/ AmainConnect
    \/ Called \/ Leave

ClientSpec == ClientInit /\ [][ClientNext]_vars

----------------------------------------------------------------------------
(* Properties *)

ClientTypeOK ==
    /\ phase \in {"main", "read", "soon", "timer", "serve", "connect", "loop", "out"}
    /\ {stop, wild, early, broken} \subseteq BOOLEAN
    /\ calls \in [Callback -> Nat]
    /\ soonque \in Seq(Word) /\ Len(sent) = Len(soonque)
    /\ filling.i \in 0 .. NSoon /\ soonlive \subseteq UserPtr(Picked)
    /\ net.table \subseteq net.open \cup net.stuck /\ net.stuck \subseteq net.open

\* A soon task is called with the object and the tag it was queued with, in
\* the order it was queued, while other threads call iel_tp_init.
TagsDelivered ==
    \A k \in DOMAIN soonque : Untag(utp_v, soonque[k], Al) = sent[k]

InUse == UNION {Mem(cb) : cb \in {c \in Callback : calls[c] > 0}}

\* What the loop will call and what the kernel reads or writes is allocated,
\* no buffer is in two requests, and no callback uses or frees memory that is
\* not allocated.  Four failures are exempt, and early records them: esoon of
\* the task tagged AgainTag or of the one it queues, the first request of
\* amain_c, and a registration the kernel refuses.  Every other call may fail.
MemoryHeld ==
    ~early =>
        /\ ~wild
        /\ InUse \subseteq live
        /\ \A k \in DOMAIN sent : sent[k].ptr \in soonlive
        /\ \A a, b \in Callback :
               calls[a] > 0 /\ calls[b] > 0 /\ Mem(a) \cap Mem(b) # {} => a = b /\ calls[a] = 1

\* While the loop runs and none of those four has failed, memory that no request
\* and no soon task leads to has been freed: only a failed output leaves the reader behind, and tags that
\* are too short for FreeTag leave the soon objects.
NoOrphans ==
    phase = "loop" /\ ~early =>
        /\ live = InUse \cup (IF broken THEN {"rd", "rdbuf"} ELSE {})
        /\ AgainTag < TagMax => soonlive = {sent[k].ptr : k \in DOMAIN sent}

\* A socket is open, and in the file table, exactly as long as the object
\* that has it: the listening one until a connection is accepted, that one
\* and the client's until they end (or the kernel refuses).
SocketsOwned ==
    LET mine == (IF "echo" \in live THEN {echo.raw} ELSE {})
                    \cup (IF "conn" \in live THEN {"conn"} ELSE {})
    IN  /\ net.open = mine \cup net.stuck
        /\ net.table = (IF echo.reg THEN {echo.raw} ELSE {}) \cup net.stuck
=============================================================================
