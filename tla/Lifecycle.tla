----------------------------- MODULE Lifecycle -----------------------------
(***************************************************************************)
(* The life of a loop: lnew builds it in stages, each of which may fail    *)
(* and then unwinds through the labels at the end of the function; ldel    *)
(* takes it down.  In between, its file table is used.                     *)
(*                                                                         *)
(* One context is created and deleted any number of times, in memory whose *)
(* first content is not known, through the table that vtsetup fills; the   *)
(* process may put itself under a seccomp filter at any time.              *)
(***************************************************************************)
EXTENDS FileTable

VARIABLES
    up,        \* between lnew and ldel
    single,    \* IORING_FEAT_SINGLE_MMAP: the CQ needs no mapping of its own
    owned,     \* the resources held
    dangling,  \* those of the context's two table pointers that point to
               \* something that is not allocated
    sigsys,    \* the process's SIGSYS handler: its own, or ielb_ioux_nop
    seccomp,   \* no filter, one that lets io_uring_setup through (or fail), or
               \* one that traps it
    p_lnew,    \* the table's lnew
    leaked,    \* history: a ring was set up and its descriptor lost
    late,      \* history: the filter came after the table was set up
    killed,    \* history: SIGSYS ended the process, or the caller's thread
    misfreed   \* history: what the last failure or ldel released unheld

process == <<single, seccomp, p_lnew, late>>
life == <<process, up, owned, dangling, sigsys, leaked, killed, misfreed>>

Resource == {"ring", "sqmap", "cqmap", "sqes", "soonque", "prepque", "sqofq",
             "ringfd", "filetable", "bitmap", "files"}

TablePointers == {"filetable", "bitmap"}

LifeInit ==
    /\ Init /\ filetable_len = 0
    /\ up = FALSE /\ owned = {}
    /\ single \in BOOLEAN /\ dangling \in SUBSET TablePointers
    /\ sigsys = "own" /\ leaked = FALSE /\ misfreed = {}
    /\ seccomp = "none" /\ p_lnew = "unset" /\ late = FALSE /\ killed = FALSE

----------------------------------------------------------------------------

\* seccomp(2): a filter cannot be removed.
Sandbox ==
    /\ seccomp = "none" /\ seccomp' \in {"passes", "traps"}
    /\ late' = (p_lnew # "unset")
    /\ UNCHANGED <<vars, single, p_lnew, up, owned, dangling, sigsys, leaked, killed, misfreed>>

\* Mutant of Unsandboxed: a filter is taken for none.
UnsandboxedAny == seccomp \in {"none", "passes", "traps"}

\* prctl(PR_GET_SECCOMP) gives SECCOMP_MODE_DISABLED.
Unsandboxed == seccomp = "none"

\* vtsetup: without a filter the ring needs no thread of its own to be set up.
VtSetup ==
    /\ ~killed
    /\ p_lnew' = IF Unsandboxed THEN "lnew_us" ELSE "lnew"
    /\ late' = FALSE
    /\ UNCHANGED <<vars, single, seccomp, up, owned, dangling, sigsys, leaked, killed, misfreed>>

\* lnew and lnew_us where io_uring_setup does what it is asked to.
SetUp == ~up /\ p_lnew # "unset" /\ seccomp # "traps"

\* The stages of ielb_ioux_lnew_base in order; features and rlimit only check.
Stages == <<"ring", "features", "sqmap", "cqmap", "sqes", "soonque", "prepque", "sqofq",
            "ringfd", "rlimit", "filetable", "bitmap", "files">>

Stage == Range(Stages)
TableStage == {"filetable", "bitmap", "files"}
Before(s) == {Stages[k] : k \in 1 .. (CHOOSE i \in DOMAIN Stages : Stages[i] = s) - 1}

\* What the loop holds when the stages in done have succeeded.
Acquired(done) == (done \cap Resource) \ (IF single THEN {"cqmap"} ELSE {})

\* What the labels release, last one first.
Labels == <<"ring", "sqmap", "cqmap", "sqes", "soonque", "prepque", "sqofq",
            "ringfd", "filetable", "bitmap">>

\* Mutant of Label: the overflow queue's failure skips a label.
LabelSkipped(s) ==
    CASE s = "ring" -> 0
      [] s \in {"features", "sqmap"} -> 1
      [] s = "cqmap" -> 2
      [] s = "sqes" -> 3
      [] s = "soonque" -> 4
      [] s = "prepque" -> 5
      [] s = "sqofq" -> 5
      [] s = "ringfd" -> 7
      [] s \in {"rlimit", "filetable"} -> 8
      [] s = "bitmap" -> 9
      [] s = "files" -> 10

\* The label stage s goes to when it fails: how many of Labels it releases.
Label(s) ==
    CASE s = "ring" -> 0
      [] s \in {"features", "sqmap"} -> 1
      [] s = "cqmap" -> 2
      [] s = "sqes" -> 3
      [] s = "soonque" -> 4
      [] s = "prepque" -> 5
      [] s = "sqofq" -> 6
      [] s = "ringfd" -> 7
      [] s \in {"rlimit", "filetable"} -> 8
      [] s = "bitmap" -> 9
      [] s = "files" -> 10

Unwound(s) == {Labels[k] : k \in 1 .. Label(s)} \ (IF single THEN {"cqmap"} ELSE {})

\* Mutant of Granted: the limit on descriptors is not applied.
GrantedAny(max_files) == IF max_files = -1 THEN MaxFiles ELSE max_files

\* The length of the table (MaxFiles is the limit on descriptors).
Granted(max_files) ==
    IF max_files = -1 \/ max_files > MaxFiles THEN MaxFiles ELSE max_files

LNew(max_files) ==
    LET n == Granted(max_files)
    IN  /\ SetUp /\ up' = TRUE
        /\ owned' = owned \cup Acquired(Stage \ (IF n = 0 THEN TableStage ELSE {}))
        /\ dangling' = IF n = 0 THEN dangling ELSE {}
        /\ filetable_len' = n
        /\ filetable' = [i \in 0 .. n - 1 |-> NoFd] /\ files' = filetable'
        /\ filetable_bitmap' = BitsOf(n)
        /\ misfreed' = {}
        /\ UNCHANGED <<handle, claimed, lost, behind, stray, process, sigsys, leaked, killed>>

\* Stage s fails.
LNewFails(s) ==
    /\ SetUp
    /\ s = "cqmap" => ~single
    /\ LET got == Acquired(Before(s))
       IN  /\ owned' = owned \cup (got \ Unwound(s))
           /\ misfreed' = Unwound(s) \ got
    /\ dangling' = (dangling \ {s}) \cup (TablePointers \cap Before(s))
    /\ UNCHANGED <<vars, process, up, sigsys, leaked, killed>>

\* lnew's helper thread does not come back as it should: the filter traps
\* io_uring_setup and SIGSYS ends it, or it cannot restore the handler, perhaps
\* after the ring was set up.
ThreadFails ==
    /\ ~up /\ p_lnew = "lnew"
    /\ sigsys' = "nop"
    /\ leaked' \in {leaked} \cup (IF seccomp = "traps" THEN {} ELSE {TRUE})
    /\ UNCHANGED <<vars, process, up, owned, dangling, killed, misfreed>>

\* lnew_us has no such thread: SIGSYS ends its caller.  (With this filter and
\* this table nothing but vtsetup could follow.)
Trapped ==
    /\ ~up /\ p_lnew = "lnew_us" /\ seccomp = "traps"
    /\ ~killed /\ killed' = TRUE
    /\ UNCHANGED <<vars, process, up, owned, dangling, sigsys, leaked, misfreed>>

\* Mutant of Mappings: the CQ is unmapped although it shares the SQ's mapping.
MappingsAll == {"sqes", "sqmap", "cqmap"}

\* What ldel unmaps.
Mappings == {"sqes", "sqmap"} \cup (IF single THEN {} ELSE {"cqmap"})

\* What ldel releases.  The table's pointers are freed also when there is no
\* table, whatever they point to.
Released ==
    (IF filetable_len > 0 THEN {"files"} \cup TablePointers ELSE dangling)
        \cup {"ringfd", "sqofq", "prepque", "soonque", "ring"} \cup Mappings

LDel ==
    /\ up /\ up' = FALSE
    /\ owned' = owned \ Released
    /\ misfreed' = Released \ owned
    /\ dangling' = IF filetable_len > 0 THEN TablePointers ELSE dangling
    /\ filetable_len' = 0
    /\ filetable' = <<>> /\ filetable_bitmap' = {} /\ files' = <<>>
    /\ handle' = [f \in Fd |-> Unset]
    /\ claimed' = {} /\ lost' = {} /\ behind' = {} /\ stray' = FALSE
    /\ UNCHANGED <<process, sigsys, leaked, killed>>

UseTable == up /\ Next /\ UNCHANGED life

LifeNext ==
    \/ Sandbox
    \/ VtSetup
    \/ \E max_files \in {-1, 0, MaxFiles - 1, 2 * MaxFiles} : LNew(max_files)
    \/ \E s \in Stage : LNewFails(s)
    \/ ThreadFails
    \/ Trapped
    \/ UseTable
    \/ LDel

LifeSpec == LifeInit /\ [][LifeNext]_<<vars, life>>

----------------------------------------------------------------------------

LifeTypeOK ==
    /\ TypeOK
    /\ {up, single, leaked, late, killed} \subseteq BOOLEAN
    /\ dangling \subseteq TablePointers
    /\ owned \subseteq Resource /\ misfreed \subseteq Resource
    /\ sigsys \in {"own", "nop"} /\ seccomp \in {"none", "passes", "traps"}
    /\ p_lnew \in {"unset", "lnew", "lnew_us"}

\* Whatever stage of lnew fails, and after ldel, nothing is held any more: the
\* labels undo exactly the stages that came before.  Only a helper thread that
\* failed leaves something behind, its handler and perhaps a ring.
AllReleased ==
    /\ ~up => owned = {}
    /\ leaked => sigsys = "nop"

\* A filter that traps io_uring_setup makes lnew fail and does not end its
\* caller, unless it came after vtsetup had looked for one.
SurvivesFilter == killed => late

\* No label and no line of ldel releases what is not held, but for the table's
\* pointers of a loop that was created without a table.
ReleasedOnce ==
    [][misfreed' # {} =>
          up /\ ~up' /\ filetable_len = 0 /\ misfreed' \subseteq TablePointers]_misfreed
=============================================================================
