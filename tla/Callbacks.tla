----------------------------- MODULE Callbacks -----------------------------
(***************************************************************************)
(* The promise of the event loop to its callers, without rings, overflow   *)
(* queue or kernel: which callbacks may be called next.  IouLoop           *)
(* implements it (IouLoop!ImplementsCallbacks).                            *)
(***************************************************************************)
EXTENDS Integers, Sequences, Functions

CONSTANT Task   \* callbacks

VARIABLES
    at,         \* "app": outside lrun1, "loop": in it, "cb": in a callback
    waiting,    \* tasks whose requests were submitted
    soon,       \* tasks given to esoon, in order
    next,       \* tasks given to esoon with IEL_FLAG_ESOON_NEXT, in order
    due,        \* how many of next this lrun1 has to call first
    dropped     \* tasks cancelled with a linked request, without a word

cbVars == <<at, waiting, soon, next, due, dropped>>

CbInit ==
    /\ at = "app" /\ due = 0
    /\ waiting = {} /\ soon = <<>> /\ next = <<>> /\ dropped = {}

Free == Task \ (waiting \cup dropped \cup Range(soon) \cup Range(next))

Submit ==
    /\ at # "loop"
    /\ \E t \in Free :
          \/ waiting' = waiting \cup {t} /\ UNCHANGED <<soon, next>>
          \/ soon' = Append(soon, t) /\ UNCHANGED <<waiting, next>>
          \/ next' = Append(next, t) /\ UNCHANGED <<waiting, soon>>
    /\ UNCHANGED <<at, due, dropped>>

EnterLoop ==
    /\ at = "app" /\ at' = "loop"
    /\ due' = Len(next)
    /\ UNCHANGED <<waiting, soon, next, dropped>>

\* One callback at a time: first the NEXT tasks found on entry, in order;
\* then soon tasks in order, or any task whose request completed.
CallNext ==
    /\ at = "loop" /\ at' = "cb"
    /\ due > 0 /\ due' = due - 1
    /\ next' = Tail(next)
    /\ UNCHANGED <<waiting, soon, dropped>>

CallOther ==
    /\ at = "loop" /\ at' = "cb"
    /\ due = 0
    /\ \/ soon # <<>> /\ soon' = Tail(soon) /\ UNCHANGED waiting
       \/ \E t \in waiting : waiting' = waiting \ {t} /\ UNCHANGED soon
    /\ UNCHANGED <<next, due, dropped>>

\* lrun1 does not return before it has called them.
Return ==
    /\ \/ at = "cb" /\ at' = "loop"
       \/ at # "app" /\ due = 0 /\ at' = "app"
    /\ UNCHANGED <<waiting, soon, next, due, dropped>>

Drop ==
    /\ \E S \in SUBSET waiting : waiting' = waiting \ S /\ dropped' = dropped \cup S
    /\ UNCHANGED <<at, soon, next, due>>

CbNext == Submit \/ EnterLoop \/ CallNext \/ CallOther \/ Return \/ Drop

CbSpec == CbInit /\ [][CbNext]_cbVars
=============================================================================
