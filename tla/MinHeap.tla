------------------------------ MODULE MinHeap ------------------------------
(***************************************************************************)
(* The binary min-heap of src/minheap.c: an array of nodes that doubles    *)
(* when it is full, and the two sifts.  How many copies of each node it    *)
(* should hold is kept beside it.                                          *)
(***************************************************************************)
EXTENDS Integers, FiniteSets, Loops

CONSTANTS
    Key,      \* iel_mh_elem
    Val,      \* the values stored with the keys
    InitLen,  \* initlen: iel_mh_ins1 can only double an array that has a node
    MaxLen,   \* bound: realloc fails beyond this many nodes
    NoNode    \* a node at or behind entries

ASSUME MinHeapAssumption ==
    /\ Key \subseteq Nat
    /\ InitLen \in Nat \ {0} /\ MaxLen \in Nat /\ MaxLen >= InitLen

Node == [k : Key, v : Val]

VARIABLES
    arr, entries, maxentries,
    alive,    \* between iel_mh_init and iel_mh_del
    popped,   \* *pk, *pv of the last iel_mh_pop
    content   \* history: how often each node was inserted and not popped

vars == <<arr, entries, maxentries, alive, popped, content>>

Init ==
    /\ arr = <<>> /\ entries = 0 /\ maxentries = 0
    /\ alive = FALSE
    /\ popped = NoNode
    /\ content = [node \in Node |-> 0]

----------------------------------------------------------------------------
(* The tree in an array a, of which the first n nodes are in use *)

\* Mutant of Swap: the values stay where they are.
SwapKeys(a, i, j) == [a EXCEPT ![i].k = a[j].k, ![j].k = a[i].k]

\* IEL_MH_SWAP
Swap(a, i, j) == [a EXCEPT ![i] = a[j], ![j] = a[i]]

\* Mutant of Parent: as in a heap whose root has index 1.
ParentOfOne(i) == i \div 2

\* IEL_MH_PAR
Parent(i) == (i - 1) \div 2

\* What both sifts change: the array and cur.
Sifting(a) == [DOMAIN a -> Node \cup {NoNode}] \X Nat

\* iel_mh_sup: node i moves up past every greater parent.
SiftUp(a, i) ==
    LET body == [s \in Sifting(a) |->
                    LET cur == s[2]
                        p == Parent(cur)
                    IN  IF cur = 0 \/ s[1][p].k <= s[1][cur].k THEN s
                        ELSE <<Swap(s[1], cur, p), p>>]
    IN  After(i, body, <<a, i>>)[1]

\* The child iel_mh_sdn looks at: the lesser one, the left one of equals.
Lesser(a, n, i) ==
    IF 2 * i + 2 < n /\ a[2 * i + 2].k < a[2 * i + 1].k THEN 2 * i + 2 ELSE 2 * i + 1

\* iel_mh_sdn: node i changes places with that child as long as their keys
\* differ, the greater one or not.
SiftDown(a, n, i) ==
    LET body == [s \in Sifting(a) |->
                    LET cur == s[2]
                        c == Lesser(s[1], n, cur)
                    IN  IF c >= n \/ s[1][c].k = s[1][cur].k THEN s
                        ELSE <<Swap(s[1], cur, c), c>>]
    IN  After(n, body, <<a, i>>)[1]

----------------------------------------------------------------------------

InitHeap ==
    /\ ~alive /\ alive' = TRUE
    /\ arr' = [i \in 0 .. InitLen - 1 |-> NoNode]
    /\ entries' = 0 /\ maxentries' = InitLen
    /\ UNCHANGED <<popped, content>>

\* iel_mh_del
Del ==
    /\ alive /\ alive' = FALSE
    /\ arr' = <<>>
    /\ popped' = NoNode /\ content' = [node \in Node |-> 0]
    /\ UNCHANGED <<entries, maxentries>>

\* The nodes iel_mh_ins1 needs.
Extended == IF entries + 1 > maxentries THEN 2 * maxentries ELSE maxentries

\* Mutant of Unextended: maxentries is set before realloc is asked.
UnextendedLate == Extended

\* maxentries after a realloc that failed.
Unextended == maxentries

\* iel_mh_ins1 returns -1.
Ins1NoMemory ==
    /\ alive
    /\ Extended > maxentries
    /\ maxentries' = Unextended
    /\ UNCHANGED <<arr, entries, alive, popped, content>>

Ins1(node) ==
    /\ alive
    /\ Extended <= MaxLen
    /\ maxentries' = Extended
    /\ LET a == [i \in 0 .. Extended - 1 |->
                    IF i = entries THEN node ELSE IF i < entries THEN arr[i] ELSE NoNode]
       IN  arr' = IF entries = 0 THEN a ELSE SiftUp(a, entries)
    /\ entries' = entries + 1
    /\ content' = [content EXCEPT ![node] = @ + 1]
    /\ UNCHANGED <<alive, popped>>

\* iel_mh_pop.  (The node it returns stays behind the last one; nobody reads
\* it there.)
Pop ==
    /\ alive
    /\ entries > 0
    /\ popped' = arr[0]
    /\ LET a == [Swap(arr, 0, entries - 1) EXCEPT ![entries - 1] = NoNode]
       IN  arr' = IF entries = 1 THEN a ELSE SiftDown(a, entries - 1, 0)
    /\ entries' = entries - 1
    /\ content' = [content EXCEPT ![arr[0]] = @ - 1]
    /\ UNCHANGED <<maxentries, alive>>

Next ==
    \/ InitHeap
    \/ \E node \in Node : Ins1(node)
    \/ Ins1NoMemory
    \/ Pop
    \/ Del

Spec == Init /\ [][Next]_vars

----------------------------------------------------------------------------
(* Properties *)

\* An array of len nodes, of which the first n are in use.
Array(len, n) ==
    {a \in [0 .. len - 1 -> Node \cup {NoNode}] :
        \A i \in 0 .. len - 1 : a[i] \in IF i < n THEN Node ELSE {NoNode}}

TypeOK ==
    /\ maxentries \in 0 .. MaxLen /\ entries \in 0 .. maxentries
    /\ alive \in BOOLEAN
    /\ popped \in Node \cup {NoNode} /\ content \in [Node -> Nat]
    /\ alive => arr \in Array(maxentries, entries)

\* Where a node is in an array, among the first n.
Places(a, n, node) == {j \in 0 .. n - 1 : a[j] = node}

\* Sifting, growing and popping lose no node, store none twice, and keep each
\* value with its key: the array holds what was inserted and not popped.
NodesKept ==
    \A node \in Node :
        content[node] = IF alive THEN Cardinality(Places(arr, entries, node)) ELSE 0

Ordered(a, n) == \A i \in 1 .. n - 1 : a[(i - 1) \div 2].k <= a[i].k

\* An insertion keeps the heap ordered, and so does a pop when the last node
\* has the greatest key, which sift-down never moves past a greater one.
OrderKept ==
    [][/\ alive /\ alive' /\ Ordered(arr, entries)
       /\ \/ entries' > entries
          \/ /\ 0 < entries' /\ entries' < entries
             /\ \A i \in 0 .. entries - 1 : arr[i].k <= arr[entries - 1].k
       => Ordered(arr', entries')]_vars

\* "A simple binary min-heap implementation": the node that iel_mh_pop returns
\* next has the least key of all.
MinAtRoot == alive => \A i \in 1 .. entries - 1 : arr[0].k <= arr[i].k
=============================================================================
