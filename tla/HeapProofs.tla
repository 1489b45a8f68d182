----------------------------- MODULE HeapProofs -----------------------------
(***************************************************************************)
(* Proofs about MinHeap, for all keys, values and sizes.  The two sifts    *)
(* are loops: what they keep is shown by AfterInvariant, and that they     *)
(* have run to their end by LoopEnds.                                      *)
(***************************************************************************)
EXTENDS MinHeap, LoopFacts, FiniteSetTheorems

USE MinHeapAssumption DEF MinHeapAssumption

(***************************************************************************)
(* The tree.                                                               *)
(***************************************************************************)

LEMMA ParentBelow == \A i \in Nat \ {0} : Parent(i) \in Nat /\ Parent(i) < i
    BY DEF Parent

LEMMA Children ==
    \A i \in Nat \ {0}, c \in Nat : Parent(i) = c <=> i = 2 * c + 1 \/ i = 2 * c + 2
    BY DEF Parent

LEMMA LesserIsAChild ==
    ASSUME NEW a, NEW n \in Nat, NEW i \in Nat
    PROVE  /\ Lesser(a, n, i) \in Nat \ {0} /\ Parent(Lesser(a, n, i)) = i
           /\ Lesser(a, n, i) >= n => Lesser(a, n, i) = 2 * i + 1
    <1>1. Lesser(a, n, i) \in {2 * i + 1, 2 * i + 2}
      BY DEF Lesser
    <1>2. Lesser(a, n, i) >= n => Lesser(a, n, i) = 2 * i + 1
      BY DEF Lesser
    <1>3. QED
      BY <1>1, <1>2, Children

LEMMA ArrayNode ==
    ASSUME NEW len \in Nat, NEW n \in 0 .. len, NEW a \in Array(len, n)
    PROVE  /\ DOMAIN a = 0 .. len - 1 /\ a \in [0 .. len - 1 -> Node \cup {NoNode}]
           /\ \A i \in 0 .. n - 1 : a[i] \in Node /\ a[i].k \in Nat
    <1>1. /\ DOMAIN a = 0 .. len - 1 /\ a \in [0 .. len - 1 -> Node \cup {NoNode}]
          /\ \A i \in 0 .. n - 1 : a[i] \in Node
      BY DEF Array
    <1>2. \A node \in Node : node.k \in Nat
      BY DEF Node
    <1>3. QED
      BY <1>1, <1>2

LEMMA SwapType ==
    ASSUME NEW len \in Nat, NEW n \in 0 .. len, NEW a \in Array(len, n),
           NEW i \in 0 .. n - 1, NEW j \in 0 .. n - 1
    PROVE  /\ Swap(a, i, j) \in Array(len, n)
           /\ \A x \in 0 .. len - 1 :
                 Swap(a, i, j)[x] = IF x = j THEN a[i] ELSE IF x = i THEN a[j] ELSE a[x]
    BY DEF Array, Swap

\* Changing places changes no number of copies.
LEMMA SwapPlaces ==
    ASSUME NEW len \in Nat, NEW n \in 0 .. len, NEW a \in Array(len, n),
           NEW i \in 0 .. n - 1, NEW j \in 0 .. n - 1, NEW node
    PROVE  /\ IsFiniteSet(Places(a, n, node)) /\ IsFiniteSet(Places(Swap(a, i, j), n, node))
           /\ Cardinality(Places(Swap(a, i, j), n, node)) = Cardinality(Places(a, n, node))
    <1> DEFINE S == Places(a, n, node)
               Z == Places(Swap(a, i, j), n, node)
               f == [x \in S |-> IF x = i THEN j ELSE IF x = j THEN i ELSE x]
    <1>1. \A b : IsFiniteSet(Places(b, n, node))
      <2> TAKE b
      <2>1. IsFiniteSet(0 .. n - 1)
        BY FS_Interval
      <2>2. QED
        BY <2>1, FS_Subset DEF Places
    <1>2. \A x \in 0 .. n - 1 :
             Swap(a, i, j)[x] = IF x = j THEN a[i] ELSE IF x = i THEN a[j] ELSE a[x]
      BY SwapType
    <1>3. f \in Bijection(S, Z)
      <2>1. S \subseteq 0 .. n - 1 /\ Z \subseteq 0 .. n - 1
        BY DEF Places
      <2>2. \A x \in S : a[x] = node
        BY DEF Places
      <2>3. f \in [S -> Z]
        BY <1>2, <2>1, <2>2 DEF Places
      <2>4. \A x, y \in S : f[x] = f[y] => x = y
        BY <2>1
      <2>5. ASSUME NEW z \in Z PROVE \E x \in S : f[x] = z
        <3> DEFINE x == IF z = i THEN j ELSE IF z = j THEN i ELSE z
        <3>1. z \in 0 .. n - 1 /\ Swap(a, i, j)[z] = node
          BY DEF Places
        <3>2. x \in S
          BY <1>2, <3>1 DEF Places
        <3>3. f[x] = z
          BY <3>2
        <3>4. QED
          BY <3>2, <3>3
      <2> HIDE DEF f, S, Z
      <2>6. QED
        BY <2>3, <2>4, <2>5 DEF Bijection, Injection, Surjection, IsInjective
    <1>4. QED
      BY <1>1, <1>3, FS_Bijection DEF ExistsBijection

\* a and b hold as many copies of each node.
SameNodes(a, b, n) ==
    \A node \in Node : Cardinality(Places(a, n, node)) = Cardinality(Places(b, n, node))

(***************************************************************************)
(* The sifts keep the nodes.                                               *)
(***************************************************************************)

UpBody(a) ==
    [s \in Sifting(a) |->
        LET cur == s[2]
            p == Parent(cur)
        IN  IF cur = 0 \/ s[1][p].k <= s[1][cur].k THEN s
            ELSE <<Swap(s[1], cur, p), p>>]

DownBody(a, n) ==
    [s \in Sifting(a) |->
        LET cur == s[2]
            c == Lesser(s[1], n, cur)
        IN  IF c >= n \/ s[1][c].k = s[1][cur].k THEN s
            ELSE <<Swap(s[1], cur, c), c>>]

LEMMA SiftsAreLoops ==
    ASSUME NEW a, NEW n, NEW i
    PROVE  /\ SiftUp(a, i) = After(i, UpBody(a), <<a, i>>)[1]
           /\ SiftDown(a, n, i) = After(n, DownBody(a, n), <<a, i>>)[1]
    BY DEF SiftUp, SiftDown, UpBody, DownBody

\* A state of the loop of a sift that started with a.
State(a, len, n) == {s \in Array(len, n) \X (0 .. n - 1) : SameNodes(s[1], a, n)}

LEMMA StateIsSifting ==
    ASSUME NEW len \in Nat, NEW n \in 0 .. len, NEW a \in Array(len, n),
           NEW s \in State(a, len, n)
    PROVE  /\ s \in Sifting(a) /\ s = <<s[1], s[2]>>
           /\ s[1] \in Array(len, n) /\ s[2] \in 0 .. n - 1
           /\ SameNodes(s[1], a, n)
    BY DEF State, Sifting, Array

\* One iteration of sift-up ...
LEMMA UpStep ==
    ASSUME NEW len \in Nat, NEW n \in 0 .. len, NEW a \in Array(len, n),
           NEW s \in State(a, len, n)
    PROVE  LET b == s[1]
               cur == s[2]
               p == Parent(cur)
           IN  /\ UpBody(a)[s] \in State(a, len, n)
               /\ \/ UpBody(a)[s] = s /\ (cur = 0 \/ b[p].k <= b[cur].k)
                  \/ /\ UpBody(a)[s] = <<Swap(b, cur, p), p>>
                     /\ cur # 0 /\ p \in 0 .. n - 1 /\ p < cur /\ b[p].k > b[cur].k
    <1> DEFINE b == s[1]
               cur == s[2]
               p == Parent(cur)
    <1>1. /\ s \in Sifting(a) /\ s = <<b, cur>> /\ b \in Array(len, n) /\ cur \in 0 .. n - 1
          /\ SameNodes(b, a, n)
      BY StateIsSifting
    <1>2. UpBody(a)[s] = IF cur = 0 \/ b[p].k <= b[cur].k THEN s ELSE <<Swap(b, cur, p), p>>
      BY <1>1 DEF UpBody
    <1>3. CASE cur = 0 \/ b[p].k <= b[cur].k
      BY <1>2, <1>3
    <1>4. CASE ~(cur = 0 \/ b[p].k <= b[cur].k)
      <2>1. p \in 0 .. n - 1 /\ p < cur
        BY <1>1, <1>4, ParentBelow
      <2>2. b[p].k > b[cur].k
        BY <1>1, <1>4, <2>1, ArrayNode
      <2>3. Swap(b, cur, p) \in Array(len, n) /\ SameNodes(Swap(b, cur, p), a, n)
        BY <1>1, <2>1, SwapType, SwapPlaces DEF SameNodes
      <2>4. <<Swap(b, cur, p), p>> \in State(a, len, n)
        BY <2>1, <2>3 DEF State
      <2>5. QED
        BY <1>2, <1>4, <2>1, <2>2, <2>4
    <1>5. QED
      BY <1>3, <1>4

\* ... and of sift-down.
LEMMA DownStep ==
    ASSUME NEW len \in Nat, NEW n \in 0 .. len, NEW a \in Array(len, n),
           NEW s \in State(a, len, n)
    PROVE  LET b == s[1]
               cur == s[2]
               c == Lesser(b, n, cur)
           IN  /\ DownBody(a, n)[s] \in State(a, len, n)
               /\ \/ DownBody(a, n)[s] = s /\ (c >= n \/ b[c].k = b[cur].k)
                  \/ /\ DownBody(a, n)[s] = <<Swap(b, cur, c), c>>
                     /\ c \in 0 .. n - 1 /\ c > cur /\ b[c].k # b[cur].k
    <1> DEFINE b == s[1]
               cur == s[2]
               c == Lesser(b, n, cur)
    <1>1. /\ s \in Sifting(a) /\ s = <<b, cur>> /\ b \in Array(len, n) /\ cur \in 0 .. n - 1
          /\ SameNodes(b, a, n)
      BY StateIsSifting
    <1>2. DownBody(a, n)[s] = IF c >= n \/ b[c].k = b[cur].k THEN s ELSE <<Swap(b, cur, c), c>>
      BY <1>1 DEF DownBody
    <1>3. CASE c >= n \/ b[c].k = b[cur].k
      BY <1>2, <1>3
    <1>4. CASE ~(c >= n \/ b[c].k = b[cur].k)
      <2>1. c \in 0 .. n - 1 /\ c > cur
        BY <1>1, <1>4, LesserIsAChild, ParentBelow
      <2>2. Swap(b, cur, c) \in Array(len, n) /\ SameNodes(Swap(b, cur, c), a, n)
        BY <1>1, <2>1, SwapType, SwapPlaces DEF SameNodes
      <2>3. <<Swap(b, cur, c), c>> \in State(a, len, n)
        BY <2>1, <2>2 DEF State
      <2>4. QED
        BY <1>2, <1>4, <2>1, <2>3
    <1>5. QED
      BY <1>3, <1>4

LEMMA SiftsKeepNodes ==
    ASSUME NEW len \in Nat, NEW n \in 0 .. len, NEW a \in Array(len, n),
           NEW i \in 0 .. n - 1
    PROVE  /\ SiftUp(a, i) \in Array(len, n) /\ SameNodes(SiftUp(a, i), a, n)
           /\ SiftDown(a, n, i) \in Array(len, n) /\ SameNodes(SiftDown(a, n, i), a, n)
    <1>1. <<a, i>> \in State(a, len, n) /\ i \in Nat /\ n \in Nat
      BY DEF State, SameNodes
    <1>2. \A s \in State(a, len, n) : UpBody(a)[s] \in State(a, len, n)
      BY UpStep
    <1>3. \A s \in State(a, len, n) : DownBody(a, n)[s] \in State(a, len, n)
      BY DownStep
    <1>4. After(i, UpBody(a), <<a, i>>) \in State(a, len, n)
      <2>1. \A k \in Nat : After(k, UpBody(a), <<a, i>>) \in State(a, len, n)
        BY <1>1, <1>2, AfterInvariant
      <2>2. QED
        BY <1>1, <2>1
    <1>5. After(n, DownBody(a, n), <<a, i>>) \in State(a, len, n)
      BY <1>1, <1>3, AfterInvariant
    <1>6. QED
      BY <1>4, <1>5, StateIsSifting, SiftsAreLoops

(***************************************************************************)
(* Sift-up restores the order that the node it starts from may break.      *)
(***************************************************************************)

LEMMA OrderedByParent ==
    ASSUME NEW a, NEW n \in Nat
    PROVE  Ordered(a, n) <=> \A x \in 1 .. n - 1 : a[Parent(x)].k <= a[x].k
    BY DEF Ordered, Parent

\* Only the node at cur may be less than its parent; what is below it is not
\* less than that parent.
UpState(a, len, n) ==
    {s \in State(a, len, n) :
        \A x \in 1 .. n - 1 :
            /\ x # s[2] => s[1][Parent(x)].k <= s[1][x].k
            /\ Parent(x) = s[2] /\ s[2] # 0 => s[1][Parent(s[2])].k <= s[1][x].k}

LEMMA UpStepKeepsOrder ==
    ASSUME NEW len \in Nat, NEW n \in 0 .. len, NEW a \in Array(len, n),
           NEW s \in UpState(a, len, n)
    PROVE  UpBody(a)[s] \in UpState(a, len, n)
    <1> DEFINE b == s[1]
               cur == s[2]
               p == Parent(cur)
               c == Swap(b, cur, p)
    <1>1. /\ s \in State(a, len, n)
          /\ \A x \in 1 .. n - 1 :
                /\ x # cur => b[Parent(x)].k <= b[x].k
                /\ Parent(x) = cur /\ cur # 0 => b[p].k <= b[x].k
      BY DEF UpState
    <1>2. CASE UpBody(a)[s] = s
      BY <1>2
    <1>3. CASE /\ UpBody(a)[s] = <<c, p>> /\ UpBody(a)[s] \in State(a, len, n)
               /\ cur # 0 /\ p \in 0 .. n - 1 /\ p < cur /\ b[p].k > b[cur].k
      <2>1. b \in Array(len, n) /\ cur \in 0 .. n - 1
        BY <1>1, StateIsSifting
      <2>2. \A x \in 0 .. n - 1 : c[x] = IF x = p THEN b[cur] ELSE IF x = cur THEN b[p] ELSE b[x]
        <3> HIDE DEF b, cur, p
        <3>1. p \in 0 .. n - 1
          BY <1>3
        <3>2. \A x \in 0 .. len - 1 :
                 c[x] = IF x = p THEN b[cur] ELSE IF x = cur THEN b[p] ELSE b[x]
          BY <2>1, <3>1, SwapType
        <3>3. QED
          BY <3>2
      <2>3. \A x \in 0 .. n - 1 : b[x].k \in Nat
        BY <2>1, ArrayNode
      <2>4. \A x \in 1 .. n - 1 : Parent(x) \in 0 .. n - 1 /\ Parent(x) < x
        BY ParentBelow
      <2> HIDE DEF b, cur, p, c
      <2>5. ASSUME NEW x \in 1 .. n - 1, x # p PROVE c[Parent(x)].k <= c[x].k
        <3>1. CASE x = cur
          <4>1. c[x] = b[p] /\ c[Parent(x)] = b[cur]
            BY <1>3, <2>1, <2>2, <2>4, <3>1 DEF p
          <4>2. QED
            BY <1>3, <2>1, <2>3, <4>1
        <3>2. CASE x # cur
          <4>1. c[x] = b[x] /\ b[Parent(x)].k <= b[x].k
            BY <1>1, <2>2, <2>5, <3>2
          <4>2. CASE Parent(x) = p
            BY <1>3, <2>1, <2>2, <2>3, <2>4, <4>1, <4>2
          <4>3. CASE Parent(x) = cur
            BY <1>1, <1>3, <2>2, <2>1, <4>1, <4>3
          <4>4. CASE Parent(x) # p /\ Parent(x) # cur
            BY <2>2, <2>4, <4>1, <4>4
          <4>5. QED
            BY <4>2, <4>3, <4>4
        <3>3. QED
          BY <3>1, <3>2
      <2>6. ASSUME NEW x \in 1 .. n - 1, Parent(x) = p, p # 0 PROVE c[Parent(p)].k <= c[x].k
        <3>1. p \in 1 .. n - 1 /\ p # cur
          BY <1>3, <2>6, <2>1
        <3>2. Parent(p) # p /\ Parent(p) # cur /\ Parent(p) \in 0 .. n - 1
          BY <1>3, <2>1, <2>4, <3>1
        <3>3. c[Parent(p)] = b[Parent(p)] /\ b[Parent(p)].k <= b[p].k
          BY <1>1, <2>2, <3>1, <3>2
        <3>4. x # p
          BY <2>4, <2>6
        <3>5. CASE x = cur
          BY <2>1, <2>2, <3>3, <3>4, <3>5
        <3>6. CASE x # cur
          <4>1. c[x] = b[x] /\ b[p].k <= b[x].k
            BY <1>1, <2>2, <2>6, <3>4, <3>6
          <4>2. QED
            BY <1>3, <2>3, <3>2, <3>3, <4>1
        <3>7. QED
          BY <3>5, <3>6
      <2>7. QED
        BY <1>3, <2>5, <2>6 DEF UpState
    <1>4. QED
      BY <1>1, <1>2, <1>3, UpStep

\* A node behind an ordered tree is sifted up into it.
LEMMA SiftUpOrders ==
    ASSUME NEW len \in Nat, NEW n \in 1 .. len, NEW a \in Array(len, n), Ordered(a, n - 1)
    PROVE  Ordered(SiftUp(a, n - 1), n)
    <1> DEFINE i == n - 1
               T == UpState(a, len, n)
               m == [s \in T |-> s[2]]
               body == UpBody(a)
               end == After(i, body, <<a, i>>)
    <1>1. i \in Nat /\ i \in 0 .. n - 1 /\ n \in 0 .. len
      OBVIOUS
    <1>2. <<a, i>> \in T
      <2>1. \A x \in 1 .. i - 1 : a[Parent(x)].k <= a[x].k
        BY <1>1, OrderedByParent
      <2>2. \A x \in 1 .. n - 1 : Parent(x) # i
        BY ParentBelow
      <2>3. \A x \in 1 .. n - 1 : x # i => x \in 1 .. i - 1
        OBVIOUS
      <2>4. <<a, i>> \in State(a, len, n)
        BY <1>1 DEF State, SameNodes
      <2> HIDE DEF i
      <2>5. QED
        BY <2>1, <2>2, <2>3, <2>4 DEF UpState
    <1>3. \A s \in T : body[s] \in T
      BY <1>1, UpStepKeepsOrder
    <1>4. \A s \in T : s \in State(a, len, n)
      BY DEF UpState
    <1>5. m \in [T -> Nat]
      <2>1. \A s \in T : s[2] \in Nat
        BY <1>1, <1>4, StateIsSifting
      <2>2. QED
        BY <2>1
    <1>6. \A s \in T : body[s] = s \/ m[body[s]] < m[s]
      <2> TAKE s \in T
      <2>1. CASE body[s] = <<Swap(s[1], s[2], Parent(s[2])), Parent(s[2])>> /\ Parent(s[2]) < s[2]
        BY <1>3, <2>1
      <2>2. QED
        BY <1>1, <1>4, <2>1, UpStep
    <1>7. m[<<a, i>>] = i
      BY <1>2
    <1> HIDE DEF m, T, body, i
    <1>8. body[end] = end
      <2>1. \A k \in Nat : k >= i => body[After(k, body, <<a, i>>)] = After(k, body, <<a, i>>)
        BY <1>2, <1>3, <1>5, <1>6, <1>7, LoopEnds
      <2>2. QED
        BY <1>1, <2>1
    <1>9. end \in T
      <2>1. \A k \in Nat : After(k, body, <<a, i>>) \in T
        BY <1>2, <1>3, AfterInvariant
      <2>2. QED
        BY <1>1, <2>1
    <1> HIDE DEF end
    <1>10. end[2] = 0 \/ end[1][Parent(end[2])].k <= end[1][end[2]].k
      <2>1. CASE body[end] = <<Swap(end[1], end[2], Parent(end[2])), Parent(end[2])>>
                 /\ Parent(end[2]) < end[2]
        <3>1. end[2] = Parent(end[2])
          BY <1>8, <2>1
        <3>2. end[2] \in Nat
          BY <1>1, <1>4, <1>9, StateIsSifting
        <3>3. QED
          BY <2>1, <3>1, <3>2
      <2>2. QED
        BY <1>1, <1>4, <1>9, <2>1, UpStep DEF body
    <1>11. \A x \in 1 .. n - 1 : end[1][Parent(x)].k <= end[1][x].k
      <2>1. \A x \in 1 .. n - 1 : x # end[2] => end[1][Parent(x)].k <= end[1][x].k
        BY <1>9 DEF T, UpState
      <2>2. QED
        BY <1>10, <2>1
    <1>12. SiftUp(a, i) = end[1]
      BY SiftsAreLoops DEF end, body
    <1>13. QED
      BY <1>1, <1>11, <1>12, OrderedByParent DEF i

(***************************************************************************)
(* Sift-down restores the order around a node whose key is the greatest.   *)
(***************************************************************************)

\* Only the children of cur may be less than their parent, and no child of
\* cur is less than the node above cur.
DownState(a, len, n) ==
    {s \in State(a, len, n) :
        /\ \A x \in 0 .. n - 1 : s[1][x].k <= s[1][s[2]].k
        /\ \A x \in 1 .. n - 1 :
              /\ Parent(x) # s[2] => s[1][Parent(x)].k <= s[1][x].k
              /\ Parent(x) = s[2] /\ s[2] # 0 => s[1][Parent(s[2])].k <= s[1][x].k}

LEMMA DownStepKeepsOrder ==
    ASSUME NEW len \in Nat, NEW n \in 0 .. len, NEW a \in Array(len, n),
           NEW s \in DownState(a, len, n)
    PROVE  DownBody(a, n)[s] \in DownState(a, len, n)
    <1> DEFINE b == s[1]
               cur == s[2]
               c == Lesser(b, n, cur)
               d == Swap(b, cur, c)
    <1>1. /\ s \in State(a, len, n)
          /\ \A x \in 0 .. n - 1 : b[x].k <= b[cur].k
          /\ \A x \in 1 .. n - 1 :
                /\ Parent(x) # cur => b[Parent(x)].k <= b[x].k
                /\ Parent(x) = cur /\ cur # 0 => b[Parent(cur)].k <= b[x].k
      BY DEF DownState
    <1>2. CASE DownBody(a, n)[s] = s
      BY <1>2
    <1>3. CASE /\ DownBody(a, n)[s] = <<d, c>> /\ DownBody(a, n)[s] \in State(a, len, n)
               /\ c \in 0 .. n - 1 /\ c > cur
      <2>1. b \in Array(len, n) /\ cur \in 0 .. n - 1
        BY <1>1, StateIsSifting
      <2>2. \A x \in 0 .. n - 1 : d[x] = IF x = c THEN b[cur] ELSE IF x = cur THEN b[c] ELSE b[x]
        <3> HIDE DEF b, cur, c
        <3>1. c \in 0 .. n - 1
          BY <1>3
        <3>2. \A x \in 0 .. len - 1 :
                 d[x] = IF x = c THEN b[cur] ELSE IF x = cur THEN b[c] ELSE b[x]
          BY <2>1, <3>1, SwapType
        <3>3. QED
          BY <3>2
      <2>3. \A x \in 0 .. n - 1 : b[x].k \in Nat
        BY <2>1, ArrayNode
      <2>4. \A x \in 1 .. n - 1 : Parent(x) \in 0 .. n - 1 /\ Parent(x) < x
        BY ParentBelow
      <2>5. Parent(c) = cur /\ c \in 1 .. n - 1
        BY <1>3, <2>1, LesserIsAChild
      <2>6. \A x \in 1 .. n - 1 : Parent(x) = cur => b[c].k <= b[x].k
        <3> TAKE x \in 1 .. n - 1
        <3>1. Parent(x) = cur => x \in {2 * cur + 1, 2 * cur + 2}
          BY <2>1, Children
        <3>2. 2 * cur + 1 \in 0 .. n - 1
          BY <1>3, <2>1 DEF Lesser
        <3>3. b[2 * cur + 1].k \in Nat /\ b[x].k \in Nat
          BY <2>3, <3>2
        <3>4. QED
          <4> HIDE DEF b, cur
          <4>1. 2 * cur + 2 < n <=> 2 * cur + 2 \in 0 .. n - 1
            BY <2>1
          <4>2. 2 * cur + 2 < n => b[2 * cur + 2].k \in Nat
            BY <2>3, <4>1
          <4>3. x = 2 * cur + 2 => 2 * cur + 2 < n
            OBVIOUS
          <4>4. QED
            BY <3>1, <3>3, <4>2, <4>3 DEF Lesser
      <2> HIDE DEF b, cur, c, d
      <2>7. \A x \in 0 .. n - 1 : d[x].k <= d[c].k
        BY <1>1, <1>3, <2>1, <2>2, <2>3
      <2>8. ASSUME NEW x \in 1 .. n - 1, Parent(x) # c PROVE d[Parent(x)].k <= d[x].k
        <3>1. CASE Parent(x) = cur
          <4>1. d[Parent(x)] = b[c]
            BY <1>3, <2>1, <2>2, <3>1
          <4>2. x # cur
            BY <2>4, <3>1
          <4>3. CASE x = c
            BY <1>1, <1>3, <2>2, <4>1, <4>3
          <4>4. CASE x # c
            BY <2>2, <2>6, <3>1, <4>1, <4>2, <4>4
          <4>5. QED
            BY <4>3, <4>4
        <3>2. CASE Parent(x) # cur
          <4>1. d[Parent(x)] = b[Parent(x)] /\ x # c
            BY <2>2, <2>4, <2>5, <2>8, <3>2
          <4>2. CASE x = cur
            <5>1. b[Parent(cur)].k <= b[c].k
              BY <1>1, <2>5, <4>2
            <5>2. QED
              BY <2>1, <2>2, <4>1, <4>2, <5>1
          <4>3. CASE x # cur
            BY <1>1, <2>2, <3>2, <4>1, <4>3
          <4>4. QED
            BY <4>2, <4>3
        <3>3. QED
          BY <3>1, <3>2
      <2>9. ASSUME NEW x \in 1 .. n - 1, Parent(x) = c PROVE d[Parent(c)].k <= d[x].k
        <3>1. x # c /\ x # cur /\ Parent(x) # cur
          BY <1>3, <2>1, <2>4, <2>9
        <3>2. d[Parent(c)] = b[c] /\ d[x] = b[x]
          BY <1>3, <2>1, <2>2, <2>5, <3>1
        <3>3. b[c].k <= b[x].k
          BY <1>1, <2>9, <3>1
        <3>4. QED
          BY <3>2, <3>3
      <2>10. QED
        BY <1>3, <2>7, <2>8, <2>9 DEF DownState
    <1>4. QED
      BY <1>1, <1>2, <1>3, DownStep

\* A node with the greatest key is sifted down from the root of a tree that
\* is ordered but for it.
LEMMA SiftDownOrders ==
    ASSUME NEW len \in Nat, NEW n \in 1 .. len, NEW a \in Array(len, n),
           \A x \in 0 .. n - 1 : a[x].k <= a[0].k,
           \A x \in 1 .. n - 1 : Parent(x) # 0 => a[Parent(x)].k <= a[x].k
    PROVE  Ordered(SiftDown(a, n, 0), n)
    <1> DEFINE T == DownState(a, len, n)
               m == [s \in T |-> n - s[2]]
               body == DownBody(a, n)
               end == After(n, body, <<a, 0>>)
    <1>1. n \in Nat /\ n \in 0 .. len /\ 0 \in 0 .. n - 1
      OBVIOUS
    <1>2. <<a, 0>> \in T
      <2>1. <<a, 0>> \in State(a, len, n)
        BY <1>1 DEF State, SameNodes
      <2>2. QED
        BY <2>1 DEF DownState
    <1>3. \A s \in T : body[s] \in T
      BY <1>1, DownStepKeepsOrder
    <1>4. \A s \in T : s \in State(a, len, n)
      BY DEF DownState
    <1>5. \A s \in T : s[2] \in 0 .. n - 1
      BY <1>1, <1>4, StateIsSifting
    <1>6. m \in [T -> Nat]
      <2>1. \A s \in T : n - s[2] \in Nat
        BY <1>5
      <2>2. QED
        BY <2>1
    <1>7. \A s \in T : body[s] = s \/ m[body[s]] < m[s]
      <2> TAKE s \in T
      <2> DEFINE c == Lesser(s[1], n, s[2])
      <2>1. CASE body[s] = <<Swap(s[1], s[2], c), c>> /\ c \in 0 .. n - 1 /\ c > s[2]
        <3>1. m[body[s]] = n - c /\ m[s] = n - s[2]
          BY <1>3, <2>1
        <3>2. s[2] \in 0 .. n - 1
          BY <1>5
        <3> HIDE DEF c, m, body
        <3>3. QED
          BY <2>1, <3>1, <3>2
      <2>2. QED
        BY <1>1, <1>4, <2>1, DownStep
    <1>8. m[<<a, 0>>] = n
      BY <1>2
    <1> HIDE DEF m, T, body
    <1>9. body[end] = end
      <2>1. \A k \in Nat : k >= n => body[After(k, body, <<a, 0>>)] = After(k, body, <<a, 0>>)
        BY <1>2, <1>3, <1>6, <1>7, <1>8, LoopEnds
      <2>2. QED
        BY <1>1, <2>1
    <1>10. end \in T
      <2>1. \A k \in Nat : After(k, body, <<a, 0>>) \in T
        BY <1>2, <1>3, AfterInvariant
      <2>2. QED
        BY <1>1, <2>1
    <1> HIDE DEF end
    <1> DEFINE b == end[1]
               cur == end[2]
               c == Lesser(b, n, cur)
    <1>11. c >= n \/ b[c].k = b[cur].k
      <2>1. CASE body[end] = <<Swap(b, cur, c), c>> /\ c > cur
        <3>1. cur = c
          BY <1>9, <2>1
        <3>2. cur \in Nat
          BY <1>5, <1>10
        <3>3. QED
          BY <2>1, <3>1, <3>2
      <2>2. QED
        BY <1>1, <1>4, <1>10, <2>1, DownStep DEF body
    <1>12. b \in Array(len, n) /\ cur \in 0 .. n - 1
      BY <1>1, <1>4, <1>10, StateIsSifting
    <1>13. ASSUME NEW x \in 1 .. n - 1 PROVE b[Parent(x)].k <= b[x].k
      <2>1. CASE Parent(x) # cur
        BY <1>10, <2>1 DEF T, DownState
      <2>2. CASE Parent(x) = cur
        <3>1. x \in {2 * cur + 1, 2 * cur + 2}
          BY <1>12, <2>2, Children
        <3>2. c < n
          BY <1>1, <1>12, <3>1 DEF Lesser
        <3>3. c \in 0 .. n - 1 /\ 2 * cur + 1 \in 0 .. n - 1
          BY <1>1, <1>12, <3>1, <3>2, LesserIsAChild
        <3>4. b[c].k \in Nat /\ b[2 * cur + 1].k \in Nat /\ b[x].k \in Nat
          <4> HIDE DEF b, cur, c
          <4>1. \A y \in 0 .. n - 1 : b[y].k \in Nat
            BY <1>1, <1>12, ArrayNode
          <4>2. QED
            BY <3>3, <4>1
        <3>5. b[c].k <= b[x].k
          BY <3>1, <3>4 DEF Lesser
        <3>6. b[c].k = b[cur].k
          BY <1>11, <1>12, <3>2, <3>3
        <3>7. QED
          BY <2>2, <3>5, <3>6
      <2>3. QED
        BY <2>1, <2>2
    <1>14. SiftDown(a, n, 0) = b
      BY SiftsAreLoops DEF end, body
    <1> HIDE DEF b
    <1>15. QED
      BY <1>1, <1>13, <1>14, OrderedByParent

(***************************************************************************)
(* Insertion and removal.                                                  *)
(***************************************************************************)

\* While the heap is there its array has a node, or it could not double.
HeapInv == TypeOK /\ NodesKept /\ (alive => maxentries >= InitLen)

\* The array of iel_mh_ins1 before the new node is sifted up.
Inserted(node) ==
    [i \in 0 .. Extended - 1 |->
        IF i = entries THEN node ELSE IF i < entries THEN arr[i] ELSE NoNode]

\* The array of iel_mh_pop before the last node is sifted down.
Taken == [Swap(arr, 0, entries - 1) EXCEPT ![entries - 1] = NoNode]

LEMMA ExtendedHasRoom ==
    ASSUME HeapInv, alive
    PROVE  Extended \in Nat /\ entries + 1 \in 1 .. Extended /\ maxentries <= Extended
    BY DEF HeapInv, TypeOK, Extended

LEMMA InsertedType ==
    ASSUME HeapInv, alive, NEW node \in Node
    PROVE  /\ Inserted(node) \in Array(Extended, entries + 1)
           /\ \A i \in 0 .. entries - 1 : Inserted(node)[i] = arr[i]
           /\ Inserted(node)[entries] = node
    <1>1. /\ Extended \in Nat /\ entries + 1 \in 1 .. Extended /\ entries \in Nat
          /\ maxentries \in Nat /\ entries <= maxentries
          /\ arr \in Array(maxentries, entries)
      BY ExtendedHasRoom DEF HeapInv, TypeOK
    <1>2. \A i \in 0 .. entries - 1 : arr[i] \in Node
      BY <1>1, ArrayNode
    <1>3. QED
      BY <1>1, <1>2 DEF Inserted, Array

LEMMA InsertedCopies ==
    ASSUME HeapInv, alive, NEW node \in Node, NEW other \in Node
    PROVE  Cardinality(Places(Inserted(node), entries + 1, other))
               = Cardinality(Places(arr, entries, other)) + (IF other = node THEN 1 ELSE 0)
    <1> DEFINE S == Places(arr, entries, other)
    <1>1. entries \in Nat
      BY DEF HeapInv, TypeOK
    <1>2. IsFiniteSet(S)
      <2>1. IsFiniteSet(0 .. entries - 1)
        BY <1>1, FS_Interval
      <2>2. QED
        BY <2>1, FS_Subset DEF Places
    <1>3. Cardinality(S) \in Nat /\ entries \notin S
      BY <1>1, <1>2, FS_CardinalityType DEF Places
    <1>4. CASE other = node
      <2>1. Places(Inserted(node), entries + 1, other) = S \cup {entries}
        BY <1>1, <1>4, InsertedType DEF Places
      <2> HIDE DEF S
      <2>2. Cardinality(S \cup {entries}) = Cardinality(S) + 1
        BY <1>2, <1>3, FS_AddElement
      <2>3. QED
        BY <1>4, <2>1, <2>2 DEF S
    <1>5. CASE other # node
      <2>1. Places(Inserted(node), entries + 1, other) = S
        BY <1>1, <1>5, InsertedType DEF Places
      <2>2. QED
        BY <1>3, <1>5, <2>1
    <1>6. QED
      BY <1>4, <1>5

LEMMA TakenType ==
    ASSUME HeapInv, alive, entries > 0
    PROVE  /\ Taken \in Array(maxentries, entries - 1)
           /\ entries - 1 \in 0 .. maxentries /\ maxentries \in Nat
           /\ arr[0] \in Node
           /\ \A i \in 0 .. entries - 2 :
                 Taken[i] = IF i = 0 THEN arr[entries - 1] ELSE arr[i]
    <1> DEFINE b == Swap(arr, 0, entries - 1)
    <1>1. /\ entries - 1 \in 0 .. maxentries - 1 /\ maxentries \in Nat /\ entries \in 0 .. maxentries
          /\ arr \in Array(maxentries, entries)
      BY DEF HeapInv, TypeOK
    <1>2. /\ b \in Array(maxentries, entries)
          /\ \A x \in 0 .. maxentries - 1 :
                b[x] = IF x = entries - 1 THEN arr[0] ELSE IF x = 0 THEN arr[entries - 1] ELSE arr[x]
      <2>1. 0 \in 0 .. entries - 1 /\ entries - 1 \in 0 .. entries - 1
        BY <1>1
      <2>2. QED
        BY <1>1, <2>1, SwapType
    <1>3. arr[0] \in Node
      BY <1>1, ArrayNode
    <1> HIDE DEF b
    <1>4. Taken = [b EXCEPT ![entries - 1] = NoNode]
      BY DEF Taken, b
    <1>5. Taken \in Array(maxentries, entries - 1)
      BY <1>1, <1>2, <1>4 DEF Array
    <1>6. ASSUME NEW i \in 0 .. entries - 2
          PROVE  Taken[i] = IF i = 0 THEN arr[entries - 1] ELSE arr[i]
      <2>1. i \in 0 .. maxentries - 1 /\ i # entries - 1
        BY <1>1
      <2>2. Taken[i] = b[i]
        BY <1>2, <1>4, <2>1 DEF Array
      <2>3. QED
        BY <1>2, <2>1, <2>2
    <1>7. QED
      BY <1>1, <1>3, <1>5, <1>6

LEMMA TakenCopies ==
    ASSUME HeapInv, alive, entries > 0, NEW node \in Node
    PROVE  /\ Cardinality(Places(Taken, entries - 1, node)) \in Nat
           /\ Cardinality(Places(Taken, entries - 1, node))
                  = Cardinality(Places(arr, entries, node)) - (IF node = arr[0] THEN 1 ELSE 0)
    <1> DEFINE b == Swap(arr, 0, entries - 1)
               S == Places(b, entries, node)
    <1>1. /\ entries - 1 \in 0 .. maxentries - 1 /\ maxentries \in Nat /\ entries \in 0 .. maxentries
          /\ arr \in Array(maxentries, entries)
          /\ 0 \in 0 .. entries - 1 /\ entries - 1 \in 0 .. entries - 1
      BY DEF HeapInv, TypeOK
    <1>2. /\ b \in Array(maxentries, entries)
          /\ \A x \in 0 .. maxentries - 1 :
                b[x] = IF x = entries - 1 THEN arr[0] ELSE IF x = 0 THEN arr[entries - 1] ELSE arr[x]
      BY <1>1, SwapType
    <1>3. IsFiniteSet(S) /\ Cardinality(S) = Cardinality(Places(arr, entries, node))
      BY <1>1, SwapPlaces
    <1>4. Cardinality(S) \in Nat
      BY <1>3, FS_CardinalityType
    <1>5. Places(Taken, entries - 1, node) = S \ {entries - 1}
      <2>1. \A i \in 0 .. entries - 2 : Taken[i] = b[i]
        BY <1>1, <1>2, TakenType
      <2> HIDE DEF b
      <2>2. QED
        BY <1>1, <2>1 DEF Places
    <1>6. entries - 1 \in S <=> node = arr[0]
      BY <1>1, <1>2 DEF Places
    <1> HIDE DEF S
    <1>7. /\ IsFiniteSet(S \ {entries - 1})
          /\ Cardinality(S \ {entries - 1})
                 = IF entries - 1 \in S THEN Cardinality(S) - 1 ELSE Cardinality(S)
      BY <1>3, FS_RemoveElement
    <1>8. Cardinality(S \ {entries - 1}) \in Nat
      BY <1>7, FS_CardinalityType
    <1>9. CASE node = arr[0]
      BY <1>3, <1>5, <1>6, <1>7, <1>8, <1>9
    <1>10. CASE node # arr[0]
      <2>1. Cardinality(S \ {entries - 1}) = Cardinality(S)
        BY <1>6, <1>7, <1>10
      <2>2. Cardinality(Places(arr, entries, node)) - 0 = Cardinality(Places(arr, entries, node))
        BY <1>3, <1>4
      <2>3. QED
        BY <1>3, <1>5, <1>8, <1>10, <2>1, <2>2
    <1>11. QED
      BY <1>9, <1>10

LEMMA InsertShape ==
    ASSUME HeapInv, NEW node \in Node, Ins1(node)
    PROVE  arr' = IF entries = 0 THEN Inserted(node) ELSE SiftUp(Inserted(node), entries)
    BY DEF Ins1, Inserted

LEMMA PopShape ==
    ASSUME Pop
    PROVE  arr' = IF entries = 1 THEN Taken ELSE SiftDown(Taken, entries - 1, 0)
    BY DEF Pop, Taken

(***************************************************************************)
(* The invariant.                                                          *)
(***************************************************************************)

LEMMA HeapInvInit == Init => HeapInv
    <1> SUFFICES ASSUME Init PROVE HeapInv
      OBVIOUS
    <1>1. TypeOK
      <2>1. maxentries \in 0 .. MaxLen /\ entries \in 0 .. maxentries
        BY DEF Init
      <2>2. content \in [Node -> Nat] /\ popped \in Node \cup {NoNode}
        BY DEF Init
      <2>3. alive \in BOOLEAN /\ ~alive
        BY DEF Init
      <2>4. QED
        BY <2>1, <2>2, <2>3 DEF TypeOK
    <1>2. NodesKept
      BY DEF Init, NodesKept
    <1>3. QED
      BY <1>1, <1>2 DEF Init, HeapInv

LEMMA InsertKeepsInv ==
    ASSUME HeapInv, NEW node \in Node, Ins1(node)
    PROVE  HeapInv'
    <1>1. /\ alive /\ alive' = alive /\ entries' = entries + 1 /\ maxentries' = Extended
          /\ Extended <= MaxLen /\ content' = [content EXCEPT ![node] = @ + 1]
          /\ popped' = popped
      BY DEF Ins1
    <1>2. /\ Extended \in Nat /\ entries + 1 \in 1 .. Extended /\ maxentries <= Extended
          /\ entries \in Nat /\ entries + 1 \in 0 .. Extended
      BY <1>1, ExtendedHasRoom DEF HeapInv, TypeOK
    <1>3. Inserted(node) \in Array(Extended, entries + 1)
      BY <1>1, InsertedType
    <1>4. arr' \in Array(Extended, entries + 1) /\ SameNodes(arr', Inserted(node), entries + 1)
      <2>1. CASE entries = 0
        BY <1>3, <2>1, InsertShape DEF SameNodes
      <2>2. CASE entries # 0
        <3>1. entries \in 0 .. entries + 1 - 1
          BY <1>2
        <3>2. arr' = SiftUp(Inserted(node), entries)
          BY <2>2, InsertShape
        <3>3. QED
          BY <1>2, <1>3, <3>1, <3>2, SiftsKeepNodes
      <2>3. QED
        BY <2>1, <2>2
    <1>5. TypeOK'
      BY <1>1, <1>2, <1>4 DEF HeapInv, TypeOK
    <1>6. NodesKept'
      <2>1. ASSUME NEW other \in Node
            PROVE  content'[other] = Cardinality(Places(arr', entries + 1, other))
        <3>1. Cardinality(Places(arr', entries + 1, other))
                  = Cardinality(Places(arr, entries, other)) + (IF other = node THEN 1 ELSE 0)
          BY <1>1, <1>4, InsertedCopies DEF SameNodes
        <3>2. content[other] = Cardinality(Places(arr, entries, other)) /\ content \in [Node -> Nat]
          BY <1>1 DEF HeapInv, NodesKept, TypeOK
        <3>3. content'[other] = content[other] + (IF other = node THEN 1 ELSE 0)
          BY <1>1, <3>2
        <3>4. QED
          BY <3>1, <3>2, <3>3
      <2>2. QED
        BY <1>1, <2>1 DEF NodesKept
    <1>7. QED
      BY <1>1, <1>2, <1>5, <1>6 DEF HeapInv, TypeOK

LEMMA PopKeepsInv ==
    ASSUME HeapInv, Pop
    PROVE  HeapInv'
    <1>1. /\ alive /\ alive' = alive /\ entries > 0 /\ entries' = entries - 1
          /\ maxentries' = maxentries /\ popped' = arr[0]
          /\ content' = [content EXCEPT ![arr[0]] = @ - 1]
      BY DEF Pop
    <1>2. /\ entries \in 1 .. maxentries /\ maxentries \in 0 .. MaxLen
          /\ entries - 1 \in 0 .. maxentries /\ maxentries \in Nat
      BY <1>1 DEF HeapInv, TypeOK
    <1>3. Taken \in Array(maxentries, entries - 1) /\ arr[0] \in Node
      BY <1>1, TakenType
    <1>4. arr' \in Array(maxentries, entries - 1) /\ SameNodes(arr', Taken, entries - 1)
      <2>1. CASE entries = 1
        BY <1>3, <2>1, PopShape DEF SameNodes
      <2>2. CASE entries # 1
        <3>1. 0 \in 0 .. entries - 1 - 1
          BY <1>2, <2>2
        <3>2. arr' = SiftDown(Taken, entries - 1, 0)
          BY <2>2, PopShape
        <3>3. QED
          BY <1>2, <1>3, <3>1, <3>2, SiftsKeepNodes
      <2>3. QED
        BY <2>1, <2>2
    <1>5. \A other \in Node :
             /\ content'[other] = Cardinality(Places(arr', entries - 1, other))
             /\ content'[other] \in Nat
      <2> TAKE other \in Node
      <2>1. /\ Cardinality(Places(arr', entries - 1, other))
                   = Cardinality(Places(arr, entries, other)) - (IF other = arr[0] THEN 1 ELSE 0)
            /\ Cardinality(Places(arr', entries - 1, other)) \in Nat
        BY <1>1, <1>4, TakenCopies DEF SameNodes
      <2>2. content[other] = Cardinality(Places(arr, entries, other)) /\ content \in [Node -> Nat]
        BY <1>1 DEF HeapInv, NodesKept, TypeOK
      <2>3. content'[other] = content[other] - (IF other = arr[0] THEN 1 ELSE 0)
        BY <1>1, <1>3, <2>2
      <2>4. QED
        BY <2>1, <2>2, <2>3
    <1>6. content' \in [Node -> Nat]
      <2>1. content \in [Node -> Nat]
        BY DEF HeapInv, TypeOK
      <2>2. QED
        BY <1>1, <1>5, <2>1
    <1>7. QED
      BY <1>1, <1>2, <1>3, <1>4, <1>5, <1>6 DEF HeapInv, TypeOK, NodesKept

LEMMA HeapInvNext == HeapInv /\ [Next]_vars => HeapInv'
    <1> SUFFICES ASSUME HeapInv, [Next]_vars PROVE HeapInv'
      OBVIOUS
    <1>1. CASE InitHeap
      <2>1. arr' = [i \in 0 .. InitLen - 1 |-> NoNode]
        BY <1>1 DEF InitHeap
      <2>2. arr' \in Array(InitLen, 0)
        BY <2>1 DEF Array
      <2>3. \A node \in Node : Places(arr', 0, node) = {}
        BY DEF Places
      <2>4. \A node \in Node : Cardinality(Places(arr', 0, node)) = 0
        BY <2>3, FS_EmptySet
      <2>5. \A node \in Node : content[node] = 0
        BY <1>1 DEF InitHeap, HeapInv, NodesKept
      <2>6. QED
        BY <1>1, <2>2, <2>4, <2>5 DEF InitHeap, HeapInv, TypeOK, NodesKept
    <1>2. ASSUME NEW node \in Node, Ins1(node) PROVE HeapInv'
      BY <1>2, InsertKeepsInv
    <1>3. CASE Ins1NoMemory
      BY <1>3 DEF Ins1NoMemory, Unextended, HeapInv, TypeOK, NodesKept
    <1>4. CASE Pop
      BY <1>4, PopKeepsInv
    <1>5. CASE Del
      BY <1>5 DEF Del, HeapInv, TypeOK, NodesKept
    <1>6. CASE UNCHANGED vars
      BY <1>6 DEF vars, HeapInv, TypeOK, NodesKept
    <1>7. QED
      BY <1>1, <1>2, <1>3, <1>4, <1>5, <1>6 DEF Next

LEMMA HeapInvHolds == Spec => []HeapInv
    <1>1. QED
      BY HeapInvInit, HeapInvNext, PTL DEF Spec

\* Types of the heap: in particular its array has as many nodes in use as it
\* says, and no more than it was allocated (src/minheap.c).
THEOREM HeapTypes == Spec => []TypeOK
    <1>1. HeapInv => TypeOK
      BY DEF HeapInv
    <1>2. QED
      BY <1>1, HeapInvHolds, PTL

\* The heap holds what was inserted and not popped, each node as often and
\* with the value it was inserted with, for every size (iel_mh_ins1,
\* iel_mh_pop and their sifts).
THEOREM HeapKeepsNodes == Spec => []NodesKept
    <1>1. HeapInv => NodesKept
      BY DEF HeapInv
    <1>2. QED
      BY <1>1, HeapInvHolds, PTL

(***************************************************************************)
(* The order.                                                              *)
(***************************************************************************)

LEMMA InsertOrders ==
    ASSUME HeapInv, NEW node \in Node, Ins1(node), Ordered(arr, entries)
    PROVE  Ordered(arr', entries + 1)
    <1>1. alive
      BY DEF Ins1
    <1>2. Extended \in Nat /\ entries + 1 \in 1 .. Extended /\ entries \in Nat
      BY <1>1, ExtendedHasRoom DEF HeapInv, TypeOK
    <1>3. Inserted(node) \in Array(Extended, entries + 1)
      BY <1>1, InsertedType
    <1>4. Ordered(Inserted(node), entries + 1 - 1)
      <2>1. \A x \in 1 .. entries - 1 : arr[Parent(x)].k <= arr[x].k
        BY <1>2, OrderedByParent
      <2>2. \A x \in 1 .. entries - 1 : Parent(x) \in 0 .. entries - 1
        BY <1>2, ParentBelow
      <2>3. \A x \in 1 .. entries - 1 : Inserted(node)[Parent(x)].k <= Inserted(node)[x].k
        BY <1>1, <1>2, <2>1, <2>2, InsertedType
      <2>4. Ordered(Inserted(node), entries)
        BY <1>2, <2>3, OrderedByParent
      <2>5. QED
        BY <1>2, <2>4
    <1>5. CASE entries = 0
      BY <1>5 DEF Ordered
    <1>6. CASE entries # 0
      <2>1. arr' = SiftUp(Inserted(node), entries + 1 - 1)
        BY <1>2, <1>6, InsertShape
      <2>2. QED
        BY <1>2, <1>3, <1>4, <2>1, SiftUpOrders
    <1>7. QED
      BY <1>5, <1>6

LEMMA PopOrders ==
    ASSUME HeapInv, Pop, Ordered(arr, entries), entries > 1,
           \A i \in 0 .. entries - 1 : arr[i].k <= arr[entries - 1].k
    PROVE  Ordered(arr', entries - 1)
    <1> DEFINE n == entries - 1
    <1>1. alive /\ n \in 1 .. maxentries /\ maxentries \in Nat /\ entries \in Nat
      BY DEF Pop, HeapInv, TypeOK
    <1>2. /\ Taken \in Array(maxentries, n)
          /\ \A i \in 0 .. n - 1 : Taken[i] = IF i = 0 THEN arr[n] ELSE arr[i]
      <2>1. \A i \in 0 .. entries - 2 : Taken[i] = IF i = 0 THEN arr[entries - 1] ELSE arr[i]
        BY <1>1, TakenType
      <2>2. 0 .. entries - 2 = 0 .. n - 1
        BY <1>1
      <2>3. Taken \in Array(maxentries, n)
        BY <1>1, TakenType
      <2>4. QED
        BY <2>1, <2>2, <2>3
    <1>3. \A x \in 1 .. entries - 1 : arr[Parent(x)].k <= arr[x].k
      BY <1>1, OrderedByParent
    <1>4. arr' = SiftDown(Taken, n, 0)
      BY <1>1, PopShape
    <1>5. \A i \in 0 .. n : arr[i].k <= arr[n].k
      OBVIOUS
    <1>6. \A x \in 0 .. n - 1 : Taken[x].k <= Taken[0].k
      <2> HIDE DEF n
      <2>1. Taken[0] = arr[n] /\ 0 \in 0 .. n /\ n \in 0 .. n
        BY <1>1, <1>2
      <2>2. QED
        BY <1>1, <1>2, <1>5, <2>1
    <1>7. ASSUME NEW x \in 1 .. n - 1, Parent(x) # 0 PROVE Taken[Parent(x)].k <= Taken[x].k
      <2>1. Parent(x) \in 1 .. n - 1
        BY <1>1, <1>7, ParentBelow
      <2>2. Taken[Parent(x)] = arr[Parent(x)] /\ Taken[x] = arr[x]
        BY <1>2, <2>1
      <2>3. QED
        BY <1>1, <1>3, <2>2
    <1> HIDE DEF n
    <1>8. Ordered(SiftDown(Taken, n, 0), n)
      BY <1>1, <1>2, <1>6, <1>7, SiftDownOrders
    <1>9. QED
      BY <1>4, <1>8 DEF n

LEMMA StepKeepsOrder ==
    ASSUME HeapInv, [Next]_vars, alive, alive', Ordered(arr, entries),
           \/ entries' > entries
           \/ /\ 0 < entries' /\ entries' < entries
              /\ \A i \in 0 .. entries - 1 : arr[i].k <= arr[entries - 1].k
    PROVE  Ordered(arr', entries')
    <1>1. entries \in Nat
      BY DEF HeapInv, TypeOK
    <1>2. ASSUME NEW node \in Node, Ins1(node) PROVE Ordered(arr', entries')
      <2>1. entries' = entries + 1
        BY <1>2 DEF Ins1
      <2>2. QED
        BY <1>2, <2>1, InsertOrders
    <1>3. CASE Pop
      <2>1. entries' = entries - 1
        BY <1>3 DEF Pop
      <2>2. entries > 1 /\ \A i \in 0 .. entries - 1 : arr[i].k <= arr[entries - 1].k
        BY <1>1, <2>1
      <2>3. QED
        BY <1>3, <2>1, <2>2, PopOrders
    <1>4. CASE InitHeap \/ Ins1NoMemory \/ Del \/ UNCHANGED vars
      BY <1>1, <1>4 DEF InitHeap, Ins1NoMemory, Del, vars
    <1>5. QED
      BY <1>2, <1>3, <1>4 DEF Next

\* For every size and shape of the heap: sift-up puts an inserted node where
\* it belongs, and sift-down the last node when its key is the greatest
\* (iel_mh_sup, iel_mh_sdn).
THEOREM HeapKeepsOrder == Spec => OrderKept
    <1>1. HeapInv /\ [Next]_vars =>
            [/\ alive /\ alive' /\ Ordered(arr, entries)
             /\ \/ entries' > entries
                \/ /\ 0 < entries' /\ entries' < entries
                   /\ \A i \in 0 .. entries - 1 : arr[i].k <= arr[entries - 1].k
             => Ordered(arr', entries')]_vars
      BY StepKeepsOrder
    <1>2. QED
      BY <1>1, HeapInvHolds, PTL DEF Spec, OrderKept
=============================================================================
