----------------------------- MODULE LoopFacts -----------------------------
(***************************************************************************)
(* Induction over the natural numbers, from the theorem that they are well *)
(* founded (a set of numbers stands for the induction hypothesis), and     *)
(* what follows for loops.                                                 *)
(***************************************************************************)
EXTENDS Loops, Integers, WellFoundedInduction, TLAPS

LEMMA NatLess == \A m, n \in Nat : m < n => <<m, n>> \in OpToRel(<, Nat)
    BY DEF OpToRel

LEMMA LeastNat ==
    ASSUME NEW T, T \subseteq Nat, T # {}
    PROVE  \E n \in T : \A m \in T : n <= m
    <1>1. PICK n \in T : \A m \in T : ~(<<m, n>> \in OpToRel(<, Nat))
      BY WFMin, NatLessThanWellFounded
    <1>2. \A m \in T : ~(m < n)
      BY <1>1, NatLess
    <1>3. QED
      BY <1>2

\* A set of numbers with 0 and the successors of its members is all of Nat.
LEMMA Induction ==
    ASSUME NEW T, 0 \in T, \A n \in Nat : n \in T => n + 1 \in T
    PROVE  Nat \subseteq T
    <1> SUFFICES ASSUME Nat \ T # {} PROVE FALSE
      OBVIOUS
    <1>1. PICK n \in Nat \ T : \A m \in Nat \ T : n <= m
      BY LeastNat
    <1>2. n # 0 /\ n - 1 \in Nat /\ n - 1 \in T
      BY <1>1
    <1>3. n - 1 + 1 = n
      BY <1>1
    <1>4. QED
      BY <1>1, <1>2, <1>3

----------------------------------------------------------------------------

\* f is the first n iterations.
Runs(f, n, body, s) ==
    /\ f = [k \in 0 .. n |-> f[k]]
    /\ f[0] = s
    /\ \A k \in 1 .. n : f[k] = body[f[k - 1]]

LEMMA RunExists ==
    ASSUME NEW body, NEW s
    PROVE  \A n \in Nat : \E f : Runs(f, n, body, s)
    <1> DEFINE T == {n \in Nat : \E f : Runs(f, n, body, s)}
    <1>1. 0 \in T
      <2> DEFINE f == [k \in 0 .. 0 |-> s]
      <2>1. Runs(f, 0, body, s)
        BY DEF Runs
      <2>2. QED
        BY <2>1
    <1>2. ASSUME NEW n \in Nat, n \in T PROVE n + 1 \in T
      <2>1. PICK f : Runs(f, n, body, s)
        BY <1>2
      <2> DEFINE g == [k \in 0 .. n + 1 |-> IF k = n + 1 THEN body[f[n]] ELSE f[k]]
      <2>2. g[0] = s /\ g = [k \in 0 .. n + 1 |-> g[k]]
        BY <2>1 DEF Runs
      <2>3. ASSUME NEW k \in 1 .. n + 1 PROVE g[k] = body[g[k - 1]]
        <3>1. k - 1 \in 0 .. n /\ g[k - 1] = f[k - 1]
          OBVIOUS
        <3>2. CASE k = n + 1
          BY <3>1, <3>2
        <3>3. CASE k # n + 1
          <4>1. k \in 1 .. n /\ g[k] = f[k]
            BY <3>3
          <4>2. \A j \in 1 .. n : f[j] = body[f[j - 1]]
            BY <2>1 DEF Runs
          <4>3. f[k] = body[f[k - 1]]
            BY <4>1, <4>2
          <4> HIDE DEF g
          <4>4. QED
            BY <3>1, <4>1, <4>3
        <3>4. QED
          BY <3>2, <3>3
      <2>4. Runs(g, n + 1, body, s)
        BY <2>2, <2>3 DEF Runs
      <2>5. QED
        BY <2>4
    <1>3. QED
      <2> HIDE DEF T
      <2>1. Nat \subseteq T
        BY <1>1, <1>2, Induction
      <2>2. QED
        BY <2>1 DEF T

LEMMA RunUnique ==
    ASSUME NEW body, NEW s, NEW m \in Nat, NEW n \in Nat,
           NEW f, Runs(f, m, body, s), NEW g, Runs(g, n, body, s)
    PROVE  \A k \in Nat : k <= m /\ k <= n => f[k] = g[k]
    <1> DEFINE T == {k \in Nat : k <= m /\ k <= n => f[k] = g[k]}
    <1>1. 0 \in T
      BY DEF Runs
    <1>2. ASSUME NEW k \in Nat, k \in T PROVE k + 1 \in T
      <2> SUFFICES ASSUME k + 1 <= m, k + 1 <= n PROVE f[k + 1] = g[k + 1]
        OBVIOUS
      <2>1. f[k] = g[k]
        BY <1>2
      <2>2. k + 1 \in 1 .. m /\ k + 1 \in 1 .. n /\ k + 1 - 1 = k
        OBVIOUS
      <2>3. /\ \A j \in 1 .. m : f[j] = body[f[j - 1]]
            /\ \A j \in 1 .. n : g[j] = body[g[j - 1]]
        BY DEF Runs
      <2>4. f[k + 1] = body[f[k]] /\ g[k + 1] = body[g[k]]
        BY <2>2, <2>3
      <2>5. QED
        BY <2>1, <2>4
    <1>3. QED
      <2> HIDE DEF T
      <2>1. Nat \subseteq T
        BY <1>1, <1>2, Induction
      <2>2. QED
        BY <2>1 DEF T

\* What a loop does, one iteration at a time.
LEMMA AfterStep ==
    ASSUME NEW body, NEW s
    PROVE  /\ After(0, body, s) = s
           /\ \A n \in Nat : After(n + 1, body, s) = body[After(n, body, s)]
    <1> DEFINE F(f) == [k \in Nat |-> IF k = 0 THEN s ELSE body[f[k - 1]]]
               loop == CHOOSE f : f = F(f)
               r(n) == CHOOSE f : Runs(f, n, body, s)
               w == [n \in Nat |-> r(n)[n]]
    <1>1. \A n \in Nat : Runs(r(n), n, body, s)
      BY RunExists
    <1>2. ASSUME NEW n \in Nat PROVE w[n] = IF n = 0 THEN s ELSE body[w[n - 1]]
      <2>1. CASE n = 0
        BY <1>1, <2>1 DEF Runs
      <2>2. CASE n # 0
        <3>1. n - 1 \in Nat /\ n \in 1 .. n
          BY <2>2
        <3>2. r(n)[n - 1] = r(n - 1)[n - 1]
          <4>1. Runs(r(n), n, body, s) /\ Runs(r(n - 1), n - 1, body, s)
            BY <1>1, <3>1
          <4> HIDE DEF r
          <4>2. \A k \in Nat : k <= n /\ k <= n - 1 => r(n)[k] = r(n - 1)[k]
            BY <3>1, <4>1, RunUnique
          <4>3. QED
            BY <3>1, <4>2
        <3>3. r(n)[n] = body[r(n)[n - 1]]
          BY <1>1, <3>1 DEF Runs
        <3>4. QED
          BY <2>2, <3>1, <3>2, <3>3
      <2>3. QED
        BY <2>1, <2>2
    <1>3. w = F(w)
      <2> HIDE DEF r
      <2>1. QED
        BY <1>2
    <1>4. loop = F(loop)
      <2> HIDE DEF w, F
      <2>1. \E f : f = F(f)
        BY <1>3
      <2>2. QED
        BY <2>1
    <1>5. \A n \in Nat : After(n, body, s) = loop[n]
      BY DEF After
    <1>6. \A n \in Nat : loop[n] = IF n = 0 THEN s ELSE body[loop[n - 1]]
      <2> HIDE DEF loop
      <2>1. QED
        BY <1>4
    <1>7. QED
      <2> HIDE DEF loop
      <2>1. After(0, body, s) = s
        BY <1>5, <1>6
      <2>2. ASSUME NEW n \in Nat PROVE After(n + 1, body, s) = body[After(n, body, s)]
        <3>1. n + 1 \in Nat /\ n + 1 # 0 /\ n + 1 - 1 = n
          OBVIOUS
        <3>2. QED
          BY <1>5, <1>6, <3>1
      <2>3. QED
        BY <2>1, <2>2

LEMMA AfterNext ==
    ASSUME NEW body, NEW s, NEW n \in Nat
    PROVE  After(n + 1, body, s) = body[After(n, body, s)]
    BY AfterStep, Zenon

\* A set that the loop starts in and that no iteration leaves.
LEMMA AfterInvariant ==
    ASSUME NEW body, NEW s, NEW T, s \in T, \A x \in T : body[x] \in T
    PROVE  \A n \in Nat : After(n, body, s) \in T
    <1> DEFINE U == {n \in Nat : After(n, body, s) \in T}
    <1>1. 0 \in U
      BY AfterStep
    <1>2. ASSUME NEW n \in Nat, n \in U PROVE n + 1 \in U
      <2>1. After(n + 1, body, s) = body[After(n, body, s)]
        BY <1>2, AfterNext
      <2>2. QED
        BY <1>2, <2>1
    <1>3. QED
      <2> HIDE DEF U
      <2>1. Nat \subseteq U
        BY <1>1, <1>2, Induction
      <2>2. QED
        BY <2>1 DEF U

\* A loop has ended once it has gone on for as long as its measure m allows:
\* another iteration changes nothing.
LEMMA LoopEnds ==
    ASSUME NEW body, NEW s, NEW T, s \in T, \A x \in T : body[x] \in T,
           NEW m \in [T -> Nat], \A x \in T : body[x] = x \/ m[body[x]] < m[x]
    PROVE  \A n \in Nat : n >= m[s] => body[After(n, body, s)] = After(n, body, s)
    <1> DEFINE x(n) == After(n, body, s)
               U == {n \in Nat : body[x(n)] = x(n) \/ m[x(n)] + n <= m[s]}
    <1>1. \A n \in Nat : x(n) \in T
      BY AfterInvariant
    <1>2. \A n \in Nat : x(n + 1) = body[x(n)]
      BY AfterNext
    <1>3. \A n \in Nat : m[x(n)] \in Nat
      BY <1>1
    <1>4. x(0) = s
      BY AfterStep
    <1> HIDE DEF x
    <1>5. 0 \in U
      BY <1>3, <1>4
    <1>6. ASSUME NEW n \in Nat, n \in U PROVE n + 1 \in U
      <2>1. CASE body[x(n)] = x(n)
        <3>1. x(n + 1) = x(n)
          BY <1>2, <2>1
        <3>2. QED
          BY <2>1, <3>1
      <2>2. CASE body[x(n)] # x(n)
        <3>1. m[x(n)] + n <= m[s]
          BY <1>6, <2>2
        <3>2. m[x(n + 1)] < m[x(n)]
          BY <1>1, <1>2, <2>2
        <3>3. m[x(n)] \in Nat /\ m[x(n + 1)] \in Nat /\ m[s] \in Nat
          BY <1>3
        <3>4. m[x(n + 1)] + (n + 1) <= m[s]
          BY <3>1, <3>2, <3>3
        <3>5. QED
          BY <3>4
      <2>3. QED
        BY <2>1, <2>2
    <1>7. \A n \in Nat : n \in U
      <2> HIDE DEF U
      <2>1. Nat \subseteq U
        BY <1>5, <1>6, Induction
      <2>2. QED
        BY <2>1
    <1>8. ASSUME NEW n \in Nat, n >= m[s] PROVE body[x(n)] = x(n)
      <2>1. CASE body[x(n)] = x(n)
        BY <2>1
      <2>2. CASE m[x(n)] + n <= m[s]
        <3>1. m[x(n)] \in Nat /\ m[x(n + 1)] \in Nat /\ m[s] \in Nat
          BY <1>3
        <3>2. m[x(n)] = 0
          BY <1>8, <2>2, <3>1
        <3>3. ~(m[x(n + 1)] < m[x(n)])
          BY <3>1, <3>2
        <3>4. QED
          BY <1>1, <1>2, <3>3
      <2>3. QED
        BY <1>7, <2>1, <2>2
    <1>9. QED
      BY <1>8 DEF x
=============================================================================
