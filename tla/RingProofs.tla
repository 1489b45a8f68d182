----------------------------- MODULE RingProofs -----------------------------
(***************************************************************************)
(* Proofs about IouLoop for all sizes of the rings, tasks and links: while *)
(* no signal ends the wait and callers keep the overflow within what one   *)
(* flush preserves, neither ring overruns and the CQ is not read empty.    *)
(***************************************************************************)
EXTENDS IouLoop, SequenceTheorems, WellFoundedInduction, TLAPS

Counter == 0 .. W - 1

----------------------------------------------------------------------------
(* Counters and slots.  P is the size of either ring, which divides W. *)

LEMMA WNat == W \in Nat \ {0} /\ N \in Nat \ {0} /\ M \in Nat \ {0} /\ N < W /\ M < W
    BY LoopAssumption

LEMMA CounterFacts ==
    ASSUME NEW a \in Counter, NEW b \in Counter
    PROVE  /\ Dist(a, b) \in Counter
           /\ Dist(a, b) = 0 <=> a = b
           /\ Plus(a, Dist(a, b)) = b
    BY WNat DEF Counter, Dist, Plus

LEMMA PlusFacts ==
    ASSUME NEW a \in Counter, NEW b \in Counter, NEW k \in Nat, Dist(a, b) + k < W
    PROVE  /\ Plus(b, k) \in Counter
           /\ Dist(a, Plus(b, k)) = Dist(a, b) + k
    BY WNat DEF Counter, Dist, Plus

\* Of three counters in the order of the ring the distances add up.
LEMMA Between ==
    ASSUME NEW a \in Counter, NEW b \in Counter, NEW c \in Counter, Dist(a, b) <= Dist(a, c)
    PROVE  Dist(a, b) + Dist(b, c) = Dist(a, c)
    BY WNat DEF Counter, Dist

LEMMA ModFacts ==
    ASSUME NEW P \in Nat \ {0}, NEW x \in Nat
    PROVE  /\ x \div P \in Nat /\ x % P \in 0 .. P - 1
           /\ x = P * (x \div P) + (x % P)
    OBVIOUS

\* Fewer than P steps lead to another slot.
LEMMA SlotsDiffer ==
    ASSUME NEW P \in Nat \ {0}, NEW x \in Nat, NEW y \in Nat, x < y, y < x + P
    PROVE  x % P # y % P
    <1> DEFINE a == x \div P
               b == y \div P
               r == x % P
               s == y % P
    <1>1. a \in Nat /\ r \in 0 .. P - 1 /\ x = P * a + r
      BY ModFacts
    <1>2. b \in Nat /\ s \in 0 .. P - 1 /\ y = P * b + s
      BY ModFacts
    <1> HIDE DEF a, b, r, s
    <1>3. SUFFICES ASSUME r = s PROVE FALSE
      BY DEF r, s
    <1>4. P * a \in Nat /\ P * b \in Nat /\ P * a < P * b /\ P * b < P * a + P
      BY <1>1, <1>2, <1>3
    <1>5. CASE b <= a
      <2>1. P * b <= P * a
        BY <1>5, <1>1, <1>2
      <2>2. QED
        BY <2>1, <1>4
    <1>6. CASE b >= a + 1
      <2>1. P * b >= P * (a + 1)
        BY <1>6, <1>1, <1>2
      <2>2. P * (a + 1) = P * a + P
        BY <1>1
      <2>3. QED
        BY <2>1, <2>2, <1>4
    <1>7. QED
      BY <1>1, <1>2, <1>5, <1>6

\* A quotient and a remainder are those of their number.
LEMMA ModUnique ==
    ASSUME NEW P \in Nat \ {0}, NEW q \in Nat, NEW r \in 0 .. P - 1
    PROVE  (P * q + r) % P = r
    <1> DEFINE n == P * q + r
               k == n \div P
               m == n % P
    <1>1. P * q \in Nat /\ n \in Nat
      BY SMT
    <1>2. k \in Nat /\ m \in 0 .. P - 1 /\ n = P * k + m
      BY <1>1, ModFacts
    <1> HIDE DEF k, m
    <1>3. P * k \in Nat /\ P * k + m = P * q + r
      BY <1>2
    <1>4. CASE k >= q + 1
      <2>1. P * k >= P * (q + 1) /\ P * (q + 1) = P * q + P
        BY <1>4, <1>2
      <2>2. QED
        BY <2>1, <1>1, <1>2, <1>3
    <1>5. CASE q >= k + 1
      <2>1. P * q >= P * (k + 1) /\ P * (k + 1) = P * k + P
        BY <1>5, <1>2
      <2>2. QED
        BY <2>1, <1>1, <1>2, <1>3
    <1>6. CASE k = q
      BY <1>6, <1>1, <1>2, <1>3 DEF k, m
    <1>7. QED
      BY <1>2, <1>4, <1>5, <1>6

\* The slot of a counter does not change when the counter wraps.
LEMMA SlotWraps ==
    ASSUME NEW P \in Nat \ {0}, W % P = 0, NEW x \in Nat
    PROVE  (x + W) % P = x % P
    <1> DEFINE a == x \div P
               r == x % P
               w == W \div P
    <1>1. a \in Nat /\ r \in 0 .. P - 1 /\ x = P * a + r
      BY ModFacts
    <1>2. w \in Nat /\ W = P * w
      BY WNat, ModFacts
    <1> HIDE DEF a, r, w
    <1>3. PICK q \in Nat : q = a + w
      BY <1>1, <1>2
    <1>4. P * q = P * a + P * w
      BY <1>1, <1>2, <1>3
    <1>5. x + W = P * q + r
      <2>1. P * a \in Nat /\ P * w \in Nat
        BY <1>1, <1>2
      <2>2. QED
        BY <2>1, <1>1, <1>2, <1>4
    <1>6. (P * q + r) % P = r
      BY <1>1, <1>3, ModUnique
    <1>7. QED
      BY <1>5, <1>6 DEF r

LEMMA PlusSlot ==
    ASSUME NEW P \in Nat \ {0}, W % P = 0,
           NEW a \in Counter, NEW k \in 0 .. W, NEW j \in Nat
    PROVE  (Plus(a, k) + j) % P = (a + k + j) % P
    <1>1. CASE a + k < W
      <2>1. Plus(a, k) = a + k
        BY <1>1, WNat DEF Plus, Counter
      <2>2. QED
        BY <2>1
    <1>2. CASE a + k >= W
      <2>1. PICK x \in Nat : x = a + k - W + j
        BY <1>2, WNat DEF Counter
      <2>2. Plus(a, k) + j = x /\ a + k + j = x + W
        BY <1>2, <2>1, WNat DEF Plus, Counter
      <2>3. (x + W) % P = x % P
        BY <2>1, SlotWraps
      <2>4. QED
        BY <2>2, <2>3
    <1>3. QED
      BY <1>1, <1>2, WNat DEF Counter

\* What lies at distance Dist(a, b) + j from a is what lies at j from b.
LEMMA DistSlot ==
    ASSUME NEW P \in Nat \ {0}, W % P = 0,
           NEW a \in Counter, NEW b \in Counter, NEW j \in Nat
    PROVE  (b + j) % P = (a + Dist(a, b) + j) % P
    <1>1. Dist(a, b) \in Counter /\ Plus(a, Dist(a, b)) = b
      BY CounterFacts
    <1> DEFINE d == Dist(a, b)
    <1>d. d \in 0 .. W
      <2> HIDE DEF d
      <2>1. d \in Counter
        BY <1>1 DEF d
      <2>2. QED
        BY <2>1, WNat DEF Counter
    <1>2. (Plus(a, Dist(a, b)) + j) % P = (a + Dist(a, b) + j) % P
      BY <1>1, <1>d, PlusSlot
    <1>3. QED
      BY <1>1, <1>2

----------------------------------------------------------------------------
(* What a flush takes *)

\* A set of numbers up to b has a greatest.
LEMMA Greatest ==
    ASSUME NEW b \in Nat, NEW S, S \subseteq 1 .. b, S # {}
    PROVE  \E k \in S : \A j \in S : j <= k
    <1> DEFINE T == {x \in Nat : b - x \in S}
               R == OpToRel(<, Nat)
    <1>1. T \subseteq Nat /\ T # {}
      <2>1. PICK k \in S : k \in 1 .. b
        OBVIOUS
      <2>2. b - k \in Nat /\ b - (b - k) = k
        BY <2>1
      <2>3. QED
        BY <2>1, <2>2
    <1>2. PICK x \in T : \A y \in T : <<y, x>> \notin R
      BY <1>1, NatLessThanWellFounded, WFMin
    <1>less. \A y \in Nat : <<y, x>> \notin R => ~(y < x)
      BY <1>2, Zenon DEF OpToRel
    <1> HIDE DEF R
    <1>3. ASSUME NEW j \in S PROVE j <= b - x
      <2>1. j \in 1 .. b /\ b - j \in T /\ b - j \in Nat
        <3>1. j \in 1 .. b
          OBVIOUS
        <3>2. b - j \in Nat /\ b - (b - j) = j
          BY <3>1
        <3>3. QED
          BY <3>1, <3>2
      <2>2. <<b - j, x>> \notin R
        BY <1>2, <2>1
      <2>3. ~(b - j < x)
        BY <2>1, <2>2, <1>less
      <2>4. QED
        BY <2>1, <2>3, <1>2
    <1>4. QED
      BY <1>2, <1>3

LEMMA SafePopBound ==
    ASSUME NEW s \in Seq(Req)
    PROVE  SafePop(s) \in 0 .. Smaller(Len(s), N) /\ SafePop(s) <= N /\ SafePop(s) <= Len(s)
    <1> DEFINE b == Smaller(Len(s), N)
               ends == {k \in 1 .. b : s[k] \notin {r \in Req : HasLinkFlag(r)}}
    <1>1. b \in Nat /\ b <= N /\ b <= Len(s)
      BY WNat, LenProperties DEF Smaller
    <1>2. SafePop(s) = IF ends = {} THEN 0 ELSE CHOOSE k \in ends : \A j \in ends : j <= k
      BY DEF SafePop, UnlinkedPrefix
    <1>3. ends \subseteq 1 .. b
      OBVIOUS
    <1>4. ends # {} => \E k \in ends : \A j \in ends : j <= k
      <2> HIDE DEF b, ends
      <2>1. QED
        BY <1>1, <1>3, Greatest
    <1>5. SafePop(s) = 0 \/ SafePop(s) \in ends
      BY <1>2, <1>4
    <1>6. SafePop(s) \in 0 .. b
      <2> HIDE DEF b, ends
      <2>1. CASE SafePop(s) = 0
        BY <2>1, <1>1
      <2>2. CASE SafePop(s) \in ends
        <3>1. SafePop(s) \in 1 .. b
          BY <2>2, <1>3
        <3>2. QED
          BY <3>1, <1>1
      <2>3. QED
        BY <2>1, <2>2, <1>5
    <1>7. QED
      <2> HIDE DEF ends
      <2>1. QED
        BY <1>1, <1>6, WNat, LenProperties

----------------------------------------------------------------------------
(* The inductive invariant *)

\* A callback stands where its CQE was consumed and is not yet passed.
Called == pc = "cb" /\ ret = "cq"

RingTypes ==
    /\ sq \in [0 .. N - 1 -> Slot] /\ cq \in [0 .. M - 1 -> Slot]
    /\ sring_head \in Counter /\ sring_tail \in Counter /\ lcl_stail \in Counter
    /\ cring_head \in Counter /\ cring_tail \in Counter /\ lcl_chead \in Counter
    /\ sqofq \in [items : Seq(Req), off : Nat]
    /\ ret \in {"app", "prep", "soon", "cq", "cqsoon"}
    /\ kernel \subseteq Seq(Req) \ {<<>>}
    /\ backlog \in Seq(Req)

\* The SQEs between the kernel's head and the loop's tail are requests.
SqSound ==
    /\ SqEnts <= N /\ Dist(sring_head, sring_tail) <= SqEnts
    /\ \A k \in 0 .. SqEnts - 1 : sq[(sring_head + k) % N] \in Req

\* While lrun1 waits the SQ is empty, or there is nothing to flush into it;
\* and what there is to flush fits behind the tail without wrapping.
FlushFits ==
    /\ pc = "wait" => SqEnts = 0 \/ sqofq.items = <<>>
    /\ sqofq.items = <<>> \/ Len(sqofq.items) <= N - (lcl_stail % N)

\* So are the CQEs between the loop's head and the kernel's tail, other than
\* the one whose callback runs.
CqSound ==
    /\ Dist(cring_head, cring_tail) <= M
    /\ Dist(cring_head, lcl_chead) <= Dist(cring_head, cring_tail)
    /\ \A k \in 0 .. CqEnts - 1 : cq[(lcl_chead + k) % M] \in Req \/ (k = 0 /\ Called)

\* While lrun1 waits it has passed what it published, and where it dispatches
\* it stands on a CQE.
Dispatches ==
    /\ pc = "wait" => cring_head = lcl_chead
    /\ pc \in {"cq", "cqsoon"} => lcl_chead # cring_tail
    /\ pc = "cb" /\ ret \in {"cq", "cqsoon"} => lcl_chead # cring_tail

SqInv == SqSound /\ FlushFits
CqInv == CqSound /\ Dispatches
RInv == RingTypes /\ SqInv /\ CqInv

----------------------------------------------------------------------------
(* What is in the rings *)

LEMMA Rings ==
    /\ W % N = 0 /\ W % M = 0 /\ Stale \notin Req
    /\ \A x \in Nat : x % N \in 0 .. N - 1 /\ x % M \in 0 .. M - 1
    <1>1. W % N = 0 /\ W % M = 0 /\ Stale \notin Req
      BY LoopAssumption DEF Req
    <1>2. ASSUME NEW x \in Nat PROVE x % N \in 0 .. N - 1 /\ x % M \in 0 .. M - 1
      BY WNat, ModFacts
    <1>3. QED
      BY <1>1, <1>2

LEMMA HeldFacts ==
    ASSUME RingTypes, SqSound
    PROVE  /\ SqEnts \in Nat
           /\ SqHeld \in Seq(Req) /\ Len(SqHeld) = SqEnts
           /\ \A k \in 1 .. SqEnts : SqHeld[k] = sq[(sring_head + k - 1) % N] /\ SqHeld[k] \in Req
    <1>1. SqEnts \in Nat
      <2>1. SqEnts \in Counter
        BY CounterFacts DEF SqEnts, RingTypes
      <2>2. QED
        BY <2>1, WNat DEF Counter
    <1>2. ASSUME NEW k \in 1 .. SqEnts PROVE sq[(sring_head + k - 1) % N] \in Req
      <2>1. PICK j \in 0 .. SqEnts - 1 : j = k - 1
        BY <1>1
      <2>2. sq[(sring_head + j) % N] \in Req
        BY <2>1 DEF SqSound
      <2>3. sring_head + k - 1 = sring_head + j
        BY <2>1, <1>1, WNat DEF RingTypes, Counter
      <2>4. QED
        BY <2>2, <2>3
    <1>3. SqHeld \in Seq(Req) /\ Len(SqHeld) = SqEnts
      <2>1. SqHeld \in [1 .. SqEnts -> Req]
        BY <1>2 DEF SqHeld
      <2>2. QED
        BY <1>1, <2>1
    <1>4. QED
      BY <1>1, <1>2, <1>3 DEF SqHeld

\* CQEs are posted behind those that are there, as many as there is room for.
LEMMA PostedFacts ==
    ASSUME NEW ring \in [0 .. M - 1 -> Slot], NEW t \in Counter, NEW h \in Counter,
           Dist(h, t) <= M, NEW uds \in Seq(Req)
    PROVE  LET p == Posted(ring, t, h, uds)
               n == Smaller(M - Dist(h, t), Len(uds))
           IN  /\ n \in Nat /\ Dist(h, t) + n <= M
               /\ p.ring \in [0 .. M - 1 -> Slot]
               /\ p.tail = Plus(t, n)
               /\ p.rest \in Seq(Req)
               /\ \A i \in 0 .. M - 1 : ring[i] \in Req => p.ring[i] \in Req
               /\ \A k \in 0 .. n - 1 : p.ring[(t + k) % M] \in Req
    <1> DEFINE p == Posted(ring, t, h, uds)
               n == Smaller(M - Dist(h, t), Len(uds))
               Hit(i) == \E k \in 1 .. n : (t + k - 1) % M = i
               At(i) == CHOOSE k \in 1 .. n : (t + k - 1) % M = i
    <1>1. n \in Nat /\ Dist(h, t) + n <= M /\ n <= Len(uds)
      <2>1. Dist(h, t) \in Nat
        <3>1. Dist(h, t) \in Counter
          BY CounterFacts
        <3>2. QED
          BY <3>1, WNat DEF Counter
      <2>2. QED
        BY <2>1, WNat, LenProperties DEF Smaller
    <1>2. /\ p.ring = [i \in 0 .. M - 1 |-> IF Hit(i) THEN uds[At(i)] ELSE ring[i]]
          /\ p.tail = Plus(t, n)
          /\ p.rest = SubSeq(uds, n + 1, Len(uds))
      BY DEF Posted
    <1> HIDE DEF p, n
    <1>3. ASSUME NEW i, Hit(i) PROVE uds[At(i)] \in Req
      <2>1. At(i) \in 1 .. n
        BY <1>3
      <2>2. At(i) \in 1 .. Len(uds)
        <3> HIDE DEF At
        <3>1. QED
          BY <2>1, <1>1, LenProperties
      <2>3. QED
        BY <2>2, ElementOfSeq
    <1>4. p.rest \in Seq(Req)
      <2>1. \A i \in n + 1 .. Len(uds) : uds[i] \in Req
        BY <1>1, LenProperties, ElementOfSeq
      <2>2. QED
        BY <1>1, <1>2, <2>1, LenProperties, SubSeqProperties
    <1>5. \A i \in 0 .. M - 1 : p.ring[i] = IF Hit(i) THEN uds[At(i)] ELSE ring[i]
      BY <1>2
    <1>6. p.ring \in [0 .. M - 1 -> Slot]
      <2>1. \A i \in 0 .. M - 1 : (IF Hit(i) THEN uds[At(i)] ELSE ring[i]) \in Slot
        <3> HIDE DEF Hit, At
        <3>1. QED
          BY <1>3 DEF Slot
      <2>2. QED
        <3> HIDE DEF Hit, At
        <3>1. QED
          BY <1>2, <2>1
    <1>7. ASSUME NEW k \in 0 .. n - 1 PROVE p.ring[(t + k) % M] \in Req
      <2>1. (t + k) % M \in 0 .. M - 1
        <3>1. t + k \in Nat
          BY <1>1, WNat DEF Counter
        <3>2. QED
          BY <3>1, Rings
      <2>2. k + 1 \in 1 .. n /\ t + (k + 1) - 1 = t + k
        BY <1>1, WNat DEF Counter
      <2>3. Hit((t + k) % M)
        BY <2>2
      <2>4. QED
        <3> HIDE DEF Hit, At
        <3>1. QED
          BY <2>1, <2>3, <1>3, <1>5
    <1>8. \A i \in 0 .. M - 1 : ring[i] \in Req => p.ring[i] \in Req
      <2> HIDE DEF Hit, At
      <2>1. QED
        BY <1>3, <1>5
    <1>9. QED
      BY <1>1, <1>2, <1>4, <1>6, <1>7, <1>8 DEF p, n

\* Behind the head l of the loop nothing is lost and only requests come.  (The
\* first CQE may be one that was consumed.)
LEMMA CqGrows ==
    ASSUME NEW ring \in [0 .. M - 1 -> Slot], NEW t \in Counter, NEW h \in Counter,
           NEW l \in Counter, NEW uds \in Seq(Req), NEW first \in {0, 1},
           Dist(h, t) <= M, Dist(h, l) <= Dist(h, t),
           \A k \in first .. Dist(l, t) - 1 : ring[(l + k) % M] \in Req
    PROVE  LET p == Posted(ring, t, h, uds)
           IN  /\ p.ring \in [0 .. M - 1 -> Slot]
               /\ p.tail \in Counter
               /\ p.rest \in Seq(Req)
               /\ Dist(h, p.tail) <= M
               /\ Dist(h, l) <= Dist(h, p.tail)
               /\ l # t => l # p.tail
               /\ \A k \in first .. Dist(l, p.tail) - 1 : p.ring[(l + k) % M] \in Req
    <1> DEFINE p == Posted(ring, t, h, uds)
               n == Smaller(M - Dist(h, t), Len(uds))
    <1>1. /\ n \in Nat /\ Dist(h, t) + n <= M
          /\ p.ring \in [0 .. M - 1 -> Slot]
          /\ p.tail = Plus(t, n)
          /\ p.rest \in Seq(Req)
          /\ \A i \in 0 .. M - 1 : ring[i] \in Req => p.ring[i] \in Req
          /\ \A k \in 0 .. n - 1 : p.ring[(t + k) % M] \in Req
      BY PostedFacts
    <1> HIDE DEF p, n
    <1>2. /\ Dist(h, t) \in Nat /\ Dist(h, l) \in Nat /\ Dist(l, t) \in Nat
          /\ Dist(h, l) + Dist(l, t) = Dist(h, t)
      <2>1. Dist(h, t) \in Counter /\ Dist(h, l) \in Counter /\ Dist(l, t) \in Counter
        BY CounterFacts
      <2>2. QED
        BY <2>1, Between, WNat DEF Counter
    <1>3. /\ p.tail \in Counter
          /\ Dist(h, p.tail) = Dist(h, t) + n
          /\ Dist(l, p.tail) = Dist(l, t) + n
      <2>1. Dist(h, t) + n < W /\ Dist(l, t) + n < W
        BY <1>1, <1>2, WNat
      <2>2. QED
        BY <1>1, <2>1, PlusFacts
    <1>4. Dist(h, p.tail) <= M /\ Dist(h, l) <= Dist(h, p.tail)
      BY <1>1, <1>2, <1>3, WNat
    <1>5. l # t => l # p.tail
      <2>1. ASSUME l # t, l = p.tail PROVE FALSE
        <3>1. Dist(l, t) # 0 /\ Dist(l, p.tail) = 0
          BY <2>1, <1>3, CounterFacts
        <3>2. QED
          BY <3>1, <1>1, <1>2, <1>3
      <2>2. QED
        BY <2>1
    <1>6. ASSUME NEW k \in first .. Dist(l, p.tail) - 1
          PROVE  p.ring[(l + k) % M] \in Req
      <2>0. k \in Nat /\ k < Dist(l, t) + n /\ (l + k) % M \in 0 .. M - 1
        <3>1. k \in Nat /\ k < Dist(l, t) + n
          BY <1>1, <1>2, <1>3
        <3>2. l + k \in Nat
          BY <3>1, WNat DEF Counter
        <3>3. QED
          BY <3>1, <3>2, Rings
      <2>1. CASE k < Dist(l, t)
        <3>1. k \in first .. Dist(l, t) - 1
          BY <2>0, <2>1, <1>2
        <3>2. ring[(l + k) % M] \in Req
          BY <3>1
        <3>3. QED
          BY <2>0, <3>2, <1>1
      <2>2. CASE k >= Dist(l, t)
        <3>1. PICK j \in 0 .. n - 1 : k = Dist(l, t) + j
          <4>1. k - Dist(l, t) \in 0 .. n - 1 /\ k = Dist(l, t) + (k - Dist(l, t))
            BY <2>0, <2>2, <1>1, <1>2
          <4>2. QED
            BY <4>1
        <3>2. (t + j) % M = (l + Dist(l, t) + j) % M
          <4>1. j \in Nat
            BY <1>1, <3>1
          <4>2. W % M = 0 /\ M \in Nat \ {0}
            BY Rings, WNat
          <4>3. QED
            BY <4>1, <4>2, DistSlot
        <3>3. l + k = l + Dist(l, t) + j
          <4>1. l \in Nat /\ j \in Nat /\ Dist(l, t) \in Nat
            BY <3>1, <1>1, <1>2, WNat DEF Counter
          <4>2. QED
            BY <3>1, <4>1
        <3>4. p.ring[(t + j) % M] \in Req
          BY <1>1, <3>1
        <3>5. QED
          BY <3>2, <3>3, <3>4
      <2>3. QED
        BY <2>0, <2>1, <2>2, <1>2
    <1>7. QED
      BY <1>1, <1>3, <1>4, <1>5, <1>6 DEF p

----------------------------------------------------------------------------
(* The application *)

LEMMA SqKept ==
    ASSUME SqInv, UNCHANGED <<sq, sring_head, sring_tail, lcl_stail, sqofq>>,
           pc' = "wait" => pc = "wait"
    PROVE  SqInv'
    BY DEF SqInv, SqSound, FlushFits, SqEnts

LEMMA CqKept ==
    ASSUME CqInv, UNCHANGED <<cq, cring_head, cring_tail, lcl_chead>>, Called => Called',
           Dispatches'
    PROVE  CqInv'
    BY DEF CqInv, CqSound, CqEnts

\* A request goes to the slot at the tail, or behind the overflow.
LEMMA SubmitInv ==
    ASSUME RInv, ~Bursty, NEW r \in Req, InUser, SubmitToSq(r), UNCHANGED <<pc, ret, ring0>>
    PROVE  RInv'
    <1>0. RingTypes /\ SqSound /\ CqInv
      BY WNat DEF RInv, SqInv
    <1> USE WNat
    <1>1. SqEnts \in Nat /\ SqEnts \in Counter /\ lcl_stail \in Nat /\ sring_head \in Nat
      <2>1. SqEnts \in Counter /\ lcl_stail \in Counter /\ sring_head \in Counter
        BY <1>0, CounterFacts DEF RingTypes, SqEnts
      <2>2. QED
        BY <2>1 DEF Counter
    <1>2. pc # "wait" /\ pc' # "wait"
      BY DEF InUser
    <1>3. CqInv'
      BY <1>0, CqKept DEF SubmitToSq, CqInv, Dispatches, Called
    <1>4. sqofq'.items = <<>> \/ Len(sqofq'.items) <= N - (lcl_stail' % N)
      BY DEF SubmitToSq, OverflowFits
    <1>5. CASE SqFull
      <2>1. sqofq' = Put(sqofq, r) /\ UNCHANGED <<sq, sring_head, sring_tail, lcl_stail>>
        BY <1>5 DEF SubmitToSq
      <2>2. sqofq' \in [items : Seq(Req), off : Nat]
        <3>1. Append(sqofq.items, r) \in Seq(Req)
          BY <1>0, AppendProperties DEF RingTypes
        <3>2. QED
          BY <2>1, <3>1, <1>0 DEF Put, RingTypes
      <2>3. RingTypes'
        BY <2>1, <2>2, <1>0 DEF RingTypes, SubmitToSq, ring0
      <2>4. SqInv'
        BY <2>1, <1>0, <1>2, <1>4 DEF SqInv, SqSound, FlushFits, SqEnts
      <2>5. QED
        BY <2>3, <2>4, <1>3 DEF RInv
    <1>6. CASE ~SqFull
      <2>1. /\ sq' = [sq EXCEPT ![lcl_stail % N] = r]
            /\ lcl_stail' = Plus(lcl_stail, 1)
            /\ UNCHANGED <<sqofq, sring_head, sring_tail>>
        BY <1>6 DEF SubmitToSq
      <2>2. SqEnts + 1 <= N
        BY <1>6, <1>0, <1>1 DEF SqFull, SqSound
      <2>3. lcl_stail' \in Counter /\ SqEnts' = SqEnts + 1
        <3>1. Dist(sring_head, lcl_stail) + 1 < W
          BY <2>2, <1>1 DEF SqEnts
        <3>2. QED
          BY <2>1, <3>1, <1>0, PlusFacts DEF SqEnts, RingTypes
      <2>4. lcl_stail % N \in 0 .. N - 1
        BY <1>1, Rings
      <2>5. sq' \in [0 .. N - 1 -> Slot] /\ \A i \in 0 .. N - 1 :
                sq'[i] = IF i = lcl_stail % N THEN r ELSE sq[i]
        BY <2>1, <2>4, <1>0 DEF RingTypes, Slot
      <2>6. RingTypes'
        BY <2>1, <2>3, <2>5, <1>0 DEF RingTypes, SubmitToSq, ring0
      <2>7. ASSUME NEW k \in 0 .. SqEnts PROVE sq'[(sring_head + k) % N] \in Req
        <3>1. (sring_head + k) % N \in 0 .. N - 1
          <4>1. sring_head + k \in Nat
            BY <1>1
          <4>2. QED
            BY <4>1, Rings
        <3>2. CASE k = SqEnts
          <4>1. (lcl_stail + 0) % N = (sring_head + SqEnts + 0) % N
            <5>1. lcl_stail \in Counter /\ sring_head \in Counter /\ W % N = 0 /\ 0 \in Nat
              BY <1>0, Rings DEF RingTypes
            <5>2. QED
              BY <5>1, DistSlot DEF SqEnts
          <4>2. lcl_stail + 0 = lcl_stail /\ sring_head + SqEnts + 0 = sring_head + k
            BY <1>1, <3>2
          <4>3. QED
            BY <3>1, <4>1, <4>2, <2>5
        <3>3. CASE k # SqEnts
          <4>1. k \in 0 .. SqEnts - 1
            BY <3>3, <1>1
          <4>2. sq[(sring_head + k) % N] \in Req
            BY <4>1, <1>0 DEF SqSound
          <4>3. QED
            BY <3>1, <4>2, <2>5
        <3>4. QED
          BY <3>2, <3>3
      <2>8. SqSound'
        <3>1. Dist(sring_head, sring_tail) <= SqEnts /\ Dist(sring_head, sring_tail) \in Nat
          BY <1>0, CounterFacts DEF SqSound, RingTypes, Counter
        <3>2. SqEnts' - 1 = SqEnts
          BY <2>3, <1>1
        <3>3. SqEnts' <= N /\ Dist(sring_head, sring_tail)' <= SqEnts'
          BY <2>1, <2>2, <2>3, <3>1, <1>1
        <3>4. \A k \in 0 .. SqEnts' - 1 : sq'[(sring_head' + k) % N] \in Req
          BY <2>1, <2>7, <3>2
        <3>5. QED
          BY <3>3, <3>4 DEF SqSound
      <2>9. QED
        BY <2>6, <2>8, <1>2, <1>3, <1>4 DEF RInv, SqInv, FlushFits
    <1>7. QED
      BY <1>5, <1>6

----------------------------------------------------------------------------
(* io_uring_enter *)

LEMMA ChainsOfRequests ==
    ASSUME NEW s \in Seq(Req)
    PROVE  Chains(s) \subseteq Seq(Req) \ {<<>>}
    <1> SUFFICES ASSUME NEW c \in Chains(s) PROVE c \in Seq(Req) \ {<<>>}
      OBVIOUS
    <1>1. PICK b \in (DOMAIN s) \X (DOMAIN s) : b[1] <= b[2] /\ c = SubSeq(s, b[1], b[2])
      BY DEF Chains
    <1>2. PICK i \in 1 .. Len(s), j \in 1 .. Len(s) : i <= j /\ c = SubSeq(s, i, j)
      BY <1>1, LenProperties
    <1>3. \A k \in i .. j : s[k] \in Req
      BY LenProperties, ElementOfSeq
    <1>4. c \in Seq(Req) /\ Len(c) = j - i + 1
      BY <1>2, <1>3, SubSeqProperties
    <1>5. c # <<>>
      BY <1>2, <1>4, EmptySeq
    <1>6. QED
      BY <1>4, <1>5

\* lrun1 publishes what it has passed, and the kernel posts to the freed room.
LEMMA PublishedCq ==
    ASSUME RInv, pc = "enter", pc' \in {"app", "wait"}, NEW uds \in Seq(Req),
           UNCHANGED lcl_chead, cring_head' = Released,
           LET p == Posted(cq, cring_tail, Released, uds)
           IN  cq' = p.ring /\ cring_tail' = p.tail /\ backlog' = p.rest
    PROVE  /\ CqInv'
           /\ cq' \in [0 .. M - 1 -> Slot] /\ backlog' \in Seq(Req)
           /\ cring_head' \in Counter /\ cring_tail' \in Counter /\ lcl_chead' \in Counter
    <1>1. RingTypes /\ CqSound
      BY DEF RInv, CqInv
    <1>2. /\ cq \in [0 .. M - 1 -> Slot]
          /\ cring_head \in Counter /\ cring_tail \in Counter /\ lcl_chead \in Counter
      BY <1>1 DEF RingTypes
    <1>3. Dist(lcl_chead, cring_tail) <= M /\ Dist(lcl_chead, lcl_chead) <= Dist(lcl_chead, cring_tail)
      <2>1. /\ Dist(lcl_chead, cring_tail) \in Counter /\ Dist(cring_head, lcl_chead) \in Counter
            /\ Dist(lcl_chead, lcl_chead) = 0
            /\ Dist(cring_head, lcl_chead) + Dist(lcl_chead, cring_tail) = Dist(cring_head, cring_tail)
        BY <1>1, <1>2, CounterFacts, Between DEF CqSound
      <2>2. Dist(cring_head, cring_tail) <= M
        BY <1>1 DEF CqSound
      <2>3. QED
        BY <2>1, <2>2, WNat DEF Counter
    <1>4. \A k \in 0 .. Dist(lcl_chead, cring_tail) - 1 : cq[(lcl_chead + k) % M] \in Req
      BY <1>1 DEF CqSound, CqEnts, Called
    <1> DEFINE p == Posted(cq, cring_tail, lcl_chead, uds)
    <1>5. /\ p.ring \in [0 .. M - 1 -> Slot]
          /\ p.tail \in Counter
          /\ p.rest \in Seq(Req)
          /\ Dist(lcl_chead, p.tail) <= M
          /\ Dist(lcl_chead, lcl_chead) <= Dist(lcl_chead, p.tail)
          /\ \A k \in 0 .. Dist(lcl_chead, p.tail) - 1 : p.ring[(lcl_chead + k) % M] \in Req
      BY <1>2, <1>3, <1>4, CqGrows
    <1> HIDE DEF p
    <1>6. cq' = p.ring /\ cring_tail' = p.tail /\ backlog' = p.rest /\ cring_head' = lcl_chead
      BY DEF p, Released
    <1>7. CqSound'
      BY <1>5, <1>6 DEF CqSound, CqEnts
    <1>8. Dispatches'
      BY <1>6 DEF Dispatches
    <1>9. QED
      BY <1>2, <1>5, <1>6, <1>7, <1>8 DEF CqInv

LEMMA EnterInv ==
    ASSUME RInv, Enter
    PROVE  RInv'
    <1>1. RingTypes /\ SqSound /\ FlushFits
      BY DEF RInv, SqInv
    <1>2. pc' \in {"app", "wait"}
      BY DEF Enter
    <1>3. /\ CqInv'
          /\ cq' \in [0 .. M - 1 -> Slot] /\ backlog' \in Seq(Req)
          /\ cring_head' \in Counter /\ cring_tail' \in Counter /\ lcl_chead' \in Counter
      BY <1>1, <1>2, PublishedCq DEF Enter, RingTypes
    <1>4. sq' \in [0 .. N - 1 -> Slot] /\ kernel' \subseteq Seq(Req) \ {<<>>}
      <2>1. Chains(SqHeld) \subseteq Seq(Req) \ {<<>>}
        BY <1>1, HeldFacts, ChainsOfRequests
      <2>2. QED
        BY <1>1, <2>1 DEF Enter, RingTypes, Slot
    <1>5. RingTypes'
      BY <1>1, <1>3, <1>4 DEF Enter, RingTypes, queues
    <1>6. SqEnts' = 0 /\ Dist(sring_head, sring_tail)' = 0
      <2>1. Dist(lcl_stail, lcl_stail) = 0
        BY <1>1, CounterFacts DEF RingTypes
      <2>2. QED
        BY <2>1 DEF Enter, SqEnts
    <1>7. SqSound'
      BY <1>6, WNat DEF SqSound
    <1>8. FlushFits'
      BY <1>1, <1>6 DEF Enter, FlushFits, queues
    <1>9. QED
      BY <1>3, <1>5, <1>7, <1>8 DEF RInv, SqInv

\* The kernel leaves the SQEs behind the k-th one to the next lrun1.
LEMMA EnterRejectsInv ==
    ASSUME RInv, ~Bursty, NEW k \in 1 .. SqEnts, EnterRejects(k)
    PROVE  RInv'
    <1>0. W % N = 0 /\ N \in Nat \ {0} /\ N < W /\ W \in Nat
      BY Rings, WNat
    <1>1. RingTypes /\ SqSound /\ FlushFits
      BY DEF RInv, SqInv
    <1>2. /\ SqEnts \in Nat /\ SqEnts <= N /\ k \in Nat /\ k <= SqEnts /\ k >= 1
          /\ sring_head \in Nat
      BY <1>1, HeldFacts DEF SqSound, RingTypes, Counter
    <1>3. SqHeld \in Seq(Req) /\ SqHeld[k] \in Req
      BY <1>1, HeldFacts
    <1>4. pc' \in {"app", "wait"} /\ pc = "enter"
      BY DEF EnterRejects
    <1>5. /\ CqInv'
          /\ cq' \in [0 .. M - 1 -> Slot] /\ backlog' \in Seq(Req)
          /\ cring_head' \in Counter /\ cring_tail' \in Counter /\ lcl_chead' \in Counter
      <2>1. Append(backlog, SqHeld[k]) \in Seq(Req)
        BY <1>1, <1>3, AppendProperties DEF RingTypes
      <2>2. QED
        BY <2>1, <1>4, PublishedCq DEF EnterRejects
    <1>6. kernel' \subseteq Seq(Req) \ {<<>>}
      <2>1. SubSeq(SqHeld, 1, k - 1) \in Seq(Req)
        <3>1. \A i \in 1 .. k - 1 : SqHeld[i] \in Req
          BY <1>1, <1>2, HeldFacts
        <3>2. k - 1 \in Int
          BY <1>2
        <3>3. QED
          BY <3>1, <3>2, SubSeqProperties
      <2>2. Chains(SubSeq(SqHeld, 1, k - 1)) \subseteq Seq(Req) \ {<<>>}
        BY <2>1, ChainsOfRequests
      <2>3. QED
        BY <2>2, <1>1 DEF EnterRejects, RingTypes
    <1> DEFINE Gone(i) == \E j \in 1 .. k : (sring_head + j - 1) % N = i
    <1>7. /\ sq' \in [0 .. N - 1 -> Slot]
          /\ \A i \in 0 .. N - 1 : ~Gone(i) => sq'[i] = sq[i]
      <2>1. sq' = [i \in 0 .. N - 1 |-> IF Gone(i) THEN Stale ELSE sq[i]]
        BY <1>1 DEF EnterRejects, RingTypes
      <2>2. QED
        <3> HIDE DEF Gone
        <3>1. QED
          BY <2>1, <1>1 DEF RingTypes, Slot
    <1>8. /\ sring_head' = Plus(sring_head, k) /\ sring_tail' = lcl_stail /\ UNCHANGED <<lcl_stail, sqofq>>
          /\ UNCHANGED ret
      BY DEF EnterRejects, queues
    <1>9. sring_head' \in Counter /\ SqEnts' = SqEnts - k /\ Dist(sring_head, sring_tail)' = SqEnts'
      <2>1. sring_head \in Counter /\ lcl_stail \in Counter
        BY <1>1 DEF RingTypes
      <2>2. Plus(sring_head, k) \in Counter /\ Dist(Plus(sring_head, k), lcl_stail) = SqEnts - k
        BY <2>1, <1>0, <1>2 DEF Plus, Dist, SqEnts, Counter
      <2>3. QED
        BY <2>2, <1>8 DEF SqEnts
    <1>10. RingTypes'
      BY <1>1, <1>5, <1>6, <1>7, <1>8, <1>9 DEF RingTypes
    <1>11. ASSUME NEW j \in 0 .. SqEnts' - 1 PROVE sq'[(sring_head' + j) % N] \in Req
      <2>1. PICK i \in k .. SqEnts - 1 : i = k + j
        BY <1>2, <1>9
      <2>2. j \in Nat /\ i \in Nat /\ sring_head + i \in Nat /\ i < N /\ k <= i
        BY <1>0, <1>2, <1>9, <2>1
      <2>3. (sring_head' + j) % N = (sring_head + i) % N
        <3>1. sring_head \in Counter /\ k \in 0 .. W /\ j \in Nat
          BY <1>0, <1>1, <1>2, <2>2 DEF RingTypes
        <3>2. (Plus(sring_head, k) + j) % N = (sring_head + k + j) % N
          BY <3>1, <1>0, PlusSlot
        <3>3. sring_head + k + j = sring_head + i
          BY <1>2, <2>1, <2>2
        <3>4. QED
          BY <3>2, <3>3, <1>8
      <2>4. (sring_head + i) % N \in 0 .. N - 1
        BY <2>2, Rings
      <2>5. sq[(sring_head + i) % N] \in Req
        <3>1. i \in 0 .. SqEnts - 1
          BY <2>1, <2>2, <1>2
        <3>2. QED
          BY <3>1, <1>1 DEF SqSound
      <2>6. ~Gone((sring_head + i) % N)
        <3>1. SUFFICES ASSUME NEW h \in 1 .. k PROVE (sring_head + h - 1) % N # (sring_head + i) % N
          OBVIOUS
        <3>2. PICK x \in Nat : x = sring_head + h - 1
          BY <1>2
        <3>3. x < sring_head + i /\ sring_head + i < x + N
          BY <3>2, <2>2, <1>0, <1>2
        <3>4. QED
          BY <3>2, <3>3, <2>2, <1>0, SlotsDiffer
      <2>7. QED
        <3> HIDE DEF Gone
        <3>1. QED
          BY <2>3, <2>4, <2>5, <2>6, <1>7
    <1>12. SqSound'
      BY <1>0, <1>2, <1>9, <1>11 DEF SqSound
    <1>13. FlushFits'
      BY <1>1, <1>8 DEF EnterRejects, FlushFits
    <1>14. QED
      BY <1>5, <1>10, <1>12, <1>13 DEF RInv, SqInv

LEMMA EnterErrorInv ==
    ASSUME RInv, EnterError
    PROVE  RInv'
    <1>1. RingTypes /\ SqSound /\ FlushFits /\ CqSound
      BY DEF RInv, SqInv, CqInv
    <1>2. RingTypes'
      BY <1>1 DEF EnterError, RingTypes, Released, queues, ring0
    <1>3. SqInv'
      <2>1. Dist(sring_head, lcl_stail) \in Counter
        BY <1>1, CounterFacts DEF RingTypes
      <2>2. Dist(sring_head, sring_tail)' <= SqEnts'
        BY <2>1 DEF EnterError, SqEnts, Counter
      <2>3. QED
        BY <1>1, <2>2 DEF EnterError, SqInv, SqSound, FlushFits, SqEnts, queues
    <1>4. CqInv'
      <2>1. /\ Dist(lcl_chead, cring_tail) \in Counter /\ Dist(cring_head, lcl_chead) \in Counter
            /\ Dist(lcl_chead, lcl_chead) = 0
            /\ Dist(cring_head, lcl_chead) + Dist(lcl_chead, cring_tail) = Dist(cring_head, cring_tail)
        BY <1>1, CounterFacts, Between DEF CqSound, RingTypes
      <2>2. Dist(lcl_chead, cring_tail) <= M /\ Dist(lcl_chead, lcl_chead) <= Dist(lcl_chead, cring_tail)
        BY <1>1, <2>1, WNat DEF CqSound, Counter
      <2>3. CqSound'
        BY <1>1, <2>2 DEF EnterError, CqSound, CqEnts, Released, Called
      <2>4. Dispatches'
        BY DEF EnterError, Dispatches
      <2>5. QED
        BY <2>3, <2>4 DEF CqInv
    <1>5. QED
      BY <1>2, <1>3, <1>4 DEF RInv

----------------------------------------------------------------------------
(* The flush *)

\* A block pop removes at least the block.
LEMMA TakeBlockFacts ==
    ASSUME NEW q \in [items : Seq(Req), off : Nat], NEW n \in 1 .. Len(q.items)
    PROVE  /\ TakeBlock(q, n) \in [items : Seq(Req), off : Nat]
           /\ Len(TakeBlock(q, n).items) \in Nat
           /\ Len(TakeBlock(q, n).items) <= Len(q.items) - n
           /\ TakeBlock(q, n).off \in 0 .. C - 1
    <1> DEFINE gone == SpanThrough(q, n)
               len == Len(q.items)
               k == (q.off + n - 1) \div C
               r == (q.off + n - 1) % C
    <1>1. C \in Nat \ {0} /\ len \in Nat /\ n \in 1 .. len /\ q.items \in Seq(Req) /\ q.off \in Nat
      BY LoopAssumption, LenProperties
    <1>2. gone \in n .. len
      <2>1. q.off + n - 1 \in Nat
        BY <1>1
      <2>2. k \in Nat /\ r \in 0 .. C - 1 /\ q.off + n - 1 = C * k + r
        BY <1>1, <2>1, ModFacts
      <2> HIDE DEF k, r
      <2>3. (k + 1) * C = C * k + C /\ C * k \in Nat
        BY <1>1, <2>2
      <2>4. (k + 1) * C \in Nat /\ (k + 1) * C - q.off >= n
        BY <1>1, <2>2, <2>3
      <2>5. gone = Smaller((k + 1) * C - q.off, len)
        BY DEF SpanThrough, k
      <2>6. QED
        <3> HIDE DEF gone, len
        <3>1. QED
          BY <1>1, <2>4, <2>5 DEF Smaller
    <1>3. TakeBlock(q, n) = [items |-> SubSeq(q.items, gone + 1, len), off |-> (q.off + gone) % C]
      BY <1>1 DEF TakeBlock
    <1> HIDE DEF gone
    <1>4. /\ SubSeq(q.items, gone + 1, len) \in Seq(Req)
          /\ Len(SubSeq(q.items, gone + 1, len)) = IF gone + 1 <= len THEN len - (gone + 1) + 1 ELSE 0
      <2>1. \A i \in gone + 1 .. len : q.items[i] \in Req
        BY <1>1, <1>2, ElementOfSeq
      <2>2. gone + 1 \in Int /\ len \in Int
        BY <1>1, <1>2
      <2>3. QED
        <3> HIDE DEF len
        <3>1. QED
          BY <2>1, <2>2, SubSeqProperties
    <1>5. (q.off + gone) % C \in Nat /\ (q.off + gone) % C \in 0 .. C - 1
      <2>1. q.off + gone \in Nat
        BY <1>1, <1>2
      <2>2. (q.off + gone) % C \in 0 .. C - 1
        BY <2>1, <1>1, ModFacts
      <2>3. QED
        BY <2>2, <1>1
    <1>6. QED
      <2> HIDE DEF len
      <2>1. Len(TakeBlock(q, n).items) \in Nat /\ Len(TakeBlock(q, n).items) <= len - n
        BY <1>1, <1>2, <1>3, <1>4
      <2>2. QED
        BY <1>3, <1>4, <1>5, <2>1 DEF len

\* When the overflow fits behind the tail, the first block pop moves it.
LEMMA FlushMoves ==
    ASSUME RInv, pc = "wait", sqofq.items # <<>>, SafePop(sqofq.items) # 0, Flush
    PROVE  LET n  == SafePop(sqofq.items)
               at == lcl_stail % N
           IN  /\ n \in 1 .. Len(sqofq.items) /\ at + n <= N
               /\ lcl_stail' = Plus(lcl_stail, n)
               /\ sqofq' = TakeBlock(sqofq, n)
               /\ sq' \in [0 .. N - 1 -> Slot]
               /\ \A k \in 0 .. n - 1 : sq'[at + k] \in Req /\ sq'[at + k] = sqofq.items[k + 1]
    <1> DEFINE s  == sqofq.items
               n  == SafePop(s)
               at == lcl_stail % N
               n1 == Smaller(N - at, n)
               b1 == Block(sqofq, n1)
               q1 == TakeBlock(sqofq, n1)
               n2 == Smaller(at, n - Len(b1))
               b2 == Block(q1, n2)
    <1>1. RingTypes /\ FlushFits
      BY DEF RInv, SqInv
    <1>2. s \in Seq(Req) /\ Len(s) \in Nat /\ Len(s) <= N - at /\ lcl_stail \in Nat
          /\ sq \in [0 .. N - 1 -> Slot] /\ sqofq \in [items : Seq(Req), off : Nat]
      BY <1>1, LenProperties DEF RingTypes, FlushFits, Counter
    <1>3. at \in 0 .. N - 1
      BY <1>2, Rings
    <1>4. n \in 1 .. Len(s) /\ n \in Nat /\ at + n <= N
      <2>1. n \in 0 .. Smaller(Len(s), N) /\ n <= Len(s)
        BY <1>2, SafePopBound
      <2> HIDE DEF n, s, at
      <2>2. n # 0
        BY DEF n, s
      <2>3. Smaller(Len(s), N) \in Nat
        BY <1>2, WNat DEF Smaller
      <2>4. n \in Nat
        BY <2>1, <2>3
      <2>5. QED
        BY <2>1, <2>2, <2>4, <1>2, <1>3, WNat
    <1>5. n1 = n
      <2> HIDE DEF n, at
      <2>1. QED
        BY <1>3, <1>4, WNat DEF Smaller
    <1>6. b1 \in Seq(Req) /\ Len(b1) = n /\ \A i \in 1 .. n : b1[i] = s[i]
      <2>1. b1 = SubSeq(s, 1, n)
        <3>1. Smaller(n, Len(s)) = n
          <4> HIDE DEF n, s
          <4>1. QED
            BY <1>2, <1>4 DEF Smaller
        <3>2. QED
          BY <3>1, <1>5 DEF Block
      <2> HIDE DEF b1, n, s
      <2>2. \A i \in 1 .. n : s[i] \in Req
        BY <1>2, <1>4, ElementOfSeq
      <2>3. QED
        <3>1. /\ SubSeq(s, 1, n) \in Seq(Req) /\ Len(SubSeq(s, 1, n)) = IF 1 <= n THEN n - 1 + 1 ELSE 0
              /\ \A i \in 1 .. n - 1 + 1 : SubSeq(s, 1, n)[i] = s[1 + i - 1]
          BY <2>2, <1>4, SubSeqProperties
        <3>2. QED
          BY <3>1, <2>1, <1>4
    <1>7. q1 = TakeBlock(sqofq, n) /\ q1 \in [items : Seq(Req), off : Nat] /\ Len(q1.items) \in Nat
      BY <1>2, <1>4, <1>5, TakeBlockFacts
    <1>8. n2 = 0
      <2> HIDE DEF b1, n, at
      <2>1. QED
        BY <1>3, <1>4, <1>6, WNat DEF Smaller
    <1>9. Len(b2) = 0
      <2>1. b2 = SubSeq(q1.items, 1, 0)
        <3> HIDE DEF q1, n2
        <3>1. Smaller(n2, Len(q1.items)) = 0
          BY <1>7, <1>8 DEF Smaller
        <3>2. QED
          BY <3>1 DEF Block
      <2>2. b2 = <<>>
        BY <2>1, SubSeqEmpty
      <2>3. QED
        BY <2>2, EmptySeq
    <1>10. /\ sq' = [i \in DOMAIN sq |->
                        IF i \in at .. at + Len(b1) - 1 THEN b1[i - at + 1]
                        ELSE IF i < Len(b2) THEN b2[i + 1]
                        ELSE sq[i]]
           /\ lcl_stail' = Plus(lcl_stail, n)
           /\ sqofq' = TakeBlock(q1, n2)
      BY Zenon DEF Flush
    <1> HIDE DEF b1, b2, n2, q1, n, at, s
    <1>11. sqofq' = q1
      BY <1>8, <1>10 DEF TakeBlock
    <1>12. /\ DOMAIN sq' = 0 .. N - 1
           /\ \A i \in 0 .. N - 1 :
                sq'[i] = IF i \in at .. at + n - 1 THEN b1[i - at + 1] ELSE sq[i]
      BY <1>2, <1>6, <1>9, <1>10, WNat
    <1>13. \A i \in at .. at + n - 1 : b1[i - at + 1] \in Req
      <2>1. ASSUME NEW i \in at .. at + n - 1 PROVE i - at + 1 \in 1 .. Len(b1)
        BY <1>3, <1>4, <1>6
      <2>2. QED
        BY <2>1, <1>6, ElementOfSeq
    <1>14. \A i \in 0 .. N - 1 : sq'[i] \in Slot
      BY <1>2, <1>12, <1>13 DEF Slot
    <1>15. sq' \in [0 .. N - 1 -> Slot]
      <2>1. sq' = [i \in 0 .. N - 1 |-> sq'[i]]
        BY <1>10, <1>12
      <2>2. QED
        BY <2>1, <1>14
    <1>16. ASSUME NEW k \in 0 .. n - 1 PROVE sq'[at + k] \in Req /\ sq'[at + k] = s[k + 1]
      <2>1. PICK i \in 0 .. N - 1 : i = at + k /\ i \in at .. at + n - 1 /\ i - at + 1 = k + 1
        BY <1>3, <1>4, WNat
      <2>2. sq'[at + k] = b1[k + 1] /\ sq'[at + k] \in Req
        <3>1. sq'[i] = b1[i - at + 1] /\ b1[i - at + 1] \in Req
          BY <2>1, <1>12, <1>13
        <3>2. QED
          BY <2>1, <3>1
      <2>3. b1[k + 1] = s[k + 1]
        <3>1. k + 1 \in 1 .. n
          BY <1>4
        <3>2. QED
          BY <3>1, <1>6
      <2>4. QED
        BY <2>2, <2>3
    <1>17. QED
      BY <1>4, <1>7, <1>10, <1>11, <1>15, <1>16 DEF n, at, s

LEMMA FlushSq ==
    ASSUME RInv, pc = "wait", sqofq.items # <<>>, SafePop(sqofq.items) # 0, Flush,
           UNCHANGED <<sring_head, sring_tail>>, pc' # "wait"
    PROVE  /\ SqInv'
           /\ sq' \in [0 .. N - 1 -> Slot] /\ lcl_stail' \in Counter
           /\ sqofq' \in [items : Seq(Req), off : Nat]
    <1> DEFINE n  == SafePop(sqofq.items)
               at == lcl_stail % N
    <1>1. RingTypes /\ SqSound /\ FlushFits /\ W % N = 0 /\ N \in Nat \ {0} /\ N < W /\ W \in Nat
      BY Rings, WNat DEF RInv, SqInv
    <1>2. /\ n \in 1 .. Len(sqofq.items) /\ at + n <= N
          /\ lcl_stail' = Plus(lcl_stail, n)
          /\ sqofq' = TakeBlock(sqofq, n)
          /\ sq' \in [0 .. N - 1 -> Slot]
          /\ \A k \in 0 .. n - 1 : sq'[at + k] \in Req
      BY FlushMoves
    <1> HIDE DEF n
    <1>3. /\ sqofq' \in [items : Seq(Req), off : Nat] /\ Len(sqofq'.items) \in Nat
          /\ Len(sqofq'.items) <= Len(sqofq.items) - n
      BY <1>1, <1>2, TakeBlockFacts DEF RingTypes
    <1>4. Len(sqofq.items) \in Nat /\ Len(sqofq.items) <= N - at /\ n \in Nat /\ n <= N /\ n < W
      <2>1. Len(sqofq.items) \in Nat /\ Len(sqofq.items) <= N - at
        BY <1>1, LenProperties DEF RingTypes, FlushFits
      <2>2. at \in 0 .. N - 1
        <3>1. lcl_stail \in Nat
          BY <1>1 DEF RingTypes, Counter
        <3>2. QED
          BY <3>1, Rings
      <2> HIDE DEF at
      <2>3. QED
        BY <2>1, <2>2, <1>1, <1>2
    <1>5. sring_head = lcl_stail /\ lcl_stail \in Counter /\ lcl_stail \in Nat /\ sring_tail \in Counter
      BY <1>1, CounterFacts DEF RingTypes, FlushFits, SqEnts, Counter
    <1>6. lcl_stail' \in Counter /\ SqEnts' = n
      <2>1. Dist(lcl_stail, lcl_stail) = 0
        BY <1>5, CounterFacts
      <2>2. Dist(lcl_stail, lcl_stail) + n < W
        BY <2>1, <1>4
      <2>3. Plus(lcl_stail, n) \in Counter /\ Dist(lcl_stail, Plus(lcl_stail, n)) = 0 + n
        BY <2>1, <2>2, <1>4, <1>5, PlusFacts
      <2>4. QED
        BY <2>3, <1>2, <1>4, <1>5 DEF SqEnts
    <1>7. \A k \in 0 .. N - at - 1 : (lcl_stail + k) % N = at + k
      <2>1. PICK q \in Nat : lcl_stail = N * q + at /\ at \in 0 .. N - 1
        BY <1>1, <1>5, ModFacts
      <2> HIDE DEF at
      <2>2. ASSUME NEW k \in 0 .. N - at - 1 PROVE (lcl_stail + k) % N = at + k
        <3>1. PICK r \in 0 .. N - 1 : r = at + k
          BY <2>1, <1>1
        <3>2. lcl_stail + k = N * q + r
          <4>1. N * q \in Nat
            BY <2>1, <1>1
          <4>2. QED
            BY <4>1, <2>1, <3>1, <1>1
        <3>3. (N * q + r) % N = r
          BY <2>1, <3>1, <1>1, ModUnique
        <3>4. QED
          BY <3>1, <3>2, <3>3
      <2>3. QED
        BY <2>2
    <1>8. SqSound'
      <2>1. ASSUME NEW k \in 0 .. n - 1 PROVE sq'[(sring_head + k) % N] \in Req
        <3>1. at \in 0 .. N - 1
          BY <1>5, Rings
        <3>2. k \in 0 .. N - at - 1
          <4> HIDE DEF at
          <4>1. QED
            BY <3>1, <1>1, <1>2, <1>4
        <3>3. (sring_head + k) % N = at + k
          BY <3>2, <1>5, <1>7
        <3>4. QED
          BY <3>3, <1>2
      <2>2. Dist(sring_head, sring_tail)' = 0
        <3>1. /\ Dist(sring_head, sring_tail) \in Counter /\ SqEnts = 0
              /\ Dist(sring_head, sring_tail) <= SqEnts
          BY <1>1, <1>5, CounterFacts DEF SqSound, SqEnts
        <3>2. QED
          BY <3>1, <1>1 DEF Counter
      <2>3. QED
        BY <2>1, <2>2, <1>4, <1>6 DEF SqSound
    <1>9. FlushFits'
      <2>1. CASE at + n = N
        <3>1. at \in 0 .. N - 1
          BY <1>5, Rings
        <3> HIDE DEF at
        <3>2. Len(sqofq'.items) = 0
          BY <2>1, <3>1, <1>1, <1>3, <1>4
        <3>3. sqofq'.items = <<>>
          BY <3>2, <1>3, EmptySeq
        <3>4. QED
          BY <3>3 DEF FlushFits
      <2>2. CASE at + n # N
        <3>1. at \in 0 .. N - 1
          BY <1>5, Rings
        <3>2. n \in 0 .. N - at - 1
          <4> HIDE DEF at
          <4>1. QED
            BY <3>1, <2>2, <1>1, <1>2, <1>4
        <3>3. lcl_stail' % N = at + n
          <4>1. (Plus(lcl_stail, n) + 0) % N = (lcl_stail + n + 0) % N
            BY <1>1, <1>4, <1>5, PlusSlot
          <4>2. Plus(lcl_stail, n) + 0 = lcl_stail' /\ lcl_stail + n + 0 = lcl_stail + n
            BY <1>1, <1>2, <1>4, <1>5, <1>6 DEF Counter
          <4>3. QED
            BY <4>1, <4>2, <3>2, <1>7
        <3>4. Len(sqofq'.items) <= N - (at + n)
          <4> HIDE DEF at
          <4>1. QED
            BY <3>1, <1>1, <1>3, <1>4
        <3>5. QED
          BY <3>3, <3>4 DEF FlushFits
      <2>3. QED
        BY <2>1, <2>2
    <1>10. QED
      BY <1>2, <1>3, <1>6, <1>8, <1>9 DEF SqInv

LEMMA WakeInv ==
    ASSUME RInv, ~Interrupts, Wake
    PROVE  RInv'
    <1>1. RingTypes /\ SqInv /\ CqInv
      BY DEF RInv
    <1>2. pc = "wait" /\ pc' \in {"cq", "wild"}
      BY DEF Wake, AfterWait
    <1>3. UNCHANGED <<sring_head, sring_tail, cq, cring_head, cring_tail, lcl_chead, ret, kernel, backlog>>
      BY DEF Wake, AfterWait, ring0
    <1>4. /\ SqInv'
          /\ sq' \in [0 .. N - 1 -> Slot] /\ lcl_stail' \in Counter
          /\ sqofq' \in [items : Seq(Req), off : Nat]
      <2>1. CASE UNCHANGED <<sq, lcl_stail, sqofq>>
        BY <2>1, <1>1, <1>2, <1>3, SqKept DEF RingTypes
      <2>2. CASE sqofq.items # <<>> /\ SafePop(sqofq.items) # 0 /\ Flush
        BY <2>2, <1>2, <1>3, FlushSq
      <2>3. QED
        BY <2>1, <2>2, Zenon DEF Wake, AfterWait
    <1>5. RingTypes'
      BY <1>1, <1>3, <1>4 DEF RingTypes
    <1>6. lcl_chead # cring_tail
      BY <1>1, <1>2 DEF Wake, Woken, CqInv, Dispatches
    <1>7. CqInv'
      BY <1>1, <1>2, <1>3, <1>6, CqKept DEF Dispatches, Called
    <1>8. QED
      BY <1>4, <1>5, <1>7 DEF RInv

----------------------------------------------------------------------------
(* The queues and the dispatch *)

LEMMA ExeqInv ==
    ASSUME RInv, LRun1 \/ RunPrep \/ RunSoon \/ ExeqDone
    PROVE  RInv'
    <1>1. RingTypes /\ SqInv /\ CqInv
      BY DEF RInv
    <1>2. /\ UNCHANGED <<rings, sqofq, ring0>>
          /\ pc # "cb" /\ pc' # "wait"
      BY DEF LRun1, RunPrep, RunSoon, ExeqDone, queues
    <1>3. ret' \in {"app", "prep", "soon", "cq", "cqsoon"}
      BY <1>1 DEF RingTypes, LRun1, RunPrep, RunSoon, ExeqDone
    <1>4. RingTypes'
      BY <1>1, <1>2, <1>3 DEF RingTypes, rings, ring0
    <1>5. SqInv'
      BY <1>1, <1>2, SqKept DEF rings
    <1>6. Dispatches'
      BY <1>1, <1>2 DEF LRun1, RunPrep, RunSoon, ExeqDone, CqInv, Dispatches, rings
    <1>7. CqInv'
      BY <1>1, <1>2, <1>6, CqKept DEF rings, Called
    <1>8. QED
      BY <1>4, <1>5, <1>7 DEF RInv

\* The slot of the first CQE is no slot of another.
LEMMA FirstCqe ==
    ASSUME RingTypes, CqSound, lcl_chead # cring_tail
    PROVE  /\ CqEnts \in Nat /\ CqEnts >= 1 /\ CqEnts <= M
           /\ Dist(cring_head, lcl_chead) + CqEnts = Dist(cring_head, cring_tail)
           /\ Dist(cring_head, lcl_chead) \in Nat
           /\ lcl_chead % M \in 0 .. M - 1
           /\ \A k \in 1 .. CqEnts - 1 : /\ (lcl_chead + k) % M \in 0 .. M - 1
                                         /\ (lcl_chead + k) % M # lcl_chead % M
    <1>1. cring_head \in Counter /\ cring_tail \in Counter /\ lcl_chead \in Counter /\ lcl_chead \in Nat
      BY DEF RingTypes, Counter
    <1>2. /\ CqEnts \in Counter /\ CqEnts # 0 /\ Dist(cring_head, lcl_chead) \in Counter
          /\ Dist(cring_head, lcl_chead) + CqEnts = Dist(cring_head, cring_tail)
      BY <1>1, CounterFacts, Between DEF CqEnts, CqSound
    <1>3. /\ CqEnts \in Nat /\ CqEnts >= 1 /\ CqEnts <= M
          /\ Dist(cring_head, lcl_chead) \in Nat
      BY <1>2, WNat DEF CqSound, Counter
    <1>4. ASSUME NEW k \in 1 .. CqEnts - 1
          PROVE  (lcl_chead + k) % M \in 0 .. M - 1 /\ (lcl_chead + k) % M # lcl_chead % M
      <2>1. lcl_chead + k \in Nat /\ lcl_chead < lcl_chead + k /\ lcl_chead + k < lcl_chead + M
        BY <1>1, <1>3, WNat
      <2>2. QED
        BY <2>1, <1>1, WNat, Rings, SlotsDiffer
    <1>5. QED
      BY <1>1, <1>2, <1>3, <1>4, Rings

LEMMA DispatchInv ==
    ASSUME RInv, Dispatch
    PROVE  RInv'
    <1>1. RingTypes /\ SqInv /\ CqSound /\ lcl_chead # cring_tail
      BY DEF RInv, CqInv, Dispatches, Dispatch
    <1>2. cq' = [cq EXCEPT ![lcl_chead % M] = Stale] /\ pc' = "cb" /\ ret' = "cq"
          /\ UNCHANGED <<sq, sring_head, sring_tail, lcl_stail, cring_head, cring_tail, lcl_chead,
                         sqofq, kernel, backlog>>
      BY DEF Dispatch, queues, ring0
    <1>3. cq' \in [0 .. M - 1 -> Slot] /\ \A i \in 0 .. M - 1 : i # lcl_chead % M => cq'[i] = cq[i]
      BY <1>1, <1>2, FirstCqe DEF RingTypes, Slot
    <1>4. RingTypes'
      BY <1>1, <1>2, <1>3 DEF RingTypes
    <1>5. SqInv'
      BY <1>1, <1>2, SqKept
    <1>6. ASSUME NEW k \in 0 .. CqEnts - 1
          PROVE  cq'[(lcl_chead + k) % M] \in Req \/ k = 0
      <2>1. SUFFICES ASSUME k # 0 PROVE cq'[(lcl_chead + k) % M] \in Req
        OBVIOUS
      <2>2. k \in 1 .. CqEnts - 1
        BY <1>1, <2>1, FirstCqe
      <2>3. cq[(lcl_chead + k) % M] \in Req
        BY <1>1, <2>1 DEF CqSound
      <2>4. QED
        BY <1>1, <1>3, <2>2, <2>3, FirstCqe
    <1>7. CqInv'
      BY <1>1, <1>2, <1>6 DEF CqInv, CqSound, CqEnts, Dispatches, Called
    <1>8. QED
      BY <1>4, <1>5, <1>7 DEF RInv

\* The loop passes a CQE whose slot it is done with.
LEMMA NextCqeInv ==
    ASSUME RingTypes, CqSound, lcl_chead # cring_tail, NextCqe,
           UNCHANGED <<cring_head, cring_tail>>,
           \A k \in 1 .. CqEnts - 1 : cq'[(lcl_chead + k) % M] \in Req
    PROVE  CqInv' /\ lcl_chead' \in Counter
    <1>1. /\ CqEnts \in Nat /\ CqEnts >= 1 /\ CqEnts <= M
          /\ Dist(cring_head, lcl_chead) + CqEnts = Dist(cring_head, cring_tail)
          /\ Dist(cring_head, lcl_chead) \in Nat
      BY FirstCqe
    <1>2. cring_head \in Counter /\ cring_tail \in Counter /\ lcl_chead \in Counter /\ lcl_chead \in Nat
      BY DEF RingTypes, Counter
    <1>3. lcl_chead' = Plus(lcl_chead, 1) /\ pc' \in {"app", "cqsoon"}
      BY DEF NextCqe
    <1>4. /\ lcl_chead' \in Counter /\ CqEnts' = CqEnts - 1
          /\ Dist(cring_head, lcl_chead)' = Dist(cring_head, lcl_chead) + 1
      BY <1>1, <1>2, <1>3, WNat DEF Plus, Dist, CqEnts, CqSound, Counter
    <1>5. ASSUME NEW k \in 0 .. CqEnts' - 1 PROVE cq'[(lcl_chead' + k) % M] \in Req
      <2>1. k \in Nat /\ k + 1 \in 1 .. CqEnts - 1
        BY <1>1, <1>4
      <2>2. (Plus(lcl_chead, 1) + k) % M = (lcl_chead + 1 + k) % M
        <3>1. W % M = 0 /\ M \in Nat \ {0} /\ 1 \in 0 .. W
          BY Rings, WNat
        <3>2. QED
          BY <3>1, <2>1, <1>2, PlusSlot
      <2>3. lcl_chead + 1 + k = lcl_chead + (k + 1)
        BY <2>1, <1>2
      <2>4. QED
        BY <2>1, <2>2, <2>3, <1>3
    <1>6. CqSound'
      BY <1>1, <1>4, <1>5, WNat DEF CqSound
    <1>7. Dispatches'
      BY <1>3 DEF NextCqe, Dispatches
    <1>8. QED
      BY <1>4, <1>6, <1>7 DEF CqInv

LEMMA SkipNullInv ==
    ASSUME RInv, SkipNull
    PROVE  RInv'
    <1>1. RingTypes /\ SqInv /\ CqSound /\ lcl_chead # cring_tail /\ pc = "cq"
      BY DEF RInv, CqInv, Dispatches, SkipNull
    <1>2. cq' = [cq EXCEPT ![lcl_chead % M] = Stale] /\ NextCqe
          /\ UNCHANGED <<sq, sring_head, sring_tail, lcl_stail, cring_head, cring_tail,
                         sqofq, kernel, backlog>>
      BY DEF SkipNull, queues, ring0
    <1>3. cq' \in [0 .. M - 1 -> Slot] /\ \A i \in 0 .. M - 1 : i # lcl_chead % M => cq'[i] = cq[i]
      BY <1>1, <1>2, FirstCqe DEF RingTypes, Slot
    <1>4. ASSUME NEW k \in 1 .. CqEnts - 1 PROVE cq'[(lcl_chead + k) % M] \in Req
      <2>1. cq[(lcl_chead + k) % M] \in Req
        <3>1. k \in 0 .. CqEnts - 1 /\ k # 0
          BY <1>1, FirstCqe
        <3>2. QED
          BY <3>1, <1>1 DEF CqSound
      <2>2. QED
        BY <1>1, <1>3, <2>1, FirstCqe
    <1>5. CqInv' /\ lcl_chead' \in Counter
      BY <1>1, <1>2, <1>4, NextCqeInv
    <1>6. RingTypes'
      BY <1>1, <1>2, <1>3, <1>5 DEF RingTypes, NextCqe
    <1>7. SqInv'
      BY <1>1, <1>2, SqKept DEF NextCqe
    <1>8. QED
      BY <1>5, <1>6, <1>7 DEF RInv

LEMMA CbReturnInv ==
    ASSUME RInv, CbReturn
    PROVE  RInv'
    <1>1. RingTypes /\ SqInv /\ CqInv /\ CqSound /\ Dispatches /\ pc = "cb"
      BY DEF RInv, CqInv, CbReturn
    <1>2. UNCHANGED <<sq, sring_head, sring_tail, lcl_stail, cq, cring_head, cring_tail,
                      sqofq, kernel, backlog>>
      BY DEF CbReturn, queues, ring0
    <1>3. CASE ret = "cq"
      <2>1. lcl_chead # cring_tail /\ NextCqe
        BY <1>1, <1>3 DEF Dispatches, CbReturn
      <2>2. ASSUME NEW k \in 1 .. CqEnts - 1 PROVE cq'[(lcl_chead + k) % M] \in Req
        <3>1. k \in 0 .. CqEnts - 1 /\ k # 0
          BY <1>1, <2>1, FirstCqe
        <3>2. QED
          BY <3>1, <1>1, <1>2 DEF CqSound
      <2>3. CqInv' /\ lcl_chead' \in Counter
        BY <1>1, <1>2, <2>1, <2>2, NextCqeInv
      <2>4. RingTypes'
        BY <1>1, <1>2, <2>1, <2>3 DEF RingTypes, NextCqe
      <2>5. SqInv'
        BY <1>1, <1>2, <2>1, SqKept DEF NextCqe
      <2>6. QED
        BY <2>3, <2>4, <2>5 DEF RInv
    <1>4. CASE ret # "cq"
      <2>1. pc' = ret /\ ret' = "app" /\ UNCHANGED lcl_chead /\ ret \in {"app", "prep", "soon", "cqsoon"}
        BY <1>1, <1>4 DEF CbReturn, RingTypes
      <2>2. RingTypes'
        BY <1>1, <1>2, <2>1 DEF RingTypes
      <2>3. SqInv'
        BY <1>1, <1>2, <2>1, SqKept
      <2>4. Dispatches'
        BY <1>1, <1>2, <2>1 DEF Dispatches
      <2>5. CqInv'
        BY <1>1, <1>2, <1>4, <2>1, <2>4, CqKept DEF Called
      <2>6. QED
        BY <2>2, <2>3, <2>5 DEF RInv
    <1>5. QED
      BY <1>3, <1>4

----------------------------------------------------------------------------
(* The kernel *)

LEMMA PostInv ==
    ASSUME RInv, NEW uds \in Seq(Req), Post(uds),
           UNCHANGED <<sq, sring_head, sring_tail, lcl_stail, cring_head, lcl_chead, sqofq, pc, ret>>,
           kernel' \subseteq Seq(Req) \ {<<>>}
    PROVE  RInv'
    <1>1. RingTypes /\ SqInv /\ CqSound /\ Dispatches
      BY DEF RInv, CqInv
    <1>2. PICK new \in Seq(Req) : new = IF backlog = <<>> THEN uds ELSE <<>>
      BY EmptySeq
    <1> DEFINE p == Posted(cq, cring_tail, cring_head, new)
    <1>a. PICK first \in {0, 1} : first = 1 <=> Called
      OBVIOUS
    <1>b. /\ cq \in [0 .. M - 1 -> Slot]
          /\ cring_head \in Counter /\ cring_tail \in Counter /\ lcl_chead \in Counter
          /\ Dist(cring_head, cring_tail) <= M
          /\ Dist(cring_head, lcl_chead) <= Dist(cring_head, cring_tail)
          /\ \A k \in first .. Dist(lcl_chead, cring_tail) - 1 : cq[(lcl_chead + k) % M] \in Req
      BY <1>1, <1>a DEF RingTypes, CqSound, CqEnts
    <1>3. /\ p.ring \in [0 .. M - 1 -> Slot]
          /\ p.tail \in Counter
          /\ p.rest \in Seq(Req)
          /\ Dist(cring_head, p.tail) <= M
          /\ Dist(cring_head, lcl_chead) <= Dist(cring_head, p.tail)
          /\ lcl_chead # cring_tail => lcl_chead # p.tail
          /\ \A k \in first .. Dist(lcl_chead, p.tail) - 1 : p.ring[(lcl_chead + k) % M] \in Req
      BY <1>b, CqGrows
    <1>4. /\ cq' = p.ring /\ cring_tail' = p.tail
          /\ backlog' = IF backlog = <<>> THEN p.rest ELSE backlog \o uds
      BY <1>2 DEF Post
    <1> HIDE DEF p
    <1>5. backlog' \in Seq(Req)
      BY <1>1, <1>3, <1>4, ConcatProperties DEF RingTypes
    <1>6. RingTypes'
      BY <1>1, <1>3, <1>4, <1>5 DEF RingTypes
    <1>7. SqInv'
      BY <1>1, SqKept
    <1>8. CqSound'
      BY <1>a, <1>3, <1>4 DEF CqSound, CqEnts, Called
    <1>9. Dispatches'
      BY <1>1, <1>3, <1>4 DEF Dispatches
    <1>10. QED
      BY <1>6, <1>7, <1>8, <1>9 DEF RInv, CqInv

LEMMA KernelInv ==
    ASSUME RInv, NEW c \in kernel, Succeeds(c) \/ Fails(c)
    PROVE  RInv'
    <1>1. RingTypes /\ SqInv /\ CqInv
      BY DEF RInv
    <1>2. /\ c \in Seq(Req) /\ c # <<>> /\ Head(c) \in Req /\ Tail(c) \in Seq(Req)
          /\ <<Head(c)>> \in Seq(Req)
      <2>1. c \in Seq(Req) /\ c # <<>>
        BY <1>1 DEF RingTypes
      <2>2. QED
        BY <2>1, HeadTailProperties
    <1>3. UNCHANGED <<sq, sring_head, sring_tail, lcl_stail, cring_head, lcl_chead, sqofq, pc, ret>>
      BY DEF Succeeds, Fails, queues, control
    <1>4. kernel' \subseteq Seq(Req) \ {<<>>}
      <2>1. Len(c) > 1 => Tail(c) # <<>>
        <3>1. Len(Tail(c)) = Len(c) - 1 /\ Len(c) \in Nat
          BY <1>2, HeadTailProperties, LenProperties
        <3>2. Len(<<>>) = 0
          BY EmptySeq
        <3>3. SUFFICES ASSUME Tail(c) = <<>>, Len(c) > 1 PROVE FALSE
          OBVIOUS
        <3>4. Len(Tail(c)) = 0
          BY <3>2, <3>3
        <3>5. QED
          BY <3>1, <3>3, <3>4
      <2>2. QED
        BY <1>1, <1>2, <2>1 DEF Succeeds, Fails, RingTypes
    <1>5. CASE UNCHANGED <<cq, cring_tail, backlog>>
      <2>1. RingTypes'
        BY <1>1, <1>3, <1>4, <1>5 DEF RingTypes
      <2>2. SqInv'
        BY <1>1, <1>3, SqKept
      <2>3. CqInv'
        BY <1>1, <1>3, <1>5, CqKept DEF CqInv, Dispatches, Called
      <2>4. QED
        BY <2>1, <2>2, <2>3 DEF RInv
    <1>6. CASE Post(<<Head(c)>>) \/ Post(c)
      BY <1>2, <1>3, <1>4, <1>6, PostInv
    <1>7. QED
      BY <1>5, <1>6 DEF Succeeds, Fails

----------------------------------------------------------------------------

LEMMA InitRInv == Init => RInv
    <1> SUFFICES ASSUME Init PROVE RInv
      OBVIOUS
    <1>1. 0 \in Counter /\ Dist(0, 0) = 0
      BY WNat DEF Counter, Dist
    <1>2. Empty \in [items : Seq(Req), off : Nat] /\ <<>> \in Seq(Req)
      BY EmptySeq DEF Empty
    <1>3. RingTypes
      BY <1>1, <1>2 DEF Init, RingTypes, Slot
    <1>4. SqInv
      BY <1>1, WNat DEF Init, SqInv, SqSound, FlushFits, SqEnts, Empty
    <1>5. CqInv
      BY <1>1, WNat DEF Init, CqInv, CqSound, Dispatches, CqEnts
    <1>6. QED
      BY <1>3, <1>4, <1>5 DEF RInv

LEMMA NextRInv ==
    ASSUME RInv, [Next]_vars, ~Interrupts, ~Bursty
    PROVE  RInv'
    <1>1. ASSUME NEW t \in Task, SubmitTask(t) PROVE RInv'
      BY <1>1, SubmitInv DEF SubmitTask, control, Req
    <1>2. ASSUME NEW l \in Link, SubmitLink(l) PROVE RInv'
      BY <1>2, SubmitInv DEF SubmitLink, control, Req
    <1>3. ASSUME UNCHANGED <<rings, sqofq, pc, ret, ring0>> PROVE RInv'
      <2>1. RingTypes /\ SqInv /\ CqInv
        BY DEF RInv
      <2>2. RingTypes'
        BY <1>3, <2>1 DEF RingTypes, rings, ring0
      <2>3. SqInv'
        BY <1>3, <2>1, SqKept DEF rings
      <2>4. CqInv'
        BY <1>3, <2>1, CqKept DEF rings, CqInv, Dispatches, Called
      <2>5. QED
        BY <2>2, <2>3, <2>4 DEF RInv
    <1>4. ASSUME NEW t \in Task, ETimeFails(t) \/ ESoon(t) PROVE RInv'
      BY <1>3, <1>4 DEF ETimeFails, ESoon, queues, control
    <1>5. ASSUME UNCHANGED vars PROVE RInv'
      BY <1>3, <1>5 DEF vars, queues, control
    <1>6. ASSUME LoopStep PROVE RInv'
      BY <1>6, ExeqInv, EnterInv, WakeInv, DispatchInv, SkipNullInv, CbReturnInv DEF LoopStep
    <1>7. ASSUME NEW k \in 1 .. SqEnts, EnterRejects(k) PROVE RInv'
      BY <1>7, EnterRejectsInv
    <1>8. ASSUME NEW c \in kernel, Succeeds(c) \/ Fails(c) PROVE RInv'
      BY <1>8, KernelInv
    <1>9. QED
      BY <1>1, <1>2, <1>4, <1>5, <1>6, <1>7, <1>8, EnterErrorInv DEF Next

\* The inductive invariant of the rings.
THEOREM RingInvariant ==
    ASSUME ~Interrupts, ~Bursty
    PROVE  Spec => []RInv
    <1>1. RInv /\ [Next]_vars => RInv'
      BY NextRInv
    <1>2. QED
      BY <1>1, InitRInv, PTL DEF Spec

\* "Assuming CQ non-empty, get the entry": each time the dispatch loop reads a
\* CQE there is one, for rings of every size, as long as no signal ends the wait.
THEOREM CqIsNotReadEmpty ==
    ASSUME ~Interrupts, ~Bursty
    PROVE  Spec => []CqNonEmpty
    <1>1. RInv => CqNonEmpty
      BY DEF RInv, CqInv, Dispatches, CqNonEmpty
    <1>2. QED
      BY <1>1, RingInvariant, PTL

\* Neither ring overruns or is reused too early, whatever their sizes, however
\* the counters wrap and whichever SQEs the kernel refuses.
THEOREM RingsAreSound ==
    ASSUME ~Interrupts, ~Bursty
    PROVE  Spec => []RingsSound
    <1>1. ASSUME RInv PROVE RingsSound
      <2>1. RingTypes /\ SqSound /\ CqSound
        BY <1>1 DEF RInv, SqInv, CqInv
      <2>2. Stale \notin Req
        BY Rings
      <2>3. Stale \notin Range(SqHeld)
        <3>1. \A k \in 1 .. Len(SqHeld) : SqHeld[k] \in Req
          BY <2>1, HeldFacts
        <3>2. DOMAIN SqHeld = 1 .. Len(SqHeld)
          BY <2>1, HeldFacts, LenProperties
        <3>3. QED
          BY <2>2, <3>1, <3>2 DEF Range
      <2>4. ASSUME NEW k \in DOMAIN CqHeld, CqHeld[k] = Stale
            PROVE  k = 1 /\ pc = "cb" /\ ret = "cq"
        <3>1. CqEnts \in Nat /\ lcl_chead \in Nat
          <4>1. CqEnts \in Counter /\ lcl_chead \in Counter
            BY <2>1, CounterFacts DEF RingTypes, CqEnts
          <4>2. QED
            BY <4>1 DEF Counter
        <3>2. k \in 1 .. CqEnts /\ CqHeld[k] = cq[(lcl_chead + k - 1) % M]
          BY DEF CqHeld
        <3>3. PICK j \in 0 .. CqEnts - 1 : j = k - 1
          BY <3>1, <3>2
        <3>4. cq[(lcl_chead + j) % M] \in Req \/ (j = 0 /\ Called)
          BY <2>1 DEF CqSound
        <3>5. lcl_chead + j = lcl_chead + k - 1
          BY <3>1, <3>2, <3>3
        <3>6. j = 0 /\ Called
          BY <2>2, <2>4, <3>2, <3>4, <3>5
        <3>7. QED
          BY <3>1, <3>2, <3>3, <3>6 DEF Called
      <2>5. QED
        BY <2>1, <2>3, <2>4 DEF RingsSound, SqSound, CqSound
    <1>2. QED
      BY <1>1, RingInvariant, PTL

=============================================================================
