----------------------------- MODULE OnceProofs -----------------------------
(***************************************************************************)
(* Proofs about IouLoop, continued, under the assumptions of RingProofs.   *)
(*                                                                         *)
(*   OnceInv   a task handed to the loop is in exactly one place until its *)
(*             callback is called: OnePlaceEach, and on it                 *)
(*             LoopKeepsPromise, the refinement of Callbacks               *)
(*   WrapInv   an etime wrapper for each timer: WrappersAreOwned           *)
(*   Rest      the types that the other invariants leave: LoopTypes        *)
(*   ChainInv  no link is parted from its successor: LinksAreKept          *)
(*   SleepInv  what lrun1 leaves when it blocks: LoopSleepsOnNothing       *)
(*                                                                         *)
(* The last two also assume ~Split.                                        *)
(***************************************************************************)
EXTENDS RingProofs, FiniteSetTheorems

----------------------------------------------------------------------------
(* Sequences without repetition *)

Distinct(s) == \A i, j \in 1 .. Len(s) : s[i] = s[j] => i = j

LEMMA RangeFacts ==
    ASSUME NEW X, NEW s \in Seq(X)
    PROVE  /\ Len(s) \in Nat
           /\ Range(s) = {s[k] : k \in 1 .. Len(s)}
           /\ Range(s) \subseteq X
    BY LenProperties DEF Range

LEMMA EmptyFacts == Len(<<>>) = 0 /\ Range(<<>>) = {} /\ Distinct(<<>>)
    <1>1. Len(<<>>) = 0
      BY EmptySeq
    <1>2. QED
      BY <1>1 DEF Range, Distinct

LEMMA AppendFacts ==
    ASSUME NEW X, NEW s \in Seq(X), NEW e \in X
    PROVE  /\ Append(s, e) \in Seq(X) /\ Range(Append(s, e)) = Range(s) \cup {e}
           /\ Distinct(Append(s, e)) <=> Distinct(s) /\ e \notin Range(s)
    <1>1. /\ Append(s, e) \in Seq(X) /\ Len(Append(s, e)) = Len(s) + 1 /\ Len(s) \in Nat
          /\ \A i \in 1 .. Len(s) : Append(s, e)[i] = s[i]
          /\ Append(s, e)[Len(s) + 1] = e
      BY AppendProperties, LenProperties
    <1>2. Range(s) = {s[k] : k \in 1 .. Len(s)}
      BY RangeFacts
    <1>3. Range(Append(s, e)) = {Append(s, e)[k] : k \in 1 .. Len(s) + 1}
      BY <1>1, RangeFacts
    <1>4. 1 .. Len(s) + 1 = 1 .. Len(s) \cup {Len(s) + 1}
      BY <1>1
    <1>5. Range(Append(s, e)) = Range(s) \cup {e}
      BY <1>1, <1>2, <1>3, <1>4
    <1>6. ASSUME Distinct(s), e \notin Range(s) PROVE Distinct(Append(s, e))
      BY <1>1, <1>2, <1>4, <1>6 DEF Distinct
    <1>7. ASSUME Distinct(Append(s, e)) PROVE Distinct(s) /\ e \notin Range(s)
      <2>1. \A i, j \in 1 .. Len(s) + 1 : Append(s, e)[i] = Append(s, e)[j] => i = j
        BY <1>1, <1>7 DEF Distinct
      <2>2. ASSUME NEW i \in 1 .. Len(s), NEW j \in 1 .. Len(s), s[i] = s[j] PROVE i = j
        BY <1>1, <1>4, <2>1, <2>2
      <2>3. ASSUME NEW i \in 1 .. Len(s), s[i] = e PROVE FALSE
        <3>1. i \in 1 .. Len(s) + 1 /\ Len(s) + 1 \in 1 .. Len(s) + 1 /\ i # Len(s) + 1
          BY <1>1
        <3>2. QED
          BY <1>1, <2>1, <2>3, <3>1
      <2>4. QED
        BY <1>2, <2>2, <2>3 DEF Distinct
    <1>8. QED
      BY <1>1, <1>5, <1>6, <1>7

LEMMA TailFacts ==
    ASSUME NEW X, NEW s \in Seq(X), s # <<>>
    PROVE  /\ Head(s) \in X /\ Tail(s) \in Seq(X) /\ Len(Tail(s)) = Len(s) - 1
           /\ Head(s) \in Range(s)
           /\ Range(s) = Range(Tail(s)) \cup {Head(s)}
           /\ Distinct(s) => Distinct(Tail(s)) /\ Head(s) \notin Range(Tail(s))
    <1>1. /\ Head(s) \in X /\ Tail(s) \in Seq(X) /\ Len(Tail(s)) = Len(s) - 1
          /\ \A i \in 1 .. Len(Tail(s)) : Tail(s)[i] = s[i + 1]
          /\ Head(s) = s[1]
      BY HeadTailProperties
    <1>2. Len(s) \in Nat /\ Len(s) >= 1
      BY EmptySeq
    <1>3. Range(s) = {s[k] : k \in 1 .. Len(s)} /\ Range(Tail(s)) = {Tail(s)[k] : k \in 1 .. Len(s) - 1}
      BY <1>1, RangeFacts
    <1>4. \A k \in 2 .. Len(s) : k - 1 \in 1 .. Len(s) - 1 /\ s[k] = Tail(s)[k - 1]
      BY <1>1, <1>2
    <1>5. Range(s) = Range(Tail(s)) \cup {Head(s)}
      <2>1. ASSUME NEW k \in 1 .. Len(s) PROVE s[k] \in Range(Tail(s)) \cup {Head(s)}
        <3>1. CASE k = 1
          BY <3>1, <1>1
        <3>2. CASE k # 1
          <4>1. k \in 2 .. Len(s)
            BY <3>2, <1>2
          <4>2. QED
            BY <4>1, <1>3, <1>4
        <3>3. QED
          BY <3>1, <3>2
      <2>2. ASSUME NEW k \in 1 .. Len(s) - 1 PROVE Tail(s)[k] \in Range(s)
        <3>1. k + 1 \in 1 .. Len(s) /\ Tail(s)[k] = s[k + 1]
          BY <1>1, <1>2
        <3>2. QED
          BY <3>1, <1>3
      <2>3. Head(s) \in Range(s)
        BY <1>1, <1>2, <1>3
      <2>4. QED
        BY <1>3, <2>1, <2>2, <2>3
    <1>6. ASSUME Distinct(s) PROVE Distinct(Tail(s)) /\ Head(s) \notin Range(Tail(s))
      <2>1. ASSUME NEW i \in 1 .. Len(s) - 1, NEW j \in 1 .. Len(s) - 1, Tail(s)[i] = Tail(s)[j]
            PROVE  i = j
        <3>1. i + 1 \in 1 .. Len(s) /\ j + 1 \in 1 .. Len(s) /\ s[i + 1] = s[j + 1]
          BY <2>1, <1>1, <1>2
        <3>2. i + 1 = j + 1
          BY <3>1, <1>6 DEF Distinct
        <3>3. QED
          BY <3>2, <1>2
      <2>2. ASSUME NEW i \in 1 .. Len(s) - 1, Tail(s)[i] = Head(s) PROVE FALSE
        <3>1. i + 1 \in 1 .. Len(s) /\ 1 \in 1 .. Len(s) /\ s[i + 1] = s[1] /\ i + 1 # 1
          BY <2>2, <1>1, <1>2
        <3>2. QED
          BY <3>1, <1>6 DEF Distinct
      <2>3. QED
        BY <2>1, <2>2, <1>1, <1>3 DEF Distinct
    <1>7. QED
      BY <1>1, <1>5, <1>6

LEMMA ConcatFacts ==
    ASSUME NEW X, NEW s \in Seq(X), NEW t \in Seq(X)
    PROVE  /\ s \o t \in Seq(X)
           /\ Range(s \o t) = Range(s) \cup Range(t)
           /\ Distinct(s \o t) <=> Distinct(s) /\ Distinct(t) /\ Range(s) \cap Range(t) = {}
    <1> DEFINE u == s \o t
               m == Len(s)
               n == Len(t)
    <1>1. /\ u \in Seq(X) /\ Len(u) = m + n /\ m \in Nat /\ n \in Nat
          /\ \A i \in 1 .. m + n : u[i] = IF i <= m THEN s[i] ELSE t[i - m]
      BY ConcatProperties, LenProperties
    <1>2. /\ Range(s) = {s[k] : k \in 1 .. m} /\ Range(t) = {t[k] : k \in 1 .. n}
          /\ Range(u) = {u[k] : k \in 1 .. m + n}
      BY <1>1, RangeFacts
    <1>3. Distinct(s) <=> \A i, j \in 1 .. m : s[i] = s[j] => i = j
      BY DEF Distinct
    <1>4. Distinct(t) <=> \A i, j \in 1 .. n : t[i] = t[j] => i = j
      BY DEF Distinct
    <1>5. Distinct(u) <=> \A i, j \in 1 .. m + n : u[i] = u[j] => i = j
      BY <1>1 DEF Distinct
    <1> HIDE DEF u, m, n
    <1>6. \A i \in 1 .. m : i \in 1 .. m + n /\ u[i] = s[i]
      BY <1>1
    <1>7. \A i \in 1 .. n : i + m \in 1 .. m + n /\ u[i + m] = t[i]
      <2>1. ASSUME NEW i \in 1 .. n PROVE i + m \in 1 .. m + n /\ u[i + m] = t[i]
        <3>1. i + m \in 1 .. m + n /\ ~(i + m <= m) /\ (i + m) - m = i
          BY <1>1
        <3>2. QED
          BY <3>1, <1>1
      <2>2. QED
        BY <2>1
    <1>8. \A i \in 1 .. m + n : i \in 1 .. m \/ (\E j \in 1 .. n : i = j + m)
      <2>1. ASSUME NEW i \in 1 .. m + n, i \notin 1 .. m PROVE \E j \in 1 .. n : i = j + m
        <3>1. i - m \in 1 .. n /\ i = (i - m) + m
          BY <2>1, <1>1
        <3>2. QED
          BY <3>1
      <2>2. QED
        BY <2>1
    <1>9. Range(u) = Range(s) \cup Range(t)
      BY <1>2, <1>6, <1>7, <1>8
    <1>10. ASSUME Distinct(u) PROVE Distinct(s) /\ Distinct(t) /\ Range(s) \cap Range(t) = {}
      <2>1. Distinct(s)
        BY <1>3, <1>5, <1>6, <1>10
      <2>2. ASSUME NEW i \in 1 .. n, NEW j \in 1 .. n, t[i] = t[j] PROVE i = j
        <3>1. i + m = j + m
          BY <2>2, <1>5, <1>7, <1>10
        <3>2. QED
          BY <3>1, <1>1
      <2>3. ASSUME NEW i \in 1 .. m, NEW j \in 1 .. n, s[i] = t[j] PROVE FALSE
        <3>1. i = j + m
          BY <2>3, <1>5, <1>6, <1>7, <1>10
        <3>2. QED
          BY <3>1, <1>1
      <2>4. QED
        BY <1>2, <1>4, <2>1, <2>2, <2>3
    <1>11. ASSUME Distinct(s), Distinct(t), Range(s) \cap Range(t) = {} PROVE Distinct(u)
      <2>1. SUFFICES ASSUME NEW i \in 1 .. m + n, NEW j \in 1 .. m + n, u[i] = u[j] PROVE i = j
        BY <1>5
      <2>2. CASE i \in 1 .. m /\ j \in 1 .. m
        BY <2>1, <2>2, <1>3, <1>6, <1>11
      <2>3. CASE i \in 1 .. m /\ j \notin 1 .. m
        BY <2>1, <2>3, <1>2, <1>6, <1>7, <1>8, <1>11
      <2>4. CASE i \notin 1 .. m /\ j \in 1 .. m
        <3>1. PICK k \in 1 .. n : i = k + m
          BY <2>4, <1>8
        <3>2. u[i] = t[k] /\ u[j] = s[j]
          BY <2>4, <3>1, <1>6, <1>7
        <3>3. t[k] \in Range(t) /\ s[j] \in Range(s)
          BY <2>4, <3>1, <1>2
        <3>4. QED
          BY <2>1, <3>2, <3>3, <1>11
      <2>5. CASE i \notin 1 .. m /\ j \notin 1 .. m
        BY <2>1, <2>5, <1>4, <1>7, <1>8, <1>11
      <2>6. QED
        BY <2>2, <2>3, <2>4, <2>5
    <1>12. QED
      BY <1>1, <1>9, <1>10, <1>11 DEF u

\* A sequence is what is up to n and what is behind.
LEMMA SplitAt ==
    ASSUME NEW X, NEW s \in Seq(X), NEW n \in 0 .. Len(s)
    PROVE  /\ SubSeq(s, 1, n) \in Seq(X) /\ Len(SubSeq(s, 1, n)) = n
           /\ \A i \in 1 .. n : SubSeq(s, 1, n)[i] = s[i]
           /\ SubSeq(s, n + 1, Len(s)) \in Seq(X) /\ Len(SubSeq(s, n + 1, Len(s))) = Len(s) - n
           /\ \A i \in 1 .. Len(s) - n : SubSeq(s, n + 1, Len(s))[i] = s[n + i]
           /\ s = SubSeq(s, 1, n) \o SubSeq(s, n + 1, Len(s))
    <1>1. Len(s) \in Nat /\ n \in Nat /\ n + 1 \in Int /\ n <= Len(s)
      BY LenProperties
    <1>2. \A i \in 1 .. Len(s) : s[i] \in X
      BY ElementOfSeq
    <1>3. /\ SubSeq(s, 1, n) \in Seq(X) /\ Len(SubSeq(s, 1, n)) = n
          /\ \A i \in 1 .. n : SubSeq(s, 1, n)[i] = s[i]
      <2>1. \A i \in 1 .. n : s[i] \in X
        BY <1>1, <1>2
      <2>2. /\ SubSeq(s, 1, n) \in Seq(X)
            /\ Len(SubSeq(s, 1, n)) = IF 1 <= n THEN n - 1 + 1 ELSE 0
            /\ \A i \in 1 .. n - 1 + 1 : SubSeq(s, 1, n)[i] = s[1 + i - 1]
        BY <1>1, <2>1, SubSeqProperties
      <2>3. QED
        BY <1>1, <2>2
    <1>4. /\ SubSeq(s, n + 1, Len(s)) \in Seq(X) /\ Len(SubSeq(s, n + 1, Len(s))) = Len(s) - n
          /\ \A i \in 1 .. Len(s) - n : SubSeq(s, n + 1, Len(s))[i] = s[n + i]
      <2>1. \A i \in n + 1 .. Len(s) : s[i] \in X
        BY <1>1, <1>2
      <2>2. /\ SubSeq(s, n + 1, Len(s)) \in Seq(X)
            /\ Len(SubSeq(s, n + 1, Len(s))) = IF n + 1 <= Len(s) THEN Len(s) - (n + 1) + 1 ELSE 0
            /\ \A i \in 1 .. Len(s) - (n + 1) + 1 :
                   SubSeq(s, n + 1, Len(s))[i] = s[(n + 1) + i - 1]
        BY <1>1, <2>1, SubSeqProperties
      <2>3. QED
        BY <1>1, <2>2
    <1>5. SubSeq(s, 1, n) \o SubSeq(s, n + 1, Len(s)) = s
      <2>1. /\ 1 \in 1 .. Len(s) + 1 /\ n \in 1 - 1 .. Len(s) /\ Len(s) \in n .. Len(s)
        BY <1>1
      <2>2. SubSeq(s, 1, n) \o SubSeq(s, n + 1, Len(s)) = SubSeq(s, 1, Len(s))
        BY <2>1, ConcatAdjacentSubSeq
      <2>3. QED
        BY <2>2, SubSeqFull
    <1>6. QED
      BY <1>3, <1>4, <1>5

\* The first n entries of a ring from slot x on.
Window(ring, P, x, n) == [k \in 1 .. n |-> ring[(x + k - 1) % P]]

LEMMA WindowFacts ==
    ASSUME NEW ring, NEW P, NEW x, NEW n \in Nat,
           \A k \in 1 .. n : ring[(x + k - 1) % P] \in Req
    PROVE  /\ Window(ring, P, x, n) \in Seq(Req) /\ Len(Window(ring, P, x, n)) = n
           /\ \A k \in 1 .. n : Window(ring, P, x, n)[k] = ring[(x + k - 1) % P]
    <1>1. Window(ring, P, x, n) \in [1 .. n -> Req]
      BY DEF Window
    <1>2. QED
      BY <1>1 DEF Window

(* The chains of a batch hold each of its requests once *)

\* A set of positive numbers has a least.
LEMMA Least ==
    ASSUME NEW S, S \subseteq Nat, S # {}
    PROVE  \E k \in S : \A j \in S : k <= j
    <1> DEFINE R == OpToRel(<, Nat)
    <1>1. PICK x \in S : \A y \in S : <<y, x>> \notin R
      BY NatLessThanWellFounded, WFMin
    <1>2. \A y \in Nat : <<y, x>> \notin R => ~(y < x)
      BY <1>1, Zenon DEF OpToRel
    <1> HIDE DEF R
    <1>3. ASSUME NEW j \in S PROVE x <= j
      <2>1. ~(j < x) /\ j \in Nat /\ x \in Nat
        BY <1>1, <1>2
      <2>2. QED
        BY <2>1
    <1>4. QED
      BY <1>1, <1>3

\* From i to j is one chain of s.
Chain(s, i, j) ==
    /\ i <= j
    /\ i = 1 \/ ~HasLinkFlag(s[i - 1])
    /\ \A k \in i .. j - 1 : HasLinkFlag(s[k])
    /\ ~HasLinkFlag(s[j]) \/ j = Len(s)

LEMMA ChainBounds ==
    ASSUME NEW s \in Seq(Req), NEW c \in Chains(s)
    PROVE  \E i, j \in 1 .. Len(s) :
               /\ Chain(s, i, j) /\ c = SubSeq(s, i, j)
               /\ c \in Seq(Req) /\ c # <<>> /\ Len(c) = j - i + 1
               /\ \A k \in 1 .. j - i + 1 : c[k] = s[i + k - 1]
    <1>1. PICK b \in (DOMAIN s) \X (DOMAIN s) :
              Chain(s, b[1], b[2]) /\ c = SubSeq(s, b[1], b[2])
      BY DEF Chains, Chain
    <1>2. PICK i \in 1 .. Len(s), j \in 1 .. Len(s) : Chain(s, i, j) /\ c = SubSeq(s, i, j)
      BY <1>1, LenProperties
    <1>3. i <= j /\ i \in Nat /\ j \in Nat
      BY <1>2, LenProperties DEF Chain
    <1>4. \A k \in i .. j : s[k] \in Req
      BY <1>2, LenProperties, ElementOfSeq
    <1>5. /\ c \in Seq(Req) /\ Len(c) = j - i + 1
          /\ \A k \in 1 .. j - i + 1 : c[k] = s[i + k - 1]
      BY <1>2, <1>3, <1>4, SubSeqProperties
    <1>6. c # <<>>
      BY <1>3, <1>5, EmptySeq
    <1>7. QED
      BY <1>2, <1>5, <1>6

LEMMA SubRange ==
    ASSUME NEW s \in Seq(Req), NEW i \in 1 .. Len(s), NEW j \in 1 .. Len(s), i <= j
    PROVE  Range(SubSeq(s, i, j)) = {s[k] : k \in i .. j}
    <1>1. \A m \in i .. j : s[m] \in Req
      BY LenProperties, ElementOfSeq
    <1>2. PICK c \in Seq(Req) :
              /\ c = SubSeq(s, i, j) /\ Len(c) = j - i + 1
              /\ \A k \in 1 .. j - i + 1 : c[k] = s[i + k - 1]
      <2>1. /\ SubSeq(s, i, j) \in Seq(Req) /\ Len(SubSeq(s, i, j)) = j - i + 1
            /\ \A k \in 1 .. j - i + 1 : SubSeq(s, i, j)[k] = s[i + k - 1]
        BY <1>1, LenProperties, SubSeqProperties
      <2>2. QED
        BY <2>1
    <1>3. Range(c) = {c[k] : k \in 1 .. j - i + 1}
      <2>1. Range(c) = {c[k] : k \in 1 .. Len(c)}
        BY RangeFacts
      <2>2. QED
        BY <2>1, <1>2
    <1>4. i \in Nat /\ j \in Nat
      BY LenProperties
    <1>5. ASSUME NEW k \in 1 .. j - i + 1 PROVE c[k] \in {s[m] : m \in i .. j}
      <2>1. c[k] = s[i + k - 1] /\ i + k - 1 \in i .. j
        BY <1>2, <1>4
      <2>2. QED
        BY <2>1
    <1>6. ASSUME NEW k \in i .. j PROVE s[k] \in {c[m] : m \in 1 .. j - i + 1}
      <2>1. k - i + 1 \in 1 .. j - i + 1 /\ i + (k - i + 1) - 1 = k
        BY <1>4
      <2>2. c[k - i + 1] = s[k]
        BY <2>1, <1>2
      <2>3. QED
        BY <2>1, <2>2
    <1>7. Range(c) = {s[k] : k \in i .. j}
      BY <1>3, <1>5, <1>6
    <1>8. QED
      BY <1>2, <1>7

\* Each request of the batch is in a chain.
LEMMA ChainsCover ==
    ASSUME NEW s \in Seq(Req), NEW k \in 1 .. Len(s)
    PROVE  \E c \in Chains(s) : s[k] \in Range(c)
    <1>1. Len(s) \in Nat /\ k \in Nat /\ 1 <= k /\ k <= Len(s) /\ DOMAIN s = 1 .. Len(s)
      BY LenProperties
    <1>2. PICK i \in 1 .. k : /\ i = 1 \/ ~HasLinkFlag(s[i - 1])
                              /\ \A m \in i .. k - 1 : HasLinkFlag(s[m])
      <2> DEFINE ends == {m \in 1 .. k - 1 : ~HasLinkFlag(s[m])}
      <2>1. CASE ends = {}
        <3>1. 1 \in 1 .. k /\ \A m \in 1 .. k - 1 : HasLinkFlag(s[m])
          BY <2>1, <1>1
        <3>2. QED
          BY <3>1
      <2>2. CASE ends # {}
        <3>1. k - 1 \in Nat /\ ends \subseteq 1 .. k - 1
          BY <1>1
        <3>2. \E m \in ends : \A n \in ends : n <= m
          <4> HIDE DEF ends
          <4>1. QED
            BY <2>2, <3>1, Greatest
        <3>3. PICK m \in 1 .. k - 1 : ~HasLinkFlag(s[m]) /\ \A n \in ends : n <= m
          BY <3>2
        <3>4. PICK i \in 1 .. k : i = m + 1
          BY <3>3, <1>1
        <3>5. i - 1 = m
          BY <3>3, <3>4, <1>1
        <3>6. ASSUME NEW n \in i .. k - 1 PROVE HasLinkFlag(s[n])
          <4>1. n \in 1 .. k - 1 /\ ~(n <= m)
            BY <3>3, <3>4, <1>1
          <4>2. n \notin ends
            BY <3>3, <4>1
          <4>3. QED
            BY <4>1, <4>2
        <3>7. QED
          BY <3>3, <3>5, <3>6
      <2>3. QED
        BY <2>1, <2>2
    <1>3. PICK j \in k .. Len(s) : /\ ~HasLinkFlag(s[j]) \/ j = Len(s)
                                   /\ \A m \in k .. j - 1 : HasLinkFlag(s[m])
      <2> DEFINE ends == {m \in k .. Len(s) : ~HasLinkFlag(s[m])}
      <2>1. CASE ends = {}
        <3>1. Len(s) \in k .. Len(s) /\ \A m \in k .. Len(s) - 1 : HasLinkFlag(s[m])
          BY <2>1, <1>1
        <3>2. QED
          BY <3>1
      <2>2. CASE ends # {}
        <3>1. ends \subseteq Nat
          BY <1>1
        <3>2. \E j \in ends : \A m \in ends : j <= m
          <4> HIDE DEF ends
          <4>1. QED
            BY <2>2, <3>1, Least
        <3>3. PICK j \in k .. Len(s) : ~HasLinkFlag(s[j]) /\ \A m \in ends : j <= m
          BY <3>2
        <3>4. ASSUME NEW m \in k .. j - 1 PROVE HasLinkFlag(s[m])
          <4>1. m \in k .. Len(s) /\ ~(j <= m)
            BY <3>3, <1>1
          <4>2. m \notin ends
            BY <3>3, <4>1
          <4>3. QED
            BY <4>1, <4>2
        <3>5. QED
          BY <3>3, <3>4
      <2>3. QED
        BY <2>1, <2>2
    <1>4. i \in 1 .. Len(s) /\ j \in 1 .. Len(s) /\ i <= k /\ k <= j /\ i <= j
      BY <1>1
    <1>5. \A m \in i .. j - 1 : HasLinkFlag(s[m])
      <2>1. ASSUME NEW m \in i .. j - 1 PROVE m \in i .. k - 1 \/ m \in k .. j - 1
        BY <1>1, <1>4
      <2>2. QED
        BY <2>1, <1>2, <1>3
    <1>6. Chain(s, i, j)
      BY <1>2, <1>3, <1>4, <1>5 DEF Chain
    <1>7. SubSeq(s, i, j) \in Chains(s)
      <2>1. PICK b \in (DOMAIN s) \X (DOMAIN s) : b[1] = i /\ b[2] = j
        <3>1. <<i, j>> \in (DOMAIN s) \X (DOMAIN s)
          BY <1>1, <1>4
        <3>2. QED
          BY <3>1
      <2>2. Chain(s, b[1], b[2]) /\ SubSeq(s, i, j) = SubSeq(s, b[1], b[2])
        BY <2>1, <1>6
      <2>3. QED
        BY <2>2 DEF Chains, Chain
    <1>8. s[k] \in Range(SubSeq(s, i, j))
      <2>3. Range(SubSeq(s, i, j)) = {s[m] : m \in i .. j}
        BY <1>4, SubRange
      <2>4. k \in i .. j
        BY <1>1, <1>4
      <2>5. QED
        BY <2>3, <2>4
    <1>9. QED
      BY <1>7, <1>8

\* No two chains share a place.
LEMMA ChainsApart ==
    ASSUME NEW s \in Seq(Req),
           NEW i \in 1 .. Len(s), NEW j \in 1 .. Len(s), Chain(s, i, j),
           NEW m \in 1 .. Len(s), NEW n \in 1 .. Len(s), Chain(s, m, n),
           NEW k \in i .. j, k \in m .. n
    PROVE  i = m /\ j = n
    <1>1. Len(s) \in Nat
      BY LenProperties
    <1>2. ASSUME NEW a \in 1 .. Len(s), NEW b \in 1 .. Len(s), Chain(s, a, b), k \in a .. b,
                 NEW c \in 1 .. Len(s), NEW d \in 1 .. Len(s), Chain(s, c, d), k \in c .. d
          PROVE  ~(a < c)
      <2>1. SUFFICES ASSUME a < c PROVE FALSE
        OBVIOUS
      <2>2. c - 1 \in a .. b - 1 /\ c # 1
        BY <1>1, <1>2, <2>1
      <2>3. QED
        BY <2>2, <1>2 DEF Chain
    <1>3. i = m
      BY <1>1, <1>2
    <1>4. ASSUME NEW b \in 1 .. Len(s), Chain(s, i, b), k \in i .. b,
                 NEW d \in 1 .. Len(s), Chain(s, i, d), k \in i .. d
          PROVE  ~(b < d)
      <2>1. SUFFICES ASSUME b < d PROVE FALSE
        OBVIOUS
      <2>2. b \in i .. d - 1 /\ b # Len(s)
        BY <1>1, <1>4, <2>1
      <2>3. QED
        BY <2>2, <1>4 DEF Chain
    <1>5. j = n
      BY <1>1, <1>3, <1>4
    <1>6. QED
      BY <1>3, <1>5

LEMMA ChainsFacts ==
    ASSUME NEW s \in Seq(Req)
    PROVE  /\ Chains(s) \subseteq Seq(Req) \ {<<>>}
           /\ UNION {Range(c) : c \in Chains(s)} = Range(s)
           /\ Distinct(s) =>
                  /\ \A c \in Chains(s) : Distinct(c)
                  /\ \A c, d \in Chains(s) : c # d => Range(c) \cap Range(d) = {}
    <1>1. Chains(s) \subseteq Seq(Req) \ {<<>>}
      BY ChainsOfRequests
    <1>2. Range(s) = {s[k] : k \in 1 .. Len(s)} /\ Len(s) \in Nat
      BY RangeFacts
    <1>3. ASSUME NEW c \in Chains(s) PROVE Range(c) \subseteq Range(s)
      <2>1. PICK i \in 1 .. Len(s), j \in 1 .. Len(s) :
               /\ Chain(s, i, j) /\ c = SubSeq(s, i, j)
               /\ c \in Seq(Req) /\ c # <<>> /\ Len(c) = j - i + 1
               /\ \A k \in 1 .. j - i + 1 : c[k] = s[i + k - 1]
        BY ChainBounds
      <2>2. Range(c) = {s[k] : k \in i .. j}
        BY <2>1, SubRange DEF Chain
      <2>3. i .. j \subseteq 1 .. Len(s)
        BY <1>2
      <2>4. QED
        BY <2>2, <2>3, <1>2
    <1>4. UNION {Range(c) : c \in Chains(s)} = Range(s)
      <2>1. \A k \in 1 .. Len(s) : \E c \in Chains(s) : s[k] \in Range(c)
        BY ChainsCover
      <2>2. QED
        BY <2>1, <1>2, <1>3
    <1>5. ASSUME Distinct(s), NEW c \in Chains(s) PROVE Distinct(c)
      <2>1. PICK i \in 1 .. Len(s), j \in 1 .. Len(s) :
               /\ Chain(s, i, j) /\ c = SubSeq(s, i, j)
               /\ c \in Seq(Req) /\ c # <<>> /\ Len(c) = j - i + 1
               /\ \A k \in 1 .. j - i + 1 : c[k] = s[i + k - 1]
        BY ChainBounds
      <2>2. ASSUME NEW p \in 1 .. j - i + 1, NEW q \in 1 .. j - i + 1, c[p] = c[q] PROVE p = q
        <3>1. s[i + p - 1] = s[i + q - 1] /\ i + p - 1 \in 1 .. Len(s) /\ i + q - 1 \in 1 .. Len(s)
          BY <2>1, <2>2, <1>2
        <3>2. i + p - 1 = i + q - 1
          BY <3>1, <1>5 DEF Distinct
        <3>3. i \in Int /\ p \in Int /\ q \in Int
          BY <1>2
        <3>4. QED
          BY <3>2, <3>3
      <2>3. QED
        BY <2>1, <2>2 DEF Distinct
    <1>6. ASSUME Distinct(s), NEW c \in Chains(s), NEW d \in Chains(s),
                 NEW e \in Range(c) \cap Range(d)
          PROVE  c = d
      <2>1. PICK i \in 1 .. Len(s), j \in 1 .. Len(s) :
               /\ Chain(s, i, j) /\ c = SubSeq(s, i, j)
               /\ c \in Seq(Req) /\ c # <<>> /\ Len(c) = j - i + 1
               /\ \A k \in 1 .. j - i + 1 : c[k] = s[i + k - 1]
        BY ChainBounds
      <2>2. PICK m \in 1 .. Len(s), n \in 1 .. Len(s) :
               /\ Chain(s, m, n) /\ d = SubSeq(s, m, n)
               /\ d \in Seq(Req) /\ d # <<>> /\ Len(d) = n - m + 1
               /\ \A k \in 1 .. n - m + 1 : d[k] = s[m + k - 1]
        BY ChainBounds
      <2>3. Range(c) = {s[k] : k \in i .. j} /\ Range(d) = {s[k] : k \in m .. n}
        BY <2>1, <2>2, SubRange DEF Chain
      <2>4. PICK k \in i .. j, h \in m .. n : s[k] = e /\ s[h] = e
        BY <2>3
      <2>5. k = h
        <3>1. k \in 1 .. Len(s) /\ h \in 1 .. Len(s)
          BY <1>2
        <3>2. QED
          BY <3>1, <2>4, <1>6 DEF Distinct
      <2>6. i = m /\ j = n
        BY <2>1, <2>2, <2>4, <2>5, ChainsApart
      <2>7. \A x \in 1 .. Len(c) : c[x] = d[x]
        BY <2>1, <2>2, <2>6
      <2>8. QED
        BY <2>1, <2>2, <2>6, <2>7, SeqEqual
    <1>7. QED
      BY <1>1, <1>4, <1>5, <1>6

(* Requests move between the SQ s, the overflow o, the completions q and the *)
(* chains K the kernel has taken, and none is ever in two of them.           *)

Apart(s, o, q, K) ==
    /\ Distinct(s) /\ Distinct(o) /\ Distinct(q)
    /\ Range(s) \cap Range(o) = {} /\ Range(s) \cap Range(q) = {} /\ Range(o) \cap Range(q) = {}
    /\ \A c \in K : /\ Distinct(c)
                    /\ Range(c) \cap (Range(s) \cup Range(o) \cup Range(q)) = {}
    /\ \A c, d \in K : c # d => Range(c) \cap Range(d) = {}

Held(s, o, q, K) == Range(s) \cup Range(o) \cup Range(q) \cup UNION {Range(c) : c \in K}

LEMMA HeldAppend ==
    ASSUME NEW s \in Seq(Req), NEW o \in Seq(Req), NEW q \in Seq(Req), NEW K,
           Apart(s, o, q, K), NEW r \in Req, r \notin Held(s, o, q, K)
    PROVE  /\ Apart(Append(s, r), o, q, K) /\ Held(Append(s, r), o, q, K) = Held(s, o, q, K) \cup {r}
           /\ Apart(s, Append(o, r), q, K) /\ Held(s, Append(o, r), q, K) = Held(s, o, q, K) \cup {r}
    <1>1. /\ r \notin Range(s) /\ r \notin Range(o) /\ r \notin Range(q)
          /\ \A c \in K : r \notin Range(c)
      BY DEF Held
    <1>2. /\ Range(Append(s, r)) = Range(s) \cup {r} /\ Distinct(Append(s, r))
          /\ Range(Append(o, r)) = Range(o) \cup {r} /\ Distinct(Append(o, r))
      BY <1>1, AppendFacts DEF Apart
    <1>3. QED
      BY <1>1, <1>2 DEF Apart, Held

\* The kernel takes the SQ.
LEMMA HeldTaken ==
    ASSUME NEW s \in Seq(Req), NEW o \in Seq(Req), NEW q \in Seq(Req), NEW K,
           Apart(s, o, q, K)
    PROVE  /\ Apart(<<>>, o, q, K \cup Chains(s))
           /\ Held(<<>>, o, q, K \cup Chains(s)) = Held(s, o, q, K)
    <1> DEFINE L == Chains(s)
    <1>1. /\ UNION {Range(c) : c \in L} = Range(s)
          /\ \A c \in L : Distinct(c)
          /\ \A c, d \in L : c # d => Range(c) \cap Range(d) = {}
      BY ChainsFacts DEF Apart
    <1> HIDE DEF L
    <1>2. \A c \in L : Range(c) \subseteq Range(s)
      BY <1>1
    <1>3. Apart(<<>>, o, q, K \cup L)
      <2>1. \A c \in K \cup L : /\ Distinct(c)
                                /\ Range(c) \cap (Range(o) \cup Range(q)) = {}
        BY <1>1, <1>2 DEF Apart
      <2>2. \A c, d \in K \cup L : c # d => Range(c) \cap Range(d) = {}
        <3>1. \A c \in K, d \in L : Range(c) \cap Range(d) = {}
          BY <1>2 DEF Apart
        <3>2. QED
          BY <1>1, <3>1 DEF Apart
      <2>3. QED
        BY <2>1, <2>2, EmptyFacts DEF Apart
    <1>4. Held(<<>>, o, q, K \cup L) = Held(s, o, q, K)
      BY <1>1, EmptyFacts DEF Held
    <1>5. QED
      BY <1>3, <1>4 DEF L

\* It refuses the k-th SQE and takes those ahead of it.
Refused(s, o, q, K, k) ==
    LET b == SubSeq(s, k + 1, Len(s))
        L == K \cup Chains(SubSeq(s, 1, k - 1))
    IN  /\ Apart(b, o, Append(q, s[k]), L)
        /\ Held(b, o, Append(q, s[k]), L) = Held(s, o, q, K)

LEMMA HeldRejected ==
    ASSUME NEW s \in Seq(Req), NEW o \in Seq(Req), NEW q \in Seq(Req), NEW K,
           Apart(s, o, q, K), NEW k \in 1 .. Len(s)
    PROVE  Refused(s, o, q, K, k)
    <1> DEFINE a == SubSeq(s, 1, k - 1)
               b == SubSeq(s, k + 1, Len(s))
               e == s[k]
    <1>1. Len(s) \in Nat /\ k \in Nat /\ k - 1 \in 0 .. Len(s) /\ k \in 0 .. Len(s) /\ k - 1 + 1 = k
      BY LenProperties
    <1>2. e \in Req
      BY ElementOfSeq
    <1>3. a \in Seq(Req) /\ Len(a) = k - 1 /\ \A i \in 1 .. k - 1 : a[i] = s[i]
      BY <1>1, SplitAt
    <1>4. b \in Seq(Req) /\ Len(b) = Len(s) - k /\ \A i \in 1 .. Len(s) - k : b[i] = s[k + i]
      BY <1>1, SplitAt
    <1>5. SubSeq(s, 1, k) = Append(a, e)
      <2>1. /\ SubSeq(s, 1, k) \in Seq(Req) /\ Len(SubSeq(s, 1, k)) = k
            /\ \A i \in 1 .. k : SubSeq(s, 1, k)[i] = s[i]
        BY <1>1, SplitAt
      <2>2. /\ Append(a, e) \in Seq(Req) /\ Len(Append(a, e)) = k - 1 + 1
            /\ \A i \in 1 .. k - 1 : Append(a, e)[i] = a[i]
            /\ Append(a, e)[k - 1 + 1] = e
        BY <1>2, <1>3, AppendProperties
      <2> HIDE DEF a
      <2>3. ASSUME NEW i \in 1 .. k PROVE Append(a, e)[i] = s[i]
        <3>1. CASE i = k
          BY <3>1, <2>2, <1>1
        <3>2. CASE i # k
          <4>1. i \in 1 .. k - 1
            BY <3>2, <1>1
          <4>2. QED
            BY <4>1, <2>2, <1>3
        <3>3. QED
          BY <3>1, <3>2
      <2>4. Len(Append(a, e)) = k
        BY <2>2, <1>1
      <2> HIDE DEF e
      <2>5. QED
        BY <2>1, <2>2, <2>3, <2>4, SeqEqual
    <1>6. PICK u \in Seq(Req) : u = Append(a, e) /\ s = u \o b
      <2>1. s = SubSeq(s, 1, k) \o b /\ SubSeq(s, 1, k) \in Seq(Req)
        BY <1>1, SplitAt
      <2>2. QED
        BY <2>1, <1>5
    <1> HIDE DEF a, b, e
    <1>8. /\ Distinct(u) /\ Distinct(b) /\ Range(u) \cap Range(b) = {}
          /\ Range(s) = Range(u) \cup Range(b)
      <2>1. Distinct(u \o b)
        BY <1>6 DEF Apart
      <2>2. /\ Range(u \o b) = Range(u) \cup Range(b)
            /\ Distinct(u \o b) => Distinct(u) /\ Distinct(b) /\ Range(u) \cap Range(b) = {}
        BY <1>4, ConcatFacts
      <2>3. QED
        BY <2>1, <2>2, <1>6
    <1>10. Distinct(a) /\ e \notin Range(a) /\ Range(u) = Range(a) \cup {e}
      BY <1>2, <1>3, <1>6, <1>8, AppendFacts
    <1>11. /\ Range(Append(q, e)) = Range(q) \cup {e} /\ Distinct(Append(q, e))
           /\ Append(q, e) \in Seq(Req)
      BY <1>2, <1>8, <1>10, AppendFacts DEF Apart
    <1>12. Range(s) = Range(a) \cup {e} \cup Range(b) /\ e \notin Range(b) /\ Range(a) \cap Range(b) = {}
      BY <1>8, <1>10
    <1>13. Apart(a, o, Append(q, e), K)
      BY <1>10, <1>11, <1>12 DEF Apart
    <1>a. /\ Apart(<<>>, o, Append(q, e), K \cup Chains(a))
          /\ Held(<<>>, o, Append(q, e), K \cup Chains(a)) = Held(a, o, Append(q, e), K)
      <2>1. PICK v \in Seq(Req) : v = Append(q, e)
        BY <1>11
      <2>2. a \in Seq(Req) /\ Apart(a, o, v, K)
        BY <2>1, <1>3, <1>13
      <2>3. /\ Apart(<<>>, o, v, K \cup Chains(a))
            /\ Held(<<>>, o, v, K \cup Chains(a)) = Held(a, o, v, K)
        <3>1. PICK L : L = Chains(a)
          OBVIOUS
        <3>2. Apart(<<>>, o, v, K \cup L)
          BY <2>2, <3>1, HeldTaken
        <3>3. Held(<<>>, o, v, K \cup L) = Held(a, o, v, K)
          <4>1. UNION {Range(c) : c \in L} = Range(a)
            BY <2>2, <3>1, ChainsFacts
          <4>2. QED
            BY <4>1, EmptyFacts DEF Held
        <3>4. QED
          BY <3>1, <3>2, <3>3
      <2>4. QED
        BY <2>1, <2>3
    <1> DEFINE L == Chains(a)
    <1>14. /\ Apart(<<>>, o, Append(q, e), K \cup L)
           /\ Held(<<>>, o, Append(q, e), K \cup L) = Held(a, o, Append(q, e), K)
      BY <1>a
    <1>15. \A c \in K \cup L : Range(c) \cap Range(b) = {}
      <2>1. UNION {Range(c) : c \in L} = Range(a)
        BY <1>3, ChainsFacts
      <2> HIDE DEF L
      <2>2. QED
        BY <2>1, <1>12 DEF Apart
    <1> HIDE DEF L
    <1>16. Apart(b, o, Append(q, e), K \cup L)
      BY <1>8, <1>11, <1>12, <1>14, <1>15 DEF Apart
    <1>17. Held(b, o, Append(q, e), K \cup L) = Held(s, o, q, K)
      <2>1. Held(b, o, Append(q, e), K \cup L) = Range(b) \cup Held(<<>>, o, Append(q, e), K \cup L)
        BY EmptyFacts DEF Held
      <2>2. QED
        BY <2>1, <1>11, <1>12, <1>14 DEF Held
    <1>18. QED
      BY <1>16, <1>17 DEF a, b, e, L, Refused

\* A completion is passed.
LEMMA HeldTail ==
    ASSUME NEW s \in Seq(Req), NEW o \in Seq(Req), NEW q \in Seq(Req), NEW K,
           Apart(s, o, q, K), q # <<>>
    PROVE  /\ Apart(s, o, Tail(q), K)
           /\ Held(s, o, Tail(q), K) = Held(s, o, q, K) \ {Head(q)}
           /\ Head(q) \in Held(s, o, q, K)
    <1>1. /\ Head(q) \in Range(q) /\ Range(q) = Range(Tail(q)) \cup {Head(q)}
          /\ Distinct(Tail(q)) /\ Head(q) \notin Range(Tail(q))
      BY TailFacts DEF Apart
    <1>2. QED
      BY <1>1 DEF Apart, Held

\* The overflow moves to the SQ, which is empty.
LEMMA HeldFlushed ==
    ASSUME NEW o, NEW q, NEW K, Apart(<<>>, o, q, K)
    PROVE  Apart(o, <<>>, q, K) /\ Held(o, <<>>, q, K) = Held(<<>>, o, q, K)
    BY EmptyFacts DEF Apart, Held

\* All of a chain completes, or only its first request.
LEMMA HeldFailed ==
    ASSUME NEW s \in Seq(Req), NEW o \in Seq(Req), NEW q \in Seq(Req), NEW K,
           Apart(s, o, q, K), NEW c \in K, c \in Seq(Req)
    PROVE  Apart(s, o, q \o c, K \ {c}) /\ Held(s, o, q \o c, K \ {c}) = Held(s, o, q, K)
    <1>1. /\ Range(q \o c) = Range(q) \cup Range(c)
          /\ Distinct(q \o c)
      BY ConcatFacts DEF Apart
    <1>2. \A d \in K \ {c} : Range(d) \cap Range(c) = {}
      BY DEF Apart
    <1>3. QED
      BY <1>1, <1>2 DEF Apart, Held

\* The head of a chain completes, with a completion or without; the rest of
\* the chain follows or is gone.
Started(s, o, q, K, c) ==
    LET next == (K \ {c}) \cup (IF Len(c) > 1 THEN {Tail(c)} ELSE {})
        all == Held(s, o, q, K)
    IN  /\ Head(c) \in all /\ Range(Tail(c)) \subseteq all
        /\ Apart(s, o, q, next) /\ Held(s, o, q, next) = all \ {Head(c)}
        /\ Apart(s, o, Append(q, Head(c)), next) /\ Held(s, o, Append(q, Head(c)), next) = all
        /\ Apart(s, o, Append(q, Head(c)), K \ {c})
        /\ Held(s, o, Append(q, Head(c)), K \ {c}) = all \ Range(Tail(c))

LEMMA HeldStarted ==
    ASSUME NEW s \in Seq(Req), NEW o \in Seq(Req), NEW q \in Seq(Req), NEW K,
           Apart(s, o, q, K), NEW c \in K, c \in Seq(Req), c # <<>>
    PROVE  Started(s, o, q, K, c)
    <1> DEFINE h == Head(c)
               t == Tail(c)
               next == (K \ {c}) \cup (IF Len(c) > 1 THEN {t} ELSE {})
    <1>1. /\ h \in Req /\ t \in Seq(Req) /\ Len(t) = Len(c) - 1
          /\ h \in Range(c) /\ Range(c) = Range(t) \cup {h}
          /\ Distinct(t) /\ h \notin Range(t)
      BY TailFacts DEF Apart
    <1>2. /\ Range(Append(q, h)) = Range(q) \cup {h} /\ Distinct(Append(q, h))
      <2>1. h \notin Range(q)
        BY <1>1 DEF Apart
      <2>2. QED
        BY <1>1, <2>1, AppendFacts DEF Apart
    <1>3. ~(Len(c) > 1) => Range(t) = {}
      <2>1. Len(c) \in Nat \ {0}
        BY EmptySeq
      <2>2. ~(Len(c) > 1) => Len(t) = 0
        BY <1>1, <2>1
      <2>3. Len(t) = 0 => t = <<>>
        BY <1>1, EmptySeq
      <2>4. QED
        BY <2>2, <2>3, EmptyFacts
    <1> HIDE DEF h, t
    <1>4. \A d \in K \ {c} : Range(d) \cap Range(t) = {} /\ h \notin Range(d)
      BY <1>1 DEF Apart
    <1>5. UNION {Range(d) : d \in next} = (UNION {Range(d) : d \in K \ {c}}) \cup Range(t)
      BY <1>3
    <1>6. UNION {Range(d) : d \in K} = (UNION {Range(d) : d \in K \ {c}}) \cup Range(t) \cup {h}
      BY <1>1
    <1>7. \A d \in next : Distinct(d) /\ h \notin Range(d)
                          /\ Range(d) \cap (Range(s) \cup Range(o) \cup Range(q)) = {}
      BY <1>1, <1>4 DEF Apart
    <1>8. \A d, e \in next : d # e => Range(d) \cap Range(e) = {}
      BY <1>4 DEF Apart
    <1>9. h \notin Range(s) /\ h \notin Range(o) /\ h \notin Range(q)
      BY <1>1 DEF Apart
    <1>10. Range(t) \cap (Range(s) \cup Range(o) \cup Range(q)) = {}
      BY <1>1 DEF Apart
    <1>11. \A d \in K \ {c} : Distinct(d) /\ Range(d) \cap (Range(s) \cup Range(o) \cup Range(q)) = {}
      BY DEF Apart
    <1>12. \A d, e \in K \ {c} : d # e => Range(d) \cap Range(e) = {}
      BY DEF Apart
    <1> HIDE DEF next
    <1>13. Apart(s, o, q, next) /\ Apart(s, o, Append(q, h), next)
      BY <1>2, <1>7, <1>8, <1>9 DEF Apart
    <1>14. Apart(s, o, Append(q, h), K \ {c})
      BY <1>2, <1>4, <1>9, <1>11, <1>12 DEF Apart
    <1>15. h \in Held(s, o, q, K) /\ Range(t) \subseteq Held(s, o, q, K)
      BY <1>6 DEF Held
    <1>16. Held(s, o, Append(q, h), next) = Held(s, o, q, K)
      BY <1>2, <1>5, <1>6 DEF Held
    <1>17. h \notin UNION {Range(d) : d \in next}
      BY <1>7
    <1>18. Held(s, o, q, next) = Held(s, o, q, K) \ {h}
      <2>1. PICK U, V, T : /\ U = UNION {Range(d) : d \in next}
                           /\ V = UNION {Range(d) : d \in K}
                           /\ T = UNION {Range(d) : d \in K \ {c}}
        OBVIOUS
      <2>2. V = U \cup {h} /\ h \notin U
        <3>1. U = T \cup Range(t) /\ V = T \cup Range(t) \cup {h}
          BY <2>1, <1>5, <1>6
        <3>2. QED
          BY <2>1, <3>1, <1>17
      <2>3. /\ Held(s, o, q, next) = Range(s) \cup Range(o) \cup Range(q) \cup U
            /\ Held(s, o, q, K) = Range(s) \cup Range(o) \cup Range(q) \cup V
        BY <2>1, Zenon DEF Held
      <2>4. QED
        BY <2>2, <2>3, <1>9
    <1>19. \A x \in Range(t) : x \notin UNION {Range(d) : d \in K \ {c}}
      BY <1>4
    <1>20. Held(s, o, Append(q, h), K \ {c}) = Held(s, o, q, K) \ Range(t)
      BY <1>1, <1>2, <1>6, <1>10, <1>19 DEF Held
    <1>21. QED
      BY <1>13, <1>14, <1>15, <1>16, <1>18, <1>20 DEF h, t, next, Started

----------------------------------------------------------------------------
(* What lies in a ring, in order *)

\* In p the completions uds, as far as there is room, are behind those that
\* were there, and the rest is left.  l is where the loop is.
Behind(p, ring, t, h, l, uds) ==
    LET n == Smaller(M - Dist(h, t), Len(uds))
        d == Dist(l, t)
    IN  /\ n \in 0 .. Len(uds) /\ d \in Nat /\ d + n <= M
        /\ Dist(l, p.tail) = d + n
        /\ p.rest = SubSeq(uds, n + 1, Len(uds))
        /\ \A k \in 0 .. d - 1 : p.ring[(l + k) % M] = ring[(l + k) % M]
        /\ \A k \in 1 .. n : p.ring[(t + k - 1) % M] = uds[k]

LEMMA PostedBehind ==
    ASSUME NEW ring, NEW t \in Counter, NEW h \in Counter,
           NEW l \in Counter, NEW uds \in Seq(Req), Dist(h, t) <= M, Dist(h, l) <= Dist(h, t)
    PROVE  Behind(Posted(ring, t, h, uds), ring, t, h, l, uds)
    <1> DEFINE p == Posted(ring, t, h, uds)
               n == Smaller(M - Dist(h, t), Len(uds))
               d == Dist(l, t)
               Hit(i) == \E k \in 1 .. n : (t + k - 1) % M = i
               At(i) == CHOOSE k \in 1 .. n : (t + k - 1) % M = i
    <1>1. /\ Dist(h, t) \in Nat /\ Dist(h, l) \in Nat /\ d \in Nat /\ Dist(h, l) + d = Dist(h, t)
      <2>1. Dist(h, t) \in Counter /\ Dist(h, l) \in Counter /\ Dist(l, t) \in Counter
        BY CounterFacts
      <2>2. QED
        BY <2>1, Between, WNat DEF Counter
    <1>2. n \in Nat /\ n <= Len(uds) /\ Dist(h, t) + n <= M /\ d + n <= M /\ d + n < W /\ n <= M
      <2>1. n \in Nat /\ n <= Len(uds) /\ n <= M - Dist(h, t)
        <3> HIDE DEF d
        <3>1. M \in Nat /\ Len(uds) \in Nat /\ M - Dist(h, t) \in Nat
          BY <1>1, WNat, LenProperties
        <3>2. QED
          BY <3>1 DEF Smaller
      <2> HIDE DEF n, d
      <2>2. QED
        BY <2>1, <1>1, WNat
    <1>3. /\ p.ring = [i \in 0 .. M - 1 |-> IF Hit(i) THEN uds[At(i)] ELSE ring[i]]
          /\ p.tail = Plus(t, n)
          /\ p.rest = SubSeq(uds, n + 1, Len(uds))
      BY DEF Posted
    <1> HIDE DEF p, n, d
    <1>4. \A i \in 0 .. M - 1 : p.ring[i] = IF Hit(i) THEN uds[At(i)] ELSE ring[i]
      BY <1>3
    <1>5. Dist(l, p.tail) = d + n
      <2>1. Dist(l, t) + n < W
        BY <1>2 DEF d
      <2>2. QED
        BY <2>1, <1>2, <1>3, PlusFacts DEF d
    <1>6. l \in Nat /\ t \in Nat
      BY DEF Counter
    <1>7. ASSUME NEW k \in 1 .. n PROVE (t + k - 1) % M = (l + (d + (k - 1))) % M
      <2>1. PICK j \in Nat : j = k - 1
        BY <1>2
      <2>2. (t + j) % M = (l + Dist(l, t) + j) % M
        BY <2>1, Rings, WNat, DistSlot, ZenonT(60)
      <2>3. t + j = t + k - 1 /\ l + Dist(l, t) + j = l + (d + (k - 1))
        BY <2>1, <1>1, <1>6 DEF d
      <2>4. QED
        BY <2>2, <2>3
    <1>8. ASSUME NEW i \in Nat, NEW j \in Nat, i < j, j < d + n PROVE (l + i) % M # (l + j) % M
      <2>1. l + i \in Nat /\ l + j \in Nat /\ l + i < l + j /\ l + j < (l + i) + M
        BY <1>1, <1>2, <1>6, <1>8, WNat
      <2>2. QED
        BY <2>1, WNat, SlotsDiffer
    <1>9. ASSUME NEW k \in 0 .. d - 1 PROVE p.ring[(l + k) % M] = ring[(l + k) % M]
      <2>1. k \in Nat /\ l + k \in Nat /\ (l + k) % M \in 0 .. M - 1
        <3>1. k \in Nat /\ l + k \in Nat
          BY <1>1, <1>6
        <3>2. QED
          BY <3>1, Rings
      <2>2. ASSUME NEW m \in 1 .. n PROVE (t + m - 1) % M # (l + k) % M
        <3>1. d + (m - 1) \in Nat /\ k < d + (m - 1) /\ d + (m - 1) < d + n
          BY <1>1, <1>2, <2>1
        <3>2. (l + k) % M # (l + (d + (m - 1))) % M
          BY <3>1, <2>1, <1>8
        <3>3. QED
          BY <3>2, <1>7
      <2>3. ~Hit((l + k) % M)
        BY <2>2
      <2> HIDE DEF Hit, At
      <2>4. QED
        BY <2>1, <2>3, <1>4
    <1>10. ASSUME NEW k \in 1 .. n PROVE p.ring[(t + k - 1) % M] = uds[k]
      <2>1. t + k - 1 \in Nat /\ (t + k - 1) % M \in 0 .. M - 1
        <3>1. t + k - 1 \in Nat
          BY <1>2, <1>6
        <3>2. QED
          BY <3>1, Rings
      <2>2. Hit((t + k - 1) % M)
        OBVIOUS
      <2>3. PICK m \in 1 .. n : m = At((t + k - 1) % M) /\ (t + m - 1) % M = (t + k - 1) % M
        BY <2>2
      <2>4. m = k
        <3>1. (l + (d + (m - 1))) % M = (l + (d + (k - 1))) % M
          BY <2>3, <1>7
        <3>2. d + (m - 1) \in Nat /\ d + (k - 1) \in Nat /\ d + (m - 1) < d + n /\ d + (k - 1) < d + n
          BY <1>1, <1>2
        <3>3. ~(d + (m - 1) < d + (k - 1)) /\ ~(d + (k - 1) < d + (m - 1))
          BY <3>1, <3>2, <1>8
        <3>4. QED
          BY <3>3, <1>1, <1>2
      <2> HIDE DEF Hit, At
      <2>5. QED
        BY <2>1, <2>2, <2>3, <2>4, <1>4
    <1>12. n \in 0 .. Len(uds)
      BY <1>2, LenProperties
    <1>13. QED
      BY <1>1, <1>2, <1>3, <1>5, <1>9, <1>10, <1>12 DEF p, n, d, Behind

\* The completions there are, and those to come, stay in order.
InOrder(p, ring, t, l, first, uds) ==
    LET old == Window(ring, M, l + first, Dist(l, t) - first)
        new == Window(p.ring, M, l + first, Dist(l, p.tail) - first)
    IN  first <= Dist(l, p.tail) /\ new \in Seq(Req) /\ new \o p.rest = old \o uds

LEMMA PostedWindow ==
    ASSUME NEW ring, NEW t \in Counter, NEW h \in Counter,
           NEW l \in Counter, NEW uds \in Seq(Req), NEW first \in {0, 1},
           Dist(h, t) <= M, Dist(h, l) <= Dist(h, t), first <= Dist(l, t),
           \A k \in first .. Dist(l, t) - 1 : ring[(l + k) % M] \in Req
    PROVE  InOrder(Posted(ring, t, h, uds), ring, t, l, first, uds)
    <1> DEFINE p == Posted(ring, t, h, uds)
               n == Smaller(M - Dist(h, t), Len(uds))
               d == Dist(l, t)
               e == d - first
    <1>1. /\ n \in 0 .. Len(uds) /\ d \in Nat /\ d + n <= M
          /\ Dist(l, p.tail) = d + n
          /\ p.rest = SubSeq(uds, n + 1, Len(uds))
          /\ \A k \in 0 .. d - 1 : p.ring[(l + k) % M] = ring[(l + k) % M]
          /\ \A k \in 1 .. n : p.ring[(t + k - 1) % M] = uds[k]
      <2>1. Behind(Posted(ring, t, h, uds), ring, t, h, l, uds)
        BY PostedBehind
      <2>2. QED
        BY <2>1 DEF Behind
    <1> HIDE DEF p, n
    <1>2. l \in Nat /\ t \in Nat /\ first \in Nat /\ n \in Nat /\ Len(uds) \in Nat
      BY <1>1, LenProperties DEF Counter
    <1>3. e \in Nat /\ e + n \in Nat /\ Dist(l, p.tail) - first = e + n /\ first <= Dist(l, p.tail)
      BY <1>1, <1>2
    <1> DEFINE old == Window(ring, M, l + first, e)
               new == Window(p.ring, M, l + first, e + n)
    <1>4. ASSUME NEW k \in 1 .. e
          PROVE  /\ ring[(l + first + k - 1) % M] \in Req
                 /\ p.ring[(l + first + k - 1) % M] = ring[(l + first + k - 1) % M]
      <2>1. PICK j \in first .. d - 1 : j = first + k - 1
        BY <1>1, <1>2, <1>3, SMTT(60)
      <2>2. j \in 0 .. d - 1 /\ l + j = l + first + k - 1
        <3>1. d - 1 \in Int /\ j \in Nat /\ j <= d - 1
          BY <1>1, <1>2
        <3>2. QED
          BY <2>1, <3>1, <1>2
      <2>3. ring[(l + j) % M] \in Req /\ p.ring[(l + j) % M] = ring[(l + j) % M]
        BY <2>1, <2>2, <1>1
      <2>4. QED
        BY <2>2, <2>3
    <1>5. ASSUME NEW k \in 1 .. n
          PROVE  p.ring[(l + first + (e + k) - 1) % M] = uds[k] /\ uds[k] \in Req
      <2>1. PICK j \in Nat : j = k - 1
        BY <1>2
      <2>2. (t + j) % M = (l + Dist(l, t) + j) % M
        BY <2>1, Rings, WNat, DistSlot, ZenonT(60)
      <2>3. t + j = t + k - 1 /\ l + Dist(l, t) + j = l + first + (e + k) - 1
        <3>1. k \in Nat /\ e = Dist(l, t) - first /\ Dist(l, t) \in Nat
          BY <1>1, <1>2
        <3> HIDE DEF e, d
        <3>2. QED
          BY <2>1, <3>1, <1>2, SMTT(60)
      <2>4. k \in 1 .. Len(uds)
        BY <1>1, <1>2
      <2>5. QED
        BY <2>2, <2>3, <2>4, <1>1, ElementOfSeq
    <1> HIDE DEF e, d
    <1>6. old \in Seq(Req) /\ Len(old) = e /\ \A k \in 1 .. e : old[k] = ring[(l + first + k - 1) % M]
      <2>1. PICK m \in Nat : m = e
        BY <1>3
      <2>2. \A k \in 1 .. m : ring[(l + first + k - 1) % M] \in Req
        BY <2>1, <1>4
      <2>3. /\ Window(ring, M, l + first, m) \in Seq(Req) /\ Len(Window(ring, M, l + first, m)) = m
            /\ \A k \in 1 .. m : Window(ring, M, l + first, m)[k] = ring[(l + first + k - 1) % M]
        BY <2>2, WindowFacts
      <2>4. QED
        BY <2>1, <2>3
    <1>7. ASSUME NEW k \in 1 .. e + n
          PROVE  /\ p.ring[(l + first + k - 1) % M] \in Req
                 /\ p.ring[(l + first + k - 1) % M] = IF k <= e THEN old[k] ELSE uds[k - e]
      <2>1. CASE k <= e
        <3>1. k \in 1 .. e
          BY <2>1, <1>3
        <3>2. QED
          BY <3>1, <2>1, <1>4, <1>6
      <2>2. CASE ~(k <= e)
        <3>1. PICK m \in 1 .. n : k = e + m /\ m = k - e
          <4>1. k - e \in 1 .. n /\ k = e + (k - e)
            BY <2>2, <1>2, <1>3
          <4>2. QED
            BY <4>1
        <3>2. p.ring[(l + first + (e + m) - 1) % M] = uds[m] /\ uds[m] \in Req
          BY <1>5
        <3>3. QED
          BY <2>2, <3>1, <3>2
      <2>3. QED
        BY <2>1, <2>2
    <1>8. new \in Seq(Req) /\ Len(new) = e + n /\ \A k \in 1 .. e + n : new[k] = p.ring[(l + first + k - 1) % M]
      <2>1. PICK m \in Nat : m = e + n
        BY <1>3
      <2>2. \A k \in 1 .. m : p.ring[(l + first + k - 1) % M] \in Req
        BY <2>1, <1>7
      <2>3. /\ Window(p.ring, M, l + first, m) \in Seq(Req) /\ Len(Window(p.ring, M, l + first, m)) = m
            /\ \A k \in 1 .. m : Window(p.ring, M, l + first, m)[k] = p.ring[(l + first + k - 1) % M]
        BY <2>2, WindowFacts
      <2>4. QED
        BY <2>1, <2>3
    <1> DEFINE a == SubSeq(uds, 1, n)
               b == SubSeq(uds, n + 1, Len(uds))
    <1>9. /\ a \in Seq(Req) /\ Len(a) = n /\ \A k \in 1 .. n : a[k] = uds[k]
          /\ b \in Seq(Req) /\ uds = a \o b
      BY <1>1, SplitAt
    <1> HIDE DEF old, new, a, b
    <1>10. new = old \o a
      <2>1. /\ old \o a \in Seq(Req) /\ Len(old \o a) = e + n
            /\ \A k \in 1 .. e + n : (old \o a)[k] = IF k <= e THEN old[k] ELSE a[k - e]
        BY <1>6, <1>9, ConcatProperties, ZenonT(60)
      <2>2. ASSUME NEW k \in 1 .. e + n PROVE (old \o a)[k] = new[k]
        <3>1. CASE k <= e
          BY <3>1, <2>1, <1>7, <1>8
        <3>2. CASE ~(k <= e)
          <4>1. k - e \in 1 .. n
            BY <3>2, <1>2, <1>3
          <4>2. (old \o a)[k] = a[k - e] /\ new[k] = uds[k - e]
            BY <3>2, <2>1, <1>7, <1>8
          <4>3. QED
            BY <4>1, <4>2, <1>9
        <3>3. QED
          BY <3>1, <3>2
      <2>3. QED
        BY <2>1, <2>2, <1>8, SeqEqual
    <1>11. new \o b = old \o uds
      <2>1. (old \o a) \o b = old \o (a \o b)
        BY <1>6, <1>9, ConcatAssociative, SMTT(60)
      <2>2. QED
        BY <2>1, <1>9, <1>10
    <1>12. QED
      BY <1>1, <1>3, <1>8, <1>11 DEF p, old, new, b, e, d, InOrder

----------------------------------------------------------------------------
(* The completions the loop has still to pass *)

Passed == IF Called THEN 1 ELSE 0
Ready == Window(cq, M, lcl_chead + Passed, CqEnts - Passed)
Cqes == Ready \o backlog

LEMMA ReadyFacts ==
    ASSUME RInv
    PROVE  /\ Passed \in {0, 1} /\ CqEnts \in Nat /\ CqEnts - Passed \in Nat /\ Passed <= CqEnts
           /\ \A k \in Passed .. CqEnts - 1 : cq[(lcl_chead + k) % M] \in Req
           /\ Ready \in Seq(Req) /\ Len(Ready) = CqEnts - Passed
           /\ \A k \in 1 .. CqEnts - Passed : Ready[k] = cq[(lcl_chead + Passed + k - 1) % M]
           /\ backlog \in Seq(Req) /\ Cqes \in Seq(Req)
    <1>1. RingTypes /\ CqSound /\ Dispatches
      BY DEF RInv, CqInv
    <1>2. CqEnts \in Nat /\ lcl_chead \in Nat /\ backlog \in Seq(Req)
      <2>1. CqEnts \in Counter
        BY <1>1, CounterFacts DEF RingTypes, CqEnts
      <2>2. QED
        BY <2>1, <1>1, WNat DEF RingTypes, Counter
    <1>3. Passed \in {0, 1} /\ Passed <= CqEnts
      <2>1. Called => CqEnts >= 1
        BY <1>1, FirstCqe DEF Dispatches, Called
      <2>2. QED
        BY <2>1, <1>2 DEF Passed
    <1>4. CqEnts - Passed \in Nat
      BY <1>2, <1>3
    <1>5. \A k \in Passed .. CqEnts - 1 : cq[(lcl_chead + k) % M] \in Req
      <2>1. ASSUME NEW k \in Passed .. CqEnts - 1 PROVE cq[(lcl_chead + k) % M] \in Req
        <3>1. k \in 0 .. CqEnts - 1
          BY <1>2, <1>3
        <3>2. ~(k = 0 /\ Called)
          BY <1>2, <1>3 DEF Passed
        <3>3. QED
          BY <3>1, <3>2, <1>1 DEF CqSound
      <2>2. QED
        BY <2>1
    <1>6. /\ Ready \in Seq(Req) /\ Len(Ready) = CqEnts - Passed
          /\ \A k \in 1 .. CqEnts - Passed : Ready[k] = cq[(lcl_chead + Passed + k - 1) % M]
      <2>1. PICK n \in Nat : n = CqEnts - Passed
        BY <1>4
      <2>2. PICK x \in Nat : x = lcl_chead + Passed
        BY <1>2, <1>3
      <2>3. ASSUME NEW k \in 1 .. n PROVE cq[(x + k - 1) % M] \in Req
        <3>1. PICK j \in Passed .. CqEnts - 1 : j = Passed + k - 1
          BY <2>1, <1>2, <1>3
        <3>2. lcl_chead + j = x + k - 1
          BY <2>2, <3>1, <1>2, <1>3
        <3>3. cq[(lcl_chead + j) % M] \in Req
          BY <1>5
        <3>4. QED
          BY <3>2, <3>3
      <2>4. /\ Window(cq, M, x, n) \in Seq(Req) /\ Len(Window(cq, M, x, n)) = n
            /\ \A k \in 1 .. n : Window(cq, M, x, n)[k] = cq[(x + k - 1) % M]
        <3>1. \A k \in 1 .. n : cq[(x + k - 1) % M] \in Req
          BY <2>3
        <3>2. QED
          <4>1. Window(cq, M, x, n) \in [1 .. n -> Req]
            BY <3>1 DEF Window
          <4>2. PICK w \in [1 .. n -> Req] : w = Window(cq, M, x, n)
            BY <4>1
          <4>3. w \in Seq(Req) /\ Len(w) = n
            OBVIOUS
          <4>4. \A k \in 1 .. n : w[k] = cq[(x + k - 1) % M]
            BY <4>2 DEF Window
          <4>5. QED
            BY <4>2, <4>3, <4>4
      <2>5. QED
        BY <2>1, <2>2, <2>4 DEF Ready
    <1>7. Cqes \in Seq(Req)
      BY <1>2, <1>6, ConcatProperties DEF Cqes
    <1>8. QED
      BY <1>2, <1>3, <1>4, <1>5, <1>6, <1>7

LEMMA ConcatTail ==
    ASSUME NEW X, NEW s \in Seq(X), NEW t \in Seq(X), s # <<>>
    PROVE  s \o t # <<>> /\ Head(s \o t) = s[1] /\ Tail(s \o t) = Tail(s) \o t
    <1>1. /\ Len(s) \in Nat /\ Len(s) >= 1 /\ Len(t) \in Nat
          /\ s \o t \in Seq(X) /\ Len(s \o t) = Len(s) + Len(t)
          /\ \A i \in 1 .. Len(s) + Len(t) : (s \o t)[i] = IF i <= Len(s) THEN s[i] ELSE t[i - Len(s)]
      BY EmptySeq, LenProperties, ConcatProperties
    <1>2. PICK u \in Seq(X) : u = s \o t /\ u # <<>> /\ Len(u) = Len(s) + Len(t)
      <2>1. s \o t # <<>>
        BY <1>1, EmptySeq
      <2>2. QED
        BY <2>1, <1>1
    <1>3. /\ Tail(u) \in Seq(X) /\ Len(Tail(u)) = Len(u) - 1
          /\ \A i \in 1 .. Len(Tail(u)) : Tail(u)[i] = u[i + 1]
          /\ Head(u) = u[1]
      BY <1>2, HeadTailProperties
    <1>4. /\ Tail(s) \in Seq(X) /\ Len(Tail(s)) = Len(s) - 1
          /\ \A i \in 1 .. Len(Tail(s)) : Tail(s)[i] = s[i + 1]
      BY HeadTailProperties
    <1>5. PICK v \in Seq(X) :
              /\ v = Tail(s) \o t /\ Len(v) = Len(s) - 1 + Len(t)
              /\ \A i \in 1 .. Len(s) - 1 + Len(t) :
                     v[i] = IF i <= Len(s) - 1 THEN Tail(s)[i] ELSE t[i - (Len(s) - 1)]
      <2>1. PICK r \in Seq(X) : r = Tail(s) /\ Len(r) = Len(s) - 1
        BY <1>4, Zenon
      <2>2. /\ r \o t \in Seq(X) /\ Len(r \o t) = Len(r) + Len(t)
            /\ \A i \in 1 .. Len(r) + Len(t) : (r \o t)[i] = IF i <= Len(r) THEN r[i] ELSE t[i - Len(r)]
        BY ConcatProperties
      <2>3. PICK w \in Seq(X) :
                /\ w = r \o t /\ Len(w) = Len(r) + Len(t)
                /\ \A i \in 1 .. Len(r) + Len(t) : w[i] = IF i <= Len(r) THEN r[i] ELSE t[i - Len(r)]
        BY <2>2, Zenon
      <2>4. w = Tail(s) \o t
        BY <2>1, <2>3, Zenon
      <2>5. /\ Len(w) = Len(s) - 1 + Len(t)
            /\ \A i \in 1 .. Len(s) - 1 + Len(t) :
                   w[i] = IF i <= Len(s) - 1 THEN r[i] ELSE t[i - (Len(s) - 1)]
        BY <2>1, <2>3
      <2>6. QED
        BY <2>1, <2>4, <2>5, Zenon
    <1>6. ASSUME NEW i \in 1 .. Len(s) - 1 + Len(t) PROVE Tail(u)[i] = v[i]
      <2>1. i \in Nat /\ i + 1 \in 1 .. Len(s) + Len(t) /\ i \in 1 .. Len(Tail(u))
        BY <1>1, <1>2, <1>3
      <2>2. Tail(u)[i] = IF i + 1 <= Len(s) THEN s[i + 1] ELSE t[i + 1 - Len(s)]
        BY <2>1, <1>1, <1>2, <1>3
      <2>3. CASE i <= Len(s) - 1
        <3>1. i + 1 <= Len(s) /\ i \in 1 .. Len(Tail(s))
          BY <2>1, <2>3, <1>1, <1>4
        <3>2. QED
          BY <2>2, <2>3, <3>1, <1>4, <1>5
      <2>4. CASE ~(i <= Len(s) - 1)
        <3>1. ~(i + 1 <= Len(s)) /\ i + 1 - Len(s) = i - (Len(s) - 1)
          BY <2>1, <2>4, <1>1
        <3>2. QED
          BY <2>2, <2>4, <3>1, <1>5
      <2>5. QED
        BY <2>3, <2>4
    <1>7. Tail(u) = v
      <2>1. Len(Tail(u)) = Len(v) /\ Len(v) = Len(s) - 1 + Len(t)
        BY <1>1, <1>2, <1>3, <1>5
      <2>2. QED
        BY <2>1, <1>3, <1>6, SeqEqual
    <1>8. u[1] = s[1]
      BY <1>1, <1>2
    <1>9. QED
      BY <1>2, <1>3, <1>5, <1>7, <1>8

LEMMA CqesKept ==
    ASSUME UNCHANGED <<cq, cring_tail, lcl_chead, backlog>>, Called' <=> Called
    PROVE  Cqes' = Cqes
    BY DEF Cqes, Ready, Passed, CqEnts, Window

\* The loop consumes the CQE it stands on.
LEMMA CqesConsumed ==
    ASSUME RInv, pc = "cq", cq' = [cq EXCEPT ![lcl_chead % M] = Stale],
           UNCHANGED <<cring_tail, backlog>>,
           \/ UNCHANGED lcl_chead /\ Called'
           \/ lcl_chead' = Plus(lcl_chead, 1) /\ ~Called' /\ lcl_chead' \in Counter
    PROVE  /\ Cqes # <<>> /\ Head(Cqes) = cq[lcl_chead % M] /\ Cqes' = Tail(Cqes)
    <1>1. RingTypes /\ CqSound /\ lcl_chead # cring_tail /\ ~Called
      BY DEF RInv, CqInv, Dispatches, Called
    <1>2. /\ CqEnts \in Nat /\ CqEnts >= 1 /\ Passed = 0
          /\ Ready \in Seq(Req) /\ Len(Ready) = CqEnts /\ backlog \in Seq(Req)
          /\ \A k \in 1 .. CqEnts : Ready[k] = cq[(lcl_chead + k - 1) % M] /\ Ready[k] \in Req
      <2>1. /\ Passed = 0 /\ CqEnts \in Nat /\ CqEnts >= 1
            /\ lcl_chead \in Nat
        BY <1>1, FirstCqe DEF Passed, RingTypes, Counter
      <2>2. /\ Ready \in Seq(Req) /\ Len(Ready) = CqEnts - Passed /\ backlog \in Seq(Req)
            /\ \A k \in 1 .. CqEnts - Passed : Ready[k] = cq[(lcl_chead + Passed + k - 1) % M]
        BY ReadyFacts
      <2>3. CqEnts - Passed = CqEnts /\ lcl_chead + Passed = lcl_chead
        BY <2>1
      <2>4. QED
        BY <2>1, <2>2, <2>3, ElementOfSeq
    <1>3. lcl_chead \in Counter /\ lcl_chead \in Nat /\ cring_tail \in Counter
      BY <1>1 DEF RingTypes, Counter
    <1>4. Ready # <<>> /\ Ready[1] = cq[lcl_chead % M]
      <2>1. Ready # <<>>
        BY <1>2, EmptySeq
      <2>2. lcl_chead + 1 - 1 = lcl_chead /\ 1 \in 1 .. CqEnts
        BY <1>2, <1>3
      <2>3. QED
        BY <2>1, <2>2, <1>2
    <1>5. /\ Tail(Ready) \in Seq(Req) /\ Len(Tail(Ready)) = CqEnts - 1
          /\ \A k \in 1 .. CqEnts - 1 : Tail(Ready)[k] = cq[(lcl_chead + k) % M] /\ Tail(Ready)[k] \in Req
      <2>1. /\ Tail(Ready) \in Seq(Req) /\ Len(Tail(Ready)) = CqEnts - 1
            /\ \A k \in 1 .. Len(Tail(Ready)) : Tail(Ready)[k] = Ready[k + 1]
        BY <1>2, <1>4, HeadTailProperties
      <2>2. ASSUME NEW k \in 1 .. CqEnts - 1
            PROVE  Tail(Ready)[k] = cq[(lcl_chead + k) % M] /\ Tail(Ready)[k] \in Req
        <3>1. k + 1 \in 1 .. CqEnts /\ lcl_chead + (k + 1) - 1 = lcl_chead + k
          BY <1>2, <1>3
        <3>2. QED
          BY <3>1, <2>1, <1>2
      <2>3. QED
        BY <2>1, <2>2
    <1>6. ASSUME NEW k \in 1 .. CqEnts - 1
          PROVE  /\ cq'[(lcl_chead + k) % M] = Tail(Ready)[k]
                 /\ (lcl_chead' + Passed' + k - 1) % M = (lcl_chead + k) % M
      <2>1. cq'[(lcl_chead + k) % M] = cq[(lcl_chead + k) % M]
        BY <1>1, FirstCqe DEF RingTypes
      <2>2. (lcl_chead' + Passed' + k - 1) % M = (lcl_chead + k) % M
        <3>1. CASE UNCHANGED lcl_chead /\ Called'
          <4>1. lcl_chead' + Passed' + k - 1 = lcl_chead + k
            <5>1. Passed' = 1 /\ lcl_chead' = lcl_chead /\ k \in Nat
              BY <3>1, <1>2 DEF Passed
            <5>2. QED
              BY <5>1, <1>3
          <4>2. QED
            BY <4>1
        <3>2. CASE lcl_chead' = Plus(lcl_chead, 1) /\ ~Called' /\ lcl_chead' \in Counter
          <4>1. PICK j \in Nat : j = k - 1
            BY <1>2
          <4>2. (Plus(lcl_chead, 1) + j) % M = (lcl_chead + 1 + j) % M
            <5>1. W % M = 0 /\ M \in Nat \ {0} /\ 1 \in 0 .. W
              BY Rings, WNat
            <5>2. QED
              BY <5>1, <1>3, PlusSlot
          <4>3. lcl_chead' + Passed' + k - 1 = Plus(lcl_chead, 1) + j
            <5>1. Passed' = 0 /\ lcl_chead' \in Nat /\ k \in Nat
              BY <3>2, <1>2 DEF Passed, Counter
            <5>2. QED
              BY <5>1, <3>2, <4>1
          <4>4. lcl_chead + 1 + j = lcl_chead + k
            BY <4>1, <1>2, <1>3
          <4>5. QED
            BY <4>2, <4>3, <4>4
        <3>3. QED
          BY <3>1, <3>2
      <2>3. QED
        BY <2>1, <2>2, <1>5
    <1>7. CqEnts' - Passed' = CqEnts - 1
      <2>1. CASE UNCHANGED lcl_chead /\ Called'
        BY <2>1 DEF CqEnts, Passed
      <2>2. CASE lcl_chead' = Plus(lcl_chead, 1) /\ ~Called' /\ lcl_chead' \in Counter
        <3>1. Dist(Plus(lcl_chead, 1), cring_tail) = CqEnts - 1
          BY <1>2, <1>3, WNat DEF Plus, Dist, CqEnts, Counter
        <3>2. QED
          BY <2>2, <3>1, <1>2 DEF CqEnts, Passed
      <2>3. QED
        BY <2>1, <2>2
    <1>8. Ready' = Tail(Ready)
      <2>1. PICK n \in Nat : n = CqEnts - 1
        BY <1>2
      <2>2. Ready' = [k \in 1 .. n |-> cq'[(lcl_chead' + Passed' + k - 1) % M]]
        BY <2>1, <1>7 DEF Ready, Window
      <2>3. \A k \in 1 .. n : cq'[(lcl_chead' + Passed' + k - 1) % M] = Tail(Ready)[k]
        BY <2>1, <1>6
      <2>4. Ready' = [k \in 1 .. n |-> Tail(Ready)[k]]
        BY <2>2, <2>3
      <2>5. Tail(Ready) = [k \in 1 .. n |-> Tail(Ready)[k]]
        BY <2>1, <1>5, LenProperties
      <2>6. QED
        BY <2>4, <2>5
    <1>9. QED
      BY <1>2, <1>4, <1>8, ConcatTail DEF Cqes

\* It passes the one whose callback has returned.
LEMMA CqesPassed ==
    ASSUME RInv, Called, ~Called', UNCHANGED <<cq, cring_tail, backlog>>,
           lcl_chead' = Plus(lcl_chead, 1), lcl_chead' \in Counter
    PROVE  Cqes' = Cqes
    <1>1. RingTypes /\ CqSound /\ lcl_chead # cring_tail
      BY DEF RInv, CqInv, Dispatches, Called
    <1>2. CqEnts \in Nat /\ CqEnts >= 1 /\ lcl_chead \in Counter /\ lcl_chead \in Nat /\ cring_tail \in Counter
      BY <1>1, FirstCqe DEF RingTypes, Counter
    <1>3. Passed = 1 /\ Passed' = 0
      BY DEF Passed
    <1>4. CqEnts' - Passed' = CqEnts - Passed
      <2>1. Dist(Plus(lcl_chead, 1), cring_tail) = CqEnts - 1
        BY <1>2, WNat DEF Plus, Dist, CqEnts, Counter
      <2>2. QED
        BY <2>1, <1>2, <1>3 DEF CqEnts
    <1>5. PICK n \in Nat : n = CqEnts - 1
      BY <1>2
    <1>6. ASSUME NEW k \in 1 .. n
          PROVE  (lcl_chead' + Passed' + k - 1) % M = (lcl_chead + Passed + k - 1) % M
      <2>1. PICK j \in Nat : j = k - 1
        OBVIOUS
      <2>2. (Plus(lcl_chead, 1) + j) % M = (lcl_chead + 1 + j) % M
        <3>1. W % M = 0 /\ M \in Nat \ {0} /\ 1 \in 0 .. W
          BY Rings, WNat
        <3>2. QED
          BY <3>1, <1>2, PlusSlot
      <2>3. lcl_chead' + Passed' + k - 1 = Plus(lcl_chead, 1) + j
        <3>1. lcl_chead' \in Nat /\ k \in Nat
          BY DEF Counter
        <3>2. QED
          BY <3>1, <2>1, <1>3
      <2>4. lcl_chead + Passed + k - 1 = lcl_chead + 1 + j
        BY <2>1, <1>2, <1>3
      <2>5. QED
        BY <2>2, <2>3, <2>4
    <1>7. Ready' = Ready
      <2>1. Ready' = [k \in 1 .. n |-> cq[(lcl_chead' + Passed' + k - 1) % M]]
        BY <1>3, <1>4, <1>5 DEF Ready, Window
      <2>2. Ready = [k \in 1 .. n |-> cq[(lcl_chead + Passed + k - 1) % M]]
        BY <1>3, <1>5 DEF Ready, Window
      <2>3. QED
        BY <2>1, <2>2, <1>6
    <1>8. QED
      BY <1>7 DEF Cqes

\* The kernel posts while the loop is anywhere.
LEMMA CqesPosted ==
    ASSUME RInv, NEW uds \in Seq(Req), Post(uds), UNCHANGED <<cring_head, lcl_chead, pc, ret>>
    PROVE  /\ Cqes' = Cqes \o uds
           /\ Called => cq'[lcl_chead % M] = cq[lcl_chead % M]
    <1>1. /\ cring_tail \in Counter /\ cring_head \in Counter /\ lcl_chead \in Counter
          /\ Dist(cring_head, cring_tail) <= M
          /\ Dist(cring_head, lcl_chead) <= Dist(cring_head, cring_tail)
      BY DEF RInv, RingTypes, CqInv, CqSound
    <1>2. PICK first \in {0, 1} : first = Passed
      BY DEF Passed
    <1>3. /\ first <= Dist(lcl_chead, cring_tail)
          /\ \A k \in first .. Dist(lcl_chead, cring_tail) - 1 : cq[(lcl_chead + k) % M] \in Req
          /\ Ready = Window(cq, M, lcl_chead + first, Dist(lcl_chead, cring_tail) - first)
          /\ Ready \in Seq(Req) /\ backlog \in Seq(Req)
      BY <1>2, ReadyFacts DEF CqEnts, Ready
    <1>4. PICK new \in Seq(Req) : new = IF backlog = <<>> THEN uds ELSE <<>>
      BY EmptySeq
    <1> DEFINE p == Posted(cq, cring_tail, cring_head, new)
    <1>5. /\ cq' = p.ring /\ cring_tail' = p.tail
          /\ backlog' = IF backlog = <<>> THEN p.rest ELSE backlog \o uds
      BY <1>4 DEF Post
    <1>6. Behind(p, cq, cring_tail, cring_head, lcl_chead, new)
      BY <1>1, PostedBehind
    <1>7. InOrder(p, cq, cring_tail, lcl_chead, first, new)
      BY <1>1, <1>3, PostedWindow
    <1> HIDE DEF p
    <1>8. Ready' = Window(p.ring, M, lcl_chead + first, Dist(lcl_chead, p.tail) - first)
      <2>1. Passed' = Passed
        BY DEF Passed, Called
      <2>2. QED
        BY <2>1, <1>2, <1>5 DEF Ready, CqEnts
    <1>9. Ready' \o p.rest = Ready \o new /\ Ready' \in Seq(Req)
      BY <1>3, <1>7, <1>8 DEF InOrder
    <1>10. Cqes' = Cqes \o uds
      <2>1. CASE backlog = <<>>
        <3>1. Cqes' = Ready \o uds
          BY <2>1, <1>4, <1>5, <1>9 DEF Cqes
        <3>2. Cqes = Ready
          BY <2>1, <1>3, ConcatEmptySeq DEF Cqes
        <3>3. QED
          BY <3>1, <3>2
      <2>2. CASE backlog # <<>>
        <3>1. new = <<>>
          BY <2>2, <1>4
        <3>2. p.rest = <<>>
          <4>1. PICK n \in 0 .. Len(new) : p.rest = SubSeq(new, n + 1, Len(new))
            BY <1>6 DEF Behind
          <4>2. Len(new) = 0
            BY <3>1, EmptyFacts
          <4>3. QED
            BY <4>1, <4>2, SubSeqEmpty
        <3>3. Ready' \o <<>> = Ready
          BY <3>1, <3>2, <1>3, <1>9, ConcatEmptySeq
        <3>4. Ready' = Ready
          BY <3>3, <1>9, ConcatEmptySeq
        <3>5. Cqes' = Ready \o (backlog \o uds)
          BY <2>2, <3>4, <1>5 DEF Cqes
        <3>6. QED
          <4>1. (Ready \o backlog) \o uds = Ready \o (backlog \o uds)
            BY <1>3, ConcatAssociative, SMTT(60)
          <4>2. QED
            BY <3>5, <4>1 DEF Cqes
      <2>3. QED
        BY <2>1, <2>2
    <1>11. ASSUME Called PROVE cq'[lcl_chead % M] = cq[lcl_chead % M]
      <2>1. 0 \in 0 .. Dist(lcl_chead, cring_tail) - 1
        BY <1>2, <1>3, <1>6, <1>11 DEF Passed, Behind
      <2>2. p.ring[(lcl_chead + 0) % M] = cq[(lcl_chead + 0) % M]
        BY <2>1, <1>6 DEF Behind
      <2>3. lcl_chead + 0 = lcl_chead
        BY <1>1 DEF Counter
      <2>4. QED
        BY <2>2, <2>3, <1>5
    <1>12. QED
      BY <1>10, <1>11

\* io_uring_enter posts behind what the loop gives back.
LEMMA CqesEntered ==
    ASSUME RInv, pc = "enter", pc' \in {"app", "wait"}, NEW uds \in Seq(Req),
           UNCHANGED lcl_chead,
           LET p == Posted(cq, cring_tail, Released, uds)
           IN  cq' = p.ring /\ cring_tail' = p.tail /\ backlog' = p.rest
    PROVE  Cqes' = Ready \o uds
    <1>1. /\ cring_tail \in Counter /\ cring_head \in Counter /\ lcl_chead \in Counter
          /\ Dist(cring_head, cring_tail) <= M
          /\ Dist(cring_head, lcl_chead) <= Dist(cring_head, cring_tail)
      BY DEF RInv, RingTypes, CqInv, CqSound
    <1>2. Dist(lcl_chead, cring_tail) <= M /\ Dist(lcl_chead, lcl_chead) <= Dist(lcl_chead, cring_tail)
      <2>1. /\ Dist(lcl_chead, cring_tail) \in Counter /\ Dist(cring_head, lcl_chead) \in Counter
            /\ Dist(lcl_chead, lcl_chead) = 0
            /\ Dist(cring_head, lcl_chead) + Dist(lcl_chead, cring_tail) = Dist(cring_head, cring_tail)
        BY <1>1, CounterFacts, Between
      <2>2. QED
        BY <2>1, <1>1, WNat DEF Counter
    <1>3. PICK first \in {0, 1} : first = Passed /\ first = 0 /\ Passed' = 0
      BY DEF Passed, Called
    <1>4. /\ first <= Dist(lcl_chead, cring_tail)
          /\ \A k \in first .. Dist(lcl_chead, cring_tail) - 1 : cq[(lcl_chead + k) % M] \in Req
          /\ Ready = Window(cq, M, lcl_chead + first, Dist(lcl_chead, cring_tail) - first)
      BY <1>3, ReadyFacts DEF CqEnts, Ready
    <1> DEFINE p == Posted(cq, cring_tail, lcl_chead, uds)
    <1>5. InOrder(p, cq, cring_tail, lcl_chead, first, uds)
      BY <1>1, <1>2, <1>4, PostedWindow
    <1>6. cq' = p.ring /\ cring_tail' = p.tail /\ backlog' = p.rest
      BY DEF Released
    <1> HIDE DEF p
    <1>7. Ready' = Window(p.ring, M, lcl_chead + first, Dist(lcl_chead, p.tail) - first)
      BY <1>3, <1>6 DEF Ready, CqEnts
    <1>8. Ready' \o p.rest = Ready \o uds
      BY <1>4, <1>5, <1>7 DEF InOrder
    <1>9. QED
      BY <1>6, <1>8 DEF Cqes

----------------------------------------------------------------------------
(* The SQEs the kernel has still to take *)

LEMMA SqHeldKept ==
    ASSUME UNCHANGED <<sq, sring_head, lcl_stail>>
    PROVE  SqHeld' = SqHeld /\ SqFull' = SqFull
    BY DEF SqHeld, SqEnts, SqFull

LEMMA SqHeldFacts ==
    ASSUME RInv
    PROVE  /\ SqEnts \in Nat /\ SqEnts <= N /\ SqHeld \in Seq(Req) /\ Len(SqHeld) = SqEnts
           /\ \A k \in 1 .. SqEnts : SqHeld[k] = sq[(sring_head + k - 1) % N] /\ SqHeld[k] \in Req
           /\ sring_head \in Counter /\ lcl_stail \in Counter /\ sring_head \in Nat /\ lcl_stail \in Nat
    <1>1. RingTypes /\ SqSound
      BY DEF RInv, SqInv
    <1>2. sring_head \in Counter /\ lcl_stail \in Counter /\ sring_head \in Nat /\ lcl_stail \in Nat
      BY <1>1 DEF RingTypes, Counter
    <1>3. SqEnts <= N
      BY <1>1 DEF SqSound
    <1>4. QED
      BY <1>1, <1>2, <1>3, HeldFacts

LEMMA SqHeldAppend ==
    ASSUME RInv, NEW r \in Req, ~SqFull, sq' = [sq EXCEPT ![lcl_stail % N] = r],
           lcl_stail' = Plus(lcl_stail, 1), UNCHANGED sring_head
    PROVE  SqHeld' = Append(SqHeld, r) /\ SqEnts' = SqEnts + 1
    <1>1. /\ SqEnts \in Nat /\ SqEnts <= N /\ SqHeld \in Seq(Req) /\ Len(SqHeld) = SqEnts
          /\ \A k \in 1 .. SqEnts : SqHeld[k] = sq[(sring_head + k - 1) % N] /\ SqHeld[k] \in Req
          /\ sring_head \in Counter /\ lcl_stail \in Counter /\ sring_head \in Nat /\ lcl_stail \in Nat
      BY SqHeldFacts
    <1>2. N \in Nat \ {0} /\ N < W /\ W \in Nat /\ W % N = 0
      BY WNat, Rings
    <1>3. SqEnts + 1 <= N /\ SqEnts < N
      BY <1>1, <1>2 DEF SqFull
    <1>4. SqEnts' = SqEnts + 1
      <2>1. PICK d \in Nat : d = SqEnts
        BY <1>1
      <2>2. d + 1 < W
        BY <2>1, <1>2, <1>3
      <2>3. d = Dist(sring_head, lcl_stail)
        BY <2>1 DEF SqEnts
      <2>4. Dist(sring_head, Plus(lcl_stail, 1)) = Dist(sring_head, lcl_stail) + 1
        <3>1. Dist(sring_head, lcl_stail) + 1 < W /\ 1 \in Nat
          BY <2>2, <2>3
        <3>2. QED
          BY <3>1, <1>1, PlusFacts
      <2>5. QED
        BY <2>1, <2>3, <2>4 DEF SqEnts
    <1>5. /\ sq \in [0 .. N - 1 -> Slot] /\ lcl_stail % N \in 0 .. N - 1
      BY <1>1, Rings DEF RInv, RingTypes
    <1>6. lcl_stail % N = (sring_head + SqEnts) % N
      <2>1. (lcl_stail + 0) % N = (sring_head + SqEnts + 0) % N
        BY <1>1, <1>2, DistSlot DEF SqEnts
      <2>2. lcl_stail + 0 = lcl_stail /\ sring_head + SqEnts + 0 = sring_head + SqEnts
        BY <1>1
      <2>3. QED
        BY <2>1, <2>2
    <1>7. ASSUME NEW k \in 1 .. SqEnts PROVE sq'[(sring_head + k - 1) % N] = SqHeld[k]
      <2>1. PICK j \in Nat : j = k - 1 /\ j < SqEnts
        BY <1>1
      <2>2. (sring_head + j) % N # (sring_head + SqEnts) % N
        <3>1. /\ sring_head + j \in Nat /\ sring_head + SqEnts \in Nat
              /\ sring_head + j < sring_head + SqEnts /\ sring_head + SqEnts < (sring_head + j) + N
          BY <1>1, <1>2, <1>3, <2>1
        <3>2. QED
          BY <3>1, <1>2, SlotsDiffer
      <2>3. sring_head + k - 1 = sring_head + j /\ (sring_head + j) % N \in 0 .. N - 1
        <3>1. sring_head + k - 1 = sring_head + j /\ sring_head + j \in Nat
          BY <1>1, <2>1
        <3>2. QED
          BY <3>1, Rings
      <2>4. sq'[(sring_head + j) % N] = sq[(sring_head + j) % N]
        BY <2>2, <2>3, <1>5, <1>6
      <2>5. QED
        BY <2>3, <2>4, <1>1
    <1>8. sq'[(sring_head + SqEnts) % N] = r
      BY <1>5, <1>6
    <1>9. /\ Append(SqHeld, r) \in Seq(Req) /\ Len(Append(SqHeld, r)) = SqEnts + 1
          /\ \A k \in 1 .. SqEnts : Append(SqHeld, r)[k] = SqHeld[k]
          /\ Append(SqHeld, r)[SqEnts + 1] = r
      BY <1>1, AppendProperties
    <1>10. PICK n \in Nat : n = SqEnts + 1
      BY <1>1
    <1>11. SqHeld' = [k \in 1 .. n |-> sq'[(sring_head + k - 1) % N]]
      BY <1>4, <1>10 DEF SqHeld
    <1>12. \A k \in 1 .. n : sq'[(sring_head + k - 1) % N] = Append(SqHeld, r)[k]
      <2>1. ASSUME NEW k \in 1 .. n PROVE sq'[(sring_head + k - 1) % N] = Append(SqHeld, r)[k]
        <3>1. CASE k \in 1 .. SqEnts
          BY <3>1, <1>7, <1>9
        <3>2. CASE k = SqEnts + 1
          <4>1. sring_head + k - 1 = sring_head + SqEnts
            BY <3>2, <1>1
          <4>2. QED
            BY <3>2, <4>1, <1>8, <1>9
        <3>3. QED
          BY <3>1, <3>2, <1>1, <1>10
      <2>2. QED
        BY <2>1
    <1>13. Append(SqHeld, r) = [k \in 1 .. n |-> Append(SqHeld, r)[k]]
      BY <1>9, <1>10, LenProperties
    <1>14. QED
      BY <1>4, <1>11, <1>12, <1>13

LEMMA SqHeldTaken ==
    ASSUME RInv, sring_head' = lcl_stail, UNCHANGED lcl_stail
    PROVE  SqHeld' = <<>>
    <1>1. SqEnts' = 0
      <2>1. Dist(lcl_stail, lcl_stail) = 0
        BY CounterFacts DEF RInv, RingTypes
      <2>2. QED
        BY <2>1 DEF SqEnts
    <1>2. QED
      BY <1>1 DEF SqHeld

LEMMA SqHeldRejected ==
    ASSUME RInv, NEW k \in 1 .. SqEnts, sring_head' = Plus(sring_head, k), UNCHANGED lcl_stail,
           sq' = [i \in DOMAIN sq |->
                     IF \E j \in 1 .. k : (sring_head + j - 1) % N = i THEN Stale ELSE sq[i]]
    PROVE  SqHeld' = SubSeq(SqHeld, k + 1, Len(SqHeld))
    <1>1. /\ SqEnts \in Nat /\ SqEnts <= N /\ SqHeld \in Seq(Req) /\ Len(SqHeld) = SqEnts
          /\ \A j \in 1 .. SqEnts : SqHeld[j] = sq[(sring_head + j - 1) % N] /\ SqHeld[j] \in Req
          /\ sring_head \in Counter /\ lcl_stail \in Counter /\ sring_head \in Nat /\ lcl_stail \in Nat
      BY SqHeldFacts
    <1>2. N \in Nat \ {0} /\ N < W /\ W \in Nat /\ W % N = 0 /\ k \in Nat /\ k <= SqEnts /\ k >= 1
      BY <1>1, WNat, Rings
    <1>3. SqEnts' = SqEnts - k
      <2>1. Dist(Plus(sring_head, k), lcl_stail) = SqEnts - k
        BY <1>1, <1>2 DEF Plus, Dist, SqEnts, Counter
      <2>2. QED
        BY <2>1 DEF SqEnts
    <1> DEFINE Gone(i) == \E j \in 1 .. k : (sring_head + j - 1) % N = i
               b == SubSeq(SqHeld, k + 1, Len(SqHeld))
    <1>4. \A i \in 0 .. N - 1 : ~Gone(i) => sq'[i] = sq[i]
      BY DEF RInv, RingTypes
    <1>5. /\ b \in Seq(Req) /\ Len(b) = SqEnts - k
          /\ \A j \in 1 .. SqEnts - k : b[j] = SqHeld[k + j]
      BY <1>1, <1>2, SplitAt
    <1> HIDE DEF b
    <1>6. ASSUME NEW j \in 1 .. SqEnts - k PROVE sq'[(sring_head' + j - 1) % N] = b[j]
      <2>1. PICK i \in k .. SqEnts - 1 : i = k + j - 1
        <3>1. PICK e \in Nat : e = SqEnts
          BY <1>1
        <3>2. j \in Nat /\ j >= 1 /\ j <= e - k
          BY <3>1, <1>2
        <3>3. k + j - 1 \in k .. e - 1
          BY <3>1, <3>2, <1>2
        <3>4. QED
          BY <3>1, <3>3
      <2>2. PICK m \in Nat : m = j - 1
        BY <1>1, <1>2
      <2>3. i \in Nat /\ sring_head + i \in Nat /\ i < N /\ k <= i
        BY <1>1, <1>2, <2>1
      <2>4. (sring_head' + j - 1) % N = (sring_head + i) % N
        <3>1. (Plus(sring_head, k) + m) % N = (sring_head + k + m) % N
          <4>1. k \in 0 .. W
            BY <1>1, <1>2
          <4>2. QED
            BY <4>1, <1>1, <1>2, PlusSlot
        <3>2. Plus(sring_head, k) \in Nat
          BY <1>1, <1>2 DEF Plus, Counter
        <3>3. sring_head' + j - 1 = Plus(sring_head, k) + m /\ sring_head + k + m = sring_head + i
          BY <1>1, <1>2, <2>1, <2>2, <3>2
        <3>4. QED
          BY <3>1, <3>3
      <2>5. (sring_head + i) % N \in 0 .. N - 1
        BY <2>3, Rings
      <2>6. ~Gone((sring_head + i) % N)
        <3>1. SUFFICES ASSUME NEW h \in 1 .. k PROVE (sring_head + h - 1) % N # (sring_head + i) % N
          OBVIOUS
        <3>2. PICK x \in Nat : x = sring_head + h - 1
          BY <1>1
        <3>3. x < sring_head + i /\ sring_head + i < x + N
          BY <3>2, <2>3, <1>1, <1>2
        <3>4. QED
          BY <3>2, <3>3, <2>3, <1>2, SlotsDiffer
      <2> HIDE DEF Gone
      <2>7. sq'[(sring_head + i) % N] = sq[(sring_head + i) % N]
        BY <2>5, <2>6, <1>4
      <2>8. SqHeld[k + j] = sq[(sring_head + i) % N]
        <3>1. k + j \in 1 .. SqEnts /\ sring_head + (k + j) - 1 = sring_head + i
          BY <1>1, <1>2, <2>1
        <3>2. QED
          BY <3>1, <1>1
      <2>9. QED
        BY <2>4, <2>7, <2>8, <1>5
    <1>7. PICK n \in Nat : n = SqEnts - k
      BY <1>1, <1>2
    <1>8. SqHeld' = [j \in 1 .. n |-> sq'[(sring_head' + j - 1) % N]]
      BY <1>3, <1>7 DEF SqHeld
    <1>9. b = [j \in 1 .. n |-> b[j]]
      BY <1>5, <1>7, LenProperties
    <1>10. SqHeld' = b
      BY <1>6, <1>7, <1>8, <1>9
    <1>11. QED
      BY <1>10 DEF b

\* When the overflow does not end with a link, the flush moves all of it.
LEMMA SqHeldFlushed ==
    ASSUME RInv, pc = "wait", sqofq.items # <<>>, sqofq.items[Len(sqofq.items)] \notin Link
    PROVE  /\ SafePop(sqofq.items) = Len(sqofq.items) /\ SafePop(sqofq.items) # 0 /\ SqHeld = <<>>
           /\ Flush /\ UNCHANGED sring_head => SqHeld' = sqofq.items /\ sqofq'.items = <<>>
    <1> DEFINE s == sqofq.items
               len == Len(s)
               at == lcl_stail % N
    <1>1. /\ s \in Seq(Req) /\ len \in Nat \ {0} /\ len <= N - at
          /\ sqofq \in [items : Seq(Req), off : Nat]
          /\ lcl_stail \in Counter /\ lcl_stail \in Nat /\ sring_head \in Counter
          /\ SqEnts = 0
      <2>1. s \in Seq(Req) /\ sqofq \in [items : Seq(Req), off : Nat]
        BY DEF RInv, RingTypes
      <2>2. QED
        BY <2>1, EmptySeq DEF RInv, RingTypes, SqInv, FlushFits, Counter
    <1>2. N \in Nat \ {0} /\ N < W /\ W \in Nat /\ W % N = 0 /\ at \in 0 .. N - 1
      BY <1>1, WNat, Rings
    <1>3. len \in Nat /\ len >= 1 /\ len <= N
      <2> HIDE DEF at, len
      <2>1. QED
        BY <1>1, <1>2
    <1>4. SafePop(s) = len
      <2> DEFINE b == Smaller(len, N)
                 ends == {k \in 1 .. b : s[k] \notin {r \in Req : HasLinkFlag(r)}}
      <2>1. SafePop(s) = IF ends = {} THEN 0 ELSE CHOOSE k \in ends : \A j \in ends : j <= k
        BY DEF SafePop, UnlinkedPrefix
      <2>2. b = len
        <3> HIDE DEF len
        <3>1. QED
          BY <1>2, <1>3 DEF Smaller
      <2>3. len \in 1 .. len /\ s[len] \notin {r \in Req : HasLinkFlag(r)}
        BY <1>3 DEF HasLinkFlag
      <2>4. len \in ends /\ ends \subseteq 1 .. len
        <3> HIDE DEF b, len, s
        <3>1. QED
          BY <2>2, <2>3
      <2> HIDE DEF ends
      <2>5. \A j \in ends : j <= len
        <3> HIDE DEF len
        <3>1. QED
          BY <2>4, <1>3
      <2>6. \A k \in ends : (\A j \in ends : j <= k) => k = len
        <3> HIDE DEF len
        <3>1. QED
          BY <2>4, <2>5, <1>3
      <2> HIDE DEF len
      <2>7. QED
        BY <2>1, <2>4, <2>5, <2>6
    <1>5. SqHeld = <<>>
      BY <1>1 DEF SqHeld
    <1>6. ASSUME Flush, UNCHANGED sring_head PROVE SqHeld' = s /\ sqofq'.items = <<>>
      <2>1. /\ at + len <= N
            /\ lcl_stail' = Plus(lcl_stail, len)
            /\ sqofq' = TakeBlock(sqofq, len)
            /\ \A k \in 0 .. len - 1 : sq'[at + k] = s[k + 1]
        <3>1. SafePop(s) # 0
          BY <1>3, <1>4
        <3>2. LET n == SafePop(sqofq.items)
              IN  /\ n \in 1 .. Len(sqofq.items) /\ at + n <= N
                  /\ lcl_stail' = Plus(lcl_stail, n)
                  /\ sqofq' = TakeBlock(sqofq, n)
                  /\ \A k \in 0 .. n - 1 : sq'[at + k] = sqofq.items[k + 1]
          BY <3>1, <1>6, FlushMoves
        <3>3. QED
          BY <3>2, <1>4
      <2>2. sqofq'.items = <<>>
        <3>1. /\ Len(sqofq'.items) \in Nat /\ Len(sqofq'.items) <= len - len
              /\ sqofq'.items \in Seq(Req)
          <4>1. len \in 1 .. Len(sqofq.items)
            BY <1>3
          <4>2. QED
            BY <4>1, <2>1, <1>1, TakeBlockFacts
        <3>2. Len(sqofq'.items) = 0
          <4> HIDE DEF len
          <4>1. QED
            BY <3>1, <1>3
        <3>3. QED
          BY <3>1, <3>2, EmptySeq
      <2> HIDE DEF len, at, s
      <2>3. sring_head = lcl_stail
        BY <1>1, CounterFacts DEF SqEnts
      <2>4. SqEnts' = len
        <3>1. Dist(lcl_stail, lcl_stail) = 0 /\ 0 + len < W
          BY <1>1, <1>2, <1>3, CounterFacts
        <3>2. Dist(lcl_stail, Plus(lcl_stail, len)) = 0 + len
          BY <3>1, <1>1, <1>3, PlusFacts
        <3>3. QED
          BY <3>2, <2>1, <2>3, <1>3, <1>6 DEF SqEnts
      <2>5. ASSUME NEW k \in 1 .. len PROVE sq'[(lcl_stail + k - 1) % N] = s[k]
        <3>1. PICK q \in Nat : lcl_stail = N * q + at
          BY <1>1, <1>2, ModFacts DEF at
        <3>2. PICK r \in 0 .. N - 1 : r = at + (k - 1)
          BY <1>2, <1>3, <2>1
        <3>3. lcl_stail + k - 1 = N * q + r
          <4>1. N * q \in Nat
            BY <3>1, <1>2
          <4>2. QED
            BY <4>1, <3>1, <3>2, <1>2, <1>3
        <3>4. (N * q + r) % N = r
          BY <3>1, <3>2, <1>2, ModUnique
        <3>5. PICK j \in 0 .. len - 1 : j = k - 1 /\ k = j + 1
          BY <1>3
        <3>6. sq'[at + j] = s[j + 1]
          BY <2>1
        <3>7. QED
          BY <3>2, <3>3, <3>4, <3>5, <3>6
      <2>6. SqHeld' = [k \in 1 .. len |-> sq'[(lcl_stail + k - 1) % N]]
        BY <2>3, <2>4, <1>6 DEF SqHeld
      <2>7. s = [k \in 1 .. len |-> s[k]]
        BY <1>1, LenProperties DEF len
      <2>8. QED
        BY <2>2, <2>5, <2>6, <2>7
    <1>7. QED
      BY <1>3, <1>4, <1>5, <1>6

----------------------------------------------------------------------------
(* What the rings, the overflow queue and the kernel hold, step by step *)

RingsApart == Apart(SqHeld, sqofq.items, Cqes, kernel)
InRings == Held(SqHeld, sqofq.items, Cqes, kernel)

LEMMA HeldTypes ==
    ASSUME RInv
    PROVE  /\ SqHeld \in Seq(Req) /\ sqofq.items \in Seq(Req) /\ Cqes \in Seq(Req)
           /\ kernel \subseteq Seq(Req) \ {<<>>}
           /\ InRings \subseteq Req
    <1>1. /\ SqHeld \in Seq(Req) /\ sqofq.items \in Seq(Req) /\ Cqes \in Seq(Req)
          /\ kernel \subseteq Seq(Req) \ {<<>>}
      BY SqHeldFacts, ReadyFacts DEF RInv, RingTypes
    <1>2. /\ Range(SqHeld) \subseteq Req /\ Range(sqofq.items) \subseteq Req
          /\ Range(Cqes) \subseteq Req /\ \A c \in kernel : Range(c) \subseteq Req
      BY <1>1, RangeFacts
    <1>3. QED
      BY <1>1, <1>2 DEF InRings, Held

LEMMA KeptHolds ==
    ASSUME UNCHANGED <<sq, sring_head, lcl_stail, sqofq, cq, cring_tail, lcl_chead, ring0>>,
           Called' <=> Called
    PROVE  (RingsApart' <=> RingsApart) /\ InRings' = InRings
    <1>1. SqHeld' = SqHeld /\ Cqes' = Cqes
      BY SqHeldKept, CqesKept DEF ring0
    <1>2. QED
      BY <1>1 DEF RingsApart, InRings, ring0

LEMMA SubmitHolds ==
    ASSUME RInv, RingsApart, NEW r \in Req, r \notin InRings,
           SubmitToSq(r), UNCHANGED <<pc, ret, ring0>>
    PROVE  RingsApart' /\ InRings' = InRings \cup {r}
    <1>1. Cqes' = Cqes /\ kernel' = kernel
      BY CqesKept DEF SubmitToSq, ring0, Called
    <1>2. CASE SqFull
      <2>1. SqHeld' = SqHeld
        BY <1>2, SqHeldKept DEF SubmitToSq
      <2>2. sqofq'.items = Append(sqofq.items, r)
        <3>1. sqofq \in [items : Seq(Req), off : Nat]
          BY DEF RInv, RingTypes
        <3>2. QED
          BY <1>2, <3>1 DEF SubmitToSq, Put
      <2>3. QED
        BY <1>1, <2>1, <2>2, HeldTypes, HeldAppend DEF RingsApart, InRings
    <1>3. CASE ~SqFull
      <2>1. SqHeld' = Append(SqHeld, r) /\ sqofq' = sqofq
        BY <1>3, SqHeldAppend DEF SubmitToSq
      <2>2. QED
        BY <1>1, <2>1, HeldTypes, HeldAppend DEF RingsApart, InRings
    <1>4. QED
      BY <1>2, <1>3

LEMMA EnterHolds ==
    ASSUME RInv, RingsApart, Enter
    PROVE  RingsApart' /\ InRings' = InRings
    <1>1. SqHeld' = <<>>
      BY SqHeldTaken DEF Enter
    <1>2. Cqes' = Cqes
      <2>1. backlog \in Seq(Req) /\ pc = "enter" /\ pc' \in {"app", "wait"} /\ UNCHANGED lcl_chead
            /\ LET p == Posted(cq, cring_tail, Released, backlog)
               IN  cq' = p.ring /\ cring_tail' = p.tail /\ backlog' = p.rest
        BY ReadyFacts DEF Enter
      <2>2. Cqes' = Ready \o backlog
        BY <2>1, CqesEntered
      <2>3. QED
        BY <2>2 DEF Cqes
    <1>3. sqofq' = sqofq /\ kernel' = kernel \cup Chains(SqHeld)
      BY DEF Enter, queues
    <1>4. QED
      BY <1>1, <1>2, <1>3, HeldTypes, HeldTaken DEF RingsApart, InRings

LEMMA ConcatAppend ==
    ASSUME NEW X, NEW s \in Seq(X), NEW t \in Seq(X), NEW e \in X
    PROVE  s \o Append(t, e) = Append(s \o t, e)
    OBVIOUS

LEMMA RejectHolds ==
    ASSUME RInv, RingsApart, NEW k \in 1 .. SqEnts, EnterRejects(k)
    PROVE  RingsApart' /\ InRings' = InRings
    <1>1. /\ SqHeld \in Seq(Req) /\ Len(SqHeld) = SqEnts /\ k \in 1 .. Len(SqHeld)
          /\ SqHeld[k] \in Req /\ SqEnts \in Nat
      BY SqHeldFacts
    <1>2. SqHeld' = SubSeq(SqHeld, k + 1, Len(SqHeld))
      BY SqHeldRejected DEF EnterRejects
    <1>3. Cqes' = Append(Cqes, SqHeld[k])
      <2>1. PICK uds \in Seq(Req) : uds = Append(backlog, SqHeld[k])
        BY <1>1, ReadyFacts, AppendFacts
      <2>2. pc = "enter" /\ pc' \in {"app", "wait"} /\ UNCHANGED lcl_chead
            /\ LET p == Posted(cq, cring_tail, Released, uds)
               IN  cq' = p.ring /\ cring_tail' = p.tail /\ backlog' = p.rest
        BY <2>1 DEF EnterRejects
      <2>3. Cqes' = Ready \o uds
        BY <2>2, CqesEntered
      <2>4. Ready \in Seq(Req) /\ backlog \in Seq(Req)
        BY ReadyFacts
      <2>5. QED
        BY <2>1, <2>3, <2>4, <1>1, ConcatAppend DEF Cqes
    <1>4. sqofq' = sqofq /\ kernel' = kernel \cup Chains(SubSeq(SqHeld, 1, k - 1))
      BY DEF EnterRejects, queues
    <1> DEFINE b == SubSeq(SqHeld, k + 1, Len(SqHeld))
               L == kernel \cup Chains(SubSeq(SqHeld, 1, k - 1))
               q == Append(Cqes, SqHeld[k])
    <1>5. /\ Apart(b, sqofq.items, q, L)
          /\ Held(b, sqofq.items, q, L) = Held(SqHeld, sqofq.items, Cqes, kernel)
      <2>1. Cqes \in Seq(Req) /\ sqofq.items \in Seq(Req)
        BY HeldTypes
      <2>2. Apart(SqHeld, sqofq.items, Cqes, kernel)
        BY DEF RingsApart
      <2>3. Refused(SqHeld, sqofq.items, Cqes, kernel, k)
        BY <1>1, <2>1, <2>2, HeldRejected
      <2>4. QED
        BY <2>3 DEF Refused
    <1>6. SqHeld' = b /\ Cqes' = q /\ kernel' = L /\ sqofq'.items = sqofq.items
      BY <1>2, <1>3, <1>4
    <1> HIDE DEF b, q, L
    <1>7. QED
      BY <1>5, <1>6 DEF RingsApart, InRings

\* (The last of the overflow is no link: the invariant Links below.)
LEMMA WakeHolds ==
    ASSUME RInv, RingsApart, Wake,
           sqofq.items = <<>> \/ sqofq.items[Len(sqofq.items)] \notin Link
    PROVE  RingsApart' /\ InRings' = InRings /\ pc' = "cq"
    <1>1. pc = "wait" /\ UNCHANGED <<cq, cring_tail, lcl_chead, sring_head, ret, ring0>>
      BY DEF Wake, AfterWait
    <1>2. CASE sqofq.items = <<>>
      <2>1. pc' = "cq" /\ UNCHANGED <<sq, lcl_stail, sqofq>>
        BY <1>2 DEF Wake, AfterWait
      <2>2. Called' <=> Called
        BY <1>1, <2>1 DEF Called
      <2>3. QED
        BY <1>1, <2>1, <2>2, KeptHolds
    <1>3. CASE sqofq.items # <<>>
      <2>1. /\ SafePop(sqofq.items) # 0 /\ SqHeld = <<>>
            /\ Flush /\ UNCHANGED sring_head => SqHeld' = sqofq.items /\ sqofq'.items = <<>>
        BY <1>1, <1>3, SqHeldFlushed
      <2>2. pc' = "cq" /\ Flush
        BY <1>3, <2>1 DEF Wake, AfterWait
      <2>3. SqHeld' = sqofq.items /\ sqofq'.items = <<>>
        BY <1>1, <2>1, <2>2
      <2>4. Cqes' = Cqes /\ kernel' = kernel
        <3>1. Called' <=> Called
          BY <1>1, <2>2 DEF Called
        <3>2. QED
          BY <1>1, <3>1, CqesKept DEF ring0
      <2>5. QED
        BY <2>1, <2>2, <2>3, <2>4, HeldFlushed DEF RingsApart, InRings
    <1>4. QED
      BY <1>2, <1>3

\* The CQE at the head of the CQ is consumed.
LEMMA ConsumedHolds ==
    ASSUME RInv, RInv', RingsApart, Dispatch \/ SkipNull
    PROVE  /\ RingsApart' /\ InRings' = InRings \ {cq[lcl_chead % M]}
           /\ cq[lcl_chead % M] \in InRings
           /\ Called' => cq'[lcl_chead' % M] = Stale
    <1>1. /\ pc = "cq" /\ cq' = [cq EXCEPT ![lcl_chead % M] = Stale]
          /\ UNCHANGED <<cring_tail, backlog, kernel, sq, sring_head, lcl_stail, sqofq>>
      BY DEF Dispatch, SkipNull, queues, ring0
    <1>2. \/ UNCHANGED lcl_chead /\ Called'
          \/ lcl_chead' = Plus(lcl_chead, 1) /\ ~Called' /\ lcl_chead' \in Counter
      <2>1. CASE Dispatch
        BY <2>1 DEF Dispatch, Called
      <2>2. CASE SkipNull
        <3>1. lcl_chead' \in Counter
          BY DEF RInv, RingTypes
        <3>2. QED
          BY <2>2, <3>1 DEF SkipNull, NextCqe, Called
      <2>3. QED
        BY <2>1, <2>2
    <1>3. Cqes # <<>> /\ Head(Cqes) = cq[lcl_chead % M] /\ Cqes' = Tail(Cqes)
      BY <1>1, <1>2, CqesConsumed
    <1>4. SqHeld' = SqHeld
      BY <1>1, SqHeldKept
    <1>5. RingsApart' /\ InRings' = InRings \ {Head(Cqes)} /\ Head(Cqes) \in InRings
      BY <1>1, <1>3, <1>4, HeldTypes, HeldTail DEF RingsApart, InRings
    <1>6. Called' => cq'[lcl_chead' % M] = Stale
      <2>1. lcl_chead % M \in 0 .. M - 1 /\ cq \in [0 .. M - 1 -> Slot]
        BY Rings, SMTT(60) DEF RInv, RingTypes, Counter
      <2>2. QED
        BY <1>1, <1>2, <2>1
    <1>7. QED
      BY <1>3, <1>5, <1>6

LEMMA ReturnHolds ==
    ASSUME RInv, RInv', RingsApart, CbReturn
    PROVE  RingsApart' /\ InRings' = InRings
    <1>1. /\ pc = "cb" /\ UNCHANGED <<cq, cring_tail, sq, sring_head, lcl_stail, sqofq, ring0>>
      BY DEF CbReturn, queues
    <1>2. CASE ret = "cq"
      <2>1. lcl_chead' = Plus(lcl_chead, 1) /\ Called /\ ~Called'
        BY <1>1, <1>2 DEF CbReturn, NextCqe, Called
      <2>2. lcl_chead' \in Counter
        BY DEF RInv, RingTypes
      <2>3. Cqes' = Cqes
        BY <1>1, <2>1, <2>2, CqesPassed DEF ring0
      <2>4. SqHeld' = SqHeld
        BY <1>1, SqHeldKept
      <2>5. QED
        BY <1>1, <2>3, <2>4 DEF RingsApart, InRings, ring0
    <1>3. CASE ret # "cq"
      <2>1. (Called' <=> Called) /\ UNCHANGED lcl_chead
        BY <1>1, <1>3 DEF CbReturn, Called
      <2>2. QED
        BY <1>1, <2>1, KeptHolds
    <1>4. QED
      BY <1>2, <1>3

\* The kernel completes the request at the head of a chain, posting its CQE
\* if it is a task ...
LEMMA SucceedsHolds ==
    ASSUME RInv, RingsApart, NEW c \in kernel, Succeeds(c)
    PROVE  /\ RingsApart' /\ Head(c) \in Req
           /\ InRings' = IF Head(c) \in Link THEN InRings \ {Head(c)} ELSE InRings
           /\ Called => cq'[lcl_chead' % M] = cq[lcl_chead % M]
    <1>1. /\ SqHeld \in Seq(Req) /\ sqofq.items \in Seq(Req) /\ Cqes \in Seq(Req)
          /\ c \in Seq(Req) /\ c # <<>> /\ Head(c) \in Req
      BY HeldTypes, TailFacts
    <1>2. /\ UNCHANGED <<sq, sring_head, lcl_stail, cring_head, lcl_chead, sqofq, pc, ret>>
          /\ SqHeld' = SqHeld
      BY SqHeldKept DEF Succeeds, queues, control
    <1> DEFINE next == (kernel \ {c}) \cup (IF Len(c) > 1 THEN {Tail(c)} ELSE {})
               o == sqofq.items
    <1>3. kernel' = next /\ sqofq'.items = o
      BY <1>2 DEF Succeeds
    <1>4. /\ Apart(SqHeld, o, Cqes, next) /\ Held(SqHeld, o, Cqes, next) = InRings \ {Head(c)}
          /\ Apart(SqHeld, o, Append(Cqes, Head(c)), next)
          /\ Held(SqHeld, o, Append(Cqes, Head(c)), next) = InRings
      <2>1. Apart(SqHeld, o, Cqes, kernel)
        BY DEF RingsApart
      <2>2. Started(SqHeld, o, Cqes, kernel, c)
        BY <1>1, <2>1, HeldStarted
      <2>3. QED
        BY <2>2 DEF Started, InRings
    <1> HIDE DEF next, o
    <1>5. CASE Head(c) \in Link
      <2>1. UNCHANGED <<cq, cring_tail, backlog>>
        BY <1>5 DEF Succeeds
      <2>2. Cqes' = Cqes
        BY <1>2, <2>1, CqesKept DEF Called
      <2>3. QED
        BY <1>1, <1>2, <1>3, <1>4, <1>5, <2>1, <2>2 DEF RingsApart, InRings
    <1>6. CASE Head(c) \notin Link
      <2>1. Post(<<Head(c)>>) /\ <<Head(c)>> \in Seq(Req)
        BY <1>1, <1>6 DEF Succeeds
      <2>2. Cqes' = Cqes \o <<Head(c)>> /\ (Called => cq'[lcl_chead % M] = cq[lcl_chead % M])
        BY <1>2, <2>1, CqesPosted
      <2>3. Cqes' = Append(Cqes, Head(c))
        <3>1. Cqes \o <<Head(c)>> = Append(Cqes, Head(c))
          BY <1>1
        <3>2. QED
          BY <2>2, <3>1
      <2>4. QED
        BY <1>1, <1>2, <1>3, <1>4, <1>6, <2>2, <2>3 DEF RingsApart, InRings
    <1>7. QED
      BY <1>5, <1>6

\* ... or fails it, and cancels the rest of its chain.
LEMMA FailsHolds ==
    ASSUME RInv, RingsApart, NEW c \in kernel, Fails(c)
    PROVE  /\ RingsApart'
           /\ \/ InRings' = InRings /\ UNCHANGED cancelled
              \/ /\ InRings' = InRings \ Range(Tail(c))
                 /\ cancelled' = cancelled \cup (Range(Tail(c)) \cap Task)
           /\ Range(Tail(c)) \subseteq InRings
           /\ Called => cq'[lcl_chead' % M] = cq[lcl_chead % M]
    <1>1. /\ SqHeld \in Seq(Req) /\ sqofq.items \in Seq(Req) /\ Cqes \in Seq(Req)
          /\ c \in Seq(Req) /\ c # <<>> /\ Head(c) \in Req
      BY HeldTypes, TailFacts
    <1>2. /\ UNCHANGED <<sq, sring_head, lcl_stail, cring_head, lcl_chead, sqofq, pc, ret>>
          /\ SqHeld' = SqHeld
      BY SqHeldKept DEF Fails, queues, control
    <1> DEFINE o == sqofq.items
               L == kernel \ {c}
    <1>3. kernel' = L /\ sqofq'.items = o
      BY <1>2 DEF Fails
    <1>4. Apart(SqHeld, o, Cqes, kernel)
      BY DEF RingsApart
    <1>5. /\ Apart(SqHeld, o, Cqes \o c, L)
          /\ Held(SqHeld, o, Cqes \o c, L) = InRings
      BY <1>1, <1>4, HeldFailed DEF InRings
    <1>6. /\ Apart(SqHeld, o, Append(Cqes, Head(c)), L)
          /\ Held(SqHeld, o, Append(Cqes, Head(c)), L) = InRings \ Range(Tail(c))
          /\ Range(Tail(c)) \subseteq InRings
      <2>1. Started(SqHeld, o, Cqes, kernel, c)
        BY <1>1, <1>4, HeldStarted
      <2>2. QED
        BY <2>1 DEF Started, InRings
    <1> HIDE DEF o, L
    <1>7. ASSUME Post(c), UNCHANGED cancelled
          PROVE  RingsApart' /\ InRings' = InRings /\ (Called => cq'[lcl_chead' % M] = cq[lcl_chead % M])
      <2>1. Cqes' = Cqes \o c /\ (Called => cq'[lcl_chead % M] = cq[lcl_chead % M])
        BY <1>1, <1>2, <1>7, CqesPosted
      <2>2. QED
        BY <1>2, <1>3, <1>5, <2>1 DEF RingsApart, InRings
    <1>8. ASSUME Post(<<Head(c)>>)
          PROVE  /\ RingsApart' /\ InRings' = InRings \ Range(Tail(c))
                 /\ Called => cq'[lcl_chead' % M] = cq[lcl_chead % M]
      <2>1. <<Head(c)>> \in Seq(Req) /\ Cqes \o <<Head(c)>> = Append(Cqes, Head(c))
        BY <1>1
      <2>2. /\ Cqes' = Cqes \o <<Head(c)>>
            /\ Called => cq'[lcl_chead % M] = cq[lcl_chead % M]
        BY <1>2, <1>8, <2>1, CqesPosted
      <2>3. QED
        BY <1>2, <1>3, <1>6, <2>1, <2>2 DEF RingsApart, InRings
    <1>9. QED
      BY <1>6, <1>7, <1>8 DEF Fails

----------------------------------------------------------------------------
(* The tasks that wait: in the rings, in soonque or in prepque *)

Placed(H, soon, next, w) ==
    /\ soon \in Seq(Task) /\ next \in Seq(Task)
    /\ Distinct(soon) /\ Distinct(next)
    /\ Range(soon) \cap Range(next) = {}
    /\ H \cap Range(soon) = {} /\ H \cap Range(next) = {}
    /\ (Task \cap H) \cup Range(soon) \cup Range(next) = w

LEMMA PlacedRings ==
    ASSUME NEW H, NEW soon, NEW next, NEW w, Placed(H, soon, next, w)
    PROVE  /\ \A t \in Task : t \notin w => Placed(H \cup {t}, soon, next, w \cup {t})
           /\ \A l : l \notin Task => Placed(H \cup {l}, soon, next, w)
           /\ \A D \in SUBSET H : Placed(H \ D, soon, next, w \ D)
           /\ \A t \in H : Placed(H \ {t}, soon, next, w \ {t})
           /\ Task \cap H \subseteq w
    <1>1. Range(soon) \subseteq Task /\ Range(next) \subseteq Task
      BY RangeFacts DEF Placed
    <1>2. QED
      BY <1>1 DEF Placed

LEMMA PlacedQueued ==
    ASSUME NEW H, NEW soon, NEW next, NEW w, Placed(H, soon, next, w), NEW t \in Task, t \notin w
    PROVE  /\ Placed(H, Append(soon, t), next, w \cup {t})
           /\ Placed(H, soon, Append(next, t), w \cup {t})
           /\ Len(Append(soon, t)) = Len(soon) + 1 /\ Len(Append(next, t)) = Len(next) + 1
    <1>1. soon \in Seq(Task) /\ next \in Seq(Task)
      BY DEF Placed
    <1>2. t \notin H /\ t \notin Range(soon) /\ t \notin Range(next)
      BY DEF Placed
    <1>3. /\ Append(soon, t) \in Seq(Task) /\ Range(Append(soon, t)) = Range(soon) \cup {t}
          /\ Distinct(Append(soon, t))
          /\ Append(next, t) \in Seq(Task) /\ Range(Append(next, t)) = Range(next) \cup {t}
          /\ Distinct(Append(next, t))
      BY <1>1, <1>2, AppendFacts DEF Placed
    <1>4. QED
      BY <1>1, <1>2, <1>3, AppendProperties DEF Placed

LEMMA PlacedCalled ==
    ASSUME NEW H, NEW soon, NEW next, NEW w, Placed(H, soon, next, w)
    PROVE  /\ soon # <<>> => /\ Head(soon) \in w /\ Placed(H, Tail(soon), next, w \ {Head(soon)})
                             /\ Len(Tail(soon)) = Len(soon) - 1
           /\ next # <<>> => /\ Head(next) \in w /\ Placed(H, soon, Tail(next), w \ {Head(next)})
                             /\ Len(Tail(next)) = Len(next) - 1
    <1>1. soon \in Seq(Task) /\ next \in Seq(Task)
      BY DEF Placed
    <1>2. ASSUME soon # <<>>
          PROVE  /\ Head(soon) \in w /\ Placed(H, Tail(soon), next, w \ {Head(soon)})
                 /\ Len(Tail(soon)) = Len(soon) - 1
      <2>1. /\ Head(soon) \in Task /\ Tail(soon) \in Seq(Task) /\ Len(Tail(soon)) = Len(soon) - 1
            /\ Range(soon) = Range(Tail(soon)) \cup {Head(soon)}
            /\ Distinct(Tail(soon)) /\ Head(soon) \notin Range(Tail(soon))
        BY <1>1, <1>2, TailFacts DEF Placed
      <2>2. QED
        BY <2>1 DEF Placed
    <1>3. ASSUME next # <<>>
          PROVE  /\ Head(next) \in w /\ Placed(H, soon, Tail(next), w \ {Head(next)})
                 /\ Len(Tail(next)) = Len(next) - 1
      <2>1. /\ Head(next) \in Task /\ Tail(next) \in Seq(Task) /\ Len(Tail(next)) = Len(next) - 1
            /\ Range(next) = Range(Tail(next)) \cup {Head(next)}
            /\ Distinct(Tail(next)) /\ Head(next) \notin Range(Tail(next))
        BY <1>1, <1>3, TailFacts DEF Placed
      <2>2. QED
        BY <2>1 DEF Placed
    <1>4. QED
      BY <1>2, <1>3

\* exeq has no more left to call than the queue holds, and only a callback has
\* somewhere to return to.
Control ==
    /\ pc \in {"app", "prep", "soon", "enter", "wait", "cq", "cqsoon", "cb"}
    /\ pc = "cb" <=> ret # "app"
    /\ todo \in Nat
    /\ "prep" \in {pc, ret} => todo <= Len(prepque)
    /\ "soon" \in {pc, ret} \/ "cqsoon" \in {pc, ret} => todo <= Len(soonque)

\* A link at the end of the overflow queue is the last request handed in, and
\* the SQ has been full since: its successor will follow it, and nothing ends
\* the callback before.
Links ==
    /\ open \in Link \cup {NoLink}
    /\ open # NoLink => InUser
    /\ sqofq.items # <<>> /\ sqofq.items[Len(sqofq.items)] \in Link => SqFull /\ open # NoLink

Waits ==
    /\ RingsApart
    /\ Placed(InRings, soonque, prepque, pend \ cancelled)
    /\ pend \subseteq Task /\ cancelled \subseteq pend
    /\ Called => cq[lcl_chead % M] = Stale

OnceInv == RInv /\ Control /\ Links /\ Waits

\* What the application sees as outstanding is what is held.
LEMMA OutstandingHeld ==
    ASSUME OnceInv
    PROVE  Req \cap Outstanding = InRings
    <1>1. /\ Passed \in {0, 1} /\ CqEnts \in Nat /\ CqEnts - Passed \in Nat
          /\ Ready \in Seq(Req) /\ Len(Ready) = CqEnts - Passed
          /\ \A k \in 1 .. CqEnts - Passed : Ready[k] = cq[(lcl_chead + Passed + k - 1) % M]
          /\ backlog \in Seq(Req)
      BY ReadyFacts DEF OnceInv
    <1>2. lcl_chead \in Nat
      BY DEF OnceInv, RInv, RingTypes, Counter
    <1>3. Range(CqHeld) = {cq[(lcl_chead + k - 1) % M] : k \in 1 .. CqEnts}
      BY DEF CqHeld, Range
    <1>4. Range(Ready) = {Ready[k] : k \in 1 .. CqEnts - Passed}
      BY <1>1, RangeFacts
    <1>5. Range(Ready) \subseteq Range(CqHeld)
      <2>1. SUFFICES ASSUME NEW k \in 1 .. CqEnts - Passed PROVE Ready[k] \in Range(CqHeld)
        BY <1>4
      <2>2. Passed + k \in 1 .. CqEnts /\ lcl_chead + (Passed + k) - 1 = lcl_chead + Passed + k - 1
        BY <1>1, <1>2
      <2>3. QED
        BY <1>1, <1>3, <2>2
    <1>6. ASSUME NEW k \in 1 .. CqEnts, cq[(lcl_chead + k - 1) % M] \in Req
          PROVE  cq[(lcl_chead + k - 1) % M] \in Range(Ready)
      <2>1. k > Passed
        <3>1. CASE Called /\ k = 1
          <4>1. lcl_chead + k - 1 = lcl_chead
            BY <3>1, <1>2
          <4>2. cq[lcl_chead % M] = Stale /\ Stale \notin Req
            BY <3>1, Rings DEF OnceInv, Waits
          <4>3. QED
            BY <1>6, <4>1, <4>2
        <3>2. CASE ~(Called /\ k = 1)
          BY <3>2, <1>1 DEF Passed
        <3>3. QED
          BY <3>1, <3>2
      <2>2. k - Passed \in 1 .. CqEnts - Passed
            /\ lcl_chead + Passed + (k - Passed) - 1 = lcl_chead + k - 1
        BY <2>1, <1>1, <1>2
      <2>3. QED
        BY <1>1, <1>4, <2>2
    <1>7. Req \cap Range(CqHeld) = Range(Ready)
      <2>1. Range(Ready) \subseteq Req
        BY <1>1, RangeFacts
      <2>2. QED
        BY <2>1, <1>3, <1>5, <1>6
    <1>8. Range(Cqes) = Range(Ready) \cup Range(backlog)
      BY <1>1, ConcatFacts DEF Cqes
    <1>9. /\ Range(SqHeld) \subseteq Req /\ Range(sqofq.items) \subseteq Req
          /\ Range(backlog) \subseteq Req /\ UNION {Range(c) : c \in kernel} \subseteq Req
      <2>1. /\ SqHeld \in Seq(Req) /\ sqofq.items \in Seq(Req) /\ backlog \in Seq(Req)
        BY <1>1, HeldTypes DEF OnceInv
      <2>2. InRings \subseteq Req
        BY HeldTypes DEF OnceInv
      <2>3. QED
        BY <2>1, <2>2, RangeFacts DEF InRings, Held
    <1>10. QED
      BY <1>7, <1>8, <1>9 DEF Outstanding, InRings, Held

----------------------------------------------------------------------------
(* Each step keeps the invariant *)

LEMMA Disjoint == /\ Task \cap Link = {} /\ Task \cup Link = Req /\ Stale \notin Req
                  /\ NoLink \notin Link
    BY LoopAssumption DEF Req

LEMMA SubmitTaskWaits ==
    ASSUME OnceInv, NEW t \in Task, SubmitTask(t)
    PROVE  Waits' /\ InRings' = InRings \cup {t}
    <1>1. t \notin pend \ cancelled /\ t \notin cancelled /\ t \notin InRings /\ t \in Req
      BY PlacedRings, Disjoint DEF OnceInv, Waits, SubmitTask
    <1>2. RingsApart' /\ InRings' = InRings \cup {t}
      BY <1>1, SubmitHolds DEF OnceInv, Waits, SubmitTask, control
    <1>3. Placed(InRings \cup {t}, soonque, prepque, (pend \ cancelled) \cup {t})
      BY <1>1, PlacedRings DEF OnceInv, Waits
    <1>4. /\ pend' = pend \cup {t} /\ cancelled' = cancelled
          /\ pend' \ cancelled' = (pend \ cancelled) \cup {t}
          /\ UNCHANGED <<soonque, prepque, pc, ret, cq, lcl_chead>>
      BY <1>1 DEF SubmitTask, SubmitToSq, control
    <1>5. Placed(InRings, soonque, prepque, pend \ cancelled)'
      BY <1>2, <1>3, <1>4
    <1>6. QED
      BY <1>2, <1>4, <1>5 DEF OnceInv, Waits, Called

LEMMA SubmitLinkWaits ==
    ASSUME OnceInv, NEW l \in Link, SubmitLink(l)
    PROVE  Waits' /\ InRings' = InRings \cup {l}
    <1>1. l \notin InRings /\ l \in Req /\ l \notin Task
      BY OutstandingHeld, Disjoint DEF SubmitLink
    <1>2. RingsApart' /\ InRings' = InRings \cup {l}
      BY <1>1, SubmitHolds DEF OnceInv, Waits, SubmitLink, control
    <1>3. Placed(InRings \cup {l}, soonque, prepque, pend \ cancelled)
      BY <1>1, PlacedRings DEF OnceInv, Waits
    <1>4. UNCHANGED <<pend, cancelled, soonque, prepque, pc, ret, cq, lcl_chead>>
      BY DEF SubmitLink, SubmitToSq, control
    <1>5. Placed(InRings, soonque, prepque, pend \ cancelled)'
      BY <1>2, <1>3, <1>4
    <1>6. QED
      BY <1>2, <1>4, <1>5 DEF OnceInv, Waits, Called

\* A step that leaves the held requests, the queues and pend alone.
LEMMA UnmovedWaits ==
    ASSUME Waits, RingsApart', InRings' = InRings, UNCHANGED <<soonque, prepque, pend, cancelled>>,
           Called' => cq'[lcl_chead' % M] = Stale
    PROVE  Waits'
    BY DEF Waits

LEMMA ESoonWaits ==
    ASSUME OnceInv, NEW t \in Task, ESoon(t)
    PROVE  Waits' /\ InRings' = InRings
    <1>1. t \notin pend \ cancelled /\ t \notin cancelled
      BY DEF OnceInv, Waits, ESoon
    <1>2. /\ UNCHANGED <<sq, sring_head, lcl_stail, sqofq, cq, cring_tail, lcl_chead, ring0, pc, ret>>
          /\ Called' <=> Called
      BY DEF ESoon, rings, control, Called
    <1>3. RingsApart' /\ InRings' = InRings
      BY <1>2, KeptHolds DEF OnceInv, Waits
    <1>4. /\ Placed(InRings, Append(soonque, t), prepque, (pend \ cancelled) \cup {t})
          /\ Placed(InRings, soonque, Append(prepque, t), (pend \ cancelled) \cup {t})
      BY <1>1, PlacedQueued DEF OnceInv, Waits
    <1>5. /\ pend' = pend \cup {t} /\ cancelled' = cancelled
          /\ pend' \ cancelled' = (pend \ cancelled) \cup {t}
          /\ \/ soonque' = Append(soonque, t) /\ prepque' = prepque
             \/ prepque' = Append(prepque, t) /\ soonque' = soonque
      BY <1>1 DEF ESoon
    <1>6. Placed(InRings, soonque, prepque, pend \ cancelled)'
      BY <1>3, <1>4, <1>5
    <1>7. QED
      BY <1>2, <1>3, <1>5, <1>6 DEF OnceInv, Waits

\* The queue that exeq runs is not empty while it has a task left to call.
LEMMA TodoQueued ==
    ASSUME OnceInv, todo > 0
    PROVE  /\ pc = "prep" => prepque # <<>>
           /\ pc \in {"soon", "cqsoon"} => soonque # <<>>
    BY EmptyFacts DEF OnceInv, Control

LEMMA ExeqWaits ==
    ASSUME OnceInv, RunPrep \/ RunSoon
    PROVE  Waits' /\ InRings' = InRings
    <1>1. /\ UNCHANGED <<sq, sring_head, lcl_stail, sqofq, cq, cring_tail, lcl_chead, ring0, cancelled>>
          /\ ~Called /\ ~Called'
      BY DEF RunPrep, RunSoon, rings, Called
    <1>2. RingsApart' /\ InRings' = InRings
      BY <1>1, KeptHolds DEF OnceInv, Waits
    <1>3. Placed(InRings, soonque, prepque, pend \ cancelled)
      BY DEF OnceInv, Waits
    <1>4. CASE RunPrep
      <2>1. prepque # <<>> /\ prepque' = Tail(prepque) /\ soonque' = soonque
            /\ pend' = pend \ {Head(prepque)}
        BY <1>4, TodoQueued DEF RunPrep
      <2>2. /\ Head(prepque) \in pend \ cancelled
            /\ Placed(InRings, soonque, Tail(prepque), (pend \ cancelled) \ {Head(prepque)})
        BY <1>3, <2>1, PlacedCalled
      <2>3. pend' \ cancelled' = (pend \ cancelled) \ {Head(prepque)}
        BY <1>1, <2>1
      <2>4. Placed(InRings, soonque, prepque, pend \ cancelled)'
        BY <1>2, <2>1, <2>2, <2>3
      <2>5. QED
        BY <1>1, <1>2, <2>1, <2>2, <2>4 DEF OnceInv, Waits
    <1>5. CASE RunSoon
      <2>1. soonque # <<>> /\ soonque' = Tail(soonque) /\ prepque' = prepque
            /\ pend' = pend \ {Head(soonque)}
        BY <1>5, TodoQueued DEF RunSoon
      <2>2. /\ Head(soonque) \in pend \ cancelled
            /\ Placed(InRings, Tail(soonque), prepque, (pend \ cancelled) \ {Head(soonque)})
        BY <1>3, <2>1, PlacedCalled
      <2>3. pend' \ cancelled' = (pend \ cancelled) \ {Head(soonque)}
        BY <1>1, <2>1
      <2>4. Placed(InRings, soonque, prepque, pend \ cancelled)'
        BY <1>2, <2>1, <2>2, <2>3
      <2>5. QED
        BY <1>1, <1>2, <2>1, <2>2, <2>4 DEF OnceInv, Waits
    <1>6. QED
      BY <1>4, <1>5

LEMMA DispatchWaits ==
    ASSUME OnceInv, RInv', Dispatch
    PROVE  /\ Waits'
           /\ cq[lcl_chead % M] \in Task \cap InRings /\ InRings' = InRings \ {cq[lcl_chead % M]}
    <1>1. PICK t : t = cq[lcl_chead % M]
      OBVIOUS
    <1>2. /\ RingsApart' /\ InRings' = InRings \ {t} /\ t \in InRings
          /\ Called' => cq'[lcl_chead' % M] = Stale
      BY <1>1, ConsumedHolds DEF OnceInv, Waits
    <1>3. t \in Task /\ pend' = pend \ {t} /\ UNCHANGED <<cancelled, soonque, prepque>>
      BY <1>1 DEF Dispatch, queues
    <1>4. /\ Placed(InRings \ {t}, soonque, prepque, (pend \ cancelled) \ {t})
          /\ t \in pend \ cancelled
      <2>1. Placed(InRings, soonque, prepque, pend \ cancelled)
        BY DEF OnceInv, Waits
      <2>2. QED
        BY <1>2, <1>3, <2>1, PlacedRings
    <1>5. pend' \ cancelled' = (pend \ cancelled) \ {t}
      BY <1>3
    <1>6. Placed(InRings, soonque, prepque, pend \ cancelled)'
      BY <1>2, <1>3, <1>4, <1>5
    <1>7. QED
      BY <1>1, <1>2, <1>3, <1>4, <1>6 DEF OnceInv, Waits

\* A request without a callback is gone.
LEMMA LinkGoneWaits ==
    ASSUME OnceInv, NEW l \in Link, l \in InRings, RingsApart', InRings' = InRings \ {l},
           UNCHANGED <<soonque, prepque, pend, cancelled>>,
           Called' => cq'[lcl_chead' % M] = Stale
    PROVE  Waits' /\ Task \cap InRings' = Task \cap InRings
    <1>1. l \notin Task
      BY Disjoint
    <1>2. Placed(InRings \ {l}, soonque, prepque, pend \ cancelled)
      <2>1. Placed(InRings \ {l}, soonque, prepque, (pend \ cancelled) \ {l})
        <3>1. Placed(InRings, soonque, prepque, pend \ cancelled)
          BY DEF OnceInv, Waits
        <3>2. QED
          BY <3>1, PlacedRings
      <2>2. (pend \ cancelled) \ {l} = pend \ cancelled
        BY <1>1 DEF OnceInv, Waits
      <2>3. QED
        BY <2>1, <2>2
    <1>3. Placed(InRings, soonque, prepque, pend \ cancelled)'
      BY <1>2
    <1>4. QED
      BY <1>1, <1>3 DEF OnceInv, Waits

LEMMA SkipNullWaits ==
    ASSUME OnceInv, RInv', SkipNull
    PROVE  Waits' /\ Task \cap InRings' = Task \cap InRings
    <1>1. PICK l : l = cq[lcl_chead % M]
      OBVIOUS
    <1>2. /\ RingsApart' /\ InRings' = InRings \ {l} /\ l \in InRings
          /\ Called' => cq'[lcl_chead' % M] = Stale
      BY <1>1, ConsumedHolds DEF OnceInv, Waits
    <1>3. l \in Link /\ UNCHANGED <<soonque, prepque, pend, cancelled>>
      BY <1>1 DEF SkipNull, queues, history
    <1>4. QED
      BY <1>2, <1>3, LinkGoneWaits

LEMMA SucceedsWaits ==
    ASSUME OnceInv, NEW c \in kernel, Succeeds(c)
    PROVE  Waits' /\ Task \cap InRings' = Task \cap InRings
    <1>1. /\ RingsApart' /\ Head(c) \in Req
          /\ InRings' = IF Head(c) \in Link THEN InRings \ {Head(c)} ELSE InRings
          /\ Called => cq'[lcl_chead' % M] = cq[lcl_chead % M]
      BY SucceedsHolds DEF OnceInv, Waits
    <1>2. UNCHANGED <<soonque, prepque, pend, cancelled, pc, ret>>
      BY DEF Succeeds, queues, control
    <1>3. Called' => cq'[lcl_chead' % M] = Stale
      BY <1>1, <1>2 DEF OnceInv, Waits, Called
    <1>4. CASE Head(c) \in Link /\ Head(c) \in InRings
      BY <1>1, <1>2, <1>3, <1>4, LinkGoneWaits
    <1>5. CASE ~(Head(c) \in Link /\ Head(c) \in InRings)
      <2>1. InRings' = InRings
        BY <1>1, <1>5
      <2>2. QED
        BY <1>1, <1>2, <1>3, <2>1, UnmovedWaits DEF OnceInv
    <1>6. QED
      BY <1>4, <1>5

LEMMA FailsWaits ==
    ASSUME OnceInv, NEW c \in kernel, Fails(c)
    PROVE  /\ Waits'
           /\ \/ InRings' = InRings /\ cancelled' = cancelled
              \/ \E S \in SUBSET (Task \cap InRings) :
                    Task \cap InRings' = (Task \cap InRings) \ S /\ cancelled' = cancelled \cup S
    <1>1. /\ RingsApart'
          /\ \/ InRings' = InRings /\ UNCHANGED cancelled
             \/ /\ InRings' = InRings \ Range(Tail(c))
                /\ cancelled' = cancelled \cup (Range(Tail(c)) \cap Task)
          /\ Range(Tail(c)) \subseteq InRings
          /\ Called => cq'[lcl_chead' % M] = cq[lcl_chead % M]
      BY FailsHolds DEF OnceInv, Waits
    <1>2. UNCHANGED <<soonque, prepque, pend, pc, ret>>
      BY DEF Fails, queues, control
    <1>3. Called' => cq'[lcl_chead' % M] = Stale
      BY <1>1, <1>2 DEF OnceInv, Waits, Called
    <1>4. CASE InRings' = InRings /\ UNCHANGED cancelled
      BY <1>1, <1>2, <1>3, <1>4, UnmovedWaits DEF OnceInv
    <1>5. CASE /\ InRings' = InRings \ Range(Tail(c))
               /\ cancelled' = cancelled \cup (Range(Tail(c)) \cap Task)
      <2>1. PICK D : D = Range(Tail(c))
        OBVIOUS
      <2>2. D \in SUBSET InRings /\ Placed(InRings, soonque, prepque, pend \ cancelled)
            /\ pend \subseteq Task /\ cancelled \subseteq pend
        BY <1>1, <2>1 DEF OnceInv, Waits
      <2>3. Placed(InRings \ D, soonque, prepque, (pend \ cancelled) \ D)
            /\ Task \cap InRings \subseteq pend \ cancelled
        <3>1. PICK H, w : H = InRings /\ w = pend \ cancelled
          OBVIOUS
        <3>2. Placed(H, soonque, prepque, w) /\ D \in SUBSET H
          BY <2>2, <3>1
        <3>3. Placed(H \ D, soonque, prepque, w \ D) /\ Task \cap H \subseteq w
          BY <3>2, PlacedRings
        <3>4. QED
          BY <3>1, <3>3
      <2>4. (pend \ cancelled) \ D = pend' \ cancelled' /\ cancelled' \subseteq pend'
        BY <1>2, <1>5, <2>1, <2>2, <2>3
      <2>5. InRings' = InRings \ D
        BY <1>5, <2>1
      <2>6. Placed(InRings, soonque, prepque, pend \ cancelled)'
        BY <1>2, <2>3, <2>4, <2>5
      <2>7. Waits'
        BY <1>1, <1>2, <1>3, <2>2, <2>4, <2>6 DEF Waits
      <2>8. /\ D \cap Task \in SUBSET (Task \cap InRings)
            /\ Task \cap InRings' = (Task \cap InRings) \ (D \cap Task)
            /\ cancelled' = cancelled \cup (D \cap Task)
        BY <1>5, <2>1, <2>2, <2>5
      <2>9. QED
        BY <2>7, <2>8
    <1>6. QED
      BY <1>1, <1>4, <1>5

LEMMA EnterWaits ==
    ASSUME OnceInv, \/ Enter \/ EnterError \/ \E k \in 1 .. SqEnts : EnterRejects(k)
    PROVE  Waits' /\ InRings' = InRings
    <1>1. /\ UNCHANGED <<soonque, prepque, pend, cancelled>> /\ ~Called' /\ ~Called
      BY DEF Enter, EnterError, EnterRejects, queues, Called
    <1>2. RingsApart' /\ InRings' = InRings
      <2>1. CASE Enter
        BY <2>1, EnterHolds DEF OnceInv, Waits
      <2>2. CASE EnterError
        <3>1. UNCHANGED <<sq, sring_head, lcl_stail, sqofq, cq, cring_tail, lcl_chead, ring0>>
          BY <2>2 DEF EnterError, queues
        <3>2. QED
          BY <1>1, <3>1, KeptHolds DEF OnceInv, Waits
      <2>3. CASE \E k \in 1 .. SqEnts : EnterRejects(k)
        BY <2>3, RejectHolds DEF OnceInv, Waits
      <2>4. QED
        BY <2>1, <2>2, <2>3
    <1>3. QED
      BY <1>1, <1>2, UnmovedWaits DEF OnceInv

LEMMA WakeWaits ==
    ASSUME OnceInv, Wake
    PROVE  Waits' /\ InRings' = InRings /\ pc' = "cq"
    <1>1. pc = "wait" /\ UNCHANGED <<soonque, prepque, pend, cancelled>>
      BY DEF Wake, AfterWait, history
    <1>2. sqofq.items = <<>> \/ sqofq.items[Len(sqofq.items)] \notin Link
      BY <1>1 DEF OnceInv, Links, InUser
    <1>3. RingsApart' /\ InRings' = InRings /\ pc' = "cq"
      BY <1>2, WakeHolds DEF OnceInv, Waits
    <1>4. QED
      BY <1>1, <1>3, UnmovedWaits DEF OnceInv, Called

\* The steps that only move lrun1.
LEMMA MovesWaits ==
    ASSUME OnceInv, RInv', \/ LRun1 \/ ExeqDone \/ CbReturn \/ UNCHANGED vars
                           \/ \E t \in Task : ETimeFails(t)
    PROVE  Waits' /\ InRings' = InRings
    <1>1. UNCHANGED <<soonque, prepque, pend, cancelled>>
      BY DEF LRun1, ExeqDone, CbReturn, ETimeFails, vars, queues, history
    <1>2. CASE CbReturn
      <2>1. ~Called'
        BY <1>2 DEF CbReturn, NextCqe, Called
      <2>2. QED
        BY <1>1, <1>2, <2>1, ReturnHolds, UnmovedWaits DEF OnceInv, Waits
    <1>3. CASE \/ LRun1 \/ ExeqDone \/ UNCHANGED vars \/ \E t \in Task : ETimeFails(t)
      <2>1. /\ UNCHANGED <<sq, sring_head, lcl_stail, sqofq, cq, cring_tail, lcl_chead, ring0>>
            /\ Called' <=> Called
        BY <1>3 DEF LRun1, ExeqDone, ETimeFails, vars, rings, queues, control, Called
      <2>2. RingsApart' /\ InRings' = InRings
        BY <2>1, KeptHolds DEF OnceInv, Waits
      <2>3. Called' => cq'[lcl_chead' % M] = Stale
        BY <2>1 DEF OnceInv, Waits
      <2>4. QED
        BY <1>1, <2>2, <2>3, UnmovedWaits DEF OnceInv
    <1>4. QED
      BY <1>2, <1>3

LEMMA NextWaits ==
    ASSUME OnceInv, RInv', [Next]_vars
    PROVE  Waits'
    BY SubmitTaskWaits, SubmitLinkWaits, ESoonWaits, ExeqWaits, DispatchWaits, SkipNullWaits,
       SucceedsWaits, FailsWaits, EnterWaits, WakeWaits, MovesWaits DEF Next, LoopStep

LEMMA NextControl ==
    ASSUME OnceInv, [Next]_vars
    PROVE  Control'
    <1>1. Control /\ soonque \in Seq(Task) /\ prepque \in Seq(Task)
          /\ Len(soonque) \in Nat /\ Len(prepque) \in Nat
      BY LenProperties DEF OnceInv, Waits, Placed
    <1>2. ASSUME UNCHANGED <<pc, ret, todo, soonque, prepque>> PROVE Control'
      BY <1>1, <1>2 DEF Control
    <1>3. ASSUME NEW t \in Task, ESoon(t) PROVE Control'
      <2>1. Len(Append(soonque, t)) = Len(soonque) + 1 /\ Len(Append(prepque, t)) = Len(prepque) + 1
        BY <1>1, AppendProperties
      <2>2. /\ UNCHANGED <<pc, ret, todo>>
            /\ Len(soonque') \in {Len(soonque), Len(soonque) + 1}
            /\ Len(prepque') \in {Len(prepque), Len(prepque) + 1}
        BY <1>3, <2>1 DEF ESoon, control
      <2>3. QED
        BY <1>1, <2>2 DEF Control
    <1>4. ASSUME LRun1 \/ ExeqDone PROVE Control'
      BY <1>1, <1>4 DEF LRun1, ExeqDone, Control, queues
    <1>5. ASSUME RunPrep PROVE Control'
      <2>1. prepque # <<>>
        BY <1>5, TodoQueued DEF RunPrep
      <2>2. Len(Tail(prepque)) = Len(prepque) - 1
        BY <1>1, <2>1, TailFacts
      <2>3. QED
        BY <1>1, <1>5, <2>2 DEF RunPrep, Control, Remaining
    <1>6. ASSUME RunSoon PROVE Control'
      <2>1. soonque # <<>>
        BY <1>6, TodoQueued DEF RunSoon
      <2>2. Len(Tail(soonque)) = Len(soonque) - 1
        BY <1>1, <2>1, TailFacts
      <2>3. QED
        BY <1>1, <1>6, <2>2 DEF RunSoon, Control, Remaining
    <1>7. ASSUME Wake PROVE Control'
      BY <1>1, <1>7, WakeWaits DEF Wake, AfterWait, Control
    <1>8. ASSUME \/ Enter \/ EnterError \/ \E k \in 1 .. SqEnts : EnterRejects(k) PROVE Control'
      BY <1>1, <1>8 DEF Enter, EnterError, EnterRejects, Control
    <1>9. ASSUME Dispatch \/ SkipNull \/ CbReturn PROVE Control'
      <2>1. UNCHANGED <<soonque, prepque>>
        BY <1>9 DEF Dispatch, SkipNull, CbReturn, queues
      <2>2. CASE Dispatch
        BY <1>1, <2>1, <2>2 DEF Dispatch, Control
      <2>3. CASE NextCqe
        <3>1. \/ pc' = "app" /\ todo' = todo
              \/ pc' = "cqsoon" /\ todo' = Len(soonque)
          BY <2>3 DEF NextCqe
        <3>2. ret' = "app"
          BY <2>3 DEF NextCqe
        <3>3. QED
          BY <1>1, <2>1, <3>1, <3>2 DEF Control
      <2>4. CASE CbReturn /\ ret # "cq"
        <3>1. pc = "cb" /\ pc' = ret /\ ret' = "app" /\ todo' = todo
          BY <2>4 DEF CbReturn
        <3>2. ret \in {"prep", "soon", "cqsoon"}
          BY <1>1, <2>4, <3>1 DEF OnceInv, RInv, RingTypes, Control
        <3>3. QED
          BY <1>1, <2>1, <3>1, <3>2 DEF Control
      <2>5. QED
        BY <1>9, <2>2, <2>3, <2>4 DEF SkipNull, CbReturn
    <1>10. ASSUME \/ UNCHANGED vars
                  \/ \E t \in Task : SubmitTask(t) \/ ETimeFails(t)
                  \/ \E l \in Link : SubmitLink(l)
                  \/ \E c \in kernel : Succeeds(c) \/ Fails(c)
           PROVE  Control'
      BY <1>2, <1>10 DEF vars, SubmitTask, ETimeFails, SubmitLink, Succeeds, Fails, queues, control
    <1>11. QED
      BY <1>3, <1>4, <1>5, <1>6, <1>7, <1>8, <1>9, <1>10 DEF Next, LoopStep

LEMMA NextLinks ==
    ASSUME OnceInv, [Next]_vars
    PROVE  Links'
    <1>1. /\ Links /\ sqofq.items \in Seq(Req) /\ sqofq \in [items : Seq(Req), off : Nat]
          /\ NoLink \notin Link /\ Task \cap Link = {}
          /\ open # NoLink => pc \in {"app", "cb"}
      BY Disjoint DEF OnceInv, RInv, RingTypes, Links, InUser
    <1>2. ASSUME UNCHANGED <<sq, sring_head, lcl_stail, sqofq, open>>,
                 open # NoLink => pc' \in {"app", "cb"}
          PROVE  Links'
      BY <1>1, <1>2, SqHeldKept DEF Links, InUser
    <1>3. ASSUME NEW r \in Req, SubmitToSq(r), UNCHANGED <<pc, ret>>,
                 open' = IF r \in Link THEN r ELSE NoLink
          PROVE  sqofq'.items # <<>> /\ sqofq'.items[Len(sqofq'.items)] \in Link
                     => SqFull' /\ open' # NoLink
      <2>1. CASE SqFull
        <3>1. sqofq'.items = Append(sqofq.items, r) /\ SqFull' = SqFull
          <4>1. UNCHANGED <<sq, sring_head, lcl_stail>> /\ sqofq' = Put(sqofq, r)
            BY <1>3, <2>1 DEF SubmitToSq
          <4>2. QED
            BY <4>1, <1>1, SqHeldKept DEF Put
        <3>2. Append(sqofq.items, r)[Len(Append(sqofq.items, r))] = r
          BY <1>1, AppendProperties, LenProperties
        <3>3. QED
          BY <1>1, <1>3, <2>1, <3>1, <3>2
      <2>2. CASE ~SqFull
        <3>1. sqofq' = sqofq
          BY <1>3, <2>2 DEF SubmitToSq
        <3>2. QED
          BY <1>1, <2>2, <3>1 DEF Links
      <2>3. QED
        BY <2>1, <2>2
    <1>4. ASSUME NEW t \in Task, SubmitTask(t) PROVE Links'
      <2>1. /\ t \in Req /\ SubmitToSq(t) /\ UNCHANGED <<pc, ret>> /\ t \notin Link
            /\ open' = NoLink
        BY <1>1, <1>4, Disjoint DEF SubmitTask, control
      <2>2. QED
        BY <1>3, <2>1 DEF Links
    <1>5. ASSUME NEW l \in Link, SubmitLink(l) PROVE Links'
      <2>1. /\ l \in Req /\ SubmitToSq(l) /\ UNCHANGED <<pc, ret>> /\ open' = l /\ InUser
        BY <1>5, Disjoint DEF SubmitLink, control
      <2>2. QED
        BY <1>3, <2>1 DEF Links, InUser
    <1>6. ASSUME \E t \in Task : ETimeFails(t) \/ ESoon(t) PROVE Links'
      BY <1>1, <1>2, <1>6 DEF ETimeFails, ESoon, rings, queues, control, history
    <1>7. ASSUME LRun1 \/ RunPrep \/ RunSoon \/ ExeqDone \/ Dispatch \/ SkipNull \/ CbReturn
          PROVE  Links'
      <2>1. UNCHANGED <<sq, sring_head, lcl_stail, sqofq, open>> /\ open = NoLink
        BY <1>1, <1>7 DEF LRun1, RunPrep, RunSoon, ExeqDone, Dispatch, SkipNull, CbReturn,
                          rings, queues, history
      <2>2. QED
        BY <1>2, <2>1
    <1>8. ASSUME \/ Enter \/ EnterError \/ \E k \in 1 .. SqEnts : EnterRejects(k) PROVE Links'
      <2>1. /\ open' = open /\ open = NoLink /\ sqofq' = sqofq
        BY <1>1, <1>8 DEF Enter, EnterError, EnterRejects, queues
      <2>2. QED
        BY <1>1, <2>1 DEF Links
    <1>9. ASSUME Wake PROVE Links'
      <2>1. /\ open' = open /\ open = NoLink /\ pc = "wait"
        BY <1>1, <1>9 DEF Wake, AfterWait, history
      <2>2. CASE sqofq.items = <<>>
        <3>1. sqofq' = sqofq
          BY <1>9, <2>2 DEF Wake, AfterWait
        <3>2. QED
          BY <2>1, <2>2, <3>1 DEF Links
      <2>3. CASE sqofq.items # <<>>
        <3>1. /\ SafePop(sqofq.items) # 0
              /\ Flush /\ UNCHANGED sring_head => sqofq'.items = <<>>
          BY <1>1, <2>1, <2>3, SqHeldFlushed DEF OnceInv, Links
        <3>2. Flush /\ UNCHANGED sring_head
          BY <1>9, <2>3, <3>1 DEF Wake, AfterWait
        <3>3. QED
          BY <2>1, <3>1, <3>2 DEF Links
      <2>4. QED
        BY <2>2, <2>3
    <1>10. ASSUME UNCHANGED vars PROVE Links'
      BY <1>1, <1>2, <1>10 DEF vars, rings, queues, control, history
    <1>11. ASSUME NEW c \in kernel, Succeeds(c) \/ Fails(c) PROVE Links'
      BY <1>1, <1>2, <1>11 DEF Succeeds, Fails, queues, control
    <1>12. QED
      BY <1>4, <1>5, <1>6, <1>7, <1>8, <1>9, <1>10, <1>11 DEF Next, LoopStep

LEMMA InitOnceInv == Init => OnceInv
    <1> SUFFICES ASSUME Init PROVE OnceInv
      OBVIOUS
    <1>1. RInv
      BY InitRInv
    <1>2. Control /\ Links
      BY Disjoint, EmptySeq DEF Init, Control, Links, InUser, Empty
    <1>3. SqHeld = <<>> /\ Cqes = <<>> /\ ~Called
      <2>1. CqEnts = 0 /\ SqEnts = 0 /\ ~Called
        BY WNat DEF Init, CqEnts, SqEnts, Dist, Called
      <2>2. Ready = <<>>
        BY <2>1 DEF Ready, Window, Passed
      <2>3. Cqes = <<>>
        BY <2>2, EmptySeq DEF Init, Cqes
      <2>4. QED
        BY <2>1, <2>3 DEF SqHeld
    <1>4. RingsApart /\ InRings = {}
      BY <1>3, EmptyFacts DEF Init, Empty, RingsApart, InRings, Apart, Held
    <1>5. Waits
      BY <1>3, <1>4, EmptyFacts, EmptySeq DEF Init, Waits, Placed
    <1>6. QED
      BY <1>1, <1>2, <1>5 DEF OnceInv

\* Each request handed to the loop is in one place of it.
THEOREM OnceInvariant ==
    ASSUME ~Interrupts, ~Bursty
    PROVE  Spec => []OnceInv
    <1>1. OnceInv /\ [Next]_vars => OnceInv'
      BY NextRInv, NextControl, NextLinks, NextWaits DEF OnceInv
    <1>2. QED
      BY <1>1, InitOnceInv, PTL DEF Spec

----------------------------------------------------------------------------
(* Exactly once *)

LEMMA CountOne ==
    ASSUME NEW s, NEW r, \A i, j \in DOMAIN s : s[i] = r /\ s[j] = r => i = j
    PROVE  Count(s, r) = IF r \in Range(s) THEN 1 ELSE 0
    <1> DEFINE at == {k \in DOMAIN s : s[k] = r}
    <1>1. CASE r \in Range(s)
      <2>1. PICK k \in DOMAIN s : s[k] = r
        BY <1>1 DEF Range
      <2>2. at = {k}
        BY <2>1
      <2>3. Cardinality({k}) = 1
        BY FS_Singleton
      <2>4. QED
        BY <1>1, <2>2, <2>3 DEF Count
    <1>2. CASE r \notin Range(s)
      <2>1. at = {}
        BY <1>2 DEF Range
      <2>2. QED
        BY <1>2, <2>1, FS_EmptySet DEF Count
    <1>3. QED
      BY <1>1, <1>2

LEMMA CountDistinct ==
    ASSUME NEW X, NEW s \in Seq(X), Distinct(s), NEW r
    PROVE  Count(s, r) = IF r \in Range(s) THEN 1 ELSE 0
    <1>1. DOMAIN s = 1 .. Len(s)
      BY LenProperties
    <1>2. QED
      BY <1>1, CountOne DEF Distinct

\* The CQ and its backlog together: a task in Cqes is in one of the two.
LEMMA CountCqes ==
    ASSUME OnceInv, NEW t \in Task
    PROVE  /\ Count(CqHeld, t) \in {0, 1} /\ Count(backlog, t) \in {0, 1}
           /\ Count(CqHeld, t) + Count(backlog, t) = IF t \in Range(Cqes) THEN 1 ELSE 0
    <1>1. /\ Passed \in {0, 1} /\ CqEnts \in Nat /\ CqEnts - Passed \in Nat
          /\ Ready \in Seq(Req) /\ Len(Ready) = CqEnts - Passed
          /\ \A k \in 1 .. CqEnts - Passed : Ready[k] = cq[(lcl_chead + Passed + k - 1) % M]
          /\ backlog \in Seq(Req)
      BY ReadyFacts DEF OnceInv
    <1>2. lcl_chead \in Nat
      BY DEF OnceInv, RInv, RingTypes, Counter
    <1>3. /\ Range(Cqes) = Range(Ready) \cup Range(backlog)
          /\ Distinct(Ready) /\ Distinct(backlog) /\ Range(Ready) \cap Range(backlog) = {}
      BY <1>1, ConcatFacts DEF Cqes, OnceInv, Waits, RingsApart, Apart
    <1>4. ASSUME NEW k \in DOMAIN CqHeld, CqHeld[k] = t
          PROVE  k - Passed \in 1 .. Len(Ready) /\ Ready[k - Passed] = t /\ k \in Nat
      <2>1. k \in 1 .. CqEnts /\ cq[(lcl_chead + k - 1) % M] = t
        BY <1>4 DEF CqHeld
      <2>2. k > Passed
        <3>1. CASE Called /\ k = 1
          <4>1. lcl_chead + k - 1 = lcl_chead
            BY <3>1, <1>2
          <4>2. cq[lcl_chead % M] = Stale /\ Stale # t
            BY <3>1, Disjoint DEF OnceInv, Waits
          <4>3. QED
            BY <2>1, <4>1, <4>2
        <3>2. CASE ~(Called /\ k = 1)
          BY <3>2, <2>1, <1>1 DEF Passed
        <3>3. QED
          BY <3>1, <3>2
      <2>3. k - Passed \in 1 .. CqEnts - Passed
            /\ lcl_chead + Passed + (k - Passed) - 1 = lcl_chead + k - 1
        BY <2>1, <2>2, <1>1, <1>2
      <2>4. QED
        BY <2>1, <2>3, <1>1
    <1>5. ASSUME NEW i \in DOMAIN CqHeld, NEW j \in DOMAIN CqHeld, CqHeld[i] = t, CqHeld[j] = t
          PROVE  i = j
      <2>1. /\ i - Passed \in 1 .. Len(Ready) /\ Ready[i - Passed] = t /\ i \in Nat
            /\ j - Passed \in 1 .. Len(Ready) /\ Ready[j - Passed] = t /\ j \in Nat
        BY <1>4, <1>5
      <2>2. i - Passed = j - Passed
        BY <2>1, <1>3 DEF Distinct
      <2>3. QED
        BY <2>1, <2>2, <1>1
    <1>6. Count(CqHeld, t) = IF t \in Range(CqHeld) THEN 1 ELSE 0
      BY <1>5, CountOne
    <1>7. t \in Range(CqHeld) <=> t \in Range(Ready)
      <2>1. ASSUME t \in Range(CqHeld) PROVE t \in Range(Ready)
        <3>1. PICK k \in DOMAIN CqHeld : CqHeld[k] = t
          BY <2>1 DEF Range
        <3>2. k - Passed \in 1 .. Len(Ready) /\ Ready[k - Passed] = t
          BY <3>1, <1>4
        <3>3. QED
          BY <3>2, <1>1, RangeFacts
      <2>2. ASSUME t \in Range(Ready) PROVE t \in Range(CqHeld)
        <3>1. PICK k \in 1 .. CqEnts - Passed : Ready[k] = t
          BY <2>2, <1>1, RangeFacts
        <3>2. Passed + k \in 1 .. CqEnts /\ lcl_chead + (Passed + k) - 1 = lcl_chead + Passed + k - 1
          BY <1>1, <1>2
        <3>3. CqHeld[Passed + k] = t /\ Passed + k \in DOMAIN CqHeld
          BY <3>1, <3>2, <1>1 DEF CqHeld
        <3>4. QED
          BY <3>3 DEF Range
      <2>3. QED
        BY <2>1, <2>2
    <1>8. Count(backlog, t) = IF t \in Range(backlog) THEN 1 ELSE 0
      BY <1>1, <1>3, CountDistinct
    <1>9. QED
      BY <1>3, <1>6, <1>7, <1>8

LEMMA CountKernel ==
    ASSUME OnceInv, NEW t
    PROVE  Cardinality({c \in kernel : t \in Range(c)})
               = IF t \in UNION {Range(c) : c \in kernel} THEN 1 ELSE 0
    <1>1. \A c, d \in kernel : t \in Range(c) /\ t \in Range(d) => c = d
      BY DEF OnceInv, Waits, RingsApart, Apart
    <1>2. CASE \E c \in kernel : t \in Range(c)
      <2>1. PICK c \in kernel : t \in Range(c)
        BY <1>2
      <2>2. {d \in kernel : t \in Range(d)} = {c}
        BY <1>1, <2>1
      <2>3. Cardinality({c}) = 1
        BY FS_Singleton
      <2>4. QED
        BY <2>1, <2>2, <2>3
    <1>3. CASE ~\E c \in kernel : t \in Range(c)
      <2>1. {d \in kernel : t \in Range(d)} = {}
        BY <1>3
      <2>2. QED
        BY <1>3, <2>1, FS_EmptySet
    <1>4. QED
      BY <1>2, <1>3

LEMMA OncePlace ==
    ASSUME OnceInv
    PROVE  ExactlyOnce
    <1> SUFFICES ASSUME NEW t \in Task PROVE Places(t) = IF t \in pend \ cancelled THEN 1 ELSE 0
      BY DEF ExactlyOnce
    <1>1. /\ SqHeld \in Seq(Req) /\ sqofq.items \in Seq(Req)
          /\ soonque \in Seq(Task) /\ prepque \in Seq(Task)
          /\ Distinct(SqHeld) /\ Distinct(sqofq.items) /\ Distinct(soonque) /\ Distinct(prepque)
      BY HeldTypes DEF OnceInv, Waits, Placed, RingsApart, Apart
    <1> DEFINE One(S) == IF t \in S THEN 1 ELSE 0
               K == UNION {Range(c) : c \in kernel}
    <1>2. Count(SqHeld, t) = One(Range(SqHeld)) /\ Count(sqofq.items, t) = One(Range(sqofq.items))
      BY <1>1, CountDistinct
    <1>3. Count(soonque, t) = One(Range(soonque)) /\ Count(prepque, t) = One(Range(prepque))
      BY <1>1, CountDistinct
    <1>4. PICK a, b : /\ a = Count(CqHeld, t) /\ b = Count(backlog, t)
                      /\ a \in {0, 1} /\ b \in {0, 1} /\ a + b = One(Range(Cqes))
      BY CountCqes
    <1>5. Cardinality({c \in kernel : t \in Range(c)}) = One(K)
      BY CountKernel
    <1>6. Places(t) = One(Range(SqHeld)) + One(Range(sqofq.items)) + One(K) + a + b
                          + One(Range(soonque)) + One(Range(prepque))
      BY <1>2, <1>3, <1>4, <1>5 DEF Places
    <1>7. /\ Range(SqHeld) \cap Range(sqofq.items) = {} /\ Range(SqHeld) \cap Range(Cqes) = {}
          /\ Range(sqofq.items) \cap Range(Cqes) = {}
          /\ K \cap (Range(SqHeld) \cup Range(sqofq.items) \cup Range(Cqes)) = {}
      BY DEF OnceInv, Waits, RingsApart, Apart
    <1>8. InRings = Range(SqHeld) \cup Range(sqofq.items) \cup Range(Cqes) \cup K
      BY DEF InRings, Held
    <1>9. /\ Range(soonque) \cap Range(prepque) = {}
          /\ InRings \cap Range(soonque) = {} /\ InRings \cap Range(prepque) = {}
          /\ t \in pend \ cancelled <=> t \in InRings \/ t \in Range(soonque) \/ t \in Range(prepque)
      BY DEF OnceInv, Waits, Placed
    <1> HIDE DEF K
    <1>10. QED
      BY <1>4, <1>6, <1>7, <1>8, <1>9

\* Through the rings, the overflow queue, the kernel and the queues of tasks,
\* across wrap-around and callbacks that submit again: a task handed to the
\* loop is in exactly one place until it is called, for rings of every size,
\* as long as no signal ends the wait and callers are not bursty.
THEOREM OnePlaceEach ==
    ASSUME ~Interrupts, ~Bursty
    PROVE  Spec => []ExactlyOnce
    <1>1. OnceInv => ExactlyOnce
      BY OncePlace
    <1>2. QED
      BY <1>1, OnceInvariant, PTL

----------------------------------------------------------------------------
(* The promise of Callbacks *)

HeldIsOutstanding == Req \cap Outstanding = InRings

AbsInv == OnceInv /\ HeldIsOutstanding

LEMMA SubmitPromise ==
    ASSUME AbsInv, AbsInv', NEW t \in Task, SubmitTask(t) \/ ESoon(t)
    PROVE  Promise!Submit
    <1>1. /\ InUser /\ t \notin pend /\ UNCHANGED <<pc, ret, todo, cancelled>>
      BY DEF SubmitTask, ESoon, control
    <1>2. /\ Task \cap Outstanding = Task \cap InRings /\ Task \cap Outstanding' = Task \cap InRings'
      BY Disjoint DEF AbsInv, HeldIsOutstanding
    <1>3. t \in Promise!Free
      <2>1. Placed(InRings, soonque, prepque, pend \ cancelled) /\ cancelled \subseteq pend
        BY DEF AbsInv, OnceInv, Waits
      <2>2. t \notin InRings /\ t \notin Range(soonque) /\ t \notin Range(prepque) /\ t \notin cancelled
        BY <1>1, <2>1 DEF Placed
      <2>3. t \notin Task \cap Outstanding
        BY <1>2, <2>2
      <2>4. QED
        BY <2>2, <2>3 DEF Promise!Free, Promise!Range, Range
    <1>4. \/ Task \cap Outstanding' = (Task \cap Outstanding) \cup {t} /\ UNCHANGED <<soonque, prepque>>
          \/ soonque' = Append(soonque, t) /\ Task \cap Outstanding' = Task \cap Outstanding /\ UNCHANGED prepque
          \/ prepque' = Append(prepque, t) /\ Task \cap Outstanding' = Task \cap Outstanding /\ UNCHANGED soonque
      <2>1. CASE SubmitTask(t)
        <3>1. InRings' = InRings \cup {t}
          BY <2>1, SubmitTaskWaits DEF AbsInv
        <3>2. QED
          BY <1>2, <2>1, <3>1 DEF SubmitTask
      <2>2. CASE ESoon(t)
        <3>1. InRings' = InRings
          BY <2>2, ESoonWaits DEF AbsInv
        <3>2. QED
          BY <1>2, <2>2, <3>1 DEF ESoon
      <2>3. QED
        BY <2>1, <2>2
    <1>5. QED
      BY <1>1, <1>3, <1>4 DEF Promise!Submit, InUser

\* What does not show: the held tasks, the queues and where the caller is stay.
LEMMA HiddenPromise ==
    ASSUME AbsInv, AbsInv', Task \cap InRings' = Task \cap InRings,
           UNCHANGED <<soonque, prepque, cancelled>>,
           (IF pc' \in {"app", "cb"} THEN pc' ELSE "loop") = IF pc \in {"app", "cb"} THEN pc ELSE "loop",
           (IF "prep" \in {pc', ret'} THEN todo' ELSE 0) = IF "prep" \in {pc, ret} THEN todo ELSE 0
    PROVE  UNCHANGED Promise!cbVars
    <1>1. /\ Task \cap Outstanding = Task \cap InRings /\ Task \cap Outstanding' = Task \cap InRings'
      BY Disjoint DEF AbsInv, HeldIsOutstanding
    <1>2. QED
      BY <1>1 DEF Promise!cbVars

\* lrun1 returns, or a callback does.
LEMMA ReturnPromise ==
    ASSUME AbsInv, AbsInv', Task \cap InRings' = Task \cap InRings,
           UNCHANGED <<soonque, prepque, cancelled>>,
           \/ pc = "cb" /\ pc' \notin {"app", "cb"}
           \/ pc # "app" /\ "prep" \notin {pc, ret} /\ pc' = "app",
           (IF "prep" \in {pc', ret'} THEN todo' ELSE 0) = IF "prep" \in {pc, ret} THEN todo ELSE 0
    PROVE  Promise!Return
    <1>1. /\ Task \cap Outstanding = Task \cap InRings /\ Task \cap Outstanding' = Task \cap InRings'
      BY Disjoint DEF AbsInv, HeldIsOutstanding
    <1>2. QED
      BY <1>1 DEF Promise!Return

LEMMA LRun1Promise ==
    ASSUME AbsInv, AbsInv', LRun1
    PROVE  Promise!EnterLoop
    <1>1. /\ Task \cap Outstanding = Task \cap InRings /\ Task \cap Outstanding' = Task \cap InRings'
      BY Disjoint DEF AbsInv, HeldIsOutstanding
    <1>2. InRings' = InRings
      BY MovesWaits DEF AbsInv, OnceInv
    <1>3. QED
      BY <1>1, <1>2 DEF LRun1, Promise!EnterLoop, queues

LEMMA RunPrepPromise ==
    ASSUME AbsInv, AbsInv', RunPrep
    PROVE  Promise!CallNext
    <1>1. /\ Task \cap Outstanding = Task \cap InRings /\ Task \cap Outstanding' = Task \cap InRings'
      BY Disjoint DEF AbsInv, HeldIsOutstanding
    <1>2. InRings' = InRings
      BY ExeqWaits DEF AbsInv
    <1>3. QED
      BY <1>1, <1>2 DEF RunPrep, Promise!CallNext, Remaining

LEMMA CallPromise ==
    ASSUME AbsInv, AbsInv', RunSoon \/ Dispatch
    PROVE  Promise!CallOther
    <1>1. /\ Task \cap Outstanding = Task \cap InRings /\ Task \cap Outstanding' = Task \cap InRings'
      BY Disjoint DEF AbsInv, HeldIsOutstanding
    <1>2. pc # "cb" => ret = "app"
      BY DEF AbsInv, OnceInv, Control
    <1>3. CASE RunSoon
      <2>1. InRings' = InRings
        BY <1>3, ExeqWaits DEF AbsInv
      <2>2. soonque # <<>>
        BY <1>3, TodoQueued DEF RunSoon, AbsInv
      <2>3. QED
        BY <1>1, <1>2, <1>3, <2>1, <2>2 DEF RunSoon, Promise!CallOther
    <1>4. CASE Dispatch
      <2>1. PICK t \in Task \cap InRings : InRings' = InRings \ {t}
        BY <1>4, DispatchWaits DEF AbsInv, OnceInv
      <2>2. t \in Task \cap Outstanding /\ Task \cap Outstanding' = (Task \cap Outstanding) \ {t}
        BY <1>1, <2>1
      <2>3. QED
        BY <1>2, <1>4, <2>2 DEF Dispatch, Promise!CallOther, queues
    <1>5. QED
      BY <1>3, <1>4

LEMMA FailsPromise ==
    ASSUME AbsInv, AbsInv', NEW c \in kernel, Fails(c)
    PROVE  Promise!Drop \/ UNCHANGED Promise!cbVars
    <1>1. /\ Task \cap Outstanding = Task \cap InRings /\ Task \cap Outstanding' = Task \cap InRings'
      BY Disjoint DEF AbsInv, HeldIsOutstanding
    <1>2. UNCHANGED <<soonque, prepque, pc, ret, todo>>
      BY DEF Fails, queues, control
    <1>3. CASE InRings' = InRings /\ cancelled' = cancelled
      BY <1>2, <1>3, HiddenPromise
    <1>4. CASE \E S \in SUBSET (Task \cap InRings) :
                  Task \cap InRings' = (Task \cap InRings) \ S /\ cancelled' = cancelled \cup S
      BY <1>1, <1>2, <1>4 DEF Promise!Drop
    <1>5. QED
      BY <1>3, <1>4, FailsWaits DEF AbsInv

LEMMA StepPromise ==
    ASSUME AbsInv, AbsInv', [Next]_vars
    PROVE  [Promise!CbNext]_Promise!cbVars
    <1> USE DEF Promise!CbNext
    <1>1. RInv' /\ OnceInv /\ OnceInv' /\ (pc # "cb" => ret = "app")
      BY DEF AbsInv, OnceInv, Control
    <1>2. ASSUME NEW t \in Task, SubmitTask(t) \/ ESoon(t) PROVE Promise!CbNext
      BY <1>2, SubmitPromise
    <1>3. ASSUME NEW l \in Link, SubmitLink(l) PROVE UNCHANGED Promise!cbVars
      <2>1. Task \cap InRings' = Task \cap InRings
        BY <1>1, <1>3, SubmitLinkWaits, Disjoint
      <2>2. UNCHANGED <<soonque, prepque, cancelled, pc, ret, todo>>
        BY <1>3 DEF SubmitLink, control
      <2>3. QED
        BY <2>1, <2>2, HiddenPromise
    <1>4. ASSUME UNCHANGED vars \/ \E t \in Task : ETimeFails(t) PROVE UNCHANGED Promise!cbVars
      <2>1. InRings' = InRings
        BY <1>1, <1>4, MovesWaits
      <2>2. UNCHANGED <<soonque, prepque, cancelled, pc, ret, todo>>
        BY <1>4 DEF vars, ETimeFails, queues, control, history
      <2>3. QED
        BY <2>1, <2>2, HiddenPromise
    <1>5. CASE LRun1 \/ RunPrep \/ RunSoon \/ Dispatch
      BY <1>5, LRun1Promise, RunPrepPromise, CallPromise
    <1>6. CASE ExeqDone
      <2>1. InRings' = InRings
        BY <1>1, <1>6, MovesWaits
      <2>2. /\ UNCHANGED <<soonque, prepque, cancelled>>
            /\ pc' \in {"soon", "enter", "cq"} /\ pc \in {"prep", "soon", "cqsoon"}
            /\ todo = 0 /\ ret = "app" /\ ret' = "app"
        BY <1>1, <1>6 DEF ExeqDone, queues, history
      <2>3. UNCHANGED Promise!cbVars
        BY <2>1, <2>2, HiddenPromise
      <2>4. QED
        BY <2>3
    <1>7. CASE \/ Enter \/ EnterError \/ \E k \in 1 .. SqEnts : EnterRejects(k)
      <2>1. InRings' = InRings
        BY <1>1, <1>7, EnterWaits
      <2>2. /\ UNCHANGED <<soonque, prepque, cancelled>>
            /\ pc = "enter" /\ pc' \in {"app", "wait"} /\ ret = "app" /\ ret' = "app"
        BY <1>1, <1>7 DEF Enter, EnterError, EnterRejects, queues
      <2>3. pc' = "app" => Promise!Return
        BY <2>1, <2>2, ReturnPromise
      <2>4. pc' = "wait" => UNCHANGED Promise!cbVars
        BY <2>1, <2>2, HiddenPromise
      <2>5. QED
        BY <2>2, <2>3, <2>4
    <1>8. CASE Wake
      <2>1. InRings' = InRings /\ pc' = "cq"
        BY <1>1, <1>8, WakeWaits
      <2>2. /\ UNCHANGED <<soonque, prepque, cancelled>>
            /\ pc = "wait" /\ ret = "app" /\ ret' = "app"
        BY <1>1, <1>8 DEF Wake, AfterWait, history
      <2>3. UNCHANGED Promise!cbVars
        BY <2>1, <2>2, HiddenPromise
      <2>4. QED
        BY <2>3
    <1>9. CASE SkipNull
      <2>1. Task \cap InRings' = Task \cap InRings
        BY <1>1, <1>9, SkipNullWaits
      <2>2. /\ UNCHANGED <<soonque, prepque, cancelled>>
            /\ pc = "cq" /\ pc' \in {"app", "cqsoon"} /\ ret = "app" /\ ret' = "app"
        BY <1>1, <1>9 DEF SkipNull, NextCqe, queues, history
      <2>3. pc' = "app" => Promise!Return
        BY <2>1, <2>2, ReturnPromise
      <2>4. pc' = "cqsoon" => UNCHANGED Promise!cbVars
        BY <2>1, <2>2, HiddenPromise
      <2>5. QED
        BY <2>2, <2>3, <2>4
    <1>10. CASE CbReturn
      <2>1. InRings' = InRings
        BY <1>1, <1>10, MovesWaits
      <2>2. /\ UNCHANGED <<soonque, prepque, cancelled>> /\ pc = "cb" /\ ret' = "app"
        BY <1>10 DEF CbReturn, NextCqe, queues, history
      <2>3. ret \in {"prep", "soon", "cq", "cqsoon"}
        BY <1>1, <2>2 DEF OnceInv, RInv, RingTypes, Control
      <2>4. CASE ret = "cq"
        <3>1. pc' \in {"app", "cqsoon"}
          BY <1>10, <2>4 DEF CbReturn, NextCqe
        <3>2. Promise!Return
          BY <2>1, <2>2, <2>4, <3>1, ReturnPromise
        <3>3. QED
          BY <3>2
      <2>5. CASE ret # "cq"
        <3>1. pc' = ret /\ todo' = todo
          BY <1>10, <2>5 DEF CbReturn
        <3>2. Promise!Return
          BY <2>1, <2>2, <2>3, <2>5, <3>1, ReturnPromise
        <3>3. QED
          BY <3>2
      <2>6. QED
        BY <2>4, <2>5
    <1>11. ASSUME NEW c \in kernel, Succeeds(c) PROVE UNCHANGED Promise!cbVars
      <2>1. Task \cap InRings' = Task \cap InRings
        BY <1>1, <1>11, SucceedsWaits
      <2>2. UNCHANGED <<soonque, prepque, cancelled, pc, ret, todo>>
        BY <1>11 DEF Succeeds, queues, control
      <2>3. QED
        BY <2>1, <2>2, HiddenPromise
    <1>12. ASSUME NEW c \in kernel, Fails(c) PROVE Promise!Drop \/ UNCHANGED Promise!cbVars
      BY <1>12, FailsPromise
    <1>13. QED
      BY <1>2, <1>3, <1>4, <1>5, <1>6, <1>7, <1>8, <1>9, <1>10, <1>11, <1>12 DEF Next, LoopStep

LEMMA InitPromise ==
    ASSUME Init, AbsInv
    PROVE  Promise!CbInit
    <1>1. Task \cap Outstanding = Task \cap InRings
      BY Disjoint DEF AbsInv, HeldIsOutstanding
    <1>2. Task \cap InRings = {}
      BY DEF Init, AbsInv, OnceInv, Waits, Placed
    <1>3. QED
      BY <1>1, <1>2 DEF Init, Promise!CbInit

\* The loop calls a task only while it waits, soon tasks in order and the NEXT
\* tasks queued before lrun1 ahead of anything else, for rings of every size,
\* as long as no signal ends the wait and callers are not bursty.
THEOREM LoopKeepsPromise ==
    ASSUME ~Interrupts, ~Bursty
    PROVE  Spec => ImplementsCallbacks
    <1>1. OnceInv => HeldIsOutstanding
      BY OutstandingHeld DEF HeldIsOutstanding
    <1>2. Spec => []AbsInv
      BY <1>1, OnceInvariant, PTL DEF AbsInv
    <1>3. Init /\ AbsInv => Promise!CbInit
      BY InitPromise
    <1>4. AbsInv /\ AbsInv' /\ [Next]_vars => [Promise!CbNext]_Promise!cbVars
      BY StepPromise
    <1>5. QED
      BY <1>2, <1>3, <1>4, PTL DEF Spec, ImplementsCallbacks, Promise!CbSpec

----------------------------------------------------------------------------
(* The wrappers of etime *)

\* (The sets are finite because they start empty and grow by one.)
WrapInv ==
    /\ IsFiniteSet(Timer \cap InRings) /\ IsFiniteSet(cancelled \cap Timer)
    /\ leaked \in Nat
    /\ wraps = leaked + Cardinality(Timer \cap InRings) + Cardinality(cancelled \cap Timer)

LEMMA WrapKept ==
    ASSUME WrapInv, Task \cap InRings' = Task \cap InRings, UNCHANGED <<wraps, leaked, cancelled>>
    PROVE  WrapInv'
    <1>1. Timer \cap InRings' = Timer \cap InRings
      BY LoopAssumption
    <1>2. QED
      BY <1>1 DEF WrapInv

LEMMA SubmitWraps ==
    ASSUME OnceInv, WrapInv, NEW t \in Task, SubmitTask(t)
    PROVE  WrapInv'
    <1>1. InRings' = InRings \cup {t}
      BY SubmitTaskWaits
    <1>2. t \notin InRings
      BY PlacedRings DEF OnceInv, Waits, SubmitTask
    <1>3. UNCHANGED <<leaked, cancelled>> /\ wraps' = IF t \in Timer THEN wraps + 1 ELSE wraps
      BY DEF SubmitTask
    <1>4. CASE t \in Timer
      <2> DEFINE S == Timer \cap InRings
      <2>1. Timer \cap InRings' = S \cup {t} /\ t \notin S
        BY <1>1, <1>2, <1>4
      <2>2. /\ IsFiniteSet(S \cup {t}) /\ Cardinality(S \cup {t}) = Cardinality(S) + 1
            /\ Cardinality(S) \in Nat /\ Cardinality(cancelled \cap Timer) \in Nat
        BY <2>1, FS_AddElement, FS_CardinalityType DEF WrapInv
      <2> HIDE DEF S
      <2>3. IsFiniteSet(Timer \cap InRings') /\ Cardinality(Timer \cap InRings') = Cardinality(S) + 1
        BY <2>1, <2>2
      <2>4. wraps = leaked + Cardinality(S) + Cardinality(cancelled \cap Timer) /\ leaked \in Nat
        BY DEF WrapInv, S
      <2>5. QED
        BY <1>3, <1>4, <2>2, <2>3, <2>4 DEF WrapInv
    <1>5. CASE t \notin Timer
      <2>1. Timer \cap InRings' = Timer \cap InRings
        BY <1>1, <1>5
      <2>2. QED
        BY <1>3, <1>5, <2>1 DEF WrapInv
    <1>6. QED
      BY <1>4, <1>5

LEMMA DispatchWraps ==
    ASSUME OnceInv, RInv', WrapInv, Dispatch
    PROVE  WrapInv'
    <1>1. PICK t : /\ t = cq[lcl_chead % M] /\ t \in Task /\ t \in InRings
                   /\ InRings' = InRings \ {t}
      BY DispatchWaits
    <1>2. UNCHANGED <<leaked, cancelled>> /\ wraps' = IF t \in Timer THEN wraps - 1 ELSE wraps
      BY <1>1 DEF Dispatch, WrapsAfterCall
    <1>3. CASE t \in Timer
      <2> DEFINE S == Timer \cap InRings
      <2>1. Timer \cap InRings' = S \ {t} /\ t \in S
        BY <1>1, <1>3
      <2>2. /\ IsFiniteSet(S \ {t}) /\ Cardinality(S \ {t}) = Cardinality(S) - 1
            /\ Cardinality(S) \in Nat /\ Cardinality(cancelled \cap Timer) \in Nat
        BY <2>1, FS_RemoveElement, FS_CardinalityType DEF WrapInv
      <2> HIDE DEF S
      <2>3. IsFiniteSet(Timer \cap InRings') /\ Cardinality(Timer \cap InRings') = Cardinality(S) - 1
        BY <2>1, <2>2
      <2>4. wraps = leaked + Cardinality(S) + Cardinality(cancelled \cap Timer) /\ leaked \in Nat
        BY DEF WrapInv, S
      <2>5. QED
        BY <1>2, <1>3, <2>2, <2>3, <2>4 DEF WrapInv
    <1>4. CASE t \notin Timer
      <2>1. Timer \cap InRings' = Timer \cap InRings
        BY <1>1, <1>4
      <2>2. QED
        BY <1>2, <1>4, <2>1 DEF WrapInv
    <1>5. QED
      BY <1>3, <1>4

LEMMA FailsWraps ==
    ASSUME OnceInv, WrapInv, NEW c \in kernel, Fails(c)
    PROVE  WrapInv'
    <1>1. UNCHANGED <<wraps, leaked>>
      BY DEF Fails, memory
    <1>2. CASE InRings' = InRings /\ cancelled' = cancelled
      BY <1>1, <1>2, WrapKept
    <1>3. CASE \E S \in SUBSET (Task \cap InRings) :
                  Task \cap InRings' = (Task \cap InRings) \ S /\ cancelled' = cancelled \cup S
      <2>1. PICK S : /\ S \subseteq Task \cap InRings
                     /\ Task \cap InRings' = (Task \cap InRings) \ S /\ cancelled' = cancelled \cup S
        BY <1>3
      <2>2. S \cap cancelled = {}
        BY <2>1, PlacedRings DEF OnceInv, Waits
      <2> DEFINE R == Timer \cap InRings
                 K == cancelled \cap Timer
                 D == S \cap Timer
      <2>3. /\ Timer \cap InRings' = R \ D /\ cancelled' \cap Timer = K \cup D
            /\ D \subseteq R /\ K \cap D = {} /\ R \cap D = D
        BY <2>1, <2>2, LoopAssumption
      <2>4. /\ IsFiniteSet(R) /\ IsFiniteSet(K) /\ leaked \in Nat
            /\ wraps = leaked + Cardinality(R) + Cardinality(K)
        BY DEF WrapInv
      <2> HIDE DEF R, K, D
      <2>5. IsFiniteSet(D)
        BY <2>3, <2>4, FS_Subset
      <2>6. /\ IsFiniteSet(R \ D) /\ Cardinality(R \ D) = Cardinality(R) - Cardinality(R \cap D)
        BY <2>4, FS_Difference
      <2>7. /\ IsFiniteSet(K \cup D)
            /\ Cardinality(K \cup D) = Cardinality(K) + Cardinality(D) - Cardinality(K \cap D)
        BY <2>4, <2>5, FS_Union
      <2>8. /\ Cardinality(R) \in Nat /\ Cardinality(K) \in Nat /\ Cardinality(D) \in Nat
            /\ Cardinality(K \cap D) = 0
        BY <2>3, <2>4, <2>5, FS_CardinalityType, FS_EmptySet
      <2>9. Cardinality(R \ D) + Cardinality(K \cup D) = Cardinality(R) + Cardinality(K)
        <3>1. PICK r \in Nat, k \in Nat, d \in Nat :
                  r = Cardinality(R) /\ k = Cardinality(K) /\ d = Cardinality(D)
          BY <2>8
        <3>2. Cardinality(R \ D) = r - d
          BY <2>3, <2>6, <3>1
        <3>3. Cardinality(K \cup D) = k + d
          BY <2>7, <2>8, <3>1
        <3>4. QED
          BY <3>1, <3>2, <3>3
      <2>10. Cardinality(R \ D) \in Nat /\ Cardinality(K \cup D) \in Nat
        BY <2>6, <2>7, FS_CardinalityType
      <2>11. wraps = leaked + Cardinality(R \ D) + Cardinality(K \cup D)
        BY <2>4, <2>8, <2>9, <2>10
      <2>12. QED
        BY <1>1, <2>3, <2>4, <2>6, <2>7, <2>11 DEF WrapInv
    <1>4. QED
      BY <1>2, <1>3, FailsWaits

LEMMA NextWraps ==
    ASSUME OnceInv, OnceInv', WrapInv, [Next]_vars
    PROVE  WrapInv'
    <1>1. RInv'
      BY DEF OnceInv
    <1>2. ASSUME NEW t \in Task, ETimeFails(t) PROVE WrapInv'
      <2>1. InRings' = InRings
        BY <1>1, <1>2, MovesWaits
      <2>2. wraps' = wraps + 1 /\ leaked' = leaked + 1 /\ UNCHANGED cancelled
        BY <1>2 DEF ETimeFails, history
      <2>3. Cardinality(Timer \cap InRings) \in Nat /\ Cardinality(cancelled \cap Timer) \in Nat
        BY FS_CardinalityType DEF WrapInv
      <2>4. QED
        BY <2>1, <2>2, <2>3 DEF WrapInv
    <1>3. ASSUME NEW t \in Task, ESoon(t) PROVE WrapInv'
      <2>1. InRings' = InRings /\ UNCHANGED <<wraps, leaked, cancelled>>
        BY <1>3, ESoonWaits DEF ESoon, memory
      <2>2. QED
        BY <2>1, WrapKept
    <1>4. ASSUME NEW l \in Link, SubmitLink(l) PROVE WrapInv'
      <2>1. Task \cap InRings' = Task \cap InRings
        BY <1>4, SubmitLinkWaits, Disjoint
      <2>2. UNCHANGED <<wraps, leaked, cancelled>>
        BY <1>4 DEF SubmitLink, memory
      <2>3. QED
        BY <2>1, <2>2, WrapKept
    <1>5. CASE RunPrep \/ RunSoon
      <2>1. InRings' = InRings /\ UNCHANGED <<wraps, leaked, cancelled>>
        BY <1>5, ExeqWaits DEF RunPrep, RunSoon, memory
      <2>2. QED
        BY <2>1, WrapKept
    <1>6. CASE LRun1 \/ ExeqDone \/ CbReturn \/ UNCHANGED vars
      <2>1. InRings' = InRings /\ UNCHANGED <<wraps, leaked, cancelled>>
        BY <1>1, <1>6, MovesWaits DEF LRun1, ExeqDone, CbReturn, vars, memory, history
      <2>2. QED
        BY <2>1, WrapKept
    <1>7. CASE \/ Enter \/ EnterError \/ \E k \in 1 .. SqEnts : EnterRejects(k)
      <2>1. InRings' = InRings /\ UNCHANGED <<wraps, leaked, cancelled>>
        BY <1>7, EnterWaits DEF Enter, EnterError, EnterRejects, memory
      <2>2. QED
        BY <2>1, WrapKept
    <1>8. CASE Wake
      <2>1. InRings' = InRings /\ UNCHANGED <<wraps, leaked, cancelled>>
        BY <1>8, WakeWaits DEF Wake, AfterWait, memory, history
      <2>2. QED
        BY <2>1, WrapKept
    <1>9. CASE SkipNull
      <2>1. Task \cap InRings' = Task \cap InRings /\ UNCHANGED <<wraps, leaked, cancelled>>
        BY <1>1, <1>9, SkipNullWaits DEF SkipNull, memory, history
      <2>2. QED
        BY <2>1, WrapKept
    <1>10. ASSUME NEW c \in kernel, Succeeds(c) PROVE WrapInv'
      <2>1. Task \cap InRings' = Task \cap InRings /\ UNCHANGED <<wraps, leaked, cancelled>>
        BY <1>10, SucceedsWaits DEF Succeeds, memory
      <2>2. QED
        BY <2>1, WrapKept
    <1>11. QED
      BY <1>1, <1>2, <1>3, <1>4, <1>5, <1>6, <1>7, <1>8, <1>9, <1>10,
         SubmitWraps, DispatchWraps, FailsWraps DEF Next, LoopStep

LEMMA InitWraps ==
    ASSUME Init, OnceInv
    PROVE  WrapInv
    <1>1. Task \cap InRings = {}
      BY DEF Init, OnceInv, Waits, Placed
    <1>2. Timer \cap InRings = {} /\ cancelled \cap Timer = {}
      BY <1>1, LoopAssumption DEF Init
    <1>3. IsFiniteSet({}) /\ Cardinality({}) = 0
      BY FS_EmptySet
    <1>4. wraps = 0 /\ leaked = 0
      BY DEF Init
    <1>5. QED
      BY <1>2, <1>3, <1>4 DEF WrapInv

\* A timer's wrapper lives exactly as long as its request is in the ring,
\* for rings of every size and whatever fails or is cancelled, as long as no
\* signal ends the wait and callers are not bursty.
THEOREM WrappersAreOwned ==
    ASSUME ~Interrupts, ~Bursty
    PROVE  Spec => []WrappersOwned
    <1>1. OnceInv /\ OnceInv' /\ WrapInv /\ [Next]_vars => WrapInv'
      BY NextWraps
    <1>2. Init /\ OnceInv => WrapInv
      BY InitWraps
    <1>3. OnceInv /\ WrapInv => WrappersOwned
      <2> SUFFICES ASSUME OnceInv, WrapInv PROVE WrappersOwned
        OBVIOUS
      <2>1. Req \cap Outstanding = InRings
        BY OutstandingHeld
      <2>2. {t \in Timer : t \in Outstanding} = Timer \cap InRings
        BY <2>1, Disjoint, LoopAssumption
      <2>3. QED
        BY <2>2 DEF WrapInv, WrappersOwned
    <1>4. QED
      BY <1>1, <1>2, <1>3, OnceInvariant, PTL DEF Spec

----------------------------------------------------------------------------
(* Types *)

\* What TypeOK says beyond the invariants above.
Rest ==
    /\ sqofq.off \in 0 .. C - 1
    /\ leaked \in 0 .. MaxLeak
    /\ pred \in [Req -> Link \cup {NoLink}]
    /\ submitted \in BOOLEAN

LEMMA NextRest ==
    ASSUME OnceInv, Rest, [Next]_vars
    PROVE  Rest'
    <1>1. /\ sqofq \in [items : Seq(Req), off : Nat] /\ open \in Link \cup {NoLink}
          /\ open # NoLink => pc \in {"app", "cb"}
          /\ NoLink \notin Link /\ Interrupts \in BOOLEAN
      BY Disjoint, LoopAssumption DEF OnceInv, RInv, RingTypes, Links, InUser
    <1>2. ASSUME NEW r \in Req, SubmitToSq(r) PROVE sqofq'.off = sqofq.off
      BY <1>1, <1>2 DEF SubmitToSq, Put
    <1>3. CASE \/ \E t \in Task : SubmitTask(t)
               \/ \E l \in Link : SubmitLink(l)
      <2>1. sqofq'.off = sqofq.off
        BY <1>2, <1>3, Disjoint DEF SubmitTask, SubmitLink
      <2>2. leaked' = leaked /\ submitted' = submitted
        BY <1>3 DEF SubmitTask, SubmitLink, memory
      <2>3. pred' \in [Req -> Link \cup {NoLink}]
        BY <1>1, <1>3, Disjoint DEF SubmitTask, SubmitLink, Rest
      <2>4. QED
        BY <2>1, <2>2, <2>3 DEF Rest
    <1>4. CASE \E t \in Task : ETimeFails(t)
      <2>1. sqofq' = sqofq /\ pred' = pred /\ submitted' = submitted
        BY <1>4 DEF ETimeFails, queues, history
      <2>2. leaked' \in 0 .. MaxLeak
        <3>1. leaked' = leaked + 1 /\ leaked < MaxLeak
          BY <1>4 DEF ETimeFails
        <3>2. QED
          BY <3>1, LoopAssumption DEF Rest
      <2>3. QED
        BY <2>1, <2>2 DEF Rest
    <1>5. CASE Wake
      <2>1. leaked' = leaked /\ pred' = pred /\ submitted' = submitted
        BY <1>5 DEF Wake, AfterWait, memory, history
      <2>2. sqofq'.off \in 0 .. C - 1
        <3>1. CASE sqofq' = sqofq
          BY <3>1 DEF Rest
        <3>2. CASE pc = "wait" /\ sqofq.items # <<>> /\ SafePop(sqofq.items) # 0 /\ Flush
          <4>1. PICK n \in 1 .. Len(sqofq.items) : sqofq' = TakeBlock(sqofq, n)
            BY <3>2, FlushMoves DEF OnceInv
          <4>2. QED
            BY <4>1, <1>1, TakeBlockFacts
        <3>3. QED
          BY <1>5, <3>1, <3>2, Zenon DEF Wake, AfterWait
      <2>3. QED
        BY <2>1, <2>2 DEF Rest
    <1>6. CASE \/ Enter \/ EnterError \/ \E k \in 1 .. SqEnts : EnterRejects(k)
      <2>1. sqofq' = sqofq /\ leaked' = leaked /\ submitted' \in BOOLEAN
        BY <1>1, <1>6 DEF Enter, EnterError, EnterRejects, queues, memory
      <2>2. pred' \in [Req -> Link \cup {NoLink}]
        BY <1>6 DEF Enter, EnterError, EnterRejects, Rest
      <2>3. QED
        BY <2>1, <2>2 DEF Rest
    <1>7. CASE \E c \in kernel : Succeeds(c) \/ Fails(c)
      <2>1. sqofq' = sqofq /\ leaked' = leaked /\ submitted' = submitted
        BY <1>7 DEF Succeeds, Fails, queues, memory
      <2>2. pred' \in [Req -> Link \cup {NoLink}]
        BY <1>7 DEF Succeeds, Fails, Unlinked, Rest
      <2>3. QED
        BY <2>1, <2>2 DEF Rest
    <1>8. CASE UNCHANGED <<sqofq, leaked, pred, submitted>>
      BY <1>8 DEF Rest
    <1>9. ASSUME \/ LRun1 \/ RunPrep \/ RunSoon \/ ExeqDone \/ Dispatch \/ SkipNull \/ CbReturn
                 \/ \E t \in Task : ESoon(t)
                 \/ UNCHANGED vars
          PROVE  UNCHANGED <<sqofq, leaked, pred, submitted>>
      BY <1>9 DEF LRun1, RunPrep, RunSoon, ExeqDone, Dispatch, SkipNull, CbReturn, ESoon, vars,
                  queues, memory, history
    <1>10. QED
      BY <1>3, <1>4, <1>5, <1>6, <1>7, <1>8, <1>9 DEF Next, LoopStep

\* Types of the rings, the queues, the kernel and the history, for rings of
\* every size: the ring counters stay within their width, a full block pop
\* keeps the overflow queue's offset within a chunk, and exeq never counts below 0.
THEOREM LoopTypes ==
    ASSUME ~Interrupts, ~Bursty
    PROVE  Spec => []TypeOK
    <1>1. OnceInv /\ Rest /\ [Next]_vars => Rest'
      BY NextRest
    <1>2. Init => Rest
      <2>1. 0 \in 0 .. C - 1 /\ 0 \in 0 .. MaxLeak
        BY LoopAssumption
      <2>2. Empty.off = 0
        BY DEF Empty
      <2>3. QED
        BY <2>1, <2>2 DEF Init, Rest
    <1>3. OnceInv /\ OnceInv' /\ WrapInv /\ [Next]_vars => WrapInv'
      BY NextWraps
    <1>4. Init /\ OnceInv => WrapInv
      BY InitWraps
    <1>5. OnceInv /\ WrapInv /\ Rest => TypeOK
      <2> SUFFICES ASSUME OnceInv, WrapInv, Rest PROVE TypeOK
        OBVIOUS
      <2>1. Cardinality(Timer \cap InRings) \in Nat /\ Cardinality(cancelled \cap Timer) \in Nat
        BY FS_CardinalityType DEF WrapInv
      <2>2. wraps \in Nat /\ leaked \in 0 .. MaxLeak
        BY <2>1 DEF WrapInv, Rest
      <2>3. /\ sq \in [0 .. N - 1 -> Slot] /\ cq \in [0 .. M - 1 -> Slot]
            /\ {sring_head, sring_tail, lcl_stail, cring_head, cring_tail, lcl_chead} \subseteq 0 .. W - 1
            /\ sqofq.items \in Seq(Req)
            /\ ret \in {"app", "prep", "soon", "cq", "cqsoon"}
            /\ \A c \in kernel : c \in Seq(Req) /\ c # <<>>
            /\ backlog \in Seq(Req)
        BY DEF OnceInv, RInv, RingTypes, Counter
      <2>4. /\ pc \in {"app", "prep", "soon", "enter", "wait", "cq", "cqsoon", "cb"}
            /\ todo \in Nat /\ open \in Link \cup {NoLink}
        BY DEF OnceInv, Control, Links
      <2>5. /\ soonque \in Seq(Task) /\ prepque \in Seq(Task)
            /\ pend \subseteq Task /\ cancelled \subseteq pend
        BY DEF OnceInv, Waits, Placed
      <2>6. QED
        BY <2>2, <2>3, <2>4, <2>5 DEF TypeOK, Rest
    <1>6. QED
      BY <1>1, <1>2, <1>3, <1>4, <1>5, OnceInvariant, PTL DEF Spec

----------------------------------------------------------------------------
(* Link chains *)

\* What pred says of the requests of a queue: each waits for the link in
\* front of it, if there is one.
Linked(p, s) ==
    \A i \in 1 .. Len(s) : p[s[i]] = IF i > 1 /\ s[i - 1] \in Link THEN s[i - 1] ELSE NoLink

Ends(s) == s = <<>> \/ s[Len(s)] \notin Link

Preds == [Req -> Link \cup {NoLink}]

LEMMA LinkedEmpty ==
    ASSUME NEW p
    PROVE  Linked(p, <<>>) /\ Ends(<<>>)
    BY EmptyFacts DEF Linked, Ends

LEMMA LinkedOther ==
    ASSUME NEW p \in Preds, NEW s \in Seq(Req), Linked(p, s), NEW r, r \notin Range(s), NEW o
    PROVE  Linked([p EXCEPT ![r] = o], s)
    <1>1. \A i \in 1 .. Len(s) : s[i] \in Req /\ s[i] # r
      BY RangeFacts
    <1>2. \A x \in Req : x # r => [p EXCEPT ![r] = o][x] = p[x]
      BY DEF Preds
    <1>3. QED
      BY <1>1, <1>2 DEF Linked

LEMMA LinkedAppend ==
    ASSUME NEW p \in Preds, NEW s \in Seq(Req), Linked(p, s), NEW r \in Req, r \notin Range(s),
           NEW o, o = IF Ends(s) THEN NoLink ELSE s[Len(s)]
    PROVE  Linked([p EXCEPT ![r] = o], Append(s, r))
    <1>1. PICK q : q = [p EXCEPT ![r] = o]
      OBVIOUS
    <1>2. Linked(q, s) /\ q[r] = o
      BY <1>1, LinkedOther DEF Preds
    <1>3. PICK n \in Nat : n = Len(s)
      BY LenProperties
    <1>4. PICK t : t = Append(s, r) /\ Len(t) = n + 1 /\ t[n + 1] = r /\ \A i \in 1 .. n : t[i] = s[i]
      <2>1. /\ Append(s, r) \in Seq(Req) /\ Len(Append(s, r)) = Len(s) + 1
            /\ Append(s, r)[Len(s) + 1] = r /\ \A i \in 1 .. Len(s) : Append(s, r)[i] = s[i]
        BY AppendProperties
      <2>2. QED
        BY <1>3, <2>1
    <1>5. ASSUME NEW i \in 1 .. n
          PROVE  q[t[i]] = IF i > 1 /\ t[i - 1] \in Link THEN t[i - 1] ELSE NoLink
      <2>1. t[i] = s[i] /\ (i > 1 => t[i - 1] = s[i - 1])
        BY <1>4
      <2>2. QED
        BY <1>2, <1>3, <2>1 DEF Linked
    <1>6. q[t[n + 1]] = IF n + 1 > 1 /\ t[n + 1 - 1] \in Link THEN t[n + 1 - 1] ELSE NoLink
      <2>1. CASE n = 0
        <3>1. s = <<>>
          BY <2>1, <1>3, EmptySeq, ZenonT(60)
        <3>2. QED
          BY <2>1, <3>1, <1>2, <1>4 DEF Ends
      <2>2. CASE n > 0
        <3>1. s # <<>> /\ t[n] = s[n] /\ n + 1 - 1 = n /\ n + 1 > 1
          BY <2>2, <1>3, <1>4, EmptyFacts
        <3>2. QED
          BY <3>1, <1>2, <1>3, <1>4, ZenonT(60) DEF Ends
      <2>3. QED
        BY <2>1, <2>2
    <1>7. \A i \in 1 .. n + 1 : i \in 1 .. n \/ i = n + 1
      BY <1>3
    <1>8. Linked(q, t)
      BY <1>4, <1>5, <1>6, <1>7, SMTT(60) DEF Linked
    <1>9. QED
      BY <1>1, <1>4, <1>8

LEMMA EndsAppend ==
    ASSUME NEW s \in Seq(Req), NEW r \in Req
    PROVE  /\ Append(s, r) # <<>> /\ Append(s, r)[Len(Append(s, r))] = r
           /\ Ends(Append(s, r)) <=> r \notin Link
    BY AppendProperties, EmptySeq DEF Ends

LEMMA LinkedSub ==
    ASSUME NEW p, NEW s \in Seq(Req), Linked(p, s),
           NEW i \in 1 .. Len(s), NEW j \in 1 .. Len(s), i <= j, i = 1 \/ s[i - 1] \notin Link
    PROVE  Linked(p, SubSeq(s, i, j))
    <1>1. PICK n \in Nat : n = Len(s)
      BY LenProperties
    <1>2. PICK c : /\ c = SubSeq(s, i, j) /\ Len(c) = j - i + 1
                   /\ \A k \in 1 .. j - i + 1 : c[k] = s[i + k - 1]
      <2>1. \A k \in i .. j : s[k] \in Req
        BY <1>1, ElementOfSeq
      <2>2. /\ SubSeq(s, i, j) \in Seq(Req) /\ Len(SubSeq(s, i, j)) = IF i <= j THEN j - i + 1 ELSE 0
            /\ \A k \in 1 .. j - i + 1 : SubSeq(s, i, j)[k] = s[i + k - 1]
        BY <2>1, <1>1, SubSeqProperties
      <2>3. QED
        BY <2>2
    <1>3. ASSUME NEW k \in 1 .. j - i + 1
          PROVE  p[c[k]] = IF k > 1 /\ c[k - 1] \in Link THEN c[k - 1] ELSE NoLink
      <2>1. PICK x \in 1 .. n : x = i + k - 1 /\ c[k] = s[x]
        BY <1>1, <1>2
      <2>2. p[s[x]] = IF x > 1 /\ s[x - 1] \in Link THEN s[x - 1] ELSE NoLink
        BY <1>1, <2>1 DEF Linked
      <2>3. CASE k = 1
        <3>1. x = i
          BY <2>1, <2>3, <1>1
        <3>2. QED
          BY <2>1, <2>2, <2>3, <3>1
      <2>4. CASE k > 1
        <3>1. k - 1 \in 1 .. j - i + 1 /\ i + (k - 1) - 1 = x - 1 /\ x > 1
          BY <2>1, <2>4, <1>1
        <3>2. c[k - 1] = s[x - 1]
          BY <3>1, <1>2
        <3>3. QED
          BY <2>1, <2>2, <2>4, <3>1, <3>2
      <2>5. QED
        BY <2>3, <2>4
    <1>4. QED
      BY <1>2, <1>3 DEF Linked

\* The chains the kernel takes from a batch.
LEMMA LinkedChains ==
    ASSUME NEW p, NEW s \in Seq(Req), Linked(p, s), Ends(s), NEW c \in Chains(s)
    PROVE  Linked(p, c) /\ Ends(c)
    <1>1. PICK i \in 1 .. Len(s), j \in 1 .. Len(s) :
              /\ Chain(s, i, j) /\ c = SubSeq(s, i, j)
              /\ c \in Seq(Req) /\ c # <<>> /\ Len(c) = j - i + 1
              /\ \A k \in 1 .. j - i + 1 : c[k] = s[i + k - 1]
      BY ChainBounds
    <1>2. i <= j /\ (i = 1 \/ s[i - 1] \notin Link) /\ (s[j] \notin Link \/ j = Len(s))
      BY <1>1, Disjoint DEF Chain, HasLinkFlag
    <1>3. Linked(p, c)
      BY <1>1, <1>2, LinkedSub
    <1>4. s[j] \notin Link
      <2>1. s # <<>>
        BY EmptyFacts
      <2>2. QED
        BY <2>1, <1>2 DEF Ends
    <1>5. c[Len(c)] = s[j]
      <2>1. Len(c) \in 1 .. j - i + 1 /\ i + Len(c) - 1 = j
        BY <1>1, <1>2
      <2>2. QED
        BY <2>1, <1>1
    <1>6. QED
      BY <1>3, <1>4, <1>5 DEF Ends

\* Requests elsewhere do not wait for a link that is gone.
LEMMA LinkedUnlinked ==
    ASSUME pred \in Preds, NEW s \in Seq(Req), Linked(pred, s), NEW gone, Range(s) \cap gone = {}
    PROVE  Linked(Unlinked(gone), s)
    <1>1. \A i \in 1 .. Len(s) : s[i] \in Req /\ s[i] \notin gone
      BY RangeFacts
    <1>2. \A r \in Req : Unlinked(gone)[r] = IF pred[r] \in gone THEN NoLink ELSE pred[r]
      BY DEF Unlinked
    <1>3. SUFFICES ASSUME NEW i \in 1 .. Len(s)
                   PROVE  Unlinked(gone)[s[i]] = IF i > 1 /\ s[i - 1] \in Link THEN s[i - 1] ELSE NoLink
      BY DEF Linked
    <1>4. pred[s[i]] = IF i > 1 /\ s[i - 1] \in Link THEN s[i - 1] ELSE NoLink
      BY DEF Linked
    <1>5. CASE i > 1 /\ s[i - 1] \in Link
      <2>1. i - 1 \in 1 .. Len(s)
        BY <1>5, LenProperties
      <2>2. s[i - 1] \notin gone
        BY <1>1, <2>1
      <2>3. QED
        BY <1>1, <1>2, <1>4, <1>5, <2>2
    <1>6. CASE ~(i > 1 /\ s[i - 1] \in Link)
      <2>1. pred[s[i]] = NoLink
        BY <1>4, <1>6, Zenon
      <2>2. Unlinked(gone)[s[i]] = NoLink
        BY <1>1, <1>2, <2>1
      <2>3. QED
        BY <1>6, <2>2, Zenon
    <1>7. QED
      BY <1>5, <1>6

\* The first of a chain is gone: the second waits for nothing.
LEMMA LinkedStarted ==
    ASSUME pred \in Preds, NEW c \in Seq(Req), c # <<>>, Distinct(c), Linked(pred, c)
    PROVE  /\ Linked(Unlinked({Head(c)}), Tail(c))
           /\ Head(c) \notin Link => Linked(pred, Tail(c))
           /\ Ends(c) => Ends(Tail(c))
    <1>1. PICK n \in Nat : n = Len(c) /\ n >= 1
      BY LenProperties, EmptySeq
    <1>2. PICK t : /\ t = Tail(c) /\ Len(t) = n - 1 /\ Head(c) = c[1] /\ t \in Seq(Req)
                   /\ \A i \in 1 .. n - 1 : t[i] = c[i + 1]
      <2>1. Tail(c) \in Seq(Req) /\ Len(Tail(c)) = Len(c) - 1 /\ Head(c) = c[1]
            /\ \A i \in 1 .. Len(Tail(c)) : Tail(c)[i] = c[i + 1]
        BY HeadTailProperties
      <2>2. QED
        BY <1>1, <2>1
    <1>3. PICK q : q = Unlinked({c[1]})
      OBVIOUS
    <1>4. \A i \in 1 .. n : c[i] \in Req
      BY <1>1, ElementOfSeq
    <1>5. \A r \in Req : q[r] = IF pred[r] = c[1] THEN NoLink ELSE pred[r]
      BY <1>3 DEF Unlinked
    <1>6. ASSUME NEW i \in 1 .. n - 1
          PROVE  /\ q[t[i]] = IF i > 1 /\ t[i - 1] \in Link THEN t[i - 1] ELSE NoLink
                 /\ c[1] \notin Link =>
                        pred[t[i]] = IF i > 1 /\ t[i - 1] \in Link THEN t[i - 1] ELSE NoLink
      <2>1. t[i] = c[i + 1] /\ i + 1 \in 1 .. n /\ c[i + 1] \in Req /\ i + 1 > 1 /\ i + 1 - 1 = i /\ i \in 1 .. n
        BY <1>1, <1>2, <1>4
      <2>2. pred[c[i + 1]] = IF c[i] \in Link THEN c[i] ELSE NoLink
        BY <2>1, <1>1 DEF Linked
      <2>3. CASE i = 1
        BY <2>1, <2>2, <2>3, <1>5
      <2>4. CASE i > 1
        <3>1. i - 1 \in 1 .. n - 1 /\ i - 1 + 1 = i /\ 1 \in 1 .. n
          BY <2>4, <1>1
        <3>2. t[i - 1] = c[i]
          BY <3>1, <1>2
        <3>3. c[i] # c[1]
          BY <2>1, <2>4, <3>1, <1>1 DEF Distinct
        <3>4. c[i] \in Link => c[i] # NoLink
          BY Disjoint
        <3>5. QED
          BY <2>1, <2>2, <2>4, <3>2, <3>3, <3>4, <1>5
      <2>5. QED
        BY <2>3, <2>4, <1>1
    <1>7. Linked(q, t) /\ (c[1] \notin Link => Linked(pred, t))
      BY <1>2, <1>6 DEF Linked
    <1>8. Ends(c) => Ends(t)
      <2>1. CASE n = 1
        <3>1. t = <<>>
          BY <2>1, <1>2, EmptySeq
        <3>2. QED
          BY <3>1 DEF Ends
      <2>2. CASE n > 1
        <3>1. n - 1 \in 1 .. n - 1 /\ n - 1 + 1 = n
          BY <2>2, <1>1
        <3>2. t[n - 1] = c[n]
          BY <3>1, <1>2
        <3>3. QED
          BY <3>2, <1>1, <1>2 DEF Ends
      <2>3. QED
        BY <2>1, <2>2, <1>1
    <1>9. QED
      BY <1>2, <1>3, <1>7, <1>8

\* A request that is refused: the batch is cut behind it and in front of it.
LEMMA LinkedSlice ==
    ASSUME NEW p, NEW s \in Seq(Req), Linked(p, s), Ends(s), NEW k \in 1 .. Len(s),
           s[k] \notin Link, k > 1 => s[k - 1] \notin Link
    PROVE  /\ Linked(p, SubSeq(s, k + 1, Len(s))) /\ Ends(SubSeq(s, k + 1, Len(s)))
           /\ Linked(p, SubSeq(s, 1, k - 1)) /\ Ends(SubSeq(s, 1, k - 1))
           /\ p[s[k]] = NoLink
    <1>1. PICK n \in Nat : n = Len(s) /\ k \in 1 .. n
      BY LenProperties
    <1>2. p[s[k]] = NoLink
      BY DEF Linked
    <1>3. PICK b : b = SubSeq(s, k + 1, n) /\ b \in Seq(Req) /\ Len(b) = n - k
                   /\ \A i \in 1 .. n - k : b[i] = s[k + i]
      <2>1. k \in 0 .. Len(s)
        BY <1>1
      <2>2. /\ SubSeq(s, k + 1, Len(s)) \in Seq(Req) /\ Len(SubSeq(s, k + 1, Len(s))) = Len(s) - k
            /\ \A i \in 1 .. Len(s) - k : SubSeq(s, k + 1, Len(s))[i] = s[k + i]
        BY <2>1, SplitAt
      <2>3. QED
        BY <2>2, <1>1
    <1>4. PICK a : a = SubSeq(s, 1, k - 1) /\ a \in Seq(Req) /\ Len(a) = k - 1
                   /\ \A i \in 1 .. k - 1 : a[i] = s[i]
      <2>1. PICK m \in 0 .. Len(s) : m = k - 1
        BY <1>1
      <2>2. /\ SubSeq(s, 1, m) \in Seq(Req) /\ Len(SubSeq(s, 1, m)) = m
            /\ \A i \in 1 .. m : SubSeq(s, 1, m)[i] = s[i]
        BY SplitAt
      <2>3. QED
        BY <2>1, <2>2
    <1>5. Linked(p, b) /\ Ends(b)
      <2>1. CASE k = n
        <3>1. b = <<>>
          BY <2>1, <1>1, <1>3, EmptySeq
        <3>2. QED
          BY <3>1, LinkedEmpty
      <2>2. CASE k < n
        <3>1. PICK i \in 1 .. Len(s), j \in 1 .. Len(s) : i = k + 1 /\ j = n /\ i <= j /\ i - 1 = k
          BY <2>2, <1>1
        <3>2. Linked(p, SubSeq(s, i, j))
          BY <3>1, LinkedSub
        <3>3. n - k \in 1 .. n - k /\ k + (n - k) = n
          BY <2>2, <1>1
        <3>4. b[n - k] = s[n]
          BY <3>3, <1>3
        <3>5. s # <<>>
          BY <1>1, EmptyFacts
        <3>6. QED
          BY <3>1, <3>2, <3>4, <3>5, <1>1, <1>3 DEF Ends
      <2>3. QED
        BY <2>1, <2>2, <1>1
    <1>6. Linked(p, a) /\ Ends(a)
      <2>1. CASE k = 1
        <3>1. a = <<>>
          BY <2>1, <1>4, EmptySeq
        <3>2. QED
          BY <3>1, LinkedEmpty
      <2>2. CASE k > 1
        <3>1. PICK i \in 1 .. Len(s), j \in 1 .. Len(s) : i = 1 /\ j = k - 1 /\ i <= j
          BY <2>2, <1>1
        <3>2. Linked(p, SubSeq(s, i, j))
          BY <3>1, LinkedSub
        <3>3. k - 1 \in 1 .. k - 1
          BY <2>2, <1>1
        <3>4. a[k - 1] = s[k - 1]
          BY <3>3, <1>4
        <3>5. QED
          BY <2>2, <3>1, <3>2, <3>4, <1>4 DEF Ends
      <2>3. QED
        BY <2>1, <2>2, <1>1
    <1>7. QED
      BY <1>1, <1>2, <1>3, <1>4, <1>5, <1>6

\* A chain is never torn: it lies in one piece in the SQ, the overflow queue or
\* the kernel, and the link that still lacks its successor is where that goes.
ChainInv ==
    /\ pred \in Preds
    /\ Linked(pred, SqHeld) /\ Linked(pred, sqofq.items)
    /\ \A c \in kernel : Linked(pred, c) /\ Ends(c)
    /\ open = NoLink => Ends(SqHeld) /\ Ends(sqofq.items)
    /\ open # NoLink /\ SqFull =>
           /\ Ends(SqHeld)
           /\ sqofq.items # <<>> /\ sqofq.items[Len(sqofq.items)] = open
    /\ open # NoLink /\ ~SqFull =>
           /\ Ends(sqofq.items)
           /\ SqHeld # <<>> /\ SqHeld[Len(SqHeld)] = open

LEMMA KeptChains ==
    ASSUME ChainInv, UNCHANGED <<sq, sring_head, lcl_stail, sqofq, kernel, pred, open>>
    PROVE  ChainInv'
    BY SqHeldKept DEF ChainInv

LEMMA SubmitChains ==
    ASSUME OnceInv, ChainInv, NEW r \in Req, r \notin InRings, SubmitToSq(r),
           pred' = [pred EXCEPT ![r] = open], UNCHANGED kernel,
           \/ r \notin Link /\ open' = NoLink
           \/ r \in Link /\ open' = r /\ (SqFull \/ N - SqEnts >= 2)
    PROVE  ChainInv'
    <1>1. /\ SqHeld \in Seq(Req) /\ sqofq.items \in Seq(Req)
          /\ sqofq \in [items : Seq(Req), off : Nat]
          /\ open \in Link \cup {NoLink} /\ NoLink \notin Link
          /\ SqEnts \in Nat /\ N \in Nat
      BY HeldTypes, SqHeldFacts, Disjoint, WNat DEF OnceInv, RInv, RingTypes, Links
    <1>2. /\ r \notin Range(SqHeld) /\ r \notin Range(sqofq.items)
          /\ \A c \in kernel : c \in Seq(Req) /\ r \notin Range(c)
      BY HeldTypes DEF InRings, Held, OnceInv
    <1>3. pred' \in Preds /\ pred \in Preds
      BY <1>1 DEF ChainInv, Preds
    <1>4. \A c \in kernel' : Linked(pred', c) /\ Ends(c)
      <2>1. SUFFICES ASSUME NEW c \in kernel PROVE Linked(pred', c) /\ Ends(c)
        OBVIOUS
      <2>2. QED
        BY <1>2, <1>3, LinkedOther DEF ChainInv
    <1>5. CASE SqFull
      <2>1. PICK t : t = Append(sqofq.items, r)
        OBVIOUS
      <2>2. sqofq'.items = t /\ SqHeld' = SqHeld /\ SqFull' = SqFull
        <3>1. UNCHANGED <<sq, sring_head, lcl_stail>> /\ sqofq' = Put(sqofq, r)
          BY <1>5 DEF SubmitToSq
        <3>2. QED
          BY <2>1, <3>1, <1>1, SqHeldKept DEF Put
      <2>3. open = IF Ends(sqofq.items) THEN NoLink ELSE sqofq.items[Len(sqofq.items)]
        BY <1>1, <1>5 DEF ChainInv, Ends
      <2>4. Linked(pred', t)
        BY <2>1, <2>3, <1>1, <1>2, <1>3, LinkedAppend DEF ChainInv
      <2>5. Linked(pred', SqHeld) /\ Ends(SqHeld)
        BY <1>1, <1>2, <1>3, <1>5, LinkedOther DEF ChainInv
      <2>6. t # <<>> /\ t[Len(t)] = r /\ (Ends(t) <=> r \notin Link)
        BY <2>1, <1>1, EndsAppend
      <2>7. QED
        BY <1>1, <1>3, <1>4, <1>5, <2>2, <2>4, <2>5, <2>6 DEF ChainInv
    <1>6. CASE ~SqFull
      <2>1. PICK t : t = Append(SqHeld, r)
        OBVIOUS
      <2>2. SqHeld' = t /\ SqEnts' = SqEnts + 1 /\ sqofq' = sqofq
        BY <2>1, <1>6, SqHeldAppend DEF SubmitToSq, OnceInv
      <2>3. open = IF Ends(SqHeld) THEN NoLink ELSE SqHeld[Len(SqHeld)]
        BY <1>1, <1>6 DEF ChainInv, Ends
      <2>4. Linked(pred', t)
        BY <2>1, <2>3, <1>1, <1>2, <1>3, LinkedAppend DEF ChainInv
      <2>5. Linked(pred', sqofq.items) /\ Ends(sqofq.items)
        BY <1>1, <1>2, <1>3, <1>6, LinkedOther DEF ChainInv
      <2>6. t # <<>> /\ t[Len(t)] = r /\ (Ends(t) <=> r \notin Link)
        BY <2>1, <1>1, EndsAppend
      <2>7. r \in Link => ~SqFull'
        BY <2>2, <1>1, <1>6 DEF SqFull
      <2>8. QED
        BY <1>1, <1>3, <1>4, <2>2, <2>4, <2>5, <2>6, <2>7 DEF ChainInv
    <1>7. QED
      BY <1>5, <1>6

LEMMA EnterChains ==
    ASSUME OnceInv, ChainInv, \/ Enter \/ EnterError \/ \E k \in 1 .. SqEnts : EnterRejects(k)
    PROVE  ChainInv'
    <1>1. /\ sqofq' = sqofq /\ open' = open /\ open = NoLink
          /\ SqHeld \in Seq(Req) /\ Len(SqHeld) = SqEnts
          /\ pred \in Preds
      BY SqHeldFacts DEF Enter, EnterError, EnterRejects, queues, OnceInv, Links, InUser, ChainInv
    <1>2. /\ Linked(pred, SqHeld) /\ Ends(SqHeld)
          /\ Linked(pred, sqofq.items) /\ Ends(sqofq.items)
          /\ \A c \in kernel : Linked(pred, c) /\ Ends(c)
      BY <1>1 DEF ChainInv
    <1>3. CASE EnterError
      BY <1>1, <1>3, KeptChains DEF EnterError, ring0
    <1>4. CASE Enter
      <2>1. SqHeld' = <<>> /\ pred' = pred /\ kernel' = kernel \cup Chains(SqHeld)
        BY <1>4, SqHeldTaken DEF Enter, OnceInv
      <2>2. \A c \in kernel' : Linked(pred, c) /\ Ends(c)
        BY <1>1, <1>2, <2>1, LinkedChains
      <2>3. QED
        BY <1>1, <1>2, <2>1, <2>2, LinkedEmpty DEF ChainInv
    <1>5. ASSUME NEW k \in 1 .. SqEnts, EnterRejects(k) PROVE ChainInv'
      <2> DEFINE b == SubSeq(SqHeld, k + 1, Len(SqHeld))
                 a == SubSeq(SqHeld, 1, k - 1)
      <2>1. SqHeld' = b /\ kernel' = kernel \cup Chains(a)
        BY <1>5, SqHeldRejected DEF EnterRejects, OnceInv
      <2>2. k \in 1 .. Len(SqHeld) /\ SqHeld[k] \notin Link /\ (k > 1 => SqHeld[k - 1] \notin Link)
        <3>1. \A x \in 1 .. SqEnts : SqHeld[x] \in Req
          BY SqHeldFacts DEF OnceInv
        <3>2. QED
          BY <1>1, <1>5, <3>1 DEF EnterRejects, HasLinkFlag
      <2>3. Linked(pred, b) /\ Ends(b) /\ Linked(pred, a) /\ Ends(a) /\ pred[SqHeld[k]] = NoLink
        BY <1>1, <1>2, <2>2, LinkedSlice
      <2>4. pred' = pred
        BY <1>1, <1>5, <2>3 DEF EnterRejects, Preds
      <2>5. a \in Seq(Req)
        <3>1. k - 1 \in 0 .. Len(SqHeld)
          BY <1>1, <2>2, LenProperties
        <3>2. QED
          BY <1>1, <3>1, SplitAt
      <2> HIDE DEF a, b
      <2>6. \A c \in kernel' : Linked(pred, c) /\ Ends(c)
        BY <1>2, <2>1, <2>3, <2>5, LinkedChains
      <2>7. QED
        BY <1>1, <1>2, <2>1, <2>3, <2>4, <2>6 DEF ChainInv
    <1>6. QED
      BY <1>3, <1>4, <1>5

LEMMA WakeChains ==
    ASSUME OnceInv, ChainInv, Wake
    PROVE  ChainInv'
    <1>1. /\ pc = "wait" /\ open = NoLink
          /\ UNCHANGED <<sring_head, kernel, pred, open>>
      BY DEF Wake, AfterWait, ring0, history, OnceInv, Links, InUser
    <1>2. CASE sqofq.items = <<>>
      BY <1>1, <1>2, KeptChains DEF Wake, AfterWait
    <1>3. CASE sqofq.items # <<>>
      <2>1. sqofq.items[Len(sqofq.items)] \notin Link
        BY <1>1, <1>3 DEF ChainInv, Ends
      <2>2. /\ SafePop(sqofq.items) # 0
            /\ Flush /\ UNCHANGED sring_head => SqHeld' = sqofq.items /\ sqofq'.items = <<>>
        BY <1>1, <1>3, <2>1, SqHeldFlushed DEF OnceInv
      <2>3. Flush
        BY <1>3, <2>2 DEF Wake, AfterWait
      <2>4. SqHeld' = sqofq.items /\ sqofq'.items = <<>>
        BY <1>1, <2>2, <2>3
      <2>5. QED
        BY <1>1, <2>4, LinkedEmpty DEF ChainInv
    <1>4. QED
      BY <1>2, <1>3

LEMMA KernelChains ==
    ASSUME OnceInv, ChainInv, NEW c \in kernel, Succeeds(c) \/ Fails(c)
    PROVE  ChainInv'
    <1>1. /\ UNCHANGED <<sq, sring_head, lcl_stail, sqofq, open>>
          /\ SqHeld' = SqHeld /\ SqFull' = SqFull
      BY SqHeldKept DEF Succeeds, Fails, queues
    <1>2. /\ SqHeld \in Seq(Req) /\ sqofq.items \in Seq(Req)
          /\ \A d \in kernel : d \in Seq(Req) /\ d # <<>>
      BY HeldTypes DEF OnceInv
    <1>3. /\ Range(SqHeld) \cap Range(c) = {} /\ Range(sqofq.items) \cap Range(c) = {}
          /\ \A d \in kernel \ {c} : Range(d) \cap Range(c) = {}
          /\ Distinct(c)
      BY DEF OnceInv, Waits, RingsApart, Apart
    <1>4. ASSUME NEW gone, gone \subseteq Range(c)
          PROVE  /\ Unlinked(gone) \in Preds
                 /\ Linked(Unlinked(gone), SqHeld) /\ Linked(Unlinked(gone), sqofq.items)
                 /\ \A d \in kernel \ {c} : Linked(Unlinked(gone), d) /\ Ends(d)
      <2>1. Unlinked(gone) \in Preds
        BY DEF Unlinked, ChainInv, Preds
      <2>2. Linked(Unlinked(gone), SqHeld)
        <3>1. Range(SqHeld) \cap gone = {}
          BY <1>3, <1>4
        <3>2. QED
          BY <3>1, <1>2, LinkedUnlinked DEF ChainInv
      <2>3. Linked(Unlinked(gone), sqofq.items)
        <3>1. Range(sqofq.items) \cap gone = {}
          BY <1>3, <1>4
        <3>2. QED
          BY <3>1, <1>2, LinkedUnlinked DEF ChainInv
      <2>4. ASSUME NEW d \in kernel \ {c} PROVE Linked(Unlinked(gone), d) /\ Ends(d)
        <3>1. Range(d) \cap gone = {}
          BY <1>3, <1>4
        <3>2. QED
          BY <3>1, <1>2, LinkedUnlinked DEF ChainInv
      <2>5. QED
        BY <2>1, <2>2, <2>3, <2>4
    <1>5. /\ Head(c) \in Range(c)
          /\ Linked(Unlinked({Head(c)}), Tail(c)) /\ Ends(Tail(c))
          /\ Head(c) \notin Link => Linked(pred, Tail(c))
      BY <1>2, <1>3, TailFacts, LinkedStarted DEF ChainInv
    <1>6. CASE Succeeds(c) /\ Head(c) \in Link
      <2>1. /\ pred' = Unlinked({Head(c)})
            /\ kernel' \subseteq (kernel \ {c}) \cup {Tail(c)}
        BY <1>6 DEF Succeeds
      <2>2. {Head(c)} \subseteq Range(c)
        BY <1>5
      <2>3. /\ pred' \in Preds /\ Linked(pred', SqHeld) /\ Linked(pred', sqofq.items)
            /\ \A d \in kernel \ {c} : Linked(pred', d) /\ Ends(d)
        BY <2>1, <2>2, <1>4
      <2>4. \A d \in kernel' : Linked(pred', d) /\ Ends(d)
        BY <2>1, <2>3, <1>5
      <2>5. QED
        BY <1>1, <2>3, <2>4 DEF ChainInv
    <1>7. CASE Succeeds(c) /\ Head(c) \notin Link
      <2>1. pred' = pred /\ kernel' \subseteq (kernel \ {c}) \cup {Tail(c)}
        BY <1>7 DEF Succeeds
      <2>2. \A d \in kernel' : Linked(pred', d) /\ Ends(d)
        BY <2>1, <1>5, <1>7 DEF ChainInv
      <2>3. QED
        BY <1>1, <2>1, <2>2 DEF ChainInv
    <1>8. CASE Fails(c)
      <2>1. pred' = Unlinked(Range(c)) /\ kernel' = kernel \ {c}
        BY <1>8 DEF Fails
      <2>2. /\ pred' \in Preds /\ Linked(pred', SqHeld) /\ Linked(pred', sqofq.items)
            /\ \A d \in kernel \ {c} : Linked(pred', d) /\ Ends(d)
        BY <2>1, <1>4
      <2>3. QED
        BY <1>1, <2>1, <2>2 DEF ChainInv
    <1>9. QED
      BY <1>6, <1>7, <1>8

LEMMA NextChains ==
    ASSUME OnceInv, ChainInv, [Next]_vars, ~Split
    PROVE  ChainInv'
    <1>1. ASSUME NEW t \in Task, SubmitTask(t) PROVE ChainInv'
      <2>1. t \notin InRings /\ t \in Req /\ t \notin Link
        BY <1>1, PlacedRings, Disjoint DEF OnceInv, Waits, SubmitTask
      <2>2. QED
        BY <1>1, <2>1, SubmitChains DEF SubmitTask, ring0
    <1>2. ASSUME NEW l \in Link, SubmitLink(l) PROVE ChainInv'
      <2>1. l \notin InRings /\ l \in Req
        BY <1>2, OutstandingHeld, Disjoint DEF SubmitLink
      <2>2. SqFull \/ N - SqEnts >= 2
        BY <1>2 DEF SubmitLink, ChainFits
      <2>3. QED
        BY <1>2, <2>1, <2>2, SubmitChains DEF SubmitLink, ring0
    <1>3. ASSUME \/ \E t \in Task : ETimeFails(t) \/ ESoon(t)
                 \/ LRun1 \/ RunPrep \/ RunSoon \/ ExeqDone \/ Dispatch \/ SkipNull \/ CbReturn
                 \/ UNCHANGED vars
          PROVE  UNCHANGED <<sq, sring_head, lcl_stail, sqofq, kernel, pred, open>>
      BY <1>3 DEF ETimeFails, ESoon, LRun1, RunPrep, RunSoon, ExeqDone, Dispatch, SkipNull, CbReturn,
                  vars, rings, queues, ring0, history
    <1>4. QED
      BY <1>1, <1>2, <1>3, KeptChains, EnterChains, WakeChains, KernelChains DEF Next, LoopStep

\* The inductive invariant behind it.
THEOREM ChainInvariant ==
    ASSUME ~Interrupts, ~Bursty, ~Split
    PROVE  Spec => []ChainInv
    <1>1. OnceInv /\ ChainInv /\ [Next]_vars => ChainInv'
      BY NextChains
    <1>2. Init => ChainInv
      <2> SUFFICES ASSUME Init PROVE ChainInv
        OBVIOUS
      <2>1. pred \in Preds /\ kernel = {} /\ open = NoLink /\ sqofq.items = <<>>
        BY DEF Init, Preds, Empty
      <2>2. SqHeld = <<>>
        BY WNat DEF Init, SqHeld, SqEnts, Dist
      <2>3. QED
        BY <2>1, <2>2, LinkedEmpty DEF ChainInv
    <1>3. QED
      BY <1>1, <1>2, OnceInvariant, PTL DEF Spec

\* IEL_FLAG_REQLNK "links the current task with the next one": callers that do
\* not let a chain straddle the end of the SQ find it whole in the kernel, for
\* rings and chains of every size.
THEOREM LinksAreKept ==
    ASSUME ~Interrupts, ~Bursty, ~Split
    PROVE  Spec => []LinkedAfter
    <1>1. OnceInv /\ ChainInv => LinkedAfter
      <2> SUFFICES ASSUME OnceInv, ChainInv, NEW c \in kernel PROVE pred[Head(c)] = NoLink
        BY DEF LinkedAfter
      <2>1. c \in Seq(Req) /\ c # <<>> /\ Linked(pred, c)
        BY HeldTypes DEF OnceInv, ChainInv
      <2>2. 1 \in 1 .. Len(c) /\ Head(c) = c[1]
        BY <2>1, EmptySeq, LenProperties
      <2>3. QED
        BY <2>1, <2>2 DEF Linked
    <1>2. QED
      BY <1>1, ChainInvariant, OnceInvariant, PTL

----------------------------------------------------------------------------
(* Nothing is forgotten while lrun1 waits *)

LEMMA ConcatNonEmpty ==
    ASSUME NEW X, NEW s \in Seq(X), NEW t \in Seq(X), s # <<>> \/ t # <<>>
    PROVE  s \o t # <<>>
    <1>1. Len(s) \in Nat /\ Len(t) \in Nat /\ (Len(s) > 0 \/ Len(t) > 0)
      BY EmptySeq
    <1>2. s \o t \in Seq(X) /\ Len(s \o t) = Len(s) + Len(t)
      BY ConcatProperties
    <1>3. QED
      BY <1>1, <1>2, EmptyFacts

\* Completions stay in the backlog only when the CQ is full.
LEMMA PostedFull ==
    ASSUME NEW ring, NEW t \in Counter, NEW h \in Counter, NEW uds \in Seq(Req), Dist(h, t) <= M,
           NEW p, p = Posted(ring, t, h, uds), p.rest # <<>> \/ Dist(h, t) = M
    PROVE  Dist(h, p.tail) = M
    <1>1. Dist(h, h) <= Dist(h, t) /\ Dist(h, t) \in Nat /\ M \in Nat
      BY CounterFacts, WNat DEF Counter
    <1>2. Behind(p, ring, t, h, h, uds)
      BY <1>1, PostedBehind
    <1>3. PICK n, d : n = Smaller(M - Dist(h, t), Len(uds)) /\ d = Dist(h, t)
      OBVIOUS
    <1>4. /\ n \in 0 .. Len(uds) /\ d + n <= M /\ Dist(h, p.tail) = d + n
          /\ p.rest = SubSeq(uds, n + 1, Len(uds))
      BY <1>2, <1>3 DEF Behind
    <1>5. p.rest # <<>> => n # Len(uds)
      <2>1. Len(p.rest) = Len(uds) - n /\ p.rest \in Seq(Req) /\ Len(uds) \in Nat
        BY <1>4, SplitAt
      <2>2. QED
        BY <2>1, <1>4, EmptySeq
    <1>6. n = M - d \/ n = Len(uds)
      BY <1>3 DEF Smaller
    <1>7. QED
      BY <1>1, <1>3, <1>4, <1>5, <1>6

LEMMA PostFull ==
    ASSUME RInv, NEW uds \in Seq(Req), Post(uds), UNCHANGED cring_head,
           backlog # <<>> => Dist(cring_head, cring_tail) = M
    PROVE  backlog' # <<>> => Dist(cring_head', cring_tail') = M
    <1>1. cring_head \in Counter /\ cring_tail \in Counter /\ Dist(cring_head, cring_tail) <= M
      BY DEF RInv, RingTypes, CqInv, CqSound
    <1>2. CASE backlog = <<>>
      <2>1. PICK p : p = Posted(cq, cring_tail, cring_head, uds)
        OBVIOUS
      <2>2. cring_tail' = p.tail /\ backlog' = p.rest
        BY <1>2, <2>1 DEF Post
      <2>3. QED
        BY <1>1, <2>1, <2>2, PostedFull
    <1>3. CASE backlog # <<>>
      <2>1. PICK p : p = Posted(cq, cring_tail, cring_head, <<>>)
        OBVIOUS
      <2>2. cring_tail' = p.tail
        BY <1>3, <2>1 DEF Post
      <2>3. <<>> \in Seq(Req)
        BY EmptySeq
      <2>4. QED
        BY <1>1, <1>3, <2>1, <2>2, <2>3, PostedFull
    <1>4. QED
      BY <1>2, <1>3

LEMMA PublishedFull ==
    ASSUME RInv, NEW uds \in Seq(Req), cring_head' = Released,
           LET p == Posted(cq, cring_tail, Released, uds)
           IN  cq' = p.ring /\ cring_tail' = p.tail /\ backlog' = p.rest
    PROVE  backlog' # <<>> => Dist(cring_head', cring_tail') = M
    <1>1. /\ cring_head \in Counter /\ lcl_chead \in Counter /\ cring_tail \in Counter
          /\ Dist(cring_head, cring_tail) <= M
          /\ Dist(cring_head, lcl_chead) <= Dist(cring_head, cring_tail)
      BY DEF RInv, RingTypes, CqInv, CqSound
    <1>2. Dist(lcl_chead, cring_tail) <= M
      <2>1. Dist(cring_head, lcl_chead) + Dist(lcl_chead, cring_tail) = Dist(cring_head, cring_tail)
        BY <1>1, Between
      <2>2. /\ Dist(cring_head, lcl_chead) \in Nat /\ Dist(lcl_chead, cring_tail) \in Nat /\ M \in Nat
            /\ Dist(cring_head, cring_tail) \in Nat
        BY <1>1, CounterFacts, WNat DEF Counter
      <2>3. QED
        BY <1>1, <2>1, <2>2
    <1>3. PICK p : p = Posted(cq, cring_tail, lcl_chead, uds)
      OBVIOUS
    <1>4. cring_tail' = p.tail /\ backlog' = p.rest /\ cring_head' = lcl_chead
      BY <1>3 DEF Released
    <1>5. QED
      BY <1>1, <1>2, <1>3, <1>4, PostedFull

Dispatching == "cq" \in {pc, ret} \/ "cqsoon" \in {pc, ret}

\* While lrun1 waits no task is queued to run soon, and what is not yet taken
\* from the overflow queue or the SQ has a completion ahead of it that will
\* end the wait.
SleepInv ==
    /\ pc = "wait" => soonque = <<>> /\ prepque = <<>>
    /\ pc = "wait" /\ backlog # <<>> => Dist(cring_head, cring_tail) = M
    /\ pc = "wait" /\ SqHeld # <<>> => Cqes # <<>>
    /\ sqofq.items # <<>> /\ ~SqFull => (kernel # {} \/ Cqes # <<>>) /\ ~Dispatching

LEMMA AwakeKept ==
    ASSUME SleepInv, pc' # "wait",
           sqofq'.items # <<>> /\ ~SqFull' =>
               /\ sqofq.items # <<>> /\ ~SqFull
               /\ Cqes' = Cqes /\ kernel' = kernel /\ (Dispatching' => Dispatching)
    PROVE  SleepInv'
    BY DEF SleepInv

LEMMA SubmitSleeps ==
    ASSUME SleepInv, NEW r \in Req, InUser, SubmitToSq(r), UNCHANGED <<pc, ret, ring0>>
    PROVE  SleepInv'
    <1>1. pc' # "wait" /\ Cqes' = Cqes /\ kernel' = kernel /\ (Dispatching' => Dispatching)
      BY CqesKept DEF InUser, SubmitToSq, ring0, Called, Dispatching
    <1>2. CASE SqFull
      <2>1. SqFull' = SqFull
        BY <1>2, SqHeldKept DEF SubmitToSq
      <2>2. QED
        BY <1>1, <1>2, <2>1, AwakeKept
    <1>3. CASE ~SqFull
      <2>1. sqofq' = sqofq
        BY <1>3 DEF SubmitToSq
      <2>2. QED
        BY <1>1, <1>3, <2>1, AwakeKept
    <1>4. QED
      BY <1>2, <1>3

LEMMA EnterSleeps ==
    ASSUME OnceInv, SleepInv, Enter
    PROVE  SleepInv'
    <1>1. /\ SqHeld' = <<>> /\ sqofq' = sqofq /\ pc = "enter" /\ ret' = "app"
          /\ kernel' = kernel \cup Chains(SqHeld) /\ pc' \in {"app", "wait"}
      BY SqHeldTaken DEF Enter, OnceInv, Control, queues
    <1>2. backlog \in Seq(Req)
      BY ReadyFacts DEF OnceInv
    <1>3. Cqes' = Cqes
      <2>1. Cqes' = Ready \o backlog
        BY <1>1, <1>2, CqesEntered DEF Enter, OnceInv
      <2>2. QED
        BY <2>1 DEF Cqes
    <1>4. backlog' # <<>> => Dist(cring_head', cring_tail') = M
      BY <1>2, PublishedFull DEF Enter, OnceInv
    <1>5. pc' = "wait" => soonque' = <<>> /\ prepque' = <<>>
      BY DEF Enter, Polls, queues
    <1>6. sqofq.items # <<>> => kernel' # {} \/ Cqes' # <<>>
      <2>1. CASE SqFull
        <3>1. SqHeld \in Seq(Req) /\ Len(SqHeld) = N
          BY <2>1, SqHeldFacts DEF OnceInv, SqFull
        <3>2. 1 \in 1 .. Len(SqHeld)
          BY <3>1, WNat
        <3>3. \E c \in Chains(SqHeld) : SqHeld[1] \in Range(c)
          BY <3>1, <3>2, ChainsCover
        <3>4. QED
          BY <1>1, <3>3
      <2>2. CASE ~SqFull
        BY <2>2, <1>1, <1>3 DEF SleepInv
      <2>3. QED
        BY <2>1, <2>2
    <1>7. QED
      BY <1>1, <1>4, <1>5, <1>6 DEF SleepInv, Dispatching

LEMMA RejectSleeps ==
    ASSUME OnceInv, SleepInv, ~Bursty, NEW k \in 1 .. SqEnts, EnterRejects(k)
    PROVE  SleepInv'
    <1>1. /\ sqofq' = sqofq /\ sqofq.items = <<>> /\ pc = "enter" /\ pc' \in {"app", "wait"}
          /\ backlog \in Seq(Req) /\ Ready \in Seq(Req)
      BY ReadyFacts DEF EnterRejects, OnceInv, queues
    <1>2. PICK uds : uds = Append(backlog, SqHeld[k]) /\ uds \in Seq(Req) /\ uds # <<>>
      <2>1. SqHeld[k] \in Req
        BY SqHeldFacts DEF OnceInv
      <2>2. QED
        <3>1. Append(backlog, SqHeld[k]) # <<>>
          BY <1>1, <2>1, EndsAppend
        <3>2. Append(backlog, SqHeld[k]) \in Seq(Req)
          BY <1>1, <2>1
        <3>3. QED
          BY <3>1, <3>2
    <1>3. LET p == Posted(cq, cring_tail, Released, uds)
          IN  cq' = p.ring /\ cring_tail' = p.tail /\ backlog' = p.rest
      BY <1>2 DEF EnterRejects
    <1>4. Cqes' = Ready \o uds
      BY <1>1, <1>2, <1>3, CqesEntered DEF EnterRejects, OnceInv
    <1>5. Cqes' # <<>>
      BY <1>1, <1>2, <1>4, ConcatNonEmpty
    <1>6. backlog' # <<>> => Dist(cring_head', cring_tail') = M
      BY <1>2, <1>3, PublishedFull DEF EnterRejects, OnceInv
    <1>7. pc' = "wait" => soonque' = <<>> /\ prepque' = <<>>
      BY DEF EnterRejects, Polls, queues
    <1>8. QED
      BY <1>1, <1>5, <1>6, <1>7 DEF SleepInv

LEMMA WakeSleeps ==
    ASSUME OnceInv, SleepInv, Wake
    PROVE  SleepInv'
    <1>1. pc = "wait" /\ pc' = "cq" /\ UNCHANGED sring_head
      BY WakeWaits DEF Wake, AfterWait
    <1>2. sqofq'.items = <<>>
      <2>1. CASE sqofq.items = <<>>
        BY <2>1 DEF Wake, AfterWait
      <2>2. CASE sqofq.items # <<>>
        <3>1. sqofq.items[Len(sqofq.items)] \notin Link
          BY <1>1, <2>2 DEF OnceInv, Links, InUser
        <3>2. /\ SafePop(sqofq.items) # 0
              /\ Flush /\ UNCHANGED sring_head => sqofq'.items = <<>>
          BY <1>1, <2>2, <3>1, SqHeldFlushed DEF OnceInv
        <3>3. Flush
          BY <2>2, <3>2 DEF Wake, AfterWait
        <3>4. QED
          BY <1>1, <3>2, <3>3
      <2>3. QED
        BY <2>1, <2>2
    <1>3. QED
      BY <1>1, <1>2 DEF SleepInv

\* Something the kernel completes: its CQE is posted, or its successor starts.
LEMMA KernelSleeps ==
    ASSUME OnceInv, ChainInv, SleepInv, NEW c \in kernel, Succeeds(c) \/ Fails(c)
    PROVE  SleepInv'
    <1>1. /\ UNCHANGED <<sq, sring_head, lcl_stail, sqofq, soonque, prepque, pc, ret, cring_head, lcl_chead>>
          /\ SqHeld' = SqHeld /\ SqFull' = SqFull
      BY SqHeldKept DEF Succeeds, Fails, queues, control
    <1>2. c \in Seq(Req) /\ c # <<>> /\ Head(c) \in Req /\ Ends(c) /\ Cqes \in Seq(Req) /\ RInv
      BY HeldTypes, TailFacts DEF OnceInv, ChainInv
    <1>3. ASSUME NEW uds \in Seq(Req), uds # <<>>, Post(uds) PROVE SleepInv'
      <2>1. Cqes' = Cqes \o uds
        BY <1>1, <1>2, <1>3, CqesPosted
      <2>2. Cqes' # <<>>
        BY <1>2, <1>3, <2>1, ConcatNonEmpty
      <2>3. pc' = "wait" /\ backlog' # <<>> => Dist(cring_head', cring_tail') = M
        BY <1>1, <1>2, <1>3, PostFull DEF SleepInv
      <2>4. QED
        BY <1>1, <2>2, <2>3 DEF SleepInv, Dispatching
    <1>4. <<Head(c)>> \in Seq(Req) /\ <<Head(c)>> # <<>>
      BY <1>2
    <1>5. CASE Succeeds(c) /\ Head(c) \in Link
      <2>1. UNCHANGED <<cq, cring_tail, backlog>>
        BY <1>5 DEF Succeeds
      <2>2. Cqes' = Cqes
        BY <1>1, <2>1, CqesKept DEF Called
      <2>3. Tail(c) \in kernel'
        <3>1. Len(c) \in Nat /\ Len(c) # 0 /\ Head(c) = c[1]
          BY <1>2, EmptySeq
        <3>2. Len(c) # 1
          BY <1>2, <1>5, <3>1 DEF Ends
        <3>3. Len(c) > 1
          <4>1. PICK n \in Nat : n = Len(c)
            BY <3>1
          <4>2. QED
            BY <3>1, <3>2, <4>1
        <3>4. QED
          BY <1>5, <3>3 DEF Succeeds
      <2>4. QED
        BY <1>1, <2>1, <2>2, <2>3 DEF SleepInv, Dispatching
    <1>6. CASE Succeeds(c) /\ Head(c) \notin Link
      BY <1>3, <1>4, <1>6 DEF Succeeds
    <1>7. CASE Fails(c)
      BY <1>2, <1>3, <1>4, <1>7 DEF Fails
    <1>8. QED
      BY <1>5, <1>6, <1>7

LEMMA NextSleeps ==
    ASSUME OnceInv, OnceInv', ChainInv, SleepInv, [Next]_vars, ~Bursty
    PROVE  SleepInv'
    <1>1. ASSUME NEW t \in Task, SubmitTask(t) PROVE SleepInv'
      BY <1>1, SubmitSleeps, Disjoint DEF SubmitTask, control
    <1>2. ASSUME NEW l \in Link, SubmitLink(l) PROVE SleepInv'
      BY <1>2, SubmitSleeps, Disjoint DEF SubmitLink, control
    <1>3. CASE UNCHANGED vars
      <2>1. SqHeld' = SqHeld /\ SqFull' = SqFull /\ Cqes' = Cqes
        BY <1>3, SqHeldKept, CqesKept DEF vars, rings, control, ring0, Called
      <2>2. QED
        BY <1>3, <2>1 DEF SleepInv, Dispatching, vars, rings, queues, control, ring0
    <1>4. ASSUME pc' # "wait", UNCHANGED <<sq, sring_head, lcl_stail, sqofq, kernel>>,
                 sqofq.items # <<>> /\ ~SqFull =>
                     UNCHANGED <<cq, cring_tail, lcl_chead, backlog>> /\ ~Called' /\ ~Called /\ ~Dispatching'
          PROVE  SleepInv'
      <2>1. SqFull' = SqFull
        BY <1>4, SqHeldKept
      <2>2. sqofq.items # <<>> /\ ~SqFull => Cqes' = Cqes
        BY <1>4, CqesKept
      <2>3. QED
        BY <1>4, <2>1, <2>2, AwakeKept
    <1>5. Dispatching \/ ~Called
      BY DEF Dispatching, Called
    <1>6. ASSUME \E t \in Task : ETimeFails(t) \/ ESoon(t) PROVE SleepInv'
      BY <1>4, <1>5, <1>6 DEF ETimeFails, ESoon, InUser, rings, queues, control, ring0,
                              SleepInv, Dispatching, Called
    <1>7. CASE LRun1 \/ ExeqDone \/ RunPrep \/ RunSoon
      <2>1. /\ UNCHANGED <<rings, sqofq, ring0>> /\ pc' # "wait"
            /\ ~Called /\ ~Called' /\ (Dispatching' => Dispatching)
        BY <1>7 DEF LRun1, ExeqDone, RunPrep, RunSoon, queues, Dispatching, Called, OnceInv, Control
      <2>2. QED
        BY <1>4, <2>1 DEF SleepInv, rings, ring0
    <1>8. CASE Dispatch \/ SkipNull
      <2>1. UNCHANGED <<sq, sring_head, lcl_stail, sqofq, kernel>> /\ pc' # "wait" /\ Dispatching
        BY <1>8 DEF Dispatch, SkipNull, NextCqe, queues, ring0, Dispatching
      <2>2. QED
        BY <1>4, <2>1 DEF SleepInv
    <1>9. CASE CbReturn
      <2>1. UNCHANGED <<sq, sring_head, lcl_stail, sqofq, kernel, backlog, cq, cring_tail>>
            /\ pc = "cb" /\ ret' = "app"
        BY <1>9 DEF CbReturn, NextCqe, queues, ring0
      <2>2. CASE ret = "cq"
        <3>1. Dispatching /\ pc' # "wait"
          BY <1>9, <2>2 DEF CbReturn, NextCqe, Dispatching
        <3>2. QED
          BY <1>4, <2>1, <3>1 DEF SleepInv
      <2>3. CASE ret # "cq"
        <3>1. pc' = ret /\ UNCHANGED lcl_chead
          BY <1>9, <2>3 DEF CbReturn
        <3>2. pc' # "wait" /\ ~Called /\ ~Called' /\ (Dispatching' => Dispatching)
          BY <2>1, <2>3, <3>1 DEF Dispatching, Called, OnceInv, RInv, RingTypes
        <3>3. QED
          BY <1>4, <2>1, <3>1, <3>2 DEF SleepInv
      <2>4. QED
        BY <2>2, <2>3
    <1>10. CASE EnterError
      <2>1. /\ UNCHANGED <<sq, sring_head, lcl_stail, sqofq, ring0, cq, cring_tail, lcl_chead, ret>>
            /\ pc' = "app" /\ pc = "enter" /\ ~Called /\ ~Called' /\ (Dispatching' => Dispatching)
        BY <1>10 DEF EnterError, queues, Dispatching, Called
      <2>2. QED
        BY <1>4, <2>1 DEF SleepInv, ring0
    <1>11. QED
      BY <1>1, <1>2, <1>3, <1>6, <1>7, <1>8, <1>9, <1>10,
         EnterSleeps, RejectSleeps, WakeSleeps, KernelSleeps DEF Next, LoopStep

LEMMA SleepsOnNothing ==
    ASSUME OnceInv, SleepInv
    PROVE  NeverSleepsOnWork
    <1> SUFFICES ASSUME pc = "wait", kernel = {}, cring_tail = cring_head
                 PROVE  /\ sqofq.items = <<>> /\ soonque = <<>> /\ prepque = <<>>
                        /\ pend = cancelled
      BY DEF NeverSleepsOnWork
    <1>1. soonque = <<>> /\ prepque = <<>>
      BY DEF SleepInv
    <1>2. /\ cring_head \in Counter /\ lcl_chead = cring_head
          /\ Dist(cring_head, cring_head) = 0 /\ M \in Nat \ {0} /\ N \in Nat \ {0}
      BY CounterFacts, WNat DEF OnceInv, RInv, RingTypes, CqInv, Dispatches
    <1>3. backlog = <<>>
      BY <1>2 DEF SleepInv
    <1>4. Cqes = <<>>
      <2>1. CqEnts = 0 /\ Passed = 0
        BY <1>2 DEF CqEnts, Passed, Called
      <2>2. Ready = <<>>
        BY <2>1 DEF Ready, Window
      <2>3. QED
        BY <1>3, <2>2, EmptySeq DEF Cqes
    <1>5. SqHeld = <<>>
      BY <1>4 DEF SleepInv
    <1>6. sqofq.items = <<>>
      <2>1. SUFFICES ASSUME sqofq.items # <<>> PROVE FALSE
        OBVIOUS
      <2>2. SqEnts = 0
        BY <2>1 DEF OnceInv, RInv, SqInv, FlushFits
      <2>3. ~SqFull
        BY <2>2, <1>2 DEF SqFull
      <2>4. QED
        BY <2>1, <2>3, <1>4 DEF SleepInv
    <1>7. InRings = {}
      BY <1>4, <1>5, <1>6, EmptyFacts DEF InRings, Held
    <1>8. pend \ cancelled = {} /\ cancelled \subseteq pend
      BY <1>1, <1>7, EmptyFacts DEF OnceInv, Waits, Placed
    <1>9. QED
      BY <1>1, <1>6, <1>8

\* io_uring_enter never blocks while only lrun1 itself could go on: for rings
\* of every size, as long as no signal ends the wait and callers are neither
\* bursty nor split chains.
THEOREM LoopSleepsOnNothing ==
    ASSUME ~Interrupts, ~Bursty, ~Split
    PROVE  Spec => []NeverSleepsOnWork
    <1>1. OnceInv /\ OnceInv' /\ ChainInv /\ SleepInv /\ [Next]_vars => SleepInv'
      BY NextSleeps
    <1>2. Init => SleepInv
      <2> SUFFICES ASSUME Init PROVE SleepInv
        OBVIOUS
      <2>1. pc = "app" /\ sqofq.items = <<>>
        BY DEF Init, Empty
      <2>2. QED
        BY <2>1 DEF SleepInv
    <1>3. OnceInv /\ SleepInv => NeverSleepsOnWork
      BY SleepsOnNothing
    <1>4. Spec => []ChainInv
      BY ChainInvariant
    <1>5. QED
      BY <1>1, <1>2, <1>3, <1>4, OnceInvariant, PTL DEF Spec

=============================================================================
