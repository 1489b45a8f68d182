---------------------------- MODULE ClientProofs ----------------------------
(***************************************************************************)
(* Proofs about TagPtr and Client: for words, tags and addresses of every  *)
(* size, any number of threads, and any number of tasks.                   *)
(***************************************************************************)
EXTENDS Client, LoopFacts, SequenceTheorems

(***************************************************************************)
(* Numbers and words.                                                      *)
(***************************************************************************)

LEMMA Pow2Type == \A n \in Nat : Pow2(n) \in Nat \ {0}
    <1> DEFINE body == [x \in Nat |-> 2 * x]
               T == Nat \ {0}
    <1>1. \A x \in T : body[x] \in T
      OBVIOUS
    <1>2. 1 \in T
      OBVIOUS
    <1> HIDE DEF body, T
    <1>3. \A n \in Nat : After(n, body, 1) \in T
      BY <1>1, <1>2, AfterInvariant
    <1>4. QED
      BY <1>3 DEF Pow2, T, body

LEMMA Pow2Next == Pow2(0) = 1 /\ \A n \in Nat : Pow2(n + 1) = 2 * Pow2(n)
    <1> DEFINE body == [x \in Nat |-> 2 * x]
    <1>1. Pow2(0) = 1
      BY AfterStep DEF Pow2
    <1>2. ASSUME NEW n \in Nat PROVE Pow2(n + 1) = 2 * Pow2(n)
      <2>1. After(n + 1, body, 1) = body[After(n, body, 1)]
        BY AfterNext
      <2>2. Pow2(n) = After(n, body, 1) /\ Pow2(n + 1) = After(n + 1, body, 1)
        BY DEF Pow2
      <2>3. Pow2(n) \in Nat
        BY Pow2Type
      <2>4. QED
        BY <2>1, <2>2, <2>3
    <1>3. QED
      BY <1>1, <1>2

LEMMA Pow2Grows == \A m, n \in Nat : m <= n => Pow2(m) <= Pow2(n)
    <1> SUFFICES ASSUME NEW m \in Nat PROVE \A n \in Nat : m <= n => Pow2(m) <= Pow2(n)
      OBVIOUS
    <1> DEFINE T == {n \in Nat : m <= n => Pow2(m) <= Pow2(n)}
    <1>1. 0 \in T
      BY Pow2Type
    <1>2. ASSUME NEW n \in Nat, n \in T PROVE n + 1 \in T
      <2>1. Pow2(m) \in Nat /\ Pow2(n) \in Nat /\ Pow2(n + 1) = 2 * Pow2(n)
        BY Pow2Type, Pow2Next
      <2>2. CASE m = n + 1
        BY <2>1, <2>2
      <2>3. CASE m # n + 1
        BY <1>2, <2>1, <2>3
      <2>4. QED
        BY <2>2, <2>3
    <1>3. QED
      <2> HIDE DEF T
      <2>1. Nat \subseteq T
        BY <1>1, <1>2, Induction
      <2>2. QED
        BY <2>1 DEF T

LEMMA HalvedNext ==
    /\ \A n \in Nat : Halved(n, 0) = n
    /\ \A n, b \in Nat : Halved(n, b) \in Nat /\ Halved(n, b + 1) = Halved(n, b) \div 2
    <1> DEFINE body == [x \in Nat |-> x \div 2]
    <1>1. \A x \in Nat : body[x] \in Nat
      OBVIOUS
    <1>2. \A n, b \in Nat : Halved(n, b) = After(b, body, n)
      BY DEF Halved
    <1>3. \A x \in Nat : body[x] = x \div 2
      OBVIOUS
    <1> HIDE DEF body
    <1>4. ASSUME NEW n \in Nat PROVE \A b \in Nat : After(b, body, n) \in Nat
      BY <1>1, AfterInvariant
    <1>5. \A n, b \in Nat : After(b + 1, body, n) = body[After(b, body, n)]
      BY AfterNext
    <1>6. \A n \in Nat : After(0, body, n) = n
      BY AfterStep
    <1>7. \A n, b \in Nat : Halved(n, b) \in Nat /\ Halved(n, b + 1) = Halved(n, b) \div 2
      <2> TAKE n, b \in Nat
      <2>1. Halved(n, b) \in Nat
        BY <1>2, <1>4
      <2>2. Halved(n, b + 1) = body[Halved(n, b)]
        BY <1>2, <1>5
      <2>3. QED
        BY <1>3, <2>1, <2>2
    <1>8. \A n \in Nat : Halved(n, 0) = n
      BY <1>2, <1>6
    <1>9. QED
      BY <1>7, <1>8

\* The lowest bit may be taken off first.
LEMMA HalvedFirst == \A n, b \in Nat : Halved(n, b + 1) = Halved(n \div 2, b)
    <1> SUFFICES ASSUME NEW n \in Nat PROVE \A b \in Nat : Halved(n, b + 1) = Halved(n \div 2, b)
      OBVIOUS
    <1> DEFINE T == {b \in Nat : Halved(n, b + 1) = Halved(n \div 2, b)}
    <1>0. n \div 2 \in Nat
      OBVIOUS
    <1>1. 0 \in T
      <2>1. Halved(n, 0 + 1) = Halved(n, 0) \div 2 /\ Halved(n, 0) = n
        BY HalvedNext
      <2>2. Halved(n \div 2, 0) = n \div 2
        BY <1>0, HalvedNext
      <2>3. QED
        BY <2>1, <2>2
    <1>2. ASSUME NEW b \in Nat, b \in T PROVE b + 1 \in T
      <2>1. Halved(n, b + 1 + 1) = Halved(n, b + 1) \div 2
        BY HalvedNext
      <2>2. Halved(n \div 2, b + 1) = Halved(n \div 2, b) \div 2
        BY <1>0, HalvedNext
      <2>3. QED
        BY <1>2, <2>1, <2>2
    <1>3. QED
      <2> HIDE DEF T
      <2>1. Nat \subseteq T
        BY <1>1, <1>2, Induction
      <2>2. QED
        BY <2>1 DEF T

\* A number below 2^k is 0 once k bits are gone.
LEMMA HalvedAway == \A k \in Nat : \A n \in Nat : n < Pow2(k) => Halved(n, k) = 0
    <1> DEFINE T == {k \in Nat : \A n \in Nat : n < Pow2(k) => Halved(n, k) = 0}
    <1>1. 0 \in T
      BY Pow2Next, HalvedNext
    <1>2. ASSUME NEW k \in Nat, k \in T PROVE k + 1 \in T
      <2> SUFFICES ASSUME NEW n \in Nat, n < Pow2(k + 1) PROVE Halved(n, k + 1) = 0
        OBVIOUS
      <2>1. Pow2(k) \in Nat /\ Pow2(k + 1) = 2 * Pow2(k)
        BY Pow2Type, Pow2Next
      <2>2. n \div 2 \in Nat /\ n \div 2 < Pow2(k)
        BY <2>1
      <2>3. Halved(n \div 2, k) = 0
        BY <1>2, <2>2
      <2>4. QED
        BY <2>3, HalvedFirst
    <1>3. QED
      <2> HIDE DEF T
      <2>1. Nat \subseteq T
        BY <1>1, <1>2, Induction
      <2>2. QED
        BY <2>1 DEF T

LEMMA BitsBelow ==
    ASSUME NEW k \in Nat, NEW n \in Nat, n < Pow2(k)
    PROVE  Bits(n) \in Word /\ Bits(n) \subseteq 0 .. k - 1
    <1>0. Bits(n) \in Word
      BY DEF Bits, Word
    <1>1. ASSUME NEW b \in Bits(n), b >= k PROVE FALSE
      <2>1. b \in Nat /\ Halved(n, b) % 2 = 1
        BY TagPtrAssumption DEF TagPtrAssumption, Bits
      <2>2. Pow2(k) <= Pow2(b)
        BY <1>1, <2>1, Pow2Grows
      <2>3. n < Pow2(b)
        BY <2>1, <2>2, Pow2Type
      <2>4. Halved(n, b) = 0
        BY <2>1, <2>3, HalvedAway
      <2>5. QED
        BY <2>1, <2>4
    <1>2. \A b \in Bits(n) : b \in Nat
      BY TagPtrAssumption DEF TagPtrAssumption, Bits
    <1>3. QED
      BY <1>0, <1>1, <1>2

\* Numbers below 2^k with the same k bits are equal ...
LEMMA SameBits ==
    \A k \in Nat : \A m, n \in Nat :
        /\ m < Pow2(k) /\ n < Pow2(k)
        /\ \A b \in 0 .. k - 1 : Halved(m, b) % 2 = Halved(n, b) % 2
        => m = n
    <1> DEFINE Same(k) ==
                 \A m, n \in Nat :
                    /\ m < Pow2(k) /\ n < Pow2(k)
                    /\ \A b \in 0 .. k - 1 : Halved(m, b) % 2 = Halved(n, b) % 2
                    => m = n
               T == {k \in Nat : Same(k)}
    <1>1. 0 \in T
      BY Pow2Next
    <1>2. ASSUME NEW k \in Nat, k \in T PROVE k + 1 \in T
      <2> SUFFICES ASSUME NEW m \in Nat, NEW n \in Nat, m < Pow2(k + 1), n < Pow2(k + 1),
                          \A b \in 0 .. k : Halved(m, b) % 2 = Halved(n, b) % 2
                   PROVE  m = n
        OBVIOUS
      <2>1. Pow2(k) \in Nat /\ Pow2(k + 1) = 2 * Pow2(k)
        BY Pow2Type, Pow2Next
      <2>2. /\ m \div 2 \in Nat /\ m \div 2 < Pow2(k)
            /\ n \div 2 \in Nat /\ n \div 2 < Pow2(k)
        BY <2>1
      <2>3. \A b \in 0 .. k - 1 : Halved(m \div 2, b) % 2 = Halved(n \div 2, b) % 2
        <3> TAKE b \in 0 .. k - 1
        <3>1. b + 1 \in 0 .. k /\ b \in Nat
          OBVIOUS
        <3>2. Halved(m, b + 1) = Halved(m \div 2, b) /\ Halved(n, b + 1) = Halved(n \div 2, b)
          BY <3>1, HalvedFirst
        <3>3. QED
          BY <3>1, <3>2
      <2>4. m \div 2 = n \div 2
        BY <1>2, <2>2, <2>3
      <2>5. m % 2 = n % 2
        <3>1. Halved(m, 0) = m /\ Halved(n, 0) = n /\ 0 \in 0 .. k
          BY HalvedNext
        <3>2. QED
          BY <3>1
      <2>6. QED
        BY <2>4, <2>5
    <1>3. QED
      <2> HIDE DEF T
      <2>1. Nat \subseteq T
        BY <1>1, <1>2, Induction
      <2>2. QED
        BY <2>1 DEF T

\* ... so the word of a number that fits stands for no other that does.
LEMMA BitsInjective ==
    ASSUME NEW m \in Nat, NEW n \in Nat, m < Pow2(W), n < Pow2(W), Bits(m) = Bits(n)
    PROVE  m = n
    <1>1. W \in Nat
      BY TagPtrAssumption DEF TagPtrAssumption
    <1>2. \A b \in 0 .. W - 1 : Halved(m, b) % 2 \in {0, 1} /\ Halved(n, b) % 2 \in {0, 1}
      <2> TAKE b \in 0 .. W - 1
      <2>1. Halved(m, b) \in Nat /\ Halved(n, b) \in Nat
        BY HalvedNext
      <2>2. QED
        BY <2>1
    <1>3. \A b \in 0 .. W - 1 : Halved(m, b) % 2 = 1 <=> Halved(n, b) % 2 = 1
      BY DEF Bits
    <1>4. \A b \in 0 .. W - 1 : Halved(m, b) % 2 = Halved(n, b) % 2
      BY <1>2, <1>3
    <1>5. QED
      BY <1>1, <1>4, SameBits

(***************************************************************************)
(* Tags.                                                                   *)
(***************************************************************************)

LEMMA TaghType ==
    \A fn \in Fn : Tagh(fn) \in 0 .. LA48_TAGH /\ LaBits(fn) \in 0 .. W /\ LaBits(fn) = W - Tagh(fn)
    BY TagPtrAssumption DEF TagPtrAssumption, Fn, Tagh, LaBits

\* What tp and utp of one kind of paging do with an address and a tag that
\* fits beside it, when the address is aligned to al low bits.
LEMMA TagThenUntag ==
    ASSUME NEW fn \in Fn, NEW al \in Aligns, NEW ptr \in UserPtr(fn), Aligned(ptr, al),
           NEW tag, tag \in Word, tag \subseteq 0 .. al + Tagh(fn) - 1
    PROVE  LET tagged == Tag(fn, ptr, tag)
           IN  /\ tagged \in Word /\ tagged # {}
               /\ Untag(fn, tagged, al) = [tag |-> tag, ptr |-> ptr]
    <1> DEFINE h == Tagh(fn)
               l == LaBits(fn)
               tagged == Tag(fn, ptr, tag)
    <1>1. /\ W \in Nat /\ al \in Nat /\ h \in Nat /\ l \in Nat /\ l = W - h
          /\ al + LA48_TAGH < W /\ h <= LA48_TAGH /\ LA48_TAGH \in Nat
      BY TaghType, TagPtrAssumption DEF TagPtrAssumption
    <1>2. ptr # {} /\ \A b \in ptr : b \in Nat /\ al <= b /\ b < l
      <2>1. ptr \subseteq 0 .. l - 1 /\ ptr # {}
        BY DEF UserPtr
      <2>2. \A b \in ptr : b \notin 0 .. al - 1
        BY DEF Aligned, Low
      <2> HIDE DEF l
      <2>3. QED
        BY <1>1, <2>1, <2>2
    <1>3. \A b \in tag : b \in Nat /\ b < W /\ b < al + h
      <2>1. tag \subseteq 0 .. W - 1 /\ tag \subseteq 0 .. al + h - 1
        BY DEF Word
      <2> HIDE DEF h
      <2>2. QED
        BY <1>1, <2>1
    <1>4. fn = "l" => h = 0
      BY DEF Tagh
    <1> HIDE DEF h, l
    <1>5. \A b : b \in tagged <=>
                    \/ b \in ptr
                    \/ b \in 0 .. al - 1 /\ b + h \in tag
                    \/ b \in l .. W - 1 /\ b - l \in tag
      <2> TAKE b
      <2>1. CASE fn = "l"
        <3>1. tagged = ptr \cup tag /\ h = 0 /\ l = W
          BY <1>1, <1>4, <2>1 DEF Tag
        <3>2. b \in tag <=> b \in 0 .. al - 1 /\ b + h \in tag
          <4>1. \A c \in Nat : c + h = c
            BY <3>1
          <4>2. b \in tag => b \in Nat /\ b \in 0 .. al - 1
            BY <1>1, <1>3, <3>1
          <4>3. QED
            BY <4>1, <4>2
        <3>3. ~(b \in l .. W - 1)
          BY <1>1, <3>1
        <3>4. QED
          BY <3>1, <3>2, <3>3
      <2>2. CASE fn # "l"
        <3>1. tagged = Low(ptr, l) \cup Shr(tag, h) \cup Shl(Low(tag, h), l)
          BY <2>2 DEF Tag, h, l
        <3>2. b \in Low(ptr, l) <=> b \in ptr
          BY <1>1, <1>2 DEF Low
        <3>3. b \in Shr(tag, h) <=> b \in 0 .. al - 1 /\ b + h \in tag
          <4>1. ASSUME b \in Shr(tag, h) PROVE b \in 0 .. al - 1 /\ b + h \in tag
            <5>1. PICK c \in tag \ 0 .. h - 1 : b = c - h
              BY <4>1 DEF Shr
            <5>2. c \in Int /\ b + h = c
              BY <1>1, <1>3, <5>1
            <5>3. QED
              BY <1>1, <1>3, <5>1, <5>2
          <4>2. ASSUME b \in 0 .. al - 1, b + h \in tag PROVE b \in Shr(tag, h)
            <5>1. b + h \in tag \ 0 .. h - 1 /\ b = (b + h) - h
              BY <1>1, <4>2
            <5>2. QED
              BY <5>1 DEF Shr
          <4>3. QED
            BY <4>1, <4>2
        <3>4. b \in Shl(Low(tag, h), l) <=> b \in l .. W - 1 /\ b - l \in tag
          <4>1. ASSUME b \in Shl(Low(tag, h), l) PROVE b \in l .. W - 1 /\ b - l \in tag
            <5>1. PICK c \in Low(tag, h) : b = c + l
              BY <4>1 DEF Shl
            <5>2. c \in tag /\ c \in 0 .. h - 1 /\ b \in 0 .. W - 1
              BY <4>1, <5>1 DEF Low, Shl
            <5>3. QED
              BY <1>1, <5>1, <5>2
          <4>2. ASSUME b \in l .. W - 1, b - l \in tag PROVE b \in Shl(Low(tag, h), l)
            <5>1. b - l \in 0 .. h - 1 /\ b = (b - l) + l /\ b \in 0 .. W - 1
              BY <1>1, <4>2
            <5>2. b - l \in Low(tag, h)
              BY <4>2, <5>1 DEF Low
            <5>3. QED
              BY <5>1, <5>2 DEF Shl
          <4>3. QED
            BY <4>1, <4>2
        <3>5. QED
          BY <3>1, <3>2, <3>3, <3>4
      <2>3. QED
        BY <2>1, <2>2
    <1> HIDE DEF tagged
    <1>6. tagged \in Word /\ tagged # {}
      <2>1. ASSUME NEW b \in tagged PROVE b \in 0 .. W - 1
        <3>1. CASE b \in ptr
          BY <1>1, <1>2, <3>1
        <3>2. CASE b \in 0 .. al - 1
          BY <1>1, <3>2
        <3>3. CASE b \in l .. W - 1
          BY <1>1, <3>3
        <3>4. QED
          BY <1>5, <3>1, <3>2, <3>3
      <2>2. QED
        BY <1>2, <1>5, <2>1 DEF Word
    <1>7. Address(fn, tagged, al) = ptr
      <2>1. Address(fn, tagged, al) = (tagged \ 0 .. al - 1) \cap 0 .. l - 1
        BY DEF Address, Low, l
      <2>2. ASSUME NEW b PROVE b \in (tagged \ 0 .. al - 1) \cap 0 .. l - 1 <=> b \in ptr
        <3>1. b \in ptr => b \notin 0 .. al - 1 /\ b \in 0 .. l - 1
          BY <1>1, <1>2
        <3>2. ~(b \in 0 .. l - 1 /\ b \in l .. W - 1)
          BY <1>1
        <3>3. QED
          BY <1>5, <3>1, <3>2
      <2>3. QED
        BY <2>1, <2>2
    <1>8. Untag(fn, tagged, al).tag = tag
      <2>1. CASE fn = "l"
        <3>1. Untag(fn, tagged, al).tag = tagged \cap 0 .. al - 1 /\ h = 0 /\ l = W
          BY <1>1, <1>4, <2>1 DEF Untag, Low
        <3>2. ASSUME NEW b PROVE b \in tagged \cap 0 .. al - 1 <=> b \in tag
          <4>1. b \in ptr => b \notin 0 .. al - 1
            BY <1>1, <1>2
          <4>2. b \notin l .. W - 1
            BY <1>1, <3>1
          <4>3. \A c \in Nat : c + h = c
            BY <3>1
          <4>4. b \in tag => b \in Nat /\ b \in 0 .. al - 1
            BY <1>1, <1>3, <3>1
          <4>5. QED
            BY <1>5, <4>1, <4>2, <4>3, <4>4
        <3>3. QED
          BY <3>1, <3>2
      <2>2. CASE fn # "l"
        <3> DEFINE low == Low(tagged, al)
        <3>1. Untag(fn, tagged, al).tag = Shr(tagged, l) \cup Shl(low, h)
          BY <2>2 DEF Untag, l, h
        <3>2. ASSUME NEW b PROVE b \in Shr(tagged, l) <=> b \in 0 .. h - 1 /\ b \in tag
          <4>1. ASSUME b \in Shr(tagged, l) PROVE b \in 0 .. h - 1 /\ b \in tag
            <5>1. PICK c \in tagged \ 0 .. l - 1 : b = c - l
              BY <4>1 DEF Shr
            <5>2. c \in l .. W - 1 /\ c - l \in tag
              <6>1. c \notin ptr /\ c \notin 0 .. al - 1
                BY <1>1, <1>2, <5>1
              <6>2. QED
                BY <1>5, <5>1, <6>1
            <5>3. QED
              BY <1>1, <5>1, <5>2
          <4>2. ASSUME b \in 0 .. h - 1, b \in tag PROVE b \in Shr(tagged, l)
            <5>1. b + l \in l .. W - 1 /\ (b + l) - l = b
              BY <1>1, <4>2
            <5>2. b + l \in tagged \ 0 .. l - 1
              BY <1>1, <1>5, <4>2, <5>1
            <5>3. QED
              BY <5>1, <5>2 DEF Shr
          <4>3. QED
            BY <4>1, <4>2
        <3>3. ASSUME NEW b PROVE b \in Shl(low, h) <=> b \notin 0 .. h - 1 /\ b \in tag
          <4>1. ASSUME b \in Shl(low, h) PROVE b \notin 0 .. h - 1 /\ b \in tag
            <5>1. PICK c \in low : b = c + h
              BY <4>1 DEF Shl
            <5>2. c \in tagged /\ c \in 0 .. al - 1
              BY <5>1 DEF Low
            <5>3. c + h \in tag
              BY <1>1, <1>2, <1>5, <5>2
            <5>4. QED
              BY <1>1, <5>1, <5>2, <5>3
          <4>2. ASSUME b \notin 0 .. h - 1, b \in tag PROVE b \in Shl(low, h)
            <5>1. b - h \in 0 .. al - 1 /\ (b - h) + h = b /\ b \in 0 .. W - 1
              BY <1>1, <1>3, <4>2
            <5>2. b - h \in low
              BY <1>5, <4>2, <5>1 DEF Low
            <5>3. QED
              BY <5>1, <5>2 DEF Shl
          <4>3. QED
            BY <4>1, <4>2
        <3>4. QED
          BY <3>1, <3>2, <3>3
      <2>3. QED
        BY <2>1, <2>2
    <1>9. Untag(fn, tagged, al) = [tag |-> tag, ptr |-> ptr]
      BY <1>7, <1>8 DEF Untag
    <1>10. QED
      BY <1>6, <1>9 DEF tagged

LEMMA MaxTagIs ==
    ASSUME NEW al \in Aligns, NEW fn \in Fn
    PROVE  /\ MaxTag(al, Tagh(fn)) = Pow2(al + Tagh(fn)) /\ al + Tagh(fn) \in 0 .. W - 1
           /\ Pow2(al + Tagh(fn)) \in Nat \ {0} /\ Pow2(al + Tagh(fn)) <= Pow2(W)
    <1>1. al + Tagh(fn) \in 0 .. W - 1 /\ W \in Nat
      BY TaghType, TagPtrAssumption DEF TagPtrAssumption
    <1>2. QED
      BY <1>1, Pow2Type, Pow2Grows DEF MaxTag

\* The three values a thread finds after iel_tp_init fit each other.
LEMMA ConsistentRoundTrips == \A fn \in Fn : <<fn, fn, Tagh(fn)>> \in RoundTrips
    <1> TAKE fn \in Fn
    <1>1. Tagh(fn) \in {0, LA48_TAGH, LA57_TAGH}
      BY DEF Tagh, Fn
    <1>2. TripsBack(fn, fn, Tagh(fn)) => <<fn, fn, Tagh(fn)>> \in RoundTrips
      <2> DEFINE S == Fn \X Fn \X {0, LA48_TAGH, LA57_TAGH}
                 s == <<fn, fn, Tagh(fn)>>
                 part == [x \in S |-> IF TripsBack(x[1], x[2], x[3]) THEN {x} ELSE {}]
      <2>1. s \in S
        BY <1>1
      <2>2. TripsBack(fn, fn, Tagh(fn)) => s \in part[s]
        BY <2>1
      <2>3. QED
        BY <2>1, <2>2 DEF RoundTrips
    <1>3. ASSUME NEW al \in Aligns
          PROVE  /\ MaxTag(al, Tagh(fn)) > 0
                 /\ \A more \in {a \in Aligns : a >= al}, tag \in 0 .. MaxTag(al, Tagh(fn)) - 1 :
                       \A ptr \in {p \in UserPtr(fn) : Aligned(p, more)} :
                           LET tagged == Tag(fn, ptr, Bits(tag))
                           IN  /\ tagged # {}
                               /\ Untag(fn, tagged, more) = [tag |-> Bits(tag), ptr |-> ptr]
      <2>1. MaxTag(al, Tagh(fn)) > 0
        BY MaxTagIs
      <2>2. ASSUME NEW more \in {a \in Aligns : a >= al},
                   NEW tag \in 0 .. MaxTag(al, Tagh(fn)) - 1,
                   NEW ptr \in {p \in UserPtr(fn) : Aligned(p, more)}
            PROVE  LET tagged == Tag(fn, ptr, Bits(tag))
                   IN  /\ tagged # {}
                       /\ Untag(fn, tagged, more) = [tag |-> Bits(tag), ptr |-> ptr]
        <3>1. /\ al \in Nat /\ more \in Nat /\ more >= al /\ more \in Aligns /\ Tagh(fn) \in Nat
              /\ tag \in Nat
          BY TaghType, TagPtrAssumption DEF TagPtrAssumption
        <3>2. tag < Pow2(al + Tagh(fn)) /\ Pow2(al + Tagh(fn)) \in Nat
          BY MaxTagIs
        <3>3. Bits(tag) \in Word /\ Bits(tag) \subseteq 0 .. al + Tagh(fn) - 1
          BY <3>1, <3>2, BitsBelow
        <3>4. Bits(tag) \subseteq 0 .. more + Tagh(fn) - 1
          BY <3>1, <3>3
        <3>5. QED
          BY <3>1, <3>3, <3>4, TagThenUntag
      <2>3. QED
        BY <2>1, <2>2
    <1>4. TripsBack(fn, fn, Tagh(fn))
      BY <1>3 DEF TripsBack
    <1>5. QED
      BY <1>2, <1>4

(***************************************************************************)
(* The invariant.                                                          *)
(***************************************************************************)

\* What a thread has stored, and so what it finds once it is ready, although
\* others are within iel_tp_init.
TpInv ==
    /\ cpu \in {"noleaf", "48", "57", "other"}
    /\ at \in [Thread -> {"new", "utp", "max", "ready"}]
    /\ \A t \in Thread :
          /\ at[t] # "new" => tp_v = Picked
          /\ at[t] \in {"max", "ready"} => utp_v = Picked
          /\ at[t] = "ready" => maxtag_shl = Tagh(Picked)
    /\ maxtag_shl \in {0, Tagh(Picked)}

\* TagMax once main is ready.
Limit == MaxTag(Al, Tagh(Picked))

\* The words of the tags below n.
Tags(n) == {Bits(t) : t \in 0 .. n - 1}

Object == Addr \cap UserPtr(Picked)
Entry == [tag : Tags(Limit), ptr : Object]

\* The queue q holds the tagged pointers of what was sent.
Carries(q, s) ==
    /\ s \in Seq(Entry) /\ q \in Seq(Word) /\ Len(q) = Len(s)
    /\ \A k \in 1 .. Len(s) : q[k] = Tag(Picked, s[k].ptr, s[k].tag)

TagInv ==
    /\ phase # "main" => at[Main] = "ready"
    /\ Carries(soonque, sent)
    /\ filling \in [obj : {{}} \cup Object, tag : Nat, i : 0 .. NSoon]
    /\ filling.obj # {} => filling.tag < Limit
    /\ phase = "soon" => filling.i < NSoon
    /\ phase \in {"main", "read", "connect"} =>
          sent = <<>> /\ soonlive = {} /\ filling = [obj |-> {}, tag |-> 0, i |-> 0]
    /\ soonlive \subseteq Object

Again == Bits(AgainTag)
Free == Bits(FreeTag)

\* An object is freed by the last task that is sent with it, which follows
\* the only one that can send another.
LastFrees ==
    /\ ~wild
    /\ \A k \in 1 .. Len(sent) : sent[k].ptr \in soonlive
    /\ \A j, k \in 1 .. Len(sent) :
          j # k /\ sent[j].ptr = sent[k].ptr =>
              /\ sent[j].tag = Again => sent[k].tag \notin {Again, Free}
              /\ j < k => sent[j].tag # Free

\* While the queue is being filled its tags are those counted so far.
FillingSoon ==
    phase = "soon" =>
        /\ filling.tag <= filling.i
        /\ \A k \in 1 .. Len(sent) : sent[k].tag \in Tags(filling.i)
        /\ filling.obj # {} =>
              /\ filling.obj \in soonlive
              /\ \A k \in 1 .. Len(sent) :
                    sent[k].ptr = filling.obj => sent[k].tag \in Tags(filling.tag)

\* When there is room for AgainTag one object takes all the tasks, and each
\* object will be freed.
WillBeFreed ==
    AgainTag < Limit =>
        /\ phase = "soon" => IF filling.obj = {} THEN soonlive = {} /\ filling.i = 0
                             ELSE filling.tag = filling.i
        /\ \A obj \in soonlive :
              \/ phase = "soon" /\ obj = filling.obj /\ filling.tag <= AgainTag
              \/ \E k \in 1 .. Len(sent) : sent[k].ptr = obj /\ sent[k].tag \in {Again, Free}

SoonInv == ~early => LastFrees /\ FillingSoon /\ WillBeFreed

Copying == calls["onread"] = 1 \/ calls["onwrite"] = 1
Echoing == calls["echo_read"] = 1 \/ calls["echo_write"] = 1
Connected == calls["dowrite"] = 1 \/ calls["doread"] = 1 \/ calls["vfy"] = 1

\* Each of the three chains of callbacks and the timer have at most one
\* request outstanding, and exactly what that needs is allocated.
MemInv ==
    /\ calls \in [Callback -> 0 .. 1]
    /\ ~(calls["onread"] = 1 /\ calls["onwrite"] = 1)
    /\ ~(calls["echo_read"] = 1 /\ calls["echo_write"] = 1)
    /\ ~(calls["dowrite"] = 1 /\ calls["doread"] = 1)
    /\ ~(calls["dowrite"] = 1 /\ calls["vfy"] = 1)
    /\ ~(calls["doread"] = 1 /\ calls["vfy"] = 1)
    /\ broken => ~Copying
    /\ live \subseteq {"rd", "rdbuf", "wr", "timer", "echo", "echobuf", "conn", "connbuf"}
    /\ "rd" \in live <=> Copying \/ broken
    /\ "rdbuf" \in live <=> Copying \/ broken
    /\ "wr" \in live <=> calls["onwrite"] = 1
    /\ "timer" \in live <=> calls["ontimer"] = 1 \/ phase \in {"soon", "timer"}
    /\ "echo" \in live <=> Echoing
    /\ Echoing => "echobuf" \in live
    /\ phase \notin {"loop", "out"} => "echobuf" \notin live
    /\ "conn" \in live <=> Connected
    /\ "connbuf" \in live <=> Connected
    /\ phase \in {"main", "read", "connect"} => ~Copying /\ ~broken
    /\ phase \in {"main", "read", "connect", "soon", "timer"} => calls["ontimer"] = 0
    /\ phase \notin {"loop", "out"} => ~Echoing /\ ~Connected

\* Until a call of those that early names fails, pcb->buf is the buffer, and
\* the buffer goes with the echo.
BufInv ==
    ~early => echo.buf = "echobuf" /\ ("echobuf" \in live => Echoing)

\* The echo has one socket, first the listening one and then the peer; the
\* kernel refuses to give up each of them at most once.
NetInv ==
    /\ net \in [open : SUBSET {"listen", "peer", "conn"}, table : SUBSET {"listen", "peer"},
                stuck : SUBSET {"listen", "peer"}]
    /\ echo \in [rstate : {"A", "W"}, raw : {"none", "listen", "peer"}, reg : BOOLEAN,
                 buf : {"echobuf", "nowhere"}]
    /\ SocketsOwned
    /\ "echo" \in live => echo.raw # "none" /\ (echo.rstate = "A" <=> echo.raw = "listen")
    /\ "echo" \notin live => echo = NoEcho
    /\ echo.raw = "listen" \/ phase \notin {"loop", "out"} => net.stuck = {}
    /\ echo.raw = "peer" => "peer" \notin net.stuck

Types ==
    /\ phase \in {"main", "read", "soon", "timer", "serve", "connect", "loop", "out"}
    /\ {stop, wild, early, broken} \subseteq BOOLEAN

ClientInv == Types /\ TpInv /\ TagInv /\ SoonInv /\ MemInv /\ BufInv /\ NetInv

(***************************************************************************)
(* iel_tp_init.                                                            *)
(***************************************************************************)

LEMMA PickedType == Picked \in Fn
    BY DEF Picked, Fn

LEMMA PickedStays ==
    ASSUME cpu' = cpu
    PROVE  Picked' = Picked
    BY DEF Picked

LEMMA TpInvInit == ClientInit => TpInv
    BY DEF ClientInit, TpInit, TpInv

LEMMA TpInvNext ==
    ASSUME TpInv, \/ \E t \in Thread : Initialise(t)
                  \/ UNCHANGED tpVars
    PROVE  TpInv' /\ Picked' = Picked
    <1>1. cpu' = cpu
      BY DEF Initialise, StoreTp, StoreUtp, StoreMax, tpVars
    <1>2. Picked' = Picked
      BY <1>1, PickedStays
    <1>3. ASSUME NEW t \in Thread, StoreTp(t) PROVE TpInv'
      BY <1>1, <1>2, <1>3 DEF TpInv, StoreTp
    <1>4. ASSUME NEW t \in Thread, StoreUtp(t) PROVE TpInv'
      BY <1>1, <1>2, <1>4 DEF TpInv, StoreUtp
    <1>5. ASSUME NEW t \in Thread, StoreMax(t) PROVE TpInv'
      <2>1. Picked = "l" => Tagh(Picked) = 0
        BY DEF Tagh
      <2>2. maxtag_shl' = Tagh(Picked)
        BY <1>5, <2>1 DEF TpInv, StoreMax
      <2>3. QED
        BY <1>1, <1>2, <1>5, <2>2 DEF TpInv, StoreMax
    <1>6. CASE UNCHANGED tpVars
      BY <1>2, <1>6 DEF TpInv, tpVars
    <1>7. QED
      BY <1>2, <1>3, <1>4, <1>5, <1>6 DEF Initialise

\* What a thread that is ready uses.
LEMMA ReadyUses ==
    ASSUME TpInv, NEW t \in Thread, at[t] = "ready"
    PROVE  tp_v = Picked /\ utp_v = Picked /\ maxtag_shl = Tagh(Picked)
    BY DEF TpInv

LEMMA TpInvRoundTrip == TpInv => RoundTrip
    <1> SUFFICES ASSUME TpInv, NEW t \in Thread, at[t] = "ready"
                 PROVE  <<tp_v, utp_v, maxtag_shl>> \in RoundTrips
      BY DEF RoundTrip
    <1>1. tp_v = Picked /\ utp_v = Picked /\ maxtag_shl = Tagh(Picked)
      BY ReadyUses
    <1>2. QED
      BY <1>1, PickedType, ConsistentRoundTrips

\* Every action of the client leaves what iel_tp_init stored alone.
LEMMA ClientLeavesTp ==
    ASSUME [ClientNext]_vars
    PROVE  \/ \E t \in Thread : Initialise(t)
           \/ UNCHANGED tpVars
    <1>1. CASE UNCHANGED vars
      BY <1>1 DEF vars
    <1>2. CASE Start \/ AmainRead \/ SoonAlloc \/ SoonFill \/ AmainTimer \/ AmainServe \/ AmainConnect
      BY <1>2 DEF Start, AmainRead, SoonAlloc, SoonFill, AmainTimer, AmainServe, AmainConnect
    <1>3. CASE Called
      BY <1>3 DEF Called, OnRead, OnWrite, OnTimer, RunSoon, EchoAccepted, EchoSent, EchoReceived,
                  EchoFails, OnConnect
    <1>4. CASE Leave
      BY <1>4 DEF Leave
    <1>5. QED
      BY <1>1, <1>2, <1>3, <1>4 DEF ClientNext

(***************************************************************************)
(* Memory.                                                                 *)
(***************************************************************************)

LEMMA MemInvInit == ClientInit => MemInv
    BY DEF ClientInit, MemInv, Callback, Copying, Echoing, Connected

LEMMA BufInvInit == ClientInit => BufInv
    BY DEF ClientInit, BufInv, NoEcho

LEMMA CallEnds ==
    ASSUME MemInv, NEW a \in Callback, calls[a] > 0, Calls({a}, {})
    PROVE  /\ calls[a] = 1 /\ calls' \in [Callback -> 0 .. 1] /\ calls'[a] = 0
           /\ \A cb \in Callback \ {a} : calls'[cb] = calls[cb]
    BY DEF MemInv, Calls

LEMMA CallMoves ==
    ASSUME MemInv, NEW a \in Callback, NEW b \in Callback, a # b,
           calls[a] > 0, calls[b] = 0, Calls({a}, {b})
    PROVE  /\ calls[a] = 1 /\ calls' \in [Callback -> 0 .. 1] /\ calls'[a] = 0 /\ calls'[b] = 1
           /\ \A cb \in Callback \ {a, b} : calls'[cb] = calls[cb]
    BY DEF MemInv, Calls

LEMMA CallStarts ==
    ASSUME MemInv, NEW b \in Callback, calls[b] = 0, Calls({}, {b})
    PROVE  /\ calls' \in [Callback -> 0 .. 1] /\ calls'[b] = 1
           /\ \A cb \in Callback \ {b} : calls'[cb] = calls[cb]
    BY DEF MemInv, Calls

LEMMA CallsStay ==
    ASSUME MemInv, Calls({}, {})
    PROVE  calls' = calls
    BY DEF MemInv, Calls

LEMMA MemoryIs ==
    ASSUME Types, NEW new, NEW used, NEW old, Memory(new, used, old),
           used \cup old \subseteq live \cup new
    PROVE  live' = (live \cup new) \ old /\ wild' = wild
    BY DEF Types, Memory

LEMMA OnReadMem ==
    ASSUME Types, MemInv, OnRead
    PROVE  MemInv' /\ wild' = wild
    <1>1. calls["onread"] > 0 /\ phase = "loop" /\ phase' = phase
      BY DEF OnRead
    <1>2. CASE ReadEnds({"onread"}, {})
      <2>1. /\ Calls({"onread"}, {}) /\ Memory({}, Mem("onread"), {"rd", "rdbuf"} \cup {})
            /\ broken' = broken
        BY <1>2 DEF ReadEnds
      <2>2. /\ calls["onread"] = 1 /\ calls' \in [Callback -> 0 .. 1] /\ calls'["onread"] = 0
            /\ \A cb \in Callback \ {"onread"} : calls'[cb] = calls[cb]
        BY <1>1, <2>1, CallEnds DEF Callback
      <2>3. Mem("onread") \cup ({"rd", "rdbuf"} \cup {}) \subseteq live \cup {}
        BY <2>2 DEF MemInv, Mem, Copying
      <2>4. live' = live \ {"rd", "rdbuf"} /\ wild' = wild
        BY <2>1, <2>3, MemoryIs
      <2>5. QED
        BY <1>1, <2>1, <2>2, <2>4 DEF MemInv, Callback, Copying, Echoing, Connected
    <1>3. CASE /\ Calls({"onread"}, {"onwrite"}) /\ Memory({"wr"}, Mem("onwrite"), {})
               /\ broken' = broken
      <2>1. calls["onwrite"] = 0
        BY <1>1 DEF MemInv, Callback
      <2>2. /\ calls["onread"] = 1 /\ calls' \in [Callback -> 0 .. 1]
            /\ calls'["onread"] = 0 /\ calls'["onwrite"] = 1
            /\ \A cb \in Callback \ {"onread", "onwrite"} : calls'[cb] = calls[cb]
        BY <1>1, <1>3, <2>1, CallMoves DEF Callback
      <2>3. Mem("onwrite") \cup {} \subseteq live \cup {"wr"}
        BY <2>2 DEF MemInv, Mem, Copying
      <2>4. live' = live \cup {"wr"} /\ wild' = wild
        BY <1>3, <2>3, MemoryIs
      <2>5. QED
        BY <1>1, <1>3, <2>2, <2>4 DEF MemInv, Callback, Copying, Echoing, Connected
    <1>4. CASE /\ Calls({"onread"}, {}) /\ Memory({"wr"}, Mem("onwrite"), {"wr"})
               /\ broken' = TRUE
      <2>2. /\ calls["onread"] = 1 /\ calls' \in [Callback -> 0 .. 1] /\ calls'["onread"] = 0
            /\ \A cb \in Callback \ {"onread"} : calls'[cb] = calls[cb]
        BY <1>1, <1>4, CallEnds DEF Callback
      <2>3. Mem("onwrite") \cup {"wr"} \subseteq live \cup {"wr"} /\ "wr" \notin live
        BY <2>2 DEF MemInv, Mem, Copying, Callback
      <2>4. live' = live /\ wild' = wild
        BY <1>4, <2>3, MemoryIs
      <2>5. QED
        BY <1>1, <1>4, <2>2, <2>4 DEF MemInv, Callback, Copying, Echoing, Connected
    <1>5. QED
      BY <1>2, <1>3, <1>4 DEF OnRead

LEMMA OnWriteMem ==
    ASSUME Types, MemInv, OnWrite
    PROVE  MemInv' /\ wild' = wild
    <1>1. calls["onwrite"] > 0 /\ phase = "loop" /\ phase' = phase
      BY DEF OnWrite
    <1>2. CASE /\ Calls({"onwrite"}, {"onread"}) /\ Memory({}, Mem("onwrite"), Written)
               /\ broken' = broken
      <2>1. calls["onread"] = 0
        BY <1>1 DEF MemInv, Callback
      <2>2. /\ calls["onwrite"] = 1 /\ calls' \in [Callback -> 0 .. 1]
            /\ calls'["onwrite"] = 0 /\ calls'["onread"] = 1
            /\ \A cb \in Callback \ {"onread", "onwrite"} : calls'[cb] = calls[cb]
        BY <1>1, <1>2, <2>1, CallMoves DEF Callback
      <2>3. Mem("onwrite") \cup Written \subseteq live \cup {}
        BY <2>2 DEF MemInv, Mem, Copying, Written
      <2>4. live' = live \ {"wr"} /\ wild' = wild
        BY <1>2, <2>3, MemoryIs DEF Written
      <2>5. QED
        BY <1>1, <1>2, <2>2, <2>4 DEF MemInv, Callback, Copying, Echoing, Connected
    <1>3. CASE ReadEnds({"onwrite"}, Written)
      <2>1. /\ Calls({"onwrite"}, {}) /\ Memory({}, Mem("onread"), {"rd", "rdbuf"} \cup Written)
            /\ broken' = broken
        BY <1>3 DEF ReadEnds
      <2>2. /\ calls["onwrite"] = 1 /\ calls' \in [Callback -> 0 .. 1] /\ calls'["onwrite"] = 0
            /\ \A cb \in Callback \ {"onwrite"} : calls'[cb] = calls[cb]
        BY <1>1, <2>1, CallEnds DEF Callback
      <2>3. Mem("onread") \cup ({"rd", "rdbuf"} \cup Written) \subseteq live \cup {}
        BY <2>2 DEF MemInv, Mem, Copying, Written
      <2>4. live' = live \ {"rd", "rdbuf", "wr"} /\ wild' = wild
        BY <2>1, <2>3, MemoryIs DEF Written
      <2>5. QED
        BY <1>1, <2>1, <2>2, <2>4 DEF MemInv, Callback, Copying, Echoing, Connected
    <1>4. CASE Calls({"onwrite"}, {}) /\ Memory({}, {"wr"}, {"wr"}) /\ broken' = TRUE
      <2>2. /\ calls["onwrite"] = 1 /\ calls' \in [Callback -> 0 .. 1] /\ calls'["onwrite"] = 0
            /\ \A cb \in Callback \ {"onwrite"} : calls'[cb] = calls[cb]
        BY <1>1, <1>4, CallEnds DEF Callback
      <2>3. {"wr"} \cup {"wr"} \subseteq live \cup {}
        BY <2>2 DEF MemInv
      <2>4. live' = live \ {"wr"} /\ wild' = wild
        BY <1>4, <2>3, MemoryIs
      <2>5. QED
        BY <1>1, <1>4, <2>2, <2>4 DEF MemInv, Callback, Copying, Echoing, Connected
    <1>5. QED
      BY <1>2, <1>3, <1>4 DEF OnWrite

LEMMA OnTimerMem ==
    ASSUME Types, MemInv, OnTimer
    PROVE  MemInv' /\ wild' = wild
    <1>1. /\ calls["ontimer"] > 0 /\ phase = "loop" /\ phase' = phase /\ broken' = broken
          /\ Calls({"ontimer"}, {}) /\ Memory({}, {"timer"}, {"timer"})
      BY DEF OnTimer
    <1>2. /\ calls["ontimer"] = 1 /\ calls' \in [Callback -> 0 .. 1] /\ calls'["ontimer"] = 0
          /\ \A cb \in Callback \ {"ontimer"} : calls'[cb] = calls[cb]
      BY <1>1, CallEnds DEF Callback
    <1>3. {"timer"} \cup {"timer"} \subseteq live \cup {}
      BY <1>2 DEF MemInv
    <1>4. live' = live \ {"timer"} /\ wild' = wild
      BY <1>1, <1>3, MemoryIs
    <1>5. QED
      BY <1>1, <1>2, <1>4 DEF MemInv, Callback, Copying, Echoing, Connected

\* A request of the echo that ends the echo or is followed by the other one.
LEMMA EchoMem ==
    ASSUME Types, MemInv, phase = "loop", phase' = phase, broken' = broken,
           NEW a \in {"echo_read", "echo_write"}, calls[a] > 0,
           NEW e, e.buf \in {"echobuf", "nowhere"},
           \/ Calls({a}, {}) /\ Memory({}, {}, PcbMem(e))
           \/ \E b \in {"echo_read", "echo_write"} \ {a} : Calls({a}, {b}) /\ Memory({}, PcbMem(e), {})
    PROVE  /\ MemInv'
           /\ e.buf = "echobuf" => wild' = wild /\ ("echobuf" \in live' => Echoing')
    <1>1. a \in Callback /\ calls[a] = 1 /\ Echoing /\ {"echo", "echobuf"} \subseteq live
      BY DEF MemInv, Callback, Echoing
    <1>2. e.buf = "echobuf" => PcbMem(e) \subseteq live
      BY <1>1 DEF PcbMem
    <1>3. CASE Calls({a}, {}) /\ Memory({}, {}, PcbMem(e))
      <2>1. /\ calls' \in [Callback -> 0 .. 1] /\ calls'[a] = 0
            /\ \A cb \in Callback \ {a} : calls'[cb] = calls[cb]
        BY <1>1, <1>3, CallEnds
      <2>2. live' = live \ {"echo", e.buf}
        BY <1>3 DEF Memory, PcbMem
      <2>3. e.buf = "echobuf" => wild' = wild
        BY <1>2, <1>3, MemoryIs
      <2>4. MemInv'
        <3>1. CASE e.buf = "echobuf"
          BY <1>1, <2>1, <2>2, <3>1 DEF MemInv, Callback, Copying, Echoing, Connected
        <3>2. CASE e.buf = "nowhere"
          <4>1. live' = live \ {"echo"}
            BY <2>2, <3>2 DEF MemInv
          <4>2. QED
            BY <1>1, <2>1, <4>1 DEF MemInv, Callback, Copying, Echoing, Connected
        <3>3. QED
          BY <3>1, <3>2
      <2>5. QED
        BY <2>2, <2>3, <2>4
    <1>4. ASSUME NEW b \in {"echo_read", "echo_write"} \ {a},
                 Calls({a}, {b}), Memory({}, PcbMem(e), {})
          PROVE  /\ MemInv' /\ Echoing'
                 /\ e.buf = "echobuf" => wild' = wild
      <2>1. b \in Callback /\ calls[b] = 0
        BY <1>1 DEF MemInv, Callback
      <2>2. /\ calls' \in [Callback -> 0 .. 1] /\ calls'[a] = 0 /\ calls'[b] = 1
            /\ \A cb \in Callback \ {a, b} : calls'[cb] = calls[cb]
        BY <1>1, <1>4, <2>1, CallMoves
      <2>3. live' = live
        BY <1>4 DEF Memory
      <2>4. e.buf = "echobuf" => wild' = wild
        BY <1>2, <1>4, MemoryIs
      <2>5. MemInv'
        BY <1>1, <2>2, <2>3 DEF MemInv, Callback, Copying, Echoing, Connected
      <2>6. Echoing'
        BY <2>2 DEF Echoing
      <2>7. QED
        BY <2>4, <2>5, <2>6
    <1>5. QED
      BY <1>3, <1>4

\* What Registered gives: the pointer is lost exactly when the kernel refuses.
LEMMA RegisteredIs ==
    ASSUME NEW st, NEW s, NEW buf, NEW r \in BOOLEAN, NEW refused \in BOOLEAN
    PROVE  LET e == Registered(st, s, buf, r, refused)
           IN  /\ e = [rstate |-> st, raw |-> s, reg |-> e.reg, buf |-> e.buf]
               /\ e.rstate = st /\ e.raw = s /\ e.reg \in BOOLEAN
               /\ e.buf = IF refused THEN "nowhere" ELSE buf
    BY DEF Registered

LEMMA EchoStepsMem ==
    ASSUME Types, MemInv, BufInv, NetInv,
           EchoAccepted \/ EchoSent \/ EchoReceived \/ EchoFails
    PROVE  /\ MemInv' /\ BufInv'
           /\ wild' = wild \/ early'
    <1>1. phase = "loop" /\ phase' = phase /\ broken' = broken
      BY DEF EchoAccepted, EchoSent, EchoReceived, EchoFails
    <1>2. echo.buf \in {"echobuf", "nowhere"} /\ (~early => echo.buf = "echobuf")
      BY DEF BufInv, NetInv
    <1>3. NoEcho.buf = "echobuf" /\ early \in BOOLEAN
      BY DEF NoEcho, Types
    <1>4. ASSUME NEW a \in {"echo_read", "echo_write"}, calls[a] > 0,
                 NEW e, e.buf \in {"echobuf", "nowhere"}, ~early' => ~early /\ e.buf = "echobuf",
                 NEW n,
                 \/ \E b \in {"echo_read", "echo_write"} \ {a} : EchoGoesOn(n, {a}, b, {}, e)
                 \/ EchoEnds(n, {a}, {}, e)
          PROVE  /\ MemInv' /\ BufInv'
                 /\ wild' = wild \/ early'
      <2>1. /\ MemInv'
            /\ e.buf = "echobuf" => wild' = wild /\ ("echobuf" \in live' => Echoing')
        BY <1>1, <1>4, EchoMem DEF EchoGoesOn, EchoEnds
      <2>2. echo' \in {e, NoEcho}
        BY <1>4 DEF EchoGoesOn, EchoEnds
      <2>3. QED
        BY <1>3, <1>4, <2>1, <2>2 DEF BufInv
    <1>5. CASE EchoAccepted
      <2>1. PICK n \in Closed(net, Replaced, echo.reg), r \in BOOLEAN, refused \in BOOLEAN :
               LET e == Registered("W", "peer", echo.buf, r, refused)
               IN  /\ EchoGoesOn(Opened(n, "peer", e.reg), {"echo_read"}, "echo_write", {}, e)
                   /\ early' = (early \/ refused)
        BY <1>5 DEF EchoAccepted
      <2> DEFINE e == Registered("W", "peer", echo.buf, r, refused)
      <2>2. e.buf = IF refused THEN "nowhere" ELSE echo.buf
        BY RegisteredIs
      <2>3. EchoGoesOn(Opened(n, "peer", e.reg), {"echo_read"}, "echo_write", {}, e)
        BY <2>1
      <2> HIDE DEF e
      <2>4. calls["echo_read"] > 0
        BY <1>5 DEF EchoAccepted
      <2>5. e.buf \in {"echobuf", "nowhere"} /\ (~early' => ~early /\ e.buf = "echobuf")
        BY <1>2, <1>3, <2>1, <2>2
      <2>6. QED
        BY <1>4, <2>3, <2>4, <2>5
    <1>6. CASE EchoSent
      BY <1>2, <1>4, <1>6 DEF EchoSent
    <1>7. CASE EchoReceived
      BY <1>2, <1>4, <1>7 DEF EchoReceived
    <1>8. CASE EchoFails
      BY <1>2, <1>4, <1>8 DEF EchoFails
    <1>9. QED
      BY <1>5, <1>6, <1>7, <1>8

LEMMA OnConnectMem ==
    ASSUME Types, MemInv,
           \/ OnConnect("dowrite", {"doread"})
           \/ OnConnect("doread", {"vfy"})
           \/ OnConnect("vfy", {})
    PROVE  MemInv' /\ wild' = wild
    <1>1. ASSUME NEW a \in {"dowrite", "doread", "vfy"}, phase = "loop", phase' = phase,
                 broken' = broken, calls[a] > 0, ConnEnds({a})
          PROVE  MemInv' /\ wild' = wild
      <2>1. /\ a \in Callback /\ calls[a] = 1 /\ Connected
            /\ Calls({a}, {}) /\ Memory({}, Mem("vfy"), {"conn", "connbuf"})
        BY <1>1 DEF MemInv, Callback, Connected, ConnEnds
      <2>2. /\ calls' \in [Callback -> 0 .. 1] /\ calls'[a] = 0
            /\ \A cb \in Callback \ {a} : calls'[cb] = calls[cb]
        BY <1>1, <2>1, CallEnds
      <2>3. Mem("vfy") \cup {"conn", "connbuf"} \subseteq live \cup {}
        BY <2>1 DEF MemInv, Mem
      <2>4. live' = live \ {"conn", "connbuf"} /\ wild' = wild
        BY <2>1, <2>3, MemoryIs
      <2>5. QED
        BY <1>1, <2>1, <2>2, <2>4 DEF MemInv, Callback, Copying, Echoing, Connected
    <1>2. ASSUME NEW a \in {"dowrite", "doread"}, NEW b \in {"doread", "vfy"}, a # b,
                 phase = "loop", phase' = phase, broken' = broken, calls[a] > 0,
                 Calls({a}, {b}), Memory({}, Mem(a), {})
          PROVE  MemInv' /\ wild' = wild
      <2>1. a \in Callback /\ calls[a] = 1 /\ Connected /\ b \in Callback /\ calls[b] = 0
        BY <1>2 DEF MemInv, Callback, Connected
      <2>2. /\ calls' \in [Callback -> 0 .. 1] /\ calls'[a] = 0 /\ calls'[b] = 1
            /\ \A cb \in Callback \ {a, b} : calls'[cb] = calls[cb]
        BY <1>2, <2>1, CallMoves
      <2>3. Mem(a) \cup {} \subseteq live \cup {}
        BY <2>1 DEF MemInv, Mem
      <2>4. live' = live /\ wild' = wild
        <3>1. Memory({}, Mem(a), {})
          BY <1>2
        <3>2. live' = (live \cup {}) \ {} /\ wild' = wild
          BY <2>3, <3>1, MemoryIs
        <3>3. QED
          BY <3>2
      <2>5. QED
        BY <1>2, <2>1, <2>2, <2>4 DEF MemInv, Callback, Copying, Echoing, Connected
    <1>3. CASE OnConnect("dowrite", {"doread"})
      BY <1>1, <1>2, <1>3 DEF OnConnect
    <1>4. CASE OnConnect("doread", {"vfy"})
      BY <1>1, <1>2, <1>4 DEF OnConnect
    <1>5. CASE OnConnect("vfy", {})
      BY <1>1, <1>5 DEF OnConnect
    <1>6. QED
      BY <1>3, <1>4, <1>5

LEMMA AmainReadMem ==
    ASSUME Types, MemInv, AmainRead
    PROVE  MemInv' /\ wild' = wild
    <1>1. phase = "read" /\ ~Copying /\ ~broken /\ broken' = broken /\ wild' = wild
      BY DEF AmainRead, MemInv
    <1>2. CASE phase' = "out" /\ UNCHANGED <<calls, live, stop>>
      BY <1>1, <1>2 DEF MemInv, Callback, Copying, Echoing, Connected
    <1>3. ASSUME NEW submitted \in BOOLEAN, NEW timer \in BOOLEAN,
                 phase' = (IF timer THEN "soon" ELSE "out"),
                 live' = (IF submitted THEN Mem("onread") ELSE {})
                             \cup (IF timer THEN {"timer"} ELSE {}),
                 Calls({}, IF submitted THEN {"onread"} ELSE {})
          PROVE  MemInv'
      <2>1. calls["onread"] = 0 /\ calls["onwrite"] = 0 /\ calls["ontimer"] = 0 /\ "onread" \in Callback
        BY <1>1 DEF MemInv, Callback, Copying
      <2>2. CASE submitted
        <3>1. /\ calls' \in [Callback -> 0 .. 1] /\ calls'["onread"] = 1
              /\ \A cb \in Callback \ {"onread"} : calls'[cb] = calls[cb]
          BY <1>3, <2>1, <2>2, CallStarts
        <3>2. live' = {"rd", "rdbuf"} \cup (IF timer THEN {"timer"} ELSE {})
          BY <1>3, <2>2 DEF Mem
        <3>3. QED
          BY <1>1, <1>3, <2>1, <3>1, <3>2 DEF MemInv, Callback, Copying, Echoing, Connected
      <2>3. CASE ~submitted
        <3>1. calls' = calls /\ live' = IF timer THEN {"timer"} ELSE {}
          BY <1>3, <2>3, CallsStay
        <3>2. QED
          BY <1>1, <1>3, <2>1, <3>1 DEF MemInv, Callback, Copying, Echoing, Connected
      <2>4. QED
        BY <2>2, <2>3
    <1>4. QED
      BY <1>1, <1>2, <1>3 DEF AmainRead

LEMMA AmainTimerMem ==
    ASSUME Types, MemInv, AmainTimer
    PROVE  MemInv' /\ wild' = wild
    <1>1. /\ phase = "timer" /\ phase' = "serve" /\ broken' = broken
          /\ calls["ontimer"] = 0 /\ "timer" \in live /\ "ontimer" \in Callback
      BY DEF AmainTimer, MemInv, Callback
    <1>2. CASE Calls({}, {"ontimer"}) /\ Memory({}, {"timer"}, {})
      <2>1. /\ calls' \in [Callback -> 0 .. 1] /\ calls'["ontimer"] = 1
            /\ \A cb \in Callback \ {"ontimer"} : calls'[cb] = calls[cb]
        BY <1>1, <1>2, CallStarts
      <2>2. {"timer"} \cup {} \subseteq live \cup {}
        BY <1>1
      <2>3. live' = live /\ wild' = wild
        BY <1>2, <2>2, MemoryIs
      <2>4. QED
        BY <1>1, <2>1, <2>3 DEF MemInv, Callback, Copying, Echoing, Connected
    <1>3. CASE Memory({}, {"timer"}, {"timer"}) /\ UNCHANGED calls
      <2>1. {"timer"} \cup {"timer"} \subseteq live \cup {}
        BY <1>1
      <2>2. live' = live \ {"timer"} /\ wild' = wild
        BY <1>3, <2>1, MemoryIs
      <2>3. QED
        BY <1>1, <1>3, <2>2 DEF MemInv, Callback, Copying, Echoing, Connected
    <1>4. QED
      BY <1>2, <1>3 DEF AmainTimer

LEMMA AmainServeMem ==
    ASSUME Types, MemInv, BufInv, AmainServe
    PROVE  /\ MemInv' /\ BufInv'
           /\ wild' = wild \/ early'
    <1>1. /\ phase = "serve" /\ broken' = broken /\ ~Echoing /\ ~Connected /\ early \in BOOLEAN
          /\ calls["echo_read"] = 0 /\ "echo_read" \in Callback
          /\ "echo" \notin live /\ "echobuf" \notin live
      BY DEF AmainServe, MemInv, Types, Callback, Echoing
    <1>2. CASE phase' = "out" /\ UNCHANGED <<calls, live, wild, net, echo, early>>
      BY <1>1, <1>2 DEF MemInv, BufInv, Callback, Copying, Echoing, Connected
    <1>3. ASSUME NEW e, NEW refused \in BOOLEAN, phase' = "loop", early' = (early \/ refused),
                 e.buf = (IF refused THEN "nowhere" ELSE "echobuf"), NEW n,
                 EchoGoesOn(n, {}, "echo_read", Mem("echo_read"), e)
          PROVE  /\ MemInv' /\ BufInv'
                 /\ wild' = wild \/ early'
      <2>1. NoEcho.buf = "echobuf" /\ echo' \in {e, NoEcho}
        BY <1>3 DEF EchoGoesOn, EchoEnds, NoEcho
      <2>2. CASE Calls({}, {"echo_read"}) /\ Memory(Mem("echo_read"), PcbMem(e), {})
        <3>1. /\ calls' \in [Callback -> 0 .. 1] /\ calls'["echo_read"] = 1
              /\ \A cb \in Callback \ {"echo_read"} : calls'[cb] = calls[cb]
          BY <1>1, <2>2, CallStarts
        <3>2. live' = live \cup {"echo", "echobuf"}
          BY <2>2 DEF Memory, Mem
        <3>3. ~refused => wild' = wild
          BY <1>3, <2>2, MemoryIs DEF Mem, PcbMem
        <3>4. MemInv'
          BY <1>1, <1>3, <3>1, <3>2 DEF MemInv, Callback, Copying, Echoing, Connected
        <3>5. BufInv'
          BY <1>3, <2>1, <3>1 DEF BufInv, Echoing
        <3>6. QED
          BY <1>3, <3>3, <3>4, <3>5
      <2>3. CASE Calls({}, {}) /\ Memory(Mem("echo_read"), {}, PcbMem(e))
        <3>1. calls' = calls
          BY <2>3, CallsStay
        <3>2. /\ refused => live' = live \cup {"echobuf"}
              /\ ~refused => live' = live /\ wild' = wild
          <4>1. live' = (live \cup {"echo", "echobuf"}) \ {"echo", e.buf}
            BY <2>3 DEF Memory, Mem, PcbMem
          <4>2. CASE refused
            <5>1. e.buf = "nowhere" /\ "nowhere" \notin live
              BY <1>3, <4>2 DEF MemInv
            <5>2. QED
              BY <1>1, <4>1, <4>2, <5>1
          <4>3. CASE ~refused
            <5>1. live' = live
              <6>1. e.buf = "echobuf"
                BY <1>3, <4>3
              <6>2. QED
                BY <1>1, <4>1, <6>1
            <5>2. wild' = wild
              BY <1>3, <2>3, <4>3, MemoryIs DEF Mem, PcbMem
            <5>3. QED
              BY <4>3, <5>1, <5>2
          <4>4. QED
            BY <4>2, <4>3
        <3>3. MemInv'
          BY <1>1, <1>3, <3>1, <3>2 DEF MemInv, Callback, Copying, Echoing, Connected
        <3>4. BufInv'
          BY <1>1, <1>3, <2>1, <3>2 DEF BufInv, NoEcho
        <3>5. QED
          BY <1>3, <3>2, <3>3, <3>4
      <2>4. QED
        BY <1>3, <2>2, <2>3 DEF EchoGoesOn, EchoEnds
    <1>4. CASE phase' = "loop"
      <2>1. PICK r \in BOOLEAN, refused \in BOOLEAN :
               LET e == Registered("A", "listen", "echobuf", r, refused)
               IN  /\ EchoGoesOn(Opened(net, "listen", e.reg), {}, "echo_read",
                                 Mem("echo_read"), e)
                   /\ phase' = "loop"
                   /\ early' = (early \/ refused)
        BY <1>4 DEF AmainServe
      <2> DEFINE e == Registered("A", "listen", "echobuf", r, refused)
      <2>2. e.buf = IF refused THEN "nowhere" ELSE "echobuf"
        BY RegisteredIs
      <2>3. /\ EchoGoesOn(Opened(net, "listen", e.reg), {}, "echo_read", Mem("echo_read"), e)
            /\ phase' = "loop" /\ early' = (early \/ refused)
        BY <2>1
      <2> HIDE DEF e
      <2>4. QED
        BY <1>3, <2>2, <2>3
    <1>5. QED
      BY <1>2, <1>4 DEF AmainServe

LEMMA AmainConnectMem ==
    ASSUME Types, MemInv, AmainConnect
    PROVE  MemInv' /\ (wild' = wild \/ early')
    <1>1. /\ phase = "connect" /\ broken' = broken /\ ~Echoing /\ ~Connected /\ ~Copying /\ ~broken
          /\ calls["dowrite"] = 0 /\ "dowrite" \in Callback /\ calls["ontimer"] = 0
      BY DEF AmainConnect, MemInv, Callback, Connected
    <1>2. CASE phase' \in {"out", "loop"} /\ UNCHANGED <<calls, live>>
      <2>1. MemInv'
        BY <1>1, <1>2 DEF MemInv, Callback, Copying, Echoing, Connected
      <2>2. wild' = wild \/ early' \/ Memory(Mem("dowrite"), {}, {})
        BY DEF AmainConnect
      <2>3. Memory(Mem("dowrite"), {}, {}) => wild' = wild
        BY MemoryIs
      <2>4. QED
        BY <2>1, <2>2, <2>3
    <1>3. CASE /\ phase' = "loop" /\ Calls({}, {"dowrite"}) /\ Memory(Mem("dowrite"), {}, {})
      <2>1. /\ calls' \in [Callback -> 0 .. 1] /\ calls'["dowrite"] = 1
            /\ \A cb \in Callback \ {"dowrite"} : calls'[cb] = calls[cb]
        BY <1>1, <1>3, CallStarts
      <2>2. live' = live \cup {"conn", "connbuf"} /\ wild' = wild
        BY <1>3, MemoryIs DEF Mem
      <2>3. QED
        BY <1>1, <1>3, <2>1, <2>2 DEF MemInv, Callback, Copying, Echoing, Connected
    <1>4. QED
      BY <1>2, <1>3 DEF AmainConnect

LEMMA MemInvNext ==
    ASSUME Types, MemInv, BufInv, NetInv, [ClientNext]_vars
    PROVE  /\ MemInv'
           /\ wild' = wild \/ early' \/ RunSoon \/ SoonFill
    <1>1. CASE OnRead \/ OnWrite \/ OnTimer
      BY <1>1, OnReadMem, OnWriteMem, OnTimerMem
    <1>2. CASE EchoAccepted \/ EchoSent \/ EchoReceived \/ EchoFails
      BY <1>2, EchoStepsMem
    <1>3. CASE \/ OnConnect("dowrite", {"doread"})
               \/ OnConnect("doread", {"vfy"})
               \/ OnConnect("vfy", {})
      BY <1>3, OnConnectMem
    <1>4. CASE AmainRead \/ AmainTimer \/ AmainServe \/ AmainConnect
      BY <1>4, AmainReadMem, AmainTimerMem, AmainServeMem, AmainConnectMem
    <1>5. CASE \/ UNCHANGED vars
               \/ \E t \in Thread : Initialise(t) /\ UNCHANGED clientVars
               \/ Start \/ Leave \/ SoonAlloc
      <2>1. /\ calls' = calls /\ live' = live /\ broken' = broken /\ wild' = wild
            /\ \/ phase' = phase
               \/ phase = "main" /\ phase' \in {"read", "connect"}
               \/ phase = "loop" /\ phase' = "out"
               \/ phase = "soon" /\ phase' = "timer"
        BY <1>5 DEF vars, clientVars, Start, Leave, SoonAlloc
      <2>2. QED
        BY <2>1 DEF MemInv, Copying, Echoing, Connected
    <1>6. CASE RunSoon \/ SoonFill
      <2>1. /\ calls' = calls /\ live' = live /\ broken' = broken
            /\ \/ phase' = phase
               \/ phase = "soon" /\ phase' \in {"soon", "timer"}
        BY <1>6 DEF RunSoon, SoonFill
      <2>2. QED
        BY <1>6, <2>1 DEF MemInv, Copying, Echoing, Connected
    <1>7. QED
      BY <1>1, <1>2, <1>3, <1>4, <1>5, <1>6 DEF ClientNext, Called

\* Steps of the others: the buffer, the echo and its requests stay.
LEMMA BufInvNext ==
    ASSUME Types, MemInv, BufInv, NetInv, MemInv', Types', [ClientNext]_vars
    PROVE  BufInv'
    <1>1. CASE EchoAccepted \/ EchoSent \/ EchoReceived \/ EchoFails
      BY <1>1, EchoStepsMem
    <1>2. CASE AmainServe
      BY <1>2, AmainServeMem
    <1>3. CASE /\ echo' = echo /\ (early => early')
               /\ ("echobuf" \in live' => "echobuf" \in live)
               /\ calls'["echo_read"] = calls["echo_read"]
               /\ calls'["echo_write"] = calls["echo_write"]
      BY <1>3 DEF BufInv, Types, Echoing
    <1>4. CASE OnRead \/ OnWrite \/ OnTimer
      <2>1. echo' = echo /\ early' = early /\ ("echobuf" \in live' => "echobuf" \in live)
        BY <1>4 DEF OnRead, OnWrite, OnTimer, ReadEnds, Memory
      <2>2. \A cb \in {"echo_read", "echo_write"} : calls'[cb] = calls[cb]
        BY <1>4 DEF OnRead, OnWrite, OnTimer, ReadEnds, Calls, MemInv, Callback
      <2>3. QED
        BY <1>3, <2>1, <2>2
    <1>5. CASE \/ OnConnect("dowrite", {"doread"})
               \/ OnConnect("doread", {"vfy"})
               \/ OnConnect("vfy", {})
      <2>1. echo' = echo /\ early' = early /\ ("echobuf" \in live' => "echobuf" \in live)
        BY <1>5 DEF OnConnect, ConnEnds, Memory
      <2>2. \E a \in {"dowrite", "doread", "vfy"}, next \in {{"doread"}, {"vfy"}, {}} : Calls({a}, next)
        BY <1>5 DEF OnConnect, ConnEnds
      <2>3. \A cb \in {"echo_read", "echo_write"} : calls'[cb] = calls[cb]
        BY <2>2 DEF Calls, MemInv, Callback
      <2>4. QED
        BY <1>3, <2>1, <2>3
    <1>6. CASE AmainRead \/ AmainTimer
      <2>1. echo' = echo /\ early' = early /\ ("echobuf" \in live' => "echobuf" \in live)
        BY <1>6 DEF AmainRead, AmainTimer, Memory, Mem
      <2>2. \A cb \in {"echo_read", "echo_write"} : calls'[cb] = calls[cb]
        BY <1>6 DEF AmainRead, AmainTimer, Calls, MemInv, Callback
      <2>3. QED
        BY <1>3, <2>1, <2>2
    <1>7. CASE AmainConnect
      <2>1. echo' = echo /\ (early' = early \/ early' = TRUE)
        BY <1>7 DEF AmainConnect
      <2>2. \/ calls' = calls /\ live' = live
            \/ Calls({}, {"dowrite"}) /\ Memory(Mem("dowrite"), {}, {})
        BY <1>7 DEF AmainConnect
      <2>3. CASE Calls({}, {"dowrite"}) /\ Memory(Mem("dowrite"), {}, {})
        <3>1. "echobuf" \in live' => "echobuf" \in live
          BY <2>3 DEF Memory, Mem
        <3>2. \A cb \in {"echo_read", "echo_write"} : calls'[cb] = calls[cb]
          BY <2>3 DEF Calls, MemInv, Callback
        <3>3. QED
          BY <1>3, <2>1, <3>1, <3>2
      <2>4. QED
        BY <1>3, <2>1, <2>2, <2>3
    <1>8. CASE RunSoon \/ SoonFill
      <2>1. echo' = echo /\ calls' = calls /\ live' = live
        BY <1>8 DEF RunSoon, SoonFill
      <2>2. CASE RunSoon
        <3>1. \E b \in BOOLEAN : early' = (early \/ b)
          BY <2>2 DEF RunSoon, TaskCb
        <3>2. QED
          BY <1>3, <2>1, <3>1
      <2>3. CASE SoonFill
        <3>1. \/ early' = early
              \/ \E tagged, failed : TaskCb(tagged, soonque, sent, failed)
          BY <2>3 DEF SoonFill
        <3>2. ASSUME NEW tagged, NEW failed, TaskCb(tagged, soonque, sent, failed)
              PROVE  \E b \in BOOLEAN : early' = (early \/ b)
          BY <3>2 DEF TaskCb
        <3>3. QED
          BY <1>3, <2>1, <3>1, <3>2
      <2>4. QED
        BY <1>8, <2>2, <2>3
    <1>9. CASE \/ UNCHANGED vars
               \/ \E t \in Thread : Initialise(t) /\ UNCHANGED clientVars
               \/ Start \/ Leave \/ SoonAlloc
      <2>1. UNCHANGED <<calls, live, echo, early>>
        BY <1>9 DEF vars, clientVars, Start, Leave, SoonAlloc
      <2>2. QED
        BY <1>3, <2>1
    <1>10. QED
      BY <1>1, <1>2, <1>4, <1>5, <1>6, <1>7, <1>8, <1>9 DEF ClientNext, Called

LEMMA TypesNext ==
    ASSUME Types, [ClientNext]_vars
    PROVE  Types'
    <1>1. CASE Start \/ Leave \/ AmainRead \/ SoonAlloc \/ AmainTimer \/ AmainServe \/ AmainConnect
      BY <1>1 DEF Types, Start, Leave, AmainRead, SoonAlloc, AmainTimer, AmainServe, AmainConnect,
                  EchoGoesOn, EchoEnds, Memory
    <1>2. CASE RunSoon \/ SoonFill
      BY <1>2 DEF Types, RunSoon, SoonFill, TaskCb
    <1>3. CASE OnRead \/ OnWrite \/ OnTimer
      BY <1>3 DEF Types, OnRead, OnWrite, OnTimer, ReadEnds, Memory
    <1>4. CASE EchoAccepted \/ EchoSent \/ EchoReceived \/ EchoFails
      BY <1>4 DEF Types, EchoAccepted, EchoSent, EchoReceived, EchoFails, EchoGoesOn, EchoEnds, Memory
    <1>5. CASE \/ OnConnect("dowrite", {"doread"})
               \/ OnConnect("doread", {"vfy"})
               \/ OnConnect("vfy", {})
      BY <1>5 DEF Types, OnConnect, ConnEnds, Memory
    <1>6. CASE UNCHANGED vars \/ \E t \in Thread : Initialise(t) /\ UNCHANGED clientVars
      BY <1>6 DEF Types, vars, clientVars
    <1>7. QED
      BY <1>1, <1>2, <1>3, <1>4, <1>5, <1>6 DEF ClientNext, Called

(***************************************************************************)
(* Sockets.                                                                *)
(***************************************************************************)

LEMMA NetInvInit == ClientInit => NetInv
    BY DEF ClientInit, NetInv, NoEcho, SocketsOwned

LEMMA ClosedIs ==
    ASSUME NEW n, NEW s, NEW reg \in BOOLEAN, NEW m \in Closed(n, s, reg)
    PROVE  \/ m = [n EXCEPT !.open = @ \ {s}, !.table = @ \ {s}]
           \/ reg /\ m = [n EXCEPT !.stuck = @ \cup {s}]
    BY DEF Closed

Net == [open : SUBSET {"listen", "peer", "conn"}, table : SUBSET {"listen", "peer"},
        stuck : SUBSET {"listen", "peer"}]

\* The sockets n are those of an echo e and of the client, as far as l, the
\* allocated memory, has the two.
Fits(n, e, l) ==
    /\ n \in Net
    /\ e \in [rstate : {"A", "W"}, raw : {"none", "listen", "peer"}, reg : BOOLEAN,
              buf : {"echobuf", "nowhere"}]
    /\ n.open = (IF "echo" \in l THEN {e.raw} ELSE {})
                    \cup (IF "conn" \in l THEN {"conn"} ELSE {}) \cup n.stuck
    /\ n.table = (IF e.reg THEN {e.raw} ELSE {}) \cup n.stuck
    /\ "echo" \in l => e.raw # "none" /\ (e.rstate = "A" <=> e.raw = "listen")
    /\ "echo" \notin l => e = NoEcho
    /\ e.raw = "listen" => n.stuck = {}
    /\ e.raw = "peer" => "peer" \notin n.stuck

LEMMA NetInvFits ==
    /\ NetInv <=> /\ Fits(net, echo, live)
                  /\ phase \notin {"loop", "out"} => net.stuck = {}
    /\ NetInv' <=> /\ Fits(net', echo', live')
                   /\ phase' \notin {"loop", "out"} => net'.stuck = {}
    BY DEF NetInv, Fits, SocketsOwned, Net

LEMMA FitsEnds ==
    ASSUME NEW n, NEW e, NEW l, Fits(n, e, l), "echo" \in l,
           NEW m \in Closed(n, e.raw, e.reg),
           NEW k, "echo" \notin k, "conn" \in k <=> "conn" \in l
    PROVE  Fits(m, NoEcho, k)
    <1>1. e.reg \in BOOLEAN /\ n \in Net
      BY DEF Fits
    <1>2. CASE m = [n EXCEPT !.open = @ \ {e.raw}, !.table = @ \ {e.raw}]
      <2>1. /\ m \in Net /\ m.open = n.open \ {e.raw} /\ m.table = n.table \ {e.raw}
            /\ m.stuck = n.stuck
        BY <1>1, <1>2 DEF Net
      <2>2. e.raw \in {"listen", "peer"} /\ e.raw \notin n.stuck
        BY DEF Fits
      <2>3. m.open = (IF "conn" \in k THEN {"conn"} ELSE {}) \cup m.stuck /\ m.table = m.stuck
        BY <2>1, <2>2 DEF Fits
      <2>4. QED
        BY <2>1, <2>3 DEF Fits, NoEcho
    <1>3. CASE e.reg /\ m = [n EXCEPT !.stuck = @ \cup {e.raw}]
      BY <1>1, <1>3 DEF Fits, NoEcho, Net
    <1>4. QED
      BY <1>1, <1>2, <1>3, ClosedIs

LEMMA FitsOpens ==
    ASSUME NEW n, NEW l, Fits(n, NoEcho, l), "echo" \notin l,
           NEW s \in {"listen", "peer"}, s \notin n.stuck, s = "listen" => n.stuck = {},
           NEW e, e \in [rstate : {"A", "W"}, raw : {"none", "listen", "peer"}, reg : BOOLEAN,
                         buf : {"echobuf", "nowhere"}],
           e.raw = s, e.rstate = "A" <=> s = "listen",
           NEW k, "echo" \in k, "conn" \in k <=> "conn" \in l
    PROVE  Fits(Opened(n, s, e.reg), e, k)
    <1> DEFINE m == Opened(n, s, e.reg)
    <1>1. n \in Net
      BY DEF Fits
    <1>2. /\ m \in Net /\ m.open = n.open \cup {s} /\ m.stuck = n.stuck
          /\ m.table = IF e.reg THEN n.table \cup {s} ELSE n.table
      BY <1>1 DEF Opened, Net
    <1>3. n.open = (IF "conn" \in k THEN {"conn"} ELSE {}) \cup n.stuck /\ n.table = n.stuck
      BY DEF Fits, NoEcho
    <1> HIDE DEF m
    <1>4. Fits(m, e, k)
      BY <1>2, <1>3 DEF Fits
    <1>5. QED
      BY <1>4 DEF m

\* The echo goes on or ends from where its sockets fit it.
LEMMA EchoGoesOnNet ==
    ASSUME NEW new, new \subseteq {"echo", "echobuf"}, "echo" \in live \cup new,
           NEW n, NEW e, Fits(n, e, live \cup new), NEW done, NEW next,
           \/ EchoGoesOn(n, done, next, new, e)
           \/ EchoEnds(n, done, new, e)
    PROVE  Fits(net', echo', live')
    <1>1. CASE Memory(new, PcbMem(e), {}) /\ net' = n /\ echo' = e
      <2>1. live' = live \cup new
        BY <1>1 DEF Memory
      <2>2. QED
        BY <1>1, <2>1
    <1>2. CASE Memory(new, {}, PcbMem(e)) /\ net' \in Closed(n, e.raw, e.reg) /\ echo' = NoEcho
      <2>1. "echo" \notin live' /\ ("conn" \in live' <=> "conn" \in live \cup new)
        <3>1. e.buf # "conn"
          BY DEF Fits
        <3>2. QED
          BY <1>2, <3>1 DEF Memory, PcbMem
      <2>2. QED
        BY <1>2, <2>1, FitsEnds
    <1>3. QED
      BY <1>1, <1>2 DEF EchoGoesOn, EchoEnds

LEMMA EchoStepsNet ==
    ASSUME Types, MemInv, NetInv, EchoAccepted \/ EchoSent \/ EchoReceived \/ EchoFails
    PROVE  NetInv'
    <1>1. phase = "loop" /\ phase' = phase
      BY DEF EchoAccepted, EchoSent, EchoReceived, EchoFails
    <1>2. "echo" \in live
      BY DEF EchoAccepted, EchoSent, EchoReceived, EchoFails, MemInv, Echoing, Callback
    <1>3. Fits(net, echo, live) /\ live \cup {} = live
      BY NetInvFits
    <1>4. CASE EchoAccepted
      <2>0. PICK n \in Closed(net, Replaced, echo.reg), r \in BOOLEAN, refused \in BOOLEAN :
               LET e == Registered("W", "peer", echo.buf, r, refused)
               IN  /\ EchoGoesOn(Opened(n, "peer", e.reg), {"echo_read"}, "echo_write", {}, e)
                   /\ early' = (early \/ refused)
        BY <1>4 DEF EchoAccepted
      <2> DEFINE e == Registered("W", "peer", echo.buf, r, refused)
      <2>1. /\ n \in Closed(net, Replaced, echo.reg)
            /\ EchoGoesOn(Opened(n, "peer", e.reg), {"echo_read"}, "echo_write", {}, e)
        BY <2>0
      <2>8. /\ e \in [rstate : {"A", "W"}, raw : {"none", "listen", "peer"}, reg : BOOLEAN,
                       buf : {"echobuf", "nowhere"}]
            /\ e.raw = "peer" /\ e.rstate = "W"
        <3>1. echo.buf \in {"echobuf", "nowhere"}
          BY <1>3 DEF Fits
        <3>2. QED
          BY <3>1 DEF Registered
      <2> HIDE DEF e
      <2>2. echo.raw = "listen" /\ net.stuck = {} /\ net \in Net /\ echo.reg \in BOOLEAN
        BY <1>2, <1>3, <1>4 DEF EchoAccepted, Fits
      <2>3. Fits(n, NoEcho, live \ {"echo"})
        <3>1. "echo" \notin live \ {"echo"} /\ ("conn" \in live \ {"echo"} <=> "conn" \in live)
          OBVIOUS
        <3>2. n \in Closed(net, echo.raw, echo.reg)
          BY <2>1 DEF Replaced
        <3>3. QED
          BY <1>2, <1>3, <3>1, <3>2, FitsEnds
      <2>4. "peer" \notin n.stuck
        <3>1. CASE n = [net EXCEPT !.open = @ \ {echo.raw}, !.table = @ \ {echo.raw}]
          BY <2>2, <3>1 DEF Net
        <3>2. CASE n = [net EXCEPT !.stuck = @ \cup {echo.raw}]
          BY <2>2, <3>2 DEF Net
        <3>3. QED
          BY <2>1, <2>2, <3>1, <3>2, ClosedIs DEF Replaced
      <2>5. Fits(Opened(n, "peer", e.reg), e, live \cup {})
        <3>1. "echo" \notin live \ {"echo"} /\ ("conn" \in live <=> "conn" \in live \ {"echo"})
          OBVIOUS
        <3>2. Fits(Opened(n, "peer", e.reg), e, live)
          BY <1>2, <2>3, <2>4, <2>8, <3>1, FitsOpens
        <3>3. QED
          BY <1>3, <3>2
      <2>6. Fits(net', echo', live')
        <3>1. {} \subseteq {"echo", "echobuf"} /\ "echo" \in live \cup {}
          BY <1>2
        <3>2. QED
          BY <2>1, <2>5, <3>1, EchoGoesOnNet
      <2>7. QED
        BY <1>1, <2>6, NetInvFits
    <1>5. CASE EchoSent \/ EchoReceived
      <2>1. Fits(net', echo', live')
        <3>1. {} \subseteq {"echo", "echobuf"} /\ "echo" \in live \cup {}
          BY <1>2
        <3>2. \E done, next : EchoGoesOn(net, done, next, {}, echo)
          BY <1>5 DEF EchoSent, EchoReceived
        <3>3. QED
          BY <1>3, <3>1, <3>2, EchoGoesOnNet
      <2>2. QED
        BY <1>1, <2>1, NetInvFits
    <1>6. CASE EchoFails
      <2>1. Fits(net', echo', live')
        <3>1. {} \subseteq {"echo", "echobuf"} /\ "echo" \in live \cup {}
          BY <1>2
        <3>2. \E done : EchoEnds(net, done, {}, echo)
          BY <1>6 DEF EchoFails
        <3>3. QED
          BY <1>3, <3>1, <3>2, EchoGoesOnNet
      <2>2. QED
        BY <1>1, <2>1, NetInvFits
    <1>7. QED
      BY <1>4, <1>5, <1>6

LEMMA AmainServeNet ==
    ASSUME Types, MemInv, NetInv, AmainServe
    PROVE  NetInv'
    <1>1. phase = "serve" /\ "echo" \notin live /\ net.stuck = {} /\ echo = NoEcho
      BY DEF AmainServe, MemInv, NetInv, Echoing
    <1>2. CASE phase' = "out" /\ UNCHANGED <<calls, live, wild, net, echo, early>>
      BY <1>2 DEF NetInv, SocketsOwned
    <1>3. ASSUME NEW r \in BOOLEAN, NEW refused \in BOOLEAN, phase' = "loop",
                 LET e == Registered("A", "listen", "echobuf", r, refused)
                 IN  EchoGoesOn(Opened(net, "listen", e.reg), {}, "echo_read", Mem("echo_read"), e)
          PROVE  NetInv'
      <2> DEFINE e == Registered("A", "listen", "echobuf", r, refused)
      <2>0. EchoGoesOn(Opened(net, "listen", e.reg), {}, "echo_read", Mem("echo_read"), e)
        BY <1>3
      <2>1. Fits(net, NoEcho, live)
        BY <1>1, NetInvFits
      <2>2. /\ Mem("echo_read") \subseteq {"echo", "echobuf"} /\ "echo" \in live \cup Mem("echo_read")
            /\ ("conn" \in live \cup Mem("echo_read") <=> "conn" \in live)
        BY DEF Mem
      <2>6. /\ e \in [rstate : {"A", "W"}, raw : {"none", "listen", "peer"}, reg : BOOLEAN,
                       buf : {"echobuf", "nowhere"}]
            /\ e.raw = "listen" /\ e.rstate = "A"
        BY DEF Registered
      <2> HIDE DEF e
      <2>3. Fits(Opened(net, "listen", e.reg), e, live \cup Mem("echo_read"))
        BY <1>1, <2>1, <2>2, <2>6, FitsOpens
      <2>4. Fits(net', echo', live')
        BY <2>0, <2>2, <2>3, EchoGoesOnNet
      <2>5. QED
        BY <1>3, <2>4, NetInvFits
    <1>4. QED
      BY <1>2, <1>3 DEF AmainServe

LEMMA ConnNet ==
    ASSUME Types, MemInv, NetInv,
           \/ OnConnect("dowrite", {"doread"})
           \/ OnConnect("doread", {"vfy"})
           \/ OnConnect("vfy", {})
    PROVE  NetInv'
    <1>1. /\ phase' = phase /\ echo' = echo
          /\ \E cb \in {"dowrite", "doread", "vfy"} :
                calls[cb] > 0 /\ \/ ConnEnds({cb})
                                 \/ Memory({}, Mem(cb), {}) /\ UNCHANGED net
      BY DEF OnConnect
    <1>2. Connected /\ "conn" \in live
      BY <1>1 DEF MemInv, Callback, Connected
    <1>3. CASE \E cb : Memory({}, Mem(cb), {}) /\ UNCHANGED net
      <2>1. live' = live /\ net' = net
        BY <1>3 DEF Memory
      <2>2. QED
        BY <1>1, <2>1 DEF NetInv, SocketsOwned
    <1>4. CASE \E cb : ConnEnds({cb})
      <2>1. /\ Memory({}, Mem("vfy"), {"conn", "connbuf"})
            /\ net' = [net EXCEPT !.open = @ \ {"conn"}, !.table = @ \ {"conn"}]
        BY <1>4 DEF ConnEnds, Closed
      <2>2. "conn" \notin live' /\ ("echo" \in live' <=> "echo" \in live)
        BY <2>1 DEF Memory
      <2>3. net \in Net
        BY DEF NetInv, Net
      <2>4. /\ net' \in Net /\ net'.open = net.open \ {"conn"} /\ net'.table = net.table
            /\ net'.stuck = net.stuck
        BY <2>1, <2>3 DEF Net
      <2>5. QED
        BY <1>1, <1>2, <2>2, <2>4 DEF NetInv, SocketsOwned, Net
    <1>5. QED
      BY <1>1, <1>3, <1>4

LEMMA AmainConnectNet ==
    ASSUME Types, MemInv, NetInv, AmainConnect
    PROVE  NetInv'
    <1>1. /\ phase = "connect" /\ echo' = echo /\ net.stuck = {}
          /\ "conn" \notin live /\ "echo" \notin live /\ echo = NoEcho
      BY DEF AmainConnect, MemInv, NetInv, Echoing, Connected
    <1>2. CASE UNCHANGED <<live, net>>
      BY <1>1, <1>2 DEF NetInv, SocketsOwned
    <1>3. CASE /\ phase' = "loop" /\ Memory(Mem("dowrite"), {}, {})
               /\ net' = Opened(net, "conn", FALSE)
      <2>1. live' = live \cup {"conn", "connbuf"}
        BY <1>3 DEF Memory, Mem
      <2>2. net \in Net
        BY DEF NetInv, Net
      <2>3. /\ net' \in Net /\ net'.open = net.open \cup {"conn"} /\ net'.table = net.table
            /\ net'.stuck = net.stuck
        BY <1>3, <2>2 DEF Opened, Net
      <2>4. QED
        BY <1>1, <1>3, <2>1, <2>3 DEF NetInv, SocketsOwned, Net
    <1>4. QED
      BY <1>2, <1>3 DEF AmainConnect

LEMMA NetInvNext ==
    ASSUME Types, MemInv, NetInv, MemInv', [ClientNext]_vars
    PROVE  NetInv'
    <1>1. CASE EchoAccepted \/ EchoSent \/ EchoReceived \/ EchoFails
      BY <1>1, EchoStepsNet
    <1>2. CASE AmainServe \/ AmainConnect
      BY <1>2, AmainServeNet, AmainConnectNet
    <1>3. CASE \/ OnConnect("dowrite", {"doread"})
               \/ OnConnect("doread", {"vfy"})
               \/ OnConnect("vfy", {})
      BY <1>3, ConnNet
    <1>4. CASE /\ net' = net /\ echo' = echo /\ ("echo" \in live' <=> "echo" \in live)
               /\ ("conn" \in live' <=> "conn" \in live)
               /\ (phase \in {"loop", "out"} => phase' \in {"loop", "out"})
      BY <1>4 DEF NetInv, SocketsOwned
    <1>5. CASE OnRead \/ OnWrite \/ OnTimer
      <2>1. net' = net /\ echo' = echo /\ phase' = phase
        BY <1>5 DEF OnRead, OnWrite, OnTimer
      <2>2. \A cb \in {"echo_read", "echo_write", "dowrite", "doread", "vfy"} : calls'[cb] = calls[cb]
        BY <1>5 DEF OnRead, OnWrite, OnTimer, ReadEnds, Calls, MemInv, Callback
      <2>3. QED
        BY <1>4, <2>1, <2>2 DEF MemInv, Echoing, Connected
    <1>6. CASE AmainRead \/ AmainTimer
      <2>1. net' = net /\ echo' = echo /\ phase \notin {"loop", "out"}
        BY <1>6 DEF AmainRead, AmainTimer
      <2>2. \A cb \in {"echo_read", "echo_write", "dowrite", "doread", "vfy"} : calls'[cb] = calls[cb]
        BY <1>6 DEF AmainRead, AmainTimer, Calls, MemInv, Callback
      <2>3. QED
        BY <1>4, <2>1, <2>2 DEF MemInv, Echoing, Connected
    <1>7. CASE \/ UNCHANGED vars
               \/ \E t \in Thread : Initialise(t) /\ UNCHANGED clientVars
               \/ Start \/ Leave \/ SoonAlloc \/ SoonFill \/ RunSoon
      BY <1>4, <1>7 DEF vars, clientVars, Start, Leave, SoonAlloc, SoonFill, RunSoon
    <1>8. QED
      BY <1>1, <1>2, <1>3, <1>5, <1>6, <1>7 DEF ClientNext, Called

(***************************************************************************)
(* Soon tasks.                                                             *)
(***************************************************************************)

\* How the tags compare.
LEMMA Numbers ==
    /\ Al \in Aligns /\ Limit \in Nat \ {0} /\ Limit <= Pow2(W) /\ Pow2(W) \in Nat
    /\ Al + Tagh(Picked) \in Nat /\ Limit = Pow2(Al + Tagh(Picked))
    /\ AgainTag \in Nat /\ NSoon \in Nat /\ FreeTag \in Nat
    /\ AgainTag < NSoon /\ NSoon <= FreeTag /\ FreeTag < Pow2(W)
    /\ AgainTag < Limit => FreeTag < Limit
    <1>1. /\ Al \in Aligns /\ AgainTag \in Nat /\ NSoon \in Nat /\ FreeTag \in Nat
          /\ AgainTag < NSoon /\ NSoon <= FreeTag /\ FreeTag < Pow2(Al + LA57_TAGH)
          /\ AgainTag < Pow2(Al) => FreeTag < Pow2(Al)
      BY ClientAssumption DEF ClientAssumption
    <1>2. /\ Al \in Nat /\ W \in Nat /\ LA48_TAGH \in Nat /\ LA57_TAGH \in Nat
          /\ LA57_TAGH <= LA48_TAGH /\ Al + LA48_TAGH < W
      BY <1>1, TagPtrAssumption DEF TagPtrAssumption
    <1>3. /\ Limit = Pow2(Al + Tagh(Picked)) /\ Limit \in Nat \ {0} /\ Limit <= Pow2(W)
          /\ Al + Tagh(Picked) \in Nat
      BY <1>1, MaxTagIs, PickedType DEF Limit
    <1>4. /\ Pow2(W) \in Nat /\ Pow2(Al + LA57_TAGH) \in Nat /\ Pow2(Al) \in Nat
          /\ Pow2(Al + LA57_TAGH) <= Pow2(W)
      BY <1>2, Pow2Type, Pow2Grows
    <1>5. Tagh(Picked) \in {0, LA48_TAGH, LA57_TAGH}
      BY PickedType DEF Fn, Tagh
    <1>6. AgainTag < Limit => FreeTag < Limit
      <2>1. CASE Tagh(Picked) = 0
        BY <1>1, <1>2, <1>3, <2>1
      <2>2. CASE Tagh(Picked) \in {LA48_TAGH, LA57_TAGH}
        <3>1. Pow2(Al + LA57_TAGH) <= Limit
          BY <1>2, <1>3, <2>2, Pow2Grows
        <3>2. QED
          BY <1>1, <1>3, <1>4, <3>1
      <2>3. QED
        BY <1>5, <2>1, <2>2
    <1>7. QED
      BY <1>1, <1>3, <1>4, <1>6

\* Each word is the word of one tag.
LEMMA TagIs ==
    /\ \A t \in 0 .. Pow2(W) - 1 : Bits(t) = Again => t = AgainTag
    /\ \A t \in 0 .. Pow2(W) - 1 : Bits(t) = Free => t = FreeTag
    /\ Again # Free
    <1>1. /\ AgainTag < Pow2(W) /\ AgainTag # FreeTag
          /\ AgainTag \in Nat /\ FreeTag \in Nat /\ FreeTag < Pow2(W)
      BY Numbers
    <1>2. \A t \in 0 .. Pow2(W) - 1 : t \in Nat /\ t < Pow2(W)
      BY Numbers
    <1>3. \A s, t \in Nat : s < Pow2(W) /\ t < Pow2(W) /\ Bits(s) = Bits(t) => s = t
      BY BitsInjective
    <1>4. QED
      BY <1>1, <1>2, <1>3 DEF Again, Free

\* Tags below FreeTag are found by counting.
LEMMA TagBelow ==
    ASSUME NEW m \in 0 .. FreeTag, NEW w \in Tags(m)
    PROVE  (w = Again => AgainTag < m) /\ w # Free
    <1>1. PICK t \in 0 .. m - 1 : w = Bits(t)
      BY DEF Tags
    <1>2. t \in 0 .. Pow2(W) - 1 /\ t < m /\ t # FreeTag
      BY Numbers
    <1>3. (w = Again => t = AgainTag) /\ (w = Free => t = FreeTag)
      BY <1>1, <1>2, TagIs
    <1>4. QED
      BY <1>2, <1>3

LEMMA EntryUntags ==
    ASSUME NEW e \in Entry
    PROVE  LET tagged == Tag(Picked, e.ptr, e.tag)
           IN  tagged \in Word /\ Untag(Picked, tagged, Al) = e
    <1>1. e.ptr \in UserPtr(Picked) /\ Aligned(e.ptr, Al)
      BY ClientAssumption DEF ClientAssumption, Entry, Object
    <1>2. PICK t \in 0 .. Limit - 1 : e.tag = Bits(t)
      BY DEF Entry, Tags
    <1>3. t \in Nat /\ t < Pow2(Al + Tagh(Picked)) /\ Al + Tagh(Picked) \in Nat
      BY Numbers
    <1>4. e.tag \in Word /\ e.tag \subseteq 0 .. Al + Tagh(Picked) - 1
      <2> DEFINE k == Al + Tagh(Picked)
      <2>1. k \in Nat /\ t \in Nat /\ t < Pow2(k)
        BY <1>3
      <2> HIDE DEF k
      <2>2. Bits(t) \in Word /\ Bits(t) \subseteq 0 .. k - 1
        BY <2>1, BitsBelow
      <2>3. e.tag \in Word /\ e.tag \subseteq 0 .. k - 1
        BY <1>2, <2>2
      <2>4. Al \in Int /\ Tagh(Picked) \in Int
        BY Numbers, PickedType, TaghType, TagPtrAssumption DEF TagPtrAssumption
      <2>5. QED
        BY <2>3, <2>4 DEF k
    <1>5. Al \in Aligns
      BY Numbers
    <1>6. e = [tag |-> e.tag, ptr |-> e.ptr]
      BY DEF Entry
    <1>7. QED
      BY <1>1, <1>4, <1>5, <1>6, PickedType, TagThenUntag

LEMMA CarriesAppend ==
    ASSUME NEW q, NEW s, Carries(q, s), NEW e \in Entry
    PROVE  Carries(Append(q, Tag(Picked, e.ptr, e.tag)), Append(s, e))
    <1> DEFINE w == Tag(Picked, e.ptr, e.tag)
    <1>1. w \in Word
      BY EntryUntags
    <1>2. /\ s \in Seq(Entry) /\ q \in Seq(Word) /\ Len(q) = Len(s)
          /\ \A k \in 1 .. Len(s) : q[k] = Tag(Picked, s[k].ptr, s[k].tag)
      BY DEF Carries
    <1> HIDE DEF w
    <1>3. /\ Append(s, e) \in Seq(Entry) /\ Len(Append(s, e)) = Len(s) + 1
          /\ \A k \in 1 .. Len(s) : Append(s, e)[k] = s[k]
          /\ Append(s, e)[Len(s) + 1] = e
      BY <1>2, AppendProperties
    <1>4. /\ Append(q, w) \in Seq(Word) /\ Len(Append(q, w)) = Len(q) + 1
          /\ \A k \in 1 .. Len(q) : Append(q, w)[k] = q[k]
          /\ Append(q, w)[Len(q) + 1] = w
      BY <1>1, <1>2, AppendProperties
    <1>5. ASSUME NEW k \in 1 .. Len(s) + 1
          PROVE  Append(q, w)[k] = Tag(Picked, Append(s, e)[k].ptr, Append(s, e)[k].tag)
      <2>1. CASE k \in 1 .. Len(s)
        BY <1>2, <1>3, <1>4, <2>1
      <2>2. CASE k = Len(s) + 1
        BY <1>2, <1>3, <1>4, <2>2 DEF w
      <2>3. k \in 1 .. Len(s) \/ k = Len(s) + 1
        BY <1>2
      <2>4. QED
        BY <2>1, <2>2, <2>3, Zenon
    <1>6. QED
      BY <1>2, <1>3, <1>4, <1>5 DEF Carries, w

LEMMA CarriesTail ==
    ASSUME NEW q, NEW s, Carries(q, s), q # <<>>
    PROVE  /\ Len(s) \in Nat \ {0} /\ Head(q) = Tag(Picked, s[1].ptr, s[1].tag) /\ s[1] \in Entry
           /\ Carries(Tail(q), Tail(s)) /\ Len(Tail(s)) = Len(s) - 1
           /\ \A k \in 1 .. Len(s) - 1 : Tail(s)[k] = s[k + 1]
    <1>1. /\ s \in Seq(Entry) /\ q \in Seq(Word) /\ Len(q) = Len(s)
          /\ \A k \in 1 .. Len(s) : q[k] = Tag(Picked, s[k].ptr, s[k].tag)
      BY DEF Carries
    <1>2. Len(q) \in Nat \ {0} /\ s # <<>>
      BY <1>1, EmptySeq
    <1>3. /\ Tail(s) \in Seq(Entry) /\ Len(Tail(s)) = Len(s) - 1
          /\ \A k \in 1 .. Len(Tail(s)) : Tail(s)[k] = s[k + 1]
      BY <1>1, <1>2, HeadTailProperties
    <1>4. /\ Tail(q) \in Seq(Word) /\ Len(Tail(q)) = Len(q) - 1
          /\ \A k \in 1 .. Len(Tail(q)) : Tail(q)[k] = q[k + 1]
      BY <1>1, <1>2, HeadTailProperties
    <1>5. Head(q) = q[1] /\ 1 \in 1 .. Len(s) /\ s[1] \in Entry
      BY <1>1, <1>2, ElementOfSeq
    <1>6. \A k \in 1 .. Len(s) - 1 : Tail(q)[k] = Tag(Picked, Tail(s)[k].ptr, Tail(s)[k].tag)
      <2> TAKE k \in 1 .. Len(s) - 1
      <2>1. k + 1 \in 1 .. Len(s)
        BY <1>1, <1>2
      <2>2. QED
        BY <1>1, <1>3, <1>4, <2>1
    <1>7. QED
      BY <1>1, <1>2, <1>3, <1>4, <1>5, <1>6 DEF Carries

\* What taskcb does with a task that was queued as e: it queues another, frees
\* the object, or neither.
LEMMA TaskCbDoes ==
    ASSUME TpInv, at[Main] = "ready", NEW e \in Entry, NEW q, NEW s, Carries(q, s), NEW failed,
           TaskCb(Tag(Picked, e.ptr, e.tag), q, s, failed)
    PROVE  /\ Carries(soonque', sent')
           /\ wild' = (wild \/ e.ptr \notin soonlive)
           /\ early' = (early \/ (e.tag = Again /\ (failed \/ soonlive' # soonlive)))
           /\ \/ /\ e.tag = Again /\ soonlive' = soonlive
                 /\ [tag |-> Free, ptr |-> e.ptr] \in Entry
                 /\ sent' = Append(s, [tag |-> Free, ptr |-> e.ptr])
              \/ e.tag \in {Again, Free} /\ soonlive' = soonlive \ {e.ptr} /\ sent' = s
              \/ e.tag \notin {Again, Free} /\ soonlive' = soonlive /\ sent' = s
    <1> DEFINE tagged == Tag(Picked, e.ptr, e.tag)
               new == [tag |-> Free, ptr |-> e.ptr]
    <1>1. tp_v = Picked /\ utp_v = Picked
      BY ReadyUses, ClientAssumption DEF ClientAssumption
    <1>2. Untag(utp_v, tagged, Al) = e
      BY <1>1, EntryUntags
    <1> HIDE DEF tagged
    <1>3. /\ wild' = (wild \/ e.ptr \notin soonlive)
          /\ early' = (early \/ (e.tag = Again /\ (failed \/ soonlive' # soonlive)))
          /\ \/ /\ e.tag = Again /\ soonlive' = soonlive
                /\ soonque' = Append(q, Tag(tp_v, e.ptr, Free)) /\ sent' = Append(s, new)
             \/ /\ e.tag \in {Again, Free} /\ soonlive' = soonlive \ {e.ptr}
                /\ soonque' = q /\ sent' = s
             \/ /\ e.tag \notin {Again, Free} /\ soonlive' = soonlive
                /\ soonque' = q /\ sent' = s
      BY <1>2 DEF TaskCb, Queue, NextTag, Again, Free, tagged
    <1>4. e.tag = Again => new \in Entry
      <2> HAVE e.tag = Again
      <2>1. PICK t \in 0 .. Limit - 1 : e.tag = Bits(t)
        BY DEF Entry, Tags
      <2>2. AgainTag < Limit
        <3>1. t \in 0 .. Pow2(W) - 1
          BY Numbers
        <3>2. t = AgainTag
          BY <2>1, <3>1, TagIs
        <3>3. QED
          BY <3>2, Numbers
      <2>3. FreeTag \in 0 .. Limit - 1
        BY <2>2, Numbers
      <2>4. Free \in Tags(Limit)
        BY <2>3 DEF Tags, Free
      <2>5. QED
        BY <2>4 DEF Entry
    <1>5. e.tag = Again => Carries(Append(q, Tag(Picked, e.ptr, Free)), Append(s, new))
      <2>1. new.ptr = e.ptr /\ new.tag = Free
        OBVIOUS
      <2> HIDE DEF new
      <2>2. QED
        BY <1>4, <2>1, CarriesAppend
    <1>6. QED
      BY <1>1, <1>3, <1>4, <1>5

LEMMA SameCpu ==
    ASSUME Picked' = Picked
    PROVE  /\ Limit' = Limit /\ Object' = Object
           /\ Carries(soonque', sent') <=> Carries(soonque, sent)'
    BY DEF Limit, Object, Entry, Carries

\* What most steps do to the soon tasks: nothing.
LEMMA SoonUntouched ==
    ASSUME Types, Types', TagInv, SoonInv, Picked' = Picked,
           UNCHANGED <<filling, soonque, soonlive, sent>>,
           early => early', wild' = wild \/ early',
           phase' # "main" => at'[Main] = "ready",
           phase' \in {"main", "read", "connect"} => phase \in {"main", "read", "connect"},
           phase' = "soon" => phase \in {"read", "soon"},
           phase = "soon" => phase' = "soon"
    PROVE  TagInv' /\ SoonInv'
    <1>1. Limit' = Limit /\ Object' = Object /\ (Carries(soonque', sent') <=> Carries(soonque, sent)')
      BY SameCpu
    <1>2. 0 < NSoon
      BY Numbers
    <1>3. phase \notin {"read", "soon"} => phase' # "soon"
      OBVIOUS
    <1>4. phase = "read" => sent = <<>> /\ soonlive = {} /\ filling = [obj |-> {}, tag |-> 0, i |-> 0]
      BY DEF TagInv
    <1>5. TagInv'
      <2>1. phase' = "soon" => filling'.i < NSoon
        BY <1>2, <1>4 DEF TagInv
      <2>2. QED
        BY <1>1, <2>1 DEF TagInv
    <1>6. SoonInv'
      <2> SUFFICES ASSUME ~early' PROVE (LastFrees /\ FillingSoon /\ WillBeFreed)'
        BY DEF SoonInv
      <2>1. LastFrees /\ FillingSoon /\ WillBeFreed /\ wild' = wild
        BY DEF SoonInv
      <2>2. LastFrees'
        BY <2>1 DEF LastFrees
      <2>3. FillingSoon'
        <3>1. CASE phase' = "soon" /\ phase = "read"
          BY <1>4, <3>1 DEF FillingSoon
        <3>2. CASE phase' = "soon" /\ phase = "soon"
          BY <2>1, <3>2 DEF FillingSoon
        <3>3. CASE phase' # "soon"
          BY <3>3 DEF FillingSoon
        <3>4. QED
          BY <3>1, <3>2, <3>3
      <2>4. WillBeFreed'
        <3>1. CASE phase = "read"
          BY <1>1, <1>4, <3>1 DEF WillBeFreed
        <3>2. CASE phase = "soon"
          BY <1>1, <2>1, <3>2 DEF WillBeFreed
        <3>3. CASE phase \notin {"read", "soon"}
          BY <1>1, <1>3, <2>1, <3>3 DEF WillBeFreed
        <3>4. QED
          BY <3>1, <3>2, <3>3
      <2>5. QED
        BY <2>2, <2>3, <2>4
    <1>7. QED
      BY <1>5, <1>6

LEMMA RunSoonKeeps ==
    ASSUME Types, Types', TpInv, TagInv, SoonInv, RunSoon
    PROVE  TagInv' /\ SoonInv'
    <1> DEFINE e == sent[1]
               s == Tail(sent)
               n == Len(sent)
    <1>1. /\ phase = "loop" /\ phase' = "loop" /\ at[Main] = "ready" /\ at' = at /\ cpu' = cpu
          /\ filling' = filling /\ soonque # <<>>
          /\ TaskCb(Head(soonque), Tail(soonque), Tail(sent), FALSE)
      BY DEF RunSoon, tpVars, TagInv
    <1>2. /\ Limit' = Limit /\ Object' = Object
          /\ Carries(soonque', sent') <=> Carries(soonque, sent)'
      BY <1>1, PickedStays, SameCpu
    <1>3. /\ n \in Nat \ {0} /\ Head(soonque) = Tag(Picked, e.ptr, e.tag) /\ e \in Entry
          /\ Carries(Tail(soonque), s) /\ Len(s) = n - 1
          /\ \A k \in 1 .. n - 1 : s[k] = sent[k + 1]
      BY <1>1, CarriesTail DEF TagInv
    <1>4. s \in Seq(Entry)
      BY <1>3 DEF Carries
    <1>5. e.ptr \in Object
      BY <1>3 DEF Entry
    <1> HIDE DEF e, s, n
    <1>6. /\ Carries(soonque', sent')
          /\ wild' = (wild \/ e.ptr \notin soonlive)
          /\ early' = (early \/ (e.tag = Again /\ (FALSE \/ soonlive' # soonlive)))
          /\ \/ /\ e.tag = Again /\ soonlive' = soonlive
                /\ [tag |-> Free, ptr |-> e.ptr] \in Entry
                /\ sent' = Append(s, [tag |-> Free, ptr |-> e.ptr])
             \/ e.tag \in {Again, Free} /\ soonlive' = soonlive \ {e.ptr} /\ sent' = s
             \/ e.tag \notin {Again, Free} /\ soonlive' = soonlive /\ sent' = s
      <2>1. TaskCb(Tag(Picked, e.ptr, e.tag), Tail(soonque), s, FALSE)
        BY <1>1, <1>3 DEF s
      <2>2. QED
        BY <1>1, <1>3, <2>1, TaskCbDoes
    <1>7. TagInv'
      <2>1. soonlive' \subseteq Object
        BY <1>6 DEF TagInv
      <2>2. QED
        BY <1>1, <1>2, <1>6, <2>1 DEF TagInv
    <1>8. SoonInv'
      <2> SUFFICES ASSUME ~early' PROVE (LastFrees /\ FillingSoon /\ WillBeFreed)'
        BY DEF SoonInv
      <2>1. ~early /\ LastFrees /\ WillBeFreed
        BY <1>6 DEF SoonInv, Types
      <2>2. /\ ~wild /\ \A k \in 1 .. n : sent[k].ptr \in soonlive
            /\ \A j, k \in 1 .. n :
                  j # k /\ sent[j].ptr = sent[k].ptr =>
                      /\ sent[j].tag = Again => sent[k].tag \notin {Again, Free}
                      /\ j < k => sent[j].tag # Free
        BY <2>1 DEF LastFrees, n
      <2>3. 1 \in 1 .. n /\ \A k \in 1 .. n - 1 : k + 1 \in 1 .. n /\ k + 1 # 1 /\ 1 < k + 1
        BY <1>3
      <2>4. e.ptr \in soonlive /\ ~wild'
        BY <1>6, <2>2, <2>3 DEF e, Types
      <2>5. FillingSoon'
        BY <1>1 DEF FillingSoon
      <2>6. \A j, k \in 1 .. n - 1 :
                j # k /\ s[j].ptr = s[k].ptr =>
                    /\ s[j].tag = Again => s[k].tag \notin {Again, Free}
                    /\ j < k => s[j].tag # Free
        <3> SUFFICES ASSUME NEW j \in 1 .. n - 1, NEW k \in 1 .. n - 1, j # k, s[j].ptr = s[k].ptr
                     PROVE  /\ s[j].tag = Again => s[k].tag \notin {Again, Free}
                            /\ j < k => s[j].tag # Free
          OBVIOUS
        <3>1. j + 1 # k + 1 /\ (j < k => j + 1 < k + 1)
          BY <1>3
        <3>2. QED
          BY <1>3, <2>2, <2>3, <3>1
      \* What else is queued with the object of the first task.
      <2>7. \A k \in 1 .. n - 1 : s[k].ptr = e.ptr =>
                /\ e.tag = Again => s[k].tag \notin {Again, Free}
                /\ e.tag # Free
        BY <1>3, <2>2, <2>3 DEF e
      <2>8. AgainTag < Limit =>
                \A obj \in soonlive :
                    \/ obj = e.ptr /\ e.tag \in {Again, Free}
                    \/ \E k \in 1 .. n - 1 : s[k].ptr = obj /\ s[k].tag \in {Again, Free}
        <3> SUFFICES ASSUME AgainTag < Limit, NEW obj \in soonlive
                     PROVE  \/ obj = e.ptr /\ e.tag \in {Again, Free}
                            \/ \E k \in 1 .. n - 1 : s[k].ptr = obj /\ s[k].tag \in {Again, Free}
          OBVIOUS
        <3>1. PICK k \in 1 .. n : sent[k].ptr = obj /\ sent[k].tag \in {Again, Free}
          BY <1>1, <2>1 DEF WillBeFreed, n
        <3>2. CASE k = 1
          BY <3>1, <3>2 DEF e
        <3>3. CASE k # 1
          <4>1. k - 1 \in 1 .. n - 1 /\ k - 1 + 1 = k
            BY <1>3, <3>3
          <4>2. s[k - 1] = sent[k]
            BY <1>3, <4>1
          <4>3. QED
            BY <3>1, <4>1, <4>2
        <3>4. QED
          BY <3>2, <3>3
      <2>9. CASE /\ e.tag = Again /\ soonlive' = soonlive
                 /\ [tag |-> Free, ptr |-> e.ptr] \in Entry
                 /\ sent' = Append(s, [tag |-> Free, ptr |-> e.ptr])
        <3> DEFINE f == [tag |-> Free, ptr |-> e.ptr]
        <3>1. f.tag = Free /\ f.ptr = e.ptr
          OBVIOUS
        <3> HIDE DEF f
        <3>2. /\ Len(sent') = n /\ sent'[n] = f /\ \A k \in 1 .. n - 1 : sent'[k] = s[k]
          <4>1. sent' = Append(s, f) /\ f \in Entry
            BY <2>9 DEF f
          <4>2. QED
            BY <1>3, <1>4, <4>1, AppendProperties
        <3>3. \A k \in 1 .. n : k = n \/ k \in 1 .. n - 1
          BY <1>3
        <3>4. LastFrees'
          <4>1. \A k \in 1 .. n : sent'[k].ptr \in soonlive'
            BY <1>3, <2>2, <2>3, <2>4, <2>9, <3>1, <3>2, <3>3
          <4>2. ASSUME NEW j \in 1 .. n, NEW k \in 1 .. n, j # k, sent'[j].ptr = sent'[k].ptr
                PROVE  /\ sent'[j].tag = Again => sent'[k].tag \notin {Again, Free}
                       /\ j < k => sent'[j].tag # Free
            <5>1. CASE j \in 1 .. n - 1 /\ k \in 1 .. n - 1
              BY <2>6, <3>2, <4>2, <5>1
            <5>2. CASE j = n /\ k \in 1 .. n - 1
              <6>1. ~(j < k) /\ sent'[j].tag = Free
                BY <1>3, <3>1, <3>2, <5>2
              <6>2. QED
                BY <6>1, TagIs
            <5>3. CASE j \in 1 .. n - 1 /\ k = n
              BY <2>7, <2>9, <3>1, <3>2, <4>2, <5>3
            <5>4. QED
              BY <3>3, <4>2, <5>1, <5>2, <5>3
          <4>3. QED
            BY <2>4, <3>2, <4>1, <4>2 DEF LastFrees
        <3>5. WillBeFreed'
          <4> SUFFICES ASSUME AgainTag < Limit, NEW obj \in soonlive
                       PROVE  \E k \in 1 .. n : sent'[k].ptr = obj /\ sent'[k].tag \in {Again, Free}
            BY <1>1, <1>2, <2>9, <3>2 DEF WillBeFreed
          <4>1. CASE obj = e.ptr
            BY <1>3, <3>1, <3>2, <4>1
          <4>2. CASE obj # e.ptr
            <5>1. PICK k \in 1 .. n - 1 : s[k].ptr = obj /\ s[k].tag \in {Again, Free}
              BY <2>8, <4>2
            <5>2. k \in 1 .. n
              BY <1>3
            <5>3. QED
              BY <3>2, <5>1, <5>2
          <4>3. QED
            BY <4>1, <4>2
        <3>6. QED
          BY <2>5, <3>4, <3>5
      <2>10. CASE sent' = s /\ soonlive' = soonlive \ {e.ptr} /\ e.tag = Free
        <3>1. LastFrees'
          <4>1. \A k \in 1 .. n - 1 : sent'[k].ptr \in soonlive'
            BY <1>3, <2>2, <2>3, <2>7, <2>10
          <4>2. QED
            BY <1>3, <2>4, <2>6, <2>10, <4>1 DEF LastFrees
        <3>2. WillBeFreed'
          BY <1>1, <1>2, <1>3, <2>8, <2>10 DEF WillBeFreed
        <3>3. QED
          BY <2>5, <3>1, <3>2
      <2>11. CASE sent' = s /\ soonlive' = soonlive /\ e.tag \notin {Again, Free}
        <3>1. LastFrees'
          <4>1. \A k \in 1 .. n - 1 : sent'[k].ptr \in soonlive'
            BY <1>3, <2>2, <2>3, <2>11
          <4>2. QED
            BY <1>3, <2>4, <2>6, <2>11, <4>1 DEF LastFrees
        <3>2. WillBeFreed'
          BY <1>1, <1>2, <1>3, <2>8, <2>11 DEF WillBeFreed
        <3>3. QED
          BY <2>5, <3>1, <3>2
      <2>12. QED
        <3>1. e.tag = Again => soonlive' = soonlive
          BY <1>6 DEF Types
        <3>2. soonlive' = soonlive \ {e.ptr} => soonlive' # soonlive
          BY <2>4
        <3>3. QED
          BY <1>6, <2>9, <2>10, <2>11, <3>1, <3>2
    <1>9. QED
      BY <1>7, <1>8

LEMMA SoonAllocKeeps ==
    ASSUME Types, Types', TpInv, TagInv, SoonInv, SoonAlloc
    PROVE  TagInv' /\ SoonInv'
    <1>1. /\ phase = "soon" /\ filling.obj = {} /\ at' = at /\ cpu' = cpu /\ at[Main] = "ready"
          /\ soonque' = soonque /\ sent' = sent /\ wild' = wild /\ early' = early
          /\ filling \in [obj : {{}} \cup Object, tag : Nat, i : 0 .. NSoon]
          /\ soonlive \subseteq Object /\ filling.i < NSoon
      BY DEF SoonAlloc, tpVars, TagInv
    <1>2. /\ Limit' = Limit /\ Object' = Object
          /\ Carries(soonque', sent') <=> Carries(soonque, sent)'
      BY <1>1, PickedStays, SameCpu
    <1>3. Carries(soonque', sent')
      BY <1>1 DEF TagInv
    <1>4. SoonInv => (~early => LastFrees /\ FillingSoon /\ WillBeFreed)
      BY DEF SoonInv
    <1>5. CASE phase' = "timer" /\ filling' = filling /\ soonlive' = soonlive
      <2>1. TagInv'
        BY <1>1, <1>2, <1>3, <1>5 DEF TagInv
      <2>2. SoonInv'
        BY <1>1, <1>2, <1>4, <1>5 DEF SoonInv, LastFrees, FillingSoon, WillBeFreed
      <2>3. QED
        BY <2>1, <2>2
    <1>6. ASSUME NEW obj \in (Addr \cap UserPtr(Picked)) \ soonlive,
                 filling' = [filling EXCEPT !.obj = obj, !.tag = 0],
                 soonlive' = soonlive \cup {obj}, phase' = phase
          PROVE  TagInv' /\ SoonInv'
      <2>1. obj \in Object /\ obj \notin soonlive /\ obj # {}
        BY DEF Object, UserPtr
      <2>2. /\ filling' \in [obj : {{}} \cup Object, tag : Nat, i : 0 .. NSoon]
            /\ filling'.obj = obj /\ filling'.tag = 0 /\ filling'.i = filling.i
        BY <1>1, <1>6, <2>1
      <2>3. TagInv'
        <3>1. 0 < Limit
          BY Numbers
        <3>2. QED
          BY <1>1, <1>2, <1>3, <1>6, <2>1, <2>2, <3>1 DEF TagInv
      <2>4. SoonInv'
        <3> SUFFICES ASSUME ~early PROVE (LastFrees /\ FillingSoon /\ WillBeFreed)'
          BY <1>1 DEF SoonInv
        <3>1. LastFrees'
          BY <1>1, <1>4, <1>6 DEF LastFrees
        <3>2. FillingSoon'
          <4>1. \A k \in 1 .. Len(sent) : sent[k].ptr # obj /\ sent[k].tag \in Tags(filling.i)
            BY <1>1, <1>4, <2>1 DEF LastFrees, FillingSoon
          <4>2. 0 <= filling.i
            BY <1>1
          <4>3. QED
            BY <1>1, <1>6, <2>2, <4>1, <4>2 DEF FillingSoon
        <3>3. WillBeFreed'
          <4> SUFFICES ASSUME AgainTag < Limit
                       PROVE  /\ filling'.tag = filling'.i
                              /\ \A o \in soonlive' : o = filling'.obj /\ filling'.tag <= AgainTag
            BY <1>1, <1>2, <1>6, <2>1, <2>2 DEF WillBeFreed
          <4>1. soonlive = {} /\ filling.i = 0
            BY <1>1, <1>4 DEF WillBeFreed
          <4>2. QED
            BY <1>6, <2>2, <4>1, Numbers
        <3>4. QED
          BY <3>1, <3>2, <3>3
      <2>5. QED
        BY <2>3, <2>4
    <1>7. QED
      BY <1>5, <1>6 DEF SoonAlloc

LEMMA SoonFillKeeps ==
    ASSUME Types, Types', TpInv, TagInv, SoonInv, SoonFill
    PROVE  TagInv' /\ SoonInv'
    <1> DEFINE obj == filling.obj
               tag == filling.tag
               i == filling.i
               n == Len(sent)
               e == [tag |-> Bits(tag), ptr |-> obj]
    <1>1. /\ phase = "soon" /\ obj # {} /\ at' = at /\ cpu' = cpu /\ at[Main] = "ready"
          /\ obj \in Object /\ tag \in Nat /\ tag < Limit /\ i \in Nat /\ i < NSoon
          /\ soonlive \subseteq Object /\ Carries(soonque, sent) /\ sent \in Seq(Entry) /\ n \in Nat
      BY DEF SoonFill, tpVars, TagInv, Carries
    <1>2. /\ Limit' = Limit /\ Object' = Object
          /\ Carries(soonque', sent') <=> Carries(soonque, sent)'
      BY <1>1, PickedStays, SameCpu
    <1>3. tp_v = Picked /\ TagMax = Limit
      <2>1. tp_v = Picked /\ maxtag_shl = Tagh(Picked)
        BY <1>1, ReadyUses, ClientAssumption DEF ClientAssumption
      <2>2. QED
        BY <2>1 DEF TagMax, Limit
    <1>4. /\ phase' = IF i + 1 >= NSoon THEN "timer" ELSE "soon"
          /\ filling' = [obj |-> IF tag + 1 < Limit THEN obj ELSE {}, tag |-> tag + 1, i |-> i + 1]
      BY <1>3 DEF SoonFill, Filled
    <1>5. e \in Entry /\ e.tag = Bits(tag) /\ e.ptr = obj
      BY <1>1, Numbers DEF Entry, Tags
    <1>6. \/ /\ soonque' = Append(soonque, Tag(Picked, e.ptr, e.tag)) /\ sent' = Append(sent, e)
             /\ soonlive' = soonlive /\ wild' = wild /\ early' = early
          \/ TaskCb(Tag(Picked, e.ptr, e.tag), soonque, sent, TRUE)
      BY <1>3 DEF SoonFill, Queue
    <1> HIDE DEF obj, tag, i, n, e
    \* The queue is as before, or has e at its end.
    <1>7. /\ Carries(soonque', sent') /\ soonlive' \subseteq Object
          /\ \/ early'
             \/ e.tag = Free
             \/ /\ ~early /\ soonlive' = soonlive
                /\ \/ wild' = wild /\ sent' = Append(sent, e)
                   \/ wild' = (wild \/ obj \notin soonlive) /\ sent' = sent /\ e.tag # Again
      <2>1. CASE /\ soonque' = Append(soonque, Tag(Picked, e.ptr, e.tag)) /\ sent' = Append(sent, e)
                 /\ soonlive' = soonlive /\ wild' = wild /\ early' = early
        BY <1>1, <1>5, <2>1, CarriesAppend
      <2>2. CASE TaskCb(Tag(Picked, e.ptr, e.tag), soonque, sent, TRUE)
        <3>1. /\ Carries(soonque', sent')
              /\ wild' = (wild \/ e.ptr \notin soonlive)
              /\ early' = (early \/ (e.tag = Again /\ (TRUE \/ soonlive' # soonlive)))
              /\ \/ e.tag = Again /\ soonlive' = soonlive
                 \/ e.tag \in {Again, Free} /\ soonlive' = soonlive \ {e.ptr} /\ sent' = sent
                 \/ e.tag \notin {Again, Free} /\ soonlive' = soonlive /\ sent' = sent
          BY <1>1, <1>5, <2>2, TaskCbDoes
        <3>2. soonlive' \subseteq Object
          BY <1>1, <3>1
        <3>3. CASE early \/ e.tag = Again
          BY <3>1, <3>2, <3>3, Zenon
        <3>4. CASE ~early /\ e.tag # Again
          <4>1. \/ e.tag = Free
                \/ e.tag \notin {Again, Free} /\ soonlive' = soonlive /\ sent' = sent
            BY <3>1, <3>4
          <4>2. CASE e.tag = Free
            BY <3>1, <3>2, <3>4, <4>2 DEF Types
          <4>3. CASE soonlive' = soonlive /\ sent' = sent
            BY <1>5, <3>1, <3>2, <3>4, <4>3, Zenon
          <4>4. QED
            BY <4>1, <4>2, <4>3
        <3>5. QED
          BY <3>3, <3>4
      <2>3. QED
        BY <1>6, <2>1, <2>2
    <1>8. TagInv'
      <2>1. /\ filling' \in [obj : {{}} \cup Object, tag : Nat, i : 0 .. NSoon]
            /\ filling'.i = i + 1 /\ filling'.tag = tag + 1
            /\ filling'.obj # {} => tag + 1 < Limit
        BY <1>1, <1>4, Numbers
      <2>2. phase' \in {"soon", "timer"} /\ (phase' = "soon" => i + 1 < NSoon)
        BY <1>1, <1>4, Numbers
      <2>3. QED
        BY <1>1, <1>2, <1>7, <2>1, <2>2 DEF TagInv
    <1>9. SoonInv'
      <2> SUFFICES ASSUME ~early' PROVE (LastFrees /\ FillingSoon /\ WillBeFreed)'
        BY DEF SoonInv
      <2>0. ~early
        BY <1>6, <1>1, <1>5, TaskCbDoes DEF Types
      <2>1. LastFrees /\ FillingSoon /\ WillBeFreed
        BY <2>0 DEF SoonInv
      <2>2. /\ tag <= i /\ obj \in soonlive
            /\ \A k \in 1 .. n : sent[k].tag \in Tags(i)
            /\ \A k \in 1 .. n : sent[k].ptr = obj => sent[k].tag \in Tags(tag)
        BY <1>1, <2>1 DEF FillingSoon, obj, tag, i, n
      <2>3. /\ \A k \in 1 .. n : sent[k].tag # Free
            /\ \A k \in 1 .. n : sent[k].ptr = obj /\ sent[k].tag = Again => AgainTag < tag
            /\ e.tag # Free /\ e.tag \in Tags(tag + 1) /\ (e.tag = Again <=> tag = AgainTag)
        <3>1. tag \in 0 .. FreeTag /\ tag + 1 \in 0 .. FreeTag /\ i \in 0 .. FreeTag
          BY <1>1, <2>2, Numbers
        <3>2. e.tag \in Tags(tag + 1)
          BY <1>1, <1>5 DEF Tags
        <3>3. tag \in 0 .. Pow2(W) - 1
          BY <3>1, Numbers
        <3>4. (e.tag = Again <=> tag = AgainTag)
          BY <1>5, <3>3, TagIs DEF Again
        <3>5. e.tag # Free
          BY <3>1, <3>2, TagBelow
        <3>6. \A k \in 1 .. n : sent[k].tag # Free
          BY <2>2, <3>1, TagBelow
        <3>7. \A k \in 1 .. n : sent[k].ptr = obj /\ sent[k].tag = Again => AgainTag < tag
          BY <2>2, <3>1, TagBelow
        <3>8. QED
          BY <3>2, <3>4, <3>5, <3>6, <3>7
      <2>4. /\ soonlive' = soonlive /\ wild' = wild
            /\ sent' = Append(sent, e) \/ (sent' = sent /\ e.tag # Again)
        BY <1>7, <2>2, <2>3 DEF Types
      <2>5. /\ Len(sent') \in {n, n + 1} /\ \A k \in 1 .. n : sent'[k] = sent[k]
            /\ Len(sent') = n + 1 => sent'[n + 1] = e
            /\ e.tag = Again => Len(sent') = n + 1
        <3>1. CASE sent' = sent /\ e.tag # Again
          BY <1>1, <3>1 DEF n
        <3>2. CASE sent' = Append(sent, e)
          BY <1>1, <1>5, <3>2, AppendProperties DEF n
        <3>3. QED
          BY <2>4, <3>1, <3>2
      <2>6. \A k \in 1 .. Len(sent') : k \in 1 .. n \/ (k = n + 1 /\ sent'[k] = e)
        BY <1>1, <2>5
      <2>7. LastFrees'
        <3>1. ~wild' /\ \A k \in 1 .. Len(sent') : sent'[k].ptr \in soonlive'
          BY <1>5, <2>1, <2>2, <2>4, <2>5, <2>6 DEF LastFrees, n
        <3>2. \A k \in 1 .. Len(sent') : sent'[k].tag # Free
          BY <2>3, <2>5, <2>6
        <3>3. ASSUME NEW j \in 1 .. Len(sent'), NEW k \in 1 .. Len(sent'),
                     j # k, sent'[j].ptr = sent'[k].ptr, sent'[j].tag = Again
              PROVE  sent'[k].tag # Again
          <4>1. CASE j \in 1 .. n /\ k \in 1 .. n
            BY <2>1, <2>5, <3>3, <4>1 DEF LastFrees, n
          <4>2. CASE j = n + 1 /\ k \in 1 .. n
            <5>1. tag = AgainTag /\ sent[k].ptr = obj
              BY <1>1, <1>5, <2>3, <2>5, <2>6, <3>3, <4>2
            <5>2. QED
              BY <1>1, <2>3, <2>5, <4>2, <5>1
          <4>3. CASE j \in 1 .. n /\ k = n + 1
            <5>1. sent[j].ptr = obj /\ sent[j].tag = Again /\ sent'[k] = e
              BY <1>1, <1>5, <2>5, <2>6, <3>3, <4>3
            <5>2. AgainTag < tag
              BY <2>3, <4>3, <5>1
            <5>3. QED
              BY <1>1, <2>3, <5>1, <5>2, Numbers
          <4>4. QED
            BY <2>6, <3>3, <4>1, <4>2, <4>3
        <3>4. QED
          BY <3>1, <3>2, <3>3 DEF LastFrees
      <2>8. FillingSoon'
        <3>1. filling'.tag = tag + 1 /\ filling'.i = i + 1 /\ (filling'.obj # {} => filling'.obj = obj)
          BY <1>4
        <3>2. \A k \in 1 .. Len(sent') : sent'[k].tag \in Tags(i + 1)
          <4>1. Tags(i) \subseteq Tags(i + 1) /\ Tags(tag + 1) \subseteq Tags(i + 1)
            BY <1>1, <2>2 DEF Tags
          <4>2. QED
            BY <2>2, <2>3, <2>5, <2>6, <4>1
        <3>3. \A k \in 1 .. Len(sent') : sent'[k].ptr = obj => sent'[k].tag \in Tags(tag + 1)
          <4>1. Tags(tag) \subseteq Tags(tag + 1)
            BY <1>1 DEF Tags
          <4>2. QED
            BY <2>2, <2>3, <2>5, <2>6, <4>1
        <3>4. tag + 1 <= i + 1
          BY <1>1, <2>2
        <3>5. QED
          BY <2>2, <2>4, <3>1, <3>2, <3>3, <3>4 DEF FillingSoon
      <2>9. WillBeFreed'
        <3> SUFFICES ASSUME AgainTag < Limit
                     PROVE  /\ phase' = "soon" => filling'.obj # {} /\ filling'.tag = filling'.i
                            /\ \A o \in soonlive :
                                  \/ phase' = "soon" /\ o = filling'.obj /\ filling'.tag <= AgainTag
                                  \/ \E k \in 1 .. Len(sent') :
                                        sent'[k].ptr = o /\ sent'[k].tag \in {Again, Free}
          BY <1>2, <2>4 DEF WillBeFreed
        <3>1. tag = i /\ tag + 1 < Limit
          <4>1. tag = i
            BY <1>1, <2>1 DEF WillBeFreed, obj, tag, i
          <4>2. QED
            BY <1>1, <4>1, Numbers
        <3>2. filling'.obj = obj /\ filling'.tag = tag + 1 /\ filling'.i = i + 1
          BY <1>4, <3>1
        <3>3. ASSUME NEW o \in soonlive
              PROVE  \/ phase' = "soon" /\ o = filling'.obj /\ filling'.tag <= AgainTag
                     \/ \E k \in 1 .. Len(sent') :
                           sent'[k].ptr = o /\ sent'[k].tag \in {Again, Free}
          <4>1. CASE \E k \in 1 .. n : sent[k].ptr = o /\ sent[k].tag \in {Again, Free}
            <5>1. \A k \in 1 .. n : k \in 1 .. Len(sent')
              BY <1>1, <2>5
            <5>2. QED
              BY <2>5, <4>1, <5>1
          <4>2. CASE o = obj /\ tag = AgainTag
            <5>1. e.tag = Again /\ Len(sent') = n + 1 /\ sent'[n + 1] = e /\ n + 1 \in 1 .. Len(sent')
              BY <1>1, <2>3, <2>5, <4>2
            <5>2. QED
              BY <1>5, <4>2, <5>1
          <4>3. CASE o = obj /\ tag < AgainTag
            <5>1. tag + 1 <= AgainTag /\ ~(i + 1 >= NSoon)
              BY <1>1, <3>1, <4>3, Numbers
            <5>2. QED
              BY <1>4, <3>2, <4>3, <5>1
          <4>4. \/ o = obj /\ tag <= AgainTag
                \/ \E k \in 1 .. n : sent[k].ptr = o /\ sent[k].tag \in {Again, Free}
            BY <1>1, <2>1 DEF WillBeFreed, obj, tag, n
          <4>5. QED
            BY <1>1, <4>1, <4>2, <4>3, <4>4, Numbers
        <3>4. QED
          BY <1>1, <3>1, <3>2, <3>3
      <2>10. QED
        BY <2>7, <2>8, <2>9
    <1>10. QED
      BY <1>8, <1>9

LEMMA SoonInvInit == ClientInit => TagInv /\ SoonInv
    <1> SUFFICES ASSUME ClientInit PROVE TagInv /\ SoonInv
      OBVIOUS
    <1>1. /\ phase = "main" /\ filling = [obj |-> {}, tag |-> 0, i |-> 0]
          /\ soonque = <<>> /\ soonlive = {} /\ sent = <<>> /\ ~wild
      BY DEF ClientInit
    <1>2. Carries(soonque, sent)
      BY <1>1 DEF Carries
    <1>3. TagInv
      BY <1>1, <1>2, Numbers DEF TagInv
    <1>4. SoonInv
      BY <1>1 DEF SoonInv, LastFrees, FillingSoon, WillBeFreed
    <1>5. QED
      BY <1>3, <1>4

LEMMA SoonInvNext ==
    ASSUME ClientInv, Types', Picked' = Picked, [ClientNext]_vars
    PROVE  TagInv' /\ SoonInv'
    <1>1. Types /\ TpInv /\ TagInv /\ SoonInv /\ MemInv /\ BufInv /\ NetInv
      BY DEF ClientInv
    <1>2. CASE RunSoon \/ SoonAlloc \/ SoonFill
      BY <1>1, <1>2, RunSoonKeeps, SoonAllocKeeps, SoonFillKeeps
    <1>3. CASE ~(RunSoon \/ SoonAlloc \/ SoonFill)
      <2>1. wild' = wild \/ early'
        BY <1>1, <1>3, MemInvNext
      <2>2. /\ UNCHANGED <<filling, soonque, soonlive, sent>>
            /\ early => early'
            /\ phase' \in {"main", "read", "connect"} => phase \in {"main", "read", "connect"}
            /\ phase' = "soon" => phase \in {"read", "soon"}
            /\ phase = "soon" => phase' = "soon"
            /\ phase = "main" /\ phase' # "main" => at[Main] = "ready"
            /\ at' = at \/ (phase' = phase /\ \E t \in Thread :
                                 (t = Main => phase = "main") /\ Initialise(t))
        <3>1. CASE OnRead \/ OnWrite \/ OnTimer
          BY <3>1 DEF OnRead, OnWrite, OnTimer, tpVars
        <3>2. CASE EchoAccepted \/ EchoSent \/ EchoReceived \/ EchoFails
          <4>1. CASE EchoAccepted
            <5>1. \E b \in BOOLEAN : early' = (early \/ b)
              BY <4>1 DEF EchoAccepted
            <5>2. QED
              BY <4>1, <5>1 DEF EchoAccepted, tpVars
          <4>2. CASE EchoSent \/ EchoReceived \/ EchoFails
            BY <4>2 DEF EchoSent, EchoReceived, EchoFails, tpVars
          <4>3. QED
            BY <3>2, <4>1, <4>2
        <3>3. CASE \/ OnConnect("dowrite", {"doread"})
                   \/ OnConnect("doread", {"vfy"})
                   \/ OnConnect("vfy", {})
          BY <3>3 DEF OnConnect, tpVars
        <3>4. CASE Start \/ Leave \/ AmainTimer
          BY <3>4 DEF Start, Leave, AmainTimer, tpVars
        <3>5. CASE AmainRead \/ AmainServe \/ AmainConnect
          <4>1. CASE AmainRead
            BY <4>1 DEF AmainRead, tpVars
          <4>2. CASE AmainServe
            <5>1. /\ UNCHANGED <<filling, soonque, soonlive, sent>> /\ phase = "serve"
                  /\ phase' \in {"loop", "out"} /\ at' = at
              BY <4>2 DEF AmainServe, tpVars
            <5>2. \/ early' = early
                  \/ \E b \in BOOLEAN : early' = (early \/ b)
              BY <4>2 DEF AmainServe
            <5>3. early => early'
              BY <5>2
            <5>4. QED
              BY <5>1, <5>3
          <4>3. CASE AmainConnect
            <5>1. /\ UNCHANGED <<filling, soonque, soonlive, sent>> /\ phase = "connect"
                  /\ phase' \in {"loop", "out"} /\ at' = at /\ (early' = early \/ early' = TRUE)
              BY <4>3 DEF AmainConnect, tpVars
            <5>2. QED
              BY <5>1
          <4>4. QED
            BY <3>5, <4>1, <4>2, <4>3
        <3>6. CASE UNCHANGED vars
          BY <3>6 DEF vars, tpVars, clientVars
        <3>7. CASE \E t \in Thread : (t = Main => phase = "main") /\ Initialise(t) /\ UNCHANGED clientVars
          BY <3>7 DEF clientVars
        <3>8. QED
          BY <1>3, <3>1, <3>2, <3>3, <3>4, <3>5, <3>6, <3>7 DEF ClientNext, Called
      <2>3. phase' # "main" => at'[Main] = "ready"
        <3>1. phase # "main" => at[Main] = "ready"
          BY <1>1 DEF TagInv
        <3>2. ASSUME phase' = phase, phase # "main",
                     NEW t \in Thread, t = Main => phase = "main", Initialise(t)
              PROVE  at'[Main] = at[Main]
          BY <1>1, <3>2, ClientAssumption
          DEF TpInv, Initialise, StoreTp, StoreUtp, StoreMax, ClientAssumption
        <3>3. QED
          BY <2>2, <3>1, <3>2
      <2>4. QED
        BY <1>1, <2>1, <2>2, <2>3, SoonUntouched
    <1>4. QED
      BY <1>2, <1>3

(***************************************************************************)
(* The theorems.                                                           *)
(***************************************************************************)

LEMMA ClientInvInit == ClientInit => ClientInv
    <1>1. ClientInit => Types
      BY DEF ClientInit, Types
    <1>2. QED
      BY <1>1, TpInvInit, SoonInvInit, MemInvInit, BufInvInit, NetInvInit DEF ClientInv

LEMMA ClientInvNext == ClientInv /\ [ClientNext]_vars => ClientInv'
    <1> SUFFICES ASSUME ClientInv, [ClientNext]_vars PROVE ClientInv'
      OBVIOUS
    <1>1. Types /\ TpInv /\ MemInv /\ BufInv /\ NetInv
      BY DEF ClientInv
    <1>2. Types' /\ MemInv' /\ BufInv'
      BY <1>1, TypesNext, MemInvNext, BufInvNext
    <1>3. TpInv' /\ Picked' = Picked
      BY <1>1, ClientLeavesTp, TpInvNext
    <1>4. NetInv'
      BY <1>1, <1>2, NetInvNext
    <1>5. TagInv' /\ SoonInv'
      BY <1>2, <1>3, SoonInvNext
    <1>6. QED
      BY <1>2, <1>3, <1>4, <1>5 DEF ClientInv

LEMMA ClientInvHolds == ClientSpec => []ClientInv
    BY ClientInvInit, ClientInvNext, PTL DEF ClientSpec

\* Types: the program's counters and queue keep their ranges, the soon objects
\* are addresses of the processor's kind, and a socket that the kernel kept is
\* open and registered.
THEOREM ClientTypes == ClientSpec => []ClientTypeOK
    <1>1. ClientInv => ClientTypeOK
      <2> SUFFICES ASSUME ClientInv PROVE ClientTypeOK
        OBVIOUS
      <2>1. calls \in [Callback -> Nat]
        BY DEF ClientInv, MemInv
      <2>2. soonque \in Seq(Word) /\ Len(sent) = Len(soonque)
        BY DEF ClientInv, TagInv, Carries
      <2>3. filling.i \in 0 .. NSoon /\ soonlive \subseteq UserPtr(Picked)
        BY DEF ClientInv, TagInv, Object
      <2>4. net.table \subseteq net.open \cup net.stuck /\ net.stuck \subseteq net.open
        BY DEF ClientInv, NetInv, SocketsOwned, NoEcho
      <2>5. QED
        BY <2>1, <2>2, <2>3, <2>4 DEF ClientTypeOK, ClientInv, Types
    <1>2. QED
      BY <1>1, ClientInvHolds, PTL

\* iel_tp_init, iel_tp_tag and iel_tp_untag (tagptr.h): once a thread is ready
\* what it tags untags to the same address and tag, for every width of words
\* and of tags and every address and tag in range, while any number of other
\* threads are between the three stores.
THEOREM TagsRoundTrip == ClientSpec => []RoundTrip
    <1>1. ClientInv => RoundTrip
      BY TpInvRoundTrip DEF ClientInv
    <1>2. QED
      BY <1>1, ClientInvHolds, PTL

\* taskcb is called with the object and the tag that each task was queued
\* with, in the order of the queue.
THEOREM TasksKeepTheirTags == ClientSpec => []TagsDelivered
    <1>1. ClientInv => TagsDelivered
      <2> SUFFICES ASSUME ClientInv, NEW k \in DOMAIN soonque
                   PROVE  Untag(utp_v, soonque[k], Al) = sent[k]
        BY DEF TagsDelivered
      <2>1. /\ sent \in Seq(Entry) /\ soonque \in Seq(Word) /\ Len(soonque) = Len(sent)
            /\ \A j \in 1 .. Len(sent) : soonque[j] = Tag(Picked, sent[j].ptr, sent[j].tag)
        BY DEF ClientInv, TagInv, Carries
      <2>2. k \in 1 .. Len(sent) /\ sent[k] \in Entry
        BY <2>1, LenProperties, ElementOfSeq
      <2>3. utp_v = Picked
        <3>1. sent # <<>>
          BY <2>2
        <3>2. at[Main] = "ready"
          BY <3>1 DEF ClientInv, TagInv
        <3>3. QED
          BY <3>2, ReadyUses, ClientAssumption DEF ClientInv, ClientAssumption
      <2>4. QED
        BY <2>1, <2>2, <2>3, EntryUntags
    <1>2. QED
      BY <1>1, ClientInvHolds, PTL

\* What the requests that are outstanding need.
LEMMA InUseIs ==
    ASSUME MemInv
    PROVE  InUse = (IF Copying THEN {"rd", "rdbuf"} ELSE {})
                      \cup (IF calls["onwrite"] = 1 THEN {"wr"} ELSE {})
                      \cup (IF calls["ontimer"] = 1 THEN {"timer"} ELSE {})
                      \cup (IF Echoing THEN {"echo", "echobuf"} ELSE {})
                      \cup (IF Connected THEN {"conn", "connbuf"} ELSE {})
    <1>1. \A cb \in Callback : calls[cb] > 0 <=> calls[cb] = 1
      BY DEF MemInv
    <1>2. InUse = UNION {Mem(cb) : cb \in {c \in Callback : calls[c] = 1}}
      BY <1>1 DEF InUse
    <1>3. ASSUME NEW m
          PROVE  m \in InUse <=> \E cb \in Callback : calls[cb] = 1 /\ m \in Mem(cb)
      BY <1>2
    <1>4. QED
      BY <1>3 DEF Callback, Mem, Copying, Echoing, Connected

\* No callback uses or frees memory that is not allocated, what a request or a
\* soon task leads to is allocated, and no two requests share a buffer, but
\* for the failures that early names.
THEOREM ClientHoldsMemory == ClientSpec => []MemoryHeld
    <1>1. ClientInv => MemoryHeld
      <2> SUFFICES ASSUME ClientInv, ~early
                   PROVE  /\ ~wild /\ InUse \subseteq live
                          /\ \A k \in DOMAIN sent : sent[k].ptr \in soonlive
                          /\ \A a, b \in Callback :
                                calls[a] > 0 /\ calls[b] > 0 /\ Mem(a) \cap Mem(b) # {} =>
                                    a = b /\ calls[a] = 1
        BY DEF MemoryHeld
      <2>1. MemInv /\ LastFrees /\ sent \in Seq(Entry)
        BY DEF ClientInv, SoonInv, TagInv, Carries
      <2>2. ~wild /\ \A k \in DOMAIN sent : sent[k].ptr \in soonlive
        BY <2>1, LenProperties DEF LastFrees
      <2>3. InUse \subseteq live
        BY <2>1, InUseIs DEF MemInv
      <2>4. \A a \in Callback : calls[a] > 0 => calls[a] = 1
        BY <2>1 DEF MemInv
      <2>5. ASSUME NEW a \in Callback, NEW b \in Callback, calls[a] = 1, calls[b] = 1,
                   Mem(a) \cap Mem(b) # {}
            PROVE  a = b
        BY <2>1, <2>5 DEF MemInv, Mem, Callback
      <2>6. QED
        BY <2>2, <2>3, <2>4, <2>5
    <1>2. QED
      BY <1>1, ClientInvHolds, PTL

\* While the loop runs nothing is allocated that no request and no soon task
\* leads to, but for what a failed output leaves.
THEOREM ClientLosesNothing == ClientSpec => []NoOrphans
    <1>1. ClientInv => NoOrphans
      <2> SUFFICES ASSUME ClientInv, phase = "loop", ~early
                   PROVE  /\ live = InUse \cup (IF broken THEN {"rd", "rdbuf"} ELSE {})
                          /\ AgainTag < TagMax => soonlive = {sent[k].ptr : k \in DOMAIN sent}
        BY DEF NoOrphans
      <2>1. /\ MemInv /\ BufInv /\ LastFrees /\ WillBeFreed /\ TpInv /\ at[Main] = "ready"
            /\ sent \in Seq(Entry)
        BY DEF ClientInv, SoonInv, TagInv, Carries
      <2>2. live = InUse \cup (IF broken THEN {"rd", "rdbuf"} ELSE {})
        <3>1. "echobuf" \in live <=> Echoing
          BY <2>1 DEF MemInv, BufInv
        <3>2. QED
          BY <2>1, <3>1, InUseIs DEF MemInv
      <2>3. TagMax = Limit
        <3>1. maxtag_shl = Tagh(Picked)
          BY <2>1, ReadyUses, ClientAssumption DEF ClientAssumption
        <3>2. QED
          BY <3>1 DEF TagMax, Limit
      <2>4. ASSUME AgainTag < Limit
            PROVE  soonlive = {sent[k].ptr : k \in 1 .. Len(sent)}
        <3>1. \A obj \in soonlive : \E k \in 1 .. Len(sent) : sent[k].ptr = obj
          BY <2>1, <2>4 DEF WillBeFreed
        <3>2. \A k \in 1 .. Len(sent) : sent[k].ptr \in soonlive
          BY <2>1 DEF LastFrees
        <3>3. QED
          BY <3>1, <3>2
      <2>5. DOMAIN sent = 1 .. Len(sent)
        BY <2>1, LenProperties
      <2>6. QED
        BY <2>2, <2>3, <2>4, <2>5
    <1>2. QED
      BY <1>1, ClientInvHolds, PTL

\* A socket is open, and in the file table, exactly as long as the object that
\* has it, or because the kernel refused to take it out.
THEOREM ClientOwnsSockets == ClientSpec => []SocketsOwned
    <1>1. ClientInv => SocketsOwned
      BY DEF ClientInv, NetInv
    <1>2. QED
      BY <1>1, ClientInvHolds, PTL
=============================================================================
