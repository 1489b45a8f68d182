----------------------------- MODULE QueProofs -----------------------------
(***************************************************************************)
(* Proofs about Que for every chunk size, map bound and element set: the   *)
(* chunk bookkeeping of rsv1, pop1, pop_to, trim and del neither leaks,    *)
(* double-frees nor leaves the map; an element keeps its place in the      *)
(* order whatever happens to the chunks; and Que implements ChunkFifo.     *)
(* Then about FlushScan: what the loops of a flush over the chunks find    *)
(* and take, for every length of the SQ.                                   *)
(***************************************************************************)
EXTENDS FlushScan, LoopFacts, SequenceTheorems, TLAPS

IInv == TypeOK /\ ChunksOwned /\ InBounds

----------------------------------------------------------------------------

\* NextOffset is increment modulo C.
LEMMA NextOffsetType ==
    ASSUME NEW o \in Offset
    PROVE  /\ NextOffset(o) \in Offset
           /\ NextOffset(o) = 0 <=> o + 1 = C
           /\ NextOffset(o) # 0 => NextOffset(o) = o + 1
    BY QueAssumption DEF NextOffset, Offset

\* Division with remainder by the chunk size.
LEMMA DivChunk ==
    ASSUME NEW n \in Nat
    PROVE  /\ n \div C \in Nat
           /\ n % C \in Offset
           /\ n = C * (n \div C) + (n % C)
    BY QueAssumption DEF Offset

\* Position n of chunk 0 onwards lies at or below chunk d when n does not
\* pass entry r of chunk d, and in chunk d only when entry r is not its first.
LEMMA DivBound ==
    ASSUME NEW n \in Nat, NEW d \in Nat, NEW r \in Offset, n < d * C + r
    PROVE  /\ n \div C <= d
           /\ n \div C = d => r # 0 /\ n % C < r
    <1> DEFINE k == n \div C
               m == n % C
    <1>1. k \in Nat /\ m \in 0 .. C - 1 /\ n = C * k + m /\ C \in Nat \ {0} /\ r \in 0 .. C - 1
      BY DivChunk, QueAssumption DEF Offset
    <1> HIDE DEF k, m
    <1>2. k <= d
      <2>1. SUFFICES ASSUME k >= d + 1 PROVE FALSE
        BY <1>1
      <2>2. C * k >= C * (d + 1)
        BY <2>1, <1>1
      <2>3. C * (d + 1) = d * C + C
        BY <1>1
      <2>4. QED
        BY <2>2, <2>3, <1>1
    <1>3. ASSUME k = d PROVE r # 0 /\ m < r
      <2>1. C * k = d * C
        BY <1>3, <1>1
      <2>2. QED
        BY <2>1, <1>1
    <1>4. QED
      BY <1>2, <1>3 DEF k, m

----------------------------------------------------------------------------

\* The number of elements is a natural number.
LEMMA SizeType ==
    ASSUME IInv, alive
    PROVE  Size \in Nat /\ Size = (chunk_e - chunk_s) * C + (os_e - os_s)
    <1>1. /\ chunk_s \in Nat /\ chunk_e \in Nat /\ C \in Nat \ {0}
          /\ os_s \in 0 .. C - 1 /\ os_e \in 0 .. C - 1
      BY QueAssumption DEF IInv, TypeOK, Offset
    <1>2. chunk_s < chunk_e \/ (chunk_s = chunk_e /\ os_s <= os_e)
      BY DEF IInv, InBounds
    <1>3. Size = (chunk_e - chunk_s) * C + (os_e - os_s)
      BY <1>1 DEF Size
    <1>4. CASE chunk_s < chunk_e
      <2>1. (chunk_e - chunk_s) * C >= C
        BY <1>1, <1>4
      <2>2. QED
        BY <1>1, <1>3, <2>1
    <1>5. CASE chunk_s = chunk_e /\ os_s <= os_e
      <2>1. (chunk_e - chunk_s) * C = 0
        BY <1>1, <1>5
      <2>2. QED
        BY <1>1, <1>3, <1>5, <2>1
    <1>6. QED
      BY <1>2, <1>4, <1>5

LEMMA NonEmptySize ==
    ASSUME IInv, alive, ~IsEmpty
    PROVE  Size > 0
    <1>1. /\ chunk_s \in Nat /\ chunk_e \in Nat /\ C \in Nat \ {0}
          /\ os_s \in 0 .. C - 1 /\ os_e \in 0 .. C - 1
      BY QueAssumption DEF IInv, TypeOK, Offset
    <1>2. chunk_s < chunk_e \/ (chunk_s = chunk_e /\ os_s < os_e)
      BY <1>1 DEF IInv, InBounds, IsEmpty
    <1>3. Size = (chunk_e - chunk_s) * C + (os_e - os_s)
      BY SizeType
    <1>4. chunk_s < chunk_e => (chunk_e - chunk_s) * C >= C
      BY <1>1
    <1>5. chunk_s = chunk_e => (chunk_e - chunk_s) * C = 0
      BY <1>1
    <1>6. QED
      BY <1>1, <1>2, <1>3, <1>4, <1>5

\* Where the k-th element lives: a chunk from chunk_s to chunk_e, and in
\* chunk_e only when that chunk is allocated.
LEMMA ChunkOf ==
    ASSUME IInv, alive, NEW k \in Nat, k < Size
    PROVE  /\ chunk_s + ((os_s + k) \div C) \in chunk_s .. chunk_e
           /\ chunk_s + ((os_s + k) \div C) = chunk_e => os_e # 0
           /\ chunk_s + ((os_s + k) \div C) \in DOMAIN map
           /\ (os_s + k) % C \in Offset
    <1> DEFINE n == os_s + k
               d == chunk_e - chunk_s
    <1>1. /\ chunk_s \in Nat /\ chunk_e \in Nat /\ C \in Nat \ {0}
          /\ os_s \in 0 .. C - 1 /\ os_e \in 0 .. C - 1 /\ os_e \in Offset
      BY QueAssumption DEF IInv, TypeOK, Offset
    <1>2. n \in Nat /\ d \in Nat
      BY <1>1 DEF IInv, InBounds
    <1>3. n < d * C + os_e
      <2>1. d * C \in Nat
        BY <1>1, <1>2
      <2>2. QED
        BY <1>1, <2>1, SizeType
    <1>4. n \div C <= d /\ (n \div C = d => os_e # 0)
      BY <1>1, <1>2, <1>3, DivBound
    <1>5. n \div C \in Nat /\ n % C \in Offset
      BY <1>2, DivChunk
    <1>6. DOMAIN map = Claimed
      BY DEF IInv, ChunksOwned
    <1>7. QED
      BY <1>1, <1>4, <1>5, <1>6 DEF Claimed

\* Every element is an entry of a live chunk.
LEMMA ItemsType ==
    ASSUME IInv, alive
    PROVE  Items \in Seq(Elem \cup {NoElem}) /\ Len(Items) = Size
    <1>1. Size \in Nat
      BY SizeType
    <1>2. ASSUME NEW k \in 1 .. Size
          PROVE  At(k - 1) \in Elem \cup {NoElem}
      <2>1. k - 1 \in Nat /\ k - 1 < Size
        BY <1>1
      <2>2. /\ chunk_s + ((os_s + (k - 1)) \div C) \in DOMAIN map
            /\ (os_s + (k - 1)) % C \in Offset
        BY <2>1, ChunkOf
      <2>3. map[chunk_s + ((os_s + (k - 1)) \div C)] \in [Offset -> Elem \cup {NoElem}]
        BY <2>2 DEF IInv, TypeOK, Chunk
      <2>4. QED
        BY <2>2, <2>3 DEF At
    <1>3. QED
      BY <1>1, <1>2 DEF Items

----------------------------------------------------------------------------

\* A store or a pop of one entry, and what the bookkeeping needs to know of
\* the state it starts from.
LEMMA Facts ==
    ASSUME IInv
    PROVE  /\ C \in Nat \ {0} /\ MinChunks \in Nat \ {0} /\ MaxMap \in Nat
           /\ MaxMap >= MinChunks
           /\ chunk_s \in Nat /\ chunk_e \in Nat
           /\ mapcap \in Nat /\ mapcap >= MinChunks /\ mapcap <= MaxMap
           /\ os_s \in Offset /\ os_e \in Offset /\ 0 \in Offset
           /\ os_s \in Nat /\ os_e \in Nat
    BY QueAssumption DEF IInv, TypeOK, Offset

\* An empty, not yet initialised queue is well formed.
THEOREM InitIInv == Init => IInv
    <1> SUFFICES ASSUME Init PROVE IInv
      OBVIOUS
    <1>1. DOMAIN map = {}
      BY DEF Init
    <1>2. TypeOK
      <2>1. \A i \in DOMAIN map : map[i] \in Chunk
        BY <1>1
      <2>2. out \in Seq(Elem \cup {NoElem})
        BY DEF Init
      <2>3. mapcap \in MinChunks .. MaxMap /\ 0 \in Offset /\ MinChunks \in Nat
        BY QueAssumption DEF Init, Offset
      <2>4. chunk_s = 0 /\ chunk_e = 0 /\ os_s = 0 /\ os_e = 0 /\ alive = FALSE
        BY DEF Init
      <2>5. QED
        BY <1>1, <2>1, <2>2, <2>3, <2>4 DEF TypeOK
    <1>3. ChunksOwned
      BY <1>1 DEF Init, ChunksOwned
    <1>4. InBounds
      BY DEF Init, InBounds
    <1>5. QED
      BY <1>2, <1>3, <1>4 DEF IInv

\* init: the map is empty before it because del freed every chunk.
LEMMA InitQueIInv == IInv /\ InitQue => IInv'
    <1> SUFFICES ASSUME IInv, InitQue PROVE IInv'
      OBVIOUS
    <1>1. TypeOK'
      BY QueAssumption DEF IInv, TypeOK, InitQue, Offset
    <1>2. ChunksOwned'
      BY DEF IInv, ChunksOwned, InitQue, Claimed
    <1>3. InBounds'
      BY QueAssumption DEF InBounds, InitQue
    <1>4. QED
      BY <1>1, <1>2, <1>3 DEF IInv

\* rsv1: the chunk it fills is allocated, or new and within the grown map.
LEMMA Rsv1IInv == ASSUME NEW e \in Elem PROVE IInv /\ Rsv1(e) => IInv'
    <1> SUFFICES ASSUME IInv, Rsv1(e) PROVE IInv'
      OBVIOUS
    <1> USE Facts
    <1>1. alive /\ alive' /\ chunk_s' = chunk_s /\ os_s' = os_s /\ out' = out
      BY DEF Rsv1, IInv, TypeOK
    <1>2. /\ os_e' \in Offset
          /\ os_e' = 0 <=> os_e + 1 = C
          /\ os_e' # 0 => os_e' = os_e + 1
          /\ os_e' = 0 => chunk_e' = chunk_e + 1
          /\ os_e' # 0 => chunk_e' = chunk_e
      BY NextOffsetType DEF Rsv1
    <1>3. /\ mapcap' \in MinChunks .. MaxMap
          /\ os_e = 0 => chunk_e < mapcap'
          /\ mapcap' >= mapcap
      BY DEF Rsv1, GrownCap, IInv, InBounds
    <1>4. DOMAIN map' = DOMAIN map \cup {chunk_e}
      BY DEF Rsv1
    <1>5. \A i \in DOMAIN map' : map'[i] \in Chunk
      <2> SUFFICES ASSUME NEW i \in DOMAIN map' PROVE map'[i] \in Chunk
        OBVIOUS
      <2> DEFINE old == IF os_e = 0 THEN FreshChunk ELSE map[chunk_e]
      <2>1. map'[i] = IF i = chunk_e THEN [old EXCEPT ![os_e] = e] ELSE map[i]
        BY <1>4 DEF Rsv1
      <2>2. old \in Chunk
        BY <1>1 DEF IInv, TypeOK, ChunksOwned, Claimed, Chunk, FreshChunk
      <2>3. [old EXCEPT ![os_e] = e] \in Chunk
        BY <2>2 DEF Chunk
      <2>4. QED
        BY <1>4, <2>1, <2>3 DEF IInv, TypeOK
    <1>6. TypeOK'
      BY <1>1, <1>2, <1>3, <1>4, <1>5 DEF IInv, TypeOK
    <1>7. ChunksOwned'
      <2>1. DOMAIN map = chunk_s .. (chunk_e - 1) \cup (IF os_e # 0 THEN {chunk_e} ELSE {})
        BY <1>1 DEF IInv, ChunksOwned, Claimed
      <2>2. chunk_s <= chunk_e
        BY <1>1 DEF IInv, InBounds
      <2>3. DOMAIN map' = chunk_s .. chunk_e
        BY <1>4, <2>1, <2>2
      <2>4. CASE os_e' = 0
        BY <1>1, <1>2, <2>3, <2>4 DEF ChunksOwned, Claimed
      <2>5. CASE os_e' # 0
        BY <1>1, <1>2, <2>2, <2>3, <2>5 DEF ChunksOwned, Claimed
      <2>6. QED
        BY <2>4, <2>5
    <1>8. InBounds'
      BY <1>1, <1>2, <1>3 DEF IInv, InBounds, Offset
    <1>9. QED
      BY <1>6, <1>7, <1>8 DEF IInv

\* rsv1 without memory for the chunk leaves a larger map and nothing else.
LEMMA Rsv1NoChunkIInv == IInv /\ Rsv1NoChunk => IInv'
    <1> SUFFICES ASSUME IInv, Rsv1NoChunk PROVE IInv'
      OBVIOUS
    <1> USE Facts
    <1>1. TypeOK'
      BY DEF IInv, TypeOK, Rsv1NoChunk, GrownCap
    <1>2. ChunksOwned'
      BY DEF IInv, ChunksOwned, Claimed, Rsv1NoChunk
    <1>3. InBounds'
      BY DEF IInv, InBounds, Rsv1NoChunk, GrownCap
    <1>4. QED
      BY <1>1, <1>2, <1>3 DEF IInv

\* Freeing chunks only removes entries of the map.
LEMMA RestrictType ==
    ASSUME TypeOK, NEW S \in SUBSET DOMAIN map
    PROVE  /\ DOMAIN Restrict(map, S) = S
           /\ S \subseteq Nat
           /\ \A i \in S : Restrict(map, S)[i] \in Chunk
    BY DEF TypeOK, Restrict

\* pop1: frees the chunk it leaves, and the one being filled when it restarts.
LEMMA Pop1IInv == IInv /\ Pop1 => IInv'
    <1> SUFFICES ASSUME IInv, Pop1 PROVE IInv'
      OBVIOUS
    <1> USE Facts
    <1> DEFINE os == NextOffset(os_s)
               cs == IF os = 0 THEN chunk_s + 1 ELSE chunk_s
               left == IF os = 0 THEN DOMAIN map \ {chunk_s} ELSE DOMAIN map
               empty == Drained(cs, os)
    <1>1. alive /\ alive' /\ mapcap' = mapcap /\ TypeOK /\ ~IsEmpty
      BY DEF Pop1, IInv, TypeOK
    <1>2. /\ os \in Offset
          /\ os = 0 <=> os_s + 1 = C
          /\ os # 0 => os = os_s + 1
      BY NextOffsetType
    <1>3. DOMAIN map = chunk_s .. (chunk_e - 1) \cup (IF os_e # 0 THEN {chunk_e} ELSE {})
      BY <1>1 DEF IInv, ChunksOwned, Claimed
    <1>4. chunk_s < chunk_e \/ (chunk_s = chunk_e /\ os_s < os_e)
      BY <1>1 DEF IInv, InBounds, IsEmpty
    <1>5. out' \in Seq(Elem \cup {NoElem})
      <2>1. chunk_s \in DOMAIN map
        BY <1>3, <1>4
      <2>2. map[chunk_s][os_s] \in Elem \cup {NoElem}
        BY <2>1 DEF IInv, TypeOK, Chunk
      <2>3. QED
        BY <2>2 DEF Pop1
    <1>6. CASE empty
      <2> DEFINE S == TailFreed(left)
      <2>1. /\ map' = Restrict(map, S)
            /\ chunk_s' = 0 /\ chunk_e' = 0 /\ os_s' = 0 /\ os_e' = 0
        BY <1>6 DEF Pop1
      <2>2. S = {}
        BY <1>2, <1>3, <1>4, <1>6 DEF Offset, Drained, TailFreed
      <2>3. DOMAIN map' = {}
        BY <2>1, <2>2 DEF Restrict
      <2>4. TypeOK'
        BY <1>1, <1>5, <2>1, <2>3 DEF TypeOK
      <2>5. ChunksOwned'
        BY <1>1, <2>1, <2>3 DEF ChunksOwned, Claimed
      <2>6. InBounds'
        BY <1>1, <2>1 DEF InBounds
      <2>7. QED
        BY <2>4, <2>5, <2>6 DEF IInv
    <1>7. CASE ~empty
      <2>1. /\ map' = Restrict(map, left)
            /\ chunk_s' = cs /\ os_s' = os /\ chunk_e' = chunk_e /\ os_e' = os_e
        BY <1>7 DEF Pop1
      <2>2. DOMAIN map' = left /\ left \subseteq DOMAIN map
        BY <2>1 DEF Restrict
      <2>3. TypeOK'
        BY <1>1, <1>2, <1>5, <2>1, <2>2, RestrictType DEF TypeOK
      <2>4. chunk_s' < chunk_e' \/ (chunk_s' = chunk_e' /\ os_s' <= os_e')
        BY <1>2, <1>4, <1>7, <2>1 DEF Offset, Drained
      <2>5. ChunksOwned'
        BY <1>1, <1>2, <1>3, <1>4, <2>1, <2>2, <2>4 DEF ChunksOwned, Claimed, Offset
      <2>6. InBounds'
        BY <1>1, <2>1, <2>4 DEF IInv, InBounds
      <2>7. QED
        BY <2>3, <2>5, <2>6 DEF IInv
    <1>8. QED
      BY <1>6, <1>7

\* pop_to: frees the chunks of the block, wherever it starts and ends.
LEMMA PopToIInv == ASSUME NEW n \in 1 .. MaxBlk PROVE IInv /\ PopTo(n) => IInv'
    <1> SUFFICES ASSUME IInv, PopTo(n) PROVE IInv'
      OBVIOUS
    <1> USE Facts
    <1> DEFINE last == BlockEnd(n)
    <1>1. /\ alive /\ alive' /\ mapcap' = mapcap /\ TypeOK
          /\ n \in Nat \ {0}
      BY QueAssumption DEF PopTo, IInv, TypeOK
    <1>2. DOMAIN map = Claimed
      BY <1>1 DEF IInv, ChunksOwned
    <1>3. Items \in Seq(Elem \cup {NoElem}) /\ Len(Items) = Size /\ Size \in Nat
      BY <1>1, ItemsType, SizeType
    <1>4. CASE Size < n
      <2>1. /\ map' = Restrict(map, {}) /\ out' = Items
            /\ chunk_s' = 0 /\ chunk_e' = 0 /\ os_s' = 0 /\ os_e' = 0
        BY <1>2, <1>4 DEF PopTo
      <2>2. DOMAIN map' = {}
        BY <2>1 DEF Restrict
      <2>3. TypeOK'
        BY <1>1, <1>3, <2>1, <2>2 DEF TypeOK
      <2>4. ChunksOwned'
        BY <1>1, <2>1, <2>2 DEF ChunksOwned, Claimed
      <2>5. InBounds'
        BY <1>1, <2>1 DEF InBounds
      <2>6. QED
        BY <2>3, <2>4, <2>5 DEF IInv
    <1>5. CASE ~(Size < n)
      <2>1. /\ last \in chunk_s .. chunk_e
            /\ last = chunk_e => os_e # 0
        <3>1. n - 1 \in Nat /\ n - 1 < Size /\ os_s + (n - 1) = os_s + n - 1
          BY <1>1, <1>3, <1>5
        <3>2. QED
          BY <1>1, <3>1, ChunkOf DEF BlockEnd
      <2>2. out' \in Seq(Elem \cup {NoElem})
        <3>1. out' = SubSeq(Items, 1, n)
          BY <1>5 DEF PopTo
        <3>2. n \in 1 .. Len(Items)
          BY <1>1, <1>3, <1>5
        <3>3. QED
          BY <1>3, <3>1, <3>2
      <2>3. CASE last = chunk_e
        <3> DEFINE S == DOMAIN map \ (chunk_s .. (last - 1))
        <3>1. /\ map' = Restrict(map, S)
              /\ chunk_s' = chunk_e /\ os_s' = os_e
              /\ chunk_e' = chunk_e /\ os_e' = os_e
          BY <1>5, <2>3 DEF PopTo
        <3>2. DOMAIN map' = S /\ S \subseteq DOMAIN map
          BY <3>1 DEF Restrict
        <3> HIDE DEF last
        <3>3. TypeOK'
          BY <1>1, <2>2, <3>1, <3>2, RestrictType DEF TypeOK
        <3>4. ChunksOwned'
          <4>1. DOMAIN map = chunk_s .. (chunk_e - 1) \cup {chunk_e}
            BY <1>2, <2>1, <2>3 DEF Claimed
          <4>2. DOMAIN map' = {chunk_e}
            BY <2>3, <3>2, <4>1
          <4>3. Claimed' = {chunk_e}
            BY <2>1, <2>3, <3>1 DEF Claimed
          <4>4. QED
            BY <1>1, <4>2, <4>3 DEF ChunksOwned
        <3>5. InBounds'
          BY <1>1, <3>1 DEF IInv, InBounds, Offset
        <3>6. QED
          BY <3>3, <3>4, <3>5 DEF IInv
      <2>4. CASE last # chunk_e
        <3> DEFINE S == DOMAIN map \ (chunk_s .. last)
        <3>1. /\ map' = Restrict(map, S)
              /\ chunk_s' = last + 1 /\ os_s' = 0
              /\ chunk_e' = chunk_e /\ os_e' = os_e
          BY <1>5, <2>4 DEF PopTo
        <3>2. DOMAIN map' = S /\ S \subseteq DOMAIN map
          BY <3>1 DEF Restrict
        <3> HIDE DEF last
        <3>3. last \in Nat /\ last < chunk_e
          BY <2>1, <2>4
        <3>4. TypeOK'
          BY <1>1, <2>2, <3>1, <3>2, <3>3, RestrictType DEF TypeOK
        <3>5. ChunksOwned'
          BY <1>1, <1>2, <2>1, <3>1, <3>2, <3>3 DEF ChunksOwned, Claimed
        <3>6. InBounds'
          BY <1>1, <3>1, <3>3 DEF IInv, InBounds, Offset
        <3>7. QED
          BY <3>4, <3>5, <3>6 DEF IInv
      <2>5. QED
        BY <2>3, <2>4
    <1>6. QED
      BY <1>4, <1>5

\* trim: the live chunks move down, the claimed ones with them.
LEMMA TrimIInv == IInv /\ Trim => IInv'
    <1> SUFFICES ASSUME IInv, Trim PROVE IInv'
      OBVIOUS
    <1> USE Facts
    <1> DEFINE drop == os_e # 0 /\ chunk_e = chunk_s /\ os_e = os_s
               sz == chunk_e - chunk_s + (IF os_e # 0 /\ ~drop THEN 1 ELSE 0)
               want == IF sz < MinChunks THEN MinChunks ELSE sz
    <1>1. alive /\ alive' /\ out' = out
      BY DEF Trim, IInv, TypeOK
    <1>2. /\ map' = [i \in 0 .. sz - 1 |-> map[i + chunk_s]]
          /\ os_s' = (IF drop THEN 0 ELSE os_s)
          /\ os_e' = (IF drop THEN 0 ELSE os_e)
          /\ mapcap' \in {want, mapcap}
          /\ chunk_s' = 0
          /\ chunk_e' = chunk_e - chunk_s
      BY DEF Trim
    <1>3. /\ chunk_s < chunk_e \/ (chunk_s = chunk_e /\ os_s <= os_e)
          /\ chunk_e <= mapcap
          /\ os_e # 0 => chunk_e < mapcap
      BY <1>1 DEF IInv, InBounds
    <1>4. DOMAIN map = chunk_s .. (chunk_e - 1) \cup (IF os_e # 0 THEN {chunk_e} ELSE {})
      BY <1>1 DEF IInv, ChunksOwned, Claimed
    <1>5. sz \in Nat /\ want \in MinChunks .. MaxMap
      BY <1>3
    <1>6. TypeOK'
      <2>1. ASSUME NEW i \in 0 .. sz - 1 PROVE map'[i] \in Chunk
        <3>1. i + chunk_s \in DOMAIN map
          BY <1>3, <1>4
        <3>2. QED
          BY <1>2, <3>1 DEF IInv, TypeOK
      <2>2. DOMAIN map' = 0 .. sz - 1
        BY <1>2
      <2> HIDE DEF sz, want
      <2>3. mapcap' \in MinChunks .. MaxMap
        BY <1>2, <1>5
      <2>4. chunk_s' \in Nat /\ chunk_e' \in Nat /\ os_s' \in Offset /\ os_e' \in Offset
        BY <1>2, <1>3
      <2>5. out' \in Seq(Elem \cup {NoElem})
        BY <1>1 DEF IInv, TypeOK
      <2>6. QED
        BY <1>1, <1>5, <2>1, <2>2, <2>3, <2>4, <2>5 DEF TypeOK
    <1>7. ChunksOwned'
      <2>1. DOMAIN map' = 0 .. sz - 1
        BY <1>2
      <2>2. Claimed' = 0 .. sz - 1
        <3>1. CASE drop
          BY <1>2, <3>1 DEF Claimed
        <3>2. CASE os_e # 0 /\ ~drop
          <4>1. /\ chunk_e' \in Nat /\ os_e' # 0 /\ chunk_s' = 0
                /\ sz = chunk_e' + 1
            BY <1>2, <1>3, <3>2
          <4> HIDE DEF sz
          <4>2. Claimed' = 0 .. (chunk_e' - 1) \cup {chunk_e'}
            BY <4>1 DEF Claimed
          <4>3. QED
            BY <4>1, <4>2
        <3>3. CASE os_e = 0
          <4>1. chunk_e' = sz /\ os_e' = 0 /\ chunk_s' = 0
            BY <1>2, <1>3, <3>3
          <4> HIDE DEF sz
          <4>2. QED
            BY <4>1 DEF Claimed
        <3>4. QED
          BY <3>1, <3>2, <3>3
      <2>3. QED
        BY <1>1, <2>1, <2>2 DEF ChunksOwned
    <1>8. InBounds'
      BY <1>1, <1>2, <1>3 DEF InBounds
    <1>9. QED
      BY <1>6, <1>7, <1>8 DEF IInv

\* del: frees what the indices claim, which is all there is.
LEMMA DelIInv == IInv /\ Del => IInv'
    <1> SUFFICES ASSUME IInv, Del PROVE IInv'
      OBVIOUS
    <1>1. alive /\ ~alive' /\ alive' \in BOOLEAN /\ DOMAIN map = Claimed
      BY DEF Del, IInv, TypeOK, ChunksOwned
    <1>2. DOMAIN map' = {}
      BY <1>1 DEF Del, Restrict
    <1>3. /\ mapcap' = mapcap /\ chunk_s' = chunk_s /\ chunk_e' = chunk_e
          /\ os_s' = os_s /\ os_e' = os_e /\ out' = <<>>
      BY DEF Del
    <1>4. out' \in Seq(Elem \cup {NoElem})
      BY <1>3
    <1>5. TypeOK'
      BY <1>1, <1>2, <1>3, <1>4 DEF IInv, TypeOK
    <1>6. QED
      BY <1>1, <1>2, <1>5 DEF IInv, ChunksOwned, InBounds

\* Every step of the queue preserves the invariant.
LEMMA NextIInv == IInv /\ [Next]_vars => IInv'
    <1> SUFFICES ASSUME IInv, [Next]_vars PROVE IInv'
      OBVIOUS
    <1>1. CASE InitQue
      BY <1>1, InitQueIInv
    <1>2. ASSUME NEW e \in Elem, Rsv1(e) PROVE IInv'
      BY <1>2, Rsv1IInv
    <1>3. CASE Rsv1NoChunk
      BY <1>3, Rsv1NoChunkIInv
    <1>4. CASE Pop1
      BY <1>4, Pop1IInv
    <1>5. ASSUME NEW n \in 1 .. MaxBlk, PopTo(n) PROVE IInv'
      BY <1>5, PopToIInv
    <1>6. CASE Trim
      BY <1>6, TrimIInv
    <1>7. CASE QTrim
      BY <1>7, TrimIInv DEF QTrim
    <1>8. CASE Del
      BY <1>8, DelIInv
    <1>9. CASE UNCHANGED vars
      BY <1>9 DEF vars, IInv, TypeOK, ChunksOwned, Claimed, InBounds
    <1>10. QED
      BY <1>1, <1>2, <1>3, <1>4, <1>5, <1>6, <1>7, <1>8, <1>9 DEF Next

\* Every reachable state of the queue is well formed: nothing is leaked or
\* freed twice, and both ends stay inside the map.
THEOREM QueInvariant == Spec => []IInv
    BY InitIInv, NextIInv, PTL DEF Spec

\* pop1, pop_to, trim and del free exactly the chunks no index reaches,
\* for every chunk size, map bound and order of operations.
THEOREM ChunksAreOwned == Spec => []ChunksOwned
    <1>1. IInv => ChunksOwned
      BY DEF IInv
    <1>2. QED
      BY <1>1, QueInvariant, PTL

\* No store of rsv1 and no load of a pop leaves the map array.
THEOREM MapStaysInBounds == Spec => []InBounds
    <1>1. IInv => InBounds
      BY DEF IInv
    <1>2. QED
      BY <1>1, QueInvariant, PTL

\* Type correctness.
THEOREM QueTypeOK == Spec => []TypeOK
    <1>1. IInv => TypeOK
      BY DEF IInv
    <1>2. QED
      BY <1>1, QueInvariant, PTL

(***************************************************************************)
(* The elements.                                                           *)
(***************************************************************************)

Entry == Elem \cup {NoElem}

\* Entry r of chunk d is found there.
LEMMA DivExact ==
    ASSUME NEW d \in Nat, NEW r \in Offset
    PROVE  (d * C + r) \div C = d /\ (d * C + r) % C = r
    <1> DEFINE n == d * C + r
               k == n \div C
               m == n % C
    <1>1. C \in Nat \ {0} /\ r \in 0 .. C - 1
      BY QueAssumption DEF Offset
    <1>2. n \in Nat
      <2>1. d * C \in Nat
        BY <1>1
      <2>2. QED
        BY <1>1, <2>1
    <1>3. k \in Nat /\ m \in 0 .. C - 1 /\ n = C * k + m
      BY <1>2, DivChunk DEF Offset
    <1> HIDE DEF k, m
    <1>4. C * k + m = C * d + r
      BY <1>1, <1>3
    <1>5. k = d
      <2>1. CASE k >= d + 1
        <3>1. C * k >= C * (d + 1)
          BY <2>1, <1>1, <1>3
        <3>2. C * (d + 1) = C * d + C
          BY <1>1
        <3>3. QED
          BY <3>1, <3>2, <1>1, <1>3, <1>4
      <2>2. CASE d >= k + 1
        <3>1. C * d >= C * (k + 1)
          BY <2>2, <1>1, <1>3
        <3>2. C * (k + 1) = C * k + C
          BY <1>1, <1>3
        <3>3. QED
          BY <3>1, <3>2, <1>1, <1>3, <1>4
      <2>3. QED
        BY <2>1, <2>2, <1>3
    <1>6. m = r
      BY <1>1, <1>3, <1>4, <1>5
    <1>7. QED
      BY <1>5, <1>6 DEF k, m

\* Going on by d whole chunks.
LEMMA DivShift ==
    ASSUME NEW d \in Nat, NEW n \in Nat
    PROVE  (d * C + n) \div C = d + n \div C /\ (d * C + n) % C = n % C
    <1> DEFINE k == n \div C
               m == n % C
    <1>1. k \in Nat /\ m \in Offset /\ n = C * k + m /\ C \in Nat
      BY DivChunk, QueAssumption
    <1> HIDE DEF k, m
    <1>2. PICK j \in Nat : j = d + k
      BY <1>1
    <1>3. d * C + n = j * C + m
      <2>1. j * C = d * C + C * k
        BY <1>1, <1>2
      <2>2. d * C \in Nat /\ C * k \in Nat
        BY <1>1
      <2>3. QED
        BY <1>1, <2>1, <2>2 DEF Offset
    <1>4. (d * C + n) \div C = j /\ (d * C + n) % C = m
      <2>1. (j * C + m) \div C = j /\ (j * C + m) % C = m
        BY <1>1, <1>2, DivExact
      <2>2. QED
        BY <1>3, <2>1
    <1>5. QED
      BY <1>1, <1>2, <1>4 DEF k, m

----------------------------------------------------------------------------

\* The elements, one by one.
Contents ==
    /\ Size \in Nat
    /\ Items \in Seq(Entry) /\ Len(Items) = Size
    /\ \A k \in 1 .. Size : Items[k] = At(k - 1)

LEMMA ContentsNow == IInv /\ alive => Contents
    <1> SUFFICES ASSUME IInv, alive PROVE Contents
      OBVIOUS
    <1>1. Size \in Nat /\ Items \in Seq(Entry) /\ Len(Items) = Size
      BY SizeType, ItemsType DEF Entry
    <1>2. \A k \in 1 .. Size : Items[k] = At(k - 1)
      BY DEF Items
    <1>3. QED
      BY <1>1, <1>2 DEF Contents

LEMMA ContentsNext == IInv' /\ alive' => Contents'
    BY ContentsNow, PTL

\* rsv1 appends, in the chunk being filled or in a new one.
LEMMA Rsv1Items ==
    ASSUME IInv, NEW e \in Elem, Rsv1(e)
    PROVE  Size' = Size + 1 /\ Items' = Append(Items, e)
    <1> USE Facts
    <1> DEFINE d == chunk_e - chunk_s
               old == IF os_e = 0 THEN FreshChunk ELSE map[chunk_e]
    <1>1. alive /\ alive' /\ chunk_s' = chunk_s /\ os_s' = os_s
      BY DEF Rsv1, IInv, TypeOK
    <1>2. IInv'
      BY Rsv1IInv
    <1>3. Size \in Nat /\ Size = d * C + (os_e - os_s) /\ d \in Nat
      BY <1>1, SizeType DEF IInv, InBounds
    <1>4. Size' = Size + 1
      <2>1. Size' = (chunk_e' - chunk_s) * C + (os_e' - os_s)
        BY <1>1, <1>2 DEF Size, IInv, TypeOK, Offset
      <2>2. CASE os_e' = 0
        <3>1. chunk_e' = chunk_e + 1 /\ os_e + 1 = C
          BY <2>2, NextOffsetType DEF Rsv1
        <3>2. (chunk_e + 1 - chunk_s) * C = d * C + C
          BY <1>3
        <3>3. d * C \in Nat
          BY <1>3
        <3>4. QED
          BY <1>3, <2>1, <2>2, <3>1, <3>2, <3>3
      <2>3. CASE os_e' # 0
        <3>1. chunk_e' = chunk_e /\ os_e' = os_e + 1
          BY <2>3, NextOffsetType DEF Rsv1
        <3>2. d * C \in Nat
          BY <1>3
        <3>3. QED
          BY <1>3, <2>1, <3>1, <3>2
      <2>4. QED
        BY <2>2, <2>3
    <1>5. \A i \in DOMAIN map \cup {chunk_e} :
              map'[i] = IF i = chunk_e THEN [old EXCEPT ![os_e] = e] ELSE map[i]
      BY DEF Rsv1
    <1>6. old \in Chunk
      BY <1>1 DEF IInv, TypeOK, ChunksOwned, Claimed, Chunk, FreshChunk
    <1>7. ASSUME NEW k \in Nat, k < Size
          PROVE  At(k)' = At(k)
      <2> DEFINE n == os_s + k
                 i == chunk_s + n \div C
                 o == n % C
      <2>1. i \in DOMAIN map /\ o \in Offset /\ n \in Nat /\ n \div C \in Nat
        BY <1>1, <1>7, ChunkOf, DivChunk
      <2>2. At(k)' = map'[i][o] /\ At(k) = map[i][o]
        BY <1>1 DEF At
      <2>3. CASE i # chunk_e
        BY <1>5, <2>1, <2>2, <2>3
      <2>4. CASE i = chunk_e
        <3>1. n < d * C + os_e
          <4>1. d * C \in Nat
            BY <1>3
          <4>2. QED
            BY <1>3, <1>7, <4>1
        <3>2. n \div C = d
          BY <1>3, <2>1, <2>4
        <3>3. os_e # 0 /\ o < os_e
          BY <1>3, <2>1, <3>1, <3>2, DivBound
        <3>4. map'[chunk_e] = [map[chunk_e] EXCEPT ![os_e] = e] /\ map[chunk_e] \in Chunk
          BY <1>5, <1>6, <3>3
        <3>5. map'[chunk_e][o] = map[chunk_e][o]
          BY <2>1, <3>3, <3>4 DEF Chunk
        <3>6. QED
          BY <2>2, <2>4, <3>5
      <2>5. QED
        BY <2>3, <2>4
    <1>8. ASSUME NEW k \in Nat, k = Size
          PROVE  At(k)' = e
      <2> DEFINE n == os_s + k
      <2>1. n = d * C + os_e
        <3>1. d * C \in Nat
          BY <1>3
        <3>2. QED
          BY <1>3, <1>8, <3>1
      <2>2. n \div C = d /\ n % C = os_e
        BY <1>3, <2>1, DivExact
      <2>3. map'[chunk_e] = [old EXCEPT ![os_e] = e]
        BY <1>5
      <2> HIDE DEF old
      <2>4. map'[chunk_e][os_e] = e
        BY <1>6, <2>3 DEF Chunk
      <2>5. At(k)' = map'[chunk_s + n \div C][n % C]
        BY <1>1 DEF At
      <2>6. chunk_s + d = chunk_e
        BY <1>3
      <2>7. QED
        BY <2>2, <2>4, <2>5, <2>6
    <1>9. Items' = Append(Items, e)
      <2>1. Contents /\ Contents'
        BY <1>1, <1>2, ContentsNow, ContentsNext
      <2>2. /\ Items \in Seq(Entry) /\ Len(Items) = Size
            /\ Items' \in Seq(Entry) /\ Len(Items') = Size + 1
            /\ e \in Entry
        BY <1>4, <2>1 DEF Contents, Entry
      <2>3. /\ Append(Items, e) \in Seq(Entry)
            /\ Len(Append(Items, e)) = Size + 1
            /\ \A k \in 1 .. Size : Append(Items, e)[k] = Items[k]
            /\ Append(Items, e)[Size + 1] = e
        BY <2>2, AppendProperties
      <2>4. ASSUME NEW k \in 1 .. Size + 1
            PROVE  Items'[k] = Append(Items, e)[k]
        <3>1. PICK j \in Nat : j = k - 1
          BY <1>3
        <3>2. Items'[k] = At(j)'
          BY <1>3, <1>4, <2>1, <3>1 DEF Contents
        <3>3. CASE k = Size + 1
          <4>1. j = Size
            BY <1>3, <3>1, <3>3
          <4>2. At(j)' = e
            BY <1>8, <4>1
          <4>3. QED
            BY <2>3, <3>2, <3>3, <4>2
        <3>4. CASE k # Size + 1
          <4>1. k \in 1 .. Size /\ j < Size
            BY <1>3, <3>1, <3>4
          <4>2. Items[k] = At(j)
            BY <2>1, <3>1, <4>1 DEF Contents
          <4>3. At(j)' = At(j)
            BY <1>7, <4>1
          <4>4. QED
            BY <2>3, <3>2, <4>1, <4>2, <4>3
        <3>5. QED
          BY <3>3, <3>4
      <2>5. QED
        BY <2>2, <2>3, <2>4, SeqEqual
    <1>10. QED
      BY <1>4, <1>9

\* pop1 takes the first element; when it leaves a chunk behind, and also when
\* it starts again at chunk 0, the others keep their order.
LEMMA Pop1Items ==
    ASSUME IInv, Pop1
    PROVE  /\ Size > 0 /\ Size' = Size - 1
           /\ out' = <<Items[1]>>
           /\ Items' = Tail(Items)
           /\ Size = 1 => os_s' = 0
           /\ Size # 1 => os_s' = NextOffset(os_s)
    <1> USE Facts
    <1> DEFINE d == chunk_e - chunk_s
               os == NextOffset(os_s)
               cs == IF os = 0 THEN chunk_s + 1 ELSE chunk_s
               left == IF os = 0 THEN DOMAIN map \ {chunk_s} ELSE DOMAIN map
    <1>1. alive /\ alive' /\ ~IsEmpty /\ out' = <<map[chunk_s][os_s]>>
      BY DEF Pop1
    <1>2. IInv' /\ Contents /\ Contents'
      BY <1>1, Pop1IInv, ContentsNow, ContentsNext
    <1>3. Size \in Nat /\ Size = d * C + (os_e - os_s) /\ d \in Nat
      BY <1>1, SizeType DEF IInv, InBounds
    <1>4. /\ os \in Offset
          /\ os = 0 <=> os_s + 1 = C
          /\ os # 0 => os = os_s + 1
      BY NextOffsetType
    <1>5. Size > 0
      BY <1>1, NonEmptySize
    <1>6. Items[1] = map[chunk_s][os_s]
      <2>1. Items[1] = At(0)
        BY <1>2, <1>3, <1>5 DEF Contents
      <2>2. os_s \div C = 0 /\ os_s % C = os_s
        <3>1. (0 * C + os_s) \div C = 0 /\ (0 * C + os_s) % C = os_s
          BY DivExact
        <3>2. 0 * C + os_s = os_s
          OBVIOUS
        <3>3. QED
          BY <3>1, <3>2
      <2>3. QED
        BY <2>1, <2>2 DEF At
    <1>7. /\ Tail(Items) \in Seq(Entry)
          /\ Len(Tail(Items)) = Size - 1
          /\ \A k \in 1 .. Size - 1 : Tail(Items)[k] = Items[k + 1]
      <2>1. Items # <<>> /\ Items \in Seq(Entry) /\ Len(Items) = Size
        BY <1>2, <1>5 DEF Contents
      <2>2. QED
        BY <2>1, HeadTailProperties
    \* What is left when the indices move on.
    <1>8. Size - 1 = (chunk_e - cs) * C + (os_e - os)
      <2>1. CASE os = 0
        <3>1. (chunk_e - (chunk_s + 1)) * C = d * C - C
          OBVIOUS
        <3>2. QED
          BY <1>3, <1>4, <2>1, <3>1
      <2>2. CASE os # 0
        BY <1>3, <1>4, <2>2
      <2>3. QED
        BY <2>1, <2>2
    <1>9. CASE Drained(cs, os)
      <2>1. Size = 1
        <3>1. chunk_e - cs = 0 /\ os_e - os = 0
          BY <1>4, <1>9 DEF Drained, Offset
        <3>2. (chunk_e - cs) * C = 0
          BY <3>1
        <3>3. QED
          BY <1>3, <1>8, <3>1, <3>2
      <2>2. chunk_s' = 0 /\ chunk_e' = 0 /\ os_s' = 0 /\ os_e' = 0
        BY <1>9 DEF Pop1
      <2>3. Size' = 0
        BY <2>2 DEF Size
      <2>4. Items' = Tail(Items)
        <3>1. Items' \in Seq(Entry) /\ Len(Items') = 0
          BY <1>2, <2>3 DEF Contents
        <3>2. Len(Tail(Items)) = 0
          BY <1>7, <2>1
        <3>3. QED
          BY <1>7, <3>1, <3>2, EmptySeq
      <2>5. QED
        BY <1>1, <1>6, <2>1, <2>2, <2>3, <2>4
    <1>10. CASE ~Drained(cs, os)
      <2>1. /\ map' = Restrict(map, left)
            /\ chunk_s' = cs /\ os_s' = os /\ chunk_e' = chunk_e /\ os_e' = os_e
        BY <1>10 DEF Pop1
      <2>2. Size' = Size - 1
        BY <1>8, <2>1 DEF Size
      <2>3. Size # 1
        <3>1. CASE d = 0
          <4>1. Size = os_e - os_s /\ chunk_s = chunk_e
            <5>1. d * C = 0
              BY <3>1
            <5>2. chunk_s = chunk_e
              BY <3>1
            <5>3. Size = 0 + (os_e - os_s)
              BY <1>3, <5>1
            <5>4. QED
              BY <5>2, <5>3 DEF Offset
          <4>2. os # 0 => os_e # os
            BY <1>10, <4>1 DEF Drained
          <4>3. QED
            BY <1>4, <4>1, <4>2 DEF Offset
        <3>2. CASE d > 0 /\ os = 0
          <4>1. (d - 1) * C + os_e = Size - 1
            BY <1>8, <3>2
          <4>2. d > 1 => (d - 1) * C >= C
            BY <1>3
          <4>3. d = 1 => os_e # 0
            BY <1>10, <3>2 DEF Drained
          <4>4. QED
            BY <1>3, <3>2, <4>1, <4>2, <4>3 DEF Offset
        <3>3. CASE d > 0 /\ os # 0
          <4>1. d * C >= C
            BY <1>3, <3>3
          <4>2. QED
            BY <1>3, <1>4, <3>3, <4>1 DEF Offset
        <3>4. QED
          BY <1>3, <3>1, <3>2, <3>3
      <2>4. ASSUME NEW k \in Nat, k + 1 < Size
            PROVE  At(k)' = At(k + 1)
        <3> DEFINE i == chunk_s + ((os_s + (k + 1)) \div C)
                   o == (os_s + (k + 1)) % C
        <3>1. i \in DOMAIN map
          BY <1>1, <2>4, ChunkOf
        <3>2. At(k)' = map'[cs + ((os + k) \div C)][(os + k) % C]
          BY <2>1 DEF At
        <3>3. CASE os = 0
          <4>1. os_s + (k + 1) = 1 * C + k
            BY <1>4, <3>3
          <4>2. (1 * C + k) \div C = 1 + (k \div C) /\ (1 * C + k) % C = k % C
            BY DivShift
          <4>3. k \div C \in Nat
            BY DivChunk
          <4>4. i = cs + ((os + k) \div C) /\ o = (os + k) % C /\ i # chunk_s
            BY <3>3, <4>1, <4>2, <4>3
          <4>5. map'[i] = map[i]
            BY <2>1, <3>1, <4>4 DEF Restrict
          <4>6. QED
            BY <3>2, <4>4, <4>5 DEF At
        <3>4. CASE os # 0
          <4>1. os_s + (k + 1) = os + k
            BY <1>4, <3>4
          <4>2. map'[i] = map[i]
            BY <2>1, <3>1, <3>4 DEF Restrict
          <4>3. QED
            BY <3>2, <3>4, <4>1, <4>2 DEF At
        <3>5. QED
          BY <3>3, <3>4
      <2>5. Items' = Tail(Items)
        <3>1. Items' \in Seq(Entry) /\ Len(Items') = Size - 1
          BY <1>2, <2>2 DEF Contents
        <3>2. ASSUME NEW k \in 1 .. Size - 1
              PROVE  Items'[k] = Tail(Items)[k]
          <4>1. PICK j \in Nat : j = k - 1 /\ j + 1 < Size
            BY <1>3
          <4>2. Items'[k] = At(j)'
            BY <1>2, <2>2, <4>1 DEF Contents
          <4>3. k + 1 \in 1 .. Size /\ (k + 1) - 1 = j + 1
            BY <1>3, <4>1
          <4>4. Items[k + 1] = At(j + 1)
            BY <1>2, <4>3 DEF Contents
          <4>5. QED
            BY <1>7, <2>4, <4>1, <4>2, <4>4
        <3>3. QED
          BY <1>7, <3>1, <3>2, SeqEqual
      <2>6. QED
        BY <1>1, <1>5, <1>6, <2>1, <2>2, <2>3, <2>5
    <1>11. QED
      BY <1>9, <1>10

\* What lies ahead up to the end of the chunk in which a block of n entries is
\* exhausted, and how much of it there is.
Room(n) == ((os_s + n - 1) \div C + 1) * C - os_s
Gone(n) == IF Room(n) <= Size THEN Room(n) ELSE Size

\* pop_to takes the first elements, up to the end of the chunk in which the
\* block is exhausted.
LEMMA PopToItems ==
    ASSUME IInv, NEW n \in 1 .. MaxBlk, PopTo(n), n <= Size
    PROVE  /\ Gone(n) \in Nat /\ Gone(n) <= Size
           /\ Items' = SubSeq(Items, Gone(n) + 1, Size)
           /\ os_s' = (os_s + Gone(n)) % C
    <1> USE Facts
    <1> DEFINE d == chunk_e - chunk_s
               b == (os_s + n - 1) \div C
    <1>1. alive /\ alive' /\ n \in Nat \ {0}
      BY QueAssumption DEF PopTo, IInv, TypeOK
    <1>2. IInv' /\ Contents /\ Contents'
      BY <1>1, PopToIInv, ContentsNow, ContentsNext
    <1>3. Size \in Nat /\ Size = d * C + (os_e - os_s) /\ d \in Nat
      BY <1>1, SizeType DEF IInv, InBounds
    <1>4. /\ b \in Nat /\ chunk_s + b = BlockEnd(n)
          /\ b <= d
          /\ b = d => os_e # 0
      <2>1. n - 1 \in Nat /\ n - 1 < Size /\ os_s + (n - 1) = os_s + n - 1
        BY <1>1, <1>3
      <2>2. b \in Nat /\ chunk_s + b \in chunk_s .. chunk_e /\ (chunk_s + b = chunk_e => os_e # 0)
        BY <1>1, <2>1, ChunkOf, DivChunk
      <2>3. QED
        BY <2>2 DEF BlockEnd
    <1>5. ~(Size < n) /\ Size \in Nat
      BY <1>1, <1>3
    <1>6. CASE b = d
      <2>1. (b + 1) * C = d * C + C
        BY <1>3, <1>6
      <2>2. d * C \in Nat
        BY <1>3
      <2>3. Gone(n) = Size
        <3>1. Room(n) = d * C + C - os_s
          BY <2>1 DEF Room
        <3>2. Room(n) \in Int /\ Room(n) >= Size
          BY <1>3, <2>2, <3>1 DEF Offset
        <3>3. QED
          BY <1>5, <3>2 DEF Gone
      <2>4. BlockEnd(n) = chunk_e
        BY <1>3, <1>4, <1>6
      <2>5. chunk_s' = chunk_e' /\ os_s' = os_e' /\ os_s' = os_e
        BY <1>5, <2>4 DEF PopTo
      <2>6. Size' = 0
        <3>1. Size' = (chunk_e' - chunk_s') * C + os_e' - os_s'
          BY DEF Size
        <3>2. chunk_s' \in Nat /\ os_s' \in Nat
          BY <2>5 DEF PopTo
        <3>3. (chunk_e' - chunk_s') * C = 0
          BY <2>5, <3>2
        <3>4. os_e' = os_s'
          BY <2>5
        <3>5. QED
          BY <3>1, <3>2, <3>3, <3>4
      <2>7. Items' = <<>>
        BY <1>2, <2>6, EmptySeq DEF Contents
      <2>8. SubSeq(Items, Size + 1, Size) = <<>>
        <3>1. Size + 1 \in Int /\ Size \in Int /\ Size < Size + 1
          BY <1>3
        <3>2. QED
          BY <3>1, SubSeqEmpty
      <2>9. os_s' = (os_s + Size) % C
        <3>1. os_s + Size = d * C + os_e
          BY <1>3, <2>2
        <3>2. (d * C + os_e) % C = os_e
          BY <1>3, DivExact
        <3>3. QED
          BY <2>5, <3>1, <3>2
      <2>10. QED
        BY <1>5, <2>3, <2>7, <2>8, <2>9
    <1>7. CASE b < d
      <2> DEFINE j == b + 1
      <2>1. j \in Nat /\ j <= d /\ j * C <= d * C /\ j * C >= C /\ j * C \in Nat
        BY <1>3, <1>4, <1>7
      <2>2. Room(n) \in Nat /\ Room(n) <= Size /\ os_s + Room(n) = j * C
        <3>1. Room(n) = j * C - os_s
          BY DEF Room
        <3>2. QED
          BY <1>3, <2>1, <3>1 DEF Offset
      <2>3. BlockEnd(n) # chunk_e /\ BlockEnd(n) + 1 = chunk_s + j /\ BlockEnd(n) \in Nat
        BY <1>3, <1>4, <1>7
      <2>4. /\ map' = Restrict(map, DOMAIN map \ (chunk_s .. BlockEnd(n)))
            /\ chunk_s' = chunk_s + j /\ os_s' = 0
            /\ chunk_e' = chunk_e /\ os_e' = os_e
        BY <1>5, <2>3 DEF PopTo
      <2> HIDE DEF b
      <2>5. Gone(n) = Room(n)
        BY <2>2 DEF Gone
      <2>6. Size' = Size - Room(n)
        <3>1. Size' = (chunk_e - (chunk_s + j)) * C + os_e
          BY <2>1, <2>4 DEF Size
        <3>2. (chunk_e - (chunk_s + j)) * C = d * C - j * C
          BY <2>1
        <3>3. d * C \in Nat
          BY <1>3
        <3>4. QED
          BY <1>3, <2>1, <2>2, <3>1, <3>2, <3>3
      <2>7. ASSUME NEW k \in Nat, Room(n) + k < Size
            PROVE  At(k)' = At(Room(n) + k)
        <3>1. chunk_s + ((os_s + (Room(n) + k)) \div C) \in DOMAIN map
          BY <1>1, <2>2, <2>7, ChunkOf
        <3>2. os_s + (Room(n) + k) = j * C + k
          BY <2>1, <2>2
        <3>3. (j * C + k) \div C = j + (k \div C) /\ (j * C + k) % C = k % C /\ k \div C \in Nat
          BY <2>1, DivShift, DivChunk
        <3>4. At(k)' = map'[chunk_s + (j + (k \div C))][k % C]
          BY <2>1, <2>4, <3>3 DEF At
        <3>5. chunk_s + (j + (k \div C)) \in DOMAIN map \ (chunk_s .. BlockEnd(n))
          BY <2>1, <2>3, <3>1, <3>2, <3>3
        <3>6. map'[chunk_s + (j + (k \div C))] = map[chunk_s + (j + (k \div C))]
          BY <2>4, <3>5 DEF Restrict
        <3>7. QED
          BY <3>2, <3>3, <3>4, <3>6 DEF At
      <2>8. Items' = SubSeq(Items, Room(n) + 1, Size)
        <3>1. /\ Items' \in Seq(Entry) /\ Len(Items') = Size - Room(n)
              /\ Items \in Seq(Entry) /\ Len(Items) = Size
          BY <1>2, <2>6 DEF Contents
        <3>2. \A k \in Room(n) + 1 .. Size : Items[k] \in Entry
          BY <2>2, <3>1, ElementOfSeq
        <3>3. /\ SubSeq(Items, Room(n) + 1, Size) \in Seq(Entry)
              /\ Len(SubSeq(Items, Room(n) + 1, Size)) = Size - Room(n)
              /\ \A k \in 1 .. Size - Room(n) : SubSeq(Items, Room(n) + 1, Size)[k] = Items[Room(n) + k]
          <4>1. /\ SubSeq(Items, Room(n) + 1, Size) \in Seq(Entry)
                /\ Len(SubSeq(Items, Room(n) + 1, Size))
                       = IF Room(n) + 1 <= Size THEN Size - (Room(n) + 1) + 1 ELSE 0
                /\ \A k \in 1 .. Size - (Room(n) + 1) + 1 :
                       SubSeq(Items, Room(n) + 1, Size)[k] = Items[(Room(n) + 1) + k - 1]
            BY <1>3, <2>2, <3>2, SubSeqProperties
          <4>2. QED
            BY <1>3, <2>2, <4>1
        <3>4. ASSUME NEW k \in 1 .. Size - Room(n)
              PROVE  Items'[k] = SubSeq(Items, Room(n) + 1, Size)[k]
          <4>1. PICK i \in Nat : i = k - 1 /\ Room(n) + i < Size
            BY <1>3, <2>2
          <4>2. Items'[k] = At(i)'
            BY <1>2, <2>6, <4>1 DEF Contents
          <4>3. Room(n) + k \in 1 .. Size /\ (Room(n) + k) - 1 = Room(n) + i
            BY <1>3, <2>2, <4>1
          <4>4. Items[Room(n) + k] = At(Room(n) + i)
            BY <1>2, <4>3 DEF Contents
          <4>5. QED
            BY <2>7, <3>3, <4>1, <4>2, <4>4
        <3>5. QED
          BY <3>1, <3>3, <3>4, SeqEqual
      <2>9. os_s' = (os_s + Room(n)) % C
        <3>1. (j * C + 0) % C = 0
          BY <2>1, DivExact
        <3>2. QED
          BY <2>1, <2>2, <2>4, <3>1
      <2>10. QED
        BY <2>2, <2>5, <2>8, <2>9
    <1>8. b = d \/ b < d
      <2>1. b \in Nat /\ d \in Nat /\ b <= d
        BY <1>3, <1>4
      <2> HIDE DEF b, d
      <2>2. QED
        BY <2>1
    <1>9. QED
      BY <1>6, <1>7, <1>8

\* trim moves the elements with their chunks, and gives up a chunk without any.
LEMMA TrimItems ==
    ASSUME IInv, Trim
    PROVE  /\ Items' = Items
           /\ os_s' = os_s \/ (Items = <<>> /\ os_s' = 0)
    <1> USE Facts
    <1> DEFINE d == chunk_e - chunk_s
               drop == os_e # 0 /\ chunk_e = chunk_s /\ os_e = os_s
               sz == d + (IF os_e # 0 /\ ~drop THEN 1 ELSE 0)
    <1>1. alive /\ alive'
      BY DEF Trim
    <1>2. IInv' /\ Contents /\ Contents'
      BY <1>1, TrimIInv, ContentsNow, ContentsNext
    <1>3. Size \in Nat /\ Size = d * C + (os_e - os_s) /\ d \in Nat
      BY <1>1, SizeType DEF IInv, InBounds
    <1>4. /\ map' = [i \in 0 .. sz - 1 |-> map[i + chunk_s]]
          /\ os_s' = (IF drop THEN 0 ELSE os_s)
          /\ os_e' = (IF drop THEN 0 ELSE os_e)
          /\ chunk_s' = 0 /\ chunk_e' = d
      BY DEF Trim
    <1>5. Size' = Size
      <2>1. Size' = (d - 0) * C + os_e' - os_s'
        BY <1>4 DEF Size
      <2>2. os_e' - os_s' = os_e - os_s
        BY <1>4
      <2>3. os_e' \in Nat /\ os_s' \in Nat
        BY <1>4
      <2>4. QED
        <3> HIDE DEF d
        <3>1. d - 0 = d /\ d * C \in Nat
          BY <1>3
        <3>2. Size' = d * C + os_e' - os_s'
          BY <2>1, <3>1
        <3>3. QED
          BY <1>3, <2>2, <2>3, <3>1, <3>2
    <1>6. CASE drop
      <2>1. d = 0 /\ os_e - os_s = 0
        BY <1>6
      <2>2. d * C = 0
        BY <2>1
      <2>3. Size = 0
        BY <1>3, <2>1, <2>2
      <2>4. Items = <<>> /\ Items' = <<>>
        BY <1>2, <1>5, <2>3, EmptySeq DEF Contents
      <2>5. QED
        BY <1>4, <1>6, <2>4
    <1>7. CASE ~drop
      <2>1. ASSUME NEW k \in Nat, k < Size
            PROVE  At(k)' = At(k)
        <3> DEFINE e == (os_s + k) \div C
        <3>1. e \in Nat /\ e <= d /\ (e = d => os_e # 0)
          <4>1. /\ chunk_s + e \in chunk_s .. chunk_e
                /\ chunk_s + e = chunk_e => os_e # 0
                /\ e \in Nat
            BY <1>1, <2>1, ChunkOf, DivChunk
          <4> HIDE DEF e
          <4>2. QED
            BY <4>1
        <3>2. At(k)' = map'[0 + e][(os_s + k) % C]
          BY <1>4, <1>7 DEF At
        <3> HIDE DEF e
        <3>3. e \in 0 .. sz - 1
          BY <1>3, <1>7, <3>1
        <3>4. map'[0 + e] = map[chunk_s + e]
          BY <1>4, <3>1, <3>3
        <3>5. QED
          BY <3>2, <3>4 DEF At, e
      <2>2. Items' = Items
        <3>1. /\ Items' \in Seq(Entry) /\ Len(Items') = Size
              /\ Items \in Seq(Entry) /\ Len(Items) = Size
          BY <1>2, <1>5 DEF Contents
        <3>2. ASSUME NEW k \in 1 .. Size
              PROVE  Items'[k] = Items[k]
          <4>1. PICK i \in Nat : i = k - 1 /\ i < Size
            BY <1>3
          <4>2. QED
            BY <1>2, <1>5, <2>1, <4>1 DEF Contents
        <3>3. QED
          BY <3>1, <3>2, SeqEqual
      <2>3. QED
        BY <1>4, <1>7, <2>2
    <1>8. QED
      BY <1>6, <1>7

(***************************************************************************)
(* The abstract queue.                                                     *)
(***************************************************************************)

USE DEF Fifo!Empty, Fifo!Put, Fifo!TakeOne, Fifo!Block, Fifo!TakeBlock, Fifo!Smaller

LEMMA InitFifo == Init => Fifo!FifoInit
    BY DEF Init, Fifo!FifoInit

\* init: Open.
LEMMA InitQueFifo == IInv /\ InitQue => Fifo!Open
    <1> SUFFICES ASSUME IInv, InitQue PROVE Fifo!Open
      OBVIOUS
    <1>1. ~alive /\ alive' /\ os_s' = 0 /\ out' = out
      BY DEF InitQue
    <1>2. Size' = 0
      <2>1. chunk_e' = 0 /\ chunk_s' = 0 /\ os_e' = 0 /\ os_s' = 0
        BY DEF InitQue
      <2>2. Size' = (0 - 0) * C + 0 - 0
        BY <2>1 DEF Size
      <2>3. QED
        BY <2>2, QueAssumption
    <1>3. Contents'
      BY <1>1, InitQueIInv, ContentsNext
    <1>4. Items' = <<>>
      BY <1>2, <1>3, EmptySeq DEF Contents
    <1>5. alive' = TRUE
      BY DEF InitQue
    <1>6. QED
      BY <1>1, <1>4, <1>5 DEF Fifo!Open

\* rsv1: Put.
LEMMA Rsv1Fifo == ASSUME NEW e \in Elem PROVE IInv /\ Rsv1(e) => Fifo!PutStep
    <1> SUFFICES ASSUME IInv, Rsv1(e) PROVE Fifo!PutStep
      OBVIOUS
    <1>1. alive /\ alive' = alive /\ os_s' = os_s /\ out' = out
      BY DEF Rsv1
    <1>2. Items' = Append(Items, e)
      BY Rsv1Items
    <1> DEFINE now == [items |-> Items, off |-> os_s]
    <1>3. [items |-> Items', off |-> os_s'] = [now EXCEPT !.items = Append(now.items, e)]
      <2>1. now.items = Items
        OBVIOUS
      <2>2. [now EXCEPT !.items = Append(Items, e)] = [items |-> Append(Items, e), off |-> os_s]
        BY SMTT(60)
      <2> HIDE DEF now
      <2>3. [items |-> Items', off |-> os_s'] = [items |-> Append(Items, e), off |-> os_s]
        BY <1>1, <1>2
      <2>4. QED
        BY <2>1, <2>2, <2>3
    <1>4. (IF alive THEN now ELSE [items |-> <<>>, off |-> 0])'
              = Fifo!Put(IF alive THEN now ELSE [items |-> <<>>, off |-> 0], e)
      BY <1>1, <1>3 DEF Fifo!Put
    <1> HIDE DEF now
    <1>5. QED
      BY <1>1, <1>4, ZenonT(60) DEF Fifo!PutStep, now

\* pop1: TakeOne.
LEMMA Pop1Fifo == IInv /\ Pop1 => Fifo!TakeOneStep
    <1> SUFFICES ASSUME IInv, Pop1 PROVE Fifo!TakeOneStep
      OBVIOUS
    <1>1. alive /\ alive' = alive
      BY DEF Pop1
    <1>2. Size > 0 /\ Size' = Size - 1 /\ out' = <<Items[1]>> /\ Items' = Tail(Items)
      BY Pop1Items
    <1>3. Items \in Seq(Entry) /\ Len(Items) = Size /\ Size \in Nat /\ Contents'
      BY <1>1, Pop1IInv, ContentsNow, ContentsNext DEF Contents
    <1>4. Items # <<>> /\ Head(Items) = Items[1]
      BY <1>2, <1>3
    <1>5. CASE Size = 1
      <2>1. os_s' = 0
        BY <1>5, Pop1Items
      <2>2. Items' = <<>>
        BY <1>2, <1>3, <1>5, EmptySeq DEF Contents
      <2>3. QED
        BY <1>1, <1>2, <1>3, <1>4, <1>5, <2>1, <2>2 DEF Fifo!TakeOneStep
    <1>6. CASE Size # 1
      <2>1. os_s' = (os_s + 1) % C
        <3>1. os_s' = NextOffset(os_s)
          BY <1>6, Pop1Items
        <3>2. NextOffset(os_s) = (os_s + 1) % C
          BY Facts, QueAssumption DEF NextOffset, Offset
        <3>3. QED
          BY <3>1, <3>2
      <2>2. QED
        BY <1>1, <1>2, <1>3, <1>4, <1>6, <2>1 DEF Fifo!TakeOneStep
    <1>7. QED
      BY <1>5, <1>6

\* pop_to: TakeBlock.
LEMMA PopToFifo ==
    ASSUME NEW n \in 1 .. MaxBlk PROVE IInv /\ PopTo(n) => Fifo!TakeBlockStep
    <1> SUFFICES ASSUME IInv, PopTo(n) PROVE Fifo!TakeBlockStep
      OBVIOUS
    <1>1. alive /\ alive' = alive /\ n \in Nat \ {0}
      BY QueAssumption DEF PopTo
    <1>2. Items \in Seq(Entry) /\ Len(Items) = Size /\ Size \in Nat /\ Contents'
      BY <1>1, PopToIInv, ContentsNow, ContentsNext DEF Contents
    <1>3. CASE Size < n
      <2>1. /\ out' = Items
            /\ chunk_s' = 0 /\ chunk_e' = 0 /\ os_s' = 0 /\ os_e' = 0
        BY <1>3 DEF PopTo
      <2>2. Size' = 0
        <3>1. Size' = (0 - 0) * C + 0 - 0
          BY <2>1 DEF Size
        <3>2. QED
          BY <3>1, QueAssumption
      <2>3. Items' = <<>>
        BY <1>2, <2>2, EmptySeq DEF Contents
      <2>4. SubSeq(Items, 1, Size) = Items
        BY <1>2, SubSeqFull
      <2>5. PICK m \in 1 .. Size + 1 : m = Size + 1
        BY <1>2
      <2>6. Fifo!Block([items |-> Items, off |-> os_s], m) = Items
        BY <1>2, <2>4, <2>5
      <2>7. Fifo!TakeBlock([items |-> Items, off |-> os_s], m) = [items |-> <<>>, off |-> 0]
        BY <1>2, <2>5
      <2>8. QED
        BY <1>1, <1>2, <2>1, <2>3, <2>6, <2>7 DEF Fifo!TakeBlockStep
    <1>4. CASE n <= Size
      <2>1. out' = SubSeq(Items, 1, n)
        BY <1>1, <1>2, <1>4 DEF PopTo
      <2>2. Items' = SubSeq(Items, Gone(n) + 1, Size) /\ os_s' = (os_s + Gone(n)) % C
        BY <1>4, PopToItems
      <2>3. Fifo!SpanThrough([items |-> Items, off |-> os_s], n) = Gone(n)
        BY <1>2 DEF Fifo!SpanThrough, Gone, Room
      <2>4. n \in 1 .. Size + 1
        BY <1>1, <1>2, <1>4
      <2>5. Fifo!Block([items |-> Items, off |-> os_s], n) = SubSeq(Items, 1, n)
        BY <1>2, <1>4
      <2>6. Fifo!TakeBlock([items |-> Items, off |-> os_s], n)
                = [items |-> Items', off |-> os_s']
        <3>1. n # 0 /\ ~(Len(Items) < n)
          BY <1>1, <1>2, <1>4
        <3>2. Fifo!TakeBlock([items |-> Items, off |-> os_s], n)
                  = [items |-> SubSeq(Items, Gone(n) + 1, Len(Items)),
                     off |-> (os_s + Gone(n)) % C]
          BY <2>3, <3>1, Zenon
        <3>3. QED
          BY <1>2, <2>2, <3>2
      <2>7. QED
        BY <1>1, <1>2, <2>1, <2>4, <2>5, <2>6 DEF Fifo!TakeBlockStep
    <1>5. QED
      BY <1>1, <1>2, <1>3, <1>4

\* trim: Rewind, or nothing that shows.
LEMMA TrimFifo == IInv /\ Trim => Fifo!Rewind \/ UNCHANGED Fifo!fvars
    <1> SUFFICES ASSUME IInv, Trim PROVE Fifo!Rewind \/ UNCHANGED Fifo!fvars
      OBVIOUS
    <1>1. alive /\ alive' = alive /\ out' = out
      BY DEF Trim
    <1>2. Items' = Items /\ (os_s' = os_s \/ (Items = <<>> /\ os_s' = 0))
      BY TrimItems
    <1>3. QED
      BY <1>1, <1>2 DEF Fifo!Rewind, Fifo!fvars

\* del: Close.
LEMMA DelFifo == IInv /\ Del => Fifo!Close
    BY DEF Del, Fifo!Close

\* A step of the queue is a step of the abstract one, or does not show in it.
LEMMA NextFifo == IInv /\ [Next]_vars => [Fifo!FifoNext]_Fifo!fvars
    <1> SUFFICES ASSUME IInv, [Next]_vars PROVE [Fifo!FifoNext]_Fifo!fvars
      OBVIOUS
    <1> USE DEF Fifo!FifoNext
    <1>1. CASE InitQue
      BY <1>1, InitQueFifo
    <1>2. ASSUME NEW e \in Elem, Rsv1(e) PROVE Fifo!FifoNext
      BY <1>2, Rsv1Fifo
    <1>3. CASE Rsv1NoChunk
      BY <1>3 DEF Rsv1NoChunk, Fifo!fvars, Items, At, Size
    <1>4. CASE Pop1
      BY <1>4, Pop1Fifo
    <1>5. ASSUME NEW n \in 1 .. MaxBlk, PopTo(n) PROVE Fifo!FifoNext
      BY <1>5, PopToFifo
    <1>6. CASE Trim
      BY <1>6, TrimFifo
    <1>7. CASE QTrim
      BY <1>7, TrimFifo DEF QTrim
    <1>8. CASE Del
      BY <1>8, DelFifo
    <1>9. CASE UNCHANGED vars
      BY <1>9 DEF vars, Fifo!fvars, Items, At, Size
    <1>10. QED
      BY <1>1, <1>2, <1>3, <1>4, <1>5, <1>6, <1>7, <1>8, <1>9 DEF Next

\* The chunked queue is a queue: for every chunk size, what is popped is what
\* was pushed, in order, and a block pop takes what ChunkFifo says.
THEOREM QueIsAFifo == Spec => ImplementsChunkFifo
    <1>1. Spec => []IInv
      BY QueInvariant
    <1>2. QED
      BY <1>1, InitFifo, NextFifo, PTL DEF Spec, ImplementsChunkFifo, Fifo!FifoSpec

----------------------------------------------------------------------------
(* The walk of a flush: WalkIsUnlinkedPrefix *)

\* The number of elements up to and with the one at position p.
Through(p) == IF InFront(p) THEN 0 ELSE (p[1] - chunk_s) * C + p[2] - os_s + 1

PositionOf(k) == <<chunk_s + (os_s + k) \div C, (os_s + k) % C>>

\* Where the walk may be: in front of the queue or at an element, of which
\* all that could fit the SQ and lie behind it are linked.
Walked ==
    {p \in Position :
        /\ InFront(p) \/ \E k \in 0 .. PopMaxIdx : p = PositionOf(k)
        /\ \A j \in 0 .. PopMaxIdx : j >= Through(p) => At(j) \in Linked}

LEMMA ThroughPosition ==
    ASSUME IInv, alive, NEW k \in Nat
    PROVE  /\ PositionOf(k) \in Position
           /\ ~InFront(PositionOf(k))
           /\ Through(PositionOf(k)) = k + 1
    <1> DEFINE d == (os_s + k) \div C
               o == (os_s + k) % C
    <1>1. /\ C \in Nat \ {0} /\ chunk_s \in Nat /\ os_s \in Nat /\ os_s < C /\ os_s + k \in Nat
          /\ os_s \in Offset
      BY Facts DEF Offset
    <1>2. d \in Nat /\ o \in Offset /\ os_s + k = C * d + o
      BY <1>1, DivChunk
    <1>3. PositionOf(k) = <<chunk_s + d, o>>
      BY DEF PositionOf
    <1> HIDE DEF d, o
    <1>4. d * C \in Nat /\ C * d = d * C /\ (chunk_s + d - chunk_s) * C = d * C
      BY <1>1, <1>2
    <1>5. d = 0 => o >= os_s
      <2>1. d = 0 => C * d = 0
        BY <1>1
      <2>2. QED
        BY <1>1, <1>2, <2>1 DEF Offset
    <1>6. ~InFront(PositionOf(k))
      BY <1>1, <1>2, <1>3, <1>5 DEF InFront, Offset
    <1>7. Through(PositionOf(k)) = k + 1
      BY <1>1, <1>2, <1>3, <1>4, <1>6 DEF Through, Offset
    <1>8. PositionOf(k) \in Position
      BY <1>1, <1>2, <1>3 DEF Position
    <1>9. QED
      BY <1>6, <1>7, <1>8

LEMMA BackOf ==
    ASSUME NEW c \in Int, NEW o \in Offset
    PROVE  Back(<<c, o>>) = IF o = 0 THEN <<c - 1, C - 1>> ELSE <<c, o - 1>>
    BY DEF Back

\* One entry back from element k is element k - 1, and from the first one
\* the front of the queue.
LEMMA BackOne ==
    ASSUME IInv, alive, NEW k \in Nat
    PROVE  /\ Back(PositionOf(k)) \in Position
           /\ IF k = 0 THEN InFront(Back(PositionOf(k)))
              ELSE Back(PositionOf(k)) = PositionOf(k - 1)
    <1> DEFINE d == (os_s + k) \div C
               o == (os_s + k) % C
    <1>1. /\ C \in Nat \ {0} /\ chunk_s \in Nat /\ os_s \in Nat /\ os_s < C /\ os_s + k \in Nat
          /\ os_s \in Offset
      BY Facts DEF Offset
    <1>2. d \in Nat /\ o \in Offset /\ os_s + k = C * d + o
      BY <1>1, DivChunk
    <1>3. PositionOf(k) = <<chunk_s + d, o>>
      BY DEF PositionOf
    <1> HIDE DEF d, o
    <1>4. Back(PositionOf(k)) = IF o = 0 THEN <<chunk_s + d - 1, C - 1>> ELSE <<chunk_s + d, o - 1>>
      BY <1>1, <1>2, <1>3, BackOf
    <1>5. Back(PositionOf(k)) \in Position
      BY <1>1, <1>2, <1>4 DEF Position, Offset
    <1>6. CASE k = 0
      <2>1. d = 0 /\ o = os_s
        <3>1. os_s + 0 = os_s /\ 0 * C + os_s = os_s /\ (0 * C + os_s) \div C = 0
              /\ (0 * C + os_s) % C = os_s
          BY <1>1, DivExact
        <3>2. QED
          BY <1>6, <3>1 DEF d, o
      <2>2. InFront(Back(PositionOf(k)))
        BY <1>1, <1>4, <2>1 DEF InFront
      <2>3. QED
        BY <1>5, <1>6, <2>2
    <1>7. CASE k # 0
      <2>1. CASE o = 0
        <3>1. d # 0
          <4>1. d = 0 => C * d = 0
            BY <1>1
          <4>2. QED
            BY <1>1, <1>2, <1>7, <2>1, <4>1
        <3>2. PICK e \in Nat : d = e + 1
          BY <1>2, <3>1
        <3>3. C * d = e * C + C /\ e * C \in Nat
          BY <1>1, <3>2
        <3>4. os_s + (k - 1) = e * C + (C - 1) /\ C - 1 \in Offset
          BY <1>1, <1>2, <2>1, <3>3 DEF Offset
        <3>5. (e * C + (C - 1)) \div C = e /\ (e * C + (C - 1)) % C = C - 1
          BY <3>4, DivExact
        <3>6. PositionOf(k - 1) = <<chunk_s + e, C - 1>>
          BY <3>4, <3>5 DEF PositionOf
        <3>7. chunk_s + d - 1 = chunk_s + e
          BY <1>1, <3>2
        <3>8. QED
          BY <1>4, <1>5, <1>7, <2>1, <3>6, <3>7
      <2>2. CASE o # 0
        <3>1. C * d = d * C /\ d * C \in Nat
          BY <1>1, <1>2
        <3>2. os_s + (k - 1) = d * C + (o - 1) /\ o - 1 \in Offset
          BY <1>1, <1>2, <2>2, <3>1 DEF Offset
        <3>3. (d * C + (o - 1)) \div C = d /\ (d * C + (o - 1)) % C = o - 1
          BY <1>2, <3>2, DivExact
        <3>4. PositionOf(k - 1) = <<chunk_s + d, o - 1>>
          BY <3>2, <3>3 DEF PositionOf
        <3>5. QED
          BY <1>4, <1>5, <1>7, <2>2, <3>4
      <2>3. QED
        BY <2>1, <2>2
    <1>8. QED
      BY <1>6, <1>7

LEMMA WalkStarts ==
    ASSUME IInv, alive, ~IsEmpty
    PROVE  /\ PopMaxIdx \in Nat /\ PopMaxIdx < Size
           /\ <<ChunkTail, OsTail>> = PositionOf(PopMaxIdx)
           /\ PositionOf(PopMaxIdx) \in Walked
    <1>1. Size \in Nat /\ Size # 0
      BY SizeType, NonEmptySize
    <1>2. PopMaxIdx \in Nat /\ PopMaxIdx < Size
      BY <1>1, FlushAssumption DEF PopMaxIdx
    <1>3. <<ChunkTail, OsTail>> = PositionOf(PopMaxIdx)
      BY DEF ChunkTail, OsTail, PositionOf
    <1>4. /\ PositionOf(PopMaxIdx) \in Position
          /\ Through(PositionOf(PopMaxIdx)) = PopMaxIdx + 1
      BY <1>2, ThroughPosition
    <1>5. \A j \in 0 .. PopMaxIdx : ~(j >= PopMaxIdx + 1)
      BY <1>2
    <1>6. PopMaxIdx \in 0 .. PopMaxIdx
      BY <1>2
    <1>7. PositionOf(PopMaxIdx) \in Walked
      BY <1>4, <1>5, <1>6 DEF Walked
    <1>8. QED
      BY <1>2, <1>3, <1>7

\* Each iteration takes the walk to the element before, until it stops.
LEMMA WalkStep ==
    ASSUME IInv, alive, ~IsEmpty, NEW p \in Walked
    PROVE  /\ WalkBody[p] \in Walked
           /\ Through(p) \in Nat /\ Through(WalkBody[p]) \in Nat
           /\ WalkBody[p] = p \/ Through(WalkBody[p]) < Through(p)
           /\ WalkBody[p] = p =>
                 InFront(p) \/ \E k \in 0 .. PopMaxIdx : p = PositionOf(k) /\ At(k) \notin Linked
    <1>1. p \in Position /\ PopMaxIdx \in Nat
      BY WalkStarts DEF Walked
    <1>2. WalkBody[p] = IF InFront(p) \/ map[p[1]][p[2]] \notin Linked THEN p ELSE Back(p)
      BY <1>1 DEF WalkBody
    <1>3. CASE InFront(p)
      BY <1>2, <1>3 DEF Through
    <1>4. CASE ~InFront(p)
      <2>1. PICK k \in 0 .. PopMaxIdx : p = PositionOf(k)
        BY <1>4 DEF Walked
      <2>2. k \in Nat
        BY <1>1
      <2>3. Through(p) = k + 1
        BY <2>1, <2>2, ThroughPosition
      <2>4. map[p[1]][p[2]] = At(k)
        BY <2>1 DEF PositionOf, At
      <2>5. \A j \in 0 .. PopMaxIdx : j >= k + 1 => At(j) \in Linked
        BY <2>3 DEF Walked
      <2>6. CASE At(k) \notin Linked
        BY <1>2, <2>1, <2>2, <2>3, <2>4, <2>6
      <2>7. CASE At(k) \in Linked
        <3>1. WalkBody[p] = Back(p)
          BY <1>2, <1>4, <2>4, <2>7
        <3>2. Back(p) \in Position /\ (InFront(Back(p)) \/ (k # 0 /\ Back(p) = PositionOf(k - 1)))
          BY <2>1, <2>2, BackOne
        <3>3. Through(Back(p)) = k
          <4>1. CASE k = 0
            <5>1. InFront(Back(p))
              BY <3>2, <4>1
            <5>2. QED
              BY <4>1, <5>1 DEF Through
          <4>2. CASE k # 0
            <5>1. Back(p) = PositionOf(k - 1) /\ k - 1 \in Nat
              BY <2>1, <2>2, <4>2, BackOne
            <5>2. QED
              BY <5>1, ThroughPosition
          <4>3. QED
            BY <4>1, <4>2
        <3>4. \A j \in 0 .. PopMaxIdx : j >= k => At(j) \in Linked
          BY <2>2, <2>5, <2>7
        <3>5. k # 0 => k - 1 \in 0 .. PopMaxIdx
          BY <1>1, <2>2
        <3>6. Back(p) \in Walked
          BY <3>2, <3>3, <3>4, <3>5 DEF Walked
        <3>7. Back(p) # p
          BY <2>2, <2>3, <3>3
        <3>8. QED
          BY <2>2, <2>3, <3>1, <3>3, <3>6, <3>7
      <2>8. QED
        BY <2>6, <2>7
    <1>5. QED
      BY <1>3, <1>4

LEMMA WalkEnds ==
    ASSUME IInv, alive, ~IsEmpty
    PROVE  WalkEnd \in Walked /\ WalkBody[WalkEnd] = WalkEnd
    <1> DEFINE s == <<ChunkTail, OsTail>>
               m == [p \in Walked |-> Through(p)]
    <1>1. s \in Walked /\ PopMaxIdx + 1 \in Nat /\ m[s] = PopMaxIdx + 1
      BY WalkStarts, ThroughPosition
    <1>2. \A p \in Walked : WalkBody[p] \in Walked
      BY WalkStep
    <1>3. m \in [Walked -> Nat]
      BY WalkStep
    <1>4. \A p \in Walked : WalkBody[p] = p \/ m[WalkBody[p]] < m[p]
      BY WalkStep
    <1> HIDE DEF s, m
    <1>5. \A n \in Nat : After(n, WalkBody, s) \in Walked
      BY <1>1, <1>2, AfterInvariant
    <1>6. \A n \in Nat : n >= m[s] => WalkBody[After(n, WalkBody, s)] = After(n, WalkBody, s)
      BY <1>1, <1>2, <1>3, <1>4, LoopEnds
    <1>7. PopMaxIdx + 1 >= m[s]
      BY <1>1
    <1>8. WalkEnd = After(PopMaxIdx + 1, WalkBody, s)
      BY DEF WalkEnd, s
    <1>9. QED
      BY <1>1, <1>5, <1>6, <1>7, <1>8

\* The walk stops at the last request that could fit the SQ and is not
\* linked, or in front of the queue when there is none.
LEMMA WalkFinds ==
    ASSUME IInv, alive, ~IsEmpty
    PROVE  Walk = Seqs!UnlinkedPrefix(Items, SqLen, Linked)
    <1> DEFINE n == Seqs!Smaller(Len(Items), SqLen)
               ends == {k \in 1 .. n : Items[k] \notin Linked}
    <1>1. /\ Size \in Nat /\ Len(Items) = Size /\ PopMaxIdx \in Nat /\ PopMaxIdx < Size
          /\ \A k \in 1 .. Size : Items[k] = At(k - 1)
      BY WalkStarts, ContentsNow DEF Contents
    <1>2. n = PopMaxIdx + 1
      BY <1>1, FlushAssumption DEF PopMaxIdx, Seqs!Smaller
    <1>3. /\ WalkEnd \in Walked
          /\ InFront(WalkEnd)
             \/ \E k \in 0 .. PopMaxIdx : WalkEnd = PositionOf(k) /\ At(k) \notin Linked
      BY WalkEnds, WalkStep
    <1>4. Walk = Through(WalkEnd)
      BY DEF Walk, Through
    <1>5. \A j \in 0 .. PopMaxIdx : j >= Walk => At(j) \in Linked
      BY <1>3, <1>4 DEF Walked
    <1>6. Seqs!UnlinkedPrefix(Items, SqLen, Linked)
              = IF ends = {} THEN 0 ELSE CHOOSE k \in ends : \A j \in ends : j <= k
      BY DEF Seqs!UnlinkedPrefix
    <1> HIDE DEF n
    <1>7. CASE InFront(WalkEnd)
      <2>1. Walk = 0
        BY <1>7 DEF Walk
      <2>2. ASSUME NEW k \in 1 .. n PROVE Items[k] \in Linked
        <3>1. k \in 1 .. Size /\ k - 1 \in 0 .. PopMaxIdx /\ k - 1 >= 0
          BY <1>1, <1>2
        <3>2. QED
          BY <1>1, <1>5, <2>1, <3>1
      <2>3. ends = {}
        BY <2>2
      <2>4. QED
        BY <1>6, <2>1, <2>3
    <1>8. CASE ~InFront(WalkEnd)
      <2>1. PICK k \in 0 .. PopMaxIdx : WalkEnd = PositionOf(k) /\ At(k) \notin Linked
        BY <1>3, <1>8
      <2>2. Walk = k + 1 /\ k \in Nat
        BY <1>1, <1>4, <2>1, ThroughPosition
      <2>3. k + 1 \in ends
        <3>1. k + 1 \in 1 .. n /\ k + 1 \in 1 .. Size /\ k + 1 - 1 = k
          BY <1>1, <1>2, <2>2
        <3>2. QED
          BY <1>1, <2>1, <3>1
      <2>4. ASSUME NEW j \in ends PROVE j <= k + 1
        <3>1. j \in 1 .. n /\ j \in 1 .. Size /\ j - 1 \in 0 .. PopMaxIdx /\ At(j - 1) \notin Linked
          BY <1>1, <1>2
        <3>2. ~(j - 1 >= k + 1)
          BY <1>5, <2>2, <3>1
        <3>3. QED
          BY <2>2, <3>1, <3>2
      <2>5. ends \subseteq Nat
        BY <1>1, <1>2
      <2> HIDE DEF ends
      <2>6. (CHOOSE x \in ends : \A j \in ends : j <= x) = k + 1
        <3> DEFINE c == CHOOSE x \in ends : \A j \in ends : j <= x
        <3>1. c \in ends /\ \A j \in ends : j <= c
          BY <2>3, <2>4
        <3>2. c <= k + 1 /\ k + 1 <= c
          BY <2>3, <2>4, <3>1
        <3>3. c \in Nat
          BY <2>5, <3>1
        <3>4. QED
          BY <2>2, <3>2, <3>3
      <2>7. QED
        BY <1>6, <2>2, <2>3, <2>6
    <1>9. QED
      BY <1>7, <1>8

\* The walk over the chunks of the overflow queue finds the prefix by which
\* the loop flushes, wherever the queue lies in its map.
THEOREM FlushFindsPrefix == Spec => []WalkIsUnlinkedPrefix
    <1>1. IInv => WalkIsUnlinkedPrefix
      BY WalkFinds DEF WalkIsUnlinkedPrefix
    <1>2. QED
      BY <1>1, QueInvariant, PTL

----------------------------------------------------------------------------
(* pop_to's loop: PopToIsTheLoop *)

\* What pop_to of a block of n leaves and copies.
Popped(s, n) ==
    IF Size < n
    THEN s.cs = 0 /\ s.os = 0 /\ s.ce = 0 /\ s.oe = 0 /\ s.sz = Size
    ELSE /\ s.ce = chunk_e /\ s.oe = os_e /\ s.sz = n
         /\ IF BlockEnd(n) = chunk_e THEN s.cs = chunk_e /\ s.os = os_e
            ELSE s.cs = BlockEnd(n) + 1 /\ s.os = 0

\* Before it returns the loop stands at the front or at the beginning of a
\* later chunk, and has copied what lies before it.
Taking(s, n) ==
    /\ s.ce = chunk_e /\ s.oe = os_e
    /\ s.cs >= chunk_s /\ s.cs <= chunk_e
    /\ s.os = (IF s.cs = chunk_s THEN os_s ELSE 0)
    /\ s.sz = (s.cs - chunk_s) * C + s.os - os_s
    /\ s.blk = n - s.sz /\ s.blk > 0

Pops(n) == {s \in Popping : IF s.done THEN Popped(s, n) ELSE Taking(s, n)}

\* What is left, in terms of the chunk the loop stands in.
LEMMA TakingSize ==
    ASSUME IInv, alive, NEW n \in Nat \ {0}, NEW s \in Pops(n), ~s.done
    PROVE  /\ s \in Popping /\ Taking(s, n)
           /\ s.cs = chunk_e => s.os <= os_e /\ Size = s.sz + (os_e - s.os)
           /\ s.cs # chunk_e => s.cs + 1 <= chunk_e /\ Size >= s.sz + (C - s.os)
           /\ (os_s + n - 1) = (s.cs - chunk_s) * C + (s.os + s.blk - 1)
           /\ s.cs - chunk_s \in Nat /\ (s.cs - chunk_s) * C \in Nat
    <1>1. s \in Popping /\ Taking(s, n)
      BY DEF Pops
    <1>2. /\ C \in Nat \ {0} /\ chunk_s \in Nat /\ chunk_e \in Nat /\ os_s \in Nat /\ os_e \in Nat
          /\ os_s < C /\ os_e < C
          /\ s.cs \in Nat /\ s.os \in Nat /\ s.os < C /\ s.blk \in Nat /\ s.sz \in Nat
      BY <1>1, Facts DEF Popping, Offset
    <1>3. Size = (chunk_e - chunk_s) * C + (os_e - os_s)
      BY SizeType
    <1>4. PICK a \in Nat : s.cs = chunk_s + a
      <2>1. s.cs >= chunk_s
        BY <1>1 DEF Taking
      <2>2. s.cs - chunk_s \in Nat /\ s.cs = chunk_s + (s.cs - chunk_s)
        BY <1>2, <2>1
      <2>3. QED
        BY <2>2
    <1>5. a * C \in Nat /\ (s.cs - chunk_s) * C = a * C
      BY <1>2, <1>4
    <1>6. s.sz = a * C + s.os - os_s /\ s.blk = n - s.sz
      BY <1>1, <1>5 DEF Taking
    <1>7. CASE s.cs = chunk_e
      <2>1. (chunk_e - chunk_s) * C = a * C
        BY <1>5, <1>7
      <2>2. s.os <= os_e
        BY <1>1, <1>2, <1>7 DEF Taking, IInv, InBounds
      <2>3. Size = s.sz + (os_e - s.os)
        <3>1. Size = a * C + (os_e - os_s)
          BY <1>3, <2>1
        <3>2. QED
          BY <1>2, <1>5, <1>6, <3>1
      <2>4. QED
        BY <1>1, <1>2, <1>4, <1>5, <1>6, <1>7, <2>2, <2>3
    <1>8. CASE s.cs # chunk_e
      <2>1. s.cs + 1 <= chunk_e
        <3>1. s.cs <= chunk_e
          BY <1>1 DEF Taking
        <3>2. QED
          BY <1>2, <1>8, <3>1
      <2>2. PICK b \in Nat : chunk_e = s.cs + 1 + b
        <3>1. chunk_e - s.cs - 1 \in Nat /\ chunk_e = s.cs + 1 + (chunk_e - s.cs - 1)
          BY <1>2, <2>1
        <3>2. QED
          BY <3>1
      <2>3. chunk_e - chunk_s = a + 1 + b
        BY <1>2, <1>4, <2>2
      <2>4. (a + 1 + b) * C = a * C + C + b * C /\ b * C \in Nat
        BY <1>2
      <2>5. Size = a * C + C + b * C + (os_e - os_s)
        BY <1>3, <2>3, <2>4
      <2>6. Size >= s.sz + (C - s.os)
        BY <1>2, <1>5, <1>6, <2>4, <2>5
      <2>7. QED
        BY <1>1, <1>2, <1>4, <1>5, <1>6, <1>8, <2>1, <2>6
    <1>9. QED
      BY <1>7, <1>8

\* The iteration that returns, or takes a chunk.
LEMMA PopStep ==
    ASSUME IInv, alive, NEW n \in Nat \ {0}, NEW s \in Pops(n), ~s.done
    PROVE  /\ PopBody[s] \in Pops(n)
           /\ PopBody[s].done \/ (s.cs # chunk_e /\ PopBody[s].cs = s.cs + 1)
    <1> DEFINE span == IF s.ce = s.cs THEN s.oe - s.os ELSE C - s.os
               nextOs == (s.os + span) % C
               nextCs == IF nextOs = 0 THEN s.cs + 1 ELSE s.cs
               emptied == [s EXCEPT !.cs = 0, !.os = 0, !.ce = 0, !.oe = 0, !.done = TRUE]
               t == PopBody[s]
    <1>1. /\ s \in Popping /\ Taking(s, n)
          /\ s.cs = chunk_e => s.os <= os_e /\ Size = s.sz + (os_e - s.os)
          /\ s.cs # chunk_e => s.cs + 1 <= chunk_e /\ Size >= s.sz + (C - s.os)
          /\ (os_s + n - 1) = (s.cs - chunk_s) * C + (s.os + s.blk - 1)
          /\ s.cs - chunk_s \in Nat /\ (s.cs - chunk_s) * C \in Nat
      BY TakingSize
    <1>2. /\ C \in Nat \ {0} /\ chunk_s \in Nat /\ chunk_e \in Nat /\ os_s \in Nat /\ os_e \in Nat
          /\ os_s < C /\ os_e < C /\ 0 \in Offset /\ os_e \in Offset
          /\ s.cs \in Nat /\ s.os \in Nat /\ s.os < C /\ s.blk \in Nat /\ s.sz \in Nat
          /\ s.ce = chunk_e /\ s.oe = os_e /\ s.blk = n - s.sz /\ s.blk > 0
      <2>1. s \in Popping /\ Taking(s, n)
        BY <1>1
      <2>2. /\ s.cs \in Nat /\ s.os \in Offset /\ s.blk \in Nat /\ s.sz \in Nat
            /\ s.ce = chunk_e /\ s.oe = os_e /\ s.blk = n - s.sz /\ s.blk > 0
        BY <2>1 DEF Popping, Taking
      <2>3. QED
        BY <2>2, Facts DEF Offset
    <1>3. t = IF s.ce = s.cs /\ span = 0 THEN emptied
              ELSE IF span >= s.blk
              THEN [s EXCEPT !.cs = nextCs, !.os = nextOs, !.sz = @ + s.blk, !.done = TRUE]
              ELSE IF nextOs # 0 THEN [emptied EXCEPT !.sz = @ + span]
              ELSE [s EXCEPT !.cs = nextCs, !.os = nextOs, !.blk = @ - span, !.sz = @ + span]
      BY <1>1 DEF PopBody
    <1> HIDE DEF t
    <1>4. s.os + s.blk - 1 < C => BlockEnd(n) = s.cs
      <2>1. SUFFICES ASSUME s.os + s.blk - 1 < C PROVE BlockEnd(n) = s.cs
        OBVIOUS
      <2>2. s.os + s.blk - 1 \in Offset
        BY <1>2, <2>1 DEF Offset
      <2>3. ((s.cs - chunk_s) * C + (s.os + s.blk - 1)) \div C = s.cs - chunk_s
        BY <1>1, <2>2, DivExact
      <2>4. BlockEnd(n) = chunk_s + (s.cs - chunk_s)
        BY <1>1, <2>3 DEF BlockEnd
      <2>5. QED
        BY <1>2, <2>4
    <1>5. CASE s.cs = chunk_e
      <2>1. span = os_e - s.os /\ span \in Nat /\ s.os + span = os_e
        BY <1>1, <1>2, <1>5
      <2>2. os_e % C = os_e
        <3>1. (0 * C + os_e) % C = os_e /\ 0 * C + os_e = os_e
          BY <1>2, DivExact
        <3>2. QED
          BY <3>1
      <2>3. nextOs = os_e
        BY <2>1, <2>2
      <2> HIDE DEF span, nextOs, t
      <2>4. CASE span = 0
        <3>1. t = emptied
          BY <1>2, <1>3, <1>5, <2>4
        <3>2. t \in Popping /\ t.done
          BY <1>1, <1>2, <3>1 DEF Popping
        <3>3. Size = s.sz /\ Size < n
          <4>1. Size = s.sz + span
            BY <1>1, <1>5, <2>1
          <4>2. QED
            BY <1>2, <2>4, <4>1
        <3>4. t.cs = 0 /\ t.os = 0 /\ t.ce = 0 /\ t.oe = 0 /\ t.sz = s.sz
          BY <1>1, <3>1 DEF Popping
        <3>5. QED
          BY <3>2, <3>3, <3>4 DEF Pops, Popped, t
      <2>5. CASE span # 0 /\ span >= s.blk
        <3>1. nextOs # 0 /\ nextCs = s.cs
          BY <1>2, <2>1, <2>3, <2>5
        <3>2. t = [s EXCEPT !.cs = s.cs, !.os = os_e, !.sz = s.sz + s.blk, !.done = TRUE]
          BY <1>3, <2>3, <2>5, <3>1
        <3>3. /\ t \in Popping /\ t.done /\ t.cs = chunk_e /\ t.os = os_e /\ t.sz = n
              /\ t.ce = chunk_e /\ t.oe = os_e
          <4>1. s \in Popping /\ s.sz + s.blk = n /\ n \in Nat
            BY <1>1, <1>2
          <4>2. QED
            BY <1>2, <1>5, <3>2, <4>1 DEF Popping
        <3>4. ~(Size < n) /\ BlockEnd(n) = chunk_e
          BY <1>1, <1>2, <1>4, <1>5, <2>1, <2>5
        <3>5. QED
          BY <3>3, <3>4 DEF Pops, Popped, t
      <2>6. CASE span # 0 /\ ~(span >= s.blk)
        <3>1. nextOs # 0
          BY <1>2, <2>1, <2>3, <2>6
        <3>2. t = [emptied EXCEPT !.sz = s.sz + span]
          BY <1>1, <1>3, <2>6, <3>1 DEF Popping
        <3>3. Size = s.sz + span /\ Size < n
          BY <1>1, <1>2, <1>5, <2>1, <2>6
        <3>4. /\ t \in Popping /\ t.done
              /\ t.cs = 0 /\ t.os = 0 /\ t.ce = 0 /\ t.oe = 0 /\ t.sz = Size
          <4>1. s \in Popping /\ s.sz + span \in Nat
            BY <1>1, <1>2, <2>1
          <4>2. QED
            BY <1>2, <3>2, <3>3, <4>1 DEF Popping, emptied
        <3>5. QED
          BY <3>3, <3>4 DEF Pops, Popped, t
      <2>7. QED
        BY <2>4, <2>5, <2>6
    <1>6. CASE s.cs # chunk_e
      <2>1. span = C - s.os /\ span \in Nat /\ span > 0 /\ s.os + span = C
        BY <1>1, <1>2, <1>6
      <2>2. C % C = 0
        <3>1. (1 * C + 0) % C = 0 /\ 1 * C + 0 = C
          BY <1>2, DivExact
        <3>2. QED
          BY <3>1
      <2>3. nextOs = 0 /\ nextCs = s.cs + 1
        BY <2>1, <2>2
      <2> HIDE DEF span, nextOs, nextCs, t
      <2>4. CASE span >= s.blk
        <3>1. t = [s EXCEPT !.cs = s.cs + 1, !.os = 0, !.sz = s.sz + s.blk, !.done = TRUE]
          BY <1>2, <1>3, <1>6, <2>3, <2>4
        <3>2. /\ t \in Popping /\ t.done /\ t.cs = s.cs + 1 /\ t.os = 0 /\ t.sz = n
              /\ t.ce = chunk_e /\ t.oe = os_e
          <4>1. /\ s \in Popping /\ s.sz + s.blk = n /\ n \in Nat /\ s.cs + 1 \in Nat
                /\ 0 \in Offset /\ s.ce = chunk_e /\ s.oe = os_e
            BY <1>1, <1>2
          <4>2. QED
            BY <3>1, <4>1 DEF Popping
        <3>3. ~(Size < n) /\ BlockEnd(n) = s.cs
          <4>1. Size \in Nat
            BY SizeType
          <4>2. QED
            BY <1>1, <1>2, <1>4, <1>6, <2>1, <2>4, <4>1
        <3>4. QED
          BY <1>6, <3>2, <3>3 DEF Pops, Popped, t
      <2>5. CASE ~(span >= s.blk)
        <3>1. t = [s EXCEPT !.cs = s.cs + 1, !.os = 0, !.blk = s.blk - span, !.sz = s.sz + span]
          BY <1>1, <1>2, <1>3, <1>6, <2>3, <2>5 DEF Popping
        <3>2. s.blk - span \in Nat /\ s.blk - span > 0
          BY <1>2, <2>1, <2>5
        <3>3. /\ t \in Popping /\ ~t.done /\ t.cs = s.cs + 1 /\ t.os = 0
              /\ t.ce = chunk_e /\ t.oe = os_e
              /\ t.sz = s.sz + span /\ t.blk = s.blk - span
          <4>1. /\ s \in Popping /\ s.sz + span \in Nat /\ s.cs + 1 \in Nat /\ ~s.done
                /\ 0 \in Offset /\ s.ce = chunk_e /\ s.oe = os_e
            BY <1>1, <1>2, <2>1
          <4>2. QED
            BY <3>1, <3>2, <4>1 DEF Popping
        <3>4. t.sz = (t.cs - chunk_s) * C + t.os - os_s
          <4>1. PICK a \in Nat : s.cs = chunk_s + a
            <5>1. s.cs - chunk_s \in Nat
              BY <1>1
            <5>2. s.cs = chunk_s + (s.cs - chunk_s)
              BY <1>2
            <5>3. QED
              BY <5>1, <5>2
          <4>2. /\ (s.cs - chunk_s) * C = a * C /\ t.cs - chunk_s = a + 1
                /\ a * C \in Nat /\ (a + 1) * C = a * C + C
            BY <1>2, <3>3, <4>1
          <4>3. s.sz = a * C + s.os - os_s
            BY <1>1, <4>2 DEF Taking
          <4>4. (t.cs - chunk_s) * C = a * C + C
            BY <4>2
          <4>5. QED
            BY <1>2, <2>1, <3>3, <4>2, <4>3, <4>4
        <3>5. t.cs # chunk_s /\ t.cs >= chunk_s /\ t.cs <= chunk_e
          <4>1. s.cs >= chunk_s /\ s.cs + 1 <= chunk_e
            BY <1>1, <1>6 DEF Taking
          <4>2. QED
            BY <1>2, <3>3, <4>1
        <3>6. t.blk = n - t.sz /\ t.blk > 0
          BY <1>2, <2>1, <3>2, <3>3
        <3>7. Taking(t, n)
          BY <3>3, <3>4, <3>5, <3>6 DEF Taking
        <3>8. QED
          BY <1>6, <3>3, <3>7 DEF Pops, t
      <2>6. QED
        BY <2>4, <2>5
    <1>7. QED
      BY <1>5, <1>6

LEMMA PopEnds ==
    ASSUME IInv, alive, NEW n \in Nat \ {0}
    PROVE  PopLoop(n) \in Pops(n) /\ PopLoop(n).done
    <1> DEFINE s == [cs |-> chunk_s, os |-> os_s, ce |-> chunk_e, oe |-> os_e,
                     blk |-> n, sz |-> 0, done |-> FALSE]
               T == Pops(n)
               m == [x \in T |-> IF x.done THEN 0 ELSE chunk_e - x.cs + 1]
               N == chunk_e - chunk_s + 2
    <1>1. /\ C \in Nat \ {0} /\ chunk_s \in Nat /\ chunk_e \in Nat /\ os_s \in Nat
          /\ os_s \in Offset /\ os_e \in Offset /\ chunk_s <= chunk_e
      BY Facts DEF IInv, InBounds
    <1>2. s \in T
      <2>1. (chunk_s - chunk_s) * C = 0
        BY <1>1
      <2>2. Taking(s, n)
        BY <1>1, <2>1 DEF Taking
      <2>3. s \in Popping
        BY <1>1 DEF Popping
      <2>4. QED
        BY <2>2, <2>3 DEF Pops
    <1>3. \A x \in T : x.done => PopBody[x] = x
      BY DEF Pops, PopBody
    <1>4. \A x \in T : ~x.done => /\ PopBody[x] \in T
                                  /\ PopBody[x].done \/ (x.cs # chunk_e /\ PopBody[x].cs = x.cs + 1)
      BY PopStep
    <1>5. \A x \in T : ~x.done => x.cs \in Nat /\ x.cs <= chunk_e
      BY DEF Pops, Popping, Taking
    <1>6. m[s] = chunk_e - chunk_s + 1
      BY <1>2
    <1>7. m \in [T -> Nat]
      <2>1. ASSUME NEW x \in T PROVE (IF x.done THEN 0 ELSE chunk_e - x.cs + 1) \in Nat
        BY <1>1, <1>5
      <2>2. QED
        BY <2>1
    <1>8. ASSUME NEW x \in T
          PROVE  /\ PopBody[x] \in T
                 /\ PopBody[x] = x \/ m[PopBody[x]] < m[x]
                 /\ PopBody[x] = x => x.done
      <2>1. CASE x.done
        BY <1>3, <2>1
      <2>2. CASE ~x.done
        <3>1. PopBody[x] \in T /\ x.cs \in Nat /\ x.cs <= chunk_e
          BY <1>4, <1>5, <2>2
        <3>2. m[x] = chunk_e - x.cs + 1
          BY <2>2
        <3>3. CASE PopBody[x].done
          <4>1. m[PopBody[x]] = 0
            BY <3>1, <3>3
          <4>2. QED
            BY <1>1, <2>2, <3>1, <3>2, <3>3, <4>1
        <3>4. CASE ~PopBody[x].done
          <4>1. x.cs # chunk_e /\ PopBody[x].cs = x.cs + 1
            BY <1>4, <2>2, <3>4
          <4>2. m[PopBody[x]] = chunk_e - (x.cs + 1) + 1
            BY <3>1, <3>4, <4>1
          <4>3. QED
            BY <1>1, <3>1, <3>2, <4>1, <4>2
        <3>5. QED
          BY <3>3, <3>4
      <2>3. QED
        BY <2>1, <2>2
    <1>9. N \in Nat /\ N >= m[s]
      BY <1>1, <1>6
    <1> HIDE DEF s, T, m
    <1>10. \A k \in Nat : After(k, PopBody, s) \in T
      BY <1>2, <1>8, AfterInvariant
    <1>11. \A k \in Nat : k >= m[s] => PopBody[After(k, PopBody, s)] = After(k, PopBody, s)
      BY <1>2, <1>7, <1>8, LoopEnds
    <1>12. PopLoop(n) = After(N, PopBody, s)
      BY DEF PopLoop, s
    <1>13. QED
      BY <1>8, <1>9, <1>10, <1>11, <1>12 DEF T

LEMMA PopToLoops ==
    ASSUME IInv, NEW n \in 1 .. MaxBlk, PopTo(n)
    PROVE  /\ PopLoop(n).done
           /\ chunk_s' = PopLoop(n).cs /\ os_s' = PopLoop(n).os
           /\ chunk_e' = PopLoop(n).ce /\ os_e' = PopLoop(n).oe
           /\ Len(out') = PopLoop(n).sz
    <1>1. alive /\ n \in Nat \ {0}
      BY DEF PopTo
    <1>2. PopLoop(n).done /\ Popped(PopLoop(n), n)
      BY <1>1, PopEnds DEF Pops
    <1>3. Size \in Nat /\ Items \in Seq(Entry) /\ Len(Items) = Size
      BY <1>1, ContentsNow DEF Contents
    <1>4. CASE Size < n
      BY <1>2, <1>3, <1>4 DEF PopTo, Popped
    <1>5. CASE ~(Size < n)
      <2>1. out' = SubSeq(Items, 1, n)
        BY <1>5 DEF PopTo
      <2>2. Len(out') = n
        BY <1>1, <1>3, <1>5, <2>1
      <2>3. QED
        BY <1>2, <1>5, <2>2 DEF PopTo, Popped
    <1>6. QED
      BY <1>4, <1>5

\* The loop of pop_to, however the queue lies in its chunks, returns, moves
\* the indices and copies as the closed form does that everything else uses.
THEOREM BlockPopLoops == Spec => PopToIsTheLoop
    <1>1. IInv /\ [Next]_vars =>
              [\A n \in 1 .. MaxBlk :
                  PopTo(n) =>
                      /\ PopLoop(n).done
                      /\ chunk_s' = PopLoop(n).cs /\ os_s' = PopLoop(n).os
                      /\ chunk_e' = PopLoop(n).ce /\ os_e' = PopLoop(n).oe
                      /\ Len(out') = PopLoop(n).sz]_vars
      BY PopToLoops
    <1>2. QED
      BY <1>1, QueInvariant, PTL DEF Spec, PopToIsTheLoop
=============================================================================
