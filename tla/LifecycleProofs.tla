-------------------------- MODULE LifecycleProofs --------------------------
(***************************************************************************)
(* Proofs about FileTable for every table length, size of a bitmap element *)
(* and set of descriptors: xreg's bitmap, its table, the kernel's table    *)
(* and the handles of the callers stay in agreement.  About Lifecycle:     *)
(* they do so through every creation, failed creation and deletion of the  *)
(* loop, and lnew does not fall to a filter that was there when the table  *)
(* was set up.  And about FileScan: the closed forms by which FileTable    *)
(* models the scan of xreg are what its two loops do.                      *)
(***************************************************************************)
EXTENDS Lifecycle, FileScan, LoopFacts, FiniteSetTheorems, TLAPS

(***************************************************************************)
(* One table.                                                              *)
(***************************************************************************)

\* A handle is a slot of the table, until a store strays.
HandlesInTable == ~stray => \A f \in Owned : handle[f] \in Slot

TInv == TypeOK /\ HandlesInTable /\ SlotsOwned /\ KernelAgrees

----------------------------------------------------------------------------

\* The bits of the last element reach past the table, not short of it.
LEMMA SlotsHaveBits ==
    ASSUME NEW n \in Nat
    PROVE  /\ BitsOf(n) \subseteq Nat
           /\ 0 .. n - 1 \subseteq BitsOf(n)
           /\ IsFiniteSet(BitsOf(n))
           /\ BitsOf(0) = {}
    <1> DEFINE q == (n + Bits - 1) \div Bits
               r == (n + Bits - 1) % Bits
    <1>1. Bits \in Nat \ {0}
      BY FileTableAssumption
    <1>2. q \in Nat /\ r \in 0 .. Bits - 1 /\ n + Bits - 1 = Bits * q + r
      BY <1>1
    <1>3. BitsOf(n) = 0 .. q * Bits - 1
      BY DEF BitsOf
    <1> HIDE DEF q, r
    <1>4. q * Bits = Bits * q /\ q * Bits \in Nat
      BY <1>1, <1>2
    <1>5. q * Bits >= n
      BY <1>1, <1>2, <1>4
    <1>6. IsFiniteSet(BitsOf(n))
      BY <1>3, <1>4, FS_Interval
    <1>7. BitsOf(0) = {}
      <2>1. (0 + Bits - 1) \div Bits = 0
        BY <1>1
      <2>2. BitsOf(0) = 0 .. 0 * Bits - 1
        BY <2>1 DEF BitsOf
      <2>3. QED
        BY <1>1, <2>2
    <1>8. QED
      BY <1>3, <1>4, <1>5, <1>6, <1>7

LEMMA TableFacts ==
    ASSUME TypeOK
    PROVE  /\ filetable_len \in Nat
           /\ Slot = 0 .. filetable_len - 1
           /\ Slot \subseteq Bit /\ Bit \subseteq Nat /\ IsFiniteSet(Bit)
           /\ filetable_len = 0 => Bit = {}
           /\ NoFd \notin Fd /\ Inval \notin Bit /\ Unset \notin Bit
    <1>1. filetable_len \in Nat
      BY FileTableAssumption DEF TypeOK
    <1>2. QED
      BY <1>1, SlotsHaveBits, FileTableAssumption DEF Slot, Bit

\* What one call picks: different free bits, each the lowest of its element,
\* for the first of the descriptors.
LEMMA PicksType ==
    ASSUME TypeOK, NEW n \in Nat, NEW p \in Picks(n)
    PROVE  /\ DOMAIN p \subseteq 1 .. n
           /\ \A k \in DOMAIN p : p[k] \in LowestFree /\ p[k] \in filetable_bitmap
           /\ \A j, k \in DOMAIN p : p[j] = p[k] => j = k
    <1>1. LowestFree \subseteq filetable_bitmap /\ filetable_bitmap \subseteq Bit
      BY DEF TypeOK, LowestFree
    <1>2. Cardinality(LowestFree) \in Nat
      BY <1>1, TableFacts, FS_Subset, FS_CardinalityType
    <1> DEFINE m == IF n < Cardinality(LowestFree) THEN n ELSE Cardinality(LowestFree)
    <1>3. m \in Nat /\ m <= n
      BY <1>2
    <1>4. /\ p \in [1 .. m -> LowestFree]
          /\ \A j, k \in DOMAIN p : j < k => p[j] < p[k]
      BY DEF Picks
    <1> HIDE DEF m
    <1>5. ASSUME NEW j \in DOMAIN p, NEW k \in DOMAIN p, p[j] = p[k] PROVE j = k
      <2>1. j \in Nat /\ k \in Nat /\ p[j] \in Nat
        BY <1>1, <1>3, <1>4, TableFacts
      <2>2. ~(j < k) /\ ~(k < j)
        BY <1>4, <1>5, <2>1
      <2>3. QED
        BY <2>1, <2>2
    <1>6. QED
      BY <1>1, <1>3, <1>4, <1>5

\* The arguments of xreg: each descriptor once, none with a handle.
LEMMA ArgsType ==
    ASSUME NEW s \in ArgSeqs, Args(s)
    PROVE  /\ Len(s) \in Nat /\ DOMAIN s = 1 .. Len(s)
           /\ \A k \in DOMAIN s : s[k] \in Fd /\ handle[s[k]] \notin Bit
           /\ \A j, k \in DOMAIN s : s[j] = s[k] => j = k
    <1>1. PICK n \in 1 .. MaxArgs : s \in [1 .. n -> Fd]
      BY DEF ArgSeqs
    <1>2. n \in Nat
      BY FileTableAssumption
    <1>3. Len(s) = n
      BY <1>1, <1>2
    <1>4. QED
      BY <1>1, <1>2, <1>3 DEF Args, IsInjective

\* What the kernel has when an update stops at entry k.
LEMMA UpdatedToIs ==
    ASSUME NEW table \in [Slot -> Fd \cup {NoFd}], files \in [Slot -> Fd \cup {NoFd}],
           NEW k \in Slot, NEW g \in UpdatedTo(table, k)
    PROVE  /\ g \in [Slot -> Fd \cup {NoFd}]
           /\ \A i \in Slot : i < k => g[i] = table[i]
           /\ \A i \in Slot : ~(i < k) /\ i # k => g[i] = files[i]
    <1>1. PICK f \in {files[k]} \cup (IF table[k] # NoFd THEN {NoFd} ELSE {}) :
              g = [i \in Slot |-> IF i < k THEN table[i] ELSE IF i = k THEN f ELSE files[i]]
      BY DEF UpdatedTo
    <1>2. f \in Fd \cup {NoFd}
      BY <1>1
    <1>3. QED
      BY <1>1, <1>2

\* An update that xreg takes for done, whether it was complete or not: the
\* kernel is behind only where the history says so.
LEMMA AcceptedFollows ==
    ASSUME TypeOK, KernelAgrees, ~stray' => ~stray, Slot' = Slot, lost' = lost,
           filetable' \in [Slot -> Fd \cup {NoFd}], NEW n, NEW changed,
           \A i \in Slot \ changed : filetable'[i] = filetable[i],
           Accepted(filetable', n, changed)
    PROVE  /\ files' \in [Slot -> Fd \cup {NoFd}] /\ behind' \subseteq Slot
           /\ KernelAgrees'
    <1>1. CASE files' = Updated(filetable', n) /\ behind' = {}
      BY <1>1 DEF Updated, KernelAgrees
    <1>2. ASSUME NEW k \in StopsAt(filetable') \ {0}, files' \in UpdatedTo(filetable', k),
                 behind' = {i \in Slot : i = k \/ (i > k /\ i \in behind \cup changed)}
          PROVE  /\ files' \in [Slot -> Fd \cup {NoFd}] /\ behind' \subseteq Slot
                 /\ KernelAgrees'
      <2>1. k \in Slot /\ files \in [Slot -> Fd \cup {NoFd}] /\ Slot \subseteq Nat
        BY TableFacts DEF StopsAt, TypeOK
      <2>2. /\ files' \in [Slot -> Fd \cup {NoFd}]
            /\ \A i \in Slot : i < k => files'[i] = filetable'[i]
            /\ \A i \in Slot : ~(i < k) /\ i # k => files'[i] = files[i]
        BY <1>2, <2>1, UpdatedToIs
      <2>3. ASSUME ~stray', NEW i \in Slot \ behind', files'[i] # filetable'[i]
            PROVE  i \in lost' /\ filetable'[i] = NoFd
        <3>1. i > k /\ i \notin behind \cup changed
          <4>1. ~(i < k) /\ i # k /\ i \in Nat /\ k \in Nat
            BY <1>2, <2>1, <2>2, <2>3
          <4>2. i > k
            BY <4>1
          <4>3. QED
            BY <1>2, <2>3, <4>2
        <3>2. files'[i] = files[i] /\ filetable'[i] = filetable[i]
          BY <2>1, <2>2, <3>1
        <3>3. QED
          BY <2>3, <3>1, <3>2 DEF KernelAgrees
      <2>4. QED
        BY <1>2, <2>2, <2>3 DEF KernelAgrees
    <1>3. QED
      BY <1>1, <1>2 DEF Accepted

\* A refused update: the kernel has changed at most the first entry.
LEMMA RefusedKeeps ==
    ASSUME TypeOK, NEW table \in [Slot -> Fd \cup {NoFd}], Refused(table)
    PROVE  /\ files' \in [Slot -> Fd \cup {NoFd}]
           /\ behind \subseteq behind' /\ behind' \subseteq Slot
           /\ \A i \in Slot \ behind' : files'[i] = files[i]
    <1>1. files \in [Slot -> Fd \cup {NoFd}] /\ behind \subseteq Slot /\ Slot \subseteq Nat
      BY TableFacts DEF TypeOK
    <1>2. CASE UNCHANGED <<files, behind>>
      BY <1>1, <1>2
    <1>3. CASE 0 \in StopsAt(table) /\ files' \in UpdatedTo(table, 0) /\ behind' = behind \cup {0}
      <2>1. 0 \in Slot
        BY <1>3 DEF StopsAt
      <2>2. /\ files' \in [Slot -> Fd \cup {NoFd}]
            /\ \A i \in Slot : ~(i < 0) /\ i # 0 => files'[i] = files[i]
        BY <1>1, <1>3, <2>1, UpdatedToIs
      <2>3. \A i \in Slot : ~(i < 0)
        BY <1>1
      <2>4. QED
        BY <1>1, <1>3, <2>1, <2>2, <2>3
    <1>4. QED
      BY <1>2, <1>3 DEF Refused

----------------------------------------------------------------------------

THEOREM InitTInv == Init => TInv
    <1> SUFFICES ASSUME Init PROVE TInv
      OBVIOUS
    <1>1. filetable_len \in 0 .. MaxFiles
      BY FileTableAssumption DEF Init
    <1>2. TypeOK
      BY <1>1 DEF Init, TypeOK
    <1>3. Owned = {}
      BY <1>2, TableFacts DEF Init, Owned
    <1>4. QED
      BY <1>2, <1>3 DEF Init, TInv, HandlesInTable, SlotsOwned, KernelAgrees

LEMMA RegNoTableTInv == ASSUME NEW s \in ArgSeqs PROVE TInv /\ RegNoTable(s) => TInv'
    <1> SUFFICES ASSUME TInv, RegNoTable(s) PROVE TInv'
      OBVIOUS
    <1>1. TypeOK /\ filetable_len = 0
      BY DEF TInv, RegNoTable
    <1>2. /\ UNCHANGED <<filetable, filetable_bitmap, filetable_len, files, claimed, lost, behind,
                         stray>>
          /\ handle' = [f \in Fd |-> IF f \in Range(s) THEN Inval ELSE handle[f]]
      BY DEF RegNoTable
    <1>3. Slot' = Slot /\ Bit' = Bit /\ Bit = {} /\ Slot = {}
      BY <1>1, <1>2, TableFacts DEF Slot, Bit
    <1>4. TypeOK'
      BY <1>1, <1>2, <1>3 DEF TypeOK
    <1>5. Owned = {} /\ Owned' = {}
      BY <1>3 DEF Owned
    <1>6. QED
      BY <1>2, <1>3, <1>4, <1>5 DEF TInv, HandlesInTable, SlotsOwned, KernelAgrees

\* A registration: what is picked leaves the bitmap and becomes the handle of
\* one descriptor each.
LEMMA RegFilesTInv == ASSUME NEW s \in ArgSeqs PROVE TInv /\ RegFiles(s) => TInv'
    <1> SUFFICES ASSUME TInv, RegFiles(s) PROVE TInv'
      OBVIOUS
    <1> USE DEF Range
    <1>1. TypeOK /\ Args(s)
      BY DEF TInv, RegFiles
    <1>2. PICK p \in Picks(Len(s)) :
              /\ filetable_bitmap' = filetable_bitmap \ Range(p)
              /\ filetable' = Filled(s, p)
              /\ Accepted(filetable', Len(s), Range(p))
              /\ handle' = Handed(s, p)
              /\ stray' = (stray \/ ~(Range(p) \subseteq Slot))
      BY DEF RegFiles
    <1>3. claimed' = claimed \cup Range(s) /\ UNCHANGED <<filetable_len, lost>>
      BY DEF RegFiles
    <1>4. Slot' = Slot /\ Bit' = Bit
      BY <1>3 DEF Slot, Bit
    <1>5. /\ Slot \subseteq Bit /\ Bit \subseteq Nat /\ NoFd \notin Fd
          /\ Inval \notin Bit /\ Unset \notin Bit
      BY <1>1, TableFacts
    <1>6. /\ DOMAIN s = 1 .. Len(s) /\ Len(s) \in Nat
          /\ \A k \in DOMAIN s : s[k] \in Fd /\ handle[s[k]] \notin Bit
          /\ \A j, k \in DOMAIN s : s[j] = s[k] => j = k
      BY <1>1, ArgsType
    <1>7. /\ DOMAIN p \subseteq DOMAIN s
          /\ \A k \in DOMAIN p : p[k] \in filetable_bitmap
          /\ \A j, k \in DOMAIN p : p[j] = p[k] => j = k
      BY <1>1, <1>6, PicksType
    <1>8. filetable_bitmap \subseteq Bit /\ handle \in [Fd -> Bit \cup {Inval, Unset}]
      BY <1>1 DEF TypeOK
    \* Each new handle and each new entry of the table.
    <1>9. ASSUME NEW k \in DOMAIN p
          PROVE  handle'[s[k]] = p[k] /\ (p[k] \in Slot => filetable'[p[k]] = s[k])
      <2>1. (CHOOSE j \in DOMAIN p : s[j] = s[k]) = k
        BY <1>6, <1>7
      <2>2. (CHOOSE j \in DOMAIN p : p[j] = p[k]) = k
        BY <1>7
      <2>3. handle'[s[k]] = p[CHOOSE j \in DOMAIN p : s[j] = s[k]]
        BY <1>2, <1>6, <1>7 DEF Handed
      <2>4. p[k] \in Slot => filetable'[p[k]] = s[CHOOSE j \in DOMAIN p : p[j] = p[k]]
        BY <1>2 DEF Filled
      <2>5. QED
        BY <2>1, <2>2, <2>3, <2>4
    <1>10. \A f \in Fd : (\A k \in DOMAIN p : s[k] # f) => handle'[f] = handle[f]
      BY <1>2 DEF Handed
    <1>11. \A i \in Slot : (\A k \in DOMAIN p : p[k] # i) => filetable'[i] = filetable[i]
      BY <1>2 DEF Filled
    <1>12. TypeOK' /\ KernelAgrees'
      <2>1. handle' \in [Fd -> Bit \cup {Inval, Unset}]
        <3>1. \A f \in Fd : handle'[f] \in Bit \cup {Inval, Unset}
          BY <1>7, <1>8, <1>9, <1>10
        <3>2. DOMAIN handle' = Fd /\ handle' = [f \in Fd |-> handle'[f]]
          BY <1>2 DEF Handed
        <3>3. QED
          BY <3>1, <3>2
      <2>2. filetable' \in [Slot -> Fd \cup {NoFd}]
        <3>1. \A i \in Slot : filetable'[i] \in Fd \cup {NoFd}
          BY <1>1, <1>6, <1>7, <1>9, <1>11 DEF TypeOK
        <3>2. filetable' = [i \in Slot |-> filetable'[i]]
          BY <1>2 DEF Filled
        <3>3. QED
          BY <3>1, <3>2
      <2>3. claimed' \subseteq Fd /\ stray' \in BOOLEAN
        BY <1>1, <1>2, <1>3, <1>6 DEF TypeOK
      <2>4. /\ files' \in [Slot -> Fd \cup {NoFd}] /\ behind' \subseteq Slot
            /\ KernelAgrees'
        <3>1. \A i \in Slot \ Range(p) : filetable'[i] = filetable[i]
          BY <1>11
        <3>2. KernelAgrees /\ (~stray' => ~stray) /\ lost' = lost
          BY <1>2, <1>3 DEF TInv
        <3>3. QED
          BY <1>1, <1>2, <1>4, <2>2, <3>1, <3>2, AcceptedFollows
      <2>5. QED
        BY <1>1, <1>2, <1>3, <1>4, <2>1, <2>2, <2>3, <2>4 DEF TypeOK
    <1>13. ASSUME ~stray' PROVE HandlesInTable' /\ SlotsOwned'
      <2>1. ~stray /\ \A k \in DOMAIN p : p[k] \in Slot
        BY <1>2, <1>13
      <2>2. /\ filetable_bitmap = Bit \ (lost \cup {handle[f] : f \in Owned})
            /\ \A f, g \in Owned : handle[f] = handle[g] => f = g
            /\ \A f \in Owned : handle[f] \notin lost /\ filetable[handle[f]] = f
            /\ \A i \in Slot : filetable[i] = NoFd \/ \E f \in Owned : handle[f] = i
            /\ \A f \in Owned : handle[f] \in Slot
        BY <2>1 DEF TInv, SlotsOwned, HandlesInTable
      <2>3. Owned' = Owned \cup {s[k] : k \in DOMAIN p}
        BY <1>4, <1>6, <1>7, <1>8, <1>9, <1>10 DEF Owned
      <2>4. \A f \in Owned : f \in Fd /\ handle'[f] = handle[f] /\ \A k \in DOMAIN p : s[k] # f
        BY <1>6, <1>7, <1>10 DEF Owned
      <2>5. \A k \in DOMAIN p : p[k] \notin lost /\ \A f \in Owned : handle[f] # p[k]
        BY <1>7, <2>2
      <2>6. {handle'[f] : f \in Owned'} = {handle[f] : f \in Owned} \cup {p[k] : k \in DOMAIN p}
        BY <1>9, <2>3, <2>4
      <2>7. filetable_bitmap' = Bit \ (lost \cup {handle'[f] : f \in Owned'})
        BY <1>2, <2>2, <2>6
      <2>8. ASSUME NEW f \in Owned', NEW g \in Owned', handle'[f] = handle'[g] PROVE f = g
        BY <1>7, <1>9, <2>2, <2>3, <2>4, <2>5, <2>8
      <2>9. ASSUME NEW f \in Owned'
            PROVE  handle'[f] \in Slot /\ handle'[f] \notin lost /\ filetable'[handle'[f]] = f
        <3>1. CASE f \in Owned
          BY <1>11, <2>2, <2>4, <2>5, <3>1
        <3>2. CASE f \notin Owned
          BY <1>9, <2>1, <2>3, <2>5, <3>2
        <3>3. QED
          BY <3>1, <3>2
      <2>10. ASSUME NEW i \in Slot
             PROVE  filetable'[i] = NoFd \/ \E f \in Owned' : handle'[f] = i
        <3>1. CASE \E k \in DOMAIN p : p[k] = i
          BY <1>9, <2>3, <3>1
        <3>2. CASE \A k \in DOMAIN p : p[k] # i
          BY <1>11, <2>2, <2>3, <2>4, <3>2
        <3>3. QED
          BY <3>1, <3>2
      <2>11. QED
        BY <1>3, <1>4, <2>7, <2>8, <2>9, <2>10 DEF HandlesInTable, SlotsOwned
    <1>14. QED
      BY <1>12, <1>13 DEF TInv, HandlesInTable, SlotsOwned

\* A full table: the handles are taken back, the bitmap is what it was.
LEMMA RegNoBufsTInv == ASSUME NEW s \in ArgSeqs PROVE TInv /\ RegNoBufs(s) => TInv'
    <1> SUFFICES ASSUME TInv, RegNoBufs(s) PROVE TInv'
      OBVIOUS
    <1>1. TypeOK /\ Args(s)
      BY DEF TInv, RegNoBufs
    <1>2. PICK p \in Picks(Len(s)) :
              filetable_bitmap' = Restored(p) /\ handle' = RolledBack(s, p)
      BY DEF RegNoBufs
    <1>3. UNCHANGED <<filetable, filetable_len, files, claimed, lost, behind, stray>>
      BY DEF RegNoBufs
    <1>4. Slot' = Slot /\ Bit' = Bit /\ filetable_bitmap' = filetable_bitmap
      BY <1>2, <1>3 DEF Slot, Bit, Restored
    <1>5. \A k \in DOMAIN p : handle[s[k]] \notin Bit
      <2>1. DOMAIN p \subseteq DOMAIN s
        BY <1>1, ArgsType, PicksType
      <2>2. QED
        BY <1>1, <2>1, ArgsType
    <1>6. \A f \in Fd : /\ handle'[f] \in {handle[f], Inval}
                        /\ handle[f] \in Bit => handle'[f] = handle[f]
      BY <1>2, <1>5 DEF RolledBack
    <1>7. Inval \notin Bit
      BY <1>1, TableFacts
    <1>8. Owned' = Owned /\ \A f \in Owned : handle'[f] = handle[f]
      BY <1>4, <1>6, <1>7 DEF Owned
    <1>9. TypeOK'
      <2>1. handle' \in [Fd -> Bit \cup {Inval, Unset}]
        BY <1>1, <1>2, <1>6 DEF TypeOK, RolledBack
      <2>2. QED
        BY <1>1, <1>3, <1>4, <2>1 DEF TypeOK
    <1>10. {handle'[f] : f \in Owned'} = {handle[f] : f \in Owned}
      BY <1>8
    <1>11. QED
      BY <1>3, <1>4, <1>8, <1>9, <1>10 DEF TInv, HandlesInTable, SlotsOwned, KernelAgrees

\* A refused registration strays, but keeps to the table.
LEMMA RegRefusedTInv == ASSUME NEW s \in ArgSeqs PROVE TInv /\ RegRefused(s) => TInv'
    <1> SUFFICES ASSUME TInv, RegRefused(s) PROVE TInv'
      OBVIOUS
    <1>1. TypeOK /\ Args(s) /\ stray' = TRUE /\ UNCHANGED <<filetable_len, claimed, lost>>
      BY DEF TInv, RegRefused
    <1>2. PICK p \in Picks(Len(s)) : handle' = RolledBack(s, p) /\ Refused(Filled(s, p))
      BY DEF RegRefused
    <1>3. PICK i \in Slot : /\ filetable_bitmap' = filetable_bitmap \cup {i}
                            /\ filetable' = [filetable EXCEPT ![i] = NoFd]
      BY DEF RegRefused
    <1>4. Slot' = Slot /\ Bit' = Bit /\ Slot \subseteq Bit
      BY <1>1, TableFacts DEF Slot, Bit
    <1>5. handle' \in [Fd -> Bit \cup {Inval, Unset}]
      BY <1>1, <1>2 DEF TypeOK, RolledBack
    <1>6. Filled(s, p) \in [Slot -> Fd \cup {NoFd}]
      BY <1>1, ArgsType, PicksType DEF Filled, TypeOK
    <1>7. files' \in [Slot -> Fd \cup {NoFd}] /\ behind' \subseteq Slot
      BY <1>1, <1>2, <1>6, RefusedKeeps
    <1>8. TypeOK'
      BY <1>1, <1>3, <1>4, <1>5, <1>7 DEF TypeOK
    <1>9. QED
      BY <1>1, <1>8 DEF TInv, HandlesInTable, SlotsOwned, KernelAgrees

\* What the two deregistrations have in common: the caller gives its handle up,
\* and nobody else has it.
LEMMA ForgetFacts ==
    ASSUME TInv, NEW f \in Fd, handle[f] \in Bit,
           filetable' = Emptied(handle[f]), Forget(f), UNCHANGED <<filetable_len, stray>>
    PROVE  /\ Slot' = Slot /\ Bit' = Bit
           /\ handle' \in [Fd -> Bit \cup {Inval, Unset}] /\ claimed' \subseteq Fd
           /\ filetable' \in [Slot -> Fd \cup {NoFd}]
           /\ Owned' = Owned \ {f}
           /\ \A g \in Owned' : handle'[g] = handle[g]
           /\ {handle'[g] : g \in Owned'} = {handle[g] : g \in Owned \ {f}}
           /\ \A i \in Slot : filetable'[i] = IF i = handle[f] THEN NoFd ELSE filetable[i]
    <1>1. TypeOK
      BY DEF TInv
    <1>2. Slot' = Slot /\ Bit' = Bit /\ Unset \notin Bit
      BY <1>1, TableFacts DEF Slot, Bit
    <1>3. /\ handle' \in [Fd -> Bit \cup {Inval, Unset}]
          /\ \A g \in Fd : handle'[g] = IF g = f THEN Unset ELSE handle[g]
          /\ claimed' \subseteq Fd
      BY <1>1 DEF TypeOK, Forget
    <1>4. Owned' = Owned \ {f} /\ \A g \in Owned' : handle'[g] = handle[g]
      BY <1>2, <1>3 DEF Owned
    <1>5. /\ filetable' \in [Slot -> Fd \cup {NoFd}]
          /\ \A i \in Slot : filetable'[i] = IF i = handle[f] THEN NoFd ELSE filetable[i]
      BY <1>1 DEF TypeOK, Emptied
    <1>6. QED
      BY <1>2, <1>3, <1>4, <1>5

\* A deregistration: the slot is free again here and in the kernel.
LEMMA DeRegTInv == ASSUME NEW f \in Fd PROVE TInv /\ DeReg(f) => TInv'
    <1> SUFFICES ASSUME TInv, DeReg(f) PROVE TInv'
      OBVIOUS
    <1>1. /\ handle[f] \in Bit /\ f \in Owned
          /\ filetable' = Emptied(handle[f]) /\ Forget(f)
          /\ Accepted(filetable', 1, {handle[f]})
          /\ filetable_bitmap' = filetable_bitmap \cup {handle[f]}
          /\ UNCHANGED <<filetable_len, lost, stray>>
      BY DEF DeReg, Freed, Owned
    <1>2. /\ Slot' = Slot /\ Bit' = Bit
          /\ handle' \in [Fd -> Bit \cup {Inval, Unset}] /\ claimed' \subseteq Fd
          /\ filetable' \in [Slot -> Fd \cup {NoFd}]
          /\ Owned' = Owned \ {f}
          /\ \A g \in Owned' : handle'[g] = handle[g]
          /\ {handle'[g] : g \in Owned'} = {handle[g] : g \in Owned \ {f}}
          /\ \A i \in Slot : filetable'[i] = IF i = handle[f] THEN NoFd ELSE filetable[i]
      BY <1>1, ForgetFacts
    <1>3. /\ files' \in [Slot -> Fd \cup {NoFd}] /\ behind' \subseteq Slot
          /\ KernelAgrees'
      <2>1. \A i \in Slot \ {handle[f]} : filetable'[i] = filetable[i]
        BY <1>2
      <2>2. TypeOK /\ KernelAgrees /\ (~stray' => ~stray) /\ lost' = lost
        BY <1>1 DEF TInv
      <2>3. QED
        BY <1>1, <1>2, <2>1, <2>2, AcceptedFollows
    <1>4. ASSUME ~stray PROVE HandlesInTable' /\ SlotsOwned'
      <2>1. /\ filetable_bitmap = Bit \ (lost \cup {handle[g] : g \in Owned})
            /\ \A g, h \in Owned : handle[g] = handle[h] => g = h
            /\ \A g \in Owned : handle[g] \notin lost /\ filetable[handle[g]] = g
            /\ \A i \in Slot : filetable[i] = NoFd \/ \E g \in Owned : handle[g] = i
            /\ \A g \in Owned : handle[g] \in Slot
        BY <1>4 DEF TInv, SlotsOwned, HandlesInTable
      <2>2. filetable_bitmap' = Bit \ (lost \cup {handle'[g] : g \in Owned'})
        BY <1>1, <1>2, <2>1
      <2>3. \A i \in Slot : filetable'[i] = NoFd \/ \E g \in Owned' : handle'[g] = i
        BY <1>2, <2>1
      <2>4. \A g \in Owned' : /\ handle'[g] \in Slot /\ handle'[g] \notin lost
                              /\ filetable'[handle'[g]] = g
        BY <1>1, <1>2, <2>1
      <2>5. QED
        BY <1>1, <1>2, <2>1, <2>2, <2>3, <2>4 DEF HandlesInTable, SlotsOwned
    <1>5. TypeOK'
      BY <1>1, <1>2, <1>3 DEF TInv, TypeOK
    <1>6. QED
      BY <1>1, <1>3, <1>4, <1>5 DEF TInv, HandlesInTable, SlotsOwned

\* A refused deregistration: the slot is lost, and the kernel keeps it.
LEMMA DeRegRefusedTInv == ASSUME NEW f \in Fd PROVE TInv /\ DeRegRefused(f) => TInv'
    <1> SUFFICES ASSUME TInv, DeRegRefused(f) PROVE TInv'
      OBVIOUS
    <1>1. /\ handle[f] \in Bit /\ f \in Owned
          /\ filetable' = Emptied(handle[f]) /\ Forget(f)
          /\ lost' = lost \cup {handle[f]} /\ Refused(filetable')
          /\ UNCHANGED <<filetable_bitmap, filetable_len, stray>>
      BY DEF DeRegRefused, Owned
    <1>2. /\ Slot' = Slot /\ Bit' = Bit
          /\ handle' \in [Fd -> Bit \cup {Inval, Unset}] /\ claimed' \subseteq Fd
          /\ filetable' \in [Slot -> Fd \cup {NoFd}]
          /\ Owned' = Owned \ {f}
          /\ \A g \in Owned' : handle'[g] = handle[g]
          /\ {handle'[g] : g \in Owned'} = {handle[g] : g \in Owned \ {f}}
          /\ \A i \in Slot : filetable'[i] = IF i = handle[f] THEN NoFd ELSE filetable[i]
      BY <1>1, ForgetFacts
    <1>3. /\ files' \in [Slot -> Fd \cup {NoFd}]
          /\ behind \subseteq behind' /\ behind' \subseteq Slot
          /\ \A i \in Slot \ behind' : files'[i] = files[i]
      <2>1. TypeOK
        BY DEF TInv
      <2>2. QED
        BY <1>1, <1>2, <2>1, RefusedKeeps
    <1>4. ASSUME ~stray PROVE HandlesInTable' /\ SlotsOwned'
      <2>1. /\ filetable_bitmap = Bit \ (lost \cup {handle[g] : g \in Owned})
            /\ \A g, h \in Owned : handle[g] = handle[h] => g = h
            /\ \A g \in Owned : handle[g] \notin lost /\ filetable[handle[g]] = g
            /\ \A i \in Slot : filetable[i] = NoFd \/ \E g \in Owned : handle[g] = i
            /\ \A g \in Owned : handle[g] \in Slot
        BY <1>4 DEF TInv, SlotsOwned, HandlesInTable
      <2>2. filetable_bitmap' = Bit \ (lost' \cup {handle'[g] : g \in Owned'})
        BY <1>1, <1>2, <2>1
      <2>3. \A i \in Slot : filetable'[i] = NoFd \/ \E g \in Owned' : handle'[g] = i
        BY <1>2, <2>1
      <2>4. \A g \in Owned' : /\ handle'[g] \in Slot /\ handle'[g] \notin lost'
                              /\ filetable'[handle'[g]] = g
        BY <1>1, <1>2, <2>1
      <2>5. QED
        BY <1>1, <1>2, <2>1, <2>2, <2>3, <2>4 DEF HandlesInTable, SlotsOwned
    <1>5. KernelAgrees'
      BY <1>1, <1>2, <1>3 DEF TInv, KernelAgrees
    <1>6. TypeOK'
      BY <1>1, <1>2, <1>3 DEF TInv, TypeOK
    <1>7. QED
      BY <1>1, <1>4, <1>5, <1>6 DEF TInv, HandlesInTable, SlotsOwned

\* Closing a descriptor that has no handle.
LEMMA CloseRawTInv == ASSUME NEW f \in Fd PROVE TInv /\ CloseRaw(f) => TInv'
    <1> SUFFICES ASSUME TInv, CloseRaw(f) PROVE TInv'
      OBVIOUS
    <1>1. /\ TypeOK /\ handle[f] \notin Bit /\ Forget(f)
          /\ UNCHANGED <<filetable, filetable_bitmap, filetable_len, files, lost, behind, stray>>
      BY DEF TInv, CloseRaw
    <1>2. Slot' = Slot /\ Bit' = Bit /\ Unset \notin Bit
      BY <1>1, TableFacts DEF Slot, Bit
    <1>3. /\ handle' \in [Fd -> Bit \cup {Inval, Unset}] /\ claimed' \subseteq Fd
          /\ \A g \in Fd : handle'[g] = IF g = f THEN Unset ELSE handle[g]
      BY <1>1 DEF TypeOK, Forget
    <1>4. TypeOK'
      BY <1>1, <1>2, <1>3 DEF TypeOK
    <1>5. Owned' = Owned /\ \A g \in Owned : handle'[g] = handle[g]
      BY <1>1, <1>2, <1>3 DEF Owned
    <1>6. {handle'[g] : g \in Owned'} = {handle[g] : g \in Owned}
      BY <1>5
    <1>7. QED
      BY <1>1, <1>2, <1>4, <1>5, <1>6 DEF TInv, HandlesInTable, SlotsOwned, KernelAgrees

LEMMA NextTInv == TInv /\ [Next]_vars => TInv'
    <1> SUFFICES ASSUME TInv, [Next]_vars PROVE TInv'
      OBVIOUS
    <1>1. ASSUME NEW s \in ArgSeqs, RegNoTable(s) PROVE TInv'
      BY <1>1, RegNoTableTInv
    <1>2. ASSUME NEW s \in ArgSeqs, RegFiles(s) PROVE TInv'
      BY <1>2, RegFilesTInv
    <1>3. ASSUME NEW s \in ArgSeqs, RegNoBufs(s) PROVE TInv'
      BY <1>3, RegNoBufsTInv
    <1>4. ASSUME NEW s \in ArgSeqs, RegRefused(s) PROVE TInv'
      BY <1>4, RegRefusedTInv
    <1>5. ASSUME NEW f \in Fd, DeReg(f) PROVE TInv'
      BY <1>5, DeRegTInv
    <1>6. ASSUME NEW f \in Fd, DeRegRefused(f) PROVE TInv'
      BY <1>6, DeRegRefusedTInv
    <1>7. ASSUME NEW f \in Fd, CloseRaw(f) PROVE TInv'
      BY <1>7, CloseRawTInv
    <1>8. CASE UNCHANGED vars
      BY <1>8 DEF vars, TInv, TypeOK, HandlesInTable, SlotsOwned, KernelAgrees, Owned, Slot, Bit
    <1>9. QED
      BY <1>1, <1>2, <1>3, <1>4, <1>5, <1>6, <1>7, <1>8 DEF Next

\* The scan of a registration comes to the bits without a slot last.
LEMMA PastTheEndIsLast ==
    ASSUME TInv, Next, NEW f \in Fd, handle'[f] \in Bit' \ Slot', handle'[f] # handle[f],
           NEW i \in filetable_bitmap \cap Slot
    PROVE  Elem(i) # Elem(handle'[f])
    <1>1. TypeOK
      BY DEF TInv
    <1>2. filetable_len' = filetable_len
      BY DEF Next, RegNoTable, RegFiles, RegNoBufs, RegRefused, DeReg, DeRegRefused, CloseRaw
    <1>3. Slot' = Slot /\ Bit' = Bit
      BY <1>2 DEF Slot, Bit
    <1>4. Inval \notin Bit /\ Unset \notin Bit
      BY <1>1, TableFacts
    <1>5. ASSUME NEW s \in ArgSeqs, RegFiles(s) PROVE handle'[f] \in LowestFree
      <2>1. PICK p \in Picks(Len(s)) : handle' = Handed(s, p)
        BY <1>5 DEF RegFiles
      <2>2. Args(s)
        BY <1>5 DEF RegFiles
      <2>3. PICK k \in DOMAIN p : handle'[f] = p[k]
        BY <2>1 DEF Handed
      <2>4. QED
        BY <1>1, <2>2, <2>3, ArgsType, PicksType
    <1>6. ASSUME NEW s \in ArgSeqs, RegNoTable(s) \/ RegNoBufs(s) \/ RegRefused(s) PROVE FALSE
      BY <1>3, <1>4, <1>6 DEF RegNoTable, RegNoBufs, RegRefused, RolledBack
    <1>7. ASSUME NEW g \in Fd, Forget(g) PROVE FALSE
      BY <1>1, <1>3, <1>4, <1>7 DEF Forget, TypeOK
    <1>8. handle'[f] \in LowestFree
      BY <1>5, <1>6, <1>7 DEF Next, DeReg, DeRegRefused, CloseRaw
    <1>9. ~(handle'[f] <= i)
      <2>1. i \in 0 .. filetable_len - 1 /\ handle'[f] \in Nat /\ filetable_len \in Nat
        BY <1>1, <1>3, TableFacts
      <2>2. handle'[f] \notin 0 .. filetable_len - 1
        BY <1>3 DEF Slot
      <2>3. QED
        BY <2>1, <2>2
    <1>10. QED
      BY <1>8, <1>9 DEF LowestFree

----------------------------------------------------------------------------

\* The inductive invariant of the table.
THEOREM TableInvariant == Spec => []TInv
    BY InitTInv, NextTInv, PTL DEF Spec

(***************************************************************************)
(* The loops of a process.                                                 *)
(***************************************************************************)

\* Between ldel and lnew there is no table and no handle.
NoTable ==
    ~up => /\ filetable_len = 0
           /\ handle = [f \in Fd |-> Unset]
           /\ lost = {} /\ claimed = {} /\ behind = {} /\ stray = FALSE

\* lnew_us meets a trapping filter only if that came late.
FilterKnown ==
    /\ seccomp \in {"none", "passes", "traps"}
    /\ killed => late /\ seccomp = "traps"
    /\ p_lnew = "lnew_us" /\ seccomp = "traps" => late

LInv == TInv /\ NoTable /\ FilterKnown

----------------------------------------------------------------------------

THEOREM LifeInitInv == LifeInit => LInv
    BY InitTInv DEF LifeInit, LInv, Init, NoTable, FilterKnown

\* The steps that leave the table alone.
LEMMA OutsideInv ==
    ASSUME LInv, UNCHANGED <<vars, up>>, FilterKnown' PROVE LInv'
    <1>1. TInv'
      BY NextTInv DEF LInv
    <1>2. NoTable'
      BY DEF LInv, NoTable, vars
    <1>3. QED
      BY <1>1, <1>2 DEF LInv

LEMMA SandboxInv == LInv /\ Sandbox => LInv'
    <1> SUFFICES ASSUME LInv, Sandbox PROVE LInv'
      OBVIOUS
    <1>1. FilterKnown'
      BY DEF LInv, Sandbox, FilterKnown
    <1>2. UNCHANGED <<vars, up>>
      BY DEF Sandbox
    <1>3. QED
      BY <1>1, <1>2, OutsideInv

LEMMA VtSetupInv == LInv /\ VtSetup => LInv'
    <1> SUFFICES ASSUME LInv, VtSetup PROVE LInv'
      OBVIOUS
    <1>1. FilterKnown'
      BY DEF LInv, VtSetup, FilterKnown, Unsandboxed
    <1>2. UNCHANGED <<vars, up>>
      BY DEF VtSetup
    <1>3. QED
      BY <1>1, <1>2, OutsideInv

LEMMA TrappedInv == LInv /\ Trapped => LInv'
    <1> SUFFICES ASSUME LInv, Trapped PROVE LInv'
      OBVIOUS
    <1>1. FilterKnown'
      BY DEF LInv, Trapped, FilterKnown, process
    <1>2. UNCHANGED <<vars, up>>
      BY DEF Trapped
    <1>3. QED
      BY <1>1, <1>2, OutsideInv

\* lnew that fails, or whose helper thread does.
LEMMA FailureInv ==
    ASSUME LInv, (\E s \in Stage : LNewFails(s)) \/ ThreadFails PROVE LInv'
    <1>1. UNCHANGED <<vars, process, up, killed>>
      BY DEF LNewFails, ThreadFails
    <1>2. FilterKnown'
      BY <1>1 DEF LInv, FilterKnown, process
    <1>3. QED
      BY <1>1, <1>2, OutsideInv

\* lnew: a new table has all its bits and no entry.
LEMMA LNewInv ==
    ASSUME NEW max_files \in {-1, 0, MaxFiles - 1, 2 * MaxFiles}, LInv, LNew(max_files)
    PROVE  LInv'
    <1> DEFINE n == Granted(max_files)
    <1>1. n \in 0 .. MaxFiles
      BY FileTableAssumption DEF Granted
    <1> HIDE DEF n
    <1>2. /\ ~up /\ up' /\ filetable_len' = n
          /\ filetable' = [i \in 0 .. n - 1 |-> NoFd] /\ files' = filetable'
          /\ filetable_bitmap' = BitsOf(n)
          /\ UNCHANGED <<handle, claimed, lost, behind, stray, process, killed>>
      BY DEF LNew, SetUp, n
    <1>3. /\ handle = [f \in Fd |-> Unset]
          /\ lost = {} /\ claimed = {} /\ behind = {} /\ stray = FALSE
      BY <1>2 DEF LInv, NoTable
    <1>4. n \in Nat /\ BitsOf(n) \subseteq Nat
      BY <1>1, FileTableAssumption, SlotsHaveBits
    <1>5. Slot' = 0 .. n - 1 /\ Bit' = BitsOf(n)
      BY <1>2 DEF Slot, Bit
    <1>6. TypeOK'
      BY <1>1, <1>2, <1>3, <1>5 DEF TypeOK
    <1>7. Owned' = {}
      BY <1>2, <1>3, <1>4, <1>5, FileTableAssumption DEF Owned
    <1>8. TInv'
      BY <1>2, <1>3, <1>5, <1>6, <1>7 DEF TInv, HandlesInTable, SlotsOwned, KernelAgrees
    <1>9. FilterKnown'
      BY <1>2 DEF LInv, FilterKnown, process
    <1>10. QED
      BY <1>2, <1>8, <1>9 DEF LInv, NoTable

\* ldel: nothing of the table is left.
LEMMA LDelInv == LInv /\ LDel => LInv'
    <1> SUFFICES ASSUME LInv, LDel PROVE LInv'
      OBVIOUS
    <1>1. /\ up' = FALSE /\ filetable_len' = 0
          /\ filetable' = <<>> /\ filetable_bitmap' = {} /\ files' = <<>>
          /\ handle' = [f \in Fd |-> Unset]
          /\ claimed' = {} /\ lost' = {} /\ behind' = {} /\ stray' = FALSE
          /\ UNCHANGED <<process, killed>>
      BY DEF LDel
    <1>2. Slot' = {} /\ Bit' = {}
      BY <1>1, SlotsHaveBits DEF Slot, Bit
    <1>3. <<>> \in [{} -> Fd \cup {NoFd}]
      OBVIOUS
    <1>4. TypeOK'
      <2>1. filetable_len' \in 0 .. MaxFiles
        <3>1. 0 \in 0 .. MaxFiles
          BY FileTableAssumption
        <3>2. QED
          BY <1>1, <3>1
      <2>2. filetable' \in [Slot' -> Fd \cup {NoFd}] /\ files' \in [Slot' -> Fd \cup {NoFd}]
        BY <1>1, <1>2, <1>3
      <2>3. handle' \in [Fd -> Bit' \cup {Inval, Unset}]
        BY <1>1
      <2>4. QED
        BY <1>1, <2>1, <2>2, <2>3 DEF TypeOK
    <1>5. Owned' = {}
      BY <1>2 DEF Owned
    <1>6. TInv'
      BY <1>1, <1>2, <1>4, <1>5 DEF TInv, HandlesInTable, SlotsOwned, KernelAgrees
    <1>7. FilterKnown'
      BY <1>1 DEF LInv, FilterKnown, process
    <1>8. QED
      BY <1>1, <1>6, <1>7 DEF LInv, NoTable

LEMMA UseTableInv == LInv /\ UseTable => LInv'
    <1> SUFFICES ASSUME LInv, UseTable PROVE LInv'
      OBVIOUS
    <1>1. TInv' /\ up /\ up' = up /\ UNCHANGED <<process, killed>>
      BY NextTInv DEF LInv, UseTable, life
    <1>2. FilterKnown'
      BY <1>1 DEF LInv, FilterKnown, process
    <1>3. QED
      BY <1>1, <1>2 DEF LInv, NoTable

LEMMA LifeNextInv == LInv /\ [LifeNext]_<<vars, life>> => LInv'
    <1> SUFFICES ASSUME LInv, [LifeNext]_<<vars, life>> PROVE LInv'
      OBVIOUS
    <1>1. CASE UNCHANGED <<vars, life>>
      <2>1. FilterKnown'
        BY <1>1 DEF LInv, FilterKnown, life, process
      <2>2. UNCHANGED <<vars, up>>
        BY <1>1 DEF life
      <2>3. QED
        BY <2>1, <2>2, OutsideInv
    <1>2. CASE LifeNext
      BY <1>2, SandboxInv, VtSetupInv, TrappedInv, FailureInv, LNewInv, LDelInv, UseTableInv
         DEF LifeNext
    <1>3. QED
      BY <1>1, <1>2

THEOREM LifeInvariant == LifeSpec => []LInv
    BY LifeInitInv, LifeNextInv, PTL DEF LifeSpec

\* Through every life of the loop a slot is free, lost, or the handle of one
\* descriptor, as bitmap and table say, until a roll-back or a store strays.
THEOREM SlotsAreOwned == LifeSpec => []SlotsOwned
    <1>1. LInv => SlotsOwned
      BY DEF LInv, TInv
    <1>2. QED
      BY <1>1, LifeInvariant, PTL

\* The kernel's table differs from the loop's only in slots that were lost, and
\* in those that an update which stopped short has left behind.
THEOREM KernelsTableAgrees == LifeSpec => []KernelAgrees
    <1>1. LInv => KernelAgrees
      BY DEF LInv, TInv
    <1>2. QED
      BY <1>1, LifeInvariant, PTL

\* A descriptor gets a bit behind the table only when the slots that share
\* that bit's element are taken, for every size of an element.
THEOREM PastTheEndComesLast == LifeSpec => PastTheEndLast
    <1>1. ASSUME LInv, [LifeNext]_<<vars, life>>, ~UNCHANGED vars,
                 NEW f \in Fd, handle'[f] \in Bit' \ Slot', handle'[f] # handle[f],
                 NEW i \in filetable_bitmap \cap Slot
          PROVE  Elem(i) # Elem(handle'[f])
      <2>1. CASE UseTable
        BY <1>1, <2>1, PastTheEndIsLast DEF LInv, UseTable
      <2>2. ASSUME NEW max_files \in {-1, 0, MaxFiles - 1, 2 * MaxFiles}, LNew(max_files)
            PROVE  FALSE
        BY <1>1, <2>2 DEF LNew
      <2>3. CASE LDel
        BY <1>1, <2>3, SlotsHaveBits DEF LDel, Bit
      <2>4. QED
        BY <1>1, <2>1, <2>2, <2>3
           DEF LifeNext, Sandbox, VtSetup, LNewFails, ThreadFails, Trapped
    <1>2. LInv /\ [LifeNext]_<<vars, life>> =>
              [\A f \in Fd :
                  handle'[f] \in Bit' \ Slot' /\ handle'[f] # handle[f] =>
                      \A i \in filetable_bitmap \cap Slot : Elem(i) # Elem(handle'[f])]_vars
      BY <1>1
    <1>3. QED
      BY <1>2, LifeInvariant, PTL DEF LifeSpec, PastTheEndLast

\* lnew_us, which SIGSYS would end, is chosen only where no filter is.
THEOREM FilterIsSurvived == LifeSpec => []SurvivesFilter
    <1>1. LInv => SurvivesFilter
      BY DEF LInv, FilterKnown, SurvivesFilter
    <1>2. QED
      BY <1>1, LifeInvariant, PTL

----------------------------------------------------------------------------
(* What the loop holds *)

\* Without a table the three stages that make it are left out.
Built == Stage \ (IF filetable_len = 0 THEN TableStage ELSE {})

HInv ==
    /\ {up, single, leaked, late, killed} \subseteq BOOLEAN
    /\ dangling \subseteq TablePointers
    /\ misfreed \subseteq Resource
    /\ sigsys \in {"own", "nop"} /\ p_lnew \in {"unset", "lnew", "lnew_us"}
    /\ filetable_len \in Nat
    /\ owned = IF up THEN Acquired(Built) ELSE {}
    /\ leaked => sigsys = "nop"

LEMMA StageSet ==
    Stage = {"ring", "features", "sqmap", "cqmap", "sqes", "soonque", "prepque", "sqofq",
             "ringfd", "rlimit", "filetable", "bitmap", "files"}
    <1>1. DOMAIN Stages = 1 .. 13
      BY DEF Stages
    <1>2. Stage = {Stages[k] : k \in 1 .. 13}
      BY <1>1 DEF Stage, Range
    <1>3. QED
      BY <1>2 DEF Stages

\* The stages before the i-th one.
LEMMA BeforeStage ==
    ASSUME NEW i \in 1 .. 13
    PROVE  Before(Stages[i]) = {Stages[k] : k \in 1 .. i - 1}
    <1>1. DOMAIN Stages = 1 .. 13
      BY DEF Stages
    <1>2. \A j \in 1 .. 13 : Stages[j] = Stages[i] => j = i
      BY DEF Stages
    <1>3. (CHOOSE j \in DOMAIN Stages : Stages[j] = Stages[i]) = i
      BY <1>1, <1>2
    <1>4. QED
      BY <1>3 DEF Before

\* The label a failing stage goes to releases what the stages before it hold.
LEMMA LabelUndoes ==
    ASSUME NEW s \in Stage, s = "cqmap" => ~single
    PROVE  Acquired(Before(s)) = Unwound(s)
    <1> DEFINE Undone(t) == {Labels[k] : k \in 1 .. Label(t)}
    <1>1. PICK i \in 1 .. 13 : s = Stages[i]
      BY DEF Stage, Stages, Range
    <1>2. Before(s) = {Stages[k] : k \in 1 .. i - 1}
      BY <1>1, BeforeStage
    <1>3. CASE i = 1
      BY <1>1, <1>2, <1>3 DEF Acquired, Unwound, Label, Labels, Stages, Resource
    <1>4. CASE i \in 2 .. 3
      BY <1>1, <1>2, <1>4 DEF Acquired, Unwound, Label, Labels, Stages, Resource
    <1>5. CASE i = 4
      BY <1>1, <1>2, <1>5 DEF Acquired, Unwound, Label, Labels, Stages, Resource
    <1>6. CASE i = 5
      BY <1>1, <1>2, <1>6 DEF Acquired, Unwound, Label, Labels, Stages, Resource
    <1>7. CASE i = 6
      BY <1>1, <1>2, <1>7 DEF Acquired, Unwound, Label, Labels, Stages, Resource
    <1>8. CASE i = 7
      BY <1>1, <1>2, <1>8 DEF Acquired, Unwound, Label, Labels, Stages, Resource
    <1>9. CASE i = 8
      BY <1>1, <1>2, <1>9 DEF Acquired, Unwound, Label, Labels, Stages, Resource
    <1>10. CASE i = 9
      BY <1>1, <1>2, <1>10 DEF Acquired, Unwound, Label, Labels, Stages, Resource
    <1>11. CASE i \in 10 .. 11
      BY <1>1, <1>2, <1>11 DEF Acquired, Unwound, Label, Labels, Stages, Resource
    <1>12. CASE i = 12
      BY <1>1, <1>2, <1>12 DEF Acquired, Unwound, Label, Labels, Stages, Resource
    <1>13. CASE i = 13
      BY <1>1, <1>2, <1>13 DEF Acquired, Unwound, Label, Labels, Stages, Resource
    <1>14. QED
      BY <1>3, <1>4, <1>5, <1>6, <1>7, <1>8, <1>9, <1>10, <1>11, <1>12, <1>13

LEMMA StageResources ==
    /\ TablePointers \subseteq Resource /\ TableStage \subseteq Resource
    /\ \A done : Acquired(done) \subseteq Resource
    BY DEF TablePointers, TableStage, Resource, Acquired

LEMMA HInitInv == LifeInit => HInv
    <1> SUFFICES ASSUME LifeInit PROVE HInv
      OBVIOUS
    <1>1. /\ filetable_len = 0 /\ up = FALSE /\ owned = {} /\ misfreed = {}
          /\ single \in BOOLEAN /\ dangling \subseteq TablePointers
          /\ sigsys = "own" /\ leaked = FALSE /\ p_lnew = "unset" /\ late = FALSE /\ killed = FALSE
      BY DEF LifeInit
    <1>2. QED
      BY <1>1 DEF HInv

\* The steps that neither build nor release anything.
LEMMA HeldInv ==
    ASSUME HInv, UNCHANGED <<filetable_len, single, up, owned, dangling, misfreed>>,
           {late', killed', leaked'} \subseteq BOOLEAN,
           p_lnew' \in {"unset", "lnew", "lnew_us"}, sigsys' \in {"own", "nop"},
           leaked' => sigsys' = "nop"
    PROVE  HInv'
    BY DEF HInv, Built, Acquired, Resource

LEMMA LNewHolds ==
    ASSUME HInv, NEW max_files \in {-1, 0, MaxFiles - 1, 2 * MaxFiles}, LNew(max_files)
    PROVE  HInv'
    <1> DEFINE n == Granted(max_files)
    <1>1. n \in Nat
      BY FileTableAssumption DEF Granted
    <1> HIDE DEF n
    <1>2. /\ ~up /\ up' = TRUE /\ filetable_len' = n
          /\ owned' = owned \cup Acquired(Stage \ (IF n = 0 THEN TableStage ELSE {}))
          /\ dangling' = IF n = 0 THEN dangling ELSE {}
          /\ misfreed' = {}
          /\ UNCHANGED <<single, late, killed, leaked, sigsys, p_lnew>>
      BY DEF LNew, SetUp, process, n
    <1>3. owned' = Acquired(Built)'
      <2>1. owned = {}
        BY <1>2 DEF HInv
      <2>2. Acquired(Built)' = Acquired(Stage \ (IF n = 0 THEN TableStage ELSE {}))
        BY <1>2 DEF Acquired, Built, Resource, Stage
      <2>3. QED
        BY <1>2, <2>1, <2>2
    <1>4. QED
      BY <1>1, <1>2, <1>3 DEF HInv

\* A failing stage leaves nothing and releases nothing that it does not hold.
LEMMA LNewFailsHolds ==
    ASSUME HInv, NEW s \in Stage, LNewFails(s)
    PROVE  HInv' /\ misfreed' = {}
    <1>1. Acquired(Before(s)) = Unwound(s)
      BY LabelUndoes DEF LNewFails
    <1>2. owned' = {} /\ misfreed' = {}
      BY <1>1 DEF LNewFails, HInv, SetUp
    <1>3. dangling' \subseteq TablePointers
      BY DEF LNewFails, HInv
    <1>4. ~up /\ up' = up /\ UNCHANGED <<filetable_len, single, late, killed, leaked, sigsys, p_lnew>>
      BY DEF LNewFails, SetUp, vars, process
    <1>5. QED
      BY <1>2, <1>3, <1>4 DEF HInv

\* ldel releases all there is, and besides at most the table's pointers.
LEMMA LDelHolds ==
    ASSUME HInv, LDel
    PROVE  /\ HInv'
           /\ misfreed' # {} => filetable_len = 0 /\ misfreed' \subseteq TablePointers
    <1>1. up /\ up' = FALSE /\ filetable_len' = 0 /\ owned = Acquired(Built)
          /\ owned' = owned \ Released /\ misfreed' = Released \ owned
          /\ dangling' = (IF filetable_len > 0 THEN TablePointers ELSE dangling)
          /\ UNCHANGED <<single, late, killed, leaked, sigsys, p_lnew>>
      BY DEF LDel, HInv, process
    <1>2. CASE filetable_len > 0
      <2>1. filetable_len # 0
        BY <1>2 DEF HInv
      <2>2. owned = Resource \ (IF single THEN {"cqmap"} ELSE {})
        BY <1>1, <2>1, StageSet DEF Built, Acquired, Resource
      <2>3. Released = Resource \ (IF single THEN {"cqmap"} ELSE {})
        BY <1>2 DEF Released, Mappings, TablePointers, Resource
      <2>4. owned' = {} /\ misfreed' = {} /\ dangling' \subseteq TablePointers
        BY <1>1, <1>2, <2>2, <2>3
      <2>5. QED
        BY <1>1, <2>4 DEF HInv
    <1>3. CASE filetable_len = 0
      <2>1. owned = (Resource \ TableStage) \ (IF single THEN {"cqmap"} ELSE {})
        BY <1>1, <1>3, StageSet DEF Built, Acquired, Resource, TableStage
      <2>2. Released = dangling \cup ((Resource \ TableStage) \ (IF single THEN {"cqmap"} ELSE {}))
        BY <1>3 DEF Released, Mappings, TableStage, Resource
      <2>3. owned' = {} /\ misfreed' \subseteq TablePointers /\ dangling' \subseteq TablePointers
        BY <1>1, <1>3, <2>1, <2>2 DEF HInv
      <2>4. HInv'
        BY <1>1, <2>3, StageResources DEF HInv
      <2>5. QED
        BY <1>3, <2>3, <2>4
    <1>4. QED
      BY <1>2, <1>3 DEF HInv

LEMMA HNextInv == LInv /\ HInv /\ [LifeNext]_<<vars, life>> => HInv'
    <1> SUFFICES ASSUME LInv, HInv, [LifeNext]_<<vars, life>> PROVE HInv'
      OBVIOUS
    <1>1. CASE UNCHANGED <<vars, life>>
      BY <1>1, HeldInv DEF HInv, vars, life, process
    <1>2. CASE Sandbox
      BY <1>2, HeldInv DEF HInv, Sandbox, vars
    <1>3. CASE VtSetup
      BY <1>3, HeldInv DEF HInv, VtSetup, vars
    <1>4. CASE ThreadFails
      BY <1>4, HeldInv DEF HInv, ThreadFails, vars, process
    <1>5. CASE Trapped
      BY <1>5, HeldInv DEF HInv, Trapped, vars, process
    <1>6. CASE UseTable
      <2>1. filetable_len' = filetable_len
        BY <1>6 DEF UseTable, Next, RegNoTable, RegFiles, RegNoBufs, RegRefused,
                    DeReg, DeRegRefused, CloseRaw
      <2>2. QED
        BY <1>6, <2>1, HeldInv DEF HInv, UseTable, life, process
    <1>7. QED
      BY <1>1, <1>2, <1>3, <1>4, <1>5, <1>6, LNewHolds, LNewFailsHolds, LDelHolds DEF LifeNext

\* The inductive invariant of what lnew builds and ldel releases.
THEOREM HoldInvariant == LifeSpec => []HInv
    <1>1. LInv /\ HInv /\ [LifeNext]_<<vars, life>> => HInv'
      BY HNextInv
    <1>2. QED
      BY <1>1, HInitInv, LifeInvariant, PTL DEF LifeSpec

THEOREM LifeTypes == LifeSpec => []LifeTypeOK
    <1>1. LInv /\ HInv => LifeTypeOK
      BY StageResources DEF LInv, TInv, FilterKnown, HInv, LifeTypeOK
    <1>2. QED
      BY <1>1, LifeInvariant, HoldInvariant, PTL

\* Whatever stage fails, the labels undo exactly the stages before it, and
\* ldel undoes all of them, for every order of lives of the loop.
THEOREM EverythingIsReleased == LifeSpec => []AllReleased
    <1>1. HInv => AllReleased
      BY DEF HInv, AllReleased
    <1>2. QED
      BY <1>1, HoldInvariant, PTL

\* No resource is released twice or unheld, but for the table's pointers of a
\* loop without a table.
THEOREM NothingIsReleasedTwice == LifeSpec => ReleasedOnce
    <1>1. ASSUME HInv, [LifeNext]_<<vars, life>>, misfreed' # misfreed, misfreed' # {}
          PROVE  up /\ ~up' /\ filetable_len = 0 /\ misfreed' \subseteq TablePointers
      <2>1. CASE LDel
        BY <1>1, <2>1, LDelHolds DEF LDel
      <2>2. ASSUME NEW s \in Stage, LNewFails(s) PROVE FALSE
        BY <1>1, <2>2, LNewFailsHolds
      <2>3. QED
        BY <1>1, <2>1, <2>2
           DEF LifeNext, Sandbox, VtSetup, LNew, ThreadFails, Trapped, UseTable, life
    <1>2. HInv /\ [LifeNext]_<<vars, life>> =>
              [misfreed' # {} =>
                  up /\ ~up' /\ filetable_len = 0 /\ misfreed' \subseteq TablePointers]_misfreed
      BY <1>1
    <1>3. QED
      BY <1>2, HoldInvariant, PTL DEF LifeSpec, ReleasedOnce

(***************************************************************************)
(* The loops of the scan: PickedIsTheLoop.                                 *)
(***************************************************************************)

LEMMA DivBits ==
    ASSUME NEW n \in Nat
    PROVE  /\ n \div Bits \in Nat /\ n % Bits \in 0 .. Bits - 1
           /\ n = Bits * (n \div Bits) + (n % Bits)
    <1>1. Bits \in Nat \ {0}
      BY FileTableAssumption
    <1>2. QED
      BY <1>1

\* Elements of the bitmap, in order.
LEMMA ElemFacts ==
    ASSUME TypeOK, filetable_len > 0
    PROVE  /\ Elems \in Nat \ {0} /\ Npos \in Nat /\ Bit \subseteq Nat /\ IsFiniteSet(Bit)
           /\ \A i \in Bit : Elem(i) \in Nat /\ Elem(i) < Elems /\ i # Npos
           /\ \A i, j \in Bit : Elem(i) < Elem(j) => i < j
           /\ Elem(filetable_len - 1) = Elems - 1
    <1>1. /\ Bits \in Nat \ {0} /\ filetable_len \in Nat \ {0}
          /\ Bit \subseteq Nat /\ IsFiniteSet(Bit)
      BY TableFacts, FileTableAssumption
    <1> DEFINE q == (filetable_len + Bits - 1) \div Bits
               r == (filetable_len + Bits - 1) % Bits
               u == (filetable_len - 1) \div Bits
               v == (filetable_len - 1) % Bits
    <1>2. /\ q \in Nat /\ r \in 0 .. Bits - 1 /\ filetable_len + Bits - 1 = Bits * q + r
          /\ u \in Nat /\ v \in 0 .. Bits - 1 /\ filetable_len - 1 = Bits * u + v
      BY <1>1
    <1>3. Elems = q /\ Npos = q * Bits /\ Bit = 0 .. q * Bits - 1 /\ Elem(filetable_len - 1) = u
      BY DEF Elems, Npos, Bit, BitsOf, Elem
    <1> HIDE DEF q, r, u, v
    <1>4. Bits * q \in Nat /\ Bits * q = q * Bits
      BY <1>1, <1>2
    <1>5. q = u + 1
      <2>1. Bits * q + r = Bits * u + v + Bits
        BY <1>1, <1>2
      <2>2. Bits * (u + 1) = Bits * u + Bits /\ Bits * u \in Nat
        BY <1>1, <1>2
      <2>3. CASE q >= u + 2
        <3>1. Bits * q >= Bits * (u + 2)
          BY <1>1, <1>2, <2>3
        <3>2. Bits * (u + 2) = Bits * u + Bits + Bits
          BY <1>1, <1>2
        <3>3. QED
          BY <1>1, <1>2, <1>4, <2>1, <2>2, <3>1, <3>2
      <2>4. CASE q <= u
        <3>1. Bits * q <= Bits * u
          BY <1>1, <1>2, <2>4
        <3>2. QED
          BY <1>1, <1>2, <1>4, <2>1, <2>2, <3>1
      <2>5. QED
        BY <1>2, <2>3, <2>4
    <1>6. ASSUME NEW i \in Bit
          PROVE  /\ Elem(i) \in Nat /\ i >= Bits * Elem(i) /\ i < Bits * Elem(i) + Bits
                 /\ Bits * Elem(i) \in Nat
      <2>1. i \in Nat
        BY <1>1
      <2>2. i \div Bits \in Nat /\ i % Bits \in 0 .. Bits - 1 /\ i = Bits * (i \div Bits) + (i % Bits)
        BY <2>1, DivBits
      <2>3. Bits * (i \div Bits) \in Nat
        BY <1>1, <2>2
      <2>4. QED
        BY <1>1, <2>1, <2>2, <2>3 DEF Elem
    <1>7. ASSUME NEW i \in Bit PROVE Elem(i) < q /\ i # Npos
      <2>1. i < q * Bits /\ i \in Nat
        BY <1>1, <1>3, <1>4
      <2>2. CASE Elem(i) >= q
        <3>1. Bits * Elem(i) >= Bits * q
          <4>1. PICK e \in Nat : e = Elem(i)
            BY <1>6
          <4>2. Bits * e >= Bits * q
            BY <1>1, <1>2, <2>2, <4>1
          <4>3. QED
            BY <4>1, <4>2
        <3>2. QED
          BY <1>4, <1>6, <2>1, <3>1
      <2>3. QED
        BY <1>2, <1>3, <1>4, <1>6, <2>1, <2>2
    <1>8. ASSUME NEW i \in Bit, NEW j \in Bit, Elem(i) < Elem(j) PROVE i < j
      <2>1. Elem(i) \in Nat /\ Elem(j) \in Nat /\ Elem(j) >= Elem(i) + 1
        BY <1>6, <1>8
      <2>2. Bits * Elem(j) >= Bits * (Elem(i) + 1)
        BY <1>1, <2>1
      <2>3. Bits * (Elem(i) + 1) = Bits * Elem(i) + Bits
        BY <1>1, <2>1
      <2>4. i \in Nat /\ j \in Nat
        BY <1>1
      <2>5. QED
        BY <1>1, <1>6, <2>2, <2>3, <2>4
    <1>9. Elems \in Nat \ {0} /\ Npos \in Nat /\ Elem(filetable_len - 1) = Elems - 1
      BY <1>2, <1>3, <1>4, <1>5
    <1>10. \A i \in Bit : Elem(i) \in Nat /\ Elem(i) < Elems /\ i # Npos
      BY <1>3, <1>6, <1>7
    <1>11. \A i, j \in Bit : Elem(i) < Elem(j) => i < j
      BY <1>8
    <1>12. QED
      BY <1>1, <1>9, <1>10, <1>11

LEMMA LowestBitIs ==
    ASSUME TypeOK, filetable_len > 0, NEW bm \in SUBSET Bit, NEW elem,
           \E i \in bm : Elem(i) = elem
    PROVE  /\ LowestBit(bm, elem) \in bm /\ Elem(LowestBit(bm, elem)) = elem
           /\ \A j \in bm : Elem(j) = elem => LowestBit(bm, elem) <= j
    <1> DEFINE T == {i \in bm : Elem(i) = elem}
    <1>1. T \subseteq Nat /\ T # {}
      BY ElemFacts
    <1>2. PICK n \in T : \A m \in T : n <= m
      BY <1>1, LeastNat
    <1>3. \E i \in bm : Elem(i) = elem /\ \A j \in bm : Elem(j) = elem => i <= j
      BY <1>2
    <1>4. QED
      BY <1>3 DEF LowestBit

\* iel_bm_scan_clear finds the first bit of the elements from `it' on, and
\* leaves `it' behind its element.
Scanned(bm, it, s) ==
    /\ s.it > it /\ s.it <= Elems
    /\ IF s.idx = Npos THEN s.it = Elems /\ \A j \in bm : Elem(j) < it
       ELSE /\ s.idx \in bm /\ Elem(s.idx) >= it /\ s.it = Elem(s.idx) + 1
            /\ \A j \in bm : Elem(j) >= it => s.idx <= j

LEMMA ScanFinds ==
    ASSUME TypeOK, filetable_len > 0, NEW bm \in SUBSET Bit, NEW it \in Nat, it < Elems
    PROVE  ScanClear(bm, it) \in Scanning /\ Scanned(bm, it, ScanClear(bm, it))
    <1> DEFINE body == ScanBody(bm)
               s == [it |-> it, idx |-> Npos, done |-> FALSE]
               Passed(x) == /\ x.it >= it /\ x.it < Elems /\ x.idx = Npos
                            /\ \A j \in bm : Elem(j) < it \/ Elem(j) >= x.it
               T == {x \in Scanning : IF x.done THEN Scanned(bm, it, x) ELSE Passed(x)}
               m == [x \in T |-> IF x.done THEN 0 ELSE Elems - x.it]
    <1>1. /\ Elems \in Nat \ {0} /\ Npos \in Nat /\ bm \subseteq Nat
          /\ \A i \in bm : Elem(i) \in Nat /\ Elem(i) < Elems /\ i # Npos
          /\ \A i, j \in bm : Elem(i) < Elem(j) => i < j
      BY ElemFacts
    <1>2. s \in T
      <2>1. s \in Scanning /\ ~s.done
        BY <1>1 DEF Scanning
      <2>2. Passed(s)
        BY <1>1
      <2>3. QED
        BY <2>1, <2>2
    <1>3. ASSUME NEW x \in T
          PROVE  /\ body[x] \in T
                 /\ x.done => body[x] = x
                 /\ ~x.done => body[x].done \/ (body[x].it = x.it + 1 /\ x.it + 1 < Elems)
      <2>1. x \in Scanning /\ x.it \in Nat
        BY DEF Scanning
      <2>2. CASE x.done
        <3>1. body[x] = x
          BY <2>1, <2>2 DEF ScanBody
        <3>2. QED
          BY <2>2, <3>1
      <2>3. CASE ~x.done /\ \E i \in bm : Elem(i) = x.it
        <3>1. body[x] = [it |-> x.it + 1, idx |-> LowestBit(bm, x.it), done |-> TRUE]
          BY <2>1, <2>3 DEF ScanBody
        <3>2. PICK i \in bm : i = LowestBit(bm, x.it)
          BY <2>3, LowestBitIs
        <3>3. Elem(i) = x.it /\ \A j \in bm : Elem(j) = x.it => i <= j
          BY <2>3, <3>2, LowestBitIs
        <3>4. Passed(x)
          BY <2>3
        <3>5. \A j \in bm : Elem(j) >= it => i <= j
          <4> SUFFICES ASSUME NEW j \in bm, Elem(j) >= it PROVE i <= j
            OBVIOUS
          <4>1. Elem(j) >= x.it /\ Elem(j) \in Nat /\ i \in Nat /\ j \in Nat
            BY <1>1, <3>4
          <4>2. CASE Elem(j) = x.it
            BY <3>3, <4>2
          <4>3. CASE Elem(j) # x.it
            <5>1. Elem(i) < Elem(j)
              BY <2>1, <3>3, <4>1, <4>3
            <5>2. i < j
              BY <1>1, <5>1
            <5>3. QED
              BY <4>1, <5>2
          <4>4. QED
            BY <4>2, <4>3
        <3>6. body[x] \in Scanning /\ body[x].done /\ body[x].idx = i /\ body[x].it = x.it + 1
          BY <1>1, <2>1, <3>1, <3>2 DEF Scanning
        <3>7. /\ i # Npos /\ Elem(i) >= it /\ x.it + 1 = Elem(i) + 1
              /\ x.it + 1 > it /\ x.it + 1 <= Elems
          BY <1>1, <2>1, <3>2, <3>3, <3>4
        <3>8. Scanned(bm, it, body[x])
          BY <3>2, <3>5, <3>6, <3>7 DEF Scanned
        <3>9. QED
          BY <2>3, <3>6, <3>8
      <2>4. CASE ~x.done /\ ~\E i \in bm : Elem(i) = x.it
        <3>1. body[x] = [x EXCEPT !.it = x.it + 1, !.done = x.it + 1 >= Elems]
          BY <2>1, <2>4 DEF ScanBody
        <3>2. /\ body[x] \in Scanning /\ body[x].it = x.it + 1 /\ body[x].idx = x.idx
              /\ body[x].done = (x.it + 1 >= Elems)
          <4>1. (x.it + 1 >= Elems) \in BOOLEAN /\ x.it + 1 \in Nat
            BY <2>1
          <4>2. PICK b \in BOOLEAN : b = (x.it + 1 >= Elems)
            BY <4>1
          <4>3. QED
            BY <2>1, <3>1, <4>1, <4>2 DEF Scanning
        <3>3. Passed(x)
          BY <2>4
        <3>4. \A j \in bm : Elem(j) < it \/ Elem(j) >= x.it + 1
          BY <1>1, <2>1, <2>4, <3>3
        <3>5. CASE x.it + 1 >= Elems
          <4>1. x.it + 1 = Elems /\ x.it + 1 > it
            BY <1>1, <2>1, <3>3, <3>5
          <4>2. \A j \in bm : Elem(j) < it
            BY <1>1, <3>4, <4>1
          <4>3. Scanned(bm, it, body[x])
            BY <1>1, <3>2, <3>3, <4>1, <4>2 DEF Scanned
          <4>4. QED
            BY <2>4, <3>2, <3>5, <4>3
        <3>6. CASE ~(x.it + 1 >= Elems)
          <4>1. Passed(body[x])
            BY <1>1, <2>1, <3>2, <3>3, <3>4, <3>6
          <4>2. x.it + 1 < Elems
            BY <1>1, <2>1, <3>6
          <4>3. QED
            BY <2>4, <3>2, <3>6, <4>1, <4>2
        <3>7. QED
          BY <3>5, <3>6
      <2>5. QED
        BY <2>2, <2>3, <2>4
    <1>4. ASSUME NEW x \in T PROVE (IF x.done THEN 0 ELSE Elems - x.it) \in Nat
      BY <1>1 DEF Scanning
    <1>5. m \in [T -> Nat]
      BY <1>4
    <1>6. ASSUME NEW x \in T
          PROVE  (body[x] = x \/ m[body[x]] < m[x]) /\ (body[x] = x => x.done)
      <2>1. CASE x.done
        BY <1>3, <2>1
      <2>2. CASE ~x.done
        <3>1. x.it \in Nat /\ x.it < Elems /\ m[x] = Elems - x.it
          BY <2>2 DEF Scanning
        <3>2. body[x] \in T /\ (body[x].done \/ (body[x].it = x.it + 1 /\ x.it + 1 < Elems))
          BY <1>3, <2>2
        <3>3. m[body[x]] = IF body[x].done THEN 0 ELSE Elems - body[x].it
          BY <3>2
        <3>4. m[body[x]] < m[x]
          BY <1>1, <3>1, <3>2, <3>3
        <3>5. m[x] \in Nat
          BY <1>5
        <3>6. QED
          BY <2>2, <3>4, <3>5
      <2>3. QED
        BY <2>1, <2>2
    <1>7. Elems \in Nat /\ Elems >= m[s]
      BY <1>1, <1>2
    <1>8. ScanClear(bm, it) = After(Elems, body, s)
      BY DEF ScanClear
    <1> HIDE DEF body, s, m
    <1>9. \A x \in T : body[x] \in T
      BY <1>3
    <1>10. \A x \in T : body[x] = x \/ m[body[x]] < m[x]
      BY <1>6
    <1> DEFINE w == After(Elems, body, s)
    <1> HIDE DEF T
    <1>11. w \in T
      BY <1>2, <1>7, <1>9, AfterInvariant
    <1>12. body[w] = w
      BY <1>2, <1>5, <1>7, <1>9, <1>10, LoopEnds
    <1> HIDE DEF w
    <1>13. w.done
      BY <1>6, <1>11, <1>12
    <1>14. QED
      BY <1>8, <1>11, <1>13 DEF T, w

\* What the loop over the descriptors has done: it has picked, in order, the
\* lowest bits of the elements before `it', the last one of them of the
\* element just before, and cleared them.
PickedSoFar(n, s) ==
    /\ s \in Registering /\ s.it <= Elems /\ Len(s.picked) <= n
    /\ s.bm = filetable_bitmap \ Range(s.picked)
    /\ Range(s.picked) = {i \in LowestFree : Elem(i) < s.it}
    /\ \A j, k \in DOMAIN s.picked : j < k => s.picked[j] < s.picked[k]
    /\ IF ~s.done
       THEN /\ Len(s.picked) < n /\ s.it < Elems /\ ~s.npos
            /\ s.picked # <<>> => Elem(Last(s.picked)) + 1 = s.it
       ELSE IF s.npos
       THEN /\ Len(s.picked) < n /\ s.it = Elems
            /\ s.picked # <<>> => Elem(Last(s.picked)) + 1 < Elems
       ELSE /\ Len(s.picked) = n \/ s.it = Elems
            /\ s.picked # <<>> /\ Elem(Last(s.picked)) + 1 = s.it

\* The lowest bit that a scan finds is one of LowestFree, and the only one
\* among the elements it looks at.
LEMMA ScanPicks ==
    ASSUME TypeOK, filetable_len > 0, NEW n \in Nat, NEW s, PickedSoFar(n, s), s.it < Elems,
           NEW r, r \in Scanning, Scanned(s.bm, s.it, r)
    PROVE  IF r.idx = Npos THEN LowestFree = {i \in LowestFree : Elem(i) < s.it}
           ELSE /\ r.idx \in s.bm /\ r.idx \in Bit /\ r.it = Elem(r.idx) + 1
                /\ \A i \in Range(s.picked) : i < r.idx
                /\ {i \in LowestFree : Elem(i) < r.it}
                       = {i \in LowestFree : Elem(i) < s.it} \cup {r.idx}
    <1>1. /\ Bit \subseteq Nat
          /\ \A i \in Bit : Elem(i) \in Nat
          /\ \A i, j \in Bit : Elem(i) < Elem(j) => i < j
          /\ filetable_bitmap \subseteq Bit /\ LowestFree \subseteq filetable_bitmap
      BY ElemFacts DEF TypeOK, LowestFree
    <1>2. /\ s.it \in Nat /\ s.bm = filetable_bitmap \ Range(s.picked)
          /\ Range(s.picked) = {i \in LowestFree : Elem(i) < s.it}
      BY DEF PickedSoFar, Registering
    <1>3. \A i \in filetable_bitmap : Elem(i) >= s.it => i \in s.bm
      BY <1>1, <1>2
    <1>4. CASE r.idx = Npos
      <2>1. \A j \in s.bm : Elem(j) < s.it
        BY <1>4 DEF Scanned
      <2>2. \A i \in LowestFree : Elem(i) < s.it
        <3> SUFFICES ASSUME NEW i \in LowestFree, ~(Elem(i) < s.it) PROVE FALSE
          OBVIOUS
        <3>1. i \in Bit /\ Elem(i) \in Nat
          BY <1>1
        <3>2. Elem(i) >= s.it
          BY <1>2, <3>1
        <3>3. i \in s.bm
          BY <1>1, <1>3, <3>2
        <3>4. QED
          BY <2>1, <3>3
      <2>3. QED
        BY <1>4, <2>2
    <1>5. CASE r.idx # Npos
      <2> DEFINE x == r.idx
      <2>1. /\ x \in s.bm /\ Elem(x) >= s.it /\ r.it = Elem(x) + 1
            /\ \A j \in s.bm : Elem(j) >= s.it => x <= j
        BY <1>5 DEF Scanned
      <2>2. x \in filetable_bitmap /\ x \in Bit /\ x \in Nat /\ Elem(x) \in Nat
        BY <1>1, <1>2, <2>1
      <2>3. \A i \in filetable_bitmap : Elem(i) >= s.it => x <= i
        BY <1>3, <2>1
      <2> HIDE DEF x
      <2>4. x \in LowestFree
        <3> SUFFICES ASSUME NEW j \in filetable_bitmap, Elem(j) = Elem(x) PROVE x <= j
          BY <2>2 DEF LowestFree
        <3>1. QED
          BY <2>1, <2>3
      <2>5. ASSUME NEW i \in LowestFree, Elem(i) < r.it, ~(Elem(i) < s.it) PROVE i = x
        <3>1. i \in filetable_bitmap /\ i \in Bit /\ i \in Nat /\ Elem(i) \in Nat
          BY <1>1
        <3>2. Elem(i) >= s.it /\ Elem(i) <= Elem(x)
          BY <1>2, <2>1, <2>2, <2>5, <3>1
        <3>3. x <= i
          BY <2>3, <3>1, <3>2
        <3>4. Elem(i) = Elem(x)
          <4>1. ~(Elem(i) < Elem(x))
            <5>1. Elem(i) < Elem(x) => i < x
              BY <1>1, <2>2, <3>1
            <5>2. QED
              BY <2>2, <3>1, <3>3, <5>1
          <4>2. QED
            BY <2>2, <3>1, <3>2, <4>1
        <3>5. i <= x
          BY <2>2, <3>4 DEF LowestFree
        <3>6. QED
          BY <2>2, <3>1, <3>3, <3>5
      <2>6. \A i \in LowestFree : Elem(i) < s.it => Elem(i) < r.it
        <3> SUFFICES ASSUME NEW i \in LowestFree, Elem(i) < s.it PROVE Elem(i) < r.it
          OBVIOUS
        <3>1. Elem(i) \in Nat
          BY <1>1
        <3>2. QED
          BY <1>2, <2>1, <2>2, <3>1
      <2>7. Elem(x) < r.it
        BY <2>1, <2>2
      <2>8. {i \in LowestFree : Elem(i) < r.it} = {i \in LowestFree : Elem(i) < s.it} \cup {x}
        BY <2>4, <2>5, <2>6, <2>7
      <2>9. ASSUME NEW i \in Range(s.picked) PROVE i < x
        <3>1. i \in Bit /\ Elem(i) \in Nat /\ Elem(i) < s.it
          BY <1>1, <1>2
        <3>2. Elem(i) < Elem(x)
          BY <1>2, <2>1, <2>2, <3>1
        <3>3. QED
          BY <1>1, <2>2, <3>1, <3>2
      <2>10. QED
        BY <1>5, <2>1, <2>2, <2>8, <2>9 DEF x
    <1>6. QED
      BY <1>4, <1>5

LEMMA Appended ==
    ASSUME NEW S, NEW p \in Seq(S), NEW x \in S
    PROVE  /\ Append(p, x) \in Seq(S) /\ Append(p, x) # <<>>
           /\ Len(Append(p, x)) = Len(p) + 1 /\ DOMAIN Append(p, x) = 1 .. Len(p) + 1
           /\ \A k \in 1 .. Len(p) : Append(p, x)[k] = p[k]
           /\ Append(p, x)[Len(p) + 1] = x /\ Last(Append(p, x)) = x
           /\ Range(Append(p, x)) = Range(p) \cup {x}
    <1>1. /\ Append(p, x) \in Seq(S) /\ Len(Append(p, x)) = Len(p) + 1
          /\ DOMAIN Append(p, x) = 1 .. Len(p) + 1 /\ DOMAIN p = 1 .. Len(p) /\ Len(p) \in Nat
      OBVIOUS
    <1>2. \A k \in 1 .. Len(p) : Append(p, x)[k] = p[k]
      OBVIOUS
    <1>3. Append(p, x)[Len(p) + 1] = x
      OBVIOUS
    <1> DEFINE q == Append(p, x)
    <1> HIDE DEF q
    <1>4. q[Len(q)] = x /\ q # <<>>
      BY <1>1, <1>3 DEF q
    <1>5. Range(q) = Range(p) \cup {x}
      <2>1. DOMAIN q = DOMAIN p \cup {Len(p) + 1} /\ \A k \in DOMAIN p : q[k] = p[k]
        BY <1>1, <1>2 DEF q
      <2>2. q[Len(p) + 1] = x
        BY <1>3 DEF q
      <2>3. QED
        BY <2>1, <2>2 DEF Range
    <1>6. QED
      BY <1>1, <1>2, <1>3, <1>4, <1>5 DEF q, Last

LEMMA RegStep ==
    ASSUME TypeOK, filetable_len > 0, NEW n \in Nat \ {0}, NEW s, PickedSoFar(n, s)
    PROVE  /\ PickedSoFar(n, RegBody(n)[s])
           /\ s.done => RegBody(n)[s] = s
           /\ ~s.done => \/ RegBody(n)[s].done
                         \/ Len(RegBody(n)[s].picked) = Len(s.picked) + 1
    <1> DEFINE r == ScanClear(s.bm, s.it)
               t == RegBody(n)[s]
               p == s.picked
    <1>1. /\ s \in Registering /\ p \in Seq(Bit) /\ Len(p) \in Nat /\ Len(p) <= n
          /\ s.it \in Nat /\ s.it <= Elems /\ s.bm \in SUBSET Bit
          /\ DOMAIN p = 1 .. Len(p) /\ Elems \in Nat /\ s.done \in BOOLEAN
      BY ElemFacts DEF PickedSoFar, Registering
    <1>2. t = IF s.done THEN s
              ELSE IF r.idx = Npos THEN [s EXCEPT !.it = r.it, !.npos = TRUE, !.done = TRUE]
              ELSE [s EXCEPT !.bm = s.bm \ {r.idx}, !.it = r.it, !.picked = Append(p, r.idx),
                             !.done = ~(Len(p) + 1 < n /\ r.it < Elems)]
      BY <1>1 DEF RegBody
    <1> HIDE DEF t, r, p
    <1>3. CASE s.done
      BY <1>2, <1>3 DEF t
    <1>4. CASE ~s.done
      <2>1. /\ ~s.npos /\ Len(p) < n /\ s.it < Elems
            /\ p # <<>> => Elem(Last(p)) + 1 = s.it
            /\ s.bm = filetable_bitmap \ Range(p)
            /\ Range(p) = {i \in LowestFree : Elem(i) < s.it}
            /\ \A j, k \in DOMAIN p : j < k => p[j] < p[k]
        BY <1>4 DEF PickedSoFar, p
      <2>2. r \in Scanning /\ Scanned(s.bm, s.it, r)
        BY <1>1, <2>1, ScanFinds DEF r
      <2>3. r.it \in Nat /\ r.it > s.it /\ r.it <= Elems
        BY <2>2 DEF Scanning, Scanned
      <2>4. IF r.idx = Npos THEN LowestFree = {i \in LowestFree : Elem(i) < s.it}
            ELSE /\ r.idx \in s.bm /\ r.idx \in Bit /\ r.it = Elem(r.idx) + 1
                 /\ \A i \in Range(p) : i < r.idx
                 /\ {i \in LowestFree : Elem(i) < r.it}
                        = {i \in LowestFree : Elem(i) < s.it} \cup {r.idx}
        BY <2>1, <2>2, ScanPicks DEF p
      <2>5. CASE r.idx = Npos
        <3>1. t = [s EXCEPT !.it = r.it, !.npos = TRUE, !.done = TRUE]
          BY <1>2, <1>4, <2>5
        <3>2. r.it = Elems
          BY <2>2, <2>5 DEF Scanned
        <3>3. /\ t \in Registering /\ t.picked = p /\ t.bm = s.bm /\ t.it = Elems
              /\ t.done /\ t.npos
          BY <1>1, <3>1, <3>2 DEF Registering, p
        <3>4. \A i \in LowestFree : Elem(i) < Elems
          BY ElemFacts DEF TypeOK, LowestFree
        <3>5. Range(p) = {i \in LowestFree : Elem(i) < Elems}
          BY <2>1, <2>4, <2>5, <3>4
        <3>6. p # <<>> => Elem(Last(p)) + 1 < Elems
          BY <2>1
        <3>7. PickedSoFar(n, t)
          BY <1>1, <2>1, <3>3, <3>5, <3>6 DEF PickedSoFar
        <3>8. QED
          BY <1>4, <3>3, <3>7 DEF t
      <2>6. CASE r.idx # Npos
        <3> DEFINE q == Append(p, r.idx)
        <3>1. t = [s EXCEPT !.bm = s.bm \ {r.idx}, !.it = r.it, !.picked = q,
                            !.done = ~(Len(p) + 1 < n /\ r.it < Elems)]
          BY <1>2, <1>4, <2>6
        <3>2. /\ q \in Seq(Bit) /\ q # <<>> /\ Len(q) = Len(p) + 1 /\ DOMAIN q = 1 .. Len(p) + 1
              /\ \A k \in 1 .. Len(p) : q[k] = p[k]
              /\ q[Len(p) + 1] = r.idx /\ Last(q) = r.idx /\ Range(q) = Range(p) \cup {r.idx}
          BY <1>1, <2>4, <2>6, Appended
        <3> HIDE DEF q
        <3>3. /\ t \in Registering /\ t.picked = q /\ t.bm = s.bm \ {r.idx} /\ t.it = r.it
              /\ t.done = ~(Len(p) + 1 < n /\ r.it < Elems) /\ ~t.npos
          <4>1. PICK b \in BOOLEAN : b = ~(Len(p) + 1 < n /\ r.it < Elems)
            OBVIOUS
          <4>2. t = [s EXCEPT !.bm = s.bm \ {r.idx}, !.it = r.it, !.picked = q, !.done = b]
            BY <3>1, <4>1
          <4>3. s.bm \ {r.idx} \in SUBSET Bit
            BY <1>1
          <4>4. QED
            BY <1>1, <2>1, <2>3, <3>2, <4>1, <4>2, <4>3 DEF Registering
        <3>4. Range(q) = {i \in LowestFree : Elem(i) < r.it}
          BY <2>1, <2>4, <2>6, <3>2
        <3>5. t.bm = filetable_bitmap \ Range(q)
          BY <2>1, <3>2, <3>3
        <3>6. \A j, k \in DOMAIN q : j < k => q[j] < q[k]
          <4> SUFFICES ASSUME NEW j \in 1 .. Len(p) + 1, NEW k \in 1 .. Len(p) + 1, j < k
                       PROVE  q[j] < q[k]
            BY <3>2
          <4>1. j \in 1 .. Len(p) /\ q[j] = p[j]
            BY <1>1, <3>2
          <4>2. CASE k = Len(p) + 1
            <5>1. p[j] \in Range(p)
              BY <1>1, <4>1 DEF Range
            <5>2. QED
              BY <2>4, <2>6, <3>2, <4>1, <4>2, <5>1
          <4>3. CASE k # Len(p) + 1
            <5>1. k \in 1 .. Len(p) /\ q[k] = p[k]
              BY <1>1, <3>2, <4>3
            <5>2. QED
              BY <1>1, <2>1, <4>1, <5>1
          <4>4. QED
            BY <4>2, <4>3
        <3>7. Elem(Last(q)) + 1 = r.it
          BY <2>4, <2>6, <3>2
        <3>8. Len(q) <= n /\ r.it <= Elems
          BY <1>1, <2>1, <2>2, <3>2 DEF Scanned
        <3>9. IF ~t.done THEN Len(q) < n /\ r.it < Elems ELSE Len(q) = n \/ r.it = Elems
          <4>1. Len(q) \in Nat /\ Len(q) <= n /\ r.it <= Elems /\ Elems \in Nat /\ r.it \in Nat
            BY <1>1, <2>3, <3>2, <3>8
          <4>2. CASE Len(p) + 1 < n /\ r.it < Elems
            BY <3>2, <3>3, <4>2
          <4>3. CASE ~(Len(p) + 1 < n /\ r.it < Elems)
            <5>1. t.done /\ ~(Len(q) < n /\ r.it < Elems)
              BY <3>2, <3>3, <4>3
            <5>2. Len(q) = n \/ r.it = Elems
              BY <4>1, <5>1
            <5>3. QED
              BY <5>1, <5>2
          <4>4. QED
            BY <4>2, <4>3
        <3>10. PickedSoFar(n, t)
          BY <3>2, <3>3, <3>4, <3>5, <3>6, <3>7, <3>8, <3>9 DEF PickedSoFar
        <3>11. Len(t.picked) = Len(p) + 1
          BY <3>2, <3>3
        <3>12. QED
          BY <1>4, <3>10, <3>11 DEF t, p
      <2>7. QED
        BY <2>5, <2>6
    <1>5. QED
      BY <1>3, <1>4

LEMMA RegEnds ==
    ASSUME TypeOK, filetable_len > 0, NEW n \in Nat \ {0}
    PROVE  PickedSoFar(n, RegLoop(n)) /\ RegLoop(n).done
    <1> DEFINE body == RegBody(n)
               s == [bm |-> filetable_bitmap, it |-> 0, picked |-> <<>>, npos |-> FALSE,
                     done |-> FALSE]
               T == {x \in Registering : PickedSoFar(n, x)}
               m == [x \in T |-> IF x.done THEN 0 ELSE n - Len(x.picked)]
    <1>1. Elems \in Nat \ {0} /\ \A i \in Bit : Elem(i) \in Nat
      BY ElemFacts
    <1>2. s \in T
      <2>1. s \in Registering
        BY DEF Registering, TypeOK
      <2>2. Range(<<>>) = {} /\ Len(<<>>) = 0 /\ DOMAIN <<>> = {}
        BY DEF Range
      <2>3. {i \in LowestFree : Elem(i) < 0} = {}
        BY <1>1 DEF LowestFree, TypeOK
      <2>4. PickedSoFar(n, s)
        BY <1>1, <2>1, <2>2, <2>3 DEF PickedSoFar
      <2>5. QED
        BY <2>1, <2>4
    <1>3. \A x \in T : body[x] \in T
      BY RegStep DEF PickedSoFar
    <1>4. ASSUME NEW x \in T
          PROVE  /\ (IF x.done THEN 0 ELSE n - Len(x.picked)) \in Nat
                 /\ ~x.done => n - Len(x.picked) > 0
      <2>1. Len(x.picked) \in Nat /\ Len(x.picked) <= n
        BY DEF PickedSoFar, Registering
      <2>2. ~x.done => Len(x.picked) < n
        BY DEF PickedSoFar
      <2>3. QED
        BY <2>1, <2>2
    <1>5. m \in [T -> Nat]
      BY <1>4
    <1>6. ASSUME NEW x \in T
          PROVE  (body[x] = x \/ m[body[x]] < m[x]) /\ (body[x] = x => x.done)
      <2>1. CASE x.done
        BY <2>1, RegStep
      <2>2. CASE ~x.done
        <3>1. body[x] \in T /\ (body[x].done \/ Len(body[x].picked) = Len(x.picked) + 1)
          BY <1>3, <2>2, RegStep
        <3>2. m[x] = n - Len(x.picked) /\ m[x] \in Nat /\ m[x] > 0 /\ Len(x.picked) \in Nat
          BY <1>4, <2>2 DEF Registering
        <3>3. m[body[x]] = IF body[x].done THEN 0 ELSE n - Len(body[x].picked)
          BY <3>1
        <3>4. m[body[x]] < m[x]
          BY <3>1, <3>2, <3>3
        <3>5. QED
          BY <2>2, <3>2, <3>4
      <2>3. QED
        BY <2>1, <2>2
    <1>7. n >= m[s]
      BY <1>2
    <1>8. RegLoop(n) = After(n, body, s)
      BY DEF RegLoop
    <1> HIDE DEF body, s, m
    <1>9. \A x \in T : body[x] = x \/ m[body[x]] < m[x]
      BY <1>6
    <1> DEFINE w == After(n, body, s)
    <1> HIDE DEF T
    <1>10. w \in T
      BY <1>2, <1>3, AfterInvariant
    <1>11. body[w] = w
      BY <1>2, <1>3, <1>5, <1>7, <1>9, LoopEnds
    <1> HIDE DEF w
    <1>12. w.done
      BY <1>6, <1>10, <1>11
    <1>13. QED
      BY <1>8, <1>10, <1>12 DEF T, w

\* Two ways to pick the first lowest bits in order are the same.
LEMMA PicksFirst ==
    ASSUME NEW L, L \subseteq Nat, NEW q \in Nat, NEW x \in [1 .. q -> L], NEW y \in [1 .. q -> L],
           \A j, k \in 1 .. q : j < k => x[j] < x[k],
           \A j, k \in 1 .. q : j < k => y[j] < y[k],
           \A i \in L \ Range(x), k \in 1 .. q : x[k] < i,
           NEW k \in 1 .. q, \A j \in 1 .. q : j < k => x[j] = y[j]
    PROVE  x[k] <= y[k]
    <1>0. \A j \in 1 .. q : x[j] \in L /\ y[j] \in L /\ x[j] \in Nat /\ y[j] \in Nat
      OBVIOUS
    <1>1. y[k] \in L /\ x[k] \in Nat /\ y[k] \in Nat /\ k \in Nat
      BY <1>0
    <1>2. CASE y[k] \notin Range(x)
      BY <1>1, <1>2
    <1>3. CASE y[k] \in Range(x)
      <2>1. PICK j \in 1 .. q : y[k] = x[j]
        BY <1>3 DEF Range
      <2>2. j \in Nat /\ x[j] \in Nat
        BY <1>0
      <2>3. CASE j < k
        <3>1. y[k] = y[j] /\ y[j] < y[k]
          BY <2>1, <2>3
        <3>2. QED
          BY <1>1, <3>1
      <2>4. CASE j = k
        BY <1>1, <2>1, <2>4
      <2>5. CASE k < j
        <3>1. x[k] < x[j]
          BY <2>5
        <3>2. QED
          BY <1>1, <2>1, <3>1
      <2>6. QED
        BY <1>1, <2>2, <2>3, <2>4, <2>5
    <1>4. QED
      BY <1>2, <1>3

LEMMA PicksUnique ==
    ASSUME TypeOK, NEW n \in Nat, NEW x \in Picks(n), NEW y \in Picks(n)
    PROVE  x = y
    <1> DEFINE L == LowestFree
               q == IF n < Cardinality(L) THEN n ELSE Cardinality(L)
               T == {k \in Nat : \A j \in 1 .. q : j <= k => x[j] = y[j]}
    <1>1. L \subseteq Nat /\ q \in Nat
      <2>1. L \in SUBSET Bit /\ Bit \subseteq Nat /\ IsFiniteSet(Bit)
        BY TableFacts DEF LowestFree, TypeOK
      <2>2. Cardinality(L) \in Nat
        BY <2>1, FS_Subset, FS_CardinalityType
      <2>3. QED
        BY <2>1, <2>2
    <1>2. /\ x \in [1 .. q -> L] /\ y \in [1 .. q -> L]
          /\ \A j, k \in DOMAIN x : j < k => x[j] < x[k]
          /\ \A j, k \in DOMAIN y : j < k => y[j] < y[k]
          /\ \A i \in L \ Range(x), k \in DOMAIN x : x[k] < i
          /\ \A i \in L \ Range(y), k \in DOMAIN y : y[k] < i
      BY DEF Picks
    <1> HIDE DEF L, q
    <1>3. DOMAIN x = 1 .. q /\ DOMAIN y = 1 .. q
      BY <1>2
    <1>4. 0 \in T
      BY <1>1
    <1>5. ASSUME NEW k \in Nat, k \in T PROVE k + 1 \in T
      <2>1. \A j \in 1 .. q : j < k + 1 => x[j] = y[j]
        BY <1>1, <1>5
      <2>2. ASSUME k + 1 \in 1 .. q PROVE x[k + 1] = y[k + 1]
        <3>1. x[k + 1] <= y[k + 1]
          BY <1>1, <1>2, <1>3, <2>1, <2>2, PicksFirst
        <3>2. y[k + 1] <= x[k + 1]
          BY <1>1, <1>2, <1>3, <2>1, <2>2, PicksFirst
        <3>3. x[k + 1] \in Nat /\ y[k + 1] \in Nat
          BY <1>1, <1>2, <2>2
        <3>4. QED
          BY <3>1, <3>2, <3>3
      <2>3. ASSUME NEW j \in 1 .. q, j <= k + 1 PROVE x[j] = y[j]
        BY <1>1, <2>1, <2>2, <2>3
      <2>4. QED
        BY <2>3
    <1>6. q \in T
      <2> HIDE DEF T
      <2>1. Nat \subseteq T
        BY <1>4, <1>5, Induction
      <2>2. QED
        BY <1>1, <2>1
    <1>7. \A j \in 1 .. q : x[j] = y[j]
      BY <1>1, <1>6
    <1>8. x = [j \in 1 .. q |-> x[j]] /\ y = [j \in 1 .. q |-> y[j]]
      BY <1>2
    <1>9. QED
      BY <1>7, <1>8

\* What the loop has picked when it ends is what Picks allows.
LEMMA LoopPicks ==
    ASSUME TypeOK, filetable_len > 0, NEW n \in Nat \ {0}, NEW s, PickedSoFar(n, s), s.done
    PROVE  /\ s.picked \in Picks(n)
           /\ Overrun(s.picked, n) = s.npos
    <1> DEFINE p == s.picked
               L == LowestFree
    <1>1. /\ s \in Registering /\ p \in Seq(Bit) /\ Len(p) \in Nat /\ Len(p) <= n
          /\ s.npos \in BOOLEAN /\ s.it \in Nat /\ s.it <= Elems
          /\ DOMAIN p = 1 .. Len(p) /\ p \in [1 .. Len(p) -> Bit]
      BY DEF PickedSoFar, Registering
    <1>2. /\ Range(p) = {i \in L : Elem(i) < s.it}
          /\ \A j, k \in DOMAIN p : j < k => p[j] < p[k]
          /\ IF s.npos THEN Len(p) < n /\ s.it = Elems /\ (p # <<>> => Elem(Last(p)) + 1 < Elems)
             ELSE (Len(p) = n \/ s.it = Elems) /\ p # <<>> /\ Elem(Last(p)) + 1 = s.it
      BY DEF PickedSoFar
    <1>3. /\ L \in SUBSET Bit /\ Bit \subseteq Nat /\ IsFiniteSet(Bit) /\ Elems \in Nat
          /\ \A i \in Bit : Elem(i) \in Nat /\ Elem(i) < Elems
          /\ \A i, j \in Bit : Elem(i) < Elem(j) => i < j
          /\ Elem(filetable_len - 1) = Elems - 1
      BY ElemFacts DEF LowestFree, TypeOK
    <1>4. IsFiniteSet(L) /\ Cardinality(L) \in Nat
      BY <1>3, FS_Subset, FS_CardinalityType
    <1> HIDE DEF p, L
    <1>5. p \in [1 .. Len(p) -> L]
      <2>1. \A k \in 1 .. Len(p) : p[k] \in Range(p)
        BY <1>1 DEF Range
      <2>2. QED
        BY <1>1, <1>2, <2>1
    <1>6. \A j, k \in 1 .. Len(p) : p[j] = p[k] => j = k
      <2> SUFFICES ASSUME NEW j \in 1 .. Len(p), NEW k \in 1 .. Len(p), p[j] = p[k], j # k
                   PROVE  FALSE
        OBVIOUS
      <2>1. p[j] \in Nat /\ p[k] \in Nat /\ j \in Nat /\ k \in Nat
        <3>1. p[j] \in Bit /\ p[k] \in Bit
          BY <1>1
        <3>2. p[j] \in Nat /\ p[k] \in Nat
          <4>1. Bit \subseteq Nat
            BY <1>3
          <4>2. QED
            BY <3>1, <4>1
        <3>3. j \in Nat /\ k \in Nat
          BY <1>1
        <3>4. QED
          BY <3>2, <3>3
      <2>2. j < k \/ k < j
        BY <2>1
      <2>3. p[j] < p[k] \/ p[k] < p[j]
        BY <1>1, <1>2, <2>2
      <2>4. QED
        BY <2>1, <2>3
    <1>7. IsFiniteSet(1 .. Len(p)) /\ Cardinality(1 .. Len(p)) = Len(p)
      <2>1. 1 \in Int /\ Len(p) \in Int
        BY <1>1
      <2>2. /\ IsFiniteSet(1 .. Len(p))
            /\ Cardinality(1 .. Len(p)) = IF 1 > Len(p) THEN 0 ELSE Len(p) - 1 + 1
        BY <2>1, FS_Interval
      <2>3. QED
        BY <1>1, <2>2
    <1>8. p \in Injection(1 .. Len(p), L)
      BY <1>5, <1>6 DEF Injection, IsInjective
    <1>9. Len(p) <= Cardinality(L)
      BY <1>4, <1>7, <1>8, FS_Injection
    <1>10. s.it = Elems => Len(p) = Cardinality(L)
      <2> SUFFICES ASSUME s.it = Elems PROVE Len(p) = Cardinality(L)
        OBVIOUS
      <2>1. Range(p) = L
        BY <1>2, <1>3
      <2>2. p \in Surjection(1 .. Len(p), L)
        BY <1>1, <1>5, <2>1 DEF Surjection, Range
      <2>3. QED
        BY <1>4, <1>7, <1>8, <2>2, FS_Injection
    <1>11. Len(p) = n \/ s.it = Elems
      BY <1>2
    <1>12. Len(p) = IF n < Cardinality(L) THEN n ELSE Cardinality(L)
      <2>1. Len(p) = n \/ Len(p) = Cardinality(L)
        BY <1>10, <1>11
      <2>2. QED
        <3>1. Len(p) \in Nat /\ Len(p) <= n /\ n \in Nat
          BY <1>1
        <3>2. CASE n < Cardinality(L)
          BY <1>4, <2>1, <3>1, <3>2
        <3>3. CASE ~(n < Cardinality(L))
          BY <1>4, <1>9, <2>1, <3>1, <3>3
        <3>4. QED
          BY <3>2, <3>3
    <1>13. \A i \in L \ Range(p), k \in DOMAIN p : p[k] < i
      <2> SUFFICES ASSUME NEW i \in L, i \notin Range(p), NEW k \in DOMAIN p PROVE p[k] < i
        OBVIOUS
      <2>1. p[k] \in Range(p) /\ p[k] \in Bit /\ i \in Bit
        BY <1>1, <1>3 DEF Range
      <2>2. Elem(p[k]) < s.it /\ ~(Elem(i) < s.it) /\ Elem(i) \in Nat /\ Elem(p[k]) \in Nat
        BY <1>2, <1>3, <2>1
      <2>3. Elem(p[k]) < Elem(i)
        BY <1>1, <2>2
      <2>4. QED
        BY <1>3, <2>1, <2>3
    <1>14. p \in Picks(n)
      BY <1>2, <1>5, <1>12, <1>13 DEF Picks, L
    <1>15. p # <<>> => Elem(Last(p)) \in Nat
      <2>1. p # <<>> => Len(p) \in 1 .. Len(p)
        BY <1>1
      <2>2. p # <<>> => p[Len(p)] \in Bit
        BY <1>1, <2>1
      <2>3. QED
        BY <1>3, <2>2 DEF Last
    <1>16. Overrun(p, n) = s.npos
      <2>1. Overrun(p, n) <=> Len(p) < n /\ (p # <<>> => Elem(Last(p)) < Elems - 1)
        BY <1>3 DEF Overrun
      <2>2. Overrun(p, n) \in BOOLEAN
        BY DEF Overrun
      <2> DEFINE last == Elem(Last(p))
      <2>3. p # <<>> => last \in Nat
        BY <1>15
      <2>4. Elems \in Nat /\ n \in Nat /\ Len(p) \in Nat
        BY <1>1, <1>3
      <2>5. CASE s.npos
        <3>1. Len(p) < n /\ (p # <<>> => last + 1 < Elems)
          BY <1>2, <2>5
        <3>2. p # <<>> => last < Elems - 1
          BY <2>3, <2>4, <3>1
        <3>3. QED
          BY <1>1, <2>1, <2>2, <2>5, <3>1, <3>2
      <2>6. CASE ~s.npos
        <3>1. (Len(p) = n \/ s.it = Elems) /\ p # <<>> /\ last + 1 = s.it
          BY <1>2, <2>6
        <3>2. Len(p) < n => ~(last < Elems - 1)
          BY <2>3, <2>4, <3>1
        <3>3. QED
          BY <1>1, <2>1, <2>2, <2>6, <3>1, <3>2
      <2>7. QED
        BY <1>1, <2>5, <2>6
    <1>17. QED
      BY <1>14, <1>16 DEF p

LEMMA PickedByTheLoop == TypeOK => PickedIsTheLoop
    <1> SUFFICES ASSUME TypeOK, filetable_len > 0, NEW n \in 1 .. MaxArgs
                 PROVE  LET loop == RegLoop(n)
                        IN  /\ loop.done
                            /\ Picks(n) = {loop.picked}
                            /\ Overrun(loop.picked, n) = loop.npos
                            /\ loop.bm = filetable_bitmap \ Range(loop.picked)
      BY DEF PickedIsTheLoop
    <1>1. n \in Nat \ {0}
      BY FileTableAssumption
    <1>2. PickedSoFar(n, RegLoop(n)) /\ RegLoop(n).done
      BY <1>1, RegEnds
    <1>3. RegLoop(n).picked \in Picks(n) /\ Overrun(RegLoop(n).picked, n) = RegLoop(n).npos
      BY <1>1, <1>2, LoopPicks
    <1>4. \A x \in Picks(n) : x = RegLoop(n).picked
      BY <1>1, <1>3, PicksUnique
    <1>5. RegLoop(n).bm = filetable_bitmap \ Range(RegLoop(n).picked)
      BY <1>2 DEF PickedSoFar
    <1>6. QED
      BY <1>2, <1>3, <1>4, <1>5

\* In every bitmap that any life of the loop leaves behind, the closed forms
\* by which xreg is modelled are what its two loops do.
THEOREM ScansPick == LifeSpec => []PickedIsTheLoop
    <1>1. LInv => PickedIsTheLoop
      BY PickedByTheLoop DEF LInv, TInv
    <1>2. QED
      BY <1>1, LifeInvariant, PTL
=============================================================================
