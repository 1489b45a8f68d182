----------------------------- MODULE FileTable -----------------------------
(***************************************************************************)
(* xreg of src/backends/iou.c: the table of registered files, the bitmap   *)
(* of its free slots (iel_priv/bitmap.h), and the copy of the table that   *)
(* the kernel keeps, which follows it entry by entry and may stop at any.  *)
(* The bitmap is the set of the slots whose bit is set; an element of it   *)
(* is a block of Bits slots.                                               *)
(*                                                                         *)
(* handle[f] is the reg field of the caller's iel_pf_reg_fd for the raw    *)
(* descriptor f.  A caller registers a descriptor once, and gives up the   *)
(* handle when it deregisters it, whatever xreg returns.                   *)
(***************************************************************************)
EXTENDS Integers, FiniteSets, SequencesExt

CONSTANTS
    Fd,          \* raw file descriptors
    NoFd,        \* -1: an empty slot
    Inval,       \* IEL_PF_FD_R_INVAL
    Unset,       \* the reg field before xreg writes it
    MaxFiles,    \* max_files, when it is not 0
    Bits,        \* IEL_BM_BITS_IN_ELEM
    MaxArgs      \* bound: nr_args

ASSUME FileTableAssumption ==
    /\ MaxFiles \in Nat \ {0} /\ Bits \in Nat \ {0}
    /\ MaxArgs \in Nat
    /\ NoFd \notin Fd
    /\ Inval \notin Nat /\ Unset \notin Nat /\ Inval # Unset

VARIABLES
    filetable, filetable_bitmap, filetable_len,
    files,    \* the kernel's copy of filetable
    handle,
    claimed,  \* history: descriptors xreg said it registered
    lost,     \* history: slots whose deregistration failed
    behind,   \* history: slots the kernel has not followed since they changed,
              \* or where it stopped
    stray     \* history: a roll-back reached beyond the descriptors picked, or
              \* a descriptor was stored behind the end of the table

vars == <<filetable, filetable_bitmap, filetable_len, files, handle, claimed, lost, behind,
          stray>>

Slot == 0 .. filetable_len - 1

\* The bits of the bitmap of a table of len slots.  The last element is used as
\* a whole: it may have bits without slots.
BitsOf(len) == 0 .. ((len + Bits - 1) \div Bits) * Bits - 1

Bit == BitsOf(filetable_len)

Init ==
    /\ filetable_len \in {0, MaxFiles}
    /\ filetable = [i \in Slot |-> NoFd]
    /\ filetable_bitmap = Bit
    /\ files = filetable
    /\ handle = [f \in Fd |-> Unset]
    /\ claimed = {} /\ lost = {} /\ behind = {} /\ stray = FALSE

----------------------------------------------------------------------------

Elem(i) == i \div Bits

\* Mutant of LowestFree: the scan takes the highest bit.
HighestFree ==
    {i \in filetable_bitmap : \A j \in filetable_bitmap : Elem(j) = Elem(i) => j <= i}

\* iel_bm_scan_clear takes the lowest bit of the first element that has one,
\* and the next scan begins at the element behind it.
LowestFree ==
    {i \in filetable_bitmap : \A j \in filetable_bitmap : Elem(j) = Elem(i) => i <= j}

\* The slots one call picks for n descriptors, in order: the first n of the
\* lowest bits, or all of them.  (A set with the one sequence.)
Picks(n) ==
    LET m == Cardinality(LowestFree)
    IN  {p \in [1 .. (IF n < m THEN n ELSE m) -> LowestFree] :
            /\ \A j, k \in DOMAIN p : j < k => p[j] < p[k]
            /\ \A i \in LowestFree \ Range(p), k \in DOMAIN p : p[k] < i}

\* Mutant of Overrun: running out of slots is taken for the end of the bitmap.
OverrunIgnored(p, n) == FALSE

\* A scan found no bit: fewer slots than descriptors, and elements left that
\* are empty.  (With no element left the loop just ends.)
Overrun(p, n) ==
    Len(p) < n /\ (p # <<>> => Elem(Last(p)) < Elem(filetable_len - 1))

\* Mutant of Restored: the slots are not given back.
RestoredNone(p) == filetable_bitmap \ Range(p)

\* The bitmap after the roll-back of the slots picked.
Restored(p) == filetable_bitmap

\* The handles after slots p were picked for the first of the descriptors s.
Handed(s, p) ==
    [f \in Fd |-> IF \E k \in DOMAIN p : s[k] = f
                  THEN p[CHOOSE k \in DOMAIN p : s[k] = f]
                  ELSE handle[f]]

Filled(s, p) ==
    [i \in Slot |-> IF \E k \in DOMAIN p : p[k] = i
                    THEN s[CHOOSE k \in DOMAIN p : p[k] = i]
                    ELSE filetable[i]]

\* The roll-back resets what was picked.
RolledBack(s, p) ==
    [f \in Fd |-> IF \E k \in DOMAIN p : s[k] = f THEN Inval ELSE handle[f]]

\* Mutant of Updated: nr_args is passed for the length of the table.
UpdatedArgs(table, n) == [i \in Slot |-> IF i < n THEN table[i] ELSE files[i]]

\* What the kernel has when IORING_REGISTER_FILES_UPDATE gets through: the whole
\* table, whatever nr_args is.
Updated(table, n) == table

\* The entries it may stop at: to remove a file can fail, and to look one up.
StopsAt(table) == {k \in Slot : table[k] # NoFd \/ files[k] # NoFd}

\* What it has then: the entries before k.  At k the old file may be gone, when
\* it was the new one that failed.
UpdatedTo(table, k) ==
    {[i \in Slot |-> IF i < k THEN table[i] ELSE IF i = k THEN f ELSE files[i]] :
        f \in {files[k]} \cup (IF table[k] # NoFd THEN {NoFd} ELSE {})}

\* The call says it succeeded, for a table that differs in changed from the
\* last one: also when it stopped, behind the first entry, since it returns
\* how many it has done and xreg only asks whether that is negative.
Accepted(table, n, changed) ==
    \/ files' = Updated(table, n) /\ behind' = {}
    \/ \E k \in StopsAt(table) \ {0} :
          /\ files' \in UpdatedTo(table, k)
          /\ behind' = {i \in Slot : i = k \/ (i > k /\ i \in behind \cup changed)}

\* The call fails: before the first entry, or at it.
Refused(table) ==
    \/ UNCHANGED <<files, behind>>
    \/ 0 \in StopsAt(table) /\ files' \in UpdatedTo(table, 0) /\ behind' = behind \cup {0}

Args(s) ==
    /\ Len(s) \in 1 .. MaxArgs
    /\ IsInjective(s)
    /\ \A k \in DOMAIN s : handle[s[k]] \notin Bit

\* xreg without a table (max_files = 0).
RegNoTable(s) ==
    /\ Args(s) /\ filetable_len = 0
    /\ handle' = [f \in Fd |-> IF f \in Range(s) THEN Inval ELSE handle[f]]
    /\ UNCHANGED <<filetable, filetable_bitmap, filetable_len, files, claimed, lost, behind,
                   stray>>

\* xreg, IEL_XREG_FILES: every descriptor the loop reached is registered here,
\* and nr_args is returned, however far the kernel came.  One that got a bit
\* without a slot is stored behind the table, where the kernel does not read it.
RegFiles(s) ==
    /\ Args(s) /\ filetable_len > 0
    /\ \E p \in Picks(Len(s)) :
          /\ ~Overrun(p, Len(s))
          /\ filetable_bitmap' = filetable_bitmap \ Range(p)
          /\ filetable' = Filled(s, p)
          /\ Accepted(filetable', Len(s), Range(p))
          /\ handle' = Handed(s, p)
          /\ stray' = (stray \/ ~(Range(p) \subseteq Slot))
    /\ claimed' = claimed \cup Range(s)
    /\ UNCHANGED <<filetable_len, lost>>

\* The table is full: all that was picked is rolled back.  (A bit without a
\* slot is in the last element, which is not reached then.)
RegNoBufs(s) ==
    /\ Args(s) /\ filetable_len > 0
    /\ \E p \in Picks(Len(s)) :
          /\ Overrun(p, Len(s))
          /\ filetable_bitmap' = Restored(p)
          /\ handle' = RolledBack(s, p)
    /\ UNCHANGED <<filetable, filetable_len, files, claimed, lost, behind, stray>>

\* The kernel refuses the table, and is not told of the roll-back.  That begins
\* one element behind the last one picked, at an out[] entry that may hold any
\* slot number.  (Client has what that entry is in the repository's program.)
\* (Bound: one such roll-back for each loop.)
RegRefused(s) ==
    /\ Args(s) /\ filetable_len > 0 /\ ~stray
    /\ \E p \in Picks(Len(s)) :
          /\ ~Overrun(p, Len(s))
          /\ handle' = RolledBack(s, p)
          /\ Refused(Filled(s, p))
    /\ \E i \in Slot :
          /\ filetable_bitmap' = filetable_bitmap \cup {i}
          /\ filetable' = [filetable EXCEPT ![i] = NoFd]
    /\ stray' = TRUE
    /\ UNCHANGED <<filetable_len, claimed, lost>>

\* (A bit without a slot: behind the table.)
Emptied(i) == [j \in Slot |-> IF j = i THEN NoFd ELSE filetable[j]]

\* iel_bm_set
Freed(i) == filetable_bitmap \cup {i}

Forget(f) == handle' = [handle EXCEPT ![f] = Unset] /\ claimed' = claimed \ {f}

\* xreg, IEL_XREG_DE_FILES with IEL_FLAG_XREG_DRG; IEL_FLAG_XREG_DEL closes
\* the descriptor too, and a close that fails changes nothing here.
DeReg(f) ==
    /\ handle[f] \in Bit
    /\ filetable' = Emptied(handle[f])
    /\ Accepted(filetable', 1, {handle[f]})
    /\ filetable_bitmap' = Freed(handle[f])
    /\ Forget(f)
    /\ UNCHANGED <<filetable_len, lost, stray>>

\* The kernel refuses: the slot is emptied here, and is not free.
DeRegRefused(f) ==
    /\ handle[f] \in Bit
    /\ filetable' = Emptied(handle[f])
    /\ Refused(filetable')
    /\ lost' = lost \cup {handle[f]}
    /\ Forget(f)
    /\ UNCHANGED <<filetable_bitmap, filetable_len, stray>>

\* IEL_FLAG_XREG_DEL alone, for a descriptor without a registered one.
CloseRaw(f) ==
    /\ handle[f] \notin Bit
    /\ Forget(f)
    /\ UNCHANGED <<filetable, filetable_bitmap, filetable_len, files, lost, behind, stray>>

ArgSeqs == UNION {[1 .. n -> Fd] : n \in 1 .. MaxArgs}

Next ==
    \/ \E s \in ArgSeqs : RegNoTable(s) \/ RegFiles(s) \/ RegNoBufs(s) \/ RegRefused(s)
    \/ \E f \in Fd : DeReg(f) \/ DeRegRefused(f) \/ CloseRaw(f)

Spec == Init /\ [][Next]_vars

----------------------------------------------------------------------------
(* Properties *)

TypeOK ==
    /\ filetable_len \in 0 .. MaxFiles /\ stray \in BOOLEAN
    /\ filetable \in [Slot -> Fd \cup {NoFd}]
    /\ files \in [Slot -> Fd \cup {NoFd}]
    /\ filetable_bitmap \subseteq Bit
    /\ handle \in [Fd -> Bit \cup {Inval, Unset}]
    /\ claimed \subseteq Fd
    /\ lost \subseteq Bit /\ behind \subseteq Slot

Owned == {f \in Fd : handle[f] \in Bit}

\* Across registrations that are rolled back and deregistrations that fail: a
\* slot is free, lost, or the handle of exactly one descriptor, and is what
\* the bitmap and the table say (until a roll-back or a store strays).
SlotsOwned ==
    ~stray =>
        /\ filetable_bitmap = Bit \ (lost \cup {handle[f] : f \in Owned})
        /\ \A f, g \in Owned : handle[f] = handle[g] => f = g
        /\ \A f \in Owned : handle[f] \notin lost /\ filetable[handle[f]] = f
        /\ \A i \in Slot : filetable[i] = NoFd \/ \E f \in Owned : handle[f] = i

\* A handle the caller holds names its descriptor in the kernel's table too,
\* and an empty slot is empty there, but for two things: a slot that was lost,
\* and one that an update which stopped short, and which xreg took for done,
\* has left behind; the next that gets as far makes up for it.
KernelAgrees ==
    ~stray =>
        \A i \in Slot \ behind : files[i] # filetable[i] => i \in lost /\ filetable[i] = NoFd

\* The bitmap has a bit for each slot and, in its last element, perhaps more.
\* The scan must come to those last: a descriptor is stored behind the end of
\* the table only when all slots that share an element with the end are taken.
PastTheEndLast ==
    [][\A f \in Fd :
          handle'[f] \in Bit' \ Slot' /\ handle'[f] # handle[f] =>
              \A i \in filetable_bitmap \cap Slot : Elem(i) # Elem(handle'[f])]_vars

\* prbuf.md on the value xreg returns, "`nr_args`: all succeeded".
AllSucceeded == claimed \subseteq Owned
=============================================================================
