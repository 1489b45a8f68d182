------------------------------ MODULE FileScan ------------------------------
(***************************************************************************)
(* The two nested loops by which xreg finds free slots: the one of         *)
(* iel_bm_scan_clear over the elements of the bitmap, and the one of       *)
(* ielb_ioux_regfiles over the descriptors.                                *)
(***************************************************************************)
EXTENDS FileTable, Loops

\* bmsz
Elems == (filetable_len + Bits - 1) \div Bits

\* IEL_BM_NPOS: no bit has this number.
Npos == Elems * Bits

\* The lowest bit of an element.
LowestBit(bm, elem) == CHOOSE i \in bm : Elem(i) = elem /\ \A j \in bm : Elem(j) = elem => i <= j

\* What iel_bm_scan_clear changes: ch_idx, ret, and whether it has ended.
Scanning == [it : Nat, idx : Nat, done : BOOLEAN]

ScanBody(bm) ==
    [s \in Scanning |->
        IF s.done THEN s
        ELSE IF \E i \in bm : Elem(i) = s.it
        THEN [it |-> s.it + 1, idx |-> LowestBit(bm, s.it), done |-> TRUE]
        ELSE [s EXCEPT !.it = @ + 1, !.done = s.it + 1 >= Elems]]

\* From element `it': the bit it finds (the caller clears it here), and the
\* next `it'.
ScanClear(bm, it) == After(Elems, ScanBody(bm), [it |-> it, idx |-> Npos, done |-> FALSE])

\* What the loop over the descriptors changes: the bitmap, `it', the slots it
\* has picked, whether a scan has failed, and whether it has ended.
Registering ==
    [bm : SUBSET Bit, it : Nat, picked : Seq(Bit), npos : BOOLEAN, done : BOOLEAN]

RegBody(n) ==
    [s \in Registering |->
        LET scan == ScanClear(s.bm, s.it)
        IN  IF s.done THEN s
            ELSE IF scan.idx = Npos
            THEN [s EXCEPT !.it = scan.it, !.npos = TRUE, !.done = TRUE]
            ELSE [s EXCEPT !.bm = @ \ {scan.idx}, !.it = scan.it,
                           !.picked = Append(@, scan.idx),
                           !.done = ~(Len(s.picked) + 1 < n /\ scan.it < Elems)]]

\* ielb_ioux_regfiles for n descriptors, up to the call of the kernel.
RegLoop(n) ==
    After(n, RegBody(n),
          [bm |-> filetable_bitmap, it |-> 0, picked |-> <<>>, npos |-> FALSE, done |-> FALSE])

\* Picks and Overrun, by which xreg is modelled, are what the two loops do, in
\* every bitmap the table reaches: they pick these slots in this order, clear
\* their bits and no others, and run out of slots in exactly these cases.
PickedIsTheLoop ==
    filetable_len > 0 =>
        \A n \in 1 .. MaxArgs :
            LET loop == RegLoop(n)
            IN  /\ loop.done
                /\ Picks(n) = {loop.picked}
                /\ Overrun(loop.picked, n) = loop.npos
                /\ loop.bm = filetable_bitmap \ Range(loop.picked)
=============================================================================
