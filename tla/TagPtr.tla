------------------------------- MODULE TagPtr -------------------------------
(***************************************************************************)
(* Tagged pointers (src/tagptr.c, iel_priv/tp_tagh.tpl.h): a tag is stored *)
(* in the top bits of an address that the processor does not use and, when *)
(* it is longer, in the low bits that alignment leaves free.  iel_tp_init  *)
(* picks the functions for the processor with three separate relaxed       *)
(* stores, and each thread of the process may call it, any number of times.*)
(*                                                                         *)
(* A word is the set of the numbers of its bits that are 1, out of W: OR   *)
(* is union, a mask intersection and a shift adds to the numbers.  Tags    *)
(* are counted by the callers, so a tag is a number and Bits its word.     *)
(* An alignment is the number of low bits it leaves free.                  *)
(* (The one build there is has IEL_PF_MMLOWUSER: addresses are not         *)
(* negative and no sign is extended.)                                      *)
(***************************************************************************)
EXTENDS Integers, Loops

CONSTANTS
    W,          \* bits of a uintptr_t
    LA48_TAGH,  \* top bits free for a tag with 4-level paging ...
    LA57_TAGH,  \* ... and with 5-level paging
    Aligns,     \* alignments in use
    Thread      \* threads that call iel_tp_init

ASSUME TagPtrAssumption ==
    /\ W \in Nat /\ LA48_TAGH \in 1 .. W /\ LA57_TAGH \in 1 .. LA48_TAGH
    /\ Aligns \subseteq 0 .. W - LA48_TAGH - 1

VARIABLES
    cpu,        \* what CPUID says: no leaf 0x80000008, or its la_bits
    tp_v, utp_v, maxtag_shl,
    at          \* where each thread is in iel_tp_init

tpVars == <<cpu, tp_v, utp_v, maxtag_shl, at>>

----------------------------------------------------------------------------
(* Words *)

Word == SUBSET (0 .. W - 1)

\* 1 << n
Pow2(n) == After(n, [x \in Nat |-> 2 * x], 1)

\* n >> b
Halved(n, b) == After(b, [x \in Nat |-> x \div 2], n)

\* The word of a number.
Bits(n) == {b \in 0 .. W - 1 : Halved(n, b) % 2 = 1}

\* w & ((1 << n) - 1), w >> n and w << n
Low(w, n) == w \cap 0 .. n - 1
Shr(w, n) == {b - n : b \in w \ 0 .. n - 1}
Shl(w, n) == {b + n : b \in w} \cap 0 .. W - 1

----------------------------------------------------------------------------
(* The functions *)

Fn == {"l", "la48", "la57"}
Tagh(fn) == CASE fn = "l" -> 0 [] fn = "la48" -> LA48_TAGH [] fn = "la57" -> LA57_TAGH

\* LA_BITS
LaBits(fn) == W - Tagh(fn)

\* The addresses a program can hold with each kind of paging.
UserPtr(fn) == (SUBSET (0 .. LaBits(fn) - 1)) \ {{}}

Aligned(ptr, al) == Low(ptr, al) = {}

\* tp_l; tp_la48 and tp_la57: the low bits of the tag go to the top of the
\* word and the rest to its bottom.
Tag(fn, ptr, tag) ==
    IF fn = "l" THEN ptr \cup tag
    ELSE Low(ptr, LaBits(fn)) \cup Shr(tag, Tagh(fn)) \cup Shl(Low(tag, Tagh(fn)), LaBits(fn))

\* Mutant of Address: the low bits of the tag stay in the address.
AddressTagged(fn, ptr, al) == Low(ptr, LaBits(fn))

\* The address without the tag.
Address(fn, ptr, al) == Low(ptr \ 0 .. al - 1, LaBits(fn))

\* utp_l, utp_la48 and utp_la57.
Untag(fn, ptr, al) ==
    [tag |-> IF fn = "l" THEN Low(ptr, al)
             ELSE Shr(ptr, LaBits(fn)) \cup Shl(Low(ptr, al), Tagh(fn)),
     ptr |-> Address(fn, ptr, al)]

\* iel_tp_max, for an alignment and the shift that was stored.
MaxTag(al, shl) == IF al + shl < W THEN Pow2(al + shl) ELSE 0

----------------------------------------------------------------------------
(* iel_tp_init *)

TpInit ==
    /\ cpu \in {"noleaf", "48", "57", "other"}
    /\ tp_v = "null" /\ utp_v = "null" /\ maxtag_shl = 0
    /\ at = [t \in Thread |-> "new"]

\* Which functions iel_tp_init stores.
Picked == CASE cpu = "48" -> "la48" [] cpu = "57" -> "la57" [] OTHER -> "l"

StoreTp(t) ==
    /\ at[t] \in {"new", "ready"}
    /\ at' = [at EXCEPT ![t] = "utp"]
    /\ tp_v' = Picked
    /\ UNCHANGED <<cpu, utp_v, maxtag_shl>>

StoreUtp(t) ==
    /\ at[t] = "utp"
    /\ at' = [at EXCEPT ![t] = "max"]
    /\ utp_v' = Picked
    /\ UNCHANGED <<cpu, tp_v, maxtag_shl>>

\* (Without tags in the top bits the shift stays what it is at first.)
StoreMax(t) ==
    /\ at[t] = "max"
    /\ at' = [at EXCEPT ![t] = "ready"]
    /\ maxtag_shl' = IF Picked = "l" THEN maxtag_shl ELSE Tagh(Picked)
    /\ UNCHANGED <<cpu, tp_v, utp_v>>

Initialise(t) == StoreTp(t) \/ StoreUtp(t) \/ StoreMax(t)

----------------------------------------------------------------------------

\* With these functions and this shift, what iel_tp_tag returns is not NULL,
\* and untags to the address and the tag it was made from; also with a greater
\* alignment that the address has, as dev/tagptr.c does.
TripsBack(tp, utp, shl) ==
    \A al \in Aligns :
        /\ MaxTag(al, shl) > 0
        /\ \A more \in {a \in Aligns : a >= al}, tag \in 0 .. MaxTag(al, shl) - 1 :
              \A ptr \in {p \in UserPtr(utp) : Aligned(p, more)} :
                  LET tagged == Tag(tp, ptr, Bits(tag))
                  IN  /\ tagged # {}
                      /\ Untag(utp, tagged, more) = [tag |-> Bits(tag), ptr |-> ptr]

\* The combinations of the three stored values with which all trips do.  (As a
\* union, which TLC evaluates once.)
RoundTrips ==
    UNION {IF TripsBack(s[1], s[2], s[3]) THEN {s} ELSE {} :
              s \in Fn \X Fn \X {0, LA48_TAGH, LA57_TAGH}}

\* tagptr.h: "tag contains the tag paremeter passed to iel_tp_tag()" and "The
\* returned ptr will be untagged and is guaranteed to be non-NULL": so it is
\* for a thread that has called iel_tp_init, while others are within theirs.
RoundTrip ==
    (\E t \in Thread : at[t] = "ready") =>
        <<tp_v, utp_v, maxtag_shl>> \in RoundTrips
=============================================================================
