--------------------------- MODULE PerfectSizes ---------------------------
(***************************************************************************)
(* The sizes that findhash in src/lib/perfect/perfect.c chooses for a      *)
(* number of keys, and how they grow as the search fails, whatever the     *)
(* keys are.                                                               *)
(***************************************************************************)
EXTENDS PerfectOps, TLC

CONSTANTS
    NKeys,          \* numbers of keys
    FormSet,        \* user directives
    Unset,          \* what the uninitialised *blen of driver may hold
    SCRAMBLE_LEN,   \* length of scramble[]
    UB1MAXVAL, UB2MAXVAL

VARIABLES nkeys, form, sz, phase
vars == <<nkeys, form, sz, phase>>

Init ==
    /\ nkeys \in NKeys /\ form \in FormSet
    /\ \E u \in Unset : sz = [smax |-> 0, alen |-> 0, blen |-> u]
    /\ phase = "start"

findhash ==
    /\ phase = "start"
    /\ phase' = "searching"
    /\ sz' = initalen(nkeys, form, sz.blen)
    /\ UNCHANGED <<nkeys, form>>

NoDistinctPairs ==
    /\ phase = "searching" /\ nkeys > 1 /\ CanGrowForKeys(form, sz)
    /\ sz' = GrowForKeys(form, sz)
    /\ UNCHANGED <<nkeys, form, phase>>

NoMapping ==
    /\ phase = "searching" /\ nkeys > 1 /\ CanGrowTable(sz)
    /\ sz' = GrowTable(sz)
    /\ UNCHANGED <<nkeys, form, phase>>

Next == findhash \/ NoDistinctPairs \/ NoMapping
Spec == Init /\ [][Next]_vars
-----------------------------------------------------------------------------
Searching == phase = "searching"
Powers == {2^i : i \in 0 .. 30}
\* The values that augment tries for an entry of the table, and the types make_h and
\* make_c give it.
limit(s) == IF s.blen < USE_SCRAMBLE THEN s.smax ELSE UB1MAXVAL + 1
ExternMax(s) == IF s.smax <= UB1MAXVAL + 1 \/ s.blen >= USE_SCRAMBLE THEN UB1MAXVAL ELSE UB2MAXVAL
EntryMaxBytes(s) == UB1MAXVAL
EntryMax(s) == IF s.smax <= UB1MAXVAL + 1 \/ s.blen >= USE_SCRAMBLE THEN UB1MAXVAL ELSE UB2MAXVAL

\* "alen and blen must be powers of 2 because the values in 0..alen-1 and 0..blen-1
\* are produced by applying a bitmask" (perfect.c:707).  For one key, which needs no
\* pair, the sizes of a minimal hash are 0: case 0 falls through (perfect.c:764).
PowersOfTwo ==
    Searching =>
        /\ sz.smax \in Powers
        /\ IF nkeys = 1 /\ form.perfect = "MINIMAL_HP" THEN sz.alen = 0 /\ sz.blen = 0 ELSE {sz.alen, sz.blen} \subseteq Powers

\* alen comes from *blen before that is assigned (perfect.c:743).
FromUnset == form.hashtype = "INT_HT" /\ form.perfect = "NORMAL_HP" /\ sz.smax > 131072

\* "alen must be less than smax, in fact less than nkeys" for a minimal hash
\* (perfect.c:710).  apply indexes tabh, of nkeys or smax entries, with a itself.
AlenInTabh ==
    Searching /\ ~FromUnset =>
        /\ sz.alen <= highhash(form, nkeys, sz.smax)
        /\ form.perfect = "MINIMAL_HP" => sz.alen < nkeys

\* Whatever growth did to blen, augment reads inside scramble[], val_b of ub2 holds
\* the value, and the entry that make_c prints fits the type that make_c, and phash.h too, declares.
\* Code for pairs of more bits than a word always reads scramble[tab[b]], so these
\* must come with a table that is scrambled.
EntriesFit ==
    Searching =>
        /\ limit(sz) <= SCRAMBLE_LEN /\ limit(sz) - 1 <= UB2MAXVAL
        /\ (IF sz.blen < USE_SCRAMBLE THEN sz.smax ELSE limit(sz)) - 1 <= EntryMax(sz)
        /\ ExternMax(sz) = EntryMax(sz)
        /\ mylog2(sz.alen) + mylog2(sz.blen) > UB4BITS => sz.blen >= USE_SCRAMBLE

\* permute is a permutation of 0..smax-1 that leaves 0 where it is, so the values of
\* scramble[] are distinct (perfect.c:79, :100).
ScramblePermutes ==
    Searching /\ sz.smax <= 32 =>
        /\ {permute(i, mylog2(sz.smax)) : i \in 0 .. sz.smax - 1} = 0 .. sz.smax - 1
        /\ permute(0, mylog2(sz.smax)) = 0

=============================================================================
