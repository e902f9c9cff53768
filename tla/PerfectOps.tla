---------------------------- MODULE PerfectOps ----------------------------
(***************************************************************************)
(* src/lib/perfect/perfect.c: the sizes of the search and the permutation  *)
(* that it uses.  form is [hashtype, perfect, speed]; sizes are a record   *)
(* [smax, alen, blen].                                                     *)
(***************************************************************************)
EXTENDS Integers, Bitwise

CONSTANTS
    UB4BITS,        \* bits of a word
    USE_SCRAMBLE    \* a table of this length or more is scrambled

Hashtypes == {"STRING_HT", "INT_HT", "AB_HT"}
Forms == [hashtype : Hashtypes, perfect : {"NORMAL_HP", "MINIMAL_HP"}, speed : {"FAST_HS", "SLOW_HS"}]

RECURSIVE LogFrom(_, _)
LogFrom(v, i) == IF 2^i < v THEN LogFrom(v, i + 1) ELSE i
mylog2(v) == LogFrom(v, 0)

\* Twenty rounds; x + (x << c) and x ^ (x >> c) are undone one after the other.
\* (A singleton set has TLC compute its element once.)
Round(x, n) ==
    LET mask == 2^n
        a == (x + x * 2^(1 + (n \div 2))) % mask
        b == a ^^ (a \div 2^(1 + (n \div 3)))
        c == (b + b * 2^(1 + (n \div 4))) % mask
    IN  c ^^ (c \div 2^(1 + (n \div 5)))
RECURSIVE Rounds(_, _, _)
Rounds(x, n, i) == IF i = 0 THEN x ELSE CHOOSE y \in {Round(z, n) : z \in {Rounds(x, n, i - 1)}} : TRUE
permute(x, nbits) == Rounds(x, nbits, 20)

\* The least power of 2 that holds n hashes, and the number of legal hashes.
PowerFor(n) == 2^mylog2(n)
highhash(form, nkeys, smax) == IF form.perfect = "MINIMAL_HP" THEN nkeys ELSE smax

\* Is n <= smax * percent / 100?
AtMost(n, smax, percent) == n * 100 <= smax * percent
AtLeast1(n) == IF n < 1 THEN 1 ELSE n

\* A perfect hash.  unset is what *blen holds before it is assigned.
NormalSizes(n, form, smax0, unset) ==
    LET fast == form.speed = "FAST_HS"
        int == form.hashtype = "INT_HT"
        smax == IF fast /\ ~AtMost(n, smax0, 80) THEN smax0 * 2 ELSE smax0
        alen == IF int /\ smax > 131072 THEN 2^(UB4BITS - mylog2(unset)) ELSE smax
        blen == IF int /\ smax < 32 THEN smax
                ELSE IF smax \div 4 <= 2^14
                THEN smax \div (IF AtMost(n, smax, 56) THEN 32 ELSE IF AtMost(n, smax, 74) THEN 16 ELSE 8)
                ELSE smax \div (IF AtMost(n, smax, 60) THEN 16 ELSE IF AtMost(n, smax, 80) THEN 8 ELSE 4)
    IN  [smax |-> smax, alen |-> AtLeast1(alen),
         blen |-> AtLeast1(IF fast /\ blen < smax \div 8 THEN smax \div 8 ELSE blen)]

\* A minimal perfect hash.  The case 0 of the switch falls through to the next one.
MinimalSizes(n, form, smax) ==
    LET log == mylog2(smax)
        fast == form.speed = "FAST_HS"
        ab == CASE log <= 8 -> <<2, 2>>
                [] log \in 9 .. 17 /\ fast -> <<2, 4>>
                [] log \in 9 .. 17 /\ ~fast /\ smax \div 4 < USE_SCRAMBLE ->
                      IF AtMost(n, smax, 52) THEN <<8, 8>> ELSE <<4, 4>>
                [] log \in 9 .. 17 /\ ~fast /\ smax \div 4 >= USE_SCRAMBLE ->
                      <<IF 8 * n <= 5 * smax THEN 8 ELSE IF 4 * n <= 3 * smax THEN 4 ELSE 2, 4>>
                [] log = 18 /\ fast -> <<2, 2>>
                [] log = 18 /\ ~fast -> <<8, IF 8 * n <= 5 * smax THEN 4 ELSE 2>>
                [] log \in {19, 20} -> IF 8 * n <= 5 * smax THEN <<8, 4>> ELSE <<2, 2>>
                [] OTHER -> <<2, 2>>
    IN  [smax |-> smax, alen |-> smax \div ab[1], blen |-> smax \div ab[2]]

initalen(n, form, unset) ==
    IF form.perfect = "NORMAL_HP" THEN NormalSizes(n, form, PowerFor(n), unset)
    ELSE MinimalSizes(n, form, PowerFor(n))

maxalen(form, smax) == IF form.perfect = "MINIMAL_HP" THEN smax \div 2 ELSE smax

\* More bits, after too many failures to find distinct pairs, or to fill the table.
CanGrowForKeys(form, sz) == sz.alen < maxalen(form, sz.smax) \/ sz.blen < sz.smax
GrowForKeys(form, sz) ==
    IF sz.alen < maxalen(form, sz.smax) THEN [sz EXCEPT !.alen = @ * 2] ELSE [sz EXCEPT !.blen = @ * 2]
CanGrowTable(sz) == sz.blen < sz.smax
GrowTable(sz) == [sz EXCEPT !.blen = @ * 2]
=============================================================================
