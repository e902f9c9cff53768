----------------------------- MODULE MCGenerator -----------------------------
(***************************************************************************)
(* The perfect hash generator for TLC: Perfect, PerfHex and PerfectSizes.  *)
(* Every behaviour is one run of one of them, which says which and for     *)
(* what input; the variables only the others have are Off.                 *)
(***************************************************************************)
EXTENDS PerfectOps, Sequences, FiniteSets

VARIABLES which,
          form, sz, phase, code, ak, bk, wide,          \* of several of them
          texts, scramble, words, list, val, water, tabh, mapped,
          badInitkey, badPerfect, resalt, qlen,         \* Perfect
          keys, minimal, alen, blen, salt, final, status, tried,        \* PerfHex
          nkeys                                         \* PerfectSizes

Off == "off"
searchVars == <<texts, scramble, words, list, val, water, tabh, mapped, badInitkey, badPerfect, resalt, qlen>>
hexVars == <<keys, minimal, alen, blen, salt, final, status, tried>>
SearchOff == texts = Off /\ scramble = Off /\ words = Off /\ list = Off /\ val = Off /\ water = Off /\ tabh = Off
                /\ mapped = Off /\ badInitkey = Off /\ badPerfect = Off /\ resalt = Off /\ qlen = Off
HexOff == keys = Off /\ minimal = Off /\ alen = Off /\ blen = Off /\ salt = Off /\ final = Off
                /\ status = Off /\ tried = Off

-----------------------------------------------------------------------------
(* perfect.c: two to four keys with any initial hash of 4 bits, equal keys *)
(* too, and equal up to the last character; inline mode, with shifts by    *)
(* the width of the word; five keys; pairs of more bits than a word has;   *)
(* integers whose table grows until it is scrambled; pairs (a, b) as input.*)
Form(mode, type, perf, speed) == [mode |-> mode, hashtype |-> type, perfect |-> perf, speed |-> speed]
Speeds == {"FAST_HS", "SLOW_HS"}
Perfects == {"NORMAL_HP", "MINIMAL_HP"}
KeyForms == {Form("NORMAL_HM", "STRING_HT", p, s) : p \in Perfects, s \in Speeds}
                \cup {Form("HEX_HM", "INT_HT", p, s) : p \in Perfects, s \in Speeds}
ABForms == {Form("AB_HM", "AB_HT", p, s) : p \in Perfects, s \in Speeds}
MinimalForms == {Form("NORMAL_HM", "STRING_HT", "MINIMAL_HP", "SLOW_HS")}

\* n keys with different stems; lists of them, one with equal keys.
Stems(n) == [i \in 1 .. n |-> <<i, 1>>]
SomeEqual == {<<<<1, 1>>, <<2, 1>>, <<1, 1>>>>} \cup {Stems(n) : n \in 1 .. 4}

\* Words in decreasing order, equal ones included, of some set of words.
RECURSIVE Sorted(_, _)
Sorted(n, S) ==
    IF n = 0 THEN {<<>>}
    ELSE UNION {{Append(s, w) : w \in {x \in S : n = 1 \/ x <= s[n - 1]}} : s \in Sorted(n - 1, S)}
\* Words of 4 bits, for four keys those of even parity or 1 or 14.
Words4(n) == Sorted(n, IF n < 4 THEN 0 .. 15 ELSE {0, 1, 3, 5, 6, 9, 10, 12, 14, 15})
\* Of the words of 5 bits those whose middle bit is the parity of the others.
Words5(n) == Sorted(n, {8 * h + 4 * ((h + l) % 2) + l : h \in 0 .. 3, l \in 0 .. 2})
None(n) == {}
\* Pairs with a below the number of keys, as the usage asks, in decreasing order,
\* and one a that is refused.
ABPairs(n) ==
    {[i \in 1 .. n |-> <<s[i] \div 3, s[i] % 3>>] : s \in Sorted(n, 0 .. 3 * n - 1)}
        \cup {[i \in 1 .. n |-> <<8 * n + i, i>>]}

\* Keys that differ in their last character only.
LastDiffers == {<<<<1, 1>>, <<1, 2>>>>, <<<<1, 1>>, <<2, 1>>, <<1, 2>>>>}
InlineForms == {Form("INLINE_HM", "STRING_HT", p, s) : p \in Perfects, s \in Speeds}
HexForms == {Form("HEX_HM", "INT_HT", "MINIMAL_HP", s) : s \in Speeds}
\* Words whose values in the table scramble[] does not leave where they are.
FewWords(n) == Sorted(n, {0, 1, 8, 16, 28, 29})
TwoWordForms == {Form("NORMAL_HM", "STRING_HT", p, "SLOW_HS") : p \in Perfects}
\* Two words of 3 bits: a pair may need more bits than one has.
Words6(n) == Sorted(n, {8 * h + l : h \in {0, 1, 2}, l \in {0, 1, 2, 3, 6}})

Search == INSTANCE Perfect WITH UB1MAXVAL <- 3, FormSet <- KeyForms, TextLists <- SomeEqual,
            Hashes <- Words4, Pairs <- None, RETRY_INITKEY <- 2, RETRY_PERFECT <- 1, RETRY_HEX <- 2,
            WideShifts <- {FALSE}
Five == INSTANCE Perfect WITH UB4BITS <- 5, USE_SCRAMBLE <- 16, UB1MAXVAL <- 3, FormSet <- MinimalForms,
            TextLists <- {Stems(5)}, Hashes <- Words5, Pairs <- None,
            RETRY_INITKEY <- 2, RETRY_PERFECT <- 1, RETRY_HEX <- 2, WideShifts <- {FALSE}
Tight == INSTANCE Perfect WITH UB4BITS <- 3, USE_SCRAMBLE <- 2, UB1MAXVAL <- 3, FormSet <- TwoWordForms,
            TextLists <- {Stems(4)}, Hashes <- Words6, Pairs <- None,
            RETRY_INITKEY <- 2, RETRY_PERFECT <- 1, RETRY_HEX <- 2, WideShifts <- {FALSE}
Hexed == INSTANCE Perfect WITH UB4BITS <- 5, UB1MAXVAL <- 7, FormSet <- HexForms,
            TextLists <- {Stems(5)}, Hashes <- FewWords, Pairs <- None,
            RETRY_INITKEY <- 2, RETRY_PERFECT <- 1, RETRY_HEX <- 2, WideShifts <- {FALSE}
Inline == INSTANCE Perfect WITH UB1MAXVAL <- 3, FormSet <- InlineForms \cup KeyForms,
            TextLists <- LastDiffers \cup {Stems(3)}, Hashes <- Words4, Pairs <- None,
            RETRY_INITKEY <- 2, RETRY_PERFECT <- 1, RETRY_HEX <- 2, WideShifts <- {FALSE, TRUE}
AB == INSTANCE Perfect WITH UB1MAXVAL <- 3, FormSet <- ABForms, TextLists <- {Stems(n) : n \in 2 .. 4},
            Hashes <- None, Pairs <- ABPairs, RETRY_INITKEY <- 2, RETRY_PERFECT <- 1, RETRY_HEX <- 2,
            WideShifts <- {FALSE, TRUE}

-----------------------------------------------------------------------------
(* perfhex.c: one to three keys of 4 bits in any order, five and eight in *)
(* decreasing order, the least of eight being 0; four keys of 5 bits, the  *)
(* least being 0; nine in two runs of consecutive words.                   *)
RECURSIVE Decreasing(_, _)
Decreasing(n, w) ==
    IF n = 0 THEN {<<>>}
    ELSE UNION {{Append(s, x) : x \in 0 .. (IF n = 1 THEN 2^w ELSE s[n - 1]) - 1} : s \in Decreasing(n - 1, w)}
Keys4(n) == IF n < 4 THEN {s \in [1 .. n -> 0 .. 15] : \A i, j \in 1 .. n : i # j => s[i] # s[j]}
            ELSE {s \in Decreasing(n, 4) : s[n] < 9 - n}
Keys5(n) == {s \in Decreasing(n, 5) : s[n] = 0}
TwoRuns(n) ==
    {[i \in 1 .. n |-> IF i <= n \div 2 THEN 32 - u - i ELSE v + n - i] : u \in 0 .. 3, v \in 0 .. 3}

Small == INSTANCE PerfHex WITH W <- 4, Sizes <- {1, 2, 3, 5}, KeyLists <- Keys4, Lens <- {<<4, 4>>},
            WideShifts <- {FALSE}, MaxSalt <- 1, perfect <- minimal
Four == INSTANCE PerfHex WITH W <- 5, Sizes <- {4}, KeyLists <- Keys5, Lens <- {<<4, 4>>},
            Perfects <- {"MINIMAL_HP"}, WideShifts <- {FALSE}, MaxSalt <- 1, perfect <- minimal
Eight == INSTANCE PerfHex WITH W <- 4, Sizes <- {8}, KeyLists <- Keys4, Lens <- {<<4, 4>>},
            Perfects <- {"MINIMAL_HP"}, WideShifts <- {FALSE}, MaxSalt <- 1, perfect <- minimal
Nine == INSTANCE PerfHex WITH W <- 5, Sizes <- {9}, KeyLists <- TwoRuns,
            Lens <- {<<a, b>> : a \in {4, 8}, b \in {1, 2, 4, 8, 16}},
            WideShifts <- {FALSE, TRUE}, MaxSalt <- 60, perfect <- minimal

-----------------------------------------------------------------------------
(* The sizes: powers of 2 up to 2^21, their neighbours, and points between *)
(* them, with the constants of the code.                                   *)
Around == {n \in UNION {{2^i - 1, 2^i, 2^i + 1, 2^i + 2^i \div 16, 2^i + 2^i \div 8, 2^i + 2^i \div 4,
                         2^i + 2^i \div 2, 2^i + (3 * 2^i) \div 4} : i \in 0 .. 21} : n >= 1}
Real == INSTANCE PerfectSizes WITH UB4BITS <- 32, USE_SCRAMBLE <- 4096, SCRAMBLE_LEN <- 65536,
            UB1MAXVAL <- 255, UB2MAXVAL <- 65535, NKeys <- Around, Unset <- {2^i : i \in {2, 12, 14, 18, 24, 30}},
            FormSet <- {f \in Forms : f.hashtype # "AB_HT"}

-----------------------------------------------------------------------------
MCInit ==
    \/ /\ HexOff /\ nkeys = Off
       /\ \/ which = "search" /\ Search!Init
          \/ which = "five" /\ Five!Init
          \/ which = "tight" /\ Tight!Init
          \/ which = "hexed" /\ Hexed!Init
          \/ which = "inline" /\ Inline!Init
          \/ which = "ab" /\ AB!Init
    \/ /\ SearchOff /\ nkeys = Off /\ form = Off /\ sz = Off /\ phase = Off
       /\ \/ which = "hex" /\ Small!Init
          \/ which = "hex four" /\ Four!Init
          \/ which = "hex eight" /\ Eight!Init
          \/ which = "hex nine" /\ Nine!Init
    \/ /\ SearchOff /\ HexOff /\ code = Off /\ ak = Off /\ bk = Off /\ wide = Off
       /\ which = "sizes" /\ Real!Init

MCNext ==
    /\ UNCHANGED which
    /\ \/ /\ UNCHANGED <<hexVars, nkeys>>
          /\ \/ which = "search" /\ Search!Next
             \/ which = "five" /\ Five!Next
             \/ which = "tight" /\ Tight!Next
             \/ which = "hexed" /\ Hexed!Next
             \/ which = "inline" /\ Inline!Next
             \/ which = "ab" /\ AB!Next
       \/ /\ UNCHANGED <<searchVars, nkeys, form, sz, phase>>
          /\ \/ which = "hex" /\ Small!Next
             \/ which = "hex four" /\ Four!Next
             \/ which = "hex eight" /\ Eight!Next
             \/ which = "hex nine" /\ Nine!Next
       \/ which = "sizes" /\ Real!Next /\ UNCHANGED <<searchVars, hexVars, code, ak, bk, wide>>

MCSpec == MCInit /\ [][MCNext]_<<which, form, sz, phase, code, ak, bk, wide, searchVars, hexVars, nkeys>>

-----------------------------------------------------------------------------
\* perfect.c:374-601, 820-949: while the search runs tabh holds just the keys that
\* are mapped, whatever was rolled back; augment's queue fits tabq; a b's water mark
\* is older than the next augmentation, but for hash_ab's second attempt, which
\* keeps the marks of the first one (:655); a salt that gave distinct pairs still
\* does after the table grew, as long as the pairs come from as many words as
\* before (:934); and only equal keys are refused as duplicates, strings being
\* compared without their last character (:1004).
SearchSound ==
    /\ which = "search" => /\ Search!TabhSound /\ Search!QueueFits /\ Search!FreshWater
                           /\ Search!SaltStaysGood /\ Search!DuplicatesAreEqual
    /\ which = "five" => Five!TabhSound
    /\ which = "tight" => Tight!TabhSound /\ Tight!QueueFits /\ Tight!FreshWater /\ Tight!SaltStaysGood
    /\ which = "hexed" => Hexed!TabhSound /\ Hexed!QueueFits /\ Hexed!FreshWater
    /\ which = "inline" => Inline!TabhSound /\ Inline!SaltStaysGood /\ Inline!DuplicatesAreEqual
    /\ which = "ab" => AB!TabhSound /\ AB!QueueFits /\ AB!FreshWater

\* perfect.c:489-601, perfhex.c: the hash function that is written gives every
\* key a hash of its own, within the range (0 .. nkeys - 1 if minimal); with
\* nine keys or more the pairs (a, b) are in range and are what the code that is
\* emitted computes.  The exceptions, all of them reached here, are named in the two
\* modules: two integers that agree in bit 0 (perfhex.c:82), integers whose table
\* grows to USE_SCRAMBLE after salt 1 (perfhex.c:1298), and a shift by the width of
\* the word where there are no bits to take (perfect.c:301, perfhex.c:1040).
IsPerfect ==
    /\ which = "search" => Search!IsPerfect
    /\ which = "five" => Five!IsPerfect
    /\ which = "tight" => Tight!IsPerfect
    /\ which = "hexed" => Hexed!IsPerfect
    /\ which = "inline" => Inline!IsPerfect
    /\ which = "ab" => AB!IsPerfect
    /\ which = "hex" => Small!TypeOK /\ Small!IsPerfect /\ Small!NeverFatal
    /\ which = "hex four" => Four!IsPerfect /\ Four!NeverFatal
    /\ which = "hex eight" => Eight!IsPerfect
    /\ which = "hex nine" => Nine!PairInRange /\ Nine!EmittedAsAssigned

\* perfect.c:936-1140: no step of the search, with its retries and its growing
\* table, is one it could repeat for ever: each leaves less to do; and hexn (perfhex.c:973-1185) does not emit
\* the same code twice.
SearchEnds ==
    [][/\ which = "hex nine" => Nine!EmitsNew
       /\ which = "search" => Search!WorkLeft' < Search!WorkLeft
       /\ which = "five" => Five!WorkLeft' < Five!WorkLeft
       /\ which = "tight" => Tight!WorkLeft' < Tight!WorkLeft
       /\ which = "hexed" => Hexed!WorkLeft' < Hexed!WorkLeft
       /\ which = "inline" => Inline!WorkLeft' < Inline!WorkLeft
       /\ which = "ab" => AB!WorkLeft' < AB!WorkLeft]_<<form, sz, phase, code, ak, bk, wide, searchVars, hexVars>>

\* perfect.c:690-818: with the constants of the code and one to 2^21 keys, strings
\* or integers, the lengths are powers of 2 (0 for a minimal hash of one key), a is
\* an index of the table, the entries of tab[] fit the type that is written for
\* them, and scramble[] permutes.  For a hash of so many integers that smax is above
\* 131072 alen comes from *blen before that is assigned (:743): what it held is any
\* power of 2 from 4 on, and a is no index then.
SizesFit == which = "sizes" => Real!PowersOfTwo /\ Real!AlenInTabh /\ Real!EntriesFit /\ Real!ScramblePermutes
=============================================================================
