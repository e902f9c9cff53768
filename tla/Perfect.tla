------------------------------ MODULE Perfect ------------------------------
(***************************************************************************)
(* src/lib/perfect/perfect.c: the search for a perfect hash.  An initial   *)
(* hash gives every key a pair (a, b); then the bs are added one by one to *)
(* a table tab[], so that a ^ scramble[tab[b]] is another value for every  *)
(* key.  A b that collides is placed along an augmenting path: a chain of  *)
(* bs, each of which moves to make room for the one before it.             *)
(*                                                                         *)
(* The initial hash (lookup, checksum, the inline hash, hexn) is any       *)
(* function of the key: a word is chosen for every key at every salt.      *)
(* A key is a pair <<stem, last>>: its text and the last character of it.  *)
(* 0 is the null pointer, keys are numbered from 1 in list order.          *)
(***************************************************************************)
EXTENDS PerfectOps, Sequences, FiniteSets

CONSTANTS
    FormSet,        \* user directives: [mode, hashtype, perfect, speed]
    TextLists,      \* lists of keys
    Hashes(_),      \* lists of n words that the initial hash may give
    Pairs(_),       \* lists of n pairs (a, b), the input of mode AB
    RETRY_INITKEY, RETRY_PERFECT, RETRY_HEX,
    UB1MAXVAL,
    WideShifts      \* of BOOLEAN: does a shift by UB4BITS leave the value, or 0?

VARIABLES
    form, texts, sz, scramble,
    words,          \* the initial hash of every key, while it is in use
    ak, bk,         \* a_k and b_k
    list,           \* list_b of every b, a sequence of keys
    val, water,     \* val_b and water_b
    tabh,           \* the key at every hash, or 0
    mapped,         \* the bs that perfect has added
    badInitkey, badPerfect,
    resalt,         \* does the next initkey use another salt?
    code,           \* the line for the final hash
    qlen,           \* history: the most entries that augment had in tabq
    phase, wide

inputs == <<form, texts, wide>>
counters == <<badInitkey, badPerfect, resalt>>
table == <<val, water, tabh, mapped, qlen>>
vars == <<form, texts, sz, scramble, words, ak, bk, list, val, water, tabh, mapped,
          badInitkey, badPerfect, resalt, code, qlen, phase, wide>>

NKeys == Len(texts)
Keys == 1 .. NKeys
Bs == DOMAIN val
Ended == {"written", "duplicate", "fatal"}

\* getkeys ends the string at the newline and takes one more character off its length.
getkeys(t) == <<t[1]>>
\* What checkdup compares.
SameKey(m, n) == IF form.hashtype = "STRING_HT" THEN getkeys(texts[m]) = getkeys(texts[n]) ELSE texts[m] = texts[n]

Shr(v, i) == IF i < UB4BITS THEN v \div 2^i ELSE IF wide THEN v ELSE 0

(***************************************************************************)
(* The initial hash: a and b of a word, and the code for the final hash.   *)
(***************************************************************************)
TwoWords(s) == mylog2(s.alen) + mylog2(s.blen) > UB4BITS
initnorm(w, s) ==
    IF TwoWords(s)
    THEN <<(w \div 2^UB4BITS) % s.alen, w % s.blen>>
    ELSE <<IF s.alen > 1 THEN (w % 2^UB4BITS) \div 2^(UB4BITS - mylog2(s.alen)) ELSE 0,
           IF s.blen > 1 THEN w % s.blen ELSE 0>>
initinl(w, s) ==
    <<IF s.alen > 1 THEN w % s.alen ELSE 0,
      IF s.blen > 1 THEN (w % 2^UB4BITS) \div 2^(UB4BITS - mylog2(s.blen)) ELSE 0>>
InitialHash(w, s) == IF form.mode = "INLINE_HM" THEN initinl(w, s) ELSE initnorm(w, s)

Line(kind, s) == [kind |-> kind, alen |-> s.alen, blen |-> s.blen]
NoLine == [kind |-> "none", alen |-> 0, blen |-> 0]
CodeNorm(s) ==
    Line(IF TwoWords(s) THEN "checksum" ELSE IF s.smax <= 1 THEN "zero"
         ELSE IF mylog2(s.alen) = 0 THEN "tab" ELSE IF s.blen < USE_SCRAMBLE THEN "xortab" ELSE "xorscramble", s)
CodeInl(s) ==
    Line(IF s.smax <= 1 THEN "zero" ELSE IF s.blen < USE_SCRAMBLE THEN "inltab" ELSE "inlscramble", s)
\* inithex writes the line for a and b at salt 1, and never again.
CodeHex(s) ==
    IF code # NoLine THEN code ELSE Line(IF s.blen < USE_SCRAMBLE THEN "atab" ELSE "ascramble", s)
InitialCode(s) ==
    IF form.hashtype = "INT_HT" THEN CodeHex(s) ELSE IF form.mode = "INLINE_HM" THEN CodeInl(s) ELSE CodeNorm(s)

\* The table as make_c prints it, of type ub1 or ub2.
TabRaw(i) == val[i]
Tab(i) == IF sz.blen < USE_SCRAMBLE THEN scramble[val[i]] ELSE val[i] % (UB1MAXVAL + 1)
\* Reads of the compiled code; a read outside the table is no hash at all.
ReadTab(i) == IF i \in Bs THEN Tab(i) ELSE -1
ReadScramble(i) == IF i \in DOMAIN scramble THEN scramble[i] ELSE -1
XorRead(a, t) == IF t = -1 THEN -1 ELSE a ^^ t

\* The value of the emitted function for key n.
phash(n) ==
    LET w == words[n] % 2^UB4BITS
        up == UB4BITS - mylog2(code.alen)
        low == w % code.blen
        top == Shr(w, UB4BITS - mylog2(code.blen))
    IN  CASE code.kind = "zero" -> 0
          [] code.kind = "tab" -> ReadTab(low)
          [] code.kind = "xortab" -> XorRead(Shr(w, up), ReadTab(low))
          [] code.kind = "xorscramble" -> XorRead(Shr(w, up), ReadScramble(ReadTab(low)))
          [] code.kind = "checksum" -> XorRead((words[n] \div 2^UB4BITS) % code.alen, ReadScramble(ReadTab(low)))
          [] code.kind = "inltab" -> XorRead(w % code.alen, ReadTab(top))
          [] code.kind = "inlscramble" -> XorRead(w % code.alen, ReadScramble(ReadTab(top)))
          [] code.kind = "a" -> ak[n]
          [] code.kind = "atab" -> XorRead(ak[n], ReadTab(bk[n]))
          [] code.kind = "ascramble" -> XorRead(ak[n], ReadScramble(ReadTab(bk[n])))

(***************************************************************************)
(* augment and apply                                                       *)
(***************************************************************************)
limit(s) == IF s.blen < USE_SCRAMBLE THEN s.smax ELSE UB1MAXVAL + 1
scrambleinit(s) == [i \in 0 .. (IF s.smax > UB1MAXVAL THEN s.smax - 1 ELSE UB1MAXVAL) |-> permute(i % s.smax, mylog2(s.smax))]
trans == form.speed = "SLOW_HS" \/ form.perfect = "MINIMAL_HP"
HashAt(k, v) == ak[k] ^^ scramble[v]
ToSet(s) == {s[i] : i \in DOMAIN s}

\* Take the keys of b off their hashes, and put them in order where value v puts them;
\* unless forced, stop at the first hash that is taken.
Erase(th, b, v) ==
    [h \in DOMAIN th |-> IF th[h] \in ToSet(list[b]) /\ HashAt(th[h], v) = h THEN 0 ELSE th[h]]
RECURSIVE Place(_, _, _, _)
Place(th, ks, v, forced) ==
    IF ks = <<>> THEN [ok |-> TRUE, th |-> th]
    ELSE IF ~forced /\ th[HashAt(ks[1], v)] # 0 THEN [ok |-> FALSE, th |-> th]
    ELSE Place([th EXCEPT ![HashAt(ks[1], v)] = ks[1]], Tail(ks), v, forced)

RollbackNothing(st, q, child) == st
\* apply with rollback: from the last entry of the queue to the root.
RECURSIVE Rollback(_, _, _)
Rollback(st, q, child) ==
    LET parent == q[child].parent
        b == q[parent].b
        old == q[child].oldval
        erased == Erase(st.tabh, b, st.val[b])
        placed == IF parent = 1 THEN erased ELSE Place(erased, list[b], old, TRUE).th
    IN  IF child = 1 THEN st
        ELSE Rollback([st EXCEPT !.val[b] = old, !.tabh = placed], q, parent)

\* apply without: [ok, st].  A collision rolls back all of the path.
RECURSIVE Walk(_, _, _)
Walk(st, q, child) ==
    LET parent == q[child].parent
        b == q[parent].b
        new == q[child].newval
        placed == Place(Erase(st.tabh, b, st.val[b]), list[b], new, FALSE)
        next == [st EXCEPT !.val[b] = new, !.tabh = placed.th]
    IN  IF child = 1 THEN [ok |-> TRUE, st |-> st]
        ELSE IF placed.ok THEN Walk(next, q, parent)
        ELSE [ok |-> FALSE, st |-> Rollback(next, q, Len(q))]
apply(st, q) == Walk(st, q, Len(q))

\* The b that b must push away if it takes value i: 0-or-more, -1 for none, -2 if it cannot.
Child(st, b, i, highwater) ==
    LET hashes == {HashAt(k, i) : k \in ToSet(list[b])}
        hits == {bk[st.tabh[h]] : h \in {g \in hashes : st.tabh[g] # 0}}
    IN  IF \E h \in hashes : h >= highhash(form, NKeys, sz.smax) THEN -2
        ELSE IF hits = {} THEN -1
        ELSE IF Cardinality(hits) > 1 \/ \E c \in hits : st.water[c] = highwater THEN -2
        ELSE CHOOSE c \in hits : TRUE

\* The spanning tree, breadth first: entry at of the queue, value i.
RECURSIVE Span(_, _, _, _, _)
Span(st, q, at, i, highwater) ==
    IF at > Len(q) \/ (~trans /\ at = 2) THEN [ok |-> FALSE, st |-> st]
    ELSE IF i = limit(sz) THEN Span(st, q, at + 1, 0, highwater)
    ELSE LET b == q[at].b
             c == Child(st, b, i, highwater)
             q2 == Append(q, [b |-> c, newval |-> i, oldval |-> st.val[b], parent |-> at])
             st2 == [st EXCEPT !.qlen = IF @ < Len(q2) THEN Len(q2) ELSE @,
                               !.water = IF c >= 0 THEN [@ EXCEPT ![c] = highwater] ELSE @]
             tried == apply(st2, q2)
         IN  IF c = -2 THEN Span(st, q, at, i + 1, highwater)
             ELSE IF c # -1 THEN Span(st2, q2, at, i + 1, highwater)
             ELSE IF tried.ok THEN tried
             ELSE Span(tried.st, q, at, i + 1, highwater)
augment(b, highwater) ==
    Span([val |-> val, water |-> water, tabh |-> tabh, qlen |-> qlen],
         <<[b |-> b, newval |-> 0, oldval |-> 0, parent |-> 0]>>, 1, 0, highwater)

(***************************************************************************)
(* perfect: the bs in descending order of their numbers of keys.           *)
(***************************************************************************)
Unmapped == {b \in Bs : list[b] # <<>>} \ mapped
NextB == CHOOSE b \in Unmapped : \A c \in Unmapped :
            Len(list[b]) > Len(list[c]) \/ (Len(list[b]) = Len(list[c]) /\ b <= c)
Highwater == NextB + 1
ClearTabh(s) == [h \in 0 .. highhash(form, NKeys, s.smax) - 1 |-> 0]

\* inittab: the keys of every b, the last one first.
RECURSIVE ListsOf(_, _)
ListsOf(bs, b) == IF bs = <<>> THEN <<>> ELSE
    LET n == Len(bs)
        rest == ListsOf(SubSeq(bs, 1, n - 1), b)
    IN  IF bs[n] = b THEN <<n>> \o rest ELSE rest
inittab(a, b, s) ==
    /\ list' = [i \in 0 .. s.blen - 1 |-> ListsOf(b, i)]
    /\ val' = [i \in 0 .. s.blen - 1 |-> 0]
    /\ water' = [i \in 0 .. s.blen - 1 |-> 0]
    /\ ak' = a /\ bk' = b
\* The first key that has the pair of an earlier one, with that one.
Collision(ab) ==
    LET with(n) == {m \in 1 .. n - 1 : ab[m] = ab[n]}
        n == CHOOSE n \in Keys : with(n) # {} /\ \A m \in 1 .. n - 1 : with(m) = {}
    IN  <<n, CHOOSE m \in with(n) : TRUE>>
Collide(ab) == \E m, n \in Keys : m # n /\ ab[m] = ab[n]
StartPerfect(s) ==
    /\ tabh' = ClearTabh(s) /\ mapped' = {} /\ qlen' = 0 /\ phase' = "perfect"

(***************************************************************************)
(* Actions                                                                 *)
(***************************************************************************)
NoTable == [i \in {} |-> 0]
Init ==
    /\ form \in FormSet /\ texts \in TextLists /\ wide \in WideShifts
    /\ sz = [smax |-> 0, alen |-> 0, blen |-> 0]
    /\ scramble = NoTable
    /\ words = <<>> /\ ak = <<>> /\ bk = <<>>
    /\ list = NoTable /\ val = NoTable /\ water = NoTable /\ tabh = NoTable
    /\ mapped = {} /\ badInitkey = 0 /\ badPerfect = 0 /\ resalt = TRUE
    /\ code = NoLine /\ qlen = 0 /\ phase = "start"

\* findhash up to its loop.
findhash ==
    /\ phase = "start" /\ form.hashtype # "AB_HT"
    /\ LET s == initalen(NKeys, form, 0) IN sz' = s /\ scramble' = scrambleinit(s)
    /\ phase' = "initkey"
    /\ UNCHANGED <<inputs, words, ak, bk, list, table, counters, code>>

\* hash_ab up to the first call of perfect.
RECURSIVE PowerAbove(_, _)
PowerAbove(p, S) == IF \E x \in S : p <= x THEN PowerAbove(2 * p, S) ELSE p
hash_ab ==
    /\ phase = "start" /\ form.hashtype = "AB_HT"
    /\ \E ab \in Pairs(NKeys) :
        LET a == [n \in Keys |-> ab[n][1]]
            b == [n \in Keys |-> ab[n][2]]
        IN  /\ sz' = [smax |-> PowerFor(NKeys), alen |-> PowerAbove(1, ToSet(a)), blen |-> PowerAbove(1, ToSet(b))]
            /\ scramble' = scrambleinit(sz')
            /\ IF sz'.alen > 2 * sz'.smax
               THEN phase' = "fatal" /\ UNCHANGED <<ak, bk, list, table>>
               ELSE IF Collide(ab) THEN phase' = "duplicate" /\ UNCHANGED <<ak, bk, list, table>>
               ELSE inittab(a, b, sz') /\ StartPerfect(sz')
    /\ UNCHANGED <<inputs, words, counters, code>>

\* initkey found a perfect hash: there is no table.
Finished ==
    /\ code' = Line(IF NKeys <= 1 THEN "zero" ELSE "direct", sz)
    /\ sz' = [sz EXCEPT !.blen = 0]
    /\ phase' = "found"
    /\ UNCHANGED <<words, ak, bk, list, table, counters>>

\* Two keys have one pair.  After RETRY_INITKEY failures the pairs get more bits.
NoDistinctPairs(ab) ==
    LET c == Collision(ab)
    IN  IF SameKey(c[1], c[2])
        THEN phase' = "duplicate" /\ UNCHANGED <<sz, badInitkey, badPerfect>>
        ELSE IF badInitkey + 1 < RETRY_INITKEY
        THEN badInitkey' = badInitkey + 1 /\ UNCHANGED <<sz, badPerfect, phase>>
        ELSE IF CanGrowForKeys(form, sz)
        THEN /\ sz' = GrowForKeys(form, sz)
             /\ badInitkey' = 0 /\ badPerfect' = 0
             /\ UNCHANGED phase
        ELSE /\ phase' = IF \E m, n \in Keys : m # n /\ SameKey(m, n) THEN "duplicate" ELSE "fatal"
             /\ UNCHANGED <<sz, badInitkey, badPerfect>>

\* One turn of the loop of findhash up to perfect.  Pairs that collide are dead, as is
\* the table they are in, and are not kept.
initkey ==
    /\ phase = "initkey"
    /\ \/ NKeys <= 1 /\ Finished
       \/ NKeys > 1 /\ form.hashtype = "INT_HT" /\ code = NoLine /\ Finished
       \/ /\ NKeys > 1
          /\ \E w \in IF resalt THEN Hashes(NKeys) ELSE {words} :
                LET ab == [n \in Keys |-> InitialHash(w[n], sz)]
                IN  /\ \A m, n \in Keys : SameKey(m, n) => w[m] = w[n]
                    /\ code' = InitialCode(sz)
                    /\ IF Collide(ab)
                       THEN /\ NoDistinctPairs(ab)
                            /\ resalt' = TRUE
                            /\ UNCHANGED <<words, ak, bk, list, table>>
                       ELSE /\ inittab([n \in Keys |-> ab[n][1]], [n \in Keys |-> ab[n][2]], sz)
                            /\ words' = w
                            /\ StartPerfect(sz)
                            /\ resalt' = TRUE
                            /\ UNCHANGED <<sz, badInitkey, badPerfect>>
    /\ UNCHANGED <<inputs, scramble>>

\* One call of augment.
perfect ==
    /\ phase = "perfect" /\ Unmapped # {}
    /\ LET r == augment(NextB, Highwater)
       IN  /\ val' = r.st.val /\ water' = r.st.water /\ tabh' = r.st.tabh /\ qlen' = r.st.qlen
           /\ mapped' = IF r.ok THEN mapped \cup {NextB} ELSE mapped
           /\ phase' = IF r.ok THEN "perfect" ELSE "nomap"
    /\ UNCHANGED <<inputs, sz, scramble, words, ak, bk, list, counters, code>>

CodeAB ==
    Line(IF \A b \in Bs : val[b] = 0 THEN "a" ELSE IF sz.blen < USE_SCRAMBLE THEN "atab" ELSE "ascramble", sz)
MappedAll ==
    /\ phase = "perfect" /\ Unmapped = {}
    /\ phase' = "found"
    /\ code' = IF form.hashtype = "AB_HT" THEN CodeAB ELSE code
    /\ UNCHANGED <<inputs, sz, scramble, words, ak, bk, list, table, counters>>

RetryPerfectUncounted ==
    /\ phase = "nomap" /\ form.hashtype # "AB_HT"
    /\ phase' = "initkey"
    /\ UNCHANGED <<inputs, sz, scramble, words, ak, bk, list, table, counters, code>>
\* findhash after perfect failed: another salt, or a larger table for the same salt.
RetryPerfect ==
    /\ phase = "nomap" /\ form.hashtype # "AB_HT"
    /\ IF badPerfect + 1 < (IF form.hashtype = "INT_HT" THEN RETRY_HEX ELSE RETRY_PERFECT)
       THEN /\ badPerfect' = badPerfect + 1
            /\ phase' = "initkey"
            /\ UNCHANGED <<sz, badInitkey, resalt>>
       ELSE IF CanGrowTable(sz)
       THEN /\ sz' = GrowTable(sz)
            /\ badPerfect' = 0
            /\ resalt' = (form.hashtype = "INT_HT")
            /\ phase' = "initkey"
            /\ UNCHANGED badInitkey
       ELSE phase' = "fatal" /\ UNCHANGED <<sz, counters>>
    /\ UNCHANGED <<inputs, scramble, words, ak, bk, list, table, code>>

\* hash_ab after perfect failed: once more with twice the range, without inittab.
RetryAB ==
    /\ phase = "nomap" /\ form.hashtype = "AB_HT"
    /\ IF form.perfect = "NORMAL_HP" /\ sz.smax = PowerFor(NKeys)
       THEN /\ sz' = [sz EXCEPT !.smax = @ * 2]
            /\ scramble' = scrambleinit(sz')
            /\ StartPerfect(sz')
       ELSE phase' = "fatal" /\ UNCHANGED <<sz, scramble, tabh, mapped, qlen>>
    /\ UNCHANGED <<inputs, words, ak, bk, list, val, water, counters, code>>

\* driver after findhash: make_h and make_c.
Write ==
    /\ phase = "found"
    /\ phase' = "written"
    /\ UNCHANGED <<inputs, sz, scramble, words, ak, bk, list, table, counters, code>>

Exited == phase \in Ended /\ UNCHANGED vars

Next == findhash \/ hash_ab \/ initkey \/ perfect \/ MappedAll \/ RetryPerfect \/ RetryAB \/ Write \/ Exited
Spec == Init /\ [][Next]_vars
-----------------------------------------------------------------------------
(***************************************************************************)
(* Properties                                                              *)
(***************************************************************************)
\* The line for integer keys reads the table as it was at salt 1 (perfhex.c:1298), but
\* make_c prints it as it is in the end.
StaleLine == form.hashtype = "INT_HT" /\ (code.blen < USE_SCRAMBLE) # (sz.blen < USE_SCRAMBLE)
\* The line for a table of one entry shifts by the width of the word (perfect.c:301).
ShiftsByWord == code.kind \in {"inltab", "inlscramble"} /\ code.blen = 1 /\ wide

\* The emitted function gives the keys different hashes below the limit that the
\* user asked for: nkeys for a minimal hash (perfect.c:1268), a power of 2 otherwise.
\* The two lines above are the exceptions.
IsPerfect ==
    phase = "written" /\ code.kind # "direct" /\ ~StaleLine /\ ~ShiftsByWord =>
        /\ \A m, n \in Keys : m # n => phash(m) # phash(n)
        /\ \A n \in Keys : phash(n) \in 0 .. highhash(form, NKeys, sz.smax) - 1

\* tabh is exactly the hashes of the keys whose b is mapped, whichever paths were
\* applied and "rolled back" (perfect.c:430) before ("tabh[i].key_h is the key with a hash of i").
TabhSound ==
    phase \in {"perfect", "nomap"} =>
        /\ \A h \in DOMAIN tabh : tabh[h] # 0 => bk[tabh[h]] \in mapped /\ HashAt(tabh[h], val[bk[tabh[h]]]) = h
        /\ \A k \in Keys : bk[k] \in mapped => \E h \in DOMAIN tabh : tabh[h] = k

\* augment's queue of blen + 1 entries is never overrun: no b is in it twice.
QueueFits == phase \in {"perfect", "nomap"} => qlen <= sz.blen + 1

\* No b is marked as visited before augment starts, so no path is missed: highwater
\* is "a value higher than any now in tabb[].water_b" (perfect.c:470).  Not so in the
\* second attempt of hash_ab, which keeps the marks of the first one (perfect.c:655).
SecondAttempt == form.hashtype = "AB_HT" /\ sz.smax # PowerFor(NKeys)
FreshWater == phase = "perfect" /\ Unmapped # {} /\ ~SecondAttempt => \A b \in Bs : water[b] # Highwater

\* A salt that got distinct pairs gets distinct pairs again with a larger table:
\* "we know this salt got distinct (A,B)" (perfect.c:934); unless the table that
\* grew has the pairs taken from two words instead of one.
SaltStaysGood ==
    phase = "initkey" /\ ~resalt /\ (form.mode = "INLINE_HM" \/ TwoWords(sz) = TwoWords(code)) =>
        ~Collide([n \in Keys |-> InitialHash(words[n], sz)])

\* checkdup: keys are reported as duplicates only if two of them are the same, integers
\* or strings without the last character, which getkeys does not count (perfect.c:1004).
DuplicatesAreEqual ==
    phase = "duplicate" /\ form.hashtype # "AB_HT" =>
        \E m, n \in Keys : m # n /\ texts[m][1] = texts[n][1] /\ (form.hashtype = "INT_HT" => texts[m] = texts[n])

\* The search ends, with a hash or with a message, whatever the initial hash does:
\* every step uses up some of the room that is left for growth, of the retries until
\* the next growth, or of the bs to map.  (No state but an exit is a deadlock.)
RoomLeft ==
    IF form.hashtype = "AB_HT" THEN mylog2(2 * PowerFor(NKeys)) - mylog2(sz.smax)
    ELSE mylog2(maxalen(form, sz.smax)) - mylog2(sz.alen) + mylog2(sz.smax) - mylog2(sz.blen)
RetriesLeft == RETRY_INITKEY + (IF form.hashtype = "INT_HT" THEN RETRY_HEX ELSE RETRY_PERFECT) - badInitkey - badPerfect
BsLeft == CASE phase = "initkey" -> 50 [] phase = "perfect" -> 2 + Cardinality(Unmapped) [] phase = "nomap" -> 1
WorkLeft ==
    CASE phase = "start" -> 1000000
      [] phase \in {"initkey", "perfect", "nomap"} -> RoomLeft * 10000 + RetriesLeft * 100 + BsLeft + 1
      [] phase = "found" -> 1
      [] OTHER -> 0
SearchEnds == [][WorkLeft' < WorkLeft]_vars
=============================================================================
