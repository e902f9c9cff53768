------------------------------ MODULE PerfHex ------------------------------
(***************************************************************************)
(* src/lib/perfect/perfhex.c: for keys that are integers, inithex looks    *)
(* for a few instructions that hash them without collision, and emits C    *)
(* code.  For up to 8 keys it tries such formulas in order, fastest first; *)
(* otherwise, or when none of these works, hexn emits code for a pair      *)
(* (a, b), another one each time it is called.                             *)
(*                                                                         *)
(* Emitted code is a syntax tree here, and Value is what the compiled      *)
(* code computes.  A word has W bits; UB4BITS is 32.                       *)
(***************************************************************************)
EXTENDS Integers, Sequences, FiniteSetsExt, TLC

CONSTANTS
    W,          \* UB4BITS
    Sizes,      \* numbers of keys
    KeyLists(_),\* lists of n distinct words, the input
    Perfects,   \* of "NORMAL_HP", "MINIMAL_HP"
    Lens,       \* pairs <<alen, blen>>, powers of 2
    WideShifts, \* of BOOLEAN: does a shift by W or more leave the value, or 0?
    MaxSalt     \* bound: calls of inithex

VARIABLES keys, perfect, alen, blen, salt,
    final,      \* lowbit, highbit, diffbits and the state i, j, k of hexn
    code,       \* final->line: the last code that was emitted
    ak, bk,     \* a_k and b_k of the keys
    status,     \* "searching", "found", "pair" or "fatal"
    tried,      \* history: pairs of codes that hexn has emitted
    wide        \* what a shift by W or more does in this build

vars == <<keys, perfect, alen, blen, salt, final, code, ak, bk, status, tried, wide>>

(***************************************************************************)
(* Words                                                                   *)
(***************************************************************************)
Word == 0 .. 2^W - 1
Bits == 0 .. W - 1
Shr(v, i) == v \div 2^i
Shl(v, i) == (v * 2^i) % 2^W
Bit(v, i) == Shr(v, i) % 2
\* The exclusive or of values of up to 3 bits, and of words; a mask of 1, 2, 3 or 7.
Xor(u, v) == ((u + v) % 2) + 2 * (((u \div 2) + (v \div 2)) % 2) + 4 * (((u \div 4) + (v \div 4)) % 2)
XorWords(u, v) == SumSet({2^i : i \in {b \in Bits : Bit(u, b) # Bit(v, b)}})
And(v, m) == IF m = 2 THEN 2 * Bit(v, 1) ELSE v % (m + 1)
mylog2(n) == CHOOSE i \in 0 .. n : 2^i >= n /\ \A j \in 0 .. i - 1 : 2^j < n
\* A shift by the width or more is undefined: the compiler or the machine decides.
ShrWide(v, i, w) == IF i < W THEN Shr(v, i) ELSE IF w THEN v ELSE 0

(***************************************************************************)
(* Emitted code.  Xors: the exclusive or of add and of terms               *)
(* ((val >> shr) & mask) << shl.  Sum: shifted values added or subtracted,  *)
(* modulo mod, then the exclusive or with add.                             *)
(***************************************************************************)
T(s, m) == [shr |-> s, mask |-> m, shl |-> 0]
TL(s, m, l) == [shr |-> s, mask |-> m, shl |-> l]
Xors(ts) == [op |-> "xor", add |-> 0, ts |-> ts]
Sum(ts, m) == [op |-> "sum", add |-> 0, ts |-> ts, mod |-> m]
NoCode == [op |-> "none"]

RECURSIVE XorTerms(_, _, _), AddTerms(_, _, _)
XorTerms(ts, n, v) ==
    IF n = 0 THEN 0
    ELSE Xor(XorTerms(ts, n - 1, v), And(Shr(v, ts[n].shr), ts[n].mask) * 2^ts[n].shl)
AddTerms(ts, n, v) == IF n = 0 THEN 0 ELSE AddTerms(ts, n - 1, v) + ts[n][1] * Shr(v, ts[n][2])

Value(c, v) ==
    CASE c.op = "xor" -> Xor(XorTerms(c.ts, Len(c.ts), v), c.add)
      [] c.op = "sum" -> Xor(AddTerms(c.ts, Len(c.ts), v) % c.mod, c.add)
      [] c.op = "shl" -> Shl(v, c.n) % 2
      [] c.op = "neg" ->
            LET nv == SumSet({2^i : i \in {b \in c.bits : Bit(v, b) = 1}})
                b == (2^W - Shr(nv, c.o)) % 2^W
            IN  Xor(Xor(Shr(nv, c.m) % 4, Shr(nv, c.n - 1) % 4), b % 4)

Values(c, ks) == [n \in DOMAIN ks |-> Value(c, ks[n])]
Distinct(f) == \A m, n \in DOMAIN f : m # n => f[m] # f[n]

\* A candidate: code, and when it is tried in its stage, by the loop variables i, j
\* and the place t in the loop's body.
Try(i, j, t, c) == [at |-> (i * (W + 1) + j) * (W + 1) + t, code |-> c]
If(c, S) == IF c THEN S ELSE {}
First(S) == (CHOOSE c \in S : \A d \in S : c.at <= d.at).code
\* The first candidate that passes a test in the first stage with one.
FirstStage(last, Stage(_), Test(_)) ==
    LET Good(n) == {c \in Stage(n) : Test(c.code)}
        first == CHOOSE n \in 1 .. last + 1 : (n = last + 1 \/ Good(n) # {}) /\ \A m \in 1 .. n - 1 : Good(m) = {}
    IN  IF first > last THEN NoCode ELSE First(Good(first))

(***************************************************************************)
(* setlow: the bits in which keys differ.                                  *)
(***************************************************************************)
setlow(ks) ==
    LET diff == {i \in Bits : \E n \in DOMAIN ks : Bit(ks[n], i) # Bit(ks[1], i)}
    IN  [diffbits |-> diff,
         lowbit |-> IF diff = {} THEN W ELSE CHOOSE i \in diff : \A j \in diff : i <= j,
         highbit |-> IF diff \subseteq {0} THEN 0 ELSE CHOOSE i \in diff : \A j \in diff : i >= j]

(***************************************************************************)
(* One to three keys                                                       *)
(***************************************************************************)
hexone == Xors(<<>>)

\* Tests a bit that differs; the code for any other bit than 0 shifts left.
hextwo(ks) ==
    IF Bit(ks[1], 0) # Bit(ks[2], 0) THEN Xors(<<T(0, 1)>>)
    ELSE LET i == CHOOSE i \in 0 .. W - 1 :
                     /\ Bit(ks[1], i) # Bit(ks[2], i)
                     /\ \A j \in 0 .. i - 1 : Bit(ks[1], j) = Bit(ks[2], j)
         IN  [op |-> "shl", n |-> i]

find_adder(x, y, z) == Xor(Xor(Xor(x, y), z), 3)

Stage3(f, n) ==
    CASE n = 1 -> {Try(0, 0, 0, Xors(<<T(0, 3)>>)), Try(0, 0, 1, Xors(<<T(W - 2, 3)>>))}
      [] n = 2 -> {Try(i, 0, 0, Xors(<<T(i, 3)>>)) : i \in 0 .. f.highbit - 1}
      [] n = 3 -> {Try(i, 0, 0, Sum(<<<<1, 0>>, <<1, i>>>>, 4)) : i \in 0 .. f.highbit}
      [] n = 4 -> UNION {{Try(i, j, 0, Xors(<<T(i, 3), T(j, 3)>>)) : j \in i .. f.highbit} :
                            i \in f.lowbit .. f.highbit}
WithAdder(c, a) == [c EXCEPT !.add = a]
\* For a minimal hash the unused value must be 3.
hexthree(ks, f, form) ==
    LET c == FirstStage(4, LAMBDA n : Stage3(f, n), LAMBDA t : Distinct(Values(t, ks)))
        v == Values(c, ks)
    IN  IF c = NoCode THEN c
        ELSE IF form = "NORMAL_HP" \/ \A n \in 1 .. 3 : v[n] # 3 THEN c
        ELSE WithAdder(c, find_adder(v[1], v[2], v[3]))

(***************************************************************************)
(* Four keys: hexfour.  The stages of one to five instructions.            *)
(***************************************************************************)
testfour(v) == Distinct(v) /\ \A n \in DOMAIN v : v[n] \in 0 .. 3

\* Does some of the bits in ((diffbits >> i) & m), m given as a set, differ?
Some(f, i, m) == \E b \in m : i + b \in f.diffbits
Inner(f) == f.lowbit .. f.highbit
OneInstruction(f) ==
    If({0, 1} \subseteq f.diffbits, {Try(0, 0, 0, Xors(<<T(0, 3)>>))})
    \cup If({W - 2, W - 1} \subseteq f.diffbits, {Try(0, 0, 1, Xors(<<T(W - 2, 3)>>))})
TwoInstructions(f) ==
    {Try(i, 0, 0, Xors(<<T(i, 3)>>)) : i \in {b \in f.lowbit .. f.highbit - 1 : {b, b + 1} \subseteq f.diffbits}}
ThreeInstructions(f) ==
    If(Some(f, 0, {0, 1}), UNION {
        {Try(i, 0, 0, Sum(<<<<1, 0>>, <<1, i>>>>, 4)), Try(i, 0, 1, Sum(<<<<1, 0>>, <<-1, i>>>>, 4)),
         Try(i, 0, 2, Xors(<<T(0, 3), T(i, 3)>>))} : i \in {b \in Inner(f) : Some(f, b, {0, 1})}})
FourInstructions(f) ==
    If(Some(f, 0, {0, 1}), UNION {
        If(i \in f.diffbits /\ 1 \in f.diffbits,
           {Try(i, 0, 0, Xors(<<T(0, 3), T(i, 1)>>)), Try(i, 0, 1, Xors(<<T(0, 2), T(i, 1)>>))})
        \cup If(i + 1 \in f.diffbits /\ 0 \in f.diffbits,
           {Try(i, 0, 2, Xors(<<T(0, 3), T(i, 2)>>)), Try(i, 0, 3, Xors(<<T(0, 1), T(i, 2)>>))}) : i \in Inner(f)})
FiveInstructions(f) ==
    UNION {UNION {
        If(Some(f, j, {0, 1}), {Try(i, j, 0, Xors(<<T(j, 3), T(i, 1)>>)), Try(i, j, 1, Xors(<<T(j, 2), T(i, 1)>>))})
        \cup {Try(i, j, 2, Xors(<<T(j, 3), IF i = 0 THEN TL(0, 1, 1) ELSE T(i - 1, 2)>>)),
              Try(i, j, 3, Xors(<<T(j, 1), T(i, 2)>>))} : j \in Inner(f)} : i \in Inner(f) \cap f.diffbits}

\* The quadratic stage of four instructions tests one formula and emits another:
\* every tested value takes its second operand from the first key.
QuadraticTest(op, i, j, ks) ==
    LET second == Shr(ks[1], j)
    IN  [n \in DOMAIN ks |->
            CASE op = "+" -> (Shr(ks[n], i) + second) % 4
              [] op = "-" -> (Shr(ks[n], i) - second) % 4
              [] op = "^" -> Xor(Shr(ks[n], i) % 4, second % 4)]
QuadraticCode(op, i, j) ==
    CASE op = "+" -> Sum(<<<<1, i>>, <<1, j>>>>, 4)
      [] op = "-" -> Sum(<<<<1, i>>, <<-1, j>>>>, 4)
      [] op = "^" -> Xors(<<T(i, 3), T(j, 3)>>)
QuadraticFour(f, ks) ==
    LET ops == <<"+", "-", "^">>
    IN  {Try(q[1], q[2], q[3], QuadraticCode(ops[q[3]], q[1], q[2])) :
            q \in {r \in (Inner(f) \cap f.diffbits) \X {j \in Inner(f) : Some(f, j, {0, 1})} \X (1 .. 3) :
                      testfour(QuadraticTest(ops[r[3]], r[1], r[2], ks))}}

(***************************************************************************)
(* The big guns: three bits that tell the keys apart, mixed in four ways.  *)
(***************************************************************************)
FirstBit(bits) == IF bits = {} THEN W ELSE Min(bits)
BitsOf(v, bs) == [n \in DOMAIN bs |-> Bit(v, bs[n])]
\* The bits i, j, k; W for one that was not found.
ThreeBits(f, ks) ==
    LET tells(bs, first) == \A m, n \in first .. 4 : m # n => BitsOf(ks[m], bs) # BitsOf(ks[n], bs)
        from == f.lowbit .. W - 1
        i == FirstBit({b \in from : tells(<<b>>, 3)})
        j == FirstBit({b \in from : tells(<<i, b>>, 2)})
    IN  <<i, j, FirstBit({b \in from : tells(<<i, j, b>>, 1)})>>

\* m, n, o: bit o is the first of i, j that is not set in exactly two keys, or k; m < n.
Roles(bits, ks) ==
    LET ones(b) == Cardinality({n \in 1 .. 4 : Bit(ks[n], b) = 1})
        i == bits[1]
        j == bits[2]
        k == bits[3]
        r == IF ones(i) # 2 THEN <<j, k, i>> ELSE IF ones(j) # 2 THEN <<i, k, j>> ELSE <<i, j, k>>
    IN  IF r[1] > r[2] THEN [m |-> r[2], n |-> r[1], o |-> r[3]] ELSE [m |-> r[1], n |-> r[2], o |-> r[3]]

\* Bit o times 1.
TimesOneCode(r) ==
    LET m == IF r.m > r.o THEN r.o ELSE r.m
        o == IF r.m > r.o THEN r.m ELSE r.o
    IN  Xors(<<T(m, 1), T(o, 1), T(r.n - 1, 2)>>)
\* Bit o times 2.
TimesTwoCode(r) ==
    LET swap == r.m = r.o - 1
        n == IF swap THEN r.o ELSE r.n
        o == IF swap THEN r.n ELSE r.o
    IN  CASE r.m = 0 -> Xors(<<T(0, 1), T(n - 1, 2), T(o - 1, 2)>>)
          [] r.m # 0 /\ o = 0 -> Xors(<<T(r.m - 1, 2), T(n, 1), T(0, 1)>>)
          [] OTHER -> Xors(<<T(r.m, 1), T(n - 1, 2), T(o - 1, 2)>>)
\* Bit o times 3: b = (val >> o) & 1 is used twice, or stands for two bits.
TimesThreeCode(r) ==
    LET m == r.m
        n == r.n
        o == r.o
        b == T(o, 1)
        b2 == TL(o, 1, 1)
    IN  CASE m = o - 1 -> Xors(<<T(m, 3), T(n - 1, 2), b>>)
          [] m # o - 1 /\ m = n - 1 -> Xors(<<T(m, 3), b, b2>>)
          [] m \notin {o - 1, n - 1} /\ o = n - 1 -> Xors(<<T(m, 1), T(o, 3), b2>>)
          [] m \notin {o - 1, n - 1} /\ o \notin {m - 1, n - 1} ->
                [op |-> "neg", bits |-> {m, n, o}, o |-> o, m |-> m, n |-> n]
          [] m \notin {o - 1, n - 1} /\ o # n - 1 /\ o = m - 1 ->
                Xors(<<T(o, 3), T(n, 1), IF o = 0 THEN TL(0, 1, 1) ELSE T(o - 1, 2)>>)
BigGuns(f, ks) ==
    LET bits == ThreeBits(f, ks)
        r == Roles(bits, ks)
        m == r.m
        n == r.n
        o == r.o
        Passes(ts) == testfour(Values(Xors(ts), ks))
    IN  IF W \in {bits[1], bits[2], bits[3]} THEN NoCode
        ELSE IF Passes(<<T(m, 1), T(o, 1), T(n - 1, 2)>>) THEN TimesOneCode(r)
        ELSE IF Passes(<<T(m, 1), TL(n, 1, 1), TL(o, 1, 1)>>) THEN TimesTwoCode(r)
        ELSE IF Passes(<<T(m, 1), T(n - 1, 2), T(o, 1), TL(o, 1, 1)>>) THEN TimesThreeCode(r)
        ELSE IF Passes(<<T(m, 1), T(n - 1, 2)>>) THEN Xors(<<T(m, 1), T(n - 1, 2)>>)
        ELSE NoCode

hexfour(ks, f) ==
    LET Test(c) == testfour(Values(c, ks))
        early == FirstStage(4, LAMBDA s : CASE s = 1 -> OneInstruction(f) [] s = 2 -> TwoInstructions(f)
                                            [] s = 3 -> ThreeInstructions(f) [] s = 4 -> FourInstructions(f), Test)
        quadratic == QuadraticFour(f, ks)
        five == {c \in FiveInstructions(f) : Test(c.code)}
    IN  IF early # NoCode THEN early
        ELSE IF quadratic # {} THEN First(quadratic)
        ELSE IF five # {} THEN First(five)
        ELSE BigGuns(f, ks)

(***************************************************************************)
(* Five to eight keys: testeight and hexeight.                             *)
(***************************************************************************)
\* badmask: the values a minimal hash may not use.
testeight(v, n, form) == Distinct(v) /\ (form = "MINIMAL_HP" => \A m \in DOMAIN v : v[m] < n)

Stage8(f, s) ==
    CASE s = 1 -> {Try(0, 0, 0, Xors(<<T(0, 7)>>))}
      [] s = 2 -> {Try(i, 0, 0, Xors(<<T(i, 7)>>)) : i \in f.lowbit .. f.highbit - 2}
      [] s = 3 -> UNION {UNION {{Try(i, j, 0, Sum(<<<<1, i>>, <<1, j>>>>, 8)), Try(i, j, 1, Xors(<<T(i, 7), T(j, 7)>>)),
                                 Try(i, j, 2, Sum(<<<<1, i>>, <<-1, j>>>>, 8))} : j \in i + 1 .. f.highbit} : i \in Inner(f)}
      [] s = 4 -> UNION {UNION {{Try(i, j, k, Sum(<<<<1, i>>, <<1, j>>, <<1, k>>>>, 8)) :
                                    k \in j + 1 .. f.highbit} : j \in i + 1 .. f.highbit} : i \in Inner(f)}
hexeight(ks, f, form) ==
    FirstStage(4, LAMBDA s : Stage8(f, s), LAMBDA c : testeight(Values(c, ks), Len(ks), form))

(***************************************************************************)
(* hexn: the next pair (a, b).  An end of (a, b) is either Low: bits from  *)
(* some bit on, masked, or High: bits shifted to the top and down again;   *)
(* in the last cases the value is mixed first, and a adds two shifts.      *)
(***************************************************************************)
Low(sh, len) == [end |-> "low", sh |-> sh, len |-> len]
High(sh, lg) == [end |-> "high", sh |-> sh, lg |-> lg]
Folded(sh, lg) == [end |-> "folded", sh |-> sh, lg |-> lg]
\* What hexn assigns to a_k or b_k ...
Assigned(e, v, w) ==
    CASE e.end = "low" -> Shr(v, e.sh) % e.len
      [] e.end = "high" -> ShrWide(Shl(v, e.sh), W - e.lg, w)
      [] e.end = "folded" -> ShrWide(IF e.sh = 0 THEN v ELSE (v + Shl(v, e.sh)) % 2^W, W - e.lg, w)
\* ... and the line it emits: no mask where the shift leaves no more bits.
Emitted(e, v, w) ==
    CASE e.end = "low" -> IF e.sh # 0 /\ e.sh + mylog2(e.len) = W THEN Shr(v, e.sh) ELSE Shr(v, e.sh) % e.len
      [] OTHER -> Assigned(e, v, w)

\* The mixing of case 7; the low 16 bits of 0x9e3779b9 are enough for W <= 16.
GoldenRatio == 31161
Spread(f) == f.highbit + 1 - f.lowbit
mix(v, s, f) ==
    LET v0 == (v + GoldenRatio * s) % 2^W
        v1 == IF Spread(f) > 16 THEN XorWords(v0, Shr(v0, 16)) ELSE v0
        v2 == IF Spread(f) > 8 THEN (v1 + Shl(v1, 8)) % 2^W ELSE v1
    IN  XorWords(v2, Shr(v2, 4))
NoMix == [by |-> 0, on |-> FALSE]
Mixed(c, v, f) == IF c.mix.on THEN mix(v, c.mix.by, f) ELSE v
Pair(a, b) == [mix |-> NoMix, a |-> a, b |-> b]

\* while (++x < highbit) if (x is in marks) break;
NextUpTo(x, high, marks) ==
    LET stops == {y \in x + 1 .. high : y = high \/ y \in marks}
    IN  IF stops = {} THEN x + 1 ELSE CHOOSE y \in stops : \A z \in stops : y <= z

\* Case by case; the result is the new state and the pair.
RECURSIVE hexn(_, _, _, _)
hexn(f, s, al, bl) ==
    LET alog == mylog2(al)
        blog == mylog2(bl)
        toHigh == W - (f.highbit + 1)
        diff == SumSet({2^b : b \in f.diffbits})
    IN  CASE f.i = 1 -> <<[f EXCEPT !.i = 2], Pair(High(toHigh, alog), Low(f.lowbit, bl))>>
          [] f.i = 2 -> <<[f EXCEPT !.i = 3], Pair(Low(f.lowbit, al), High(toHigh, blog))>>
          [] f.i = 3 -> hexn([f EXCEPT !.i = 4, !.j = f.lowbit, !.k = f.lowbit], s, al, bl)
          [] f.i = 4 ->
                IF f.j >= f.highbit THEN hexn([f EXCEPT !.i = 5], s, al, bl)
                ELSE <<[f EXCEPT !.j = NextUpTo(f.j, f.highbit, {x \in Bits : Shr(diff, x) % bl > 2})],
                       Pair(High(W - f.k - 1, alog), Low(f.j, bl))>>
          [] f.i = 5 ->
                LET k == NextUpTo(f.k, f.highbit,
                                  {x \in Bits : Shr(Shl(diff, W - x - 1), alog) % al > 0})
                IN  IF k >= f.highbit THEN hexn([f EXCEPT !.i = 6, !.k = k], s, al, bl)
                    ELSE hexn([f EXCEPT !.i = 4, !.k = k, !.j = f.lowbit], s, al, bl)
          [] f.i = 6 -> hexn([f EXCEPT !.i = 7, !.j = 0, !.k = 0], s, al, bl)
          [] f.i = 7 ->
                IF f.j > W - blog THEN hexn([f EXCEPT !.i = 8], s, al, bl)
                ELSE <<[f EXCEPT !.j = @ + 1],
                       [mix |-> [by |-> s, on |-> TRUE], a |-> Folded(f.k, alog), b |-> Low(f.j, bl)]>>
          [] f.i = 8 ->
                IF f.k + 1 > W - alog THEN hexn([f EXCEPT !.i = 9, !.k = @ + 1], s, al, bl)
                ELSE hexn([f EXCEPT !.i = 7, !.k = @ + 1, !.j = 0], s, al, bl)
          [] f.i = 9 -> hexn([f EXCEPT !.i = 6], s, al, bl)

(***************************************************************************)
(* inithex, called with salt 1, 2, ... until it returns TRUE.              *)
(***************************************************************************)
Zeros(ks) == [n \in DOMAIN ks |-> 0]

Init ==
    /\ \E n \in Sizes : keys \in KeyLists(n)
    /\ perfect \in Perfects
    /\ \E l \in Lens : alen = l[1] /\ blen = l[2]
    /\ wide \in WideShifts
    /\ salt = 0
    /\ final = setlow(keys) @@ [i |-> 0, j |-> 0, k |-> 0]
    /\ code = NoCode /\ ak = Zeros(keys) /\ bk = Zeros(keys)
    /\ status = "searching" /\ tried = {}

\* The search for code that needs no table.
Direct ==
    CASE Len(keys) = 1 -> hexone
      [] Len(keys) = 2 -> hextwo(keys)
      [] Len(keys) = 3 -> hexthree(keys, final, perfect)
      [] Len(keys) = 4 -> hexfour(keys, final)
      [] Len(keys) \in 5 .. 8 -> IF salt = 0 THEN hexeight(keys, final, perfect) ELSE NoCode
      [] OTHER -> NoCode

inithex ==
    /\ status \in {"searching", "pair"}
    /\ salt < MaxSalt
    /\ salt' = salt + 1
    /\ LET c == Direct
           f == IF salt = 0 THEN [final EXCEPT !.i = 1, !.j = 0, !.k = 0] ELSE final
           n == hexn(f, salt + 1, alen, blen)
       IN  IF c # NoCode \/ Len(keys) <= 4
           THEN /\ code' = c
                /\ status' = IF c = NoCode THEN "fatal" ELSE "found"
                /\ UNCHANGED <<final, ak, bk, tried>>
           ELSE /\ final' = n[1]
                /\ code' = n[2]
                /\ ak' = [m \in DOMAIN keys |-> Assigned(n[2].a, Mixed(n[2], keys[m], final), wide)]
                /\ bk' = [m \in DOMAIN keys |-> Assigned(n[2].b, Mixed(n[2], keys[m], final), wide)]
                /\ status' = "pair"
                /\ tried' = tried \cup {n[2]}
    /\ UNCHANGED <<keys, perfect, alen, blen, wide>>

Next == inithex
Spec == Init /\ [][Next]_vars
-----------------------------------------------------------------------------
(***************************************************************************)
(* Properties                                                              *)
(***************************************************************************)
\* Type correctness.
TypeOK ==
    /\ \A n \in DOMAIN keys : keys[n] \in Word
    /\ status \in {"searching", "found", "pair", "fatal"}
    /\ final.lowbit \in 0 .. W /\ final.highbit \in 0 .. W - 1 /\ final.i \in 0 .. 9
    /\ DOMAIN ak = DOMAIN keys /\ DOMAIN bk = DOMAIN keys

\* The emitted code is a perfect hash of the keys, and a minimal one if that was
\* asked for (perfhex.c:48 for two keys, :101 for three, :277 for four, :842 for more);
\* but not for two keys that agree in bit 0, where the bit that tells them apart is
\* shifted left and lost (perfhex.c:82).
ShiftedLeft == Len(keys) = 2 /\ Bit(keys[1], 0) = Bit(keys[2], 0)
HashRange == IF perfect = "MINIMAL_HP" THEN Len(keys) ELSE 2^mylog2(Len(keys))
IsPerfect ==
    status = "found" =>
        /\ Distinct(Values(code, keys)) <=> ~ShiftedLeft
        /\ \A n \in DOMAIN keys : Value(code, keys[n]) < HashRange

\* Distinct keys are never given up: "I can prove this will always work"
\* (perfhex.c:216) and "guaranteed to work" (perfhex.c:593).
NeverFatal == status # "fatal"

\* The lines that hexn emits compute the a and b that it assigned to the keys
\* and that the table was built for (perfhex.c:1012-1181).
EmittedAsAssigned ==
    status = "pair" =>
        \A n \in DOMAIN keys :
            /\ Emitted(code.a, Mixed(code, keys[n], final), wide) = ak[n]
            /\ Emitted(code.b, Mixed(code, keys[n], final), wide) = bk[n]

\* a is in 0 .. alen - 1 and b in 0 .. blen - 1 (perfhex.c:1257): b is an index.  Not
\* where one of them has no bits and the build leaves a value that is shifted by the
\* width of the word (perfhex.c:1040).
ShiftsByWord == wide /\ \E e \in {code.a, code.b} : e.end # "low" /\ e.lg = 0
PairInRange ==
    status = "pair" /\ ~ShiftsByWord => \A n \in DOMAIN keys : ak[n] \in 0 .. alen - 1 /\ bk[n] \in 0 .. blen - 1

\* "We need to produce a different (a,b) every time this is called"
\* (perfhex.c:975): hexn does not emit the same code twice.
EmitsNew == status' = "pair" => code' \notin tried
=============================================================================
