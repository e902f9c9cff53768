----------------------------- MODULE StrTokens ------------------------------
(***************************************************************************)
(* The string tokenizer str_tokens (str_tokens.c).  One action is a turn   *)
(* of its while loop: it finds the next delimiter from pstr on, takes what *)
(* lies before it as a token, and steps over it.  The delimiter's form     *)
(* selects the search: "" every character, [xyz] or [xyz]+ a class,        *)
(* /re/ a regular expression, anything else a string.  A regular           *)
(* expression is represented by the one string it matches.                 *)
(***************************************************************************)
EXTENDS Naturals, Sequences, SequencesExt, FiniteSets

CONSTANTS
    Strings,        \* the inputs, sequences of characters
    Delims,         \* [type, chars, plus]: what the delimiter was parsed to
    Limits,         \* the values of n
    DefaultNum,     \* DEFAULT_TOKEN_NUM
    Step,           \* DEFAULT_TOKEN_STEP
    NoMemory        \* may realloc fail?

ASSUME TokAssumption ==
    /\ \A s \in Strings : s \in Seq(ToSet(s))
    /\ \A d \in Delims :
          /\ d.type \in {"every", "class", "regex", "array"} /\ d.plus \in BOOLEAN
          /\ d.chars \in Seq(ToSet(d.chars))
          /\ d.plus => d.type = "class"
    /\ Limits \subseteq Nat /\ DefaultNum \in Nat \ {0} /\ Step \in Nat \ {0}

VARIABLES
    str, delim, n,  \* the arguments
    pstr, slen,     \* cursor, and the length said to remain
    t, ntok,        \* the tokens as [ptr, len], and how many are allocated
    tokPc

tokVars == <<str, delim, n, pstr, slen, t, ntok, tokPc>>
input == <<str, delim, n>>

TokInit ==
    /\ str \in Strings /\ delim \in Delims /\ n \in Limits
    /\ pstr = 0 /\ slen = Len(str) /\ t = <<>>
    /\ ntok = IF n = 0 THEN DefaultNum ELSE n
    /\ tokPc = IF str = <<>> THEN "end" ELSE "loop"

(* The characters from offset p on; '\0' is their end. *)
From(p) == SubSeq(str, p + 1, Len(str))

Least(S, none) == IF S = {} THEN none ELSE CHOOSE x \in S : \A y \in S : x <= y

(* strcspn *)
Span(s, D) == Least({i \in 0 .. Len(s) - 1 : s[i + 1] \in D}, Len(s))

(* strstr, and the start of what pcre_exec finds: offset or Len(s) + 1 *)
Offset(s, d) == Least({i \in 0 .. Len(s) - Len(d) : SubSeq(s, i + 1, i + Len(d)) = d}, Len(s) + 1)

Found(s, d) == Offset(s, d) <= Len(s)

(* the delimiter after a token, if the string does not end there *)
Over(p, len) == IF p + len < Len(str) THEN len + 1 ELSE len

(* <<tmp_len, tmp_step>> of a turn; the slen of an array is not cut off. *)
Search ==
    LET s == From(pstr)
    IN  CASE delim.type = "every" -> <<1, 1>>
        []   delim.type = "class" ->
                LET len == Span(s, ToSet(delim.chars)) IN <<len, Over(pstr, len)>>
        []   delim.type = "regex" ->
                LET len == Offset(s, delim.chars) IN <<len, len + Len(delim.chars)>>
        []   delim.type = "array" ->
                LET len == IF Found(s, delim.chars) THEN Offset(s, delim.chars) ELSE slen
                IN  <<len, IF Found(s, delim.chars) THEN Over(pstr, len) ELSE slen>>

(* Mutant: notices a full array one token too late. *)
GrownLate == IF Len(t) > ntok THEN ntok + Step ELSE ntok

(* if (cnt >= ntok) realloc *)
Grown == IF Len(t) >= ntok THEN ntok + Step ELSE ntok

(* Mutant: forgets eat_next_empty. *)
TakeAll(len) == TRUE

Take(len) == len > 0 \/ ~delim.plus

Turn ==
    /\ tokPc = "loop"
    /\ ntok' = Grown
    /\ ~(delim.type = "regex" /\ ~Found(From(pstr), delim.chars))
    /\ LET len == Search[1]
           step == Search[2]
       IN  /\ t' = IF Take(len) THEN Append(t, [ptr |-> pstr, len |-> len]) ELSE t
           /\ pstr' = pstr + step /\ slen' = slen - step
           /\ tokPc' = IF (n > 0 /\ Len(t') >= n) \/ pstr + step >= Len(str) THEN "end" ELSE "loop"
    /\ UNCHANGED input

(* pcre_exec finds nothing more: goto end *)
NoMatch ==
    /\ tokPc = "loop" /\ delim.type = "regex" /\ ~Found(From(pstr), delim.chars)
    /\ ntok' = Grown /\ tokPc' = "end"
    /\ UNCHANGED <<input, pstr, slen, t>>

(* realloc fails: the tokens found so far are returned *)
ReallocFails ==
    /\ NoMemory /\ tokPc = "loop" /\ Len(t) >= ntok
    /\ tokPc' = "failed"
    /\ UNCHANGED <<input, pstr, slen, t, ntok>>

Done == tokPc # "loop" /\ UNCHANGED tokVars

TokNext == Turn \/ NoMatch \/ ReallocFails \/ Done

TokSpec == TokInit /\ [][TokNext]_tokVars

-----------------------------------------------------------------------------
(* What a split is: the places where a delimiter starts, none inside       *)
(* another; the pieces between; not an empty one at the very end.          *)
IsDelimAt(p) ==
    CASE delim.type = "class" -> str[p + 1] \in ToSet(delim.chars)
    []   delim.type = "every" -> FALSE
    []   OTHER -> /\ p + Len(delim.chars) <= Len(str)
                  /\ SubSeq(str, p + 1, p + Len(delim.chars)) = delim.chars
Width == IF delim.type = "class" THEN 1 ELSE Len(delim.chars)

Starts ==
    LET starts[p \in 0 .. Len(str)] ==
            IF p >= Len(str) THEN {}
            ELSE IF IsDelimAt(p) THEN {p} \cup starts[p + Width]
            ELSE starts[p + 1]
    IN  starts[0]

Pieces ==
    IF delim.type = "every" THEN [i \in 1 .. Len(str) |-> [ptr |-> i - 1, len |-> 1]]
    ELSE LET cuts == SetToSortSeq(Starts, <)
             begin(i) == IF i = 1 THEN 0 ELSE cuts[i - 1] + Width
             stop(i) == IF i <= Len(cuts) THEN cuts[i] ELSE Len(str)
         IN  SelectSeq([i \in 1 .. Len(cuts) + 1 |-> [ptr |-> begin(i), len |-> stop(i) - begin(i)]],
                       LAMBDA x : x.ptr < Len(str))

Wanted ==
    LET all == IF delim.plus THEN SelectSeq(Pieces, LAMBDA x : x.len > 0) ELSE Pieces
    IN  IF n > 0 /\ Len(all) > n THEN SubSeq(all, 1, n) ELSE all

(* str_tokens.c:110 "return n tokens (0 means all tokens)": in the end *)
(* the tokens are the pieces between the delimiters, all or the first n.   *)
AllTokens == tokPc = "end" => t = Wanted

(* str_tokens.c:214-283: every token is stored inside what is allocated    *)
(* and lies inside the string, at most n of them if n is given; the tokens *)
(* are disjoint and in the order of the string; a token goes on to the     *)
(* next delimiter or to the end of the string; and if the delimiter is a   *)
(* class, a character that the cursor has passed is in a token exactly if  *)
(* it is no delimiter, and without "+" one delimiter lies between a token  *)
(* and the next.                                                           *)
Stop(i) == t[i].ptr + t[i].len
Stored == Len(t) <= ntok /\ (n > 0 => Len(t) <= n)
Apart == \A i, j \in DOMAIN t : i < j => Stop(i) <= t[j].ptr
UpToDelim ==
    delim.type # "every" =>
        \A i \in DOMAIN t :
            /\ Stop(i) = Len(str) \/ IsDelimAt(Stop(i))
            /\ \A p \in t[i].ptr .. Stop(i) - 1 : p + Width <= Stop(i) => ~IsDelimAt(p)
CutAtClass ==
    delim.type = "class" =>
        /\ \A p \in 0 .. pstr - 1 :
              (\E i \in DOMAIN t : t[i].ptr <= p /\ p < Stop(i)) <=> str[p + 1] \notin ToSet(delim.chars)
        /\ ~delim.plus => \A i \in DOMAIN t : t[i].ptr = IF i = 1 THEN 0 ELSE Stop(i - 1) + 1
TokensSplit == Stored /\ (\A i \in DOMAIN t : Stop(i) <= Len(str)) /\ Apart /\ UpToDelim /\ CutAtClass

TokTypeOK ==
    /\ str \in Strings /\ delim \in Delims /\ n \in Limits
    /\ pstr \in 0 .. Len(str) /\ slen = Len(str) - pstr
    /\ t \in Seq([ptr : Nat, len : Nat]) /\ ntok \in Nat
    /\ tokPc \in {"loop", "end", "failed"}

(* The tokens lie behind the cursor; a class that is not eaten leaves the  *)
(* cursor right behind the delimiter of the last one.                      *)
TokInv ==
    /\ TokTypeOK
    /\ Stored /\ Apart /\ UpToDelim /\ CutAtClass
    /\ \A i \in DOMAIN t : Stop(i) <= pstr
    /\ tokPc = "loop" => pstr < Len(str) /\ (n > 0 => Len(t) < n)
    /\ tokPc = "loop" /\ delim.type = "class" /\ ~delim.plus =>
          pstr = IF t = <<>> THEN 0 ELSE Stop(Len(t)) + 1
=============================================================================
