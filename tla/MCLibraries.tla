---------------------------- MODULE MCLibraries -----------------------------
(***************************************************************************)
(* Aco, LibCsv with CsvText, and StrTokens for TLC.  Every behaviour is    *)
(* one of one library, which names it together with the client it has; the *)
(* variables of the others stay as they begin.                             *)
(***************************************************************************)
EXTENDS Aco, CsvText, StrTokens, TLC

CONSTANTS c1, c2, c3, s1, s2      \* coroutines and share stacks

VARIABLE which

-----------------------------------------------------------------------------
(* libcsv: all inputs of up to four characters; rows that csv_fwrite wrote; *)
(* a parser that is freed and given other options between rows.            *)
RECURSIVE SeqsOf(_, _)
SeqsOf(S, k) == IF k = 0 THEN {<<>>} ELSE SeqsOf(S, k - 1) \cup {Append(s, c) : s \in {z \in SeqsOf(S, k - 1) : Len(z) = k - 1}, c \in S}
Raw(k) == {[text |-> s] : s \in SeqsOf(Chars, k)}

\* Rows as a program writes them with csv_fwrite: commas between fields, a newline last.
RECURSIVE RowText(_)
RowText(r) == IF Len(r) = 1 THEN csv_fwrite2(r[1]) ELSE csv_fwrite2(r[1]) \o <<"comma">> \o RowText(Tail(r))
Doc(rows) ==
    [rows |-> rows, text |-> IF Len(rows) = 1 THEN RowText(rows[1]) ELSE RowText(rows[1]) \o <<"nl">> \o RowText(rows[2])]
OneField == {Doc(<<<<f>>>>) : f \in SeqsOf(Chars, 2)}
TwoFields == {Doc(<<<<f, g>>>>) : f \in SeqsOf(Chars, 1), g \in SeqsOf(Chars, 1)}
TwoRows == {Doc(<<<<f>>, <<g>>>>) : f \in SeqsOf(Chars, 1), g \in SeqsOf(Chars, 1)}
Docs == OneField \cup TwoFields \cup TwoRows

Texts == Raw(4)
ShortTexts == Raw(3)
CsvSources == Texts \cup Docs
CsvOpts == {{}, {"APPEND_NULL"}, {"STRICT", "REPALL_NL"}, {"STRICT", "STRICT_FINI", "APPEND_NULL", "EMPTY_IS_NULL"}, {"EMPTY_IS_NULL"}}
OneTask == [free |-> "never", set_opts |-> "never"]
Reuser == [free |-> "between rows", set_opts |-> "between rows"]
CsvCallers == {OneTask, Reuser}

CsvUse ==
    \/ source \in Texts /\ caller = OneTask /\ blk_size \in {1, 2}
    \/ source \in Docs /\ caller = OneTask /\ blk_size = SIZE_MAX
    \/ source \in ShortTexts /\ caller = Reuser /\ blk_size \in {1, 2}
CsvUnused == source = [text |-> <<>>] /\ options = {} /\ blk_size = SIZE_MAX /\ caller = OneTask

-----------------------------------------------------------------------------
(* str_tokens: all strings over a, x and y, split at delimiters of one     *)
(* character; any form of delimiter, with limits and a failing realloc.    *)
AllStrings(max) == UNION {[1 .. l -> {"a", "x", "y"}] : l \in 0 .. max}
Kind(ty, c, p) == [type |-> ty, chars |-> c, plus |-> p]
SingleChars ==
    {Kind("every", <<>>, FALSE), Kind("class", <<"x", "y">>, FALSE),
     Kind("class", <<"x", "y">>, TRUE), Kind("array", <<"x">>, FALSE)}
AnyForm == SingleChars \cup {Kind("array", <<"x", "y">>, FALSE), Kind("regex", <<"x">>, FALSE), Kind("regex", <<"x", "y">>, FALSE)}
TokStrings == AllStrings(6)

TokUse ==
    \/ str \in TokStrings /\ delim \in SingleChars
    \/ str \in AllStrings(5) /\ delim \in AnyForm
TokUnused == str = <<>> /\ delim = Kind("every", <<>>, FALSE) /\ n = 0

-----------------------------------------------------------------------------
(* libaco: two coroutines with deep stacks on one share stack; three on    *)
(* two share stacks; lengths around the minimum and around whole pages.    *)
Plain == {[req |-> 0, guard |-> TRUE]}
AnyLength == [req : Sizes, guard : Guards]

Within(cos, stacks, lengths, depth, values) ==
    /\ \A c \in Co : co'[c] # None => c \in cos /\ co'[c].sp <= depth
    /\ \A c \in Co : \A i \in DOMAIN frames'[c] : frames'[c][i] \in {c} \X values
    /\ \A s \in Stack : stack'[s] # NoStack =>
          s \in stacks /\ [req |-> stack'[s].req, guard |-> stack'[s].guard] \in lengths

AcoNext ==
    \/ which = "aco deep" /\ Next /\ Within({c1, c2}, {s1}, Plain, 3, Values)
    \/ which = "aco many" /\ Next /\ Within(Co, Stack, Plain, 1, {0})
    \/ which = "aco lengths" /\ Next /\ Within({c3}, {s1}, AnyLength, 1, {0})

\* What StacksStay, BufferKept and RowsOfText (of Aco and LibCsv) assume is so here.
ASSUME MCAssumption == ConstOK /\ CallersWait

\* The two coroutines of "aco deep" look alike.
Symmetry == Permutations({c1, c2})

-----------------------------------------------------------------------------
MCInit ==
    /\ which \in {"csv", "tok", "aco deep", "aco many", "aco lengths"}
    /\ IF which = "csv" THEN CsvUse ELSE CsvUnused
    /\ IF which = "tok" THEN TokUse ELSE TokUnused
    /\ Init /\ csv_init /\ TokInit

MCNext ==
    /\ UNCHANGED which
    /\ \/ which = "csv" /\ CsvNext /\ UNCHANGED <<tokVars, vars>>
       \/ which = "tok" /\ TokNext /\ UNCHANGED <<csvVars, vars>>
       \/ AcoNext /\ UNCHANGED <<csvVars, tokVars>>

MCSpec == MCInit /\ [][MCNext]_<<which, csvVars, tokVars, vars>>

-----------------------------------------------------------------------------
\* libcsv.c:476-544, str_tokens.c:110-283: what csv_fwrite wrote is read back, in
\* strict mode too, and csv_write2 stays within the room it is given and returns the
\* room that is needed; in the end the tokens of a string are the pieces between
\* delimiters of one character, all or the first n.  (Of a longer delimiter only the
\* first character is stepped over, str_tokens.c:248, and what follows the last match
\* of a regular expression is no token, :239: for these TokensSplit is all there is.)
TextRight == /\ which = "csv" => RoundTrip
             /\ which = "csv" /\ caller = OneTask /\ pc = "done" => WriteBounded
             /\ which = "tok" /\ delim \in SingleChars => AllTokens
=============================================================================
