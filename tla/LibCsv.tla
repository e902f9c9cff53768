------------------------------- MODULE LibCsv -------------------------------
(***************************************************************************)
(* src/lib/libcsv/libcsv.c: the CSV parser.  csv_parse is given the input  *)
(* in pieces of any length; between two calls everything it knows is in    *)
(* the parser object.  The entry buffer grows by blk_size; the             *)
(* reallocation may fail, and then the caller may go on from the byte that *)
(* csv_parse stopped at.                                                   *)
(*                                                                         *)
(* A character is one of five kinds; "?" is a byte never written.          *)
(***************************************************************************)
EXTENDS Integers, Sequences

CONSTANTS
    Sources,        \* [text, rows]: inputs, with the rows that they were written from
    OptSets,        \* sets of CSV_ options
    BlkSizes, SIZE_MAX,
    MayFail,        \* may realloc fail?
    Callers         \* [free, set_opts]: when the caller calls csv_free and csv_set_opts,
                    \* "never", "between rows" or "any time"

Chars == {"a", "quote", "comma", "space", "nl"}
Opts == {"STRICT", "REPALL_NL", "STRICT_FINI", "APPEND_NULL", "EMPTY_IS_NULL"}

\* Sizes are of type size_t.
ASSUME CsvAssumption ==
    /\ SIZE_MAX \in Nat /\ BlkSizes \subseteq 0 .. SIZE_MAX
    /\ OptSets \subseteq SUBSET Opts
    /\ \A s \in Sources : s.text \in Seq(Chars)

VARIABLES
    source, blk_size, options, caller,
    at,             \* characters of the input that the caller has handed over
    left,           \* characters that the running call still has to read
    local,          \* quoted, pstate, spaces and entry_pos of the running call ...
    parser,         \* ... and in the parser object
    out,            \* entry_buf, and what the callbacks got: the row so far, and the rows
    status,
    pc              \* "idle", "alloc" or "loop" in csv_parse, "done" after csv_fini

csvVars == <<source, blk_size, caller, options, at, left, local, parser, out, status, pc>>

(***************************************************************************)
(* Callbacks.  m is the state of the parser, o is out.                     *)
(***************************************************************************)
Fresh == [pstate |-> "ROW_NOT_BEGUN", quoted |-> FALSE, spaces |-> 0, pos |-> 0]
NoOutput == [buf |-> <<>>, row |-> <<>>, rows |-> <<>>, overrun |-> FALSE]

SUBMIT_CHAR(m, o, c) ==
    [m |-> [m EXCEPT !.pos = @ + 1],
     o |-> IF m.pos < Len(o.buf) THEN [o EXCEPT !.buf[m.pos + 1] = c] ELSE [o EXCEPT !.overrun = TRUE]]

SUBMIT_FIELD(m, o, opts) ==
    LET len == IF m.quoted THEN m.pos ELSE m.pos - m.spaces
        value == IF "EMPTY_IS_NULL" \in opts /\ ~m.quoted /\ len = 0 THEN <<"NULL">>
                 ELSE [i \in 1 .. len |-> IF i <= Len(o.buf) THEN o.buf[i] ELSE "?"]
    IN  [m |-> [Fresh EXCEPT !.pstate = "FIELD_NOT_BEGUN"],
         o |-> [o EXCEPT !.row = Append(@, value),
                         !.overrun = @ \/ len < 0 \/ len > Len(o.buf)
                                         \/ ("APPEND_NULL" \in opts /\ len = Len(o.buf))]]

SUBMIT_ROW(m, o) == [m |-> Fresh, o |-> [o EXCEPT !.row = <<>>, !.rows = Append(@, o.row)]]
FieldAndRow(m, o, opts) == LET r == SUBMIT_FIELD(m, o, opts) IN SUBMIT_ROW(r.m, r.o)

(***************************************************************************)
(* One turn of csv_parse's loop: the three cases of the switch.  "error"   *)
(* is a strict error: the character is not consumed.                       *)
(***************************************************************************)
Begun(m, quoted) == [m EXCEPT !.pstate = "FIELD_BEGUN", !.quoted = quoted]
Ok(r) == [m |-> r.m, o |-> r.o, error |-> FALSE]
Stay(m, o) == [m |-> m, o |-> o, error |-> FALSE]
Error(m, o) == [m |-> m, o |-> o, error |-> TRUE]

NotBegun(c, m, o, opts) ==
    CASE c = "space" -> Stay(m, o)
      [] c = "nl" -> IF m.pstate = "FIELD_NOT_BEGUN" THEN Ok(FieldAndRow(m, o, opts))
                     ELSE IF "REPALL_NL" \in opts THEN Ok(SUBMIT_ROW(m, o)) ELSE Stay(m, o)
      [] c = "comma" -> Ok(SUBMIT_FIELD(m, o, opts))
      [] c = "quote" -> Stay(Begun(m, TRUE), o)
      [] OTHER -> Ok(SUBMIT_CHAR(Begun(m, FALSE), o, c))

InField(c, m, o, opts) ==
    LET put == SUBMIT_CHAR(m, o, c)
        tight == SUBMIT_CHAR([m EXCEPT !.spaces = 0], o, c)
    IN  CASE c = "quote" /\ m.quoted -> Ok([put EXCEPT !.m.pstate = "FIELD_MIGHT_HAVE_ENDED"])
          [] c = "quote" /\ ~m.quoted -> IF "STRICT" \in opts THEN Error(m, o) ELSE Ok(tight)
          [] c = "comma" -> IF m.quoted THEN Ok(put) ELSE Ok(SUBMIT_FIELD(m, o, opts))
          [] c = "nl" -> IF m.quoted THEN Ok(put) ELSE Ok(FieldAndRow(m, o, opts))
          [] c = "space" /\ ~m.quoted -> Ok([put EXCEPT !.m.spaces = @ + 1])
          [] OTHER -> Ok(tight)

\* Gets rid of the spaces and of the original quote.
Trimmed(m) == [m EXCEPT !.pos = @ - (m.spaces + 1)]
MightHaveEnded(c, m, o, opts) ==
    CASE c = "comma" -> Ok(SUBMIT_FIELD(Trimmed(m), o, opts))
      [] c = "nl" -> Ok(FieldAndRow(Trimmed(m), o, opts))
      [] c = "space" -> Ok([SUBMIT_CHAR(m, o, c) EXCEPT !.m.spaces = @ + 1])
      [] c = "quote" /\ m.spaces = 0 -> Stay([m EXCEPT !.pstate = "FIELD_BEGUN"], o)
      [] c = "quote" /\ m.spaces > 0 ->
            IF "STRICT" \in opts THEN Error(m, o) ELSE Ok(SUBMIT_CHAR([m EXCEPT !.spaces = 0], o, c))
      [] OTHER -> IF "STRICT" \in opts THEN Error(m, o)
                  ELSE Ok(SUBMIT_CHAR([m EXCEPT !.spaces = 0, !.pstate = "FIELD_BEGUN"], o, c))

Char(c, m, o, opts) ==
    CASE m.pstate \in {"ROW_NOT_BEGUN", "FIELD_NOT_BEGUN"} -> NotBegun(c, m, o, opts)
      [] m.pstate = "FIELD_BEGUN" -> InField(c, m, o, opts)
      [] m.pstate = "FIELD_MIGHT_HAVE_ENDED" -> MightHaveEnded(c, m, o, opts)

(***************************************************************************)
(* The caller and the parser                                               *)
(***************************************************************************)
csv_init ==
    /\ source \in Sources /\ options \in OptSets /\ blk_size \in BlkSizes
    /\ caller \in Callers
    /\ at = 0 /\ left = 0
    /\ local = Fresh /\ parser = Fresh
    /\ out = NoOutput /\ status = "success" /\ pc = "idle"

same == <<source, blk_size, caller>>

\* csv_parse is called with the next len characters.
Call(len) ==
    /\ pc = "idle" /\ len \in 1 .. Len(source.text) - at
    /\ left' = len
    /\ local' = parser
    /\ pc' = IF out.buf = <<>> THEN "alloc" ELSE "loop"
    /\ UNCHANGED <<same, options, at, parser, out, status>>

Return == pc' = "idle" /\ left' = 0 /\ parser' = local /\ UNCHANGED local

\* The loop looks for a full buffer before it reads a character.
\* Mutant: forgets the NUL behind the field.
BufferLimitWhole == Len(out.buf)
BufferLimit == IF "APPEND_NULL" \in options THEN Len(out.buf) - 1 ELSE Len(out.buf)
MustGrow == pc = "alloc" \/ (pc = "loop" /\ left > 0 /\ local.pos = BufferLimit)

Halves(n) == {h \in 1 .. n : \E k \in 0 .. n : h = n \div 2^k}
\* What csv_increase_buffer asks for: blk_size more, or as much as there can be.
ToAdd == IF Len(out.buf) >= SIZE_MAX - blk_size THEN SIZE_MAX - Len(out.buf) ELSE blk_size
csv_increase_buffer ==
    /\ MustGrow
    /\ \/ /\ ToAdd > 0
          /\ \E n \in IF MayFail THEN Halves(ToAdd) ELSE {ToAdd} :
                out' = [out EXCEPT !.buf = @ \o [i \in 1 .. n |-> "?"]]
          /\ pc' = "loop"
          /\ UNCHANGED <<left, local, parser, status>>
       \/ /\ ToAdd = 0 \/ MayFail
          /\ status' = IF ToAdd = 0 THEN "ETOOBIG" ELSE "ENOMEM"
          /\ Return
          /\ UNCHANGED out
    /\ UNCHANGED <<same, options, at>>

csv_parse ==
    /\ pc = "loop" /\ left > 0 /\ ~MustGrow
    /\ LET r == Char(source.text[at + 1], local, out, options)
       IN  IF r.error
           THEN /\ status' = "EPARSE"
                /\ Return
                /\ UNCHANGED <<at, out>>
           ELSE /\ local' = r.m /\ out' = r.o
                /\ at' = at + 1 /\ left' = left - 1
                /\ UNCHANGED <<parser, status, pc>>
    /\ UNCHANGED <<same, options>>

ReturnLen ==
    /\ pc = "loop" /\ left = 0
    /\ Return
    /\ UNCHANGED <<same, options, at, out, status>>

csv_fini ==
    /\ pc = "idle"
    /\ at = Len(source.text) \/ status # "success"
    /\ IF parser.pstate = "FIELD_BEGUN" /\ parser.quoted /\ {"STRICT", "STRICT_FINI"} \subseteq options
       THEN status' = "EPARSE" /\ UNCHANGED <<parser, out>>
       ELSE /\ out' = CASE parser.pstate = "ROW_NOT_BEGUN" -> out
                        [] parser.pstate = "FIELD_MIGHT_HAVE_ENDED" -> FieldAndRow(Trimmed(parser), out, options).o
                        [] OTHER -> FieldAndRow(parser, out, options).o
            /\ parser' = Fresh
            /\ status' = "success"
    /\ pc' = "done"
    /\ UNCHANGED <<same, options, at, left, local>>

Allowed(when) == when = "any time" \/ (when = "between rows" /\ parser = Fresh)

csv_free ==
    /\ Allowed(caller.free) /\ pc = "idle" /\ out.buf # <<>>
    /\ out' = [out EXCEPT !.buf = <<>>]
    /\ UNCHANGED <<same, options, at, left, local, parser, status, pc>>

csv_set_opts ==
    /\ Allowed(caller.set_opts) /\ pc = "idle"
    /\ options' \in OptSets
    /\ UNCHANGED <<same, at, left, local, parser, out, status, pc>>

Finished == pc = "done" /\ UNCHANGED csvVars

CsvNext ==
    \/ \E len \in 1 .. Len(source.text) : Call(len)
    \/ csv_increase_buffer \/ csv_parse \/ ReturnLen \/ csv_fini \/ csv_free \/ csv_set_opts \/ Finished
CsvSpec == csv_init /\ [][CsvNext]_csvVars
-----------------------------------------------------------------------------
(***************************************************************************)
(* Properties                                                              *)
(***************************************************************************)
Parsers ==
    [pstate : {"ROW_NOT_BEGUN", "FIELD_NOT_BEGUN", "FIELD_BEGUN", "FIELD_MIGHT_HAVE_ENDED"},
     quoted : BOOLEAN, spaces : Nat, pos : Nat]
Fields == Seq(Chars \cup {"?", "NULL"})
Outputs == [buf : Seq(Chars \cup {"?"}), row : Seq(Fields), rows : Seq(Seq(Fields)), overrun : BOOLEAN]
CsvTypeOK ==
    /\ source \in Sources /\ blk_size \in BlkSizes /\ caller \in Callers /\ options \in OptSets
    /\ at \in Nat /\ left \in Nat /\ at + left <= Len(source.text)
    /\ local \in Parsers /\ parser \in Parsers
    /\ out \in Outputs /\ Len(out.buf) <= SIZE_MAX
    /\ status \in {"success", "EPARSE", "ENOMEM", "ETOOBIG"}
    /\ pc \in {"idle", "alloc", "loop", "done"}

\* Nobody takes the buffer away, or moves its limit, while a field is in it.
CallersWait == \A c \in Callers : "any time" \notin {c.free, c.set_opts}

\* SUBMIT_CHAR and SUBMIT_FIELD touch the entry buffer only inside of entry_size, and
\* entry_pos never goes below zero, however often reallocation failed in between.
NoOverrun == ~out.overrun

\* The state that counts: a running call has it in its local variables.
Current == IF pc \in {"alloc", "loop"} THEN local ELSE parser

\* What will be cut off a field is in it: the spaces, and the quote that may end it.
Kept(m) ==
    /\ m.spaces <= m.pos
    /\ m.pstate \in {"ROW_NOT_BEGUN", "FIELD_NOT_BEGUN"} => m.pos = 0
    /\ m.pstate = "FIELD_MIGHT_HAVE_ENDED" => m.quoted /\ m.spaces < m.pos

\* Without a buffer nothing has begun; with one, the field so far is within the limit.
CsvInv ==
    /\ CsvTypeOK /\ NoOverrun /\ Kept(Current)
    /\ pc = "alloc" => out.buf = <<>>
    /\ pc = "loop" => out.buf # <<>>
    /\ IF out.buf = <<>> THEN Current = Fresh ELSE Current.pos <= BufferLimit

\* A single call over a whole text, with a buffer that is large enough: the parser and
\* its output after each character.
Roomy(text) == [NoOutput EXCEPT !.buf = [i \in 1 .. Len(text) + 1 |-> "?"]]
Whole(text, opts) ==
    LET w[k \in 0 .. Len(text)] ==
            IF k = 0 THEN Stay(Fresh, Roomy(text)) ELSE Char(text[k], w[k - 1].m, w[k - 1].o, opts)
    IN  w

\* What the callbacks have got depends on the characters alone: not on how they were
\* cut into calls, not on calls that ran out of memory and were taken up again
\* ("returns the number of bytes processed", csv.3:180), nor on a buffer freed between
\* rows.  Options that change meanwhile are not compared.
PiecesDoNotMatter ==
    pc # "done" /\ caller.set_opts = "never" =>
        LET o == Whole(source.text, options)[at].o
        IN  out.row = o.row /\ out.rows = o.rows

\* libcsv.c:49-71, 281-467: however the input is cut and however often realloc fails,
\* nothing is stored or read outside of entry_buf, and the callbacks get the rows of
\* the text.  This is for callers that free the buffer and set options between rows.
\* "You may call csv_free() at any time" (csv.3:245) does not hold within one: the
\* place in the buffer is kept, while its contents and its size are gone.
ParseSound == NoOverrun /\ PiecesDoNotMatter
=============================================================================
