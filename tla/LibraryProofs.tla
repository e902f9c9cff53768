---------------------------- MODULE LibraryProofs ----------------------------
(***************************************************************************)
(* The libraries that are correct for inputs of any size.  LibCsv: nothing *)
(* outside of the buffer is touched, and the rows do not depend on how the *)
(* text was cut into calls.  StrTokens: the tokens are apart, stored       *)
(* within bounds and end at delimiters.  Aco: coroutines keep their        *)
(* stacks, for any number of coroutines and share stacks, any depth and    *)
(* any length.                                                             *)
(***************************************************************************)
EXTENDS LibCsv, StrTokens, Aco, TLAPS, WellFoundedInduction, SequenceTheorems

-----------------------------------------------------------------------------
(* Induction.                                                              *)

(* A set of natural numbers that is not empty has a least element: the     *)
(* form of induction that is used here.                                    *)
LEMMA LeastElement ==
  ASSUME NEW S \in SUBSET Nat, S # {}
  PROVE  \E x \in S : \A y \in S : x <= y
<1> DEFINE Less == {p \in Nat \X Nat : p[1] < p[2]}
<1>1. IsWellFoundedOn(Less, Nat)
  BY NatLessThanWellFounded DEF OpToRel
<1>2. \A x, y \in Nat : <<y, x>> \in Less <=> y < x
  OBVIOUS
<1> HIDE DEF Less
<1>3. PICK x \in S : \A y \in S : <<y, x>> \notin Less
  BY <1>1, WFMin
<1>4. ASSUME NEW y \in S PROVE x <= y
  <2>1. x \in Nat /\ y \in Nat
    OBVIOUS
  <2>2. ~(y < x)
    BY <2>1, <1>2, <1>3
  <2> QED BY <2>1, <2>2
<1> QED BY <1>4

-----------------------------------------------------------------------------
(* LibCsv: the macros.                                                     *)

Room(o, opts) == IF "APPEND_NULL" \in opts THEN Len(o.buf) - 1 ELSE Len(o.buf)

(* A parser state that goes with an output. *)
Good(m, o, opts) ==
  /\ m \in Parsers /\ Kept(m)
  /\ o \in Outputs /\ ~o.overrun
  /\ m.pos <= Room(o, opts)

(* SUBMIT_CHAR below the limit stores the character behind the others. *)
LEMMA SubmitChar ==
  ASSUME NEW m \in Parsers, NEW o \in Outputs, NEW opts, NEW c \in Chars,
         ~o.overrun, m.pos < Room(o, opts)
  PROVE  LET r == SUBMIT_CHAR(m, o, c)
         IN  /\ DOMAIN r = {"m", "o"}
             /\ r.m = [m EXCEPT !.pos = m.pos + 1] /\ r.m \in Parsers
             /\ r.o \in Outputs /\ ~r.o.overrun
             /\ Len(r.o.buf) = Len(o.buf) /\ r.o.row = o.row /\ r.o.rows = o.rows
             /\ \A i \in 1 .. m.pos + 1 : r.o.buf[i] = IF i = m.pos + 1 THEN c ELSE o.buf[i]
<1>1. m.pos \in Nat /\ Len(o.buf) \in Nat /\ m.pos < Len(o.buf) /\ o.buf \in Seq(Chars \cup {"?"})
  BY DEF Room, Parsers, Outputs
<1> DEFINE b == [o.buf EXCEPT ![m.pos + 1] = c]
<1>2. SUBMIT_CHAR(m, o, c) = [m |-> [m EXCEPT !.pos = m.pos + 1], o |-> [o EXCEPT !.buf = b]]
  BY <1>1 DEF SUBMIT_CHAR, Outputs
<1>3. b \in Seq(Chars \cup {"?"}) /\ Len(b) = Len(o.buf)
      /\ \A i \in 1 .. m.pos + 1 : b[i] = IF i = m.pos + 1 THEN c ELSE o.buf[i]
  BY <1>1
<1>4. [m EXCEPT !.pos = m.pos + 1] \in Parsers
  BY <1>1 DEF Parsers
<1> HIDE DEF b
<1> DEFINE p == [o EXCEPT !.buf = b]
           z == [m EXCEPT !.pos = m.pos + 1]
<1>5. p \in Outputs /\ p.buf = b /\ p.row = o.row /\ p.rows = o.rows /\ ~p.overrun
  BY <1>3 DEF Outputs
<1>6. z \in Parsers /\ SUBMIT_CHAR(m, o, c) = [m |-> z, o |-> p]
  BY <1>2, <1>4
<1> HIDE DEF p
<1> QED BY <1>3, <1>5, <1>6

(* The length of a field, and what SUBMIT_FIELD hands to the callback. *)
FieldLen(m) == IF m.quoted THEN m.pos ELSE m.pos - m.spaces
FieldValue(m, o, opts) ==
  IF "EMPTY_IS_NULL" \in opts /\ ~m.quoted /\ FieldLen(m) = 0 THEN <<"NULL">>
  ELSE [i \in 1 .. FieldLen(m) |-> o.buf[i]]
FieldDone == [Fresh EXCEPT !.pstate = "FIELD_NOT_BEGUN"]

LEMMA SubmitField ==
  ASSUME NEW m \in Parsers, NEW o \in Outputs, NEW opts,
         ~o.overrun, m.pos <= Room(o, opts), m.quoted \/ m.spaces <= m.pos
  PROVE  LET r == SUBMIT_FIELD(m, o, opts)
         IN  /\ DOMAIN r = {"m", "o"}
             /\ r.m = FieldDone
             /\ r.o \in Outputs /\ ~r.o.overrun
             /\ r.o.buf = o.buf /\ r.o.rows = o.rows
             /\ r.o.row = Append(o.row, FieldValue(m, o, opts))
<1>1. /\ m.pos \in Nat /\ m.spaces \in Nat /\ Len(o.buf) \in Nat /\ m.pos <= Len(o.buf)
      /\ o.buf \in Seq(Chars \cup {"?"}) /\ o.row \in Seq(Fields)
      /\ "APPEND_NULL" \in opts => m.pos < Len(o.buf)
  BY DEF Room, Parsers, Outputs
<1>2. FieldLen(m) \in Nat /\ FieldLen(m) <= m.pos
  BY <1>1 DEF FieldLen
<1> DEFINE raw == [i \in 1 .. FieldLen(m) |-> IF i <= Len(o.buf) THEN o.buf[i] ELSE "?"]
<1>3. raw = [i \in 1 .. FieldLen(m) |-> o.buf[i]] /\ raw \in Fields
  <2>1. \A i \in 1 .. FieldLen(m) : i <= Len(o.buf) /\ o.buf[i] \in Chars \cup {"?", "NULL"}
    BY <1>1, <1>2
  <2>2. raw = [i \in 1 .. FieldLen(m) |-> o.buf[i]]
    BY <2>1, Zenon
  <2>3. raw \in [1 .. FieldLen(m) -> Chars \cup {"?", "NULL"}]
    BY <2>1, <2>2
  <2> QED BY <2>2, <2>3, <1>2 DEF Fields
<1>4. FieldValue(m, o, opts) \in Fields
  <2>1. <<"NULL">> \in Fields
    BY DEF Fields
  <2> HIDE DEF raw
  <2> QED BY <2>1, <1>3 DEF FieldValue
<1> DEFINE v == FieldValue(m, o, opts)
<1>5. SUBMIT_FIELD(m, o, opts) = [m |-> FieldDone, o |-> [o EXCEPT !.row = Append(o.row, v), !.overrun = FALSE]]
  <2> HIDE DEF FieldDone
  <2>1. ~(FieldLen(m) < 0 \/ FieldLen(m) > Len(o.buf) \/ ("APPEND_NULL" \in opts /\ FieldLen(m) = Len(o.buf)))
    BY <1>1, <1>2
  <2>2. v = IF "EMPTY_IS_NULL" \in opts /\ ~m.quoted /\ FieldLen(m) = 0 THEN <<"NULL">> ELSE raw
    BY <1>3, Zenon DEF FieldValue
  <2> QED BY <2>1, <2>2, Zenon DEF SUBMIT_FIELD, FieldLen, FieldDone, Outputs
<1> HIDE DEF v
<1>6. Append(o.row, v) \in Seq(Fields)
  BY <1>1, <1>4 DEF v
<1> DEFINE p == [o EXCEPT !.row = Append(o.row, v), !.overrun = FALSE]
<1>7. p \in Outputs /\ p.buf = o.buf /\ p.rows = o.rows /\ p.row = Append(o.row, v) /\ ~p.overrun
  BY <1>6 DEF Outputs
<1>8. SUBMIT_FIELD(m, o, opts) = [m |-> FieldDone, o |-> p]
  BY <1>5, Zenon
<1> HIDE DEF p
<1> QED BY <1>7, <1>8 DEF v

(* A field and the end of its row: the row is handed on, and all is fresh. *)
LEMMA SubmitFieldAndRow ==
  ASSUME NEW m \in Parsers, NEW o \in Outputs, NEW opts,
         ~o.overrun, m.pos <= Room(o, opts), m.quoted \/ m.spaces <= m.pos
  PROVE  LET r == FieldAndRow(m, o, opts)
         IN  /\ DOMAIN r = {"m", "o"}
             /\ r.m = Fresh
             /\ r.o \in Outputs /\ ~r.o.overrun
             /\ r.o.buf = o.buf /\ r.o.row = <<>>
             /\ r.o.rows = Append(o.rows, Append(o.row, FieldValue(m, o, opts)))
<1> DEFINE p == SUBMIT_FIELD(m, o, opts).o
<1>1. /\ p \in Outputs /\ ~p.overrun /\ p.buf = o.buf /\ p.rows = o.rows
      /\ p.row = Append(o.row, FieldValue(m, o, opts))
  BY SubmitField
<1>2. FieldAndRow(m, o, opts) = SUBMIT_ROW(SUBMIT_FIELD(m, o, opts).m, p)
  BY DEF FieldAndRow
<1> HIDE DEF p
<1>3. FieldAndRow(m, o, opts) = [m |-> Fresh, o |-> [p EXCEPT !.row = <<>>, !.rows = Append(p.rows, p.row)]]
  BY <1>1, <1>2 DEF SUBMIT_ROW, Outputs
<1> DEFINE q == [p EXCEPT !.row = <<>>, !.rows = Append(p.rows, p.row)]
<1>4. q \in Outputs /\ q.buf = p.buf /\ q.row = <<>> /\ q.rows = Append(p.rows, p.row) /\ ~q.overrun
  <2> DEFINE all == Append(p.rows, p.row)
  <2>1. all \in Seq(Seq(Fields)) /\ <<>> \in Seq(Fields)
    BY <1>1 DEF Outputs
  <2> HIDE DEF all
  <2>2. [p EXCEPT !.row = <<>>, !.rows = all] \in Outputs
    BY <1>1, <2>1 DEF Outputs
  <2> QED BY <1>1, <2>2 DEF Outputs, all
<1>5. FieldAndRow(m, o, opts) = [m |-> Fresh, o |-> q]
  BY <1>3
<1> HIDE DEF q
<1> QED BY <1>1, <1>4, <1>5

(* An empty line. *)
LEMMA SubmitRow ==
  ASSUME NEW m, NEW o \in Outputs, ~o.overrun
  PROVE  LET r == SUBMIT_ROW(m, o)
         IN  /\ r.m = Fresh
             /\ r.o \in Outputs /\ ~r.o.overrun
             /\ r.o.buf = o.buf /\ r.o.row = <<>> /\ r.o.rows = Append(o.rows, o.row)
<1> DEFINE q == [o EXCEPT !.row = <<>>, !.rows = Append(o.rows, o.row)]
<1>1. q \in Outputs /\ q.buf = o.buf /\ q.row = <<>> /\ q.rows = Append(o.rows, o.row) /\ ~q.overrun
  <2> DEFINE all == Append(o.rows, o.row)
  <2>1. all \in Seq(Seq(Fields)) /\ <<>> \in Seq(Fields)
    BY DEF Outputs
  <2> HIDE DEF all
  <2>2. [o EXCEPT !.row = <<>>, !.rows = all] \in Outputs
    BY <2>1 DEF Outputs
  <2> QED BY <2>2 DEF Outputs, all
<1>2. SUBMIT_ROW(m, o) = [m |-> Fresh, o |-> q]
  BY DEF SUBMIT_ROW, Outputs
<1> HIDE DEF q
<1> QED BY <1>1, <1>2

(* A turn of the loop gives a good state again; an error changes nothing. *)
Follows(r, m, o, opts) ==
  /\ Good(r.m, r.o, opts)
  /\ Len(r.o.buf) = Len(o.buf)
  /\ r.m.pos <= m.pos + 1
  /\ r.error => r.m = m /\ r.o = o

(* The states after a field and after a row go with any buffer that there is. *)
LEMMA FreshGood ==
  ASSUME NEW m \in {Fresh, FieldDone}, NEW o \in Outputs, NEW opts, ~o.overrun, 0 <= Room(o, opts)
  PROVE  Good(m, o, opts) /\ m.pos = 0
<1>1. m \in Parsers /\ m.pos = 0 /\ m.spaces = 0 /\ m.pstate \in {"ROW_NOT_BEGUN", "FIELD_NOT_BEGUN"}
  <2>1. CASE m = Fresh
    BY <2>1 DEF Parsers, Fresh
  <2>2. CASE m = FieldDone
    BY <2>2 DEF Parsers, Fresh, FieldDone
  <2> QED BY <2>1, <2>2
<1> QED BY <1>1 DEF Good, Kept

LEMMA OkFollows ==
  ASSUME NEW m, NEW o, NEW opts, NEW r,
         Good(r.m, r.o, opts), Len(r.o.buf) = Len(o.buf), r.m.pos <= m.pos + 1
  PROVE  Follows(Ok(r), m, o, opts)
<1>1. Ok(r).m = r.m /\ Ok(r).o = r.o /\ ~Ok(r).error
  BY DEF Ok
<1> QED BY <1>1, Zenon DEF Follows

LEMMA StayFollows ==
  ASSUME NEW m, NEW z, NEW o, NEW opts, Good(z, o, opts), z.pos <= m.pos + 1
  PROVE  Follows(Stay(z, o), m, o, opts)
<1>1. Stay(z, o).m = z /\ Stay(z, o).o = o /\ ~Stay(z, o).error
  BY DEF Stay
<1> QED BY <1>1, Zenon DEF Follows

LEMMA ErrorFollows ==
  ASSUME NEW m, NEW o, NEW opts, Good(m, o, opts)
  PROVE  Follows(Error(m, o), m, o, opts)
<1>1. Error(m, o).m = m /\ Error(m, o).o = o
  BY DEF Error
<1>2. m.pos <= m.pos + 1
  BY DEF Good, Parsers
<1> QED BY <1>1, <1>2, Zenon DEF Follows

LEMMA NotBegunFollows ==
  ASSUME NEW m, NEW o, NEW opts, NEW c \in Chars,
         Good(m, o, opts), m.pos # Room(o, opts), m.pstate \in {"ROW_NOT_BEGUN", "FIELD_NOT_BEGUN"}
  PROVE  Follows(NotBegun(c, m, o, opts), m, o, opts)
<1>1. /\ m \in Parsers /\ o \in Outputs /\ ~o.overrun /\ Kept(m) /\ m.pos = 0 /\ m.spaces = 0
      /\ Room(o, opts) \in Int /\ m.pos < Room(o, opts) /\ m.spaces <= m.pos
  BY DEF Good, Kept, Room, Parsers, Outputs
<1>2. CASE c = "space"
  <2>1. NotBegun(c, m, o, opts) = Stay(m, o)
    BY <1>2 DEF NotBegun
  <2> QED BY <2>1, <1>1, StayFollows
<1>3. CASE c = "nl" /\ m.pstate = "FIELD_NOT_BEGUN"
  <2>1. NotBegun(c, m, o, opts) = Ok(FieldAndRow(m, o, opts))
    BY <1>3 DEF NotBegun
  <2> DEFINE r == FieldAndRow(m, o, opts)
  <2>2. r.m = Fresh /\ r.o \in Outputs /\ ~r.o.overrun /\ r.o.buf = o.buf
    BY <1>1, SubmitFieldAndRow
  <2>3. Good(r.m, r.o, opts) /\ r.m.pos = 0
    BY <1>1, <2>2, FreshGood DEF Room
  <2> HIDE DEF r
  <2> QED BY <2>1, <2>2, <2>3, <1>1, OkFollows DEF r
<1>4. CASE c = "nl" /\ m.pstate # "FIELD_NOT_BEGUN" /\ "REPALL_NL" \in opts
  <2>1. NotBegun(c, m, o, opts) = Ok(SUBMIT_ROW(m, o))
    BY <1>4 DEF NotBegun
  <2> DEFINE r == SUBMIT_ROW(m, o)
  <2>2. r.m = Fresh /\ r.o \in Outputs /\ ~r.o.overrun /\ r.o.buf = o.buf
    BY <1>1, SubmitRow
  <2>3. Good(r.m, r.o, opts) /\ r.m.pos = 0
    BY <1>1, <2>2, FreshGood DEF Room
  <2> HIDE DEF r
  <2> QED BY <2>1, <2>2, <2>3, <1>1, OkFollows DEF r
<1>5. CASE c = "nl" /\ m.pstate # "FIELD_NOT_BEGUN" /\ "REPALL_NL" \notin opts
  <2>1. NotBegun(c, m, o, opts) = Stay(m, o)
    BY <1>5 DEF NotBegun
  <2> QED BY <2>1, <1>1, StayFollows
<1>6. CASE c = "comma"
  <2>1. NotBegun(c, m, o, opts) = Ok(SUBMIT_FIELD(m, o, opts))
    BY <1>6 DEF NotBegun
  <2> DEFINE r == SUBMIT_FIELD(m, o, opts)
  <2>2. r.m = FieldDone /\ r.o \in Outputs /\ ~r.o.overrun /\ r.o.buf = o.buf
    BY <1>1, SubmitField
  <2>3. Good(r.m, r.o, opts) /\ r.m.pos = 0
    BY <1>1, <2>2, FreshGood DEF Room
  <2> HIDE DEF r
  <2> QED BY <2>1, <2>2, <2>3, <1>1, OkFollows DEF r
<1>7. CASE c = "quote"
  <2> DEFINE z == Begun(m, TRUE)
  <2>1. NotBegun(c, m, o, opts) = Stay(z, o)
    BY <1>7 DEF NotBegun
  <2>2. Good(z, o, opts) /\ z.pos = 0
    BY <1>1 DEF Good, Begun, Parsers, Kept
  <2> HIDE DEF z
  <2>3. z.pos <= m.pos + 1
    BY <2>2, <1>1
  <2> QED BY <2>1, <2>2, <2>3, StayFollows
<1>8. CASE c = "a"
  <2> DEFINE z == Begun(m, FALSE)
             r == SUBMIT_CHAR(z, o, c)
  <2>1. NotBegun(c, m, o, opts) = Ok(r)
    BY <1>8 DEF NotBegun
  <2>2. z \in Parsers /\ z.pos = 0 /\ z.spaces = 0 /\ z.pstate = "FIELD_BEGUN"
    BY <1>1 DEF Begun, Parsers
  <2> HIDE DEF z
  <2>3. r.m = [z EXCEPT !.pos = z.pos + 1] /\ r.m \in Parsers /\ r.o \in Outputs /\ ~r.o.overrun /\ Len(r.o.buf) = Len(o.buf)
    BY <1>1, <2>2, SubmitChar
  <2>4. r.m.pos = 1 /\ r.m.spaces = 0 /\ r.m.pstate = "FIELD_BEGUN"
    BY <2>2, <2>3 DEF Parsers
  <2>5. Good(r.m, r.o, opts)
    BY <1>1, <2>3, <2>4 DEF Good, Kept, Room
  <2>6. r.m.pos <= m.pos + 1
    BY <2>4, <1>1
  <2> HIDE DEF r
  <2>7. Len(r.o.buf) = Len(o.buf)
    BY <2>3
  <2> QED BY <2>1, <2>5, <2>6, <2>7, OkFollows, Zenon
<1> QED BY <1>2, <1>3, <1>4, <1>5, <1>6, <1>7, <1>8 DEF Chars

(* A field that has begun and gets one character more. *)
PutOk(r, z, m, o, opts) ==
  /\ DOMAIN r = {"m", "o"}
  /\ r.m = [z EXCEPT !.pos = z.pos + 1]
  /\ Good(r.m, r.o, opts) /\ Len(r.o.buf) = Len(o.buf)
  /\ r.m.pos = m.pos + 1 /\ r.m.spaces = z.spaces /\ r.m.pstate = z.pstate /\ r.m.quoted = m.quoted
LEMMA PutGood ==
  ASSUME NEW m, NEW o, NEW opts, NEW c \in Chars,
         Good(m, o, opts), m.pos # Room(o, opts), m.pstate \in {"FIELD_BEGUN", "FIELD_MIGHT_HAVE_ENDED"},
         NEW z \in {m, [m EXCEPT !.spaces = 0], [m EXCEPT !.spaces = 0, !.pstate = "FIELD_BEGUN"]}
  PROVE  PutOk(SUBMIT_CHAR(z, o, c), z, m, o, opts)
<1>1. /\ m \in Parsers /\ o \in Outputs /\ ~o.overrun /\ Kept(m)
      /\ Room(o, opts) \in Int /\ m.pos \in Nat /\ m.spaces \in Nat /\ m.pos < Room(o, opts)
  <2>1. m \in Parsers /\ o \in Outputs /\ ~o.overrun /\ Kept(m) /\ m.pos <= Room(o, opts)
    BY DEF Good
  <2>2. Room(o, opts) \in Int /\ m.pos \in Nat /\ m.spaces \in Nat
    BY <2>1 DEF Room, Parsers, Outputs
  <2> QED BY <2>1, <2>2
<1>2. z \in Parsers /\ z.pos = m.pos /\ z.spaces \in {m.spaces, 0} /\ z.quoted = m.quoted /\ z.pstate \in {"FIELD_BEGUN", m.pstate}
  <2>1. CASE z = m
    BY <1>1, <2>1
  <2>2. CASE z = [m EXCEPT !.spaces = 0]
    BY <1>1, <2>2 DEF Parsers
  <2>3. CASE z = [m EXCEPT !.spaces = 0, !.pstate = "FIELD_BEGUN"]
    BY <1>1, <2>3 DEF Parsers
  <2> QED BY <2>1, <2>2, <2>3
<1> DEFINE r == SUBMIT_CHAR(z, o, c)
<1>3. /\ DOMAIN r = {"m", "o"}
      /\ r.m = [z EXCEPT !.pos = z.pos + 1] /\ r.m \in Parsers
      /\ r.o \in Outputs /\ ~r.o.overrun /\ Len(r.o.buf) = Len(o.buf)
  BY <1>1, <1>2, SubmitChar
<1>4. r.m.pos = m.pos + 1 /\ r.m.spaces = z.spaces /\ r.m.pstate = z.pstate /\ r.m.quoted = m.quoted
  BY <1>3, <1>2 DEF Parsers
<1> HIDE DEF r
<1>5. Kept(r.m)
  BY <1>1, <1>4, <1>2 DEF Kept, Parsers
<1>6. r.m.pos <= Room(r.o, opts)
  BY <1>1, <1>3, <1>4 DEF Room
<1>7. Good(r.m, r.o, opts)
  BY <1>3, <1>5, <1>6 DEF Good
<1> QED BY <1>3, <1>4, <1>7 DEF PutOk, r

LEMMA InFieldFollows ==
  ASSUME NEW m, NEW o, NEW opts, NEW c \in Chars,
         Good(m, o, opts), m.pos # Room(o, opts), m.pstate = "FIELD_BEGUN"
  PROVE  Follows(InField(c, m, o, opts), m, o, opts)
<1>1. /\ m \in Parsers /\ o \in Outputs /\ ~o.overrun /\ m.pos \in Nat /\ m.spaces \in Nat /\ m.quoted \in BOOLEAN
      /\ Room(o, opts) \in Int /\ m.pos < Room(o, opts) /\ m.spaces <= m.pos
  BY DEF Good, Kept, Room, Parsers, Outputs
<1> DEFINE put == SUBMIT_CHAR(m, o, c)
           z == [m EXCEPT !.spaces = 0]
           tight == SUBMIT_CHAR(z, o, c)
<1>2. /\ DOMAIN put = {"m", "o"} /\ Good(put.m, put.o, opts) /\ Len(put.o.buf) = Len(o.buf)
      /\ put.m.pos = m.pos + 1 /\ put.m.spaces = m.spaces /\ put.m.pstate = "FIELD_BEGUN" /\ put.m.quoted = m.quoted
  <2>1. m \in {m, z, [m EXCEPT !.spaces = 0, !.pstate = "FIELD_BEGUN"]}
        /\ m.pstate \in {"FIELD_BEGUN", "FIELD_MIGHT_HAVE_ENDED"}
    OBVIOUS
  <2>2. PutOk(put, m, m, o, opts)
    BY <2>1, PutGood, Zenon
  <2> QED BY <2>2 DEF PutOk
<1>3. Good(tight.m, tight.o, opts) /\ Len(tight.o.buf) = Len(o.buf) /\ tight.m.pos = m.pos + 1
  <2>1. z \in {m, z, [m EXCEPT !.spaces = 0, !.pstate = "FIELD_BEGUN"]}
        /\ m.pstate \in {"FIELD_BEGUN", "FIELD_MIGHT_HAVE_ENDED"}
    OBVIOUS
  <2>2. PutOk(tight, z, m, o, opts)
    BY <2>1, PutGood, Zenon
  <2> QED BY <2>2 DEF PutOk
<1> HIDE DEF put, tight
<1>4. Follows(Ok(put), m, o, opts) /\ Follows(Ok(tight), m, o, opts)
  <2>1. put.m.pos <= m.pos + 1 /\ tight.m.pos <= m.pos + 1
    BY <1>1, <1>2, <1>3
  <2> QED BY <2>1, <1>2, <1>3, OkFollows, Zenon
<1>5. CASE c = "quote" /\ m.quoted
  <2> DEFINE r == [put EXCEPT !.m.pstate = "FIELD_MIGHT_HAVE_ENDED"]
  <2>1. InField(c, m, o, opts) = Ok(r)
    BY <1>5 DEF InField, put
  <2>2. r.o = put.o /\ r.m = [put.m EXCEPT !.pstate = "FIELD_MIGHT_HAVE_ENDED"]
    BY <1>2
  <2>3. r.m \in Parsers /\ r.m.pos = m.pos + 1 /\ r.m.spaces = m.spaces /\ r.m.quoted = m.quoted
        /\ r.m.pstate = "FIELD_MIGHT_HAVE_ENDED"
    BY <2>2, <1>2 DEF Good, Parsers
  <2> HIDE DEF r
  <2>4. Good(r.m, r.o, opts)
    <3>1. Kept(r.m)
      BY <2>3, <1>1, <1>5 DEF Kept
    <3>2. r.o \in Outputs /\ ~r.o.overrun /\ r.m.pos <= Room(r.o, opts)
      BY <2>2, <2>3, <1>2 DEF Good
    <3> QED BY <2>3, <3>1, <3>2 DEF Good
  <2>5. r.m.pos <= m.pos + 1 /\ Len(r.o.buf) = Len(o.buf)
    BY <2>2, <2>3, <1>1, <1>2
  <2> QED BY <2>1, <2>4, <2>5, OkFollows, Zenon
<1>6. CASE c = "quote" /\ ~m.quoted
  <2>1. InField(c, m, o, opts) = IF "STRICT" \in opts THEN Error(m, o) ELSE Ok(tight)
    BY <1>6 DEF InField, tight
  <2> QED BY <2>1, <1>4, ErrorFollows, Zenon
<1>7. CASE c = "comma"
  <2> DEFINE r == SUBMIT_FIELD(m, o, opts)
  <2>1. InField(c, m, o, opts) = IF m.quoted THEN Ok(put) ELSE Ok(r)
    BY <1>7 DEF InField, put
  <2>2. r.m = FieldDone /\ r.o \in Outputs /\ ~r.o.overrun /\ r.o.buf = o.buf
    BY <1>1, SubmitField
  <2>3. Good(r.m, r.o, opts) /\ r.m.pos = 0
    BY <1>1, <2>2, FreshGood DEF Room
  <2> HIDE DEF r
  <2>4. r.m.pos <= m.pos + 1 /\ Len(r.o.buf) = Len(o.buf)
    BY <2>2, <2>3, <1>1
  <2>5. Follows(Ok(r), m, o, opts)
    BY <2>3, <2>4, OkFollows, Zenon
  <2> QED BY <2>1, <2>5, <1>4, Zenon
<1>8. CASE c = "nl"
  <2> DEFINE r == FieldAndRow(m, o, opts)
  <2>1. InField(c, m, o, opts) = IF m.quoted THEN Ok(put) ELSE Ok(r)
    BY <1>8 DEF InField, put
  <2>2. r.m = Fresh /\ r.o \in Outputs /\ ~r.o.overrun /\ r.o.buf = o.buf
    BY <1>1, SubmitFieldAndRow
  <2>3. Good(r.m, r.o, opts) /\ r.m.pos = 0
    BY <1>1, <2>2, FreshGood DEF Room
  <2> HIDE DEF r
  <2>4. r.m.pos <= m.pos + 1 /\ Len(r.o.buf) = Len(o.buf)
    BY <2>2, <2>3, <1>1
  <2>5. Follows(Ok(r), m, o, opts)
    BY <2>3, <2>4, OkFollows, Zenon
  <2> QED BY <2>1, <2>5, <1>4, Zenon
<1>9. CASE c = "space" /\ ~m.quoted
  <2> DEFINE r == [put EXCEPT !.m.spaces = @ + 1]
  <2>1. InField(c, m, o, opts) = Ok(r)
    BY <1>9 DEF InField, put
  <2>2. r.o = put.o /\ r.m = [put.m EXCEPT !.spaces = put.m.spaces + 1]
    BY <1>2
  <2>3. r.m \in Parsers /\ r.m.pos = m.pos + 1 /\ r.m.spaces = m.spaces + 1 /\ r.m.pstate = "FIELD_BEGUN"
    BY <2>2, <1>1, <1>2 DEF Good, Parsers
  <2> HIDE DEF r
  <2>4. Good(r.m, r.o, opts)
    BY <2>2, <2>3, <1>1, <1>2 DEF Good, Kept
  <2>5. r.m.pos <= m.pos + 1 /\ Len(r.o.buf) = Len(o.buf)
    BY <2>2, <2>3, <1>1, <1>2
  <2> QED BY <2>1, <2>4, <2>5, OkFollows, Zenon
<1>10. CASE c = "a" \/ (c = "space" /\ m.quoted)
  <2>1. InField(c, m, o, opts) = Ok(tight)
    BY <1>10 DEF InField, tight
  <2> QED BY <2>1, <1>4, Zenon
<1> QED BY <1>1, <1>5, <1>6, <1>7, <1>8, <1>9, <1>10 DEF Chars

(* The quote and the spaces behind it are in the field that they are cut off. *)
LEMMA TrimmedFits ==
  ASSUME NEW m, NEW o, NEW opts, Good(m, o, opts), m.pstate = "FIELD_MIGHT_HAVE_ENDED"
  PROVE  /\ Trimmed(m) \in Parsers /\ Trimmed(m).quoted
         /\ Trimmed(m).pos = m.pos - (m.spaces + 1) /\ Trimmed(m).pos \in Nat
         /\ Trimmed(m).pos <= m.pos /\ Trimmed(m).pos <= Room(o, opts)
<1>1. /\ m \in Parsers /\ o \in Outputs /\ m.quoted /\ m.pos \in Nat /\ m.spaces \in Nat
      /\ m.spaces < m.pos /\ m.pos <= Room(o, opts)
  <2>1. m \in Parsers /\ o \in Outputs /\ Kept(m) /\ m.pos <= Room(o, opts)
    BY DEF Good
  <2>2. m.pos \in Nat /\ m.spaces \in Nat
    BY <2>1 DEF Parsers
  <2>3. m.quoted /\ m.spaces < m.pos
    BY <2>1 DEF Kept
  <2> QED BY <2>1, <2>2, <2>3
<1>2. Room(o, opts) \in Int
  BY <1>1 DEF Room, Outputs
<1>3. m.pos - (m.spaces + 1) \in Nat /\ m.pos - (m.spaces + 1) <= m.pos /\ m.pos - (m.spaces + 1) <= Room(o, opts)
  BY <1>1, <1>2
<1> DEFINE p == m.pos - (m.spaces + 1)
<1>4. Trimmed(m) = [m EXCEPT !.pos = p]
  BY <1>1 DEF Trimmed, Parsers
<1> HIDE DEF p
<1>5. Trimmed(m) \in Parsers /\ Trimmed(m).pos = p /\ Trimmed(m).quoted = m.quoted
  BY <1>1, <1>3, <1>4 DEF Parsers, p
<1> QED BY <1>1, <1>3, <1>5 DEF p

LEMMA MightHaveEndedFollows ==
  ASSUME NEW m, NEW o, NEW opts, NEW c \in Chars,
         Good(m, o, opts), m.pos # Room(o, opts), m.pstate = "FIELD_MIGHT_HAVE_ENDED"
  PROVE  Follows(MightHaveEnded(c, m, o, opts), m, o, opts)
<1>1. /\ m \in Parsers /\ o \in Outputs /\ ~o.overrun /\ m.pos \in Nat /\ m.spaces \in Nat
      /\ m.spaces < m.pos /\ m.quoted /\ 0 <= Room(o, opts) /\ m.pos <= Room(o, opts)
  <2>1. m \in Parsers /\ o \in Outputs /\ ~o.overrun /\ Kept(m) /\ m.pos <= Room(o, opts)
    BY DEF Good
  <2>2. m.pos \in Nat /\ m.spaces \in Nat /\ Room(o, opts) \in Int
    BY <2>1 DEF Parsers, Room, Outputs
  <2>3. m.quoted /\ m.spaces < m.pos
    BY <2>1 DEF Kept
  <2> QED BY <2>1, <2>2, <2>3
<1>2. CASE c = "comma"
  <2> DEFINE r == SUBMIT_FIELD(Trimmed(m), o, opts)
  <2>1. MightHaveEnded(c, m, o, opts) = Ok(r)
    BY <1>2 DEF MightHaveEnded
  <2>2. r.m = FieldDone /\ r.o \in Outputs /\ ~r.o.overrun /\ r.o.buf = o.buf
    BY <1>1, TrimmedFits, SubmitField
  <2>3. Good(r.m, r.o, opts) /\ r.m.pos = 0
    BY <1>1, <2>2, FreshGood DEF Room
  <2> HIDE DEF r
  <2>4. r.m.pos <= m.pos + 1 /\ Len(r.o.buf) = Len(o.buf)
    BY <2>2, <2>3, <1>1
  <2> QED BY <2>1, <2>3, <2>4, OkFollows, Zenon
<1>3. CASE c = "nl"
  <2> DEFINE r == FieldAndRow(Trimmed(m), o, opts)
  <2>1. MightHaveEnded(c, m, o, opts) = Ok(r)
    BY <1>3 DEF MightHaveEnded
  <2>2. r.m = Fresh /\ r.o \in Outputs /\ ~r.o.overrun /\ r.o.buf = o.buf
    BY <1>1, TrimmedFits, SubmitFieldAndRow
  <2>3. Good(r.m, r.o, opts) /\ r.m.pos = 0
    BY <1>1, <2>2, FreshGood DEF Room
  <2> HIDE DEF r
  <2>4. r.m.pos <= m.pos + 1 /\ Len(r.o.buf) = Len(o.buf)
    BY <2>2, <2>3, <1>1
  <2> QED BY <2>1, <2>3, <2>4, OkFollows, Zenon
<1> DEFINE z == [m EXCEPT !.spaces = 0]
           k == [m EXCEPT !.spaces = 0, !.pstate = "FIELD_BEGUN"]
<1>4. m \in {m, z, k} /\ z \in {m, z, k} /\ k \in {m, z, k} /\ m.pstate \in {"FIELD_BEGUN", "FIELD_MIGHT_HAVE_ENDED"}
  OBVIOUS
<1>5. CASE c = "space"
  <2> DEFINE put == SUBMIT_CHAR(m, o, c)
             r == [put EXCEPT !.m.spaces = @ + 1]
  <2>1. MightHaveEnded(c, m, o, opts) = Ok(r)
    BY <1>5 DEF MightHaveEnded
  <2>2. PutOk(put, m, m, o, opts)
    BY <1>4, PutGood, Zenon
  <2>3. /\ DOMAIN put = {"m", "o"} /\ Good(put.m, put.o, opts) /\ Len(put.o.buf) = Len(o.buf)
        /\ put.m.pos = m.pos + 1 /\ put.m.spaces = m.spaces /\ put.m.pstate = m.pstate /\ put.m.quoted = m.quoted
    BY <2>2 DEF PutOk
  <2> HIDE DEF put
  <2>4. r.o = put.o /\ r.m = [put.m EXCEPT !.spaces = put.m.spaces + 1]
    BY <2>3
  <2> HIDE DEF r
  <2>5. r.m \in Parsers /\ r.m.pos = m.pos + 1 /\ r.m.spaces = m.spaces + 1 /\ r.m.pstate = m.pstate /\ r.m.quoted = m.quoted
    <3>1. put.m \in Parsers
      BY <2>3 DEF Good
    <3>2. put.m.spaces + 1 \in Nat /\ put.m.spaces + 1 = m.spaces + 1
      BY <2>3, <1>1
    <3>3. r.m \in Parsers /\ r.m.pos = put.m.pos /\ r.m.spaces = put.m.spaces + 1 /\ r.m.pstate = put.m.pstate /\ r.m.quoted = put.m.quoted
      BY <3>1, <3>2, <2>4 DEF Parsers
    <3> QED BY <3>2, <3>3, <2>3, Zenon
  <2>6. Kept(r.m)
    BY <2>5, <1>1 DEF Kept
  <2>7. r.o \in Outputs /\ ~r.o.overrun /\ r.m.pos <= Room(r.o, opts)
    BY <2>3, <2>4, <2>5 DEF Good
  <2>8. Good(r.m, r.o, opts)
    BY <2>5, <2>6, <2>7 DEF Good
  <2>9. r.m.pos <= m.pos + 1 /\ Len(r.o.buf) = Len(o.buf)
    BY <2>3, <2>4, <2>5, <1>1
  <2> QED BY <2>1, <2>8, <2>9, OkFollows, Zenon
<1>6. CASE c = "quote" /\ m.spaces = 0
  <2> DEFINE b == [m EXCEPT !.pstate = "FIELD_BEGUN"]
  <2>1. MightHaveEnded(c, m, o, opts) = Stay(b, o)
    BY <1>6 DEF MightHaveEnded
  <2>2. b \in Parsers /\ b.pos = m.pos /\ b.spaces = m.spaces /\ b.pstate = "FIELD_BEGUN"
    BY <1>1 DEF Parsers
  <2> HIDE DEF b
  <2>3. Good(b, o, opts) /\ b.pos <= m.pos + 1
    BY <2>2, <1>1 DEF Good, Kept
  <2> QED BY <2>1, <2>3, StayFollows, Zenon
<1>7. Follows(Ok(SUBMIT_CHAR(z, o, c)), m, o, opts) /\ Follows(Ok(SUBMIT_CHAR(k, o, c)), m, o, opts)
  <2> DEFINE r == SUBMIT_CHAR(z, o, c)
             q == SUBMIT_CHAR(k, o, c)
  <2>1. PutOk(r, z, m, o, opts) /\ PutOk(q, k, m, o, opts)
    BY <1>4, PutGood, Zenon
  <2> HIDE DEF r, q
  <2>2. Good(r.m, r.o, opts) /\ Good(q.m, q.o, opts) /\ Len(r.o.buf) = Len(o.buf) /\ Len(q.o.buf) = Len(o.buf)
        /\ r.m.pos = m.pos + 1 /\ q.m.pos = m.pos + 1
    BY <2>1 DEF PutOk
  <2>3. r.m.pos <= m.pos + 1 /\ q.m.pos <= m.pos + 1
    BY <2>2, <1>1
  <2>4. Follows(Ok(r), m, o, opts) /\ Follows(Ok(q), m, o, opts)
    BY <2>2, <2>3, OkFollows, Zenon
  <2> QED BY <2>4 DEF r, q
<1>8. CASE c = "quote" /\ m.spaces # 0
  <2>1. MightHaveEnded(c, m, o, opts) = IF "STRICT" \in opts THEN Error(m, o) ELSE Ok(SUBMIT_CHAR(z, o, c))
    BY <1>8, <1>1 DEF MightHaveEnded
  <2> QED BY <2>1, <1>7, ErrorFollows, Zenon
<1>9. CASE c = "a"
  <2>1. MightHaveEnded(c, m, o, opts) = IF "STRICT" \in opts THEN Error(m, o) ELSE Ok(SUBMIT_CHAR(k, o, c))
    BY <1>9 DEF MightHaveEnded
  <2> QED BY <2>1, <1>7, ErrorFollows, Zenon
<1> QED BY <1>2, <1>3, <1>5, <1>6, <1>8, <1>9 DEF Chars

(* A turn of the loop below the limit. *)
LEMMA CharFollows ==
  ASSUME NEW m, NEW o, NEW opts, NEW c \in Chars, Good(m, o, opts), m.pos # Room(o, opts)
  PROVE  Follows(Char(c, m, o, opts), m, o, opts)
<1>1. m.pstate \in {"ROW_NOT_BEGUN", "FIELD_NOT_BEGUN", "FIELD_BEGUN", "FIELD_MIGHT_HAVE_ENDED"}
  BY DEF Good, Parsers
<1>2. CASE m.pstate \in {"ROW_NOT_BEGUN", "FIELD_NOT_BEGUN"}
  <2>1. Char(c, m, o, opts) = NotBegun(c, m, o, opts)
    BY <1>2 DEF Char
  <2> QED BY <2>1, <1>2, NotBegunFollows, Zenon
<1>3. CASE m.pstate = "FIELD_BEGUN"
  <2>1. Char(c, m, o, opts) = InField(c, m, o, opts)
    BY <1>3 DEF Char
  <2> QED BY <2>1, <1>3, InFieldFollows, Zenon
<1>4. CASE m.pstate = "FIELD_MIGHT_HAVE_ENDED"
  <2>1. Char(c, m, o, opts) = MightHaveEnded(c, m, o, opts)
    BY <1>4 DEF Char
  <2> QED BY <2>1, <1>4, MightHaveEndedFollows, Zenon
<1> QED BY <1>1, <1>2, <1>3, <1>4

-----------------------------------------------------------------------------
(* LibCsv: two parsers in the same state, with buffers of different sizes  *)
(* that hold the same field so far, do the same with the next character.   *)

Agree(pos, o, p) ==
  /\ o.row = p.row /\ o.rows = p.rows
  /\ \A i \in 1 .. pos : o.buf[i] = p.buf[i]

Alike(r, q) == r.m = q.m /\ Agree(r.m.pos, r.o, q.o)

(* Both outputs go with the state m. *)
Both(m, o, p, opts) ==
  /\ m \in Parsers /\ (m.quoted \/ m.spaces <= m.pos)
  /\ o \in Outputs /\ ~o.overrun /\ m.pos <= Room(o, opts)
  /\ p \in Outputs /\ ~p.overrun /\ m.pos <= Room(p, opts)
  /\ Agree(m.pos, o, p)

LEMMA SubmitCharAlike ==
  ASSUME NEW m, NEW o, NEW p, NEW opts, NEW c \in Chars,
         Both(m, o, p, opts), m.pos # Room(o, opts), m.pos # Room(p, opts)
  PROVE  Alike(SUBMIT_CHAR(m, o, c), SUBMIT_CHAR(m, p, c))
<1>1. m \in Parsers /\ o \in Outputs /\ ~o.overrun /\ p \in Outputs /\ ~p.overrun /\ Agree(m.pos, o, p)
      /\ m.pos <= Room(o, opts) /\ m.pos <= Room(p, opts)
  BY DEF Both
<1>2. m.pos \in Nat /\ Room(o, opts) \in Int /\ Room(p, opts) \in Int
  BY <1>1 DEF Parsers, Outputs, Room
<1>3. m.pos < Room(o, opts) /\ m.pos < Room(p, opts)
  BY <1>1, <1>2
<1> DEFINE r == SUBMIT_CHAR(m, o, c)
           q == SUBMIT_CHAR(m, p, c)
<1>4. /\ r.m = [m EXCEPT !.pos = m.pos + 1] /\ r.o.row = o.row /\ r.o.rows = o.rows
      /\ \A i \in 1 .. m.pos + 1 : r.o.buf[i] = IF i = m.pos + 1 THEN c ELSE o.buf[i]
  BY <1>1, <1>3, SubmitChar
<1>5. /\ q.m = [m EXCEPT !.pos = m.pos + 1] /\ q.o.row = p.row /\ q.o.rows = p.rows
      /\ \A i \in 1 .. m.pos + 1 : q.o.buf[i] = IF i = m.pos + 1 THEN c ELSE p.buf[i]
  BY <1>1, <1>3, SubmitChar
<1> HIDE DEF r, q
<1>6. r.m = q.m /\ r.m.pos = m.pos + 1
  BY <1>1, <1>4, <1>5 DEF Parsers
<1>7. \A i \in 1 .. m.pos + 1 : r.o.buf[i] = q.o.buf[i]
  BY <1>1, <1>2, <1>4, <1>5 DEF Agree
<1>8. r.o.row = q.o.row /\ r.o.rows = q.o.rows
  BY <1>1, <1>4, <1>5 DEF Agree
<1> QED BY <1>6, <1>7, <1>8 DEF Alike, Agree, r, q

LEMMA FieldValueAlike ==
  ASSUME NEW m, NEW o, NEW p, NEW opts, Both(m, o, p, opts)
  PROVE  FieldValue(m, o, opts) = FieldValue(m, p, opts)
<1>1. m \in Parsers /\ Agree(m.pos, o, p)
  BY DEF Both
<1>2. FieldLen(m) \in Int /\ FieldLen(m) <= m.pos /\ m.pos \in Nat
  BY <1>1 DEF FieldLen, Parsers
<1>3. \A i \in 1 .. FieldLen(m) : o.buf[i] = p.buf[i]
  BY <1>1, <1>2 DEF Agree
<1>4. [i \in 1 .. FieldLen(m) |-> o.buf[i]] = [i \in 1 .. FieldLen(m) |-> p.buf[i]]
  BY <1>3, Zenon
<1> QED BY <1>4, Zenon DEF FieldValue

LEMMA SubmitFieldAlike ==
  ASSUME NEW m, NEW o, NEW p, NEW opts, Both(m, o, p, opts)
  PROVE  /\ Alike(SUBMIT_FIELD(m, o, opts), SUBMIT_FIELD(m, p, opts))
         /\ Alike(FieldAndRow(m, o, opts), FieldAndRow(m, p, opts))
<1>1. m \in Parsers /\ o \in Outputs /\ ~o.overrun /\ p \in Outputs /\ ~p.overrun /\ Agree(m.pos, o, p)
      /\ m.pos <= Room(o, opts) /\ m.pos <= Room(p, opts) /\ (m.quoted \/ m.spaces <= m.pos)
  BY DEF Both
<1>2. FieldValue(m, o, opts) = FieldValue(m, p, opts)
  BY FieldValueAlike
<1>3. FieldDone.pos = 0 /\ Fresh.pos = 0
  BY DEF FieldDone, Fresh
<1>4. Alike(SUBMIT_FIELD(m, o, opts), SUBMIT_FIELD(m, p, opts))
  <2> DEFINE r == SUBMIT_FIELD(m, o, opts)
             q == SUBMIT_FIELD(m, p, opts)
  <2>1. r.m = FieldDone /\ r.o.rows = o.rows /\ r.o.row = Append(o.row, FieldValue(m, o, opts))
    BY <1>1, SubmitField
  <2>2. q.m = FieldDone /\ q.o.rows = p.rows /\ q.o.row = Append(p.row, FieldValue(m, p, opts))
    BY <1>1, SubmitField
  <2> HIDE DEF r, q
  <2>3. r.o.row = q.o.row /\ r.o.rows = q.o.rows
    BY <1>1, <1>2, <2>1, <2>2 DEF Agree
  <2> QED BY <1>3, <2>1, <2>2, <2>3 DEF Alike, Agree, r, q
<1>5. Alike(FieldAndRow(m, o, opts), FieldAndRow(m, p, opts))
  <2> DEFINE r == FieldAndRow(m, o, opts)
             q == FieldAndRow(m, p, opts)
  <2>1. r.m = Fresh /\ r.o.row = <<>> /\ r.o.rows = Append(o.rows, Append(o.row, FieldValue(m, o, opts)))
    BY <1>1, SubmitFieldAndRow
  <2>2. q.m = Fresh /\ q.o.row = <<>> /\ q.o.rows = Append(p.rows, Append(p.row, FieldValue(m, p, opts)))
    BY <1>1, SubmitFieldAndRow
  <2> HIDE DEF r, q
  <2>3. r.o.row = q.o.row /\ r.o.rows = q.o.rows
    BY <1>1, <1>2, <2>1, <2>2 DEF Agree
  <2> QED BY <1>3, <2>1, <2>2, <2>3 DEF Alike, Agree, r, q
<1> QED BY <1>4, <1>5

(* The same for what a turn of the loop returns. *)
Same(r, q) == Alike(r, q) /\ r.error = q.error

LEMMA OkSame ==
  ASSUME NEW r, NEW q, Alike(r, q)
  PROVE  Same(Ok(r), Ok(q))
<1>1. Ok(r).m = r.m /\ Ok(r).o = r.o /\ Ok(r).error = FALSE
  BY DEF Ok
<1>2. Ok(q).m = q.m /\ Ok(q).o = q.o /\ Ok(q).error = FALSE
  BY DEF Ok
<1> QED BY <1>1, <1>2, Zenon DEF Same, Alike

LEMMA StaySame ==
  ASSUME NEW m, NEW o, NEW p, Agree(m.pos, o, p)
  PROVE  Same(Stay(m, o), Stay(m, p)) /\ Same(Error(m, o), Error(m, p))
<1>1. Stay(m, o).m = m /\ Stay(m, o).o = o /\ Stay(m, o).error = FALSE /\ Stay(m, p).m = m /\ Stay(m, p).o = p /\ Stay(m, p).error = FALSE
  BY DEF Stay
<1>2. Error(m, o).m = m /\ Error(m, o).o = o /\ Error(m, o).error = TRUE /\ Error(m, p).m = m /\ Error(m, p).o = p /\ Error(m, p).error = TRUE
  BY DEF Error
<1> QED BY <1>1, <1>2, Zenon DEF Same, Alike

(* What a turn of the loop can store. *)
LEMMA StoreSame ==
  ASSUME NEW m, NEW o, NEW p, NEW opts, NEW c \in Chars,
         Good(m, o, opts), Good(m, p, opts), Agree(m.pos, o, p),
         m.pos # Room(o, opts), m.pos # Room(p, opts),
         NEW z \in {m, Begun(m, FALSE), [m EXCEPT !.spaces = 0], [m EXCEPT !.spaces = 0, !.pstate = "FIELD_BEGUN"]}
  PROVE  Alike(SUBMIT_CHAR(z, o, c), SUBMIT_CHAR(z, p, c))
<1>1. /\ m \in Parsers /\ Kept(m) /\ o \in Outputs /\ ~o.overrun /\ p \in Outputs /\ ~p.overrun
      /\ m.pos <= Room(o, opts) /\ m.pos <= Room(p, opts)
  BY DEF Good
<1>2. z \in Parsers /\ z.pos = m.pos /\ z.spaces <= z.pos
  <2>1. m.spaces <= m.pos /\ 0 <= m.pos
    BY <1>1 DEF Kept, Parsers
  <2>2. CASE z = m
    BY <1>1, <2>1, <2>2
  <2>3. CASE z = Begun(m, FALSE)
    BY <1>1, <2>1, <2>3 DEF Begun, Parsers
  <2>4. CASE z = [m EXCEPT !.spaces = 0]
    BY <1>1, <2>1, <2>4 DEF Parsers
  <2>5. CASE z = [m EXCEPT !.spaces = 0, !.pstate = "FIELD_BEGUN"]
    BY <1>1, <2>1, <2>5 DEF Parsers
  <2> QED BY <2>2, <2>3, <2>4, <2>5
<1>3. Both(z, o, p, opts) /\ z.pos # Room(o, opts) /\ z.pos # Room(p, opts)
  BY <1>1, <1>2 DEF Both
<1> QED BY <1>3, SubmitCharAlike

(* A part of the state that is no position may be changed in both. *)
LEMMA MarkSame ==
  ASSUME NEW r, NEW q, Alike(r, q), DOMAIN r = {"m", "o"}, DOMAIN q = {"m", "o"}, r.m \in Parsers
  PROVE  /\ Alike([r EXCEPT !.m.pstate = "FIELD_MIGHT_HAVE_ENDED"], [q EXCEPT !.m.pstate = "FIELD_MIGHT_HAVE_ENDED"])
         /\ Alike([r EXCEPT !.m.spaces = @ + 1], [q EXCEPT !.m.spaces = @ + 1])
<1>1. r.m = q.m /\ Agree(r.m.pos, r.o, q.o)
  BY DEF Alike
<1> DEFINE r1 == [r EXCEPT !.m.pstate = "FIELD_MIGHT_HAVE_ENDED"]
           q1 == [q EXCEPT !.m.pstate = "FIELD_MIGHT_HAVE_ENDED"]
           r2 == [r EXCEPT !.m.spaces = @ + 1]
           q2 == [q EXCEPT !.m.spaces = @ + 1]
<1>2. r1.o = r.o /\ q1.o = q.o /\ r2.o = r.o /\ q2.o = q.o
  OBVIOUS
<1>3. r1.m = [r.m EXCEPT !.pstate = "FIELD_MIGHT_HAVE_ENDED"] /\ q1.m = [q.m EXCEPT !.pstate = "FIELD_MIGHT_HAVE_ENDED"]
      /\ r2.m = [r.m EXCEPT !.spaces = r.m.spaces + 1] /\ q2.m = [q.m EXCEPT !.spaces = q.m.spaces + 1]
  OBVIOUS
<1> HIDE DEF r1, q1, r2, q2
<1>4. r1.m = q1.m /\ r2.m = q2.m /\ r1.m.pos = r.m.pos /\ r2.m.pos = r.m.pos
  BY <1>1, <1>3 DEF Parsers
<1>5. Alike(r1, q1) /\ Alike(r2, q2)
  BY <1>1, <1>2, <1>4, Zenon DEF Alike
<1> QED BY <1>5 DEF r1, q1, r2, q2

LEMMA NotBegunSame ==
  ASSUME NEW m, NEW o, NEW p, NEW opts, NEW c \in Chars,
         Good(m, o, opts), Good(m, p, opts), Agree(m.pos, o, p),
         m.pos # Room(o, opts), m.pos # Room(p, opts), m.pstate \in {"ROW_NOT_BEGUN", "FIELD_NOT_BEGUN"}
  PROVE  Same(NotBegun(c, m, o, opts), NotBegun(c, m, p, opts))
<1>1. Both(m, o, p, opts)
  BY DEF Good, Both, Kept
<1>2. Same(Stay(m, o), Stay(m, p))
  BY StaySame
<1>3. Same(Ok(SUBMIT_FIELD(m, o, opts)), Ok(SUBMIT_FIELD(m, p, opts))) /\ Same(Ok(FieldAndRow(m, o, opts)), Ok(FieldAndRow(m, p, opts)))
  BY <1>1, SubmitFieldAlike, OkSame, Zenon
<1>4. CASE c = "space"
  BY <1>4, <1>2 DEF NotBegun
<1>5. CASE c = "nl"
  <2>1. Same(Ok(SUBMIT_ROW(m, o)), Ok(SUBMIT_ROW(m, p)))
    <3> DEFINE r == SUBMIT_ROW(m, o)
               q == SUBMIT_ROW(m, p)
    <3>1. r.m = Fresh /\ r.o.row = <<>> /\ r.o.rows = Append(o.rows, o.row)
          /\ q.m = Fresh /\ q.o.row = <<>> /\ q.o.rows = Append(p.rows, p.row)
      BY SubmitRow DEF Good
    <3>2. Fresh.pos = 0
      BY DEF Fresh
    <3> HIDE DEF r, q
    <3>3. Alike(r, q)
      BY <3>1, <3>2 DEF Alike, Agree
    <3>4. Same(Ok(r), Ok(q))
      BY <3>3, OkSame, Zenon
    <3> QED BY <3>4 DEF r, q
  <2> QED BY <1>5, <2>1, <1>2, <1>3 DEF NotBegun
<1>6. CASE c = "comma"
  BY <1>6, <1>3 DEF NotBegun
<1>7. CASE c = "quote"
  <2> DEFINE z == Begun(m, TRUE)
  <2>1. z.pos = m.pos
    BY DEF Begun, Good, Parsers
  <2>2. NotBegun(c, m, o, opts) = Stay(z, o) /\ NotBegun(c, m, p, opts) = Stay(z, p)
    BY <1>7 DEF NotBegun
  <2> HIDE DEF z
  <2>3. Agree(z.pos, o, p)
    BY <2>1
  <2> QED BY <2>2, <2>3, StaySame, Zenon
<1>8. CASE c = "a"
  <2> DEFINE z == Begun(m, FALSE)
  <2>1. z \in {m, Begun(m, FALSE), [m EXCEPT !.spaces = 0], [m EXCEPT !.spaces = 0, !.pstate = "FIELD_BEGUN"]}
    OBVIOUS
  <2>2. NotBegun(c, m, o, opts) = Ok(SUBMIT_CHAR(z, o, c)) /\ NotBegun(c, m, p, opts) = Ok(SUBMIT_CHAR(z, p, c))
    BY <1>8 DEF NotBegun
  <2>3. Alike(SUBMIT_CHAR(z, o, c), SUBMIT_CHAR(z, p, c))
    BY <2>1, StoreSame, Zenon
  <2> QED BY <2>2, <2>3, OkSame, Zenon
<1> QED BY <1>4, <1>5, <1>6, <1>7, <1>8 DEF Chars

LEMMA InFieldSame ==
  ASSUME NEW m, NEW o, NEW p, NEW opts, NEW c \in Chars,
         Good(m, o, opts), Good(m, p, opts), Agree(m.pos, o, p),
         m.pos # Room(o, opts), m.pos # Room(p, opts), m.pstate = "FIELD_BEGUN"
  PROVE  Same(InField(c, m, o, opts), InField(c, m, p, opts))
<1> DEFINE k == [m EXCEPT !.spaces = 0]
           j == [m EXCEPT !.spaces = 0, !.pstate = "FIELD_BEGUN"]
           r == SUBMIT_CHAR(m, o, c)
           q == SUBMIT_CHAR(m, p, c)
<1>1. Both(m, o, p, opts) /\ m.quoted \in BOOLEAN
  BY DEF Good, Both, Kept, Parsers
<1>2. Same(Error(m, o), Error(m, p))
  BY StaySame
<1>3. Same(Ok(SUBMIT_FIELD(m, o, opts)), Ok(SUBMIT_FIELD(m, p, opts))) /\ Same(Ok(FieldAndRow(m, o, opts)), Ok(FieldAndRow(m, p, opts)))
  BY <1>1, SubmitFieldAlike, OkSame, Zenon
<1>4. m \in {m, Begun(m, FALSE), k, j} /\ k \in {m, Begun(m, FALSE), k, j}
  OBVIOUS
<1>5. Alike(r, q) /\ Alike(SUBMIT_CHAR(k, o, c), SUBMIT_CHAR(k, p, c))
  BY <1>4, StoreSame, Zenon
<1>6. Same(Ok(r), Ok(q)) /\ Same(Ok(SUBMIT_CHAR(k, o, c)), Ok(SUBMIT_CHAR(k, p, c)))
  BY <1>5, OkSame, Zenon
<1>7. /\ Same(Ok([r EXCEPT !.m.pstate = "FIELD_MIGHT_HAVE_ENDED"]), Ok([q EXCEPT !.m.pstate = "FIELD_MIGHT_HAVE_ENDED"]))
      /\ Same(Ok([r EXCEPT !.m.spaces = @ + 1]), Ok([q EXCEPT !.m.spaces = @ + 1]))
  <2>1. m \in {m, k, j} /\ m.pstate \in {"FIELD_BEGUN", "FIELD_MIGHT_HAVE_ENDED"}
    OBVIOUS
  <2>2. PutOk(r, m, m, o, opts) /\ PutOk(q, m, m, p, opts)
    BY <2>1, PutGood, Zenon
  <2> HIDE DEF r, q
  <2>3. DOMAIN r = {"m", "o"} /\ DOMAIN q = {"m", "o"} /\ r.m \in Parsers
    BY <2>2 DEF PutOk, Good
  <2>4. /\ Alike([r EXCEPT !.m.pstate = "FIELD_MIGHT_HAVE_ENDED"], [q EXCEPT !.m.pstate = "FIELD_MIGHT_HAVE_ENDED"])
        /\ Alike([r EXCEPT !.m.spaces = @ + 1], [q EXCEPT !.m.spaces = @ + 1])
    BY <2>3, <1>5, MarkSame
  <2> QED BY <2>4, OkSame, Zenon
<1> HIDE DEF r, q
<1>8. CASE c = "quote" /\ m.quoted
  BY <1>8, <1>7 DEF InField, r, q
<1>9. CASE c = "quote" /\ ~m.quoted
  BY <1>9, <1>2, <1>6 DEF InField
<1>10. CASE c = "comma"
  BY <1>10, <1>3, <1>6 DEF InField, r, q
<1>11. CASE c = "nl"
  BY <1>11, <1>3, <1>6 DEF InField, r, q
<1>12. CASE c = "space" /\ ~m.quoted
  BY <1>12, <1>7 DEF InField, r, q
<1>13. CASE c = "a" \/ (c = "space" /\ m.quoted)
  BY <1>13, <1>6 DEF InField
<1> QED BY <1>1, <1>8, <1>9, <1>10, <1>11, <1>12, <1>13 DEF Chars

LEMMA MightHaveEndedSame ==
  ASSUME NEW m, NEW o, NEW p, NEW opts, NEW c \in Chars,
         Good(m, o, opts), Good(m, p, opts), Agree(m.pos, o, p),
         m.pos # Room(o, opts), m.pos # Room(p, opts), m.pstate = "FIELD_MIGHT_HAVE_ENDED"
  PROVE  Same(MightHaveEnded(c, m, o, opts), MightHaveEnded(c, m, p, opts))
<1> DEFINE k == [m EXCEPT !.spaces = 0]
           j == [m EXCEPT !.spaces = 0, !.pstate = "FIELD_BEGUN"]
           r == SUBMIT_CHAR(m, o, c)
           q == SUBMIT_CHAR(m, p, c)
           e == Trimmed(m)
<1>1. Both(e, o, p, opts) /\ m.spaces \in Nat
  <2>1. m \in Parsers /\ o \in Outputs /\ ~o.overrun /\ p \in Outputs /\ ~p.overrun
    BY DEF Good
  <2>2. e \in Parsers /\ e.quoted /\ e.pos \in Nat /\ e.pos <= m.pos /\ e.pos <= Room(o, opts) /\ e.pos <= Room(p, opts)
    BY TrimmedFits
  <2> HIDE DEF e
  <2>3. m.pos \in Nat /\ m.spaces \in Nat
    BY <2>1 DEF Parsers
  <2>4. Agree(e.pos, o, p)
    BY <2>2, <2>3 DEF Agree
  <2> QED BY <2>1, <2>2, <2>3, <2>4 DEF Both
<1>2. Same(Error(m, o), Error(m, p))
  BY StaySame
<1>3. Same(Ok(SUBMIT_FIELD(e, o, opts)), Ok(SUBMIT_FIELD(e, p, opts))) /\ Same(Ok(FieldAndRow(e, o, opts)), Ok(FieldAndRow(e, p, opts)))
  BY <1>1, SubmitFieldAlike, OkSame, Zenon
<1>4. m \in {m, Begun(m, FALSE), k, j} /\ k \in {m, Begun(m, FALSE), k, j} /\ j \in {m, Begun(m, FALSE), k, j}
  OBVIOUS
<1>5. Alike(r, q) /\ Alike(SUBMIT_CHAR(k, o, c), SUBMIT_CHAR(k, p, c)) /\ Alike(SUBMIT_CHAR(j, o, c), SUBMIT_CHAR(j, p, c))
  BY <1>4, StoreSame, Zenon
<1>6. Same(Ok(SUBMIT_CHAR(k, o, c)), Ok(SUBMIT_CHAR(k, p, c))) /\ Same(Ok(SUBMIT_CHAR(j, o, c)), Ok(SUBMIT_CHAR(j, p, c)))
  BY <1>5, OkSame, Zenon
<1>7. Same(Ok([r EXCEPT !.m.spaces = @ + 1]), Ok([q EXCEPT !.m.spaces = @ + 1]))
  <2>1. m \in {m, k, j} /\ m.pstate \in {"FIELD_BEGUN", "FIELD_MIGHT_HAVE_ENDED"}
    OBVIOUS
  <2>2. PutOk(r, m, m, o, opts) /\ PutOk(q, m, m, p, opts)
    BY <2>1, PutGood, Zenon
  <2> HIDE DEF r, q
  <2>3. DOMAIN r = {"m", "o"} /\ DOMAIN q = {"m", "o"} /\ r.m \in Parsers
    BY <2>2 DEF PutOk, Good
  <2>4. Alike([r EXCEPT !.m.spaces = @ + 1], [q EXCEPT !.m.spaces = @ + 1])
    BY <2>3, <1>5, MarkSame
  <2> QED BY <2>4, OkSame, Zenon
<1> HIDE DEF r, q, e
<1>8. CASE c = "comma" \/ c = "nl"
  BY <1>8, <1>3 DEF MightHaveEnded, e
<1>9. CASE c = "space"
  BY <1>9, <1>7 DEF MightHaveEnded, r, q
<1>10. CASE c = "quote" /\ m.spaces = 0
  <2> DEFINE z == [m EXCEPT !.pstate = "FIELD_BEGUN"]
  <2>1. z.pos = m.pos
    BY DEF Good, Parsers
  <2>2. MightHaveEnded(c, m, o, opts) = Stay(z, o) /\ MightHaveEnded(c, m, p, opts) = Stay(z, p)
    BY <1>10 DEF MightHaveEnded
  <2> HIDE DEF z
  <2>3. Agree(z.pos, o, p)
    BY <2>1
  <2> QED BY <2>2, <2>3, StaySame, Zenon
<1>11. CASE c = "quote" /\ m.spaces # 0
  BY <1>1, <1>11, <1>2, <1>6 DEF MightHaveEnded
<1>12. CASE c = "a"
  BY <1>12, <1>2, <1>6 DEF MightHaveEnded
<1> QED BY <1>8, <1>9, <1>10, <1>11, <1>12 DEF Chars

LEMMA CharSame ==
  ASSUME NEW m, NEW o, NEW p, NEW opts, NEW c \in Chars,
         Good(m, o, opts), Good(m, p, opts), Agree(m.pos, o, p),
         m.pos # Room(o, opts), m.pos # Room(p, opts)
  PROVE  Same(Char(c, m, o, opts), Char(c, m, p, opts))
<1>1. m.pstate \in {"ROW_NOT_BEGUN", "FIELD_NOT_BEGUN", "FIELD_BEGUN", "FIELD_MIGHT_HAVE_ENDED"}
  BY DEF Good, Parsers
<1>2. CASE m.pstate \in {"ROW_NOT_BEGUN", "FIELD_NOT_BEGUN"}
  <2>1. Char(c, m, o, opts) = NotBegun(c, m, o, opts) /\ Char(c, m, p, opts) = NotBegun(c, m, p, opts)
    BY <1>2 DEF Char
  <2> QED BY <2>1, <1>2, NotBegunSame, Zenon
<1>3. CASE m.pstate = "FIELD_BEGUN"
  <2>1. Char(c, m, o, opts) = InField(c, m, o, opts) /\ Char(c, m, p, opts) = InField(c, m, p, opts)
    BY <1>3 DEF Char
  <2> QED BY <2>1, <1>3, InFieldSame, Zenon
<1>4. CASE m.pstate = "FIELD_MIGHT_HAVE_ENDED"
  <2>1. Char(c, m, o, opts) = MightHaveEnded(c, m, o, opts) /\ Char(c, m, p, opts) = MightHaveEnded(c, m, p, opts)
    BY <1>4 DEF Char
  <2> QED BY <2>1, <1>4, MightHaveEndedSame, Zenon
<1> QED BY <1>1, <1>2, <1>3, <1>4

-----------------------------------------------------------------------------
(* LibCsv: the invariant.                                                  *)

(* With a buffer, the state that counts is good. *)
LEMMA CurrentGood ==
  ASSUME CsvInv, out.buf # <<>>
  PROVE  Good(Current, out, options) /\ BufferLimit = Room(out, options)
<1>1. Current \in Parsers /\ out \in Outputs /\ ~out.overrun /\ Kept(Current) /\ Current.pos <= BufferLimit
  BY DEF CsvInv, CsvTypeOK, NoOverrun, Current
<1>2. BufferLimit = Room(out, options)
  BY DEF BufferLimit, Room
<1> QED BY <1>1, <1>2 DEF Good

(* The parts of the invariant about the parser and its buffer, from a good state. *)
LEMMA GoodKeeps ==
  ASSUME NEW m, NEW o, NEW opts, Good(m, o, opts)
  PROVE  m \in Parsers /\ Kept(m) /\ o \in Outputs /\ ~o.overrun /\ m.pos <= Room(o, opts)
BY DEF Good

LEMMA FreshKept == Fresh \in Parsers /\ Kept(Fresh) /\ Fresh.pos = 0
BY DEF Fresh, Parsers, Kept

LEMMA InitCsvInv == csv_init => CsvInv
<1> SUFFICES ASSUME csv_init PROVE CsvInv
  OBVIOUS
<1> USE DEF csv_init
<1>1. NoOutput \in Outputs /\ ~NoOutput.overrun /\ NoOutput.buf = <<>> /\ Len(NoOutput.buf) = 0
  BY DEF NoOutput, Outputs
<1>2. source \in Sources /\ source.text \in Seq(Chars) /\ 0 + 0 <= Len(source.text)
  BY CsvAssumption
<1>3. CsvTypeOK
  BY <1>1, <1>2, FreshKept, CsvAssumption DEF CsvTypeOK
<1>4. Current = Fresh
  BY DEF Current
<1> QED BY <1>1, <1>3, <1>4, FreshKept DEF CsvInv, NoOverrun

(* More bytes at the end of a buffer. *)
LEMMA GrownBuffer ==
  ASSUME NEW o \in Outputs, NEW z \in Nat, z > 0
  PROVE  LET q == [o EXCEPT !.buf = @ \o [i \in 1 .. z |-> "?"]]
         IN  /\ q \in Outputs /\ q.row = o.row /\ q.rows = o.rows /\ q.overrun = o.overrun
             /\ Len(q.buf) = Len(o.buf) + z /\ q.buf # <<>>
             /\ \A i \in 1 .. Len(o.buf) : q.buf[i] = o.buf[i]
<1> DEFINE tail == [i \in 1 .. z |-> "?"]
           b == o.buf \o tail
<1>1. tail \in Seq(Chars \cup {"?"}) /\ Len(tail) = z /\ o.buf \in Seq(Chars \cup {"?"})
  BY DEF Outputs
<1> HIDE DEF tail
<1>2. /\ b \in Seq(Chars \cup {"?"}) /\ Len(b) = Len(o.buf) + z /\ b # <<>>
      /\ \A i \in 1 .. Len(o.buf) : b[i] = o.buf[i]
  BY <1>1
<1> HIDE DEF b
<1>3. [o EXCEPT !.buf = b] \in Outputs
  BY <1>2 DEF Outputs
<1> QED BY <1>2, <1>3 DEF Outputs, b, tail

(* csv_increase_buffer never makes the buffer larger than a size_t can say. *)
LEMMA ToAddFits ==
  ASSUME CsvInv
  PROVE  /\ ToAdd \in Nat /\ Len(out.buf) \in Nat /\ Len(out.buf) + ToAdd <= SIZE_MAX
         /\ \A z \in IF MayFail THEN Halves(ToAdd) ELSE {ToAdd} : z \in Nat /\ z <= ToAdd
         /\ ToAdd > 0 => \A z \in IF MayFail THEN Halves(ToAdd) ELSE {ToAdd} : z > 0
<1>1. /\ SIZE_MAX \in Nat /\ blk_size \in Nat /\ blk_size <= SIZE_MAX
      /\ Len(out.buf) \in Nat /\ Len(out.buf) <= SIZE_MAX
  BY CsvAssumption DEF CsvInv, CsvTypeOK, Outputs
<1>2. ToAdd \in Nat /\ Len(out.buf) + ToAdd <= SIZE_MAX
  <2>1. CASE Len(out.buf) >= SIZE_MAX - blk_size
    <3>1. ToAdd = SIZE_MAX - Len(out.buf)
      BY <2>1 DEF ToAdd
    <3> QED BY <1>1, <3>1
  <2>2. CASE ~(Len(out.buf) >= SIZE_MAX - blk_size)
    <3>1. ToAdd = blk_size
      BY <2>2 DEF ToAdd
    <3> QED BY <1>1, <2>2, <3>1
  <2> QED BY <2>1, <2>2
<1>3. Halves(ToAdd) \subseteq 1 .. ToAdd
  BY Zenon DEF Halves
<1> HIDE DEF ToAdd
<1>4. ASSUME NEW z \in IF MayFail THEN Halves(ToAdd) ELSE {ToAdd}
      PROVE  z \in 1 .. ToAdd \/ z = ToAdd
  BY <1>3, <1>4
<1> QED BY <1>1, <1>2, <1>4

LEMMA CallKeeps ==
  ASSUME CsvInv, NEW len \in Nat, Call(len)
  PROVE  CsvInv'
<1> USE DEF Call, same
<1>1. CsvTypeOK /\ NoOverrun /\ Kept(Current)
      /\ (IF out.buf = <<>> THEN Current = Fresh ELSE Current.pos <= BufferLimit)
  BY DEF CsvInv
<1>2. Current = parser /\ Current' = parser /\ BufferLimit' = BufferLimit /\ Kept(Current)'
  BY <1>1 DEF Current, BufferLimit, Kept
<1>3. CsvTypeOK'
  <2>1. source.text \in Seq(Chars) /\ Len(source.text) \in Nat /\ at \in Nat
    BY <1>1, CsvAssumption DEF CsvTypeOK
  <2>2. left' \in Nat /\ at' + left' <= Len(source'.text)
    BY <2>1
  <2>3. pc' \in {"idle", "alloc", "loop", "done"}
    OBVIOUS
  <2> QED BY <1>1, <2>2, <2>3 DEF CsvTypeOK
<1> QED BY <1>1, <1>2, <1>3 DEF CsvInv, NoOverrun

(* A call that returns leaves in the object what it had in its variables. *)
LEMMA ReturnKeeps ==
  ASSUME CsvInv, Return, pc \in {"alloc", "loop"},
         UNCHANGED <<source, blk_size, caller, options, at, out>>,
         status' \in {"success", "EPARSE", "ENOMEM", "ETOOBIG"}
  PROVE  CsvInv'
<1>1. CsvTypeOK /\ NoOverrun /\ Kept(Current)
      /\ (IF out.buf = <<>> THEN Current = Fresh ELSE Current.pos <= BufferLimit)
  BY DEF CsvInv
<1>2. Current = local /\ Current' = local /\ BufferLimit' = BufferLimit
  BY DEF Current, BufferLimit, Return
<1>3. CsvTypeOK'
  <2>1. Len(source.text) \in Nat /\ at \in Nat /\ left \in Nat /\ at + left <= Len(source.text)
    BY <1>1, CsvAssumption DEF CsvTypeOK
  <2>2. left' = 0 /\ at' + left' <= Len(source'.text)
    BY <2>1 DEF Return
  <2> QED BY <1>1, <2>2 DEF CsvTypeOK, Return
<1> QED BY <1>1, <1>2, <1>3 DEF CsvInv, NoOverrun, Return, Kept

LEMMA IncreaseKeeps ==
  ASSUME CsvInv, csv_increase_buffer
  PROVE  CsvInv'
<1>1. CsvTypeOK /\ NoOverrun /\ Kept(Current) /\ (pc = "alloc" => out.buf = <<>>) /\ (pc = "loop" => out.buf # <<>>)
      /\ (IF out.buf = <<>> THEN Current = Fresh ELSE Current.pos <= BufferLimit)
  BY DEF CsvInv
<1>2. pc \in {"alloc", "loop"} /\ Current = local /\ UNCHANGED <<source, blk_size, caller, options, at>>
  BY DEF csv_increase_buffer, MustGrow, Current, same
<1>3. CASE Return /\ UNCHANGED out /\ status' = IF ToAdd = 0 THEN "ETOOBIG" ELSE "ENOMEM"
  <2>1. status' \in {"success", "EPARSE", "ENOMEM", "ETOOBIG"}
    BY <1>3
  <2> QED BY <1>2, <1>3, <2>1, ReturnKeeps
<1>4. CASE /\ ToAdd > 0
           /\ \E z \in IF MayFail THEN Halves(ToAdd) ELSE {ToAdd} :
                 out' = [out EXCEPT !.buf = @ \o [i \in 1 .. z |-> "?"]]
           /\ pc' = "loop"
           /\ UNCHANGED <<left, local, parser, status>>
  <2>1. PICK z \in IF MayFail THEN Halves(ToAdd) ELSE {ToAdd} :
              out' = [out EXCEPT !.buf = @ \o [i \in 1 .. z |-> "?"]]
    BY <1>4
  <2>2. z \in Nat /\ z > 0 /\ z <= ToAdd /\ Len(out.buf) \in Nat /\ Len(out.buf) + z <= SIZE_MAX
    <3>1. SIZE_MAX \in Nat
      BY CsvAssumption
    <3> QED BY <2>1, <1>4, <3>1, ToAddFits
  <2>3. /\ out' \in Outputs /\ out'.overrun = out.overrun
        /\ Len(out'.buf) = Len(out.buf) + z /\ out'.buf # <<>>
    <3>1. out \in Outputs
      BY <1>1 DEF CsvTypeOK
    <3> QED BY <2>1, <2>2, <3>1, GrownBuffer
  <2>4. CsvTypeOK'
    BY <1>1, <1>2, <1>4, <2>2, <2>3 DEF CsvTypeOK
  <2>5. Current' = local
    BY <1>4 DEF Current
  <2>6. local.pos \in Nat
    BY <1>1 DEF CsvTypeOK, Parsers
  <2>7. local.pos <= BufferLimit'
    <3>1. CASE out.buf = <<>>
      <4>1. local.pos = 0
        BY <3>1, <1>1, <1>2, FreshKept
      <4> QED BY <4>1, <2>2, <2>3 DEF BufferLimit
    <3>2. CASE out.buf # <<>>
      <4>1. local.pos <= BufferLimit
        BY <3>2, <1>1, <1>2
      <4>2. BufferLimit \in Int /\ BufferLimit' \in Int /\ BufferLimit <= BufferLimit'
        BY <1>2, <2>2, <2>3 DEF BufferLimit
      <4> QED BY <4>1, <4>2, <2>6
    <3> QED BY <3>1, <3>2
  <2> QED BY <1>1, <1>2, <1>4, <2>3, <2>4, <2>5, <2>7 DEF CsvInv, NoOverrun, Kept
<1> QED BY <1>3, <1>4 DEF csv_increase_buffer

(* What csv_parse does with a character, said without LET. *)
LEMMA ParseCases ==
  ASSUME csv_parse
  PROVE  LET r == Char(source.text[at + 1], local, out, options)
         IN  \/ r.error /\ status' = "EPARSE" /\ Return /\ UNCHANGED <<at, out>>
             \/ /\ ~r.error /\ local' = r.m /\ out' = r.o
                /\ at' = at + 1 /\ left' = left - 1 /\ UNCHANGED <<parser, status, pc>>
BY DEF csv_parse

LEMMA ParseKeeps ==
  ASSUME CsvInv, csv_parse
  PROVE  CsvInv'
<1>1. CsvTypeOK /\ pc = "loop" /\ left > 0 /\ out.buf # <<>> /\ UNCHANGED <<source, blk_size, caller, options>>
  BY DEF CsvInv, csv_parse, same
<1>2. Current = local /\ local.pos # BufferLimit
  BY <1>1 DEF csv_parse, MustGrow, Current
<1>3. Good(local, out, options) /\ local.pos # Room(out, options)
  BY <1>1, <1>2, CurrentGood
<1>4. source.text \in Seq(Chars) /\ Len(source.text) \in Nat /\ at \in Nat /\ left \in Nat /\ at + left <= Len(source.text)
  BY <1>1, CsvAssumption DEF CsvTypeOK
<1>5. source.text[at + 1] \in Chars
  BY <1>1, <1>4
<1> DEFINE r == Char(source.text[at + 1], local, out, options)
<1>6. Follows(r, local, out, options)
  BY <1>3, <1>5, CharFollows
<1>7. CASE r.error /\ status' = "EPARSE" /\ Return /\ UNCHANGED <<at, out>>
  <2>1. status' \in {"success", "EPARSE", "ENOMEM", "ETOOBIG"} /\ pc \in {"alloc", "loop"}
    BY <1>1, <1>7
  <2> QED BY <1>1, <1>7, <2>1, ReturnKeeps
<1>8. CASE /\ ~r.error /\ local' = r.m /\ out' = r.o
           /\ at' = at + 1 /\ left' = left - 1 /\ UNCHANGED <<parser, status, pc>>
  <2> HIDE DEF r
  <2>1. Good(local', out', options) /\ Len(out'.buf) = Len(out.buf)
    BY <1>6, <1>8 DEF Follows
  <2>2. local' \in Parsers /\ Kept(local') /\ out' \in Outputs /\ ~out'.overrun /\ local'.pos <= Room(out', options)
    BY <2>1, GoodKeeps
  <2>3. at' \in Nat /\ left' \in Nat /\ at' + left' <= Len(source'.text)
    BY <1>1, <1>4, <1>8
  <2>4. CsvTypeOK'
    BY <1>1, <1>8, <2>1, <2>2, <2>3 DEF CsvTypeOK
  <2>5. Current' = local' /\ BufferLimit' = Room(out', options)
    BY <1>1, <1>8 DEF Current, BufferLimit, Room
  <2>6. out'.buf # <<>>
    <3>1. out.buf \in Seq(Chars \cup {"?"}) /\ out'.buf \in Seq(Chars \cup {"?"})
      BY <1>1, <2>2 DEF CsvTypeOK, Outputs
    <3> QED BY <1>1, <2>1, <3>1
  <2> QED BY <1>1, <1>8, <2>2, <2>4, <2>5, <2>6 DEF CsvInv, NoOverrun, Kept
<1> QED BY <1>7, <1>8, ParseCases

LEMMA FiniKeeps ==
  ASSUME CsvInv, csv_fini
  PROVE  CsvInv'
<1>1. CsvTypeOK /\ NoOverrun /\ Kept(Current) /\ pc = "idle" /\ pc' = "done" /\ UNCHANGED <<source, blk_size, caller, options, at, left, local>>
      /\ (IF out.buf = <<>> THEN Current = Fresh ELSE Current.pos <= BufferLimit)
  BY DEF CsvInv, csv_fini, same
<1>2. Current = parser /\ Current' = parser'
  BY <1>1 DEF Current
<1>3. CASE status' = "EPARSE" /\ UNCHANGED <<parser, out>>
  <2>1. CsvTypeOK' /\ BufferLimit' = BufferLimit
    BY <1>1, <1>3 DEF CsvTypeOK, BufferLimit
  <2> QED BY <1>1, <1>2, <1>3, <2>1 DEF CsvInv, NoOverrun, Kept
<1>4. CASE /\ out' = CASE parser.pstate = "ROW_NOT_BEGUN" -> out
                       [] parser.pstate = "FIELD_MIGHT_HAVE_ENDED" -> FieldAndRow(Trimmed(parser), out, options).o
                       [] OTHER -> FieldAndRow(parser, out, options).o
           /\ parser' = Fresh /\ status' = "success"
  <2>1. out' \in Outputs /\ ~out'.overrun /\ out'.buf = out.buf
    <3>1. CASE parser.pstate = "ROW_NOT_BEGUN"
      BY <1>1, <1>4, <3>1 DEF CsvTypeOK, NoOverrun
    <3>2. CASE parser.pstate # "ROW_NOT_BEGUN"
      <4>1. out.buf # <<>>
        BY <3>2, <1>1, <1>2 DEF Fresh
      <4>2. Good(parser, out, options)
        BY <4>1, <1>2, CurrentGood
      <4>3. parser \in Parsers /\ out \in Outputs /\ ~out.overrun /\ parser.pos <= Room(out, options) /\ parser.spaces <= parser.pos
        BY <4>2 DEF Good, Kept
      <4>4. CASE parser.pstate = "FIELD_MIGHT_HAVE_ENDED"
        <5>1. out' = FieldAndRow(Trimmed(parser), out, options).o
          BY <1>4, <4>4
        <5>2. Trimmed(parser) \in Parsers /\ Trimmed(parser).quoted /\ Trimmed(parser).pos <= Room(out, options)
          BY <4>2, <4>4, TrimmedFits
        <5> QED BY <4>3, <5>1, <5>2, SubmitFieldAndRow
      <4>5. CASE parser.pstate # "FIELD_MIGHT_HAVE_ENDED"
        <5>1. out' = FieldAndRow(parser, out, options).o
          BY <1>4, <3>2, <4>5
        <5> QED BY <4>3, <5>1, SubmitFieldAndRow
      <4> QED BY <4>4, <4>5
    <3> QED BY <3>1, <3>2
  <2>2. CsvTypeOK'
    BY <1>1, <1>4, <2>1, FreshKept DEF CsvTypeOK
  <2>3. out.buf # <<>> => 0 <= BufferLimit'
    <3>1. out.buf \in Seq(Chars \cup {"?"})
      BY <1>1 DEF CsvTypeOK, Outputs
    <3> QED BY <3>1, <2>1, <1>1 DEF BufferLimit
  <2> QED BY <1>1, <1>2, <1>4, <2>1, <2>2, <2>3, FreshKept DEF CsvInv, NoOverrun
<1> QED BY <1>3, <1>4 DEF csv_fini

(* The caller that waits frees the buffer and sets options when nothing has begun. *)
LEMMA FreeKeeps ==
  ASSUME CsvInv, csv_free, CallersWait
  PROVE  CsvInv' /\ parser = Fresh
<1>1. CsvTypeOK /\ NoOverrun /\ pc = "idle" /\ out' = [out EXCEPT !.buf = <<>>]
      /\ UNCHANGED <<source, blk_size, caller, options, at, left, local, parser, status, pc>>
  BY DEF CsvInv, csv_free, same
<1>2. parser = Fresh
  BY <1>1 DEF csv_free, Allowed, CallersWait, CsvTypeOK
<1>3. out \in Outputs /\ ~out.overrun
  BY <1>1 DEF CsvTypeOK, NoOverrun
<1>4. out' \in Outputs /\ ~out'.overrun /\ out'.buf = <<>> /\ Len(out'.buf) = 0
  <2>1. <<>> \in Seq(Chars \cup {"?"})
    OBVIOUS
  <2> QED BY <1>1, <1>3, <2>1 DEF Outputs
<1>5. CsvTypeOK'
  BY <1>1, <1>4, CsvAssumption DEF CsvTypeOK
<1>6. Current' = Fresh
  BY <1>1, <1>2 DEF Current
<1> QED BY <1>1, <1>2, <1>4, <1>5, <1>6, FreshKept DEF CsvInv, NoOverrun

LEMMA SetOptsKeeps ==
  ASSUME CsvInv, csv_set_opts, CallersWait
  PROVE  CsvInv'
<1>1. CsvTypeOK /\ NoOverrun /\ pc = "idle" /\ options' \in OptSets
      /\ UNCHANGED <<source, blk_size, caller, at, left, local, parser, out, status, pc>>
  BY DEF CsvInv, csv_set_opts, same
<1>2. parser = Fresh
  BY <1>1 DEF csv_set_opts, Allowed, CallersWait, CsvTypeOK
<1>3. CsvTypeOK' /\ Current' = Fresh
  BY <1>1, <1>2 DEF CsvTypeOK, Current
<1>4. out'.buf # <<>> => 0 <= BufferLimit'
  <2>1. out.buf \in Seq(Chars \cup {"?"})
    BY <1>1 DEF CsvTypeOK, Outputs
  <2> QED BY <2>1, <1>1 DEF BufferLimit
<1> QED BY <1>1, <1>3, <1>4, FreshKept DEF CsvInv, NoOverrun

LEMMA CsvStep ==
  ASSUME CsvInv, [CsvNext]_csvVars, CallersWait
  PROVE  CsvInv'
<1>1. CASE UNCHANGED csvVars
  BY <1>1 DEF csvVars, CsvInv, CsvTypeOK, NoOverrun, Current, Kept, BufferLimit
<1>2. ASSUME NEW len \in 1 .. Len(source.text), Call(len) PROVE CsvInv'
  <2>1. len \in Nat
    OBVIOUS
  <2> QED BY <1>2, <2>1, CallKeeps
<1>3. CASE csv_increase_buffer
  BY <1>3, IncreaseKeeps
<1>4. CASE csv_parse
  BY <1>4, ParseKeeps
<1>5. CASE ReturnLen
  <2>1. Return /\ pc \in {"alloc", "loop"} /\ UNCHANGED <<source, blk_size, caller, options, at, out>>
        /\ status' \in {"success", "EPARSE", "ENOMEM", "ETOOBIG"}
    BY <1>5 DEF ReturnLen, same, CsvInv, CsvTypeOK
  <2> QED BY <2>1, ReturnKeeps
<1>6. CASE csv_fini
  BY <1>6, FiniKeeps
<1>7. CASE csv_free
  BY <1>7, FreeKeeps
<1>8. CASE csv_set_opts
  BY <1>8, SetOptsKeeps
<1>9. CASE Finished
  BY <1>1, <1>9 DEF Finished
<1> QED BY <1>1, <1>2, <1>3, <1>4, <1>5, <1>6, <1>7, <1>8, <1>9 DEF CsvNext

(* csv_parse and csv_fini never touch the entry buffer outside of its      *)
(* size, whatever the text, the block size, the cuts and the failures of   *)
(* realloc, if the caller frees the buffer and sets options between rows   *)
(* only (libcsv.c:49-71, 281-467).                                         *)
THEOREM BufferKept ==
  ASSUME CallersWait
  PROVE  CsvSpec => []NoOverrun
<1>1. CsvInv /\ [CsvNext]_csvVars => CsvInv'
  BY CsvStep
<1>2. CsvInv => NoOverrun
  BY DEF CsvInv
<1> QED BY <1>1, <1>2, InitCsvInv, PTL DEF CsvSpec

-----------------------------------------------------------------------------
(* LibCsv: the single call over the whole text.                            *)

(* The states of a single call over the first n characters. *)
Turn1(text, opts, w, k) ==
  IF k = 0 THEN Stay(Fresh, Roomy(text)) ELSE Char(text[k], w[k - 1].m, w[k - 1].o, opts)
IsWhole(text, opts, z, w) == w = [k \in 0 .. z |-> Turn1(text, opts, w, k)]

(* They exist, by induction on the number of characters. *)
LEMMA WholeExists ==
  ASSUME NEW text, NEW opts
  PROVE  \A z \in Nat : \E w : IsWhole(text, opts, z, w)
<1> DEFINE P(z) == \E w : IsWhole(text, opts, z, w)
           S == {z \in Nat : ~P(z)}
<1> SUFFICES ASSUME S # {} PROVE FALSE
  OBVIOUS
<1>1. PICK z \in S : \A k \in S : z <= k
  <2>1. S \in SUBSET Nat
    OBVIOUS
  <2> HIDE DEF S
  <2> QED BY <2>1, LeastElement
<1>2. z \in Nat /\ ~P(z)
  OBVIOUS
<1>3. CASE z = 0
  <2> DEFINE w == [k \in 0 .. 0 |-> Stay(Fresh, Roomy(text))]
  <2>1. IsWhole(text, opts, 0, w)
    BY DEF IsWhole, Turn1
  <2> QED BY <2>1, <1>2, <1>3
<1>4. CASE z # 0
  <2>1. z - 1 \in Nat /\ z - 1 \notin S
    BY <1>1, <1>2, <1>4
  <2>2. PICK v : IsWhole(text, opts, z - 1, v)
    BY <2>1
  <2> DEFINE w == [k \in 0 .. z |-> IF k = z THEN Char(text[z], v[z - 1].m, v[z - 1].o, opts) ELSE v[k]]
  <2>3. \A k \in 0 .. z : w[k] = Turn1(text, opts, w, k)
    BY <1>2, <1>4, <2>1, <2>2 DEF IsWhole, Turn1
  <2>4. IsWhole(text, opts, z, w)
    BY <2>3 DEF IsWhole
  <2> QED BY <2>4, <1>2
<1> QED BY <1>3, <1>4

LEMMA WholeStates ==
  ASSUME NEW text \in Seq(Chars), NEW opts
  PROVE  /\ Whole(text, opts)[0] = Stay(Fresh, Roomy(text))
         /\ \A k \in 1 .. Len(text) :
              Whole(text, opts)[k] = Char(text[k], Whole(text, opts)[k - 1].m, Whole(text, opts)[k - 1].o, opts)
<1>1. Len(text) \in Nat
  OBVIOUS
<1>2. \E w : IsWhole(text, opts, Len(text), w)
  BY <1>1, WholeExists
<1>3. IsWhole(text, opts, Len(text), Whole(text, opts))
  BY <1>2, Zenon DEF Whole, IsWhole, Turn1
<1> DEFINE w == Whole(text, opts)
<1> HIDE DEF w
<1>4. \A k \in 0 .. Len(text) : w[k] = Turn1(text, opts, w, k)
  BY <1>3 DEF IsWhole, w
<1>5. w[0] = Stay(Fresh, Roomy(text))
  BY <1>1, <1>4 DEF Turn1
<1>6. ASSUME NEW k \in 1 .. Len(text)
      PROVE  w[k] = Char(text[k], w[k - 1].m, w[k - 1].o, opts)
  BY <1>1, <1>4 DEF Turn1
<1> QED BY <1>5, <1>6 DEF w

(* Its buffer is large enough: the field so far is never longer than the text so far. *)
LEMMA WholeGood ==
  ASSUME NEW text \in Seq(Chars), NEW opts
  PROVE  \A k \in 0 .. Len(text) :
           LET w == Whole(text, opts)[k]
           IN  Good(w.m, w.o, opts) /\ Len(w.o.buf) = Len(text) + 1 /\ w.m.pos <= k
<1> DEFINE w == Whole(text, opts)
           P(k) == Good(w[k].m, w[k].o, opts) /\ Len(w[k].o.buf) = Len(text) + 1 /\ w[k].m.pos <= k
           S == {k \in 0 .. Len(text) : ~P(k)}
<1> SUFFICES ASSUME S # {} PROVE FALSE
  OBVIOUS
<1>1. Len(text) \in Nat
  OBVIOUS
<1>2. PICK z \in S : \A k \in S : z <= k
  <2>1. S \in SUBSET Nat
    BY <1>1
  <2> HIDE DEF S
  <2> QED BY <2>1, LeastElement
<1>3. z \in 0 .. Len(text) /\ ~P(z)
  OBVIOUS
<1>4. CASE z = 0
  <2>1. w[0].m = Fresh /\ w[0].o = Roomy(text)
    <3>1. w[0] = Stay(Fresh, Roomy(text))
      BY WholeStates
    <3>2. Stay(Fresh, Roomy(text)).m = Fresh /\ Stay(Fresh, Roomy(text)).o = Roomy(text)
      BY DEF Stay
    <3> HIDE DEF w
    <3> QED BY <3>1, <3>2
  <2>2. Roomy(text) \in Outputs /\ ~Roomy(text).overrun /\ Len(Roomy(text).buf) = Len(text) + 1
    <3> DEFINE b == [i \in 1 .. Len(text) + 1 |-> "?"]
    <3>1. b \in Seq(Chars \cup {"?"}) /\ Len(b) = Len(text) + 1
      BY <1>1
    <3>2. <<>> \in Seq(Fields) /\ <<>> \in Seq(Seq(Fields))
      OBVIOUS
    <3>3. Roomy(text) = [NoOutput EXCEPT !.buf = b]
      BY DEF Roomy
    <3> HIDE DEF b
    <3>4. NoOutput \in [buf : {<<>>}, row : {<<>>}, rows : {<<>>}, overrun : {FALSE}]
      BY DEF NoOutput
    <3> QED BY <3>1, <3>2, <3>3, <3>4 DEF Outputs
  <2> HIDE DEF w
  <2>3. Good(Fresh, Roomy(text), opts) /\ Fresh.pos = 0
    <3>1. 0 <= Room(Roomy(text), opts)
      BY <2>2, <1>1 DEF Room
    <3> QED BY <3>1, <2>2, FreshGood
  <2>4. P(0)
    BY <2>1, <2>2, <2>3
  <2> QED BY <2>4, <1>3, <1>4
<1>5. CASE z # 0
  <2>1. z - 1 \in 0 .. Len(text) /\ z - 1 \notin S /\ z \in 1 .. Len(text)
    BY <1>1, <1>2, <1>3, <1>5
  <2>2. P(z - 1)
    BY <2>1
  <2> DEFINE v == w[z - 1]
  <2>3. Good(v.m, v.o, opts) /\ Len(v.o.buf) = Len(text) + 1 /\ v.m.pos <= z - 1
    BY <2>2
  <2>4. w[z] = Char(text[z], v.m, v.o, opts) /\ text[z] \in Chars
    BY <2>1, WholeStates
  <2> HIDE DEF w, v
  <2>5. v.m.pos \in Nat /\ v.m.pos # Room(v.o, opts)
    BY <1>1, <2>1, <2>3 DEF Good, Parsers, Room
  <2>6. Follows(w[z], v.m, v.o, opts)
    BY <2>3, <2>4, <2>5, CharFollows
  <2>7. Good(w[z].m, w[z].o, opts) /\ Len(w[z].o.buf) = Len(text) + 1 /\ w[z].m.pos <= v.m.pos + 1
    BY <2>3, <2>6 DEF Follows
  <2>8. w[z].m.pos \in Nat
    BY <2>7 DEF Good, Parsers
  <2>9. P(z)
    BY <2>1, <2>3, <2>5, <2>7, <2>8
  <2> QED BY <2>9, <1>3
<1> QED BY <1>4, <1>5

(* What the parser has and has handed out is what a single call would have. *)
Single(w, m, o) == w.m = m /\ Agree(m.pos, o, w.o)
Rows == pc # "done" /\ caller.set_opts = "never" => Single(Whole(source.text, options)[at], Current, out)

LEMMA RowsInit == csv_init => Rows
<1> SUFFICES ASSUME csv_init PROVE Rows
  OBVIOUS
<1>1. source.text \in Seq(Chars) /\ at = 0 /\ Current = Fresh /\ out = NoOutput
  BY CsvAssumption DEF csv_init, Current
<1>2. Whole(source.text, options)[0] = Stay(Fresh, Roomy(source.text))
  BY <1>1, WholeStates
<1>3. Stay(Fresh, Roomy(source.text)).m = Fresh /\ Stay(Fresh, Roomy(source.text)).o = Roomy(source.text)
  BY DEF Stay
<1>4. Roomy(source.text).row = <<>> /\ Roomy(source.text).rows = <<>> /\ NoOutput.row = <<>> /\ NoOutput.rows = <<>>
  BY DEF Roomy, NoOutput
<1> DEFINE w == Whole(source.text, options)[0]
<1>5. w.m = Fresh /\ w.o = Roomy(source.text)
  BY <1>2, <1>3
<1> HIDE DEF w
<1>6. Single(w, Current, out)
  BY <1>1, <1>4, <1>5, FreshKept DEF Single, Agree
<1> QED BY <1>1, <1>6 DEF w, Rows

(* A step that neither consumes a character nor touches the field so far. *)
LEMMA RowsStay ==
  ASSUME Rows, pc # "done", UNCHANGED <<source, caller, options, at>>, Current' = Current,
         out'.row = out.row, out'.rows = out.rows,
         \A i \in 1 .. Current.pos : out'.buf[i] = out.buf[i]
  PROVE  Rows'
<1>1. Whole(source.text, options)' = Whole(source.text, options)
  BY Zenon
<1>2. ASSUME NEW w, Single(w, Current, out) PROVE Single(w, Current', out')
  BY <1>2 DEF Single, Agree
<1> QED BY <1>1, <1>2, Zenon DEF Rows

LEMMA RowsIncrease ==
  ASSUME CsvInv, Rows, csv_increase_buffer
  PROVE  Rows'
<1>1. out \in Outputs /\ local.pos \in Nat /\ (out.buf = <<>> => local.pos = 0) /\ (out.buf # <<>> => local.pos <= Len(out.buf))
  <2>1. CsvTypeOK /\ pc \in {"alloc", "loop"} /\ (IF out.buf = <<>> THEN Current = Fresh ELSE Current.pos <= BufferLimit)
    BY DEF CsvInv, csv_increase_buffer, MustGrow
  <2>2. Current = local /\ out \in Outputs /\ local.pos \in Nat /\ Len(out.buf) \in Nat
    BY <2>1 DEF Current, CsvTypeOK, Outputs, Parsers
  <2> QED BY <2>1, <2>2, FreshKept DEF BufferLimit
<1>2. pc \in {"alloc", "loop"} /\ pc # "done" /\ Current = local /\ UNCHANGED <<source, caller, options, at>>
  BY DEF csv_increase_buffer, MustGrow, Current, same
<1>3. CASE Return /\ UNCHANGED out
  <2>1. Current' = local
    BY <1>3 DEF Current, Return
  <2> QED BY <1>2, <1>3, <2>1, RowsStay
<1>4. CASE /\ ToAdd > 0
           /\ \E z \in IF MayFail THEN Halves(ToAdd) ELSE {ToAdd} :
                 out' = [out EXCEPT !.buf = @ \o [i \in 1 .. z |-> "?"]]
           /\ pc' = "loop" /\ UNCHANGED local
  <2>1. PICK z \in IF MayFail THEN Halves(ToAdd) ELSE {ToAdd} :
              out' = [out EXCEPT !.buf = @ \o [i \in 1 .. z |-> "?"]]
    BY <1>4
  <2>2. z \in Nat /\ z > 0
    BY <2>1, <1>4, ToAddFits
  <2>3. /\ out'.row = out.row /\ out'.rows = out.rows
        /\ \A i \in 1 .. Len(out.buf) : out'.buf[i] = out.buf[i]
    BY <1>1, <2>1, <2>2, GrownBuffer
  <2>4. \A i \in 1 .. local.pos : i \in 1 .. Len(out.buf)
    BY <1>1 DEF Outputs
  <2>5. Current' = local
    BY <1>4 DEF Current
  <2> QED BY <1>2, <2>3, <2>4, <2>5, RowsStay
<1> QED BY <1>3, <1>4 DEF csv_increase_buffer

LEMMA RowsParse ==
  ASSUME CsvInv, Rows, csv_parse
  PROVE  Rows'
<1>1. CsvTypeOK /\ pc = "loop" /\ left > 0 /\ out.buf # <<>> /\ UNCHANGED <<source, caller, options>>
  BY DEF CsvInv, csv_parse, same
<1>2. Current = local /\ local.pos # BufferLimit
  BY <1>1 DEF csv_parse, MustGrow, Current
<1>3. Good(local, out, options) /\ local.pos # Room(out, options)
  BY <1>1, <1>2, CurrentGood
<1>4. source.text \in Seq(Chars) /\ Len(source.text) \in Nat /\ at \in Nat /\ left \in Nat /\ at + left <= Len(source.text)
  BY <1>1, CsvAssumption DEF CsvTypeOK
<1>5. source.text[at + 1] \in Chars /\ at \in 0 .. Len(source.text) /\ at + 1 \in 1 .. Len(source.text) /\ (at + 1) - 1 = at
  BY <1>1, <1>4
<1> DEFINE c == source.text[at + 1]
           r == Char(c, local, out, options)
           W == Whole(source.text, options)
           w == W[at]
<1>6. CASE r.error /\ Return /\ UNCHANGED <<at, out>>
  <2>1. Current' = local /\ pc # "done"
    BY <1>1, <1>6 DEF Current, Return
  <2> QED BY <1>1, <1>2, <1>6, <2>1, RowsStay
<1>7. CASE local' = r.m /\ out' = r.o /\ at' = at + 1 /\ UNCHANGED pc
  <2> SUFFICES ASSUME caller.set_opts = "never"
               PROVE  Single(Whole(source.text, options)[at], Current, out)'
    BY <1>1 DEF Rows
  <2>1. Single(w, local, out)
    BY <1>1, <1>2 DEF Rows
  <2>2. w.m = local /\ Agree(local.pos, out, w.o)
    BY <2>1 DEF Single
  <2>3. Good(w.m, w.o, options) /\ Len(w.o.buf) = Len(source.text) + 1 /\ w.m.pos <= at
    BY <1>4, <1>5, WholeGood
  <2>4. W[at + 1] = Char(c, w.m, w.o, options)
    BY <1>4, <1>5, WholeStates
  <2> HIDE DEF w, W, r, c
  <2>5. Good(local, w.o, options) /\ local.pos <= at /\ W[at + 1] = Char(c, local, w.o, options)
    BY <2>2, <2>3, <2>4
  <2>6. local.pos # Room(w.o, options)
    <3>1. local.pos \in Nat
      BY <2>5 DEF Good, Parsers
    <3> QED BY <1>1, <1>4, <2>3, <2>5, <3>1 DEF Room
  <2>7. Same(r, W[at + 1])
    <3>1. c \in Chars
      BY <1>5 DEF c
    <3> QED BY <1>3, <2>2, <2>5, <2>6, <3>1, CharSame DEF r
  <2>8. Current' = r.m /\ out' = r.o
    BY <1>1, <1>7 DEF Current
  <2>9. Single(W[at + 1], r.m, r.o)
    BY <2>7 DEF Same, Alike, Agree, Single
  <2>10. Whole(source.text, options)' = W /\ at' = at + 1
    BY <1>1, <1>7, Zenon DEF W
  <2> QED BY <2>8, <2>9, <2>10
<1> QED BY <1>6, <1>7, ParseCases

LEMMA RowsStep ==
  ASSUME CsvInv, Rows, [CsvNext]_csvVars, CallersWait
  PROVE  Rows'
<1>1. CASE UNCHANGED csvVars
  BY <1>1, Zenon DEF csvVars, Rows, Current
<1>2. ASSUME NEW len \in 1 .. Len(source.text), Call(len) PROVE Rows'
  <2>1. pc # "done" /\ UNCHANGED <<source, caller, options, at, out>> /\ Current' = Current
    BY <1>2 DEF Call, same, Current
  <2> QED BY <2>1, RowsStay
<1>3. CASE csv_increase_buffer
  BY <1>3, RowsIncrease
<1>4. CASE csv_parse
  BY <1>4, RowsParse
<1>5. CASE ReturnLen
  <2>1. pc # "done" /\ UNCHANGED <<source, caller, options, at, out>> /\ Current' = Current
    BY <1>5 DEF ReturnLen, Return, same, Current
  <2> QED BY <2>1, RowsStay
<1>6. CASE csv_fini
  BY <1>6 DEF csv_fini, Rows
<1>7. CASE csv_free
  <2>1. pc # "done" /\ UNCHANGED <<source, caller, options, at>> /\ Current' = Current /\ Current = parser
    BY <1>7 DEF csv_free, same, Current
  <2>2. Current.pos = 0
    BY <1>7, <2>1, FreeKeeps, FreshKept
  <2>3. out'.row = out.row /\ out'.rows = out.rows
    <3>1. out \in Outputs /\ out' = [out EXCEPT !.buf = <<>>]
      BY <1>7 DEF csv_free, CsvInv, CsvTypeOK
    <3> QED BY <3>1 DEF Outputs
  <2> QED BY <2>1, <2>2, <2>3, RowsStay
<1>8. CASE csv_set_opts
  <2>1. caller' = caller
    BY <1>8 DEF csv_set_opts, same
  <2>2. caller.set_opts \in {"any time", "between rows"}
    BY <1>8, Zenon DEF csv_set_opts, Allowed
  <2>3. caller.set_opts # "never"
    BY <2>2, Zenon
  <2> QED BY <2>1, <2>3, Zenon DEF Rows
<1>9. CASE Finished
  BY <1>1, <1>9 DEF Finished
<1> QED BY <1>1, <1>2, <1>3, <1>4, <1>5, <1>6, <1>7, <1>8, <1>9 DEF CsvNext

(* The callbacks have got the rows of the text, whatever the text, the     *)
(* block size, the cuts into calls and the calls that ran out of memory,   *)
(* and nothing outside of entry_buf was touched for it (libcsv.c:281-467). *)
THEOREM RowsOfText ==
  ASSUME CallersWait
  PROVE  CsvSpec => []ParseSound
<1>1. csv_init => CsvInv /\ Rows
  BY InitCsvInv, RowsInit
<1>2. CsvInv /\ Rows /\ [CsvNext]_csvVars => (CsvInv /\ Rows)'
  BY CsvStep, RowsStep
<1>3. CsvInv /\ Rows => ParseSound
  <2> SUFFICES ASSUME CsvInv, Rows PROVE ParseSound
    OBVIOUS
  <2>1. NoOverrun
    BY DEF CsvInv
  <2>2. PiecesDoNotMatter
    <3> SUFFICES ASSUME pc # "done", caller.set_opts = "never"
                 PROVE  LET o == Whole(source.text, options)[at].o
                        IN  out.row = o.row /\ out.rows = o.rows
      BY DEF PiecesDoNotMatter
    <3> DEFINE w == Whole(source.text, options)[at]
    <3>1. Single(w, Current, out)
      BY DEF Rows
    <3> HIDE DEF w
    <3>2. out.row = w.o.row /\ out.rows = w.o.rows
      BY <3>1 DEF Single, Agree
    <3> QED BY <3>2 DEF w
  <2> QED BY <2>1, <2>2 DEF ParseSound
<1> QED BY <1>1, <1>2, <1>3, PTL DEF CsvSpec

-----------------------------------------------------------------------------
(* StrTokens: the searches.                                                *)

LEMMA LeastIs ==
  ASSUME NEW S \in SUBSET Nat, NEW none
  PROVE  /\ S = {} => Least(S, none) = none
         /\ S # {} => Least(S, none) \in S /\ \A y \in S : Least(S, none) <= y
<1>1. CASE S = {}
  BY <1>1 DEF Least
<1>2. CASE S # {}
  <2>1. \E x \in S : \A y \in S : x <= y
    BY <1>2, LeastElement
  <2>2. Least(S, none) = CHOOSE x \in S : \A y \in S : x <= y
    BY <1>2 DEF Least
  <2> QED BY <1>2, <2>1, <2>2
<1> QED BY <1>1, <1>2

LEMMA FromIs ==
  ASSUME str \in Seq(ToSet(str)), NEW p \in Nat, p <= Len(str)
  PROVE  /\ From(p) \in Seq(ToSet(str)) /\ Len(From(p)) = Len(str) - p
         /\ \A i \in 1 .. Len(str) - p : From(p)[i] = str[p + i]
<1> DEFINE C == ToSet(str)
<1> HIDE DEF C
<1>1. str \in Seq(C) /\ Len(str) \in Nat
  BY DEF C
<1>2. /\ SubSeq(str, p + 1, Len(str)) \in Seq(C) /\ Len(SubSeq(str, p + 1, Len(str))) = Len(str) - p
      /\ \A i \in 1 .. Len(str) - p : SubSeq(str, p + 1, Len(str))[i] = str[p + i]
  BY <1>1
<1> QED BY <1>2 DEF From, C

(* strcspn: up to the first character of the class. *)
SpanEnds(p, D, len) ==
  /\ len \in Nat /\ p + len <= Len(str)
  /\ \A q \in p .. (p + len) - 1 : str[q + 1] \notin D
  /\ p + len < Len(str) => str[p + len + 1] \in D

LEMMA SpanIs ==
  ASSUME str \in Seq(ToSet(str)), NEW p \in Nat, p <= Len(str), NEW D
  PROVE  SpanEnds(p, D, Span(From(p), D))
<1> DEFINE s == From(p)
           S == {i \in 0 .. Len(s) - 1 : s[i + 1] \in D}
           len == Least(S, Len(s))
<1>1. Len(str) \in Nat /\ Len(s) = Len(str) - p /\ \A i \in 1 .. Len(str) - p : s[i] = str[p + i]
  BY FromIs
<1> HIDE DEF s
<1>2. S \in SUBSET Nat
  BY <1>1
<1>3. (S = {} => len = Len(s)) /\ (S # {} => len \in S /\ \A y \in S : len <= y)
  <2> HIDE DEF S
  <2> QED BY <1>2, LeastIs
<1>4. Span(s, D) = len
  BY DEF Span
<1> HIDE DEF len
<1>5. len \in Nat /\ p + len <= Len(str)
  BY <1>1, <1>3
<1>6. ASSUME NEW i \in 0 .. len - 1 PROVE s[i + 1] \notin D
  <2>1. i \in 0 .. Len(s) - 1 /\ ~(len <= i)
    BY <1>1, <1>5
  <2>2. i \notin S
    <3>1. S # {} => \A y \in S : len <= y
      BY <1>3
    <3> HIDE DEF S
    <3> QED BY <2>1, <3>1
  <2> QED BY <2>1, <2>2
<1>7. ASSUME NEW q \in p .. (p + len) - 1 PROVE str[q + 1] \notin D
  <2>1. q - p \in 0 .. len - 1 /\ (q - p) + 1 \in 1 .. Len(str) - p /\ p + ((q - p) + 1) = q + 1
    BY <1>1, <1>5
  <2> QED BY <2>1, <1>1, <1>6
<1>8. ASSUME p + len < Len(str) PROVE str[p + len + 1] \in D
  <2>1. len \in S
    BY <1>1, <1>3, <1>8
  <2>2. s[len + 1] \in D /\ len + 1 \in 1 .. Len(str) - p /\ p + (len + 1) = p + len + 1
    BY <2>1, <1>1, <1>5, <1>8
  <2> QED BY <2>2, <1>1
<1> QED BY <1>4, <1>5, <1>7, <1>8 DEF SpanEnds, s

(* strstr and pcre_exec: the first place where d is. *)
IsAt(d, p) == p + Len(d) <= Len(str) /\ SubSeq(str, p + 1, p + Len(d)) = d

LEMMA SubSeqFrom ==
  ASSUME str \in Seq(ToSet(str)), NEW p \in Nat, p <= Len(str), NEW i \in Nat, NEW l \in Nat, p + i + l <= Len(str)
  PROVE  SubSeq(From(p), i + 1, i + l) = SubSeq(str, p + i + 1, p + i + l)
<1> DEFINE C == ToSet(str)
           s == From(p)
<1> HIDE DEF C, s
<1>1. /\ str \in Seq(C) /\ s \in Seq(C) /\ Len(str) \in Nat /\ Len(s) = Len(str) - p
      /\ \A j \in 1 .. Len(str) - p : s[j] = str[p + j]
  BY FromIs DEF C, s
<1> DEFINE a == SubSeq(s, i + 1, i + l)
           b == SubSeq(str, p + i + 1, p + i + l)
<1>2. a \in Seq(C) /\ Len(a) = l /\ \A j \in 1 .. l : a[j] = s[i + j]
  BY <1>1
<1>3. b \in Seq(C) /\ Len(b) = l /\ \A j \in 1 .. l : b[j] = str[p + i + j]
  <2>1. PICK m \in Nat : m = p + i
    OBVIOUS
  <2>2. str \in Seq(C) /\ Len(str) \in Nat /\ m + l <= Len(str) /\ l \in Nat
    BY <1>1, <2>1
  <2>3. LET q == SubSeq(str, m + 1, m + l)
        IN  q \in Seq(C) /\ Len(q) = l /\ \A j \in 1 .. l : q[j] = str[m + j]
    BY ONLY <2>2, m \in Nat
  <2> QED
    BY <2>1, <2>3
<1> HIDE DEF a, b
<1>4. \A j \in 1 .. l : a[j] = b[j]
  <2> TAKE j \in 1 .. l
  <2>1. i + j \in 1 .. Len(str) - p /\ p + (i + j) = p + i + j
    BY <1>1
  <2> QED BY <2>1, <1>1, <1>2, <1>3
<1>5. a = b
  BY <1>2, <1>3, <1>4, SeqEqual
<1> QED BY <1>5 DEF a, b, s

LEMMA OffsetIs ==
  ASSUME str \in Seq(ToSet(str)), NEW p \in Nat, p <= Len(str), NEW d, d \in Seq(ToSet(d))
  PROVE  /\ Found(From(p), d) =>
               /\ Offset(From(p), d) \in Nat /\ IsAt(d, p + Offset(From(p), d))
               /\ \A q \in p .. (p + Offset(From(p), d)) - 1 : ~IsAt(d, q)
         /\ ~Found(From(p), d) => \A q \in Nat : q >= p => ~IsAt(d, q)
<1> DEFINE s == From(p)
           S == {i \in 0 .. Len(s) - Len(d) : SubSeq(s, i + 1, i + Len(d)) = d}
           off == Least(S, Len(s) + 1)
<1>1. Len(str) \in Nat /\ Len(s) = Len(str) - p /\ Len(d) \in Nat
  BY FromIs
<1>2. S \in SUBSET Nat
  BY <1>1
<1>3. ASSUME NEW i \in Nat PROVE i \in S <=> IsAt(d, p + i)
  <2>1. CASE p + i + Len(d) <= Len(str)
    <3>1. SubSeq(s, i + 1, i + Len(d)) = SubSeq(str, p + i + 1, p + i + Len(d))
      BY <1>1, <2>1, SubSeqFrom
    <3>2. i \in 0 .. Len(s) - Len(d)
      BY <1>1, <2>1
    <3> HIDE DEF s
    <3> QED BY <2>1, <3>1, <3>2 DEF IsAt
  <2>2. CASE ~(p + i + Len(d) <= Len(str))
    <3> HIDE DEF s
    <3> QED BY <1>1, <2>2 DEF IsAt
  <2> QED BY <2>1, <2>2
<1>4. Offset(s, d) = off
  BY DEF Offset
<1>5. S \subseteq 0 .. Len(s)
  BY <1>1
<1> HIDE DEF S, s
<1>6. (S = {} => off = Len(s) + 1) /\ (S # {} => off \in S /\ \A y \in S : off <= y)
  BY <1>2, LeastIs
<1> HIDE DEF off
<1>7. Found(s, d) <=> S # {}
  <2>1. Found(s, d) <=> off <= Len(s)
    BY <1>4 DEF Found
  <2>2. S = {} => ~(off <= Len(s))
    BY <1>1, <1>6
  <2>3. S # {} => off \in 0 .. Len(s)
    BY <1>5, <1>6
  <2>4. Len(s) \in Nat
    BY <1>1
  <2> QED BY <2>1, <2>2, <2>3, <2>4
<1>8. ASSUME S # {}
      PROVE  off \in Nat /\ IsAt(d, p + off) /\ \A q \in p .. (p + off) - 1 : ~IsAt(d, q)
  <2>1. off \in S /\ off \in Nat /\ \A y \in S : off <= y
    BY <1>2, <1>6, <1>8
  <2>2. ASSUME NEW q \in p .. (p + off) - 1 PROVE ~IsAt(d, q)
    <3>1. q - p \in Nat /\ q - p < off /\ p + (q - p) = q
      BY <2>1
    <3>2. q - p \notin S
      BY <2>1, <3>1
    <3> QED BY <1>3, <3>1, <3>2
  <2> QED BY <2>1, <2>2, <1>3
<1>9. ASSUME S = {}, NEW q \in Nat, q >= p PROVE ~IsAt(d, q)
  <2>1. q - p \in Nat /\ p + (q - p) = q
    BY <1>9
  <2> QED BY <1>3, <1>9, <2>1
<1> QED BY <1>4, <1>7, <1>8, <1>9 DEF s

-----------------------------------------------------------------------------
(* StrTokens: a turn of the loop.                                          *)

(* What a turn finds: len characters up to a delimiter or to the end. *)
Cut(len, step) ==
  /\ len \in Nat /\ step \in Nat /\ len <= step /\ pstr + step <= Len(str)
  /\ delim.type # "every" =>
        /\ pstr + len = Len(str) \/ IsDelimAt(pstr + len)
        /\ \A p \in pstr .. (pstr + len) - 1 : p + Width <= pstr + len => ~IsDelimAt(p)
  /\ delim.type = "class" => step = IF pstr + len < Len(str) THEN len + 1 ELSE len

LEMMA Arguments ==
  ASSUME TokTypeOK
  PROVE  /\ str \in Seq(ToSet(str)) /\ Len(str) \in Nat /\ pstr \in Nat /\ pstr <= Len(str)
         /\ slen = Len(str) - pstr /\ n \in Nat
         /\ delim.type \in {"every", "class", "regex", "array"} /\ delim.plus \in BOOLEAN
         /\ delim.chars \in Seq(ToSet(delim.chars)) /\ Len(delim.chars) \in Nat
         /\ (delim.plus => delim.type = "class")
<1>1. /\ str \in Strings /\ delim \in Delims /\ n \in Limits
      /\ pstr \in 0 .. Len(str) /\ slen = Len(str) - pstr
  BY DEF TokTypeOK
<1>2. str \in Seq(ToSet(str)) /\ delim.chars \in Seq(ToSet(delim.chars)) /\ n \in Nat
      /\ delim.type \in {"every", "class", "regex", "array"} /\ delim.plus \in BOOLEAN
      /\ (delim.plus => delim.type = "class")
  <2>1. str \in Seq(ToSet(str)) /\ n \in Nat
    BY <1>1, TokAssumption, Zenon
  <2>2. /\ delim.type \in {"every", "class", "regex", "array"} /\ delim.plus \in BOOLEAN
        /\ delim.chars \in Seq(ToSet(delim.chars))
        /\ delim.plus => delim.type = "class"
    BY <1>1, TokAssumption, Zenon
  <2> QED BY <2>1, <2>2, Zenon
<1>3. Len(str) \in Nat /\ Len(delim.chars) \in Nat
  <2> DEFINE C == ToSet(str)
             D == ToSet(delim.chars)
  <2>1. str \in Seq(C) /\ delim.chars \in Seq(D)
    BY <1>2
  <2> HIDE DEF C, D
  <2> QED BY <2>1
<1> QED BY <1>1, <1>2, <1>3

LEMMA SearchCuts ==
  ASSUME TokTypeOK, pstr < Len(str), ~(delim.type = "regex" /\ ~Found(From(pstr), delim.chars))
  PROVE  Cut(Search[1], Search[2])
<1> DEFINE d == delim.chars
           s == From(pstr)
<1>1. /\ str \in Seq(ToSet(str)) /\ Len(str) \in Nat /\ pstr \in Nat /\ pstr <= Len(str)
      /\ slen = Len(str) - pstr /\ d \in Seq(ToSet(d)) /\ Len(d) \in Nat
      /\ delim.type \in {"every", "class", "regex", "array"}
  BY Arguments
<1>2. CASE delim.type = "every"
  <2>1. Search = <<1, 1>>
    BY <1>2 DEF Search
  <2> QED BY <1>1, <1>2, <2>1 DEF Cut
<1>3. CASE delim.type = "class"
  <2> DEFINE len == Span(s, ToSet(d))
  <2>1. Search = <<len, Over(pstr, len)>>
    BY <1>3, Zenon DEF Search
  <2>2. SpanEnds(pstr, ToSet(d), len)
    BY <1>1, SpanIs
  <2>3. Search[1] = len /\ Search[2] = Over(pstr, len)
    BY <2>1
  <2> HIDE DEF len, s
  <2>4. Width = 1 /\ \A p : IsDelimAt(p) <=> str[p + 1] \in ToSet(d)
    BY <1>3 DEF Width, IsDelimAt
  <2>5. /\ len \in Nat /\ pstr + len <= Len(str)
        /\ \A q \in pstr .. (pstr + len) - 1 : ~IsDelimAt(q)
        /\ pstr + len < Len(str) => IsDelimAt(pstr + len)
    BY <2>2, <2>4 DEF SpanEnds
  <2>6. /\ Over(pstr, len) \in Nat /\ len <= Over(pstr, len) /\ pstr + Over(pstr, len) <= Len(str)
        /\ Over(pstr, len) = IF pstr + len < Len(str) THEN len + 1 ELSE len
    BY <1>1, <2>5 DEF Over
  <2>7. pstr + len = Len(str) \/ IsDelimAt(pstr + len)
    BY <1>1, <2>5
  <2>8. Cut(len, Over(pstr, len))
    BY <2>5, <2>6, <2>7 DEF Cut
  <2> QED BY <2>3, <2>8
<1>4. ASSUME delim.type \in {"regex", "array"} PROVE Width = Len(d) /\ \A p : IsDelimAt(p) <=> IsAt(d, p)
  BY <1>4 DEF Width, IsDelimAt, IsAt
<1> DEFINE off == Offset(s, d)
<1>5. ASSUME Found(s, d)
      PROVE  off \in Nat /\ IsAt(d, pstr + off) /\ \A q \in pstr .. (pstr + off) - 1 : ~IsAt(d, q)
  BY <1>1, <1>5, OffsetIs
<1>6. ASSUME ~Found(s, d), NEW q \in Nat, q >= pstr PROVE ~IsAt(d, q)
  BY <1>1, <1>6, OffsetIs
<1>7. ASSUME Found(s, d), delim.type \in {"regex", "array"}, NEW step \in Nat, off <= step, pstr + step <= Len(str)
      PROVE  Cut(off, step)
  <2> HIDE DEF off, s, d
  <2>1. delim.type \notin {"every", "class"}
    BY <1>7
  <2> QED BY <2>1, <1>1, <1>4, <1>5, <1>7 DEF Cut
<1>8. CASE delim.type = "regex"
  <2>1. Search = <<off, off + Len(d)>> /\ Found(s, d)
    BY <1>8, Zenon DEF Search
  <2>2. Search[1] = off /\ Search[2] = off + Len(d)
    BY <2>1
  <2> HIDE DEF off, s, d
  <2>3. off + Len(d) \in Nat /\ off <= off + Len(d) /\ pstr + (off + Len(d)) <= Len(str)
    BY <1>1, <1>5, <2>1 DEF IsAt
  <2> QED BY <1>7, <1>8, <2>1, <2>2, <2>3
<1>9. CASE delim.type = "array" /\ Found(s, d)
  <2>1. Search = <<off, Over(pstr, off)>>
    BY <1>9, Zenon DEF Search
  <2>2. Search[1] = off /\ Search[2] = Over(pstr, off)
    BY <2>1
  <2> HIDE DEF off, s, d
  <2>3. Over(pstr, off) \in Nat /\ off <= Over(pstr, off) /\ pstr + Over(pstr, off) <= Len(str)
    BY <1>1, <1>5, <1>9 DEF IsAt, Over
  <2> QED BY <1>7, <1>9, <2>2, <2>3
<1>10. CASE delim.type = "array" /\ ~Found(s, d)
  <2>1. Search = <<slen, slen>>
    BY <1>10, Zenon DEF Search
  <2>2. Search[1] = slen /\ Search[2] = slen
    BY <2>1
  <2>3. delim.type \notin {"every", "class"}
    BY <1>10
  <2> HIDE DEF off, s, d
  <2>4. slen \in Nat /\ pstr + slen = Len(str)
    BY <1>1
  <2>5. \A p \in pstr .. (pstr + slen) - 1 : ~IsDelimAt(p)
    BY <1>1, <1>4, <1>6, <1>10, <2>4
  <2>6. Cut(slen, slen)
    BY <1>1, <2>3, <2>4, <2>5 DEF Cut
  <2> QED BY <2>2, <2>6
<1> QED BY <1>1, <1>2, <1>3, <1>8, <1>9, <1>10

LEMMA TokInitInv == TokInit => TokInv
<1> SUFFICES ASSUME TokInit PROVE TokInv
  OBVIOUS
<1>1. str \in Strings /\ delim \in Delims /\ n \in Limits /\ pstr = 0 /\ slen = Len(str) /\ t = <<>>
      /\ ntok = (IF n = 0 THEN DefaultNum ELSE n) /\ tokPc = IF str = <<>> THEN "end" ELSE "loop"
  BY DEF TokInit
<1>2. str \in Seq(ToSet(str)) /\ n \in Nat /\ DefaultNum \in Nat
  BY <1>1, TokAssumption
<1>3. Len(str) \in Nat /\ (str # <<>> => 0 < Len(str))
  <2> DEFINE C == ToSet(str)
  <2>1. str \in Seq(C)
    BY <1>2
  <2> HIDE DEF C
  <2> QED BY <2>1
<1>4. ntok \in Nat /\ t \in Seq([ptr : Nat, len : Nat]) /\ DOMAIN t = {} /\ Len(t) = 0
  BY <1>1, <1>2
<1>5. TokTypeOK
  BY <1>1, <1>3, <1>4 DEF TokTypeOK
<1>6. Stored /\ Apart /\ UpToDelim
  BY <1>1, <1>2, <1>4 DEF Stored, Apart, UpToDelim
<1>7. CutAtClass
  BY <1>1, <1>4 DEF CutAtClass
<1> QED BY <1>1, <1>2, <1>3, <1>4, <1>5, <1>6, <1>7 DEF TokInv

(* Delimiters stay where they are. *)
LEMMA SameDelims ==
  ASSUME UNCHANGED <<str, delim>>
  PROVE  Width' = Width /\ \A p : IsDelimAt(p)' <=> IsDelimAt(p)
BY Zenon DEF Width, IsDelimAt

(* A step that finds no more tokens keeps what has been found. *)
LEMMA TokensKept ==
  ASSUME TokInv, UNCHANGED <<str, delim, n, pstr, slen, t>>, ntok' \in Nat, ntok <= ntok',
         tokPc' = tokPc \/ tokPc' \in {"end", "failed"}
  PROVE  TokInv'
<1>1. /\ TokTypeOK /\ Stored /\ Apart /\ UpToDelim /\ CutAtClass
      /\ \A i \in DOMAIN t : Stop(i) <= pstr
      /\ tokPc = "loop" => pstr < Len(str) /\ (n > 0 => Len(t) < n)
      /\ tokPc = "loop" /\ delim.type = "class" /\ ~delim.plus => pstr = IF t = <<>> THEN 0 ELSE Stop(Len(t)) + 1
  BY DEF TokInv
<1>2. TokTypeOK'
  BY <1>1 DEF TokTypeOK
<1>3. Len(t) \in Nat /\ ntok \in Nat /\ Stored'
  <2>1. t \in Seq([ptr : Nat, len : Nat]) /\ ntok \in Nat
    BY <1>1 DEF TokTypeOK
  <2> QED BY <2>1, <1>1 DEF Stored
<1>4. \A i : Stop(i)' = Stop(i)
  BY DEF Stop
<1>5. Apart'
  BY <1>1, <1>4 DEF Apart
<1>6. UpToDelim'
  BY <1>1, <1>4, SameDelims DEF UpToDelim
<1>7. CutAtClass'
  BY <1>1, <1>4 DEF CutAtClass
<1>8. tokPc' = "loop" => tokPc = "loop"
  OBVIOUS
<1> QED BY <1>1, <1>2, <1>3, <1>4, <1>5, <1>6, <1>7, <1>8 DEF TokInv

LEMMA GrownFits ==
  ASSUME TokInv
  PROVE  Grown \in Nat /\ ntok \in Nat /\ ntok <= Grown /\ Len(t) \in Nat /\ Len(t) + 1 <= Grown
<1>1. t \in Seq([ptr : Nat, len : Nat]) /\ ntok \in Nat /\ Len(t) <= ntok /\ Step \in Nat \ {0}
  BY TokAssumption DEF TokInv, TokTypeOK, Stored
<1> QED BY <1>1 DEF Grown

(* What t becomes: the old tokens, and the new one if it is taken. *)
LEMMA Appended ==
  ASSUME NEW len \in Nat, TokTypeOK, pstr \in Nat,
         t' = IF Take(len) THEN Append(t, [ptr |-> pstr, len |-> len]) ELSE t
  PROVE  /\ t' \in Seq([ptr : Nat, len : Nat])
         /\ Len(t) \in Nat /\ DOMAIN t = 1 .. Len(t)
         /\ Len(t') = IF Take(len) THEN Len(t) + 1 ELSE Len(t)
         /\ DOMAIN t' = 1 .. Len(t')
         /\ \A i \in DOMAIN t : t'[i] = t[i] /\ t[i].ptr \in Nat /\ t[i].len \in Nat
         /\ Take(len) => t'[Len(t) + 1] = [ptr |-> pstr, len |-> len]
<1> DEFINE T == [ptr : Nat, len : Nat]
           new == [ptr |-> pstr, len |-> len]
<1>1. t \in Seq(T)
  BY DEF TokTypeOK
<1>2. new \in T
  OBVIOUS
<1>3. \A x \in T : x.ptr \in Nat /\ x.len \in Nat
  OBVIOUS
<1> HIDE DEF T, new
<1>4. Len(t) \in Nat /\ DOMAIN t = 1 .. Len(t) /\ \A i \in DOMAIN t : t[i] \in T
  BY <1>1
<1>5. CASE Take(len)
  <2>1. t' = Append(t, new)
    BY <1>5 DEF new
  <2>2. t' \in Seq(T) /\ Len(t') = Len(t) + 1 /\ DOMAIN t' = 1 .. Len(t') /\ t'[Len(t) + 1] = new
        /\ \A i \in 1 .. Len(t) : t'[i] = t[i]
    BY <1>1, <1>2, <2>1, <1>4
  <2> QED BY <1>3, <1>4, <1>5, <2>2 DEF T, new
<1>6. CASE ~Take(len)
  <2>1. t' = t
    BY <1>6
  <2> QED BY <1>1, <1>3, <1>4, <1>6, <2>1 DEF T
<1> QED BY <1>5, <1>6

LEMMA TurnKeeps ==
  ASSUME TokInv, Turn
  PROVE  TokInv'
<1> DEFINE len == Search[1]
           step == Search[2]
<1>1. /\ tokPc = "loop" /\ ntok' = Grown /\ UNCHANGED <<str, delim, n>>
      /\ ~(delim.type = "regex" /\ ~Found(From(pstr), delim.chars))
      /\ t' = IF Take(len) THEN Append(t, [ptr |-> pstr, len |-> len]) ELSE t
      /\ pstr' = pstr + step /\ slen' = slen - step
      /\ tokPc' = IF (n > 0 /\ Len(t') >= n) \/ pstr + step >= Len(str) THEN "end" ELSE "loop"
  BY DEF Turn, input
<1>2. /\ TokTypeOK /\ Stored /\ Apart /\ UpToDelim /\ CutAtClass
      /\ \A i \in DOMAIN t : Stop(i) <= pstr
      /\ pstr < Len(str) /\ (n > 0 => Len(t) < n)
      /\ delim.type = "class" /\ ~delim.plus => pstr = IF t = <<>> THEN 0 ELSE Stop(Len(t)) + 1
  BY <1>1 DEF TokInv
<1>3. Cut(len, step)
  BY <1>1, <1>2, SearchCuts
<1> HIDE DEF len, step
<1>4. /\ Len(str) \in Nat /\ pstr \in Nat /\ slen = Len(str) - pstr /\ n \in Nat /\ delim.plus \in BOOLEAN
      /\ (delim.plus => delim.type = "class")
  BY <1>2, Arguments
<1>5. len \in Nat /\ step \in Nat /\ len <= step /\ pstr + step <= Len(str)
  BY <1>3 DEF Cut
<1> PICK new : new = Len(t) + 1
  OBVIOUS
<1>6. /\ t' \in Seq([ptr : Nat, len : Nat])
      /\ Len(t) \in Nat /\ DOMAIN t = 1 .. Len(t)
      /\ Len(t') = (IF Take(len) THEN new ELSE Len(t)) /\ new = Len(t) + 1
      /\ DOMAIN t' = 1 .. Len(t')
      /\ \A i \in DOMAIN t : t'[i] = t[i] /\ t[i].ptr \in Nat /\ t[i].len \in Nat
      /\ Take(len) => t'[new] = [ptr |-> pstr, len |-> len]
  BY <1>1, <1>2, <1>4, <1>5, Appended
<1>7. /\ Len(t) \in Nat /\ new = Len(t) + 1 /\ new \in Nat /\ Len(t') \in Nat /\ Len(t') <= new /\ Len(t) <= Len(t')
       /\ DOMAIN t = 1 .. Len(t) /\ DOMAIN t' = 1 .. Len(t')
  BY <1>6
<1>8. ASSUME NEW i \in DOMAIN t
      PROVE  /\ i \in DOMAIN t' /\ i # new /\ i < new /\ t'[i] = t[i] /\ Stop(i)' = Stop(i)
             /\ t[i].ptr \in Nat /\ Stop(i) \in Nat /\ t[i].ptr <= Stop(i) /\ Stop(i) <= pstr
  <2>1. t'[i] = t[i] /\ t[i].ptr \in Nat /\ t[i].len \in Nat
    BY <1>6
  <2>2. Stop(i)' = t'[i].ptr + t'[i].len /\ Stop(i) = t[i].ptr + t[i].len
    BY DEF Stop
  <2>3. i \in DOMAIN t' /\ i # new /\ i < new
    <3>1. i \in 1 .. Len(t) /\ i \in 1 .. Len(t') /\ i < new
      BY <1>7
    <3> QED BY <1>7, <3>1
  <2> QED BY <1>2, <2>1, <2>2, <2>3
<1>9. ASSUME Take(len)
      PROVE  new \in DOMAIN t' /\ t'[new].ptr = pstr /\ Stop(new)' = pstr + len
  <2>1. t'[new] = [ptr |-> pstr, len |-> len] /\ Len(t') = new /\ new \in 1 .. new
    BY <1>6, <1>9
  <2>2. new \in DOMAIN t'
    BY <1>6, <2>1
  <2>3. t'[new].ptr = pstr /\ t'[new].len = len
    BY <2>1
  <2> QED BY <2>2, <2>3 DEF Stop
<1>10. ASSUME NEW i \in DOMAIN t', i \notin DOMAIN t
      PROVE  Take(len) /\ i = new
  BY <1>6, <1>10
<1>11. ~Take(len) => len = 0 /\ delim.plus
  BY <1>5 DEF Take
<1>12. TokTypeOK'
  <2>1. pstr' \in 0 .. Len(str)' /\ slen' = Len(str)' - pstr'
    BY <1>1, <1>4, <1>5
  <2>2. ntok' \in Nat
    BY <1>1, GrownFits
  <2>3. tokPc' \in {"loop", "end", "failed"}
    BY <1>1
  <2> QED BY <1>1, <1>2, <1>6, <2>1, <2>2, <2>3 DEF TokTypeOK
<1>13. Stored'
  <2>1. Len(t') <= ntok'
    BY <1>1, <1>7, GrownFits
  <2>2. n > 0 => Len(t') <= n
    BY <1>2, <1>4, <1>7
  <2> QED BY <1>1, <2>1, <2>2 DEF Stored
<1>14. Apart'
  <2> SUFFICES ASSUME NEW i \in DOMAIN t', NEW j \in DOMAIN t', i < j
               PROVE  Stop(i)' <= t'[j].ptr
    BY DEF Apart
  <2>1. i \in DOMAIN t
    <3> SUFFICES ASSUME i \notin DOMAIN t PROVE FALSE
      OBVIOUS
    <3>1. i = new
      BY <1>10
    <3>2. j \in DOMAIN t => j < new
      BY <1>8
    <3>3. i \in Nat /\ j \in Nat
      BY <1>6
    <3>4. j = new \/ j < new
      BY <1>10, <3>2
    <3> QED BY <3>1, <3>3, <3>4
  <2>2. Stop(i)' = Stop(i) /\ Stop(i) <= pstr
    BY <1>8, <2>1
  <2>3. CASE j \in DOMAIN t
    <3>1. t'[j] = t[j] /\ Stop(i) <= t[j].ptr
      BY <1>2, <1>8, <2>1, <2>3 DEF Apart
    <3> QED BY <2>2, <3>1
  <2>4. CASE j \notin DOMAIN t
    <3>1. t'[j].ptr = pstr
      BY <1>9, <1>10, <2>4
    <3> QED BY <2>2, <3>1
  <2> QED BY <2>3, <2>4
<1>15. \A i \in DOMAIN t' : Stop(i)' <= pstr'
  <2> TAKE i \in DOMAIN t'
  <2>1. CASE i \in DOMAIN t
    BY <1>1, <1>4, <1>5, <1>8, <2>1
  <2>2. CASE i \notin DOMAIN t
    <3>1. Stop(i)' = pstr + len
      BY <1>9, <1>10, <2>2
    <3> QED BY <3>1, <1>1, <1>4, <1>5
  <2> QED BY <2>1, <2>2
<1>16. UpToDelim'
  <2> DEFINE Ends(begin, end) ==
        /\ end = Len(str) \/ IsDelimAt(end)
        /\ \A p \in begin .. end - 1 : p + Width <= end => ~IsDelimAt(p)
  <2> SUFFICES ASSUME delim.type # "every", NEW i \in DOMAIN t'
               PROVE  Ends(t'[i].ptr, Stop(i)')
    BY <1>1, SameDelims DEF UpToDelim
  <2>1. i \in DOMAIN t => Ends(t[i].ptr, Stop(i))
    BY <1>2 DEF UpToDelim
  <2>2. Ends(pstr, pstr + len)
    BY <1>3, Zenon DEF Cut
  <2> HIDE DEF Ends
  <2>3. CASE i \in DOMAIN t
    <3>1. t'[i] = t[i] /\ Stop(i)' = Stop(i)
      BY <1>8, <2>3
    <3> QED BY <2>1, <2>3, <3>1
  <2>4. CASE i \notin DOMAIN t
    <3>1. t'[i].ptr = pstr /\ Stop(i)' = pstr + len
      BY <1>9, <1>10, <2>4
    <3> QED BY <2>2, <3>1
  <2> QED BY <2>3, <2>4
<1>17. ASSUME delim.type = "class"
       PROVE  /\ step = IF pstr + len < Len(str) THEN len + 1 ELSE len
              /\ pstr + len = Len(str) \/ str[(pstr + len) + 1] \in ToSet(delim.chars)
              /\ \A p \in pstr .. (pstr + len) - 1 : str[p + 1] \notin ToSet(delim.chars)
  <2>1. Width = 1 /\ \A p : IsDelimAt(p) <=> str[p + 1] \in ToSet(delim.chars)
    BY <1>17 DEF Width, IsDelimAt
  <2>2. delim.type # "every"
    BY <1>17
  <2>3. \A p \in pstr .. (pstr + len) - 1 : p + 1 <= pstr + len
    BY <1>4, <1>5
  <2> QED BY <1>3, <1>17, <2>1, <2>2, <2>3 DEF Cut
<1>18. ASSUME delim.type = "class", NEW p \in 0 .. pstr' - 1
       PROVE  (\E i \in DOMAIN t' : t'[i].ptr <= p /\ p < Stop(i)') <=> str[p + 1] \notin ToSet(delim.chars)
  <2>1. p \in Nat /\ p < pstr + step
    BY <1>1, <1>4, <1>5
  <2>2. CASE p < pstr
    <3>1. (\E i \in DOMAIN t : t[i].ptr <= p /\ p < Stop(i)) <=> str[p + 1] \notin ToSet(delim.chars)
      <4>1. p \in 0 .. pstr - 1
        BY <1>4, <2>1, <2>2
      <4> QED BY <1>2, <1>18, <4>1 DEF CutAtClass
    <3>2. ASSUME NEW i \in DOMAIN t', t'[i].ptr <= p PROVE i \in DOMAIN t
      <4> SUFFICES ASSUME i \notin DOMAIN t PROVE FALSE
        OBVIOUS
      <4>1. t'[i].ptr = pstr
        BY <1>9, <1>10
      <4> QED BY <1>4, <2>1, <2>2, <3>2, <4>1
    <3>3. (\E i \in DOMAIN t' : t'[i].ptr <= p /\ p < Stop(i)') <=> (\E i \in DOMAIN t : t[i].ptr <= p /\ p < Stop(i))
      BY <1>8, <3>2
    <3> QED BY <3>1, <3>3
  <2>3. CASE pstr <= p /\ p < pstr + len
    <3>1. str[p + 1] \notin ToSet(delim.chars)
      <4>1. p \in pstr .. (pstr + len) - 1
        BY <1>4, <1>5, <2>1, <2>3
      <4> QED BY <4>1, <1>17, <1>18
    <3>2. Take(len)
      BY <1>4, <1>5, <1>11, <2>1, <2>3
    <3>3. new \in DOMAIN t' /\ t'[new].ptr = pstr /\ Stop(new)' = pstr + len
      BY <1>9, <3>2
    <3>4. t'[new].ptr <= p /\ p < Stop(new)'
      BY <2>3, <3>3
    <3> QED BY <3>1, <3>3, <3>4
  <2>4. CASE p = pstr + len
    <3>1. str[p + 1] \in ToSet(delim.chars)
      <4>1. pstr + len # Len(str)
        BY <1>4, <1>5, <2>1, <2>4
      <4> QED BY <4>1, <1>17, <1>18, <2>4
    <3>2. ASSUME NEW i \in DOMAIN t' PROVE ~(p < Stop(i)')
      <4>1. CASE i \in DOMAIN t
        <5>1. Stop(i)' \in Nat /\ Stop(i)' <= pstr
          BY <1>8, <4>1
        <5> QED BY <5>1, <1>4, <1>5, <2>4
      <4>2. CASE i \notin DOMAIN t
        <5>1. Stop(i)' = pstr + len
          BY <1>9, <1>10, <4>2
        <5> QED BY <5>1, <1>4, <1>5, <2>4
      <4> QED BY <4>1, <4>2
    <3> QED BY <3>1, <3>2
  <2>5. step <= len + 1
    BY <1>5, <1>17, <1>18
  <2> QED BY <1>4, <1>5, <2>1, <2>2, <2>3, <2>4, <2>5
<1>19. ASSUME delim.type = "class", ~delim.plus
       PROVE  /\ Take(len) /\ DOMAIN t' = 1 .. new
              /\ \A i \in DOMAIN t' : t'[i].ptr = IF i = 1 THEN 0 ELSE Stop(i - 1)' + 1
  <2>1. Take(len) /\ DOMAIN t' = 1 .. new
    BY <1>6, <1>11, <1>19
  <2>2. ASSUME NEW i \in DOMAIN t' PROVE t'[i].ptr = IF i = 1 THEN 0 ELSE Stop(i - 1)' + 1
    <3>1. i \in 1 .. new /\ new = Len(t) + 1
      BY <1>6, <2>1
    <3>2. i # 1 => i - 1 \in DOMAIN t
      <4>1. i # 1 => i - 1 \in 1 .. Len(t)
        BY <1>7, <3>1
      <4> QED BY <1>7, <4>1
    <3>3. i # 1 => Stop(i - 1)' = Stop(i - 1)
      BY <1>8, <3>2
    <3>4. CASE i \in DOMAIN t
      <4>1. t'[i] = t[i] /\ t[i].ptr = IF i = 1 THEN 0 ELSE Stop(i - 1) + 1
        BY <1>2, <1>8, <1>19, <3>4 DEF CutAtClass
      <4> QED BY <3>3, <4>1
    <3>5. CASE i \notin DOMAIN t
      <4>1. i = new /\ t'[i].ptr = pstr
        BY <1>9, <1>10, <3>5
      <4>2. t = <<>> <=> i = 1
        <5>1. t \in Seq([ptr : Nat, len : Nat])
          BY <1>2 DEF TokTypeOK
        <5> QED BY <5>1, <4>1, <3>1
      <4>3. i - 1 = Len(t)
        BY <1>6, <3>1, <4>1
      <4> QED BY <1>2, <1>19, <3>3, <4>1, <4>2, <4>3
    <3> QED BY <3>4, <3>5
  <2> QED BY <2>1, <2>2
<1>20. CutAtClass'
  BY <1>1, <1>18, <1>19 DEF CutAtClass
<1>21. ASSUME tokPc' = "loop"
       PROVE  /\ pstr' < Len(str)' /\ (n > 0 => Len(t') < n)
              /\ delim.type = "class" /\ ~delim.plus => pstr' = IF t' = <<>> THEN 0 ELSE Stop(Len(t))' + 1
  <2>1. ~(n > 0 /\ Len(t') >= n) /\ ~(pstr + step >= Len(str))
    BY <1>1, <1>21
  <2>2. pstr' = pstr + step /\ str' = str
    BY <1>1
  <2>3. pstr' < Len(str)' /\ (n > 0 => Len(t') < n)
    BY <1>4, <1>5, <1>7, <2>1, <2>2
  <2>4. ASSUME delim.type = "class", ~delim.plus
        PROVE  pstr' = IF t' = <<>> THEN 0 ELSE Stop(Len(t))' + 1
    <3>1. Take(len) /\ Len(t') = new /\ new # 0
      BY <1>6, <1>19, <2>4
    <3>2. t' # <<>>
      BY <3>1
    <3>3. Stop(Len(t))' = pstr + len
      <4>1. Stop(new)' = pstr + len
        BY <1>9, <3>1
      <4> QED BY <3>1, <4>1 DEF Stop
    <3>4. step = len + 1
      BY <1>4, <1>5, <1>17, <2>1, <2>4
    <3> QED BY <1>1, <1>4, <1>5, <3>2, <3>3, <3>4
  <2> QED BY <2>3, <2>4
<1> QED BY <1>1, <1>12, <1>13, <1>14, <1>15, <1>16, <1>20, <1>21 DEF TokInv

(* The tokens of str_tokens are right for every string, delimiter and      *)
(* limit, wherever realloc fails (str_tokens.c:214-283): they are stored   *)
(* in what is allocated, they are apart and end at a delimiter or with the *)
(* string, and a class of characters splits the string without a rest.     *)
THEOREM TokensOfString == TokSpec => []TokensSplit
<1>1. TokInv /\ [TokNext]_tokVars => TokInv'
  <2> SUFFICES ASSUME TokInv, [TokNext]_tokVars PROVE TokInv'
    OBVIOUS
  <2>1. Grown \in Nat /\ ntok \in Nat /\ ntok <= Grown /\ ntok <= ntok
    BY GrownFits
  <2>2. CASE Turn
    BY <2>2, TurnKeeps
  <2>3. CASE NoMatch
    BY <2>1, <2>3, TokensKept DEF NoMatch, input
  <2>4. CASE ReallocFails
    BY <2>1, <2>4, TokensKept DEF ReallocFails, input
  <2>5. CASE UNCHANGED tokVars
    BY <2>1, <2>5, TokensKept DEF tokVars
  <2> QED BY <2>2, <2>3, <2>4, <2>5 DEF TokNext, Done
<1>2. TokInv => TokensSplit
  <2> SUFFICES ASSUME TokInv PROVE TokensSplit
    OBVIOUS
  <2>1. ASSUME NEW i \in DOMAIN t PROVE Stop(i) <= Len(str)
    <3>1. TokTypeOK /\ Stop(i) <= pstr
      BY DEF TokInv
    <3> DEFINE T == [ptr : Nat, len : Nat]
    <3>2. t \in Seq(T)
      BY <3>1 DEF TokTypeOK
    <3>3. \A x \in T : x.ptr + x.len \in Nat
      OBVIOUS
    <3> HIDE DEF T
    <3>4. Stop(i) \in Nat
      BY <3>2, <3>3 DEF Stop
    <3> QED BY <3>1, <3>4, Arguments
  <2> QED BY <2>1 DEF TokInv, TokensSplit
<1> QED BY <1>1, <1>2, TokInitInv, PTL DEF TokSpec

-----------------------------------------------------------------------------
(* Arithmetic.                                                             *)

LEMMA DivMod ==
  ASSUME NEW a \in Nat, NEW b \in Nat, b > 0
  PROVE  a = b * (a \div b) + (a % b) /\ a % b \in 0..(b - 1) /\ a \div b \in Nat
OBVIOUS

LEMMA MultMod ==
  ASSUME NEW a \in Nat, NEW b \in Nat, b > 0
  PROVE  (a * b) % b = 0
OBVIOUS

(* Twice a power of two is one: an odd divisor of 2 * p divides p. *)
LEMMA PowerDoubles ==
  ASSUME NEW q \in Nat, NEW p \in PowersOf2(q), NEW m \in Nat, 2 * p <= m
  PROVE  2 * p \in PowersOf2(m)
<1>1. p \in Nat /\ p > 0 /\ \A d \in 2..p : p % d = 0 => d % 2 = 0
  BY DEF PowersOf2
<1>2. ASSUME NEW d \in 2..(2 * p), (2 * p) % d = 0, d % 2 # 0 PROVE FALSE
  <2> DEFINE k == (2 * p) \div d
             e == d \div 2
             h == p - e * k
  <2>1. d \in Nat /\ d > 0 /\ 2 * p \in Nat
    BY <1>1, <1>2
  <2>2. 2 * p = d * k /\ k \in Nat
    <3>1. 2 * p = d * k + ((2 * p) % d) /\ k \in Nat
      BY <2>1, DivMod
    <3> HIDE DEF k
    <3> QED
      BY <1>2, <2>1, <3>1
  <2>3. d = 2 * e + 1 /\ e \in Nat
    BY <1>2, <2>1
  <2> HIDE DEF k, e
  <2>4. k = 2 * h /\ h \in Int
    <3>1. d * k = 2 * (e * k) + k
      BY <2>2, <2>3
    <3>2. e * k \in Nat
      BY <2>2, <2>3
    <3> HIDE DEF h
    <3>3. h = p - e * k
      BY DEF h
    <3> QED
      BY <1>1, <2>2, <3>1, <3>2, <3>3
  <2> HIDE DEF h
  <2>5. p = h * d /\ h \in Nat
    <3>1. h \in Nat
      BY <2>2, <2>4
    <3>2. 2 * p = 2 * (h * d)
      BY <2>1, <2>2, <2>4
    <3>3. h * d \in Nat
      BY <2>1, <3>1
    <3> QED
      BY <1>1, <3>1, <3>2, <3>3
  <2>6. p % d = 0
    BY <2>1, <2>5, MultMod
  <2>7. d <= p
    <3>1. h # 0
      BY <1>1, <2>1, <2>5
    <3> QED
      BY <1>1, <2>1, <2>5, <3>1
  <2>8. d \in 2..p
    BY <1>1, <1>2, <2>7
  <2> QED
    BY <1>1, <1>2, <2>6, <2>8, Zenon
<1> QED
  BY <1>1, <1>2 DEF PowersOf2

(* There is a power of two from v to 2 * v. *)
LEMMA PowerBetween ==
  ASSUME NEW v \in Nat, v > 0
  PROVE  \E p \in PowersOf2(2 * v) : p >= v
<1> DEFINE Bad == {q \in Nat : q > 0 /\ ~\E p \in PowersOf2(2 * q) : p >= q}
<1> SUFFICES ASSUME Bad # {} PROVE FALSE
  OBVIOUS
<1>1. PICK b \in Bad : \A q \in Bad : b <= q
  BY LeastElement
<1>2. CASE b = 1
  <2>1. 1 \in PowersOf2(2)
    BY DEF PowersOf2
  <2> QED
    BY <1>1, <1>2, <2>1
<1>3. CASE b # 1
  <2>1. b \in Nat /\ b - 1 \in Nat /\ b > 1 /\ b - 1 \notin Bad
    BY <1>1, <1>3
  <2>2. PICK p \in PowersOf2(2 * (b - 1)) : p >= b - 1
    BY <2>1
  <2>3. p \in 1..(2 * (b - 1))
    BY DEF PowersOf2
  <2>4. CASE p >= b
    <3>1. p \in PowersOf2(2 * b)
      BY <2>1, <2>3 DEF PowersOf2
    <3> QED
      BY <1>1, <2>4, <3>1
  <2>5. CASE p = b - 1
    <3>1. 2 * p <= 2 * b /\ 2 * p >= b /\ 2 * (b - 1) \in Nat /\ 2 * b \in Nat
      BY <2>1, <2>5
    <3>2. 2 * p \in PowersOf2(2 * b)
      BY <3>1, PowerDoubles
    <3> QED
      BY <1>1, <3>1, <3>2
  <2> QED
    BY <2>1, <2>2, <2>3, <2>4, <2>5
<1> QED
  BY <1>2, <1>3

(* The loop that doubles the save stack ends, and then the frames fit. *)
LEMMA SaveSizeFits ==
  ASSUME NEW sz \in Nat, sz > 0, NEW valid \in Nat
  PROVE  GrownSize(sz, valid) \in Nat /\ GrownSize(sz, valid) >= valid /\ GrownSize(sz, valid) > 0
<1>1. CASE sz >= valid
  BY <1>1 DEF GrownSize
<1>2. CASE ~(sz >= valid)
  <2> DEFINE D == Doublings(sz, valid)
             m == CHOOSE p \in D : \A r \in D : p <= r
  <2>1. D \in SUBSET Nat
    BY DEF Doublings, PowersOf2
  <2>2. D # {}
    <3>1. PICK p \in PowersOf2(2 * valid) : p >= valid
      BY <1>2, PowerBetween
    <3>2. p \in Nat /\ sz * p >= p
      BY DEF PowersOf2
    <3>3. sz * p \in Nat
      BY <3>2
    <3> QED
      BY <3>1, <3>2, <3>3 DEF Doublings
  <2>3. \E p \in D : \A r \in D : p <= r
    <3> HIDE DEF D
    <3> QED
      BY <2>1, <2>2, LeastElement
  <2>4. m \in D
    <3> HIDE DEF D
    <3> QED
      BY <2>3
  <2>5. GrownSize(sz, valid) = sz * m
    BY <1>2 DEF GrownSize
  <2> HIDE DEF m
  <2>6. m \in Nat /\ m > 0 /\ sz * m >= valid
    BY <2>4 DEF Doublings, PowersOf2
  <2>7. sz * m \in Nat /\ sz * m > 0
    BY <2>6
  <2> QED
    BY <2>5, <2>6, <2>7
<1> QED
  BY <1>1, <1>2

(* The copy in pairs leaves no word out. *)
LEMMA CopiedAll ==
  ASSUME NEW q \in Nat PROVE Copied(q) = 1..q
<1>1. CASE q % 2 = 1
  <2>1. 2 * (q \div 2) = q - 1
    BY <1>1
  <2>2. (1..(q - 1)) \cup {q} = 1..q
    BY <1>1
  <2> QED
    BY <2>1, <2>2 DEF Copied
<1>2. CASE q % 2 # 1
  BY <1>2 DEF Copied
<1> QED
  BY <1>1, <1>2

(* mmap's length with a guard page, less that page. *)
LEMMA SizeRight ==
  ASSUME ConstOK, NEW sz \in Nat, NEW guard \in BOOLEAN
  PROVE  LET q == Requested(sz)
             v == ValidSize(sz, guard)
             unit == IF guard THEN PageSize ELSE 1
         IN v \in Nat /\ v >= q /\ v % unit = 0 /\ v - unit < q /\ q > 0
<1> DEFINE q == Requested(sz)
           v == ValidSize(sz, guard)
<1>1. q \in Nat /\ q > 0 /\ PageSize \in Nat /\ PageSize > 0
  BY DEF ConstOK, Requested
<1> HIDE DEF q
<1>2. CASE ~guard
  <2>1. v = q
    BY <1>2 DEF ValidSize, q
  <2> QED
    BY <1>1, <1>2, <2>1 DEF q
<1>3. CASE guard
  <2>1. v = WithGuard(q) - PageSize
    BY <1>3 DEF ValidSize, q
  <2> HIDE DEF v
  <2>2. v \in Nat /\ v >= q /\ v % PageSize = 0 /\ v - PageSize < q
    <3>1. CASE q <= PageSize
      <4>1. v = PageSize
        BY <1>1, <2>1, <3>1 DEF WithGuard
      <4> QED
        BY <1>1, <3>1, <4>1
    <3>2. CASE q > PageSize /\ q % PageSize # 0
      <4> DEFINE k == q \div PageSize
      <4>1. q = PageSize * k + (q % PageSize) /\ q % PageSize \in 0..(PageSize - 1) /\ k \in Nat
        BY <1>1, DivMod
      <4>2. v = k * PageSize + 2 * PageSize - PageSize
        BY <1>1, <2>1, <3>2 DEF WithGuard
      <4> HIDE DEF k
      <4>3. PageSize * k = k * PageSize /\ k * PageSize \in Nat
        BY <1>1, <4>1
      <4>4. v = (k + 1) * PageSize
        BY <1>1, <4>1, <4>2, <4>3
      <4>5. v % PageSize = 0
        BY <1>1, <4>1, <4>4, MultMod
      <4>6. v = k * PageSize + PageSize
        BY <1>1, <4>2, <4>3
      <4> QED
        BY <1>1, <3>2, <4>1, <4>3, <4>5, <4>6
    <3>3. CASE q > PageSize /\ q % PageSize = 0
      <4>1. v = q
        BY <1>1, <2>1, <3>3 DEF WithGuard
      <4> QED
        BY <1>1, <3>3, <4>1
    <3> QED
      BY <1>1, <3>1, <3>2, <3>3
  <2> QED
    BY <1>1, <1>3, <2>2 DEF q, v
<1> QED
  BY <1>2, <1>3

-----------------------------------------------------------------------------
(* The inductive invariant.                                                *)

Block == [state : States, share : Stack \cup {Nil}, sp : 0..MaxDepth,
          sz : Nat, valid_sz : 0..MaxDepth, buf : Seq(Word)]

LEMMA NoneType == ASSUME ConstOK PROVE None \in Block /\ NoStack \in [req : Nat, guard : BOOLEAN, sz : Nat]
BY DEF ConstOK, None, NoStack, Block, States

LEMMA BlankType == Blank \in [1..MaxDepth -> Word]
BY DEF Blank, Word

LEMMA InitInd == ASSUME ConstOK PROVE Init => IndInv
<1> SUFFICES ASSUME Init PROVE IndInv
  OBVIOUS
<1>1. TypeOK
  <2>1. co \in [Co -> Block] /\ stack \in [Stack -> [req : Nat, guard : BOOLEAN, sz : Nat]]
    BY NoneType DEF Init
  <2>2. mem \in [Stack -> [1..MaxDepth -> Word]]
    BY BlankType DEF Init
  <2>3. frames \in [Co -> Seq(Word)]
    BY DEF Init
  <2> QED
    BY <2>1, <2>2, <2>3 DEF Init, TypeOK, Block
<1>2. \A c \in Co : co[c].state = "none" /\ co[c].buf = <<>> /\ co[c].valid_sz = 0
  BY DEF Init, None
<1>3. Placed /\ NeverRan /\ SavedWords
  BY <1>2 DEF Placed, NeverRan, SavedWords, Exists
<1>4. OneRuns
  BY <1>2 DEF Init, OneRuns, ConstOK
<1>5. StackIntact /\ SaveFits
  BY <1>2 DEF StackIntact, SaveFits, Exists
<1>6. OwnerSound /\ FinalValidSize
  BY DEF Init, OwnerSound, FinalValidSize
<1> QED
  BY <1>1, <1>3, <1>4, <1>5, <1>6 DEF IndInv, StacksIntact

(* What a coroutine is left with by a step that touches neither it nor,    *)
(* if it is the owner, its share stack.                                    *)
LEMMA IntactKept ==
  ASSUME NEW c \in Co, Intact(c), co'[c] = co[c], frames'[c] = frames[c],
         owner'[co[c].share] = c <=> owner[co[c].share] = c,
         owner[co[c].share] = c => mem'[co[c].share] = mem[co[c].share]
  PROVE  Intact(c)'
BY DEF Intact

(* aco_share_stack_new2 and aco_share_stack_destroy: a share stack nobody  *)
(* uses.                                                                   *)
LEMMA StackInd ==
  ASSUME ConstOK, IndInv, NEW s \in Stack, Users(s) = {},
         NEW v \in [req : Nat, guard : BOOLEAN, sz : Nat],
         stack' = [stack EXCEPT ![s] = v], mem' = [mem EXCEPT ![s] = Blank],
         owner' = [owner EXCEPT ![s] = Nil], UNCHANGED <<co, cur, frames>>,
         v # NoStack => /\ v.sz >= Requested(v.req)
                        /\ v.sz % (IF v.guard THEN PageSize ELSE 1) = 0
                        /\ v.sz - (IF v.guard THEN PageSize ELSE 1) < Requested(v.req)
  PROVE  IndInv'
<1> USE DEF IndInv, StacksIntact
<1>1. TypeOK'
  <2>1. stack' \in [Stack -> [req : Nat, guard : BOOLEAN, sz : Nat]]
    BY DEF TypeOK
  <2>2. mem' \in [Stack -> [1..MaxDepth -> Word]]
    BY BlankType DEF TypeOK
  <2>3. owner' \in [Stack -> Co \cup {Nil}]
    BY DEF TypeOK
  <2> QED
    BY <2>1, <2>2, <2>3 DEF TypeOK
<1>2. \A c \in Co : Exists(c) => co[c].share # s /\ co[c].share \in Stack
  BY DEF Users, Placed
<1>3. /\ \A z \in Stack : z # s => stack'[z] = stack[z] /\ mem'[z] = mem[z] /\ owner'[z] = owner[z]
      /\ stack'[s] = v /\ owner'[s] = Nil
  BY DEF TypeOK
<1>4. Placed'
  BY <1>2, <1>3 DEF Placed, Exists
<1>5. OneRuns' /\ NeverRan' /\ SavedWords' /\ SaveFits'
  BY DEF OneRuns, NeverRan, SavedWords, SaveFits, Exists
<1>6. StackIntact'
  <2> SUFFICES ASSUME NEW c \in Co, co[c].state \in {"running", "yielded"} PROVE Intact(c)'
    BY DEF StackIntact
  <2>1. co[c].share # s /\ co[c].share \in Stack
    BY <1>2 DEF Exists
  <2>2. Intact(c)
    BY DEF StackIntact
  <2> QED
    BY <1>3, <2>1, <2>2, IntactKept
<1>7. OwnerSound'
  <2>1. cur # Main => owner'[co[cur].share] = cur
    <3> SUFFICES ASSUME cur # Main PROVE owner'[co[cur].share] = cur
      OBVIOUS
    <3>1. cur \in Co /\ co[cur].state = "running" /\ owner[co[cur].share] = cur
      BY DEF TypeOK, OneRuns, OwnerSound
    <3> QED
      BY <1>2, <1>3, <3>1 DEF Exists
  <2> QED
    BY <1>3, <2>1 DEF OwnerSound
<1>8. FinalValidSize'
  <2> SUFFICES ASSUME NEW z \in Stack, stack'[z] # NoStack
               PROVE  LET q == Requested(stack'[z].req)
                          unit == IF stack'[z].guard THEN PageSize ELSE 1
                      IN stack'[z].sz >= q /\ stack'[z].sz % unit = 0 /\ stack'[z].sz - unit < q
    BY DEF FinalValidSize
  <2>1. CASE z = s
    BY <1>3, <2>1
  <2>2. CASE z # s
    BY <1>3, <2>2 DEF FinalValidSize
  <2> QED
    BY <2>1, <2>2
<1> QED
  BY <1>1, <1>4, <1>5, <1>6, <1>7, <1>8

LEMMA NewInd ==
  ASSUME ConstOK, IndInv, NEW s \in Stack, NEW sz \in Sizes, NEW guard \in Guards,
         aco_share_stack_new2(s, sz, guard)
  PROVE  IndInv'
<1> DEFINE v == [req |-> sz, guard |-> guard, sz |-> ValidSize(sz, guard)]
<1>1. sz \in Nat /\ guard \in BOOLEAN
  BY DEF ConstOK
<1>2. /\ ValidSize(sz, guard) \in Nat /\ ValidSize(sz, guard) >= Requested(sz)
      /\ ValidSize(sz, guard) % (IF guard THEN PageSize ELSE 1) = 0
      /\ ValidSize(sz, guard) - (IF guard THEN PageSize ELSE 1) < Requested(sz)
  BY <1>1, SizeRight
<1>3. v \in [req : Nat, guard : BOOLEAN, sz : Nat] /\ v.req = sz /\ v.guard = guard /\ v.sz = ValidSize(sz, guard)
  BY <1>1, <1>2
<1>4. Users(s) = {}
  BY DEF aco_share_stack_new2, Users, IndInv, Placed
<1>5. /\ stack' = [stack EXCEPT ![s] = v] /\ mem' = [mem EXCEPT ![s] = Blank]
      /\ owner' = [owner EXCEPT ![s] = Nil] /\ UNCHANGED <<co, cur, frames>>
  BY DEF aco_share_stack_new2
<1> HIDE DEF v
<1> QED
  BY <1>2, <1>3, <1>4, <1>5, StackInd

LEMMA DestroyStackInd ==
  ASSUME ConstOK, IndInv, NEW s \in Stack, aco_share_stack_destroy(s)
  PROVE  IndInv'
BY NoneType, StackInd DEF aco_share_stack_destroy

(* An owner is neither new nor gone. *)
LEMMA OwnerActive ==
  ASSUME ConstOK, IndInv, NEW s \in Stack, NEW c \in Co, owner[s] = c
  PROVE  co[c].share = s /\ co[c].state \in {"running", "yielded"}
BY DEF IndInv, StacksIntact, OwnerSound, ConstOK

(* The running coroutine is the owner of its share stack. *)
LEMMA RunningOwns ==
  ASSUME IndInv, cur # Main
  PROVE  /\ cur \in Co /\ co[cur] \in Block /\ co[cur].state = "running"
         /\ co[cur].share \in Stack /\ owner[co[cur].share] = cur /\ Intact(cur)
<1>1. cur \in Co /\ co[cur] \in Block
  BY DEF IndInv, TypeOK, Block
<1>2. co[cur].state = "running" /\ owner[co[cur].share] = cur
  BY <1>1 DEF IndInv, OneRuns, StacksIntact, OwnerSound
<1> QED
  BY <1>1, <1>2 DEF IndInv, Placed, Exists, StacksIntact, StackIntact

LEMMA CreateInd ==
  ASSUME ConstOK, IndInv, NEW c \in Co, NEW s \in Stack, aco_create(c, s)
  PROVE  IndInv'
<1> DEFINE b == [None EXCEPT !.state = "init", !.share = s, !.sz = SaveSize]
<1> USE DEF IndInv, StacksIntact
<1>1. /\ cur = Main /\ ~Exists(c) /\ stack[s] # NoStack /\ co' = [co EXCEPT ![c] = b]
      /\ frames' = [frames EXCEPT ![c] = <<>>] /\ UNCHANGED <<stack, mem, owner, cur>>
  BY DEF aco_create
<1>2. None \in Block /\ None.sp = 0 /\ None.valid_sz = 0 /\ None.buf = <<>> /\ SaveSize \in Nat /\ SaveSize > 0
  BY NoneType DEF None, ConstOK
<1>3. /\ b \in Block /\ b.state = "init" /\ b.share = s /\ b.sp = 0 /\ b.sz > 0
      /\ b.valid_sz = 0 /\ b.buf = <<>> /\ b.sz \in Nat
  BY <1>2 DEF Block, States
<1> HIDE DEF b
<1>4. /\ \A x \in Co : x # c => co'[x] = co[x] /\ frames'[x] = frames[x]
      /\ co'[c] = b /\ frames'[c] = <<>>
  BY <1>1 DEF TypeOK
<1>5. TypeOK'
  <2>1. co' \in [Co -> Block] /\ frames' \in [Co -> Seq(Word)]
    BY <1>1, <1>3 DEF TypeOK, Block
  <2> QED
    BY <1>1, <2>1 DEF TypeOK, Block
<1>6. Placed' /\ NeverRan' /\ SavedWords' /\ SaveFits'
  <2>1. Placed'
    BY <1>1, <1>3, <1>4 DEF Placed, Exists
  <2>2. NeverRan'
    BY <1>3, <1>4 DEF NeverRan
  <2>3. SavedWords' /\ SaveFits'
    BY <1>3, <1>4 DEF SavedWords, SaveFits, Exists
  <2> QED
    BY <2>1, <2>2, <2>3
<1>7. OneRuns'
  BY <1>1, <1>3, <1>4 DEF OneRuns, ConstOK
<1>8. StackIntact'
  <2> SUFFICES ASSUME NEW x \in Co, co'[x].state \in {"running", "yielded"} PROVE Intact(x)'
    BY DEF StackIntact
  <2>1. x # c
    BY <1>3, <1>4
  <2>2. Intact(x)
    BY <1>4, <2>1 DEF StackIntact
  <2> QED
    BY <1>1, <1>4, <2>1, <2>2, IntactKept
<1>9. OwnerSound' /\ FinalValidSize'
  <2>1. \A z \in Stack : owner[z] # c
    BY <1>1, OwnerActive DEF Exists
  <2>2. OwnerSound'
    BY <1>1, <1>4, <2>1 DEF OwnerSound, TypeOK
  <2> QED
    BY <1>1, <2>2 DEF FinalValidSize
<1> QED
  BY <1>5, <1>6, <1>7, <1>8, <1>9

(* What is copied out is the owner's frames, whole. *)
LEMMA SavedRight ==
  ASSUME ConstOK, IndInv, NEW s \in Stack, NEW o \in Co, owner[s] = o
  PROVE  /\ Saved(o, mem[s]) \in Block
         /\ Saved(o, mem[s]).state = co[o].state /\ Saved(o, mem[s]).share = s
         /\ Saved(o, mem[s]).sp = Len(frames[o]) /\ Saved(o, mem[s]).valid_sz = Len(frames[o])
         /\ Saved(o, mem[s]).buf = frames[o]
         /\ Saved(o, mem[s]).sz > 0 /\ Saved(o, mem[s]).sz >= Saved(o, mem[s]).valid_sz
<1> DEFINE m == mem[s]
           old == co[o]
           sz == GrownSize(old.sz, old.sp)
           kept == IF sz = old.sz THEN old.buf ELSE <<>>
           buf == [i \in 1..old.sp |-> IF i \in Copied(old.sp) THEN m[i]
                                       ELSE IF i \in DOMAIN kept THEN kept[i] ELSE Junk]
<1>1. /\ old \in Block /\ old.share = s /\ old.state \in {"running", "yielded"}
      /\ m \in [1..MaxDepth -> Word] /\ frames[o] \in Seq(Word) /\ Len(frames[o]) \in Nat
  BY OwnerActive DEF IndInv, TypeOK, Block
<1>2. old.sp \in 0..MaxDepth /\ old.sz \in Nat /\ MaxDepth \in Nat
  BY <1>1 DEF Block, ConstOK
<1>3. old.sp = Len(frames[o]) /\ \A i \in 1..old.sp : m[i] = frames[o][i]
  BY <1>1 DEF IndInv, StacksIntact, StackIntact, Intact
<1>4. old.sz > 0
  BY <1>1 DEF IndInv, Placed, Exists
<1>5. sz \in Nat /\ sz > 0 /\ sz >= old.sp
  BY <1>2, <1>4, SaveSizeFits
<1>6. Saved(o, mem[s]) = [old EXCEPT !.valid_sz = old.sp, !.sz = sz, !.buf = buf]
  BY DEF Saved
<1>7. buf = frames[o]
  <2>1. Copied(old.sp) = 1..old.sp
    BY <1>2, CopiedAll
  <2>2. buf = [i \in 1..old.sp |-> m[i]]
    BY <2>1
  <2>3. frames[o] = [i \in 1..Len(frames[o]) |-> frames[o][i]]
    BY <1>1
  <2> HIDE DEF buf, m, old
  <2> QED
    BY <1>3, <2>2, <2>3
<1> HIDE DEF m, old, sz, buf
<1>8. old.state = co[o].state /\ buf \in Seq(Word)
  BY <1>1, <1>7 DEF old
<1> DEFINE new == [old EXCEPT !.valid_sz = old.sp, !.sz = sz, !.buf = buf]
<1>9. /\ new \in Block /\ new.state = old.state /\ new.share = old.share /\ new.sp = old.sp
      /\ new.sz = sz /\ new.valid_sz = old.sp /\ new.buf = buf
  BY <1>1, <1>2, <1>5, <1>8 DEF Block
<1> HIDE DEF new
<1>10. Saved(o, mem[s]) = new
  BY <1>6 DEF new
<1> QED
  BY <1>1, <1>3, <1>5, <1>7, <1>8, <1>9, <1>10

(* What is copied in is what was copied out. *)
LEMMA RestoredRight ==
  ASSUME ConstOK, IndInv, NEW s \in Stack, NEW c \in Co,
         co[c].state \in {"init", "yielded"}, co[c].share = s, owner[s] # c
  PROVE  /\ Restored(c, mem[s]) \in [1..MaxDepth -> Word]
         /\ co[c].sp = Len(frames[c])
         /\ \A i \in 1..co[c].sp : Restored(c, mem[s])[i] = frames[c][i]
<1>1. /\ co[c] \in Block /\ mem[s] \in [1..MaxDepth -> Word] /\ frames[c] \in Seq(Word)
      /\ MaxDepth \in Nat
  BY DEF IndInv, TypeOK, Block, ConstOK
<1>2. /\ co[c].valid_sz \in 0..MaxDepth /\ co[c].sp \in 0..MaxDepth /\ co[c].buf \in Seq(Word)
      /\ Len(co[c].buf) = co[c].valid_sz
  BY <1>1 DEF Block, IndInv, SavedWords
<1>3. Copied(co[c].valid_sz) = 1..co[c].valid_sz
  BY <1>2, CopiedAll
<1>4. Restored(c, mem[s])
        = [i \in 1..MaxDepth |-> IF i \in 1..co[c].valid_sz THEN co[c].buf[i] ELSE mem[s][i]]
  BY <1>1, <1>3 DEF Restored
<1>5. \A i \in 1..co[c].valid_sz : co[c].buf[i] \in Word
  BY <1>2
<1>6. Restored(c, mem[s]) \in [1..MaxDepth -> Word]
  BY <1>1, <1>4, <1>5
<1>7. CASE co[c].state = "init"
  <2>1. co[c].sp = 0 /\ frames[c] = <<>>
    BY <1>7 DEF IndInv, NeverRan
  <2> QED
    BY <1>6, <2>1
<1>8. CASE co[c].state = "yielded"
  <2>1. co[c].sp = Len(frames[c]) /\ co[c].valid_sz = Len(frames[c]) /\ co[c].buf = frames[c]
    BY <1>8 DEF IndInv, StacksIntact, StackIntact, Intact
  <2>2. \A i \in 1..co[c].sp : i \in 1..MaxDepth /\ i \in 1..co[c].valid_sz
    BY <1>1, <1>2, <2>1
  <2>3. \A i \in 1..co[c].sp : Restored(c, mem[s])[i] = co[c].buf[i]
    BY <1>4, <2>2
  <2> QED
    BY <1>6, <2>1, <2>3
<1> QED
  BY <1>7, <1>8

(* The control block of a coroutine whose state alone changed. *)
LEMMA StateOnly ==
  ASSUME NEW b \in Block, NEW st \in States
  PROVE  LET d == [b EXCEPT !.state = st]
         IN /\ d \in Block /\ d.state = st /\ d.share = b.share /\ d.sp = b.sp
            /\ d.sz = b.sz /\ d.valid_sz = b.valid_sz /\ d.buf = b.buf
BY DEF Block

(* aco_resume, whoever owned the share stack: that one has been saved, and *)
(* the stack has the frames of the coroutine that runs now.                *)
LEMMA SwitchInd ==
  ASSUME ConstOK, IndInv, NEW c \in Co, NEW s \in Stack,
         cur = Main, cur' = c, co[c].state \in {"init", "yielded"}, co[c].share = s,
         co' \in [Co -> Block], co'[c].state = "running", co'[c].share = s,
         co'[c].sp = co[c].sp, co'[c].sz = co[c].sz,
         co'[c].valid_sz = co[c].valid_sz, co'[c].buf = co[c].buf,
         \A x \in Co : x # c => co'[x] = IF x = owner[s] THEN Saved(x, mem[s]) ELSE co[x],
         owner' = [owner EXCEPT ![s] = c],
         mem' \in [Stack -> [1..MaxDepth -> Word]], \A z \in Stack : z # s => mem'[z] = mem[z],
         co[c].sp = Len(frames[c]), \A i \in 1..co[c].sp : mem'[s][i] = frames[c][i],
         UNCHANGED <<stack, frames>>
  PROVE  IndInv'
<1> USE DEF IndInv, StacksIntact
<1> DEFINE o == owner[s]
<1>1. /\ co'[c].state = "running" /\ co'[c].share = s /\ co'[c].sp = co[c].sp
      /\ co'[c].sz = co[c].sz /\ co'[c].valid_sz = co[c].valid_sz /\ co'[c].buf = co[c].buf
  OBVIOUS
<1>2. /\ owner'[s] = c /\ \A z \in Stack : z # s => owner'[z] = owner[z] /\ mem'[z] = mem[z]
  BY DEF TypeOK
<1>3. ASSUME NEW x \in Co, x # c, x = o
      PROVE  /\ co'[x].state = co[x].state /\ co[x].state \in {"running", "yielded"}
             /\ co'[x].share = s /\ co[x].share = s /\ co'[x].sp = Len(frames[x])
             /\ co'[x].valid_sz = Len(frames[x]) /\ co'[x].buf = frames[x]
             /\ co'[x].sz > 0 /\ co'[x].sz >= co'[x].valid_sz /\ co'[x] \in Block
  BY <1>3, SavedRight, OwnerActive
<1>4. \A x \in Co : x # c /\ x # o => co'[x] = co[x]
  OBVIOUS
<1>5. TypeOK'
  <2>1. owner' \in [Stack -> Co \cup {Nil}] /\ mem' \in [Stack -> [1..MaxDepth -> Word]]
    BY DEF TypeOK
  <2> QED
    BY <2>1 DEF TypeOK, Block
<1>6. Placed'
  <2> SUFFICES ASSUME NEW x \in Co, co'[x].state # "none"
               PROVE  co'[x].share \in Stack /\ stack[co'[x].share] # NoStack /\ co'[x].sz > 0
    BY DEF Placed, Exists
  <2>1. CASE x = c
    <3>1. stack[s] # NoStack /\ co[c].sz > 0
      BY DEF Placed, Exists
    <3> QED
      BY <1>1, <2>1, <3>1
  <2>2. CASE x # c /\ x = o
    BY <1>3, <2>2 DEF Placed, Exists
  <2>3. CASE x # c /\ x # o
    BY <1>4, <2>3 DEF Placed, Exists
  <2> QED
    BY <2>1, <2>2, <2>3
<1>7. OneRuns'
  <2> SUFFICES ASSUME NEW x \in Co PROVE (co'[x].state = "running") <=> (c = x)
    BY DEF OneRuns
  <2>1. co[x].state # "running"
    BY DEF OneRuns, ConstOK
  <2> QED
    BY <1>1, <1>3, <1>4, <2>1
<1>8. NeverRan'
  <2> SUFFICES ASSUME NEW x \in Co, co'[x].state = "init" PROVE co'[x].sp = 0 /\ frames[x] = <<>>
    BY DEF NeverRan
  <2>1. x # c /\ x # o
    BY <1>1, <1>3
  <2> QED
    BY <1>4, <2>1 DEF NeverRan
<1>9. SavedWords' /\ SaveFits'
  <2> SUFFICES ASSUME NEW x \in Co
               PROVE  /\ Len(co'[x].buf) = co'[x].valid_sz
                      /\ co'[x].state # "none" => co'[x].valid_sz <= co'[x].sz
    BY DEF SavedWords, SaveFits, Exists
  <2>1. CASE x = c
    <3>1. Len(co[c].buf) = co[c].valid_sz /\ co[c].valid_sz <= co[c].sz
      BY DEF SavedWords, SaveFits, Exists
    <3> QED
      BY <1>1, <2>1, <3>1
  <2>2. CASE x # c /\ x = o
    <3>1. co'[x].sz \in Nat /\ co'[x].valid_sz \in Nat
      BY <1>3, <2>2 DEF Block
    <3> QED
      BY <1>3, <2>2, <3>1
  <2>3. CASE x # c /\ x # o
    BY <1>4, <2>3 DEF SavedWords, SaveFits, Exists
  <2> QED
    BY <2>1, <2>2, <2>3
<1>10. StackIntact'
  <2> SUFFICES ASSUME NEW x \in Co, co'[x].state \in {"running", "yielded"} PROVE Intact(x)'
    BY DEF StackIntact
  <2>1. CASE x = c
    <3>1. co'[c].share = s /\ co'[c].sp = Len(frames'[c]) /\ owner'[s] = c
      BY <1>1, <1>2
    <3>2. \A i \in 1..co'[c].sp : mem'[s][i] = frames'[c][i]
      BY <1>1, <1>2
    <3> QED
      BY <2>1, <3>1, <3>2 DEF Intact
  <2>2. CASE x # c /\ x = o
    BY <1>2, <1>3, <2>2 DEF Intact
  <2>3. CASE x # c /\ x # o
    <3>1. co'[x] = co[x] /\ Intact(x) /\ co[x].share \in Stack
      BY <1>4, <2>3 DEF StackIntact, Placed, Exists
    <3>2. (owner'[co[x].share] = x <=> owner[co[x].share] = x)
      BY <1>2, <2>3, <3>1
    <3>3. owner[co[x].share] = x => mem'[co[x].share] = mem[co[x].share]
      BY <1>2, <2>3, <3>1
    <3> QED
      BY <3>1, <3>2, <3>3, IntactKept
  <2> QED
    BY <2>1, <2>2, <2>3
<1>11. OwnerSound'
  <2>1. ASSUME NEW z \in Stack, owner'[z] # Nil
        PROVE  co'[owner'[z]].share = z /\ co'[owner'[z]].state \in {"running", "yielded"}
    <3>1. CASE z = s
      BY <1>1, <1>2, <3>1
    <3>2. CASE z # s
      <4>1. owner'[z] = owner[z] /\ owner[z] \in Co
        BY <1>2, <2>1, <3>2 DEF TypeOK
      <4>2. co[owner[z]].share = z /\ co[owner[z]].state \in {"running", "yielded"}
        BY <4>1, OwnerActive
      <4>3. owner[z] # c /\ owner[z] # o
        <5>1. owner[z] # c
          BY <3>2, <4>2
        <5>2. owner[z] # o
          BY <3>2, <4>1, <4>2, OwnerActive
        <5> QED
          BY <5>1, <5>2
      <4> QED
        BY <1>4, <4>1, <4>2, <4>3
    <3> QED
      BY <3>1, <3>2
  <2>2. owner'[co'[cur'].share] = cur'
    BY <1>1, <1>2
  <2> QED
    BY <2>1, <2>2 DEF OwnerSound
<1>12. FinalValidSize'
  BY DEF FinalValidSize
<1> QED
  BY <1>5, <1>6, <1>7, <1>8, <1>9, <1>10, <1>11, <1>12

LEMMA ResumeInd ==
  ASSUME ConstOK, IndInv, NEW c \in Co, aco_resume(c) PROVE IndInv'
<1>1. PICK s \in Stack : co[c].share = s
  BY DEF aco_resume, IndInv, Placed, Exists
<1> DEFINE d == [co[c] EXCEPT !.state = "running"]
<1>2. /\ cur = Main /\ cur' = c /\ co[c].state \in {"init", "yielded"} /\ UNCHANGED <<stack, frames>>
  BY DEF aco_resume
<1>3. /\ co \in [Co -> Block] /\ mem \in [Stack -> [1..MaxDepth -> Word]]
      /\ owner \in [Stack -> Co \cup {Nil}]
  BY DEF IndInv, TypeOK, Block
<1>4. /\ d \in Block /\ d.state = "running" /\ d.share = s /\ d.sp = co[c].sp
      /\ d.sz = co[c].sz /\ d.valid_sz = co[c].valid_sz /\ d.buf = co[c].buf
  BY <1>1, <1>3, StateOnly DEF States
<1>5. CASE owner[s] = c
  <2>1. UNCHANGED <<mem, owner>> /\ co' = [co EXCEPT ![c] = d]
    BY <1>1, <1>5 DEF aco_resume
  <2>2. Intact(c)
    BY <1>2, <1>5, OwnerActive DEF IndInv, StacksIntact, StackIntact
  <2>3. co[c].sp = Len(frames[c]) /\ \A i \in 1..co[c].sp : mem[s][i] = frames[c][i]
    BY <1>1, <1>5, <2>2 DEF Intact
  <2> HIDE DEF d
  <2>4. owner' = [owner EXCEPT ![s] = c]
    BY <1>3, <1>5, <2>1
  <2>5. co' \in [Co -> Block] /\ co'[c] = d /\ \A x \in Co : x # c => co'[x] = co[x]
    BY <1>3, <1>4, <2>1
  <2>6. \A x \in Co : x # c => co'[x] = IF x = owner[s] THEN Saved(x, mem[s]) ELSE co[x]
    BY <1>5, <2>5
  <2>7. mem' \in [Stack -> [1..MaxDepth -> Word]] /\ \A z \in Stack : mem'[z] = mem[z]
    BY <1>3, <2>1
  <2>8. /\ co'[c].state = "running" /\ co'[c].share = s /\ co'[c].sp = co[c].sp
        /\ co'[c].sz = co[c].sz /\ co'[c].valid_sz = co[c].valid_sz /\ co'[c].buf = co[c].buf
    BY <1>4, <2>5
  <2>9. \A i \in 1..co[c].sp : mem'[s][i] = frames[c][i]
    BY <2>3, <2>7
  <2>10. \A z \in Stack : z # s => mem'[z] = mem[z]
    BY <2>7
  <2> QED
    BY <1>1, <1>2, <2>3, <2>4, <2>5, <2>6, <2>7, <2>8, <2>9, <2>10, SwitchInd, Zenon
<1>6. CASE owner[s] # c
  <2> DEFINE m == Restored(c, mem[s])
  <2>1. /\ co' = [x \in Co |-> IF x = c THEN d ELSE IF x = owner[s] THEN Saved(owner[s], mem[s]) ELSE co[x]]
        /\ mem' = [mem EXCEPT ![s] = m] /\ owner' = [owner EXCEPT ![s] = c]
    BY <1>1, <1>6 DEF aco_resume
  <2>2. /\ m \in [1..MaxDepth -> Word] /\ co[c].sp = Len(frames[c])
        /\ \A i \in 1..co[c].sp : m[i] = frames[c][i]
    BY <1>1, <1>2, <1>6, RestoredRight
  <2>3. owner[s] \in Co => Saved(owner[s], mem[s]) \in Block
    BY SavedRight
  <2> HIDE DEF d, m
  <2>4. co' \in [Co -> Block]
    BY <1>3, <1>4, <2>1, <2>3
  <2>5. co'[c] = d
    BY <2>1
  <2>6. \A x \in Co : x # c => co'[x] = IF x = owner[s] THEN Saved(x, mem[s]) ELSE co[x]
    BY <2>1
  <2>7. /\ mem' \in [Stack -> [1..MaxDepth -> Word]] /\ \A z \in Stack : z # s => mem'[z] = mem[z]
        /\ mem'[s] = m
    BY <1>3, <2>1, <2>2
  <2>8. /\ co'[c].state = "running" /\ co'[c].share = s /\ co'[c].sp = co[c].sp
        /\ co'[c].sz = co[c].sz /\ co'[c].valid_sz = co[c].valid_sz /\ co'[c].buf = co[c].buf
    BY <1>4, <2>5
  <2>9. \A i \in 1..co[c].sp : mem'[s][i] = frames[c][i]
    BY <2>2, <2>7
  <2> QED
    BY <1>1, <1>2, <2>1, <2>2, <2>4, <2>6, <2>7, <2>8, <2>9, SwitchInd, Zenon
<1> QED
  BY <1>5, <1>6

(* A step of the running coroutine: it works on its own stack, or stops.   *)
LEMMA OwnStepInd ==
  ASSUME ConstOK, IndInv, cur # Main, NEW d \in Block, NEW s \in Stack, s = co[cur].share,
         co' = [co EXCEPT ![cur] = d], d.share = s, d.sz = co[cur].sz,
         d.valid_sz = co[cur].valid_sz, d.buf = co[cur].buf,
         d.state \in {"running", "yielded", "end"},
         cur' = IF d.state = "running" THEN cur ELSE Main,
         owner' = [owner EXCEPT ![s] = IF d.state = "end" THEN Nil ELSE cur],
         mem' \in [Stack -> [1..MaxDepth -> Word]], \A z \in Stack : z # s => mem'[z] = mem[z],
         frames' \in [Co -> Seq(Word)], \A x \in Co : x # cur => frames'[x] = frames[x],
         d.sp = Len(frames'[cur]), \A i \in 1..d.sp : mem'[s][i] = frames'[cur][i],
         stack' = stack
  PROVE  IndInv'
<1> USE DEF IndInv, StacksIntact
<1>1. cur \in Co /\ co[cur].state = "running" /\ owner[s] = cur
  BY RunningOwns
<1>2. co'[cur] = d /\ \A x \in Co : x # cur => co'[x] = co[x]
  BY <1>1 DEF TypeOK
<1>3. /\ owner'[s] = IF d.state = "end" THEN Nil ELSE cur
      /\ \A z \in Stack : z # s => owner'[z] = owner[z]
  BY DEF TypeOK
<1>4. TypeOK'
  <2>1. co' \in [Co -> Block]
    BY DEF TypeOK, Block
  <2>2. owner' \in [Stack -> Co \cup {Nil}]
    BY <1>1 DEF TypeOK
  <2>3. cur' \in Co \cup {Main}
    BY <1>1
  <2> QED
    BY <2>1, <2>2, <2>3 DEF TypeOK, Block
<1>5. stack[s] # NoStack /\ co[cur].sz > 0
  BY <1>1 DEF Placed, Exists
<1>6. Placed'
  BY <1>2, <1>5 DEF Placed, Exists
<1>7. OneRuns'
  <2> SUFFICES ASSUME NEW x \in Co PROVE (co'[x].state = "running") <=> (cur' = x)
    BY DEF OneRuns
  <2>1. x # Main
    BY DEF ConstOK
  <2>2. CASE x = cur
    BY <1>2, <2>1, <2>2
  <2>3. CASE x # cur
    <3>1. co[x].state # "running"
      BY <2>3 DEF OneRuns
    <3> QED
      BY <1>2, <2>1, <2>3, <3>1
  <2> QED
    BY <2>2, <2>3
<1>8. NeverRan'
  <2> SUFFICES ASSUME NEW x \in Co, co'[x].state = "init" PROVE co'[x].sp = 0 /\ frames'[x] = <<>>
    BY DEF NeverRan
  <2>1. x # cur
    BY <1>2
  <2> QED
    BY <1>2, <2>1 DEF NeverRan
<1>9. SavedWords' /\ SaveFits'
  <2>1. Len(d.buf) = d.valid_sz /\ d.valid_sz <= d.sz
    BY <1>1 DEF SavedWords, SaveFits, Exists
  <2> QED
    BY <1>2, <2>1 DEF SavedWords, SaveFits, Exists
<1>10. StackIntact'
  <2> SUFFICES ASSUME NEW x \in Co, co'[x].state \in {"running", "yielded"} PROVE Intact(x)'
    BY DEF StackIntact
  <2>1. CASE x = cur
    <3>1. co'[x] = d /\ d.state # "end"
      BY <1>2, <2>1
    <3>2. owner'[s] = cur
      BY <1>3, <3>1
    <3> QED
      BY <2>1, <3>1, <3>2 DEF Intact
  <2>2. CASE x # cur
    <3>1. co'[x] = co[x] /\ frames'[x] = frames[x] /\ Intact(x) /\ co[x].share \in Stack
      BY <1>2, <2>2 DEF StackIntact, Placed, Exists
    <3>2. x # Nil /\ owner[s] # x
      BY <1>1, <2>2 DEF ConstOK
    <3>3. (owner'[co[x].share] = x <=> owner[co[x].share] = x)
      BY <1>3, <2>2, <3>1, <3>2
    <3>4. owner[co[x].share] = x => mem'[co[x].share] = mem[co[x].share]
      BY <3>1, <3>2
    <3> QED
      BY <3>1, <3>3, <3>4, IntactKept
  <2> QED
    BY <2>1, <2>2
<1>11. OwnerSound'
  <2>1. ASSUME NEW z \in Stack, owner'[z] # Nil
        PROVE  co'[owner'[z]].share = z /\ co'[owner'[z]].state \in {"running", "yielded"}
    <3>1. CASE z = s
      BY <1>2, <1>3, <2>1, <3>1
    <3>2. CASE z # s
      <4>1. owner'[z] = owner[z] /\ owner[z] \in Co
        BY <1>3, <2>1, <3>2 DEF TypeOK
      <4>2. co[owner[z]].share = z /\ co[owner[z]].state \in {"running", "yielded"}
        BY <4>1, OwnerActive
      <4>3. owner[z] # cur
        BY <3>2, <4>2
      <4> QED
        BY <1>2, <4>1, <4>2, <4>3
    <3> QED
      BY <3>1, <3>2
  <2>2. cur' # Main => owner'[co'[cur'].share] = cur'
    BY <1>2, <1>3
  <2> QED
    BY <2>1, <2>2 DEF OwnerSound
<1>12. FinalValidSize'
  BY DEF FinalValidSize
<1> QED
  BY <1>4, <1>6, <1>7, <1>8, <1>9, <1>10, <1>11, <1>12

LEMMA EnterInd ==
  ASSUME ConstOK, IndInv, NEW v \in Values, Enter(v) PROVE IndInv'
<1> DEFINE b == co[cur]
           s == b.share
           w == <<cur, v>>
           d == [b EXCEPT !.sp = @ + 1]
<1>1. /\ cur # Main /\ b.sp < MaxDepth /\ co' = [co EXCEPT ![cur] = d]
      /\ mem' = [mem EXCEPT ![s][b.sp + 1] = w] /\ frames' = [frames EXCEPT ![cur] = Append(@, w)]
      /\ UNCHANGED <<stack, owner, cur>>
  BY DEF Enter
<1>2. cur \in Co /\ b \in Block /\ b.state = "running" /\ s \in Stack /\ owner[s] = cur /\ Intact(cur)
  BY <1>1, RunningOwns
<1>3. /\ mem \in [Stack -> [1..MaxDepth -> Word]] /\ owner \in [Stack -> Co \cup {Nil}]
      /\ frames \in [Co -> Seq(Word)] /\ MaxDepth \in Nat
  BY DEF IndInv, TypeOK, ConstOK
<1>4. w \in Word
  BY <1>2 DEF Word
<1>5. b.sp = Len(frames[cur]) /\ \A i \in 1..b.sp : mem[s][i] = frames[cur][i]
  BY <1>2 DEF Intact
<1>6. b.sp \in 0..MaxDepth /\ b.sp + 1 \in 1..MaxDepth
  BY <1>1, <1>2, <1>3 DEF Block
<1>7. /\ d \in Block /\ d.state = "running" /\ d.share = s /\ d.sp = b.sp + 1
      /\ d.sz = b.sz /\ d.valid_sz = b.valid_sz /\ d.buf = b.buf
  BY <1>2, <1>6 DEF Block
<1> HIDE DEF d, b, s, w
<1>8. owner' = [owner EXCEPT ![s] = IF d.state = "end" THEN Nil ELSE cur]
  BY <1>1, <1>2, <1>3, <1>7
<1>9. /\ mem' \in [Stack -> [1..MaxDepth -> Word]] /\ \A z \in Stack : z # s => mem'[z] = mem[z]
      /\ mem'[s] = [mem[s] EXCEPT ![b.sp + 1] = w]
  BY <1>1, <1>2, <1>3, <1>4, <1>6
<1>10. /\ frames' \in [Co -> Seq(Word)] /\ \A x \in Co : x # cur => frames'[x] = frames[x]
       /\ frames'[cur] = Append(frames[cur], w)
  BY <1>1, <1>2, <1>3, <1>4
<1>11. d.sp = Len(frames'[cur])
  BY <1>2, <1>3, <1>5, <1>7, <1>10
<1>12. \A i \in 1..d.sp : mem'[s][i] = frames'[cur][i]
  <2> SUFFICES ASSUME NEW i \in 1..d.sp PROVE mem'[s][i] = frames'[cur][i]
    OBVIOUS
  <2>1. frames[cur] \in Seq(Word) /\ mem[s] \in [1..MaxDepth -> Word] /\ i \in 1..(b.sp + 1)
    BY <1>2, <1>3, <1>7
  <2>2. CASE i = b.sp + 1
    <3>1. mem'[s][i] = w
      BY <1>6, <1>9, <2>1, <2>2
    <3>2. Append(frames[cur], w)[Len(frames[cur]) + 1] = w
      BY <1>4, <2>1
    <3> QED
      BY <1>5, <1>10, <2>2, <3>1, <3>2
  <2>3. CASE i \in 1..b.sp
    BY <1>5, <1>6, <1>9, <1>10, <2>1, <2>3
  <2> QED
    BY <1>6, <2>1, <2>2, <2>3
<1>13. d.state \in {"running", "yielded", "end"} /\ cur' = IF d.state = "running" THEN cur ELSE Main
  BY <1>1, <1>7
<1>14. s = co[cur].share /\ b = co[cur] /\ stack' = stack
  BY <1>1 DEF s, b
<1>15. cur # Main /\ co' = [co EXCEPT ![cur] = d]
  BY <1>1
<1>16. /\ s \in Stack /\ d \in Block /\ d.share = s /\ d.sz = co[cur].sz
       /\ d.valid_sz = co[cur].valid_sz /\ d.buf = co[cur].buf
  BY <1>2, <1>7, <1>14
<1>17. /\ mem' \in [Stack -> [1..MaxDepth -> Word]] /\ \A z \in Stack : z # s => mem'[z] = mem[z]
       /\ frames' \in [Co -> Seq(Word)] /\ \A x \in Co : x # cur => frames'[x] = frames[x]
  BY <1>9, <1>10
<1> QED
  BY <1>8, <1>11, <1>12, <1>13, <1>14, <1>15, <1>16, <1>17, OwnStepInd, ZenonT(60)

LEMMA LeaveInd ==
  ASSUME ConstOK, IndInv, Leave PROVE IndInv'
<1> DEFINE b == co[cur]
           s == b.share
           d == [b EXCEPT !.sp = @ - 1]
<1>1. /\ cur # Main /\ b.sp > 0 /\ co' = [co EXCEPT ![cur] = d]
      /\ frames' = [frames EXCEPT ![cur] = SubSeq(@, 1, Len(@) - 1)]
      /\ UNCHANGED <<stack, mem, owner, cur>>
  BY DEF Leave
<1>2. cur \in Co /\ b \in Block /\ b.state = "running" /\ s \in Stack /\ owner[s] = cur /\ Intact(cur)
  BY <1>1, RunningOwns
<1>3. /\ mem \in [Stack -> [1..MaxDepth -> Word]] /\ owner \in [Stack -> Co \cup {Nil}]
      /\ frames \in [Co -> Seq(Word)] /\ MaxDepth \in Nat
  BY DEF IndInv, TypeOK, ConstOK
<1>4. b.sp = Len(frames[cur]) /\ \A i \in 1..b.sp : mem[s][i] = frames[cur][i]
  BY <1>2 DEF Intact
<1>5. b.sp \in 0..MaxDepth /\ b.sp - 1 \in 0..MaxDepth
  BY <1>1, <1>2, <1>3 DEF Block
<1>6. /\ d \in Block /\ d.state = "running" /\ d.share = s /\ d.sp = b.sp - 1
      /\ d.sz = b.sz /\ d.valid_sz = b.valid_sz /\ d.buf = b.buf
  BY <1>2, <1>5 DEF Block
<1> HIDE DEF d, b, s
<1>7. owner' = [owner EXCEPT ![s] = IF d.state = "end" THEN Nil ELSE cur]
  BY <1>1, <1>2, <1>3, <1>6
<1>8. mem' \in [Stack -> [1..MaxDepth -> Word]] /\ \A z \in Stack : z # s => mem'[z] = mem[z]
  BY <1>1, <1>3
<1> DEFINE f == SubSeq(frames[cur], 1, Len(frames[cur]) - 1)
<1>9. f \in Seq(Word) /\ Len(f) = b.sp - 1 /\ \A i \in 1..(b.sp - 1) : f[i] = frames[cur][i]
  <2>1. frames[cur] \in Seq(Word)
    BY <1>2, <1>3
  <2> QED
    BY <1>1, <1>4, <1>5, <2>1
<1> HIDE DEF f
<1>10. /\ frames' \in [Co -> Seq(Word)] /\ \A x \in Co : x # cur => frames'[x] = frames[x]
       /\ frames'[cur] = f
  BY <1>1, <1>2, <1>3, <1>9 DEF f
<1>11. d.sp = Len(frames'[cur])
  BY <1>6, <1>9, <1>10
<1>12. \A i \in 1..d.sp : mem'[s][i] = frames'[cur][i]
  BY <1>1, <1>4, <1>5, <1>6, <1>9, <1>10
<1>13. d.state \in {"running", "yielded", "end"} /\ cur' = IF d.state = "running" THEN cur ELSE Main
  BY <1>1, <1>6
<1>14. s = co[cur].share /\ b = co[cur] /\ stack' = stack
  BY <1>1 DEF s, b
<1>15. cur # Main /\ co' = [co EXCEPT ![cur] = d]
  BY <1>1
<1>16. /\ s \in Stack /\ d \in Block /\ d.share = s /\ d.sz = co[cur].sz
       /\ d.valid_sz = co[cur].valid_sz /\ d.buf = co[cur].buf
  BY <1>2, <1>6, <1>14
<1>17. frames' \in [Co -> Seq(Word)] /\ \A x \in Co : x # cur => frames'[x] = frames[x]
  BY <1>10
<1> QED
  BY <1>7, <1>8, <1>11, <1>12, <1>13, <1>14, <1>15, <1>16, <1>17, OwnStepInd, ZenonT(60)

(* It leaves the stack as it is, and remains its owner or gives it up. *)
LEMMA StopInd ==
  ASSUME ConstOK, IndInv, aco_yield \/ aco_exit PROVE IndInv'
<1> DEFINE b == co[cur]
           s == b.share
           st == IF aco_yield THEN "yielded" ELSE "end"
           d == [b EXCEPT !.state = st]
<1>1. cur # Main /\ cur' = Main /\ UNCHANGED <<stack, mem, frames>>
  BY DEF aco_yield, aco_exit
<1>2. cur \in Co /\ b \in Block /\ s \in Stack /\ owner[s] = cur /\ Intact(cur)
  BY <1>1, RunningOwns
<1>3. /\ mem \in [Stack -> [1..MaxDepth -> Word]] /\ owner \in [Stack -> Co \cup {Nil}]
      /\ frames \in [Co -> Seq(Word)]
  BY DEF IndInv, TypeOK
<1>4. b.sp = Len(frames[cur]) /\ \A i \in 1..b.sp : mem[s][i] = frames[cur][i]
  BY <1>2 DEF Intact
<1>5. /\ d \in Block /\ d.state = st /\ d.share = s /\ d.sp = b.sp
      /\ d.sz = b.sz /\ d.valid_sz = b.valid_sz /\ d.buf = b.buf
  <2>1. st \in States
    BY DEF States
  <2> HIDE DEF st, b
  <2> QED
    BY <1>2, <2>1, StateOnly
<1>6. co' = [co EXCEPT ![cur] = d] /\ owner' = [owner EXCEPT ![s] = IF st = "end" THEN Nil ELSE cur]
  <2>1. CASE aco_yield
    <3>1. st = "yielded" /\ co' = [co EXCEPT ![cur] = d] /\ owner' = owner
      BY <2>1 DEF aco_yield
    <3> QED
      BY <1>2, <1>3, <3>1
  <2>2. CASE ~aco_yield /\ aco_exit
    BY <2>2 DEF aco_exit
  <2> QED
    BY <2>1, <2>2
<1>7. st \in {"yielded", "end"}
  OBVIOUS
<1> HIDE DEF d, b, s, st
<1>8. d.state \in {"running", "yielded", "end"} /\ cur' = IF d.state = "running" THEN cur ELSE Main
  BY <1>1, <1>5, <1>7
<1>9. owner' = [owner EXCEPT ![s] = IF d.state = "end" THEN Nil ELSE cur]
  BY <1>5, <1>6
<1>10. mem' \in [Stack -> [1..MaxDepth -> Word]] /\ \A z \in Stack : z # s => mem'[z] = mem[z]
  BY <1>1, <1>3
<1>11. frames' \in [Co -> Seq(Word)] /\ \A x \in Co : x # cur => frames'[x] = frames[x]
  BY <1>1, <1>3
<1>12. d.sp = Len(frames'[cur]) /\ \A i \in 1..d.sp : mem'[s][i] = frames'[cur][i]
  BY <1>1, <1>4, <1>5
<1>13. s = co[cur].share /\ b = co[cur] /\ stack' = stack
  BY <1>1 DEF s, b
<1>14. cur # Main /\ co' = [co EXCEPT ![cur] = d]
  BY <1>1, <1>6
<1>15. /\ s \in Stack /\ d \in Block /\ d.share = s /\ d.sz = co[cur].sz
       /\ d.valid_sz = co[cur].valid_sz /\ d.buf = co[cur].buf
  BY <1>2, <1>5, <1>13
<1> QED
  BY <1>8, <1>9, <1>10, <1>11, <1>12, <1>13, <1>14, <1>15, OwnStepInd, ZenonT(60)

LEMMA DestroyInd ==
  ASSUME ConstOK, IndInv, NEW c \in Co, aco_destroy(c) PROVE IndInv'
<1> USE DEF IndInv, StacksIntact
<1>1. /\ cur = Main /\ owner' = [s \in Stack |-> IF owner[s] = c THEN Nil ELSE owner[s]]
      /\ co' = [co EXCEPT ![c] = None] /\ frames' = [frames EXCEPT ![c] = <<>>]
      /\ UNCHANGED <<stack, mem, cur>>
  BY DEF aco_destroy, OwnerAfter
<1>2. /\ co'[c] = None /\ None.state = "none" /\ None.buf = <<>> /\ None.valid_sz = 0
      /\ \A x \in Co : x # c => co'[x] = co[x] /\ frames'[x] = frames[x]
  BY <1>1 DEF TypeOK, None
<1>3. TypeOK'
  <2>1. co' \in [Co -> Block]
    BY <1>1, NoneType DEF TypeOK, Block
  <2>2. owner' \in [Stack -> Co \cup {Nil}] /\ frames' \in [Co -> Seq(Word)]
    BY <1>1 DEF TypeOK
  <2> QED
    BY <1>1, <2>1, <2>2 DEF TypeOK, Block
<1>4. Placed' /\ NeverRan' /\ SavedWords' /\ SaveFits'
  <2>1. Placed' /\ NeverRan'
    BY <1>1, <1>2 DEF Placed, NeverRan, Exists
  <2>2. SavedWords' /\ SaveFits'
    BY <1>2 DEF SavedWords, SaveFits, Exists
  <2> QED
    BY <2>1, <2>2
<1>5. OneRuns'
  BY <1>1, <1>2 DEF OneRuns, ConstOK
<1>6. StackIntact'
  <2> SUFFICES ASSUME NEW x \in Co, co'[x].state \in {"running", "yielded"} PROVE Intact(x)'
    BY DEF StackIntact
  <2>1. x # c /\ x # Nil
    BY <1>2 DEF ConstOK
  <2>2. co'[x] = co[x] /\ frames'[x] = frames[x] /\ Intact(x) /\ co[x].share \in Stack
    BY <1>2, <2>1 DEF StackIntact, Placed, Exists
  <2>3. (owner'[co[x].share] = x <=> owner[co[x].share] = x)
    BY <1>1, <2>1, <2>2
  <2> QED
    BY <1>1, <2>2, <2>3, IntactKept
<1>7. OwnerSound' /\ FinalValidSize'
  <2>1. OwnerSound'
    BY <1>1, <1>2 DEF OwnerSound, TypeOK
  <2> QED
    BY <1>1, <2>1 DEF FinalValidSize
<1> QED
  BY <1>3, <1>4, <1>5, <1>6, <1>7

LEMMA NextInd == ASSUME ConstOK PROVE IndInv /\ [Next]_vars => IndInv'
<1> SUFFICES ASSUME IndInv, [Next]_vars PROVE IndInv'
  OBVIOUS
<1>1. CASE UNCHANGED vars
  BY <1>1 DEF vars, IndInv, TypeOK, Placed, OneRuns, NeverRan, SavedWords, StacksIntact,
              StackIntact, Intact, OwnerSound, SaveFits, FinalValidSize, Exists
<1>2. ASSUME NEW s \in Stack, NEW sz \in Sizes, NEW guard \in Guards, aco_share_stack_new2(s, sz, guard)
      PROVE  IndInv'
  BY <1>2, NewInd
<1>3. ASSUME NEW s \in Stack, aco_share_stack_destroy(s) PROVE IndInv'
  BY <1>3, DestroyStackInd
<1>4. ASSUME NEW s \in Stack, NEW c \in Co, aco_create(c, s) PROVE IndInv'
  BY <1>4, CreateInd
<1>5. ASSUME NEW c \in Co, aco_resume(c) PROVE IndInv'
  BY <1>5, ResumeInd
<1>6. ASSUME NEW c \in Co, aco_destroy(c) PROVE IndInv'
  BY <1>6, DestroyInd
<1>7. ASSUME NEW v \in Values, Enter(v) PROVE IndInv'
  BY <1>7, EnterInd
<1>8. ASSUME Leave PROVE IndInv'
  BY <1>8, LeaveInd
<1>9. ASSUME aco_yield \/ aco_exit PROVE IndInv'
  BY <1>9, StopInd
<1> QED
  BY <1>1, <1>2, <1>3, <1>4, <1>5, <1>6, <1>7, <1>8, <1>9, Zenon DEF Next

(* However coroutines are created, resumed, yield, end and are destroyed:  *)
(* each finds its frames as it left them, the owner of a share stack is    *)
(* alive, no copy overruns a save stack (aco_resume, aco.c:368-473), and a *)
(* share stack is as long as it must be.                                   *)
THEOREM StacksStay ==
  ASSUME ConstOK PROVE Spec => [](TypeOK /\ StacksIntact)
<1>1. Init => IndInv
  BY InitInd
<1>2. IndInv /\ [Next]_vars => IndInv'
  BY NextInd
<1>3. IndInv => TypeOK /\ StacksIntact
  BY DEF IndInv
<1> QED
  BY <1>1, <1>2, <1>3, PTL DEF Spec
==============================================================================
