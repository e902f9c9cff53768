------------------------------- MODULE CsvText ------------------------------
(***************************************************************************)
(* The writer of src/lib/libcsv/libcsv.c, and LibCsv's parser reading back *)
(* the rows that it was given.                                             *)
(***************************************************************************)
EXTENDS LibCsv

(***************************************************************************)
(* csv_write2 and csv_fwrite2                                              *)
(***************************************************************************)
RECURSIVE Escaped(_)
Escaped(s) ==
    IF s = <<>> THEN <<>>
    ELSE (IF s[1] = "quote" THEN <<"quote", "quote">> ELSE <<s[1]>>) \o Escaped(Tail(s))
csv_fwrite2(s) == <<"quote">> \o Escaped(s) \o <<"quote">>

\* One character more: it is written if there is room, and counted up to SIZE_MAX.
Put(w, c, room) ==
    [dest |-> IF room > w.chars THEN Append(w.dest, c) ELSE w.dest,
     chars |-> IF w.chars < SIZE_MAX THEN w.chars + 1 ELSE w.chars]
RECURSIVE PutAll(_, _, _)
PutAll(w, s, room) == IF s = <<>> THEN w ELSE PutAll(Put(w, s[1], room), Tail(s), room)
csv_write2(s, room) == PutAll([dest |-> <<>>, chars |-> 0], csv_fwrite2(s), room)

-----------------------------------------------------------------------------
\* What csv_write has written is read back, in strict mode too, byte for byte.
RoundTrip ==
    pc = "done" /\ at = Len(source.text) /\ "rows" \in DOMAIN source =>
        out.rows = source.rows /\ status = "success"

\* csv_write2 fills dest up to dest_size and returns the size that is needed, at most
\* SIZE_MAX (csv.3:261, :276).
WriteBounded ==
    \A room \in 0 .. SIZE_MAX :
        LET s == source.text
            w == csv_write2(s, room)
            all == csv_fwrite2(s)
        IN  /\ w.chars = (IF Len(all) < SIZE_MAX THEN Len(all) ELSE SIZE_MAX)
            /\ w.dest = SubSeq(all, 1, IF room < Len(all) THEN room ELSE Len(all))
=============================================================================
