------------------------- MODULE HttpSessionProofs -------------------------
(***************************************************************************)
(* What holds of HttpSession for every client, every set of paths and      *)
(* routes, every buffer size and every number of requests.                 *)
(***************************************************************************)
EXTENDS HttpSession, SequenceTheorems, TLAPS

(* The pieces of the requests so far are pieces of the requests to come. *)
LEMMA PieceGrows ==
  ASSUME reqs \in Seq(Sends), NEW u \in Sends, reqs' = Append(reqs, u),
         NEW s \in Seq(Piece)
  PROVE  s \in Seq(Piece')
<1>1. Len(reqs) \in Nat /\ Len(reqs') = Len(reqs) + 1
  OBVIOUS
<1>2. Piece \subseteq Piece'
  BY <1>1 DEF Piece
<1>3. Len(s) \in Nat /\ s \in [1..Len(s) -> Piece]
  OBVIOUS
<1>4. s \in [1..Len(s) -> Piece']
  BY <1>2, <1>3
<1>5. QED
  BY <1>3, <1>4, SeqDef

(* What recvmsg takes and what it leaves. *)
LEMMA SplitSeq ==
  ASSUME NEW S, NEW s \in Seq(S), NEW n \in 0..Len(s)
  PROVE  SubSeq(s, 1, n) \in Seq(S) /\ SubSeq(s, n + 1, Len(s)) \in Seq(S)
<1>1. Len(s) \in Nat
  OBVIOUS
<1>2. \A i \in 1..n : s[i] \in S
  BY <1>1
<1>3. \A i \in (n + 1)..Len(s) : s[i] \in S
  BY <1>1
<1>4. QED
  BY <1>1, <1>2, <1>3, SubSeqProperties

LEMMA TypeInit == SessionInit => SessionTypeOK
<1> SUFFICES ASSUME SessionInit PROVE SessionTypeOK
  OBVIOUS
<1>1. \A p \in DOMAIN routes : p \in Path
  BY SessionAssumption DEF SessionInit
<1>2. QED
  BY <1>1, SessionAssumption DEF SessionInit, SessionTypeOK, NoUri, NoAnswer, Slot, Answer

LEMMA TypeStep == SessionTypeOK /\ [SessionNext]_sessionVars => SessionTypeOK'
<1> SUFFICES ASSUME SessionTypeOK, [SessionNext]_sessionVars PROVE SessionTypeOK'
  OBVIOUS
<1>1. ASSUME NEW u \in Sends, Request(u) PROVE SessionTypeOK'
  <2>1. reqs \in Seq(Sends) /\ reqs' = Append(reqs, u)
    BY <1>1 DEF SessionTypeOK, Request
  <2>2. rcv' \in Seq(Piece)' /\ buf' \in Seq(Piece)'
    <3>1. rcv \in Seq(Piece) /\ buf \in Seq(Piece) /\ rcv' = rcv /\ buf' = buf
      BY <1>1 DEF SessionTypeOK, Request
    <3>2. QED
      BY <2>1, <3>1, PieceGrows
  <2>3. reqs' \in Seq(Sends) /\ reqs' # <<>>
    BY <2>1
  <2>4. left' \in 0..Pieces
    BY <1>1, SessionAssumption DEF Request
  <2>5. QED
    BY <1>1, <2>2, <2>3, <2>4 DEF SessionTypeOK, Request, Answer, NoAnswer
<1>2. CASE Deliver
  <2> DEFINE Segment(m) == [i \in 1..m |-> [req |-> Len(reqs), k |-> Pieces - left + i]]
  <2>0. left \in 1..Pieces /\ Pieces \in Nat
    BY <1>2, SessionAssumption DEF Deliver, SessionTypeOK
  <2>1. PICK n \in 1..left : rcv' = rcv \o Segment(n) /\ left' = left - n
    <3>1. PICK n \in IF Split THEN 1..left ELSE {left} :
            rcv' = rcv \o Segment(n) /\ left' = left - n
      BY <1>2 DEF Deliver
    <3>2. n \in 1..left
      BY <2>0, <3>1
    <3>3. QED
      BY <3>1, <3>2
  <2>2. left \in 1..Pieces /\ Pieces \in Nat /\ n \in Nat
    BY <2>0, <2>1
  <2>3. Len(reqs) \in 1..Len(reqs)
    BY <1>2 DEF Deliver, SessionTypeOK
  <2>4. \A i \in 1..n : [req |-> Len(reqs), k |-> Pieces - left + i] \in Piece
    BY <2>1, <2>2, <2>3 DEF Piece
  <2>5. Segment(n) \in Seq(Piece)
    <3>1. Segment(n) \in [1..n -> Piece]
      BY <2>4
    <3>2. QED
      BY ONLY <2>2, <3>1, SeqDef, Zenon
  <2>6. rcv' \in Seq(Piece)
    BY <2>1, <2>5, ConcatProperties DEF SessionTypeOK
  <2>7. Piece' = Piece
    BY <1>2 DEF Deliver, Piece
  <2>8. left' \in 0..Pieces /\ events' \in Nat
    BY <1>2, <2>1, <2>2 DEF Deliver, SessionTypeOK
  <2>9. QED
    BY <1>2, <2>6, <2>7, <2>8 DEF Deliver, SessionTypeOK, Answer, NoAnswer
<1>3. CASE RecvMsg
  <2> DEFINE n == IF Len(rcv) < Chunk + Chunk THEN Len(rcv) ELSE Chunk + Chunk
  <2>1. rcv \in Seq(Piece) /\ n \in 0..Len(rcv)
    BY SessionAssumption DEF SessionTypeOK
  <2>2. /\ buf' = SubSeq(rcv, 1, n) /\ rcv' = SubSeq(rcv, n + 1, Len(rcv))
        /\ pc' = IF n = 0 THEN "idle" ELSE "parse"
    BY <1>3 DEF RecvMsg
  <2>3. buf' \in Seq(Piece) /\ rcv' \in Seq(Piece)
    BY <2>1, <2>2, SplitSeq
  <2>4. Piece' = Piece
    BY <1>3 DEF RecvMsg, client, Piece
  <2>5. pool' \in [Slot \cup {"IOV"} -> Nat] /\ events' \in Nat
    BY <1>3 DEF RecvMsg, SessionTypeOK
  <2>6. QED
    BY <1>3, <2>2, <2>3, <2>4, <2>5 DEF RecvMsg, SessionTypeOK, client, Answer, NoAnswer
<1>4. CASE Parse
  <2>1. uri' \in [req : Nat, path : Path \cup {NoPath}]
    <3>1. CASE UrlAt = {}
      BY <1>4, <3>1 DEF Parse, SessionTypeOK
    <3>2. CASE UrlAt # {}
      <4>1. PICK i \in UrlAt : \E p \in PathsAt(i) : uri' = OnUrl(i, p)
        BY <1>4, <3>2 DEF Parse
      <4>2. PICK p \in PathsAt(i) : uri' = OnUrl(i, p)
        BY <4>1
      <4>3. i \in 1..Len(buf) /\ Continues(i)
        BY <4>1 DEF UrlAt, Parsed
      <4>4. buf[i] \in Piece
        BY <4>3 DEF SessionTypeOK
      <4>5. buf[i].req \in 1..Len(reqs)
        BY <4>4 DEF Piece
      <4>6. reqs[buf[i].req] \in Path \cup {NoPath}
        BY <4>3, <4>5, SessionAssumption DEF SessionTypeOK, Continues
      <4>7. p \in Path \cup {NoPath}
        BY <4>2, <4>6, SessionAssumption DEF PathsAt
      <4>8. buf[i].req \in Nat
        BY <4>5 DEF SessionTypeOK
      <4>9. QED
        BY <4>2, <4>7, <4>8 DEF OnUrl
    <3>3. QED
      BY <3>1, <3>2
  <2>2. Piece' = Piece
    BY <1>4 DEF Parse, client, Piece
  <2>3. pool' \in [Slot \cup {"IOV"} -> Nat] /\ slots' \subseteq Slot
    BY <1>4 DEF Parse, SessionTypeOK
  <2>4. QED
    BY <1>4, <2>1, <2>2, <2>3 DEF Parse, SessionTypeOK, client, Answer, NoAnswer
<1>5. CASE Route
  <2>1. Piece' = Piece
    BY <1>5 DEF Route, client, Piece
  <2>2. CASE uri.path = NoPath
    BY <1>5, <2>1, <2>2 DEF Route, SessionTypeOK, client, Answer, NoAnswer
  <2>3. CASE uri.path # NoPath
    <3>1. uri.path \in Path /\ uri.req \in Nat
      BY <2>3 DEF SessionTypeOK
    <3>2. resp' \in Answer
      BY <1>5, <2>3, <3>1 DEF Route, Answer, Captcha, NoAction
    <3>3. DOMAIN routes' \subseteq Path
      BY <1>5, <2>3, <3>1 DEF Route, SessionTypeOK
    <3>4. QED
      BY <1>5, <2>1, <2>3, <3>2, <3>3 DEF Route, SessionTypeOK, client, Answer, NoAnswer
  <2>4. QED
    BY <2>2, <2>3
<1>6. CASE SendMsg
  <2>1. Piece' = Piece
    BY <1>6 DEF SendMsg, client, Piece
  <2>2. answers' \in Seq(Answer)
    <3>1. answers \in Seq(Answer) /\ resp \in Answer
      BY <1>6 DEF SendMsg, SessionTypeOK
    <3>2. answers' = Append(answers, resp) \/ answers' = answers
      BY <1>6 DEF SendMsg
    <3>3. QED
      BY <3>1, <3>2
  <2>3. QED
    BY <1>6, <2>1, <2>2 DEF SendMsg, SessionTypeOK, client, Answer, NoAnswer
<1>7. CASE UNCHANGED sessionVars
  BY <1>7 DEF sessionVars, client, SessionTypeOK, Piece, Answer, NoAnswer
<1>8. QED
  BY <1>1, <1>2, <1>3, <1>4, <1>5, <1>6, <1>7 DEF SessionNext, SessionStep

(* mod_http.c, ioqueue_socket.c: a URL without a path is never looked up,  *)
(* a piece never belongs to a request that was not sent, and the buffers   *)
(* are either at their full size or at that of an answer.                  *)
THEOREM TypeCorrect == SessionSafety => []SessionTypeOK
BY TypeInit, TypeStep, PTL DEF SessionSafety

-----------------------------------------------------------------------------
LEMMA PoolInit == SessionInit => PoolInv
BY DEF SessionInit, PoolInv, Slot

(* Slots and iovec say what was allocated, so nothing is allocated twice. *)
LEMMA PoolStep == SessionTypeOK /\ PoolInv /\ [SessionNext]_sessionVars => PoolInv'
<1> SUFFICES ASSUME SessionTypeOK, PoolInv, [SessionNext]_sessionVars PROVE PoolInv'
  OBVIOUS
<1>1. CASE \E u \in Sends : Request(u)
  BY <1>1 DEF Request, PoolInv
<1>2. CASE Deliver
  BY <1>2 DEF Deliver, PoolInv
<1>3. CASE RecvMsg
  <2>1. iov' # <<>>
    BY <1>3 DEF RecvMsg
  <2>2. pool'["IOV"] = 1
    BY <1>3 DEF RecvMsg, PoolInv, SessionTypeOK
  <2>3. \A b \in Slot : pool'[b] = pool[b]
    BY <1>3 DEF RecvMsg, PoolInv, SessionTypeOK, Slot
  <2>4. QED
    BY <1>3, <2>1, <2>2, <2>3 DEF RecvMsg, PoolInv
<1>4. CASE Parse
  <2>1. \A b \in Slot : pool'[b] = 1
    BY <1>4 DEF Parse, PoolInv, SessionTypeOK
  <2>2. pool'["IOV"] = pool["IOV"]
    BY <1>4 DEF Parse, SessionTypeOK, Slot
  <2>3. QED
    BY <1>4, <2>1, <2>2 DEF Parse, PoolInv
<1>5. CASE Route
  <2>1. iov' # <<>>
    BY <1>5 DEF Route, PoolInv
  <2>2. QED
    BY <1>5, <2>1 DEF Route, PoolInv
<1>6. CASE SendMsg
  BY <1>6 DEF SendMsg, PoolInv
<1>7. CASE UNCHANGED sessionVars
  BY <1>7 DEF sessionVars, PoolInv
<1>8. QED
  BY <1>1, <1>2, <1>3, <1>4, <1>5, <1>6, <1>7 DEF SessionNext, SessionStep

(* mod_http.c:352-447 and ioqueue_socket.c:31-55: however many requests a  *)
(* connection carries, and however they are cut, each block of the hook's  *)
(* memory pool is allocated at most once.                                  *)
THEOREM PoolIsBounded == SessionSafety => []PoolBounded
<1>1. SessionTypeOK /\ PoolInv => PoolBounded
  BY DEF SessionTypeOK, PoolInv, PoolBounded
<1>2. QED
  BY <1>1, TypeInit, TypeStep, PoolInit, PoolStep, PTL DEF SessionSafety

-----------------------------------------------------------------------------
LEMMA RoutesInit == SessionInit => RoutesInv
<1> SUFFICES ASSUME SessionInit PROVE RoutesInv
  OBVIOUS
<1>1. RoutesKeepMeaning
  BY DEF SessionInit, RoutesKeepMeaning
<1>2. QED
  BY <1>1 DEF SessionInit, RoutesInv

(* Appending the prepared answer keeps every answer right. *)
LEMMA AnswerRight ==
  ASSUME SessionTypeOK, RoutesInv, pc = "send", answers' = Append(answers, resp)
  PROVE  RoutesKeepMeaning'
<1>1. resp \in Answer /\ answers \in Seq(Answer)
  BY DEF SessionTypeOK
<1>2. SUFFICES ASSUME NEW i \in DOMAIN answers'
               PROVE  answers'[i].code = Code(answers'[i].path)
  BY DEF RoutesKeepMeaning, Code
<1>3. CASE i \in DOMAIN answers
  <2>1. answers'[i] = answers[i]
    BY <1>1, <1>3
  <2>2. QED
    BY <1>3, <2>1 DEF RoutesInv, RoutesKeepMeaning, Code
<1>4. CASE i \notin DOMAIN answers
  <2>1. answers'[i] = resp
    BY <1>1, <1>2, <1>4
  <2>2. QED
    BY <2>1 DEF RoutesInv
<1>5. QED
  BY <1>3, <1>4

LEMMA RoutesStep == SessionTypeOK /\ RoutesInv /\ [SessionNext]_sessionVars => RoutesInv'
<1> SUFFICES ASSUME SessionTypeOK, RoutesInv, [SessionNext]_sessionVars PROVE RoutesInv'
  OBVIOUS
<1>1. CASE \E u \in Sends : Request(u)
  BY <1>1 DEF Request, RoutesInv, RoutesKeepMeaning, Code
<1>2. CASE Deliver
  BY <1>2 DEF Deliver, RoutesInv, RoutesKeepMeaning, Code
<1>3. CASE RecvMsg
  BY <1>3 DEF RecvMsg, RoutesInv, RoutesKeepMeaning, Code
<1>4. CASE Parse
  BY <1>4 DEF Parse, RoutesInv, RoutesKeepMeaning, Code
<1>5. CASE Route
  <2>1. CASE uri.path = NoPath
    BY <1>5, <2>1 DEF Route, RoutesInv, RoutesKeepMeaning, Code
  <2>2. CASE uri.path # NoPath
    <3>1. \A p : Lookup(p) = IF p \in Routed THEN "action" ELSE "blank"
      BY DEF Lookup, RoutesInv
    <3>2. routes' = [p \in DOMAIN routes \cup {uri.path} |-> Lookup(p)]
      BY <1>5, <2>2 DEF Route
    <3>3. DOMAIN routes' = DOMAIN routes \cup {uri.path}
      BY <3>2
    <3>4. \A p \in DOMAIN routes' : routes'[p] = IF p \in Routed THEN "action" ELSE "blank"
      BY <3>1, <3>2
    <3>5. Routed \subseteq DOMAIN routes'
      BY <3>3 DEF RoutesInv
    <3>6. resp'.code = Code(resp'.path)
      BY <1>5, <2>2, <3>1 DEF Route, Code, Captcha, NoAction
    <3>7. RoutesKeepMeaning'
      BY <1>5 DEF Route, RoutesInv, RoutesKeepMeaning
    <3>8. QED
      BY <3>4, <3>5, <3>6, <3>7 DEF RoutesInv, Code
  <2>3. QED
    BY <2>1, <2>2
<1>6. CASE SendMsg
  <2>1. RoutesKeepMeaning'
    <3>1. CASE answers' = Append(answers, resp)
      BY <1>6, <3>1, AnswerRight DEF SendMsg
    <3>2. CASE answers' = answers
      BY <3>2 DEF RoutesInv, RoutesKeepMeaning
    <3>3. QED
      BY <1>6, <3>1, <3>2 DEF SendMsg
  <2>2. QED
    BY <1>6, <2>1 DEF SendMsg, RoutesInv
<1>7. CASE UNCHANGED sessionVars
  BY <1>7 DEF sessionVars, RoutesInv, RoutesKeepMeaning, Code
<1>8. QED
  BY <1>1, <1>2, <1>3, <1>4, <1>5, <1>6, <1>7 DEF SessionNext, SessionStep

(* mod_http.c:467: whatever paths were looked up, and left blank entries   *)
(* in the route table, a path is answered 200 if it has an action and 403  *)
(* otherwise.                                                              *)
THEOREM RoutesMeaning == SessionSafety => []RoutesKeepMeaning
<1>1. RoutesInv => RoutesKeepMeaning
  BY DEF RoutesInv
<1>2. QED
  BY <1>1, TypeInit, TypeStep, RoutesInit, RoutesStep, PTL DEF SessionSafety
-----------------------------------------------------------------------------
(* Orderly clients get their own answers.                                  *)

LEMMA WholeSeq ==
  ASSUME SessionTypeOK
  PROVE  /\ Whole \in Seq([req : Nat, k : Nat]) /\ Len(Whole) = Pieces /\ Whole # <<>>
         /\ \A i \in 1..Pieces : Whole[i] = [req |-> Len(reqs), k |-> i]
<1>1. Pieces \in Nat /\ Pieces > 0 /\ Len(reqs) \in Nat
  BY SessionAssumption DEF SessionTypeOK
<1>2. Whole \in [1..Pieces -> [req : Nat, k : Nat]]
  BY <1>1 DEF Whole
<1>3. Whole \in Seq([req : Nat, k : Nat])
  BY <1>1, <1>2, SeqDef
<1>4. Len(Whole) = Pieces
  <2>1. DOMAIN Whole = 1..Pieces /\ DOMAIN Whole = 1..Len(Whole) /\ Len(Whole) \in Nat
    BY <1>2, <1>3, LenProperties
  <2> QED
    BY <1>1, <2>1
<1>5. \A i \in 1..Pieces : Whole[i] = [req |-> Len(reqs), k |-> i]
  BY DEF Whole
<1> QED
  BY <1>1, <1>3, <1>4, <1>5

LEMMA OrderlyInit == SessionInit => OrderlyInv
BY DEF SessionInit, OrderlyInv, OwnAnswer

LEMMA OrderlyRequest ==
  ASSUME Orderly, SessionTypeOK, OrderlyInv, NEW u \in Sends, Request(u) PROVE OrderlyInv'
<1>1. /\ left = 0 /\ Len(answers) >= Len(reqs) /\ reqs' = Append(reqs, u) /\ left' = Pieces
      /\ UNCHANGED <<rcv, pc, buf, uri, resp, answers>>
  BY DEF Request, Orderly
<1>2. reqs \in Seq(Sends) /\ answers \in Seq(Answer) /\ Len(reqs) \in Nat /\ Len(answers) \in Nat
  BY DEF SessionTypeOK
<1>3. Len(reqs) = Len(answers) /\ ~Outstanding
  BY <1>1, <1>2 DEF OrderlyInv, Outstanding
<1>4. rcv = <<>> /\ pc = "idle"
  BY <1>3 DEF OrderlyInv
<1>5. Outstanding'
  BY <1>1, <1>2, <1>3 DEF Outstanding
<1>6. OwnAnswer'
  <2>1. Len(answers') <= Len(reqs')
    BY <1>1, <1>2, <1>3
  <2>2. ASSUME NEW i \in DOMAIN answers PROVE answers[i].req = i /\ answers[i].path = reqs'[i]
    <3>1. i \in DOMAIN reqs
      BY <1>2, <1>3
    <3>2. reqs'[i] = reqs[i]
      BY <1>1, <1>2, <3>1
    <3> QED
      BY <3>2 DEF OrderlyInv, OwnAnswer
  <2> QED
    BY <1>1, <2>1, <2>2 DEF OwnAnswer
<1> QED
  BY <1>1, <1>4, <1>5, <1>6 DEF OrderlyInv

(* One segment delivers the request whole. *)
LEMMA OrderlyDeliver ==
  ASSUME Orderly, SessionTypeOK, OrderlyInv, Deliver PROVE OrderlyInv'
<1>1. left = Pieces /\ rcv = <<>> /\ pc = "idle" /\ Outstanding /\ Pieces \in Nat
  BY SessionAssumption DEF Deliver, OrderlyInv
<1>2. UNCHANGED <<reqs, pc, buf, uri, resp, answers>>
  BY DEF Deliver
<1> DEFINE g == [i \in 1..Pieces |-> [req |-> Len(reqs), k |-> Pieces - Pieces + i]]
<1>3. rcv' = rcv \o g /\ left' = left - left
  BY <1>1 DEF Deliver, Orderly
<1>4. g = Whole
  <2>1. \A i \in 1..Pieces : Pieces - Pieces + i = i
    BY <1>1
  <2> QED
    BY <2>1 DEF Whole
<1> HIDE DEF g
<1>5. rcv' = Whole /\ left' = 0
  BY <1>1, <1>3, <1>4, WholeSeq, ConcatEmptySeq
<1>6. Whole' = Whole /\ Outstanding' /\ OwnAnswer'
  BY <1>1, <1>2 DEF Whole, Outstanding, OrderlyInv, OwnAnswer
<1> QED
  BY <1>1, <1>2, <1>5, <1>6 DEF OrderlyInv

(* recvmsg takes it whole, as the first buffer alone could hold it. *)
LEMMA OrderlyRecv ==
  ASSUME Orderly, SessionTypeOK, OrderlyInv, RecvMsg PROVE OrderlyInv'
<1> DEFINE n == IF Len(rcv) < Chunk + Chunk THEN Len(rcv) ELSE Chunk + Chunk
<1>1. /\ pc = "idle" /\ buf' = SubSeq(rcv, 1, n) /\ rcv' = SubSeq(rcv, n + 1, Len(rcv))
      /\ pc' = IF n = 0 THEN "idle" ELSE "parse"
      /\ UNCHANGED <<reqs, left, uri, resp, answers>>
  BY DEF RecvMsg, client
<1>2. Whole' = Whole /\ (Outstanding' <=> Outstanding) /\ OwnAnswer'
  BY <1>1 DEF Whole, Outstanding, OrderlyInv, OwnAnswer
<1>3. rcv \in Seq(Piece) /\ Len(rcv) \in Nat /\ Chunk \in Nat /\ Pieces \in Nat
  BY SessionAssumption DEF SessionTypeOK
<1>4. n = Len(rcv)
  <2>1. rcv # <<>> => Len(rcv) = Pieces
    BY WholeSeq DEF OrderlyInv
  <2>2. rcv = <<>> => Len(rcv) = 0
    OBVIOUS
  <2> QED
    BY <1>3, <2>1, <2>2 DEF Orderly
<1>5. rcv' = <<>> /\ buf' = rcv
  <2>1. SubSeq(rcv, n + 1, Len(rcv)) = <<>>
    <3>1. SubSeq(rcv, Len(rcv) + 1, Len(rcv)) = <<>>
      BY <1>3, SubSeqEmpty
    <3> HIDE DEF n
    <3> QED
      BY <1>4, <3>1
  <2>2. SubSeq(rcv, 1, n) = rcv
    BY <1>3, <1>4, SubSeqFull
  <2> QED
    BY <1>1, <2>1, <2>2
<1>6. CASE rcv = <<>>
  <2>1. n = 0
    BY <1>4, <1>6
  <2> QED
    BY <1>1, <1>2, <1>5, <2>1 DEF OrderlyInv
<1>7. CASE rcv # <<>>
  <2>1. left = 0 /\ Outstanding /\ rcv = Whole
    BY <1>7 DEF OrderlyInv
  <2>2. pc' \in {"idle", "parse"}
    BY <1>1
  <2> QED
    BY <1>1, <1>2, <1>5, <2>1, <2>2 DEF OrderlyInv
<1> QED
  BY <1>6, <1>7

(* The parser finds the one URL, complete. *)
LEMMA OrderlyUrl ==
  ASSUME Orderly, SessionTypeOK, OrderlyInv, pc = "parse"
  PROVE  UrlAt = {2} /\ buf[2].req = Len(reqs) /\ PathsAt(2) = {reqs[Len(reqs)]}
<1>1. /\ buf = Whole /\ Len(reqs) \in Nat /\ Len(reqs) > 0 /\ Len(answers) \in Nat
      /\ Pieces \in Nat /\ Pieces > 1 /\ Chunk \in Nat /\ Pieces <= Chunk
  BY SessionAssumption DEF SessionTypeOK, OrderlyInv, Outstanding, Orderly
<1>2. Len(buf) = Pieces /\ \A i \in 1..Pieces : buf[i] = [req |-> Len(reqs), k |-> i]
  BY <1>1, WholeSeq
<1>3. \A i \in 1..Pieces : buf[i].req = Len(reqs) /\ buf[i].k = i
  BY <1>2
<1>4. reqs[Len(reqs)] # Junk
  <2>1. reqs[Len(reqs)] \in Sends
    BY <1>1 DEF SessionTypeOK
  <2> QED
    BY <2>1 DEF Orderly
<1>5. ASSUME NEW i \in 1..Pieces PROVE Continues(i)
  <2>1. CASE i = 1
    BY <1>3, <1>4, <2>1 DEF Continues
  <2>2. CASE i # 1
    <3>1. i - 1 \in 1..Pieces /\ i - 1 # Pieces
      BY <1>1, <2>2
    <3>2. buf[i].k = i /\ buf[i - 1].k = i - 1 /\ reqs[buf[i].req] # Junk
      BY <1>3, <1>4, <3>1
    <3> QED
      BY <1>1, <2>2, <3>1, <3>2 DEF Continues
  <2> QED
    BY <2>1, <2>2
<1>6. \A i \in 1..Pieces : Parsed(i)
  <2> SUFFICES ASSUME NEW i \in 1..Pieces PROVE Parsed(i)
    OBVIOUS
  <2>1. \A j \in 1..i : j \in 1..Pieces
    BY <1>1
  <2> QED
    BY <1>1, <1>5, <2>1 DEF Parsed
<1>7. UrlAt = {2}
  <2>1. 2 \in UrlAt
    BY <1>1, <1>2, <1>3, <1>6 DEF UrlAt
  <2>2. \A i \in UrlAt : i = 2
    <3> SUFFICES ASSUME NEW i \in 1..Pieces, buf[i].k = 2 \/ (buf[i].k = 1 /\ i = Pieces)
                 PROVE  i = 2
      BY <1>2 DEF UrlAt
    <3> QED
      BY <1>1, <1>3
  <2> QED
    BY <2>1, <2>2
<1>8. 2 \in 1..Pieces
  BY <1>1
<1>9. buf[2].k = 2 /\ buf[2].req = Len(reqs)
  BY <1>3, <1>8
<1> QED
  BY <1>7, <1>9 DEF PathsAt

LEMMA OrderlyParse ==
  ASSUME Orderly, SessionTypeOK, OrderlyInv, Parse PROVE OrderlyInv'
<1>1. /\ pc = "parse" /\ pc' = "route"
      /\ UNCHANGED <<reqs, left, rcv, buf, resp, answers>>
  BY DEF Parse, client
<1>2. UrlAt = {2} /\ buf[2].req = Len(reqs) /\ PathsAt(2) = {reqs[Len(reqs)]}
  BY <1>1, OrderlyUrl
<1>3. uri' = [req |-> Len(reqs), path |-> reqs[Len(reqs)]]
  BY <1>2 DEF Parse, OnUrl
<1>4. uri'.req = Len(reqs) /\ uri'.path = reqs[Len(reqs)]
  BY <1>3
<1>5. Outstanding' /\ OwnAnswer' /\ left = 0 /\ rcv = <<>>
  BY <1>1 DEF OrderlyInv, Outstanding, OwnAnswer, SessionTypeOK
<1> QED
  BY <1>1, <1>4, <1>5 DEF OrderlyInv

LEMMA OrderlyRoute ==
  ASSUME Orderly, SessionTypeOK, OrderlyInv, Route PROVE OrderlyInv'
<1>1. /\ pc = "route" /\ pc' \in {"idle", "send"}
      /\ pc' = "send" => resp' \in {Captcha(uri), NoAction(uri)}
      /\ UNCHANGED <<reqs, left, rcv, buf, uri, answers>>
  BY DEF Route, client
<1>2. pc' = "send" => resp'.req = Len(reqs) /\ resp'.path = reqs[Len(reqs)]
  BY <1>1 DEF OrderlyInv, Captcha, NoAction
<1>3. Outstanding' /\ OwnAnswer' /\ left = 0 /\ rcv = <<>>
  BY <1>1 DEF OrderlyInv, Outstanding, OwnAnswer, SessionTypeOK
<1> QED
  BY <1>1, <1>2, <1>3 DEF OrderlyInv

LEMMA OrderlySend ==
  ASSUME Orderly, SessionTypeOK, OrderlyInv, SendMsg PROVE OrderlyInv'
<1>1. /\ pc = "send" /\ pc' = "idle" /\ answers' = Append(answers, resp)
      /\ UNCHANGED <<reqs, left, rcv, buf, uri, resp>>
  BY DEF SendMsg, client, Orderly
<1>2. answers \in Seq(Answer) /\ resp \in Answer /\ Len(answers) \in Nat
  BY <1>1 DEF SessionTypeOK
<1>3. /\ Len(reqs) = Len(answers) + 1 /\ left = 0 /\ rcv = <<>>
      /\ resp.req = Len(reqs) /\ resp.path = reqs[Len(reqs)]
  BY <1>1 DEF OrderlyInv, Outstanding, SessionTypeOK
<1>4. Len(answers') = Len(reqs)
  BY <1>1, <1>2, <1>3
<1>5. ASSUME NEW i \in DOMAIN answers' PROVE answers'[i].req = i /\ answers'[i].path = reqs[i]
  <2>1. CASE i \in DOMAIN answers
    BY <1>1, <1>2, <2>1 DEF OrderlyInv, OwnAnswer
  <2>2. CASE i \notin DOMAIN answers
    <3>1. i = Len(reqs) /\ answers'[i] = resp
      BY <1>1, <1>2, <1>3, <2>2
    <3> QED
      BY <1>3, <3>1
  <2> QED
    BY <2>1, <2>2
<1>6. OwnAnswer'
  BY <1>1, <1>2, <1>3, <1>4, <1>5 DEF OwnAnswer
<1> QED
  BY <1>1, <1>3, <1>4, <1>6 DEF OrderlyInv

(* mod_http.c:329-505: a client that waits for each answer, and whose      *)
(* requests are single segments with a URL that fit in the first buffer,   *)
(* gets as its n-th answer the one to its n-th request, for any number of  *)
(* requests: the URL slot and the buffers that the connection keeps never  *)
(* hold another one's when the answer is made.                             *)
THEOREM AnswersAreOwn ==
  ASSUME Orderly PROVE SessionSafety => []OwnAnswer
<1>1. SessionTypeOK /\ OrderlyInv /\ [SessionNext]_sessionVars => OrderlyInv'
  <2> SUFFICES ASSUME SessionTypeOK, OrderlyInv, [SessionNext]_sessionVars PROVE OrderlyInv'
    OBVIOUS
  <2>1. CASE UNCHANGED sessionVars
    <3>1. UNCHANGED <<reqs, left, rcv, pc, buf, uri, resp, answers>>
      BY <2>1 DEF sessionVars, client
    <3> QED
      BY <3>1 DEF OrderlyInv, Outstanding, OwnAnswer, Whole
  <2> QED
    BY <2>1, OrderlyRequest, OrderlyDeliver, OrderlyRecv, OrderlyParse, OrderlyRoute, OrderlySend
    DEF SessionNext, SessionStep
<1>2. OrderlyInv => OwnAnswer
  BY DEF OrderlyInv
<1> QED
  BY <1>1, <1>2, TypeInit, TypeStep, OrderlyInit, PTL DEF SessionSafety
=============================================================================
