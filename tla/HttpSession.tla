---------------------------- MODULE HttpSession ----------------------------
(***************************************************************************)
(* One HTTP connection over many events: hook_on_data_test, the receive    *)
(* and send of ioqueue_socket.c, http_on_data_default and on_url_cb        *)
(* (mod_http.c), and what they keep in the hook between two events.        *)
(*                                                                         *)
(* A request is cut into pieces, the unit in which bytes are delivered,    *)
(* received and parsed: the URL is in pieces 1 and 2, headers are in the   *)
(* rest.  Of a URL only its path counts; the query is stored but nothing   *)
(* reads it.  One worker at a time has the hook and gets an event for      *)
(* every edge that was not merged with another (Dispatch).                 *)
(*                                                                         *)
(* The parser library (external) is initialised anew before every read: it *)
(* takes pieces as long as they continue a request from its beginning,     *)
(* reports the URL when complete or when the input ends within it, and     *)
(* stops at anything else, which the code only logs.                       *)
(***************************************************************************)
EXTENDS Naturals, Sequences

CONSTANTS
  Path, Routed,     \* paths of requests; those module_start has routes for
  NoPath, Junk,     \* a URL without a path; a request without a URL
  Cut,              \* the paths of a URL whose end is missing, by its path
  Sends,            \* what this client sends: of Path, NoPath and Junk
  Split,            \* whether a request may arrive in several segments
  Pipeline,         \* whether the client sends without waiting for answers
  Chunk,            \* IOV_CHUNK: the pieces one buffer holds
  Pieces,           \* the pieces of a request
  MaxReq            \* bound: how many requests are sent

ASSUME SessionAssumption ==
  /\ Routed \subseteq Path /\ NoPath \notin Path /\ Junk \notin Path \cup {NoPath}
  /\ Cut \in [Path \cup {NoPath} -> SUBSET (Path \cup {NoPath})]
  /\ Sends \subseteq Path \cup {NoPath, Junk}
  /\ Split \in BOOLEAN /\ Pipeline \in BOOLEAN
  /\ Chunk \in Nat \ {0} /\ Pieces \in Nat \ {0, 1} /\ MaxReq \in Nat

VARIABLES
  reqs, left,       \* client: requests so far, pieces of the last one to deliver
  rcv, events,      \* the socket's receive buffer; events not handled yet
  pc, buf,          \* worker: control point; what the last recvmsg received
  iov,              \* iov_len of the two buffers (empty: no iovec yet)
  pool,             \* hp->mp: how often the blocks of each slot were allocated
  slots,            \* the udata slots that are set
  uri,              \* req[URI], req[ULEN]: request it is of and its path
  resp,             \* the answer in the two buffers
  routes,           \* the route trie: path -> "action" or "blank"
  answers           \* what was sent back

client == <<reqs, left>>
sessionVars == <<client, rcv, events, pc, buf, iov, pool, slots, uri, resp, routes, answers>>

Slot == {"MSGHDR", "HS", "REQ", "HP", "RESP"}
NoUri == [req |-> 0, path |-> NoPath]
NoAnswer == [req |-> 0, path |-> NoPath, code |-> 0]

(* ioqueue_socket_on_connect leaves a msghdr without an iovec. *)
SessionInit ==
  /\ reqs = <<>> /\ left = 0 /\ rcv = <<>> /\ events = 0
  /\ pc = "idle" /\ buf = <<>> /\ iov = <<>>
  /\ pool = [b \in Slot \cup {"IOV"} |-> IF b = "MSGHDR" THEN 1 ELSE 0]
  /\ slots = {"MSGHDR"}
  /\ uri = NoUri /\ resp = NoAnswer
  /\ routes = [p \in Routed |-> "action"]
  /\ answers = <<>>

-----------------------------------------------------------------------------
(* The client.                                                             *)

Request(u) ==
  /\ Len(reqs) < MaxReq /\ left = 0
  /\ Pipeline \/ Len(answers) >= Len(reqs)
  /\ reqs' = Append(reqs, u)
  /\ left' = Pieces
  /\ UNCHANGED <<rcv, events, pc, buf, iov, pool, slots, uri, resp, routes, answers>>

(* A segment: a new edge, merged with one that is still pending or not. *)
Deliver ==
  /\ left > 0
  /\ \E n \in IF Split THEN 1..left ELSE {left} :
       /\ rcv' = rcv \o [i \in 1..n |-> [req |-> Len(reqs), k |-> Pieces - left + i]]
       /\ left' = left - n
  /\ events' \in {events + 1} \cup (IF events > 0 THEN {events} ELSE {})
  /\ UNCHANGED <<reqs, pc, buf, iov, pool, slots, uri, resp, routes, answers>>

-----------------------------------------------------------------------------
(* hook_on_data_test                                                       *)

(* Mutant: the iov_len that the last answer left are not reset. *)
RecvMsgWithoutReset ==
  /\ pc = "idle" /\ events > 0
  /\ events' = events - 1
  /\ pool' = IF iov = <<>> THEN [pool EXCEPT !["IOV"] = @ + 1] ELSE pool
  /\ iov' = IF iov = <<>> THEN <<Chunk, Chunk>> ELSE iov
  /\ LET room == iov'[1] + iov'[2]
         n == IF Len(rcv) < room THEN Len(rcv) ELSE room
     IN /\ buf' = SubSeq(rcv, 1, n)
        /\ rcv' = SubSeq(rcv, n + 1, Len(rcv))
        /\ pc' = IF n = 0 THEN "idle" ELSE "parse"
  /\ UNCHANGED <<client, slots, uri, resp, routes, answers>>

(* ioqueue_socket_recvmsg: the buffers are made on the first call and have *)
(* their full size again on the others.  Without data, nothing more.       *)
RecvMsg ==
  /\ pc = "idle" /\ events > 0
  /\ events' = events - 1
  /\ pool' = IF iov = <<>> THEN [pool EXCEPT !["IOV"] = @ + 1] ELSE pool
  /\ iov' = <<Chunk, Chunk>>
  /\ LET room == iov'[1] + iov'[2]
         n == IF Len(rcv) < room THEN Len(rcv) ELSE room
     IN /\ buf' = SubSeq(rcv, 1, n)
        /\ rcv' = SubSeq(rcv, n + 1, Len(rcv))
        /\ pc' = IF n = 0 THEN "idle" ELSE "parse"
  /\ UNCHANGED <<client, slots, uri, resp, routes, answers>>

(* http_parser_execute on msg_iov[0] with the length nread = Len(buf).     *)
(* Past the first buffer it finds other memory, and no URL in it.          *)
Continues(i) ==
  /\ reqs[buf[i].req] # Junk
  /\ buf[i].k = IF i = 1 \/ buf[i - 1].k = Pieces THEN 1 ELSE buf[i - 1].k + 1
Parsed(i) == i <= Chunk /\ \A j \in 1..i : Continues(j)

(* The calls of on_url. *)
UrlAt == {i \in 1..Len(buf) : Parsed(i) /\ (buf[i].k = 2 \/ (buf[i].k = 1 /\ i = Len(buf)))}

(* on_url_cb: the last call overwrites the ones before. *)
OnUrl(i, p) == [req |-> buf[i].req, path |-> p]

(* The path in the URL, which may be cut short. *)
PathsAt(i) == IF buf[i].k = 1 THEN Cut[reqs[buf[i].req]] ELSE {reqs[buf[i].req]}

(* Mutant: the parser's address is not kept in the hook. *)
ParseForgetsSlot ==
  /\ pc = "parse"
  /\ pool' = [b \in DOMAIN pool |-> IF b \in Slot \ slots THEN pool[b] + 1 ELSE pool[b]]
  /\ slots' = Slot \ {"HP"}
  /\ IF UrlAt = {} THEN UNCHANGED uri
     ELSE \E i \in UrlAt : \E p \in PathsAt(i) :
            (\A j \in UrlAt : j <= i) /\ uri' = OnUrl(i, p)
  /\ pc' = "route"
  /\ UNCHANGED <<client, rcv, events, buf, iov, resp, routes, answers>>

(* http_on_data_default up to the URL: blocks the hook does not have yet   *)
(* are allocated; without a call of on_url the URL of an earlier read      *)
(* stays.                                                                  *)
Parse ==
  /\ pc = "parse"
  /\ pool' = [b \in DOMAIN pool |-> IF b \in Slot \ slots THEN pool[b] + 1 ELSE pool[b]]
  /\ slots' = Slot
  /\ IF UrlAt = {} THEN UNCHANGED uri
     ELSE \E i \in UrlAt : \E p \in PathsAt(i) :
            (\A j \in UrlAt : j <= i) /\ uri' = OnUrl(i, p)
  /\ pc' = "route"
  /\ UNCHANGED <<client, rcv, events, buf, iov, resp, routes, answers>>

(* Mutant: takes the presence of a route for its action. *)
LookupPresent(p) == IF p \in DOMAIN routes THEN "action" ELSE "blank"

(* _aget(route, path), awk-style: a missing key is inserted, blank. *)
Lookup(p) == IF p \in DOMAIN routes THEN routes[p] ELSE "blank"

(* captcha_get and captcha_verify print the path into the answer. *)
Captcha(u) == [req |-> u.req, path |-> u.path, code |-> 200]

(* "No action defined against route." *)
NoAction(u) == [req |-> u.req, path |-> u.path, code |-> 403]

(* Mutant: no answer for a path without an action. *)
RouteSilentOnMiss ==
  /\ pc = "route"
  /\ IF uri.path = NoPath \/ Lookup(uri.path) = "blank"
     THEN pc' = "idle" /\ UNCHANGED <<routes, resp, iov>>
     ELSE /\ resp' = Captcha(uri)
          /\ iov' = <<1, 1>>
          /\ pc' = "send" /\ UNCHANGED routes
  /\ UNCHANGED <<client, rcv, events, buf, pool, slots, uri, answers>>

(* No path, no answer; else the action's answer or a 403.  Either is       *)
(* printed into the two buffers, whose iov_len shrink to it.               *)
Route ==
  /\ pc = "route"
  /\ IF uri.path = NoPath
     THEN pc' = "idle" /\ UNCHANGED <<routes, resp, iov>>
     ELSE /\ routes' = [p \in DOMAIN routes \cup {uri.path} |-> Lookup(p)]
          /\ resp' = IF Lookup(uri.path) = "action" THEN Captcha(uri) ELSE NoAction(uri)
          /\ iov' = <<1, 1>>
          /\ pc' = "send"
  /\ UNCHANGED <<client, rcv, events, buf, pool, slots, uri, answers>>

(* ioqueue_socket_sendmsg.  It is not tried again: the answer is lost if   *)
(* the socket is full, as a client that does not wait can make it.         *)
SendMsg ==
  /\ pc = "send"
  /\ \/ answers' = Append(answers, resp)
     \/ Pipeline /\ answers # <<>> /\ UNCHANGED answers
  /\ pc' = "idle"
  /\ UNCHANGED <<client, rcv, events, buf, iov, pool, slots, uri, resp, routes>>

SessionStep == RecvMsg \/ Parse \/ Route \/ SendMsg

SessionNext == (\E u \in Sends : Request(u)) \/ Deliver \/ SessionStep

SessionSafety == SessionInit /\ [][SessionNext]_sessionVars

(* The worker runs, and a request once begun is delivered. *)
SessionSpec == SessionSafety /\ WF_sessionVars(Deliver) /\ WF_sessionVars(SessionStep)

-----------------------------------------------------------------------------
Piece == [req : 1..Len(reqs), k : 1..Pieces]
Answer == [req : Nat, path : Path, code : {200, 403}]

SessionTypeOK ==
  /\ reqs \in Seq(Sends) /\ left \in 0..Pieces /\ (left > 0 => reqs # <<>>)
  /\ rcv \in Seq(Piece) /\ buf \in Seq(Piece)
  /\ events \in Nat
  /\ pc \in {"idle", "parse", "route", "send"}
  /\ iov \in {<<>>, <<Chunk, Chunk>>, <<1, 1>>}
  /\ pool \in [Slot \cup {"IOV"} -> Nat] /\ slots \subseteq Slot
  /\ uri \in [req : Nat, path : Path \cup {NoPath}]
  /\ resp \in Answer \cup {NoAnswer} /\ (pc = "send" => resp \in Answer)
  /\ DOMAIN routes \subseteq Path
  /\ answers \in Seq(Answer)

(* mod_http.c:329-505: the n-th answer is the one to the n-th request, the *)
(* same connection, buffers, parser and URL slot being used for all.  It   *)
(* holds for clients that wait for each answer, whose requests have a URL  *)
(* and arrive in one segment that fits in the first buffer.                *)
OwnAnswer ==
  /\ Len(answers) <= Len(reqs)
  /\ \A i \in DOMAIN answers : answers[i].req = i /\ answers[i].path = reqs[i]

(* mod_http.c:445-500, 508-529: such a client is answered every request    *)
(* with a path, whether there is an action for it or not.                  *)
EveryPathAnswered ==
  []<>(\A r \in DOMAIN reqs : reqs[r] \in Path => r <= Len(answers))

(* main.h:243-248 and mod_http.c:352-447: blocks live until the hook is    *)
(* freed, so a connection of any length may allocate each of them once: no *)
(* request, complete or not, makes the pool grow.                          *)
PoolBounded == \A b \in DOMAIN pool : pool[b] <= 1

(* mod_http.c:467 with assoc_array_impl_hattrie.h:23-25: a look-up of an   *)
(* unknown path leaves a blank entry in the table.  Whatever was looked up *)
(* before, a path is answered 200 if module_start gave it an action, and   *)
(* 403 otherwise.                                                          *)
RoutesKeepMeaning ==
  \A i \in DOMAIN answers : answers[i].code = IF answers[i].path \in Routed THEN 200 ELSE 403

-----------------------------------------------------------------------------
(* The inductive invariants behind RoutesKeepMeaning and PoolBounded.      *)

Code(p) == IF p \in Routed THEN 200 ELSE 403

(* A blank entry stays blank and an action stays an action; what was       *)
(* looked up is what will be sent.                                         *)
RoutesInv ==
  /\ Routed \subseteq DOMAIN routes
  /\ \A p \in DOMAIN routes : routes[p] = IF p \in Routed THEN "action" ELSE "blank"
  /\ pc = "send" => resp.code = Code(resp.path)
  /\ RoutesKeepMeaning

(* The pool has the blocks of the slots that are set, and the buffers once *)
(* there is an iovec.                                                      *)
PoolInv ==
  /\ \A b \in Slot : pool[b] = IF b \in slots THEN 1 ELSE 0
  /\ pool["IOV"] = IF iov = <<>> THEN 0 ELSE 1
  /\ pc # "idle" => iov # <<>>

SessionInv == SessionTypeOK /\ RoutesInv /\ PoolInv

(* The clients of OwnAnswer: they wait for each answer, and a request is   *)
(* one segment, no longer than the first buffer, and has a URL.            *)
Orderly == ~Split /\ ~Pipeline /\ Pieces <= Chunk /\ Junk \notin Sends

(* The last request, complete, as recvmsg finds it. *)
Whole == [i \in 1..Pieces |-> [req |-> Len(reqs), k |-> i]]

(* The one request that may lack an answer. *)
Outstanding == Len(reqs) = Len(answers) + 1

(* It is in one place at a time: with the client, in the receive buffer,   *)
(* or in the worker's hand, where it becomes the URL and then the answer.  *)
OrderlyInv ==
  /\ OwnAnswer
  /\ Len(reqs) = Len(answers) \/ Outstanding
  /\ left > 0 => left = Pieces /\ rcv = <<>> /\ pc = "idle" /\ Outstanding
  /\ rcv # <<>> => rcv = Whole /\ left = 0 /\ pc = "idle" /\ Outstanding
  /\ pc # "idle" => Outstanding
  /\ pc = "parse" => buf = Whole
  /\ pc = "route" => uri.req = Len(reqs) /\ uri.path = reqs[Len(reqs)]
  /\ pc = "send" => resp.req = Len(reqs) /\ resp.path = reqs[Len(reqs)]
=============================================================================
