---------------------------- MODULE SocketSetup ----------------------------
(***************************************************************************)
(* Starting the server: main and ayubd_module_load (main.c), module_start  *)
(* (mod_http.c), ioqueue_socket_prepare and ioqueue_socket_deploy          *)
(* (ioqueue_socket.c).  One thread makes a row of system calls, each of    *)
(* which may fail, over the addresses the resolver returned; what is       *)
(* undone after a failure and what is not is the subject of this module.   *)
(*                                                                         *)
(* The module passes no flags to ioqueue_new but IOQUEUE_SOCKET_UNIX (a    *)
(* build option), so the queue is always a passive stream queue; the       *)
(* datagram and the active branches of prepare and deploy are never taken. *)
(* A socket is named by the place of its address in the resolver's list.   *)
(*                                                                         *)
(* realloc is asked for a byte where an int is stored.  A store beyond     *)
(* what the allocator gave all the same is undefined, and what follows is  *)
(* not modelled.                                                           *)
(***************************************************************************)
EXTENDS Integers, Sequences, Functions

CONSTANTS
  Families,     \* the builds looked at: {"ip"}, or "unix" with USE_UNIX_SOCKET
  MaxAddr,      \* bound: how many addresses the resolver returns
  MinBlock      \* bytes of the smallest block the allocator gives (24 in glibc)

VARIABLES
  family,            \* iq->flags, as far as it differs between the builds
  spc, ret,           \* control point; ret of module_start
  addrs, rp,         \* length of the address list; the address at hand
  open, listening,   \* kernel: open sockets, those listen was called on
  iqfd, i,           \* iq->fd, of length iq->fdlen; deploy's loop index
  hooked,            \* sockets with a hook in the event queue, whose
                     \* hp->data is args
  refused,           \* history: sockets epoll_ctl did not take
  args               \* the array module_start makes: unmade, live or freed

setupVars == <<family, spc, ret, addrs, rp, open, listening, iqfd, i, hooked, refused, args>>

Addr == 1..MaxAddr

SetupInit ==
  /\ family \in Families
  /\ spc = "load" /\ ret = -1
  /\ addrs = 0 /\ rp = 0
  /\ open = {} /\ listening = {}
  /\ iqfd = <<>> /\ i = 1
  /\ hooked = {} /\ refused = {} /\ args = "unmade"

-----------------------------------------------------------------------------
(* ayubd_module_load: without the shared object it returns -1 and main's   *)
(* assertion stops the program; without the symbol it calls NULL.          *)
LoadFails ==
  /\ spc = "load"
  /\ spc' = "dead"
  /\ UNCHANGED <<family, ret, addrs, rp, open, listening, iqfd, i, hooked, refused, args>>

(* module_start up to prepare; ioqueue_new may be out of memory. *)
ModuleStart ==
  /\ spc = "load"
  /\ args' = "live"
  /\ spc' \in {"resolve", "cleanup"}
  /\ UNCHANGED <<family, ret, addrs, rp, open, listening, iqfd, i, hooked, refused>>

(* prepare, before the loop.  The address of a Unix socket needs no        *)
(* resolver, but the old socket file must go first.                        *)
Resolve ==
  /\ spc = "resolve"
  /\ \/ /\ addrs' \in IF family = "unix" THEN {1} ELSE Addr
        /\ rp' = 1
        /\ spc' = "socket" /\ UNCHANGED ret
     \/ /\ ret' = -1 /\ spc' = "cleanup"     \* unlink or getaddrinfo failed
        /\ UNCHANGED <<addrs, rp>>
  /\ UNCHANGED <<family, open, listening, iqfd, i, hooked, refused, args>>

(* continue: rp = rp->ai_next *)
NextAddr == rp' = rp + 1 /\ spc' = "socket"

Socket ==
  /\ spc = "socket" /\ rp <= addrs
  /\ \/ open' = open \cup {rp} /\ spc' = "bind" /\ UNCHANGED rp
     \/ NextAddr /\ UNCHANGED open
  /\ UNCHANGED <<family, ret, addrs, listening, iqfd, i, hooked, refused, args>>

(* Mutant: a socket that could not be bound stays open. *)
BindKeepsSocket ==
  /\ spc = "bind"
  /\ (spc' = "store" /\ UNCHANGED rp) \/ NextAddr
  /\ UNCHANGED <<family, ret, addrs, open, listening, iqfd, i, hooked, refused, args>>

Bind ==
  /\ spc = "bind"
  /\ \/ spc' = "store" /\ UNCHANGED <<rp, open>>
     \/ open' = open \ {rp} /\ NextAddr
  /\ UNCHANGED <<family, ret, addrs, listening, iqfd, i, hooked, refused, args>>

(* DO_REALLOC(iq->fd, iq->fdlen+1) gives a block that holds n ints. *)
IntSize == 4
Fits(n) == IntSize * n <= MinBlock

StoreFd ==
  /\ spc = "store"
  /\ \/ /\ Fits(Len(iqfd) + 1)
        /\ iqfd' = Append(iqfd, rp) /\ NextAddr /\ UNCHANGED open
     \/ /\ ~Fits(Len(iqfd) + 1)
        /\ spc' = "undefined" /\ UNCHANGED <<iqfd, rp, open>>
     \/ open' = open \ {rp} /\ NextAddr /\ UNCHANGED iqfd
  /\ UNCHANGED <<family, ret, addrs, listening, i, hooked, refused, args>>

(* prepare returns 0 however many sockets it bound. *)
PrepareDone ==
  /\ spc = "socket" /\ rp > addrs
  /\ ret' = 0 /\ spc' = "listen"
  /\ UNCHANGED <<family, addrs, rp, open, listening, iqfd, i, hooked, refused, args>>

-----------------------------------------------------------------------------
(* Mutant: a socket that cannot listen is passed over. *)
ListenSkips ==
  /\ spc = "listen" /\ i <= Len(iqfd)
  /\ \/ listening' = listening \cup {iqfd[i]} /\ spc' = "hook" /\ UNCHANGED i
     \/ i' = i + 1 /\ UNCHANGED <<listening, spc>>
  /\ UNCHANGED <<family, ret, addrs, rp, open, iqfd, hooked, refused, args>>

(* deploy, one socket: listen, *)
Listen ==
  /\ spc = "listen" /\ i <= Len(iqfd)
  /\ \/ listening' = listening \cup {iqfd[i]} /\ spc' = "hook" /\ UNCHANGED ret
     \/ ret' = -1 /\ spc' = "cleanup" /\ UNCHANGED listening
  /\ UNCHANGED <<family, addrs, rp, open, iqfd, i, hooked, refused, args>>

(* then hook_new and EVQ_ADD, whose result nobody looks at. *)
AddHook ==
  /\ spc = "hook"
  /\ \/ /\ \/ hooked' = hooked \cup {iqfd[i]} /\ UNCHANGED refused
           \/ refused' = refused \cup {iqfd[i]} /\ UNCHANGED hooked
        /\ i' = i + 1 /\ spc' = "listen" /\ UNCHANGED ret
     \/ ret' = -1 /\ spc' = "cleanup" /\ UNCHANGED <<hooked, refused, i>>
  /\ UNCHANGED <<family, addrs, rp, open, listening, iqfd, args>>

DeployDone ==
  /\ spc = "listen" /\ i > Len(iqfd)
  /\ spc' = "cleanup"
  /\ UNCHANGED <<family, ret, addrs, rp, open, listening, iqfd, i, hooked, refused, args>>

(* cleanup: array_free(args) after an error.  The sockets are left alone,  *)
(* ayubd_module_load keeps ret in mod->fd and returns 0 whatever it is,    *)
(* and main enters ayubd_run.                                              *)
Cleanup ==
  /\ spc = "cleanup"
  /\ args' = IF ret = -1 THEN "freed" ELSE args
  /\ spc' = "run"
  /\ UNCHANGED <<family, ret, addrs, rp, open, listening, iqfd, i, hooked, refused>>

SetupNext ==
  \/ LoadFails \/ ModuleStart \/ Resolve
  \/ Socket \/ Bind \/ StoreFd \/ PrepareDone
  \/ Listen \/ AddHook \/ DeployDone \/ Cleanup

SetupSafety == SetupInit /\ [][SetupNext]_setupVars

-----------------------------------------------------------------------------
SetupTypeOK ==
  /\ family \in {"ip", "unix"}
  /\ spc \in {"load", "resolve", "socket", "bind", "store", "listen", "hook",
             "cleanup", "run", "dead", "undefined"}
  /\ ret \in {-1, 0}
  /\ addrs \in 0..MaxAddr /\ rp \in 0..(addrs + 1)
  /\ open \subseteq Addr /\ listening \subseteq Addr /\ hooked \subseteq Addr /\ refused \subseteq Addr
  /\ iqfd \in Seq(Addr) /\ i \in 1..(Len(iqfd) + 1)
  /\ args \in {"unmade", "live", "freed"}

(* While prepare has a socket that iq->fd does not hold yet. *)
Holding == {"bind", "store", "undefined"}

(* ioqueue_socket.c:307-371: each early continue of the loop closes what   *)
(* this turn opened.  No order of failures leaves a socket open that       *)
(* iq->fd does not hold, or puts one in iq->fd twice, for as many sockets  *)
(* as the block of iq->fd has room for.  (One more is stored behind its    *)
(* end, ioqueue_socket.c:360 and 363; nothing is claimed of what follows.) *)
NoSocketLeaked ==
  /\ open \ Range(iqfd) \subseteq IF spc \in Holding THEN {rp} ELSE {}
  /\ IsInjective(iqfd)
  /\ Fits(Len(iqfd))

(* ioqueue_socket.c:396-431: every socket in iq->fd and in the event queue *)
(* is open, and the event queue has only sockets that listen, so ayubd_run *)
(* never polls a descriptor that accept would reject.                      *)
HookedSocketsListen ==
  Range(iqfd) \subseteq open /\ hooked \subseteq listening /\ listening \subseteq Range(iqfd)

(* mod_http.c:578-588, poll.h:17: when module_start reports success, every *)
(* socket that was bound listens, the args its hook refers to are alive,   *)
(* and it is in the event queue unless epoll_ctl refused it, which nobody  *)
(* learns: clients then connect to a socket that is never accepted from.   *)
SuccessServesAll ==
  spc = "run" /\ ret = 0 =>
    listening = open /\ hooked = open \ refused /\ args = "live"

(* mod_http.c:594: "free only if error in prepare/deploy, the ioqueue      *)
(* might need args later": args is not freed under a hook that is in the   *)
(* event queue.                                                            *)
ArgsOutliveHooks == hooked # {} => args # "freed"

-----------------------------------------------------------------------------
(* The inductive invariant behind the safety properties, and what it needs *)
(* of the constants.                                                       *)

ConstOK == Families \subseteq {"ip", "unix"} /\ MaxAddr \in Nat \ {0} /\ MinBlock \in Nat

Preparing == {"load", "dead", "resolve", "socket", "bind", "store", "undefined"}

(* prepare goes through the addresses once: what iq->fd holds lies before  *)
(* the address at hand, and the socket of that address is open while it is *)
(* neither bound nor stored.  All of iq->fd lies in its block.             *)
SocketsInv ==
  /\ spc \in {"load", "dead", "resolve"} => open = {} /\ iqfd = <<>>
  /\ spc \in {"socket", "bind", "store"} => rp \in Nat \ {0} /\ \A k \in DOMAIN iqfd : iqfd[k] < rp
  /\ spc \in Holding => rp \in Addr /\ rp <= addrs /\ open = Range(iqfd) \cup {rp}
  /\ spc \notin Holding => open = Range(iqfd)
  /\ Fits(Len(iqfd))
  /\ \A k, l \in DOMAIN iqfd : iqfd[k] = iqfd[l] => k = l

(* deploy has served the sockets before i, and listens on the one at i     *)
(* between its two calls; only a failure leaves it before the last.        *)
DeployInv ==
  /\ spc \in Preparing => i = 1 /\ ret = -1 /\ listening = {}
  /\ hooked \cup refused = {iqfd[k] : k \in 1..(i - 1)} /\ hooked \cap refused = {}
  /\ listening \subseteq {iqfd[k] : k \in DOMAIN iqfd \cap 1..i}
  /\ hooked \cup refused \subseteq listening
  /\ spc = "hook" => i <= Len(iqfd) /\ iqfd[i] \in listening
  /\ spc \in {"cleanup", "run"} /\ ret = 0 => i = Len(iqfd) + 1
  /\ spc \in {"listen", "hook"} => ret = 0
  /\ spc \in {"load", "dead"} <=> args = "unmade"
  /\ args = "freed" => spc = "run" /\ ret = -1

SetupInv == SetupTypeOK /\ SocketsInv /\ DeployInv
=============================================================================
