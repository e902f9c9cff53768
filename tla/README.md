# ayubd-ng: specification and proofs

TLA+ modules for ayubd-ng, an epoll server with one event loop and one worker
thread per processor, and for the data structures and libraries in its repository.
TLC checks them on small instances; TLAPS proves the safety results of the server's
parts, of both lock-free queues, of the atomic hash, the coroutines, the CSV parser and
the tokenizer for every size. File names below are relative to `src/`.

## The system

`ayubd` is built from `main.c`, `ioqueue.c`, `ioqueue_socket.c`,
`assoc_array_impl.c`, `utils.c` and the module `modules/http/mod_http.so`, with
`USE_RAND` set and the options for coroutines, Redis, Hyperscan, Linux AIO and Unix
sockets unset.

| Component | State | Operations | Meets the others through | What is hard | What makes it correct |
|---|---|---|---|---|---|
| Worker queue, `main.h:199-211` | linked list with dummy node, divider `qdiv`, one semaphore | `stailq_in/trim/empty/out_lf_spsc`, `sem_post`, `sem_wait` | main puts, one worker takes | no lock; main frees nodes behind the worker; a racy divider; an empty test that does not work | no access to a freed node, FIFO order, no lost hook |
| Hooks, `main.h:137-283` | `refcnt`, `fd`, `ready`, `process`, `data`, memory pool | `hook_new/ref/unref/close/free` | shared by main, queues and workers | the last one frees, from any thread | freed exactly when nobody holds it |
| Event loop, `main.c:329-386` | the batch of events | `EVQ_POLL`, `ready`, choice of worker | calls the socket callbacks, feeds the queues | events of one batch outdated by earlier ones; edges reported once | one worker per hook, no outdated event |
| Workers, `main.c:426-507` | the hook in hand | take, `process`, `hook_unref` | queue, socket, HTTP module | run in parallel with main's close and accept | read what was reported, answer the right client |
| Socket callbacks, `ioqueue_socket.c:21-214` | - | accept loop, hang-up detection, `recvmsg`, `sendmsg` | run by main (`on_*`) and by workers (`process_data`) | edge-triggered epoll, reuse of descriptors | no edge lost, nothing leaked |
| Start-up, `main.c:92-163`, `mod_http.c:537-596`, `ioqueue_socket.c:219-439` | `iq->fd`, `args` | load, resolve, socket, bind, listen, register | leaves listeners in the event queue | any call may fail half-way | failures undone, success complete |
| HTTP session, `mod_http.c:84-505` | parser, `udata` slots, two buffers | parse, route, answer | `hook_on_data_test` | state kept over reads and requests | each request is parsed from its own bytes |
| Route table, `assoc_array_impl*`, `lib/hat-trie` | hat-trie over array hash tables | `_aget` inserts on a miss | shared by all workers, unlocked | slots move while others search them | look-ups do not change what it means |
| System calls, `main.h:213`, `poll.h` | - | `DO_IOCALL`, `EVQ_*` | under main and the workers | EINTR, EMFILE, ignored results, SIGPIPE | nothing that was asked is forgotten |

Code that stands beside the server and is not linked into it:

| Component | State | What is hard | What makes it correct |
|---|---|---|---|
| `lfq.c`, the queue the server used before | list, divider, last | one producer frees behind one consumer, no lock | FIFO, no freed node is touched |
| `uthash.h` | bucket chains and the insertion list over the same elements | two lists relinked at once, buckets that double | both lists agree with what was added |
| `old_parser/lru.c` | a uthash table | eviction at the limit | holds the most recently used keys |
| `str_tokens.c` | cursor, token array | empty pieces, long delimiters, growth | the pieces between the delimiters |
| `lib/hat-trie` (this one is linked) | trie nodes, shared buckets, bytes of a slot | splits, deletions, lengths of one or two bytes | it is a dictionary |
| `lib/atomic_hash` | seats, nodes, a lock-free free list | reuse of a node between a look and a hold | no node in two places, none lost |
| `lib/perfect` | the table under construction | augmenting paths with rollback, retries, shifts | the function that is written is perfect |
| `lib/libcsv` | parser object, buffer | input in pieces, failing realloc | rows depend on the characters only |
| `lib/libaco` | share stacks, save stacks | one stack for many coroutines | a coroutine finds its stack as it left it |

Not modelled at all: `lru-cache.c`, `tokenize.c`, `stack.c`, `config.c`, `ioqueue_signal.c`, the
Ragel parser under `old_parser`, the experiments (see *Not modelled*).

## Modules

    QueueHistory <-- SpscQueue, Lfq <-- QueueProofs        Dispatch <-- DispatchProofs
    (its refinement: Fifo)                                 HttpSession <-- HttpSessionProofs
    AtomicHash <-- AtomicHashProofs                        SocketSetup, Delivery <-- SocketProofs
    LibCsv, StrTokens, Aco <-- LibraryProofs               SharedTable <-- SharedTableProofs
    LibCsv <-- CsvText                                     UtHash <-- LruCache <-- UtHashProofs
    Dictionary <-- AhTable, HatTrie                        UtHash <-- UtHashSort <-- UtHashUse
    PerfectOps <-- Perfect, PerfectSizes; PerfHex

    MCQueues     SpscQueue, Lfq                            MCDispatch     Dispatch
    MCServer     SocketSetup, HttpSession, SharedTable, Delivery
    MCProgress   Delivery, HttpSession                     MCSharedTable, MCHttpSession
    MCMaps       UtHashUse, LruCache, AhTable, HatTrie, AtomicHash
    MCGenerator  Perfect, PerfHex, PerfectSizes            MCLibraries    CsvText, StrTokens, Aco

An MC module that has several components under it puts them side by side: its
variable `which` is chosen in the initial state and says which component runs, and
with what client or input, in this behaviour; the variables of the others keep their
initial values or are `Off`. So a run is the union of the runs of its parts. The
components with proofs are extended, so that their names differ (`SessionNext`,
`SetupNext`, `TableNext`, `LfqNext`, `AtomicNext`, `LruNext`) and the run checks the very definition the theorem
names; where one of them has several uses, the MC module bounds its `Next` for each (three
for the coroutines), and where a property ends with an event that a history variable keeps
for ever (`raced`, `stale`), it does not follow the behaviour any further. The others are `INSTANCE`s with constants
of their own, and a property is a conjunction over them, each for its `which`.

### SpscQueue: the queue of one worker

The granularity is the memory access. `stailq_in_lf_spsc` is `NewNode` (the node
is still private), `LinkNode` (`*stqh_last = np`), `SetLast`, then `TrimTest`,
`TrimRemove`, `TrimFree` in a loop, and `ayubd_run`'s `SemPost`. The worker's side
is `SemWait`, `LoadLast` and `TestEmpty` (`stailq_empty_lf_spsc`), `Advance` and
`ReadValue`. `next[QHead]` is `stqh_first`; a cell names both `&stqh_first` and
`&node->stqe_next`. `alloc` is the heap: `NewNode` may return any address that is
not in use, one freed a moment ago included.

*Memory model.* The list is plain memory, a data race in C. The model gives what
an x86-64 build does: stores of one thread are seen in program order (so
`LinkNode` before `SetLast`, both before the locked instruction of `sem_post`), a
store may be seen late by the other thread. It also takes for granted that the
compiler keeps the stores of `STAILQ_INSERT_TAIL` in program order, which nothing in
the C source asks of it. A late store matters for one variable, the
divider, which main reads while trimming: `qdiv` is the worker's value, `qdivMem`
main's, brought up to date by `DrainDivider` at any time, and by `SemWait`,
whose locked instruction drains the store buffer. Main's own stores are
ordered before the post that wakes the worker for the node; the model lets the
worker see them at once, also those of the next, unposted node.

`log`, `ntrim`, `in` and `out` are history variables: nodes ever linked, how many
were unlinked, hooks queued, hooks taken.

### Fifo: what the queue promises

`put` and `taken`, with `Put` and `Take`. `QueueHistory` has what the two queues
share: the history variables `in` and `out`, `FifoOrder`, and `Abstract`, an instance of
`Fifo` with `put <- in, taken <- out`. In `SpscQueue`, `LinkNode` is `Put` and `ReadValue`
is `Take`; every other step leaves it alone.

### Dispatch: event loop, workers, hooks

The points where threads meet are steps: the atomic counter, the queue, the
system calls.

| Action | Code |
|---|---|
| `Poll` | `EVQ_POLL`, `main.c:358`: all ready events; `bhup` are those with a hang-up flag |
| `OnConnect`, `Accept`, `AcceptDone` | `ioqueue_socket_on_connect`, one `Accept` per turn of its loop |
| `OnData` | `ioqueue_socket_on_data`, up to the `close(fd)` of `hook_close` |
| `Close` | the `hook_free` of `hook_close` |
| `Ref`, `Put` | `main.c:375-380` |
| `Take`, `Recv`, `Send`, `Unref` | `main.c:461-490`, `process_data`, `hook_on_data_test` |
| `ClientConnect`, `ClientSend`, `ClientClose` | the peers, external |

`owner[f]` is the connection a descriptor refers to now, `conn[h]` the one the
hook was made for: the code keeps only `hp->fd`, and the difference between the
two is what `OwnSocket` is about. Data are counted in segments; `RcvCap` is what
one `recvmsg` takes (two buffers). `Accept` covers `hook_new` without memory (no
free hook address): the connection is closed. Queues are sequences, which is what
`SpscQueue` is shown to implement.

The kernel (external) gives out the lowest free descriptor, drops a closed
descriptor from epoll and its ready list at once (nothing duplicates it), puts a
descriptor on the ready list at every new segment or hang-up and at `EVQ_ADD` if
something is there already, and reports the listening socket as long as a client
waits. The events array has `open_max` entries, so one poll takes all that is
ready.

### SocketSetup: start-up

One action per call that may fail, in the code's order, over the resolver's list:
`Resolve`, `Socket`, `Bind`, `StoreFd` (realloc of `iq->fd`), `PrepareDone`,
`Listen`, `AddHook`, `DeployDone`, `Cleanup`. The realloc is asked for a byte where an int
is stored (`ioqueue_socket.c:360`), so what fits depends on the allocator: `MinBlock` is the
smallest block it gives (24 bytes in glibc, six descriptors), and a store behind it ends the
behaviour as undefined. `AddHook` may be refused by `epoll_ctl`, which nobody learns
(`refused`). `Families` selects the build with or without `USE_UNIX_SOCKET`. Datagram and active sockets cannot come from
`module_start`, which passes no such flag.

### HttpSession: one connection over many reads

What `process_data` of a session hook keeps in the hook from one event to the next:
the `udata` slots (`slots`), the memory pool (`pool`, allocations per block), the
lengths of the two buffers (`iov`), the stored URL (`uri`), and the route trie.
`RecvMsg` is `ioqueue_socket_recvmsg`, `Parse` is `http_on_data_default` up to the URL,
`Route` its look-up and answer, `SendMsg` is `ioqueue_socket_sendmsg`. `Request` and
`Deliver` are the client and the network (external).

Bytes are abstracted to pieces of a request: the URL ends in piece 2, so a read can
end before, within and after it. A buffer holds `Chunk` pieces. The parser (external)
starts anew with every read, because the code initialises it there, and is given the
address of the first buffer and the length of both; past the first buffer it finds
other memory and no URL. `Cut` says which paths an incomplete URL may have. `Split`
(requests arrive in several segments), `Pipeline` (the client does not wait for
answers) and `Sends` describe the client; the worker is the same for all of them.
Where one `sendmsg` cannot take the answer it is lost, since nobody tries again.

`Dispatch` is what allows one worker at a time in this module (`OneWorkerPerHook`) and
an event for every edge (`NoForgottenData`). It does not allow to assume that the
descriptor is still the hook's (`OwnSocket`): here the connection stays open.

### Delivery: system calls that fail

Main, one worker and its queue again, at the level where calls fail. `PollInterrupted`,
`AcceptInterrupted`, `SemWaitInterrupted`, `RecvInterrupted` and `SendInterrupted` are
the EINTR of each call, `Accept` and `AcceptDone` the accept loop with a limited number
of descriptors, `Refused` a `hook_new` without memory, `NotAdded` an `EVQ_ADD` that fails
(`poll.h` drops its result). `sem_wait` is not repeated: the worker looks into its queue
whatever woke it, and where that is empty `OutNull` ends the process: the emptiness test
compares the divider with NULL (`main.h:207`) and the value is read through NULL. `Send` may
be short, and the second one to a client that reset the connection raises SIGPIPE, which
ends the process. A connection stands for its hook here (reference counts are in
`Dispatch`), and like the hook keeps its descriptor number after the close: `Peer` is the
connection that has the number now, from which a late worker reads and to which it writes.

Clients send requests whole or in two parts (`AskRest`, before or after the first part was
read), wait for the answer or not, and hang up at any time. What the properties promise
depends on that, so three history variables say what happened: `loose` are the clients whose
request was read in part or that did not wait, `crossed` those that were sent another
client's answer, `stray` counts the waits that a signal ended. The promises are to the
other, `Regular`, clients, whatever the others do. The server sets no signal handler (the
only call, `main.c:102`, is commented out), so an EINTR needs a handler of a loaded module or
library, or, for `epoll_wait`, a stop and continue.

### SharedTable: the route table under all workers

The look-up of `get_key` (`ahtable.c:280-350`) access by access: read the slot's address
and size, compare keys along the slot, and on a miss count, realloc the slot (which may
move it), write the entry and store address and size. A freed block or an index behind
its end sets `bad`. Memory is sequentially consistent. The workers ask for any path, as
clients make them; the history variable `raced` says that one was between expansion or
realloc and the store of the new size while another was looking up. `shared_miss` shows what
happens then; the passing properties say that nothing happens before.

### AhTable, HatTrie and Dictionary

`AhTable` has a slot as the bytes it is: length in one byte or two (`ShortLen` scales
128 down), key, value. `ahtable_get`, `ahtable_del`, `ahtable_clear`, expansion, sorted
and unsorted iterators, save and load. `HatTrie` has the nodes with their addresses,
`hattrie_get`, `hattrie_tryget`, `hattrie_del`, `hattrie_clear`, `hattrie_split` (pure and
hybrid buckets), the iterators with a prefix and `hattrie_free_node`; its buckets are
maps, what `AhTable` shows a table to be. The history variable `behind` says that a key was
looked up which ends on a trie node, where the code goes by the byte behind the key. `Dictionary` is what both promise, and the
client's actions change it in the same step.

### Lfq, AtomicHash

One access to shared memory per step, sequentially consistent. `Lfq` implements `Fifo`
with `in` and `out`; like them, `llog` (the nodes ever published) and `lntrim` (how many
were unlinked) are history variables, in which the list is described. `AtomicHash` has
add, get and del with the hold of a node by a compare-and-swap, the free list with its
version number, expiry and hooks that ask for removal. The two words of a hash value, and
with them the expiry in `valid_ttl`, are read in one step, and `memset` of a node is one
step; the counter `ncur` moves in a step of its own after the compare-and-swap (`Uncount`,
`AddCount`). What the program calls is the record `client`; all calls overlap freely. The
history variable `stale` records the ABA: a call came to hold a node that had left its seat
since the call read the seat. `rfn` counts without limit; in the code it has 32 bits.

### UtHash, UtHashSort, UtHashUse, LruCache

`UtHash` has the macros as operators on a table record, with the walks along links and the
loop over the old buckets as recursive functions, so that it can be proved about;
`UtHashSort` adds the two loops that need recursive operators, `HASH_SRT` and
`HASH_SELECT`. `UtHashUse` is a program that adds, deletes, sorts, selects, clears and
iterates with a body that deletes; the history variable `picked` says what was done to the
table that `HASH_SELECT` built. `LruCache` is the cache of `old_parser/lru.c`. The hash
function is any function of the keys to a small set.

### Perfect, PerfectOps, PerfectSizes, PerfHex

`Perfect` is `findhash`, `hash_ab`, `initkey`, `inittab`, `perfect`, `augment` and `apply`
with the retries and growth around them; the initial hash gives any words. `phash` is
the C code that is written, evaluated; `CodeHex` keeps the line for integers as `inithex`
wrote it at salt 1. A shift by the width of the word, undefined in C, has the two outcomes
machines give (`wide`). `PerfectSizes` runs the choice and growth of the sizes with the
constants of the code (32 bits, 4096, 65536); `Unset` is what the unassigned `*blen` may
hold where `initalen` reads it. `PerfHex` is `inithex` with
the formulas for one to eight keys in the order they are tried, and `hexn`; emitted code
is a term that `Value` evaluates on words of `W` bits.

### LibCsv, CsvText, StrTokens, Aco

`LibCsv` is one action per character of `csv_parse`, with `csv_fini`, `csv_free`,
`csv_set_opts` and `csv_increase_buffer` that may fail; when the caller frees the buffer or
sets options is the record `caller`. Its reference, `Whole`, is the same state machine over
the whole text in one call, with a buffer that never has to grow. `CsvText` adds
`csv_write2` and `csv_fwrite2`. `StrTokens` is one action per turn of the loop. `Aco` is create, resume, yield, exit and destroy, with the
frames of every coroutine as words; `frames` is what it should find. The loop that doubles
a save stack is the least power of two that is enough (`Doublings`).

## Runs

| Run | Result | Question |
|---|---|---|
| `queues` | passes | are both lock-free queues memory-safe, in order and live, under every interleaving, and FIFO queues? |
| `dispatch_safety` | passes | hooks neither used after free nor leaked; one worker per hook; no outdated event; no forgotten edge |
| `dispatch_liveness` | passes | closed hooks are freed, data is read |
| `progress` | passes | while the process lives, are clients accepted, answered and their descriptors freed in the end, though calls are interrupted, refused or out of descriptors? does each request get its own answer? |
| `server` | passes | does start-up undo what failed; does a connection stay bounded whatever arrives; is the shared table safe until an insertion and a look-up overlap; do wake-ups match the queue, and what can cut an answer or end the process under signals, reused descriptors and hang-ups? |
| `maps` | passes | are uthash, the LRU cache, the array hash table and the hat-trie the maps they should be; are the nodes of the atomic hash each in one place under any overlap of calls, up to the ABA? |
| `generator` | passes | is every hash function that is written perfect but for the named inputs, and does the search end? |
| `libraries` | passes | libcsv, str_tokens, libaco |
| `dispatch_own_socket` | violated | does a worker always talk to its own client? |
| `http_split_request` | violated | is a request that arrives in two segments answered once? |
| `shared_miss` | violated | does a registered path get its action while another worker misses? |
| `setup_args` | violated | does `args` outlive the hooks that refer to it? |

*Bounds.* `queues`: the list can be empty, can hold several hooks while main trims more
than one node, and addresses come back while the worker is anywhere in its loop.
`dispatch_safety`: three clients on two descriptors, two hook addresses and two
workers, two segments each. A third client makes both descriptor and hook address
reuse happen, and both can run out; with descriptors 4 and 5 each worker is the
target of one. `dispatch_liveness` is a little smaller (no symmetry). `progress`: two
clients for one descriptor, so one waits until the other is gone and then has its number
while the worker may still have the old hook; an interrupt at any step; four requests on one connection, so a routed path, an
unknown one and a repetition follow each other in any order. `server`: four addresses and
a block for three descriptors (failures before, between and after successes, and the
overflow); three requests of three pieces, two
pieces to a buffer, so that a read ends at every place of a request, takes parts of two,
overflows the first buffer or leaves something behind; two workers that ask three times for
any of four paths, two of them unknown, in a table that expands; two clients on one
descriptor with two requests each, in parts or at once, and an interrupt.

`maps`: four elements and three hash values make all collisions, expansions and
ineffective expansions happen (`MaxBuckets` only stops further additions to a table that
has doubled that often); keys of the array hash table on both sides of `ShortLen`, two of
them always in one slot; strings whose buckets of two entries split into trie nodes, pure
and hybrid buckets, with prefixes of up to three bytes; two threads of two calls each with
two keys on one seat and a collision array, adds, gets and deletions at the same time, with
hooks that remove (`Removing`) or entries that expire (`Expiring`). `generator`: see the key
lists in `MCGenerator`; four keys in tables of four and eight are where paths of more than
one b are needed. Small constants make the rare cases happen: words of 3 bits
that a pair does not fit (`Tight`), a threshold of the scrambled table that integers reach
as it grows (`Hexed`), inline code with both outcomes of a wide shift (`Inline`); the sizes
run with the real constants, from one key on. `libraries`: all
CSV inputs of up to four characters of five kinds in all cuts, block sizes of one and two,
a limit on the buffer; all strings of up to six characters; two coroutines with stacks of up to three frames on one
share stack (the third frame is the odd word of a copy in pairs), three coroutines on two
share stacks, and requested lengths on both sides of the minimum and of whole pages.

Deadlock is not checked where clients, calls or inputs are used up (all runs but
`libraries`, whose models step in place at the end).

*Fairness.* Weak fairness of main's steps as a whole and of each worker's steps as a
whole: the threads are scheduled by the kernel and block only in `epoll_wait`,
`sem_wait` and calls on non-blocking sockets. Main starts an insertion only if an
event asks for it (`NewNode` has no fairness in `SpscQueue`), and nothing is assumed
of the clients, except in `HttpSession`, that the network delivers a request it began
to deliver. In `SpscQueue` the store buffer's drain is part of the worker's steps. In
`Delivery` an interrupted call is no progress (`MainProgress`, `WorkerProgress` leave the
interrupts out), and there are `MaxIntr` of them. `WaitingAccepted` assumes that
descriptors become free again and again, which is up to the clients; a process that died
(`Alive`) owes nothing. `Lfq` has weak
fairness of a producer that is in `lfq_in` and of the consumer.

### What the violated runs show

- `OwnSocket`: a client sends and hangs up. The first event is queued to a worker;
  the second makes main close the descriptor, while the hook stays alive for the
  worker. A new client is accepted on the same number. The worker now calls
  `recvmsg(hp->fd)` and takes the new client's request with the old hook's parser
  state, and sends the answer there. The reference count protects the hook, not
  the descriptor. (`close` in `hook_free_real`, with the last reference, would.)
- `ArgsOutliveHooks`: `deploy` registers the first address and fails on the second;
  `module_start` frees `args`, which the first listener's hook still refers to, and
  the program runs on.
- `OwnAnswer` with `Split`: the first read ends within the URL, which is answered as
  far as it came (perhaps with another route's answer or a 403). The second read
  starts with a fresh parser in the middle of the request, calls no `on_url`, and the
  stored URL is answered once more: two answers to one request, and the client's
  next one is answered out of step. The comment above `on_url_cb` warns of chunked calls.
- `OwnAction` with any path: a worker misses and reallocates the slot while another
  one searches it. The other compares its cursor with the end of the slot at its new
  address, leaves the loop, inserts the registered path once more without an action and
  answers 403. Look-ups that find their path move nothing, and `server` shows that without
  such an overlap each path gets its action.

### Where the code falls short: exceptions in the properties

Some inputs make the code fail. Where they can be told apart, they are part of the run, and
the property names them as exceptions; a history variable marks the moment after which
nothing is claimed. Each exception is reached in its run.

| Property | Exception |
|---|---|
| `NoSocketLeaked` | more descriptors than the block of `iq->fd` holds: one is stored behind its end (`ioqueue_socket.c:360-363`) |
| `SuccessServesAll` | listeners that `epoll_ctl` refused are not accepted from, and start-up is a success (`poll.h:17`, `ioqueue_socket.c:431`) |
| `HangupFreesDescriptor`, `RequestAnswered` | connections that `EVQ_ADD` refused are never read nor closed (`ioqueue_socket.c:206`) |
| `AlertsCoverQueue` | after a wait that a signal ended (`stray`) the worker runs off its queue and reads through NULL (`main.h:207`) |
| `SurvivesHangup`, `AnswersWhole`, `RequestAnswered` | clients whose requests were read in part or sent without waiting, or that got another client's answer: a short or surplus answer, a second send after the reset and so SIGPIPE (`ioqueue_socket.c:76`) |
| `NoBadAccess`, `OwnActionUntilRace` | after an insertion overlapped another worker's look-up (`ahtable.c:341`) |
| `NodesSound` | after a call held a node that was reused since it read the seat (`atomic_hash.c:62`, `535`): two calls write the node, and the free list may become a cycle |
| `HatTrieSound` | an iteration over a prefix that leads below the first node to a hybrid bucket or a node (`hat-trie.c:645`; the property is an equivalence); byte arrays after a look-up of a key that ends on a trie node (`hat-trie.c:384`). The server's keys include their NUL (`assoc_array.h:16`), which rules the latter out |
| `UtHashSound` | `HASH_SELECT` leaves the new table's tail at the first element (`uthash.h:806`): that table is not claimed to be sound after an addition to it |
| `IsPerfect` | two integers that agree in bit 0 (`perfhex.c:82`, an equivalence); integers whose table reaches `USE_SCRAMBLE` after salt 1 (`perfhex.c:1298`: the line written at salt 1 stays); shifts by the width of the word (`perfhex.c:1040`, `perfect.c:301`) |
| `SearchSound` | the second attempt of `hash_ab` keeps the water marks of the first (`perfect.c:655`); a salt that was good for one word is kept for two (`perfect.c:934`); strings are compared without their last character (`perfect.c:1004`) |
| `SizesFit` | one minimal key falls through to sizes 0 (`perfect.c:764`); for integers with `smax` above 131072 `alen` comes from the unassigned `*blen` (`perfect.c:743`), and a is then no index |

Not part of the runs:

| Module, constant | The other value shows |
|---|---|
| `AhTable`, `MayClear = TRUE` with `SizeIsCount` | `ahtable_clear` (`ahtable.c:176`) keeps `m`: the size is the old one and the next expansion's assertion fails. The run clears, and claims only that keys are found. The server never clears. |
| `HatTrie`, the empty key with `SizeIsCount` | it is counted off by `hattrie_del` but not counted by `hattrie_get` (`hat-trie.c:373`) |
| `LibCsv`, a caller with `free` or `set_opts` "any time", with `NoOverrun` | `csv_free` keeps `entry_pos` (`libcsv.c:156`), and an option that moves the limit below it is not noticed by a test for equality (`libcsv.c:350`). `csv.3:245` allows `csv_free` at any time; `ParseSound` is for callers that do so between rows |
| `StrTokens`, delimiters of several characters or regular expressions with `AllTokens` | the cursor steps over one character of the delimiter only (`str_tokens.c:248`); the piece after the last match is not returned (`str_tokens.c:239`). The run has them, and `TokensSplit` says of them that tokens are stored in bounds and lie apart. One that matches the empty string is not modelled: the loop does not end |

In the server's own code, seen while modelling and not stated as a property: when no
address can be bound, or the module's start fails, `ayubd_module_load` still returns 0
and main waits on an empty event queue (`main.c:101`); the parser is given the first
buffer with the length of both (`mod_http.c:393`). `SpscQueue` and `Dispatch` are without
signals; `Delivery` has them, and the queue as a sequence.

## Proofs

| Module | Theorems | For every |
|---|---|---|
| `QueueProofs` | `Invariance`, `TypeCorrect`, `MemorySafe`, `AlertsAreReal`, `InOrder`, `MemoryAccounted`, `Refinement`; `ListIsSafe`, `ListIsFifo` | heap, number of insertions |
| `DispatchProofs` | `Invariance`, `TypeCorrect`, `MemorySafe`, `LeakFree`, `WorkerExclusive`, `EventsCurrent`, `DataNotForgotten` | number of workers, hooks, descriptors, clients |
| `SocketProofs` | `NothingLeaked`, `EventQueueListens`, `SuccessIsComplete` | number of addresses, block size, either build |
| | `WakeupsSuffice`, `HangupIsSurvived`, `AnswersAreWhole` | number of clients, requests, descriptors, interrupts |
| `HttpSessionProofs` | `TypeCorrect`, `PoolIsBounded`, `RoutesMeaning`, `AnswersAreOwn` | number and cut of requests, size of buffers, routes |
| `SharedTableProofs` | `SafeUntilRace`, `AloneIsSafe` | routes, workers, number of look-ups, capacity |
| `AtomicHashProofs` | `NodesOfPool` | number of threads, nodes, keys and seats, mix and overlap of calls |
| `UtHashProofs` | `CacheHoldsMostRecent` | elements, keys, hash function, cache size, threshold of a bucket |
| `LibraryProofs` | `BufferKept`, `RowsOfText` | text, cuts, block size, options, failures of `realloc` |
| | `TokensOfString` | string, delimiter, limit, failures of `realloc` |
| | `StacksStay` | number of coroutines and share stacks, depth, lengths |

*Hypotheses.* `SpscQueue`, `Dispatch` and `Delivery` have a `ConstAssumption`, `HttpSession`
a `SessionAssumption`, `AtomicHash` an `AtomicAssumption`, `LibCsv` a `CsvAssumption`,
`StrTokens` a `TokAssumption`, `UtHash` a `SizesAssumption` and `LruCache` an `LruAssumption`
(constants are distinct, sizes are natural numbers, there is a worker), which TLC evaluates in every run. For `SocketSetup` and `Aco` it is `ConstOK`, of the
same kind, and for `SharedTable` `RoutesOK` (each path is registered once), as hypotheses of
their theorems; the MC modules assume them, so TLC evaluates them too. Five theorems say
under which use of the code they hold:

- `AnswersAreOwn`: `Orderly`, the client waits for each answer, its requests have a URL, are
  single segments and fit in the first buffer. `http_split_request` shows that it is needed.
- `AnswersAreWhole`: an answer fits in the send buffer, since a short count is ignored.
- `AloneIsSafe`: there is one worker, which looks up anything.
- `BufferKept`, `RowsOfText`: `CallersWait`, nobody frees the buffer or changes options while
  a field is in it; the table above says what happens otherwise.

The others hold for every use, up to the exceptions their properties name: `SafeUntilRace`
until an insertion and a look-up overlap, `NodesOfPool` until the ABA, `HangupIsSurvived` and
`AnswersAreWhole` for the clients that are regular, among any others, `WakeupsSuffice` counting
the waits that signals ended, `NothingLeaked` as far as the block of `iq->fd` goes,
`SuccessIsComplete` but for the sockets that `epoll_ctl` refused.

The provers are Z3, Zenon and LS4. Each module proves that an inductive invariant holds
initially and is kept by each action, one lemma per action or group of actions, and derives
its theorems from it.

**SpscQueue.** None of the properties is inductive alone. The invariant describes
the list by positions in `log`:

- `ListShape`: the nodes after position `ntrim` are linked in order, each address once,
  ending in NULL, and carry the hooks of `in`;
- `Divider`: the worker's divider stands at position `DivPos`, main's view of it at most
  one position behind, and both after what was trimmed;
- `TokensMatchHooks`: hooks put in = tokens + hooks taken + the one claimed by the worker +
  the one not yet posted. This is what keeps the worker off the end of the list: the
  emptiness test of the code does not;
- `MainState`, `LoadedTail`: the private variables of the two threads in the middle of an
  operation (`alloc` is the list plus the node just made or just unlinked).

Addresses may be reused since the invariant speaks of the listed positions only.
`Refinement` is `Safety => Abstract!Safety`.

**Lfq.** The same description (`LfqShape`, `LfqDivider`). Here nothing counts tokens: the
consumer's own test (`divider # last`) keeps it on the list, and `LfqDivider` says that
after the test a node stays behind the divider until `lfq_out` is through, because the
producer trims up to the divider only. `ListIsFifo` follows from `FifoOrder` and the value
in the consumer's hand.

**Dispatch.** The heart is `RefcntExact`: `refcnt[h]` is the number of
references: main's own until `hook_close` is through, the one for the event main is
about to queue, one per queue entry (a cardinality over the queue's positions) and one
in the worker's hand, all in the queue and the hand of the one worker that
`fd[h] % NWorkers` selects. `EpollSet` ties descriptors, hooks and connections
together; `MainState` says that every event of a batch is about a registered hook
(main alone closes, and only the hook it took out of the batch), `WorkersState`
that queued hooks are alive. Lemmas on `Occ` say what appending and taking do to the
count of a hook in a queue. `DataNotForgotten` adds `DataInv`: `EVQ_POLL` replaces an empty
batch only, and no client has more unread than one `recvmsg` takes. Then the chain
edge, event, main's hand, queue, worker's hand (`WillBeRead`) passes data on link by link,
and only a `recvmsg` on the connection, by whichever worker, ends it: it leaves nothing.

**SocketSetup.** `SocketsInv`: `iq->fd` lists each address once and all before the one at
hand, and what is open is that list, plus the socket of the address at hand while it is
neither stored nor closed; all of the list lies in its block. `DeployInv`: `deploy` has
offered exactly the sockets before `i` to the event queue, each taken or refused, listens on
them and on the one at `i` at most, and leaves with 0 only after the last.

**HttpSession.** `PoolInv` says that a block was allocated once if its slot is set and never
otherwise (for the buffers: if there is an iovec), `RoutesInv` that an entry of
the trie is an action exactly for the paths `module_start` gave one and that the code of
the answer about to be sent was chosen by that. `OrderlyInv`, for `AnswersAreOwn`: the one
request without an answer is in one place, and there whole: with the client, in the
receive buffer, in the worker's buffers, as the stored URL, or as the answer to be sent.

**Delivery.** `AlertsCoverQueue` is inductive by itself, given the type. For the other two,
`OneAtATime` says of a regular client that at most one request came in and is not answered,
and ties the bytes sent and read to it; `ResetIsLast` says that its connection, once reset,
has no request left, so nothing is sent to it a second time. Descriptors are what makes this
delicate: `FdInv`, a number belongs to one open connection, and `HandsInv`, the number the
worker is about to write to is that of the connection it read from, as long as that is open,
so that an answer which goes elsewhere makes its receiver `crossed` and leaves the regular
clients alone. `BacklogInv` says where a connection is while it waits.

**SharedTable.** `TableInv`: unless there was a race, no worker writes beside another that is
busy, and to each worker that is not beside a writer the table looks as if it had it alone.
`LoneInv(w)` is what that is: the table is the newest block, with the routes first and
keys without an action after them, each key once; before the worker's cursor are only other
keys; and at each step of its insertion (`BlockInv`, `EntriesInv`, `LookupInv`) what is done of
it and what is not. A writer is alone until it has stored the new size, and then all workers,
idle till then, find the table complete. `AloneIsSafe` follows: one worker never races.
`CountIsExact` needs that a list without repetitions has as many elements as
positions (`KeysCounted`, with the library's bijections).

**Aco.** `IndInv` adds to the properties that no share stack goes while coroutines use it
(`Placed`), at most one coroutine runs (`OneRuns`), one that never ran has no frames
(`NeverRan`) and a save stack holds `valid_sz` words (`SavedWords`). `SavedRight` and
`RestoredRight` say that what is copied out are the owner's frames, and what is copied in is
what had been copied out, `CopiedAll` that the copy in pairs of words omits none, `SizeRight` that
the length with a guard page is the least one. `SaveSizeFits` is about a loop, and so needs
induction: `LeastElement` (a set of natural numbers has a least element, from the library's
well-founded relations), then `PowerBetween`, a power of two from `v` to `2v` for each `v`,
by a least counterexample.

**AtomicHash.** `AtomicInv` says who a node belongs to: a seat (`InSeats`), the free list, or
one call (`Owned`: the node an add builds or gives back, or a removal has taken out of its
seat and wipes or frees). `Pool` has the free list as a
sequence `c` linked through `x`, disjoint from the rest, and nothing outside the three.
`Holds` is the node in a seat whose first word a call has exchanged for 0: two calls never hold
one (`Apart`), a call that holds one finds it in the seat it read (`KnownOK`; the ABA is exactly
what breaks this), and a node in a seat that is not held carries its hash and the data of its key
(`SeatedOK`). The stack without a lock is the interesting part: between `newlink` and
`newcas` the node that was read may be popped, filled and given back by other threads. `Read` says
that a head read earlier has a smaller `rfn` or is the head, so a compare-and-swap that succeeds
finds the link that was read still the link (`newcas` in `CallOK`). Without `rfn` it would not be
inductive. `CountOK`: `ncur` is the number of seats of `Extra` whose node has been counted plus
the removals that have yet to count down, by cardinalities; between calls both remainders vanish.
`FreeWalk` is a recursive function; `InvSound` computes it from `c`.

**LibCsv.** `CsvInv`: the field so far is within the limit of the buffer (`BufferLimit`), and what
will be cut off is in it (`Kept`). `MightHaveEnded` takes away the spaces and the quote, so
`pos` would go below zero if `spaces < pos` did not hold there. `CharFollows` is the step of the
state machine, with a lemma for each of its three cases. For `RowsOfText` the state machine runs
twice, on its own buffer and on that of `Whole`: `Agree(pos, ...)` says that the
buffers have the same first `pos` characters, and that both handed out the same rows, and
`CharSame` that a character keeps it so. A call that stops for lack of memory, and one that begins
anew, change the state of the parser by copying it only.

**StrTokens.** `TokInv` puts the tokens behind the cursor and, for a class without "+", the
cursor right after the delimiter of the last token. `SpanIs` and `OffsetIs` say what the searches
find: the first place, and nothing before it. `SearchCuts` puts them together for each form of
delimiter. That tokens do not overlap holds for all forms; that nothing is missed is claimed for
classes, for which the code does it right.

**UtHash, LruCache.** `IsList(next, prev, head, s)` says that the links spell the sequence `s`
both ways; `ListPush`, `ListPut` and `ListCut` are what the macros do to the links, as changes of
`s`. `Chains` has one such sequence per bucket, over the same links `hh_next` and `hh_prev`: each
element is in the chain of its hash value, counts are the lengths. Chains share links
but no elements, so a push or a cut in one leaves the others (`PushChain`, `CutChain`).
`WalkIs` and `ChainedIs` compute the walks from the sequences; `ListCounted` (a list has no more
elements than there are) is why `Walk` does not cut one off. The expansion of the buckets reuses the
links that it reads, which is sound as the order of the old chains is fixed before (`Chained`); the code
saves `hh_next` for the same reason. `RehashStep` moves one element and `Expanded` all: the
new buckets hold what the old ones held, and the other list is untouched (`SameList`). `IsTable(t, s)` is
then what a caller knows of a table, with `Added`, `Deleted`, `FindIs`, `FsckPasses` and `CountIs` for the
macros. `LruInv`: the table is the one of `recent`, whose keys differ, these are the entries
allocated, and the stored hash values are those of the keys, without which `HASH_DELETE` would take
an element out of the wrong chain.

*Induction.* The library's induction schemes take an operator, which the provers do not
instantiate. Where it is needed (`PowerBetween`, `WholeGood`, `FreeWalk`, `Reach`, `Joining`, `Rehashes`), the proof takes
the least natural number for which the claim fails (`LeastElement` or `LeastNumber`, from `WFMin`) and refutes it;
and that a recursive function exists is proved the same way (`WholeExists`).

*Only proved.* The type invariants, `HookedSocketsListen` (what is in the event queue is open
and listens) and `CountIsExact` (the count of the table, until a race) are parts of the
invariants above and are proved, but are not properties of a run.

*Only model-checked.* The liveness properties and the fairness part of `ImplementsFifo`, which
are outside the prover's reach; and the properties of the data structures and algorithms
beside the server: `UtHashSound`, `AhTableSound`, `HatTrieSound`, `SearchSound`, `IsPerfect`,
`SizesFit` and `TextRight`. Their modules use
recursive operators (sorting, byte sequences, augmenting paths, the writer of CSV), which the
prover does not handle.

## Not modelled

The bytes of requests and answers; the parser's inner states; failure of the memory pool;
the order of thread creation in `ayubd_init`; the coroutines' part in the server (`USE_CORO`,
`main.h:226`) and the other features that are compiled out; everything that is never called
(`ayubd_quit`, `module_stop`, `stailq_free_lf_spsc`). `lru-cache.c` takes the cache by
value, so that what is added to an empty one is lost to the caller (its own test main, 58-71,
expects otherwise); `tokenize.c` does not compile;
`stack.c` is a list of one thread; `str_replace` pastes tokens together; `config.c` and
`ioqueue_signal.c` are not linked; the hash functions (`lookupa.c`, murmurhash3, uthash's
Jenkins hash) are any function; the size computation, memory pool and statistics of
`atomic_hash_create`; options and printing of the generator; the Ragel parser. See
`PROJECT.json` for each part.

## Plan

Done: the modules above, their runs, and the proofs listed. What could follow:

1. `UtHashSound` without sorting and selection: a program that adds, deletes and iterates with
   a body that deletes, from the lemmas of `UtHashProofs` on `IsTable`.
2. `Session`, an abstract connection (accepted, served, closed, freed), as what
   `Dispatch` implements.
