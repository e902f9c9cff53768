--------------------------------- MODULE Aco ---------------------------------
(***************************************************************************)
(* libaco: coroutines of one thread that run on stacks they share.  The    *)
(* coroutine whose frames lie on a share stack is its owner; when another  *)
(* one is resumed there, the owner's frames are copied out to its private  *)
(* save stack and the other's are copied in (aco.c, aco.h, acosw.S).       *)
(* Lengths are in machine words.  The frames of a coroutine are the words  *)
(* between align_retptr and its stack pointer; word 1 is the outermost.    *)
(***************************************************************************)
EXTENDS Naturals, Sequences

CONSTANTS Co, Stack,     \* coroutines that may be created, and share stacks
          Values,        \* what a frame may hold
          Sizes,         \* the lengths asked of aco_share_stack_new2
          Guards,        \* with a guard page, or without
          MinSize,       \* 4096 bytes, more than 5 words
          DefaultSize,   \* 2 MB
          PageSize,
          InlineWords,   \* the longest copy made without memcpy: 17 words
          SaveSize,      \* initial length of a save stack
          MaxDepth       \* bound: the deepest stack a coroutine uses, at most MinSize - 5

Main == "main"
Nil == "NULL"
None == [state |-> "none", share |-> Nil, sp |-> 0, sz |-> 0, valid_sz |-> 0, buf |-> <<>>]
NoStack == [req |-> 0, guard |-> FALSE, sz |-> 0]

VARIABLES co,       \* the control blocks
          stack,    \* share stacks: what was asked for and the valid length
          mem,      \* the words of a share stack below align_retptr
          owner,    \* share_stack->owner
          cur,      \* who runs: aco_gtls_co, or the main coroutine
          frames    \* history: the words each coroutine has on its stack

vars == <<co, stack, mem, owner, cur, frames>>

\* A word nobody has written, and a stack of them.
Junk == <<Nil, 0>>
Blank == [i \in 1..MaxDepth |-> Junk]

Init ==
    /\ co = [c \in Co |-> None]
    /\ stack = [s \in Stack |-> NoStack]
    /\ mem = [s \in Stack |-> Blank]
    /\ owner = [s \in Stack |-> Nil]
    /\ cur = Main
    /\ frames = [c \in Co |-> <<>>]
-----------------------------------------------------------------------------
Requested(sz) ==
    LET n == IF sz = 0 THEN DefaultSize ELSE sz
    IN IF n < MinSize THEN MinSize ELSE n

\* The length mapped for n words and a guard page.
WithGuard(n) ==
    IF n <= PageSize THEN 2 * PageSize
    ELSE IF n % PageSize # 0 THEN (n \div PageSize) * PageSize + 2 * PageSize
    ELSE n + PageSize

ValidSize(sz, guard) ==
    IF guard THEN WithGuard(Requested(sz)) - PageSize ELSE Requested(sz)

aco_share_stack_new2(s, sz, guard) ==
    /\ cur = Main /\ stack[s] = NoStack
    /\ stack' = [stack EXCEPT ![s] = [req |-> sz, guard |-> guard,
                                      sz |-> ValidSize(sz, guard)]]
    /\ mem' = [mem EXCEPT ![s] = Blank]
    /\ owner' = [owner EXCEPT ![s] = Nil]
    /\ UNCHANGED <<co, cur, frames>>

Exists(c) == co[c].state # "none"
Users(s) == {c \in Co : Exists(c) /\ co[c].share = s}

\* "Be sure that all the co whose share stack is sstk is already destroyed"
\* (README.md:330 of libaco).
aco_share_stack_destroy(s) ==
    /\ cur = Main /\ stack[s] # NoStack /\ Users(s) = {}
    /\ stack' = [stack EXCEPT ![s] = NoStack]
    /\ mem' = [mem EXCEPT ![s] = Blank]
    /\ owner' = [owner EXCEPT ![s] = Nil]
    /\ UNCHANGED <<co, cur, frames>>

aco_create(c, s) ==
    /\ cur = Main /\ ~Exists(c) /\ stack[s] # NoStack
    /\ co' = [co EXCEPT ![c] = [None EXCEPT !.state = "init", !.share = s, !.sz = SaveSize]]
    /\ frames' = [frames EXCEPT ![c] = <<>>]
    /\ UNCHANGED <<stack, mem, owner, cur>>
-----------------------------------------------------------------------------
CopiedPairs(sz) ==
    IF sz % 2 = 1 /\ sz <= InlineWords THEN 1..(2 * (sz \div 2)) ELSE 1..sz

\* The words copied by aco_amd64_optimized_memcpy_drop_in.  An odd number of
\* words, up to InlineWords, starts on a 16-byte boundary and is copied in
\* pairs and then the last word; the rest is left to memcpy.
Copied(sz) ==
    IF sz % 2 = 1 /\ sz <= InlineWords
    THEN (1..(2 * (sz \div 2))) \cup {sz}
    ELSE 1..sz

\* The powers of two up to n: no odd number but 1 divides them.
PowersOf2(n) == {p \in 1..n : \A d \in 2..p : p % d = 0 => d % 2 = 0}

\* Doubled until the frames fit.
Doublings(sz, valid) == {p \in PowersOf2(2 * valid) : sz * p >= valid}
GrownSize(sz, valid) ==
    IF sz >= valid THEN sz
    ELSE sz * CHOOSE p \in Doublings(sz, valid) : \A r \in Doublings(sz, valid) : p <= r

\* The owner o of the share stack with words m is copied out.
Saved(o, m) ==
    LET old == co[o]
        sz == GrownSize(old.sz, old.sp)
        kept == IF sz = old.sz THEN old.buf ELSE <<>>
    IN [old EXCEPT !.valid_sz = old.sp, !.sz = sz,
                   !.buf = [i \in 1..old.sp |->
                               IF i \in Copied(old.sp) THEN m[i]
                               ELSE IF i \in DOMAIN kept THEN kept[i] ELSE Junk]]

Restored(c, m) ==
    [i \in DOMAIN m |-> IF i \in Copied(co[c].valid_sz) THEN co[c].buf[i] ELSE m[i]]

aco_resume(c) ==
    LET s == co[c].share
        o == owner[s]
    IN /\ cur = Main
       /\ co[c].state \in {"init", "yielded"}
       /\ IF o = c
          THEN UNCHANGED <<mem, owner>> /\ co' = [co EXCEPT ![c].state = "running"]
          ELSE /\ co' = [x \in Co |-> IF x = c THEN [co[c] EXCEPT !.state = "running"]
                                      ELSE IF x = o THEN Saved(o, mem[s]) ELSE co[x]]
               /\ mem' = [mem EXCEPT ![s] = Restored(c, @)]
               /\ owner' = [owner EXCEPT ![s] = c]
       /\ cur' = c
       /\ UNCHANGED <<stack, frames>>
-----------------------------------------------------------------------------
\* The running coroutine's own work: it enters a function, whose frame is
\* one word, or returns from one.
Enter(v) ==
    /\ cur # Main
    /\ co[cur].sp < MaxDepth
    /\ co' = [co EXCEPT ![cur].sp = @ + 1]
    /\ mem' = [mem EXCEPT ![co[cur].share][co[cur].sp + 1] = <<cur, v>>]
    /\ frames' = [frames EXCEPT ![cur] = Append(@, <<cur, v>>)]
    /\ UNCHANGED <<stack, owner, cur>>

Leave ==
    /\ cur # Main
    /\ co[cur].sp > 0
    /\ co' = [co EXCEPT ![cur].sp = @ - 1]
    /\ frames' = [frames EXCEPT ![cur] = SubSeq(@, 1, Len(@) - 1)]
    /\ UNCHANGED <<stack, mem, owner, cur>>

aco_yield ==
    /\ cur # Main
    /\ co' = [co EXCEPT ![cur].state = "yielded"]
    /\ cur' = Main
    /\ UNCHANGED <<stack, mem, owner, frames>>

aco_exit ==
    /\ cur # Main
    /\ co' = [co EXCEPT ![cur].state = "end"]
    /\ owner' = [owner EXCEPT ![co[cur].share] = Nil]
    /\ cur' = Main
    /\ UNCHANGED <<stack, mem, frames>>

\* A destroyed coroutine gives its share stack up.
OwnerAfter(c) == [s \in Stack |-> IF owner[s] = c THEN Nil ELSE owner[s]]

aco_destroy(c) ==
    /\ cur = Main /\ Exists(c)
    /\ owner' = OwnerAfter(c)
    /\ co' = [co EXCEPT ![c] = None]
    /\ frames' = [frames EXCEPT ![c] = <<>>]
    /\ UNCHANGED <<stack, mem, cur>>

Next ==
    \/ \E s \in Stack : \/ \E sz \in Sizes, guard \in Guards : aco_share_stack_new2(s, sz, guard)
                        \/ aco_share_stack_destroy(s)
                        \/ \E c \in Co : aco_create(c, s)
    \/ \E c \in Co : aco_resume(c) \/ aco_destroy(c)
    \/ \E v \in Values : Enter(v)
    \/ Leave \/ aco_yield \/ aco_exit

Spec == Init /\ [][Next]_vars
-----------------------------------------------------------------------------
States == {"none", "init", "running", "yielded", "end"}
Word == (Co \X Values) \cup {Junk}

TypeOK ==
    /\ co \in [Co -> [state : States, share : Stack \cup {Nil}, sp : 0..MaxDepth,
                      sz : Nat, valid_sz : 0..MaxDepth, buf : Seq(Word)]]
    /\ stack \in [Stack -> [req : Nat, guard : BOOLEAN, sz : Nat]]
    /\ mem \in [Stack -> [1..MaxDepth -> Word]]
    /\ owner \in [Stack -> Co \cup {Nil}] /\ cur \in Co \cup {Main}
    /\ frames \in [Co -> Seq(Word)]

\* Its frames are on the share stack while it is the owner, and in its save
\* stack otherwise.
Intact(c) ==
    /\ co[c].sp = Len(frames[c])
    /\ IF owner[co[c].share] = c
       THEN \A i \in 1..co[c].sp : mem[co[c].share][i] = frames[c][i]
       ELSE co[c].valid_sz = Len(frames[c]) /\ co[c].buf = frames[c]

\* A coroutine finds its stack as it left it, whatever the others did on the
\* share stack meanwhile (aco_resume's copies, aco.c:368-473).
StackIntact == \A c \in Co : co[c].state \in {"running", "yielded"} => Intact(c)

\* The owner of a share stack exists, has not ended and was created on that
\* stack: what aco_resume asserts of it before it copies it out (aco.c:371),
\* and aco_exit of itself (aco.h:212).
OwnerSound ==
    /\ \A s \in Stack : owner[s] # Nil =>
          co[owner[s]].share = s /\ co[owner[s]].state \in {"running", "yielded"}
    /\ cur # Main => owner[co[cur].share] = cur

\* A copy never writes past the end of a save stack.
SaveFits == \A c \in Co : Exists(c) => co[c].valid_sz <= co[c].sz

\* The valid length of a share stack is the smallest one that covers the
\* request and the minimum, and is whole pages when it has a guard page
\* (README.md:310-316 of libaco).
FinalValidSize ==
    \A s \in Stack : stack[s] # NoStack =>
        LET n == Requested(stack[s].req)
            unit == IF stack[s].guard THEN PageSize ELSE 1
        IN /\ stack[s].sz >= n
           /\ stack[s].sz % unit = 0
           /\ stack[s].sz - unit < n

\* All of it, of any number of coroutines on any number of share stacks.
StacksIntact == StackIntact /\ OwnerSound /\ SaveFits /\ FinalValidSize
-----------------------------------------------------------------------------
\* What the proofs assume of the constants: no coroutine or stack is at NULL,
\* and no length is zero.
ConstOK ==
    /\ Main \notin Co /\ Nil \notin Co /\ Nil \notin Stack
    /\ MaxDepth \in Nat /\ InlineWords \in Nat /\ SaveSize \in Nat \ {0}
    /\ Sizes \subseteq Nat /\ Guards \subseteq BOOLEAN
    /\ MinSize \in Nat \ {0} /\ DefaultSize \in Nat /\ PageSize \in Nat \ {0}

\* The inductive invariant: no share stack goes while it is in use, at most one
\* coroutine runs, one that never ran has nothing on any stack, and a save
\* stack holds as many words as were copied.
Placed ==
    \A c \in Co : Exists(c) =>
        co[c].share \in Stack /\ stack[co[c].share] # NoStack /\ co[c].sz > 0
OneRuns == \A c \in Co : (co[c].state = "running") <=> (cur = c)
NeverRan == \A c \in Co : co[c].state = "init" => co[c].sp = 0 /\ frames[c] = <<>>
SavedWords == \A c \in Co : Len(co[c].buf) = co[c].valid_sz

IndInv == TypeOK /\ Placed /\ OneRuns /\ NeverRan /\ SavedWords /\ StacksIntact
=============================================================================
