# Models and proofs of the 15213 lab programs

The repository holds six independent C programs. This directory models all of them
in TLA+, checks them on small instances with TLC, and proves with TLAPS, for every
instance, every safety property and refinement that the passing runs check, but for
one (the end of section 5). PROJECT.json maps every definition that
stands for code to its lines, and names for every property a *mutant*: a plausible
bug in a mapped definition (an operator of the module whose comment begins with
"Mutant") under which TLC finds the property violated.

## 1. Inventory

### Proxy (`src/proxylab-handout`)

| part | state | operations |
|---|---|---|
| object cache (`cache.c`) | a doubly linked list behind a sentinel, `cache_size`, `block_cnt`, one semaphore | `cache_check`, `cache_get` (both walk without the semaphore), `cache_move_to_head`, `cache_update`, `cache_control` |
| connections (`proxy.c`) | per thread: a client and a server descriptor, the object being accumulated; process wide: the descriptor table | `main` (accept, one detached thread each), `thread_wrapper`, `thread_pro`, `adjust_cache`, `assemble_header`, `error_msg` |
| Rio package (`csapp.c`) | per descriptor: an internal buffer, the place in it, a count of unread bytes (negative after an error) | `rio_readn`, `rio_writen`, `rio_read`, `rio_readinitb`, `rio_readnb`, `rio_readlineb` |
| wrappers (`csapp.c`) | none of their own | `P`, `V`, `Accept`, `Close`, `Rio_readlineb`, `open_clientfd_r`; an error in a capitalised wrapper ends the process |

Threads share the list, the descriptor table and the fate of the process.
What is hard: walks that race with moves; a lookup that is repeated after it
was answered; the order of the stores that make a block reachable; an object
limit met exactly; descriptors closed twice and given to somebody else in
between; descriptors that run out; servers and clients that fail at any point;
reads and writes that the kernel cuts short or interrupts.
It is correct when the list loses no block and its totals agree with it, the
size limit holds, walks end on whole blocks, each thread uses its own sockets,
every socket is closed in the end, what fits in the cache is cached whole, and
the bytes of a stream are passed on in order, each once.

### Shell (`src/tiny-shell-lab.c`)

State: the job table and `nextjid`; the signal mask; the kernel's view of the
children. Operations: `eval` (fork, `addjob`, wait for the foreground job),
`bgjob`, `fgjob`, `listjobs`, `quit`, and the handlers of SIGCHLD, SIGINT,
SIGTSTP and SIGQUIT, which interrupt all of these and each other and share the
table with them. Before it acts, `eval` calls `parseline`, a loop over the line
with a state for redirections and an `argv` of fixed size.
What is hard: a child that ends before it is listed; a handler between two
accesses to the table; SIGCHLDs that merge; a pointer into the table held
across handlers; `fork` or `addjob` failing. It is correct when the table
follows the children, the prompt waits for the foreground job, keys reach that
job only, every child is reaped, and a line is taken apart as it is written.

### Cache simulator (`src/cache/csim.c`)

State: the lines of every set, a rank per line, three counters, the address read
last. Operations: `scanCache` (hit), `loadCache` (miss), `updateCache` (ranks),
`simuCache` (the trace). Sequential; what is hard is the rank queue: it is updated in place,
`loadCache` needs a line of rank 0, and the whole should be LRU.

### Allocator (`src/malloc-lab.c`)

State: the heap with boundary tags, ten segregated doubly linked free lists.
Operations: `malloc`, `free`, `realloc`, `calloc`, over `extend_heap`, `coalesce`,
`find_fit`, `place` and the list routines. Sequential; what is hard is the long
history: merging in four cases moves blocks between lists chosen by size, and
sizes are rounded, split and counted in `size_t`, but kept in tags of 32 bits.

### Matrix transpose (`src/cache/trans.c`)

State: the two matrices, and what waits in local variables while a block is copied.
Operations: `transpose_submit`, with a blocked loop for each of three sizes, of which it
tests one side only, and `trans`. Sequential; what is hard is the order of the loads and
stores of the 64 x 64 loop, which parks half a row in registers over eight turns. It is
correct when every element arrives, and worth its length when it misses less than the
simple loop.

### Bit puzzles (`src/bits.c`)

No state. Fourteen functions on words, in which the boundaries are hard: signs,
overflow, shifts by nothing, rounding that carries into the exponent.

### Others

Option parsing and all output are text processing without state. Makefiles and
headers have no behaviour.

## 2. Modules

    LRUList    <-- implemented by --  ProxyCache  <- MCProxyCache, ProxyCacheProofs
                                      Proxy       <- MCProxy, ProxyProofs
    RioStream  <-- implemented by --  Rio         <- MCRio, RioProofs
                         JobList  <-  Shell       <- MCShell, ShellProofs
    LRUSets    <-- implemented by --  CacheSim    <- MCSequential, CacheSimProofs
    Allocator  <-- implemented by --  Malloc      <- MCSequential, MallocProofs
            Transpose, ParseLine, Bits            <- MCSequential, SequentialProofs
                       ParseLine                  <- MCParseLine

DataLemmas (sums, sequences, numbers in order) is used by all the proof modules but
those of Rio and Shell.

**ProxyCache** — `cache.c` under the calls of `thread_pro` and `adjust_cache`. A
thread serves one connection; its `pc` says where it is, and a block carries the
name of the thread that created it. Every load and store of a `next` field that
a walker can see is a step of its own (`WalkOn`, `Clear`, `InsertLink`,
`InsertPublish` ...); what is read only under the semaphore changes together
with the store beside it. The Makefile asks for no optimisation and walkers
store nothing, so the interleaving of those steps is what runs.
`alive = FALSE` is the death by the NULL that `adjust_cache` does not test.
**LRUList** is what the file promises: atomic `Touch` and `Add` on a sequence.
The refinement maps a move to the store that unlinks the block and an insertion
to the store that publishes it.

**Proxy** — connections around an atomic cache of one uri: accept, request,
lookup, the connection to the server, relaying, closing. `fds` is the descriptor
table; a thread knows its sockets by number only, numbers are reused lowest
first, closing a closed number ends the process (`Exit`). `Faults` says which
faults of the surroundings may happen: a client that leaves, a bad port, a name
lookup, a connect or a server that fails, and a cache that is full (`full`): a store
that overflows it never comes back (place `store`; why is in ProxyCache), and those
that hit or store after it wait with it. `object` and `response` hold lengths of
lines, `page` which parts of which pages each client received, and from which
thread. The two pages of `error_msg` (501 and the connection error) are four writes
each, any of which can fail; each is a step (`ErrorLine`). `spin` is the
loop of `assemble_header` that a client's end of file never leaves. `unresolved`
is a history variable: the threads for which `getaddrinfo` failed, whose socket
`open_clientfd_r` leaves open.

**Rio** — the Rio package under a program that writes to one descriptor what it
reads from another, as `thread_pro` does. A byte is its place in the stream, and
`newlines` are the places that end a line. One call of `read` or `write`, one copy
out of the internal buffer, one entry and one return are a step each; the kernel
chooses how many bytes it hands over, whether a signal interrupts (`rio_cnt`
becomes -1, which the next turn takes for an empty buffer) and whether it fails.
**RioStream** is the promise to the caller: each call answers at once with the
next bytes of the stream, up to the count asked for, the newline or the end of
file. The refinement hides what is in the internal buffer and the half-filled
buffer of the caller: what has been handed over is what the kernel gave, less
the bytes in both.

**JobList** — the table and its routines, each one step. **Shell** — `eval`, the job
commands and the handlers. The shell is one thread, and `pc` its place in the main
routine: `stack` holds the handler frames, and the main routine moves only while it
is empty. `sa_mask` is empty in the code, so a handler holds back only its own
signal. `proc`, `news` and `doomed` are the kernel's view of the children: their
state, the stops `waitpid` has yet to report, and stopped children with a SIGINT to
come. `status` records how the shell ended: `segfault` (a NULL job), `kill_failed`
(the wrapper `Kill`), `write_failed` (`listjobs`), `quit` (the command, or SIGQUIT
from the driver).

**ParseLine** — `parseline`, one turn of its loop a step, and what `eval` makes of the
result. A line is a sequence of lexemes: a redirection character, a token, a
quote without its partner. What the code compares with text (`&`, the names of
the built-in commands) are lexemes of their own, and so is what it cannot tell from
`&`: a quoted word, or a longer one, that starts with that character (`'&'`).

**CacheSim** — lines are `[valid, tag]`, `queue` the ranks. One record of the trace
is one step: the address is cut into tag and set (`SetOf`, `TagOf`), then `scanCache`,
`loadCache` and `updateCache` follow; a modify adds the hit of its store (`extra`). A
record that `fscanf` can match in part only counts as an access of the address
in `addr`. **LRUSets** is the abstract cache: per set, the *blocks* in order of use,
where block n belongs to set n % S, with the counters. The refinement sorts the
valid lines by rank and puts each tag and set together to a block number, so it
also says that no two blocks are mixed up by the shifts and masks.

**Transpose** — both functions, one after the other as they are registered, on the
1 KB direct-mapped cache they are judged by. A matrix is its memory; the value of
an element is its place in A, so that B shows where each value came from. A step
is one turn of the innermost loop but one, with its accesses in the order in which
the code makes them. `r`, `c`, `i` are the loops and `v` the registers `v4` to `v7`.
`TurnsLeft` is the tests of the three branches, one side of the matrix each: with
M = 32 the rows below the last whole block are left out, and other sizes altogether.
`held` and `misses` are the cache and its count.

**Bits** — each puzzle as the expression the code computes, beside a definition of what
its comment promises. A word is the set of its one bits; sums wrap around at 32
bits. The state is only the arguments that are tried.

**Malloc** — one call is one step, computed by operators with the names of the
routines and macros, on a heap of tags (`mem`), list heads (`seg`) and links. `live`
holds what callers were given and asked for. A tag keeps its size modulo `WORD`
(2^32 in the code), and what is found by a tag is found by what the tag says.
`mm_init` may find no room for its first extent (the heap is then `EmptyHeap`), or
none at all (`NoHeap`), and `malloc` goes on regardless. A word that is payload reads as a
tag no block has, so a walk that goes astray shows. **Allocator** is what callers may
rely on, without a heap: a set of held intervals below a break. A call hands out
aligned bytes that overlap no held ones, or it fails, for which there are two reasons
only: nothing was asked for, or the heap cannot be extended by the request with its
tags and rounding, or by the least it is ever extended by. `realloc` gives up the old
bytes for new ones or leaves them alone, and the process dies in `calloc` only. The
refinement maps the held bytes to `live` and the break to `h.brk`.

**MCSequential** — Transpose, ParseLine, Bits, CacheSim and Malloc share nothing; a
behaviour of the run is one of them (`program`), while the others do not start.

## 3. Runs

| run | instance | what it shows |
|---|---|---|
| `cache_safety` | 4 threads, 2 uris, sizes 1 and 2, limit 4 | links and totals right, limit kept, walkers on whole blocks, `LRUList` implemented (hence no block lost) |
| `cache_live` | 4 threads, objects of size 1, limit 2 | walks end; no thread waits for ever, unless a store overflows the cache |
| `cache_evict` (violation) | 3 threads, objects of size 1, limit 2 | `OverflowEvicts`: see below |
| `cache_miss` (violation) | 4 threads | `HitIsFound`: see below |
| `proxy` | 2 connections, 3 numbers, every fault, up to 3 lines | undisturbed threads keep their sockets; sockets are closed; objects fit and are cached whole; connections end, but for those behind an overflow of the cache |
| `proxy_feedback` (violation) | 3 connections, a connect fails | `FeedbackToClient`: see below |
| `shell_table` | 2 children, 2 commands of `jobs`, `bg`, `fg`, 1 key | table and children agree; children are reaped |
| `shell_eval` | 3 children, 2 slots, 2 keys, a failing fork | the prompt waits, keys hit the foreground job |
| `shell_wait` (violation) | 2 children | `WaitEnds`: see below |
| `rio` | streams of up to 4 bytes, any of them newlines, a buffer of 2, calls for 1 and 3 bytes, lines of 2 and 4 | what is read comes out in order; calls return; `RioStream` implemented |
| `sequential`, Transpose | 32 x 32, 64 x 64, 61 x 67, six other sizes | what is stored is right; `trans` transposes, and so does the submission where its branches suffice; on the three sizes it misses less |
| `sequential`, ParseLine | lines of up to 5 lexemes, 3 arguments | lines parsed as written, with the exceptions of `parse_form` |
| `sequential`, Bits | some 280 words | puzzles right |
| `sequential`, CacheSim | 2 sets of 3 lines, 4 blocks of 2 addresses per set, 6 records | contents and ranks agree; `LRUSets` implemented, counters included |
| `sequential`, Malloc | break up to 184 bytes, sizes 0, 8, 30, 50 | the heap checker's conditions and more; callers' blocks untouched; `Allocator` implemented; the heap grows only when nothing fits |
| `parse_form` (violation) | lines of up to 3 lexemes | `AsDocumented`: see below |

**Bounds and why they are enough.** *Cache*: two creators and two movers are the fewest
threads that move two neighbouring blocks at once, hence four; with sizes 1 and 2 and
the limit 4 a third object can meet the limit exactly or exceed it. For liveness, too,
four: two creators give a list on which a mover can send a walker back to the head; a
limit of 2 lets a third store overflow behind walkers and waiters. *Proxy*: two
connections are enough for a number to be closed twice with a new owner in between, a
third receives what was meant for another (`proxy_feedback`); three numbers make
`accept` and `socket` fail. Three lines of length 1 or 2 against a limit of 3 give
objects below, at and above the limit, and a line that fits after one that does not.
*Shell*: two children and one key reach every handler inside every other one (the
handlers nest at most three deep); three children on two slots fill the table and take
the job ids past their wrap-around. *Simulator*: four blocks on three lines force
replacement, in six records after every order of use of the three; two addresses per
block and two sets give each of the three fields of an address a bit. *Allocator*: the
break of 184 lets the heap grow once beyond its first extent before `mem_sbrk` fails,
which gives remainders that are split and that are not, all four cases of `coalesce` and
blocks of several lists; tags of up to 256 do not cut off a size (with 128 they do, and
TLC finds `HeapOK` violated). *Rio*: four bytes need two refills, three of them in one
call make a copy end inside a refill and a refill inside a call; newline, end of stream
and full buffer fall together in every combination. *Transpose, ParseLine, Bits*: the
sizes are the three of the assignment, in full, and small ones with which a branch does
everything (32 x 8, 61 x 5), leaves out rows (32 x 12) or is not entered (64 x 8, 3 x 4,
1 x 1), M being named first; three arguments and five lexemes fill `argv` before, at and
after a last `&` and a redirection; the words are runs of ones that begin and end where
bytes, exponent, fraction and word do, alternating words, complements of all these, and
numbers around the halves that rounding decides.

**Deadlock** is not checked in the passing runs because the systems stop: the
connections, streams, traces and programs are finite, the shell can quit or die,
and `calloc` dies when there is no memory.

**Symmetry** (threads, uris, connections) is used in safety runs only.

**Fairness.** `ProxyCache` and `Proxy`: the kernel runs every thread that can run
(weak fairness of each thread's own steps). A semaphore makes no promise to a
particular waiter; weak fairness is enough because the connections of a
behaviour are finitely many. Nothing is assumed of clients and servers in
`ProxyCache`; in `Proxy` they answer what they are waited for, unless they fail.
`Rio`: the peer sends or closes in the end and no signal interrupts a call for ever
(weak fairness of every step that makes progress); nothing else is fair, and a
short count of one byte every time is allowed.
`Shell`: the shell runs unless it sleeps with no signal to take, and a forked
child gets to its `setpgid`. No child need ever end, and no key need be typed.

## 4. What the code does otherwise than it says

* `cache_miss` — `cache_check` finds a uri, but the block is out of the list for a
  moment while another thread moves it to the head, and `cache_get` (a second
  walk without the semaphore) returns NULL, which `adjust_cache` dereferences.
* `cache_evict` — `cache_update` calls `cache_control` between its P and V
  (`cache.c:109`), and `cache_control` waits for the same semaphore (78). A store that
  overflows the cache never ends, nothing is evicted, and every later hit or store
  waits behind it. That the loop behind that P is never reached, by any number of
  threads, is the theorem `EvictionIsDead`.
* `proxy_feedback` — after a connect that failed, `thread_pro` closes the client and
  `thread_wrapper` closes the same number again. In between the number can go
  to a new connection, whose client is then cut off and whose thread writes to
  whoever gets the number next.
* `shell_wait` — `eval` tests for a foreground job with its signals unblocked and then
  calls `sigsuspend`. A SIGCHLD between the two is handled too early; the shell
  sleeps although its job has ended.
* `parse_form` — whether a line is for the background is decided by the first character
  of its last argument (`tiny-shell-lab.c:677`), from which the quotes are gone by then.
  In the trace the line is one quoted word that starts with `&`: it is taken off, and
  nothing is run. With that lexeme left out of the cfg the same property is violated by
  `< < file`, which is accepted because a redirection character only sets a bit (596).

Met while modelling, in the models as they are in the code, without a run:

* Two threads that miss one uri both store it (`cache.c:111`).
* The socket of `open_clientfd_r` stays open when the name is not found
  (`csapp.c:973`). `ServersClosed` says that no other is left.
* A response longer than an object is cached with the lines left out that did
  not fit; the test that should prevent it is always true (`proxy.c:263`).
* `fg` returns without waiting, so that a second job can come to the foreground
  (`tiny-shell-lab.c:528` against the comment at 38).
* `bg` stores its state before it sends SIGCONT; a stop reported in between leaves a
  running job listed as stopped (`tiny-shell-lab.c:483`).
* Ctrl-c before the child's `setpgid`, or after its reaping by an interrupting
  handler, makes `kill` fail, and `Kill` ends the shell (`tiny-shell-lab.c:744`).
* After the wrap-around of `nextjid` two listed jobs can have one id
  (`tiny-shell-lab.c:823`, `851`).
* With `argv` full `parseline` stops and says nothing of the rest of the line
  (`tiny-shell-lab.c:647`).
* A line of the trace that matches in part is an access of the address before it
  (`csim.c:193`).
* A request less than 16 bytes below the top of `size_t` wraps in `BLK_SIZE` to a block
  without payload (`malloc-lab.c:86`); `find_fit` compares four fits, where the
  comments say three (15) and five (317).
* A tag is a word of 32 bits, so a block of 2^32 bytes or more gets a wrong size
  (`malloc-lab.c:66`). `malloc` ignores that `mm_init` failed (148); `MallocProofs` shows
  that nothing comes of it.
* `transpose_submit` leaves sizes without a branch alone, and with M = 32 the rows
  below the last multiple of 8 (`trans.c:38`). With N = 64 and another M its second
  branch leaves the arrays (69): that is undefined, and not modelled.

Met while reading, outside the models:

* Every header line but Host sets the host to be sent back to that of the uri, and
  of the unknown headers only the last is kept; it is sent after the empty line
  (`proxy.c:85`). `header_server` is appended to before it is initialised (239).
* `parse_uri` looks for a colon or slash without stopping at the end (`proxy.c:133`).
* `listjobs` reads a slot several times with signals unblocked; a job deleted in
  between is printed as an internal error (`tiny-shell-lab.c:926`).

## 5. Proofs

All theorems hold for every value of the constants that satisfies the named assumptions
(`ConstantsOK`, `ProxyConstantsOK`, `RioConstantsOK`, `JobConstantsOK`,
`ShellConstantsOK`, `SimConstantsOK`, `MallocConstantsOK`, `ParseConstantsOK`,
`TransposeConstantsOK`, `BitsConstantsOK`), which TLC evaluates in the runs.
`MallocConstantsOK` asks that the first extent, a quarter of `CHUNKSIZE`, holds a
minimum block (in the code they have 256 and 24 bytes), and that a word is a multiple of
8 from 16 on; `TransposeConstantsOK` excludes N = 64 with another M only. A theorem with
a hypothesis of its own names it below.

**ProxyCacheProofs.** `Inv` is the type invariant with two parts. `SemaphoreInv`: at
most one thread is between P and V, and the semaphore is then 0; nobody is at
`evict`. `PointerInv`: every pointer that a thread or a `next` field holds leads to
a stored block, but for the creator's pointer to the block it is inserting. Neither
is inductive alone: a walk lands on whole blocks because the fields it follows do,
and these do because only the one thread inside stores them. Theorems `TypeCorrect`,
`Exclusion`, `EvictionIsDead` and `WalkersAreSafe` follow. `CacheBounded` adds
`SizeInv` (with the size of a block taken off during a move, the rest leaves room
for it). `LinksConsistent` adds `LinkInv`: on the list, `prev` and `next` are
inverse to each other, but for the first block between the two halves of an
insertion, whose `prev` already names the block that is about to precede it.
`TotalsCorrect` is about the sum of the sizes on the list, which changes by one
element at a time. For `NothingLost` the invariant is `ListInv`: there is a sequence
that a walk from the sentinel meets, without repetition, and its elements are the
blocks on the list (`NoBlockLost`, a definition of ProxyCache, says so of the walk
`Chain`). A move shortens or prepends to that sequence at one store each, by
the links that `LinkInv` relates. `RefinesLRUList` follows: the store that unlinks is
a `Touch`, the one that publishes a new block an `Add`, every other step a stutter, as
`OrderFollowsList` shows what LRUList sees from that sequence.

**ProxyProofs.** In four parts, each on top of the one before, all under any set
of faults. *Types* (`TypeCorrect`), with the fact that a thread that hit finds a
cached object. *Leaks*: a number may lead a thread to a foreign socket, but a
socket is never at a number other than the one its own thread knows,
`ClientsKnown` and `ServersKnown`, so the last `Close` of the thread finds it. The
lemma `CloseKeeps` treats a thread that closes any number, its own or not.
`NoClientLeaks` and `NoServerLeaks` follow; the second excepts the threads in
`unresolved`. *Own sockets*: what goes wrong needs a thread at one of the two
places that close a number for the second time. Until a client has been refused
or has hung up no thread gets there, all numbers of running threads lead to their own
sockets, and none is in two hands; this is inductive with the types, and
`OwnSockets` follows (the four places of an error page, from the second write on, are
already past the refusal). *Objects* (`ObjectsFit`, `SmallWhole`, `CacheGetsObjects`): what is
kept fits, and as long as the lines that came fit none is left out; a line left out
makes the response too large for good, because lines have no negative length.

**RioProofs.** `PassedOn` speaks of what has come out; what comes out is copied from
the caller's buffer, and that from the internal buffer, so the invariant has one
part for each: `BufferHolds` (the unread part of the internal buffer is the stretch
of the stream before the kernel's place), `CallerHolds` (the caller's buffer is the
stretch before that), `OutHolds` (the rest is out, up to what `rio_writen` still
owes). `Phases` ties these to the function the program is in: the internal buffer is
empty when the end of file is seen, and with `rio_readn` always. A lemma for each
action; `Invariance` combines them, and `TypeCorrect` and `StreamPassedOn` follow
for streams, buffers and calls of any size. `Piece` and `Joined` are the facts on
sequences they rest on.

`RioImplementsStream` is the refinement that the run `rio` checks, for every
instance. `IInv` says which bytes a call
holds; where it stops needs `LineGoesOn` (a line that is still read has no newline
before its last byte and room for the final zero), from which `StopsAtEnd` shows that
the place where the loops end is the minimum that RioStream names. Each step is
then a step of RioStream or a stutter: the return and the end of file are the
answer, a failed read is the failure, and refills and copies keep `Given`, the
place where the stream went on when the call began.

**ShellProofs.** *Types* (`TypeCorrect`), with the fact that the frames on the stack
belong to different signals, so there are at most three. *The table*: `NoStaleJob`
alone is not inductive. `Table` adds that a pid is listed at most once (`Once`), that
what is listed was forked (`Known`), that between `fork` and `addjob` no handler runs,
so the child is neither listed nor reaped (`InEval`), and that `sigchld_handler`
deletes only what is reaped (`Deleting`). All steps but fork, `addjob`, `deletejob`
and the reaping of a zombie leave this alone (`TableStays`). `NoStale` follows.
`AllTracked` is proved for tables with a slot for every child; `FullTable`, where
`addjob` fails, is a pigeonhole argument. `Awaited`, for a shell without `fg`, needs
that only the job `eval` waits for is marked FG (`Front`); then each of the two tests
that end the loop, one by state and one by pid, says that no job is.
*Keys and stops* are two more invariants on top of `Table`. `KeysHit`, without `bg`
and `fg`: a frame that is about to send has a target that is listed as FG or ST, or is
reaped (`KillFrames`), and what is marked ST, or about to be, is stopped, so a key
cannot reach it. `StopsKnown`, with all commands: a stopped child is in `news`, or a
frame is about to mark it, or it is marked, or it is about to be continued
(`StopsSeen`); and as long as there is news, SIGCHLD is pending or handled
(`NewsComes`), for the handler returns only when `waitpid` has nothing left.

**CacheSimProofs.** The ranks of a set are a permutation (`RanksArePermutation` and
`RanksDistinct`, each needing the other: `updateCache` shifts down the ranks above
the promoted one), no block is twice in a set, and lines in use rank above (`UnusedFirst`)
unused ones. `RefinesLRUSets`: the simulator implements LRUSets, with its counters. The
lines in use are those of the n highest ranks for some n (`InUse`), so sorting them by
rank gives n blocks (`RecentShape`); a hit moves one to the front, a miss prepends one
and takes off the last when the set is full. That a block is its tag and set put
together again needs quotients and remainders by powers of two, for which there are
lemmas of their own.

**MallocProofs.** The properties walk the heap from block to block and the lists from
pointer to pointer. The proofs do not: there is a set P of places such that the tags of
P tile the heap between prologue and epilogue (`Shape`), and for every list a sequence
without repetition that its pointers spell out, which together hold just the free blocks
of P, each in the list of its size (`ListsHold`). Each helper is shown to change these
as it should (`add_to_list`, `delete_from_list`, `place` with and without a remainder,
the four cases of `coalesce`, `extend_heap`); in between, a heap is sound but for one
block that is free and not listed (`SoundBut`). `Good`, the invariant, says that nothing
was initialised and nobody holds a block, or that there is such a P without two free
neighbours whose taken blocks are those the callers hold. At the end it is shown that
the walks of the properties meet P and the lists, and no more. Three hypotheses are
needed, and the instance of the run satisfies them. `TagsFit`: the heap ends where a tag
can still say so, LIMIT <= WORD, that is, at 4 GB. Without it the tag of a large block
is cut off and the tiling is lost (TLC finds `HeapOK` violated with a smaller WORD).
`RequestsFit`: no request, and no product that `calloc` passes on, is less than 16 bytes
below the top of `size_t`, where `BLK_SIZE` wraps to less than a minimum block (section
4). It cannot be weaker: with one request of 15 bytes below the top, TLC finds `HeapOK`
and `LiveOK` violated; with 16 it finds nothing. `BlocksHeld`, `RefinesAllocator` and
`GrowthDelayed` take `ProductsFit` too, for a product of `calloc` that wraps is given
less room than was asked for. Nothing is assumed of the order of calls, nor that
`mm_init` succeeds: a heap that ends within its prologue is never set up, one that ends
within its first extent has no free block at first (`InitSound`, and TLC agrees with
LIMIT = 8, 16, 40 and 79). For `GrowthDelayed`, `find_fit` is shown to find a block
whenever one in the list of the size or in a later one is large enough; in the earlier
ones none is, because `index_seg` is monotonic. `RefinesAllocator` needs, besides
`Good`, why a call fails: `Answers` has `Refusing`, that `extend_heap` met LIMIT with at
least the request and at most 24 bytes more, or with the smaller of the break and
`CHUNKSIZE`, and `Initialised` that a first call which fails has set up the heap all the
same. The new bytes are nobody's because they lie in a block of P that was not taken,
and blocks of P do not overlap (`Fresh`).

**SequentialProofs.** `LinesParsed`: `ParsedAsWritten` speaks of whole lines and
`parseline` has seen a part of one, so `Reached` says of the part up to `buf` what the
property says of a line, but for the redirection characters at its end, which are in
`parsing_state`. Lines that are not `Plain` are left out; they are those of `parse_form`.
When `argv` is full, the part that was seen is the one the property
looks at (`SeenTo`). `Transposed`: what is stored is right, and the elements that
`Stored` reads off the loops are there (`RightSoFar`), while `v4` to `v7` hold the right
half of the first row of their block (`Waiting`). The cache does not matter for this. The
theorem is for all sizes (but N = 64 with another M): that all is stored is said of
`trans`, and of `transpose_submit` for M = 32 with N a multiple of 8, M = N = 64, and M = 61
(`Covered`); that nothing wrong is stored, of any.
`PuzzlesSolved` and `FloatsRounded` hold for any set of words. They are not about states but
about arithmetic on sets of bits. `SameValue` says that a word is determined by its
value, so two words are equal when their values are, and each operator gets a lemma on
values: `+` is the sum modulo 2^32 (`AddValue`: the carry into bit k is there when the
parts below k add up to 2^k or more), a disjoint union the sum (`ValueUnion`), a shift
a product or a quotient (`ValueShl`, `ValueSplit`), `~` the difference from 2^32 - 1
(`ValueNot`). From these `isGreater` is a comparison of a difference with 2^31, and
`bitCount` a sum of nibbles, none of which overflows, taken in two steps
(`NibblesCounted`, `Digits`). In `float_i2f` the kept bits and the exponent make up one
number, to which 1 is added for rounding (`PackedSum`), so the carry into the exponent
takes no case of its own; `NearestFloat` has that case, and the same value (`NearestIs`).

**DataLemmas.** The library states induction for an operator, which the installed
provers cannot instantiate. A property of numbers is therefore the *set* of those that
have it: if a number lacked it there would be a least one (`LeastNat`, from the
well-foundedness of < on Nat). On `Induction` rest the facts on sums, listings and
the lengths of walks, which the recursive functions and folds of the models need.

**Model-checked only.** Liveness (`LookupsEnd`, `WorkEnds`, `ConnectionsEnd`,
`ZombiesReaped`, `CallsReturn`) is out of the prover's reach, like ENABLED.
`FewerMisses` compares two counts on one concrete cache, tens of thousands of accesses
that only a run goes through.

No module that is proved about declares a RECURSIVE operator.

## 6. Not modelled

* The eviction loop of `cache_control`: unreachable (proved). The return of
  `cache_update` for an object larger than `MAX_OBJECT_SIZE`: its only caller has
  none (`ObjectsFit`, `CacheGetsObjects`), which is the assumption on `ObjectSize` in
  ProxyCache. The failing allocation in `create_block`.
* In `Proxy`, the NULL that `cache_get` may return; ProxyCache has it.
* The text of requests: `parse_uri`, headers and methods are choices of their
  outcomes. In `Proxy`, a line is read in one step; `Rio` is where reads are cut.
* Two threads that share one connected server socket after a double close: the
  second connect is taken to fail.
* The other wrappers of `csapp.c`: each calls one function of the system and ends
  the process if that fails.
* Shell: what `jobs` and messages print, and I/O redirection, which only moves
  descriptors of a child or of the output of `jobs`; `execve` failing, after which
  the child ends like any other. Pids are not reused, and a job is named by one
  that `getjobpid` or `getjobjid` finds, or by nothing.
* Allocator: contents of payloads (hence the copying in `realloc` and the clearing in
  `calloc`); addresses count from the start of the heap and fit in `size_t`.
* Transpose: N = 64 with another M (undefined behaviour).
* Simulator: the verbose output and the options.
* Makefiles and headers.

## 7. Plan

1. Done, in this order: ProxyCache with LRUList and its proofs; JobList and Shell;
   CacheSim with LRUSets and its proofs; Proxy with its proofs; Malloc; Rio with
   RioStream, its proofs and its refinement; Transpose, ParseLine and Bits; the proofs
   of Shell, of Malloc with Allocator, and of the sequential programs.
2. Models left: an abstract job table for Shell; the host and the headers that
   `assemble_header` keeps.
3. Proofs: done for the allocator with `BLK_SIZE` and `ALIGN`, the bound on `argv`,
   the transposes, the bit puzzles, the totals and the list of the cache, and all four
   refinements.
4. Runs for the disagreements of section 4 that have none yet.
