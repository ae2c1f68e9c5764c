# A TLA+ verification project for CSF_2025

The repository holds five programs, `csf_assign01` to `csf_assign05`. The one with most
concurrent behaviour, and the core of this project, is `csf_assign05`: a transactional key/value
server with one thread per client, its clients, and the protocol between them. `csf_assign04`, a
parallel merge sort with processes, `csf_assign03`, a cache simulator, `csf_assign02`, a drawing
program, and `csf_assign01`, integers of any size, are modelled as well.

## Inventory

### csf_assign05: the transactional server

| part | state | operations | interacts with |
|---|---|---|---|
| `Server` (`server.cpp`) | `tables`, `tables_mutex`, `listen_fd` | `server_loop`, `create_table`, `find_table` | starts one detached thread per connection; hands out `Table *` |
| `Table` (`table.cpp`) | `m_lock`, `m_data`, `m_temp_data` | `lock`, `trylock`, `unlock`, `set`, `get`, `has_key`, `commit_changes`, `rollback_changes` | shared by all threads |
| `ClientConnection` (`client_connection.cpp`) | `m_in_transaction`, `m_locked_tables`, `m_transaction_buffer`, `m_stack`, `m_has_stack`, `m_has_logged_in` | one handler per request, `rollback_transaction`, `chat_with_client` | calls the tables, answers the client |
| `ValueStack` | a vector | `push`, `pop`, `get_top` | private to a connection |
| `Message`, `MessageSerialization` | none | `encode`, `decode`, `is_valid` | both ends of the connection |
| `get_value`, `set_value`, `incr_value` | position in a fixed program | one request after the other | the server |
| `csapp.c` | `rio_t`: a buffer with what has been read and not used | `rio_writen`, `rio_readlineb`, `open_listenfd`, `open_clientfd`; wrappers that end the process on an error | every read and write of server and clients |
| `server_main.cpp` | none | `listen`, then `server_loop` for ever | the kernel: sockets, threads |

What is hard here: the interleavings of the threads on the tables; exceptions that leave a
handler in the middle of a transaction; a rollback or an unlock that touches a table its thread
does not hold; a client that goes away at any point; and the difference between requests inside
and outside a transaction. On the wire, bytes arrive in pieces of any size, connections are
reset, processes are killed, and an error of one connection may end the process that serves all.
The server is right if a thread changes and reads a table only while it holds the lock, if
transactions see and leave consistent tables, if a failed transaction has no effect, if every
request is answered exactly once and if no thread waits for ever. The protocol is right if
messages arrive whole and in order, if what one client stores is what the next one reads, if no
descriptor is lost, and if a conversation ends on both sides whoever dies.

### The other programs

| program | state | operations | hard | right if |
|---|---|---|---|---|
| `csf_assign04`, `parsort.c` | an array in a shared file mapping; a tree of processes, each with a range and a temporary array | `merge_sort`, `fork`, `waitpid`, `merge`, `qsort`; `is_sorted.c` and `gen_rand_data.c` are its test tools | the order in which parents and children write the mapping, failures of `fork` or of a child, the number of processes | exit status 0 means sorted with all elements kept, no two processes write one position, all processes end |
| `csf_assign03`, `cache_sim.cpp` | sets of lines with tag, valid, dirty and a timestamp; counters | `access_memory`: loads and stores, hits and misses, LRU or FIFO, write-allocate, write-back or write-through | timestamps and a running index as the replacement order, dirty lines paid for once | it evicts, counts and charges as an ideal cache does |
| `csf_assign01`, `bigint.cpp` | a vector of words and a sign | arithmetic, shifts, comparison, conversion to digits | carries and borrows at the width of a word, several representations of a value | every operation is that of the integers |
| `csf_assign02`, `c_drawing_funcs.c`, `asm_drawing_funcs.S`, `c_driver.c`, `image.c` | a canvas and loaded images: width, height, pixels | pixels, rectangles, circles, tiles, sprites, with clipping and blending; loading and writing files | mixed signed and unsigned arithmetic at the borders; two implementations of one header; colors that are words in memory and bytes in files | exactly the pixels of the shape within the image change, and each file holds the components of its image |

The programs share no code and do not interact.

## Modules

| module | models |
|---|---|
| `TxServer` | the server: tables, mutexes, sessions, every request handler, commit and rollback |
| `AtomicStore` | what the server promises: a store with atomic transactions |
| `StoreRefinement` | the refinement mapping from `TxServer` to `AtomicStore` |
| `MCTxServer` | instances of `TxServer` and `StoreRefinement` for TLC |
| `IncrClients` | `incr_value [-t]` processes composed with `TxServer` |
| `MCIncrClients` | instances of `IncrClients` |
| `IncrProofs` | theorems about `IncrClients` |
| `TxServerProofs` | theorems about `TxServer` and `StoreRefinement`: types, mutexes and waiting, contents of tables, replies, atomicity |
| `RobustIO` | `rio_writen` and `rio_readlineb` on one direction of a connection |
| `LineChannel` | what such a direction promises: lines, in order |
| `PipeRefinement` | a pipe with any writer and reader, and the refinement mapping from it to `LineChannel` |
| `PipeProofs` | theorems about `PipeRefinement` |
| `Messages` | message types, validity, encoding and decoding |
| `Protocol` | the server process, `set_value` and `get_value`, composed from `RobustIO` and `Messages` |
| `MCProtocol` | instances of `Protocol` |
| `ProtocolProofs` | theorems about `Protocol` |
| `ParSort` | `parsort`: the tree of processes, their system calls and the shared mapping |
| `MCParSort` | instances of `ParSort` |
| `ParSortProofs` | theorems about `ParSort` |
| `CacheSim` | the cache simulator: one set-associative cache and the cost of a trace |
| `IdealCache` | what such a cache promises: a queue of blocks per set |
| `CacheRefinement` | the refinement mapping from `CacheSim` to `IdealCache` |
| `MCCacheSim` | instances of `CacheRefinement` |
| `CacheSimProofs` | theorems about `CacheSim` and `CacheRefinement` |
| `BigInt` | the member functions of `BigInt`, and a program that computes with them |
| `MCBigInt` | instances of `BigInt` |
| `BigIntProofs` | theorems about `BigInt` |
| `Drawing` | the functions of `c_drawing_funcs.c` |
| `AsmDrawing` | the same functions in `asm_drawing_funcs.S` |
| `DrawingDriver` | the program around either version: `c_driver.c` and `image.c` |
| `MCDrawing` | instances of `DrawingDriver` |
| `DrawingProofs` | theorems about `DrawingDriver` |

### TxServer

A step is what a thread does between two accesses to shared memory. `pc[c]` says where the
thread of connection `c` is:

* `new`, `login`, `read`, `closed`: not yet accepted, waiting for LOGIN, in `Rio_readlineb`,
  ended;
* `lock`, `write`, `save`, `unlock`: the four calls of an autocommit SET
  (`client_connection.cpp:135-138`); `drop` is the `unlock()` that ends a GET outside a
  transaction, `failset` the one in the catch block of `set()`;
* `apply`, `publish`, `release`: the three loops of `commit()`; `undo`, `free`: the two loops of
  `rollback_transaction()`, one table per step, in any order (`std::set<Table *>` orders by
  address).

Handlers that touch only their own session, or one table once, are one action. `find_table` and
`create_table` hold `tables_mutex` for their whole body and nothing else, so they are atomic and
part of the action that calls them. Operand values are members of `Vals`; arithmetic yields any
value, refuses with its operands back on the stack, throws, or kills the process (DIV by zero).
TOP changes nothing and is left out, a second LOGIN likewise.

Two things the C++ standard leaves open are choices in the model. `Table()` does not initialise
`m_lock`: a fresh table starts out free or, if `FreshMutex` says so, locked by nobody. GET
outside a transaction reads the maps with no lock: next to a thread that is changing them, it
may miss the key. `unlock()` of a mutex held by another thread frees it, as glibc does for a
default mutex. Memory corruption by two unsynchronised writers of one `std::map` is not
modelled: their calls interleave but each is atomic.

Two history variables record what no program variable does: `seen` (what the open transaction
has read from tables) and `robbed` (tables that some thread unlocked or changed without holding
them). `robbed` is there because the code does reach into other threads' tables: the invariants
about a table hold until that happens, and the violation runs show that it does.

Some things the runs do not show as violations, because they are not the subject of one
property. README:34 of `csf_assign05` says that no mutex remains held after an error: a session
that ends inside a transaction (BYE, end of file, a bad message;
`client_connection.cpp:449-466`) leaves its tables locked, and an autocommit SET of anybody else
then waits for ever. This is why deadlock is not checked and `TxnRequestsAnswered` speaks of
transactions. README:28 says that all successful locks are tracked: they are
(`NoForgottenLock`), but a GET outside a transaction (line 193) unlocks the mutex of whoever has
it, so that a tracked table need not be held; `HeldLocksAreOwned` says when it is.

### AtomicStore and StoreRefinement

`AtomicStore` is a store in which a transaction happens at one moment: all that it has read
still holds, and all that it has written appears. One that does not get there leaves no trace. A
SET outside a transaction writes its value once, some time after it was asked to.
`StoreRefinement` maps `TxServer` to it. A transaction happens when `commit()` has put the last
of its writes into `m_temp_data`: from there it cannot fail, and the tables of its
`m_locked_tables` that it has yet to publish are taken for published (`Published`), which nobody
can see, because it holds their locks. A SET happens at its `commit_changes()`.

`ImplementsAtomicStore` leaves out two kinds of steps: those that begin a transaction with a
buffer that an earlier, rolled back one has left (run `discard`), and those after a table was
robbed (run `incr_lost`). A GET outside a transaction has no lock and reads what it finds,
uncommitted writes included; the promise does not speak of it.

### IncrClients

`Program(c)` is the sequence of requests of `incr_value.cpp`; `Send` conjoins the next one with
the server action that handles it, `GiveUp` is `handle_message` at a reply that is not OK. The
state starts where the scripts have set the key to 0.

### ParSort

A process is named by its path from the first one (`<<"L", "R">>`), because pids only serve to
wait for a child. `procs[p]` has its range, its place in `merge_sort()` or `main()`, its exit
status, its `wstatus` and its temporary array. A step is a system call or what a process does to
the mapping between two of them; copying the temporary array back is one step per element, so
that processes that share positions, and kills in the middle, would show. `qsort()` and
`merge()` are one step each. `Merge` reads and writes a private array: what matters is what it
reads, which is the mapping at that moment.

Every system call may fail and every process may be killed, `MaxFaults` times in a behaviour.
`fork()` fails also when the user has `ProcLimit` processes: those that run and those whose
parent has not waited for them yet (`InUse`). The processes of a failed parent are not killed;
they go on writing, as in the code.

`merge_sort()` waits for both children into one `wstatus` and looks at it once (lines 111 to
114), so that the failure of a left child is noticed only if the right one fails too. The run
`parsort_left` shows it. The properties that speak of the outcome are stated up to that
(`LeftFailureMissed`): they show that nothing else goes wrong.

### CacheSim, IdealCache and CacheRefinement

One action for each way through `access_memory()`: hits and misses of loads and stores, with and
without allocation. `config` is any command line that `parse_arguments()` lets through. `unpaid`
is a history variable: the lines with a store that memory has not been charged for. The width of
an address and the modulus of the LRU counter are constants (32 and 2^32 in the code).
`load_time` is always 0 and left out.

`IdealCache` keeps for each set the sequence of its blocks, in the order in which they will be
replaced: a block that is used (LRU) or loaded (FIFO) goes to the end, the first one leaves a
full set, and a block with unpaid stores costs a transfer when it leaves. `CacheRefinement` maps
a set to the sequence of its valid lines sorted by `access_time`; for FIFO by distance from
`first_in`: the k-th line is the one that has k - 1 others ahead of it. The mapping is where the
interesting claim lies: that timestamps and a running index are these orders.

If block and set bits take up the whole address, `parse_address()` shifts by the width of the
address, which the processor takes for 0. Every address is a block of its own then.
`BlocksAreWhole` leaves this case out (`TagHasBits`); it needs a cache of 4 GiB.

### BigInt

One operator per member function, over words of `WordBits` bits. Loops with a carry are
recursive functions of the index (`Carries`, `Borrows`, `RowCarry`, `Rows`), the binary search of
`operator/` one of its two bounds (`Search`), `to_dec()` one of the value that is left. The variable
`x` is what a program has computed so far from the values it constructs: so the operators are
checked on every representation that calls can produce (leading zeros, no words at all, negative
zero), each time against all operands. Exceptions leave `x` alone: `Divide` and `ShiftLeft` are
not enabled where the code throws.

Two things go wrong in the code, and `SumsExact` leaves out the operands for which they do.
`operator-` compares `a >= b + borrow` in 64 bits: a word of all ones with a borrow wraps and
the borrow is dropped (`bigint_minus`). Unary minus moves a leading zero word to the low end,
which `bigint_tests.cpp:430` expects, but which changes the value. Products, quotients,
comparisons and numerals hold without exception: where they subtract, they never subtract such
values, or use only the low word.

`(1ULL << 64)` in `operator-` is undefined; the term vanishes modulo 2^64 if it is 0, the value
a compiler gives the constant, and the model takes it for that.

### RobustIO, LineChannel and PipeRefinement

A pipe is one direction of a connection, as a record: what `rio_writen` has left to write, what
the kernel has taken, what `rio_t` has buffered, the line that `rio_readlineb` is filling, and
the state of both ends. The operators take a pipe and return what it becomes, so that `Protocol`
can have two for each client. `write()` and `read()` move any part of what there is. A call
interrupted by a signal moves nothing and is repeated, which is a stutter. `Filled` is the loop
of `rio_readlineb` as far as it goes without another `read()`. A reader that goes with bytes
unread resets the connection, one that goes with none is noticed when the writer has written
twice (SIGPIPE).

`LineChannel` is the promise: what has been sent and not received is a sequence of bytes; the
receiver takes its first line, or as much as fits into its buffer less one byte for the zero; a
sender that goes may take with it what it has not got rid of, but only from the end.
`PipeRefinement` maps a pipe to it: pending is the line in the making, then `rbuf`, `wire` and
`out`.

### Messages

`Encode`, `Decode`, `IsValid` and the getters, over characters of a small alphabet in which the
word for a message type is one character. The extraction of words, the joining of words between
quotes and the removal of quotes are kept, because values pass through them: a value with a
blank in it becomes several arguments, and a leading quote swallows what follows. `Plain` says
which values survive.

### Protocol

`opening[p]` is where a process is in `open_listenfd` or `open_clientfd`, which share the walk
over the addresses that `getaddrinfo` found; `fds[p]` counts its sockets. `clients[c]` is the
program counter of `main()`: `send`, `write` and `read` are the three parts of `handle_message`,
`step` which of the requests it is at. `sessions[c]` is the thread of the connection: in
`Rio_readlineb`, writing a reply, or writing the last one. A handler is one action; it ends in
`Answer`, which begins the write of the reply. Only LOGIN, PUSH, TOP, SET, GET and BYE are here,
those that the two programs send; the rest are in `TxServer`. Each table operation is one step,
because the two programs run one after the other, and the thread of a client that is gone may
still be busy.

Where the code leaves the rails, the model follows it:

* The wrappers of `csapp.c` call `exit(0)` on an error, in the server too: `ServerExit` ends all
  threads. `exceptions.h` has a `CommException` for this; nothing throws it.
* `open_clientfd` reports errors as negative numbers, so the catch blocks of the clients are
  never reached: without a connection the first write fails and the program exits with status 0
  (`NoConnection`).
* `handle_message` does not look at how many bytes were read. At the end of the file it decodes
  what its buffer happens to hold: an OK of an earlier call, or garbage (`Replies`). `stale`
  records that this has happened, and `SetThenGet` leaves such clients out.
* A name in quotes loses its quotes on the way, so that `set_value` with the table `"t"` sets `t`.
  `SetThenGet` is therefore about names that are identifiers (`Named`); the runs have such a
  command among the others.
* `handle_message` gets `rio_t` by value: bytes read beyond the line are lost (`Go`). Servers
  never send such bytes.
* No reply to BYE is waited for. The server may write it to a connection that is gone and, with
  a client that was killed or was quick, be ended by SIGPIPE: this is what
  `ServerOutlivesClients` is about.
* A message of exactly `MAX_ENCODED_LEN` bytes passes `encode()` but not the reader's buffer
  (`message.h:41`). `SetThenGet` asks for one byte less.

### Drawing and DrawingDriver

The drawing functions are operators from images to images. The loops draw on each pixel once, so
they are sets of points. `Unsigned` stands where C compares an `int32_t` with a `uint32_t`; it
makes a rectangle whose far edge lies left of or above the image paint across it (`FarEdge`),
and a tile that ends there read outside the tilemap (`TileCrashes`, `EndsOnImage`). A sprite
that touches the right or lower edge of its map is refused (`Within` with a border of 1). The
properties state what the code does in these cases too.

`AsmDrawing` has the second implementation of the same header. It compares signed numbers and
lets `draw_pixel` leave out what is not on the image, so that rectangles and tiles at negative
coordinates come out right. `draw_tile` loads the size of the tile over its corner before it
calls `in_bounds` (`AsmTileRefused`): a tile as wide or as high as the map is refused, and one
that starts left of or above the map is drawn as far as there are pixels. `draw_sprite` keeps
the address of the sprite map in a caller-saved register and the width of the sprite below the
stack pointer across calls: after the first of them the register points elsewhere, nothing is
ever drawn and the program is killed, unless the bounds refuse the sprite before
(`AsmSpriteKills`). README.txt:8 of `csf_assign02` says of it that some test fails, and suspects
a misuse of registers. `version` is the one that the program was linked with.

`DrawingDriver` has one action per command. `draw_tile` and `draw_sprite` do not ask for a
canvas, so that "S must be first" is not enforced for `T` and `P`: they find one without pixels
(`Target`). `littleEndian` is what `is_little_endian()` finds; a word is stored as its bytes in
one order or the other. `read_image()` writes through NULL when `malloc` fails (`LoadKilled`).
Left out: memory that is never freed, and arithmetic that overflows. The model does not wrap
sums, so it speaks of the program only as far as the assumptions on its constants go: sums of
coordinates and lengths, their negations and twice the square of a radius fit an `int32_t`, an
image has less than 2^31 columns and rows and less than 2^32 pixels, and `pnglite` returns all
the pixels of a file.

## Runs

Passing:

| run | instance | shows |
|---|---|---|
| `server_all` | 2 sessions, 1 table, 1 key, 1 value, stack of 2, all requests, mutexes maybe locked at birth | `TypeOK`, `OneReplyPerRequest`, `NoForgottenLock`, `TxnRequestsAnswered` |
| `server_txns` | 2 sessions, 2 tables, 2 values, stack of 1, explored until a table is robbed | `NoHoldAndWait`, `HeldLocksAreOwned`, `ReadsStable`, `NoResidue`, `ImplementsAtomicStore` |
| `incr` | 3 `incr_value`, each with or without `-t` | `SuccessesCounted`, `SomebodySucceeds`, `NeverTooHigh`, `EveryClientEnds` |
| `parsort` | files of 7, 4, 1 and 0 elements with thresholds 3, 1, 0 and 1, at most 5 processes, 2 faults | `ParTypeOK`, `SortedOnSuccess`, `WritersDisjoint`, `NothingLost`, `ResultFinal`, `EveryProcessEnds`, `Succeeds` |
| `cache` | every combination of policies with 2 sets of 2 lines, an LRU set of 4, 6 accesses to 5 addresses | `CacheTypeOK`, `NoDuplicates`, `DirtyIsUnpaid`, `TimesDistinct`, `BlocksAreWhole`, `ImplementsIdealCache` |
| `bigint` | words of 3 bits, results of at most 3 words, 26 constructed values | `BigIntTypeOK`, `SumsExact`; `ProductsExact` (products, shifts, quotients); `RepresentationsAgree` (order, numerals, no new negative zero) |
| `protocol` | a server, a `set_value` and then a `get_value`, 14 command lines, 1 partial read or write, 1 fault | `ProtocolTypeOK`, `DescriptorsAccounted`, `SetThenGet`, `ServerOutlivesClients`, `ImplementsLineChannel`, `EveryConversationEnds` |
| `drawing` | 3 commands, components of 2 bits, canvases of 3 x 2 and 0 x 2 pixels, both byte orders, both versions of the functions | `DriverTypeOK`, `ShapesExact`, `CopiesExact`, `FilesFaithful` |

Two sessions are enough to build every pair of conflicting steps and a third client is added
where a third party matters (a lock freed by one thread and taken by another). Two tables are
needed for a transaction that is half published or half rolled back, two values to tell an old
read from a new one. `server_txns` stops a behaviour once a table is robbed (constraint
`Unrobbed`): its invariants say nothing about a robbed table, and what happens after is the
subject of the violation runs. Deadlock checking is off everywhere: the server stops when all
sessions are closed, and really may hang (above); the sort, the simulator, the drawing program
and the conversations end (`BigInt` computes on, and is checked).

For `parsort`, seven elements with threshold 3 give uneven halves, leaves of two and exactly
five processes, so that the limit of five is just enough (`Succeeds`) and a process more would
break it; four with threshold 1 need seven, so that `fork()` fails for lack of slots. Two faults
suffice for a failure on either side of a merge, and the lost status needs one. For `cache`, six
accesses fill four lines, use one and evict another. For `bigint`, three words are the least in
which a borrow can be lost and a carry run through a full word, and words of three bits have all
the patterns that matter (0, 1, all ones, in between); the run reaches every value of three
words. The radix is 5 and hexadecimal digits have 3 bits, because 10 and 4 do not fit.

For `protocol`, one cut is enough to deliver any line in two pieces, at any place, and one fault
to kill either side between any two steps. Two addresses are the least with which a descriptor
can be left behind and a second one tried. A line buffer of 9 bytes holds a SET and cuts a PUSH
of the longest value; the values include blanks, quotes in front, at the end and on both sides,
the empty one, and one byte too many. `RIO_BUFSIZE` is larger than `MAX_ENCODED_LEN`, as in the
code (8192 and 1024).

For `drawing`, the properties quantify over all rectangles, points and radii in every state: 5 x
3 places with 5 x 3 sizes, and 7 x 5 places for tiles, circles and sprites, so that each
clipping branch is taken on each side alone and together. 256 values of a word are far beyond
every sum of coordinates, as 2^32 is. Colors have two bits per component: alpha is 0, opaque or
between.

Violated, each a statement of the repository that the code does not keep:

| run | statement | what happens |
|---|---|---|
| `discard` | README:28 "changes are discarded" | the buffer survives a rollback and the next COMMIT applies it to tables it never locked |
| `incr_lost` | incr_value_concurrent.sh:77 "exactly equal" | a transaction that loses `trylock` clears the pending writes of the one that is committing: two `incr_value -t` end with OK and one increment |
| `parsort_left` | parsort.c:125 "child processes completed successfully" | the status of the left child is overwritten by that of the right one, and the parent merges |
| `bigint_minus` | bigint.h:102 "the difference of the operands" | a borrow into a word of all ones is lost |

## Fairness

`Fairness` gives weak fairness to what a thread does on its own (`Internal`), because the
scheduler runs every runnable thread. Clients are not fair: they may stop talking at any time.
`pthread_mutex_lock` promises no order, so `SetLock` has weak fairness only. In `IncrClients`
the clients are programs that run on, so each has weak fairness as well.

`ParSort` asks less: the kernel runs some process as long as one can run (weak fairness of all
steps together). Every process can take only finitely many steps, so nothing more is needed for
all of them to end. Faults are not fair.

`Protocol` asks the same of all processes and threads together (`Runs`); nobody has to start a
client, and faults are not fair. `EveryConversationEnds` needs no more, because programs,
replies and lines are finite.

## Theorems

`TxServerProofs` proves, for all values of the constants that satisfy the four ASSUMEs of
`TxServer`:

* `TypeCorrect`: `TypeOK`. It needs `RequestOK`: a thread in the middle of a request has the
  request on record.
* `NoLockForgotten`, `NoCycleOfWaits`: by the inductive invariant `LockInv`. `NoForgottenLock`
  alone is not inductive: after a COMMIT clears `m_locked_tables` nothing would relate owned
  mutexes to the state, so `LockInv` adds that outside transactions nothing is tracked and that
  autocommit steps are taken outside transactions. The step is split into what it leaves to
  other threads (`OthersUntouched`) and what it does to its own locks (`OwnLocks`).
* `HeldLocksOwned`, `MutualExclusion`: on top of `LockInv`, with `OthersKeepTheirs` (a mutex
  taken from another thread puts the table into `robbed`).

* `NothingLeftBehind` (`NoResidue`) and `RepeatableReads` (`ReadsStable`). Both rest on
  `ChangedByOwner`: a step changes the contents of a table only if its thread owns the mutex, or
  else puts the table into `robbed`. `ResidueInv` says that whatever is in `m_temp_data` is
  about to be published by the owner of the mutex, `SeenInv` that what a transaction has read is
  in tables it tracks, and is still what a GET would find there.
* `AnsweredOnce` (`OneReplyPerRequest`), by `ReplyInv`: at each place of a handler the reply is
  still owed, or has been given, or the handler is on its way out of an exception.

The same module proves `TablesAreAtomic`: `TxServer` implements `AtomicStore`
(`ImplementsAtomicStore`). Besides all of the above it needs `StoredInv`: during `commit()` the
`m_temp_data` of the tables it owns has exactly the writes applied so far, and during a SET
exactly the value it sets. Each step is then a stutter or a step of the store: `Put` where SET
calls `commit_changes()`, the store's commit where `commit()` has made its last `t->set()`. The
loop that publishes changes nothing, since `StoreRefinement` takes its tables for published
already. The exceptions are the two that `ImplementsAtomicStore` names.

`IncrProofs` proves, for any finite number of clients, in addition to the server's assumptions
that of `IncrClients` on its constants:

* `ClientsUseTheServer`: a step of the composition is a step of `TxServer` or leaves it alone, so
  that all that is proved of the server holds under its clients.
* `CountBounded` (`NeverTooHigh`), `NoIncrementLost` (`SuccessesCounted`) and, with at least one
  client, `OneGetsThrough` (`SomebodySucceeds`), by the inductive invariant `IncrInv`. None of the
  three says anything of a client in the middle of its program. `ClientsInv` says where a client
  and its thread are together: which request is on its way, what the stack of operands and the
  pending writes hold, and which locks the transaction has. `ValuesInv` bounds every value on its
  way by the attempts so far. `HopeInv` says that a client which was refused the table was
  refused for the sake of another one that cannot fail any more. `ExactInv` says that the counter
  is the number of clients that have published, and that what one works with that has read and
  not yet published is that counter, or one more.

`CacheSimProofs` proves, for every set of command lines, every set of addresses and any length
of a trace:

* `CacheTypeCorrect` and `BlocksOnce` (`NoDuplicates`).
* `StoresPaidFor` (`DirtyIsUnpaid`), by the inductive invariant `CacheInv`. It adds that a line
  is dirty only in a write-back cache (`DirtyNeedsBack`): without it an eviction in a
  write-through cache could drop a dirty line without paying.
* `TimesStayDistinct` (`TimesDistinct`), for traces shorter than the counter is wide: `TimesInv`
  bounds every counter by the number of accesses, so that none has wrapped. That a line with the
  least timestamp exists rests on well-founded induction over subsets.
* `BlocksStayWhole` (`BlocksAreWhole`). `AddressParts` shows that the shift of
  `parse_address()` is division by the product of the two sizes, from laws of powers of two that
  `TwoToFacts` proves by induction. `TwoTo` is a recursive function, and `TwoToIs` shows that it
  has a solution.
* `CacheIsIdeal`: `CacheSim` implements `IdealCache` (`ImplementsIdealCache`), for traces as above
  and command lines that leave the tag a bit (`BitsLeft`). `QueueInv` says, besides `TimesInv`,
  that the valid lines of each set can be listed in the order of eviction (`Lists`), and that a
  set which is not full has used its lines from index 0 on with `first_in` still 0
  (`FillsInOrder`): without that the FIFO order would be wrong when the set fills up. The lemmas
  then say what an operation does to such a list, and so to the queue of blocks: a line with a
  new timestamp goes to the end (`MovedToEnd`), a new line joins at the end, the line that
  `remove_line()` chooses is the first. `HitOrder` and `FillOrder` carry this over to addresses
  and blocks, `VictimDirty` and `DirtyBoth` to what is charged.

`ParSortProofs` proves, for any file, any threshold, any limit on processes and any number of
faults:

* `WritersAreDisjoint` and `ResultIsFinal`, by the inductive invariant `SortInv`
  (`SortInvariant`). Neither property says anything of processes that do not write at the
  moment, so `SortInv` says what holds of all of them: the paths of processes are a tree
  (`TreeOK`), ranges shrink on the way down (`RangesNested`), ranges of processes that are not
  above one another do not overlap (`RangesApart`), a parent that is past a `waitpid` knows what
  became of that child (`ChildrenOK`), and below a process that has gone on after its children
  everybody has ended with 0 (`BelowEnded`). The last conjunct is the one that needs
  `LeftFailureMissed`, which once true stays true. A new process is compared with all others by
  their paths: it is below its parent and beside whatever is not.

* `FileSorted` (`SortedOnSuccess`), `NothingIsLost` (`NothingLost`) and `ParTypeCorrect`
  (`ParTypeOK`), by the inductive invariant `FileInv`, which is `SortInv` and four more parts.
  `DataOK` is typing: a process that copies has an array of the size of its range. `CopiedOK`:
  what it has copied back is in the mapping. `SortedOK`: its array is in order, and so is the
  range of a process that is done and has nobody above it that has begun to copy (`Sealed`);
  without the second half of that, a range is out of order again while its parent copies. So the
  halves that are merged are in order, since both children are sealed then. `KeptOK`: what the
  mapping and the arrays hold together (`Contents`) is the input, rearranged. That it has the
  same number of elements of every kind follows by a bijection (`RearrangedSame`).
  `Effects` first reduces every action to one of seven kinds of step, so that each part is shown
  for seven cases.
* Below that lie lemmas about any array: `PlacesDiffer` and `SortedIs` (`qsort()` gives every
  element the place that its rank gives it, these places are a bijection, and the result is in
  order), `MergeLoop` (the recursion in `MergedFrom` has a solution) and `MergedIs` (from any two
  positions on, the loop of `merge()` produces what is left of both halves, in order if they
  are). Both of the latter are inductions on what is left to merge. The library's induction rule
  is not used for them: `AllNumbers` states induction with a set of numbers in place of a
  predicate, and follows from the well-foundedness of subsets.

`PipeProofs` proves, for any alphabet, any size of the line and any way to cut reads and writes:

* `PipeCarriesLines`: `PipeRefinement` implements `LineChannel`. The invariant `PipeInv`
  (`PipeTyped`) says that while `rio_readlineb` is in its loop nothing is left in `rbuf`, the
  line it has is unfinished and shorter than the buffer, and that a writer that has gone has
  nothing left to write. A refill is the interesting step: that the loop stops at the first
  newline or at a full buffer is shown by the least such index of what came in.

`ProtocolProofs` proves, for any number of clients, addresses, arguments, faults and cuts, and for
any alphabet and text of the messages that `TextAssumption` and `SeparatorAssumption` allow (the
words for the types of messages differ and hold no separator; a blank and a quote are not in
identifiers):

* `NoDescriptorLeaks` (`DescriptorsAccounted`), by `SocketInv`. It adds that only an accepted
  connection has a thread, so that `accept()` adds one to the threads and one to the
  descriptors, and that a client which is still looking for an address has no connection.
* `ProtocolTypes` (`ProtocolTypeOK`), by `ConnInv`: `SocketInv`, `StagesFit` (which program
  counters of a client and of its thread go together), `DataOK` (types of what is stored) and
  `ConnsOK` (the pipes of every connection are what `PipeProofs` calls `PipeTyped`, and each end
  is where the program of that end is). `ConnectionsInvariant` is the theorem about `ConnInv`.
* `ServerOutlives` (`ServerOutlivesClients`) and `CarriesConversations`
  (`ImplementsLineChannel`), by `TalkInv`. For the first, the server must never write to a
  connection that has been reset; so the invariant has to say who is next to speak. `TurnsOK`
  says it: of a client and its thread at most one has bytes on the way to the other, a thread
  that reads has been sent one request or a part of one, and a thread that writes serves a client
  that waits. `EndingOK` says that a thread which answers BYE or refuses a request does not write
  again. Both have the hypothesis `OneLineArguments`: no argument of a command has a newline in
  it. With a newline a client sends two lines at once, does not wait for the second answer, and a
  server that is late with it does write to a closed connection.
* `SetIsGot` (`SetThenGet`), by `StoryInv`, with the hypothesis `OneLineArguments` again. It adds to
  `TalkInv` that the requests before a thread are the last one its client sent, of a client that
  was killed too (`AsksOK`), and for a program that is the only one to set, with arguments the
  protocol can carry (`Careful`): that the table holds its value if it holds the tuple at all, and
  what every connection tells of that (`StoryOK`, `Tells`). A value on its way to a client that
  asked for the tuple is that value, and an OK on its way to a SET means that the tuple is stored.
  The step that takes the work is that `Decode` undoes `Encode` (`RoundTripOne`, `RoundTripTwo`)
  for messages with arguments that are free of separators and, if quoted, of quotes.
* A large part of these proofs is about messages, because a turn is over when one line has been
  sent: that an encoded message is one line (`EncodeWhole`), that the value in a line is shorter
  than the line, so that it fits into an answer again (`DecodeFits`), and that what `Decode`
  returns is typed (`DecodeType`). `Words` and `Tokens` are recursive functions; the facts about
  them are inductions on the length of a text (`BySize`), which is the well-foundedness of subsets
  again.

`BigIntProofs` proves, for words and digits of any width, any radix that is less than a word, any
constructed values and any bound on the length of results:

* `BigIntTypeCorrect` (`BigIntTypeOK`). `TypeInv` says for `x` what `Within` says of any value: its
  words are in range and it has no more leading zeros than the constructed value that has most.
  Each operation keeps that: `Trimmed` results have none, a sum gets none that its longer operand
  does not have (`AddedIs`), a negated value gets rid of one.
* `SumsCorrect` (`SumsExact`), `ProductsCorrect` (`ProductsExact`) and `RepresentationsCorrect`
  (`RepresentationsAgree`). They hold of every pair of values, not only of those that a program
  can compute, so that typing is all the invariant they need.
* `Absolute` is a sum over words, and every loop has an equation about its prefixes: what the first
  words of the operands are worth is what the first words of the result are worth and the carry,
  or less the borrow (`AddedLow`, `SubtractedLow`), in a shift the bits that are out
  (`ShiftedLow`), in a row of a product the carry of a whole word (`RowAddedLow`) and over the
  rows the value of the words of the first operand so far (`RowsLow`). The carry of a row is a
  word because `a * b + c + d` is less than the square of the base (`WordProduct`), which is what
  `__uint128_t` is for.
* The search for a quotient keeps it between its bounds, gets narrower (`NarrowedShrinks`), so
  that the recursion has a solution (`SearchIs`), and finds it (`SearchFinds`). It subtracts one,
  where no borrow is ever lost (`OneLess`).
* A digit of `to_dec()` is the lowest word of a difference that may have lost a borrow further up,
  and is right for that reason (`DigitIs`). `to_hex()` cuts digits out of words: `BitsOf` says
  that the bits of a word are those of the value, for any place and number.

As for `CacheSim`, a recursive definition is only known to mean something once it is shown that
it has a solution. `Recursion` shows that once, for whatever gets smaller at each step.

`DrawingProofs` proves, for components and words of any width, any images, shapes and places
within the assumptions of `DrawingDriver` (above), both versions of the functions and both byte
orders:

* `ImagesTypeCorrect` (`DriverTypeOK`), `ShapesCorrect` (`ShapesExact`), `CopiesCorrect`
  (`CopiesExact`) and `FilesCorrect` (`FilesFaithful`), by the inductive invariant `DriverInv`
  (`DriverInvAlways`). Besides `LoadsFaithful` and `OutputFaithful` it says that the canvas and
  the loaded images are `Good`: their sizes and their number of pixels fit a word, which typing
  does not say and an index needs, and there is a color at every index. `ShapesExact` and
  `CopiesExact` then hold of every good canvas and map, not only of those that a program can draw.
* Arithmetic: a quotient is the only number of its kind (`DivisionIs`), so that the components of
  a color are what was packed (`PackedFacts`), a pixel is found at its index again (`PlaceIs`),
  and a blended component is the exact mixture rounded down (`BlendIsMix`), a component again.
* Rectangles and circles: `ComputeIndexIs` says when an index is that of a pixel, `DrawPixelsIs`
  what becomes of every pixel when each point of a set is drawn once. The rest is which points
  the loops visit. `RectColumns` follows an edge through its conversion to an unsigned number,
  `CircleColumns` shows that the clipped columns and rows leave out nothing that the test of the
  distance would let through.
* Tiles: the loops move pixels by one vector (`Moves`), so that no two of them go to one place and
  the choice of a source in `DrawTile` has only one outcome (`MovesDrawn`). `SpanIs` goes through
  the clipping of one direction. `TileMoves` and `AsmTileMoves` say which places are filled, and
  `TileTaken` and `HasPixel` say the same in terms of the map. The program crashes only for tiles
  that end left of or above the image (`MovesCrash`).
* Sprites (`SpriteIs`, `SpriteEndsIs`) and files (`SwappedIs`, `WrittenIs`, `ReadImageIs`): a word
  that is swapped twice, or not at all, has its bytes in the order of the file.

Model-checked only: the liveness properties, which are out of reach of the prover
(`TxnRequestsAnswered`, `EveryClientEnds`, `EveryProcessEnds`, `Succeeds` and
`EveryConversationEnds`).

## Plan

Every component with logic of its own has a module: the order was the server and its
`incr_value` clients, `ParSort`, `CacheSim` with its ideal cache, `BigInt`, the wire
(`RobustIO`, `Messages`, `Protocol`), the drawing program in both versions, and the atomic
store. What is left:

1. `Arithmetic`: operand parsing and overflow, in place of the choice that `TxServer` makes
   (`ArithOk`, `ArithRefused`).
2. The composition of `Protocol` with the transactions of `TxServer`, so that a connection is
   lost inside a COMMIT.

## Not modelled

* Formatting of text and logging: usage messages, `print_message()`, the reports of the
  simulator, the command line parsing of numbers.
* The functions of `csapp.c` that no program here calls: its wrappers of processes, signals,
  shared memory and semaphores, `rio_readn` and `rio_readnb`.
* Vendored code: `pnglite.c` (its results are external to `DrawingDriver`) and `tctest.c`.
* The cache experiments (`csf_assign03`), which run the simulator over lists of configurations
  and compute a score in floating point; `gen_rand_data.c`, which writes random numbers to a
  file.
* Memory that is never freed, allocations that fail outside of `image.c`, and drawing where
  coordinates or numbers of pixels overflow.
