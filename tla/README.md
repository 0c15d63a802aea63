# RimStone in TLA+

RimStone translates programs in its own language to C and runs them as
FastCGI servers or from the command line. This directory models the parts of
its run time whose correctness depends on long histories or on several
processes: each module is a translation of one part of the C source, checked
with TLC on small instances and, where it can be, proved with TLAPS for every
size. Paths such as `mrim.c:812` are relative to the root of the repository.

`PROJECT.json` lists the runs, for every definition the source lines it
models, for every property a mutation of the model that breaks it, the hazards
the properties are aimed at, and the theorems.

To run: `tlc -config RimMem.cfg MCRimMem`, `tlapm RimMemProofs.tla`.

## 1. The system

| Part | Source | State | Operations | Modelled by |
|---|---|---|---|---|
| Memory manager | `rimmem.c`, `rim.h` | `vm[]`, heads of the freed and the ordinary list, header of each block, reference counts, `rim_mem_process` | malloc, calloc, realloc, free, add_ref, release, `rim_done` | `MemBlocks`, `RimMem` |
| Process manager, the workers | `mrim.c` | `plist[]`, `commtime`, `temp_no_restart`, `nspike` | start, stop, restart, one more, one less, check of the executable | `MrimWorkers` |
| Process manager, its commands | `mrim.c` | two words in shared memory, lock file | `mrim`, `mrim -m ...`, the server's loop | `MrimShm` |
| Database layer | `db.c`, `pg.c`, `mys.c`, `lite.c` | connections, one transaction flag each, prepared statements | begin, commit, rollback, execute with one retry, prepared handles | `RimDb` |
| Request loop and errors | `rimrt.c`, `v1.c`, `chandle.c` | the jump buffer, `in_report`, request data | accept, input, dispatch, report an error, end of request | `RimDb`; its memory part in `RimMem` |
| Output of a request | `rimrt.c`, `v1.c`, `rim` | what was sent of a response, cookies, the levels of write-string | print, headers, cookies, files, finish, errors, leaving a handler | `RimOutput` |
| Hash | `hash.c` | buckets, elements, a traversal cursor, references | write, read, delete, traverse, resize, purge | `RimHash` over `Dictionary` |
| Fifo, lifo, list | `rimrtc.c` | linked elements, a read position | write, read, delete, rewind, position, purge | `RimFifo`, `RimList` over `Items`, with `Chains` |
| Tree | `tree.c` | balanced tree, sorted list through its nodes, cursors | write, read, delete, use a cursor, purge | `RimTree` |
| Arrays | `arr.c` | a typed vector and its sizes | write, read, delete, sort, purge | `RimArr` |
| Messages | `msg.c` | a buffer, its mode, a position | write, read, take the text | `RimMsg` |
| FastCGI client | `rcli.c` | one socket and buffers per call, a thread each | connect, send, receive, time out, join | `RimCli` |
| JSON | `json.c` | the calls of the reader and the path they share | read a text | `RimJson` |
| XML, curl, encryption, encodings, patterns, sort | `xml.c`, `curl.c`, `sec.c`, `utf*.c`, `pcre2.c`, `sort.c` | none that outlives a call, but caches | conversions | no: data, little control |
| Compiler | `v1.c` | one pass over a text | emits C | no; what it emits for statements is part of their models |
| Scripts, stubs, vendored code | `rim`, `Makefile`, `stub.c`, `btrace/`, `fcgi/`, `libsort/` | | | no |

How they interact. A web server, or a client of `rcli.c`, connects to a Unix
or TCP socket. The workers started by **mrim** share that socket; each runs
the **request loop**: accept a request, take its input, run the handler, shut
the request down, and give back its memory (`rim_memory_init` calls
`rim_done`). Handlers allocate through the **memory manager**; the containers
(hash, tree, list, message) keep pointers into its blocks and take references
on them when they are process-scoped, so that they outlive the request. An
error jumps (`siglongjmp`) from anywhere in the handler to the loop. The
database layer keeps its connections, and the flag that a transaction is open,
across requests; the loop and the error path both check that none is left open.

### What is hard

*Memory manager.* A single thread, so no interleaving; the difficulty is the
length of the history. An ordinary entry leaves its list by a swap of two
entries of the table (`rimmem.c:200`), so blocks change entries while the
program holds pointers to them, and the two lists share one link field. An
error can jump over the statement that would have reset the scope.

*Process manager.* Workers die, requests hang, the executable is replaced, all
at any moment, while the manager reads counts and then acts on them. Commands
travel over two words that are written separately by unsynchronised
processes, some of which give up waiting, and the same two words carry the
handshake of a start.

*Database layer.* A connection can be lost before or after the server carried
out a statement; the flag of a transaction is changed before the statement
that opens or closes it has run; an error at that point ends the request or the
process depending on the connection.

*Containers.* A position survives insertions and deletions made between its
steps: the hash keeps three pointers for it, the tree a pointer to a node that
may take over another node's key, the fifo a pointer that a deletion must not
leave behind. References are taken and dropped in different operations. The tree
stores heights that some of its rotations do not bring up to date.

*Arrays and messages.* Memory that grows by rules with several regimes, where a
size off by one is only noticed at the change from one to the next. A message is
read in place, by overwriting it.

*Output.* The head of a response, its end and its data are sent by whichever
statement comes first, and a dozen of them look at four flags. An error, a
file, the end of the output or of the request may come at any point, also while
the program collects its output in a string.

*JSON.* The reader calls itself for each value; all calls share one array of names
and indexes, in which what deeper values left is overwritten but hardly ever
cleared. The byte behind a number or a word is overwritten to end it and kept in
a static, for the next character read, of whichever text.

*FastCGI client.* One thread per call, some of which cannot be created, a
timeout each, and an answer that may be cut anywhere.

### What makes each part correct

- Memory: every block the program holds is found through its header; the two
  lists run through exactly the freed and exactly the ordinary entries; when
  a request is over only process-scoped memory is left; a block somebody refers
  to is not freed; `rim_done` ends.
- Workers: a stopped pool stays stopped; a restart leaves no earlier worker;
  the minimum is restored after deaths; the pool grows while a connection waits
  and shrinks without load, within its bounds; a new executable reaches every
  worker.
- Commands: at most one manager; what an invocation reports is what happened;
  no command is left behind; every invocation ends.
- Database layer: the program's transaction is the server's, or is lost; what
  the program is told is done is durable, what is rolled back is gone; no
  transaction reaches the next request; every request ends; a prepared handle
  belongs to the connection in use.
- Containers: the hash is a dictionary whose traversal meets every element once,
  and holds a reference on each of its values; fifo, lifo and list are sequences
  with a position; the tree is balanced, its sorted list tells the same keys as
  its nodes, and searches and cursors find the neighbours.
- Arrays and messages: what was written is read again, nothing is written behind
  the memory, a pair is not read twice.
- Output: a client gets one head, its cookies, one blank line, and then texts, or
  nothing; the message of an error comes last; a string ends within its buffer.
- JSON: each leaf of a text is named by the names and indexes that lead to it.
- Client: a call is told to be all right only if it is, and `call-remote` comes
  back if its calls have timeouts and no server sends for ever.

## 2. The modules

### MemBlocks and RimMem

`MemBlocks` is what the memory manager promises: a set of blocks, each with a
scope (none, ordinary, process) and a count of references, and a request that
ends by freeing the ordinary ones. `RimMem` is `rimmem.c`: `mem.vm` is `vm[]`,
`mem.curr`, `mem.firstFree` and `mem.firstOrd` are `vm_curr`, `vm_first_free`
and `vm_first_ord`, and `mem.id` is the index in the header of each block. One
action stands for one call: `Malloc` (malloc, calloc, and a file's cell),
`Realloc`, `Free`, `FreeInt`, `AddRef` with its overflow `AddRefFails`,
`DecProcess`; `BeginStatement` and `EndStatement` are the bracket that the
compiler emits around a statement on a container (`v1.c:10604-10638`);
`ReportError` is the jump out of the handler; `BeginDone`, `DoneEntry`,
`EndDone` are `rim_done`, one entry at a time, because each release changes the
list it walks. `StrayRemoval` is the removal of an entry from a list it is not
on; what the C code then does to other entries is arbitrary and not followed
(phase `undefined`), and `OnlyListedTaken` says it never happens. Included is a
`realloc` of a process-scoped temporary outside a statement on a container, which
puts the new entry on the ordinary list and keeps it process-scoped
(`rimmem.c:366-371`): the lists are wrong from then on, though nothing else is yet.

Abstracted: contents and sizes of blocks, the growth of `vm[]` in steps,
constant strings (no header, never an entry). Directories behave as files.

The constant `ErrorsInStatements` separates two questions: without such errors
everything is checked; with them, see finding 1.

### MrimWorkers

One resident manager, started with `-w` or with `-d` (`Modes` has the choices of a
run, `adaptive` the one taken). `plist` is `plist[]`, each slot with what the process in
it is doing and, as history, which build of the executable it runs and which
restart it was started under. The manager's loop (`mrim.c`, the server part of
`main`) is cut where another process can act: the three looks at the socket
with sleeps between them (`Look`, `Grow`, `Shrink`, `Quiet`), the count of
live workers and then each slot of the scan (`ScanSlot`, `EndScan`), the
modification check (`CheckMod`), and the four commands that touch workers. Around
it a worker executes its program, takes a request, finishes, hangs or dies; a
client connects or leaves; the executable is removed and installed again.

Bounds: `MaxDeath`, `MaxBuild`, `MaxCommand` count what happens around the
manager, so that TLC ends; `Spike` is the number of quiet turns before a worker
is stopped. A worker sent SIGTERM leaves the table and is not followed.

### MrimShm

The same process manager seen from outside. `command` and `data1` are the
words of the shared segment, each store and each load a step of its own.
`tool` is an invocation of `mrim`, either a client (`cli_getshm`) or the
original process of a start; `srv` is a forked server. `Slow` lets any wait run
out of tries at any moment; without it a wait gives up only when nobody is
left to answer. `Admin` says who invokes: anybody at any time, one at a time, or
one at a time and only while a manager that started is in its loop. What a
command does to workers is one step here (`Serve`) and `MrimWorkers` otherwise.

Not modelled: the server in the foreground (`-f`), the wait for access to a
segment under creation, a missing or damaged segment.

### RimDb

A process of a service with its databases, from the start of one request to
the end of the process and the start of the next one. `db[d]` is the element
`conn[d]` of `rim_db_connections` (`dbc`, `isBegin` for
`is_begin_transaction`, the handle of a prepared statement) together with what
is outside: whether the connection works, the transaction open on it and its
writes, whether it knows the prepared statement. `pc` is where the process
stands in the main loop that the compiler emits (`v1.c:12929-13002`): `run` is the
program, `check` and `left` are `rim_check_transaction(0)` before and after it
rolled something back, `report` is `rim_report_error`, `shut` the end of the
request, `exit` a process that is gone.

A statement of the program (`RunQuery`, `BeginTransaction`, `Commit`,
`Rollback`) is one step, its whole path through `rim_execute_SQL`: the
operators `GetConnection`, `Exec`, `Again`, `Once`, `Reconnected` and `ExecuteSQL`
give the set of outcomes, each with the connections after it, what was returned
("ok", "null", or "report" when `rim_report_error` was called and nothing
returns), and what became durable. They follow the order of the code: connect if
needed, execute, check the connection only after an error and only without the
flag, close, connect, execute once more. `RollbackLeft` is one turn of the loop of
`rim_check_transaction`, with the order of the databases left open;
`ErrorRequest` is the jump. A statement in progress is not cut: its process does
nothing else, and a connection that breaks before, within (the answer is lost
after the server carried it out) or after it is in its outcomes or in `Break`.

External: `Server` and the operators below it, what PostgreSQL, MariaDB and
SQLite answer to begin, commit, rollback and a query in and outside a
transaction, chosen by the error paths of `db.c` and the drivers that depend on
it. `acked`, `course` and `said` are histories: the writes the program was told
succeeded in its transaction, how the transaction went, and what it was told of
each write in the end.

Abstracted: a query writes at most one thing, which is a member of `Write`; there
is one prepared statement per database; out of memory. The prepared handle is
forgotten by kind of database as in `rim_db_prep`. Two constants name what is
set apart: `Nests` (the program begins a transaction within another one, of
which the documentation says nothing) and `BusyCommits` (SQLite answers
SQLITE_BUSY to a commit, because another process reads); see section 5 for what
happens then.

### MCRuntime and the objects of a program

The modules below are the objects a program creates and the statements on them.
They share no state, so `MCRuntime` composes them by putting them side by side:
`object` is the one a behaviour uses, and the others stay new. `Objects` says which
ones a run looks at. In each module one action stands for one statement of the
language, with the C code the compiler emits for it (`v1.c`) and the functions that
calls; its last variable tells what the program was answered, so that the
refinements below speak of answers and not only of contents.

**RimHash** is `hash.c`. `hTable` is `table[]`, a sequence of elements for each list, and
`hData` their `data`; `hNext`, `hCurr`, `hPrev` are `dnext`, `dcurr`, `dprev`, the position of
a traversal. An element is known by its key. A pointer to an element that was freed is
`Freed`, and what the code writes through it is lost. A resize moves the elements in the
order a traversal meets them (`Earlier`), each to the head of its new list (`Moved`). `hRefs` counts the references on values,
those of the hash and those it gave to the program (`old-value`, a traversal that
deletes). The hash function is any function of the keys. `Disturbs` FALSE keeps the
program from two things a traversal does not survive: writing an element into the
list of the position when no element of that list was read yet, and deleting by
key the element read last; see finding 5. `Dictionary` is the promise: a function,
the keys a traversal has still to meet, and the answers.

**RimFifo** and **RimList** are the three structures of `rimrtc.c`, nodes and pointers;
both implement **Items**, a sequence with a position. A node that is freed keeps
nothing, and a pointer to one has no place in the sequence (-1), which no state of
`Items` allows. The four places of `rim_list_store` are an action each. **Chains** says which nodes
are met from a pointer on, for both: `Walk` follows the pointers for as many steps as
there are nodes, and ends at a pointer that is one of `stops`.

What `Items` promises of a fifo is what `docs/read-fifo.2rim` and `docs/delete-fifo.2rim`
say: the position is behind the element read last, a new element is read in its turn,
and deleting takes those up to the position and no others. The code keeps this but for
one case. When all elements have been read, `retrieve_ptr` is NULL, and an element
written then is behind a position that no longer exists: unless the program rewinds
first, it is not read, and a deletion takes it with the others. `fUnread`, a history,
counts such elements; `PassesUnread` is the step in which they are passed or deleted, and
`FifoIsSequence` allows it by name, next to the steps of `Items`. Without it the
property is violated by write, read, write, read.

**RimTree** is `tree.c`: `tRoot` is the tree of nodes with the heights as stored, `tPrev`
and `tNext` are the `dlist` links of a sorted tree, `tCurrent` a cursor. A node is
named by the key it holds, and a deletion that moves a key into another node
renames that node (`DeleteKey`); a cursor at the node that is freed must not be used
any more (`NoNode`). Insertion, deletion and searching are recursive operators that
follow the recursion of the code, rotations and the measuring of heights included,
in its order. Keys are numbers; values move with keys and are left out, and so
are the references a tree takes.

**RimArr** is `arr.c`: `aMax`, `aAlloc`, `aTot` and the memory. `aGiven` is a history: what
an array that has all its elements from the start would hold. Sorting is any
permutation that puts the counted elements in order. An index beyond the maximum
is an error that leaves the array alone, and is left out.

**RimMsg** is `msg.c`: a message that is written, whose text the program takes, and
messages made of that text. A pair is an item with a length; `mSplit` and `gSplit`
say how many pairs of a text cannot be parsed any more, because reading them put
zeros over their separators.

**RimCli** is `rcli.c`: `cPhase` is where the thread of a call is, `rPhase` and `rNext` where
`rim_call_fcgi` is. A step of a call is one operation on its socket. The server is
outside: it sends records of any kind (`sData` and `sEnded` are what it sent), closes
the connection anywhere, or stays silent. `Late` is what `rim_check_timeout` finds,
and it is looked at where the code does: after an operation that did not do all
it was asked for (`TimesOut`). A late call may therefore go on for as long as its
operations are done in whole.

**RimJson** is the reader of `json.c`. `jCalls` are the calls of `rim_json_new` that are
open, each with what it expects next; `jList` and `jLevel` are `list[]` and `list_c`. A
text is given token by token, any token at any time, so that every error is met.
`jText` is a history: what the text says by the grammar of JSON, read with a stack
of its own. It gives up (`Outside`) where the text is none, and at what the code
reads in another way: an array that is not the value of a name, `{}` and `[]`, white
space behind a text that is but a number, true, false or null; see section 5.
`jNulled` is the static `nulled`, which json-doc does not reset. After a text with
something behind its value, as `1,`, it keeps that byte, and the next text begins with
it instead of its own first character (`ReadKept`). What a text says is followed only
where `nulled` is empty at its beginning (`JsonDoc`); `JsonReadsText` holds of those, and
would not of the others.

**RimOutput** is the output part of `rimrt.c`. `oReq` has the flags of `rim_input_req`
(`header` for `sent_header`, `data` for `data_was_output`, ...) and `client`, what the
client was sent, where only the kind of each part is kept. `oLevels` are the strings
being written, each with the length of its buffer, the place in it, and what it
grows by. A text printed into a string takes one of the three ways the code has:
as it is, encoded after it was printed, or encoded into room for six times its
length. `oPhase` is the handler that runs; `exit-handler` and an error leave it from
anywhere. What no check of the code stops and what breaks the form of a response
is remembered in `odd`, so that the invariant can tell it apart.

## 3. The runs

| Run | Instance | States | What it shows |
|---|---|---|---|
| `mem_lists` | 3 blocks, 3 entries, counts up to 1 | 736 000 | every invariant of the table, that process-scoped blocks stay, that `rim_done` ends, and that `RimMem` implements `MemBlocks` |
| `mem_errors` | the same, errors in statements | 475 000 | up to the first removal from a wrong list, both lists stay exact |
| `mem_abort` | the same | violation | finding 1 |
| `mrim_pool` | `-w 3`, or `-d` with 1 to 3 workers; one death, two builds, two commands | 1 630 000 | a stopped pool stays stopped, a restart renews, the minimum settles, the adaptive pool grows under load and shrinks without |
| `mrim_upgrade` | `-w 2`, two builds, nothing else | violation | finding 2 |
| `mrim_admin` | one invocation at a time, five commands, two servers, kills | 127 000 | what an invocation reports is true, every invocation ends |
| `mrim_many` | two invocations, two servers, waits that run out | 2 700 000 | at most one resident manager |
| `mrim_startup` | one invocation after the other | violation | finding 3 |
| `db_txn` | two databases of any kinds, one write, breaks and kills at any time | 231 000 | transactions stay within their connection and their request, the program is told the truth, requests end |
| `db_commit` | one database | violation | finding 4 |
| `runtime` | three keys in two sizes of hash, four nodes each for fifo and list, seven keys in a tree, arrays up to six, messages of three pairs, two calls of two records, JSON three deep, two strings at a time | 449 000 | hash, fifo, lifo and list implement what they promise; the tree is balanced and finds neighbours; arrays and messages keep what they are given; calls tell the truth and end; JSON leaves get their names; responses keep their form |
| `hash_traverse` | the hash alone, its list disturbed at the position | violation | finding 5 |

Why these bounds are enough. Three entries give the ordinary list a head, a
middle and a tail, and let the swap meet each of its special cases (the head
itself, the neighbour of the head, the last one) while another entry is free
or process-scoped; three blocks let `realloc` move one beside two others. With
`MaxRef` 1 a count reaches its limit and wraps. Two workers would suffice where the
question is "all or one"; the adaptive pool needs three, since its last slot
is never used: the interesting sizes are 1 and 2, with a slot to spare. One
death at the worst moment and two commands (a stop and what undoes it, or two
of the same) are the shortest histories with a conflict. Two servers are the one
that is resident and the one that should not become so.

The smallest balanced tree of height four has seven nodes: with seven keys there
are deletions that rebalance at two levels, both double rotations, and a
successor that is or is not the found node's child. Three keys in two lists give a
list with two elements beside one with one, in a table of two; a table of one has
all three. `HashMaxRef` is 2 so that a value can be held twice, which is what a missed
or a doubled count needs. Four nodes have a first, a last and two others. The array
meets its three regimes: doubling (indexes below 3), adding, and the maximum; and the
message its increments, doubling and then following the total. Two calls are enough
for one to fail, to be late or not to start beside one that does not; two records
for one of a stream and the one that ends the reply. A JSON text three deep has an
object in an array in an object, the smallest with an index between two names;
an index of 1 is one that was incremented and must be taken back. A string whose
memory grows by 2, then 4, and texts of 1 and 3 meet a buffer that is exactly full
and one that lacks one byte; two levels are the second one and the refusal of a
third.

The type invariants of `RimMem`, `MrimShm` and `RimDb` are proved (section 4) and not
checked again.

Two databases are needed because an error on one rolls back the other, and
because prepared handles are shared by kind; one write is enough since what it
may meet is another statement's error, not another write (an
instance with two was checked too and agrees). Requests, breaks
and restarts are not bounded.

`mem_abort` has no deadlock check because phase `undefined` ends a behaviour, and
`mrim_startup` because a server and its original process may wait for each
other until both run out of tries, which without `Slow` is the end. The
manager that was told to quit has an explicit idle step.

### Fairness

- `RimMem`: weak fairness of the steps of `rim_done`, a loop that waits for
  nothing.
- `MrimWorkers`: weak fairness of the manager, whose loop sleeps but never
  blocks; of the exec of a process just forked; and of installing the
  executable, since an installation that removes the file writes it again.
  Nothing is assumed of workers: a request may hang for ever and a client may
  wait for ever.
- `MrimShm`: weak fairness of each invocation and each server, sequential
  processes that compute and sleep. Nobody is obliged to invoke or to kill.
- `RimDb`: weak fairness of the end of a request, which waits for nothing but
  answers of databases, and a connection without answers is lost after a while.
  Nothing is assumed of the program, which may run for ever, nor of connections.
  `RequestEnds` is then about the loop itself: rolling back may fail, which
  reports an error, which rolls back.
- `RimCli`: weak fairness of the threads' creation and joining, of time, which passes,
  and of the operations of a call that is late, since its socket has a timeout: an
  operation returns (`OperationReturns`). With what it returns is not said, so a call
  that is late need not find so. Nothing is assumed of the server but the bound
  `CliMaxRecords` on the records it sends, and `CallEnds` needs that bound: it is
  violated by a server that sends whole records for ever, since time is not looked at
  after an operation done in whole (`rcli.c:176`).

## 4. What is proved

For every number of blocks, entries and references; every pool and either
mode; every number of invocations and servers, with waits that run out and
with kills; every number of databases and writes; arrays and messages of every
size, with every size of increment; fifos, lifos and lists of any number of elements; JSON
of any depth `list[]` has room for:

| Theorem | Statement |
|---|---|
| `RimMemProofs!TypeCorrect` | the type invariant of `RimMem` |
| `RimMemProofs!HeadersCorrect` | `HeadersFollowBlocks`: the header of every tracked block names the one entry that points to it |
| `RimMemProofs!Invariance` | the inductive invariant of both |
| `RimMemProofs!ListsExact` | `ListsAreExact`: the two lists run through exactly the ordinary and the freed entries |
| `RimMemProofs!NothingIsForgotten` | `NothingForgotten` |
| `RimMemProofs!BlocksImplemented` | `ImplementsBlocks`: `RimMem` refines `MemBlocks`; like the next three, if no error leaves a statement on a container |
| `RimMemProofs!OnlyListedIsTaken` | `OnlyListedTaken` |
| `RimMemProofs!NothingIsLeft` | `RequestLeavesNothing` |
| `RimMemProofs!ProcessMemoryStays` | `ProcessBlocksStay` |
| `MrimWorkersProofs!StoppedStaysEmpty` | `StopSticks` |
| `MrimWorkersProofs!RestartsRenew` | `RestartRenews` |
| `MrimShmProofs!TypeCorrect` | the type invariant of `MrimShm` |
| `MrimShmProofs!AtMostOneManager` | `OneResident`; corollary: two servers in the loop are the same |
| `MrimShmProofs!SuccessMeansDone` | `ReplyMeansDone`, like the next two for one administrator who waits (`Admin = "waits"`), without `Slow` |
| `MrimShmProofs!ExitIsTold` | `ExitTellsStart` |
| `MrimShmProofs!NothingStays` | `NothingPending` |
| `RimDbProofs!TypeCorrect` | the type invariant of `RimDb` |
| `RimDbProofs!TransactionsTrue` | `InTransactionTruly`, for programs that do not nest transactions |
| `RimDbProofs!RequestsApart` | `RequestsSeparate`, if also SQLite is not busy at a commit |
| `RimDbProofs!HandlesHere` | `PreparedHere` |
| `RimDbProofs!DoneStays` | `DoneIsDurable`, like the next under both assumptions |
| `RimDbProofs!UndoneStays` | `UndoneIsGone` |
| `RimObjectsProofs!ArraySizes` | an array's memory is within its maximum and reaches behind every counted element |
| `RimObjectsProofs!ArrayCorrect` | `ArrayHoldsGiven` |
| `RimObjectsProofs!MsgBufferCorrect` | `MsgBufferHolds` |
| `RimObjectsProofs!PairsGivenOnce` | `MsgReadOnce` |
| `RimItemsProofs!FifoImplementsSequence` | `FifoIsSequence`: `RimFifo` refines `Items` but for `PassesUnread`, for any finite set of nodes |
| `RimItemsProofs!ListImplementsSequence` | `ListIsSequence`: `RimList` refines `Items`, likewise |
| `RimHashProofs!HashImplementsDictionary` | `HashIsDictionary`: `RimHash` refines `Dictionary`; like the next two for programs that leave alone the list around the position (`Disturbs` FALSE) |
| `RimHashProofs!HashValuesHeld` | `HashHoldsValues` |
| `RimHashProofs!HashLosesNothing` | `NothingLost`, which `hash_traverse` violates with `Disturbs` TRUE |
| `RimObjectsProofs!CallsTellTruth` | `CallTellsTruth` |
| `RimObjectsProofs!JsonNamesLeaves` | `JsonReadsText` |
| `RimOutputProofs!StringsFit` | `WriteStringFits` |
| `RimOutputProofs!ResponsesFormed` | `ResponseWellFormed` |

The arguments.

*RimMem.* That the header of a block names its entry is not inductive: a swap
rewrites the headers of two entries, which is right only if both are live and
point to different blocks, and the entry swapped in is the head of the ordinary
list, which is an ordinary entry only if the list holds nothing else. So the
invariant `IInv` adds `Lists`: each list runs through exactly its entries, said
without recursion. There is a ranking of the entries by which the head has the
highest rank, each link leads to the entry one rank below, and rank 1 is the
end. Lemmas on `Listed` say what pushing an entry, removing the head and
exchanging two entries do to a ranking; each action is one of them after
another. While `rim_done` runs, the ordinary list begins at its loop variable.

`ListsAreExact` follows the links instead (`Chain`, a recursive function of the
number of steps). That following them meets all of a ranked list is an induction
along it, which no backend does; it is proved from the least step for which it
would fail (`LeastUpTo`, from the library's theorem on strict subsets of a finite
set). After k steps the entries met are those with the highest k + 1 ranks, and
there are no more ranks than entries (`ListFits`).

For the program a block is what the table says of it, its *card*: each lemma on
a call of `rimmem.c` also says which cards change, and `MemBlocks` is seen on the
cards. For the refinement and for what requests leave behind, `ScopeInv` adds
that `rim_mem_process` is on only within a statement on a container, that
temporaries are never process-scoped, that nothing is ordinary between requests,
and that open files and untracked memory are where `rim_done` finds them. It needs
that no error leaves such a statement (`ErrorsInStatements` FALSE): finding 1
shows what happens otherwise. `NothingForgotten` and the lists do not.

*MrimWorkers.* `StopSticks` needs to know where the manager stands: while it is
stopped it is only at places from which no scan is reached without a new look at
`temp_no_restart` (`Stopped`). `RestartRenews` holds because the one step that
begins a new epoch empties the table and every slot filled later carries the
current epoch.

*MrimShm.* `OneResident` says that a server which is established holds the
lock. It is inductive together with the types: a server gets past the lock only
by taking it, one that finds it taken goes another way, and it is given up
only on the way out. Since the lock has one holder, two established servers
are the same (`ManagersAgree`).

What the words of shared memory mean depends on who runs. `AdminInv` names the four
situations there are for one administrator who waits: nobody runs (`Between`), a
client (`Calling`), a start before its fork (`Starting`) and after it (`Forked`); a
table (`Words`) gives the words that go with each place of the server that comes up.
Two races make it longer than one would think. Both processes of a start store
`RIM_OKAY`, so one may overwrite the server's command, which is then answered by
nobody and still taken as answered. And a manager that loaded the command of
another server may load `data1` only when the next client has stored its own there,
and serve it before it is sent (`LoadsHello`); the client then finds its answer, or
sends a command that is served again. The assumptions are those of run
`mrim_admin`; the findings show what the properties are without them.

*RimDb.* The end of a request looks only at the flags, so `RequestsSeparate` needs
that a connection without the flag has no transaction, and that needs, for the
commit and the rollback that run without it, that they leave none however they
end. `Sound` says so of one database, together with `InTransactionTruly`: the
flag is set exactly while the program is in a transaction, and then the
connection is the one it began on or is lost. The lemmas follow the code from
the inside: what a server's answer, an execution, a new connection, and the
retry leave (`Moves`, `Ends`), each from the one before; then one lemma for each
action. Databases other than the statement's keep everything but prepared
handles (`Others`).

That the handles are those of the connection in use (`HandlesHere`) needs that a
reconnection forgets them before the new connection knows a statement (`Blank`), and
holds for any program. What the program is told is traced a second time through the
same functions (`Does`, `Anew`, `Result`), now with what becomes durable: a retry
only runs where the first try can have made durable what the retry means to write
and nothing else, and never between begin and commit. The invariant relates the
program's transaction to the server's: as long as all went well (`quiet`), what the
program wrote in it is what is pending on the connection that began it; what it
wrote in any transaction is neither durable nor told of before the end (`Pending`,
`Told`). It needs `RequestsSeparate`'s assumptions: a commit that SQLite refused as
busy leaves a transaction open without the flag, and what the program then writes
outside of transactions, it is told, is written.

*RimArr.* That an index reads as what was written there needs that the memory
agrees with the history below its end and that the history has nothing but
defaults behind it; the second in turn that no index is counted beyond the
memory, which is where the growth rules come in: twice the index, or the index
and a fixed amount, cut to the maximum, is behind the index in each case.

*RimMsg.* The text is always shorter than the memory because what a pair is
checked for (`MsgAddLen`) is more than what it takes (`MsgFixed`), whatever the
increment; the invariant only adds the types.

For `MsgReadOnce`, `ReadInv` adds that no message made of a text has passed more of
it than was read (`rPos[r] <= gSplit`): as one that has passed less cannot parse
its next pair, the only messages that go on are those at the place where reading
stopped, and what they give is the next pair of all. That `NextPair` is the first
pair behind the position rests on `FirstOfPlaces`, a least element of a finite set of
numbers. `MsgReadOnce` says "in order" with the number of pairs read so far,
because the prover cannot expand `SelectSeq`, which takes an operator.

*RimFifo* and *RimList.* The invariants say of the pointers what `Items` says without
them: there is a sequence of distinct nodes, each linked to the next and the last to
NULL, which begins at the first pointer and ends at the last, and a number such that
the read pointer is the node behind that many (`FifoHolds`); for a list the links
backwards and the count as well (`ListHolds`). Without "distinct" this is not
inductive, as a node written again would stand in two places; that a new node is none
of those comes from the guard that it is free. An action writes a few pointers, and the
lemmas on sequences say which sequence is then linked: one more at either end
(`ChainAppended`, `ChainPushed`), the first ones gone (`ChainDropped`), one put in or
taken out at a place (`ChainInserted`, `ChainRemoved`, both directions of the links at
once). The refinement mapping reads the pointers with `Walk`. That it finds the sequence
of the invariant (`WalkMeets`) is an induction along it, done as for `RimMem` from the
least step that would fail; that its bound, the number of nodes, is enough is
`ChainFits`. Both mappings are then functions of the sequence and the number, and each
statement is one of `Items`. For the fifo the position counts the nodes that were read,
so that the invariant also says where `fUnread` may be other than zero: only while
`retrieve_ptr` is NULL, and never more than there are nodes; a read or a deletion with
such nodes is `PassesUnread`. The assumption added for this is that nodes are finitely
many; how many is free.

*RimHash.* The invariant (`HashHolds(n)`, n the number of lists now) has three parts. Every
list has elements of its own bucket, each in one place (`TableHolds`): without it an element
could be met twice, and taking one out would leave it there. The position is an element of
list `dnext` with `dprev` in the place in front of it, or between lists (`PositionHolds`): this
is what makes the code's way to take out an element right (`UnlinkedList`), and it is what
a program with `Disturbs` TRUE breaks, by a write in front of a first element or by deleting
what `dprev` points to. And tot is the number of elements, and of each value no more elements
are counted than references (`HashCounts`).

What is left of a traversal is said with ranks: a list later than `dnext`, or in it not in
front of `dcurr` (`IsLeft`, `LeftIsRead`). Each statement changes places by one at most
(`ElementAdded`, `ElementRemoved`), so that an element is left afterwards exactly when it was
before, but for the one met or deleted. Where `rim_next_hash` looks for the next list is a
least number of a finite set (`LeastList`). A resize needs that its order is one (`EarlierIs`)
and that the i-th element from its end exists once for each i (`MovedList`): the elements not
in front of one are as many as its number, no two elements have as many, and a finite set
that maps to as many numbers without meeting one twice meets them all. The counts of
references are counts of elements with a value, which a write, a replacement or a delete
changes by one (`CountsAdded` and its like).

*RimCli.* What a call is told is true because of what holds between the operations
on its socket (`CallIsTrue`): but for the time between a header and its content
the call has read all that was sent, and then it lacks exactly the content of the
record it is at; and `read_done` is set only by an end record that was sent. Each
step of a call changes nothing of the others, nor of `rim_call_fcgi` (`OnlyCall`). What
that has counted (`RunIsTrue`) is the threads that left "new" without being
invalid, and the calls in front of `rNext` that ended well; joining only goes past
calls that have ended, so that their results stay. The status is about all calls
because a part of a finite set with as many elements is the set.

*RimJson.* As long as a text is followed (`JsonFits`), there is one call for each object
and array that is open, which expects what the text awaits (`CallsFit`), and `list[]` has
the way to the next value, but for a name still to come, and no index behind it
(`LevelsFit`). The text and the way to its next value have to fit too (`Nested`): the way
has a step for each object (`Depths` says which), an array gives its index to the step
of the object it is in, and the step of any other object has none. That is why an array
that begins counts from 0 and an object that ends leaves no index for the next one,
though neither sets it. Each token the text awaits leads to one branch of
`rim_json_new`, and there is one lemma for each. A text nests less deep than the calls
and the levels allow, so that no branch fails (`LevelIs`). `NulledFits` is what is needed
of the static: where a text is followed it holds nothing another text left, so that
each call reads the token that is there, and nothing at all behind a value that white
space may follow, so that this is skipped.

*RimOutput.* Every open level is a buffer with room for the null (`LevelsFit`).
`GrownFits` says that an enlargement leaves room for the text and the null, whether
or not it enlarged; the three ways to print follow from it, the one with encoding
because an encoded text is at most six times as long (`rimrt.c:2182`). That sizes
are naturals is part of the invariant: no enlargement may shrink a buffer.

For `ResponseWellFormed` the streams are enumerated: a stream is empty, a lone
head, or a head (with cookies or without) and what may follow it (`Bodies`).
`Sound` says which of them goes with which flags of the request. One lemma for
each function of `rimrt.c` takes a sound response to a sound one (`HeaderEnded`,
`HeaderWritten`, `WebWritten`, `ErrorReported`, the four answers of send-file); the
statements are made of those. What no check stops (`odd`) is excluded as in the
property itself.

The proofs assume the named assumptions on the constants (`MemAssumption`,
`PoolAssumption`, `ShmAssumption`, `DbAssumption`, `ArrAssumption`,
`MsgAssumption`, `HashAssumption`, `FifoAssumption`, `ListAssumption`, `CliAssumption`,
`JsonAssumption`, `OutAssumption`), which are what the options and headers
enforce, and which TLC evaluates in each run.

Only model-checked: everything temporal (`DoneEnds`, `MinimumSettles`,
`GrowsUnderLoad`, `ShrinksWhenIdle`, `ToolsEnd`, `RequestEnds`, `CallEnds`), and what
holds of the tree (`TreeIsBalanced`, `TreeHoldsKeys`, `NeighboursAreFound`), whose recursive
operators are out of the prover's reach.

## 5. Findings

1. `mem_abort`. The statement that makes memory process-scoped for a container
   is undone after the container's work (`v1.c:10638`). An error raised by that
   work jumps over it; from then on every allocation, the next request's
   included, is process-scoped and stays. `docs/memory-handling.2rim:9` says
   memory of statements is freed at the end of the request.
2. `mrim_upgrade`. The manager keeps one time stamp of the executable
   (`mrim.c:812`). If the executable is replaced between the starts of two workers
   the later start stores the new time stamp, and the check for modification
   never sees that the earlier one runs the old program.
3. `mrim_startup`. After the original process may have reported success, the
   new server stores `RIM_DONESTARTUP` once more (`mrim.c:1464`). A command stored
   in between is overwritten, and its client reports success for nothing done.
4. `db_commit`. `rim_commit` clears the flag of the transaction before it executes
   the commit (`db.c:228`). If the connection was lost since the last statement,
   `rim_execute_SQL` finds no transaction, reconnects and executes the commit on
   the new connection, where it succeeds: the program is told that a transaction
   is committed which is gone. `db.c:449` says "This is if we're in a transaction.
   Do NOT try to reconnect - if we lost connection, consider it an error."
   `DoneIsDurable` is the part of the promise that holds: with a connection that
   did not break in the transaction, success means committed.
5. `hash_traverse`. A traversal remembers the first element of a list without a
   predecessor (`hash.c:116`). write-hash puts a new element in front of it; deleting
   the element read last then makes the list begin behind it, and the new element
   is gone, while `tot` still counts it. `docs/read-hash.2rim` says "You may search, add
   or delete elements while traversing a hash, and this will be reflected in all
   elements not yet traversed."

Seen in reading, without a run of their own:

- `rim_done` closes a file the request left open but does not free the cell
  that names it (`rimmem.c:495`).
- `--min-worker=0 --max-worker=1` never starts a worker: the comparison at
  `mrim.c:1529` keeps the last slot free, so a maximum of N means at most N-1 for
  an adaptive pool grown by load.
- A client that gives up waiting resets the command (`mrim.c:751`); the server's
  late answer can be taken by the next client for its own.
- Two starts at the same moment can exchange their exit codes (`mrim.c:1502`).
- SQLite answers SQLITE_BUSY to a commit and keeps the transaction open; the flag
  is already cleared, nothing rolls it back, and the next request continues in
  it, which `rimrt.c:568` exits the process to avoid. With `BusyCommits` TRUE, TLC
  finds `RequestsSeparate` violated after one begin and one commit. A begin that fails within a
  transaction clears the flag of the outer one (`db.c:168`) with the same end
  (`Nests` TRUE).
- With two PostgreSQL databases, the first connection of one forgets the prepared
  handles of the other (`db.c:903` goes by kind) while that one's connection
  lives and knows their names, which depend only on the statement; it then
  refuses to prepare them again (`pg.c:202`) until it is lost.
- An error of a prepared statement in SQLite returns before `sqlite3_reset`
  (`lite.c:287`); the cached statement then refuses inputs each time.
- A connection that SQLite failed to open keeps its structure and is never tried
  again, since its connection check always answers 1 (`lite.c:27`).
- A statement outside a transaction whose answer was lost is executed a second
  time by the retry (`db.c:412`).
- PostgreSQL answers success to the commit of a transaction in which a statement
  failed, and rolls back; a program that continues after errors is told that the
  commit succeeded.
- `docs/error-handling.2rim:20` says the process ends when a connection cannot be
  re-established; the code reports an error and goes on with the next request.
- Hash: a traversal of a new or a resized hash that does not ask for `begin` passes
  over its first list (`hash.c:271`).
- Fifo: an element written when all had been read is not read unless the program
  rewinds, and delete-fifo deletes it though nobody read it (`rimrtc.c:441-458`,
  `rimrtc.c:501-510`, `PassesUnread` in `RimFifo`), where `docs/delete-fifo.2rim:18` has the
  elements "up to the last one read, including".
- Tree: purging, and deleting without `value`, drop two references on a value, which
  has one (`tree.c:587`, `tree.c:667`, `v1.c:11490`); a key that is already there keeps the
  reference taken for it (`tree.c:737`); a cursor at a node that a deletion freed is
  used as it is (`tree.c:546`).
- Array: deleting an index behind the memory but below the maximum writes behind the
  memory (`v1.c:10735`).
- Message: taking the text of a message that is being read leaves it in that mode,
  against `docs/get-message.2rim`; reading puts zeros into a text that others read.
- Client: time is looked at only when an operation was not complete, so that a server
  that sends whole records without end keeps a call (`rcli.c:176`), against
  `docs/new-remote.2rim:73` and the comment at `rcli.c:518`; a call whose thread could not be created stays marked
  for the next use of the same remote (`rcli.c:1183`).
- Output: out-header and then finish-output end a response without a blank line
  (`rimrt.c:3086`, "bare" in `RimOutput`); an error, or another file sent from inside a
  string, after a file the client has, writes a second head (`rimrt.c:3323`,
  "again"); delete-cookie after output is silently not sent, where
  `docs/delete-cookie.2rim` has an error ("cookie"); silent-header after out-header keeps the
  blank line back ("silence").
- report-error without output sends a header of status 200 by way of `rim_write_web`,
  though `docs/report-error.2rim` and `v1.c:1304` say none is output; inside write-string its
  message goes into the string.
- Leaving a handler inside a write-string leaves the level open: what after-handler
  prints goes to the string. Ending a write-string that holds nothing but white
  space reads before the buffer (`rimrt.c:175`).
- JSON: `{}` is refused, although the comment at `json.c:294` allows it; `[]` is taken for an array
  that has not ended; an array within an array shares the index of its parent; an
  array at the top counts in the word before `list[]` (`json.c:327`); a text that ends
  early is accepted; 30 nested structures are the most, where `docs/json-doc.2rim` says 32;
  white space behind a text that is but a number, true, false or null makes it refused,
  where `json.c:534` says "there can be whitespace afterwards": the byte behind the value
  was nulled, and is not seen to be white. That byte, as any other behind such a text,
  is then the first character of the next text (`json.c:290`), which is refused
  or misread (`ReadKept` in `RimJson`).
- exec-program writes all input before it reads, and reads the output to its end
  before the errors (`rimrt.c:2074-2084`): a program that fills a pipe in between waits
  for its parent, which waits for it.

## 6. Not modelled, and what is left

Not modelled, for a reason that will not change:

- `curl.c`, `sec.c`, `pcre2.c`, `utf.c`, `utfs.c`, `sort.c`: conversions that call one library each
  and keep nothing between calls but a compiled object; what they do is the
  library's.
- `xml.c`: not in use; `xml.c:9` calls it inoperative.
- `v1.c` as a compiler: a pass over text that emits C. What it emits is modelled
  with the statement it belongs to; that the emission is right is a matter of
  text. The other statements it emits code for are calls into conversions.
- `btrace/`, `fcgi/`, `libsort/`: libraries of others kept in the tree.
- `stub.c`, `rimcommon.c`, `rimcli.c`, `chandle.c`: empty bodies, names of directories, a
  command-line front end, and a handler that prints a stack and ends.
- `rim`, `Makefile`: building and installing. The dispatcher that `rim` writes is in
  `RimOutput`.
- In modelled parts: see the notes in `PROJECT.json`. Chiefly `mrim -f`, results of queries,
  the parsing of requests (`rimrt.c`) and URLs, files and directories, the
  text of requests that `rcli.c` sends.

What is left to prove: the tree, once it is written without recursive operators, which
needs an induction over its heights. What is left to
model: the containers' references composed with `MemBlocks`, so that the counts a
container takes are the ones the memory manager has.
