# MyORM in TLA+

MyORM is a C++ object-relational mapper: protobuf messages describe tables, a
query language builds clause graphs over their fields, an organizer and a
builder turn the clauses into PostgreSQL text, and a client sends the text over
one connection. It stands on a runtime of its own: intrusive reference
counting, a thread pool, a buffered log with rotated files, a periodic executor
and a program skeleton. This directory holds TLA+ models of that code, the TLC
runs that check them on small instances, and TLAPS proofs of the parts where
every value of the constants matters.

Paths below are relative to `src/`.

## 1. The system

| Component | State it keeps | Operations | Talks to |
|---|---|---|---|
| Reference counting (`lib/common/refcounted.*`, `intrusive_ptr.h`, `weak_ptr.h`) | strong and weak counter of each object; the pointers of its holders | `New`, copy, move, `Reset`, `Lock`, assignment | everything that is shared |
| Thread pool and invoker (`lib/common/threadpool.*`) | task queue, `stop`, mutex, condition variable, threads | `enqueue`, worker loop, destructor | callers through futures |
| Log manager (`lib/common/logging.*`) | `buffer_` under `bufferMutex_`, handlers under `mutex_` | `Log`, `Flush`, `AddHandler`, `RemoveHandler`, `SetMaxBufferSize` | handlers, called under `mutex_` |
| File rotation (`TFileHandler`, same files) | stream, current size, backups on disk | `Handle`, `RotateLogFile`, open at start | the file system |
| Periodic executor (`lib/common/periodic_executor.*`) | `StopFlag_`, callback, invoker | `Start`, `Stop`, `Worker`, `ScheduleNext` | pool; holds itself only weakly |
| Program (`lib/common/program.*`) | `Running_`, interrupt flag, flush executor, pool | `Execute`, `Run`, `Interrupt`, destructor, `OnShutdown` | log manager, executor, signals |
| Database client (`lib/ipc/db_client.*`) | connection, current transaction `Txn_`, mutex | `BeginTransaction`, `Commit`, `Rollback`, `ExecuteQuery`, handle destructor | pqxx |
| Relations (`lib/relation`) | eleven maps keyed by the hash of a path, two caches | `RegisterRootMessage`, lookups, `Clear` | protobuf descriptors; organizer and builder |
| Requests (`lib/requests`) | clause graph with shared implementations | operators of the query language, `ToProto`, `FromProto` | relations |
| Organizer (`lib/query_builder/organizers`) | none between calls | `Transform*` of every clause kind | requests, builder |
| Postgres builder (`lib/query_builder/builders`) | stack of clause kinds during a build | `Build*` of every clause kind | organizer |
| RPC server (`lib/rpc`), not in the CMake build | acceptor, workers, one input buffer | `Start`, `Stop`, `Worker` | thread pool |
| Device protocols (`lib/ipc`), not in the CMake build | serial port, frame decoder, shared memory | encode, decode, read, write | the operating system |
| Options (`lib/common/getopts.*`) | options, their values, positional arguments | `AddOption`, `Parse` | program |
| Formatting (`lib/common/format.*`) | none between calls | `Format`, `FormatOptions`, `Join`, `Split`, escaping | log, builder, relations |
| Configuration (`lib/common/config.*`, `logging_config.h`) | fields read from JSON | `Load` | program |
| Master service (`master`), not in the CMake build | pqxx connection | queries | pqxx |

What makes them hard, and what each must guarantee:

* **Reference counting**: promotion of a weak pointer races the last release;
  memory must be freed exactly once, never while a holder uses it, and a
  failed promotion must leave nothing behind.
* **Thread pool**: the notification is sent after the mutex is released, the
  destructor sets `stop` between a worker's test and its sleep, a task may
  throw. Tasks start in the order they were queued, at most once, the
  destructor returns, every future gets a value or a broken promise.
* **Log manager**: two locks, batches swapped under one and delivered under the
  other, handlers that come, go and throw. No entry is lost or delivered twice
  except as part of a batch whose handler threw; every handler of a batch sees
  all of it.
* **File rotation**: a crash or a failing rename between any two steps. What is
  on disk is a suffix of what was logged, and only the oldest backup is given up.
* **Periodic executor**: a chain of tasks that queue each other; the owner
  stops, drops or destroys at any point, and a worker may be the one that
  releases the executor, the invoker and the pool.
* **Program**: shutdown in every state of the flush chain, and an interrupt in
  every phase of the start.
* **Database client**: a handle's destructor looks at the current transaction
  without the mutex and rolls back later, whatever is current by then.
* **Relations**: every map is keyed by a hash without comparing paths; answers
  are cached while tables are registered again.
* **Requests, organizer, builder**: sequential algorithms over shared graphs.
  The round trip through the proto, rows of different shape in one insert,
  conditions and assignments split from one update, nesting in the text,
  definitions of tables that the server must read as they were declared.
* **RPC server**: several workers accept on one socket and receive into one
  buffer, two of their calls wait without a timeout, and every log call may
  throw. A worker must parse the request of its own client, answer it once and
  come back for the next, whatever clients send, and not outlive the server.
* **Options, formatting**: parsers that go on from argument to argument or
  placeholder to placeholder. What was written must be read as it was meant
  wherever the writer could say it at all.

`PROJECT.json` lists all of this as components and hazards, with the lines.

## 2. Modules

```
SharedObject <--refines-- RefCount <-- RefCountProofs
                             ^-- WeakAssign
ThreadPool <-- ThreadPoolProofs
LogManager <-- LogManagerProofs
LogRotation <-- LogRotationProofs
     ^-- MCRotation <-- Format
PeriodicExecutor <--refines-- Program <-- PeriodicExecutorProofs
                                 ^-- MCProgram <-- GetOpts
DbClient <-- QueryProofs (with RowOrganizer, Requests)
RpcServer <-- RpcServerProofs
     ^-- MCRpc
Relations, SqlText <-- Schema <-- MCRelations <-- PathHash
     ^-- RelationsProofs
Requests <-- RowOrganizer <-- Organizer <-- Postgres (with SqlText) <-- ReadBack <-- MCQueries
                   ^-- QueryProofs (with DbClient)
```

### SharedObject, RefCount, WeakAssign

`SharedObject` says what a reference-counted object is to its users: pointers
hold it or watch it, it lives while someone holds it, a watcher that locks gets
it or nothing, its memory goes when nobody looks at it any more.

`RefCount` is the code: each `fetch_add`, `fetch_sub` and compare-exchange on a
counter is one step, each pointer is an actor that executes the constructor,
`Reset`, `Lock` or move it is in. The `VERIFY`s of `refcounted.cpp` set `trapped`.
An object is followed from `New` to deallocation; several objects add nothing,
because no operation touches the counters of two objects at once.
A group's strong counter gone to zero is never raised again; the model keeps the
compare-exchange loop of `TryRef` with its stale expected value.

`WeakAssign` adds `TWeakPtr::operator=`, which copies the pointer and takes no
weak reference (`weak_ptr.h:52`).

### ThreadPool

One actor per worker and per client. `mutex` is an owner; the condition
variable is the set of sleeping workers, so `notify_one` is a choice and a
spurious wakeup is a step. `enqueue` pushes under the mutex and notifies after
it; the destructor sets `stop`, notifies, joins each worker, then destroys the
queue with whatever is in it. Tasks are numbers in the order of the pushes; a
task may return or throw, and either reaches its future; what is thrown that is
no `std::exception` nobody catches, and it ends the process (`fatal`, after which
nothing is `Alive`).

### LogManager

One actor per thread. `Log` appends under `bufferMutex_`; if the buffer is full
the thread goes on to `Flush`, which swaps the buffer and then waits for
`mutex_`. Delivery is one handler call per step, so handlers may be added and
removed by other threads only between batches, as `mutex_` forces. A handler
that throws ends the flush in the middle of the loops. The handler of the constructor,
which writes to the standard error stream, is there from the start; nobody else has
it, so it is not removed.

### LogRotation

`Handle` and `RotateLogFile`, one system call per step, with the number of
backups chosen initially (0 to 3). At every step the process may crash and
start again; unless the behaviour is `benign` a rename, remove, open or write may
fail. A write that fails may leave a part of the message, and the stream takes no more
until a rotation opens it again. What the C++ library tries to write again when it
closes a failed stream is not modelled.

### PeriodicExecutor and Program

The references to executor, invoker and pool are counted by whole operations
(justified by `RefCount`), and a task is run by one worker (justified by
`ThreadPool`). A worker's pc follows `Bind`, `Worker` and `ScheduleNext`. If a
worker drops the last reference to the pool, the pool's destructor joins the
thread it runs on: `std::terminate`, the variable `crashed`; so does an exception
that nobody catches (`Terminate`), of a callback that throws no `std::exception`.

`Program` extends it: the callback is `TLogManager::Flush`, the owner is the
main thread with its phases from boot to the end of `OnShutdown`. An exception of a
log handler in the destructor, `OnInterrupt` or `OnFailure` ends the process
(`ThrowsOut`, phase `thrown`); one in `Run` or a log call before it is caught by
`Execute`. `StartPeriodicFlush` has a branch for an executor that is already there
(`program.ipp:263`), which no caller reaches: only `Execute` calls it, once.

### GetOpts, MCProgram

`GetOpts` has the parser as a record and `Parse` as a fold over the arguments,
with what the loop of the code keeps in its index and its early exits: the
option that waits for its argument, the end of the options, an exception, after
which everything found before stays. Against it stands the meaning of a command
line, a list of options with values and words, and all the ways to write one:
letters apart or in one argument, the value behind or next, long names, `--`.
`MCProgram` composes it with `Program`: what `Execute` parses in its phase
`boot` is what was meant.

### Format, MCRotation

`Format` is `lib/common/format`: the placeholders of a format string, numbered
or in order, the recursive parser of their options, and the handlers of strings,
integers, containers and pairs. Texts are sequences of signs. What is written is
composed from pieces with the quoting and the escapes the syntax has, so that
what was meant is known apart from the parser. `MCRotation` composes it with
`LogRotation`: the messages in the files are those `TLogManager::Log` formats.

### DbClient

Sections under `Mutex_` are one step; `~TTransaction` is two. A transaction is
the number of its `BeginTransaction`, so one that ends by another's hand can be
told apart. Threads hold and copy handles. Every section logs before it is
done, and logging flushes and may throw: what was to be done is then left, a
transaction without a handle, or one that is over at the server and still
current. The rigid variable `ownersOnly` restricts a behaviour to callers that
commit or roll back only what they began: the behaviours with and without that
discipline are checked in one run.

### RpcServer, MCRpc

One actor per worker, client and owner. A request is a few blocks, one of which
may be a zero byte or a bad length; a client sends them in pieces and may hang
up at any time. `ProcessClient` is followed call by call: accept, poll, recv into
the shared `InputBuf_`, the terminator, the copy, the parse, the handler, the
answer. The buffer remembers whose block is where, so that a request torn by
another worker is told from one's own. What `TRequest` does with a line of less
than three words is undefined and any outcome; a code without a name and a
handler that throws follow `GetAnswer` and `RegisterHandler`. The tasks hold the
server as `Bind` does; that the pool runs each of them is `ThreadPool`'s.

Every log call may throw: out of `ProcessClient` past `CloseSocket`, so that the
connection is left open (`unlogged`), and out of `Worker` if the one in its
catch throws too (`service_rpc.cpp:30`), which ends the process. A connection is
`leaked` by an exception of its own making: a malformed request, a handler's URL that
is no regular expression (`http_server.h:233`), or the text of an exception that is
no UTF-8, which `dump()` refuses in the catch of `RegisterHandler`
(`service_rpc.h:30`, `http_server.cpp:175`). `Descriptors` bounds what the process
may have open; without one, accept fails and the worker tries again. `send` waits
for a client that does not read if the response does not fit into the buffers of the
socket; that the client hung up is an error, not a signal (`http_server.cpp:360`).

### Relations, PathHash, Schema

The record `manager` has one field for each map of `TRelationManager`, keyed by
`Key[path]`. An object is the path and the number of the registration that made
it, so that a stale pointer differs from a fresh one. `RegisterRootMessage`
makes all the calls of the code in its order: the table, its names, then the walk over
the descriptor in which a field is registered on the way down and adopted on
the way up, then the root message and the adoption of the table's own fields.
`PathHash` is the 64-bit arithmetic of `GetHash` on four 16-bit limbs.

`Schema` goes on from a registered table: the type information and default of
each field, the CREATE TABLE, DROP TABLE and ALTER TABLE that the organizer and
the builder make of them, and, external, the server that reads those.

### Requests, RowOrganizer, Organizer, Postgres, SqlText, ReadBack

The path of a query, from the C++ expressions that compose it to the text.
The first two are written without RECURSIVE operators, as recursive functions,
to be proved about.

`Requests` has the state: the heap of clause implementations, in which a copy
of a clause is a handle to the same one, the query under composition, the
message it was written to and the query read from it. Every function that makes
a clause or changes one is an action; `ToProto` appends a clause after those it
refers to and returns indices, as the code does, once for every reference.
Reading gives a tree: nothing is shared in the receiver. An attribute's payload is read as
the registered type of its path, a double is kept as a float, the table of a
select is not written, and a message with `All()`, `Default()` or a payload that is
not the message of its path in a clause throws in the middle of `FromProto`.

`RowOrganizer` and `Organizer` hold the functions of `TSqlQueryOrganizer` as
operators on trees: the first those of inserts and updates, the second the others.
An insert is built by the same loops as in the code, from a first row whose
columns may repeat and later rows that add columns; an update is split into one
statement for each set, with the condition joined from its keys. What the
organizer asks of the relations is constant.

`Postgres` writes every statement as tokens, with braces exactly where the
code has them; `SqlText` has the tokens of names and literals, the escapes of
the code and the server's reading of a literal. A column's type is uninitialised memory:
the text depends on a `residue` that the property quantifies over.

`ReadBack` is the other side, and external: the grammar by which the
server reads tokens, with its levels of precedence.

## 3. Runs

| Run | Instance | What it shows |
|---|---|---|
| `refcount` | 4 strong, 2 weak pointers | Counters never trap, nobody uses freed memory, an abandoned object is freed, and every behaviour is one of `SharedObject`. |
| `weak_assign` (violation) | 1 strong, 2 weak | An assigned weak pointer gives back a reference it never took: `VERIFY` fails. |
| `threadpool` | 3 workers, 2 clients, 3 tasks | No wakeup is lost, tasks start in order and at most once, the destructor returns and leaves nothing running, every future is answered, unless a task ends the process. |
| `logmanager` | 2 threads, 3 entries, the standard handler and 2 others, limits 1 and 2 | Each entry is in one place and the buffer bounded, every handler of a batch gets all of it, a taken batch is delivered unless a handler throws. |
| `rotation` | limit 3, messages of 1, 2 and 4, up to 5 messages, 0 to 3 backups; format strings of two placeholders and three texts | The disk holds a suffix of the log, with the newest message, files and backups are bounded, only the oldest is lost, and messages read as they were meant. |
| `periodic` | 3 workers, 3 starts; command lines of two items and an end | One task per chain, nothing runs on a destroyed executor or pool, a stopped or dropped executor comes to an end; a program flushes once at a time and reads its command line as it was meant. |
| `program_survives` (violation) | 2 workers | The last reference to the pool can be dropped by a worker of it, which then joins itself, without any exception. |
| `dbclient` | 2 threads, 2 transactions, 2 handles of each | With owners only, a transaction is ended by a holder of its handle; unless logging threw, the client is free again when handles are gone. |
| `relations` | 3 tables, 3 registrations, 3 paths asked about | A path leads to its latest object in every map, cached ancestors are current, cached subtrees are of one registration, names read back, and so do the definitions of tables. |
| `relations_hash` (violation) | 1 table with a field number 66 | Two short paths have one hash, one field takes the other's place. |
| `queries` | up to 3 clauses and rows, 4 leaves, 8 operations, 3 tables | A message is read as it was written up to the clause that cannot be read, inserts are rectangular, updates reach the row they name, and the text means what was composed exactly if no unbraced operation is nested where it needs braces. |
| `rpc` | 2 workers, 2 clients of 1 and 3 blocks, a buffer of 2, 6 handlers, 1 or 2 descriptors | A request nobody overwrote is parsed whole and in order, a connection is closed once and answered by the first handler that matches, one left open for good was malformed, asked for an exception or met a log call that threw; workers come back unless a client is silent or does not read, and do not outlive the server. |

**Bounds.** Two weak pointers are the least that let one assign from or race
another, four strong ones let two be promoted while two are released. Three
workers are the least for which a notification can reach a worker while one
sleeps and one works, and for two workers to hand an executor to each other
while a third runs the pool's other task. Three tasks let one be running, one
queued and one pushed. Three log entries with limits 1 and 2 give two full
buffers in flight; `SetMaxBufferSize` moves between them. Messages of 1, 2 and 4
against a limit of 3 include the exactly full file and the message larger than
the limit; five of them fill all four files and lose one. Two transactions are
the least for one to be ended by the other's handle. Three registrations let a
table be registered, replaced and replaced again after `Clear`, or three
tables once each. Three clauses let one be shared by another twice, or nest
three operations deep over a leaf; the operations are one of each level of
precedence and each way of writing, so that deeper nesting repeats what two
neighbours show. The rows differ in length, order and types, lack a key,
or name a path twice, and all pairs of them meet in one insert. A path of
each kind is asked about: a table, a message in a message, a field of a message.

Two workers of the server are the least to share a buffer. It holds two blocks:
one request leaves room, the other fills it to the last byte and exceeds it, and each
arrives in all ways to cut it. Handlers that stop at the first request,
throw past the wrapper or have a big response are each there once; one descriptor is
less than there are clients. Format strings are all texts of six kinds around two
placeholders of all kinds, with options of up to two values, flags and nested
options; command lines are all pairs of items, so that each meets each as the
one before it and as the one behind, and a second call meets what all first
calls leave. Both are finite sets of inputs, evaluated once.

Every bound is a constant that appears in a guard (`MaxTasks`, `MaxEntries`,
`MaxMessages`, `MaxStarts`, `MaxTxns`, `MaxCopies`, `MaxRegistrations`,
`MaxSize`, `MaxOperands`, `MaxParts`, `MaxQuery`) or the length of a message;
a behaviour that reaches it goes on without the bounded operation.

**Stopping.** Runs whose system may really stop say `CHECK_DEADLOCK FALSE`: an
object that is freed, a pool that is gone, a program that has ended, a process
that an exception or undefined behaviour has ended.

**Fairness.** The code has no scheduler of its own: a thread that can go on is
assumed to go on (weak fairness of each thread's own steps, as the operating
system gives it). A thread that waits for a mutex others take again and again
needs strong fairness of the acquisition, and only there: `Acquire` of the
pool, `LockHandlers` of the log. Callers are under no obligation to call
anything: fairness covers only what is inside the library, except that in
`AbandonedIsFreed` a release under way is finished and in `FreedAgain` a
handle of the current transaction is destroyed at some time. The workers of the
RPC server have weak fairness each, its clients and its owner none: `Served`
holds against clients that fall silent at any time, and names what can keep a
worker: recv after a full buffer, send of a big response to a client that does not
read, and descriptors that are used up; a client that reads on is not assumed
(`Read` has no fairness), nor is a log call that works. Threads of
a process that an exception has ended are owed nothing. No fairness is assumed for spurious
wakeups, failures, crashes or new calls.

## 4. Proofs

Each proof module holds for every value of the constants that its module's named
ASSUMEs allow. They have one shape: an inductive invariant `IInv`, checked by TLC
first, one lemma for each action, `Invariance` (`Spec => []IInv`), and from it the
properties. Where an invariant that a run checks was not inductive, the run now
checks the stronger one.

**RefCount.** `Invariance` is `Spec => []IInv`. The type invariant and the
`VERIFY`s are not inductive alone; `IInv` adds what each counter equals: the
strong counter is the number of pointers that hold the object or are in the
middle of taking or giving back a reference, the weak counter the number of
watchers plus one for all strong references together, and that group's
reference is given up only after the destructor. One lemma per action; the
counting steps rest on cardinality facts of the finite set of pointers. From
it: `VerifiesHold` (no `VERIFY` fails), `StrongPtrsSafe` (a held object is
alive), `MemorySafe` (nobody touches freed memory), `LifeInOrder` (an object's life
only goes forward), and `Refinement`: initial states map to initial states and
every step of the code is a step of `SharedObject` or a stutter.

**ThreadPool.** `Invariance` again. `IInv` says who holds the mutex at which
pc, that queued tasks are exactly those pushed and not taken, in order, that a
sleeping worker with work in the queue implies a notification under way or an
awake worker, and that a destructor past its join has only finished workers. From it:
`WakeupsKept`, `StopHeard` (no worker sleeps after the destructor's notification),
`FirstInFirstOut`, `OneLateTask` (a worker starts at most one task
after `stop`), `DestroyedIsQuiet`, and the action property `RunAtMostOnce`.

**LogManager.** Where an entry is: in the buffer, in a batch some thread has
taken, or gone through. The buffer holds the latest entries and each batch a run
of older ones, so the swap moves entries that are nowhere else. How far a batch is:
`mutex_` is held over all of its delivery and every change of the handlers, so
what has arrived of it is the end of what each handler was given. From it:
`NothingDroppedOrDoubled`, `BufferStaysBounded` (the largest limit and the threads that
have yet to flush) and `DeliveredToAll`.

**LogRotation.** Each file holds a piece of what was written and the pieces are
adjacent. A write lengthens the first; a rename moves a piece to a place whose own
piece is empty, wherever in `RotateLogFile` a crash left the files; only the oldest is
cut off. `DiskHoldsTheLatest` (the disk is a suffix of the log, with the newest message)
needs that adjacent pieces, put together, are one piece; `Bounded` that a piece fits
the limit or is one message; `OldestAloneLost` is an action property.

**PeriodicExecutor and Program.** The strong count is the owner's reference and one
for each worker in a call; a chain has one task, in the queue or in the worker that
has yet to enqueue its successor. Both are sums over the workers, so a step
changes them by what the place of one worker adds. From it: `ChainsKept`,
`NoDeadRuns` (nothing runs on a destroyed executor or pool). `ProgramImplements`:
every behaviour of `Program` is one of `PeriodicExecutor`'s `Spec`, which states no
fairness; its phases are steps of the owner or stutters; with it and the program's
phases, `OneFlush`: at most one flush of the executor at a time, and at most one
after the destructor's own.

**DbClient** (in `QueryProofs`). A transaction under `Txn_` keeps a handle, because the
destructor that takes the last one has either found it current and will end it before
it lets go, or found another: `NeverOrphaned`, but for a log call that threw. That
callers end only their own (`OwnersEndTheirOwn`) rests on `OwnersInv`: what a
destructor has found current stays current until it rolls back, since under that discipline
only it could end it. That is what the unlocked look at `Txn_` needs.

**RowOrganizer** (in `QueryProofs`). What is organized is a function of one clause,
so the invariant is small (`Formed`: what a clause can be made of) and the work is in
the loops. `Recursion` gives a recursive function its existence and `Stays` its loop
invariant, as sets that each step leads into the next of. `InsertsAligned`
(`RowsAligned` for rows of any number and shape): once the first k attributes of a row
are put (`Filled`), every column has a cell, every path of those attributes has a column,
and the last column of a path holds what was last given for it; a new column, which
the finished rows and the one at hand are all padded for, changes the last column of no
other path. `UpdatesKeyed` (`UpdateKeyed`): `Lists` numbers the attributes that a loop
selects, in order; the condition joins the comparisons one after the other
(`Joints`), so to take it apart from its end gives them back, and a row that passes
all of them has the value the set gives at every part of the key, of which none is missing.

**Requests** (in `QueryProofs`). `QueriesArrive` is `ArrivesAsSent` for any shared graph
of clauses: what is read has the trees that were sent, or those before the first with an
`All()`, a `Default()` or a payload that does not parse. The property is about trees
and the state is a graph, so
everything rests on `Founded`: some rank puts each clause above those it refers to.
It is inductive because a clause is joined only to one that does not reach it: those that
reach the clause which gets the child all move above the child. Along the rank go
`GraphRecursion`, which gives the walks over the graph (`Reaches`, `ToProto`,
`Readable`, `Places`) their existence, and `GraphStays`, their invariant. A message
is `Sent`: there is a handle for each of its clauses, so that the clause is what is written of the
handle and the places in it, all earlier ones, stand for the children
(`Message`), and the starting points stand for the query (`Labels`). A clause
may stand in the message as often as it is shared, so to relate a place in a sent tree
to one in the tree read, each place leaves a `Trail` through the message. The
inductive invariant `QueryInv` adds `Formed`, `Queried` (the query is of handles) and
`Progress` (no message while the query is composed, then that of the query, then what
`Read` makes of it). A rank and the handles of a message are not in the state, so TLC
checks what they amount to: that no child reaches its parent and every clause of a
message refers back (`QueryTypeOK`, part of `ArrivesAsSent` and proved with it).

**RpcServer.** An open connection has exactly one worker, so a step moves one frame
and one connection; only `InputBuf_` is shared. A recv while another worker holds a
buffer it has not copied puts that worker's client in `raced`. Who is not in it finds
in the buffer the last of the blocks it received and has copied those before, in order.
A recv that does not fill the buffer took all there was, which is why a worker
that comes back to recv has received whole buffers: there alone recv can wait. An
answer is set when the handler has returned and only a worker in `send`, or a closed
connection, has one; every exception takes the worker and its connection apart in
one step (`GiveUp`), so the reason is told from the request. `RequestIsOwn` and
`AnswerIsRight` (one worker, closed once, the first matching handler, what is left
open and why, no worker outlives the server).

**Relations.** `LookupsExact`, under `KeysDistinct`: no two paths of the scheme have one
hash, which the run `relations_hash` shows the code does not ensure. A registration
is a recursive walk that returns a sequence of calls, and the execution of it. By induction on the height of a
message, the walk enters everything below it, each path after the message it is in;
by induction on the calls, what has been entered is on file and nothing else has
changed (`Filed`). The step is one registration as a whole (`RootRegistered`): its table is on file, all
of it of this registration, and the other tables are as they were, whatever
earlier registrations and `Clear` left in the maps (`LeftoversHarmless`). TLC checked
`OnFile`, the inductive invariant, which says what `LookupExact` says in terms of the maps.

`CachesAreExact` adds two facts to it. `MessagesByPath` holds the messages of the latest
registrations and no others (`Shelved`), so an answer about a subtree has all messages of
a table or none. A parent is the object of the path above, made by the same registration
(`Kin`): between two calls of the walk the stack `parents` holds exactly the messages
above the place where the walk is (`Nested`), so the one that is popped when a message is
left is the message above it; the table's own fields get theirs from the loop at the
end of `RegisterRoot`. A parent has a shorter path than its child, so the recursion
`up` of `WithAncestors` obeys its equation, and its answer is the chain of the latest
registration. It stays so in the cache because a registration that changes a parent
empties the cache. A table without fields does not empty it: what is cached of that
table's own message may be of an earlier registration, so `AncestorsExact` leaves these
tables out; the others are unharmed, since nothing has such a message as a parent.

`NamesRead` (`NamesRoundTrip`) needs `NamesDistinct` too: no message has two fields of one
name, which protobuf ensures, no two tables one `SnakeCase`, and no path the key of the
empty path, under which the tables are named: nothing in the code ensures these. Each path
that has a name is in both maps (`Spelled`); entering another name cannot hide it, since a
name tells a path from all others with the same path above (`NamesTell`).

**Assumptions.** Finite sets of pointers, threads and workers, natural bounds, a value
that is no thread or client; a largest log limit; requests that are not empty; an HTTP
exception whose code has a name; a scheme with a deepest message, whose messages name
their fields by distinct numbers. TLC evaluates them in the runs.

**Induction.** The library's induction theorems take operators as parameters, which no
installed prover can instantiate. Sizes and concatenations (`SizeOf`, `FlattenSeq`) are
recursive functions over lengths: that they obey their equations is proved from the
least length at which they would not, a member of a set (`WFMin`). `RelationsProofs`
has the principle once, for a set (`SetInduction`), and uses it for `Walk` and the
recursions: `Process`, `AdoptFields` and `FromNames` are functions over the number of
calls or names, and `up` of `WithAncestors` over the length of a path. `QueryProofs` has
it for sets, for sequences of steps (`Recursion`, `Stays`) and for graphs without cycles.

**Only model-checked.** All liveness properties (`AbandonedIsFreed`,
`DestructorReturns`, `EveryTaskAnswered`, `TakenIsDelivered`, `StoppedEnds`, `DroppedEnds`,
`FreedAgain`, `Served`): neither fairness nor ENABLED is in the provers' reach.
`TextReadsBack` and the properties of `Schema`, `Format` and `GetOpts`, whose operators
are RECURSIVE or folds over data. `Refinement` of `RefCount` is of the safe part of
`SharedObject`; its liveness is checked (`ImplementsSharedObject`).

## 5. Where code and text disagree

* `path.cpp:11`: the hash that keys all maps is not injective on paths of small numbers:
  `{1, 1, 66}` and `{1, 2, 1}` collide, also `{1, 1, 2}` and `{1, 4, 63}`, and
  lookups compare no path. Run `relations_hash`.
* `weak_ptr.h:52` and the pool destroyed by its own worker: runs `weak_assign`
  and `program_survives`; the findings quote the text.

Observed while modelling, not stated as properties because no text
promises otherwise:

* `~TProgram` stops the flush executor and flushes once more; `Stop` does not
  wait, so a flush under way may still deliver when that final flush returns.
* Two workers can hand the last reference of a dropped executor to each other
  for ever (`DroppedEnds` names that behaviour).
* An interrupt between the installation of the signal handlers and
  `Running_ = true` (`program.ipp:62` and 68) is forgotten.
* `All()` and `Default()` can be written to a message and not read from it
  (`query.cpp:55`); the `table_num` of a select is never written
  (`query.cpp:289`), so that a received select has an uninitialised table. A payload
  that does not parse throws too (`query.cpp:473`), and an attribute
  of an unregistered path dereferences a null field (`query.cpp:475`).
* `NOT`, `IS NULL`, `IN` and `NOT IN` are built without braces
  (`postgres.cpp:301`): `!a + b` is read as `NOT (a + b)`. `TextReadsBack`
  says exactly where the reading differs.
* `Excluded(path)` is lost in `TransformClause`, and the type of every builder
  column that is not set is uninitialised (`builder_base.h:234`).
* An insert whose first row names a path twice has two columns of that path,
  which the server refuses; so are the qualified column names that INSERT and
  UPDATE write, and `ON CONFLICT DO UPDATE` without a target.
* A `uint32` attribute is cast to `int32` (`sql_organizer.cpp:204`).
* A rotation whose first rename fails has already shifted the backups, and a write
  that fails is not noticed (`logging.cpp:92`): until the next rotation every message
  is dropped.
* What a log handler throws ends the process if it is out of `~TProgram`,
  `OnInterrupt` or `OnFailure`, and so does what a task or a callback
  throws that is no `std::exception` (`threadpool.h:170`, `periodic_executor.cpp:41`).
* Two threads that flush may deliver their batches in the opposite order of the
  swaps, so one thread's entries can reach a handler out of order.
* The signal handler logs; interrupting a thread inside `Log` or `Flush` it
  locks a mutex that thread holds.
* `ExecuteQuery` joins whatever transaction is current, whoever began it.
* A log call that throws leaves the client with a transaction nobody ends: in
  `BeginTransaction` between `make_shared` and the return (`db_client.cpp:127`),
  in `Commit` between the commit and the reset, after which `Rollback` throws and
  only another `Commit` frees the client, and in `~TTransaction` before its
  `Rollback`, from where it may also end the process. `Connect` on a client
  that has a transaction destroys the connection under it.
* A worker of the RPC server parses whatever is in `InputBuf_` when it copies
  (`http_server.cpp:510`); a zero byte cuts off the rest of a buffer; a request
  whose length is a multiple of the buffer waits in `recv` without a timeout, and
  so does `send` for a client that does not read; an exception from `TRequest`,
  `std::regex`, `dump()` or a log call leaves the socket open, until accept has no
  descriptor left, and one of the log call in `Worker`'s catch ends the process;
  `Listen` uses and frees
  the address it has freed if there is no socket. `Start` called again queues
  tasks behind workers that do not end, and while a worker is in `accept` the
  server it holds is not destroyed.
* The server reads a `uint32` column as INTEGER and a `uint64` column as
  BIGINT, an enum's default by its place and not its number, a literal's
  escapes as they stand; it refuses a table with a key in it and in a message
  below it. `SetDefault` and `DropDefault` set the same type of alteration
  (`builder_base.h:766`), which is written as DROP NOT NULL
  (`postgres.cpp:1051`), and no space separates the table of an ALTER TABLE from
  the word behind it.
* The apostrophes of `"... '{}' ..."` (`config.h:36`, `db_client.cpp:54`) hide the
  placeholder between them, which is written as it stands. `GetTableId`
  (`field.h:84`) separates options with semicolons, which are no separators.
  A brace in an option of an option ends it, quoted or not
  (`format.cpp:271`).
* An option that takes an argument and has no short name makes every call of
  `Parse` throw (`getopts.cpp:50`), and values outlive calls and exceptions.
* `Clear` leaves both caches, the root messages and the primitive fields;
  `GetMessagesFromSubtree` is never told of later registrations. A table with
  no fields does not empty the ancestors cache. A recursive message type
  would never end `Process`.

## 6. Not modelled

Listed in `PROJECT.json` with the reason: `atomic_intrusive_ptr.h` (unused), the
master service (a wrapper around pqxx, outside the build), the device protocols
(system calls and loops of one thread, used by nothing and outside the build),
the reading of configurations, and generated protobuf code. Of what is modelled these are left out:
`BuildColumnDefinition` and the `increment` of a type, which nothing calls or sets; floats, pointers, time points and
streams in `Format`, and the help text of the options; setters that
overwrite what a clause has, and its table; messages that are stored in
place; the set-up of log handlers from options and configuration.

What callers keep to is assumed: every path in a query, a row or a key is
registered (`query.cpp:475` would dereference a null field, `GetTable` and
`GetParentTable` of the organizer would throw), and a clause is not changed between
two writings of one query. `New` returns the memory only of a constructor that throws a
`std::exception` (`intrusive_ptr.h:113`), which are all that throw here. The builder's
DEFAULT VALUES (`postgres.cpp:801`) needs `IsValues_` without rows, which the
organizer never makes.

Two things go wrong in every build and no property says they do not: a request that another
worker overwrites (`raced` in `OwnRequest` names those, and it promises the
others theirs), and a subtree that was cached before a registration
(`CachesExact` promises that such an answer is whole and of one registration).

Constructors that throw after handing out references to themselves do not occur
in the repository. The signal handler that logs interrupts a C++ library call of
one thread, which the models step over (see its hazard).

## 7. Plan

1. Recursive functions for the RECURSIVE operators of `Organizer`, `Postgres` and
   `ReadBack`, to prove about the text.
2. `Requests`: setters that overwrite values and tables, composing on after a
   message was written.
3. The decoder of sensor frames, if it comes back into the build.
