# A formal model of MCRedis

MCRedis is a small C++ Redis client: header-only templates in `MCRedis/`, their
non-template parts in `src/`, and the C client hiredis, kept in
`lib/hiredis/`, which does the I/O. This directory holds TLA+ modules for the
parts of the library whose correctness depends on the order of events, the TLC
configurations that check them on small instances, and proofs for TLAPS.

## The system

| Component | State | Operations | Talks to |
|---|---|---|---|
| `CConnectionPool` (`MCRedis/ConnectionPool.h`) | `pool_`, a map from the last slot of a range to a list of idle connections; `mutex_`; the middlewares | `get`, `create`, `clear`, `~CConnectionRAII` | middlewares (under `mutex_`), user threads through the handles |
| deprecated `CConnectionPool` (`ConnectionPool.h:167`) | one list of idle connections | the same | middlewares |
| `CConnection` (`src/Connection.cpp`) | hiredis context, host, timeout, `slotRange_` | `connect`, `sendCommand`, `appendCommand`, `getReply`, `errorNo` | hiredis blocking API |
| `CRunner` (`MCRedis/Runner.h:69`) | `lstCommand_`, the commands appended and not run | `run`, `append`, `runCommands` | pool |
| `runSingleCommand`, `mapCommandPerNode` (`Runner.h:11`) | none | retry loops over `pool.get` | pool, connections |
| `CAsyncRunner` (`Runner.h:152`) | `lstCommand_`, `resultId_` | `run`, `append`, `runCommands`, `getResult`, `join`, destructor | `CTaskHolder`, tasks of `std::async` |
| `CTaskHolder` (`Runner.h:159`) | `mapTask_`, `lastId_`, `terminate_`, `lstReturnedId_`, `mutex_`, a cleaner thread | `addTask`, `getResult`, `returnId`, `remove`, `stop` | futures of running tasks |
| middlewares (`MiddleWare.h`, `src/MiddleWare.cpp`) | addresses of servers, sentinels or cluster nodes | `create`, `getConnection`, `getSlot`, discovery in the constructors | `CConnection` |
| slots (`MiddleWare.cpp:218`) | none | hash tag and CRC16 of a key | pool |
| `CReply`, `CCommand` | a value | copy of a `redisReply`, argument vector | hiredis |
| hiredis reader (`lib/hiredis/read.c`) | buffer, stack of 9 read tasks, the reply begun | `redisReaderFeed`, `redisReaderGetReply` | blocking and async contexts |
| hiredis command formatting (`hiredis.c`) | none | `redisFormatCommand`, its argv versions | contexts |
| hiredis blocking context (`hiredis.c`, `net.c`) | descriptor, output buffer, reader, `err`, flags | connect, reconnect, append, get reply, free | sockets |
| hiredis async context (`async.c`) | reply callback lists, subscription tables, flags | command, read, write, timeout, disconnect, free | event loop adapters |
| hiredis strings (`sds.c`) and dictionary (`dict.c`) | header and bytes; chains | append, cut, split, quote; add, delete, find, iterate | everything above |

### How they interact

A command is routed by the slot of its key: a runner asks the pool for a
connection for the slot, the pool looks in `pool_` with `lower_bound` and, when
the list it finds is empty, asks the middlewares to connect, with `mutex_`
held. The handle gives the connection back when it dies, unless the connection
has an error. `CRunner` groups consecutive commands that go to the same slot range
and pipelines each group. `CAsyncRunner` moves its commands into a task of
`std::async` and keeps the id of the task's future in a process-wide
`CTaskHolder`, whose cleaner thread deletes the futures of runners that are
gone.

### What is hard

- threads that interleave at `mutex_` of the pool, and one of them connecting
  while it holds it;
- cached knowledge that gets stale: slot ranges in idle connections and keys in
  `pool_` when the cluster reshards;
- partial failure: a connection that fails in a pipeline, a runner whose commands
  have been moved out when a later one finds no connection;
- the task holder: a task that starts before its future is registered, ids that
  come back while `join()` stops the cleaner, and a cleaner that waits for a task
  with the mutex held;
- termination: an exit without `join()`, a deleter that is empty;
- servers that change between two queries of one call of a middleware, and hosts
  that cannot be reached;
- a network that cuts commands and replies anywhere, refuses, times out or goes
  away, and signals that interrupt a system call;
- callbacks that call back into the library: commands, disconnect and free from
  inside the loops that run them, subscriptions pipelined in any order.

### What makes each component correct

- **Pool**: a connection has one owner at a time; it is filed where `get` looks
  for it; a command goes to a connection that was opened for a range with its
  slot in it; the mutex is always let go.
- **Runners**: replies match commands, each command is executed once, nothing of
  one run is left for the next.
- **Task holder**: a result can be fetched until its runner gives it up, no
  future is lost or kept for ever, `join()` returns after every task.
- **Slots**: the hash tag alone decides the slot, by the CRC16 of Redis.
- **Middlewares**: what is handed over goes to a server that had the role or the
  slots during the call; hosts that are down do not keep a call from what another
  one can tell.
- **hiredis**: replies come in the order of commands however the bytes are cut;
  no descriptor leaks, no output is lost or repeated, a failed call sets `err`;
  each callback runs once and for its own reply; a context that is to go does go;
  values cannot change the arguments of a command; strings and tables are what
  was put into them.

`PROJECT.json` lists the components with what is modelled of each, and under
`hazards` every place of the code where something can go wrong that a test would
hardly reach, with the property that watches over it, or the reason why there is
none.

## Modules

| Module | Models | Uses |
|---|---|---|
| `Leases` | what a pool of connections promises (abstract) | |
| `ConnectionPool` | `CConnectionPool`, its handles, and the cluster and users around it | `Leases`, by refinement |
| `ConnectionPoolProofs` | theorems about `ConnectionPool` | `ConnectionPool`, `TLAPS` |
| `TaskHolder` | `CAsyncRunner`, `CTaskHolder`, its cleaner, `join()` and exit | |
| `TaskHolderProofs` | theorems about `TaskHolder` | `TaskHolder`, `TLAPS` |
| `Runner` | `CRunner`, `runSingleCommand`, `mapCommandPerNode`, the servers | |
| `RunnerProofs` | theorems about `Runner` | `Runner`, `TLAPS` |
| `HashSlot` | `CClusterSupport::getSlot` | |
| `Discovery` | `CDefaultMiddleWare`, `CSentinelSupport`, `CClusterSupport` and the servers they ask | |
| `DiscoveryProofs` | theorems about `Discovery` | `Discovery`, `TLAPS` |
| `Resp` | the wire format: numbers, lines, the functions that format commands | |
| `ReplyReader` | `read.c` and the functions that build replies | `Resp` |
| `Commands` | enumerates formats and numerals for the two modules above | `ReplyReader` |
| `ReaderProofs` | theorems about `ReplyReader` | `ReplyReader`, `TLAPS` |
| `Pipeline` | what a blocking connection promises (abstract) | |
| `Context` | the blocking context (`hiredis.c`, `net.c`), `CConnection::connect` and `reconnect`, the network and the server | `ReplyReader`; `Pipeline`, by refinement |
| `ContextProofs` | theorems about `Context` | `Context`, `ReaderProofs`, `TLAPS` |
| `AsyncContext` | the asynchronous context (`async.c`), the event loop, the caller and the server | |
| `AsyncContextProofs` | theorems about `AsyncContext` | `AsyncContext`, `TLAPS` |
| `Sds` | the dynamic strings (`sds.c`, `sds.h`) | `Resp` |
| `Dict` | the hash table (`dict.c`) | |
| `DataProofs` | theorems about `Sds`, `Commands` and `Dict` | these, `ReaderProofs`, `TLAPS` |
| `MCData` | composes `HashSlot`, `Dict`, `Sds` and `Commands` for one run | these |
| other `MC...` | the constants TLC needs for each of them | |

In each module an action is named after the operation it models. Operators whose
comment begins with "Fault:" are variants of a definition with a plausible
mistake in it; no specification uses them, and for each property there is one
that TLC finds out when it is put in the place of the definition
(`PROJECT.json`, `mutants`).

### ConnectionPool

A critical section that does no I/O is one atomic step: nothing outside the lock
can see its middle. `_get` is two steps when the list it looks for is empty or
absent, because it connects while `mutex_` is held: `GetMiss` takes the mutex,
`GetConnected` or `GetFailed` lets it go. `create()` reads the node list
(`CreateBegin`), connects without the mutex (`CreateConnect`), and then takes
the mutex once for each connection (`CreatePush`).

`pool_` is split into `keys`, the keys of the `std::map`, and `pool`, the list
under each: `clear()` empties the lists and leaves the keys, and `lower_bound`
sees the keys of empty lists. `UINT32_MAX`, the slot of a command without a key,
is `NoSlot`, one above the largest slot. A `CConnection` is a `range`
(`slotRange_`), a `context` ("ok", "failed" once hiredis has set `err`, "null"
after a reconnect that failed) and `deletable`, which says whether its
`unique_ptr` has a deleter. `phase` becomes "terminated" where the code calls an
empty `std::function` in a destructor or dereferences a null context.

The environment is the cluster, which may answer with another of the
assignments in `Topology` at any time (`Reshard`, of which the code sees nothing
until it asks again; `view` is what a thread read last), and the users, on whose handles commands fail (`UseFails`) and who may
connect again (`Reconnect`). A connection has the range it was opened for, and no
node: whether the node behind it serves the range still is not asked by the pool,
and `RoutingSound` says nothing of it.

### TaskHolder

`mapTask` is `mapTask_` with `None` for an id that is absent, and a task stands
for its future. The destructor of a future of `std::async` waits for the task:
`Ended(k)` guards everything that destroys or waits for one, which is how the
cleaner and `join()` come to hold `mutex_` for long (`CleanerErases`,
`StopDrains`). The steps of `_run` are giving back the old id (`ReturnOld`), the
start of the task (`Launch`) and `addTask` (`AddTask`), since the task runs
before it is registered. The cleaner reads `terminate_` and
`lstReturnedId_.empty()` in a step of its own, without the lock
(`CleanerLooks`). The static holder and its cleaner come to life with the first
use (`Born`); `Exit` is the end of the program. Tasks in `Reentrant` call, from their callback, something that needs
`mutex_`, and cannot end while it is taken.

### Runner

Commands are numbered in the order of submission; `home` says in which slot
range the key of each lies. A leased connection is a record: the commands
appended to it, those the server has yet to execute, the replies to read. hiredis
writes its buffer in the first `getReply` (`Flush`), as a whole or in part if
the connection breaks; the server executes what it has received at any later time
(`Execute`), even when the client has gone; a failed connection fails every
later call on it. `moved` holds the commands of `lstCommand_` that
`mapCommandPerNode` has moved out. A later run may meet one in `lstCommand_`, and
two things may happen. The vectors it was left with may not agree, and to read its key
is undefined behaviour (`MapUndefined`), as is `rbegin()` on the empty result when the
first range is (0, 0); both end in `pc = "undefined"`. Or `lstCommand_` was
reallocated since, which rebuilt the command without arguments (`Command.h:24`): it has
no key, the pool may give it a connection of any range (`MapGets`), what is sent for
it is an empty array, and the server does not answer that. `blank` counts the
commands of this kind at the head of a group, and `hollow` says that there are some:
the replies of the others then come in the wrong places, and from a `getReply` too
many the connection fails.
`runs`, `asked`, `batch`, `singled`, `answered` and `failed` are ghosts for the
properties.

### HashSlot

The CRC table is the source's, entry by entry. The state machine enumerates keys
byte by byte, and the properties compare `getSlot` with a division by the
polynomial bit by bit and with a declarative reading of the hash tag rule.

### Discovery

An object is built by one of its constructors and then answers `create()` and
`getConnection()`; every `connect()` and every query is a step, and the servers
(`net`) change between any two of them. `left` is what the loop over hosts has
still to try, `ctl` the host of the connection that queries, `targets` what is
still to be opened, `heap` the number of `CConnection` objects the call has made
and not deleted. `seen` is a ghost: the states of the servers since the call
began. The source's peculiarities are there: a sentinel list that stays empty
for good when the one host of the constructor cannot be reached, a list that is
dropped at the first wrong reply, the first host that can be reached deciding
alone, the master opened with a timeout of 0 (`OpensAtOnce`), the objects that
`create()` and `_getNodes` of the cluster do not delete (`Deleted`, `Seek`).
Replies are well formed; `.at()` on a shorter one would throw out of a `noexcept`
function and end the process.

### Resp, ReplyReader and Commands

Text is a sequence of one-character strings. A reader is a record, each function
of `read.c` an operator from one reader to the next; `redisReaderGetReply`
applies `processItem` as often as the bytes allow. The reply
under construction is a function from paths to nodes: `Path` is read off the
stack as `createStringObject` and its like find their parent. The widths of `int`
and `long long`, the size of the stack (9) and the 1024 bytes before the buffer
is shortened are constants, small in the instances, so that every limit is met.
`redisvFormatCommand` is a fold over the format, with its flags, widths and
length modifiers; the values of the conversions come from a list.

`Commands` says what the two sides have to do with each other: what the
formatting functions write is read back as the same arguments.

### Context

`ctx` is the `redisContext`, or `NoContext`, the null pointer. Opening one is a sequence of steps,
one for each system call and its outcomes: the loop over addresses with its
retries, the Unix socket, the descriptor the caller gives, `poll`, the options
at the end. `open` is the set of open descriptors. Commands go out in two parts
(`Wire`), replies come in byte by byte in pieces of any size. `wrapped` marks a
context that `CConnection` owns: it frees one that failed, and opens a new one
before it frees the old (`EndsWith`, `TimedAgain`). `silent` is a ghost that
marks the paths on which the code fails without setting `err`; on a context that
was left unconnected by one of them `send` fails. `type` is `connection_type`, 0 at
first, which stands for TCP: `redisReconnect` on a context of a given descriptor, or
of a Unix socket that could not be made, resolves no host and opens a TCP socket
(`Recalled`). `asked` and
`got` are the commands and replies of the caller.

What the server sends for a command (`Encode`) is, read at once and by itself,
the reply to that command with nothing left over, and `Garbage` is no reply
(`AnswersAssumption`, which TLC evaluates with the parser for the replies of the
run). How the bytes are cut and what stands before or after them is left to the
network.

The environment: the server answers what has reached it, at any later time;
the peer may send what is no reply, close or reset; signals interrupt `send` and
`recv`; with a timeout set, either may fail at any time.

### AsyncContext

`ac` is the context with its callback lists, `ev` what the event loop is
registered for, `pc` the handler that runs and `back` where it goes on when the
user's callback returns: while `pc` is "callback" the caller may issue commands,
disconnect or free, as it may in the loop. `cb` is the variable of
`redisProcessCallbacks` that keeps the last callback, which MONITOR pushes again. The
flags keep their names. Replies are whole, for their bytes are `ReplyReader`'s
affair, but a read may bring only a part of one (`HandleReadPart`). `hist`
holds, for the properties, the commands whose callback is due and whether each
reply met the one it was for; `odd` notes what the library does not sort out.
A failed `assert` ends the process (`dead`).

A write sends any number of whole commands, none if only a part of the first was
taken; or it fails because the connection is gone; or `send` would block or is
interrupted, which `redisBufferWrite` takes for a failure although no error is set. In
that case ("unsent" in `odd`) the handler disconnects as if there were nothing pending.
The assertion of `__redisAsyncDisconnect` fails if a callback is, and with
`REDIS_NO_AUTO_FREE` the context is out of the event loop with no error: a command
that is issued then uses what the adapter has freed (`IssueDetached`). The properties
exempt just that (`GivenUp`), and `PROJECT.json` has it among the findings.

### Sds and Dict

A string is a header (type, length, allocation, each modulo the width of the
type) and the bytes that `malloc` gave, with "junk" where nothing was written.
`text` is what the string stands for. In `Dict` a table is a sequence of chains;
`map` is what it stands for. Both state machines are any sequence of
operations.

## Runs

| Run | Instance | Shows |
|---|---|---|
| `pool` | 2 threads, 2 connections, 2 nodes over 3 slots that may exchange their slots, a callback that breaks connections, 2 handles a thread | `TypeOK`, `Ownership`, `BucketKeyed`, `RoutingSound`, `RoutingStable`, `ConnectsOnlyOnMiss`, refinement of `Leases` |
| `holder` | 2 runners, 3 tasks, one re-entrant, fairness | `OwnResult`, `OneFuture`, `JoinLeavesNone`, `ReturnedErased`, `JoinReturns`; the last two hold unless somebody waits, with the mutex, for a task whose callback needs it |
| `runner_safe` | 4 commands, 2 nodes, one of them with range (0, 0), 2 calls, 2 attempts | `RepliesAligned`, `RightConnection`, `PipelinedOnce`, `ExecutedInOrder`, `CleanHandBack`, `UndefinedOnlyAfterFailure` |
| `context` | 2 commands, 2 contexts opened in 7 ways, 2 addresses, a signal, fairness | `FdOwned`, `OutputConserved`, `FailureExplained`, `NothingLost`, refinement of `Pipeline`, `CallReturns` |
| `async` | 3 commands, SUBSCRIBE of one or two channels, a message | `CallbackOnce`, `RepliesMatched`, `SubsTracked`, `AssertsHold`, `NeverStranded` |
| `data` | keys of a byte, and of up to 5 over `{`, `}` and two others; 5 keys in a table; strings up to 6 characters; formats up to 5, numerals up to 4 | `CrcCorrect`, `TagDecides`, `SdsSound`, `SplitsBack`, `DictIsMap`, `FormatSound`, `NumbersCanonical` |
| `discovery` | 2 sentinels, 2 nodes, 3 slots, a call, a change of the servers | `HandedServes`, `SteadyObtains`, `NoneLost` |

Five runs show that the code does not do what a line of the repository expects
of it (`PROJECT.json`, `findings`, which lists four more disagreements met
while modelling):

| Run | Property | What happens |
|---|---|---|
| `pool_clear` | `ClearReturns` | `clear()` on a connection that `_get` opened calls an empty deleter and the process terminates |
| `holder_exit` | `ExitCompletes` | a process that used a `CAsyncRunner` and did not call `join()` never ends |
| `runner_own` | `RunReturnsOwn` | the second `run()` on a runner returns the reply of the first command |
| `context_null` | `NullExplained` | a signal interrupts `send`: a blocking command returns NULL with `err` 0 |
| `async_refusal` | `RefusalDelivered` | the error reply to a plain command on a subscribed context closes the connection |

### Why the bounds are enough

- *Pool.* Two threads make every pair of critical sections meet; the second
  connection lets a thread hold one while another is idle. Two ranges, one
  of one slot and one of two, with the end of one next to the beginning of the
  other, are where `lower_bound` can be wrong; the key `NoSlot` lies above both.
- *Task holder.* A runner that runs twice and another one beside it need three
  tasks. `MaxTask` also bounds `lastId_`, a 64-bit counter in the code.
- *Runner.* Four commands are A B A B, the shortest sequence where two groups of
  one node are not adjacent and a group may still have two commands. Two calls
  show what one run leaves to the next; two attempts tell a retry from the last
  one. The default of five attempts adds repetitions only. The second call meets
  commands that the first one moved from.
- *Context.* Two addresses take every way around the loop, with two attempts of
  ten at an address in use. The replies hold a nil, a negative integer, an empty
  array inside an array, and a string that holds half a line end; garbage is a
  bad number, a nesting one beyond the stack (3 here) and a reply cut off.
  Two contexts show what a reconnect leaves of the first. `MaxCalls` bounds the
  commands, fewer on the second context.
- *Async.* Three commands are SUBSCRIBE, UNSUBSCRIBE and another SUBSCRIBE before
  the first confirmation, which is what `pending_subs` is for; the sequence of
  two channels meets a channel that is known and one that is not. A send that fails
  without an error may come at any write.
- *Discovery.* The lists have no host, one or two: with two, one that is down
  stands before one that is up; one
  change is enough to fall between a query and the connection to what it named.
- *Data.* One byte reaches every entry of the CRC table; two bytes and more of
  the sample use the register that is not empty. Three keys of five collide in the
  first table and two still do after it has grown. Strings of up to six
  characters pass from type 5 to 8, 16 and 32, and hold every escape that
  `sdscatrepr` writes but those of CR and TAB, which are no different, with the
  headers scaled down
  (`Moduli`), and `LLONG_MAX` of 127 has its limits within numerals of four
  characters.

The theorems below remove the bounds for every property of `pool`,
`runner_safe`, `async` and `discovery`, for the safety properties of `holder` and
`context`, the refinement of `Pipeline` included, and for the strings, numerals
and tables of `data`.

`CHECK_DEADLOCK FALSE` is set in every run: users may stop using the library at
any time, and the bounds on commands, tasks, calls and texts stop the models.

### Fairness

`TaskHolder!FairSpec` assumes that a thread which has begun an operation goes on
when it can, the cleaner too, and that tasks end, which the command timeouts and the
bounded attempts give if callbacks return. Runners need not be used, and
`join()` need not be called. All of it is weak fairness.

`Context!Spec` assumes that a call that was begun goes on as the kernel lets it:
a `recv` without a timeout may wait for ever, one with a timeout ends. This is
weak fairness of `Library`, with its `ENABLED` written out (`CanStep`) to
keep TLC fast. Servers and callers have no fairness.

## Proofs

Each proof module extends the module it is about and ends with the theorems;
before them stand the inductive invariant, `Inv` (in `ConnectionPoolProofs`, the
conjunction named below), the lemmas on the operators, and one step for each
action. The invariants were checked by TLC on the instances of the runs
before they were proved. Every theorem is under the assumption on the constants
that its module states (`PoolAssumption`, `HolderAssumption`, ...), which says
what kind of value each constant is and what the code takes for granted, and
which TLC evaluates in the runs.

### ConnectionPoolProofs

For every set of threads and connections, every number of
slots and any resharding:

| Theorem | States | From |
|---|---|---|
| `TypeCorrect` | `[]TypeOK` | itself |
| `ExclusiveOwnership` | `[]Ownership` | `TypeOK` |
| `FiledByRange` | `[]BucketKeyed` | `TypeOK`, `Ownership` |
| `RoutedByRange` | `[]RoutingSound` | `TypeOK`, `Ownership`, `BucketKeyed`, `RangesKnown` |
| `RouteKept` | `RoutingStable` | `TypeOK`, `RangesKnown` |
| `MissHoldsMutex` | `[]ConnectsOnlyOnMiss` | `TypeOK` |
| `PoolImplementsLeases` | `LeasesImplemented`, that is `L!Spec` | `TypeOK`, `Ownership` |

The assumption is `PoolAssumption`: the constants are of the right kind, and a
range does not end before it begins. The inductive invariant is
`TypeOK /\ Ownership /\ BucketKeyed /\ RangesKnown /\ ConnectsOnlyOnMiss`. `Ownership` is inductive
by itself: a push takes its connection from a handle or from the fresh
connections of one thread, so it was in no list (`PushKeepsOnce`), and a pop
leaves it in no list (`PopKeepsOnce`) because it was at one place only. `BucketKeyed` needs
it, since a new range may be given to a connection only if it is in no list.
`RoutingSound` is not inductive: it follows (`RoutingFollows`) from
`BucketKeyed` and from `RangesKnown`, which says that the range of each live
connection is one that the cluster gave to a node at some time. Then, if ranges never
overlap, `lower_bound` cannot stop at a list between the slot and the end of the
range the slot is in; for the same reason a new list never comes between them
later (`RouteKept`). `ConnectsOnlyOnMiss` is inductive with the types: whoever
pushes needs the mutex free, and the connecting thread has it.

For the refinement, the owner of a connection is read off the lists and the
handles (`OwnerOf`). `Ownership` makes that a function of where the connection
is (`OwnerIs`), so a connection that stays where it is keeps its owner
(`OwnerStays`), a step that moves one connection changes one owner (`OneMoves`),
and `LeaseStep` goes through the actions: a hit is a lease, a connect an
opening, a return or a push of `create()` a return, a drop a discard, `clear()`
and the destructor a purge.

### TaskHolderProofs

For every number of runners and of tasks:

| Theorem | States |
|---|---|
| `HolderInvariant` | `[]Inv` |
| `HolderMutex` | `[]MutexHeld`: `mutex_` is held by the thread in a critical section that waits, and by nobody else |
| `ResultIsOwn` | `[]OwnResult` |
| `FutureIsOne` | `[]OneFuture` |
| `JoinWaitsForAll` | `JoinLeavesNone` |

`OwnResult` says nothing about ids that nobody asks for, so `Inv` adds who may
know an id: no two runners keep the same (`Distinct`), none above `lastId_` is in
use (`Unused`), and one that was given back is kept by nobody who could still ask for
its result (`GivenBack`); then what the cleaner erases is the future of no
one who waits (`Kept`). `Counted` says that `lastId_` and the tasks which are started
and not registered add up to the tasks launched: an id is never handed out
twice. `Phases` says what main and the cleaner have done by the time `join()` clears the
map.

### RunnerProofs

For every number of commands, calls, nodes and attempts:

| Theorem | States |
|---|---|
| `RunnerInvariant` | `[]Inv` |
| `GroupsAreRight` | `[]RightConnection`, for commands that have their arguments |
| `RepliesInOrder` | `[]RepliesAligned`; only the number of replies, when there are commands without arguments |
| `PipelinedAtMostOnce` | `[]PipelinedOnce`, for commands never sent alone |
| `ExecutionInOrder` | `[]ExecutedInOrder`, for pipelined commands that got a reply |
| `HandsBackClean` | `[]CleanHandBack` |
| `UndefinedNeedsFailure` | `[]UndefinedOnlyAfterFailure` |

Commands are numbered as they are submitted, and all that holds commands holds
consecutive numbers: `lstCommand_` (`Consecutive`), the groups (`Runs`, `Split`),
and the wire, the replies that wait and those that were read of a connection
(`OnItsWay`). So the place of a reply, in its group and in the result, is a difference
of numbers, and the orders are comparisons of numbers. `ConnOrder` and
`ListOrder` say that the connections were leased in the order of what is on them
and before what is not on one yet; `InTurn`, that they are used up one after
another, which is what keeps the log of executions in order although the servers
execute when they like. `Moved` says which commands have been moved from: those
of a `_run` that returned early are the only ones that a later call may
meet; they come first in `lstCommand_`, so those without arguments are the first of
the first groups (`Blanks`), and what follows them on a connection is consecutive
still (`Real`).

### ContextProofs

For every set of options, commands and replies, and all bounds:

| Theorem | States |
|---|---|
| `ContextInvariant` | `[]Inv` |
| `DescriptorsOwned` | `[]FdOwned` |
| `OutputInOrder` | `[]OutputConserved` |
| `FailuresExplained` | `[]FailureExplained` |
| `NothingLostHolds` | `[]NothingLost` |
| `StreamInvariant` | `[]Stream` |
| `PipelineImplemented` | `ImplementsPipeline`, that is `P!Spec` |

`Descriptors` says in which steps of the connect loops the context has a
descriptor and when one is about to be closed. `Follows` turns the output into
positions: what the server executed, what has reached it, and what is buffered are
consecutive parts of all that was asked for. `Outcome` says that the end of the
loop over addresses comes with an error or a connection.

`NothingLost` follows from `Reading`: a blocking call asks the reader again after
each read, so while a call goes on, and when one has failed with the connection, the
reader has no reply left to give (`Drained`), and it gives none when it is asked
again (`NoneAgain`).

The refinement needs to know which replies the reader will give. `Stream` says
where it stands: there is a chain of states of the loop (`Promise`), one at the
end of each reply the server has sent; the state of the reader, continued with
what is on its way to it, is the one after the replies handed out, and between two
states of the chain the loop delivers the reply to the command in question. That
holds for `Encode` by `AnswersAssumption`, and a read that
brings any part of what is on its way only moves bytes from the network to the
reader (`CutAnywhere`). When the connection is closed or what comes is garbage, the
last state of the chain is one from which no reply ever comes (`Never`).

### ReaderProofs

About operators, for all texts, any depth of the stack and any limits:

| Theorem | States |
|---|---|
| `CutAnywhere` | a reader that is fed a text in two pieces gives the reply, the error and the bytes left over that it gives when fed at once |
| `NoneAgain` | a call of `redisReaderGetReply` that gave no reply gives none when it is repeated, and the error and the unread bytes stay |

`redisReaderGetReply` applies `processItem` until there is a reply, an error or too
little to read. Each step looks at the stack and at what is unread, so the loop
is a chain of such states (`More`, `Stops`). More text changes no step that was
not for want of it (`ItemKinds`), so with more text the loop comes to where it
waited and goes on from there (`Same`, `Fates`). That is by induction on the length of what is
unread, and since the induction theorems of the library
cannot be used, by the least element of a set of numbers (`Least`, from
`WFMin` and `NatLessThanWellFounded`): the set of lengths for which the claim fails has
none.

### DiscoveryProofs

For every number of servers, of slots and of changes, and every content the
servers may have:

| Theorem | States |
|---|---|
| `DiscoveryInvariant` | `[]Inv` |
| `HandedConnectionsServe` | `[]HandedServes` |
| `NoConnectionLost` | `[]NoneLost` |
| `SteadyServersAreReached` | `[]SteadyObtains` |

`Aims` says that what is still to be opened was on offer in a state of the servers
that the call has seen; `Balanced`, that the objects made and not deleted are
those of the result and the one of the query. `SteadyObtains` needs to know how
far a call has come at every step (`Far`); that some state of the servers
disturbs the call only gets truer as `seen` grows, so a change of the servers can
falsify `Far` only where nothing is claimed (`Progress`).

### AsyncContextProofs

For every number of commands and messages, and SUBSCRIBE of any channels in any
grouping:

| Theorem | States |
|---|---|
| `AsyncInvariant` | `[]Inv` |
| `CallbackOnceHolds` | `[]CallbackOnce`; only that no callback runs twice, once a send has failed without an error |
| `RepliesMatchedHolds` | `[]RepliesMatched`, unless a plain command was issued while subscribed |
| `AssertsHoldAlways` | `[]AssertsHold`, with the same exception, and that of a send that failed without an error |
| `SubsTrackedHolds` | `[]SubsTracked`, unless `odd` |
| `NeverStrandedHolds` | `[]NeverStranded`; a context that may not free itself may leave the loop when a send has failed without an error |

While the connection lives its state is a conversation: the replies that the
library has yet to process, in its reader or on their way (`Stream`), and the
commands that the server has yet to answer, on their way or in the output buffer
(`Unsent`). Everything the callbacks wait for is compared with these two, by the
positions in them of what is of a kind (`At`, `Num`).

- *Plain commands.* As many callbacks wait as replies will come (`Counted`), in
  the same order (`InOrder`), and whatever comes about a channel comes when no
  plain callback is left before it (`PlainFirst`); that is why
  `redisProcessCallbacks` finds the right callback, and why its assertion
  holds. What is due waits in exactly one place of one list (`Await`), and an
  abort or a free runs both lists empty.
- *Subscriptions.* For each channel what the server has joined, the
  confirmations in `Stream` and the commands in `Unsent` alternate (`Heard`, `Meant`), and
  `pending_subs` is the number of confirmations to come (`Tracked`). A channel that is
  known is joined, or will be, or a confirmation that it is left is still
  to come. `Rest` says the same of the confirmation that counts other channels left:
  one of these is known until then, so that `SUBSCRIBED` is cleared with the
  last one and no sooner.
- *Handlers.* `Phase` says what holds of the flags at each place of the
  handlers and in a callback called from there, `Registered` that the event loop
  waits for the write or the read that is to come.
- `Past` is what is never undone. With a monitor the properties say nothing,
  for its callback is pushed again after each line; `Inv` keeps `Shape` there.

The steps are proved about arbitrary sequences and sets first (what becomes of
`Heard` when the first reply goes, when the server answers, when a command is
added), and the actions only say which of these they are.

### DataProofs

For all texts and keys, any hash, any widths of the headers and of `long long`,
any lengths:

| Theorem | States |
|---|---|
| `StringsSound` | `[]SdsSound` |
| `NumbersAreCanonical` | `[]NumbersCanonical` |
| `CommandsReadBack` | what the functions that write commands write is read back as the arguments, and its length is as announced |
| `DictIsTheMap` | `[]DictIsMap` |

- *Strings.* The inductive invariant is `IsText(s, text)`, and that the text is no
  longer than the bound: the memory is as large as the header says and holds
  the text with a terminator behind it, and the length of the header is that of the
  text. Each operation turns a string that stands for a text into one that
  stands for the text it should be, through a change of header where it needs
  one. `sdscatfmt` appends piece by piece without a terminator, so there the
  steps keep only `Counted`, and the end writes it.
- *Numerals.* `Numeral(n)` is the text of a number. What `sdsll2str` writes, digits
  first and reversed at the end, is this text (`WrittenIs`), and reading it
  gives the number back (`WriteThenRead`, and `ReadThenWrite` the other way round), up to
  both ends of `long long` and by induction on the digits.
- *Commands.* For arguments of any bytes, as many and as long as a reader can take
  (`Takeable`, its limits of elements and of memory; its stack must hold more than one
  task). On the wire from an argument on there is its line, the argument and
  the rest (`Rest`), which is what `MultiBulk` concatenates. The reader takes one line and
  begins an array (`ArrayItem`), then one argument after another (`BulkItem`): after i of
  them its stack, its reply and what is unread are those of `Reached(argv, W, i)`. That
  no byte of an argument is taken for the end of it rests on the length in front,
  which is read back as it was written (`WriteThenRead`). `totlen` counts the same text,
  since `countDigits`, four digits at a time, is the length of a numeral (`CountIs`). For
  `redisFormatCommand` the theorem begins with the arguments that the format was
  found to have.
- *Tables.* `map` stands for a finite set of entries, and `Full` says that the chains
  hold exactly these, each once and in the chain of its hash, with `used`
  counting them. One lemma for each operation says what becomes of the entries, whatever
  they are: for growth (`Expanded`), `_dictNextPower` ends, at a size that is large enough, and
  the moves take one entry after another to its new chain. For an iteration
  (`Iterating`), what was returned is what is not ahead of the iterator, and the
  chains after it are untouched, also when the entry just returned is deleted.

Recursive functions (`_dictNextPower`, `sdscatfmt`, the chains of moves) are shown to
exist before they are used: a function on the numbers up to `n` that satisfies
the recursion, by induction on `n`.

### Model-checked only

- All liveness (`ReturnedErased`, `JoinReturns`, `CallReturns`), which is out of
  the prover's reach, and the properties that the code violates.
- `CrcCorrect` and `TagDecides`, since `HashSlot` uses `Bitwise`, which the prover
  cannot read.
- `FormatSound`, for what `redisvFormatCommand` makes of a format (that the command it
  then writes is read back is proved), and `SplitsBack`, the quoting and
  splitting of arguments: folds over a text with a state machine of their own, for
  which TLC goes through all texts up to the bound.

## Not modelled

- The deprecated pool, the null mutex, `CTaskHolder::remove` and
  `CConnection::setTimeout`, which nothing in the repository uses.
- The TLS layer of hiredis, its platform layer, adapters, examples and tests.
- In hiredis: allocations that fail, `redisEnableKeepAlive`, `sdscatvprintf`,
  `sdscmp`, the text of error messages, and conversions of `printf` themselves.
- A SUBSCRIBE that names a channel twice (`AsyncAssumption`).
- The copy of a `redisReply` into a `CReply`, and replies of sentinels and nodes
  with missing fields.
- Data races on `terminate_` and `lstReturnedId_`, as far as torn or hoisted reads go.
- What the callbacks of commands do, except that they may use a runner; in
  `AsyncContext` they may do what the caller may.

## Plan

Done: every module above, and the theorems of `ConnectionPool`, `TaskHolder`,
`Runner`, `Context`, `ReplyReader`, `Discovery`, `AsyncContext`, `Sds`, `Commands` and
`Dict`. To come: `RunnerPool`, runners over the
pool, with leases returned and taken again between commands, in place of the free
choice of a connection in `Runner`.
