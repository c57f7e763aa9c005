# RediCraft in TLA+

A model of RediCraft, a small Redis-like server in C++ (`RediCraft-Server`) with
a Java client for Minecraft plugins (`RediCraft-API`).  The modules describe what
the code does at the commit they sit beside.  Where code and documentation
disagree, the modules follow the code and a run shows the difference.

1. The system and its components
2. The modules
3. What the runs check, with which bounds, and what they show
4. Fairness
5. What is proved, and how
6. What is only model-checked
7. What is not modelled
8. Findings
9. Plan

## 1. The system

A plugin calls a method of `RedicraftClient`, usually on a connection it took
from a `ConnectionPool`. The client prints one line of text to a socket. On the
server, threads that run one `io_context` (`main.cpp:62-75`) execute the read
handler of that connection's `Session`, which parses the bytes, calls a method of
the one `Storage` all sessions share, and writes the answer back as lines. The
client reads them. If the configuration asks for it, `main.cpp:28-50` also has
the server create a `ReplicationManager` and a `ClusterManager`, which have threads
of their own and meet other servers. A `PersistenceManager` is created by no
program of the repository; it is modelled the way its interface asks to be used.

| Component | State | Operations | Talks to |
|---|---|---|---|
| Storage (`storage.cpp/.h`) | four maps, each key to an item with an optional deadline; one `std::shared_mutex` per map | set, get, incr, decr, incrby; hset, hget, hgetall; lpush, rpop, lrange; sadd, srem, sismember, smembers, scard; expire, ttl, ping; the internal `remove_expired` | called by all sessions at once |
| Session and parser (`session.cpp`, `parser.cpp`) | buffer of 1024 bytes, `response_` | read handler, `handle_command`, write handler | Storage; the socket |
| Server and main (`server.cpp`, `main.cpp`) | acceptor, switches for the command groups | accept loop, thread start | creates sessions |
| Java client (`RedicraftClient.java`) | socket, writer, reader | one method per command, `...Async` variants on the common executor, close | Session |
| Connection pool (`ConnectionPool.java`) | semaphore, queue, counter | getConnection, returnConnection, closeAllConnections, two getters | creates and closes clients |
| Plugin examples (`minecraft/*.java`) | a pool, a scheduler | money commands: read a balance, pay, total | pool and client |
| Persistence (`persistence.cpp`) | file name, save interval, a thread | load, save, save in the background, snapshot | reads Storage without its locks |
| Replication (`replication.cpp`) | role, sockets, list of slaves, threads | start and stop of master and slave, send, receive, reconnect | logs the commands it receives |
| Cluster (`cluster.cpp`) | table of nodes with health and slots | add, remove, ping, route | TCP to other nodes |
| Configuration (`config.cpp`) | a record | load, save | a file; read by main |
| Benchmark, build files | none | | |

What is hard about each, and what would make it correct:

* **Storage.** Concurrency: a call locks its own ("home") map and then
  `remove_expired` locks all four in turn, its home map again included; to erase
  it gives up a shared hold by a bare `unlock()`, takes an exclusive one and
  erases by the iterator it had. It would be correct if exclusive access were
  exclusive, if all locks were released on all paths, if calls came back, if
  nothing but expired items were swept away, and if clients could not tell when
  the sweeping happens. Expiry: every call but `expire` and `ttl` sweeps first.
  Numbers: 64-bit counters, deadlines, positions from either end of a list.
* **Session, parser, client.** There is no framing: one read is one command and a
  reply of several lines has no end. Nothing numbers requests. Correct would be:
  every call gets the reply to its own request, its command runs once and as
  sent, and it returns.
* **Pool.** Three thread-safe objects, updated one after the other without a lock.
  Correct would be: a connection has one user, no more than `maxConnections` are
  open, permits neither vanish nor multiply, `getConnection` returns.
* **Persistence.** The file is rewritten in place while the clients go on; the
  process may end at any moment; a save that takes too long is left running and
  the next one opens the same file. Correct would be: what is loaded is what one
  save copied, saves take turns, and as long as the loop runs the file gets true
  again. (A load loses deadlines and three of the four types, and splits a line at
  its first `=`, so a key with an `=` comes back as another key. That is what the
  code does, and the model has it.)
* **Replication.** Flags cleared by one thread and looked at by another that then
  blocks; sockets closed under a thread that is in a call on them; a role switched
  without stopping the other. Correct would be: a stop returns, and what it joins and
  closes is gone then; a slave that is let run is served; no sequence of calls ends
  the process. (Detached handlers, and the threads of a role the server was given
  before, outlive a stop in the code and in the model.)
* **Cluster.** The same listener; a lock held across the network calls of a whole
  round of pings; health written by pings that cross starts and stops. Correct
  would be: every list gets true and stays so, the lock is free again and again,
  the calls return.
* **Plugin examples.** `/pay` reads, decides and pays in separate commands, over a
  connection that may be broken; nothing refuses a negative amount. Correct would be:
  money is made or lost only by a payment that fails, and the player is told; an
  overdraft by the payments that were checked has a bound; the answer is what
  happened.

`PROJECT.json` lists these hazards one by one, each at its line, with the
properties that watch it or a note saying why none does yet.

## 2. The modules

| Module | Models | Its state stands for |
|---|---|---|
| `StorageLocks` | the locking of every Storage call | `op`, `stage`, `at`: program counter of each server thread; `writer`, `readers`: the four mutexes; `items`: for each map and key whether there is an item and whether its deadline is none, to come or passed; `terminated`: `std::terminate` |
| `StoreCommands` | the bodies of the calls, as functions on the *cell* of a key (what the four maps hold under it) | no state |
| `ExpiringStore` | abstract: the store a client is promised; items vanish at their deadline | `live`, `now`, `reply` |
| `Storage` | the store as it is: expired items stay until a call meets them | `data` the maps, `now` the steady clock, `reply`, `last` the last call |
| `ConnectionPool` | the pool, one action per touch of semaphore, queue, counter or socket | `permits`, `pooled`, `current` the three objects; `open` connected sockets; `at`, `mine`, `seen` the threads' program counters and locals |
| `Wire` | one client and its session on one TCP connection | `calls` the client's calls and their fate; `upstream`, `downstream` the two directions; `session`, `response` the handler pending and `response_`; `up` |
| `RemoteCall` | abstract: a call as its caller may take it: run at most once; answered, or refused by an error, by its own reply after it was run; without a reply only over a broken connection | `fate` of the calls, `sound` |
| `Payments` | the money commands of the asynchronous plugin, on threads that take connections from the pool | `record`, `money` the store; `at`, `job`, `conn`, `read` the threads; `broken` connections; `answer`, `moves`, `minted`, `debt`, `failed` what happened; `commands` a bound |
| `Persistence` | the loop of saves, the saves, the file, the end of the process and the next one | `strings`, `now` the store; `program`, `loop`, `awaited` the loop; `stage`, `snap`, `todo`, `line`, `late` the saves; `file` its lines; `source`, `mixed` which save it should hold |
| `Replication` | the replication managers of several servers | `enabled`, `role`, `call` the user's thread; `running`, `acceptor`, `accepter` the masters; `connected`, `puller`, `isOpen` the slaves; `link`, `strays`, `unclaimed` the connections; `dead`, `raced` |
| `Cluster` | the cluster managers of several servers | the same for the listener; `nodes` the lists with their health; `discovering`, `pinger`, `turn` the rounds of pings; `queue`, `link` the connections |
| `MC...` | small sets and symmetry for TLC | |
| `...Proofs` | theorems about the module they are named after | |

`Storage` and `ExpiringStore` both extend `StoreCommands`; `Storage` instantiates
`ExpiringStore` with the refinement mapping *live[k] = the cell of k without its
expired items*, `Wire` instantiates `RemoteCall` with *fate[n] = whether the command of
call n was run, and how the call ended* (`Fate`). `StorageLocks` and `Storage` are two views of one class: the
first has the steps of a call and hardly any data, the second all of the data and
one step per call. What ties them is stated in section 3: which runtime lets a
body run at all. `Payments` stands on what the others show: a connection is in one
thread's hands and there are at most `maxConnections` (`OneHolder`, `AtMostMax`), and
each call over it is a remote call (`ImplementsRemoteCall`): the steps `Answered`,
`Breaks` and `Unheard` of `Payments` are the ways a call of `RemoteCall` can go.

Correspondence with the code, in short (`PROJECT.json` has every line):

* `StorageLocks`: `EnterExclusive`/`GrantExclusive` are a `std::unique_lock` (a
  writer first claims the lock, then waits for the readers inside), `ShareHome`
  the `shared_lock` of a lookup, `ShareScan`/`TestKeeps` one block of
  `remove_expired`, `TestExpired`, `Upgrade`, `Erase` its branch for an expired
  item, `RelockThrows` the exception libstdc++ raises when a thread asks for a
  lock it holds exclusively, with the unwinding up to the handler in
  `session.cpp:105` or the end of the process, `ExpireSets`/`ExpireSkips` the
  blocks of `expire`, `MutatorBody`/`LookupBody` the rest of a call.
* `Storage`: one action per method, `Sweep` applied first where the method begins
  with `remove_expired`.
* `ConnectionPool`: `Acquire`, `Wait`, `GiveUp`, `PollFinds`, `PollFindsNone`,
  `Connect`, `ConnectFails`, `CountUp` are `getConnection` line by line; `Offer`,
  `Release` are `returnConnection`; `Drain`, `Drained`, `ResetCount`, `Measure`,
  `Refill` are `closeAllConnections`, whose last line reads the permits and adds
  to them in two steps.
* `Wire`: `Handle` is the read handler (what one read returned is one command),
  `Written` the write handler, `Call` a method up to its `println`,
  `ReadLine`/`ReadEnd` its `readLine`, `Drop` a connection that breaks. Where a method
  wants a number, the line it reads may be none (`"refused"`: an `IOException` over a
  sound connection), and `AfterLine` has both.
* `Payments`: one action per call of the client (`Show`, `Write`, `ReadFrom`,
  `ReadTo`, `Debit`, `Credit`), with the comparison of balance and amount in `Decide`;
  `Take` is `getConnection`, `Finish` the answer to the player and the `finally` that
  returns the connection. Each call is `Answered`, or its connection `Breaks`, with
  the command executed or not, or was broken before.
* `Persistence`: `Launch`, `Ready`, `TimesOut`, `LoopEnds` are the loop of
  `startAutoPersistence`, `StopAuto` and `Joined` its stop; `Copy` is
  `createSnapshot`, one string at a time because nothing locks the map; `Open`,
  `WriteHeader`, `WriteString`, `WriteRest` are `saveToFile`; `Crash` keeps what was
  written, the last line perhaps in part; `Loaded` is `loadFromFile`, which `Boot`
  runs unless the file does not open. What the line of a key and a value reads back
  as is the constant `Reads`: the same pair, unless the key has an `=` in it.
* `Replication`: `Enable...`, `StartMaster`, `StartSlave`, `StopMaster`, `StopSlave`
  and the steps `CloseAcceptor`, `CloseSocket`, `Join` are the user's thread in
  `enableReplication` and `disableReplication`; `Listen`, `AcceptTurn`, `Accept` the
  accept thread; `Greet`, `Leave`, `StrayLeaves` the detached handlers; `PullTurn`,
  `Dial`, `DialFails`, `Look`, `ReadSome`, `ReadEnd`, `Rested` the slave's thread.
* `Cluster`: `Enable`, `Disable`, `CloseAcceptor`, `StopDiscovery`, `JoinPinger` are
  `enableClustering` and `disableClustering`; `AddNode`, `RemoveNode` the changes of
  the list; `AcceptTurn`, `Accept`, `Answer`, `Refuse` the listener; `Round`, `Dial`,
  `DialFails`, `Receive`, `RoundEnds` the discovery thread in `pingNodes`.

Variables that only properties look at (`last`, `minted`, `debt`, `failed`, `source`, `mixed`,
`raced`) are named as such in each module.

Operators named `X_Something` under a comment "Mutant" are variants of `X` with a
bug somebody could have made. No specification uses them: with one of them in the
place of `X`, TLC finds the property violated that `PROJECT.json` lists with it.

### What a server thread's library does with locks

The C++ standard leaves it undefined that a thread requests a
`std::shared_mutex` it holds. `StorageLocks` therefore has a constant `Runtime`
with what builds of this code do: `"glibc"` (libstdc++ on pthreads: requesting
shared what one holds exclusively throws, readers are let in past waiting
writers), `"fair"` (libc++: the request blocks, waiting writers keep
new readers out) and `"elided"` (libstdc++ in a process without the thread
library, where lock calls do nothing; one thread only, by assumption).

### What a server does with a socket that is closed while in use

`stopMaster`, `stopSlave` and `stopCluster` close a socket on which another thread may
be blocked. Whether that wakes the thread is the platform's: it does on Windows; on
Linux the blocked call goes on, and the port or connection with it, until it
returns by itself. `Replication` and `Cluster` have a constant `CloseWakes` for it; the
runs take the harder case, the proofs both.

## 3. The runs

| Run | Question | Bounds | Result |
|---|---|---|---|
| `LocksGlibc` | Do calls exclude each other, release their locks, never wait in a ring, and come back? | 3 threads, 1 key, 7 calls | holds; EXPIRE and the mutators come back if readers do not take turns for ever |
| `LocksElided` | Where expired items are swept, is it only those and all of those? | 1 thread, 1 key, all 18 data calls | holds |
| `LocksGlibcSurvives` | Does the server survive legal commands? | 2 threads | **violated**, finding 1 |
| `StorageCareful` | Is lazy expiry invisible? Are deadlines kept, list positions right, values of their type? | 1 key, time 1..3, at most two types under the key, lists up to 2 | holds for careful clients |
| `PoolQuiet` | Is no connection shared, are permits and sockets bounded, does the count agree, does `getConnection` return? | 3 threads, maximum 2, 3 names, connecting may fail | holds if closed only while unused |
| `WirePooled` | Does each call get its own reply, is it a remote call, does it return, over a connection that may break? | 2 callers in turn, 4 calls, requests within one read | holds |
| `WireMembers` | Do `smembers` and `hgetAll` return? | 1 caller, 2 calls, up to 2 members | **violated**, finding 2 |
| `Payments` | How far can payments overdraw, is money kept, are the answers true? | 2 players, 2 threads, 2 connections that may break, amounts -1 and 2, 5 commands | holds |
| `PayBrokenShown` | Does `/money` show 0 only to players without a record? | same | **violated**, finding 3 |
| `PersistenceLoop` | Do saves take turns, does what is loaded come from one save, does the file get true again? | 2 keys that read back as one, 2 values, 2 saves, 2 changes, time 0..2, 1 timeout, 1 end of the process | holds |
| `Replication` | Does a stop return, with what it joins and closes gone, is a slave served, what can end a process? | a master and a server that is made slave and master in turn, 3 enables each | holds for a patient user |
| `Cluster` | Do the lists get true, is their lock free again and again, do the calls return? | 2 servers, 3 enables, 2 changes of the lists, 1 fault | holds if no node is mute |

**Why the bounds are enough to be interesting.**

* *Locks.* Keys meet only in the maps' locks, so one key and several threads
  exercise all contention. Three threads are a writer waiting, a reader inside
  and a third that comes between. The 7 calls of `LocksGlibc` have one per
  locking pattern (exclusive or shared home lock, walker) and per home map,
  `incrby` because of its handler. With one thread (`LocksElided`) all calls run.
* *Store.* One key, since every call touches only the cell of its key; the proofs
  cover any number. One text that is a number and one that is not decide every
  branch of the counter calls. `HalfRange = 2` and `HalfTime = 4` make counters
  and deadlines wrap within a few steps; one tick of time past a deadline is
  enough to expire. Two types under one key are needed for "the first type that
  has it"; a third adds nothing that two positions in the order do not.
* *Pool.* More threads than permits, more names than permits; a waiter, a holder
  and a closer at once. Threads and connections are interchangeable.
* *Wire.* Four calls allow a reply that comes one late to be taken by the next
  call but one.
* *Payments.* Two threads with a connection each reach the bound of the overdraft;
  an amount of 2 reaches the bound exactly, one of -1 passes every check and turns
  debit and credit around. A setting that is not a number reaches the branches for
  it. `MaxCommands = 5` bounds the commands that may change a balance (`/setmoney` and
  `/pay`; `/money` is free): one `/setmoney` and four payments, twice
  as many as can be under way at once. The theorem covers any number of everything.
* *Persistence.* Two saves at once is what one timeout gives; two keys make a file
  that can mix lines of two saves, or lack one. The keys are `a` and `a=b`
  (`FirstEquals`), so that both lines are loaded as `a` and the later one counts. The
  end of the process may fall between any two lines and inside one.
* *Replication.* Three enables are a role, the other one and the first again. The
  host may refuse a connection at any time by being stopped.
* *Cluster.* Each server may list itself and the other, twice if it is added twice;
  three enables over both servers let one be stopped and started again while the other
  pings it. One fault is one verdict that is wrong for no reason of either server.

**What they show.** `LocksGlibc` and its proof say more than they seem to: on
Linux with working threads `StoreStaysEmpty` holds because no mutating call ever
gets past its own `remove_expired`. Reading a store nothing was put into is
what remains, and that works. `LocksElided`, `Storage`, `Payments` and `Persistence`
describe the class `Storage` where its bodies do run: a program that uses it on one
thread without linking the thread library, or a runtime on which a second
request for a held lock happens to be harmless. The server and the benchmark link
`Threads::Threads`, and `main` starts threads at once, so they are not such programs
on libstdc++; what these modules say of the commands is what the code does
as soon as its locking lets it.

*Careful clients* (`Clients = "careful"` in `Storage`) do not send EXPIRE to a key
with an expired item not yet swept, nor TTL to one where an expired item hides
another type. These are exactly the cases in which the calls without
`remove_expired` differ from the promise.
The refinement is checked with the code's own answers for everything else,
surprising ones included: `sadd` to a new set counts a member given twice twice,
`rpop` leaves an empty list (TTL answers -1, not -2), `lrange` moves positions
beyond either end to the nearest element, a negative number of seconds that leads
below the clock's epoch never expires, TTL rounds to zero. The abstract store
has these too, by sharing `StoreCommands`: it is a specification of *expiry*, not
of the single commands.

`PoolQuiet`'s condition, `Closing = "quiet"`, is a plugin that calls `close()` when
none of its tasks is running or started meanwhile. What holds without it
(`OneHolder`) is proved without it.

`WirePooled` has `Shared = FALSE`, the way the pool hands clients out (see
`OneHolder`), and `MaxPieces = 1`, requests that fit the session's 1024 bytes and
arrive in one segment.

`LocksGlibc` has two statements on liveness in `CallsComeBack`. A lookup or TTL comes
back whatever the others do. EXPIRE and the mutators want a lock for themselves, and
libstdc++ lets readers in past a waiting writer: two threads whose lookups always
overlap keep a third out of the map for ever. They come back if every map is free of
readers again and again (`NoReaders`); without that premise `CallsReturn` is violated.

`Payments` shows that `/pay` can overdraw, and by how much: with `n` connections,
`n - 1` amounts at most, because the payments that were let through by the same
money must all be under way at once. Payments of negative amounts are not checked
against the balance of the one they take from: `/pay a b -5` passes, whatever `b`
has. What they and `/setmoney` put below zero has no bound, and the bound is on top of
it (`debt`). It shows that a payment may lose money, or make some, and that the player
is told: `MoneyKept` is an equation as long as no INCRBY of a payment has failed. One
that fails in a payment of a positive amount loses what was debited, and in one of a
negative amount keeps what was given to the sender and not taken from the recipient;
so `Total + Owed` is never above `minted` unless the second kind failed, and never
below unless the first did.

`PersistenceLoop` leaves out what would make its file false for other reasons:
`Odd = {}` says that no line of a string reads like the header of a section. With an
odd pair (a key that begins with `[` and a value that ends in `]`) strings after it
are not loaded, and `FileIsOneSave` fails. What a line reads back as is *not* left out:
`FileIsOneSave` and `EventuallySaved` say that what is loaded are the lines of one save,
or of the store, *as they read back* (`ReadsAs`), and a key with an `=` may take another
key's place. With `Deadlines = {-1}`, a deadline before
the clock's epoch, the store keeps the string for ever and the save leaves it
out, and `EventuallySaved` fails.

`Replication` assumes a *patient* user, who leaves a second between two calls.
`Patient = FALSE` violates `DiesOnlyByRace`: a stop right after a start closes the
acceptor before `listen()` (`replication.cpp:160`, outside of the `try`), and the
process ends. What can still end it for a patient user is the case the
property names: `stopSlave` closes the socket while the thread dials, `connect`
opens it again, and the next `startSlave` destroys it after its `io_context`.

`Cluster` with `Mute = {b}`, a node that accepts connections and never answers,
violates `CallsReturn`: `pingNodes` (`cluster.cpp:219`) waits for it with the lock
held. Both modules also pass with `CloseWakes = TRUE`.

`CHECK_DEADLOCK FALSE` stands where the system may stop: the process may have
terminated, time and calls are bounded, clients need not do anything.

## 4. Fairness

* `StorageLocks`: strong fairness of each thread's steps. A thread inside a call is
  run by the operating system, and a lock that is released again and again is not
  withheld from a waiter for ever. It does not help a writer past readers that
  overlap: `CallsComeBack` is unconditional for lookups and TTL only. No client has to
  call.
* `ConnectionPool`: weak fairness of `getConnection`, `release` and
  `closeAllConnections`. Within it `GiveUp` is the five-second timeout, so the
  wait ends even if no permit is ever released. Nobody is forced to return a
  connection.
* `Wire`: weak fairness of the two handlers and of each reading thread. TCP keeps
  order and delivers unless the connection breaks. It need not break.
* `Persistence`: weak fairness of the loop, of each save, of the end of the stop and of
  the clock: threads run and time passes. Strong fairness of opening the file:
  it may fail, but not each time. Saves may take longer than 30 seconds, the clients
  change the store and the process ends only boundedly often, so that "again and
  again" is about what follows.
* `Replication`: weak fairness of every thread and of a stop that has begun; strong
  fairness of `Dial`: a port that is there again and again is reached once.
  Nobody has to enable or disable anything.
* `Cluster`: weak fairness of every thread and of `disableClustering` once begun. Calls,
  changes and faults are bounded, and nobody has to make one.

`Payments` states safety only. Safety is checked under the plain specifications'
steps in the same runs.

## 5. What is proved

All proofs are checked by the TLA+ proof system, for all values of the constants
allowed by the modules' named assumptions.

**`StorageLocksProofs`** (assumes `ThreadsAssumption`, `RuntimeAssumption`,
`CallsAssumption`). Theorem `Invariant` establishes a strengthening of the type
invariant with these parts:

* `StageFits`: which calls can be at which stage, and where a call holds its home
  lock;
* `LocksFit`: with real locks, exactly which holds each thread has at its stage,
  a mutator has not come past its home map, and a thread that works under
  an exclusive lock has no readers besides it;
* `ElidedIdle`: with elided locks no hold is recorded;
* `FoundExpired`: what is about to be erased has expired;
* `ScannedClean`: what had expired when the call began is gone from maps already
  scanned and still expired in the others;
* `StoreStaysEmpty` itself, since `LocksFit` rests on no expired item being found.

None of the safety properties is inductive alone: `ExclusiveIsAlone` needs to know
who holds what at every other stage, `NoCircularWait` how far a call that holds one lock
can have come. From the invariant follow `TypeCorrect`, `Exclusion`, `Released`, `NoRing`,
`NothingIsStored`, `CleanBody` and the action property `VanishByExpiry`. `NoRing` is about
any number of threads. Nothing orders the maps, so the argument is about who can wait
at all: a thread that others wait for and that waits itself is at its `remove_expired`,
and the one it waits for, if that waits too, looks at a map *before* the one the first
looks at (`WaitsDown`). Around a ring the map would come ever earlier, and there are four.

**`StorageProofs`** (assumes `CommandsAssumption`, `StorageAssumption`). One lemma
per body says that it leaves a well-formed cell, wrapped arithmetic included
(`WrapSigned`); `TypeCorrect` follows. `LazyIsEager` proves the refinement for careful
clients: initial states map to initial states (`InitRefines`), a call on the lazy
maps maps to the same call with the same answer (`CallRefines`), a tick to a tick
(`TickRefines`, by `SweepTwice`: removing what has expired now and again later is
removing it later). The difficult case is TTL, which removes at most one expired item
and answers for the first type it finds (`TtlAgrees`). `RangesAreSlices` is about the
two clamped positions of `lrange`, for lists of any length. `DeadlinesStay` says that no
call but EXPIRE moves a deadline: one lemma per body (`StoreKeeps`, `PutKeepsOthers`
and so on) says what it keeps, `CallKeeps` puts them together.

**`ConnectionPoolProofs`** (assumes `PoolAssumption`). Counting arguments with finite
sets. The invariant is the types, `OneHolder` and `Accounted` (each open connection
waits in the queue or is worked with, once) for every use of the pool, and, unless
it is closed in use, `PermitsKept` (permits free and held, sockets open and being
opened), `CloserAlone`, `CloserSees` (what the closer left behind is what it finds)
and `Counted`. The step that opens a socket needs all of `PermitsKept`:
a thread that found the queue empty may connect much later, and only its
permit guarantees that there is room. From it: `TypeCorrect`, `NeverShared`, `PermitsAccounted`,
`SocketsBounded`, `CountIsTrue` and the action property `ClosingRefills`.

**`WireProofs`** (assumes `WireAssumption`). The types hold for clients of every kind
(`TypeCorrect`). For a pooled client (`Pooled`: used by one thread at a time, requests
in one piece) the strengthening `Together` says three things. The last call's request
is upstream, or its reply is in `response`, or downstream, and only in one of them
(`OnePlace`). Only the last call can be under way, none was run twice or as
something else, each has heard its own reply only, and one that was answered was run
(`Fates`). All lines anywhere are
lines of the reply to the last call (`Answers`). From it, for any number of calls and a
connection that breaks anywhere: `RepliesStay`, `StaysInStep`, and the refinement
`CallsAreRemote`: `Handle` maps to `Run`, `Call` to `Ask`, the last line read to
`Answer` or, where it is not the number wanted, to `Refuse`, the end of the stream to `GiveUp`, `Drop` to `Break`, all other steps change
nothing a caller could tell. `Together` excludes that a fate is ever `"wrongly"` or
`"misled"` (`NobodyMisled`), which no step of `RemoteCall` allows. `InStep` alone is not
inductive, since it says nothing of a call under way.

**`PaymentsProofs`** (assumes `PaymentsAssumption`). `AnswersTrue` needs how many INCRBYs
a payment has made at each stage (`StageFits`). `OverdraftIsBounded` is the harder
one. The bound itself is not inductive: it must be known what the payments already let
through, and not yet made, can still take. `Approved(p)` are those payments, of positive
amounts (others take nothing from the one who pays); the invariant `Covered` says that
the `Funds` of `p`, his money and the debt that checked payments are not to blame for,
are enough for one of them, less one amount for each connection that is *not* in their
hands. A debit takes its payment
out of `Approved`, so one connection more may have been paid for; a payment that
is let through by the money there is finds the money covers it in full.
`MoneyIsKept`, for any finite number of players, is about two sums: the records
(`Total`) and the payments debited and not yet credited (`Owed`). The invariant is
`Balanced`, which says of them what `MoneyKept` says, one inequation for each sign of a
failed payment. A step changes one summand or moves a payment in or out
of the second sum; that a sum then changes by just this summand is not immediate, since
the sum takes its elements in an order nobody knows. `SumTakes` shows that it can
be taken from any element first, by the smallest set for which that might fail:
the least number principle stands in for an induction over sets, whose
library theorem takes an operator as a parameter.

**`PersistenceProofs`** (assumes `PersistenceAssumption`). `Inv` is the types and `InTurn`: a
save that is in time is the one the loop waits for. `TypeCorrect` and `Turns` follow.
`FileInv` relates the file to the save being written: no save has a line to come
unless it is at its writing (`FirstLine`), and, as long as saves did not overlap, each
line is from the one copy, the strings not yet written are those to be done, and a
complete file has them all (`FileFits`). `OneSave`, for `Odd = {}`, follows because
the last of the lines that read back as a key, which `loadFromFile` takes, exists
(`LastOne`, by well-foundedness of the natural numbers) and is the line of a string of
that copy, or is cut. Nothing is assumed of `Reads` but its type, so the theorem holds
for every way lines may be split.

**`ReplicationProofs`** (assumes `ReplicationAssumption`). One predicate per role of a live
server: `MasterFits` (flag, port and accept thread at each step of the stop), `ListenFits`,
`SlaveFits` (after a socket was closed only a thread that was dialling opens it again),
`UserFits`; and `LinksFit`, what a connection rests on. `TypeCorrect` and `Stopped` hold
for any number of servers and any user; `DeathByRace` for a patient one. `Stopped` is
about what a stop joins and closes, role by role: the accept thread and the port, the
slave's thread and its socket. Detached handlers, and the threads of the role a server
was switched away from, it leaves open, because they do run on.

**`ClusterProofs`** (assumes `ClusterAssumption`). The type invariant of the cluster is
not only types: it says that a round stays within the list it walks, though others
change lists (`RoundFits`), and that the queue of a port has exactly the pings
that wait for it (`QueueFits`, with no ping twice). It needs that a discovery that was
stopped and joined has no thread (`JoinFits`), or `Enable` would start a second one.
`Without`, the list of `removeNode`, is a recursive function; that it yields a list
again is shown for the least length at which it might not.

## 6. What is only model-checked

* Liveness: `CallsComeBack`, `GetReturns`, `SingleLineReturns`, `EventuallySaved`,
  `StopsReturn`, `SlaveServed`, `HealthConverges` and the cluster's `CallsReturn`. Temporal
  reasoning under fairness is out of the prover's reach.
* The violated properties, by their counterexamples.

## 7. What is not modelled

* *Payments.* The commands of the store are atomic here, as in `Storage`. `/givemoney`
  and `/takemoney`, `playerinfo`, the total over all players, and the synchronous
  examples (`MoneyCommandExample`, `MoneyPluginExample`) are left out. Balances and
  amounts are integers of any size; their wrap at 64 bits is left to `StoreCommands`.
* *Persistence.* The snapshot copies maps that other threads change, which is a data
  race: the model has the values each string had when it was copied, not what the
  race may do to the map's memory. Errors of writing are not looked at by the code
  and do not occur in the model. Lines have one length, so that two overlapping
  saves meet line by line. A save that is late outlives its manager's loop in the
  model as in the code; a manager destroyed under it, and a program that calls
  `saveToFile` itself while the loop runs, are left out. Hashes, lists and sets are one
  line of the file; loading skips them.
* *Replication.* The commands a slave receives are only logged, and the snapshot is a
  placeholder, so no data moves. Two servers on Linux that are stopped at once may
  each wait for the other to connect; the user of the model is alone on each
  server and `StopsReturn` names the help it needs. `disableReplication` stops only
  the role set last, `enabled` is true although a start failed, and the detached
  handlers with their sockets outlive `stopMaster` by up to a second, or go on under the
  next one: all of this is in the model, and no property denies it. The default `master_port`, 7379, is the port of
  the clients, where a slave would talk to a `Session`; not modelled.
* *Cluster.* `routeRequest` always returns `localhost:7379` and, like `findNodeForSlot` and
  `calculateHashSlot`, has no caller; a node may be listed twice, and is then
  pinged twice (modelled). Two nodes stopped at once on Linux can leave one waiting for
  a ping for ever, which `CallsReturn` excludes by its premise. The user is taken to be
  as patient as in `Replication`.
* *Configuration*: a sequential parser. `config.cpp:104` compares 11 characters with
  the 12 of `cluster_node`, so such lines are never recognised, and the list of the
  shipped server stays empty; `AddNode` models the interface.
* *Benchmark, build files*: no state. The build decides the `Runtime`.
* *Tokenising and wording.* `Wire` tells calls apart by what the client does with
  the reply. Arguments with blanks or line ends (a blank ends a value: the
  tokeniser splits on it) and the texts of replies and errors are left out.
  `RedicraftClient.close` while a call is pending is left out.
* *Server switches and the accept loop*, which only check flags and create sessions.
* *Data races on plain memory* of the store. With elided locks there is one thread; with
  working locks the proofs say the maps never change.
* *Retained broken connections.* `Payments` has them (`broken`); `ConnectionPool` does not
  tell broken connections from sound ones.

## 8. Findings

Runs that show a property violated which the repository's own text states:

1. A writing command ends the process on libstdc++: `remove_expired` asks for the
   lock its caller holds (`storage.cpp:77`), the exception leaves
   `io_context::run` in a thread without handler. INCRBY alone catches it and
   answers with an error. (`LocksGlibcSurvives`)
2. `smembers` and `hgetAll` wait for an end mark the server never sends.
   (`WireMembers`)
3. `/money` over a connection that broke shows 0 for a player who has money, and the
   pool keeps that connection. (`PayBrokenShown`)

Observations one reproduces by setting constants:

* `Runtime = "fair"`, two threads and the calls GET and EXPIRE: they block each other for
  good (`StorageLocks!CallsReturn` violated).
* `Runtime = "glibc"`, three threads and the calls of `LocksGlibc`: lookups that overlap for
  ever keep EXPIRE waiting for its lock (`CallsReturn` violated, which is why
  `CallsComeBack` has a premise).
* A negative amount in `Amounts`: `/pay` takes from the recipient without looking at his
  balance (`AsyncMoneyPluginExample.java:114-123`). `OverdraftBounded` without `debt`, and
  `MoneyKept` without the sign of what failed, are violated.
* A key with an `=`: it is loaded as the part before it (`persistence.cpp:81-87`), with the
  rest in front of the value. `FileIsOneSave` with the identity in place of `ReadsAs` is
  violated.
* `Clients = "any"`: EXPIRE of an expired key answers 1 and revives the item
  (`Storage!ExpireOfGoneKey` violated).
* `ConnectMayFail = TRUE` with `Closing = "never"`: a failed connect keeps its permit; after
  `maxConnections` failures the pool is unusable (`FullWhenIdle` violated).
* `Closing = "any"`: `closeAllConnections` with connections out gives permits back that are
  held; later the pool opens more than its maximum (`AtMostMax` violated), and with
  more permits than the maximum the next `closeAllConnections` throws
  `IllegalArgumentException`.
* `Shared = TRUE`, or `MaxPieces` above 1: requests that arrive in one read are run as one
  command with one reply, one that arrives in two reads is run as two
  (`SingleLineReturns` violated); the documented pipelining never completes.
* `Patient = FALSE`, `Mute`, `Odd`, `Deadlines`: see section 3.

## 9. Plan

Done: the locking of Storage, its commands and expiry, the pool, one connection,
payments, persistence, replication, the cluster; each with its proofs.

Left, in this order:

1. Broken connections in the pool: an abstract pool that hands a connection to one thread
   at a time, implemented by `ConnectionPool`, and `Payments` on top of it and `RemoteCall`.
2. A theorem that relates `StorageLocks`, with elided locks, to the atomic calls of
   `Storage`.
3. The accept loop, the server's switches and `stop()`, should something come to call it.
4. Several replication ports, so that two servers can be slaves of each other and the
   stop that waits for the other side can be shown to wait for ever.
