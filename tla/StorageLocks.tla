---------------------------- MODULE StorageLocks ----------------------------
(***************************************************************************)
(* The locking protocol of RediCraft-Server/src/storage.cpp.               *)
(*                                                                         *)
(* Storage keeps four maps (strings, hashes, lists, sets), each behind a   *)
(* std::shared_mutex.  A call first locks the map it works on, its home    *)
(* map, and then runs remove_expired, which takes a shared lock of every   *)
(* map in turn, the home map included.  The home lock is therefore         *)
(* requested again by the thread that holds it.  For an exclusive hold     *)
(* the C++ standard leaves this undefined, and what happens depends on the *)
(* library the server is built with:                                       *)
(*                                                                         *)
(*   "glibc"    libstdc++ over pthread_rwlock: the request is answered     *)
(*              with EDEADLK and std::system_error is thrown; readers are  *)
(*              let in while a writer waits;                               *)
(*   "fair"     libc++: the request waits forever; a writer that waits     *)
(*              closes the lock to new readers;                            *)
(*   "elided"   libstdc++ in a process without libpthread: the lock calls  *)
(*              do nothing (only possible with a single thread).           *)
(*                                                                         *)
(* Data is reduced to what the protocol depends on: whether a key is in a  *)
(* map, and whether its deadline has passed.                               *)
(***************************************************************************)
EXTENDS Integers, FiniteSets

CONSTANTS Threads,    \* the threads that run the io_context
          Keys,
          Runtime,    \* "glibc", "fair" or "elided"
          Calls,      \* the Storage calls the clients make
          NoThread, NoKey

Elided == Runtime = "elided"

StringCalls == {"set", "get", "incr", "decr", "incrby"}
HashCalls   == {"hset", "hget", "hgetall"}
ListCalls   == {"lpush", "rpop", "lrange"}
SetCalls    == {"sadd", "srem", "sismember", "smembers", "scard"}

\* remove_expired is called under an exclusive, respectively a shared, home lock.
Mutators == {"set", "incr", "decr", "incrby", "hset", "lpush", "rpop", "sadd", "srem"}
Lookups  == {"get", "hget", "hgetall", "lrange", "sismember", "smembers", "scard"}
\* expire and ttl have no home map: they lock the four maps one after the other.
Walkers  == {"expire", "ttl"}

ASSUME ThreadsAssumption == NoThread \notin Threads
ASSUME RuntimeAssumption == /\ Runtime \in {"glibc", "fair", "elided"}
                            /\ Elided => \A s, t \in Threads : s = t
ASSUME CallsAssumption   == Calls \subseteq Mutators \cup Lookups \cup Walkers

\* The maps, numbered in the order in which the code visits them.
Maps == 1..4
Home(c) == CASE c \in StringCalls -> 1
             [] c \in HashCalls   -> 2
             [] c \in ListCalls   -> 3
             [] c \in SetCalls    -> 4
             [] OTHER             -> 1

\* An item without deadline, with one to come, and with one that has passed.
Statuses == {"absent", "live", "timed", "expired"}

Stages == {"idle",
           "enter",      \* waits for an exclusive lock of the map at[t]
           "drain",      \* has closed it to others, waits for its readers to leave
           "share",      \* waits for a shared lock of the home map
           "scan",       \* waits for the shared lock under which at[t] is examined
           "test",       \* holds that lock
           "upgrade",    \* found an expired item, has unlocked, waits for an exclusive lock
           "erase",      \* holds that one
           "body",       \* past remove_expired, holds the home lock
           "touch"}      \* in expire, holds an exclusive lock of at[t]

NoOp == [call |-> "none", key |-> NoKey]
Ops  == [call : Calls, key : Keys]

VARIABLES op,         \* op[t]: the call thread t is in
          stage,      \* stage[t]: how far it has come
          at,         \* at[t]: the map it is about
          writer,     \* writer[m]: who has entered m exclusively
          readers,    \* readers[m][t]: the shared holds of m by t
          items,      \* items[m][k]: the status of k in map m
          dead,       \* dead[t]: the maps where op[t].key had expired when the call began
          terminated  \* std::terminate was called

vars == <<op, stage, at, writer, readers, items, dead, terminated>>

TypeOK ==
    /\ op \in [Threads -> Ops \cup {NoOp}]
    /\ stage \in [Threads -> Stages]
    /\ at \in [Threads -> Maps]
    /\ writer \in [Maps -> Threads \cup {NoThread}]
    /\ readers \in [Maps -> [Threads -> 0..2]]
    /\ items \in [Maps -> [Keys -> Statuses]]
    /\ dead \in [Threads -> SUBSET Maps]
    /\ terminated \in BOOLEAN

Init ==
    /\ op = [t \in Threads |-> NoOp]
    /\ stage = [t \in Threads |-> "idle"]
    /\ at = [t \in Threads |-> 1]
    /\ writer = [m \in Maps |-> NoThread]
    /\ readers = [m \in Maps |-> [t \in Threads |-> 0]]
    /\ items = [m \in Maps |-> [k \in Keys |-> "absent"]]
    /\ dead = [t \in Threads |-> {}]
    /\ terminated = FALSE

-----------------------------------------------------------------------------
(* The four std::shared_mutex.  With elided locks nothing is recorded.     *)

SetWriter(m, w) == writer' = IF Elided THEN writer ELSE [writer EXCEPT ![m] = w]
AddReader(m, t, d) ==
    readers' = IF Elided THEN readers ELSE [readers EXCEPT ![m][t] = @ + d]

NoReaders(m) == \A t \in Threads : readers[m][t] = 0
MayShare(m)  == writer[m] = NoThread
MayEnter(m)  == writer[m] = NoThread /\ (Runtime = "glibc" => NoReaders(m))

-----------------------------------------------------------------------------
(* Steps of a thread.                                                      *)

Goto(t, s, m) ==
    /\ stage' = [stage EXCEPT ![t] = s]
    /\ at' = [at EXCEPT ![t] = m]

\* The call returns to Session::handle_command.
Return(t) ==
    /\ Goto(t, "idle", 1)
    /\ op' = [op EXCEPT ![t] = NoOp]
    /\ dead' = [dead EXCEPT ![t] = {}]

\* The first lock of a call: none yet for ttl, which begins with the scan.
FirstStage(c) == CASE c \in Mutators \cup {"expire"} -> "enter"
                   [] c \in Lookups                  -> "share"
                   [] OTHER                          -> "scan"

Start(t, c, k) ==
    /\ stage[t] = "idle"
    /\ op' = [op EXCEPT ![t] = [call |-> c, key |-> k]]
    /\ Goto(t, FirstStage(c), Home(c))
    /\ dead' = [dead EXCEPT ![t] = {m \in Maps : items[m][k] = "expired"}]
    /\ UNCHANGED <<writer, readers, items, terminated>>

\* Mutant: the guard is made without locking (std::defer_lock).
EnterExclusive_Deferred(t) ==
    /\ stage[t] = "enter"
    /\ Goto(t, "drain", at[t])
    /\ UNCHANGED <<op, writer, readers, items, dead, terminated>>

\* std::unique_lock: claim the lock, then wait until the readers inside have left.
EnterExclusive(t) ==
    /\ stage[t] = "enter"
    /\ MayEnter(at[t])
    /\ SetWriter(at[t], t)
    /\ Goto(t, "drain", at[t])
    /\ UNCHANGED <<op, readers, items, dead, terminated>>

\* Mutants: the body is entered without remove_expired; remove_expired begins
\* with the home map.
GrantExclusive_NoSweep(t) ==
    /\ stage[t] = "drain"
    /\ NoReaders(at[t])
    /\ Goto(t, IF op[t].call = "expire" THEN "touch" ELSE "body", at[t])
    /\ UNCHANGED <<op, writer, readers, items, dead, terminated>>
GrantExclusive_FromHome(t) ==
    /\ stage[t] = "drain"
    /\ NoReaders(at[t])
    /\ Goto(t, IF op[t].call = "expire" THEN "touch" ELSE "scan", at[t])
    /\ UNCHANGED <<op, writer, readers, items, dead, terminated>>

GrantExclusive(t) ==
    /\ stage[t] = "drain"
    /\ NoReaders(at[t])
    /\ IF op[t].call = "expire" THEN Goto(t, "touch", at[t]) ELSE Goto(t, "scan", 1)
    /\ UNCHANGED <<op, writer, readers, items, dead, terminated>>

\* std::shared_lock on the home map of a lookup.
ShareHome(t) ==
    /\ stage[t] = "share"
    /\ MayShare(at[t])
    /\ AddReader(at[t], t, 1)
    /\ Goto(t, "scan", 1)
    /\ UNCHANGED <<op, writer, items, dead, terminated>>

\* The shared lock of remove_expired's and ttl's block for the map at[t].
ShareScan(t) ==
    /\ stage[t] = "scan"
    /\ MayShare(at[t])
    /\ AddReader(at[t], t, 1)
    /\ Goto(t, "test", at[t])
    /\ UNCHANGED <<op, writer, items, dead, terminated>>

\* Mutant: the home lock is not released when the exception unwinds.
RelockThrows_NoUnwind(t) ==
    /\ stage[t] = "scan"
    /\ Runtime = "glibc"
    /\ writer[at[t]] = t
    /\ Return(t)
    /\ terminated' = (op[t].call # "incrby")
    /\ UNCHANGED <<writer, readers, items>>

\* The same request by the thread that holds the lock exclusively.  Unwinding
\* releases the home lock; only INCRBY's handler catches the exception, any
\* other leaves io_context::run and ends the process.
RelockThrows(t) ==
    /\ stage[t] = "scan"
    /\ Runtime = "glibc"
    /\ writer[at[t]] = t
    /\ SetWriter(at[t], NoThread)
    /\ Return(t)
    /\ terminated' = (op[t].call # "incrby")
    /\ UNCHANGED <<readers, items>>

StatusAt(t) == items[at[t]][op[t].key]

\* Where a call goes from the block of map at[t] when it found nothing there.
NextBlock(t, s) ==
    IF at[t] < 4 THEN Goto(t, s, at[t] + 1) /\ UNCHANGED <<op, dead>>
    ELSE IF op[t].call \in Walkers THEN Return(t)
    ELSE Goto(t, "body", Home(op[t].call)) /\ UNCHANGED <<op, dead>>

\* Nothing to erase: leave the block, and with ttl the call if the key is here.
TestKeeps(t) ==
    /\ stage[t] = "test"
    /\ StatusAt(t) # "expired"
    /\ AddReader(at[t], t, -1)
    /\ IF op[t].call = "ttl" /\ StatusAt(t) # "absent" THEN Return(t) ELSE NextBlock(t, "scan")
    /\ UNCHANGED <<writer, items, terminated>>

\* Mutant: has_expiry is tested and the deadline is not.
TestExpired_AnyDeadline(t) ==
    /\ stage[t] = "test"
    /\ StatusAt(t) \in {"timed", "expired"}
    /\ AddReader(at[t], t, -1)
    /\ Goto(t, "upgrade", at[t])
    /\ UNCHANGED <<op, writer, items, dead, terminated>>

\* Expired: mutex.unlock() gives up the shared hold that the shared_lock still owns.
TestExpired(t) ==
    /\ stage[t] = "test"
    /\ StatusAt(t) = "expired"
    /\ AddReader(at[t], t, -1)
    /\ Goto(t, "upgrade", at[t])
    /\ UNCHANGED <<op, writer, items, dead, terminated>>

Upgrade(t) ==
    /\ stage[t] = "upgrade"
    /\ MayEnter(at[t]) /\ NoReaders(at[t])
    /\ SetWriter(at[t], t)
    /\ Goto(t, "erase", at[t])
    /\ UNCHANGED <<op, readers, items, dead, terminated>>

\* erase(it) by the iterator found before the unlock, without looking again.
\* Both guards then unlock, the shared one for the second time.
Erase(t) ==
    /\ stage[t] = "erase"
    /\ items' = [items EXCEPT ![at[t]][op[t].key] = "absent"]
    /\ SetWriter(at[t], NoThread)
    /\ AddReader(at[t], t, -1)
    /\ IF op[t].call = "ttl" THEN Return(t) ELSE NextBlock(t, "scan")
    /\ UNCHANGED terminated

\* What is left of the item after the body of a mutator.
Kept(c, s) ==
    CASE c = "set"                        -> {"live"}
      [] c \in {"incr", "decr", "incrby"} -> IF s = "absent" THEN {"live"} ELSE {"live", s}
      [] c = "rpop"                       -> {s}
      [] c = "srem"                       -> {"absent", s}
      [] OTHER                            -> IF s = "absent" THEN {"live"} ELSE {s}

MutatorBody(t) ==
    /\ stage[t] = "body"
    /\ op[t].call \in Mutators
    /\ \E s \in Kept(op[t].call, StatusAt(t)) :
          items' = [items EXCEPT ![at[t]][op[t].key] = s]
    /\ SetWriter(at[t], NoThread)
    /\ Return(t)
    /\ UNCHANGED <<readers, terminated>>

\* Mutant: an explicit unlock besides the guard's own.
LookupBody_UnlocksTwice(t) ==
    /\ stage[t] = "body"
    /\ op[t].call \in Lookups
    /\ AddReader(at[t], t, -2)
    /\ Return(t)
    /\ UNCHANGED <<writer, items, terminated>>

LookupBody(t) ==
    /\ stage[t] = "body"
    /\ op[t].call \in Lookups
    /\ AddReader(at[t], t, -1)
    /\ Return(t)
    /\ UNCHANGED <<writer, items, terminated>>

\* expire's block for at[t]: the first map that has the key gets the deadline,
\* a past one if the number of seconds is not positive.
ExpireSets(t) ==
    /\ stage[t] = "touch"
    /\ StatusAt(t) # "absent"
    /\ \E s \in {"timed", "expired"} : items' = [items EXCEPT ![at[t]][op[t].key] = s]
    /\ SetWriter(at[t], NoThread)
    /\ Return(t)
    /\ UNCHANGED <<readers, terminated>>

\* Mutant: the locks of the maps without the key are kept to the end.
ExpireSkips_KeepsLock(t) ==
    /\ stage[t] = "touch"
    /\ StatusAt(t) = "absent"
    /\ NextBlock(t, "enter")
    /\ UNCHANGED <<writer, readers, items, terminated>>

ExpireSkips(t) ==
    /\ stage[t] = "touch"
    /\ StatusAt(t) = "absent"
    /\ SetWriter(at[t], NoThread)
    /\ NextBlock(t, "enter")
    /\ UNCHANGED <<readers, items, terminated>>

\* steady_clock passes the deadline of an item.
DeadlinePasses(m, k) ==
    /\ items[m][k] = "timed"
    /\ items' = [items EXCEPT ![m][k] = "expired"]
    /\ UNCHANGED <<op, stage, at, writer, readers, dead, terminated>>

-----------------------------------------------------------------------------
\* The steps of a call in progress.
Step(t) ==
    \/ EnterExclusive(t) \/ GrantExclusive(t)
    \/ ShareHome(t) \/ ShareScan(t) \/ RelockThrows(t)
    \/ TestKeeps(t) \/ TestExpired(t) \/ Upgrade(t) \/ Erase(t)
    \/ MutatorBody(t) \/ LookupBody(t)
    \/ ExpireSets(t) \/ ExpireSkips(t)

Next ==
    /\ ~terminated
    /\ \/ \E t \in Threads : \E c \in Calls, k \in Keys : Start(t, c, k)
       \/ \E t \in Threads : Step(t)
       \/ \E m \in Maps, k \in Keys : DeadlinePasses(m, k)

Spec == Init /\ [][Next]_vars

\* A thread inside a call goes on, and is not passed over forever by a lock
\* that becomes free again and again: both libraries hand a released lock to
\* the threads that wait for it.  Clients need not call at all.
Fairness == \A t \in Threads : SF_vars(~terminated /\ Step(t))
FairSpec == Spec /\ Fairness

-----------------------------------------------------------------------------
(* Properties *)

InCall(t) == stage[t] # "idle"
Holds(t, m) == writer[m] = t \/ readers[m][t] > 0

\* An exclusive hold that was granted (storage.cpp works on the map under it)
\* is alone: no other thread reads or writes that map.
ExclusiveIsAlone ==
    ~Elided => \A t \in Threads :
        stage[t] \in {"touch", "erase"}
            => writer[at[t]] = t /\ NoReaders(at[t])

\* What a call locked is unlocked on every path out of it: early returns of
\* ttl and expire, and the unwinding of the exception INCRBY's handler catches.
IdleHoldsNothing ==
    \A t \in Threads : ~InCall(t) => \A m \in Maps : ~Holds(t, m)

\* s waits for a lock that t holds, or has closed, in a conflicting way.
WaitsFor(s, t) ==
    \/ stage[s] \in {"share", "scan"} /\ writer[at[s]] = t
    \/ stage[s] \in {"enter", "upgrade"} /\ (writer[at[s]] = t \/ readers[at[s]][t] > 0)
    \/ stage[s] = "drain" /\ readers[at[s]][t] > 0

\* The maps are locked in no common order: a call holds its home map while
\* remove_expired goes through maps before and after it.  Still no threads,
\* however many, wait in a ring: there is no group in which each waits for
\* another one of the group.
NoCircularWait ==
    Runtime = "glibc" =>
        ~\E S \in SUBSET Threads :
            S # {} /\ \A s \in S : \E t \in S : s # t /\ WaitsFor(s, t)

\* With real locks no mutator gets past remove_expired, so nothing is ever
\* stored, and the unlock-relock-erase branch for expired items is never taken.
StoreStaysEmpty ==
    ~Elided => \A m \in Maps, k \in Keys : items[m][k] = "absent"

\* A call that runs its body works on a store from which everything that had
\* expired under its key when the call began is gone.
NoStaleBody ==
    \A t \in Threads :
        stage[t] = "body" => \A m \in dead[t] : items[m][op[t].key] = "absent"

\* Outside the body of srem, an item only vanishes if its deadline has passed:
\* the stale iterator of remove_expired and ttl never erases a live item.
OnlyExpiredVanish ==
    [][\A m \in Maps, k \in Keys :
          (items[m][k] # "absent" /\ items'[m][k] = "absent")
             => \/ items[m][k] = "expired"
                \/ \E t \in Threads : stage[t] = "body" /\ op[t] = [call |-> "srem", key |-> k]
      ]_vars

\* ServerSurvives: README.md:26 promises thread-safe storage; a legal call
\* never ends the server process.
ServerSurvives == ~terminated

\* Every call is answered.
CallsReturn == \A t \in Threads : InCall(t) ~> (terminated \/ ~InCall(t))

\* A lookup or ttl is answered, whatever the other threads do, as long as the
\* process lives (Session::handle_command has no timeout of its own).  EXPIRE
\* and the mutators are answered as long as no map is kept by readers who take
\* turns and never all leave it: those are let in past a waiting writer.
CallsComeBack ==
    /\ \A t \in Threads :
          (op[t].call \in Lookups \cup {"ttl"}) ~> (terminated \/ op[t] = NoOp)
    /\ (\A m \in Maps : []<>NoReaders(m)) => CallsReturn
=============================================================================
