--------------------------- MODULE ConnectionPool ---------------------------
(***************************************************************************)
(* The client-side connection pool (com.redicraft.ConnectionPool).  Three  *)
(* thread-safe objects -- a semaphore of permits, a queue of connections   *)
(* nobody uses and an atomic counter -- are each updated atomically, but a *)
(* call touches them one after the other with no lock around the call.     *)
(* Each touch is an action; at[t] is where thread t stands in its call.    *)
(*                                                                         *)
(* `pooled' is the queue as a set: which of the waiting connections poll() *)
(* returns makes no difference here, so every choice is allowed.  `open'   *)
(* holds the connections whose socket is connected; a name in Conns that   *)
(* is not open stands for any RedicraftClient not created yet.             *)
(***************************************************************************)
EXTENDS Integers, FiniteSets

CONSTANTS
    Threads,         \* the plugin's worker threads
    Conns,           \* names for connections; more than Max of them
    Max,             \* maxConnections
    ConnectMayFail,  \* TRUE when the server may refuse a connection
    Closing,         \* when closeAllConnections runs: "never", "quiet", "any"
    NoConn

ASSUME PoolAssumption ==
    /\ IsFiniteSet(Threads)
    /\ IsFiniteSet(Conns)
    /\ Max \in Nat \ {0}
    /\ ConnectMayFail \in BOOLEAN
    /\ Closing \in {"never", "quiet", "any"}
    /\ NoConn \notin Conns

VARIABLES
    permits,   \* connectionSemaphore
    pooled,    \* availableConnections
    current,   \* currentConnections
    open,      \* the connections with a connected socket
    at,        \* [Threads -> stage of the call in progress]
    mine,      \* [Threads -> the connection the thread works with]
    seen       \* [Threads -> availablePermits() as closeAllConnections read it]

vars == <<permits, pooled, current, open, at, mine, seen>>

GetStages == {"acquire", "wait", "poll", "connect", "count"}
CloseStages == {"drain", "reset", "measure", "refill"}
Stages == GetStages \cup CloseStages \cup {"idle", "using", "release"}

At(S) == {t \in Threads : at[t] \in S}

\* Threads between a successful tryAcquire and the release that gives back.
Holders == At({"poll", "connect", "count", "using", "release"})
Connecting == At({"connect"})
Counting == At({"count"})
Working == At({"count", "using"})
Closers == At(CloseStages)

Init ==
    /\ permits = Max
    /\ pooled = {}
    /\ current = 0
    /\ open = {}
    /\ at = [t \in Threads |-> "idle"]
    /\ mine = [t \in Threads |-> NoConn]
    /\ seen = [t \in Threads |-> 0]

Goto(t, stage) == at' = [at EXCEPT ![t] = stage]

(***************************************************************************)
(* getConnection                                                           *)
(***************************************************************************)

\* A thread asks for a connection.  A program that closes its pool only when
\* all is quiet starts nothing while the pool is being closed.
Ask(t) ==
    /\ at[t] = "idle"
    /\ Closing = "quiet" => Closers = {}
    /\ Goto(t, "acquire")
    /\ UNCHANGED <<permits, pooled, current, open, mine, seen>>

\* tryAcquire finds a permit, at once or after waiting.
Acquire(t) ==
    /\ at[t] \in {"acquire", "wait"}
    /\ permits > 0
    /\ permits' = permits - 1
    /\ Goto(t, "poll")
    /\ UNCHANGED <<pooled, current, open, mine, seen>>

\* tryAcquire finds none and waits for up to five seconds.
Wait(t) ==
    /\ at[t] = "acquire"
    /\ permits <= 0
    /\ Goto(t, "wait")
    /\ UNCHANGED <<permits, pooled, current, open, mine, seen>>

\* Mutants: a permit is given back that was not taken; the wait has no limit.
GiveUp_Releases(t) ==
    /\ at[t] = "wait"
    /\ permits' = permits + 1
    /\ Goto(t, "idle")
    /\ UNCHANGED <<pooled, current, open, mine, seen>>
GiveUp_Never(t) == FALSE /\ Goto(t, "idle")

\* The wait ends with no permit, by timeout or by interruption: getConnection
\* throws.  A permit may be released at the very moment the wait expires.
GiveUp(t) ==
    /\ at[t] = "wait"
    /\ Goto(t, "idle")
    /\ UNCHANGED <<permits, pooled, current, open, mine, seen>>

\* Mutant: peek() instead of poll().
PollFinds_Peeks(t) ==
    /\ at[t] = "poll"
    /\ \E c \in pooled : mine' = [mine EXCEPT ![t] = c]
    /\ Goto(t, "using")
    /\ UNCHANGED <<permits, pooled, current, open, seen>>

\* availableConnections.poll() finds a connection, which is handed out ...
PollFinds(t) ==
    /\ at[t] = "poll"
    /\ \E c \in pooled :
          /\ pooled' = pooled \ {c}
          /\ mine' = [mine EXCEPT ![t] = c]
    /\ Goto(t, "using")
    /\ UNCHANGED <<permits, current, open, seen>>

\* Mutant: a connection is made whether or not one was found.
PollFindsNone_Skips(t) ==
    /\ at[t] = "poll"
    /\ Goto(t, "connect")
    /\ UNCHANGED <<permits, pooled, current, open, mine, seen>>

\* ... or finds none, and a new one is to be connected.
PollFindsNone(t) ==
    /\ at[t] = "poll"
    /\ pooled = {}
    /\ Goto(t, "connect")
    /\ UNCHANGED <<permits, pooled, current, open, mine, seen>>

Connect(t) ==
    /\ at[t] = "connect"
    /\ \E c \in Conns \ open :
          /\ open' = open \cup {c}
          /\ mine' = [mine EXCEPT ![t] = c]
    /\ Goto(t, "count")
    /\ UNCHANGED <<permits, pooled, current, seen>>

\* The exception of connect() leaves getConnection as it is: the permit taken
\* for the connection stays taken.
ConnectFails(t) ==
    /\ at[t] = "connect"
    /\ ConnectMayFail
    /\ Goto(t, "idle")
    /\ UNCHANGED <<permits, pooled, current, open, mine, seen>>

CountUp(t) ==
    /\ at[t] = "count"
    /\ current' = current + 1
    /\ Goto(t, "using")
    /\ UNCHANGED <<permits, pooled, open, mine, seen>>

(***************************************************************************)
(* returnConnection                                                        *)
(***************************************************************************)

\* Mutant: the thread goes on using what it returned.
Offer_KeepsHold(t) ==
    /\ at[t] = "using"
    /\ pooled' = pooled \cup {mine[t]}
    /\ Goto(t, "release")
    /\ UNCHANGED <<permits, current, open, mine, seen>>

Offer(t) ==
    /\ at[t] = "using"
    /\ pooled' = pooled \cup {mine[t]}
    /\ mine' = [mine EXCEPT ![t] = NoConn]
    /\ Goto(t, "release")
    /\ UNCHANGED <<permits, current, open, seen>>

Release(t) ==
    /\ at[t] = "release"
    /\ permits' = permits + 1
    /\ Goto(t, "idle")
    /\ UNCHANGED <<pooled, current, open, mine, seen>>

(***************************************************************************)
(* closeAllConnections                                                     *)
(***************************************************************************)

CloseAll(t) ==
    /\ at[t] = "idle"
    /\ \/ Closing = "any"
       \/ Closing = "quiet" /\ \A u \in Threads : at[u] = "idle"
    /\ Goto(t, "drain")
    /\ UNCHANGED <<permits, pooled, current, open, mine, seen>>

\* One turn of the loop: poll a connection and close its socket.
Drain(t) ==
    /\ at[t] = "drain"
    /\ \E c \in pooled :
          /\ pooled' = pooled \ {c}
          /\ open' = open \ {c}
    /\ UNCHANGED <<permits, current, at, mine, seen>>

Drained(t) ==
    /\ at[t] = "drain"
    /\ pooled = {}
    /\ Goto(t, "reset")
    /\ UNCHANGED <<permits, pooled, current, open, mine, seen>>

\* Mutant: the counter is not reset.
ResetCount_Keeps(t) ==
    /\ at[t] = "reset"
    /\ Goto(t, "measure")
    /\ UNCHANGED <<permits, pooled, current, open, mine, seen>>

ResetCount(t) ==
    /\ at[t] = "reset"
    /\ current' = 0
    /\ Goto(t, "measure")
    /\ UNCHANGED <<permits, pooled, open, mine, seen>>

\* The argument of release() is evaluated before the call ...
Measure(t) ==
    /\ at[t] = "measure"
    /\ seen' = [seen EXCEPT ![t] = permits]
    /\ Goto(t, "refill")
    /\ UNCHANGED <<permits, pooled, current, open, mine>>

\* Mutant: a full set of permits is added to those there are.
Refill_AddsMax(t) ==
    /\ at[t] = "refill"
    /\ permits' = permits + Max
    /\ Goto(t, "idle")
    /\ UNCHANGED <<pooled, current, open, mine, seen>>

\* ... and release() adds that many permits to what there is by then.  It
\* throws, releasing nothing, when the argument is negative.
Refill(t) ==
    /\ at[t] = "refill"
    /\ permits' = IF seen[t] <= Max THEN permits + (Max - seen[t]) ELSE permits
    /\ Goto(t, "idle")
    /\ UNCHANGED <<pooled, current, open, mine, seen>>

(***************************************************************************)
(* The pool                                                                *)
(***************************************************************************)

GetStep(t) ==
    \/ Acquire(t) \/ Wait(t) \/ GiveUp(t)
    \/ PollFinds(t) \/ PollFindsNone(t)
    \/ Connect(t) \/ ConnectFails(t) \/ CountUp(t)

CloseStep(t) ==
    Drain(t) \/ Drained(t) \/ ResetCount(t) \/ Measure(t) \/ Refill(t)

Next ==
    \E t \in Threads :
        \/ Ask(t) \/ GetStep(t)
        \/ Offer(t) \/ Release(t)
        \/ CloseAll(t) \/ CloseStep(t)

Spec == Init /\ [][Next]_vars

\* A running thread keeps running, and a wait for a permit ends after five
\* seconds whether or not there is one.  Nothing makes a thread return the
\* connection it has.
Fairness == \A t \in Threads : WF_vars(GetStep(t) \/ Release(t) \/ CloseStep(t))

FairSpec == Spec /\ Fairness

(***************************************************************************)
(* Properties                                                              *)
(***************************************************************************)

\* Every variable has its type, and a thread has a connection exactly while
\* it counts or uses one.
TypeOK ==
    /\ permits \in Int
    /\ pooled \in SUBSET Conns
    /\ current \in Nat
    /\ open \in SUBSET Conns
    /\ at \in [Threads -> Stages]
    /\ mine \in [Threads -> Conns \cup {NoConn}]
    /\ seen \in [Threads -> Int]
    /\ \A t \in Threads : mine[t] # NoConn <=> at[t] \in {"count", "using"}

\* A RedicraftClient has no lock of its own, so the pool must never let two
\* threads have the same one, nor keep in its queue one that is in use, nor
\* hand out one it has closed; and no open connection is out of its sight.
OneHolder ==
    /\ \A t, u \in Working : mine[t] = mine[u] => t = u
    /\ \A t \in Working : mine[t] \notin pooled
    /\ open = pooled \cup {mine[t] : t \in Working}

\* A permit is never in two places: those free and those held add up to no
\* more than maxConnections.  It holds when the pool is closed only while
\* nobody uses it.
PermitsBounded ==
    Closing # "any" => permits >= 0 /\ permits + Cardinality(Holders) <= Max

\* Never more than maxConnections sockets are open, although a thread finds
\* the queue empty some time before it connects.
AtMostMax == Cardinality(open) <= Max

\* Outside closeAllConnections, getActiveConnections counts exactly the open
\* connections but for those about to be counted.
CountsOpen ==
    Closing # "any" /\ Closers = {} =>
        current + Cardinality(Counting) = Cardinality(open)

\* Closing the pool gives back every permit, those that failed connections
\* took with them included: "Reset the semaphore to allow new connections".
ClosingRestores ==
    [][\A t \in Threads : at[t] = "refill" /\ at'[t] = "idle" => permits' = Max]_vars

\* getConnection comes to an end, with a connection or with an exception,
\* whatever the other threads do with theirs.
GetReturns == \A t \in Threads : at[t] \in GetStages ~> at[t] \in {"using", "idle"}

\* While nobody uses the pool all its permits are free: the pool then allows
\* up to maxConnections again, as its test says it should.
FullWhenIdle == At({"idle"}) = Threads => permits = Max

=============================================================================
