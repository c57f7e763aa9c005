------------------------------ MODULE Payments ------------------------------
(***************************************************************************)
(* The money commands of the example plugin (AsyncMoneyPluginExample):     *)
(* /money, /setmoney and /pay, each run by a thread of the executor with a *)
(* connection of the pool.  Every call of the client is one atomic command *)
(* of the store or, when its connection breaks, one that was perhaps run   *)
(* and that nobody answers (as in RemoteCall); between two calls the other *)
(* threads run.                                                            *)
(*                                                                         *)
(* Of the pool two things are used here: a connection is in one thread's   *)
(* hands (ConnectionPool!OneHolder), and there are never more of them than *)
(* maxConnections (AtMostMax), so a set Conns of that size stands for it.  *)
(* returnConnection takes back broken connections like sound ones.         *)
(*                                                                         *)
(* An amount may be any number, a negative one too: /pay tests nothing but *)
(* that the sender has no less, and INCRBY of a negative amount takes from *)
(* the recipient, whatever he has.                                         *)
(*                                                                         *)
(* `minted', `debt' and `failed' are kept for the properties; no action    *)
(* looks at them.                                                          *)
(***************************************************************************)
EXTENDS Integers, FiniteSets, FiniteSetsExt

CONSTANTS
    Players,
    Threads,     \* the executor's threads
    Conns,       \* as many connections as the pool may open
    Amounts,     \* amounts that are paid
    Settings,    \* what /setmoney writes: numbers or NotANumber
    NotANumber,  \* an argument or a record that is not a number
    MaxAmount,   \* no amount is larger
    MayBreak,    \* TRUE: connections may break
    MaxCommands, \* bound on the commands that may change a balance
    NoConn

Numbers == {a \in Int : a <= MaxAmount}

ASSUME PaymentsAssumption ==
    /\ IsFiniteSet(Conns) /\ Conns # {}
    /\ NoConn \notin Conns
    /\ MaxAmount \in Nat
    /\ Amounts \subseteq Numbers
    /\ Settings \subseteq Numbers \cup {NotANumber}
    /\ NotANumber \notin Int
    /\ MayBreak \in BOOLEAN
    /\ MaxCommands \in Nat

VARIABLES
    record,   \* [Players -> is there a record, and is it a number?]
    money,    \* [Players -> the number; 0 when there is none]
    broken,   \* connections whose socket has failed
    at,       \* [Threads -> stage of the command in progress]
    job,      \* [Threads -> that command]
    conn,     \* [Threads -> client]
    read,     \* [Threads -> fromBalance]
    moves,    \* [Threads -> INCRBYs executed for the last payment]
    answer,   \* [Threads -> what the last command answered]
    minted,   \* the money /setmoney made, less what it destroyed
    debt,     \* [Players -> how far below zero /setmoney and negative
              \* payments may have put them since /setmoney]
    failed,   \* has an INCRBY of a "giving" or a "taking" payment failed?
    commands  \* how many commands were asked for, but for /money

store == <<record, money, minted, debt>>
vars == <<store, broken, at, job, conn, read, moves, answer, failed, commands>>

Stages == {"idle", "take", "show", "write", "from", "to", "debit", "credit"}
Answers == {"pending", "balance", "none", "set", "transferred", "insufficient",
            "invalid", "error"}

\* A command: the stage it begins with once it has a connection, and its
\* arguments.
Command(first, p, q, a) == [first |-> first, from |-> p, to |-> q, amount |-> a]
Commands == [first : {"show", "write", "from"}, from : Players, to : Players,
             amount : Numbers \cup {NotANumber}]
NoCommand == [first |-> "idle"]

Held == {conn[t] : t \in Threads} \ {NoConn}

Init ==
    /\ record = [p \in Players |-> "none"]
    /\ money = [p \in Players |-> 0]
    /\ broken = {}
    /\ at = [t \in Threads |-> "idle"]
    /\ job = [t \in Threads |-> NoCommand]
    /\ conn = [t \in Threads |-> NoConn]
    /\ read = [t \in Threads |-> 0]
    /\ moves = [t \in Threads |-> 0]
    /\ answer = [t \in Threads |-> "pending"]
    /\ minted = 0
    /\ debt = [p \in Players |-> 0]
    /\ failed = {}
    /\ commands = 0

(***************************************************************************)
(* One call over the thread's connection                                   *)
(***************************************************************************)

\* The request is executed and its reply arrives.
Answered(t) == conn[t] \notin broken /\ UNCHANGED broken

\* No reply arrives and the request may have been executed: the connection
\* breaks now.
Breaks(t) == MayBreak /\ conn[t] \notin broken /\ broken' = broken \cup {conn[t]}

\* No reply arrives and the request was not executed.
Unheard(t) == Breaks(t) \/ (conn[t] \in broken /\ UNCHANGED broken)

Goto(t, stage) == at' = [at EXCEPT ![t] = stage]

\* The command goes on.
Continue(t, stage) ==
    /\ Goto(t, stage)
    /\ UNCHANGED <<job, conn, read, answer, failed>>

\* The command answers, and `finally' returns the connection.
Finish(t, text) ==
    /\ Goto(t, "idle")
    /\ conn' = [conn EXCEPT ![t] = NoConn]
    /\ answer' = [answer EXCEPT ![t] = text]
    /\ failed' = failed \cup
          IF text # "error" \/ at[t] \notin {"debit", "credit"} THEN {}
          ELSE IF job[t].amount < 0 THEN {"taking"} ELSE {"giving"}
    /\ job' = [job EXCEPT ![t] = NoCommand]
    /\ read' = [read EXCEPT ![t] = 0]

(***************************************************************************)
(* The commands                                                            *)
(***************************************************************************)

Ask(t, command) ==
    /\ at[t] = "idle"
    /\ IF command.first = "show" THEN UNCHANGED commands
       ELSE commands < MaxCommands /\ commands' = commands + 1
    /\ Goto(t, "take")
    /\ job' = [job EXCEPT ![t] = command]
    /\ moves' = [moves EXCEPT ![t] = 0]
    /\ answer' = [answer EXCEPT ![t] = "pending"]
    /\ UNCHANGED <<store, broken, conn, read, failed>>

\* getConnection
Take(t) ==
    /\ at[t] = "take"
    /\ \/ /\ \E c \in Conns \ Held : conn' = [conn EXCEPT ![t] = c]
          /\ Goto(t, job[t].first)
          /\ UNCHANGED <<job, read, answer, failed>>
       \/ Finish(t, "error")
    /\ UNCHANGED <<store, broken, moves>>

\* /money.  The null that get returns for the end of the stream is not told
\* from the one for no record: both are shown as 0.
Show(t) ==
    /\ at[t] = "show"
    /\ \/ /\ Answered(t)
          /\ Finish(t, IF record[job[t].from] = "none" THEN "none" ELSE "balance")
       \/ /\ Unheard(t)
          /\ Finish(t, "none") \/ Finish(t, "error")
    /\ UNCHANGED <<store, moves>>

\* The store runs SET.
Put(p, a) ==
    LET number == IF a = NotANumber THEN 0 ELSE a IN
    /\ record' = [record EXCEPT ![p] = IF a = NotANumber THEN "text" ELSE "number"]
    /\ money' = [money EXCEPT ![p] = number]
    /\ minted' = minted + number - money[p]
    /\ debt' = [debt EXCEPT ![p] = IF number < 0 THEN -number ELSE 0]

\* /setmoney
Write(t) ==
    /\ at[t] = "write"
    /\ \/ Answered(t) /\ Put(job[t].from, job[t].amount) /\ Finish(t, "set")
       \/ Breaks(t) /\ Put(job[t].from, job[t].amount) /\ Finish(t, "error")
       \/ Unheard(t) /\ UNCHANGED store /\ Finish(t, "error")
    /\ UNCHANGED moves

\* /pay: the sender's balance; no record counts as 0, and so does no reply.
ReadFrom(t) ==
    LET p == job[t].from IN
    /\ at[t] = "from"
    /\ \/ /\ Answered(t) /\ record[p] # "text"
          /\ read' = [read EXCEPT ![t] = money[p]]
          /\ Goto(t, "to")
          /\ UNCHANGED <<job, conn, answer, failed>>
       \/ Answered(t) /\ record[p] = "text" /\ Finish(t, "invalid")
       \/ Unheard(t) /\ (Continue(t, "to") \/ Finish(t, "error"))
    /\ UNCHANGED <<store, moves>>

\* Mutants: the balance is not compared with the amount; the amount is not
\* parsed before it is used.
Decide_NoCheck(t) ==
    IF job[t].amount = NotANumber THEN Finish(t, "invalid") ELSE Continue(t, "debit")
Decide_Unparsed(t) ==
    IF job[t].amount # NotANumber /\ read[t] < job[t].amount THEN Finish(t, "insufficient")
    ELSE Continue(t, "debit")

\* The amount is parsed and compared with the balance read before; nothing
\* else is asked of it.
Decide(t) ==
    IF job[t].amount = NotANumber THEN Finish(t, "invalid")
    ELSE IF read[t] < job[t].amount THEN Finish(t, "insufficient")
    ELSE Continue(t, "debit")

\* The recipient's balance is read too, but used for nothing else than to
\* find that it is not a number.
ReadTo(t) ==
    /\ at[t] = "to"
    /\ \/ Answered(t) /\ record[job[t].to] # "text" /\ Decide(t)
       \/ Answered(t) /\ record[job[t].to] = "text" /\ Finish(t, "invalid")
       \/ Unheard(t) /\ (Decide(t) \/ Finish(t, "error"))
    /\ UNCHANGED <<store, moves>>

\* The store runs INCRBY; on a record that is not a number it only answers
\* with an error.  What a credit takes was not checked against a balance.
Add(t, p, a) ==
    /\ record[p] # "text"
    /\ record' = [record EXCEPT ![p] = "number"]
    /\ money' = [money EXCEPT ![p] = @ + a]
    /\ debt' = [debt EXCEPT ![p] = IF at[t] = "credit" /\ a < 0 THEN @ - a ELSE @]
    /\ moves' = [moves EXCEPT ![t] = @ + 1]
    /\ UNCHANGED minted

\* incrBy: anything but a number for a reply is an IOException.
IncrBy(t, p, a, Success) ==
    \/ Answered(t) /\ Add(t, p, a) /\ Success
    \/ Answered(t) /\ record[p] = "text" /\ UNCHANGED <<store, moves>> /\ Finish(t, "error")
    \/ Breaks(t) /\ Add(t, p, a) /\ Finish(t, "error")
    \/ Unheard(t) /\ UNCHANGED <<store, moves>> /\ Finish(t, "error")

\* Mutant: the debit is sent again when its reply does not come.
Debit_Retries(t) ==
    /\ at[t] = "debit"
    /\ \/ IncrBy(t, job[t].from, -job[t].amount, Continue(t, "credit"))
       \/ Breaks(t) /\ Add(t, job[t].from, -job[t].amount) /\ Continue(t, "debit")

Debit(t) ==
    /\ at[t] = "debit"
    /\ IncrBy(t, job[t].from, -job[t].amount, Continue(t, "credit"))

\* Mutant: the payment is reported as made whatever the reply.
Credit_Hopeful(t) ==
    /\ at[t] = "credit"
    /\ \/ IncrBy(t, job[t].to, job[t].amount, Finish(t, "transferred"))
       \/ Unheard(t) /\ UNCHANGED <<store, moves>> /\ Finish(t, "transferred")

Credit(t) ==
    /\ at[t] = "credit"
    /\ IncrBy(t, job[t].to, job[t].amount, Finish(t, "transferred"))

Step(t) ==
    Take(t) \/ Show(t) \/ Write(t) \/ ReadFrom(t) \/ ReadTo(t) \/ Debit(t) \/ Credit(t)

Next ==
    \E t \in Threads :
        \/ \E p \in Players : Ask(t, Command("show", p, p, 0))
        \/ \E p \in Players, a \in Settings : Ask(t, Command("write", p, p, a))
        \/ \E p, q \in Players, a \in Amounts \cup {NotANumber} :
              Ask(t, Command("from", p, q, a))
        \/ Step(t) /\ UNCHANGED commands

Spec == Init /\ [][Next]_vars

(***************************************************************************)
(* Properties                                                              *)
(***************************************************************************)

\* Every variable has its type; a thread has a connection of its own exactly
\* while it uses one, and an amount that is not a number gets no further than
\* the check.
TypeOK ==
    /\ record \in [Players -> {"none", "number", "text"}]
    /\ money \in [Players -> Int]
    /\ broken \in SUBSET Conns
    /\ at \in [Threads -> Stages]
    /\ job \in [Threads -> Commands \cup {NoCommand}]
    /\ conn \in [Threads -> Conns \cup {NoConn}]
    /\ read \in [Threads -> Int]
    /\ moves \in [Threads -> 0..2]
    /\ answer \in [Threads -> Answers]
    /\ minted \in Int
    /\ debt \in [Players -> Nat]
    /\ failed \in SUBSET {"giving", "taking"}
    /\ commands \in 0..MaxCommands
    /\ \A t \in Threads :
          /\ conn[t] = NoConn <=> at[t] \in {"idle", "take"}
          /\ job[t] = NoCommand <=> at[t] = "idle"
          /\ at[t] \in {"debit", "credit"} => job[t].amount # NotANumber
    /\ \A t, u \in Threads : conn[t] = conn[u] => t = u \/ conn[t] = NoConn

\* The check and the debit of /pay are separate commands, so a player who has
\* the money once can spend it several times.  How far below zero that leads:
\* one amount for each connection but one, since the payments that were let
\* through by the same money must all be under way at once.  (What /setmoney
\* or a negative payment has put below zero comes on top.)
OverdraftBounded ==
    \A p \in Players : money[p] >= 0 - debt[p] - (Cardinality(Conns) - 1) * MaxAmount

\* The money in the records and on its way from one to the other is what
\* /setmoney made, until one of the two INCRBYs of a payment fails.  A failed
\* payment can only destroy money, a failed one of a negative amount can only
\* make some.
MoneyKept ==
    LET Total == MapThenSumSet(LAMBDA p : money[p], Players)
        Owed == MapThenSumSet(LAMBDA t : job[t].amount, {t \in Threads : at[t] = "credit"})
    IN /\ "taking" \notin failed => Total + Owed <= minted
       /\ "giving" \notin failed => Total + Owed >= minted

\* The answer is what happened: after "Transferred" both INCRBYs have been
\* executed, once each, and after "Insufficient funds" or "Invalid amount"
\* none has, whichever replies were lost.
AnswerTrue ==
    \A t \in Threads :
        /\ answer[t] = "transferred" => moves[t] = 2
        /\ answer[t] \in {"insufficient", "invalid"} => moves[t] = 0

\* /money shows 0 for a player without record only, as its comment says.
ZeroMeansNoRecord ==
    [][\A t \in Threads :
          at[t] = "show" /\ answer'[t] = "none" => record[job[t].from] = "none"]_vars

=============================================================================
