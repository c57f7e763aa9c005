--------------------------- MODULE PaymentsProofs ---------------------------
(***************************************************************************)
(* Proofs about Payments for any players, threads, amounts and number of   *)
(* connections, negative amounts included: the types, the truth of the     *)
(* answers, how far payments that were let through by the same money can   *)
(* overdraw a player, and that the money in the records and on its way is  *)
(* what /setmoney made, but for what failed payments destroy or make.      *)
(***************************************************************************)
EXTENDS Payments, FiniteSetTheorems, WellFoundedInduction, TLAPS

n == Cardinality(Conns)

\* How often a payment has moved money at each stage; a balance is read once.
StageFits ==
    \A t \in Threads :
        /\ at[t] \in {"take", "show", "write", "from", "to", "debit"} => moves[t] = 0
        /\ at[t] = "credit" => moves[t] = 1
        /\ at[t] # "idle" => answer[t] = "pending"
        /\ at[t] \in {"idle", "take", "from"} => read[t] = 0

Local == TypeOK /\ StageFits /\ AnswerTrue

\* The payments of a player that take something, and whose check is passed
\* or is going to be.
Approved(p) ==
    {t \in Threads :
        /\ at[t] \in {"to", "debit"}
        /\ job[t].from = p
        /\ job[t].amount # NotANumber /\ job[t].amount > 0
        /\ at[t] = "to" => job[t].amount <= read[t]}

Due == [t \in Threads |-> job[t].amount]

\* m is enough for one of the payments in S, less one amount for each
\* connection that is not in the hands of S: those paid since S looked.
Covered(S, due, m) ==
    IF S = {} THEN m >= 0 - (n - 1) * MaxAmount
    ELSE \E t \in S : m >= due[t] - (n - Cardinality(S)) * MaxAmount

\* What a player would have without the debt that payments are not to blame
\* for.
Funds == [p \in Players |-> money[p] + debt[p]]

AllCovered == \A p \in Players : Covered(Approved(p), Due, Funds[p])

Inv == Local /\ AllCovered

-----------------------------------------------------------------------------
\* The number of connections is a positive number.
LEMMA Number == n \in Nat \ {0}
BY PaymentsAssumption, FS_CardinalityType, FS_EmptySet DEF n

\* Multiples of the largest amount grow with the factor.
LEMMA Multiples ==
    ASSUME NEW a \in Int
    PROVE  /\ a * MaxAmount \in Int
           /\ (a + 1) * MaxAmount = a * MaxAmount + MaxAmount
           /\ a >= 0 => a * MaxAmount >= 0
           /\ a >= 1 => a * MaxAmount >= MaxAmount
<1>1. MaxAmount \in Nat
  BY PaymentsAssumption
<1>2. a * MaxAmount \in Int /\ (a + 1) * MaxAmount = a * MaxAmount + MaxAmount
  BY <1>1
<1>3. a >= 0 => a * MaxAmount >= 0
  BY <1>1
<1>4. a >= 1 => a * MaxAmount >= MaxAmount
  BY <1>1
<1> QED
  BY <1>2, <1>3, <1>4

\* A larger factor gives a multiple that is no smaller.
LEMMA Monotone ==
    ASSUME NEW a \in Int, NEW b \in Int, a <= b
    PROVE  a * MaxAmount <= b * MaxAmount
BY PaymentsAssumption

\* Covered for a set of payments of a single player, whatever made it so.
\* One more payment joins when the money is there for it.
LEMMA Join ==
    ASSUME NEW S, IsFiniteSet(S), Cardinality(S) <= n, NEW u \in S,
           NEW due, due[u] \in Int, NEW m \in Int, m >= due[u]
    PROVE  Covered(S, due, m)
<1> DEFINE k == Cardinality(S)
<1>1. k \in Nat
  BY FS_CardinalityType
<1>2. (n - k) * MaxAmount >= 0 /\ (n - k) * MaxAmount \in Int
  BY <1>1, Number, Multiples
<1> QED
  BY <1>1, <1>2 DEF Covered

\* A payment is made, or given up.
LEMMA Leave ==
    ASSUME NEW S, IsFiniteSet(S), NEW u \in S, NEW due,
           \A t \in S : due[t] \in 0..MaxAmount,
           NEW m \in Int, Covered(S, due, m), NEW m1 \in Int, m1 >= m - due[u]
    PROVE  Covered(S \ {u}, due, m1)
<1> DEFINE k == Cardinality(S)
           R == S \ {u}
<1>1. k \in Nat /\ IsFiniteSet(R) /\ Cardinality(R) = k - 1
  BY FS_CardinalityType, FS_RemoveElement
<1>2. PICK t \in S : m >= due[t] - (n - k) * MaxAmount
  BY DEF Covered
<1>3. /\ (n - k) * MaxAmount \in Int
      /\ (n - (k - 1)) * MaxAmount = (n - k) * MaxAmount + MaxAmount
  <2>1. n - k \in Int /\ n - (k - 1) = (n - k) + 1
    BY <1>1, Number
  <2> QED
    BY <2>1, Multiples
<1>4. MaxAmount \in Nat
  BY PaymentsAssumption
<1>5. CASE R = {}
  <2>1. k = 1 /\ t = u
    BY <1>1, <1>5, FS_EmptySet
  <2>2. m1 >= 0 - (n - 1) * MaxAmount
    BY <1>2, <1>3, <1>4, <2>1
  <2> QED
    BY <1>5, <2>2 DEF Covered
<1>6. CASE R # {} /\ t = u
  <2>1. PICK v \in R : TRUE
    BY <1>6
  <2>2. m1 >= due[v] - (n - (k - 1)) * MaxAmount
    BY <1>2, <1>3, <1>4, <1>6, <2>1
  <2> QED
    BY <1>1, <1>6, <2>1, <2>2 DEF Covered
<1>7. CASE R # {} /\ t # u
  <2>1. m1 >= due[t] - (n - (k - 1)) * MaxAmount
    BY <1>2, <1>3, <1>4, <1>7
  <2> QED
    BY <1>1, <1>2, <1>7, <2>1 DEF Covered
<1> QED
  BY <1>5, <1>6, <1>7

\* More money covers as much.
LEMMA More ==
    ASSUME NEW S, IsFiniteSet(S), NEW due, NEW due1,
           \A t \in S : due[t] \in 0..MaxAmount /\ due1[t] = due[t],
           NEW m \in Int, Covered(S, due, m), NEW m1 \in Int, m1 >= m
    PROVE  Covered(S, due1, m1)
<1> DEFINE k == Cardinality(S)
<1>1. k \in Nat /\ n \in Nat /\ MaxAmount \in Nat
  BY FS_CardinalityType, Number, PaymentsAssumption
<1>2. (n - k) * MaxAmount \in Int /\ (n - 1) * MaxAmount \in Int
  BY <1>1
<1>3. CASE S = {}
  BY <1>2, <1>3 DEF Covered
<1>4. CASE S # {}
  <2>1. PICK t \in S : m >= due[t] - (n - k) * MaxAmount
    BY <1>4 DEF Covered
  <2>2. m1 >= due1[t] - (n - k) * MaxAmount
    BY <1>2, <2>1
  <2> QED
    BY <1>4, <2>2 DEF Covered
<1> QED
  BY <1>3, <1>4

\* Any balance that is not negative covers, as long as one connection is in
\* other hands.
LEMMA Afresh ==
    ASSUME NEW S, IsFiniteSet(S), Cardinality(S) < n, NEW due,
           \A t \in S : due[t] \in 0..MaxAmount, NEW m \in Nat
    PROVE  Covered(S, due, m)
<1> DEFINE k == Cardinality(S)
<1>1. k \in Nat /\ n \in Nat /\ MaxAmount \in Nat
  BY FS_CardinalityType, Number, PaymentsAssumption
<1>2. n - k \in Int /\ n - k >= 1 /\ n - 1 \in Int /\ n - 1 >= 0
  BY <1>1, Number
<1>3. (n - k) * MaxAmount >= MaxAmount /\ (n - k) * MaxAmount \in Int
  BY <1>2, Multiples
<1>4. (n - 1) * MaxAmount >= 0 /\ (n - 1) * MaxAmount \in Int
  BY <1>2, Multiples
<1>5. CASE S = {}
  BY <1>4, <1>5 DEF Covered
<1>6. CASE S # {}
  <2>1. PICK t \in S : TRUE
    BY <1>6
  <2>2. m >= due[t] - (n - k) * MaxAmount
    BY <1>1, <1>3, <2>1
  <2> QED
    BY <1>6, <2>1, <2>2 DEF Covered
<1> QED
  BY <1>5, <1>6

\* What is covered is not overdrawn further than one amount for each
\* connection but one.
LEMMA Bound ==
    ASSUME NEW S, IsFiniteSet(S), NEW due, \A t \in S : due[t] \in 0..MaxAmount,
           NEW m \in Int, Covered(S, due, m)
    PROVE  m >= 0 - (n - 1) * MaxAmount
<1> DEFINE k == Cardinality(S)
<1>1. k \in Nat /\ n \in Nat /\ MaxAmount \in Nat
  BY FS_CardinalityType, Number, PaymentsAssumption
<1>2. CASE S = {}
  BY <1>2 DEF Covered
<1>3. CASE S # {}
  <2>1. PICK t \in S : m >= due[t] - (n - k) * MaxAmount
    BY <1>3 DEF Covered
  <2>2. k >= 1
    BY <1>1, <1>3, FS_EmptySet
  <2>3. n - k \in Int /\ n - 1 \in Int /\ n - k <= n - 1
    BY <1>1, <2>2
  <2>4. (n - k) * MaxAmount <= (n - 1) * MaxAmount
    BY <2>3, Monotone
  <2>5. (n - k) * MaxAmount \in Int /\ (n - 1) * MaxAmount \in Int
    BY <2>3, Multiples
  <2> QED
    BY <2>1, <2>4, <2>5
<1> QED
  BY <1>2, <1>3

-----------------------------------------------------------------------------
\* The types, thread by thread where threads have them.
Types ==
    /\ record \in [Players -> {"none", "number", "text"}]
    /\ money \in [Players -> Int]
    /\ broken \in SUBSET Conns
    /\ minted \in Int
    /\ debt \in [Players -> Nat]
    /\ failed \in SUBSET {"giving", "taking"}
    /\ commands \in 0..MaxCommands

Locals ==
    /\ at \in [Threads -> Stages]
    /\ job \in [Threads -> Commands \cup {NoCommand}]
    /\ conn \in [Threads -> Conns \cup {NoConn}]
    /\ read \in [Threads -> Int]
    /\ moves \in [Threads -> 0..2]
    /\ answer \in [Threads -> Answers]

Fits(t) ==
    /\ conn[t] = NoConn <=> at[t] \in {"idle", "take"}
    /\ job[t] = NoCommand <=> at[t] = "idle"
    /\ at[t] \in {"debit", "credit"} => job[t].amount # NotANumber
    /\ at[t] \in {"take", "show", "write", "from", "to", "debit"} => moves[t] = 0
    /\ at[t] = "credit" => moves[t] = 1
    /\ at[t] # "idle" => answer[t] = "pending"
    /\ at[t] \in {"idle", "take", "from"} => read[t] = 0
    /\ answer[t] = "transferred" => moves[t] = 2
    /\ answer[t] \in {"insufficient", "invalid"} => moves[t] = 0

Apart == \A t, u \in Threads : conn[t] = conn[u] => t = u \/ conn[t] = NoConn

\* Together these are the local part of the invariant.
LEMMA Parts == Local <=> Types /\ Locals /\ (\A t \in Threads : Fits(t)) /\ Apart
BY DEF Local, TypeOK, StageFits, AnswerTrue, Types, Locals, Fits, Apart

\* The variables of the other threads stay as they are.
Others(t) ==
    \A u \in Threads \ {t} :
        /\ at'[u] = at[u] /\ job'[u] = job[u] /\ conn'[u] = conn[u]
        /\ read'[u] = read[u] /\ moves'[u] = moves[u] /\ answer'[u] = answer[u]

\* A step is judged by what it does to the thread that takes it.
LEMMA OneThread ==
    ASSUME Local, NEW t \in Threads, Others(t), Types', Locals', Fits(t)',
           conn'[t] \in {conn[t], NoConn} \/ conn'[t] \notin Held
    PROVE  Local'
<1>1. ASSUME NEW u \in Threads PROVE Fits(u)'
  <2>1. CASE u = t
    BY <2>1
  <2>2. CASE u # t
    BY <2>2, Parts DEF Others, Fits
  <2> QED
    BY <2>1, <2>2
<1>2. Apart'
  BY Parts DEF Apart, Others, Held, Locals
<1>3. Local' <=> Types' /\ Locals' /\ (\A u \in Threads : Fits(u)') /\ Apart'
  BY DEF Local, TypeOK, StageFits, AnswerTrue, Types, Locals, Fits, Apart
<1> QED
  BY <1>1, <1>2, <1>3

\* Of moves only the thread's own entry changes.
OnlyMoves(t) ==
    /\ moves' \in [Threads -> 0..2]
    /\ \A u \in Threads \ {t} : moves'[u] = moves[u]

\* A command that answers says what it did.
LEMMA Finishing ==
    ASSUME Local, NEW t \in Threads, NEW text, Finish(t, text), Types',
           text \in Answers \ {"pending"},
           OnlyMoves(t),
           text = "transferred" => moves'[t] = 2,
           text \in {"insufficient", "invalid"} => moves'[t] = 0
    PROVE  Local'
<1> USE Parts
<1>1. Others(t)
  BY DEF OnlyMoves, Others, Finish, Goto, Locals
<1>2. Locals'
  BY DEF OnlyMoves, Locals, Finish, Goto, Stages
<1>3. Fits(t)'
  BY DEF Fits, Locals, Finish, Goto
<1>4. conn'[t] = NoConn
  BY DEF OnlyMoves, Locals, Finish
<1> QED
  BY <1>1, <1>2, <1>3, <1>4, OneThread

\* A command that goes on to its next stage.
LEMMA Continuing ==
    ASSUME Local, NEW t \in Threads, NEW s \in {"to", "debit", "credit"}, Types',
           Goto(t, s), UNCHANGED <<job, conn, answer>>,
           NEW r \in Int, read' = [read EXCEPT ![t] = r],
           OnlyMoves(t),
           s = "credit" => moves'[t] = 1,
           s # "credit" => moves'[t] = 0,
           at[t] \notin {"idle", "take"},
           s # "to" => job[t].amount # NotANumber
    PROVE  Local'
<1> USE Parts
<1>1. Others(t)
  BY DEF OnlyMoves, Others, Goto, Locals
<1>2. Locals'
  BY DEF OnlyMoves, Locals, Goto, Stages
<1>3. Fits(t)'
  BY DEF Fits, Locals, Goto
<1>4. conn'[t] = conn[t]
  OBVIOUS
<1> QED
  BY <1>1, <1>2, <1>3, <1>4, OneThread

\* What breaks a connection or not leaves the types alone.
LEMMA Wires ==
    ASSUME Local, NEW t \in Threads, at[t] \notin {"idle", "take"},
           Answered(t) \/ Breaks(t) \/ Unheard(t)
    PROVE  broken' \in SUBSET Conns
BY Parts DEF Fits, Locals, Types, Answered, Breaks, Unheard

-----------------------------------------------------------------------------
\* In the beginning nothing has happened.
LEMMA LocalInit == Init => Local
<1> SUFFICES ASSUME Init PROVE Local
  OBVIOUS
<1>1. Types
  BY PaymentsAssumption DEF Init, Types
<1>2. Locals
  BY DEF Init, Locals, Stages, Answers
<1>3. ASSUME NEW t \in Threads PROVE Fits(t)
  BY DEF Init, Fits
<1>4. Apart
  BY DEF Init, Apart
<1> QED
  BY <1>1, <1>2, <1>3, <1>4, Parts

\* A thread asks for a command.
LEMMA LocalAsk ==
    ASSUME Local, NEW t \in Threads, NEW c \in Commands, Ask(t, c)
    PROVE  Local'
<1> USE Parts
<1>1. Others(t)
  BY DEF Others, Ask, Goto, Locals
<1>2. Types'
  BY PaymentsAssumption DEF Ask, Types, store
<1>3. Locals'
  BY DEF Locals, Ask, Goto, Stages, Answers
<1>4. c # NoCommand
  BY DEF Commands, NoCommand
<1>5. Fits(t)'
  BY <1>4 DEF Fits, Locals, Ask, Goto
<1>6. conn'[t] = conn[t]
  BY DEF Ask
<1> QED
  BY <1>1, <1>2, <1>3, <1>5, <1>6, OneThread

\* A thread gets a connection nobody has, or none.
LEMMA LocalTake ==
    ASSUME Local, NEW t \in Threads, Take(t), UNCHANGED commands
    PROVE  Local'
<1> USE Parts
<1>0. Types' /\ at[t] = "take" /\ Fits(t)
  BY DEF Take, Types, store, Finish
<1>1. ASSUME NEW c \in Conns \ Held, conn' = [conn EXCEPT ![t] = c],
             Goto(t, job[t].first),
             UNCHANGED <<job, read, answer, failed, store, broken, moves>>
      PROVE  Local'
  <2>0. job[t] \in Commands /\ job[t].first \in {"show", "write", "from"}
    BY <1>0 DEF Fits, Locals, Commands
  <2>1. Others(t)
    BY <1>1 DEF Others, Goto, Locals
  <2>2. Locals'
    BY <1>1, <2>0 DEF Locals, Goto, Stages
  <2>3. conn'[t] = c /\ c # NoConn
    BY <1>1, PaymentsAssumption DEF Locals
  <2>4. read[t] = 0
    BY <1>0 DEF Fits
  <2>5. Fits(t)'
    BY <1>0, <1>1, <2>0, <2>3, <2>4 DEF Fits, Locals, Goto
  <2> QED
    BY <1>0, <1>1, <2>1, <2>2, <2>3, <2>5, OneThread
<1>2. ASSUME Finish(t, "error"), UNCHANGED moves PROVE Local'
  BY <1>0, <1>2, Finishing DEF Answers, Locals, OnlyMoves
<1> QED
  BY <1>1, <1>2 DEF Take

\* /money
LEMMA LocalShow ==
    ASSUME Local, NEW t \in Threads, Show(t), UNCHANGED commands
    PROVE  Local'
<1> USE Parts
<1>1. at[t] = "show" /\ Fits(t)  /\ OnlyMoves(t)
  BY DEF Show, Locals, OnlyMoves
<1>2. Types'
  BY <1>1, Wires DEF Show, Types, store, Finish
<1>3. \E text \in {"none", "balance", "error"} : Finish(t, text)
  BY DEF Show
<1> QED
  BY <1>1, <1>2, <1>3, Finishing DEF Answers

\* /setmoney
LEMMA LocalWrite ==
    ASSUME Local, NEW t \in Threads, Write(t), UNCHANGED commands
    PROVE  Local'
<1> USE Parts
<1>1. at[t] = "write" /\ Fits(t)  /\ OnlyMoves(t)
  BY DEF Write, Locals, OnlyMoves
<1>2. /\ job[t].from \in Players
      /\ job[t].amount \in Int \/ job[t].amount = NotANumber
  BY <1>1 DEF Fits, Locals, Commands, Numbers
<1>3. broken' \in SUBSET Conns
  BY <1>1, Wires DEF Write
<1>4. Put(job[t].from, job[t].amount) \/ UNCHANGED store
  BY DEF Write
<1>5. Types'
  BY <1>2, <1>3, <1>4 DEF Write, Types, store, Finish, Put
<1>6. \E text \in {"set", "error"} : Finish(t, text)
  BY DEF Write
<1> QED
  BY <1>1, <1>5, <1>6, Finishing DEF Answers

\* /pay reads the sender's balance ...
LEMMA LocalReadFrom ==
    ASSUME Local, NEW t \in Threads, ReadFrom(t), UNCHANGED commands
    PROVE  Local'
<1> USE Parts
<1>1. at[t] = "from" /\ Fits(t) /\ moves[t] = 0 /\ moves'[t] = 0 /\ OnlyMoves(t)
  BY DEF ReadFrom, Locals, Fits, OnlyMoves
<1>2. Types'
  BY <1>1, Wires DEF ReadFrom, Types, store, Finish, Continue
<1>3. job[t].from \in Players /\ money[job[t].from] \in Int /\ read[t] \in Int
  BY <1>1 DEF Fits, Locals, Commands, Types
<1>4. ASSUME NEW text \in {"invalid", "error"}, Finish(t, text) PROVE Local'
  BY <1>1, <1>2, <1>4, Finishing DEF Answers
<1>5. ASSUME NEW r \in Int, read' = [read EXCEPT ![t] = r], Goto(t, "to"),
             UNCHANGED <<job, conn, answer>>
      PROVE  Local'
  BY <1>1, <1>2, <1>5, Continuing
<1>6. Continue(t, "to") => read' = [read EXCEPT ![t] = read[t]]
  BY DEF Continue, Locals
<1> QED
  BY <1>3, <1>4, <1>5, <1>6 DEF ReadFrom, Continue

\* ... and the recipient's, and decides ...
LEMMA LocalReadTo ==
    ASSUME Local, NEW t \in Threads, ReadTo(t), UNCHANGED commands
    PROVE  Local'
<1> USE Parts
<1>1. at[t] = "to" /\ Fits(t) /\ moves[t] = 0 /\ moves'[t] = 0 /\ OnlyMoves(t)
  BY DEF ReadTo, Locals, Fits, OnlyMoves
<1>2. broken' \in SUBSET Conns
  BY <1>1, Wires DEF ReadTo
<1>3. ASSUME NEW text \in {"invalid", "insufficient", "error"}, Finish(t, text) PROVE Local'
  <2>1. Types'
    BY <1>2, <1>3 DEF ReadTo, Types, store, Finish
  <2> QED
    BY <1>1, <1>3, <2>1, Finishing DEF Answers
<1>4. ASSUME Continue(t, "debit"), job[t].amount # NotANumber PROVE Local'
  <2>1. Types'
    BY <1>2, <1>4 DEF ReadTo, Types, store, Continue
  <2>2. read[t] \in Int /\ read' = [read EXCEPT ![t] = read[t]]
    BY <1>4 DEF Continue, Locals
  <2> QED
    BY <1>1, <1>4, <2>1, <2>2, Continuing DEF Continue
<1> QED
  BY <1>3, <1>4 DEF ReadTo, Decide

\* ... an INCRBY over its connection, executed or not ...
LEMMA Added ==
    ASSUME Local, NEW t \in Threads, at[t] \in {"debit", "credit"},
           NEW p \in Players, NEW a \in Int, Add(t, p, a),
           broken' \in SUBSET Conns, failed' \in SUBSET {"giving", "taking"},
           UNCHANGED commands
    PROVE  /\ Types'
           /\ OnlyMoves(t)
           /\ moves'[t] = moves[t] + 1
           /\ moves[t] = IF at[t] = "debit" THEN 0 ELSE 1
<1> USE Parts
<1>1. Fits(t)
  OBVIOUS
<1> QED
  BY <1>1 DEF Types, Add, Fits, Locals, OnlyMoves

\* ... takes the money ...
LEMMA LocalDebit ==
    ASSUME Local, NEW t \in Threads, Debit(t), UNCHANGED commands
    PROVE  Local'
<1> USE Parts
<1> DEFINE p == job[t].from
           a == -job[t].amount
<1>1. at[t] = "debit" /\ Fits(t) /\ moves[t] = 0
  BY DEF Debit, Fits
<1>2. p \in Players /\ a \in Int
  BY <1>1 DEF Fits, Locals, Commands, Numbers
<1>3. broken' \in SUBSET Conns
  BY <1>1, Wires DEF Debit, IncrBy
<1>4. ASSUME Add(t, p, a), Continue(t, "credit") PROVE Local'
  <2>1. Types' /\ moves'[t] = 1 /\ OnlyMoves(t)
    BY <1>1, <1>2, <1>3, <1>4, Added DEF Continue, Types
  <2>2. read[t] \in Int /\ read' = [read EXCEPT ![t] = read[t]]
    BY <1>4 DEF Continue, Locals
  <2> QED
    BY <1>1, <1>4, <2>1, <2>2, Continuing DEF Continue, Fits
<1>5. ASSUME Add(t, p, a), Finish(t, "error") PROVE Local'
  <2>1. Types' /\ moves'[t] = 1 /\ OnlyMoves(t)
    BY <1>1, <1>2, <1>3, <1>5, Added DEF Finish, Types
  <2> QED
    BY <1>5, <2>1, Finishing DEF Answers
<1>6. ASSUME UNCHANGED <<store, moves>>, Finish(t, "error") PROVE Local'
  <2>1. Types' /\ moves'[t] = 0 /\ OnlyMoves(t)
    BY <1>1, <1>3, <1>6 DEF Finish, Types, store, Locals, OnlyMoves
  <2> QED
    BY <1>6, <2>1, Finishing DEF Answers
<1> QED
  BY <1>4, <1>5, <1>6 DEF Debit, IncrBy

\* ... and gives it.
LEMMA LocalCredit ==
    ASSUME Local, NEW t \in Threads, Credit(t), UNCHANGED commands
    PROVE  Local'
<1> USE Parts
<1> DEFINE p == job[t].to
           a == job[t].amount
<1>1. at[t] = "credit" /\ Fits(t) /\ moves[t] = 1
  BY DEF Credit, Fits
<1>2. p \in Players /\ a \in Int
  BY <1>1 DEF Fits, Locals, Commands, Numbers
<1>3. broken' \in SUBSET Conns
  BY <1>1, Wires DEF Credit, IncrBy
<1>4. ASSUME Add(t, p, a), NEW text \in {"transferred", "error"}, Finish(t, text) PROVE Local'
  <2>1. Types' /\ moves'[t] = 2 /\ OnlyMoves(t)
    BY <1>1, <1>2, <1>3, <1>4, Added DEF Finish, Types
  <2> QED
    BY <1>4, <2>1, Finishing DEF Answers
<1>5. ASSUME UNCHANGED <<store, moves>>, Finish(t, "error") PROVE Local'
  <2>1. Types' /\ moves'[t] = 1 /\ OnlyMoves(t)
    BY <1>1, <1>3, <1>5 DEF Finish, Types, store, Locals, OnlyMoves
  <2> QED
    BY <1>5, <2>1, Finishing DEF Answers
<1> QED
  BY <1>4, <1>5 DEF Credit, IncrBy

\* Every step keeps the types, the stages and the truth of the answers.
LEMMA LocalStep == Local /\ [Next]_vars => Local'
<1> SUFFICES ASSUME Local, [Next]_vars PROVE Local'
  OBVIOUS
<1>1. CASE UNCHANGED vars
  BY <1>1 DEF Local, TypeOK, StageFits, AnswerTrue, vars, store
<1>2. ASSUME NEW t \in Threads, NEW p \in Players, Ask(t, Command("show", p, p, 0))
      PROVE  Local'
  <2>1. Command("show", p, p, 0) \in Commands
    BY PaymentsAssumption DEF Command, Commands, Numbers
  <2> QED
    BY <1>2, <2>1, LocalAsk
<1>3. ASSUME NEW t \in Threads, NEW p \in Players, NEW a \in Settings,
             Ask(t, Command("write", p, p, a))
      PROVE  Local'
  <2>1. Command("write", p, p, a) \in Commands
    BY PaymentsAssumption DEF Command, Commands, Numbers
  <2> QED
    BY <1>3, <2>1, LocalAsk
<1>4. ASSUME NEW t \in Threads, NEW p \in Players, NEW q \in Players,
             NEW a \in Amounts \cup {NotANumber}, Ask(t, Command("from", p, q, a))
      PROVE  Local'
  <2>1. Command("from", p, q, a) \in Commands
    BY PaymentsAssumption DEF Command, Commands, Numbers
  <2> QED
    BY <1>4, <2>1, LocalAsk
<1>5. ASSUME NEW t \in Threads, Step(t), UNCHANGED commands PROVE Local'
  BY <1>5, LocalTake, LocalShow, LocalWrite, LocalReadFrom, LocalReadTo,
     LocalDebit, LocalCredit DEF Step
<1> QED
  BY <1>1, <1>2, <1>3, <1>4, <1>5 DEF Next

-----------------------------------------------------------------------------
\* Threads that have connections are no more than there are connections.
LEMMA FewHold ==
    ASSUME Local, NEW S \in SUBSET Threads, \A t \in S : at[t] \notin {"idle", "take"}
    PROVE  IsFiniteSet(S) /\ Cardinality(S) \in Nat /\ Cardinality(S) <= n
<1> DEFINE f == [t \in S |-> conn[t]]
<1> USE Parts
<1>1. \A t \in S : conn[t] \in Conns
  BY DEF Fits, Locals
<1>2. f \in [S -> Conns]
  BY <1>1
<1>3. \A t, u \in S : f[t] = f[u] => t = u
  BY <1>1, PaymentsAssumption DEF Apart
<1>4. f \in Injection(S, Conns)
  BY <1>2, <1>3 DEF Injection, IsInjective
<1>5. IsFiniteSet(Conns)
  BY PaymentsAssumption
<1> HIDE DEF f
<1>6. IsFiniteSet(S) /\ Cardinality(S) <= n
  BY <1>4, <1>5, FS_Injection DEF n
<1> QED
  BY <1>6, FS_CardinalityType

\* The payments approved for one player, then, are few, and their amounts
\* are amounts.
LEMMA ApprovedFits ==
    ASSUME Local, NEW p \in Players
    PROVE  /\ Approved(p) \in SUBSET Threads
           /\ IsFiniteSet(Approved(p)) /\ Cardinality(Approved(p)) \in Nat
           /\ Cardinality(Approved(p)) <= n
           /\ \A t \in Approved(p) : Due[t] \in 0..MaxAmount /\ Due[t] = job[t].amount
<1>1. Approved(p) \in SUBSET Threads /\ \A t \in Approved(p) : at[t] \notin {"idle", "take"}
  BY DEF Approved
<1>2. ASSUME NEW t \in Approved(p)
      PROVE  Due[t] \in 0..MaxAmount /\ Due[t] = job[t].amount
  <2>1. job[t] \in Commands
    BY <1>1, Parts DEF Fits, Locals
  <2>2. job[t].amount \in Numbers /\ job[t].amount > 0
    BY <2>1 DEF Commands, Approved
  <2> QED
    BY <1>1, <2>2, PaymentsAssumption DEF Due, Numbers
<1> QED
  BY <1>1, <1>2, FewHold

\* The same for all players, and after a step.
AllFit ==
    \A p \in Players :
        /\ IsFiniteSet(Approved(p)) /\ Cardinality(Approved(p)) <= n
        /\ \A t \in Approved(p) : Due[t] \in 0..MaxAmount /\ Due[t] = job[t].amount

\* Whatever holds by ApprovedFits before a step holds after it.
LEMMA ApprovedFitsAfter == Local' => AllFit'
<1>1. Local => AllFit
  BY ApprovedFits DEF AllFit
<1> QED
  BY <1>1, PTL

\* Funds are numbers, and no less than the balance; also after a step.
FundsFit ==
    \A p \in Players :
        Funds[p] \in Int /\ money[p] \in Int /\ Funds[p] >= money[p]

LEMMA FundsType == Local => FundsFit
BY DEF Local, TypeOK, Funds, FundsFit

LEMMA FundsTypeAfter == Local' => FundsFit'
BY FundsType, PTL

\* A step that leaves the store alone leaves the funds.
LEMMA SameFunds ==
    ASSUME Local, Local', UNCHANGED <<money, debt>>
    PROVE  Funds' = Funds /\ \A p \in Players : Funds'[p] >= Funds[p]
<1>1. Funds' = Funds
  BY DEF Funds
<1> QED
  BY <1>1, FundsType DEF FundsFit

\* INCRBY moves the funds as well, but for a credit that takes.
LEMMA FundsMove ==
    ASSUME Local, Local', NEW t \in Threads, NEW q \in Players, NEW a \in Int, Add(t, q, a)
    PROVE  \A p \in Players :
              Funds'[p] = IF p # q \/ (at[t] = "credit" /\ a < 0) THEN Funds[p]
                          ELSE Funds[p] + a
BY DEF Local, TypeOK, Funds, Add

\* Nothing is approved or paid, and the funds do not fall.
LEMMA Kept ==
    ASSUME Local, AllCovered, NEW p \in Players, Approved(p)' = Approved(p),
           \A t \in Approved(p) : job'[t] = job[t],
           Funds'[p] \in Int, Funds'[p] >= Funds[p]
    PROVE  Covered(Approved(p)', Due', Funds'[p])
<1>1. Covered(Approved(p), Due, Funds[p]) /\ Funds[p] \in Int
  BY FundsType DEF AllCovered, FundsFit
<1>2. \A t \in Approved(p) : Due'[t] = Due[t]
  BY ApprovedFits DEF Due
<1> QED
  BY <1>1, <1>2, ApprovedFits, More

\* One payment leaves, and takes no more than its amount.
LEMMA Left ==
    ASSUME Local, AllCovered, NEW p \in Players,
           NEW t \in Approved(p), Approved(p)' = Approved(p) \ {t},
           \A u \in Threads \ {t} : job'[u] = job[u],
           Funds'[p] \in Int, Funds'[p] >= Funds[p] - job[t].amount
    PROVE  Covered(Approved(p)', Due', Funds'[p])
<1>1. Covered(Approved(p), Due, Funds[p]) /\ Funds[p] \in Int
  BY FundsType DEF AllCovered, FundsFit
<1>2. Covered(Approved(p) \ {t}, Due, Funds'[p])
  BY <1>1, ApprovedFits, Leave
<1>3. \A u \in Approved(p) \ {t} : Due'[u] = Due[u]
  BY ApprovedFits DEF Due
<1>4. IsFiniteSet(Approved(p) \ {t})
  BY ApprovedFits, FS_RemoveElement
<1> QED
  BY <1>2, <1>3, <1>4, ApprovedFits, More

\* A thread that is not busy with a payment's check or debit before or after
\* its step leaves the approved payments as they are.
LEMMA SameApproved ==
    ASSUME Local, NEW t \in Threads, NEW p \in Players, Others(t), at' \in [Threads -> Stages],
           t \in Approved(p) <=> /\ at'[t] \in {"to", "debit"}
                                 /\ job'[t].from = p
                                 /\ job'[t].amount # NotANumber /\ job'[t].amount > 0
                                 /\ at'[t] = "to" => job'[t].amount <= read'[t]
    PROVE  Approved(p)' = Approved(p)
BY DEF Approved, Others

\* A command that ends takes its payment out.
LEMMA CoveredFinish ==
    ASSUME Local, Local', AllCovered, NEW t \in Threads, NEW text, Finish(t, text),
           \A p \in Players : Funds'[p] >= Funds[p]
    PROVE  AllCovered'
<1> SUFFICES ASSUME NEW p \in Players PROVE Covered(Approved(p)', Due', Funds'[p])
  BY DEF AllCovered
<1>1. /\ at'[t] = "idle"
      /\ \A u \in Threads \ {t} : at'[u] = at[u] /\ job'[u] = job[u] /\ read'[u] = read[u]
  BY Parts DEF Finish, Goto, Locals
<1>2. Approved(p)' = Approved(p) \ {t}
  BY <1>1 DEF Approved
<1>3. Funds'[p] \in Int /\ Funds[p] \in Int /\ Funds'[p] >= Funds[p]
  BY FundsType, FundsTypeAfter DEF FundsFit
<1>4. CASE t \in Approved(p)
  <2>1. job[t].amount \in 0..MaxAmount
    BY <1>4, ApprovedFits
  <2>2. Funds'[p] >= Funds[p] - job[t].amount
    BY <1>3, <2>1, PaymentsAssumption
  <2> QED
    BY <1>1, <1>2, <1>3, <1>4, <2>2, Left
<1>5. CASE t \notin Approved(p)
  <2>1. Approved(p)' = Approved(p) /\ \A u \in Approved(p) : job'[u] = job[u]
    BY <1>1, <1>2, <1>5 DEF Approved
  <2> QED
    BY <1>3, <2>1, Kept
<1> QED
  BY <1>4, <1>5

\* The debit takes the payment out together with its money.
LEMMA CoveredDebit ==
    ASSUME Local, Local', AllCovered, NEW t \in Threads, at[t] = "debit",
           at'[t] \notin {"to", "debit"},
           \A u \in Threads \ {t} : at'[u] = at[u] /\ job'[u] = job[u] /\ read'[u] = read[u],
           Add(t, job[t].from, -job[t].amount)
    PROVE  AllCovered'
<1> SUFFICES ASSUME NEW p \in Players PROVE Covered(Approved(p)', Due', Funds'[p])
  BY DEF AllCovered
<1>1. Approved(p)' = Approved(p) \ {t}
  BY DEF Approved
<1>2. job[t] \in Commands /\ job[t].amount # NotANumber
  BY Parts DEF Fits, Locals
<1>3. job[t].from \in Players /\ job[t].amount \in Int /\ -job[t].amount \in Int
  BY <1>2 DEF Commands, Numbers
<1>4. Funds'[p] \in Int /\ Funds[p] \in Int
  BY FundsType, FundsTypeAfter DEF FundsFit
<1>5. Funds'[p] = IF p = job[t].from THEN Funds[p] - job[t].amount ELSE Funds[p]
  <2>1. Funds'[p] = IF p # job[t].from THEN Funds[p] ELSE Funds[p] + (-job[t].amount)
    BY <1>3, FundsMove
  <2> QED
    BY <1>3, <1>4, <2>1
<1>6. CASE t \in Approved(p)
  <2>1. Funds'[p] >= Funds[p] - job[t].amount
    BY <1>4, <1>5, <1>6 DEF Approved
  <2> QED
    BY <1>1, <1>4, <1>6, <2>1, Left
<1>7. CASE t \notin Approved(p)
  <2>1. Approved(p)' = Approved(p) /\ \A u \in Approved(p) : job'[u] = job[u]
    BY <1>1, <1>7 DEF Approved
  <2>2. p = job[t].from => job[t].amount <= 0
    BY <1>2, <1>3, <1>7 DEF Approved
  <2>3. Funds'[p] >= Funds[p]
    BY <1>3, <1>4, <1>5, <2>2
  <2> QED
    BY <1>4, <2>1, <2>3, Kept
<1> QED
  BY <1>6, <1>7

\* A step that leaves the money and the approved payments as they are.
LEMMA CoveredSame ==
    ASSUME Local, Local', AllCovered, NEW t \in Threads,
           UNCHANGED <<money, debt>>,
           \A u \in Threads \ {t} : job'[u] = job[u],
           \A p \in Players : Approved(p)' = Approved(p) /\ (t \in Approved(p) => job'[t] = job[t])
    PROVE  AllCovered'
<1> SUFFICES ASSUME NEW p \in Players PROVE Covered(Approved(p)', Due', Funds'[p])
  BY DEF AllCovered
<1>1. Funds[p] \in Int /\ Funds'[p] = Funds[p]
  BY FundsType, SameFunds DEF FundsFit
<1>2. \A u \in Approved(p) : job'[u] = job[u]
  BY DEF Approved
<1> QED
  BY <1>1, <1>2, Kept

-----------------------------------------------------------------------------
\* No payment is approved before the first.
LEMMA CoveredInit == Init => AllCovered
<1> SUFFICES ASSUME Init, NEW p \in Players PROVE Covered(Approved(p), Due, Funds[p])
  BY DEF AllCovered
<1>1. Approved(p) = {} /\ Funds[p] = 0
  BY DEF Init, Approved, Funds
<1>2. (n - 1) * MaxAmount >= 0 /\ (n - 1) * MaxAmount \in Int
  BY Number, Multiples
<1> QED
  BY <1>1, <1>2 DEF Covered

\* A new command approves nothing ...
LEMMA CoveredAsk ==
    ASSUME Local, Local', AllCovered, NEW t \in Threads, NEW c \in Commands, Ask(t, c)
    PROVE  AllCovered'
<1>1. at[t] = "idle" /\ at'[t] = "take" /\ Others(t)
  BY Parts DEF Ask, Goto, Locals, Others
<1>2. \A p \in Players : Approved(p)' = Approved(p) /\ t \notin Approved(p)
  BY <1>1 DEF Approved, Others
<1> QED
  BY <1>1, <1>2, CoveredSame DEF Ask, store, Others

\* ... nor does getting a connection for it ...
LEMMA CoveredTake ==
    ASSUME Local, Local', AllCovered, NEW t \in Threads, Take(t)
    PROVE  AllCovered'
<1>1. CASE Finish(t, "error")
  <2>1. \A p \in Players : Funds'[p] >= Funds[p]
    BY SameFunds DEF Take, store
  <2> QED
    BY <1>1, <2>1, CoveredFinish
<1>2. CASE Goto(t, job[t].first) /\ UNCHANGED <<job, read>>
  <2>1. at[t] = "take" /\ at'[t] \in {"show", "write", "from"}
    BY <1>2, Parts DEF Take, Goto, Locals, Fits, Commands
  <2>2. \A p \in Players : Approved(p)' = Approved(p) /\ t \notin Approved(p)
    BY <1>2, <2>1, Parts DEF Approved, Goto, Locals
  <2> QED
    BY <1>2, <2>2, CoveredSame DEF Take, store
<1> QED
  BY <1>1, <1>2 DEF Take

\* ... nor /money.
LEMMA CoveredShow ==
    ASSUME Local, Local', AllCovered, NEW t \in Threads, Show(t)
    PROVE  AllCovered'
<1>1. \A p \in Players : Funds'[p] >= Funds[p]
  BY SameFunds DEF Show, store
<1>2. \E text \in Answers : Finish(t, text)
  BY DEF Show, Answers
<1> QED
  BY <1>1, <1>2, CoveredFinish

\* /setmoney puts funds that are not negative, with a connection that no
\* payment has.
LEMMA CoveredWrite ==
    ASSUME Local, Local', AllCovered, NEW t \in Threads, Write(t)
    PROVE  AllCovered'
<1>1. at[t] = "write" /\ \E text \in Answers : Finish(t, text)
  BY DEF Write, Answers
<1>2. CASE UNCHANGED store
  <2>1. \A p \in Players : Funds'[p] >= Funds[p]
    BY <1>2, SameFunds DEF store
  <2> QED
    BY <1>1, <2>1, CoveredFinish
<1>3. CASE Put(job[t].from, job[t].amount)
  <2> SUFFICES ASSUME NEW p \in Players PROVE Covered(Approved(p)', Due', Funds'[p])
    BY DEF AllCovered
  <2>1. /\ at'[t] = "idle"
        /\ \A u \in Threads \ {t} : at'[u] = at[u] /\ job'[u] = job[u] /\ read'[u] = read[u]
    BY <1>1, Parts DEF Finish, Goto, Locals
  <2>2. t \notin Approved(p) /\ Approved(p)' = Approved(p)
    BY <1>1, <2>1 DEF Approved
  <2>3. /\ money \in [Players -> Int] /\ debt \in [Players -> Nat]
        /\ job[t] \in Commands
    BY <1>1, Parts DEF Fits, Locals, Types
  <2>4. CASE p # job[t].from
    <3>1. Funds'[p] = Funds[p] /\ Funds[p] \in Int
      BY <1>3, <2>3, <2>4 DEF Put, Funds
    <3>2. \A u \in Approved(p) : job'[u] = job[u]
      BY <2>1, <2>2 DEF Approved
    <3> QED
      BY <2>2, <3>1, <3>2, Kept
  <2>5. CASE p = job[t].from
    <3>1. Funds'[p] \in Nat
      <4>1. job[t].amount \in Int \/ job[t].amount = NotANumber
        BY <2>3 DEF Commands, Numbers
      <4>2. Funds'[p] = money'[p] + debt'[p]
        BY DEF Funds
      <4> QED
        BY <1>3, <2>3, <2>5, <4>1, <4>2 DEF Put
    <3>2. /\ Approved(p) \cup {t} \in SUBSET Threads
          /\ \A u \in Approved(p) \cup {t} : at[u] \notin {"idle", "take"}
      BY <1>1 DEF Approved
    <3>3. Cardinality(Approved(p) \cup {t}) <= n
      BY <3>2, FewHold
    <3>4. Cardinality(Approved(p) \cup {t}) = Cardinality(Approved(p)) + 1
      BY <2>2, ApprovedFits, FS_AddElement
    <3>5. Cardinality(Approved(p)) < n
      BY <3>3, <3>4, ApprovedFits, Number
    <3>6. \A u \in Approved(p) : Due'[u] \in 0..MaxAmount
      BY <2>1, <2>2, ApprovedFits DEF Due
    <3> QED
      BY <2>2, <3>1, <3>5, <3>6, ApprovedFits, Afresh
  <2> QED
    BY <2>4, <2>5
<1> QED
  BY <1>2, <1>3 DEF Write

\* A payment is approved by a balance that is there at that moment.
LEMMA CoveredReadFrom ==
    ASSUME Local, Local', AllCovered, NEW t \in Threads, ReadFrom(t)
    PROVE  AllCovered'
<1>1. at[t] = "from" /\ UNCHANGED <<money, debt>> /\ read[t] = 0
  BY Parts DEF ReadFrom, store, Fits
<1>2. ASSUME NEW text, Finish(t, text) PROVE AllCovered'
  <2>1. \A p \in Players : Funds'[p] >= Funds[p]
    BY <1>1, SameFunds
  <2> QED
    BY <1>2, <2>1, CoveredFinish
<1>3. ASSUME Goto(t, "to"), job' = job, NEW r \in Int, read' = [read EXCEPT ![t] = r],
             r = 0 \/ r = money[job[t].from]
      PROVE  AllCovered'
  <2> SUFFICES ASSUME NEW p \in Players PROVE Covered(Approved(p)', Due', Funds'[p])
    BY DEF AllCovered
  <2>1. /\ at'[t] = "to" /\ read'[t] = r
        /\ \A u \in Threads \ {t} : at'[u] = at[u] /\ read'[u] = read[u]
    BY <1>3, Parts DEF Goto, Locals
  <2>2. t \notin Approved(p)
    BY <1>1 DEF Approved
  <2>3. Funds'[p] = Funds[p] /\ Funds[p] \in Int /\ money[p] \in Int /\ Funds[p] >= money[p]
    BY <1>1, SameFunds, FundsType DEF FundsFit
  <2>4. CASE t \notin Approved(p)'
    <3>1. Approved(p)' = Approved(p)
      BY <1>3, <2>1, <2>2, <2>4 DEF Approved
    <3> QED
      BY <1>3, <2>3, <3>1, Kept
  <2>5. CASE t \in Approved(p)'
    <3>1. job'[t].from = p /\ job'[t].amount > 0 /\ job'[t].amount <= r
      BY <2>1, <2>5 DEF Approved
    <3>2. job'[t].amount \in Int /\ job'[t].amount = Due'[t]
      BY <2>5, ApprovedFitsAfter, PaymentsAssumption DEF AllFit
    <3>3. Funds'[p] >= Due'[t]
      BY <1>3, <2>3, <3>1, <3>2
    <3> QED
      BY <2>3, <2>5, <3>2, <3>3, ApprovedFitsAfter, Join DEF AllFit
  <2> QED
    BY <2>4, <2>5
<1>4. money[job[t].from] \in Int
  BY <1>1, Parts DEF Fits, Locals, Commands, Types
<1>5. Continue(t, "to") => Goto(t, "to") /\ job' = job /\ read' = [read EXCEPT ![t] = 0]
  BY <1>1, Parts DEF Continue, Locals
<1> QED
  BY <1>2, <1>3, <1>4, <1>5 DEF ReadFrom

\* A decision confirms what the balance had approved, or drops it.
LEMMA CoveredReadTo ==
    ASSUME Local, Local', AllCovered, NEW t \in Threads, ReadTo(t)
    PROVE  AllCovered'
<1>1. at[t] = "to" /\ UNCHANGED <<money, debt>>
  BY DEF ReadTo, store
<1>2. ASSUME NEW text, Finish(t, text) PROVE AllCovered'
  <2>1. \A p \in Players : Funds'[p] >= Funds[p]
    BY <1>1, SameFunds
  <2> QED
    BY <1>2, <2>1, CoveredFinish
<1>3. ASSUME Continue(t, "debit"), ~ (read[t] < job[t].amount), job[t].amount # NotANumber
      PROVE  AllCovered'
  <2>1. job[t].amount \in Int /\ read[t] \in Int
    BY <1>1, <1>3, Parts DEF Fits, Locals, Commands, Numbers
  <2>2. /\ at'[t] = "debit" /\ job' = job /\ read' = read
        /\ \A u \in Threads \ {t} : at'[u] = at[u]
    BY <1>3, Parts DEF Continue, Goto, Locals
  <2>3. \A p \in Players : Approved(p)' = Approved(p)
    BY <1>1, <1>3, <2>1, <2>2 DEF Approved
  <2> QED
    BY <1>1, <2>2, <2>3, CoveredSame
<1> QED
  BY <1>2, <1>3 DEF ReadTo, Decide

\* A debit takes what was approved, or fails and takes nothing.
LEMMA CoveredDebitStep ==
    ASSUME Local, Local', AllCovered, NEW t \in Threads, Debit(t)
    PROVE  AllCovered'
<1>1. at[t] = "debit"
  BY DEF Debit
<1>2. ASSUME UNCHANGED store, Finish(t, "error") PROVE AllCovered'
  <2>1. \A p \in Players : Funds'[p] >= Funds[p]
    BY <1>2, SameFunds DEF store
  <2> QED
    BY <1>2, <2>1, CoveredFinish
<1>3. ASSUME Add(t, job[t].from, -job[t].amount), Continue(t, "credit") PROVE AllCovered'
  <2>1. /\ at'[t] = "credit"
        /\ \A u \in Threads \ {t} : at'[u] = at[u] /\ job'[u] = job[u] /\ read'[u] = read[u]
    BY <1>3, Parts DEF Continue, Goto, Locals
  <2> QED
    BY <1>1, <1>3, <2>1, CoveredDebit
<1>4. ASSUME Add(t, job[t].from, -job[t].amount), Finish(t, "error") PROVE AllCovered'
  <2>1. /\ at'[t] = "idle"
        /\ \A u \in Threads \ {t} : at'[u] = at[u] /\ job'[u] = job[u] /\ read'[u] = read[u]
    BY <1>4, Parts DEF Finish, Goto, Locals
  <2> QED
    BY <1>1, <1>4, <2>1, CoveredDebit
<1> QED
  BY <1>2, <1>3, <1>4 DEF Debit, IncrBy

\* A credit gives, or makes the debt that it takes.
LEMMA CoveredCredit ==
    ASSUME Local, Local', AllCovered, NEW t \in Threads, Credit(t)
    PROVE  AllCovered'
<1>1. at[t] = "credit" /\ \E text \in Answers : Finish(t, text)
  BY DEF Credit, IncrBy, Answers
<1>2. job[t] \in Commands /\ job[t].amount # NotANumber
  BY <1>1, Parts DEF Fits, Locals
<1>3. job[t].to \in Players /\ job[t].amount \in Int
  BY <1>2 DEF Commands, Numbers
<1>4. \A p \in Players : Funds[p] \in Int
  BY FundsType DEF FundsFit
<1>5. CASE UNCHANGED store
  BY <1>1, <1>5, SameFunds, CoveredFinish DEF store
<1>6. CASE Add(t, job[t].to, job[t].amount)
  <2>1. \A p \in Players : Funds'[p] >= Funds[p]
    BY <1>1, <1>3, <1>4, <1>6, FundsMove
  <2> QED
    BY <1>1, <2>1, CoveredFinish
<1> QED
  BY <1>5, <1>6 DEF Credit, IncrBy

\* Every step keeps what is approved covered.
LEMMA CoveredStep == Inv /\ [Next]_vars => AllCovered'
<1> SUFFICES ASSUME Inv, [Next]_vars PROVE AllCovered'
  OBVIOUS
<1>0. Local /\ Local' /\ AllCovered
  BY LocalStep DEF Inv
<1>1. CASE UNCHANGED vars
  <2> SUFFICES ASSUME NEW p \in Players PROVE Covered(Approved(p)', Due', Funds'[p])
    BY DEF AllCovered
  <2>1. Approved(p)' = Approved(p) /\ Due' = Due /\ Funds'[p] = Funds[p]
    BY <1>1 DEF vars, store, Approved, Due, Funds
  <2> QED
    BY <1>0, <2>1 DEF AllCovered
<1>2. ASSUME NEW t \in Threads, NEW p \in Players, Ask(t, Command("show", p, p, 0))
      PROVE  AllCovered'
  <2>1. Command("show", p, p, 0) \in Commands
    BY PaymentsAssumption DEF Command, Commands, Numbers
  <2> QED
    BY <1>0, <1>2, <2>1, CoveredAsk
<1>3. ASSUME NEW t \in Threads, NEW p \in Players, NEW a \in Settings,
             Ask(t, Command("write", p, p, a))
      PROVE  AllCovered'
  <2>1. Command("write", p, p, a) \in Commands
    BY PaymentsAssumption DEF Command, Commands, Numbers
  <2> QED
    BY <1>0, <1>3, <2>1, CoveredAsk
<1>4. ASSUME NEW t \in Threads, NEW p \in Players, NEW q \in Players,
             NEW a \in Amounts \cup {NotANumber}, Ask(t, Command("from", p, q, a))
      PROVE  AllCovered'
  <2>1. Command("from", p, q, a) \in Commands
    BY PaymentsAssumption DEF Command, Commands, Numbers
  <2> QED
    BY <1>0, <1>4, <2>1, CoveredAsk
<1>5. ASSUME NEW t \in Threads, Step(t) PROVE AllCovered'
  BY <1>0, <1>5, CoveredTake, CoveredShow, CoveredWrite, CoveredReadFrom,
     CoveredReadTo, CoveredDebitStep, CoveredCredit DEF Step
<1> QED
  BY <1>1, <1>2, <1>3, <1>4, <1>5 DEF Next

-----------------------------------------------------------------------------
\* The invariant: types, stages, answers and coverage.
THEOREM Invariant == Spec => []Inv
<1>1. Init => Inv
  BY LocalInit, CoveredInit DEF Inv
<1>2. Inv /\ [Next]_vars => Inv'
  BY LocalStep, CoveredStep DEF Inv
<1> QED
  BY <1>1, <1>2, PTL DEF Spec

\* The variables of the money commands always have their types.
THEOREM TypeCorrect == Spec => []TypeOK
<1>1. Inv => TypeOK
  BY DEF Inv, Local
<1> QED
  BY <1>1, Invariant, PTL

\* The answers of /pay say what happened to the money.
THEOREM AnswersTrue == Spec => []AnswerTrue
<1>1. Inv => AnswerTrue
  BY DEF Inv, Local
<1> QED
  BY <1>1, Invariant, PTL

\* However many threads pay and whatever breaks, no player is overdrawn by
\* more than one amount for each connection of the pool but one, and what
\* /setmoney and negative payments have put below zero.
THEOREM OverdraftIsBounded == Spec => []OverdraftBounded
<1>1. Inv => OverdraftBounded
  <2> SUFFICES ASSUME Inv, NEW p \in Players
               PROVE  money[p] >= 0 - debt[p] - (n - 1) * MaxAmount
    BY DEF OverdraftBounded, n
  <2>1. Covered(Approved(p), Due, Funds[p]) /\ Funds[p] \in Int
    BY FundsType DEF Inv, AllCovered, FundsFit
  <2>2. Funds[p] >= 0 - (n - 1) * MaxAmount
    BY <2>1, ApprovedFits, Bound DEF Inv
  <2>3. Funds[p] = money[p] + debt[p] /\ money[p] \in Int /\ debt[p] \in Nat
    BY DEF Funds, Inv, Local, TypeOK
  <2>4. (n - 1) * MaxAmount \in Int
    BY Number, Multiples
  <2> QED
    BY <2>2, <2>3, <2>4
<1> QED
  BY <1>1, Invariant, PTL

-----------------------------------------------------------------------------
(***************************************************************************)
(* Sums over finite sets                                                   *)
(***************************************************************************)

\* As far as the sums are known: h adds up the values of f over the sets in D.
NextSum(f, h, s) == IF s = {} THEN 0
                ELSE LET x == CHOOSE x \in s : TRUE IN f[x] + h[s \ {x}]
IsSum(f, h, D) == h = [s \in D |-> NextSum(f, h, s)]

\* The sum of f over S.
Sum(f, S) == MapThenSumSet(LAMBDA x : f[x], S)

\* The least number principle.
LEMMA LeastElement ==
    ASSUME NEW T \in SUBSET Nat, T # {}
    PROVE  \E k \in T : \A m \in T : k <= m
<1>1. PICK k \in T : \A m \in T : <<m, k>> \notin OpToRel(<, Nat)
  BY NatLessThanWellFounded, WFMin
<1>2. \A m \in T : ~(m < k)
  BY <1>1 DEF OpToRel
<1> QED
  BY <1>2

\* Of the sets in B one has no smaller one in B: what holds for the others
\* without one of their elements holds for all.
LEMMA SmallestSet ==
    ASSUME NEW S, IsFiniteSet(S), NEW B \in SUBSET (SUBSET S), B # {}
    PROVE  \E s \in B : \A x \in s : s \ {x} \notin B
<1> DEFINE sizes == {Cardinality(s) : s \in B}
<1>1. \A s \in B : IsFiniteSet(s) /\ Cardinality(s) \in Nat
  BY FS_Subset, FS_CardinalityType
<1>2. PICK k \in sizes : \A m \in sizes : k <= m
  <2>1. sizes \in SUBSET Nat /\ sizes # {}
    BY <1>1
  <2> HIDE DEF sizes
  <2> QED
    BY <2>1, LeastElement
<1>3. PICK s \in B : k = Cardinality(s)
  OBVIOUS
<1>4. ASSUME NEW x \in s, s \ {x} \in B PROVE FALSE
  <2>1. Cardinality(s \ {x}) = Cardinality(s) - 1
    BY <1>1, FS_RemoveElement
  <2>2. Cardinality(s \ {x}) \in sizes
    BY <1>4
  <2>3. k <= Cardinality(s \ {x})
    <3> HIDE DEF sizes
    <3> QED
      BY <1>2, <2>2
  <2> QED
    BY <1>1, <1>3, <2>1, <2>3
<1> QED
  BY <1>4

\* The element a sum takes first is one of the set's.
LEMMA Taken ==
    ASSUME NEW f, NEW h, NEW s, s # {}
    PROVE  \E c \in s : NextSum(f, h, s) = f[c] + h[s \ {c}]
<1> DEFINE c == CHOOSE x \in s : TRUE
<1>1. c \in s
  OBVIOUS
<1>2. NextSum(f, h, s) = f[c] + h[s \ {c}]
  BY DEF NextSum
<1> QED
  BY <1>1, <1>2

\* Sums of numbers over the parts of a finite set exist ...
LEMMA SumExists ==
    ASSUME NEW S, IsFiniteSet(S), NEW f, \A x \in S : f[x] \in Int
    PROVE  \E h : IsSum(f, h, SUBSET S)
<1> DEFINE Small(N) == {s \in SUBSET S : Cardinality(s) <= N}
           Sums(N) == {h \in [Small(N) -> Int] : \A s \in Small(N) : h[s] = NextSum(f, h, s)}
           Missing == {N \in Nat : Sums(N) = {}}
<1>1. \A s \in SUBSET S : IsFiniteSet(s) /\ Cardinality(s) \in Nat
  BY FS_Subset, FS_CardinalityType
<1>2. 0 \notin Missing
  <2> DEFINE h == [s \in Small(0) |-> 0]
  <2>1. ASSUME NEW s \in Small(0) PROVE NextSum(f, h, s) = 0
    <3>1. Cardinality(s) = 0 /\ IsFiniteSet(s)
      BY <1>1
    <3>2. s = {}
      BY <3>1, FS_EmptySet
    <3> QED
      BY <3>2 DEF NextSum
  <2>2. h \in Sums(0)
    BY <2>1
  <2> QED
    BY <2>2
<1>3. ASSUME NEW N \in Nat, Sums(N) # {} PROVE Sums(N + 1) # {}
  <2>1. PICK h \in [Small(N) -> Int] : \A s \in Small(N) : h[s] = NextSum(f, h, s)
    BY <1>3
  <2> DEFINE g == [s \in Small(N + 1) |-> NextSum(f, h, s)]
  <2>2. ASSUME NEW s \in Small(N + 1), NEW x \in s PROVE s \ {x} \in Small(N)
    <3>1. Cardinality(s \ {x}) = Cardinality(s) - 1
      BY <1>1, FS_RemoveElement
    <3> QED
      BY <1>1, <3>1
  <2>3. Small(N) \subseteq Small(N + 1)
    BY <1>1
  <2> HIDE DEF Small
  <2>4. ASSUME NEW s \in Small(N + 1) PROVE NextSum(f, h, s) \in Int
    <3>1. CASE s = {}
      BY <3>1 DEF NextSum
    <3>2. CASE s # {}
      <4>1. PICK c \in s : NextSum(f, h, s) = f[c] + h[s \ {c}]
        BY <3>2, Taken
      <4>2. f[c] \in Int
        BY DEF Small
      <4> QED
        BY <2>1, <2>2, <4>1, <4>2
    <3> QED
      BY <3>1, <3>2
  <2>5. \A s \in Small(N) : g[s] = h[s]
    BY <2>1, <2>3
  <2>6. ASSUME NEW s \in Small(N + 1) PROVE NextSum(f, g, s) = NextSum(f, h, s)
    <3>1. \A x \in s : g[s \ {x}] = h[s \ {x}]
      BY <2>2, <2>5
    <3> HIDE DEF g
    <3>2. s # {} => (CHOOSE x \in s : TRUE) \in s
      OBVIOUS
    <3> QED
      BY <3>1, <3>2 DEF NextSum
  <2>7. g \in [Small(N + 1) -> Int] /\ \A s \in Small(N + 1) : g[s] = NextSum(f, g, s)
    <3>1. \A s \in Small(N + 1) : g[s] = NextSum(f, h, s)
      OBVIOUS
    <3>2. g \in [Small(N + 1) -> Int]
      BY <2>4
    <3> HIDE DEF g
    <3> QED
      BY <2>6, <3>1, <3>2
  <2> HIDE DEF g
  <2> QED
    BY <2>7
<1>4. Missing = {}
  <2> HIDE DEF Sums
  <2> SUFFICES ASSUME Missing # {} PROVE FALSE
    OBVIOUS
  <2>1. PICK N \in Missing : \A m \in Missing : N <= m
    BY LeastElement
  <2>2. N # 0 /\ N - 1 \in Nat /\ N - 1 \notin Missing
    <3>1. N \in Nat /\ N # 0
      BY <1>2
    <3> HIDE DEF Missing
    <3> QED
      BY <2>1, <3>1
  <2>3. Sums(N - 1) # {} /\ N = (N - 1) + 1
    BY <2>2
  <2> QED
    BY <1>3, <2>2, <2>3
<1>5. PICK h : h \in Sums(Cardinality(S))
  <2> HIDE DEF Sums
  <2> QED
    BY <1>4, FS_CardinalityType
<1>6. Small(Cardinality(S)) = SUBSET S
  BY FS_Subset
<1>7. h = [s \in SUBSET S |-> NextSum(f, h, s)]
  BY <1>5, <1>6
<1> QED
  BY <1>7 DEF IsSum

\* What sums over the parts of S have in common.
Adds(f, h, S) ==
    /\ \A s \in SUBSET S : h[s] \in Int
    /\ \A s \in SUBSET S : s = {} => h[s] = 0
    /\ \A s \in SUBSET S : \A x \in s : h[s] = f[x] + h[s \ {x}]

\* ... are numbers, whichever element is taken first ...
LEMMA SumTakes ==
    ASSUME NEW S, IsFiniteSet(S), NEW f, \A x \in S : f[x] \in Int,
           NEW h, IsSum(f, h, SUBSET S)
    PROVE  Adds(f, h, S)
<1>1. \A s \in SUBSET S : h[s] = NextSum(f, h, s)
  <2> DEFINE g == [s \in SUBSET S |-> NextSum(f, h, s)]
  <2>1. h = g
    BY DEF IsSum
  <2> QED
    BY <2>1
<1>2. \A s \in SUBSET S : s = {} => h[s] = 0
  BY <1>1 DEF NextSum
<1>3. ASSUME NEW s \in SUBSET S, s # {} PROVE \E c \in s : h[s] = f[c] + h[s \ {c}]
  BY <1>1, <1>3, Taken
<1> DEFINE Odd == {s \in SUBSET S : h[s] \notin Int}
<1>4. Odd = {}
  <2> SUFFICES ASSUME Odd # {} PROVE FALSE
    OBVIOUS
  <2>1. PICK s \in Odd : \A x \in s : s \ {x} \notin Odd
    BY SmallestSet
  <2>2. s # {}
    BY <1>2
  <2>3. PICK c \in s : h[s] = f[c] + h[s \ {c}]
    BY <1>3, <2>2
  <2>4. h[s \ {c}] \in Int /\ f[c] \in Int
    BY <2>1
  <2> QED
    BY <2>3, <2>4
<1> DEFINE Wrong == {s \in SUBSET S : \E x \in s : h[s] # f[x] + h[s \ {x}]}
<1>5. Wrong = {}
  <2> SUFFICES ASSUME Wrong # {} PROVE FALSE
    OBVIOUS
  <2>1. PICK s \in Wrong : \A x \in s : s \ {x} \notin Wrong
    BY SmallestSet
  <2>2. PICK x \in s : h[s] # f[x] + h[s \ {x}]
    OBVIOUS
  <2>3. PICK c \in s : h[s] = f[c] + h[s \ {c}]
    BY <1>3
  <2> DEFINE r == s \ {c, x}
  <2>4. x # c /\ c \in s \ {x} /\ x \in s \ {c}
    BY <2>2, <2>3
  <2>5. (s \ {c}) \ {x} = r /\ (s \ {x}) \ {c} = r
    OBVIOUS
  <2>6. /\ s \ {c} \in SUBSET S /\ s \ {x} \in SUBSET S /\ r \in SUBSET S
        /\ s \ {c} \notin Wrong /\ s \ {x} \notin Wrong
    BY <2>1
  <2>7. h[s \ {c}] = f[x] + h[r] /\ h[s \ {x}] = f[c] + h[r]
    BY <2>4, <2>5, <2>6
  <2>8. f[x] \in Int /\ f[c] \in Int /\ h[r] \in Int
    BY <1>4, <2>6
  <2> HIDE DEF r
  <2> QED
    BY <2>2, <2>3, <2>7, <2>8
<1> QED
  BY <1>2, <1>4, <1>5 DEF Adds

\* ... and depend on nothing but the numbers.
LEMMA SumAlone ==
    ASSUME NEW S, IsFiniteSet(S), NEW f, NEW g,
           \A x \in S : f[x] \in Int /\ g[x] = f[x],
           NEW T \in SUBSET S,
           NEW h, IsSum(f, h, SUBSET S), NEW k, IsSum(g, k, SUBSET T)
    PROVE  k[T] = h[T]
<1>1. /\ IsFiniteSet(T) /\ T \subseteq S
      /\ \A x \in S : f[x] \in Int
      /\ \A x \in T : g[x] \in Int
  BY FS_Subset
<1>2. Adds(f, h, S) /\ Adds(g, k, T)
  BY <1>1, SumTakes
<1> DEFINE Differ == {s \in SUBSET T : k[s] # h[s]}
<1>4. Differ = {}
  <2> SUFFICES ASSUME Differ # {} PROVE FALSE
    OBVIOUS
  <2>1. PICK s \in Differ : \A x \in s : s \ {x} \notin Differ
    BY <1>1, SmallestSet
  <2>2. PICK x \in s : TRUE
    BY <1>1, <1>2 DEF Adds
  <2>3. h[s] = f[x] + h[s \ {x}] /\ k[s] = g[x] + k[s \ {x}] /\ f[x] = g[x]
    BY <1>1, <1>2 DEF Adds
  <2> QED
    BY <2>1, <2>3
<1> QED
  BY <1>4

\* The facts about sums that are used below.
LEMMA SumIs ==
    ASSUME NEW S, IsFiniteSet(S), NEW f, \A x \in S : f[x] \in Int,
           NEW h, IsSum(f, h, SUBSET S), NEW T \in SUBSET S
    PROVE  Sum(f, T) = h[T]
<1> DEFINE k == CHOOSE g : IsSum(f, g, SUBSET T)
<1>1. Sum(f, T) = k[T]
  BY DEF Sum, MapThenSumSet, MapThenFoldSet, IsSum, NextSum
<1>2. IsFiniteSet(T) /\ \A x \in T : f[x] \in Int
  BY FS_Subset
<1>3. \E g : IsSum(f, g, SUBSET T)
  BY <1>2, SumExists
<1>4. IsSum(f, k, SUBSET T)
  BY <1>3
<1> HIDE DEF k
<1> QED
  BY <1>1, <1>4, SumAlone

LEMMA SumFacts ==
    ASSUME NEW S, IsFiniteSet(S), NEW f, \A x \in S : f[x] \in Int
    PROVE  /\ Sum(f, S) \in Int
           /\ S = {} => Sum(f, S) = 0
           /\ \A x \in S : Sum(f, S) = f[x] + Sum(f, S \ {x})
           /\ \A x \in S : Sum(f, S \ {x}) \in Int
<1>1. PICK h : IsSum(f, h, SUBSET S)
  BY SumExists
<1>2. \A T \in SUBSET S : Sum(f, T) = h[T] /\ h[T] \in Int
  BY <1>1, SumIs, SumTakes DEF Adds
<1>3. (S = {} => h[S] = 0) /\ \A x \in S : h[S] = f[x] + h[S \ {x}]
  BY <1>1, SumTakes DEF Adds
<1> QED
  BY <1>2, <1>3

LEMMA SumSame ==
    ASSUME NEW S, IsFiniteSet(S), NEW f, NEW g, \A x \in S : f[x] \in Int /\ g[x] = f[x]
    PROVE  Sum(g, S) = Sum(f, S)
<1>1. (\A x \in S : f[x] \in Int) /\ (\A x \in S : g[x] \in Int)
  OBVIOUS
<1>2. PICK h : IsSum(f, h, SUBSET S)
  BY <1>1, SumExists
<1>3. PICK k : IsSum(g, k, SUBSET S)
  BY <1>1, SumExists
<1>4. Sum(f, S) = h[S] /\ Sum(g, S) = k[S]
  BY <1>1, <1>2, <1>3, SumIs
<1> QED
  BY <1>2, <1>3, <1>4, SumAlone

\* Nothing but zeros is zero.
LEMMA SumZero ==
    ASSUME NEW S, IsFiniteSet(S), NEW f, \A x \in S : f[x] = 0
    PROVE  Sum(f, S) = 0
<1> DEFINE zero == [s \in SUBSET S |-> 0]
<1>1. \A x \in S : f[x] \in Int
  OBVIOUS
<1>2. ASSUME NEW s \in SUBSET S PROVE NextSum(f, zero, s) = 0
  <2>1. CASE s = {}
    BY <2>1 DEF NextSum
  <2>2. CASE s # {}
    <3>1. PICK c \in s : NextSum(f, zero, s) = f[c] + zero[s \ {c}]
      <4> HIDE DEF zero
      <4> QED
        BY <2>2, Taken
    <3>2. f[c] = 0 /\ zero[s \ {c}] = 0
      OBVIOUS
    <3> QED
      BY <3>1, <3>2
  <2> QED
    BY <2>1, <2>2
<1>3. IsSum(f, zero, SUBSET S)
  BY <1>2 DEF IsSum
<1>4. Sum(f, S) = zero[S]
  BY <1>1, <1>3, SumIs
<1> QED
  BY <1>4

-----------------------------------------------------------------------------
(***************************************************************************)
(* The money                                                               *)
(***************************************************************************)

\* Payments that took the money and have not given it yet.
Credits == {t \in Threads : at[t] = "credit"}

Total == Sum(money, Players)
Owed == Sum(Due, Credits)

Balanced ==
    /\ "taking" \notin failed => Total + Owed <= minted
    /\ "giving" \notin failed => Total + Owed >= minted

\* What is on its way are numbers, of not more threads than have connections.
LEMMA CreditsFit ==
    ASSUME Local
    PROVE  /\ IsFiniteSet(Credits) /\ Credits \in SUBSET Threads
           /\ \A t \in Credits : Due[t] \in Int /\ Due[t] = job[t].amount
<1>1. Credits \in SUBSET Threads /\ \A t \in Credits : at[t] \notin {"idle", "take"}
  BY DEF Credits
<1>2. ASSUME NEW t \in Credits
      PROVE  Due[t] \in Int /\ Due[t] = job[t].amount
  <2>1. job[t] \in Commands /\ job[t].amount # NotANumber
    BY <1>1, Parts DEF Fits, Locals, Credits
  <2>2. job[t].amount \in Int
    BY <2>1 DEF Commands, Numbers
  <2> QED
    BY <1>1, <2>2 DEF Due
<1> QED
  BY <1>1, <1>2, FewHold

\* The sums are numbers.
LEMMA MoneyIsNumber ==
    ASSUME IsFiniteSet(Players), Local
    PROVE  Total \in Int /\ Owed \in Int /\ minted \in Int
<1>1. \A p \in Players : money[p] \in Int
  BY DEF Local, TypeOK
<1>2. Total \in Int
  BY <1>1, SumFacts DEF Total
<1>3. Owed \in Int
  BY CreditsFit, SumFacts DEF Owed
<1> QED
  BY <1>2, <1>3 DEF Local, TypeOK

\* One record changes, and the total with it.
LEMMA TotalMoves ==
    ASSUME IsFiniteSet(Players), Local, NEW p \in Players, NEW a \in Int,
           money' = [money EXCEPT ![p] = money[p] + a]
    PROVE  Total' = Total + a
<1> DEFINE rest == Players \ {p}
<1>1. money \in [Players -> Int]
  BY DEF Local, TypeOK
<1>2. money' \in [Players -> Int] /\ money'[p] = money[p] + a /\ money[p] \in Int
  BY <1>1
<1>3. \A q \in rest : money[q] \in Int /\ money'[q] = money[q]
  BY <1>1
<1>4. IsFiniteSet(rest)
  BY FS_RemoveElement
<1>5. Sum(money', rest) = Sum(money, rest)
  BY <1>3, <1>4, SumSame
<1>6. (\A q \in Players : money[q] \in Int) /\ (\A q \in Players : money'[q] \in Int)
  BY <1>1, <1>2
<1> HIDE DEF rest
<1>7. Sum(money, Players) = money[p] + Sum(money, rest) /\ Sum(money, rest) \in Int
  BY <1>6, SumFacts DEF rest
<1>8. Sum(money', Players) = money'[p] + Sum(money', rest)
  BY <1>6, SumFacts DEF rest
<1> QED
  BY <1>2, <1>5, <1>7, <1>8 DEF Total

\* What is on its way after a step are amounts as well.
CreditsAdd == IsFiniteSet(Credits) /\ \A t \in Credits : Due[t] \in Int

LEMMA CreditsFitAfter == Local' => CreditsAdd'
<1>1. Local => CreditsAdd
  BY CreditsFit DEF CreditsAdd
<1> QED
  BY <1>1, PTL

\* A payment takes its debit's money on the way ...
LEMMA OwedIn ==
    ASSUME Local, Local', NEW t \in Threads, at[t] # "credit", at'[t] = "credit",
           \A u \in Threads \ {t} : at'[u] = at[u] /\ job'[u] = job[u]
    PROVE  Owed' = Owed + Due'[t]
<1>1. t \in Credits' /\ Credits' \ {t} = Credits
  BY DEF Credits
<1>2. /\ IsFiniteSet(Credits') /\ Credits \in SUBSET Threads
      /\ \A u \in Credits' : Due'[u] \in Int
  BY CreditsFit, CreditsFitAfter DEF CreditsAdd
<1>3. \A u \in Credits : Due[u] \in Int /\ Due'[u] = Due[u]
  BY CreditsFit DEF Due, Credits
<1>4. Sum(Due', Credits) = Sum(Due, Credits) /\ Sum(Due, Credits) \in Int
  BY <1>3, CreditsFit, SumSame, SumFacts
<1>5. Sum(Due', Credits') = Due'[t] + Sum(Due', Credits' \ {t}) /\ Due'[t] \in Int
  BY <1>1, <1>2, SumFacts
<1>6. Sum(Due', Credits') = Due'[t] + Sum(Due, Credits)
  BY <1>1, <1>4, <1>5
<1> HIDE DEF Due, Credits
<1> QED
  BY <1>4, <1>5, <1>6 DEF Owed

\* ... and its end takes it off.
LEMMA OwedOut ==
    ASSUME Local, NEW t \in Threads, at[t] = "credit", at'[t] # "credit",
           \A u \in Threads \ {t} : at'[u] = at[u] /\ job'[u] = job[u]
    PROVE  Owed' = Owed - Due[t] /\ Due[t] = job[t].amount /\ Due[t] \in Int
<1> DEFINE rest == Credits \ {t}
<1>1. t \in Credits /\ Credits' = rest
  BY DEF Credits
<1>2. IsFiniteSet(rest)
  BY CreditsFit, FS_RemoveElement
<1>3. \A u \in rest : Due[u] \in Int /\ Due'[u] = Due[u]
  BY CreditsFit DEF Due
<1>4. Sum(Due', rest) = Sum(Due, rest)
  BY <1>2, <1>3, SumSame
<1>5. (\A u \in Credits : Due[u] \in Int) /\ IsFiniteSet(Credits)
  BY CreditsFit
<1> HIDE DEF rest
<1>6. Sum(Due, Credits) = Due[t] + Sum(Due, rest) /\ Sum(Due, rest) \in Int
  BY <1>1, <1>5, SumFacts DEF rest
<1>7. Due[t] \in Int /\ Due[t] = job[t].amount
  BY <1>1, CreditsFit
<1> QED
  BY <1>1, <1>4, <1>6, <1>7 DEF Owed

\* A thread that is not at the end of a payment leaves what is on its way.
LEMMA OwedSame ==
    ASSUME Local, NEW t \in Threads, at[t] # "credit", at'[t] # "credit",
           \A u \in Threads \ {t} : at'[u] = at[u] /\ job'[u] = job[u]
    PROVE  Owed' = Owed
<1>1. Credits' = Credits /\ t \notin Credits
  BY DEF Credits
<1>2. \A u \in Credits : Due[u] \in Int /\ Due'[u] = Due[u]
  BY <1>1, CreditsFit DEF Due, Credits
<1>3. Sum(Due', Credits) = Sum(Due, Credits)
  BY <1>2, CreditsFit, SumSame
<1> QED
  BY <1>1, <1>3 DEF Owed

\* A step that moves no money.
LEMMA BalanceStays ==
    ASSUME Local, Balanced, NEW t \in Threads, at[t] # "credit", at'[t] # "credit",
           \A u \in Threads \ {t} : at'[u] = at[u] /\ job'[u] = job[u],
           UNCHANGED store, failed \subseteq failed'
    PROVE  Balanced'
<1>1. Owed' = Owed
  BY OwedSame
<1>2. Total' = Total /\ minted' = minted
  BY DEF Total, store
<1> QED
  BY <1>1, <1>2 DEF Balanced

\* The end of a command: what it does to its thread, and when it is noted.
LEMMA Ending ==
    ASSUME Local, NEW t \in Threads, NEW text, Finish(t, text)
    PROVE  /\ at'[t] = "idle"
           /\ \A u \in Threads \ {t} : at'[u] = at[u] /\ job'[u] = job[u]
           /\ failed \subseteq failed'
           /\ text = "error" /\ at[t] \in {"debit", "credit"} =>
                 IF job[t].amount < 0 THEN "taking" \in failed' ELSE "giving" \in failed'
BY Parts DEF Finish, Goto, Locals

-----------------------------------------------------------------------------
\* /setmoney makes as much money as its record gains.
LEMMA BalanceWrite ==
    ASSUME IsFiniteSet(Players), Local, Local', Balanced, NEW t \in Threads, Write(t)
    PROVE  Balanced'
<1>1. at[t] = "write" /\ \E text \in Answers : Finish(t, text)
  BY DEF Write, Answers
<1>2. /\ at'[t] = "idle" /\ failed \subseteq failed'
      /\ \A u \in Threads \ {t} : at'[u] = at[u] /\ job'[u] = job[u]
  BY <1>1, Ending
<1>3. CASE UNCHANGED store
  BY <1>1, <1>2, <1>3, BalanceStays
<1>4. CASE Put(job[t].from, job[t].amount)
  <2> DEFINE p == job[t].from
             number == IF job[t].amount = NotANumber THEN 0 ELSE job[t].amount
  <2>1. job[t] \in Commands
    BY <1>1, Parts DEF Fits, Locals
  <2>2. p \in Players /\ number \in Int /\ money \in [Players -> Int]
    BY <2>1 DEF Commands, Numbers, Local, TypeOK
  <2>3. money' = [money EXCEPT ![p] = number] /\ minted' = minted + number - money[p]
    BY <1>4 DEF Put
  <2> HIDE DEF p, number
  <2> DEFINE a == number - money[p]
  <2>4. a \in Int /\ money[p] + a = number /\ minted' = minted + a
    BY <2>2, <2>3 DEF Local, TypeOK
  <2> HIDE DEF a
  <2>5. Total' = Total + a
    BY <2>2, <2>3, <2>4, TotalMoves
  <2>6. Owed' = Owed
    BY <1>1, <1>2, OwedSame
  <2>7. Total \in Int /\ Owed \in Int /\ minted \in Int
    BY MoneyIsNumber
  <2> QED
    BY <1>2, <2>4, <2>5, <2>6, <2>7 DEF Balanced
<1> QED
  BY <1>3, <1>4 DEF Write

\* A debit puts the money on its way; when its reply is lost, the money is
\* gone (or, of a negative amount, made) and the payment has failed.
LEMMA BalanceDebit ==
    ASSUME IsFiniteSet(Players), Local, Local', Balanced, NEW t \in Threads, Debit(t)
    PROVE  Balanced'
<1> DEFINE p == job[t].from
           a == job[t].amount
<1>1. at[t] = "debit" /\ job[t] \in Commands /\ a # NotANumber
  BY Parts DEF Debit, Fits, Locals
<1>2. p \in Players /\ a \in Int /\ -a \in Int
  BY <1>1 DEF Commands, Numbers
<1>3. CASE UNCHANGED store /\ Finish(t, "error")
  BY <1>1, <1>3, Ending, BalanceStays
<1>4. CASE Add(t, p, -a)
  <2>1. Total' = Total + (-a) /\ minted' = minted
    BY <1>2, <1>4, TotalMoves DEF Add
  <2>2. Total \in Int /\ Owed \in Int /\ minted \in Int
    BY MoneyIsNumber
  <2>3. CASE Continue(t, "credit")
    <3>1. /\ at'[t] = "credit" /\ job' = job /\ failed' = failed
          /\ \A u \in Threads \ {t} : at'[u] = at[u]
      BY <2>3, Parts DEF Continue, Goto, Locals
    <3>2. Owed' = Owed + Due'[t] /\ Due'[t] = a
      BY <1>1, <3>1, OwedIn DEF Due
    <3> HIDE DEF a
    <3> QED
      BY <1>2, <2>1, <2>2, <3>1, <3>2 DEF Balanced
  <2>4. CASE Finish(t, "error")
    <3>1. /\ IF a < 0 THEN "taking" \in failed' ELSE "giving" \in failed'
          /\ failed \subseteq failed' /\ Owed' = Owed
      BY <1>1, <2>4, Ending, OwedSame
    <3> HIDE DEF a
    <3> QED
      BY <1>2, <2>1, <2>2, <3>1 DEF Balanced
  <2> QED
    BY <1>4, <2>3, <2>4 DEF Debit, IncrBy, Finish
<1> QED
  BY <1>3, <1>4 DEF Debit, IncrBy

\* A credit takes it off the way and into the record, or it is lost and the
\* payment has failed.
LEMMA BalanceCredit ==
    ASSUME IsFiniteSet(Players), Local, Local', Balanced, NEW t \in Threads, Credit(t)
    PROVE  Balanced'
<1> DEFINE q == job[t].to
           a == job[t].amount
<1>1. at[t] = "credit" /\ job[t] \in Commands
  BY Parts DEF Credit, Fits, Locals
<1>2. q \in Players
  BY <1>1 DEF Commands
<1>3. \E text \in {"error", "transferred"} : Finish(t, text)
  BY DEF Credit, IncrBy
<1>4. /\ at'[t] = "idle" /\ failed \subseteq failed'
      /\ \A u \in Threads \ {t} : at'[u] = at[u] /\ job'[u] = job[u]
  BY <1>3, Ending
<1>5. Owed' = Owed - Due[t] /\ Due[t] = a /\ Due[t] \in Int
  BY <1>1, <1>4, OwedOut
<1>6. a \in Int /\ Owed' = Owed - a
  BY <1>5
<1>7. Total \in Int /\ Owed \in Int /\ minted \in Int
  BY MoneyIsNumber
<1>8. CASE Add(t, q, a)
  <2>1. Total' = Total + a /\ minted' = minted
    BY <1>2, <1>6, <1>8, TotalMoves DEF Add
  <2> HIDE DEF a
  <2> QED
    BY <1>4, <1>6, <1>7, <2>1 DEF Balanced
<1>9. CASE UNCHANGED store /\ Finish(t, "error")
  <2>1. Total' = Total /\ minted' = minted
    BY <1>9 DEF Total, store
  <2>2. IF a < 0 THEN "taking" \in failed' ELSE "giving" \in failed'
    BY <1>1, <1>9, Ending
  <2> HIDE DEF a
  <2> QED
    BY <1>4, <1>6, <1>7, <2>1, <2>2 DEF Balanced
<1> QED
  BY <1>8, <1>9 DEF Credit, IncrBy

\* The other steps move no money.
LEMMA BalanceStep ==
    ASSUME IsFiniteSet(Players), Local, Local', Balanced, [Next]_vars
    PROVE  Balanced'
<1>1. CASE UNCHANGED vars
  BY <1>1 DEF vars, store, Balanced, Total, Owed, Credits, Due
<1>2. ASSUME NEW t \in Threads, NEW text, Finish(t, text), UNCHANGED store, at[t] # "credit"
      PROVE  Balanced'
  BY <1>2, Ending, BalanceStays
<1>3. ASSUME NEW t \in Threads, NEW stage \in Stages \ {"credit"}, Goto(t, stage),
             UNCHANGED <<store, failed>>, at[t] # "credit",
             \A u \in Threads \ {t} : job'[u] = job[u]
      PROVE  Balanced'
  BY <1>3, BalanceStays, Parts DEF Goto, Locals
<1>4. ASSUME NEW t \in Threads, NEW c, Ask(t, c) PROVE Balanced'
  BY <1>3, <1>4, Parts DEF Ask, Locals, Stages
<1>5. ASSUME NEW t \in Threads, Take(t) PROVE Balanced'
  <2>1. CASE Goto(t, job[t].first) /\ UNCHANGED <<job, failed>>
    <3>1. job[t].first \in Stages \ {"credit"}
      BY <1>5, Parts DEF Take, Fits, Locals, Commands, Stages
    <3> QED
      BY <1>3, <1>5, <2>1, <3>1 DEF Take
  <2> QED
    BY <1>2, <1>5, <2>1 DEF Take
<1>6. ASSUME NEW t \in Threads, Show(t) PROVE Balanced'
  BY <1>2, <1>6 DEF Show
<1>7. ASSUME NEW t \in Threads, ReadFrom(t) PROVE Balanced'
  BY <1>2, <1>3, <1>7 DEF ReadFrom, Continue, Stages
<1>8. ASSUME NEW t \in Threads, ReadTo(t) PROVE Balanced'
  BY <1>2, <1>3, <1>8 DEF ReadTo, Decide, Continue, Stages
<1> QED
  BY <1>1, <1>4, <1>5, <1>6, <1>7, <1>8, BalanceWrite, BalanceDebit, BalanceCredit DEF Next, Step

\* The sums of MoneyKept are those.
LEMMA BalanceIsKept ==
    ASSUME Local
    PROVE  MoneyKept <=> Balanced
<1> DEFINE amounts == MapThenSumSet(LAMBDA t : job[t].amount, Credits)
           NextAmount(g, s) == IF s = {} THEN 0
                               ELSE LET x == CHOOSE x \in s : TRUE
                                    IN job[x].amount + g[s \ {x}]
           IsAmounts(g) == g = [s \in SUBSET Credits |-> NextAmount(g, s)]
           h == CHOOSE g : IsAmounts(g)
<1>1. amounts = h[Credits]
  BY DEF MapThenSumSet, MapThenFoldSet
<1>2. ASSUME NEW g, NEW s \in SUBSET Credits
      PROVE  NextSum(Due, g, s) = NextAmount(g, s)
  <2> DEFINE x == CHOOSE x \in s : TRUE
  <2>1. s # {} => x \in s
    OBVIOUS
  <2>2. s # {} => Due[x] = job[x].amount
    BY <2>1, CreditsFit
  <2> HIDE DEF x
  <2>3. CASE s = {}
    BY <2>3 DEF NextSum
  <2>4. CASE s # {}
    <3>1. NextSum(Due, g, s) = Due[x] + g[s \ {x}]
      BY <2>4 DEF NextSum, x
    <3>2. NextAmount(g, s) = job[x].amount + g[s \ {x}]
      BY <2>4 DEF x
    <3> HIDE DEF NextAmount
    <3> QED
      BY <2>2, <2>4, <3>1, <3>2
  <2> QED
    BY <2>3, <2>4
<1> HIDE DEF NextAmount
<1>3. \A g : IsSum(Due, g, SUBSET Credits) <=> IsAmounts(g)
  BY <1>2 DEF IsSum
<1>4. IsFiniteSet(Credits) /\ \A t \in Credits : Due[t] \in Int
  BY CreditsFit
<1>5. \E g : IsSum(Due, g, SUBSET Credits)
  BY <1>4, SumExists
<1>6. IsSum(Due, h, SUBSET Credits)
  <2> HIDE DEF IsAmounts
  <2>1. \E g : IsAmounts(g)
    BY <1>3, <1>5
  <2>2. IsAmounts(h)
    BY <2>1
  <2> HIDE DEF h
  <2> QED
    BY <1>3, <2>2
<1> HIDE DEF h
<1>7. h[Credits] = Owed
  BY <1>4, <1>6, SumIs DEF Owed
<1> HIDE DEF amounts
<1> QED
  BY <1>1, <1>7 DEF MoneyKept, Balanced, Total, Sum, amounts, Credits

\* With any number of players, the records and the payments on their way hold
\* what /setmoney made until a payment fails; one that fails destroys money,
\* or makes some when its amount is negative, and never the other way.
THEOREM MoneyIsKept == IsFiniteSet(Players) => (Spec => []MoneyKept)
<1> SUFFICES ASSUME IsFiniteSet(Players) PROVE Spec => []MoneyKept
  OBVIOUS
<1>1. Init => Balanced
  <2> SUFFICES ASSUME Init PROVE Balanced
    OBVIOUS
  <2>1. Credits = {}
    BY DEF Init, Credits
  <2>2. \A p \in Players : money[p] = 0 /\ money[p] \in Int
    BY DEF Init
  <2>3. Owed = 0
    BY <2>1, LocalInit, CreditsFit, SumFacts DEF Owed
  <2>4. Total = 0
    BY <2>2, SumZero DEF Total
  <2> QED
    BY <2>3, <2>4 DEF Init, Balanced
<1>2. Inv /\ Inv' /\ Balanced /\ [Next]_vars => Balanced'
  BY BalanceStep DEF Inv
<1>3. Inv /\ Balanced => MoneyKept
  BY BalanceIsKept DEF Inv
<1> QED
  BY <1>1, <1>2, <1>3, Invariant, PTL DEF Spec

=============================================================================
