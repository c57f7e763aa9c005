----------------------- MODULE ConnectionPoolProofs -----------------------
(***************************************************************************)
(* Proofs about ConnectionPool for any number of threads, any pool size,   *)
(* any names of connections, and connections that fail or not.             *)
(*                                                                         *)
(* Two parts of the invariant hold however the pool is used: the types and *)
(* who has which connection.  The third, about permits and counts, holds   *)
(* when closeAllConnections is called only while nobody uses the pool.     *)
(***************************************************************************)
EXTENDS ConnectionPool, FiniteSetTheorems, TLAPS

\* Every open connection waits in the queue or is worked with, once.
Accounted == Cardinality(open) = Cardinality(pooled) + Cardinality(Working)

\* The permits, with a socket or a connect() in progress for each one taken ...
PermitsKept ==
    /\ permits >= 0
    /\ permits + Cardinality(Holders) <= Max
    /\ Cardinality(open) + Cardinality(Connecting) <= Max

\* ... a thread that closes the pool has it to itself ...
CloserAlone ==
    /\ Closing = "never" => Closers = {}
    /\ \A t \in Closers : \A u \in Threads \ {t} : at[u] = "idle"

\* ... finds in it what it left there ...
CloserSees ==
    \A t \in Threads :
        /\ at[t] \in {"reset", "measure", "refill"} => open = {}
        /\ at[t] \in {"measure", "refill"} => current = 0
        /\ at[t] = "refill" => seen[t] = permits

\* ... and otherwise every connection is counted.
Counted == Closers = {} => current + Cardinality(Counting) = Cardinality(open)

Calm == PermitsKept /\ CloserAlone /\ CloserSees /\ Counted

Inv == TypeOK /\ OneHolder /\ Accounted /\ (Closing # "any" => Calm)

-----------------------------------------------------------------------------
Ind(s, S) == IF s \in S THEN 1 ELSE 0

\* A set of threads picked by their stage is finite.
LEMMA AtFinite ==
    ASSUME NEW S
    PROVE  IsFiniteSet(At(S)) /\ Cardinality(At(S)) \in Nat
<1>1. At(S) \in SUBSET Threads
  BY DEF At
<1> QED
  BY <1>1, PoolAssumption, FS_Subset, FS_CardinalityType

\* The same in the next state.
LEMMA AtFiniteNext ==
    ASSUME NEW S
    PROVE  IsFiniteSet(At(S)') /\ Cardinality(At(S)') \in Nat
<1>1. At(S)' \in SUBSET Threads
  BY DEF At
<1> QED
  BY <1>1, PoolAssumption, FS_Subset, FS_CardinalityType

\* One thread that moves enters or leaves such a set alone.
LEMMA Moved ==
    ASSUME TypeOK, NEW t \in Threads, NEW s, Goto(t, s), NEW S
    PROVE  /\ t \in At(S) <=> at[t] \in S
           /\ At(S)' = IF s \in S THEN At(S) \cup {t} ELSE At(S) \ {t}
           /\ Cardinality(At(S)') = Cardinality(At(S)) + Ind(s, S) - Ind(at[t], S)
           /\ (at[t] \in S <=> s \in S) => At(S)' = At(S)
<1>1. At(S)' = IF s \in S THEN At(S) \cup {t} ELSE At(S) \ {t}
  BY DEF At, TypeOK, Goto
<1>2. t \in At(S) <=> at[t] \in S
  BY DEF At
<1>3. IsFiniteSet(At(S)) /\ Cardinality(At(S)) \in Nat
  BY AtFinite
<1>4. (at[t] \in S <=> s \in S) => At(S)' = At(S)
  BY <1>1, <1>2
<1>5. CASE s \in S
  <2>1. Cardinality(At(S)') = IF t \in At(S) THEN Cardinality(At(S))
                                            ELSE Cardinality(At(S)) + 1
    BY <1>1, <1>3, <1>5, FS_AddElement
  <2> QED
    BY <1>1, <1>2, <1>3, <1>5, <1>4, <2>1 DEF Ind
<1>6. CASE s \notin S
  <2>1. Cardinality(At(S)') = IF t \in At(S) THEN Cardinality(At(S)) - 1
                                            ELSE Cardinality(At(S))
    BY <1>1, <1>3, <1>6, FS_RemoveElement
  <2> QED
    BY <1>1, <1>2, <1>3, <1>6, <1>4, <2>1 DEF Ind
<1> QED
  BY <1>5, <1>6

\* The sets of connections are finite too.
LEMMA ConnsFinite ==
    ASSUME TypeOK
    PROVE  /\ IsFiniteSet(open) /\ Cardinality(open) \in Nat
           /\ IsFiniteSet(pooled) /\ Cardinality(pooled) \in Nat
BY PoolAssumption, FS_Subset, FS_CardinalityType DEF TypeOK

-----------------------------------------------------------------------------
\* A new pool satisfies the invariant.
LEMMA Initially == Init => Inv
<1> SUFFICES ASSUME Init PROVE Inv
  OBVIOUS
<1>1. TypeOK /\ OneHolder
  BY PoolAssumption DEF Init, TypeOK, OneHolder, Working, At, Stages
<1>2. Working = {} /\ Holders = {} /\ Connecting = {} /\ Counting = {} /\ Closers = {}
  BY DEF Init, Working, Holders, Connecting, Counting, Closers, At, CloseStages
<1>3. Cardinality({}) = 0
  BY FS_EmptySet
<1>4. Accounted
  BY <1>2, <1>3 DEF Init, Accounted
<1>5. PermitsKept
  BY <1>2, <1>3, PoolAssumption DEF Init, PermitsKept
<1>6. CloserAlone /\ CloserSees
  BY <1>2 DEF Init, CloserAlone, CloserSees
<1>7. Counted
  BY <1>2, <1>3 DEF Init, Counted
<1> QED
  BY <1>1, <1>4, <1>5, <1>6, <1>7 DEF Inv, Calm

\* Every step keeps the types.
LEMMA TypeStep == TypeOK /\ [Next]_vars => TypeOK'
<1> SUFFICES ASSUME TypeOK, [Next]_vars PROVE TypeOK'
  OBVIOUS
<1> USE PoolAssumption DEF TypeOK, Goto, Stages
<1>1. CASE UNCHANGED vars
  BY <1>1 DEF vars
<1>2. ASSUME NEW t \in Threads, Ask(t) PROVE TypeOK'
  BY <1>2 DEF Ask, GetStages
<1>3. ASSUME NEW t \in Threads, Acquire(t) PROVE TypeOK'
  BY <1>3 DEF Acquire, GetStages
<1>4. ASSUME NEW t \in Threads, Wait(t) \/ GiveUp(t) PROVE TypeOK'
  BY <1>4 DEF Wait, GiveUp, GetStages
<1>5. ASSUME NEW t \in Threads, PollFinds(t) PROVE TypeOK'
  BY <1>5 DEF PollFinds, GetStages
<1>6. ASSUME NEW t \in Threads, PollFindsNone(t) \/ ConnectFails(t) PROVE TypeOK'
  BY <1>6 DEF PollFindsNone, ConnectFails, GetStages
<1>7. ASSUME NEW t \in Threads, Connect(t) PROVE TypeOK'
  BY <1>7 DEF Connect, GetStages
<1>8. ASSUME NEW t \in Threads, CountUp(t) PROVE TypeOK'
  BY <1>8 DEF CountUp, GetStages
<1>9. ASSUME NEW t \in Threads, Offer(t) PROVE TypeOK'
  BY <1>9 DEF Offer, GetStages
<1>10. ASSUME NEW t \in Threads, Release(t) PROVE TypeOK'
  BY <1>10 DEF Release, GetStages
<1>11. ASSUME NEW t \in Threads, CloseAll(t) \/ Drained(t) PROVE TypeOK'
  BY <1>11 DEF CloseAll, Drained, CloseStages
<1>12. ASSUME NEW t \in Threads, Drain(t) PROVE TypeOK'
  BY <1>12 DEF Drain, CloseStages
<1>13. ASSUME NEW t \in Threads, ResetCount(t) PROVE TypeOK'
  BY <1>13 DEF ResetCount, CloseStages
<1>14. ASSUME NEW t \in Threads, Measure(t) PROVE TypeOK'
  BY <1>14 DEF Measure, CloseStages
<1>15. ASSUME NEW t \in Threads, Refill(t) PROVE TypeOK'
  BY <1>15 DEF Refill, CloseStages
<1> QED
  BY <1>1, <1>2, <1>3, <1>4, <1>5, <1>6, <1>7, <1>8, <1>9, <1>10, <1>11,
     <1>12, <1>13, <1>14, <1>15
     DEF Next, GetStep, CloseStep

\* Every step keeps each connection with one holder.
LEMMA HolderStep == TypeOK /\ OneHolder /\ [Next]_vars => OneHolder'
<1> SUFFICES ASSUME TypeOK, OneHolder, [Next]_vars PROVE OneHolder'
  OBVIOUS
<1> USE DEF OneHolder
<1>a. ASSUME UNCHANGED <<pooled, open, mine>>, Working' = Working PROVE OneHolder'
  BY <1>a
<1>b. ASSUME NEW t \in Threads, NEW s, Goto(t, s), UNCHANGED <<pooled, open, mine>>,
             at[t] \in {"count", "using"} <=> s \in {"count", "using"}
      PROVE  OneHolder'
  <2>1. Working' = Working
    BY <1>b, Moved DEF Working
  <2> QED
    BY <1>a, <1>b, <2>1
<1>1. CASE UNCHANGED vars
  BY <1>1 DEF vars, Working, At
<1>2. ASSUME NEW t \in Threads, Ask(t) PROVE OneHolder'
  BY <1>2, <1>b DEF Ask
<1>3. ASSUME NEW t \in Threads, Acquire(t) PROVE OneHolder'
  BY <1>3, <1>b DEF Acquire
<1>4. ASSUME NEW t \in Threads, Wait(t) \/ GiveUp(t) PROVE OneHolder'
  BY <1>4, <1>b DEF Wait, GiveUp
<1>5. ASSUME NEW t \in Threads, PollFinds(t) PROVE OneHolder'
  <2>1. Working' = Working \cup {t} /\ t \notin Working
    BY <1>5, Moved DEF PollFinds, Working
  <2> QED
    BY <1>5, <2>1 DEF PollFinds, TypeOK, Working, At
<1>6. ASSUME NEW t \in Threads, PollFindsNone(t) \/ ConnectFails(t) PROVE OneHolder'
  BY <1>6, <1>b DEF PollFindsNone, ConnectFails
<1>7. ASSUME NEW t \in Threads, Connect(t) PROVE OneHolder'
  <2>1. Working' = Working \cup {t} /\ t \notin Working
    BY <1>7, Moved DEF Connect, Working
  <2> QED
    BY <1>7, <2>1 DEF Connect, TypeOK, Working, At
<1>8. ASSUME NEW t \in Threads, CountUp(t) PROVE OneHolder'
  BY <1>8, <1>b DEF CountUp
<1>9. ASSUME NEW t \in Threads, Offer(t) PROVE OneHolder'
  <2>1. Working' = Working \ {t} /\ t \in Working
    BY <1>9, Moved DEF Offer, Working
  <2> QED
    BY <1>9, <2>1 DEF Offer, TypeOK, Working, At
<1>10. ASSUME NEW t \in Threads, Release(t) PROVE OneHolder'
  BY <1>10, <1>b DEF Release
<1>11. ASSUME NEW t \in Threads, CloseAll(t) \/ Drained(t) PROVE OneHolder'
  BY <1>11, <1>b DEF CloseAll, Drained
<1>12. ASSUME NEW t \in Threads, Drain(t) PROVE OneHolder'
  BY <1>12 DEF Drain, Working, At
<1>13. ASSUME NEW t \in Threads, ResetCount(t) \/ Measure(t) \/ Refill(t) PROVE OneHolder'
  BY <1>13, <1>b DEF ResetCount, Measure, Refill
<1> QED
  BY <1>1, <1>2, <1>3, <1>4, <1>5, <1>6, <1>7, <1>8, <1>9, <1>10, <1>11,
     <1>12, <1>13
     DEF Next, GetStep, CloseStep

\* Every step keeps the open connections equal in number to those queued and held.
LEMMA AccountStep == TypeOK /\ OneHolder /\ Accounted /\ [Next]_vars => Accounted'
<1> SUFFICES ASSUME TypeOK, OneHolder, Accounted, [Next]_vars PROVE Accounted'
  OBVIOUS
<1> DEFINE W == {"count", "using"}
<1>a. ASSUME UNCHANGED <<pooled, open>>, Cardinality(Working') = Cardinality(Working)
      PROVE  Accounted'
  BY <1>a DEF Accounted
<1>b. ASSUME NEW t \in Threads, NEW s, Goto(t, s), UNCHANGED <<pooled, open>>,
             at[t] \in W <=> s \in W
      PROVE  Accounted'
  <2>1. Working' = Working
    BY <1>b, Moved DEF Working
  <2> QED
    BY <1>a, <1>b, <2>1
<1>c. ASSUME NEW t \in Threads, NEW s, Goto(t, s)
      PROVE  Cardinality(Working') = Cardinality(Working) + Ind(s, W) - Ind(at[t], W)
  BY <1>c, Moved DEF Working
<1>d. Cardinality(Working) \in Nat
  BY AtFinite DEF Working
<1>1. CASE UNCHANGED vars
  BY <1>1 DEF vars, Accounted, Working, At
<1>2. ASSUME NEW t \in Threads, Ask(t) PROVE Accounted'
  BY <1>2, <1>b DEF Ask
<1>3. ASSUME NEW t \in Threads, Acquire(t) PROVE Accounted'
  BY <1>3, <1>b DEF Acquire
<1>4. ASSUME NEW t \in Threads, Wait(t) \/ GiveUp(t) PROVE Accounted'
  BY <1>4, <1>b DEF Wait, GiveUp
<1>5. ASSUME NEW t \in Threads, PollFinds(t) PROVE Accounted'
  <2>1. PICK c \in pooled : pooled' = pooled \ {c}
    BY <1>5 DEF PollFinds
  <2>2. Cardinality(pooled') = Cardinality(pooled) - 1
    BY <2>1, ConnsFinite, FS_RemoveElement
  <2>3. Cardinality(Working') = Cardinality(Working) + 1
    BY <1>5, <1>c, <1>d DEF PollFinds, Ind
  <2> QED
    BY <1>5, <1>d, <2>2, <2>3, ConnsFinite DEF PollFinds, Accounted
<1>6. ASSUME NEW t \in Threads, PollFindsNone(t) \/ ConnectFails(t) PROVE Accounted'
  BY <1>6, <1>b DEF PollFindsNone, ConnectFails
<1>7. ASSUME NEW t \in Threads, Connect(t) PROVE Accounted'
  <2>1. PICK c \in Conns \ open : open' = open \cup {c}
    BY <1>7 DEF Connect
  <2>2. Cardinality(open') = Cardinality(open) + 1
    BY <2>1, ConnsFinite, FS_AddElement
  <2>3. Cardinality(Working') = Cardinality(Working) + 1
    BY <1>7, <1>c, <1>d DEF Connect, Ind
  <2> QED
    BY <1>7, <1>d, <2>2, <2>3, ConnsFinite DEF Connect, Accounted
<1>8. ASSUME NEW t \in Threads, CountUp(t) PROVE Accounted'
  BY <1>8, <1>b DEF CountUp
<1>9. ASSUME NEW t \in Threads, Offer(t) PROVE Accounted'
  <2>1. mine[t] \notin pooled /\ pooled' = pooled \cup {mine[t]}
    BY <1>9 DEF Offer, OneHolder, Working, At
  <2>2. Cardinality(pooled') = Cardinality(pooled) + 1
    BY <2>1, ConnsFinite, FS_AddElement
  <2>3. Cardinality(Working') = Cardinality(Working) - 1
    BY <1>9, <1>c, <1>d DEF Offer, Ind
  <2> QED
    BY <1>9, <1>d, <2>2, <2>3, ConnsFinite DEF Offer, Accounted
<1>10. ASSUME NEW t \in Threads, Release(t) PROVE Accounted'
  BY <1>10, <1>b DEF Release
<1>11. ASSUME NEW t \in Threads, CloseAll(t) \/ Drained(t) PROVE Accounted'
  BY <1>11, <1>b DEF CloseAll, Drained
<1>12. ASSUME NEW t \in Threads, Drain(t) PROVE Accounted'
  <2>1. PICK c \in pooled : pooled' = pooled \ {c} /\ open' = open \ {c}
    BY <1>12 DEF Drain
  <2>2. c \in open
    BY <2>1 DEF OneHolder
  <2>3. /\ Cardinality(pooled') = Cardinality(pooled) - 1
        /\ Cardinality(open') = Cardinality(open) - 1
    BY <2>1, <2>2, ConnsFinite, FS_RemoveElement
  <2>4. Working' = Working
    BY <1>12 DEF Drain, Working, At
  <2> QED
    BY <1>d, <2>3, <2>4, ConnsFinite DEF Accounted
<1>13. ASSUME NEW t \in Threads, ResetCount(t) \/ Measure(t) \/ Refill(t) PROVE Accounted'
  BY <1>13, <1>b DEF ResetCount, Measure, Refill
<1> QED
  BY <1>1, <1>2, <1>3, <1>4, <1>5, <1>6, <1>7, <1>8, <1>9, <1>10, <1>11,
     <1>12, <1>13
     DEF Next, GetStep, CloseStep

\* While the pool is calm, a thread inside getConnection or returnConnection
\* shows that nobody is closing it.
LEMMA NobodyCloses ==
    ASSUME TypeOK, CloserAlone, NEW t \in Threads,
           at[t] \notin CloseStages \cup {"idle"}
    PROVE  Closers = {}
BY DEF CloserAlone, Closers, At

\* A thread that found the queue empty owns one permit more than there are
\* connections open and connections being made.
LEMMA RoomToConnect ==
    ASSUME TypeOK, OneHolder, Accounted, NEW t \in Threads,
           at[t] = "poll", pooled = {}
    PROVE  Cardinality(open) + Cardinality(Connecting) + 1 <= Cardinality(Holders)
<1>1. /\ IsFiniteSet(Working) /\ Cardinality(Working) \in Nat
      /\ IsFiniteSet(Connecting) /\ Cardinality(Connecting) \in Nat
      /\ IsFiniteSet(Holders) /\ Cardinality(Holders) \in Nat
  BY AtFinite DEF Working, Connecting, Holders
<1>2. Cardinality(open) = Cardinality(Working)
  BY <1>1, FS_EmptySet DEF Accounted
<1> DEFINE Both == Working \cup Connecting
<1>3. Working \cap Connecting = {}
  BY DEF Working, Connecting, At
<1>4. IsFiniteSet(Both) /\ Cardinality(Both) = Cardinality(Working) + Cardinality(Connecting)
  <2>1. Cardinality(Working \cap Connecting) = 0
    BY <1>3, FS_EmptySet
  <2>2. /\ IsFiniteSet(Both)
        /\ Cardinality(Both) = Cardinality(Working) + Cardinality(Connecting)
                                 - Cardinality(Working \cap Connecting)
    BY <1>1, FS_Union
  <2> QED
    BY <1>1, <2>1, <2>2
<1>5. t \notin Both
  BY DEF Working, Connecting, At
<1>6. /\ IsFiniteSet(Both \cup {t})
      /\ Cardinality(Both \cup {t}) = Cardinality(Both) + 1
  BY <1>4, <1>5, FS_AddElement
<1>7. Both \cup {t} \in SUBSET Holders
  BY DEF Working, Connecting, Holders, At
<1>8. Cardinality(Both \cup {t}) <= Cardinality(Holders)
  BY <1>1, <1>7, FS_Subset
<1> QED
  BY <1>1, <1>2, <1>4, <1>6, <1>8

\* Every step of a calm pool keeps permits and sockets within the maximum.
LEMMA PermitStep ==
    ASSUME TypeOK, OneHolder, Accounted, Calm, [Next]_vars, Closing # "any"
    PROVE  PermitsKept'
<1> DEFINE H == {"poll", "connect", "count", "using", "release"}
<1>0. /\ Cardinality(Holders) \in Nat /\ Cardinality(Connecting) \in Nat
      /\ Cardinality(open) \in Nat /\ permits \in Int /\ Max \in Nat
  BY AtFinite, ConnsFinite, PoolAssumption DEF Holders, Connecting, TypeOK
<1>k. PermitsKept
  BY DEF Calm
<1>a. ASSUME NEW t \in Threads, NEW s, Goto(t, s)
      PROVE  /\ Cardinality(Holders') = Cardinality(Holders) + Ind(s, H) - Ind(at[t], H)
             /\ Cardinality(Connecting') = Cardinality(Connecting)
                   + Ind(s, {"connect"}) - Ind(at[t], {"connect"})
  BY <1>a, Moved DEF Holders, Connecting
<1>b. ASSUME NEW t \in Threads, NEW s, Goto(t, s), UNCHANGED <<permits, open>>,
             at[t] \in H <=> s \in H, at[t] # "connect", s # "connect"
      PROVE  PermitsKept'
  BY <1>0, <1>a, <1>b, <1>k DEF PermitsKept, Ind
<1>1. CASE UNCHANGED vars
  BY <1>1, <1>k DEF vars, PermitsKept, Holders, Connecting, At
<1>2. ASSUME NEW t \in Threads, Ask(t) PROVE PermitsKept'
  BY <1>2, <1>b DEF Ask
<1>3. ASSUME NEW t \in Threads, Acquire(t) PROVE PermitsKept'
  <2>1. /\ Cardinality(Holders') = Cardinality(Holders) + 1
        /\ Cardinality(Connecting') = Cardinality(Connecting)
    BY <1>0, <1>3, <1>a DEF Acquire, Ind
  <2> QED
    BY <1>0, <1>3, <1>k, <2>1 DEF Acquire, PermitsKept
<1>4. ASSUME NEW t \in Threads, Wait(t) \/ GiveUp(t) PROVE PermitsKept'
  BY <1>4, <1>b DEF Wait, GiveUp
<1>5. ASSUME NEW t \in Threads, PollFinds(t) PROVE PermitsKept'
  BY <1>5, <1>b DEF PollFinds
<1>6. ASSUME NEW t \in Threads, PollFindsNone(t) PROVE PermitsKept'
  <2>1. /\ Cardinality(Holders') = Cardinality(Holders)
        /\ Cardinality(Connecting') = Cardinality(Connecting) + 1
    BY <1>0, <1>6, <1>a DEF PollFindsNone, Ind
  <2>2. Cardinality(open) + Cardinality(Connecting) + 1 <= Cardinality(Holders)
    BY <1>6, RoomToConnect DEF PollFindsNone
  <2> QED
    BY <1>0, <1>6, <1>k, <2>1, <2>2 DEF PollFindsNone, PermitsKept
<1>7. ASSUME NEW t \in Threads, Connect(t) PROVE PermitsKept'
  <2>1. /\ Cardinality(Holders') = Cardinality(Holders)
        /\ Cardinality(Connecting') = Cardinality(Connecting) - 1
    BY <1>0, <1>7, <1>a DEF Connect, Ind
  <2>2. PICK c \in Conns \ open : open' = open \cup {c}
    BY <1>7 DEF Connect
  <2>3. Cardinality(open') = Cardinality(open) + 1
    BY <2>2, ConnsFinite, FS_AddElement
  <2> QED
    BY <1>0, <1>7, <1>k, <2>1, <2>3 DEF Connect, PermitsKept
<1>8. ASSUME NEW t \in Threads, ConnectFails(t) PROVE PermitsKept'
  <2>1. /\ Cardinality(Holders') = Cardinality(Holders) - 1
        /\ Cardinality(Connecting') = Cardinality(Connecting) - 1
    BY <1>0, <1>8, <1>a DEF ConnectFails, Ind
  <2> QED
    BY <1>0, <1>8, <1>k, <2>1 DEF ConnectFails, PermitsKept
<1>9. ASSUME NEW t \in Threads, CountUp(t) \/ Offer(t) PROVE PermitsKept'
  BY <1>9, <1>b DEF CountUp, Offer
<1>10. ASSUME NEW t \in Threads, Release(t) PROVE PermitsKept'
  <2>1. /\ Cardinality(Holders') = Cardinality(Holders) - 1
        /\ Cardinality(Connecting') = Cardinality(Connecting)
    BY <1>0, <1>10, <1>a DEF Release, Ind
  <2> QED
    BY <1>0, <1>10, <1>k, <2>1 DEF Release, PermitsKept
<1>11. ASSUME NEW t \in Threads, CloseAll(t) \/ Drained(t) PROVE PermitsKept'
  BY <1>11, <1>b DEF CloseAll, Drained
<1>12. ASSUME NEW t \in Threads, Drain(t) PROVE PermitsKept'
  <2>1. open' \in SUBSET open
    BY <1>12 DEF Drain
  <2>2. Cardinality(open') \in Nat /\ Cardinality(open') <= Cardinality(open)
    BY <2>1, ConnsFinite, FS_Subset, FS_CardinalityType
  <2>3. Holders' = Holders /\ Connecting' = Connecting
    BY <1>12 DEF Drain, Holders, Connecting, At
  <2> QED
    BY <1>0, <1>12, <1>k, <2>2, <2>3 DEF Drain, PermitsKept
<1>13. ASSUME NEW t \in Threads, ResetCount(t) \/ Measure(t) PROVE PermitsKept'
  BY <1>13, <1>b DEF ResetCount, Measure
<1>14. ASSUME NEW t \in Threads, Refill(t) PROVE PermitsKept'
  <2>1. open' = {} /\ permits' = Max
    BY <1>0, <1>14, <1>k DEF Calm, Refill, CloserSees, PermitsKept
  <2>2. Holders' = {} /\ Connecting' = {}
    BY <1>14 DEF Calm, Refill, Goto, TypeOK, CloserAlone, Closers, CloseStages,
                 Holders, Connecting, At
  <2> QED
    BY <1>0, <2>1, <2>2, FS_EmptySet DEF PermitsKept
<1> QED
  BY <1>1, <1>2, <1>3, <1>4, <1>5, <1>6, <1>7, <1>8, <1>9, <1>10, <1>11,
     <1>12, <1>13, <1>14
     DEF Next, GetStep, CloseStep

\* Every step of a calm pool keeps its closer alone, with what it left behind.
LEMMA CloserStep ==
    ASSUME TypeOK, OneHolder, Calm, [Next]_vars, Closing # "any"
    PROVE  CloserAlone' /\ CloserSees'
<1> DEFINE Fine == CloserAlone' /\ CloserSees'
<1>k. CloserAlone /\ CloserSees
  BY DEF Calm
<1>a. ASSUME Closers' = {} PROVE Fine
  BY <1>a DEF CloserAlone, CloserSees, Closers, CloseStages, At
<1>b. ASSUME NEW t \in Threads, NEW s, Goto(t, s),
             at[t] \notin CloseStages \cup {"idle"}, s \notin CloseStages
      PROVE  Fine
  <2>1. Closers = {}
    BY <1>b, <1>k, NobodyCloses
  <2>2. Closers' = Closers
    BY <1>b, Moved DEF Closers
  <2> QED
    BY <1>a, <2>1, <2>2
<1>1. CASE UNCHANGED vars
  BY <1>1, <1>k DEF vars, CloserAlone, CloserSees, Closers, At
<1>2. ASSUME NEW t \in Threads, Ask(t) PROVE Fine
  <2>1. Closers = {}
    BY <1>2, <1>k, PoolAssumption DEF Ask, CloserAlone
  <2>2. Closers' = Closers
    BY <1>2, Moved DEF Ask, Closers, CloseStages
  <2> QED
    BY <1>a, <2>1, <2>2
<1>3. ASSUME NEW t \in Threads, GetStep(t) PROVE Fine
  BY <1>3, <1>b
     DEF GetStep, Acquire, Wait, GiveUp, PollFinds, PollFindsNone, Connect,
         ConnectFails, CountUp, CloseStages
<1>4. ASSUME NEW t \in Threads, Offer(t) \/ Release(t) PROVE Fine
  BY <1>4, <1>b DEF Offer, Release, CloseStages
<1>5. ASSUME NEW t \in Threads, CloseAll(t) PROVE Fine
  BY <1>5, <1>k DEF CloseAll, Goto, TypeOK, CloserAlone, CloserSees, Closers,
                    CloseStages, At
<1>6. ASSUME NEW t \in Threads, Drain(t) PROVE Fine
  BY <1>6, <1>k DEF Drain, CloserAlone, CloserSees, Closers, CloseStages, At
<1>7. ASSUME NEW t \in Threads, Drained(t) PROVE Fine
  <2>1. open = {}
    BY <1>7, <1>k DEF Drained, OneHolder, CloserAlone, Closers, CloseStages, Working, At
  <2> QED
    BY <1>7, <1>k, <2>1 DEF Drained, Goto, TypeOK, CloserAlone, CloserSees, Closers,
                            CloseStages, At
<1>8. ASSUME NEW t \in Threads, ResetCount(t) PROVE Fine
  BY <1>8, <1>k DEF ResetCount, Goto, TypeOK, CloserAlone, CloserSees, Closers,
                    CloseStages, At
<1>9. ASSUME NEW t \in Threads, Measure(t) PROVE Fine
  BY <1>9, <1>k DEF Measure, Goto, TypeOK, CloserAlone, CloserSees, Closers,
                    CloseStages, At
<1>10. ASSUME NEW t \in Threads, Refill(t) PROVE Fine
  <2>1. Closers' = {}
    BY <1>10, <1>k DEF Refill, Goto, TypeOK, CloserAlone, Closers, CloseStages, At
  <2> QED
    BY <1>a, <2>1
<1> QED
  BY <1>1, <1>2, <1>3, <1>4, <1>5, <1>6, <1>7, <1>8, <1>9, <1>10
     DEF Next, CloseStep

\* Every step of a calm pool keeps the count of its connections.
LEMMA CountStep ==
    ASSUME TypeOK, Calm, [Next]_vars, Closing # "any"
    PROVE  Counted'
<1>k. CloserAlone /\ CloserSees /\ Counted
  BY DEF Calm
<1>0. /\ Cardinality(Counting) \in Nat /\ Cardinality(open) \in Nat /\ current \in Nat
      /\ Cardinality({}) = 0
  BY AtFinite, ConnsFinite, FS_EmptySet DEF Counting, TypeOK
<1>a. ASSUME NEW t \in Threads, NEW s, Goto(t, s)
      PROVE  Cardinality(Counting') = Cardinality(Counting)
                + Ind(s, {"count"}) - Ind(at[t], {"count"})
  BY <1>a, Moved DEF Counting
<1>b. ASSUME NEW t \in Threads, NEW s, Goto(t, s), UNCHANGED <<current, open>>,
             at[t] \notin CloseStages, s \notin CloseStages,
             at[t] # "count", s # "count"
      PROVE  Counted'
  <2>1. Closers' = Closers
    BY <1>b, Moved DEF Closers
  <2>2. Cardinality(Counting') = Cardinality(Counting)
    BY <1>0, <1>a, <1>b DEF Ind
  <2> QED
    BY <1>b, <1>k, <2>1, <2>2 DEF Counted
<1>c. ASSUME NEW t \in Threads, at'[t] \in CloseStages PROVE Counted'
  BY <1>c DEF Counted, Closers, At
<1>1. CASE UNCHANGED vars
  BY <1>1, <1>k DEF vars, Counted, Closers, Counting, At
<1>2. ASSUME NEW t \in Threads, Ask(t) PROVE Counted'
  BY <1>2, <1>b DEF Ask, CloseStages
<1>3. ASSUME NEW t \in Threads, Acquire(t) \/ Wait(t) \/ GiveUp(t) PROVE Counted'
  BY <1>3, <1>b DEF Acquire, Wait, GiveUp, CloseStages
<1>4. ASSUME NEW t \in Threads, PollFinds(t) \/ PollFindsNone(t) \/ ConnectFails(t)
      PROVE  Counted'
  BY <1>4, <1>b DEF PollFinds, PollFindsNone, ConnectFails, CloseStages
<1>5. ASSUME NEW t \in Threads, Connect(t) PROVE Counted'
  <2>1. Closers = {}
    BY <1>5, <1>k, NobodyCloses DEF Connect, CloseStages
  <2>2. Cardinality(Counting') = Cardinality(Counting) + 1
    BY <1>0, <1>5, <1>a DEF Connect, Ind
  <2>3. PICK c \in Conns \ open : open' = open \cup {c}
    BY <1>5 DEF Connect
  <2>4. Cardinality(open') = Cardinality(open) + 1
    BY <2>3, ConnsFinite, FS_AddElement
  <2> QED
    BY <1>0, <1>5, <1>k, <2>1, <2>2, <2>4 DEF Connect, Counted
<1>6. ASSUME NEW t \in Threads, CountUp(t) PROVE Counted'
  <2>1. Closers = {}
    BY <1>6, <1>k, NobodyCloses DEF CountUp, CloseStages
  <2>2. Cardinality(Counting') = Cardinality(Counting) - 1
    BY <1>0, <1>6, <1>a DEF CountUp, Ind
  <2> QED
    BY <1>0, <1>6, <1>k, <2>1, <2>2 DEF CountUp, Counted
<1>7. ASSUME NEW t \in Threads, Offer(t) \/ Release(t) PROVE Counted'
  BY <1>7, <1>b DEF Offer, Release, CloseStages
<1>8. ASSUME NEW t \in Threads,
             CloseAll(t) \/ Drain(t) \/ Drained(t) \/ ResetCount(t) \/ Measure(t)
      PROVE  Counted'
  <2>1. at'[t] \in CloseStages
    BY <1>8 DEF CloseAll, Drain, Drained, ResetCount, Measure, Goto, TypeOK, CloseStages
  <2> QED
    BY <1>c, <2>1
<1>9. ASSUME NEW t \in Threads, Refill(t) PROVE Counted'
  <2>1. open' = {} /\ current' = 0
    BY <1>9, <1>k DEF Refill, CloserSees
  <2>2. Counting' = {}
    BY <1>9, <1>k DEF Refill, Goto, TypeOK, CloserAlone, Closers, CloseStages,
                      Counting, At
  <2> QED
    BY <1>0, <2>1, <2>2 DEF Counted
<1> QED
  BY <1>1, <1>2, <1>3, <1>4, <1>5, <1>6, <1>7, <1>8, <1>9
     DEF Next, GetStep, CloseStep

-----------------------------------------------------------------------------
\* The invariant holds of every reachable state of the pool.
THEOREM Invariant == Spec => []Inv
<1>1. Init => Inv
  BY Initially
<1>2. Inv /\ [Next]_vars => Inv'
  <2> SUFFICES ASSUME Inv, [Next]_vars PROVE Inv'
    OBVIOUS
  <2>1. TypeOK' /\ OneHolder' /\ Accounted'
    BY TypeStep, HolderStep, AccountStep DEF Inv
  <2>2. ASSUME Closing # "any" PROVE Calm'
    BY <2>2, PermitStep, CloserStep, CountStep DEF Inv, Calm
  <2> QED
    BY <2>1, <2>2 DEF Inv
<1> QED
  BY <1>1, <1>2, PTL DEF Spec

\* Every variable keeps its type, and a thread has a connection exactly while
\* it counts or uses one.
THEOREM TypeCorrect == Spec => []TypeOK
<1>1. Inv => TypeOK
  BY DEF Inv
<1> QED
  BY <1>1, Invariant, PTL

\* However the pool is used and closed, getConnection never hands one
\* connection to two threads, one that is closed, or one still in the queue.
THEOREM NeverShared == Spec => []OneHolder
<1>1. Inv => OneHolder
  BY DEF Inv
<1> QED
  BY <1>1, Invariant, PTL

\* Permits are never duplicated while the pool is closed only when unused.
THEOREM PermitsAccounted == Spec => []PermitsBounded
<1>1. Inv => PermitsBounded
  BY DEF Inv, Calm, PermitsKept, PermitsBounded
<1> QED
  BY <1>1, Invariant, PTL

\* A pool closed only when unused keeps within maxConnections sockets, for any
\* number of threads racing through getConnection.
THEOREM SocketsBounded == Closing # "any" => (Spec => []AtMostMax)
<1>1. Closing # "any" /\ Inv => AtMostMax
  <2> SUFFICES ASSUME Closing # "any", Inv PROVE AtMostMax
    OBVIOUS
  <2>1. PermitsKept /\ TypeOK
    BY DEF Inv, Calm
  <2>2. Cardinality(open) \in Nat /\ Cardinality(Connecting) \in Nat
    BY <2>1, ConnsFinite, AtFinite DEF Connecting
  <2> QED
    BY <2>1, <2>2, PoolAssumption DEF PermitsKept, AtMostMax
<1> SUFFICES ASSUME Closing # "any" PROVE Spec => []AtMostMax
  OBVIOUS
<1>2. Inv => AtMostMax
  BY <1>1
<1> QED
  BY <1>2, Invariant, PTL

\* getActiveConnections tells the truth about such a pool.
THEOREM CountIsTrue == Spec => []CountsOpen
<1>1. Inv => CountsOpen
  BY DEF Inv, Calm, Counted, CountsOpen
<1> QED
  BY <1>1, Invariant, PTL

\* Closing such a pool leaves it with all its permits, leaked ones included.
THEOREM ClosingRefills == Closing # "any" => (Spec => ClosingRestores)
<1> SUFFICES ASSUME Closing # "any" PROVE Spec => ClosingRestores
  OBVIOUS
<1> DEFINE Restores == \A t \in Threads : at[t] = "refill" /\ at'[t] = "idle" => permits' = Max
<1>1. Inv /\ [Next]_vars => [Restores]_vars
  <2> SUFFICES ASSUME Inv, Next, NEW t \in Threads, at[t] = "refill", at'[t] = "idle"
               PROVE  permits' = Max
    BY DEF Restores
  <2>1. Refill(t)
    <3>1. PICK u \in Threads : \/ Ask(u) \/ GetStep(u) \/ Offer(u) \/ Release(u)
                              \/ CloseAll(u) \/ CloseStep(u)
      BY DEF Next
    <3>2. \E s : Goto(u, s) \/ at' = at
      BY <3>1 DEF GetStep, CloseStep, Ask, Acquire, Wait, GiveUp, PollFinds,
                  PollFindsNone, Connect, ConnectFails, CountUp, Offer, Release,
                  CloseAll, Drain, Drained, ResetCount, Measure, Refill
    <3>3. u = t
      BY <3>2 DEF Goto, Inv, TypeOK
    <3> QED
      BY <3>1, <3>3
         DEF GetStep, CloseStep, Ask, Acquire, Wait, GiveUp, PollFinds,
             PollFindsNone, Connect, ConnectFails, CountUp, Offer, Release,
             CloseAll, Drain, Drained, ResetCount, Measure
  <2>2. TypeOK /\ PermitsKept /\ seen[t] = permits
    BY DEF Inv, Calm, CloserSees
  <2>3. permits <= Max
    BY <2>2, AtFinite, PoolAssumption DEF PermitsKept, Holders, TypeOK
  <2> QED
    BY <2>1, <2>2, <2>3, PoolAssumption DEF Refill, TypeOK
<1> HIDE DEF Restores
<1>2. Spec => [][Restores]_vars
  BY <1>1, Invariant, PTL DEF Spec
<1> QED
  BY <1>2 DEF ClosingRestores, Restores
=============================================================================
