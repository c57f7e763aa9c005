---------------------------- MODULE ClusterProofs ----------------------------
(***************************************************************************)
(* Cluster's type invariant for any number of servers: the position of a   *)
(* round is one of the list as long as the list is locked, and the queues  *)
(* hold the pings that wait to be accepted, each once, where there is a    *)
(* port.                                                                   *)
(***************************************************************************)
EXTENDS Cluster, SequenceTheorems, WellFoundedInduction, TLAPS

Listings == Seq([node : Nodes, isAlive : BOOLEAN])

Types ==
    /\ enabled \in [Nodes -> BOOLEAN]
    /\ call \in [Nodes -> Calls]
    /\ managed \subseteq Nodes
    /\ enables \in 0..MaxEnables /\ edits \in 0..MaxEdits
    /\ running \in [Nodes -> BOOLEAN]
    /\ acceptor \in [Nodes -> {"none", "open", "held", "closed"}]
    /\ accepter \in [Nodes -> {"off", "top", "accept"}]
    /\ queue \in [Nodes -> Seq(Nodes)]
    /\ nodes \in [Nodes -> Listings]
    /\ discovering \in [Nodes -> BOOLEAN]
    /\ pinger \in [Nodes -> {"off", "top", "dial", "read"}]
    /\ turn \in [Nodes -> Nat]
    /\ link \in [Nodes -> {"none", "queued", "open", "answered", "ended"}]
    /\ faults \in 0..MaxFaults

\* A round is at a position of its list, and waits only for a node in it.
RoundFits(n) ==
    /\ turn[n] \in (IF Locked(n) THEN 1..(Len(nodes[n]) + 1) ELSE {0})
    /\ pinger[n] = "read" => turn[n] \in 1..Len(nodes[n])
    /\ link[n] # "none" <=> pinger[n] = "read"

\* Discovery that has been stopped and joined has no thread.
JoinFits(n) == ~discovering[n] /\ call[n] # "join pinger" => pinger[n] = "off"

\* The queue of n, which has no ping twice.
QueueFits(n) ==
    /\ queue[n] # <<>> => acceptor[n] \in {"open", "held"}
    /\ \A m \in Nodes : m \in Range(queue[n]) <=> link[m] = "queued" /\ Target(m) = n
    /\ IsInjective(queue[n])

Inv ==
    /\ Types
    /\ \A n \in Nodes : RoundFits(n)
    /\ \A n \in Nodes : JoinFits(n)
    /\ \A n \in Nodes : QueueFits(n)

-----------------------------------------------------------------------------
\* A round that waits for an answer, waits for that of a server.
LEMMA TargetType ==
    ASSUME Types, NEW n \in Nodes, turn[n] \in 1..Len(nodes[n])
    PROVE  Target(n) \in Nodes
<1>1. nodes[n] \in Listings
    BY DEF Types
<1>2. nodes[n][turn[n]] \in [node : Nodes, isAlive : BOOLEAN]
    BY <1>1, ElementOfSeq DEF Listings
<1> QED
    BY <1>2 DEF Target

\* The queues do not change, nor does what is in them.
LEMMA QueuesStay ==
    ASSUME \A n \in Nodes : QueueFits(n), queue' = queue,
           \A n \in Nodes : queue[n] # <<>> /\ acceptor[n] \in {"open", "held"} =>
                                acceptor'[n] \in {"open", "held"},
           \A n \in Nodes : link[n] = "queued" <=> link'[n] = "queued",
           \A n \in Nodes : link[n] = "queued" => Target(n)' = Target(n)
    PROVE  \A n \in Nodes : QueueFits(n)'
<1> SUFFICES ASSUME NEW n \in Nodes
             PROVE  QueueFits(n)'
    OBVIOUS
<1>1. queue'[n] = queue[n]
    OBVIOUS
<1>2. queue'[n] # <<>> => acceptor'[n] \in {"open", "held"}
    BY <1>1 DEF QueueFits
<1>3. \A m \in Nodes : m \in Range(queue'[n]) <=> link'[m] = "queued" /\ Target(m)' = n
    BY <1>1 DEF QueueFits
<1>4. IsInjective(queue'[n])
    BY <1>1 DEF QueueFits
<1> QED
    BY <1>2, <1>3, <1>4 DEF QueueFits

\* The rounds go on as they were.
LEMMA RoundsStay ==
    ASSUME \A n \in Nodes : RoundFits(n), pinger' = pinger, turn' = turn,
           \A n \in Nodes : Locked(n) => Len(nodes'[n]) = Len(nodes[n]),
           \A n \in Nodes : link[n] = "none" <=> link'[n] = "none"
    PROVE  \A n \in Nodes : RoundFits(n)'
<1> SUFFICES ASSUME NEW n \in Nodes
             PROVE  RoundFits(n)'
    OBVIOUS
<1>1. RoundFits(n)
    OBVIOUS
<1>2. CASE Locked(n)
    <2>1. Len(nodes'[n]) = Len(nodes[n])
        BY <1>2
    <2> QED
        BY <1>1, <1>2, <2>1 DEF RoundFits, Locked
<1>3. CASE ~Locked(n)
    BY <1>1, <1>3 DEF RoundFits, Locked
<1> QED
    BY <1>2, <1>3

LEMMA InitInv ==
    ASSUME ClusterAssumption, Init
    PROVE  Inv
<1>1. Types
    BY DEF Init, Types, ClusterAssumption, Listings, Calls
<1>2. \A n \in Nodes : RoundFits(n)
    BY DEF Init, RoundFits, Locked
<1>3. \A n \in Nodes : QueueFits(n)
    BY DEF Init, QueueFits, Range, IsInjective
<1>4. \A n \in Nodes : JoinFits(n)
    BY DEF Init, JoinFits
<1> QED
    BY <1>1, <1>2, <1>3, <1>4 DEF Inv

(***************************************************************************)
(* The user's thread                                                       *)
(***************************************************************************)

\* Discovery is started where there is no thread, or left alone.
LEMMA DiscoverFacts ==
    ASSUME Inv, NEW n \in Nodes, call[n] = "none", Discover(n)
    PROVE  /\ discovering' \in [Nodes -> BOOLEAN] /\ turn' = turn
           /\ pinger' \in [Nodes -> {"off", "top", "dial", "read"}]
           /\ discovering'[n] /\ (pinger' = pinger \/ (pinger[n] = "off" /\ pinger'[n] = "top"))
           /\ \A m \in Nodes \ {n} : discovering'[m] = discovering[m] /\ pinger'[m] = pinger[m]
<1>1. discovering' \in [Nodes -> BOOLEAN] /\ turn' = turn /\ discovering'[n]
    BY DEF Inv, Types, Discover, On
<1>2. \A m \in Nodes \ {n} : discovering'[m] = discovering[m]
    BY DEF Inv, Types, Discover, On
<1>3. CASE discovering[n]
    <2>1. pinger' = pinger
        BY <1>3 DEF Discover
    <2>2. pinger' \in [Nodes -> {"off", "top", "dial", "read"}]
        BY <2>1 DEF Inv, Types
    <2>3. \A m \in Nodes \ {n} : pinger'[m] = pinger[m]
        BY <2>1
    <2> QED
        BY <1>1, <1>2, <2>1, <2>2, <2>3
<1>4. CASE ~discovering[n]
    <2>1. pinger' = On(pinger, n, "top") /\ pinger[n] = "off"
        BY <1>4 DEF Inv, JoinFits, Discover
    <2> QED
        BY <1>1, <1>2, <2>1 DEF Inv, Types, On
<1> QED
    BY <1>3, <1>4

LEMMA EnableInv ==
    ASSUME ClusterAssumption, Inv, NEW n \in Nodes, Enable(n)
    PROVE  Inv'
<1>1. /\ call[n] = "none" /\ call' = call /\ nodes' = nodes /\ edits' = edits
      /\ link' = link /\ faults' = faults /\ queue' = queue /\ Discover(n)
    BY DEF Enable, list, listener
<1>2. Types'
    <2>1. enables' \in 0..MaxEnables /\ managed' \subseteq Nodes /\ enabled' \in [Nodes -> BOOLEAN]
        BY DEF Inv, Types, Enable, On, ClusterAssumption
    <2>2. /\ running' \in [Nodes -> BOOLEAN]
          /\ acceptor' \in [Nodes -> {"none", "open", "held", "closed"}]
          /\ accepter' \in [Nodes -> {"off", "top", "accept"}]
        <3>1. \/ UNCHANGED listener
              \/ /\ running' = On(running, n, TRUE)
                 /\ acceptor' = On(acceptor, n, "open")
                 /\ accepter' = On(accepter, n, "top")
            BY DEF Enable
        <3>2. CASE UNCHANGED listener
            BY <3>2 DEF Inv, Types, listener
        <3>3. CASE /\ running' = On(running, n, TRUE)
                   /\ acceptor' = On(acceptor, n, "open")
                   /\ accepter' = On(accepter, n, "top")
            BY <3>3 DEF Inv, Types, On
        <3> QED
            BY <3>1, <3>2, <3>3
    <2> QED
        BY <1>1, <2>1, <2>2, DiscoverFacts DEF Inv, Types
<1>3. \A m \in Nodes : RoundFits(m)'
    BY <1>1, DiscoverFacts DEF Inv, RoundFits, Locked
<1>4. \A m \in Nodes : JoinFits(m)'
    BY <1>1, DiscoverFacts DEF Inv, JoinFits
<1>5. \A m \in Nodes : acceptor[m] \in {"open", "held"} => acceptor'[m] \in {"open", "held"}
    BY DEF Inv, Types, Enable, On, listener
<1>6. \A m \in Nodes : Target(m)' = Target(m)
    BY <1>1, DiscoverFacts DEF Target
<1>7. \A m \in Nodes : QueueFits(m)'
    BY <1>1, <1>5, <1>6, QueuesStay DEF Inv
<1> QED
    BY <1>2, <1>3, <1>4, <1>7 DEF Inv

\* A list changes while it is not locked: no position in it is kept.
LEMMA EditInv ==
    ASSUME ClusterAssumption, Inv, NEW n \in Nodes, Edit(n),
           NEW s \in Listings, nodes' = [nodes EXCEPT ![n] = s]
    PROVE  Inv'
<1>1. /\ ~Locked(n) /\ UNCHANGED <<user, listener, discovery, link, faults>>
      /\ edits' \in 0..MaxEdits
    BY DEF Edit, Inv, Types, ClusterAssumption
<1>2. nodes' \in [Nodes -> Listings] /\ \A m \in Nodes \ {n} : nodes'[m] = nodes[m]
    BY DEF Inv, Types
<1>3. Types'
    BY <1>1, <1>2 DEF Inv, Types, user, listener, discovery
<1>4. \A m \in Nodes : RoundFits(m)'
    <2>1. \A m \in Nodes : Locked(m) => Len(nodes'[m]) = Len(nodes[m])
        BY <1>1, <1>2
    <2> QED
        BY <1>1, <2>1, RoundsStay DEF Inv, discovery
<1>5. \A m \in Nodes : JoinFits(m)'
    BY <1>1 DEF Inv, JoinFits, user, discovery
<1>6. \A m \in Nodes : QueueFits(m)'
    <2>1. \A m \in Nodes : link[m] = "queued" => m # n
        BY <1>1 DEF Inv, RoundFits, Locked
    <2>2. \A m \in Nodes : link[m] = "queued" => Target(m)' = Target(m)
        BY <1>1, <1>2, <2>1 DEF Target, discovery
    <2> QED
        BY <1>1, <2>2, QueuesStay DEF Inv, listener
<1> QED
    BY <1>3, <1>4, <1>5, <1>6 DEF Inv

LEMMA AddNodeInv ==
    ASSUME ClusterAssumption, Inv, NEW n \in Nodes, NEW t \in Nodes, AddNode(n, t)
    PROVE  Inv'
<1>1. nodes[n] \in Listings /\ [node |-> t, isAlive |-> TRUE] \in [node : Nodes, isAlive : BOOLEAN]
    BY DEF Inv, Types
<1>2. Append(nodes[n], [node |-> t, isAlive |-> TRUE]) \in Listings
    BY <1>1, AppendProperties DEF Listings
<1> QED
    BY <1>2, EditInv DEF AddNode

\* Sets of natural numbers have a least element.
LEMMA LeastElement ==
    ASSUME NEW T \in SUBSET Nat, T # {}
    PROVE  \E n \in T : \A m \in T : n <= m
<1>1. PICK n \in T : \A m \in T : <<m, n>> \notin OpToRel(<, Nat)
    BY NatLessThanWellFounded, WFMin
<1>2. \A m \in T : ~(m < n)
    BY <1>1 DEF OpToRel
<1> QED
    BY <1>2

\* What is left of a list is a list.  (The function it is defined with exists:
\* as far as the least place it would not; and none of its values is no list.)
LEMMA WithoutType ==
    ASSUME NEW S, NEW s \in Seq(S), NEW t
    PROVE  Without(s, t) \in Seq(S)
<1> DEFINE Step(f, i) == IF i = 0 THEN <<>>
                         ELSE IF s[i].node = t THEN f[i - 1] ELSE Append(f[i - 1], s[i])
           Upto(N) == {f \in [0..N -> Seq(S)] : \A i \in 0..N : f[i] = Step(f, i)}
           Short == {N \in 0..Len(s) : Upto(N) = {}}
<1>1. Len(s) \in Nat /\ \A i \in 1..Len(s) : s[i] \in S
    OBVIOUS
<1>2. 0 \notin Short
    <2> DEFINE f == [i \in 0..0 |-> <<>>]
    <2>1. f \in [0..0 -> Seq(S)] /\ \A i \in 0..0 : f[i] = Step(f, i)
        BY EmptySeq
    <2> QED
        BY <2>1
<1>3. ASSUME NEW N \in Nat, N + 1 \in 0..Len(s), Upto(N) # {}
      PROVE  Upto(N + 1) # {}
    <2>1. PICK f \in [0..N -> Seq(S)] : \A i \in 0..N : f[i] = Step(f, i)
        BY <1>3
    <2> DEFINE g == [i \in 0..(N + 1) |-> IF i = N + 1 THEN Step(f, N + 1) ELSE f[i]]
    <2>2. Step(f, N + 1) \in Seq(S)
        BY <1>1, <1>3, AppendProperties
    <2>3. /\ g \in [0..(N + 1) -> Seq(S)]
          /\ \A i \in 0..N : g[i] = f[i]
          /\ g[N + 1] = Step(f, N + 1)
        <3> HIDE DEF Step
        <3> QED
            BY <2>1, <2>2
    <2> HIDE DEF g
    <2>4. \A i \in 0..(N + 1) : g[i] = Step(g, i)
        <3> SUFFICES ASSUME NEW i \in 0..(N + 1)
                     PROVE  g[i] = Step(g, i)
            OBVIOUS
        <3>1. Step(g, i) = Step(f, i)
            BY <2>3
        <3> HIDE DEF Step
        <3> QED
            BY <2>1, <2>3, <3>1
    <2> QED
        BY <2>3, <2>4
<1>4. Short = {}
    <2> SUFFICES ASSUME Short # {}
                 PROVE  FALSE
        OBVIOUS
    <2>1. Short \in (SUBSET Nat)
        BY <1>1
    <2> HIDE DEF Upto
    <2>2. PICK N \in Short : \A m \in Short : N <= m
        BY <2>1, LeastElement
    <2>3. N # 0 /\ N \in 0..Len(s) /\ Upto(N) = {}
        BY <1>2
    <2>4. N - 1 \in Nat /\ N - 1 \notin Short
        BY <1>1, <2>2, <2>3
    <2>5. Upto(N - 1) # {}
        BY <1>1, <2>3, <2>4
    <2> QED
        BY <1>3, <2>3, <2>4, <2>5
<1>5. PICK f \in [0..Len(s) -> Seq(S)] : \A i \in 0..Len(s) : f[i] = Step(f, i)
    <2>1. Upto(Len(s)) # {}
        <3> HIDE DEF Upto
        <3> QED
            BY <1>1, <1>4
    <2> QED
        BY <2>1
<1>6. f = [i \in 0..Len(s) |-> Step(f, i)]
    <2> HIDE DEF Step
    <2> QED
        BY <1>5
<1> DEFINE IsKept(k) == k = [i \in 0..Len(s) |-> Step(k, i)]
           kept == CHOOSE k : IsKept(k)
<1>7. IsKept(kept)
    <2>1. IsKept(f)
        BY <1>6
    <2> HIDE DEF IsKept
    <2> QED
        BY <2>1
<1>8. Without(s, t) = kept[Len(s)]
    BY DEF Without
<1>9. \A i \in 0..Len(s) : kept[i] = Step(kept, i)
    <2> HIDE DEF kept, Step
    <2> QED
        BY <1>7
<1>10. {i \in 0..Len(s) : kept[i] \notin Seq(S)} = {}
    <2> DEFINE Bad == {i \in 0..Len(s) : kept[i] \notin Seq(S)}
    <2> HIDE DEF kept
    <2> SUFFICES ASSUME Bad # {}
                 PROVE  FALSE
        OBVIOUS
    <2>1. Bad \in SUBSET Nat
        BY <1>1
    <2>2. PICK i \in Bad : \A j \in Bad : i <= j
        BY <2>1, LeastElement
    <2>3. i = 0 \/ (i - 1 \in 0..Len(s) /\ i \in 1..Len(s) /\ kept[i - 1] \in Seq(S))
        BY <1>1, <2>2
    <2>4. Step(kept, i) \in Seq(S)
        BY <1>1, <2>3, EmptySeq, AppendProperties
    <2> QED
        BY <1>9, <2>4
<1> HIDE DEF kept
<1> QED
    BY <1>1, <1>8, <1>10

LEMMA RemoveNodeInv ==
    ASSUME ClusterAssumption, Inv, NEW n \in Nodes, NEW t \in Nodes, RemoveNode(n, t)
    PROVE  Inv'
<1>1. nodes[n] \in Listings
    BY DEF Inv, Types
<1>2. Without(nodes[n], t) \in Listings
    BY <1>1, WithoutType DEF Listings
<1> QED
    BY <1>2, EditInv DEF RemoveNode

LEMMA DisableInv ==
    ASSUME ClusterAssumption, Inv, NEW n \in Nodes, Disable(n)
    PROVE  Inv'
<1>1. /\ UNCHANGED <<enabled, managed, enables, list, acceptor, accepter, queue, discovery, link, faults>>
      /\ running' = On(running, n, FALSE)
      /\ call[n] = "none" /\ call' = On(call, n, "close acceptor")
    BY DEF Disable
<1>2. Types'
    BY <1>1 DEF Inv, Types, On, Calls, list, discovery
<1>3. \A m \in Nodes : RoundFits(m)'
    BY <1>1, RoundsStay DEF Inv, list, discovery
<1>4. \A m \in Nodes : JoinFits(m)'
    BY <1>1 DEF Inv, JoinFits, On, Types, discovery
<1>5. \A m \in Nodes : QueueFits(m)'
    BY <1>1, QueuesStay DEF Inv, Target, list, discovery
<1> QED
    BY <1>2, <1>3, <1>4, <1>5 DEF Inv

\* The port closes, and the pings in its queue are at their end.
LEMMA PortClosesFacts ==
    ASSUME Inv, NEW n \in Nodes, PortCloses(n), UNCHANGED <<nodes, turn, pinger>>
    PROVE  /\ acceptor' \in [Nodes -> {"none", "open", "held", "closed"}]
           /\ queue' \in [Nodes -> Seq(Nodes)]
           /\ link' \in [Nodes -> {"none", "queued", "open", "answered", "ended"}]
           /\ \A m \in Nodes : RoundFits(m)'
           /\ \A m \in Nodes : QueueFits(m)'
<1>1. /\ acceptor' \in [Nodes -> {"none", "open", "held", "closed"}]
      /\ \A m \in Nodes \ {n} : acceptor'[m] = acceptor[m]
    BY DEF PortCloses, On, Inv, Types
<1>2. /\ queue' \in [Nodes -> Seq(Nodes)] /\ queue'[n] = <<>>
      /\ \A m \in Nodes \ {n} : queue'[m] = queue[m]
    BY DEF PortCloses, On, Inv, Types
<1>3. \A m \in Nodes : link'[m] = IF link[m] = "queued" /\ Target(m) = n THEN "ended" ELSE link[m]
    BY DEF PortCloses, Inv, QueueFits
<1>4. link' \in [Nodes -> {"none", "queued", "open", "answered", "ended"}]
    BY DEF PortCloses, Inv, Types
<1>5. \A m \in Nodes : RoundFits(m)'
    BY <1>3, RoundsStay DEF Inv
<1>6. \A m \in Nodes : Target(m)' = Target(m)
    BY DEF Target
<1>7. \A m \in Nodes \ {n} : QueueFits(m)'
    <2> SUFFICES ASSUME NEW m \in Nodes \ {n}
                 PROVE  QueueFits(m)'
        OBVIOUS
    <2>1. queue'[m] = queue[m] /\ acceptor'[m] = acceptor[m] /\ QueueFits(m)
        BY <1>1, <1>2 DEF Inv
    <2>2. \A k \in Nodes : link'[k] = "queued" /\ Target(k)' = m <=> link[k] = "queued" /\ Target(k) = m
        BY <1>3, <1>6
    <2> QED
        BY <2>1, <2>2 DEF QueueFits
<1>8. QueueFits(n)'
    <2>1. \A k \in Nodes : ~(link'[k] = "queued" /\ Target(k)' = n)
        BY <1>3, <1>6
    <2>2. Range(queue'[n]) = {} /\ IsInjective(queue'[n])
        BY <1>2 DEF Range, IsInjective
    <2> QED
        BY <1>2, <2>1, <2>2 DEF QueueFits
<1> QED
    BY <1>1, <1>2, <1>4, <1>5, <1>7, <1>8

LEMMA CloseAcceptorInv ==
    ASSUME ClusterAssumption, Inv, NEW n \in Nodes, CloseAcceptor(n)
    PROVE  Inv'
<1>1. /\ UNCHANGED <<enabled, managed, enables, list, running, discovery, faults>>
      /\ call[n] = "close acceptor" /\ call' = On(call, n, "join accepter")
    BY DEF CloseAcceptor
<1>2. call' \in [Nodes -> Calls] /\ \A m \in Nodes : JoinFits(m)'
    BY <1>1 DEF Inv, JoinFits, On, Types, Calls, discovery
<1>3. CASE acceptor' = On(acceptor, n, "held") /\ UNCHANGED <<accepter, queue, link>>
    <2>1. Types'
        BY <1>1, <1>2, <1>3 DEF Inv, Types, On, list, discovery
    <2>2. \A m \in Nodes : RoundFits(m)'
        BY <1>1, <1>3, RoundsStay DEF Inv, list, discovery
    <2>3. \A m \in Nodes : QueueFits(m)'
        BY <1>1, <1>3, QueuesStay DEF Inv, Target, On, Types, list, discovery
    <2> QED
        BY <1>2, <2>1, <2>2, <2>3 DEF Inv
<1>4. CASE /\ PortCloses(n)
           /\ accepter' = IF accepter[n] = "accept" THEN On(accepter, n, "top") ELSE accepter
    <2>1. UNCHANGED <<nodes, turn, pinger>>
        BY <1>1 DEF list, discovery
    <2>2. accepter' \in [Nodes -> {"off", "top", "accept"}]
        BY <1>4 DEF Inv, Types, On
    <2>3. Types'
        BY <1>1, <1>2, <1>4, <2>1, <2>2, PortClosesFacts DEF Inv, Types, list, discovery
    <2> QED
        BY <1>2, <1>4, <2>1, <2>3, PortClosesFacts DEF Inv
<1> QED
    BY <1>3, <1>4 DEF CloseAcceptor

LEMMA StopDiscoveryInv ==
    ASSUME ClusterAssumption, Inv, NEW n \in Nodes, StopDiscovery(n)
    PROVE  Inv'
<1>1. /\ UNCHANGED <<enabled, managed, enables, list, listener, pinger, turn, link, faults>>
      /\ call' = On(call, n, "join pinger")
      /\ discovering' = On(discovering, n, FALSE)
    BY DEF StopDiscovery
<1>2. Types'
    BY <1>1 DEF Inv, Types, On, Calls, list, listener
<1>3. \A m \in Nodes : RoundFits(m)'
    BY <1>1, RoundsStay DEF Inv, list
<1>4. \A m \in Nodes : JoinFits(m)'
    BY <1>1 DEF Inv, JoinFits, On, Types
<1>5. \A m \in Nodes : QueueFits(m)'
    BY <1>1, QueuesStay DEF Inv, Target, list, listener
<1> QED
    BY <1>2, <1>3, <1>4, <1>5 DEF Inv

LEMMA JoinPingerInv ==
    ASSUME ClusterAssumption, Inv, NEW n \in Nodes, JoinPinger(n)
    PROVE  Inv'
<1>1. /\ UNCHANGED <<managed, enables, list, listener, discovery, link, faults>>
      /\ pinger[n] = "off" /\ call' = On(call, n, "none")
      /\ enabled' = On(enabled, n, FALSE)
    BY DEF JoinPinger
<1>2. Types'
    BY <1>1 DEF Inv, Types, On, Calls, list, listener, discovery
<1>3. \A m \in Nodes : RoundFits(m)'
    BY <1>1, RoundsStay DEF Inv, list, discovery
<1>4. \A m \in Nodes : JoinFits(m)'
    BY <1>1 DEF Inv, JoinFits, On, Types, discovery
<1>5. \A m \in Nodes : QueueFits(m)'
    BY <1>1, QueuesStay DEF Inv, Target, list, listener, discovery
<1> QED
    BY <1>2, <1>3, <1>4, <1>5 DEF Inv

(***************************************************************************)
(* The listener                                                            *)
(***************************************************************************)

LEMMA AcceptTurnInv ==
    ASSUME ClusterAssumption, Inv, NEW n \in Nodes, AcceptTurn(n)
    PROVE  Inv'
<1>1. /\ UNCHANGED <<user, list, running, acceptor, queue, discovery, link, faults>>
      /\ accepter' \in [Nodes -> {"off", "top", "accept"}]
    BY DEF AcceptTurn, On, Inv, Types
<1>2. Types'
    BY <1>1 DEF Inv, Types, user, list, discovery
<1>3. \A m \in Nodes : RoundFits(m)'
    BY <1>1, RoundsStay DEF Inv, list, discovery
<1>4. \A m \in Nodes : JoinFits(m)'
    BY <1>1 DEF Inv, JoinFits, user, discovery
<1>5. \A m \in Nodes : QueueFits(m)'
    BY <1>1, QueuesStay DEF Inv, Target, list, discovery
<1> QED
    BY <1>2, <1>3, <1>4, <1>5 DEF Inv

\* A sequence with nothing twice loses its head: it is not in the tail.
LEMMA TailFacts ==
    ASSUME NEW S, NEW s \in Seq(S), s # <<>>, IsInjective(s)
    PROVE  /\ Head(s) \in S /\ Tail(s) \in Seq(S) /\ IsInjective(Tail(s))
           /\ Range(Tail(s)) = Range(s) \ {Head(s)} /\ Head(s) \in Range(s)
<1>1. /\ Len(s) \in Nat \ {0} /\ DOMAIN s = 1..Len(s) /\ Head(s) = s[1]
      /\ Head(s) \in S /\ Tail(s) \in Seq(S)
      /\ Len(Tail(s)) = Len(s) - 1 /\ DOMAIN Tail(s) = 1..(Len(s) - 1)
      /\ \A i \in 1..(Len(s) - 1) : Tail(s)[i] = s[i + 1]
    BY HeadTailProperties, EmptySeq, LenProperties
<1>2. IsInjective(Tail(s))
    BY <1>1 DEF IsInjective
<1>3. ASSUME NEW x \in Range(Tail(s)) PROVE x \in Range(s) \ {Head(s)}
    <2>1. PICK i \in 1..(Len(s) - 1) : x = Tail(s)[i]
        BY <1>1 DEF Range
    <2>2. i + 1 \in DOMAIN s /\ 1 \in DOMAIN s /\ i + 1 # 1 /\ x = s[i + 1]
        BY <1>1, <2>1
    <2> QED
        BY <1>1, <2>2 DEF Range, IsInjective
<1>4. ASSUME NEW x \in Range(s) \ {Head(s)} PROVE x \in Range(Tail(s))
    <2>1. PICK i \in DOMAIN s : x = s[i]
        BY DEF Range
    <2>2. i - 1 \in DOMAIN Tail(s) /\ Tail(s)[i - 1] = x
        BY <1>1, <2>1
    <2> QED
        BY <2>2 DEF Range
<1>5. Head(s) \in Range(s)
    BY <1>1 DEF Range
<1> QED
    BY <1>1, <1>2, <1>3, <1>4, <1>5

LEMMA AcceptInv ==
    ASSUME ClusterAssumption, Inv, NEW n \in Nodes, Accept(n)
    PROVE  Inv'
<1>1. /\ UNCHANGED <<user, list, running, discovery, faults>>
      /\ accepter' \in [Nodes -> {"off", "top", "accept"}]
      /\ queue[n] # <<>>
    BY DEF Accept, On, Inv, Types
<1>2. UNCHANGED <<nodes, turn, pinger>>
    BY <1>1 DEF list, discovery
<1>3. \A m \in Nodes : JoinFits(m)'
    BY <1>1 DEF Inv, JoinFits, user, discovery
<1>4. CASE PortCloses(n)
    <2>1. Types'
        BY <1>1, <1>2, <1>4, PortClosesFacts DEF Inv, Types, user, list, discovery
    <2> QED
        BY <1>2, <1>3, <1>4, <2>1, PortClosesFacts DEF Inv
<1>5. CASE /\ link' = On(link, Head(queue[n]), IF running[n] THEN "open" ELSE "ended")
           /\ queue' = [queue EXCEPT ![n] = Tail(@)]
           /\ UNCHANGED acceptor
    <2> DEFINE h == Head(queue[n])
    <2>1. /\ h \in Nodes /\ Tail(queue[n]) \in Seq(Nodes) /\ IsInjective(Tail(queue[n]))
          /\ Range(Tail(queue[n])) = Range(queue[n]) \ {h} /\ h \in Range(queue[n])
        BY <1>1, TailFacts DEF Inv, Types, QueueFits
    <2>2. /\ queue' \in [Nodes -> Seq(Nodes)] /\ queue'[n] = Tail(queue[n])
          /\ \A m \in Nodes \ {n} : queue'[m] = queue[m]
        BY <1>5, <2>1 DEF Inv, Types
    <2>3. /\ link' \in [Nodes -> {"none", "queued", "open", "answered", "ended"}]
          /\ link'[h] \in {"open", "ended"} /\ link[h] = "queued" /\ Target(h) = n
          /\ \A m \in Nodes \ {h} : link'[m] = link[m]
        BY <1>5, <2>1 DEF Inv, Types, On, QueueFits
    <2> HIDE DEF h
    <2>4. Types'
        BY <1>1, <1>5, <2>2, <2>3 DEF Inv, Types, user, list, discovery
    <2>5. \A m \in Nodes : RoundFits(m)'
        <3>1. \A m \in Nodes : link[m] = "none" <=> link'[m] = "none"
            BY <2>1, <2>3
        <3> QED
            BY <1>2, <3>1, RoundsStay DEF Inv
    <2>6. \A m \in Nodes : QueueFits(m)'
        <3> SUFFICES ASSUME NEW m \in Nodes
                     PROVE  QueueFits(m)'
            OBVIOUS
        <3>1. QueueFits(m) /\ acceptor'[m] = acceptor[m] /\ \A k \in Nodes : Target(k)' = Target(k)
            BY <1>2, <1>5 DEF Inv, Target
        <3>2. /\ queue[m] # <<>> => acceptor[m] \in {"open", "held"}
              /\ IsInjective(queue[m])
              /\ \A k \in Nodes : k \in Range(queue[m]) <=> link[k] = "queued" /\ Target(k) = m
            BY <3>1 DEF QueueFits
        <3>3. /\ queue'[m] # <<>> => acceptor'[m] \in {"open", "held"}
              /\ IsInjective(queue'[m])
            <4>1. CASE m = n
                BY <1>1, <2>1, <2>2, <3>1, <3>2, <4>1
            <4>2. CASE m # n
                BY <2>2, <3>1, <3>2, <4>2
            <4> QED
                BY <4>1, <4>2
        <3>4. ASSUME NEW k \in Nodes
              PROVE  k \in Range(queue'[m]) <=> link'[k] = "queued" /\ Target(k) = m
            <4>1. k \in Range(queue'[m]) <=> k \in Range(queue[m]) /\ (m = n => k # h)
                <5>1. CASE m = n
                    BY <2>1, <2>2, <5>1
                <5>2. CASE m # n
                    BY <2>2, <5>2
                <5> QED
                    BY <5>1, <5>2
            <4>2. CASE k = h
                BY <2>3, <3>2, <4>1, <4>2
            <4>3. CASE k # h
                BY <2>3, <3>2, <4>1, <4>3
            <4> QED
                BY <4>2, <4>3
        <3> QED
            BY <3>1, <3>3, <3>4 DEF QueueFits
    <2> QED
        BY <1>3, <2>4, <2>5, <2>6 DEF Inv
<1> QED
    BY <1>4, <1>5 DEF Accept

\* The handlers take pings that are accepted.
LEMMA HandlerInv ==
    ASSUME ClusterAssumption, Inv, NEW n \in Nodes, Answer(n) \/ Refuse(n)
    PROVE  Inv'
<1>1. /\ UNCHANGED <<user, list, listener, discovery, faults>>
      /\ link' \in [Nodes -> {"none", "queued", "open", "answered", "ended"}]
      /\ \A m \in Nodes : link[m] = "none" <=> link'[m] = "none"
      /\ \A m \in Nodes : link[m] = "queued" <=> link'[m] = "queued"
    <2>1. PICK x \in {"answered", "ended"} : link[n] = "open" /\ link' = On(link, n, x)
        BY DEF Answer, Refuse
    <2>2. UNCHANGED <<user, list, listener, discovery, faults>>
        BY DEF Answer, Refuse
    <2> QED
        BY <2>1, <2>2 DEF On, Inv, Types
<1>2. Types'
    BY <1>1 DEF Inv, Types, user, list, listener, discovery
<1>3. \A m \in Nodes : RoundFits(m)'
    BY <1>1, RoundsStay DEF Inv, list, discovery
<1>4. \A m \in Nodes : JoinFits(m)'
    BY <1>1 DEF Inv, JoinFits, user, discovery
<1>5. \A m \in Nodes : QueueFits(m)'
    BY <1>1, QueuesStay DEF Inv, Target, list, listener, discovery
<1> QED
    BY <1>2, <1>3, <1>4, <1>5 DEF Inv

(***************************************************************************)
(* Discovery                                                               *)
(***************************************************************************)

LEMMA RoundInv ==
    ASSUME ClusterAssumption, Inv, NEW n \in Nodes, Round(n)
    PROVE  Inv'
<1>1. /\ UNCHANGED <<user, list, listener, discovering, link, faults>>
      /\ pinger[n] = "top" /\ link[n] = "none"
    BY DEF Round, Inv, RoundFits
<1>2. /\ pinger' \in [Nodes -> {"off", "top", "dial", "read"}] /\ turn' \in [Nodes -> Nat]
      /\ \A m \in Nodes \ {n} : pinger'[m] = pinger[m] /\ turn'[m] = turn[m]
      /\ \/ discovering[n] /\ pinger'[n] = "dial" /\ turn'[n] = 1
         \/ pinger'[n] = "off" /\ turn'[n] = turn[n]
    <2>1. CASE /\ discovering[n]
               /\ pinger' = On(pinger, n, "dial") /\ turn' = On(turn, n, 1)
        BY <2>1 DEF Inv, Types, On
    <2>2. CASE pinger' = On(pinger, n, "off") /\ turn' = turn
        BY <2>2 DEF Inv, Types, On
    <2> QED
        BY <2>1, <2>2 DEF Round
<1>3. Types'
    BY <1>1, <1>2 DEF Inv, Types, user, list, listener
<1>4. \A m \in Nodes : RoundFits(m)'
    <2>1. \A m \in Nodes \ {n} : RoundFits(m)'
        BY <1>1, <1>2 DEF Inv, RoundFits, Locked, list
    <2>2. RoundFits(n)'
        <3>1. RoundFits(n) /\ nodes'[n] = nodes[n] /\ link'[n] = link[n] /\ Len(nodes[n]) \in Nat
            BY <1>1 DEF Inv, Types, Listings, list
        <3> QED
            BY <1>1, <1>2, <3>1 DEF RoundFits, Locked
    <2> QED
        BY <2>1, <2>2
<1>5. \A m \in Nodes : JoinFits(m)'
    BY <1>1, <1>2 DEF Inv, JoinFits, user
<1>6. \A m \in Nodes : QueueFits(m)'
    BY <1>1, <1>2, QueuesStay DEF Inv, Target, list, listener
<1> QED
    BY <1>3, <1>4, <1>5, <1>6 DEF Inv

\* One more, that was not there.
LEMMA AppendFacts ==
    ASSUME NEW S, NEW s \in Seq(S), NEW x \in S, x \notin Range(s), IsInjective(s)
    PROVE  /\ Append(s, x) \in Seq(S) /\ IsInjective(Append(s, x))
           /\ Range(Append(s, x)) = Range(s) \cup {x}
<1>1. /\ Append(s, x) \in Seq(S) /\ Len(s) \in Nat /\ DOMAIN s = 1..Len(s)
      /\ DOMAIN Append(s, x) = 1..(Len(s) + 1)
      /\ \A i \in 1..Len(s) : Append(s, x)[i] = s[i]
      /\ Append(s, x)[Len(s) + 1] = x
    BY AppendProperties, LenProperties
<1>2. \A i \in 1..Len(s) : s[i] # x
    BY <1>1 DEF Range
<1>3. IsInjective(Append(s, x))
    <2> SUFFICES ASSUME NEW a \in 1..(Len(s) + 1), NEW b \in 1..(Len(s) + 1),
                        Append(s, x)[a] = Append(s, x)[b]
                 PROVE  a = b
        BY <1>1 DEF IsInjective
    <2>1. CASE a = Len(s) + 1 \/ b = Len(s) + 1
        BY <1>1, <1>2, <2>1
    <2>2. CASE a \in 1..Len(s) /\ b \in 1..Len(s)
        BY <1>1, <2>2 DEF IsInjective
    <2> QED
        BY <1>1, <2>1, <2>2
<1>4. ASSUME NEW y \in Range(Append(s, x)) PROVE y \in Range(s) \cup {x}
    BY <1>1 DEF Range
<1>5. ASSUME NEW y \in Range(s) \cup {x} PROVE y \in Range(Append(s, x))
    <2>1. CASE y = x
        BY <1>1, <2>1 DEF Range
    <2>2. CASE y \in Range(s)
        BY <1>1, <2>2 DEF Range
    <2> QED
        BY <2>1, <2>2
<1> QED
    BY <1>1, <1>3, <1>4, <1>5

LEMMA DialInv ==
    ASSUME ClusterAssumption, Inv, NEW n \in Nodes, Dial(n)
    PROVE  Inv'
<1> DEFINE t == Target(n)
<1>1. /\ UNCHANGED <<user, list, running, acceptor, accepter, discovering, turn, faults>>
      /\ pinger[n] = "dial" /\ link[n] = "none" /\ acceptor[t] \in {"open", "held"}
    BY DEF Dial, Inv, RoundFits
<1>2. turn[n] \in 1..Len(nodes[n]) /\ t \in Nodes
    <2>1. turn[n] \in 1..(Len(nodes[n]) + 1) /\ turn[n] <= Len(nodes[n]) /\ Len(nodes[n]) \in Nat
        BY <1>1 DEF Dial, Inv, Types, Listings, RoundFits, Locked
    <2> QED
        BY <2>1, TargetType DEF Inv
<1> HIDE DEF t
<1>3. /\ link' = On(link, n, "queued") /\ pinger' = On(pinger, n, "read")
      /\ queue' = [queue EXCEPT ![t] = Append(@, n)]
    BY DEF Dial, t
<1>4. /\ Append(queue[t], n) \in Seq(Nodes) /\ IsInjective(Append(queue[t], n))
      /\ Range(Append(queue[t], n)) = Range(queue[t]) \cup {n}
    <2>1. n \notin Range(queue[t]) /\ IsInjective(queue[t]) /\ queue[t] \in Seq(Nodes)
        BY <1>1, <1>2 DEF Inv, Types, QueueFits
    <2> QED
        BY <2>1, AppendFacts
<1>5. /\ queue' \in [Nodes -> Seq(Nodes)] /\ queue'[t] = Append(queue[t], n)
      /\ \A m \in Nodes \ {t} : queue'[m] = queue[m]
    BY <1>2, <1>3, <1>4 DEF Inv, Types
<1>6. /\ link' \in [Nodes -> {"none", "queued", "open", "answered", "ended"}]
      /\ pinger' \in [Nodes -> {"off", "top", "dial", "read"}]
      /\ link'[n] = "queued" /\ pinger'[n] = "read"
      /\ \A m \in Nodes \ {n} : link'[m] = link[m] /\ pinger'[m] = pinger[m]
    BY <1>3 DEF Inv, Types, On
<1>7. Types'
    BY <1>1, <1>5, <1>6 DEF Inv, Types, user, list
<1>8. \A m \in Nodes : RoundFits(m)'
    <2>1. \A m \in Nodes \ {n} : RoundFits(m)'
        BY <1>1, <1>6 DEF Inv, RoundFits, Locked, list
    <2>2. RoundFits(n)'
        <3>1. Len(nodes[n]) \in Nat /\ nodes'[n] = nodes[n] /\ turn'[n] = turn[n]
            BY <1>1 DEF Inv, Types, Listings, list
        <3> QED
            BY <1>2, <1>6, <3>1 DEF RoundFits, Locked
    <2> QED
        BY <2>1, <2>2
<1>9. \A m \in Nodes : JoinFits(m)'
    BY <1>1, <1>6 DEF Inv, JoinFits, user
<1>10. \A m \in Nodes : QueueFits(m)'
    <2> SUFFICES ASSUME NEW m \in Nodes
                 PROVE  QueueFits(m)'
        OBVIOUS
    <2>1. QueueFits(m) /\ acceptor'[m] = acceptor[m] /\ \A k \in Nodes : Target(k)' = Target(k)
        BY <1>1 DEF Inv, Target, list
    <2>2. /\ queue[m] # <<>> => acceptor[m] \in {"open", "held"}
          /\ IsInjective(queue[m])
          /\ \A k \in Nodes : k \in Range(queue[m]) <=> link[k] = "queued" /\ Target(k) = m
        BY <2>1 DEF QueueFits
    <2>3. /\ queue'[m] # <<>> => acceptor'[m] \in {"open", "held"}
          /\ IsInjective(queue'[m])
        <3>1. CASE m = t
            BY <1>1, <1>4, <1>5, <2>1, <3>1
        <3>2. CASE m # t
            BY <1>5, <2>1, <2>2, <3>2
        <3> QED
            BY <3>1, <3>2
    <2>4. ASSUME NEW k \in Nodes
          PROVE  k \in Range(queue'[m]) <=> link'[k] = "queued" /\ Target(k) = m
        <3>1. k \in Range(queue'[m]) <=> k \in Range(queue[m]) \/ (m = t /\ k = n)
            <4>1. CASE m = t
                BY <1>4, <1>5, <4>1
            <4>2. CASE m # t
                BY <1>5, <4>2
            <4> QED
                BY <4>1, <4>2
        <3>2. CASE k = n
            <4>1. Target(k) = t
                BY <3>2 DEF t
            <4>2. link[k] = "none" /\ link'[k] = "queued"
                BY <1>1, <1>6, <3>2
            <4> QED
                BY <2>2, <3>1, <3>2, <4>1, <4>2
        <3>3. CASE k # n
            BY <1>6, <2>2, <3>1, <3>3
        <3> QED
            BY <3>2, <3>3
    <2> QED
        BY <2>1, <2>3, <2>4 DEF QueueFits
<1> QED
    BY <1>7, <1>8, <1>9, <1>10 DEF Inv

\* The verdict on a node is noted, and the next one is pinged.
LEMMA VerdictInv ==
    ASSUME ClusterAssumption, Inv, NEW n \in Nodes, NEW b \in BOOLEAN, Verdict(n, b),
           faults' \in 0..MaxFaults, Locked(n), turn[n] \in 1..Len(nodes[n]), link[n] # "queued"
    PROVE  Inv'
<1> DEFINE i == turn[n]
           e == [nodes[n][i] EXCEPT !.isAlive = b]
           s == [nodes[n] EXCEPT ![i] = e]
<1>0. nodes[n] \in Listings
    BY DEF Inv, Types
<1>1. nodes[n] \in Listings /\ Len(nodes[n]) \in Nat /\ i \in 1..Len(nodes[n])
    BY <1>0 DEF Listings
<1>2. e \in [node : Nodes, isAlive : BOOLEAN]
    <2>1. nodes[n][i] \in [node : Nodes, isAlive : BOOLEAN]
        BY <1>1, ElementOfSeq DEF Listings
    <2>2. ASSUME NEW B, b \in B, nodes[n][i] \in [node : Nodes, isAlive : B]
          PROVE  e \in [node : Nodes, isAlive : B]
        BY <2>2
    <2> QED
        BY <2>1, <2>2
<1>3. nodes' = [nodes EXCEPT ![n] = s]
    BY DEF Verdict
<1> HIDE DEF e
<1>4. s \in Listings /\ Len(s) = Len(nodes[n])
    BY <1>1, <1>2, ExceptSeq DEF Listings
<1> HIDE DEF s
<1>5. /\ nodes' \in [Nodes -> Listings] /\ Len(nodes'[n]) = Len(nodes[n])
      /\ \A m \in Nodes \ {n} : nodes'[m] = nodes[m]
    BY <1>3, <1>4 DEF Inv, Types
<1>6. /\ turn' \in [Nodes -> Nat] /\ turn'[n] = i + 1
      /\ pinger' \in [Nodes -> {"off", "top", "dial", "read"}] /\ pinger'[n] = "dial"
      /\ link' \in [Nodes -> {"none", "queued", "open", "answered", "ended"}]
      /\ link'[n] = "none"
      /\ \A m \in Nodes \ {n} :
            turn'[m] = turn[m] /\ pinger'[m] = pinger[m] /\ link'[m] = link[m]
    BY DEF Verdict, On, Inv, Types
<1>7. UNCHANGED <<user, edits, listener, discovering>>
    BY DEF Verdict
<1>8. Types'
    BY <1>5, <1>6, <1>7 DEF Inv, Types, user, listener
<1>9. \A m \in Nodes : RoundFits(m)'
    <2>1. \A m \in Nodes \ {n} : RoundFits(m)'
        BY <1>5, <1>6 DEF Inv, RoundFits, Locked
    <2>2. RoundFits(n)'
        BY <1>1, <1>5, <1>6 DEF RoundFits, Locked
    <2> QED
        BY <2>1, <2>2
<1>10. \A m \in Nodes : JoinFits(m)'
    <2>1. pinger[n] # "off"
        BY DEF Locked
    <2> QED
        BY <1>6, <1>7, <2>1 DEF Inv, JoinFits, user
<1>11. \A m \in Nodes : QueueFits(m)'
    <2>1. \A m \in Nodes : link[m] = "queued" => m # n
        OBVIOUS
    <2>2. \A m \in Nodes : link[m] = "queued" => Target(m)' = Target(m)
        BY <1>5, <1>6, <2>1 DEF Target
    <2>3. \A m \in Nodes : link[m] = "queued" <=> link'[m] = "queued"
        BY <1>6
    <2> QED
        BY <1>7, <2>2, <2>3, QueuesStay DEF Inv, listener
<1> QED
    BY <1>8, <1>9, <1>10, <1>11 DEF Inv

LEMMA DialFailsInv ==
    ASSUME ClusterAssumption, Inv, NEW n \in Nodes, DialFails(n)
    PROVE  Inv'
<1>1. faults' \in 0..MaxFaults
    BY DEF DialFails, Inv, Types, ClusterAssumption
<1>2. Locked(n) /\ link[n] = "none" /\ Verdict(n, FALSE)
    BY DEF DialFails, Locked, Inv, RoundFits
<1>3. turn[n] \in 1..Len(nodes[n])
    BY <1>2 DEF DialFails, Inv, Types, Listings, RoundFits
<1> QED
    BY <1>1, <1>2, <1>3, VerdictInv

LEMMA ReceiveInv ==
    ASSUME ClusterAssumption, Inv, NEW n \in Nodes, Receive(n)
    PROVE  Inv'
<1>1. faults' \in 0..MaxFaults
    BY DEF Receive, Inv, Types
<1>2. PICK b \in BOOLEAN : Verdict(n, b)
    BY DEF Receive
<1>3. Locked(n) /\ link[n] # "queued" /\ turn[n] \in 1..Len(nodes[n])
    BY DEF Receive, Locked, Inv, RoundFits
<1> QED
    BY <1>1, <1>2, <1>3, VerdictInv

LEMMA RoundEndsInv ==
    ASSUME ClusterAssumption, Inv, NEW n \in Nodes, RoundEnds(n)
    PROVE  Inv'
<1>1. /\ UNCHANGED <<user, list, listener, discovering, link, faults>>
      /\ pinger[n] = "dial" /\ link[n] = "none"
    BY DEF RoundEnds, Inv, RoundFits
<1>2. /\ pinger' \in [Nodes -> {"off", "top", "dial", "read"}] /\ turn' \in [Nodes -> Nat]
      /\ \A m \in Nodes \ {n} : pinger'[m] = pinger[m] /\ turn'[m] = turn[m]
      /\ pinger'[n] = "top" /\ turn'[n] = 0
    BY DEF RoundEnds, Inv, Types, On
<1>3. Types'
    BY <1>1, <1>2 DEF Inv, Types, user, list, listener
<1>4. \A m \in Nodes : RoundFits(m)'
    BY <1>1, <1>2 DEF Inv, RoundFits, Locked, list
<1>5. \A m \in Nodes : JoinFits(m)'
    BY <1>1, <1>2 DEF Inv, JoinFits, user
<1>6. \A m \in Nodes : QueueFits(m)'
    <2>1. \A m \in Nodes : link[m] = "queued" => Target(m)' = Target(m)
        BY <1>1, <1>2 DEF Target, list
    <2> QED
        BY <1>1, <2>1, QueuesStay DEF Inv, listener
<1> QED
    BY <1>3, <1>4, <1>5, <1>6 DEF Inv

(***************************************************************************)
(* The theorems                                                            *)
(***************************************************************************)

LEMMA NextInv ==
    ASSUME ClusterAssumption, Inv, Next
    PROVE  Inv'
<1>1. ASSUME NEW n \in Nodes,
             \/ Enable(n) \/ Disable(n) \/ DisableStep(n)
             \/ \E t \in Nodes : AddNode(n, t) \/ RemoveNode(n, t)
      PROVE  Inv'
    BY <1>1, EnableInv, DisableInv, CloseAcceptorInv, StopDiscoveryInv, JoinPingerInv,
       AddNodeInv, RemoveNodeInv DEF DisableStep
<1>2. ASSUME NEW n \in Nodes,
             AcceptStep(n) \/ Answer(n) \/ Refuse(n) \/ PingStep(n)
      PROVE  Inv'
    BY <1>2, AcceptTurnInv, AcceptInv, HandlerInv, RoundInv, DialInv, DialFailsInv,
       ReceiveInv, RoundEndsInv DEF AcceptStep, PingStep
<1> QED
    BY <1>1, <1>2 DEF Next

LEMMA StutterInv ==
    ASSUME Inv, UNCHANGED vars
    PROVE  Inv'
<1>1. Types' /\ \A n \in Nodes : JoinFits(n)'
    BY DEF Inv, Types, JoinFits, vars, user, list, listener, discovery
<1>2. \A n \in Nodes : RoundFits(n)'
    BY RoundsStay DEF Inv, vars, list, discovery
<1>3. \A n \in Nodes : QueueFits(n)'
    BY QueuesStay DEF Inv, Target, vars, list, listener, discovery
<1> QED
    BY <1>1, <1>2, <1>3 DEF Inv

\* Inv is an invariant.
THEOREM Invariant == ClusterAssumption => (Spec => []Inv)
<1> SUFFICES ASSUME ClusterAssumption PROVE Spec => []Inv
    OBVIOUS
<1>1. Inv /\ [Next]_vars => Inv'
    BY NextInv, StutterInv
<1> QED
    BY <1>1, InitInv, PTL DEF Spec

\* Every variable has its type; the position of a round (pingNodes) is one of
\* the list while the list is locked, whatever addNode and removeNode do; and
\* a ping waits in the queue of the node it is for, where there is a port.
THEOREM TypeCorrect == Spec => []TypeOK
<1>1. Inv => TypeOK
    BY DEF Inv, Types, Listings, RoundFits, QueueFits, TypeOK
<1> QED
    BY <1>1, Invariant, ClusterAssumption, PTL

=============================================================================
