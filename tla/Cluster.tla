------------------------------ MODULE Cluster ------------------------------
(***************************************************************************)
(* The ClusterManagers of several servers that list each other: on each a  *)
(* user's thread enables and disables clustering and changes the list, an  *)
(* accept thread gives each connection a detached handler, and a discovery *)
(* thread pings the nodes listed, one after the other, with the lock of    *)
(* the list held from the first to the last.                               *)
(*                                                                         *)
(* The listener is the master's of Replication, line for line, with its    *)
(* faults: here the user is taken to be as patient as there.  Whether      *)
(* close() wakes a blocked accept depends on the platform again.           *)
(***************************************************************************)
EXTENDS Integers, Sequences, FiniteSets, Functions

CONSTANTS
    Nodes,
    Mute,        \* nodes that accept connections and never answer
    CloseWakes,  \* BOOLEAN
    MaxEnables,  \* bound on the calls of enableClustering
    MaxEdits,    \* bound on the changes of the lists
    MaxFaults    \* bound on the connections that fail for other reasons

ASSUME ClusterAssumption ==
    /\ Mute \subseteq Nodes
    /\ CloseWakes \in BOOLEAN
    /\ MaxEnables \in Nat /\ MaxEdits \in Nat /\ MaxFaults \in Nat

VARIABLES
    enabled,     \* clustering_enabled_
    call,        \* the call of the user's thread, by what it does next
    managed,     \* the servers that have a cluster_manager_
    enables, edits,
    running,     \* cluster_running_
    acceptor,    \* cluster_acceptor_; "held": closed, and blocked in accept
    accepter,    \* the accept thread, by what it does next
    queue,       \* the nodes whose pings wait to be accepted
    nodes,       \* nodes_, [Nodes -> Seq([node, isAlive])]
    discovering, \* discovery_running_
    pinger,      \* the discovery thread, by what it does next
    turn,        \* the position in nodes_ that is being pinged
    link,        \* the connection of the ping
    faults

user == <<enabled, call, managed, enables>>
list == <<nodes, edits>>
listener == <<running, acceptor, accepter, queue>>
discovery == <<discovering, pinger, turn>>
vars == <<user, list, listener, discovery, link, faults>>

Calls == {"none", "close acceptor", "join accepter", "join pinger"}

On(f, n, x) == [f EXCEPT ![n] = x]

\* pingNodes holds nodes_mutex_ exclusively.
Locked(n) == pinger[n] \in {"dial", "read"}

Listed(n) == {nodes[n][i].node : i \in DOMAIN nodes[n]}
Target(n) == nodes[n][turn[n]].node

\* The nodes whose ping of t a handler has.
Served(t) == {n \in Nodes : link[n] \in {"open", "answered"} /\ Target(n) = t}

\* isClusterHealthy
Healthy(n) ==
    /\ nodes[n] # <<>>
    /\ Cardinality({i \in DOMAIN nodes[n] : nodes[n][i].isAlive}) >= (Len(nodes[n]) + 1) \div 2

Init ==
    /\ enabled = [n \in Nodes |-> FALSE]
    /\ call = [n \in Nodes |-> "none"]
    /\ managed = {} /\ enables = 0 /\ edits = 0
    /\ running = [n \in Nodes |-> FALSE]
    /\ acceptor = [n \in Nodes |-> "none"]
    /\ accepter = [n \in Nodes |-> "off"]
    /\ queue = [n \in Nodes |-> <<>>]
    /\ nodes = [n \in Nodes |-> <<>>]
    /\ discovering = [n \in Nodes |-> FALSE]
    /\ pinger = [n \in Nodes |-> "off"]
    /\ turn = [n \in Nodes |-> 0]
    /\ link = [n \in Nodes |-> "none"]
    /\ faults = 0

(***************************************************************************)
(* The user's thread                                                       *)
(***************************************************************************)

Discover(n) ==
    /\ discovering' = On(discovering, n, TRUE)
    /\ pinger' = IF discovering[n] THEN pinger ELSE On(pinger, n, "top")
    /\ UNCHANGED turn

\* startCluster and startNodeDiscovery; each does nothing if it runs.  A port
\* that is taken leaves the cluster stopped, with discovery running.
Enable(n) ==
    /\ call[n] = "none"
    /\ enables < MaxEnables /\ enables' = enables + 1
    /\ managed' = managed \cup {n}
    /\ enabled' = On(enabled, n, TRUE)
    /\ \/ /\ ~running[n] /\ Served(n) = {}
          /\ running' = On(running, n, TRUE)
          /\ acceptor' = On(acceptor, n, "open")
          /\ accepter' = On(accepter, n, "top")
          /\ UNCHANGED queue
       \/ UNCHANGED listener
    /\ Discover(n)
    /\ UNCHANGED <<call, list, link, faults>>

\* addNode and removeNode, when they have the lock.  A node that is added
\* counts as alive, and may be in the list already.
Edit(n) ==
    /\ call[n] = "none" /\ n \in managed /\ ~Locked(n)
    /\ edits < MaxEdits /\ edits' = edits + 1
    /\ UNCHANGED <<user, listener, discovery, link, faults>>

AddNode(n, t) ==
    /\ nodes' = [nodes EXCEPT ![n] = Append(@, [node |-> t, isAlive |-> TRUE])]
    /\ Edit(n)

\* The list s without its entries for t.
Without(s, t) ==
    LET kept[i \in 0..Len(s)] ==
            IF i = 0 THEN <<>>
            ELSE IF s[i].node = t THEN kept[i - 1] ELSE Append(kept[i - 1], s[i])
    IN  kept[Len(s)]

RemoveNode(n, t) ==
    /\ nodes' = [nodes EXCEPT ![n] = Without(@, t)]
    /\ Edit(n)

\* disableClustering stops the listener first ...
Disable(n) ==
    /\ call[n] = "none" /\ enabled[n]
    /\ running[n] /\ running' = On(running, n, FALSE)
    /\ call' = On(call, n, "close acceptor")
    /\ UNCHANGED <<enabled, managed, enables, list, acceptor, accepter, queue, discovery, link, faults>>

\* Mutant: they stay in the queue.
PortCloses_KeepsQueue(n) ==
    /\ acceptor' = On(acceptor, n, "closed")
    /\ UNCHANGED <<link, queue>>

\* ... with the connections that nobody has accepted ...
PortCloses(n) ==
    /\ acceptor' = On(acceptor, n, "closed")
    /\ link' = [m \in Nodes |-> IF m \in Range(queue[n]) THEN "ended" ELSE link[m]]
    /\ queue' = On(queue, n, <<>>)

CloseAcceptor(n) ==
    /\ call[n] = "close acceptor" /\ call' = On(call, n, "join accepter")
    /\ \/ /\ accepter[n] = "accept" /\ ~CloseWakes
          /\ acceptor' = On(acceptor, n, "held")
          /\ UNCHANGED <<accepter, queue, link>>
       \/ /\ PortCloses(n)
          /\ accepter' = IF accepter[n] = "accept" THEN On(accepter, n, "top") ELSE accepter
    /\ UNCHANGED <<enabled, managed, enables, list, running, discovery, faults>>

\* ... and then the discovery.
StopDiscovery(n) ==
    /\ \/ call[n] = "join accepter" /\ accepter[n] = "off"
       \/ call[n] = "none" /\ enabled[n] /\ ~running[n]
    /\ call' = On(call, n, "join pinger")
    /\ discovering' = On(discovering, n, FALSE)
    /\ UNCHANGED <<enabled, managed, enables, list, listener, pinger, turn, link, faults>>

JoinPinger(n) ==
    /\ call[n] = "join pinger" /\ pinger[n] = "off"
    /\ call' = On(call, n, "none")
    /\ enabled' = On(enabled, n, FALSE)
    /\ UNCHANGED <<managed, enables, list, listener, discovery, link, faults>>

DisableStep(n) == CloseAcceptor(n) \/ StopDiscovery(n) \/ JoinPinger(n)

(***************************************************************************)
(* The listener                                                            *)
(***************************************************************************)

AcceptTurn(n) ==
    /\ accepter[n] = "top"
    /\ \/ running[n] /\ acceptor[n] = "open" /\ accepter' = On(accepter, n, "accept")
       \/ ~running[n] /\ accepter' = On(accepter, n, "off")
    /\ UNCHANGED <<user, list, running, acceptor, queue, discovery, link, faults>>

\* A connection gets a handler if the cluster is still running.  The port
\* that was held for this call closes now.
Accept(n) ==
    /\ accepter[n] = "accept" /\ accepter' = On(accepter, n, "top")
    /\ queue[n] # <<>>
    /\ IF acceptor[n] = "held" THEN PortCloses(n)
       ELSE /\ link' = On(link, Head(queue[n]), IF running[n] THEN "open" ELSE "ended")
            /\ queue' = [queue EXCEPT ![n] = Tail(@)]
            /\ UNCHANGED acceptor
    /\ UNCHANGED <<user, list, running, discovery, faults>>

AcceptStep(n) == AcceptTurn(n) \/ Accept(n)

\* handleNodeConnection, for the ping of n: it is answered, unless the flag
\* has been cleared before it was read.
Answer(n) ==
    /\ link[n] = "open" /\ Target(n) \notin Mute
    /\ link' = On(link, n, "answered")
    /\ UNCHANGED <<user, list, listener, discovery, faults>>

Refuse(n) ==
    /\ link[n] = "open" /\ Target(n) \notin Mute /\ ~running[Target(n)]
    /\ link' = On(link, n, "ended")
    /\ UNCHANGED <<user, list, listener, discovery, faults>>

(***************************************************************************)
(* Discovery                                                               *)
(***************************************************************************)

\* nodeDiscoveryLoop; its sleep needs no state, a round may come late.
Round(n) ==
    /\ pinger[n] = "top"
    /\ \/ /\ discovering[n]
          /\ pinger' = On(pinger, n, "dial") /\ turn' = On(turn, n, 1)
       \/ ~discovering[n] /\ pinger' = On(pinger, n, "off") /\ UNCHANGED turn
    /\ UNCHANGED <<user, list, listener, discovering, link, faults>>

\* pingNodes: connects and writes, ...
Dial(n) ==
    /\ pinger[n] = "dial" /\ turn[n] <= Len(nodes[n])
    /\ acceptor[Target(n)] \in {"open", "held"}
    /\ link' = On(link, n, "queued")
    /\ queue' = [queue EXCEPT ![Target(n)] = Append(@, n)]
    /\ pinger' = On(pinger, n, "read")
    /\ UNCHANGED <<user, list, running, acceptor, accepter, discovering, turn, faults>>

\* Mutant: a node that was dead stays dead.
Verdict_Final(n, isAlive) ==
    /\ nodes' = [nodes EXCEPT ![n][turn[n]].isAlive = @ /\ isAlive]
    /\ turn' = [turn EXCEPT ![n] = @ + 1]
    /\ pinger' = On(pinger, n, "dial")
    /\ link' = On(link, n, "none")
    /\ UNCHANGED <<user, edits, listener, discovering>>

Verdict(n, isAlive) ==
    /\ nodes' = [nodes EXCEPT ![n][turn[n]].isAlive = isAlive]
    /\ turn' = [turn EXCEPT ![n] = @ + 1]
    /\ pinger' = On(pinger, n, "dial")
    /\ link' = On(link, n, "none")
    /\ UNCHANGED <<user, edits, listener, discovering>>

DialFails(n) ==
    /\ pinger[n] = "dial" /\ turn[n] <= Len(nodes[n])
    /\ IF acceptor[Target(n)] \in {"open", "held"}
       THEN faults < MaxFaults /\ faults' = faults + 1
       ELSE UNCHANGED faults
    /\ Verdict(n, FALSE)

\* ... and blocks until there is an answer or the end;
Receive(n) ==
    /\ pinger[n] = "read" /\ link[n] \in {"answered", "ended"}
    /\ Verdict(n, link[n] = "answered")
    /\ UNCHANGED faults

\* Mutant: the lock is taken outside of the loop of the rounds.
RoundEnds_KeepsLock(n) ==
    /\ pinger[n] = "dial" /\ turn[n] > Len(nodes[n])
    /\ turn' = On(turn, n, 1)
    /\ UNCHANGED <<user, list, listener, discovering, pinger, link, faults>>

\* the lock is released at the end of the list.
RoundEnds(n) ==
    /\ pinger[n] = "dial" /\ turn[n] > Len(nodes[n])
    /\ pinger' = On(pinger, n, "top") /\ turn' = On(turn, n, 0)
    /\ UNCHANGED <<user, list, listener, discovering, link, faults>>

PingStep(n) ==
    Round(n) \/ Dial(n) \/ DialFails(n) \/ Receive(n) \/ RoundEnds(n)

Next ==
    \E n \in Nodes :
        \/ Enable(n) \/ Disable(n) \/ DisableStep(n)
        \/ \E t \in Nodes : AddNode(n, t) \/ RemoveNode(n, t)
        \/ AcceptStep(n) \/ Answer(n) \/ Refuse(n)
        \/ PingStep(n)

Spec == Init /\ [][Next]_vars

\* The threads run, and a call that has begun goes on.
Fairness ==
    \A n \in Nodes :
        /\ WF_vars(call[n] # "none" /\ DisableStep(n)) /\ WF_vars(AcceptStep(n))
        /\ WF_vars(Answer(n)) /\ WF_vars(PingStep(n))

FairSpec == Spec /\ Fairness

(***************************************************************************)
(* Properties                                                              *)
(***************************************************************************)

\* Every variable has its type; the position is one of the list while the
\* list is locked, and a connection that waits to be accepted has a port.
TypeOK ==
    /\ enabled \in [Nodes -> BOOLEAN]
    /\ call \in [Nodes -> Calls]
    /\ managed \subseteq Nodes
    /\ enables \in 0..MaxEnables /\ edits \in 0..MaxEdits
    /\ running \in [Nodes -> BOOLEAN]
    /\ acceptor \in [Nodes -> {"none", "open", "held", "closed"}]
    /\ accepter \in [Nodes -> {"off", "top", "accept"}]
    /\ nodes \in [Nodes -> Seq([node : Nodes, isAlive : BOOLEAN])]
    /\ discovering \in [Nodes -> BOOLEAN]
    /\ pinger \in [Nodes -> {"off", "top", "dial", "read"}]
    /\ link \in [Nodes -> {"none", "queued", "open", "answered", "ended"}]
    /\ faults \in 0..MaxFaults
    /\ \A n \in Nodes :
          /\ turn[n] \in (IF Locked(n) THEN 1..(Len(nodes[n]) + 1) ELSE {0})
          /\ link[n] # "none" <=> pinger[n] = "read"
          /\ queue[n] # <<>> => acceptor[n] \in {"open", "held"}
          /\ \A m \in Nodes : m \in Range(queue[n]) <=> link[m] = "queued" /\ Target(m) = n

\* While discovery goes on every list becomes true and stays so: a node in
\* it is alive just if it runs, and isClusterHealthy tells whether at least
\* half of them do.  (The calls and the faults come to an end here.)
HealthConverges ==
    \A n \in Nodes : <>[](discovering[n]) =>
        <>[](LET up == {i \in DOMAIN nodes[n] : running[nodes[n][i].node]} IN
                /\ \A i \in DOMAIN nodes[n] : nodes[n][i].isAlive <=> i \in up
                /\ Healthy(n) <=> nodes[n] # <<>> /\ 2 * Cardinality(up) >= Len(nodes[n]))

\* The lock of the list is free again and again, so that the calls that need
\* it return; and disableClustering returns.  Where close does not wake the
\* accept thread, that takes the ping of a node that goes on.
CallsReturn ==
    \A n \in Nodes :
        /\ []<>(~Locked(n))
        /\ CloseWakes \/ (\E m \in Nodes : <>[](discovering[m] /\ n \in Listed(m))) =>
               []<>(call[n] = "none")

=============================================================================
