-------------------------- MODULE ReplicationProofs --------------------------
(***************************************************************************)
(* Proofs about Replication for any servers: the types, that a stop leaves *)
(* nothing of what it closes and joins, and what can end a process.        *)
(***************************************************************************)
EXTENDS Replication, TLAPS

\* A server whose process goes on, in four parts.  The master: its port is
\* open while it runs, and until it is closed by the stop.
MasterFits(n) ==
    /\ running[n] => acceptor[n] = "open" /\ ~Stopping(n, "master")
    /\ call[n] = "close acceptor" => acceptor[n] = "open"
    /\ call[n] = "join accepter" => acceptor[n] \in {"held", "closed"}
    /\ ~running[n] /\ ~Stopping(n, "master") =>
           accepter[n] = "off" /\ acceptor[n] \in {"none", "closed"}
    /\ acceptor[n] = "held" => accepter[n] = "accept"
    /\ accepter[n] = "accept" => acceptor[n] \in {"open", "held"}

\* With a patient user, it listens while its port is open.
ListenFits(n) == Patient /\ accepter[n] = "listen" => running[n]

\* The slave: after its socket was closed it is opened again only by a thread
\* that was dialling.
SlaveFits(n) ==
    /\ connected[n] => ~Stopping(n, "slave")
    /\ call[n] = "join puller" /\ (isOpen[n] \/ puller[n] = "dial") => n \in raced
    /\ ~connected[n] /\ ~Stopping(n, "slave") =>
           puller[n] = "off" /\ (isOpen[n] => n \in raced)

\* The user's thread stops the role the server has.
UserFits(n) ==
    /\ Stopping(n, "master") => role[n] = "master"
    /\ Stopping(n, "slave") => role[n] = "slave"
    /\ ~enabled[n] => IF role[n] = "master" THEN ~running[n] ELSE ~connected[n]

Fits(n) == MasterFits(n) /\ ListenFits(n) /\ SlaveFits(n) /\ UserFits(n)

\* What a connection rests on: the port, and the slave's socket.
LinksFit ==
    /\ Queued # {} \/ unclaimed > 0 => acceptor[Host] \in {"open", "held"}
    /\ \A s \in Nodes : link[s] # "none" => isOpen[s] \/ puller[s] = "read"

Types ==
    /\ enabled \in [Nodes -> BOOLEAN]
    /\ role \in [Nodes -> Roles]
    /\ call \in [Nodes -> Calls]
    /\ enables \in [Nodes -> 0..MaxEnables]
    /\ dead \subseteq Nodes /\ raced \subseteq Nodes
    /\ running \in [Nodes -> BOOLEAN]
    /\ acceptor \in [Nodes -> {"none", "open", "held", "closed"}]
    /\ accepter \in [Nodes -> Accepters]
    /\ strays \in Nat /\ unclaimed \in Nat
    /\ connected \in [Nodes -> BOOLEAN]
    /\ puller \in [Nodes -> Pullers]
    /\ isOpen \in [Nodes -> BOOLEAN]
    /\ link \in [Nodes -> Links]

AllFit == \A n \in Nodes \ dead : Fits(n)

Inv == Types /\ LinksFit /\ AllFit /\ (Patient => DiesOnlyByRace)

(***************************************************************************)
(* The ends of connections                                                 *)
(***************************************************************************)

LEMMA HangUpFacts ==
    ASSUME Types, NEW s \in Nodes, HangUp(s)
    PROVE  /\ link' \in [Nodes -> Links]
           /\ strays' \in Nat /\ unclaimed' \in Nat
           /\ link'[s] = "none"
           /\ \A t \in Nodes \ {s} : link'[t] = link[t]
           /\ (Queued # {} \/ unclaimed > 0)' => Queued # {} \/ unclaimed > 0
BY DEF Types, HangUp, On, Links, Handled, Queued

LEMMA EndedFacts ==
    ASSUME Types, NEW S \in SUBSET Nodes, link' = Ended(S)
    PROVE  /\ link' \in [Nodes -> Links]
           /\ \A s \in Nodes : link'[s] # "none" => link[s] # "none"
           /\ \A s \in Nodes : link'[s] = "queued" <=> s \notin S /\ link[s] = "queued"
           /\ Queued' = Queued \ S
<1>1. \A s \in Nodes : link'[s] = IF s \in S /\ link[s] # "none" THEN "ended" ELSE link[s]
    BY DEF Ended
<1>2. link' \in [Nodes -> Links]
    BY DEF Ended, Types, Links
<1> QED
    BY <1>1, <1>2 DEF Queued

\* Where links only end or go, what they rest on need not change.
LEMMA LinksGo ==
    ASSUME LinksFit,
           \A s \in Nodes : link'[s] # "none" => link[s] # "none",
           (Queued # {} \/ unclaimed > 0)' => Queued # {} \/ unclaimed > 0,
           (Queued # {} \/ unclaimed > 0)' => acceptor'[Host] = acceptor[Host],
           \A s \in Nodes : link'[s] # "none" /\ (isOpen[s] \/ puller[s] = "read") =>
                                  isOpen'[s] \/ puller'[s] = "read"
    PROVE  LinksFit'
BY DEF LinksFit

\* The port of a server that closes it, and a server that dies.
LEMMA PortClosesFacts ==
    ASSUME ReplicationAssumption, Types, LinksFit, NEW n \in Nodes, PortCloses(n)
    PROVE  /\ link' \in [Nodes -> Links]
           /\ strays' \in Nat /\ unclaimed' \in Nat
           /\ acceptor' \in [Nodes -> {"none", "open", "held", "closed"}]
           /\ acceptor'[n] = "closed"
           /\ \A m \in Nodes \ {n} : acceptor'[m] = acceptor[m]
           /\ \A s \in Nodes : link'[s] # "none" => link[s] # "none"
           /\ (Queued # {} \/ unclaimed > 0)' => n # Host /\ (Queued # {} \/ unclaimed > 0)
<1>1. Queued \in SUBSET Nodes
    BY DEF Queued
<1>2. CASE n = Host
    <2>1. link' = Ended(Queued)
        BY <1>2 DEF PortCloses
    <2> QED
        BY <1>1, <1>2, <2>1, EndedFacts DEF PortCloses, Types, On
<1>3. CASE n # Host
    <2>1. link' = Ended({})
        BY <1>3 DEF PortCloses
    <2>2. Queued' = Queued /\ link' \in [Nodes -> Links]
          /\ \A s \in Nodes : link'[s] # "none" => link[s] # "none"
        BY <2>1, EndedFacts
    <2> QED
        BY <1>3, <2>2 DEF PortCloses, Types, On
<1> QED
    BY <1>2, <1>3

LEMMA DiesFacts ==
    ASSUME ReplicationAssumption, Types, LinksFit, NEW n \in Nodes, Dies(n)
    PROVE  /\ link' \in [Nodes -> Links]
           /\ strays' \in Nat /\ unclaimed' \in Nat
           /\ acceptor' \in [Nodes -> {"none", "open", "held", "closed"}]
           /\ \A m \in Nodes \ {n} : acceptor'[m] = acceptor[m]
           /\ \A s \in Nodes : link'[s] # "none" => link[s] # "none"
           /\ (Queued # {} \/ unclaimed > 0)' => n # Host /\ (Queued # {} \/ unclaimed > 0)
<1>1. CASE n = Host
    <2>1. link' = Ended(Nodes)
        BY <1>1 DEF Dies
    <2>2. Queued' = {} /\ unclaimed' = 0 /\ strays' = 0
        BY <1>1, <2>1, EndedFacts DEF Dies, Queued
    <2> QED
        BY <1>1, <2>1, <2>2, EndedFacts DEF Dies, Types, On
<1>2. CASE n # Host
    <2>1. HangUp(n)
        BY <1>2 DEF Dies
    <2> QED
        BY <1>2, <2>1, HangUpFacts DEF Dies, Types, On
<1> QED
    BY <1>1, <1>2

(***************************************************************************)
(* One server steps and the others stay                                    *)
(***************************************************************************)

\* The part of a server that Fits speaks of is left alone.
Stays(m) ==
    /\ enabled'[m] = enabled[m] /\ role'[m] = role[m] /\ call'[m] = call[m]
    /\ running'[m] = running[m] /\ acceptor'[m] = acceptor[m]
    /\ accepter'[m] = accepter[m] /\ connected'[m] = connected[m]
    /\ puller'[m] = puller[m] /\ isOpen'[m] = isOpen[m]
    /\ (m \in raced => m \in raced')

LEMMA StaysFits ==
    ASSUME NEW m \in Nodes, Fits(m), Stays(m)
    PROVE  Fits(m)'
BY DEF Fits, MasterFits, ListenFits, SlaveFits, UserFits, Stopping, Stays

LEMMA OneSteps ==
    ASSUME AllFit, NEW n \in Nodes, dead \subseteq dead',
           \A m \in Nodes \ {n} : Stays(m),
           n \notin dead' => Fits(n)'
    PROVE  AllFit'
<1> SUFFICES ASSUME NEW m \in Nodes \ dead'
             PROVE  Fits(m)'
    BY DEF AllFit
<1>1. m # n => Fits(m)'
    BY StaysFits DEF AllFit
<1> QED
    BY <1>1

LEMMA InitInv ==
    ASSUME ReplicationAssumption, Init
    PROVE  Inv
<1>1. Types
    BY DEF Init, Types, Roles, Calls, Accepters, Pullers, Links, ReplicationAssumption
<1>2. LinksFit
    BY DEF Init, LinksFit, Queued
<1>3. AllFit
    BY DEF Init, AllFit, Fits, MasterFits, ListenFits, SlaveFits, UserFits, Stopping
<1> QED
    BY <1>1, <1>2, <1>3 DEF Inv, DiesOnlyByRace, Init

LEMMA StutterInv ==
    ASSUME Inv, UNCHANGED vars
    PROVE  Inv'
<1> USE DEF vars, user, master, host, slave
<1>1. Types' /\ LinksFit'
    BY DEF Inv, Types, LinksFit, Queued
<1>2. \A n \in Nodes : Stays(n)
    BY DEF Stays
<1>3. AllFit'
    BY <1>2, StaysFits DEF Inv, AllFit
<1> QED
    BY <1>1, <1>3 DEF Inv, DiesOnlyByRace

(***************************************************************************)
(* The user's thread                                                       *)
(***************************************************************************)

LEMMA EnableFacts ==
    ASSUME ReplicationAssumption, Types, NEW n \in Nodes, NEW r \in Roles, Enable(n, r)
    PROVE  /\ call[n] = "none" /\ n \notin dead /\ call' = call
           /\ enabled'[n] = TRUE /\ role'[n] = r
           /\ \A m \in Nodes \ {n} : enabled'[m] = enabled[m] /\ role'[m] = role[m]
           /\ enabled' \in [Nodes -> BOOLEAN] /\ role' \in [Nodes -> Roles]
           /\ enables' \in [Nodes -> 0..MaxEnables]
BY DEF ReplicationAssumption, Types, Enable, On

LEMMA EnableAgainInv ==
    ASSUME ReplicationAssumption, Inv, NEW n \in Nodes, NEW r \in Roles, EnableAgain(n, r)
    PROVE  Inv'
<1> USE DEF Inv, EnableAgain, user, master, host, slave
<1>1. Types'
    BY EnableFacts DEF Types
<1>2. LinksFit'
    BY DEF LinksFit, Queued
<1>3. \A m \in Nodes \ {n} : Stays(m)
    BY EnableFacts DEF Stays
<1>4. Fits(n)'
    BY EnableFacts DEF AllFit, Fits, MasterFits, ListenFits, SlaveFits, UserFits, Stopping
<1> QED
    BY <1>1, <1>2, <1>3, <1>4, OneSteps DEF DiesOnlyByRace

LEMMA StartMasterInv ==
    ASSUME ReplicationAssumption, Inv, NEW n \in Nodes, StartMaster(n)
    PROVE  Inv'
<1> USE DEF Inv, StartMaster, user, master, host, slave
<1>0. "master" \in Roles
    BY DEF Roles
<1>1. Types'
    BY <1>0, EnableFacts DEF Types, On, Accepters
<1>2. LinksFit'
    BY DEF LinksFit, Queued, On, Types
<1>3. /\ running'[n] = TRUE /\ acceptor'[n] = "open" /\ accepter'[n] = "listen"
      /\ \A m \in Nodes \ {n} : /\ running'[m] = running[m] /\ acceptor'[m] = acceptor[m]
                                /\ accepter'[m] = accepter[m]
    BY DEF On, Types
<1>4. /\ call[n] = "none" /\ n \notin dead /\ call' = call
      /\ enabled'[n] = TRUE /\ role'[n] = "master"
      /\ \A m \in Nodes \ {n} : enabled'[m] = enabled[m] /\ role'[m] = role[m]
    BY <1>0, EnableFacts
<1>5. Fits(n) /\ UNCHANGED <<dead, raced, connected, puller, isOpen>>
    BY <1>4 DEF AllFit
<1> HIDE DEF Inv, StartMaster, user, master, host, slave
<1>6. \A m \in Nodes \ {n} : Stays(m)
    BY <1>3, <1>4, <1>5 DEF Stays
<1>7. MasterFits(n)' /\ ListenFits(n)'
    BY <1>3, <1>4 DEF MasterFits, ListenFits, Stopping
<1>8. SlaveFits(n)' /\ UserFits(n)'
    BY <1>3, <1>4, <1>5 DEF Fits, SlaveFits, UserFits, Stopping
<1>9. Fits(n)'
    BY <1>7, <1>8 DEF Fits
<1>10. AllFit'
    BY <1>5, <1>6, <1>9, OneSteps DEF Inv
<1> QED
    BY <1>1, <1>2, <1>5, <1>10 DEF Inv, DiesOnlyByRace

LEMMA StartMasterFailsInv ==
    ASSUME ReplicationAssumption, Inv, NEW n \in Nodes, StartMasterFails(n)
    PROVE  Inv'
<1> USE DEF Inv, StartMasterFails, user, master, host, slave
<1>0. "master" \in Roles
    BY DEF Roles
<1>1. Types'
    BY <1>0, EnableFacts DEF Types
<1>2. LinksFit'
    BY DEF LinksFit, Queued
<1>3. \A m \in Nodes \ {n} : Stays(m)
    BY <1>0, EnableFacts DEF Stays
<1>4. Fits(n)'
    BY <1>0, EnableFacts DEF AllFit, Fits, MasterFits, ListenFits, SlaveFits, UserFits, Stopping
<1> QED
    BY <1>1, <1>2, <1>3, <1>4, OneSteps DEF DiesOnlyByRace

\* The crash on a socket that is still open is the one DiesOnlyByRace speaks of.
LEMMA StartSlaveInv ==
    ASSUME ReplicationAssumption, Inv, NEW n \in Nodes, StartSlave(n)
    PROVE  Inv'
<1> USE DEF Inv, StartSlave
<1>0. "slave" \in Roles
    BY DEF Roles
<1>1. CASE /\ connected' = On(connected, n, TRUE)
           /\ puller' = On(puller, n, "top")
           /\ isOpen' = On(isOpen, n, FALSE)
           /\ HangUp(n)
           /\ UNCHANGED <<dead, master, raced>>
    <2> USE <1>1 DEF master
    <2>1. Types'
        BY <1>0, EnableFacts, HangUpFacts DEF Types, On, Pullers
    <2>2. LinksFit'
        <3>1. \A s \in Nodes \ {n} : isOpen'[s] = isOpen[s] /\ puller'[s] = puller[s]
            BY DEF On, Types
        <3> QED
            BY <3>1, HangUpFacts, LinksGo
    <2>3. /\ connected'[n] = TRUE /\ puller'[n] = "top" /\ isOpen'[n] = FALSE
          /\ \A m \in Nodes \ {n} : /\ connected'[m] = connected[m] /\ puller'[m] = puller[m]
                                    /\ isOpen'[m] = isOpen[m]
        BY DEF On, Types
    <2>4. /\ call[n] = "none" /\ n \notin dead /\ call' = call
          /\ enabled'[n] = TRUE /\ role'[n] = "slave"
          /\ \A m \in Nodes \ {n} : enabled'[m] = enabled[m] /\ role'[m] = role[m]
        BY <1>0, EnableFacts
    <2>5. Fits(n) /\ ~Stopping(n, "master")
          /\ UNCHANGED <<dead, raced, running, acceptor, accepter>>
        BY <2>4 DEF AllFit, Stopping
    <2> HIDE <1>1 DEF Inv, StartSlave, master
    <2>6. \A m \in Nodes \ {n} : Stays(m)
        BY <2>3, <2>4, <2>5 DEF Stays
    <2>7. MasterFits(n)' /\ ListenFits(n)'
        BY <2>4, <2>5 DEF Fits, MasterFits, ListenFits, Stopping
    <2>8. SlaveFits(n)' /\ UserFits(n)'
        BY <2>3, <2>4 DEF SlaveFits, UserFits, Stopping
    <2>9. Fits(n)'
        BY <2>7, <2>8 DEF Fits
    <2>10. AllFit'
        BY <2>5, <2>6, <2>9, OneSteps DEF Inv
    <2> QED
        BY <2>1, <2>2, <2>5, <2>10 DEF Inv, DiesOnlyByRace
<1>2. CASE isOpen[n] /\ Dies(n) /\ UNCHANGED <<running, accepter, slave>>
    <2> USE <1>2 DEF slave
    <2>1. Types'
        BY <1>0, EnableFacts, DiesFacts DEF Types, Dies
    <2>2. LinksFit'
        BY DiesFacts, LinksGo DEF ReplicationAssumption
    <2>3. \A m \in Nodes \ {n} : Stays(m)
        BY <1>0, EnableFacts, DiesFacts DEF Stays
    <2>4. n \in dead' /\ dead' = dead \cup {n}
        BY DEF Dies
    <2>5. n \in raced
        <3>1. Fits(n) /\ call[n] = "none" /\ ~connected[n]
            BY <1>0, EnableFacts DEF AllFit
        <3> QED
            BY <3>1 DEF Fits, SlaveFits, Stopping
    <2> QED
        BY <2>1, <2>2, <2>3, <2>4, <2>5, OneSteps DEF DiesOnlyByRace
<1> QED
    BY <1>1, <1>2

LEMMA StopMasterInv ==
    ASSUME ReplicationAssumption, Inv, NEW n \in Nodes, StopMaster(n)
    PROVE  Inv'
<1> USE DEF Inv, StopMaster, Stops, user, master, host, slave
<1>1. Types'
    BY DEF Types, On, Calls
<1>2. LinksFit'
    BY DEF LinksFit, Queued
<1>3. \A m \in Nodes \ {n} : Stays(m)
    BY DEF Stays, On, Types
<1>4. Fits(n)'
    BY DEF AllFit, On, Types, Fits, MasterFits, ListenFits, SlaveFits, UserFits, Stopping
<1> QED
    BY <1>1, <1>2, <1>3, <1>4, OneSteps DEF DiesOnlyByRace

LEMMA StopSlaveInv ==
    ASSUME ReplicationAssumption, Inv, NEW n \in Nodes, StopSlave(n)
    PROVE  Inv'
<1> USE DEF Inv, StopSlave, Stops, user, master, host, slave
<1>1. Types'
    BY DEF Types, On, Calls
<1>2. LinksFit'
    BY DEF LinksFit, Queued
<1>3. \A m \in Nodes \ {n} : Stays(m)
    BY DEF Stays, On, Types
<1>4. Fits(n)'
    BY DEF AllFit, On, Types, Fits, MasterFits, ListenFits, SlaveFits, UserFits, Stopping
<1> QED
    BY <1>1, <1>2, <1>3, <1>4, OneSteps DEF DiesOnlyByRace

LEMMA DisableStoppedInv ==
    ASSUME ReplicationAssumption, Inv, NEW n \in Nodes, DisableStopped(n)
    PROVE  Inv'
<1> USE DEF Inv, DisableStopped, user, master, host, slave
<1>1. Types'
    BY DEF Types, On
<1>2. LinksFit'
    BY DEF LinksFit, Queued
<1>3. \A m \in Nodes \ {n} : Stays(m)
    BY DEF Stays, On, Types
<1>4. Fits(n)'
    BY DEF AllFit, On, Types, Fits, MasterFits, ListenFits, SlaveFits, UserFits, Stopping
<1> QED
    BY <1>1, <1>2, <1>3, <1>4, OneSteps DEF DiesOnlyByRace

LEMMA CloseAcceptorInv ==
    ASSUME ReplicationAssumption, Inv, NEW n \in Nodes \ dead, CloseAcceptor(n)
    PROVE  Inv'
<1> USE DEF Inv, CloseAcceptor, slave
<1>1. CASE /\ accepter[n] = "accept" /\ ~CloseWakes
           /\ acceptor' = On(acceptor, n, "held")
           /\ UNCHANGED <<accepter, link, host>>
    <2> USE <1>1 DEF host
    <2>1. Types'
        BY DEF Types, On, Calls
    <2>2. LinksFit'
        BY DEF LinksFit, Queued, On, Types
    <2>3. \A m \in Nodes \ {n} : Stays(m)
        BY DEF Stays, On, Types
    <2>4. Fits(n)'
        BY DEF AllFit, On, Types, Fits, MasterFits, ListenFits, SlaveFits, UserFits, Stopping
    <2> QED
        BY <2>1, <2>2, <2>3, <2>4, OneSteps DEF DiesOnlyByRace
<1>2. CASE /\ PortCloses(n)
           /\ accepter' = IF accepter[n] = "accept" THEN On(accepter, n, "top") ELSE accepter
    <2> USE <1>2
    <2>1. Types'
        BY PortClosesFacts DEF Types, On, Calls, Accepters
    <2>2. LinksFit'
        BY PortClosesFacts, LinksGo DEF ReplicationAssumption
    <2>3. \A m \in Nodes \ {n} : Stays(m)
        BY PortClosesFacts DEF Stays, On, Types
    <2>4. /\ call[n] = "close acceptor" /\ call'[n] = "join accepter"
          /\ acceptor'[n] = "closed" /\ accepter'[n] \in {accepter[n], "top"}
          /\ accepter'[n] # "accept" /\ (accepter'[n] = "listen" => accepter[n] = "listen")
        BY PortClosesFacts DEF On, Types
    <2>5. Fits(n) /\ UNCHANGED <<enabled, role, dead, running, connected, puller, isOpen, raced>>
        BY DEF AllFit
    <2> HIDE <1>2 DEF Inv, CloseAcceptor, slave
    <2>6. MasterFits(n)' /\ ListenFits(n)'
        BY <2>4, <2>5 DEF Fits, MasterFits, ListenFits, Stopping
    <2>7. SlaveFits(n)' /\ UserFits(n)'
        BY <2>4, <2>5 DEF Fits, SlaveFits, UserFits, Stopping
    <2>8. Fits(n)'
        BY <2>6, <2>7 DEF Fits
    <2>9. AllFit'
        BY <2>3, <2>5, <2>8, OneSteps DEF Inv
    <2> QED
        BY <2>1, <2>2, <2>5, <2>9 DEF Inv, DiesOnlyByRace
<1> QED
    BY <1>1, <1>2

LEMMA CloseSocketInv ==
    ASSUME ReplicationAssumption, Inv, NEW n \in Nodes \ dead, CloseSocket(n)
    PROVE  Inv'
<1> USE DEF Inv, CloseSocket, master
<1>1. /\ raced' \in SUBSET Nodes /\ raced \subseteq raced'
      /\ puller[n] = "dial" => n \in raced'
    BY DEF Types
<1>2. CASE puller[n] = "read" /\ ~CloseWakes /\ UNCHANGED <<puller, link, host>>
    <2> USE <1>1, <1>2 DEF host
    <2>1. Types'
        BY DEF Types, On, Calls
    <2>2. LinksFit'
        BY DEF LinksFit, Queued, On, Types
    <2>3. \A m \in Nodes \ {n} : Stays(m)
        BY DEF Stays, On, Types
    <2>4. Fits(n)'
        BY DEF AllFit, On, Types, Fits, MasterFits, ListenFits, SlaveFits, UserFits, Stopping
    <2> QED
        BY <2>1, <2>2, <2>3, <2>4, OneSteps DEF DiesOnlyByRace
<1>3. CASE /\ HangUp(n)
           /\ puller' = IF puller[n] = "read" THEN On(puller, n, "top") ELSE puller
    <2> USE <1>1, <1>3
    <2>1. Types'
        BY HangUpFacts DEF Types, On, Calls, Pullers
    <2>2. LinksFit'
        <3>1. \A s \in Nodes \ {n} : isOpen'[s] = isOpen[s] /\ puller'[s] = puller[s]
            BY DEF On, Types
        <3> QED
            BY <3>1, HangUpFacts, LinksGo
    <2>3. \A m \in Nodes \ {n} : Stays(m)
        BY DEF Stays, On, Types
    <2>4. Fits(n)'
        BY DEF AllFit, On, Types, Fits, MasterFits, ListenFits, SlaveFits, UserFits, Stopping
    <2> QED
        BY <2>1, <2>2, <2>3, <2>4, OneSteps DEF DiesOnlyByRace
<1> QED
    BY <1>2, <1>3

LEMMA JoinInv ==
    ASSUME ReplicationAssumption, Inv, NEW n \in Nodes \ dead, Join(n)
    PROVE  Inv'
<1> USE DEF Inv, Join, user, master, host, slave
<1>1. Types'
    BY DEF Types, On, Calls
<1>2. LinksFit'
    BY DEF LinksFit, Queued
<1>3. \A m \in Nodes \ {n} : Stays(m)
    BY DEF Stays, On, Types
<1>4. Fits(n)'
    BY DEF AllFit, On, Types, Fits, MasterFits, ListenFits, SlaveFits, UserFits, Stopping
<1> QED
    BY <1>1, <1>2, <1>3, <1>4, OneSteps DEF DiesOnlyByRace

(***************************************************************************)
(* The master's threads                                                    *)
(***************************************************************************)

\* listen() throws where the port was closed: not for a patient user.
LEMMA ListenInv ==
    ASSUME ReplicationAssumption, Inv, NEW n \in Nodes \ dead, Listen(n)
    PROVE  Inv'
<1> USE DEF Inv, Listen, user, slave
<1>1. CASE /\ acceptor[n] = "open"
           /\ accepter' = On(accepter, n, "top")
           /\ UNCHANGED <<dead, acceptor, host, link>>
    <2> USE <1>1 DEF host
    <2>1. Types'
        BY DEF Types, On, Accepters
    <2>2. LinksFit'
        BY DEF LinksFit, Queued
    <2>3. \A m \in Nodes \ {n} : Stays(m)
        BY DEF Stays, On, Types
    <2>4. Fits(n)'
        BY DEF AllFit, On, Types, Fits, MasterFits, ListenFits, SlaveFits, UserFits, Stopping
    <2> QED
        BY <2>1, <2>2, <2>3, <2>4, OneSteps DEF DiesOnlyByRace
<1>2. CASE acceptor[n] # "open" /\ Dies(n) /\ UNCHANGED accepter
    <2> USE <1>2
    <2>1. Types'
        BY DiesFacts DEF Types, Dies
    <2>2. LinksFit'
        BY DiesFacts, LinksGo DEF ReplicationAssumption
    <2>3. \A m \in Nodes \ {n} : Stays(m)
        BY DiesFacts DEF Stays
    <2>4. n \in dead' /\ dead' = dead \cup {n}
        BY DEF Dies
    <2>5. ~Patient
        BY DEF AllFit, Fits, MasterFits, ListenFits
    <2> QED
        BY <2>1, <2>2, <2>3, <2>4, <2>5, OneSteps
<1> QED
    BY <1>1, <1>2

LEMMA AcceptTurnInv ==
    ASSUME ReplicationAssumption, Inv, NEW n \in Nodes \ dead, AcceptTurn(n)
    PROVE  Inv'
<1> USE DEF Inv, AcceptTurn, user, master, host, slave
<1>1. Types'
    BY DEF Types, On, Accepters
<1>2. LinksFit'
    BY DEF LinksFit, Queued
<1>3. \A m \in Nodes \ {n} : Stays(m)
    BY DEF Stays, On, Types
<1>4. Fits(n)'
    BY DEF AllFit, On, Types, Fits, MasterFits, ListenFits, SlaveFits, UserFits, Stopping
<1> QED
    BY <1>1, <1>2, <1>3, <1>4, OneSteps DEF DiesOnlyByRace

LEMMA AcceptInv ==
    ASSUME ReplicationAssumption, Inv, NEW n \in Nodes \ dead, Accept(n)
    PROVE  Inv'
<1> USE DEF Inv, Accept, user, slave
<1>0. n = Host /\ Queued \subseteq Nodes
    BY DEF Queued
<1>1. /\ accepter' \in [Nodes -> Accepters]
      /\ acceptor' \in [Nodes -> {"none", "open", "held", "closed"}]
    BY DEF Types, On, Accepters
<1>2. /\ link' \in [Nodes -> Links] /\ strays' \in Nat /\ unclaimed' \in Nat
      /\ \A t \in Nodes : link'[t] # "none" => link[t] # "none"
      /\ Queued' \subseteq Queued /\ unclaimed' <= unclaimed
      /\ acceptor[n] = "held" /\ ~running[n] => Queued' = {} /\ unclaimed' = 0
    <2>1. CASE running[n]
        BY <2>1 DEF host, Types, On, Links, Queued
    <2>2. CASE ~running[n] /\ acceptor[n] = "held"
        BY <1>0, <2>2, EndedFacts DEF Types
    <2>3. CASE ~running[n] /\ acceptor[n] # "held"
        <3>1. /\ strays' = strays
              /\ \/ \E t \in Queued : link' = Ended({t}) /\ unclaimed' = unclaimed
                 \/ unclaimed > 0 /\ unclaimed' = unclaimed - 1 /\ link' = link
            BY <2>3
        <3>2. CASE unclaimed > 0 /\ unclaimed' = unclaimed - 1 /\ link' = link
            BY <2>3, <3>1, <3>2 DEF Types, Queued
        <3>3. CASE \E t \in Queued : link' = Ended({t}) /\ unclaimed' = unclaimed
            <4>1. PICK t \in Queued : link' = Ended({t}) /\ unclaimed' = unclaimed
                BY <3>3
            <4>2. {t} \in SUBSET Nodes
                BY <1>0
            <4> HIDE DEF Accept
            <4>3. /\ link' \in [Nodes -> Links] /\ Queued' = Queued \ {t}
                  /\ \A r \in Nodes : link'[r] # "none" => link[r] # "none"
                BY <4>1, <4>2, EndedFacts
            <4>4. /\ strays' = strays /\ strays \in Nat
                  /\ unclaimed' = unclaimed /\ unclaimed \in Nat
                BY <3>1, <4>1 DEF Types
            <4> QED
                BY <2>3, <4>3, <4>4
        <3> QED
            BY <3>1, <3>2, <3>3
    <2> QED
        BY <2>1, <2>2, <2>3
<1>3. Fits(n)
    BY DEF AllFit
<1>4. acceptor'[Host] \in {"open", "held"} \/ (Queued' = {} /\ unclaimed' = 0)
    <2>1. /\ accepter[n] = "accept"
          /\ acceptor' = IF acceptor[n] = "held" THEN On(acceptor, n, "closed") ELSE acceptor
        OBVIOUS
    <2>2. acceptor[n] \in {"open", "held"} /\ (running[n] => acceptor[n] = "open")
        BY <1>3, <2>1 DEF Fits, MasterFits
    <2> HIDE DEF Accept
    <2> QED
        BY <1>0, <1>2, <2>1, <2>2
<1>5. LinksFit'
    BY <1>2, <1>4 DEF LinksFit
<1>6. \A m \in Nodes \ {n} : Stays(m)
    BY DEF Stays, On, Types
<1>7. Fits(n)'
    BY <1>3 DEF On, Types, Fits, MasterFits, ListenFits, SlaveFits, UserFits, Stopping
<1> QED
    BY <1>1, <1>2, <1>5, <1>6, <1>7, OneSteps DEF Types, DiesOnlyByRace

\* The handlers: what Fits speaks of is not theirs.
LEMMA HandlersFit ==
    ASSUME AllFit, UNCHANGED <<user, dead, master, slave>>
    PROVE  AllFit'
BY DEF AllFit, user, master, slave, Fits, MasterFits, ListenFits, SlaveFits, UserFits, Stopping

LEMMA GreetInv ==
    ASSUME ReplicationAssumption, Inv, NEW s \in Nodes, Greet(s)
    PROVE  Inv'
<1> USE DEF Inv, Greet
<1>1. Types' /\ LinksFit'
    BY DEF Types, LinksFit, Queued, On, Links, user, master, host, slave
<1> QED
    BY <1>1, HandlersFit DEF slave, DiesOnlyByRace

LEMMA LeaveInv ==
    ASSUME ReplicationAssumption, Inv, NEW s \in Nodes, Leave(s)
    PROVE  Inv'
<1> USE DEF Inv, Leave
<1>1. Types'
    BY EndedFacts DEF Types, user, master, host, slave
<1>2. LinksFit'
    BY EndedFacts DEF LinksFit, master, host, slave
<1> QED
    BY <1>1, <1>2, HandlersFit DEF slave, DiesOnlyByRace

LEMMA StrayLeavesInv ==
    ASSUME ReplicationAssumption, Inv, StrayLeaves
    PROVE  Inv'
<1> USE DEF Inv, StrayLeaves
<1>1. Types' /\ LinksFit'
    BY DEF Types, LinksFit, Queued, user, master, slave
<1> QED
    BY <1>1, HandlersFit DEF slave, DiesOnlyByRace

(***************************************************************************)
(* The slave's thread                                                      *)
(***************************************************************************)

LEMMA PullTurnInv ==
    ASSUME ReplicationAssumption, Inv, NEW s \in Nodes \ dead, PullTurn(s)
    PROVE  Inv'
<1> USE DEF Inv, PullTurn, Pull, user, master, host
<1>1. Types'
    BY DEF Types, On, Pullers, Links
<1>2. LinksFit'
    BY DEF LinksFit, Queued, On, Types
<1>3. \A m \in Nodes \ {s} : Stays(m)
    BY DEF Stays, On, Types
<1>4. Fits(s)'
    BY DEF AllFit, On, Types, Fits, MasterFits, ListenFits, SlaveFits, UserFits, Stopping
<1> QED
    BY <1>1, <1>2, <1>3, <1>4, OneSteps DEF DiesOnlyByRace

LEMMA DialInv ==
    ASSUME ReplicationAssumption, Inv, NEW s \in Nodes \ dead, Dial(s)
    PROVE  Inv'
<1> USE DEF Inv, Dial, Pull, user, master, host
<1>1. Types'
    BY DEF Types, On, Pullers, Links
<1>2. LinksFit'
    BY DEF LinksFit, Queued, On, Types
<1>3. \A m \in Nodes \ {s} : Stays(m)
    BY DEF Stays, On, Types
<1>4. Fits(s)'
    BY DEF AllFit, On, Types, Fits, MasterFits, ListenFits, SlaveFits, UserFits, Stopping
<1> QED
    BY <1>1, <1>2, <1>3, <1>4, OneSteps DEF DiesOnlyByRace

LEMMA DialFailsInv ==
    ASSUME ReplicationAssumption, Inv, NEW s \in Nodes \ dead, DialFails(s)
    PROVE  Inv'
<1> USE DEF Inv, DialFails, Pull, user, master, host
<1>1. Types'
    BY DEF Types, On, Pullers, Links
<1>2. LinksFit'
    BY DEF LinksFit, Queued, On, Types
<1>3. \A m \in Nodes \ {s} : Stays(m)
    BY DEF Stays, On, Types
<1>4. Fits(s)'
    BY DEF AllFit, On, Types, Fits, MasterFits, ListenFits, SlaveFits, UserFits, Stopping
<1> QED
    BY <1>1, <1>2, <1>3, <1>4, OneSteps DEF DiesOnlyByRace

LEMMA RestedInv ==
    ASSUME ReplicationAssumption, Inv, NEW s \in Nodes \ dead, Rested(s)
    PROVE  Inv'
<1> USE DEF Inv, Rested, Pull, user, master, host
<1>1. Types'
    BY DEF Types, On, Pullers, Links
<1>2. LinksFit'
    BY DEF LinksFit, Queued, On, Types
<1>3. \A m \in Nodes \ {s} : Stays(m)
    BY DEF Stays, On, Types
<1>4. Fits(s)'
    BY DEF AllFit, On, Types, Fits, MasterFits, ListenFits, SlaveFits, UserFits, Stopping
<1> QED
    BY <1>1, <1>2, <1>3, <1>4, OneSteps DEF DiesOnlyByRace

LEMMA LookInv ==
    ASSUME ReplicationAssumption, Inv, NEW s \in Nodes \ dead, Look(s)
    PROVE  Inv'
<1> USE DEF Inv, Look, Pull, user, master, host
<1>1. Types'
    BY DEF Types, On, Pullers, Links
<1>2. LinksFit'
    BY DEF LinksFit, Queued, On, Types
<1>3. \A m \in Nodes \ {s} : Stays(m)
    BY DEF Stays, On, Types
<1>4. Fits(s)'
    BY DEF AllFit, On, Types, Fits, MasterFits, ListenFits, SlaveFits, UserFits, Stopping
<1> QED
    BY <1>1, <1>2, <1>3, <1>4, OneSteps DEF DiesOnlyByRace

\* What was left of a connection whose socket is closed goes with the read.
LEMMA ReadSomeInv ==
    ASSUME ReplicationAssumption, Inv, NEW s \in Nodes \ dead, ReadSome(s)
    PROVE  Inv'
<1> USE DEF Inv, ReadSome, Pull, user, master
<1>1. puller' \in [Nodes -> Pullers]
    BY DEF Types, On, Pullers
<1>2. Types' /\ LinksFit'
    <2>1. CASE isOpen[s]
        BY <1>1, <2>1 DEF host, Types, LinksFit, Queued, On, Links
    <2>2. CASE ~isOpen[s]
        <3>1. \A t \in Nodes \ {s} : puller'[t] = puller[t]
            BY DEF On, Types
        <3> QED
            BY <1>1, <2>2, <3>1, HangUpFacts, LinksGo DEF Types
    <2> QED
        BY <2>1, <2>2
<1>3. \A m \in Nodes \ {s} : Stays(m)
    BY DEF Stays, On, Types
<1>4. Fits(s)'
    BY DEF AllFit, On, Types, Fits, MasterFits, ListenFits, SlaveFits, UserFits, Stopping
<1> QED
    BY <1>2, <1>3, <1>4, OneSteps DEF DiesOnlyByRace

LEMMA ReadEndInv ==
    ASSUME ReplicationAssumption, Inv, NEW s \in Nodes \ dead, ReadEnd(s)
    PROVE  Inv'
<1> USE DEF Inv, ReadEnd, Pull, user, master, host
<1>1. Types'
    BY DEF Types, On, Pullers, Links
<1>2. LinksFit'
    BY DEF LinksFit, Queued, On, Types
<1>3. \A m \in Nodes \ {s} : Stays(m)
    BY DEF Stays, On, Types
<1>4. Fits(s)'
    BY DEF AllFit, On, Types, Fits, MasterFits, ListenFits, SlaveFits, UserFits, Stopping
<1> QED
    BY <1>1, <1>2, <1>3, <1>4, OneSteps DEF DiesOnlyByRace

(***************************************************************************)
(* The theorems                                                            *)
(***************************************************************************)

LEMMA NextInv ==
    ASSUME ReplicationAssumption, Inv, Next
    PROVE  Inv'
<1>1. ASSUME NEW n \in Nodes,
             \/ \E r \in Roles : EnableAgain(n, r)
             \/ StartMaster(n) \/ StartMasterFails(n) \/ StartSlave(n)
             \/ StopMaster(n) \/ StopSlave(n) \/ DisableStopped(n)
      PROVE  Inv'
    BY <1>1, EnableAgainInv, StartMasterInv, StartMasterFailsInv, StartSlaveInv,
       StopMasterInv, StopSlaveInv, DisableStoppedInv
<1>2. ASSUME NEW n \in Nodes, StopStep(n) \/ AcceptStep(n)
      PROVE  Inv'
    BY <1>2, CloseAcceptorInv, CloseSocketInv, JoinInv, ListenInv, AcceptTurnInv, AcceptInv
       DEF StopStep, AcceptStep
<1>3. ASSUME NEW n \in Nodes, Greet(n) \/ Leave(n) \/ PullStep(n)
      PROVE  Inv'
    BY <1>3, GreetInv, LeaveInv, PullTurnInv, DialInv, DialFailsInv, RestedInv, LookInv,
       ReadSomeInv, ReadEndInv DEF PullStep
<1> QED
    BY <1>1, <1>2, <1>3, StrayLeavesInv DEF Next

\* Inv is an invariant.
THEOREM Invariant == ReplicationAssumption => (Spec => []Inv)
<1> SUFFICES ASSUME ReplicationAssumption PROVE Spec => []Inv
    OBVIOUS
<1>1. Inv /\ [Next]_vars => Inv'
    BY NextInv, StutterInv
<1> QED
    BY <1>1, InitInv, PTL DEF Spec

\* Every variable has its type, and a connection rests on a port and a socket.
THEOREM TypeCorrect == Spec => []TypeOK
<1>1. Inv => TypeOK
    BY DEF Inv, Types, LinksFit, TypeOK
<1> QED
    BY <1>1, Invariant, ReplicationAssumption, PTL

\* A stop that has returned has closed and joined the accept thread and the
\* port, or the slave's thread and its socket, of its own role (stopMaster,
\* stopSlave, disableReplication); for any number of servers, with or without
\* a user who waits, and whether or not close() wakes blocked threads.  It
\* says nothing of detached handlers and of the other role.
THEOREM Stopped == Spec => []JoinedIsGone
<1>1. Inv => JoinedIsGone
    BY DEF Inv, AllFit, Fits, MasterFits, SlaveFits, UserFits, JoinedIsGone
<1> QED
    BY <1>1, Invariant, ReplicationAssumption, PTL

\* Replication of a patient user's servers ends a process only where stopSlave
\* met a thread that was dialling.
THEOREM DeathByRace == Patient => (Spec => []DiesOnlyByRace)
<1> SUFFICES ASSUME Patient PROVE Spec => []DiesOnlyByRace
    OBVIOUS
<1>1. Inv => DiesOnlyByRace
    BY DEF Inv
<1> QED
    BY <1>1, Invariant, ReplicationAssumption, PTL

=============================================================================
