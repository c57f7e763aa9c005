---------------------------- MODULE Replication ----------------------------
(***************************************************************************)
(* The ReplicationManagers of several servers: on each a user's thread     *)
(* enables and disables replication, a master's accept thread waits for    *)
(* slaves and gives each a detached handler, a slave's thread dials the    *)
(* one configured host, reads, and dials again.  The commands that are     *)
(* read are only logged, so a slave gets nothing but the snapshot.         *)
(*                                                                         *)
(* Whether close() wakes a thread that is blocked in accept or read        *)
(* depends on the platform: it does on Windows, not on Linux, where the    *)
(* kernel keeps the socket until the blocked call returns.                 *)
(*                                                                         *)
(* `raced' is kept for the properties; no action looks at it.              *)
(***************************************************************************)
EXTENDS Integers, FiniteSets

CONSTANTS
    Nodes,
    Host,        \* the server whose replication port the slaves dial
    Asks,        \* [Nodes -> SUBSET Roles], the roles that are enabled there
    CloseWakes,  \* BOOLEAN
    Patient,     \* BOOLEAN: does the user leave a second between two calls?
    MaxEnables   \* bound on the calls of enableReplication, per server

Roles == {"master", "slave"}

ASSUME ReplicationAssumption ==
    /\ Host \in Nodes
    /\ Asks \in [Nodes -> SUBSET Roles]
    /\ CloseWakes \in BOOLEAN /\ Patient \in BOOLEAN
    /\ MaxEnables \in Nat

VARIABLES
    enabled,   \* replication_enabled_
    role,      \* role_
    call,      \* the call of the user's thread, by what it does next
    enables,   \* calls of enableReplication so far
    dead,      \* the servers that have terminated
    \* the masters
    running,   \* master_running_
    acceptor,  \* master_acceptor_; "held": closed, and blocked in accept
    accepter,  \* the accept thread, by what it does next
    strays,    \* handlers of Host whose slave is gone
    unclaimed, \* connections in Host's queue whose slave is gone
    \* the slaves
    connected, \* slave_connected_
    puller,    \* the slave's thread, by what it does next
    isOpen,    \* slave_socket_->is_open()
    link,      \* the slave's connection to Host
    raced      \* servers whose stopSlave met a thread that was dialling

user == <<enabled, role, call, enables>>
master == <<running, acceptor, accepter>>
host == <<strays, unclaimed>>
slave == <<connected, puller, isOpen, raced>>
vars == <<user, dead, master, host, slave, link>>

Calls == {"none", "close acceptor", "join accepter", "close socket", "join puller"}
Accepters == {"off", "listen", "top", "accept"}
Pullers == {"off", "top", "dial", "look", "read", "rest"}
Links == {"none", "queued", "accepted", "fed", "served", "ended"}
Handled == {"accepted", "fed", "served"}

On(f, n, x) == [f EXCEPT ![n] = x]

Init ==
    /\ enabled = [n \in Nodes |-> FALSE]
    /\ role = [n \in Nodes |-> "master"]
    /\ call = [n \in Nodes |-> "none"]
    /\ enables = [n \in Nodes |-> 0]
    /\ dead = {}
    /\ running = [n \in Nodes |-> FALSE]
    /\ acceptor = [n \in Nodes |-> "none"]
    /\ accepter = [n \in Nodes |-> "off"]
    /\ strays = 0 /\ unclaimed = 0
    /\ connected = [n \in Nodes |-> FALSE]
    /\ puller = [n \in Nodes |-> "off"]
    /\ isOpen = [n \in Nodes |-> FALSE]
    /\ link = [n \in Nodes |-> "none"]
    /\ raced = {}

(***************************************************************************)
(* The two ends of a connection                                            *)
(***************************************************************************)

\* The slave's end of its connection goes.  A handler never learns of it:
\* it only writes the snapshot, which may fail or not.
HangUp(s) ==
    /\ link' = On(link, s, "none")
    /\ unclaimed' = unclaimed + (IF link[s] = "queued" THEN 1 ELSE 0)
    /\ \/ link[s] = "accepted" /\ strays' \in {strays, strays + 1}
       \/ link[s] \in {"fed", "served"} /\ strays' = strays + 1
       \/ link[s] \notin Handled /\ strays' = strays

\* Host's end of the connections in S goes.
Ended(S) == [s \in Nodes |-> IF s \in S /\ link[s] # "none" THEN "ended" ELSE link[s]]

Queued == {s \in Nodes : link[s] = "queued"}

\* Mutant: the connections nobody has accepted stay.
PortCloses_KeepsQueue(n) ==
    /\ acceptor' = On(acceptor, n, "closed")
    /\ UNCHANGED <<link, unclaimed, strays>>

\* The port of n is closed, and with it the connections nobody has accepted.
PortCloses(n) ==
    /\ acceptor' = On(acceptor, n, "closed")
    /\ link' = Ended(IF n = Host THEN Queued ELSE {})
    /\ unclaimed' = IF n = Host THEN 0 ELSE unclaimed
    /\ UNCHANGED strays

\* std::terminate
Dies(n) ==
    /\ dead' = dead \cup {n}
    /\ acceptor' = On(acceptor, n, "none")
    /\ IF n = Host
       THEN link' = Ended(Nodes) /\ strays' = 0 /\ unclaimed' = 0
       ELSE HangUp(n)

(***************************************************************************)
(* The user's thread                                                       *)
(***************************************************************************)

Enable(n, r) ==
    /\ call[n] = "none" /\ n \notin dead
    /\ r \in Asks[n]
    /\ enables[n] < MaxEnables
    /\ enables' = [enables EXCEPT ![n] = @ + 1]
    /\ enabled' = On(enabled, n, TRUE)
    /\ role' = On(role, n, r)
    /\ UNCHANGED call

\* Both start functions return at once in a role that is running.
EnableAgain(n, r) ==
    /\ IF r = "master" THEN running[n] ELSE connected[n]
    /\ Enable(n, r)
    /\ UNCHANGED <<dead, master, host, slave, link>>

\* startMaster.  Handlers of the master that was stopped before would see
\* this one running, over sockets whose io_context is gone.
StartMaster(n) ==
    /\ ~running[n]
    /\ Patient /\ n = Host => strays = 0 /\ \A s \in Nodes : link[s] \notin Handled
    /\ Enable(n, "master")
    /\ running' = On(running, n, TRUE)
    /\ acceptor' = On(acceptor, n, "open")
    /\ accepter' = On(accepter, n, "listen")
    /\ UNCHANGED <<dead, host, slave, link>>

\* The port is taken: the manager stays stopped, and the server says enabled.
StartMasterFails(n) ==
    /\ ~running[n]
    /\ Enable(n, "master")
    /\ UNCHANGED <<dead, master, host, slave, link>>

\* startSlave.  A socket that is still open is destroyed after its
\* io_context, which is undefined: it is closed, or the server crashes.
StartSlave(n) ==
    /\ ~connected[n]
    /\ Enable(n, "slave")
    /\ \/ /\ connected' = On(connected, n, TRUE)
          /\ puller' = On(puller, n, "top")
          /\ isOpen' = On(isOpen, n, FALSE)
          /\ HangUp(n)
          /\ UNCHANGED <<dead, master, raced>>
       \/ isOpen[n] /\ Dies(n) /\ UNCHANGED <<running, accepter, slave>>

Stops(n, next) ==
    /\ call[n] = "none" /\ n \notin dead
    /\ call' = On(call, n, next)
    /\ UNCHANGED <<enables, role, enabled>>

\* stopMaster and stopSlave clear the flag ...
StopMaster(n) ==
    /\ role[n] = "master" /\ running[n]
    /\ Patient => accepter[n] # "listen"
    /\ Stops(n, "close acceptor")
    /\ running' = On(running, n, FALSE)
    /\ UNCHANGED <<dead, acceptor, accepter, host, slave, link>>

StopSlave(n) ==
    /\ role[n] = "slave" /\ connected[n]
    /\ Stops(n, "close socket")
    /\ connected' = On(connected, n, FALSE)
    /\ UNCHANGED <<dead, master, host, puller, isOpen, link, raced>>

\* (The manager of a role that is not running is left alone.)
DisableStopped(n) ==
    /\ call[n] = "none" /\ n \notin dead /\ enabled[n]
    /\ IF role[n] = "master" THEN ~running[n] ELSE ~connected[n]
    /\ enabled' = On(enabled, n, FALSE)
    /\ UNCHANGED <<role, call, enables, dead, master, host, slave, link>>

\* ... close the socket, on which the thread may be blocked ...
CloseAcceptor(n) ==
    /\ call[n] = "close acceptor" /\ call' = On(call, n, "join accepter")
    /\ \/ /\ accepter[n] = "accept" /\ ~CloseWakes
          /\ acceptor' = On(acceptor, n, "held")
          /\ UNCHANGED <<accepter, link, host>>
       \/ /\ PortCloses(n)
          /\ accepter' = IF accepter[n] = "accept" THEN On(accepter, n, "top") ELSE accepter
    /\ UNCHANGED <<enabled, role, enables, dead, running, slave>>

\* Mutant: the slave's socket is left open.
CloseSocket_Leaves(n) ==
    /\ call[n] = "close socket" /\ call' = On(call, n, "join puller")
    /\ UNCHANGED <<enabled, role, enables, dead, master, connected, isOpen, puller, link, host, raced>>

CloseSocket(n) ==
    /\ call[n] = "close socket" /\ call' = On(call, n, "join puller")
    /\ isOpen' = On(isOpen, n, FALSE)
    /\ \/ /\ puller[n] = "read" /\ ~CloseWakes
          /\ UNCHANGED <<puller, link, host>>
       \/ /\ HangUp(n)
          /\ puller' = IF puller[n] = "read" THEN On(puller, n, "top") ELSE puller
    /\ raced' = IF puller[n] = "dial" THEN raced \cup {n} ELSE raced
    /\ UNCHANGED <<enabled, role, enables, dead, master, connected>>

\* Mutant: the thread is not joined.
Join_Detaches(n) ==
    /\ call[n] \in {"join accepter", "join puller"}
    /\ call' = On(call, n, "none")
    /\ enabled' = On(enabled, n, FALSE)
    /\ UNCHANGED <<role, enables, dead, master, host, slave, link>>

\* ... and join the thread.
Join(n) ==
    /\ \/ call[n] = "join accepter" /\ accepter[n] = "off"
       \/ call[n] = "join puller" /\ puller[n] = "off"
    /\ call' = On(call, n, "none")
    /\ enabled' = On(enabled, n, FALSE)
    /\ UNCHANGED <<role, enables, dead, master, host, slave, link>>

StopStep(n) == n \notin dead /\ (CloseAcceptor(n) \/ CloseSocket(n) \/ Join(n))

(***************************************************************************)
(* The master's threads                                                    *)
(***************************************************************************)

\* listen() is called outside of the try block.
Listen(n) ==
    /\ accepter[n] = "listen"
    /\ \/ /\ acceptor[n] = "open"
          /\ accepter' = On(accepter, n, "top")
          /\ UNCHANGED <<dead, acceptor, host, link>>
       \/ /\ acceptor[n] # "open"
          /\ Dies(n) /\ UNCHANGED accepter
    /\ UNCHANGED <<user, running, slave>>

\* Mutant: the accept loop does not look at the flag.
AcceptTurn_Forever(n) ==
    /\ accepter[n] = "top"
    /\ acceptor[n] = "open" /\ accepter' = On(accepter, n, "accept")
    /\ UNCHANGED <<user, dead, running, acceptor, host, slave, link>>

\* An accept on a closed acceptor returns at once.
AcceptTurn(n) ==
    /\ accepter[n] = "top"
    /\ \/ running[n] /\ acceptor[n] = "open" /\ accepter' = On(accepter, n, "accept")
       \/ ~running[n] /\ accepter' = On(accepter, n, "off")
    /\ UNCHANGED <<user, dead, running, acceptor, host, slave, link>>

\* A connection is taken from the queue; it gets a handler if the master is
\* still running.  The port that was held for this call closes now.
Accept(n) ==
    /\ accepter[n] = "accept" /\ n = Host
    /\ accepter' = On(accepter, n, "top")
    /\ acceptor' = IF acceptor[n] = "held" THEN On(acceptor, n, "closed") ELSE acceptor
    /\ IF running[n]
       THEN \/ \E s \in Queued : link' = On(link, s, "accepted") /\ UNCHANGED host
            \/ /\ unclaimed > 0 /\ unclaimed' = unclaimed - 1
               /\ strays' \in {strays, strays + 1}
               /\ UNCHANGED link
       ELSE /\ Queued # {} \/ unclaimed > 0
            /\ IF acceptor[n] = "held" THEN link' = Ended(Queued) /\ unclaimed' = 0
               ELSE \/ \E s \in Queued : link' = Ended({s}) /\ UNCHANGED unclaimed
                    \/ unclaimed > 0 /\ unclaimed' = unclaimed - 1 /\ UNCHANGED link
            /\ UNCHANGED strays
    /\ UNCHANGED <<user, dead, running, slave>>

AcceptStep(n) == n \notin dead /\ (Listen(n) \/ AcceptTurn(n) \/ Accept(n))

\* handleSlaveConnection: the snapshot is sent ...
Greet(s) ==
    /\ link[s] = "accepted"
    /\ link' = On(link, s, "fed")
    /\ UNCHANGED <<user, dead, master, host, slave>>

\* ... and the flag looked at every second.
Leave(s) ==
    /\ link[s] \in {"fed", "served"} /\ ~running[Host]
    /\ link' = Ended({s})
    /\ UNCHANGED <<user, dead, master, host, slave>>

StrayLeaves ==
    /\ strays > 0 /\ ~running[Host]
    /\ strays' = strays - 1
    /\ UNCHANGED <<user, dead, master, unclaimed, slave, link>>

(***************************************************************************)
(* The slave's thread                                                      *)
(***************************************************************************)

Pull(s, stage, next) == puller[s] = stage /\ puller' = On(puller, s, next)

PullTurn(s) ==
    /\ Pull(s, "top", IF connected[s] THEN "dial" ELSE "off")
    /\ UNCHANGED <<user, dead, master, host, connected, isOpen, link, raced>>

\* Mutant: the socket is not closed before it is connected again.
Dial_Open(s) ==
    /\ Pull(s, "dial", "look")
    /\ acceptor[Host] \in {"open", "held"} /\ ~isOpen[s]
    /\ isOpen' = On(isOpen, s, TRUE)
    /\ link' = On(link, s, "queued")
    /\ UNCHANGED <<user, dead, master, host, connected, raced>>

\* asio::connect closes the socket first and opens it again, whatever has
\* become of it since the flag was looked at.
Dial(s) ==
    /\ Pull(s, "dial", "look")
    /\ acceptor[Host] \in {"open", "held"}
    /\ isOpen' = On(isOpen, s, TRUE)
    /\ link' = On(link, s, "queued")
    /\ UNCHANGED <<user, dead, master, host, connected, raced>>

\* The address is not found, or the connection is not made, on a socket that
\* was opened for it.
DialFails(s) ==
    /\ Pull(s, "dial", "rest")
    /\ \/ UNCHANGED <<isOpen, link>>
       \/ isOpen' = On(isOpen, s, TRUE) /\ link' = On(link, s, "none")
    /\ UNCHANGED <<user, dead, master, host, connected, raced>>

Rested(s) ==
    /\ Pull(s, "rest", "top")
    /\ UNCHANGED <<user, dead, master, host, connected, isOpen, link, raced>>

\* The loop of handleMasterCommands looks at the flag and the socket ...
Look(s) ==
    /\ Pull(s, "look", IF connected[s] /\ isOpen[s] THEN "read" ELSE "top")
    /\ UNCHANGED <<user, dead, master, host, connected, isOpen, link, raced>>

\* ... and blocks until there is something to read, or the end.
ReadSome(s) ==
    /\ link[s] = "fed" /\ Pull(s, "read", "look")
    /\ IF isOpen[s] THEN link' = On(link, s, "served") /\ UNCHANGED host ELSE HangUp(s)
    /\ UNCHANGED <<user, dead, master, connected, isOpen, raced>>

ReadEnd(s) ==
    /\ link[s] = "ended" /\ Pull(s, "read", "top")
    /\ link' = On(link, s, "none")
    /\ UNCHANGED <<user, dead, master, host, connected, isOpen, raced>>

PullStep(s) ==
    /\ s \notin dead
    /\ \/ PullTurn(s) \/ Dial(s) \/ DialFails(s) \/ Rested(s)
       \/ Look(s) \/ ReadSome(s) \/ ReadEnd(s)

Next ==
    \/ \E n \in Nodes :
          \/ \E r \in Roles : EnableAgain(n, r)
          \/ StartMaster(n) \/ StartMasterFails(n) \/ StartSlave(n)
          \/ StopMaster(n) \/ StopSlave(n) \/ DisableStopped(n)
          \/ StopStep(n) \/ AcceptStep(n)
          \/ Greet(n) \/ Leave(n) \/ PullStep(n)
    \/ StrayLeaves

Spec == Init /\ [][Next]_vars

\* The threads run, a call that was begun goes on, and a master that can be
\* reached is not missed each time.
Fairness ==
    /\ WF_vars(StrayLeaves)
    /\ \A n \in Nodes :
          /\ WF_vars(StopStep(n)) /\ WF_vars(AcceptStep(n))
          /\ WF_vars(Greet(n)) /\ WF_vars(Leave(n))
          /\ WF_vars(PullStep(n)) /\ SF_vars(n \notin dead /\ Dial(n))

FairSpec == Spec /\ Fairness

(***************************************************************************)
(* Properties                                                              *)
(***************************************************************************)

Stopping(n, r) ==
    IF r = "master" THEN call[n] \in {"close acceptor", "join accepter"}
    ELSE call[n] \in {"close socket", "join puller"}

\* Every variable has its type, and a connection that is not at its end has
\* a port it was made to and an owner that has not hung up.
TypeOK ==
    /\ enabled \in [Nodes -> BOOLEAN]
    /\ role \in [Nodes -> Roles]
    /\ call \in [Nodes -> Calls]
    /\ enables \in [Nodes -> 0..MaxEnables]
    /\ dead \subseteq Nodes /\ raced \subseteq Nodes
    /\ running \in [Nodes -> BOOLEAN]
    /\ acceptor \in [Nodes -> {"none", "open", "held", "closed"}]
    /\ accepter \in [Nodes -> Accepters]
    /\ strays \in Nat /\ unclaimed \in Nat
    /\ connected \in [Nodes -> BOOLEAN]
    /\ puller \in [Nodes -> Pullers]
    /\ isOpen \in [Nodes -> BOOLEAN]
    /\ link \in [Nodes -> Links]
    /\ Queued # {} \/ unclaimed > 0 => acceptor[Host] \in {"open", "held"}
    /\ \A s \in Nodes : link[s] # "none" => isOpen[s] \/ puller[s] = "read"

\* What stopMaster and stopSlave close and join is gone when they have
\* returned: the accept thread, which the next start would overwrite while it
\* is joinable, and the port; the slave's thread, and its socket but for one
\* that was opened again behind stopSlave's back.  And disableReplication has
\* stopped the role that was set last.  (Not so the detached handlers, which
\* see the flag within a second or miss it when the master is started again,
\* nor the threads of a role the server was given before.)
JoinedIsGone ==
    \A n \in Nodes \ dead :
        /\ ~running[n] /\ ~Stopping(n, "master") =>
               accepter[n] = "off" /\ acceptor[n] \in {"none", "closed"}
        /\ ~connected[n] /\ ~Stopping(n, "slave") =>
               puller[n] = "off" /\ (isOpen[n] => n \in raced)
        /\ ~enabled[n] => IF role[n] = "master" THEN ~running[n] ELSE ~connected[n]

\* Replication ends the process in one case only: a slave that is stopped
\* while it dials is started again.  (Of a user who is Patient.)
DiesOnlyByRace == dead \subseteq raced

\* Stops return.  Where close does not wake a blocked thread it takes the
\* other side: stopMaster needs a slave that goes on dialling, stopSlave a
\* master that has been stopped.
StopsReturn ==
    /\ CloseWakes \/ (\E s \in Nodes : <>[](connected[s] /\ s \notin dead)) =>
           []<>(Host \in dead \/ ~Stopping(Host, "master"))
    /\ CloseWakes \/ <>[](~running[Host] /\ ~Stopping(Host, "master")) =>
           \A s \in Nodes : []<>(s \in dead \/ ~Stopping(s, "slave"))

\* As long as the master and the slave run, the slave ends up connected, with
\* the snapshot read and a handler at the other end, however often either of
\* them was stopped and started before.
SlaveServed ==
    \A s \in Nodes :
        <>[](running[Host] /\ Host \notin dead /\ connected[s] /\ s \notin dead) =>
            <>[](link[s] = "served")

=============================================================================
