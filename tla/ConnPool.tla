------------------------------ MODULE ConnPool ------------------------------
(***************************************************************************)
(* A connection pool (api_net/connection_pool) with the sockets below it   *)
(* and a user above it: connections are opened, accepted, polled, closed   *)
(* by the user or the callback, lost by the peer, and expire.              *)
(*                                                                         *)
(* ap_net_conn_pool_poll is a sequence of steps (pc): it closes the slots  *)
(* marked at the last poll and asks epoll for the ready descriptors        *)
(* (todo), serves the listener, then each descriptor, then the expiries.   *)
(* Other things may happen to the sockets between them.                    *)
(*                                                                         *)
(* The callback is any of those a user may write; the modules of the two   *)
(* users, ShellSessions and MonitorLink, say what theirs do.               *)
(***************************************************************************)
EXTENDS ConnSlots

CONSTANTS Size,         \* max_connections
          Listening,    \* the pool has a listener (the shell) or connects (the monitor)
          Ttl,          \* expiry of an accepted connection: "none" or "ahead"
          MaxBacklog    \* bound: clients waiting to be accepted

ASSUME SizeAssumption == Size \in Nat \ {0}
ASSUME TtlAssumption == Ttl \in {"none", "ahead"}
ASSUME ListeningAssumption == Listening \in BOOLEAN
ASSUME BacklogAssumption == MaxBacklog \in Nat

VARIABLES pool,     \* conns and used_slots
          peer,     \* what the kernel has on each descriptor
          watched,  \* descriptors in the epoll set
          backlog,  \* clients waiting at the listener
          pc,       \* where ap_net_conn_pool_poll is
          todo      \* events of the epoll_wait that are not served yet

poolVars == <<pool, peer, watched, backlog, pc, todo>>

PeerStates == {"none",      \* no socket
               "raw",       \* a socket that was never connected
               "quiet", "data", "eof", "reset"}

Steps == {"idle", "listener", "events", "expiry"}

PoolStates == [slots : [1 .. Size -> Slot], used : Int]

TypeOK ==
    /\ pool \in PoolStates
    /\ peer \in [Fds -> PeerStates]
    /\ watched \in SUBSET Fds
    /\ backlog \in 0 .. MaxBacklog
    /\ pc \in Steps
    /\ todo \in SUBSET Fds

PoolInit ==
    /\ pool = NewPool(Size)
    /\ peer = [fd \in Fds |-> "none"]
    /\ watched = {}
    /\ backlog = 0
    /\ pc = "idle"
    /\ todo = {}

-----------------------------------------------------------------------------
(* The kernel *)

\* The pool becomes p: descriptors it has closed leave the kernel and the
\* epoll set.
Becomes(p) ==
    /\ pool' = p
    /\ peer' = [fd \in Fds |-> IF fd \in OpenFds(p) THEN peer[fd] ELSE "none"]
    /\ watched' = watched \cap OpenFds(p)

\* The pool becomes p with a socket fd more, which is in state s; a connected
\* one is added to the epoll set.
NewSocket(p, fd, s) ==
    /\ pool' = p
    /\ peer' = [peer EXCEPT ![fd] = s]
    /\ watched' = IF s = "quiet" THEN watched \cup {fd} ELSE watched

Unused == {fd \in Fds : peer[fd] = "none"}

\* What epoll_wait may report: level-triggered, so whatever is still there.
Ready(p) == {fd \in watched \cap OpenFds(p) : peer[fd] \in {"data", "eof", "reset"}}

ClientKnocks ==
    /\ Listening /\ backlog < MaxBacklog
    /\ backlog' = backlog + 1
    /\ UNCHANGED <<pool, peer, watched, pc, todo>>

PeerSends(fd) ==
    /\ peer[fd] = "quiet"
    /\ peer' = [peer EXCEPT ![fd] = "data"]
    /\ UNCHANGED <<pool, watched, backlog, pc, todo>>

PeerLeaves(fd) ==
    /\ peer[fd] \in {"quiet", "data"}
    /\ \E s \in {"eof", "reset"} : peer' = [peer EXCEPT ![fd] = s]
    /\ UNCHANGED <<pool, watched, backlog, pc, todo>>

TimePasses(i) ==
    /\ pool.slots[i].expire = "ahead"
    /\ pool' = [pool EXCEPT !.slots[i].expire = "due"]
    /\ UNCHANGED <<peer, watched, backlog, pc, todo>>

-----------------------------------------------------------------------------
(* The user's calls, made between two polls *)

\* ap_net_conn_pool_connect_straddr and ap_net_conn_pool_do_connect. A socket
\* that the epoll set refuses is closed like one that does not connect.
ConnPoolConnect(i, ttl) ==
    /\ pc = "idle"
    /\ i \in FindFreeSlot(pool)
    /\ \/ \E outcome \in {"address", "socket"} :
             Becomes(ConnectOutcome(pool, i, ttl, NoFd, outcome))
       \/ \E fd \in Unused :
            \/ NewSocket(ConnectOutcome(pool, i, ttl, fd, "bind"), fd, "raw")
            \/ Becomes(ConnectOutcome(pool, i, ttl, fd, "connect"))
            \/ NewSocket(ConnectOutcome(pool, i, ttl, fd, "ok"), fd, "quiet")
    /\ UNCHANGED <<backlog, pc, todo>>

\* ap_net_conn_pool_close_connection, called by the user.
ConnPoolClose(i) ==
    /\ pc = "idle"
    /\ Connected(pool, i)
    /\ Becomes(CloseSlot(pool, i))
    /\ UNCHANGED <<backlog, pc, todo>>

\* ap_net_conn_pool_send and ap_net_send on slot i of p: nothing on a free
\* slot; EPIPE, on a socket that was never connected or has lost its peer,
\* closes the slot; no other error does.
AfterSend(p, i) ==
    {p} \cup (IF Connected(p, i) /\ p.slots[i].fd # NoFd
                 /\ peer[p.slots[i].fd] \in {"raw", "eof", "reset"}
              THEN {CloseSlot(p, i)} ELSE {})

-----------------------------------------------------------------------------
(* ap_net_conn_pool_poll *)

\* Lines 41-50 and epoll_wait: the slots whose peer has left are closed.
PollBegin ==
    /\ pc = "idle"
    /\ LET p == CloseSlots(pool, Gone(pool)) IN
       /\ Becomes(p)
       /\ todo' = Ready(p)
    /\ pc' = IF backlog > 0 THEN "listener" ELSE "events"
    /\ UNCHANGED backlog

\* epoll_wait fails: the poll returns 0.
PollFails ==
    /\ pc = "idle"
    /\ Becomes(CloseSlots(pool, Gone(pool)))
    /\ UNCHANGED <<backlog, pc, todo>>

\* The pool is full: accept_connection returns NULL and the poll returns 0,
\* with the client still waiting and the other events not served.
AcceptFull ==
    /\ pc = "listener"
    /\ FindFreeSlot(pool) = {}
    /\ pc' = "idle"
    /\ todo' = {}
    /\ UNCHANGED <<pool, peer, watched, backlog>>

\* accept() fails, or epoll refuses the socket: the poll returns 0.
AcceptFails(i) ==
    /\ pc = "listener"
    /\ i \in FindFreeSlot(pool)
    /\ \/ /\ Becomes(AcceptOutcome(pool, i, Ttl, NoFd, "accept"))
          /\ backlog' \in {backlog - 1, backlog}
       \/ \E fd \in Unused :
             /\ Becomes(AcceptOutcome(pool, i, Ttl, fd, "poller"))
             /\ backlog' = backlog - 1
    /\ pc' = "idle"
    /\ todo' = {}

Accept(i) ==
    /\ pc = "listener"
    /\ i \in FindFreeSlot(pool)
    /\ \E fd \in Unused : NewSocket(AcceptOutcome(pool, i, Ttl, fd, "ok"), fd, "quiet")
    /\ backlog' = backlog - 1
    /\ pc' = "events"
    /\ UNCHANGED todo

\* An event of a descriptor that no connected slot has: it leaves the epoll set.
EventStale(fd) ==
    /\ pc = "events" /\ fd \in todo
    /\ \A i \in GetConnByFd(pool, fd) : ~Connected(pool, i)
    /\ watched' = watched \ {fd}
    /\ todo' = todo \ {fd}
    /\ UNCHANGED <<pool, peer, backlog, pc>>

\* EPOLLERR or EPOLLHUP.
EventError(fd, i) ==
    /\ pc = "events" /\ fd \in todo
    /\ i \in GetConnByFd(pool, fd) /\ Connected(pool, i)
    /\ peer[fd] = "reset"
    /\ Becomes(CloseSlot(pool, i))
    /\ todo' = todo \ {fd}
    /\ UNCHANGED <<backlog, pc>>

\* recv() fails: the slot is closed and the poll returns 0.
EventRecvError(fd, i) ==
    /\ pc = "events" /\ fd \in todo
    /\ i \in GetConnByFd(pool, fd) /\ Connected(pool, i)
    /\ peer[fd] = "reset"
    /\ Becomes(CloseSlot(pool, i))
    /\ todo' = {}
    /\ pc' = "idle"
    /\ UNCHANGED backlog

\* recv() returns 0: the slot is marked, to be closed by the next poll. When
\* errno is still EAGAIN from an earlier call the end is taken for "no data".
EventEof(fd, i) ==
    /\ pc = "events" /\ fd \in todo
    /\ i \in GetConnByFd(pool, fd) /\ Connected(pool, i)
    /\ peer[fd] = "eof"
    /\ \/ /\ pool' = Disconnected(pool, i)
          /\ watched' = watched \ {fd}
       \/ UNCHANGED <<pool, watched>>
    /\ todo' = todo \ {fd}
    /\ UNCHANGED <<peer, backlog, pc>>

\* recv() returns data and the callback AP_NET_SIGNAL_CONN_DATA_IN makes p of
\* the pool.
EventData(fd, i, p) ==
    /\ pc = "events" /\ fd \in todo
    /\ i \in GetConnByFd(pool, fd) /\ Connected(pool, i)
    /\ peer[fd] = "data"
    /\ pool' = p
    /\ peer' = [g \in Fds |-> IF g \notin OpenFds(p) THEN "none" ELSE IF g = fd THEN "quiet" ELSE peer[g]]
    /\ watched' = watched \cap OpenFds(p)
    /\ todo' = todo \ {fd}
    /\ UNCHANGED <<backlog, pc>>

\* Mutant: the poll returns after the last event.
EventsDoneReturn ==
    /\ pc = "events" /\ todo = {}
    /\ pc' = "idle"
    /\ UNCHANGED <<pool, peer, watched, backlog, todo>>

EventsDone ==
    /\ pc = "events" /\ todo = {}
    /\ pc' = "expiry"
    /\ UNCHANGED <<pool, peer, watched, backlog, todo>>

\* Lines 209-235: the expired slots are closed, after the callback
\* AP_NET_SIGNAL_CONN_TIMED_OUT, which may have closed them.
PollExpiry ==
    /\ pc = "expiry"
    /\ Becomes(CloseSlots(pool, Expired(pool)))
    /\ pc' = "idle"
    /\ UNCHANGED <<backlog, todo>>

-----------------------------------------------------------------------------
(* A user that may do anything *)

AnyCallback(i) ==
    {pool, [pool EXCEPT !.slots[i].expire = "none"]} \cup {CloseSlot(pool, j) : j \in 1 .. Size}

Environment ==
    \/ ClientKnocks
    \/ \E fd \in Fds : PeerSends(fd) \/ PeerLeaves(fd)
    \/ \E i \in 1 .. Size : TimePasses(i)

PollQuits ==
    \/ PollFails
    \/ \E i \in 1 .. Size : AcceptFails(i)
    \/ \E fd \in Fds, i \in 1 .. Size : EventRecvError(fd, i)

Poll ==
    \/ PollBegin
    \/ AcceptFull
    \/ \E i \in 1 .. Size : Accept(i)
    \/ \E fd \in Fds : EventStale(fd)
    \/ \E fd \in Fds, i \in 1 .. Size : EventError(fd, i) \/ EventEof(fd, i)
    \/ EventsDone
    \/ PollExpiry

UserConnects ==
    /\ ~Listening
    /\ \E i \in 1 .. Size : \E ttl \in {"none", "ahead"} : ConnPoolConnect(i, ttl)

UserSends == \E i \in 1 .. Size : \E p \in AfterSend(pool, i) :
    /\ pc = "idle"
    /\ Becomes(p)
    /\ UNCHANGED <<backlog, pc, todo>>

UserServed == \E fd \in Fds, i \in 1 .. Size : \E p \in AnyCallback(i) : EventData(fd, i, p)

Next ==
    \/ Environment
    \/ Poll
    \/ PollQuits
    \/ UserServed
    \/ UserConnects
    \/ UserSends
    \/ \E i \in 1 .. Size : ConnPoolClose(i)

\* The thread polls for ever and its callback returns.
Spec ==
    /\ PoolInit /\ [][Next]_poolVars
    /\ WF_poolVars(Poll)
    /\ WF_poolVars(UserServed)

-----------------------------------------------------------------------------
(* Properties *)

\* used_slots counts the connected slots, through every error return, close
\* from a callback and expiry: it is what accept and connect trust to say that
\* the pool is full (conn_pool_utils.c:240, conn_pool_connect.c:119).
CounterExact == pool.used = Cardinality(Held(pool))

\* No descriptor is in two slots, so that an event reaches the connection it
\* is of (ap_net_conn_pool_get_conn_by_fd takes the first), and none is kept
\* by a slot that is free.
OneSlotPerFd ==
    /\ \A i, j \in 1 .. Size : pool.slots[i].fd = pool.slots[j].fd /\ i # j => pool.slots[i].fd = NoFd
    /\ \A i \in 1 .. Size : ~Connected(pool, i) => pool.slots[i].fd = NoFd

\* Connections of the pool: slots with a socket that has been connected.
LiveFds == {fd \in Fds : peer[fd] \in {"quiet", "data", "eof", "reset"}}

Abstract == INSTANCE OpenConnections
    WITH Connections <- Fds, Capacity <- Size,
         live <- LiveFds, held <- Cardinality(Held(pool)) - Cardinality(LiveFds)

\* The pool implements a bounded set of connections: none is dropped without
\* being closed, none is opened in a slot that is in use, and room is found
\* exactly when there is some.
ImplementsConnections == Abstract!Spec

\* The calls below the poll stop failing.
CallsSucceed == <>[][~PollQuits]_poolVars

\* "Closing expired connections (conn->expire > 0)" (conn_pool_poll.c:18).
\* ConnPoolFull.cfg shows that it is not so while a client waits at a full pool.
ExpiredAreClosed ==
    CallsSucceed => \A i \in 1 .. Size : (i \in Expired(pool)) ~> (i \notin Expired(pool))

\* A client is kept waiting at a full pool: each poll returns at the listener
\* and reaches neither the data nor the expiries.
Blocked == pc = "listener" /\ FindFreeSlot(pool) = {}

=============================================================================
