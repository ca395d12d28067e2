------------------------------ MODULE ConnSlots ------------------------------
(***************************************************************************)
(* The slots of a connection pool (api_net/connection_pool) as operators   *)
(* on the value of a pool: its array of slots and its counter used_slots.  *)
(* ConnPool runs a thread, the sockets and a user over one pool.           *)
(*                                                                         *)
(* A slot keeps the two state bits that outlive a call (CONNECTED and      *)
(* DISCONNECTION), its descriptor and whether its expiry is unset, ahead   *)
(* or due.                                                                 *)
(***************************************************************************)
EXTENDS Integers, FiniteSets

CONSTANTS Fds,      \* descriptors the kernel may hand out
          NoFd      \* the descriptor -1

ASSUME FdsAssumption == NoFd \notin Fds

StateBits == {"connected", "disconnection"}

Expiries == {"none", "ahead", "due"}

Slot == [state : SUBSET StateBits, fd : Fds \cup {NoFd}, expire : Expiries]

FreeSlot == [state |-> {}, fd |-> NoFd, expire |-> "none"]

NewPool(n) == [slots |-> [i \in 1 .. n |-> FreeSlot], used |-> 0]

Indices(p) == DOMAIN p.slots

Connected(p, i) == "connected" \in p.slots[i].state

Held(p) == {i \in Indices(p) : Connected(p, i)}

\* ap_net_conn_pool_connection_pre_connect: the slot is taken and counted
\* before there is a socket.
PreConnect(p, i, ttl) ==
    [p EXCEPT !.slots[i] = [state |-> {"connected"}, fd |-> NoFd, expire |-> ttl],
              !.used = @ + 1]

\* Mutant: the connection is sought among all slots that are not being closed.
FindFreeSlotAnyOpen(p) ==
    LET vacant == {i \in Indices(p) : "disconnection" \notin p.slots[i].state}
    IN  {i \in vacant : p.used # Cardinality(Indices(p)) /\ \A j \in vacant : i <= j}

\* sanity_check and ap_net_conn_pool_find_free_slot: no slot when the counter
\* says full, else the first slot that is not connected, if there is one.
FindFreeSlot(p) ==
    LET vacant == Indices(p) \ Held(p)
    IN  {i \in vacant : p.used # Cardinality(Indices(p)) /\ \A j \in vacant : i <= j}

\* Mutant: used_slots is not decremented.
CloseSlotUncounted(p, i) ==
    IF Connected(p, i) THEN [p EXCEPT !.slots[i] = FreeSlot] ELSE p

\* Mutant: only the state is reset, the descriptor stays in the slot.
CloseSlotKeepsFd(p, i) ==
    IF Connected(p, i) THEN [p EXCEPT !.slots[i].state = {}, !.used = @ - 1] ELSE p

\* ap_net_conn_pool_close_connection. The expiry of a free slot is not read
\* again: it is reset here.
CloseSlot(p, i) ==
    IF Connected(p, i) THEN [p EXCEPT !.slots[i] = FreeSlot, !.used = @ - 1] ELSE p

\* The slots the poll closes in one of its loops.
CloseSlots(p, S) ==
    [slots |-> [i \in Indices(p) |-> IF i \in S /\ Connected(p, i) THEN FreeSlot ELSE p.slots[i]],
     used |-> p.used - Cardinality(S \cap Held(p))]

\* lblerror of ap_net_conn_pool_do_connect: after a failed connect() the
\* socket is closed, the slot released and uncounted.
ConnectError(p, i) ==
    LET closed == [p.slots[i] EXCEPT !.state = @ \ {"connected"}, !.fd = NoFd]
    IN  [p EXCEPT !.slots[i] = closed, !.used = @ - 1]

\* What ap_net_conn_pool_connect_straddr makes of p: the early error returns
\* ("address", "socket", "bind") leave the slot connected and counted, with no
\* descriptor or with one that was never connected.
ConnectOutcome(p, i, ttl, fd, outcome) ==
    LET q == PreConnect(p, i, ttl)
    IN  CASE outcome \in {"address", "socket"} -> q
          [] outcome \in {"bind", "ok"}        -> [q EXCEPT !.slots[i].fd = fd]
          [] outcome = "connect"               -> ConnectError([q EXCEPT !.slots[i].fd = fd], i)

\* What ap_net_conn_pool_accept_connection makes of p (TCP).
AcceptOutcome(p, i, ttl, fd, outcome) ==
    LET q == PreConnect(p, i, ttl)
    IN  CASE outcome = "accept" -> q
          [] outcome = "ok"     -> [q EXCEPT !.slots[i].fd = fd]
          [] outcome = "poller" -> CloseSlot([q EXCEPT !.slots[i].fd = fd], i)

\* ap_net_conn_pool_recv returned -2: the peer has shut the connection down.
Disconnected(p, i) ==
    LET closing == [p.slots[i] EXCEPT !.state = @ \cup {"disconnection"},
                                      !.expire = IF @ = "none" THEN "ahead" ELSE @]
    IN  [p EXCEPT !.slots[i] = closing]

\* The descriptors the slots hold.
OpenFds(p) == {p.slots[i].fd : i \in Indices(p)} \ {NoFd}

\* ap_net_conn_pool_get_conn_by_fd: the first slot with this descriptor.
GetConnByFd(p, fd) ==
    {i \in Indices(p) : p.slots[i].fd = fd /\ \A j \in Indices(p) : p.slots[j].fd = fd => i <= j}

Gone(p) == {i \in Indices(p) : "disconnection" \in p.slots[i].state}

Expired(p) == {i \in Held(p) : p.slots[i].expire = "due"}

=============================================================================
