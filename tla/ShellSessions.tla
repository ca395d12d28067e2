---------------------------- MODULE ShellSessions ----------------------------
(***************************************************************************)
(* The users of the TCP shell (api_shell_terminal.c) above their           *)
(* connection pool. A client that sends the marker becomes a user: it gets *)
(* an entry of control_conns and its connection no longer expires. Other   *)
(* first messages, and lines that cannot be split into words, end the      *)
(* connection. control_conns holds pointers into the pool: an entry that   *)
(* outlives its connection would make the next client of the slot a user.  *)
(***************************************************************************)
EXTENDS ConnPool

VARIABLES control,  \* control_conns: slots of the pool, 0 is NULL
          greeted   \* slots whose connection has sent the marker (history)

vars == <<poolVars, control, greeted>>

ControlTypeOK ==
    /\ TypeOK
    /\ control \in [1 .. Size -> 0 .. Size]
    /\ greeted \in SUBSET (1 .. Size)

Users == {control[k] : k \in 1 .. Size} \ {0}

Init ==
    /\ PoolInit
    /\ control = [k \in 1 .. Size |-> 0]
    /\ greeted = {}

\* The slots this step closes, that is calls AP_NET_SIGNAL_CONN_CLOSING for.
Closing == {i \in 1 .. Size : Connected(pool, i) /\ ~Connected(pool, i)'}

\* Mutant: only the first entry is looked at.
SignalConnCloseFirst(c) ==
    [k \in 1 .. Size |-> IF k = 1 /\ c[k] \in Closing THEN 0 ELSE c[k]]

\* The entries of c after SignalConnClose for each of them.
SignalConnClose(c) ==
    [k \in 1 .. Size |-> IF c[k] \in Closing THEN 0 ELSE c[k]]

\* A step of the pool in which nobody logs in.
NoLogin ==
    /\ control' = SignalConnClose(control)
    /\ greeted' = greeted \ Closing

-----------------------------------------------------------------------------
(* AP_NET_SIGNAL_CONN_DATA_IN on slot i, whose descriptor is fd *)

\* The answer is sent, which closes the slot if the peer has gone meanwhile.
Answered(p, i) == {p, CloseSlot(p, i)}

\* ShellParseSend: the commands themselves are in Commands and CellRegistry.
Command(fd, i) ==
    /\ i \in Users
    /\ \E p \in Answered(pool, i) : EventData(fd, i, p)
    /\ NoLogin

\* Parse fails: SignalConnUserLogin is called with the buffer already cleared,
\* which is not the marker.
BadLine(fd, i) ==
    /\ i \in Users
    /\ EventData(fd, i, CloseSlot(pool, i))
    /\ NoLogin

\* The first NULL of control_conns.
FreeEntries ==
    LET null == {k \in 1 .. Size : control[k] = 0} IN {k \in null : \A n \in null : k <= n}

\* Mutant: the expiry of every slot is cleared.
ClearExpireAll(p, i) == [p EXCEPT !.slots = [j \in 1 .. Size |-> [@[j] EXCEPT !.expire = "none"]]]

\* ap_utils_timespec_clear of the connection's expiry.
ClearExpire(p, i) == [p EXCEPT !.slots[i].expire = "none"]

\* SignalConnUserLogin without the marker.
Stranger(fd, i) ==
    /\ i \notin Users
    /\ EventData(fd, i, CloseSlot(pool, i))
    /\ NoLogin

\* Mutant: the marker is looked for before control_conns is.
UserLoginAgain(fd, i) ==
    /\ \E p \in Answered(pool, i) : EventData(fd, i, ClearExpire(p, i))
    /\ control' = SignalConnClose([k \in 1 .. Size |-> IF k \in FreeEntries THEN i ELSE control[k]])
    /\ greeted' = (greeted \cup {i}) \ Closing

\* SignalConnUserLogin with the marker. The greeting is sent between taking
\* the entry and clearing the expiry.
UserLogin(fd, i) ==
    /\ i \notin Users
    /\ \E p \in Answered(pool, i) : EventData(fd, i, ClearExpire(p, i))
    /\ control' = SignalConnClose([k \in 1 .. Size |-> IF k \in FreeEntries THEN i ELSE control[k]])
    /\ greeted' = (greeted \cup {i}) \ Closing

ShellServed ==
    \E fd \in Fds, i \in 1 .. Size :
        Command(fd, i) \/ BadLine(fd, i) \/ Stranger(fd, i) \/ UserLogin(fd, i)

ShellNext ==
    \/ (Environment \/ Poll \/ PollQuits) /\ NoLogin
    \/ ShellServed

\* ShellTerminalProcess polls for ever, its callback returns, time passes.
ShellSpec ==
    /\ Init /\ [][ShellNext]_vars
    /\ WF_vars(Poll /\ NoLogin)
    /\ WF_vars(ShellServed)
    /\ \A i \in 1 .. Size : WF_vars(TimePasses(i) /\ NoLogin)

-----------------------------------------------------------------------------
(* Properties *)

\* A user is a connection that sent the marker itself: no entry of
\* control_conns outlives its connection (api_shell_terminal.c:3284-3288) to
\* be inherited by the next client of the slot.
UsersSentMarker == \A i \in Users : Connected(pool, i) /\ i \in greeted

\* No connection has two entries: DATA_IN would run its line twice (3302-3328).
OneEntryEach == \A k, n \in 1 .. Size : control[k] = control[n] /\ control[k] # 0 => k = n

\* The table of users is well formed: the types, and one entry per connection.
ControlWellFormed == ControlTypeOK /\ OneEntryEach

\* The shell uses its pool as any user of ConnPool may: what that module shows
\* of the counter, the descriptors and the connections holds here.
UsesPool == PoolInit /\ [][Next]_poolVars

\* A connection that does not log in is closed, even one accept() left without
\* a descriptor, unless a client is kept waiting at the full pool.
StrangersLeave ==
    (<>[]~Blocked /\ <>[][~PollQuits]_poolVars) =>
        \A i \in 1 .. Size :
            (Connected(pool, i) /\ i \notin Users) ~> (~Connected(pool, i) \/ i \in Users)

=============================================================================
