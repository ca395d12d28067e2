# A TLA+ model of the mine switch (switch_network)

The program runs on a switch between mining cells and a dataserver. Cells log
in over UDP and are polled for their statistics; a user on a TCP shell and the
dataserver issue commands to them; the cells, their pools and alarms are kept
in memory and copied to a MySQL database. It is one C process of eight
threads, started by `monitor.sh`, which also restarts it. Line numbers below
are lines of the files under `src/src/`; the correspondence of every TLA+
definition to its lines is in `PROJECT.json` ("map").

## 1. Inventory

### Threads and what they share (main.c)

| thread | code | reads and writes |
|---|---|---|
| PollRecvProcess | api_comm/api_command.c:3335 | receives UDP; pushes into gpLoginQue, gpCommandQue |
| LoginParseProcess | api_comm/api_login.c:2126 | pops gpLoginQue; adds and refreshes cells; inserts rows |
| CommandParseProcess | api_comm/api_command.c:3381 | pops gpCommandQue; replies of the cells |
| CommandPackProcess | api_comm/api_command.c:3211 | sends getstat and the commands flagged by a front end |
| ShellTerminalProcess | api_comm/api_shell_terminal.c:3456 | TCP shell: commands, pools, deletion of cells |
| MonitorProcess | api_comm/api_monitor.c:5419 | link to the dataserver: commands, cell information |
| AlarmProcess | alarm/alarm_pro.c:254 | every 10 s, which cells are silent for 180 s |
| MysqlProcess | db_op/db_mysql.c:3308 | writes marked cells, reconnects to the server |

The initialisation is sequential (StrIniRead, InitLogin, InitCommand,
InitShell, InitDbAndDev, InitMonitor), before any thread starts. The threads
share the hash table of cells `stCellUtlist`, which has one "RemLock" per
thread rather than one lock for the table; the flags and counters
`CommShellFlag` and `CommMonitorFlag`; and the globals `gCommandType`,
`gSendSeq`, `gNewCellSendLen`.

### Components

| component | state | operations | what is hard | what makes it correct | module |
|---|---|---|---|---|---|
| circular_queue | data, front, rear | create, push, pop, destroy | push and pop in two threads without a lock; full and empty share front = rear | FIFO, no datagram twice, a full ring is drained | CirQueue |
| cell table and cell_base | nodes with address, versions, online, timer, eCellMySql; the rows | login, reply, alarm, flush, deletion, restart | handlers under different locks; failed queries; the mark cleared after the write; a node freed | a row has its node and follows it, silence is noticed, no freed node is used | CellRegistry |
| commands and replies | eCellComm, uSeqId of a cell; flags, numbers and buffers of each front end | issue, send, reply, report | late, lost and duplicated replies; four locks over three threads; one buffer per command; early returns | the report says what happened; every command ends; cells are polled again | Commands |
| requests of the dataserver | ParData, szIdbufRtn, bServerCommFlag, the answer | parse, look ids up, flag, wait, collect, answer | cells deleted or gone offline between lookup, send and collection; counts kept in two places | every id gets the command or is named; every request is answered | ServerRequests |
| connection pool | slots with state bits, used_slots | connect, accept, poll, receive, send, close, expire | error returns between two updates; callbacks that close | used_slots is the number of slots in use; an event reaches its connection | ConnSlots, ConnPool, OpenConnections |
| shell sessions | control_conns over the pool | accept, log-in, line, timeout, close | a slot taken over by the next client | a user is who logged in; strangers are closed | ShellSessions |
| dataserver link | one connection, the interval, what the server owes | connect, greet, switch.validator, cell.info, answers | loss of the connection at any step; messages read as one | the link comes up again; both messages keep being sent | MonitorLink |
| report of the cells | pNextNode, gNewCellSendLen, eCellDataSer | cell.info in packs, announcement of new cells | the walk is kept between two packs with no lock; an unlocked counter; a double unlock | a report covers the list; packs fit; no new cell is hidden | CellReport |
| default pools | gPoolDefaultConf, pool_conf | cell.setdefaultpool, load, a new cell's login | filled by one thread while another copies it; failing queries | the table gives back what the cells were given | DefaultPools |
| pools of a cell | CellPoolConf, its row, gPoolSpecifyConf, the cell | cell.setpool, setpool, login, restart | one buffer for two front ends and two threads | node, row and cell agree | CellPools |
| lists of pools | list_t and its nodes | new, rpush, find, at, remove | pointers | two sequences, each id once | PoolLists, PoolSequences |
| hash rate | ring of 30 samples and its index, per cell; the row | sample at each getstat, write, read back | the wrap of the ring, of the counter and of the product | a rate spans the interval | HashRate |
| other tables (switch_base, alarm_log, del_cellid_base, cell_status) | rows | insert | written and not read back by the threads | — | — |
| api_net | UDP sockets, epoll | create, receive, send | pure I/O | — | environment of CirQueue, Commands |
| uthash | the hash table | vendored macros | | — | a set, or a sequence, of nodes |
| download, cJSON, md5, ap_*, app | none shared | parsing, formatting, logging | none | — | — |

`fifo_queue.c` is linked but only its `QueFree` is called, md5 is not called at
all. The hazards, each at its line, are in `PROJECT.json` ("hazards") with the
property that covers it or the reason why none does.

### How the modules compose

    CirQueue ......... datagrams ......> CellRegistry   table, rows, alarm
                                   `...> Commands       shell and dataserver
    ConnSlots <- ConnPool <- ShellSessions              users of the shell
                        ^--- MonitorLink -> CellReport, ServerRequests,
                                            DefaultPools, CellPools, PoolLists
    OpenConnections <== implemented by ConnPool, ShellSessions
    PoolSequences   <== implemented by PoolLists

An arrow `<-` is EXTENDS; ShellSessions and MonitorLink run their callbacks
over the actions of ConnPool. The dotted arrows, and those from MonitorLink,
say only which part of the program calls which: those modules are checked apart,
each with the environment the others are to it.

## 2. Modules

### CirQueue (fifo_queue/circular_queue.c)

Every access to `front`, `rear` and a slot is an action, as neither side takes
a lock: `PushLoadFront`, `PushRoom`, `PushMarkNonEmpty`, `PushCopy`,
`PushLoadRear`, `PushStoreRear` on one side, `PopCopy` ... `PopResetRear` on
the other. A datagram is its serial number; the zeroed slot is `Blank`, which
the parser drops. The accesses are sequentially consistent, one thread each
side (the program has exactly one producer and one consumer per queue).

- `NeverTwice`: whatever the interleaving, a datagram is handed out once.
- `FifoUnlessClash`: the queue is an exact FIFO as long as no push and pop have
  met while it was empty, had one datagram, or was full. All the loss and
  reordering comes from the unlocked reset of the indices.
- `FullDrains`: the ring never refuses datagrams for good.
- `FifoOrder` is what circular_queue.h:19 promises of a pop and fails: a push
  that has stored its datagram between the two stores of the reset is lost.

### CellRegistry (api_login.c, alarm_pro.c, db_mysql.c, api_shell_terminal.c)

The table of cells and its copy in cell_base. Each handler is one action up to
the point where it sets the mark `eCellMySql`, which is a second action
(`LoginFlag`, `ReplyFlag`, `AlarmFlag`), because MysqlProcess reads and clears
the mark under another lock. A login that has given LoginRemLock back still
reads the node for its answer (`LoginSend`, api_login.c:1553): the one it has
added, or, after a repeated login, the parsed struct it has freed at line 1442.
CellDbOp is split into packing, query and clearing.
`DelCell` needs every removal lock, so it excludes the others; `Restart` is
`killSwitch.sh`/`monitor.sh` at any moment, followed by InitDbToCell. The MySQL
server is external: it goes down and comes up, a query is done, refused, or
done with its answer lost.

Abstractions: a HASH_ITER visits the nodes there were when it began, in any
order; the address, port and other fields a login compares with the node's are
one value of `Addrs`; bIniCellBase and bIniCellStatus are one variable `ini`;
the kind of query is read once; alarm_log and the update of the hash rate are
left out. `ReplyRefresh` stands for the handlers under CommRemLock; the
lock-free handler of replies to the dataserver's commands is not in this module.

- `DirtyIsFlagged`: a row that differs from its node is marked, or is about to
  be, unless the change crossed the write that was out (`crossed`): that window,
  between packing the row and clearing the mark, really loses an update, and
  the property says that nothing else does.
- `RowsHaveNodes`: no row is left without a node, whatever order deletion,
  failed queries and late writes come in — if the program could read the table
  at its start. (With the server down at the start it begins with no node.)
- `HandlersHaveNodes`: no thread that works on a node under its removal lock, or
  has yet to visit it, is left with a freed one. The exception is the answer to
  a login, which is sent after the unlock: without it `AnsweredNodeStays` fails
  (see 5).
- `AlarmSettles`: the alarm, which reads the timer and writes the state in
  separate steps, gets it right in the end: a silent cell goes offline and a
  talking one comes back.
- `PendingIsWritten`: with a server that stays up, no mark waits for ever.
- `UpdateAfterInsert`, which the comment at api_login.c:1432 states, fails: the
  test looks at the parsed message and not at the node (see 5).

### Commands (api_command.c, api_monitor.c, api_shell_terminal.c)

Two front ends go through the same phases, recorded in `front`: `Begin` (sets
gCommandType), `SetMass`, `Mark` (eCellComm of the cells), `Number`
(++gSendSeq, uUserSeq), `Flag` (buffer and flag), the wait, `MassOff`, `Report`
or `Polled`/`PollTimeout`, `End`. CommandPackProcess takes a flag (`PackTake`),
waits for CommRemLock (`PackRemLock`), and sends; replies are the `Reply`
actions on any request ever sent, as often as one likes, or never. The handlers
compare the number (`Match`), reset it, clear eCellComm and unlock in separate
steps: ParseRecvCellSetCommand (`ReplyInitall`) compares and resets with
CommRemLock held, ParseRecvShellMonitorCommand (`ReplyMonitor`, `ReplyReset`)
holds nothing, so that front ends report and mark cells in between. `Handling` is
the cell of a reply half handled, `late` the cells marked while one was. Locks are
explicit where they outlive a function: CommShellFlagLock and
CommMonitorFlagLock (`lock`, "leaked" after the early returns), CommRemLock
(`rem`), and OnlineCountLock (held in phase "count").

Abstractions: the waits may end at any time (the counters iSendLen, iRecvLen,
iOnlineCount only shorten them); the dataserver's part list has one cell;
SendCellAll and a report's walk are atomic; the cells are fixed (deletion is in
CellRegistry); the user's slot is any, because other commands leave bUserFlag
set. `ReplyUnlock` after a `ReplyMonitor` unlocks CommRemLock though nothing has
locked it, as the code does.

- `ReportIsExact`: with no other command under way, a cell is reported as set
  if and only if it answered a request sent since it was marked, whatever late
  and repeated replies to the command before it come in. Two windows of the
  unlocked handler are excepted: a cell marked while an older reply to it is
  half handled (the clear of line 2897 then takes the new mark, and the cell is
  reported as set: `NoLateReplyCounts` fails, see 5), and a reply half handled
  at the report, which still counts as missing.
- `AnsweredNotFailed`: a single command answered in time is not reported failed.
- `CommandsEnd`: every command comes to its report, through all the locks,
  unless its front end's flag lock was left locked. As a behaviour has MaxSeq
  commands at most, that is that in the end none is under way.
- `ShellAnswers`, `IdleMeansPolled` and `SuccessIsAnswered`, which comments of
  the code state, fail (see 5).

### ConnSlots, ConnPool, OpenConnections (api_net/connection_pool)

`ConnSlots` has the functions of `conn_pool_*.c` as operators on the value of a
pool: finding a free slot, adding, closing, expiring, with the returns that
leave a slot half made. `ConnPool` runs them: `ap_net_conn_pool_poll` is a
sequence of steps (`pc`), each of which may fail, and between them the peers send,
leave and reset, clients arrive, and time makes expiries due. The kernel is
external: `peer` is what it has on a descriptor, `watched` the epoll set. The
callback may do to the pool what any callback may; its users say what theirs do.

- `CounterExact`: used_slots is the number of connected slots, through every
  error return and every close from within a callback.
- `OneSlotPerFd`: no descriptor is in two slots and no free slot keeps one, so
  that ap_net_conn_pool_get_conn_by_fd finds the connection an event is of.
- `ImplementsConnections`: the pool implements `OpenConnections`, a set of
  connections within its capacity. The refinement maps a connection to a socket
  the kernel has connected, and counts the slots held without one (what the
  failures of socket(), bind() and accept() leave).
- `ExpiredAreClosed` fails: with a client waiting at the full pool, a poll
  returns before the expiries (see 5).

Abstracted: the bytes (a connection has data or has not), the pools' listener
set-up, and the loop of ap_net_conn_pool_send, which is a send that succeeds or
fails. Moving a connection and resizing a pool
are not modelled: nothing calls them.

### ShellSessions (api_shell_terminal.c above ConnPool)

`control` is control_conns: pointers into the pool for the clients that have
sent the log-in marker. The callback (`ShellServed`) is SHELL_CONN_CALLBACK with its
signals: data of a stranger or a user, a line that cannot be split, a close.

- `UsersSentMarker`: no entry outlives its connection to be inherited by the
  next client of the slot; `ControlWellFormed`: no connection has two entries.
- `UsesPool`: the shell does to its pool only what ConnPool allows, so what is
  proved of that module, without fairness, holds here: `CounterExact` and
  `ImplementsConnections` are checked and proved of the shell too.
- `StrangersLeave`: who does not log in is closed, unless a client waits at the
  full pool.

### MonitorLink (api_monitor.c above ConnPool)

MonitorProcess with its two timers and its one connection: `Reconnect`, then
the sends the interval calls for (`SwitchPro`, `CellInfoPro`), the new cells, and
the poll. Messages of the server lie in the socket until `recv` takes them all,
and only the first is read. The server is external: it greets, answers,
refuses, orders, or leaves.

- `LinkComesUp`: once the server stays and calls succeed, the connection comes
  up and stays, whatever state earlier failures left, but for two exceptions,
  both real. `Stuck`: a slot taken by a failed socket() is never given back.
  `Unseen`: the server has left and the poll never tells it, since conn_pool_recv.c:74
  takes 0 from recv() for the end only if errno is not EAGAIN, and recv() then
  leaves errno as it was. The dead connection is kept: `LinkRecovers`, without
  that exception, fails (see 5).
- `BothAreSent`: a server that answers each message is sent switch.validator
  and cell.info for ever. `ValidatorsAreSent`, for any server, fails (see 5).
- `LinkUsesPool`: as above; a connection closed by a failed send is not used again.

### CellReport (api_monitor.c, api_login.c, api_command.c)

What the dataserver is told of the cells. The table is a sequence in the order
of hh.next. `RoundBegin`, `PackBegin`, `PackSend` are cell.info in packs;
`LookBegin` ... `WalkEnd` are PackCellNewInfo; logins, replies and deletions run
against both, under the locks the code takes, the second unlock of
gLoginMonitorLock after a repeated login included. The increments of
gNewCellSendLen are read and written in separate steps.

- `RoundCovers`: a report covers the list however many cells log in between two
  of its packs, if none was deleted and it began at the head.
- `CountIsOfTold`: gNewCellSendLen never exceeds the cells told (a new cell would
  be hidden), unless a cell was deleted or counted twice.
- `WalkExcludesLogin`: the double unlock is the only way a login gets into the
  walk. `ReportWellFormed`: types, and no pack longer than its buffer.
- `NewAreTold`, `RoundCoversAlways` and `NoFreedNode` fail (see 5).

### ServerRequests (api_monitor.c, api_command.c)

One request at a time, as MonitorProcess handles it: `ClientDataIn`, the lookups
(`LookupKnown`, `LookupUnknown`, ...), `CommandMonitorAll`/`List`, the wait, the
collection, `Reply`; with the cells logging in, going offline, answering and
being deleted at every step. For "all" the walk (`WalkOne`, `WalkEnds`) takes a
cell at a time in any order and compares, as it goes, what it has counted with
the length of the list read before the walk: the answer may hold names of
offline cells and then become AllInterruption or AllDisconnection, for which PackReplay
lists no cell (`Replay`). A list is collected an id at a time (`CollectOne`). An answer
of a cell is accepted (`Answer`) and its mark cleared (`AnswerClear`) in two steps
with any others in between; neither needs a lock.

- `AnswerAccounts`: each id of the request gets the command or is named in the
  answer, and a cell that stayed online and silent is named. Two exceptions
  are real and refuted without them (see 5): a cell marked while an older answer
  was half handled (`NoLateAnswerCounts`), and an "all" whose walk met a cell
  that logged in after the length was read (`NoLoginHidesFailures`).
- `RequestsEndUnlessLeaked`: whatever the order of lookups, sends, deletions and
  collection, a request is answered, unless the flag lock was left locked. The leak
  itself is no part of it: what it does is `RequestsEnd`, which fails, and the run
  `commands_stuck`. `EmptyMeansAll` and `SuccessIsOfAll` fail too (see 5).

### DefaultPools (api_monitor.c, api_login.c, db_mysql.c)

cell.setdefaultpool clears gPoolDefaultConf and pool_conf and fills them item by
item (`OrderDelete`, `ItemSlot`, `ItemCount`, `ItemCap`, `ItemInsert`), with a query
that may fail at each: the count is raised by one step and capped by the next
(api_monitor.c:4206). `CellTest`, `CellSecond`, `CellCopy` are PackJsonCellLogin in
the other thread, which reads the count twice before it copies a pool
(api_login.c:819, 842). `Restart` loads the table, or, with the server down, leaves
gPoolDefaultConf empty, as nothing loads it later.

- `TableHoldsDefaults`: a command done without failures is what a restart gives,
  if the last start could read the table (`fetched`).
- `CellListsFit`: whatever counts and slots the copy meets, a cell's lists stay in
  their arrays, but for one pool too many, and never two, if the count stood above
  MaxPools while the cell was packed: the first test may read the count before the
  cap and the second after it, and the copy then writes past the array.
- Without these exceptions the two are `TableIsGiven` and `NoListOutgrows`, which
  fail; `CellGetsOneOrder` and `AtMostMaxPools` fail too (see 5).

### CellPools (api_monitor.c, api_command.c, api_login.c, db_mysql.c)

The pools of each cell in the four places that hold them, a list of pools
abstracted to the command that gave it. `SetBegin` ... `SetSend` are cell.setpool,
`JsonPackCopy`/`JsonPackSend` the thread that sends it, `CellDbOp`, `Restart` and
`Loaded` the row and what is parsed out of it. `odd` records what went wrong, so
that each property says under which faults it holds. A command for all changes every
node, `Mark` marks those online, and `PackCell` sends to those that are online and
marked still; a late answer clears a mark (`ReplyClear`), and `AlarmCell` takes a cell
offline or back. `missed` are the cells a command for all passed by. A start with
the server down reads no row, and the nodes get the defaults as the cells log in
(`LoginNew`); `unread` are the rows not written since. A send that fails and the
lock it leaks are in Commands; deletion of a cell is in CellRegistry.

- `PoolsWellFormed`: a cell's pools were meant for it, though every command goes
  through one buffer that is copied twice.
- `CellsHaveNodePools`, `UpdatedRowsAreLoaded`: cell and row follow the node,
  but for the cells in `missed` and the rows in `unread`, without which the two
  are `AllCellsAreTold` and `UnreadRowsAreLoaded`, and fail.
- `PoolsAreLoaded`, `ChangedAreSent`, `OnlySpecifiedCells` fail too (see 5).

### PoolLists, PoolSequences (list/, api_monitor.c)

list.c with its nodes, `next`, `prev`, head, tail and length, as
ParseSetPoolCommand uses it: deletion of the first node while there is one, removal
by id, append or overwrite, then the lookup of ids into gPoolSpecifyConf.

- `WellLinked`: chains, lengths and back pointers agree, no node is lost.
- `ImplementsSequences`: the two lists implement `PoolSequences`, in which every
  id is once.
- `SpecifyIsCommand`: the buffer holds the pools of this command in their order.

### HashRate (api_command.c, db_mysql.c)

CalculateBTCRealKHash and CalculateLTCRealKHash with the ring, its index and
the arithmetic of their types (`IntRange`, `LongRange` values); the text in the row and what a
start reads back from it. `num` and `total` are history: when a slot was written.

- `SpansInterval`: a rate of a filled ring compares samples one interval apart,
  one less at the seam; only the sample that wraps is compared with its neighbour.
- `LtcRateIsNear`: the LTC rate is the documented one within one nonce, as long
  as the product fits an int. The four statements of 5 about it fail.

## 3. Runs and bounds

| run | bounds | distinct states | why they are enough |
|---|---|---|---|
| queue | 3 slots, 5 pushes | 154,150 | the ring wraps, fills, empties and is reset within five pushes; three slots tell one datagram, some and full apart |
| registry | 1 cell, 2 addresses, 1 version | 412,448 | every race on one node's mark and row; cells share nothing but the threads' positions |
| commands | 1 cell, kind 2, 2 commands | 377,380 | one command of each front end or two of one; the second meets the replies of the first |
| commands_stuck | as above | violation | the shortest history that shows it |
| shell_sessions | 2 slots, 3 descriptors, 1 waiting client | 29,307 | a slot is taken over, the pool is full, a client waits |
| monitor_link | 1 slot, 2 descriptors, 2 messages in the socket | 19,076 | the pool of the program; two messages are read as one |
| report | 3 cells, packs of 2, count up to 3 | 838,589 | a report needs a second pack, and one cell may come or go between them |
| default_pools | 1 pool of an algorithm, 2 items, 3 commands | 2,257,577 | more items than slots; the second and third command meet the rows and the copy of the one before |
| cell_pools | 2 cells, 2 commands, 1 fault | 491,454 | one cell is named, online and marked, and one is not; the second command meets the first one's buffer |
| pool_lists | 3 nodes, 3 items, 2 pools | 147,807 | first, middle and last node are removed; one list overflows |
| hash_rate | ring of 3, 64 values of an int, 8 replies | 1,136,354 | two rounds of the ring after a start; the product fits and does not |
| server_requests | 2 cells, 2 ids of no cell (one too long), 3 requests | 430,912 | known and unknown ids in every order; a request after a leaked lock |

`MaxPush`, `MaxSeq`, `MaxBacklog`, `MaxInbox`, `MaxSendLen`, `MaxOrders`,
`MaxCommands`, `MaxFaults`, `MaxItems`, `MaxSamples` and `MaxRequests` bound what
would go on for ever; none of the program's own counters wraps within them.
The queue is checked without deadlock checking since it ends when the pushes are
used up; the other modules never stop, and are checked for deadlock. Symmetry is
used for cells (`report`, `cell_pools`) and list nodes (`pool_lists`), in runs
without liveness properties. In `cell_pools` the constraint `Looked` does not go
beyond the first command after a fault that no property speaks of, has cells
offline only while no fault has happened, no insertion is owed and the last command
has not begun, no fault while a cell is missed, and lets the last command give BTC
pools alone, with no insertion owed and none marked when it is over. The proofs
are without these.

Fairness.
- `CirQueue`: each thread's loop goes on (the parser polls the queue for ever).
- `CellRegistry`: the four threads go on (a login with its mark and its answer); nothing is assumed of cells, users, the
  deletion, restarts or the server (`PendingIsWritten` names what it needs).
- `Commands`: the threads go on; strong fairness of `Mark` says that a front end
  waiting for CommRemLock gets it, as CommandPackProcess sleeps a second between
  two rounds with the lock free. A reply that is half handled is handled to its end
  (`ReplyReset`, `ReplyClear`, `ReplyUnlock`); nothing is assumed of the cells' replies.
- `ShellSessions`, `ConnPool`: the loop polls, the callback returns, and (shell)
  the seconds pass. Clients need not do anything.
- `MonitorLink`: the loop of MonitorProcess and its timers. Nothing says that the
  end of a connection is ever seen, as that hangs on an errno that recv() does not
  reset. The premise of `BothAreSent` has the server answer.
- `CellReport`: the monitor's steps and the login's unlock; strong fairness of
  `LookBegin` and `LookLock`, as the mutex is free most of the time.
- `ServerRequests`: MonitorProcess and CommandPackProcess go on (`Works`).

## 4. Theorems

| module | theorem | argument |
|---|---|---|
| CirQueue_proofs | TypeCorrect | with TypeOK, front is a slot whenever the pop indexes with it: only the pop sets it to -1, and the push sets it only to 0 |
| CirQueue_proofs | DeliveredOnce | `OneCopy`: a datagram is in at most one of the slots, the pop's buffer and the delivered ones (but for the slot about to be cleared), and the one being pushed is new |
| CirQueue_proofs | FifoUntilClash | `Fifo`: until a clash, a push and a pop that are both busy are away from the ends of the ring (`Apart`), so the push knows whether the queue was empty and the pop resets the indices alone; the slots from front to rear are then what was accepted and not delivered, by the arithmetic of the wrap (`RingSpan`, `RingGrows`, `RingShrinks`) |
| CellRegistry_proofs | TypeCorrect | action by action |
| CellRegistry_proofs | NodesStay | inductive with TypeOK and `IterDone` (a walk is over before its thread lets go of its lock): DelCell is enabled only when no thread is on a node or has one to visit; a login past its unlock (`LoginUnlocked`) is the exception |
| CellRegistry_proofs | RowsKept | needs HandlersHaveNodes: the late write of the flush is to a node that is still there |
| CellRegistry_proofs | DirtyFlagged | strengthened by `FlushFresh`: unless `crossed`, the buffer of the query that is out, or after it the row, is what the node holds, and its mark is still set |
| Commands_proofs | TypeCorrect | needs `Room`: every command that has begun and is not numbered yet has a number left below MaxSeq |
| Commands_proofs | ReportExact | inductive invariant TypeOK ∧ Room ∧ ModeOK ∧ PackOK ∧ SeqOK ∧ AnswerOK: who is named in gCommandType is busy; the command being sent is the front end's own unless `overlap`; no request bears number 0, which is "none" in uSeqId; a cell that owed no earlier reply has a number only if it was asked by this command, so that its mark is gone, or about to go (`Handling`), exactly if it answered; cells marked under a half-handled reply (`late`) are left out |
| Commands_proofs | AnsweredIsNotFailed | with the invariant above, `Single`: a number is given once (`SeqBound`), so the requests bearing a single command's number are its own and have a user's head (`Own`); such a reply never clears the cell behind the shell's back but raises bRecvSeqFlag, which only the shell takes down |
| CellReport_proofs | WalkExcludes | `LockOK`: who is behind gLoginMonitorLock without it locked has lost it to the second unlock |
| CellReport_proofs | CountOfTold | `CountOK`: the count, and what each thread has read of it and will write back one higher, is at most the number of cells told; an increment that is lost only lowers it |
| ConnPool_proofs | CounterIsExact, FdInOneSlot | `PoolInv`: the pool is good (`GoodPool`: counter exact, descriptors in one slot), and every descriptor in a slot is open in the kernel; every operator of ConnSlots preserves it |
| ConnPool_proofs | PoolImplements | `HeldSplit`: the slots in use are those with a live connection and those held without one, and `NoOrphan`: a live connection has a slot; each action then opens one, holds one, releases some or stutters |
| Commands_proofs | Spans (HashRate) | `AgesOK`: the slots written since the last start are as old as the index tells |
| Commands_proofs | LtcIsNear (HashRate) | while twice the product is below IntRange no conversion loses anything (`SignedSmall`) but the detour of a negative difference over HASH_MAX_RANGE, which costs one (`DifferenceNear`) |
| CellReport_proofs | ReportIsWellFormed, ReportCovers | `ReportInv` = LockOK, TableOK, WalkOK, RoundOK, CoverOK: while nothing has spoilt the report, the cells it owes lie behind the nodes passed and within the packs that are left (`Quotient`, `PackCount`); a pack takes what it passes from those owed, and a login only adds behind |
| ConnPool_proofs | ShellUsesPool, ShellKeepsPool, ShellImplements | each action of the shell is an action of ConnPool, a callback allowed to it, or leaves the pool alone, so PoolInv and the refinement carry over step by step |
| ConnPool_proofs | ControlIsWellFormed, UsersAreGreeted | an entry of control_conns is a connected slot whose client sent the marker, and no other entry has it: whatever closes a connection takes its entry out before the slot is given away |
| ConnPool_proofs | LinkUsesItsPool, LinkImplements | the same for MonitorProcess, whose pool has no listener (`~Listening`) |
| ServerRequests_proofs | AnswersAccount | `RequestInv` = Types, PlaceOK, CountOK, WalkOK, NamedOK: iPartLen is the ids kept and those yet to be looked up, so that the command is flagged with the last id; a steady cell is marked and yet to be collected or walked, or was named; the cells counted off in a walk are walked and not steady (`WalkOK`), so that their number cannot reach the total while one of the counted is steady |
| CellPools_proofs | PoolsMeant, CellsAreTold, UpdatedRowsLoad | `CellPoolsInv` = PoolTypes, OrderOK, RowsOK, ToldOK, MeantOK: from the lookup to the end of the wait the buffer is what the nodes of the listed cells hold, and whoever is on the list was named; a cell that is not told yet is on it, or marked under a command for all and yet to be packed, or `missed`; a row that is not `unread` and owed no query is its node's |
| DefaultPools_proofs | TableAndDefaults, CellListsBounded | `PoolsInv`: at each step of a command of which nothing failed, where gPoolDefaultConf stands against the load of the table (`AgreeOK`), if the start could read it; the load, a recursive function of the rows, by induction on the number of rows; a list grows only behind a second read of the count that is at most MaxPools or taken from an algorithm in `over` |
| CirQueue_proofs | ListsStayLinked (PoolLists) | `ListsOK`: each descriptor and the pointers are `Linked` to a sequence of distinct nodes; `PushLinks` and `RemoveLinks` give the sequence after list_rpush and list_remove, `ChainIs` says, by induction, that walking the pointers yields it |
| CirQueue_proofs | SpecifyTakesCommand (PoolLists) | `ListsInv` = ListsOK, CmdOK, IdsOK, GivenOK, SpecifyOK: ids are once in both lists together (`IdsOK`), and from the first item on (`Emptied`) the lists hold what this command gave, in order, and looking its ids up gives their ids back (`GivenHolds`, by induction over the ids) |
| CirQueue_proofs | ListsAreSequences (PoolLists) | with ListsInv, each action moves the sequences of values as PoolSequences says: append, overwrite in place, one taken out, or none |

They hold for every choice of the constants that the named assumptions of the
modules allow, each beside its constant. Most only fix types and bounds
(`CapacityAssumption`, `SizeAssumption`, `PackAssumption`, `BoundsAssumption`,
`OrdersAssumption`, `RequestsAssumption`, `ItemsAssumption`, ...). Those that say
more: the cells of CellRegistry and ServerRequests and the nodes of PoolLists are
finite sets, since the code counts them in an int (`CellsAssumption`,
`NodesAssumption`); marks such as Null and All are no cell, id or node. In
HashRate a long long holds at least what an int holds, and share and divisor are
positive (`RangesAssumption`, `ShareAssumption`). The two
theorems about the link have the hypothesis `~Listening`, that its pool was made
without a listener, as MonitorProcess makes it (api_monitor.c:120). Each inductive
invariant was model-checked before it was proved; PoolsInv on the 2,257,577
states of `default_pools`, ListsInv on the 147,807 of `pool_lists`, RequestInv on the
430,912 of `server_requests`. No proof uses fairness.

ConnPool's theorems carry over to its users: that ShellSessions and MonitorLink
are ConnPool with more state above it is checked (`UsesPool`, `LinkUsesPool`)
and proved.

Two things the code computes by going through data are proved by induction: what
the rows of a table load to (DefaultPools) and what walking a chain or looking ids
up yields (PoolLists). They are recursive functions, of which `Induct` shows, with a
set in place of a predicate, that each value is the one claimed: the least
argument at which it is not would follow one at which it is.

Three modules of proofs are about more than the module they are named after:
Commands_proofs (Commands and HashRate), ConnPool_proofs (ConnPool, ShellSessions
and MonitorLink) and CirQueue_proofs (CirQueue and PoolLists).

Only model-checked: the liveness properties (FullDrains, AlarmSettles,
PendingIsWritten, CommandsEnd, StrangersLeave, LinkComesUp, BothAreSent,
RequestsEndUnlessLeaked), which need fairness and ENABLED and are beyond the
prover. Every other property of the passing runs is proved.

## 5. Findings

`commands_stuck` is a run: CommandShell and CommandMonitor return with their flag
lock locked when nothing could be sent (api_command.c:3121, 3137, 3172, 3196), so
a command that api_shell_terminal.c:2150 says takes 15 s at most is never
answered. Each of the following properties states what a comment of the code says,
or is a property of a run without the exception that it makes (`SteadyAreNamed` is
the part of AnswerAccounts about silent cells), and is refuted by
its configuration, which is not among the runs. A configuration with several properties checks one at a time: the commented lines
are the others.

| property | line | what the code does | configuration |
|---|---|---|---|
| FifoOrder | fifo_queue/circular_queue.c:85 | the pop of the last datagram resets the indices while a push is half done: the datagram is lost or reordered | CirQueueFifo |
| UpdateAfterInsert | api_comm/api_login.c:1433 | the guard of the update mark tests the parsed struct, not the node: a row waiting for its insertion is never inserted | CellRegistryUpdate |
| IdleMeansPolled | api_comm/api_monitor.c:1276 | the dataserver's mass report leaves eCellComm of a silent cell, which is no longer polled | CommandsPolled |
| SuccessIsAnswered | api_comm/api_command.c:2858 | a late reply to an earlier command lets the next one succeed | CommandsReply |
| AnsweredNodeStays | api_comm/api_login.c:1553 | a login reads its node for the answer ten lines after the unlock, and a deletion may have freed it (HandlersHaveNodes) | CellRegistryUpdate |
| NoLateReplyCounts | api_comm/api_command.c:2897 | the unlocked handler compares the number of a late reply, the next command marks the cell, and the handler clears that mark (ReportIsExact) | CommandsReply |
| NoLateAnswerCounts | api_comm/api_command.c:2898 | the same between two requests: a silent cell is not named (SteadyAreNamed) | MCServerRequestsAll |
| NoLoginHidesFailures | api_comm/api_monitor.c:1252 | the length is read before the walk: with a cell that logs in between, the offline cells reach it and a silent cell is lost in AllInterruption (SteadyAreNamed) | MCServerRequestsAll |
| EmptyMeansAll | api_comm/api_monitor.c:3635 | an empty list is a command for all, a missing one leaves the size at -1 and is answered with success | MCServerRequestsAll |
| SuccessIsOfAll | api_comm/api_monitor.c:1400 | a cell of a list that goes offline before the collection is counted as success | MCServerRequestsAll |
| RequestsEnd | api_comm/api_command.c:3196 | a request after one that could not be sent waits for the leaked lock for ever | MCServerRequestsEnd |
| ExpiredAreClosed | api_net/connection_pool/conn_pool_poll.c:91 | with a client waiting at the full pool, a poll returns before it reaches the expiries | ConnPoolFull |
| ValidatorsAreSent | api_comm/api_monitor.c:5215 | the interval goes back only at the answer to cell.info: without it switch.validator is not sent again | MonitorLinkStarved |
| LinkRecovers | api_net/connection_pool/conn_pool_recv.c:74 | the end is told by an errno that may be an earlier EAGAIN: the dead connection is kept (LinkComesUp) | MonitorLinkStarved |
| NewAreTold | api_comm/api_monitor.c:2351 | the count is compared with the length of the list and not lowered by a deletion: the next new cell is not announced | CellReportRefuted |
| RoundCoversAlways | api_comm/api_monitor.c:2384 | PackCellNewInfo leaves pNextNode to the next cell.info, which then begins in the middle | CellReportRefuted |
| NoFreedNode | api_comm/api_monitor.c:2766 | the node kept between two packs is read before the lock, and may be freed | CellReportRefuted |
| CellGetsOneOrder | api_comm/api_login.c:819 | a new cell is told the BTC pools of one command and the LTC pools of another | DefaultPoolsTorn |
| NoListOutgrows | api_comm/api_login.c:819 | the copy tests the count before and after the cap and writes one pool past the array (CellListsFit) | DefaultPoolsOver |
| TableIsGiven | db_op/db_mysql.c:209 | a start with the server down leaves the defaults empty though pool_conf holds them (TableHoldsDefaults) | DefaultPoolsOver |
| AtMostMaxPools | db_op/db_mysql.c:1407 | a table of one row more is loaded with a count of one too many; the copies then copy none | DefaultPoolsOver |
| PoolsAreLoaded | db_op/db_mysql.c:1811 | a new cell's pools are written with "/" and parsed at "#": not loaded before an update | MCCellPoolsRefuted |
| ChangedAreSent | api_comm/api_monitor.c:572 | one unknown id keeps the changed pools of all the others from being sent | MCCellPoolsRefuted |
| OnlySpecifiedCells | api_comm/api_monitor.c:4483 | a command whose first pool is broken hands out the pools of the one before | MCCellPoolsRefuted |
| AllCellsAreTold | api_comm/api_command.c:2451 | a command for all changes the nodes of cells that are offline, and is not sent to them (CellsHaveNodePools) | MCCellPoolsRefuted |
| UnreadRowsAreLoaded | db_op/db_mysql.c:203 | a start with the server down reads no row, and the nodes get the defaults (UpdatedRowsAreLoaded) | MCCellPoolsRefuted |
| SpansAlways | api_comm/api_command.c:397 | at the end of the ring a sample is compared with the one just before it | MCHashRateRefuted |
| BtcRateIsDocumented | api_comm/api_command.c:411 | the product wraps to 32 bits before the division | MCHashRateRefuted |
| HistoryIsKept | db_op/db_mysql.c:563 | the samples are read back one slot further on | MCHashRateRefuted |
| LtcHistoryIsKept | db_op/db_mysql.c:1261 | the LTC samples are parsed out of the BTC text, which was cut already | MCHashRateRefuted |

## 6. Not modelled

- Code nothing calls or compiles: in api_shell_terminal.c ParseAddPool,
  ParseDelPool, ParseSetPoolAlgo, ParseSetPool, PackAddPool, PackDelPool,
  PackSetPool, PackSetCell; in api_monitor.c SetdefaultPoolMonitorToShell,
  PackCellAddPool/DelPool/SetdefaultPoolMonitorToComm, ParseDelAllPool,
  ParseAddPoolCommand, ParseDelPoolCommand; InitDbToPool, makeJson, ParseArray; the
  `#if 0` regions of api_login.c, api_shell_terminal.c, api_monitor.c and
  db_mysql.c; conn_pool_move_conn.c and the resizing of pools; lpush, lpop, rpop
  and destroy of list.c; fifo_queue.c and md5.
- State nothing reads: the tables switch_base, alarm_log, cell_status and
  del_cellid_base.
- Text: the layout of the JSON messages (each is abstracted to the fields its
  reader looks at), the shell's displays, logging (ap_*), CfgData.ini (download),
  the vendored cJSON and uthash.
- The eight threads as a whole: each module has the threads that share its state,
  and the sequential start-up is in the Init and Restart of CellRegistry,
  DefaultPools, CellPools and HashRate. A product of the modules is out of TLC's
  reach; they share no variable but the table of cells, which each module lets
  change as the others do.

What is left to prove: every safety property of the runs is proved; the next
step is that the modules fit together, that is that what CellReport, CellPools,
Commands and ServerRequests let the table of cells do is what CellRegistry's
handlers do to it. What is left to model: deletion of a cell against the
lock-free handler of api_command.c:2866, which today would only restate that
there is no lock.
