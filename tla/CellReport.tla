------------------------------ MODULE CellReport ------------------------------
(***************************************************************************)
(* What MonitorProcess tells the dataserver of the cells: cell.info, in    *)
(* packs (PackCellAllInfo), and the new cells in between                   *)
(* (PackCellNewInfo). Both walk the table and keep where they stopped in   *)
(* pNextNode, which nothing protects between two packs; gNewCellSendLen    *)
(* counts the cells told, and the threads of login, replies and the shell  *)
(* change the table, its flags or the count meanwhile.                     *)
(*                                                                         *)
(* A flag eCellDataSer is "new" (NEWCELL), "data" (CELLNEWDATA) or "told"  *)
(* (0). A deletion and a pack are one step each: both hold MonitorRemLock. *)
(***************************************************************************)
EXTENDS Integers, FiniteSets, Sequences

CONSTANTS Cells,
          PackSize,     \* MONITOR_CELL_LIST_PACK_NUM, 250
          MaxSendLen    \* bound: gNewCellSendLen when a reply comes

ASSUME PackAssumption == PackSize \in Nat \ {0}
ASSUME SendLenAssumption == MaxSendLen \in Nat
ASSUME CellsAssumption == {"null", "freed"} \cap Cells = {}

VARIABLES list,     \* the table, in the order of its hh.next
          ser,      \* eCellDataSer
          sendLen,  \* gNewCellSendLen
          lock,     \* gLoginMonitorLock is locked, by whomever
          login,    \* where LoginParseProcess is
          reply,    \* where the handler of the reply to getstat is
          monitor,  \* where MonitorProcess is
          report,   \* the fields of stClientSendData behind bySeCmdBuf
          due,      \* cells whose data the report in progress has yet to send
          spoilt,   \* what happened to the report in progress
          unlocked, \* a repeated login has unlocked the mutex for the monitor
          over      \* a cell was deleted, or counted twice

vars == <<list, ser, sendLen, lock, login, reply, monitor, report, due, spoilt, unlocked, over>>

NoNode == "null"
Freed == "freed"    \* a node that was freed, whatever lies there now

Idle == [at |-> "idle"]

DataFlags == {"new", "data", "told"}

EmptyReport == [sub |-> 0, num |-> 0, remain |-> 0, next |-> NoNode]

Listed == {list[i] : i \in DOMAIN list}

Position(c) == CHOOSE i \in DOMAIN list : list[i] = c
From(c) == IF c \in Listed THEN SubSeq(list, Position(c), Len(list)) ELSE <<>>
Without(c) == SubSeq(list, 1, Position(c) - 1) \o SubSeq(list, Position(c) + 1, Len(list))
First(n, s) == SubSeq(s, 1, IF n < Len(s) THEN n ELSE Len(s))

Nodes == Cells \cup {NoNode, Freed}

ReportTypeOK ==
    /\ list \in Seq(Cells) /\ \A i, j \in DOMAIN list : list[i] = list[j] => i = j
    /\ ser \in [Cells -> DataFlags]
    /\ sendLen \in Nat
    /\ {lock, unlocked, over} \subseteq BOOLEAN
    /\ login \in {"idle", "login", "again"}
    /\ reply = Idle \/ (reply.at \in {"test", "read", "write"} /\ reply.cell \in Listed)
    /\ monitor.at \in {"idle", "wait", "look", "walk", "tell", "pack", "send"}
    /\ report.next \in Nodes
    /\ due \subseteq Listed
    /\ spoilt \subseteq {"start", "deleted"}

\* The cells of the database are loaded and counted (InitDbToCell).
Init ==
    /\ list \in {<<>>} \cup {<<c>> : c \in Cells}
    /\ ser = [c \in Cells |-> "told"]
    /\ sendLen = Len(list)
    /\ lock = FALSE /\ unlocked = FALSE
    /\ login = "idle" /\ reply = Idle /\ monitor = Idle
    /\ report = EmptyReport
    /\ due = {} /\ spoilt = {} /\ over = FALSE

-----------------------------------------------------------------------------
(* LoginParseProcess *)

LoginLock ==
    /\ login = "idle" /\ ~lock
    /\ lock' = TRUE
    /\ login' = "login"
    /\ UNCHANGED <<list, ser, sendLen, reply, monitor, report, due, spoilt, unlocked, over>>

\* A walk in progress may come to the node added at the end or not.
LoginNew(c) ==
    /\ login = "login" /\ c \notin Listed
    /\ list' = Append(list, c)
    /\ ser' = [ser EXCEPT ![c] = "new"]
    /\ \/ UNCHANGED monitor
       \/ /\ monitor.at \in {"walk", "tell"}
          /\ monitor' = [monitor EXCEPT !.todo = Append(@, c)]
    /\ lock' = FALSE
    /\ login' = "idle"
    /\ UNCHANGED <<sendLen, reply, report, due, spoilt, unlocked, over>>

\* A repeated login, or one that is refused: ParseCellLogin returns -1.
LoginAgain ==
    /\ login = "login"
    /\ lock' = FALSE
    /\ login' = "again"
    /\ UNCHANGED <<list, ser, sendLen, reply, monitor, report, due, spoilt, unlocked, over>>

\* The unlock behind the loop.
LoginUnlock ==
    /\ login = "again"
    /\ lock' = FALSE
    /\ login' = "idle"
    /\ unlocked' = (unlocked \/ lock)
    /\ UNCHANGED <<list, ser, sendLen, reply, monitor, report, due, spoilt, over>>

-----------------------------------------------------------------------------
(* The reply to getstat, under CommRemLock *)

ReplyBegin(c) ==
    /\ reply = Idle /\ c \in Listed /\ sendLen < MaxSendLen
    /\ reply' = [at |-> IF ser[c] = "new" THEN "read" ELSE "test", cell |-> c]
    /\ UNCHANGED <<list, ser, sendLen, lock, login, monitor, report, due, spoilt, unlocked, over>>

\* gNewCellSendLen++, which the monitor's ++ may come between.
ReplyRead ==
    /\ reply.at = "read"
    /\ reply' = [at |-> "write", cell |-> reply.cell, read |-> sendLen]
    /\ UNCHANGED <<list, ser, sendLen, lock, login, monitor, report, due, spoilt, unlocked, over>>

ReplyFlag ==
    /\ \/ reply.at = "test" /\ UNCHANGED sendLen
       \/ reply.at = "write" /\ sendLen' = reply.read + 1
    /\ ser' = [ser EXCEPT ![reply.cell] = "data"]
    /\ reply' = Idle
    /\ over' = (over \/ (reply.at = "write" /\ ser[reply.cell] # "new"))
    /\ UNCHANGED <<list, lock, login, monitor, report, due, spoilt, unlocked>>

-----------------------------------------------------------------------------
(* ParseDelCell: it waits for the locks of the threads that hold a node. *)

\* The first node of a pack is chosen before MonitorRemLock is locked.
DelCell(c) ==
    /\ c \in Listed /\ reply = Idle /\ login # "login" /\ monitor.at \notin {"walk", "tell"}
    /\ list' = Without(c)
    /\ due' = due \ {c}
    /\ spoilt' = spoilt \cup {"deleted"}
    /\ report' = IF report.next = c THEN [report EXCEPT !.next = Freed] ELSE report
    /\ monitor' = IF monitor.at = "send" /\ monitor.start = c THEN [monitor EXCEPT !.start = Freed]
                  ELSE monitor
    /\ over' = TRUE
    /\ UNCHANGED <<ser, sendLen, lock, login, reply, unlocked>>

-----------------------------------------------------------------------------
(* PackCellNewInfo, called until it returns -1 *)

LookBegin ==
    /\ monitor = Idle
    /\ monitor' = [at |-> "wait"]
    /\ UNCHANGED <<list, ser, sendLen, lock, login, reply, report, due, spoilt, unlocked, over>>

\* Mutant: the walk does without the mutex.
LookLockNone ==
    /\ monitor.at = "wait"
    /\ monitor' = [at |-> "look"]
    /\ UNCHANGED <<list, ser, sendLen, lock, login, reply, report, due, spoilt, unlocked, over>>

\* The mutex is locked, maybe by both if it was unlocked for another.
LookLock ==
    /\ monitor.at = "wait" /\ ~lock
    /\ lock' = TRUE
    /\ unlocked' = (unlocked /\ login = "login")
    /\ monitor' = [at |-> "look"]
    /\ UNCHANGED <<list, ser, sendLen, login, reply, report, due, spoilt, over>>

\* Mutant: one cell is left out of the comparison.
NothingNewButOne == sendLen + 1 >= Len(list)

NothingNew == list = <<>> \/ sendLen >= Len(list)

\* As many cells told as there are: none is looked for.
LookNone ==
    /\ monitor.at = "look" /\ NothingNew
    /\ sendLen' = Len(list)
    /\ lock' = FALSE
    /\ monitor' = Idle
    /\ UNCHANGED <<list, ser, login, reply, report, due, spoilt, unlocked, over>>

LookWalk ==
    /\ monitor.at = "look" /\ ~NothingNew
    /\ monitor' = [at |-> "walk", todo |-> list, packed |-> 0]
    /\ UNCHANGED <<list, ser, sendLen, lock, login, reply, report, due, spoilt, unlocked, over>>

WalkPast ==
    /\ monitor.at = "walk" /\ monitor.todo # <<>>
    /\ ser[Head(monitor.todo)] # "new"
    /\ monitor' = [monitor EXCEPT !.todo = Tail(@)]
    /\ UNCHANGED <<list, ser, sendLen, lock, login, reply, report, due, spoilt, unlocked, over>>

\* Mutant: the walk goes on when the pack is full.
WalkReadMore ==
    /\ monitor.at = "walk" /\ monitor.todo # <<>>
    /\ ser[Head(monitor.todo)] = "new" /\ monitor.packed <= PackSize
    /\ monitor' = [at |-> "tell", todo |-> monitor.todo, packed |-> monitor.packed, read |-> sendLen]
    /\ UNCHANGED <<list, ser, sendLen, lock, login, reply, report, due, spoilt, unlocked, over>>

WalkRead ==
    /\ monitor.at = "walk" /\ monitor.todo # <<>>
    /\ ser[Head(monitor.todo)] = "new" /\ monitor.packed < PackSize
    /\ monitor' = [at |-> "tell", todo |-> monitor.todo, packed |-> monitor.packed, read |-> sendLen]
    /\ UNCHANGED <<list, ser, sendLen, lock, login, reply, report, due, spoilt, unlocked, over>>

\* The cell is packed; what a reply marked meanwhile is unmarked with it.
WalkTell ==
    /\ monitor.at = "tell"
    /\ sendLen' = monitor.read + 1
    /\ ser' = [ser EXCEPT ![Head(monitor.todo)] = "told"]
    /\ monitor' = [at |-> "walk", todo |-> Tail(monitor.todo), packed |-> monitor.packed + 1]
    /\ over' = (over \/ ser[Head(monitor.todo)] # "new")
    /\ UNCHANGED <<list, lock, login, reply, report, due, spoilt, unlocked>>

\* The end of the list, or of the pack: then pNextNode is set, though no
\* report is being split.
WalkEnd ==
    /\ monitor.at = "walk"
    /\ \/ monitor.todo = <<>> /\ UNCHANGED report
       \/ /\ monitor.todo # <<>> /\ ser[Head(monitor.todo)] = "new" /\ monitor.packed = PackSize
          /\ report' = [report EXCEPT !.next = Head(monitor.todo)]
    /\ lock' = FALSE
    /\ monitor' = Idle
    /\ UNCHANGED <<list, ser, sendLen, login, reply, due, spoilt, unlocked, over>>

-----------------------------------------------------------------------------
(* CellInfoPro: PackCellAllInfo for each pack *)

Packs(n) == (n + PackSize - 1) \div PackSize

\* The first pack counts the list. Without a cell the loop ends and the fields
\* are cleared; one pack needs none of them.
RoundBegin ==
    /\ monitor = Idle
    /\ IF list = <<>> THEN report' = EmptyReport /\ UNCHANGED <<monitor, due, spoilt>>
       ELSE /\ report' = IF Packs(Len(list)) > 1
                         THEN [report EXCEPT !.num = Packs(Len(list)), !.remain = Len(list) % PackSize]
                         ELSE report
            /\ monitor' = [at |-> "pack", len |-> Len(list)]
            /\ due' = {c \in Listed : ser[c] = "data"}
            /\ spoilt' = IF report.next = NoNode THEN {} ELSE {"start"}
    /\ UNCHANGED <<list, ser, sendLen, lock, login, reply, unlocked, over>>

HeadNode == IF list = <<>> THEN NoNode ELSE Head(list)

\* Mutant: a full pack is one node short.
PackBeginShort ==
    /\ monitor.at = "pack"
    /\ monitor' =
         IF report.sub >= report.num THEN [at |-> "send", start |-> HeadNode, loop |-> monitor.len]
         ELSE IF report.sub = report.num - 1 /\ report.remain > 0
         THEN [at |-> "send", start |-> report.next, loop |-> report.remain]
         ELSE [at |-> "send", start |-> IF report.next = NoNode THEN HeadNode ELSE report.next,
               loop |-> PackSize - 1]
    /\ UNCHANGED <<list, ser, sendLen, lock, login, reply, report, due, spoilt, unlocked, over>>

\* Where a pack starts and how many nodes it passes.
PackBegin ==
    /\ monitor.at = "pack"
    /\ monitor' =
         IF report.sub >= report.num THEN [at |-> "send", start |-> HeadNode, loop |-> monitor.len]
         ELSE IF report.sub = report.num - 1 /\ report.remain > 0
         THEN [at |-> "send", start |-> report.next, loop |-> report.remain]
         ELSE [at |-> "send", start |-> IF report.next = NoNode THEN HeadNode ELSE report.next,
               loop |-> PackSize]
    /\ UNCHANGED <<list, ser, sendLen, lock, login, reply, report, due, spoilt, unlocked, over>>

\* The nodes from here to the end of the list; from a freed node, any.
Walks(start) == IF start = Freed THEN {SubSeq(list, i, Len(list)) : i \in 1 .. Len(list) + 1}
                ELSE {From(start)}

\* The walk under MonitorRemLock, the message sent, and the next pack or, after
\* the last, the fields cleared.
PackSend ==
    /\ monitor.at = "send"
    /\ \E walk \in Walks(monitor.start) :
         LET passed == {First(monitor.loop, walk)[i] : i \in DOMAIN First(monitor.loop, walk)}
             sent   == {c \in passed : ser[c] = "data"}
             next   == IF Len(walk) > monitor.loop THEN walk[monitor.loop + 1] ELSE report.next
         IN  /\ ser' = [c \in Cells |-> IF c \in sent THEN "told" ELSE ser[c]]
             /\ due' = due \ sent
             /\ IF report.sub + 1 < report.num
                THEN /\ report' = [report EXCEPT !.sub = @ + 1, !.next = next]
                     /\ monitor' = [at |-> "pack", len |-> 0]
                ELSE report' = EmptyReport /\ monitor' = Idle
    /\ UNCHANGED <<list, sendLen, lock, login, reply, spoilt, unlocked, over>>

-----------------------------------------------------------------------------
Looks == LookBegin \/ LookLock \/ LookNone \/ LookWalk \/ WalkPast \/ WalkRead \/ WalkTell \/ WalkEnd

Rounds == RoundBegin \/ PackBegin \/ PackSend

Logins == LoginLock \/ (\E c \in Cells : LoginNew(c)) \/ LoginAgain \/ LoginUnlock

Replies == (\E c \in Cells : ReplyBegin(c)) \/ ReplyRead \/ ReplyFlag

Next == Looks \/ Rounds \/ Logins \/ Replies \/ \E c \in Cells : DelCell(c)

\* The monitor's thread runs, new cells and reports having their turn (every 3
\* and every 60 seconds), and so do the threads that hold its lock.
Spec ==
    /\ Init /\ [][Next]_vars
    /\ SF_vars(LookBegin) /\ SF_vars(LookLock)
    /\ WF_vars(monitor # Idle /\ (Looks \/ Rounds))
    /\ WF_vars(LoginAgain) /\ WF_vars(LoginUnlock)

-----------------------------------------------------------------------------
(* Properties *)

\* A message holds no more cells than the send buffer was made for
\* (MONITOR_CELL_LIST_PACK_NUM), though logins lengthen the list between its
\* count and the walk (api_monitor.c:2725, 2796).
PacksFit ==
    /\ monitor.at \in {"walk", "tell"} => monitor.packed <= PackSize
    /\ monitor.at = "send" => monitor.loop <= PackSize

\* The walks are well formed: the types, and no pack is too long.
ReportWellFormed == ReportTypeOK /\ PacksFit

RoundEnds == monitor.at = "send" /\ monitor' = Idle

\* A report in packs covers the list: a cell with new data when it began is in
\* it, however many cells logged in meanwhile, if none was deleted and it
\* started at the head of the list (api_monitor.c:2753-2766, 5392-5414).
RoundCovers == [][RoundEnds /\ spoilt = {} => due' = {}]_vars

\* No login adds a node while the monitor walks the list, unless a repeated
\* login has unlocked its mutex (api_login.c:2247, api_monitor.c:2341-2433).
WalkExcludesLogin ==
    (monitor.at \in {"walk", "tell"} /\ login = "login") => unlocked

\* gNewCellSendLen is all the monitor looks at to find that no cell is new: it
\* is at most the number of cells that were told, though the increments of the
\* threads are lost to each other, as long as no cell is deleted or counted
\* twice (api_monitor.c:2351, api_command.c:2437). Too high a count would hide a
\* new cell for ever, too low a count costs one walk of the table.
CountIsOfTold ==
    ~over => sendLen <= Cardinality({c \in Listed : ser[c] # "new"})

\* "There is a new cell: it can be sent to the dataserver" (api_login.c:1476).
\* CellReportRefuted.cfg refutes it: see over.
NewAreTold ==
    \A c \in Cells : (c \in Listed /\ ser[c] = "new") ~> (c \notin Listed \/ ser[c] # "new")

\* "Information of the next node after a pack" (api_monitor.h:40): a report
\* starts where none has stopped, at the head, and covers the list.
\* CellReportRefuted.cfg refutes it: PackCellNewInfo leaves pNextNode behind.
RoundCoversAlways == [][RoundEnds /\ "deleted" \notin spoilt => due' = {}]_vars

\* "A node may be deleted only when the locks are held"
\* (api_shell_terminal.c:611): no thread is left with a freed one.
\* CellReportRefuted.cfg refutes it: pNextNode is not under a lock.
NoFreedNode == ~(monitor.at = "send" /\ monitor.start = Freed)

=============================================================================
