---------------------------- MODULE CellRegistry ----------------------------
(***************************************************************************)
(* The hash table of cells, stCellUtlist, and its copy in the MySQL table  *)
(* cell_base.  Five threads work on them:                                  *)
(*   LoginParseProcess    ParseCellLogin, under LoginRemLock               *)
(*   CommandParseProcess  the replies that refresh a cell, under           *)
(*                        CommRemLock                                      *)
(*   AlarmProcess         AlarmCell, under AlarmRemLock                    *)
(*   MysqlProcess         CellDbOp, under DatabaseRemLock, then reconnects *)
(*   ShellTerminalProcess ParseDelCell, which takes all of these locks     *)
(* Only the deletion excludes the others.  The fields of a cell, and the   *)
(* mark eCellMySql that asks MysqlProcess to write it, are shared without  *)
(* a common lock, so the handlers are split where they set the mark.       *)
(***************************************************************************)
EXTENDS Naturals, FiniteSets

CONSTANTS
  Cells,     \* cell identities, szCellId
  Addrs,     \* values of the fields a login compares with their own old
             \* value: address and port, software version, frequencies
  Versions   \* values of szSwVer and szHwVer

ASSUME CellsAssumption    == IsFiniteSet(Cells)
ASSUME AddrsAssumption    == Addrs # {}
ASSUME VersionsAssumption == Versions # {}

VARIABLES
  known,     \* cells in the hash table
  addr, sw, hw, online,   \* their persisted fields
  quiet,     \* more than 180 s since iCellAlarmTimer was set
  mysql,     \* eCellMySql: the query the cell waits for, or "none"
  row,       \* cell_base: row[c] for the cells in stored
  stored,
  dbUp,      \* the MySQL server answers
  ini,       \* bIniCellBase, bIniCellStatus
  loaded,    \* the last start of the program could read cell_base
  login, reply, alarm, flush,   \* where each thread is, and on which cell
  alarmTodo, flushTodo,         \* the cells its HASH_ITER has yet to visit
  crossed    \* history: a handler touched the cell while its write was out

fields  == <<addr, sw, hw, online>>
base    == <<row, stored>>
alarmV  == <<alarm, alarmTodo>>
flushV  == <<flush, flushTodo>>
vars == <<known, fields, quiet, mysql, base, dbUp, ini, loaded,
          login, reply, alarmV, flushV, crossed>>

Pending == {"insert", "update"}
Queries == Pending \cup {"none"}
Row     == [addr : Addrs, sw : Versions, hw : Versions, online : BOOLEAN]
Idle    == [at |-> "idle"]

\* What PackCellBaseInsert and PackCellBaseUpdate write of a cell
Packed(c) == [addr |-> addr[c], sw |-> sw[c], hw |-> hw[c], online |-> online[c]]

\* Every handler that touches c notes whether c's write is out just then.
Touch(c) ==
  crossed' = [crossed EXCEPT ![c] = @ \/ (flush.at \in {"query", "clear"} /\ flush.cell = c)]

TypeOK ==
  /\ known \subseteq Cells
  /\ addr \in [Cells -> Addrs] /\ sw \in [Cells -> Versions] /\ hw \in [Cells -> Versions]
  /\ online \in [Cells -> BOOLEAN] /\ quiet \in [Cells -> BOOLEAN]
  /\ mysql \in [Cells -> Queries]
  /\ row \in [Cells -> Row] /\ stored \subseteq Cells
  /\ dbUp \in BOOLEAN /\ ini \in BOOLEAN /\ loaded \in BOOLEAN
  /\ login \in {Idle} \cup [at : {"flag"}, cell : Cells]
                      \cup [at : {"send"}, cell : Cells, val : {"node", "freed"}]
  /\ reply \in {Idle} \cup [at : {"flag"}, cell : Cells]
  /\ alarm \in {Idle} \cup [at : {"walk"}]
                      \cup [at : {"late", "heard", "flag"}, cell : Cells]
  /\ flush \in {Idle} \cup [at : {"walk", "reconnect"}]
                      \cup [at : {"query", "clear"}, cell : Cells, kind : Pending, buf : Row]
  /\ alarmTodo \subseteq Cells /\ flushTodo \subseteq Cells
  /\ crossed \in [Cells -> BOOLEAN]

\* An empty table, a program just started with the server up or down
Init ==
  /\ known = {} /\ stored = {}
  /\ \E a \in Addrs, v \in Versions :
       /\ addr = [c \in Cells |-> a]
       /\ sw = [c \in Cells |-> v] /\ hw = [c \in Cells |-> v]
       /\ row = [c \in Cells |-> [addr |-> a, sw |-> v, hw |-> v, online |-> FALSE]]
  /\ online = [c \in Cells |-> FALSE] /\ quiet = [c \in Cells |-> TRUE]
  /\ mysql = [c \in Cells |-> "none"]
  /\ dbUp \in BOOLEAN /\ ini = dbUp /\ loaded = dbUp
  /\ login = Idle /\ reply = Idle /\ alarm = Idle /\ flush = Idle
  /\ alarmTodo = {} /\ flushTodo = {}
  /\ crossed = [c \in Cells |-> FALSE]

-----------------------------------------------------------------------------
(* The MySQL server and the queries it answers.                             *)

ServerGoesDown == dbUp  /\ dbUp' = FALSE
ServerComesUp  == ~dbUp /\ dbUp' = TRUE

Server ==
  /\ ServerGoesDown \/ ServerComesUp
  /\ UNCHANGED <<known, fields, quiet, mysql, base, ini, loaded,
                 login, reply, alarmV, flushV, crossed>>

\* Outcomes of mysql_query: done; refused; done, but the answer was lost
Outcomes == IF dbUp THEN {"ok", "error", "lost"} ELSE {"error"}

\* "replace into" writes the row, "update ... where" only an existing one.
Writes(kind, c, buf) ==
  IF kind = "insert" \/ c \in stored
  THEN row' = [row EXCEPT ![c] = buf] /\ stored' = stored \cup {c}
  ELSE UNCHANGED base

-----------------------------------------------------------------------------
(* LoginParseProcess: ParseCellLogin.                                       *)

\* What a login has left to do once it has given LoginRemLock back: answer the
\* cell at the socket and address it reads from val.  The val of a new cell is
\* its node; that of a cell known already was freed in the branch before.
Answering(c, val) == [at |-> "send", cell |-> c, val |-> val]

\* No login is under way that holds LoginRemLock.
LoginUnlocked == login.at \in {"idle", "send"}

\* A cell that is not in the table: insert its row at once; if that fails,
\* leave the insertion to MysqlProcess.  Then add it to the table.
LoginNew(c, a, s, h) ==
  /\ login = Idle
  /\ c \notin known
  /\ addr' = [addr EXCEPT ![c] = a]
  /\ sw' = [sw EXCEPT ![c] = s]
  /\ hw' = [hw EXCEPT ![c] = h]
  /\ online' = [online EXCEPT ![c] = TRUE]
  /\ quiet' = [quiet EXCEPT ![c] = FALSE]
  /\ \E result \in Outcomes :
       /\ mysql' = [mysql EXCEPT ![c] = IF result = "ok" THEN "none" ELSE "insert"]
       /\ IF result = "error" THEN UNCHANGED base
          ELSE Writes("insert", c, [addr |-> a, sw |-> s, hw |-> h, online |-> TRUE])
  /\ known' = known \cup {c}
  /\ crossed' = [crossed EXCEPT ![c] = FALSE]
  /\ login' = Answering(c, "node")
  /\ UNCHANGED <<dbUp, ini, loaded, reply, alarmV, flushV>>

\* The reported hardware version is compared with the software version the
\* node has by then, which is the reported one.
LoginAgain(c, a, s, h) ==
  /\ login = Idle
  /\ c \in known
  /\ quiet' = [quiet EXCEPT ![c] = FALSE]
  /\ addr' = [addr EXCEPT ![c] = a]
  /\ sw' = [sw EXCEPT ![c] = s]
  /\ hw' = [hw EXCEPT ![c] = IF h # s THEN h ELSE @]
  /\ login' = IF a # addr[c] \/ s # sw[c] \/ h # s
              THEN [at |-> "flag", cell |-> c] ELSE Answering(c, "freed")
  /\ Touch(c)
  /\ UNCHANGED <<known, online, mysql, base, dbUp, ini, loaded, reply, alarmV, flushV>>

\* The test for a pending insertion looks at the parsed message, where the
\* mark is always 0, so the node's mark is overwritten whatever it was.
LoginFlag ==
  /\ login.at = "flag"
  /\ mysql' = [mysql EXCEPT ![login.cell] = "update"]
  /\ Touch(login.cell)
  /\ login' = Answering(login.cell, "freed")
  /\ UNCHANGED <<known, fields, quiet, base, dbUp, ini, loaded, reply, alarmV, flushV>>

\* ApiNetSendToClient, without a lock
LoginSend ==
  /\ login.at = "send"
  /\ login' = Idle
  /\ UNCHANGED <<known, fields, quiet, mysql, base, dbUp, ini, loaded,
                 reply, alarmV, flushV, crossed>>

-----------------------------------------------------------------------------
(* CommandParseProcess: a reply brings the address up to date.              *)

\* Only the reply to getstat restarts the alarm timer.
ReplyRefresh(c, a) ==
  /\ reply = Idle
  /\ c \in known
  /\ \E stat \in BOOLEAN : quiet' = [quiet EXCEPT ![c] = @ /\ ~stat]
  /\ addr' = [addr EXCEPT ![c] = a]
  /\ reply' = IF a # addr[c] THEN [at |-> "flag", cell |-> c] ELSE Idle
  /\ Touch(c)
  /\ UNCHANGED <<known, sw, hw, online, mysql, base, dbUp, ini, loaded,
                 login, alarmV, flushV>>

ReplyFlag ==
  /\ reply.at = "flag"
  /\ mysql' = [mysql EXCEPT ![reply.cell] = IF @ = "insert" THEN @ ELSE "update"]
  /\ Touch(reply.cell)
  /\ reply' = Idle
  /\ UNCHANGED <<known, fields, quiet, base, dbUp, ini, loaded, login, alarmV, flushV>>

-----------------------------------------------------------------------------
(* AlarmProcess: AlarmCell every 10 s.                                      *)

AlarmStart ==
  /\ alarm = Idle
  /\ known # {}
  /\ alarm' = [at |-> "walk"]
  /\ alarmTodo' = known
  /\ UNCHANGED <<known, fields, quiet, mysql, base, dbUp, ini, loaded,
                 login, reply, flushV, crossed>>

\* Mutant: no cell is ever late.
AlarmNeverLate(c) ==
  /\ alarm.at = "walk"
  /\ c \in alarmTodo
  /\ alarmTodo' = alarmTodo \ {c}
  /\ alarm' = [at |-> "heard", cell |-> c]
  /\ UNCHANGED <<known, fields, quiet, mysql, base, dbUp, ini, loaded,
                 login, reply, flushV, crossed>>

\* The timer is read without AlarmTimerLock.
AlarmLook(c) ==
  /\ alarm.at = "walk"
  /\ c \in alarmTodo
  /\ alarmTodo' = alarmTodo \ {c}
  /\ alarm' = [at |-> IF quiet[c] THEN "late" ELSE "heard", cell |-> c]
  /\ UNCHANGED <<known, fields, quiet, mysql, base, dbUp, ini, loaded,
                 login, reply, flushV, crossed>>

AlarmNoChange ==
  /\ alarm.at \in {"late", "heard"}
  /\ online[alarm.cell] = (alarm.at = "heard")
  /\ alarm' = [at |-> "walk"]
  /\ UNCHANGED <<known, fields, quiet, mysql, base, dbUp, ini, loaded,
                 login, reply, alarmTodo, flushV, crossed>>

\* Defect: the change is not marked for MysqlProcess.
AlarmSwitchUnmarked ==
  /\ alarm.at \in {"late", "heard"}
  /\ online[alarm.cell] # (alarm.at = "heard")
  /\ online' = [online EXCEPT ![alarm.cell] = ~@]
  /\ Touch(alarm.cell)
  /\ alarm' = [at |-> "walk"]
  /\ UNCHANGED <<known, addr, sw, hw, quiet, mysql, base, dbUp, ini, loaded,
                 login, reply, alarmTodo, flushV>>

AlarmSwitch ==
  /\ alarm.at \in {"late", "heard"}
  /\ online[alarm.cell] # (alarm.at = "heard")
  /\ online' = [online EXCEPT ![alarm.cell] = ~@]
  /\ Touch(alarm.cell)
  /\ alarm' = [at |-> "flag", cell |-> alarm.cell]
  /\ UNCHANGED <<known, addr, sw, hw, quiet, mysql, base, dbUp, ini, loaded,
                 login, reply, alarmTodo, flushV>>

AlarmFlag ==
  /\ alarm.at = "flag"
  /\ mysql' = [mysql EXCEPT ![alarm.cell] = IF @ = "insert" THEN @ ELSE "update"]
  /\ Touch(alarm.cell)
  /\ alarm' = [at |-> "walk"]
  /\ UNCHANGED <<known, fields, quiet, base, dbUp, ini, loaded,
                 login, reply, alarmTodo, flushV>>

AlarmEnd ==
  /\ alarm.at = "walk"
  /\ alarmTodo = {}
  /\ alarm' = Idle
  /\ UNCHANGED <<known, fields, quiet, mysql, base, dbUp, ini, loaded,
                 login, reply, alarmTodo, flushV, crossed>>

AlarmProcess ==
  \/ AlarmStart
  \/ \E c \in Cells : AlarmLook(c)
  \/ AlarmNoChange
  \/ AlarmSwitch
  \/ AlarmFlag
  \/ AlarmEnd

-----------------------------------------------------------------------------
(* MysqlProcess: CellDbOp if the tables were reached, then MysqlReconnect.  *)

FlushStart ==
  /\ flush = Idle
  /\ IF ini /\ known # {}
     THEN flush' = [at |-> "walk"] /\ flushTodo' = known
     ELSE flush' = [at |-> "reconnect"] /\ UNCHANGED flushTodo
  /\ UNCHANGED <<known, fields, quiet, mysql, base, dbUp, ini, loaded,
                 login, reply, alarmV, crossed>>

FlushSkip(c) ==
  /\ flush.at = "walk"
  /\ c \in flushTodo
  /\ mysql[c] = "none"
  /\ flushTodo' = flushTodo \ {c}
  /\ UNCHANGED <<known, fields, quiet, mysql, base, dbUp, ini, loaded,
                 login, reply, alarmV, flush, crossed>>

\* Defect: cells without a mark are packed too.
FlushPackAll(c) ==
  /\ flush.at = "walk"
  /\ c \in flushTodo
  /\ flushTodo' = flushTodo \ {c}
  /\ flush' = [at |-> "query", cell |-> c, kind |-> mysql[c], buf |-> Packed(c)]
  /\ crossed' = [crossed EXCEPT ![c] = FALSE]
  /\ UNCHANGED <<known, fields, quiet, mysql, base, dbUp, ini, loaded,
                 login, reply, alarmV>>

\* Pack the cell into the query its mark asks for.
FlushPack(c) ==
  /\ flush.at = "walk"
  /\ c \in flushTodo
  /\ mysql[c] # "none"
  /\ flushTodo' = flushTodo \ {c}
  /\ flush' = [at |-> "query", cell |-> c, kind |-> mysql[c], buf |-> Packed(c)]
  /\ crossed' = [crossed EXCEPT ![c] = FALSE]
  /\ UNCHANGED <<known, fields, quiet, mysql, base, dbUp, ini, loaded,
                 login, reply, alarmV>>

FlushQuery ==
  /\ flush.at = "query"
  /\ \E result \in Outcomes :
       /\ IF result = "error" THEN UNCHANGED base
          ELSE Writes(flush.kind, flush.cell, flush.buf)
       /\ flush' = IF result = "ok" THEN [flush EXCEPT !.at = "clear"] ELSE [at |-> "walk"]
       /\ crossed' = [crossed EXCEPT ![flush.cell] = @ /\ result = "ok"]
  /\ UNCHANGED <<known, fields, quiet, mysql, dbUp, ini, loaded,
                 login, reply, alarmV, flushTodo>>

\* Defect: the mark stays after the write.
FlushKeepMark ==
  /\ flush.at = "clear"
  /\ flush' = [at |-> "walk"]
  /\ UNCHANGED <<known, fields, quiet, mysql, base, dbUp, ini, loaded,
                 login, reply, alarmV, flushTodo, crossed>>

FlushClear ==
  /\ flush.at = "clear"
  /\ mysql' = [mysql EXCEPT ![flush.cell] = "none"]
  /\ flush' = [at |-> "walk"]
  /\ UNCHANGED <<known, fields, quiet, base, dbUp, ini, loaded,
                 login, reply, alarmV, flushTodo, crossed>>

FlushEnd ==
  /\ flush.at = "walk"
  /\ flushTodo = {}
  /\ flush' = [at |-> "reconnect"]
  /\ UNCHANGED <<known, fields, quiet, mysql, base, dbUp, ini, loaded,
                 login, reply, alarmV, flushTodo, crossed>>

Reconnect ==
  /\ flush.at = "reconnect"
  /\ ini' = dbUp
  /\ flush' = Idle
  /\ UNCHANGED <<known, fields, quiet, mysql, base, dbUp, loaded,
                 login, reply, alarmV, flushTodo, crossed>>

MysqlProcess ==
  \/ FlushStart
  \/ \E c \in Cells : FlushSkip(c) \/ FlushPack(c)
  \/ FlushQuery
  \/ FlushClear
  \/ FlushEnd
  \/ Reconnect

-----------------------------------------------------------------------------
(* ParseDelCell holds the removal lock of every thread; it deletes the row, *)
(* and the node only if that succeeded.  Neither leaves anything behind.    *)

DeleteRow(c) ==
  /\ stored' = stored \ {c}
  /\ row' = [row EXCEPT ![c].online = FALSE]

FreeNode(c) ==
  /\ known' = known \ {c}
  /\ mysql' = [mysql EXCEPT ![c] = "none"]
  /\ online' = [online EXCEPT ![c] = FALSE]
  /\ quiet' = [quiet EXCEPT ![c] = TRUE]
  /\ crossed' = [crossed EXCEPT ![c] = FALSE]

\* Defects: the node goes even if its row could not be deleted; AlarmRemLock
\* is not taken.
DelCellAnyway(c) ==
  /\ LoginUnlocked /\ reply = Idle /\ alarm = Idle /\ flush.at \in {"idle", "reconnect"}
  /\ c \in known
  /\ ini
  /\ \E result \in Outcomes : IF result = "error" THEN UNCHANGED base ELSE DeleteRow(c)
  /\ FreeNode(c)
  /\ UNCHANGED <<addr, sw, hw, dbUp, ini, loaded, login, reply, alarmV, flushV>>

DelCellUnderAlarm(c) ==
  /\ LoginUnlocked /\ reply = Idle /\ flush.at \in {"idle", "reconnect"}
  /\ c \in known
  /\ ini
  /\ \E result \in Outcomes :
       /\ IF result = "error" THEN UNCHANGED base ELSE DeleteRow(c)
       /\ IF result = "ok" THEN FreeNode(c)
          ELSE UNCHANGED <<known, mysql, online, quiet, crossed>>
  /\ UNCHANGED <<addr, sw, hw, dbUp, ini, loaded, login, reply, alarmV, flushV>>

DelCell(c) ==
  /\ LoginUnlocked /\ reply = Idle /\ alarm = Idle /\ flush.at \in {"idle", "reconnect"}
  /\ c \in known
  /\ ini
  /\ \E result \in Outcomes :
       /\ IF result = "error" THEN UNCHANGED base ELSE DeleteRow(c)
       /\ IF result = "ok" THEN FreeNode(c)
          ELSE UNCHANGED <<known, mysql, online, quiet, crossed>>
  /\ UNCHANGED <<addr, sw, hw, dbUp, ini, loaded, login, reply, alarmV, flushV>>

(* Time passes: nothing was heard of the cell for more than 180 s.          *)
Silence(c) ==
  /\ c \in known
  /\ ~quiet[c]
  /\ quiet' = [quiet EXCEPT ![c] = TRUE]
  /\ UNCHANGED <<known, fields, mysql, base, dbUp, ini, loaded,
                 login, reply, alarmV, flushV, crossed>>

(* The program is killed and started again (killSwitch.sh, monitor.sh):     *)
(* InitDbToCell makes a node of every row it can read.                      *)
Restart ==
  /\ known' = IF dbUp THEN stored ELSE {}
  /\ addr' = [c \in Cells |-> row[c].addr]
  /\ sw' = [c \in Cells |-> row[c].sw]
  /\ hw' = [c \in Cells |-> row[c].hw]
  /\ online' = [c \in Cells |-> row[c].online]
  /\ quiet' = [c \in Cells |-> ~row[c].online]
  /\ mysql' = [c \in Cells |-> "none"]
  /\ ini' = dbUp /\ loaded' = dbUp
  /\ login' = Idle /\ reply' = Idle /\ alarm' = Idle /\ flush' = Idle
  /\ alarmTodo' = {} /\ flushTodo' = {}
  /\ crossed' = [c \in Cells |-> FALSE]
  /\ UNCHANGED <<base, dbUp>>

-----------------------------------------------------------------------------
Next ==
  \/ Server
  \/ \E c \in Cells, a \in Addrs, s, h \in Versions :
       LoginNew(c, a, s, h) \/ LoginAgain(c, a, s, h)
  \/ LoginFlag
  \/ LoginSend
  \/ \E c \in Cells, a \in Addrs : ReplyRefresh(c, a)
  \/ ReplyFlag
  \/ AlarmProcess
  \/ MysqlProcess
  \/ \E c \in Cells : DelCell(c) \/ Silence(c)
  \/ Restart

\* Threads that have work go on; cells, users and the server owe nothing.
Fairness ==
  /\ WF_vars(LoginFlag)
  /\ WF_vars(LoginSend)
  /\ WF_vars(ReplyFlag)
  /\ WF_vars(AlarmProcess)
  /\ WF_vars(MysqlProcess)

Spec     == Init /\ [][Next]_vars
FairSpec == Spec /\ Fairness

-----------------------------------------------------------------------------
\* If the program could read cell_base when it started, every row has its
\* node: no handler, deletion or late write of MysqlProcess leaves a row that
\* nobody keeps up to date.
RowsHaveNodes == loaded => stored \subseteq known

\* The node a thread works on under its removal lock, or has yet to visit in
\* its HASH_ITER, is in the table: ParseDelCell never frees it under the
\* thread.  The exception is the answer to a login, sent after the unlock.
HandlersHaveNodes ==
  /\ ~LoginUnlocked => login.cell \in known
  /\ reply # Idle => reply.cell \in known
  /\ alarm.at \in {"late", "heard", "flag"} => alarm.cell \in known
  /\ flush.at \in {"query", "clear"} => flush.cell \in known
  /\ alarmTodo \subseteq known
  /\ flushTodo \subseteq known

\* The exception refuted: the node a login has just added is in the table while
\* its answer is sent (api_login.c:1553, ten lines after the unlock).
AnsweredNodeStays == login.at = "send" /\ login.val = "node" => login.cell \in known

\* A row that differs from its node is going to be written: the mark is set,
\* or the thread that changed the node is about to set it.  The exception is
\* a change that fell between CellDbOp's packing of the cell and its clearing
\* of the mark.
BeingFlagged(c) ==
  \/ login.at = "flag" /\ login.cell = c
  \/ reply.at = "flag" /\ reply.cell = c
  \/ alarm.at = "flag" /\ alarm.cell = c

DirtyIsFlagged ==
  \A c \in known \cap stored :
    row[c] # Packed(c) => mysql[c] # "none" \/ BeingFlagged(c) \/ crossed[c]

\* AlarmCell gets it right in the end, although it reads the timer and writes
\* bCellOnline in separate steps: a cell that stays silent is marked offline
\* for good, a cell that keeps talking is marked online for good.
AlarmSettles ==
  \A c \in Cells :
    /\ <>[](c \in known /\ quiet[c]) => <>[](~online[c])
    /\ <>[](c \in known /\ ~quiet[c]) => <>[](online[c])

\* Once the server stays up and answers every query, no cell waits for its
\* write for ever, however logins, replies and alarms keep setting the mark.
PendingIsWritten ==
  <>[]dbUp /\ <>[][FlushQuery => flush'.at = "clear"]_vars
    => \A c \in Cells : []<>(mysql[c] = "none")

\* api_login.c:1432 says, of the update mark it is about to set, that it may
\* be set only when the data is already in the database.
UpdateAfterInsert ==
  [][\A c \in Cells :
       mysql[c] = "insert" /\ c \notin stored => mysql'[c] # "update"]_vars

=============================================================================
