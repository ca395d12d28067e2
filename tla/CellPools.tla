------------------------------ MODULE CellPools ------------------------------
(***************************************************************************)
(* The pools that each cell works for, in four places: the node of the     *)
(* cell (CellPoolConf), the text in its row of the table of cells, what    *)
(* the cell was last told, and gPoolSpecifyConf, the one buffer through    *)
(* which cell.setpool passes to the nodes. The thread of the monitor fills *)
(* the buffer and writes it to the nodes and the rows; the thread that     *)
(* sends the command copies the buffer to the node once more. A command    *)
(* for all the cells changes every node and is sent to the cells that are  *)
(* online; one for a list of cells is sent to each of them.                *)
(*                                                                         *)
(* Cells are not deleted here, and a send does not fail: in a list it      *)
(* would end the sending for good, with the flag's lock held (Commands).   *)
(*                                                                         *)
(* A list of pools is abstracted to the command that gave it, for each of  *)
(* the algorithms: None, Default (the pools of a new cell) or the number   *)
(* of the command.                                                         *)
(***************************************************************************)
EXTENDS Integers, FiniteSets

CONSTANTS Cells,
          DefaultAlgos,   \* the algorithms that gPoolDefaultConf has pools of
          MaxCommands,    \* bound: cell.setpool requests since the first start
          MaxFaults       \* bound: the kinds of fault in one behaviour

Algos == {"BTC", "LTC"}

ASSUME DefaultAssumption == DefaultAlgos \subseteq Algos
ASSUME BoundsAssumption == MaxCommands \in Nat /\ MaxFaults \in Nat

VARIABLES
  specify,  \* gPoolSpecifyConf
  known,    \* the cells in the table
  online,   \* bCellOnline
  node,     \* CellPoolConf
  row,      \* the rows: which packer wrote the pools, and the pools
  owed,     \* the cells with eCellMySql = E_QUERY_TYPE_INSERT
  has,      \* what the cell was told last and received
  monitor,  \* where ParseSetPoolCommand and PackSetPoolMonitorToComm are
  part,     \* the cells listed in ParData
  flag,     \* pMonitorFlag of setpool
  mass,     \* bMassFlag: the command is for all the cells
  marked,   \* the cells with eCellComm = E_COMMAND_TYPE_SETPOOL
  shell,    \* the cell that "comm cell <id> setpool" of the shell waits for
  pack,     \* where JsonPackSetPool is
  n,        \* commands so far
  meant,    \* history: the cells that each command named
  missed,   \* history: the cells that a command for all passed by, not told since
  unread,   \* history: the cells whose row was not read at a start nor written since
  odd       \* history: what went wrong since the first start

vars == <<specify, known, online, node, row, owed, has, monitor, part, flag, mass, marked, shell, pack,
          n, meant, missed, unread, odd>>

None == 0
Default == -1
Conf == [Algos -> Default .. MaxCommands]
Empty == [a \in Algos |-> None]
Defaults == [a \in Algos |-> IF a \in DefaultAlgos THEN Default ELSE None]

Idle == [at |-> "idle"]
NoRow == [by |-> "none", pools |-> Empty]
NoCell == "none"
Fault == {"shell", "first", "late", "lost", "unknown", "query", "restart"}

TypeOK ==
    /\ {specify} \cup {node[c] : c \in Cells} \cup {has[c] : c \in Cells} \subseteq Conf
    /\ known \subseteq Cells
    /\ \A c \in Cells : row[c].by \in {"none", "insert", "update"} /\ row[c].pools \in Conf
    /\ online \subseteq known /\ owed \subseteq known /\ marked \subseteq known
    /\ monitor.at \in {"idle", "clear", "fill", "cells", "wait"}
    /\ part \subseteq Cells /\ flag \in BOOLEAN /\ mass \in BOOLEAN /\ shell \in Cells \cup {NoCell}
    /\ pack.at \in {"idle", "list", "BTC", "LTC", "send"}
    /\ n \in 0 .. MaxCommands /\ missed \subseteq known /\ unread \subseteq Cells /\ odd \subseteq Fault

Init ==
    /\ specify = Empty
    /\ known = {} /\ online = {}
    /\ node = [c \in Cells |-> Empty]
    /\ row = [c \in Cells |-> NoRow]
    /\ owed = {}
    /\ has = [c \in Cells |-> Empty]
    /\ monitor = Idle /\ part = {} /\ flag = FALSE /\ mass = FALSE /\ marked = {}
    /\ shell = NoCell /\ pack = Idle
    /\ n = 0 /\ meant = [k \in 1 .. MaxCommands |-> {}]
    /\ missed = {} /\ unread = {} /\ odd = {}

Goes(fault) ==
    /\ Cardinality(odd \cup {fault}) <= MaxFaults
    /\ odd' = odd \cup {fault}

-----------------------------------------------------------------------------
(* The login of a cell, and the rows of the table *)

Told(c, pools) ==
    \/ has' = [has EXCEPT ![c] = pools] /\ missed' = missed \ {c} /\ UNCHANGED odd
    \/ UNCHANGED <<has, missed>> /\ Goes("lost")

\* PackCellBaseInsert: the pools are set apart by "/".
Inserted(pools) == [by |-> "insert", pools |-> pools]
\* PackCellBaseUpdatePool: by "#". A query that finds no row changes none.
Updated(r, pools) == IF r = NoRow THEN NoRow ELSE [by |-> "update", pools |-> pools]

\* The row replaces one that the last start did not read. It is owed as well
\* when only the answer to the query is lost.
Insert(c, pools) ==
    /\ row' = [row EXCEPT ![c] = Inserted(pools)]
    /\ unread' = unread \ {c}

LoginNew(c) ==
    /\ c \notin known
    /\ known' = known \cup {c} /\ online' = online \cup {c}
    /\ node' = [node EXCEPT ![c] = Defaults]
    /\ \/ Insert(c, Defaults) /\ owed' \in {owed, owed \cup {c}}
       \/ owed' = owed \cup {c} /\ UNCHANGED <<row, unread>>
    /\ Told(c, Defaults)
    /\ UNCHANGED <<specify, monitor, part, flag, mass, marked, shell, pack, n, meant>>

\* PackJsonCellRepeat. When its data changed the node is marked for an update,
\* even one whose row is still to be inserted.
LoginAgain(c) ==
    /\ c \in known
    /\ pack.at \in {"BTC", "LTC"} => pack.cell # c
    /\ Told(c, node[c])
    /\ owed' \in {owed, owed \ {c}}
    /\ UNCHANGED <<specify, known, online, node, row, monitor, part, flag, mass, marked, shell,
                   pack, n, meant, unread>>

\* AlarmCell: silent for three minutes, or heard of since.
AlarmCell(c) ==
    /\ c \in known
    /\ online' = IF c \in online THEN online \ {c} ELSE online \cup {c}
    /\ UNCHANGED <<specify, known, node, row, owed, has, monitor, part, flag, mass, marked, shell,
                   pack, n, meant, missed, unread, odd>>

\* CellDbOp; its other query (PackCellBaseUpdate) leaves the pools alone.
CellDbOp(c) ==
    /\ c \in owed
    /\ Insert(c, node[c])
    /\ owed' \in {owed, owed \ {c}}
    /\ UNCHANGED <<specify, known, online, node, has, monitor, part, flag, mass, marked, shell,
                   pack, n, meant, missed, odd>>

\* ParseToPoolBuf: the text is set apart by "#", and the first list must be BTC.
Loaded(r) == IF r.by = "update" /\ r.pools["BTC"] # None THEN r.pools ELSE Empty

\* InitDbAndDev: with the database server down no row is read, now or later.
Load(up) ==
    /\ known' = IF up THEN {c \in Cells : row[c] # NoRow} ELSE {}
    /\ node' = [c \in Cells |-> IF up THEN Loaded(row[c]) ELSE Empty]
    /\ unread' = IF up THEN {} ELSE {c \in Cells : row[c] # NoRow}
    /\ online' \in SUBSET known'

Restart ==
    /\ \E up \in BOOLEAN : Load(up)
    /\ specify' = Empty
    /\ owed' = {}
    /\ monitor' = Idle /\ part' = {} /\ flag' = FALSE /\ mass' = FALSE /\ marked' = {}
    /\ shell' = NoCell /\ pack' = Idle
    /\ missed' = {}
    /\ Goes("restart")
    /\ UNCHANGED <<row, has, n, meant>>

-----------------------------------------------------------------------------
(* cell.setpool: ParseSetPoolCommand, then PackSetPoolMonitorToComm *)

\* The first pool of the list is broken: it gives no "pool_id," to the text of
\* the others. With two of them left no pool is looked at, with one it is refused.
SetBegin ==
    /\ monitor = Idle /\ n < MaxCommands
    /\ n' = n + 1
    /\ part' = {}
    /\ \E whole \in BOOLEAN, algos \in (SUBSET Algos) \ {{}}, cells \in SUBSET Cells :
          /\ meant' = [meant EXCEPT ![n + 1] = IF cells = {} THEN Cells ELSE cells]
          /\ monitor' = [at |-> IF whole THEN "clear" ELSE "cells",
                         algos |-> algos, mass |-> cells = {}, all |-> cells = {}, todo |-> cells,
                         to |-> {}, failed |-> FALSE]
          /\ IF whole THEN UNCHANGED odd ELSE Goes("first")
    /\ UNCHANGED <<specify, known, online, node, row, owed, has, flag, mass, marked, shell, pack,
                   missed, unread>>

\* Mutant: the buffer is not cleared.
SpecifyKeep ==
    /\ monitor.at = "clear"
    /\ monitor' = [monitor EXCEPT !.at = "fill"]
    /\ UNCHANGED <<specify, known, online, node, row, owed, has, part, flag, mass, marked, shell,
                   pack, n, meant, missed, unread, odd>>

SpecifyClear ==
    /\ monitor.at = "clear"
    /\ specify' = Empty
    /\ monitor' = [monitor EXCEPT !.at = "fill"]
    /\ UNCHANGED <<known, online, node, row, owed, has, part, flag, mass, marked, shell, pack, n,
                   meant, missed, unread, odd>>

SpecifyFill ==
    /\ monitor.at = "fill"
    /\ \E a \in monitor.algos :
          /\ specify' = [specify EXCEPT ![a] = n]
          /\ monitor' = [monitor EXCEPT !.algos = @ \ {a}, !.at = IF monitor.algos = {a} THEN "cells" ELSE "fill"]
    /\ UNCHANGED <<known, online, node, row, owed, has, part, flag, mass, marked, shell, pack, n,
                   meant, missed, unread, odd>>

\* More than three pools of an algorithm: everything is refused.
SpecifyTooMany ==
    /\ monitor.at = "fill"
    /\ specify' = Empty
    /\ monitor' = Idle
    /\ UNCHANGED <<known, online, node, row, owed, has, part, flag, mass, marked, shell, pack, n,
                   meant, missed, unread, odd>>

NoCells ==
    /\ monitor.at = "cells" /\ known = {}
    /\ monitor' = Idle
    /\ UNCHANGED <<specify, known, online, node, row, owed, has, part, flag, mass, marked, shell,
                   pack, n, meant, missed, unread, odd>>

\* "cell_id,all", under MonitorRemLock
AllCells ==
    /\ monitor.at = "cells" /\ known # {} /\ monitor.all
    /\ monitor' = [monitor EXCEPT !.all = FALSE, !.todo = known]
    /\ UNCHANGED <<specify, known, online, node, row, owed, has, part, flag, mass, marked, shell,
                   pack, n, meant, missed, unread, odd>>

\* Mutant: the row is written before the node.
SetCellRowFirst(c) ==
    /\ monitor.at = "cells" /\ ~monitor.all /\ c \in monitor.todo \cap known
    /\ pack.at \in {"BTC", "LTC"} => pack.cell # c
    /\ node' = [node EXCEPT ![c] = specify]
    /\ \/ row' = [row EXCEPT ![c] = Updated(@, node[c])] /\ unread' = unread \ {c} /\ UNCHANGED odd
       \/ UNCHANGED <<row, unread>> /\ Goes("query")
    /\ monitor' = [monitor EXCEPT !.todo = @ \ {c}, !.to = @ \cup {c}]
    /\ UNCHANGED <<specify, known, online, owed, has, part, flag, mass, marked, shell, pack, n,
                   meant, missed>>

\* SetSpecifyPoolToCell: the result of the query is not looked at.
SetCell(c) ==
    /\ monitor.at = "cells" /\ ~monitor.all /\ c \in monitor.todo \cap known
    /\ pack.at \in {"BTC", "LTC"} => pack.cell # c
    /\ node' = [node EXCEPT ![c] = specify]
    /\ \/ row' = [row EXCEPT ![c] = Updated(@, specify)] /\ unread' = unread \ {c} /\ UNCHANGED odd
       \/ UNCHANGED <<row, unread>> /\ Goes("query")
    /\ monitor' = [monitor EXCEPT !.todo = @ \ {c}, !.to = @ \cup {c}]
    /\ UNCHANGED <<specify, known, online, owed, has, part, flag, mass, marked, shell, pack, n,
                   meant, missed>>

SetUnknown(c) ==
    /\ monitor.at = "cells" /\ known # {} /\ c \in monitor.todo \ known
    /\ monitor' = [monitor EXCEPT !.todo = @ \ {c}, !.failed = TRUE]
    /\ Goes("unknown")
    /\ UNCHANGED <<specify, known, online, node, row, owed, has, part, flag, mass, marked, shell,
                   pack, n, meant, missed, unread>>

CellsDone == monitor.at = "cells" /\ ~monitor.all /\ monitor.todo = {}

\* "comm cell all setpool" marks the cells that are online.
Mark ==
    /\ mass' = monitor.mass
    /\ part' = IF monitor.mass THEN {} ELSE monitor.to
    /\ marked' = IF monitor.mass THEN marked \cup online ELSE marked
    /\ missed' = IF monitor.mass THEN missed \cup (monitor.to \ online) ELSE missed
    /\ monitor' = [at |-> "wait"]

\* Mutant: the command is not flagged.
SetSendUnflagged ==
    /\ CellsDone /\ ~monitor.failed
    /\ Mark
    /\ UNCHANGED <<specify, known, online, node, row, owed, has, flag, shell, pack, n, meant,
                   unread, odd>>

\* SetSpecifyPool, only with every cell found
SetSend ==
    /\ CellsDone /\ ~monitor.failed
    /\ Mark
    /\ flag' = TRUE
    /\ UNCHANGED <<specify, known, online, node, row, owed, has, shell, pack, n, meant, unread, odd>>

SetFailed ==
    /\ CellsDone /\ monitor.failed
    /\ monitor' = Idle
    /\ UNCHANGED <<specify, known, online, node, row, owed, has, part, flag, mass, marked, shell,
                   pack, n, meant, missed, unread, odd>>

WaitOver ==
    /\ monitor.at = "wait"
    /\ monitor' = Idle
    /\ mass' = FALSE
    /\ IF flag \/ pack # Idle THEN Goes("late") ELSE UNCHANGED odd
    /\ UNCHANGED <<specify, known, online, node, row, owed, has, part, flag, marked, shell, pack,
                   n, meant, missed, unread>>

-----------------------------------------------------------------------------
(* CommandPackProcess sends it: JsonPackSetPool for each cell *)

ShellSetpool(c) ==
    /\ monitor = Idle /\ shell = NoCell /\ c \in known
    /\ shell' = c
    /\ Goes("shell")
    /\ UNCHANGED <<specify, known, online, node, row, owed, has, monitor, part, flag, mass, marked,
                   pack, n, meant, missed, unread>>

PackShell ==
    /\ pack = Idle /\ shell # NoCell
    /\ pack' = [at |-> "BTC", all |-> FALSE, cell |-> shell, done |-> Cells, msg |-> Empty]
    /\ shell' = NoCell
    /\ UNCHANGED <<specify, known, online, node, row, owed, has, monitor, part, flag, mass, marked,
                   n, meant, missed, unread, odd>>

PackMonitor ==
    /\ pack = Idle /\ flag
    /\ flag' = FALSE
    /\ pack' = [at |-> "list", all |-> mass, done |-> {}]
    /\ UNCHANGED <<specify, known, online, node, row, owed, has, monitor, part, mass, marked,
                   shell, n, meant, missed, unread, odd>>

\* SendCellSingle, or SendCellAll of a cell that is marked and online
PackCell(c) ==
    /\ pack.at = "list" /\ c \in known \ pack.done
    /\ c \in IF pack.all THEN marked \cap online ELSE part
    /\ pack' = [at |-> "BTC", all |-> pack.all, cell |-> c, done |-> pack.done \cup {c}, msg |-> Empty]
    /\ UNCHANGED <<specify, known, online, node, row, owed, has, monitor, part, flag, mass, marked,
                   shell, n, meant, missed, unread, odd>>

\* SendCellAll passes the other cells by.
PackSkip(c) ==
    /\ pack.at = "list" /\ pack.all /\ c \in known \ pack.done
    /\ c \notin marked \cap online
    /\ pack' = [pack EXCEPT !.done = @ \cup {c}]
    /\ missed' = missed \cup ({c} \cap marked)
    /\ UNCHANGED <<specify, known, online, node, row, owed, has, monitor, part, flag, mass, marked,
                   shell, n, meant, unread, odd>>

PackEnd ==
    /\ pack.at = "list" /\ (IF pack.all THEN known ELSE part \cap known) \subseteq pack.done
    /\ pack' = Idle
    /\ UNCHANGED <<specify, known, online, node, row, owed, has, monitor, part, flag, mass, marked,
                   shell, n, meant, missed, unread, odd>>

\* ParseRecvShellMonitorCommand takes no lock: the answer that clears the mark
\* may be one to an earlier command, and the cell is yet to be sent this one.
ReplyClear(c) ==
    /\ c \in marked
    /\ marked' = marked \ {c}
    /\ missed' = IF flag \/ (pack # Idle /\ c \notin pack.done) THEN missed \cup {c} ELSE missed
    /\ UNCHANGED <<specify, known, online, node, row, owed, has, monitor, part, flag, mass, shell,
                   pack, n, meant, unread, odd>>

\* Under PoolConfLock of the cell; gPoolSpecifyConf has no lock.
JsonPackCopy ==
    /\ pack.at \in Algos
    /\ node' = [node EXCEPT ![pack.cell][pack.at] = specify[pack.at]]
    /\ pack' = [pack EXCEPT !.msg[pack.at] = specify[pack.at],
                            !.at = IF @ = "BTC" THEN "LTC" ELSE "send"]
    /\ UNCHANGED <<specify, known, online, row, owed, has, monitor, part, flag, mass, marked,
                   shell, n, meant, missed, unread, odd>>

JsonPackSend ==
    /\ pack.at = "send"
    /\ Told(pack.cell, pack.msg)
    /\ pack' = IF pack.done = Cells THEN Idle ELSE [at |-> "list", all |-> pack.all, done |-> pack.done]
    /\ UNCHANGED <<specify, known, online, node, row, owed, monitor, part, flag, mass, marked,
                   shell, n, meant, unread>>

-----------------------------------------------------------------------------
Cell == \E c \in Cells : LoginNew(c) \/ LoginAgain(c) \/ AlarmCell(c) \/ ReplyClear(c)

Setpool ==
    \/ SetBegin \/ SpecifyClear \/ SpecifyFill \/ SpecifyTooMany
    \/ NoCells \/ AllCells \/ SetSend \/ SetFailed \/ WaitOver
    \/ \E c \in Cells : SetCell(c) \/ SetUnknown(c)

Pack ==
    \/ PackShell \/ PackMonitor \/ PackEnd \/ JsonPackCopy \/ JsonPackSend
    \/ \E c \in Cells : PackCell(c) \/ PackSkip(c)

Next ==
    \/ Cell \/ Setpool \/ Pack \/ Restart
    \/ \E c \in Cells : CellDbOp(c) \/ ShellSetpool(c)

Spec == Init /\ [][Next]_vars

-----------------------------------------------------------------------------
Without(faults) == odd \cap faults = {}

\* The pools of a cell were meant for it: a command named the cell. Copying the
\* buffer a second time when the command is sent does no harm, unless the
\* wait for the cell ended first, the shell sent the buffer, or the buffer was
\* one of an earlier command.
PoolsAreMeant ==
    Without({"shell", "late", "first"}) =>
        \A c \in known, a \in Algos : node[c][a] > None => c \in meant[node[c][a]]

\* The lists of pools are well formed: the types, and each meant for its cell.
PoolsWellFormed == TypeOK /\ PoolsAreMeant

Quiet == monitor = Idle /\ ~flag /\ pack = Idle

\* With no datagram lost and no command that went only part of the way, the
\* cells work for the pools that their nodes hold, those apart that a command
\* for all passed by, being offline or unmarked by a late answer, until they
\* are told again.
CellsHaveNodePools ==
    (Without({"shell", "late", "lost", "unknown", "restart"}) /\ Quiet) =>
        \A c \in known \ missed : has[c] = node[c]

\* A row that the pools were written to with an update gives them back at the
\* next start, unless they are LTC pools alone, or the row is one that the last
\* start could not read and no query has written to since.
UpdatedRowsAreLoaded ==
    (Without({"shell", "late", "query"}) /\ monitor = Idle) =>
        \A c \in known \ unread :
            (row[c].by = "update" /\ node[c]["BTC"] # None) => Loaded(row[c]) = node[c]

\* Refuted. A cell's pools are stored as "algo/pool_id&url&worker&pass/..."
\* (db_mysql.c:403), to be had again at the next start.
PoolsAreLoaded ==
    (odd = {} /\ Quiet) =>
        \A c \in known : row[c] # NoRow => Loaded(row[c]) = node[c]

\* Refuted. "When the pool information of the node is changed, the node's
\* information is packed and sent" (api_monitor.c:445): a command that is over
\* has sent its pools to the cells whose nodes hold them.
ChangedAreSent ==
    (odd \subseteq {"unknown"} /\ Quiet) =>
        \A c \in known \ missed : has[c] = node[c]

\* Refuted. "if list is empty then mean all cell_ids" (api_monitor.c:4458): a
\* command for all is for the cells that are offline as well.
AllCellsAreTold ==
    (odd = {} /\ Quiet) => \A c \in known : has[c] = node[c]

\* Refuted. What the start could not read would be there to be had again.
UnreadRowsAreLoaded ==
    (odd \subseteq {"restart"} /\ Quiet) =>
        \A c \in known :
            (row[c].by = "update" /\ node[c]["BTC"] # None) => Loaded(row[c]) = node[c]

\* Refuted. The pools are set for "the cell that is specified"
\* (api_monitor.c:2041), and only the pools of its own command.
OnlySpecifiedCells ==
    odd \subseteq {"first"} =>
        \A c \in known, a \in Algos : node[c][a] > None => c \in meant[node[c][a]]
=============================================================================
