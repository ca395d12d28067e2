--------------------------- MODULE ServerRequests ---------------------------
(***************************************************************************)
(* A request of the dataserver: ClientDataIn of api_monitor.c reads one    *)
(* message, ParseRecv turns it into a command for a list of cells or for   *)
(* "all", the ids are looked up one at a time (PackMonitorToComm,          *)
(* ParseMonitorCommand), the command is flagged for CommandPackProcess     *)
(* when the last one was, and the cells that have not answered when the    *)
(* wait is over are named in the answer (PackReplay). Cells log in, come   *)
(* and go, answer and are deleted meanwhile; the numbers of the commands   *)
(* and the shell are in module Commands, cell.setpool in CellPools. All    *)
(* requests carry the same command, reboot or setled.                      *)
(***************************************************************************)
EXTENDS Naturals, Sequences, FiniteSets

CONSTANTS Cells,        \* the cells there are
          Unknown,      \* ids that no cell has
          LongIds,      \* those of them too long for iPartIdBuf
          All,          \* the destination "all"
          Requests,     \* what the dataserver may send
          MaxRequests   \* bound: the requests of a run

Ids == Cells \cup Unknown

\* broken   no JSON, no such method, no "param", a name or a value that is not known
\* refused  an error of the dataserver;  search  cell.search, cell.setdefaultpool
\* none     "param" without the list of ids;  all  an empty one
Forms == {"broken", "refused", "search", "none", "all", "list"}

ASSUME CellsAssumption == IsFiniteSet(Cells)
ASSUME RequestsAssumption == Requests \subseteq [form : Forms, ids : Seq(Ids)]
ASSUME IdsAssumption == Cells \cap Unknown = {} /\ LongIds \subseteq Unknown /\ All \notin Ids

VARIABLES
  table, online,   \* the cells of the list, bCellOnline
  comm,            \* cells whose eCellComm is the command
  owes,            \* uSeqId: the head of the command whose answer is accepted
  half,            \* the cell whose answer was accepted and is not counted yet
  req,             \* the message
  at, k,           \* where MonitorProcess is, and the id it looks up
  partLen, list,   \* ParData: iPartLen, iPartIdBuf
  notexist,        \* szIdbufRtn
  raised,          \* bServerCommFlag
  mass, flag,      \* bMassFlag, pMonitorFlag
  lock,            \* CommMonitorFlagLock
  total, off, pos, \* PackMonitorToComm: cells, those offline, the one looked at
  verdict, dest,   \* eSetMass, szParseDest
  walked,          \* of "all": the cells looked at
  rtn,             \* of the last CommPackFunc
  out,             \* the answers to the message
  served,          \* messages so far
  counted,         \* history: the cells of total
  skipped,         \* history: an id was neither kept nor counted off
  steady,          \* history: marked with no answer due, online and silent since
  late             \* history: marked while an older answer was half handled

cells == <<table, online, comm, owes, half>>
parts == <<partLen, list, notexist, raised>>
flags == <<mass, flag, lock>>
wait == <<total, off, pos, verdict, dest, walked, counted>>
marks == <<steady, late>>
message == <<req, out, served>>
vars == <<cells, parts, flags, wait, message, at, k, rtn, skipped, marks>>

Empty == [word |-> "none", cells |-> {}]
OK == [result |-> TRUE, notexist |-> {}, offline |-> {}, interrupted |-> FALSE]
Refusal == [OK EXCEPT !.result = FALSE]

Init ==
    /\ table \in SUBSET Cells /\ online = table
    /\ comm = {} /\ owes = [c \in Cells |-> "none"] /\ half = {}
    /\ req = [form |-> "broken", ids |-> <<>>] /\ out = <<>> /\ served = 0
    /\ at = "idle" /\ k = 1 /\ rtn = "ok"
    /\ partLen = 0 /\ list = <<>> /\ notexist = {} /\ raised = FALSE
    /\ mass = FALSE /\ flag = FALSE /\ lock = "free"
    /\ total = 0 /\ off = 0 /\ pos = 1 /\ verdict = "succ" /\ dest = Empty
    /\ walked = {} /\ counted = {}
    /\ skipped = FALSE /\ steady = {} /\ late = {}

-----------------------------------------------------------------------------
(* The message *)

Targets == IF req.form = "all" THEN <<All>> ELSE req.ids

\* PackReplay, PackError
Replay == [result |-> notexist = {}, notexist |-> notexist,
           offline |-> IF dest.word = "offline" THEN dest.cells ELSE {},
           interrupted |-> dest.word = "AllInterruption"]

\* What is answered at once. A message without the list of ids leaves iSize
\* as it was, -1: no command, and PackReplay finds no error.
Answered(form) == CASE form = "broken" -> <<Refusal>>
                    [] form = "refused" -> <<>>
                    [] OTHER -> <<OK>>

Commands == {"all", "list"}

\* The buffers are cleared; PackConfirm answers a command before it is begun.
ClientDataIn(r) ==
    /\ at = "idle" /\ served < MaxRequests
    /\ req' = r /\ served' = served + 1 /\ out' = Answered(r.form)
    /\ partLen' = Len(Targets') /\ list' = <<>> /\ notexist' = {}
    /\ dest' = Empty /\ skipped' = FALSE /\ steady' = {} /\ late' = {} /\ k' = 1 /\ rtn' = "ok"
    /\ raised' = (raised \/ r.form \in Commands)
    /\ at' = IF r.form \notin Commands THEN "idle" ELSE IF partLen' = 0 THEN "reply" ELSE "lookup"
    /\ UNCHANGED <<cells, flags, total, off, pos, verdict, walked, counted>>

-----------------------------------------------------------------------------
(* The ids, one at a time *)

NextId ==
    /\ k' = k + 1
    /\ at' = IF k < Len(Targets) THEN "lookup" ELSE "reply"

\* bServerCommFlag, and the last id of the list: the command is flagged, under
\* a lock that CommandMonitor may have left locked.
Kept ==
    IF raised /\ partLen' = Len(list')
    THEN /\ IF lock = "free"
            THEN flag' = TRUE /\ raised' = FALSE /\ at' = "wait"
            ELSE at' = "stuck" /\ UNCHANGED <<flag, raised>>
         /\ rtn' = "ok" /\ UNCHANGED k
    ELSE rtn' = "ok" /\ NextId /\ UNCHANGED <<flag, raised>>

Mark(C) ==
    /\ comm' = comm \cup C
    /\ steady' = steady \cup {c \in C : owes[c] = "none"}
    /\ late' = late \cup (C \cap half)

LookupEmpty ==
    /\ at = "lookup" /\ table = {}
    /\ rtn' = "empty" /\ skipped' = TRUE
    /\ NextId
    /\ UNCHANGED <<cells, parts, flags, wait, message, marks>>

LookupAll ==
    /\ at = "lookup" /\ table # {} /\ Targets[k] = All
    /\ mass' = TRUE
    /\ Mark(online)
    /\ list' = Append(list, All) /\ partLen' = partLen
    /\ Kept
    /\ UNCHANGED <<table, online, owes, half, notexist, lock, wait, message, skipped>>

LookupKnown ==
    /\ at = "lookup" /\ Targets[k] \in table
    /\ Mark({Targets[k]} \cap online)
    /\ list' = Append(list, Targets[k]) /\ partLen' = partLen
    /\ Kept
    /\ UNCHANGED <<table, online, owes, half, notexist, mass, lock, wait, message, skipped>>

\* Mutant: the id stays counted.
LookupUnknownCounted ==
    /\ at = "lookup" /\ table # {} /\ Targets[k] \notin table \cup LongIds \cup {All}
    /\ notexist' = notexist \cup {Targets[k]}
    /\ partLen' = partLen
    /\ list' = list
    /\ Kept
    /\ UNCHANGED <<cells, mass, lock, wait, message, skipped, marks>>

LookupUnknown ==
    /\ at = "lookup" /\ table # {} /\ Targets[k] \notin table \cup LongIds \cup {All}
    /\ notexist' = notexist \cup {Targets[k]}
    /\ partLen' = partLen - 1
    /\ list' = list
    /\ Kept
    /\ UNCHANGED <<cells, mass, lock, wait, message, skipped, marks>>

\* An id that is too long is not counted off, and E_COMMAND_ERROR_ID makes
\* PackMonitorToComm wait for a command that was not flagged.
LookupLong ==
    /\ at = "lookup" /\ table # {} /\ Targets[k] \in LongIds
    /\ notexist' = notexist \cup {Targets[k]}
    /\ skipped' = TRUE
    /\ rtn' = "ok" /\ at' = "wait"
    /\ UNCHANGED <<cells, partLen, list, raised, flags, wait, message, k, marks>>

Lookup == LookupEmpty \/ LookupAll \/ LookupKnown \/ LookupUnknown \/ LookupLong
-----------------------------------------------------------------------------
(* CommandPackProcess *)

\* SendCellAll: the marked cells that are online, if there is one.
CommandMonitorAll ==
    /\ flag /\ mass /\ at # "idle" /\ lock = "free"
    /\ LET C == online \cap comm
       IN  /\ owes' = [c \in Cells |-> IF c \in C THEN "initall" ELSE owes[c]]
           /\ lock' = IF C = {} THEN "leaked" ELSE "free"
    /\ flag' = FALSE
    /\ UNCHANGED <<table, online, comm, half, parts, mass, wait, message, at, k, rtn, skipped, marks>>

\* SendCellSingle for each id of ParData, to the first that is no longer in the
\* list or that the datagram cannot be sent to: the lock stays locked then.
CommandMonitorList ==
    /\ flag /\ ~mass /\ at # "idle" /\ lock = "free"
    /\ \E n \in 0 .. Len(list) :
         /\ \A m \in 1 .. n : list[m] \in table
         /\ lock' = IF n = Len(list) THEN "free" ELSE "leaked"
         /\ owes' = [c \in Cells |-> IF c \in table /\ \E m \in 1 .. Len(list) : m <= n + 1 /\ list[m] = c
                                     THEN "user" ELSE owes[c]]
    /\ flag' = FALSE
    /\ UNCHANGED <<table, online, comm, half, parts, mass, wait, message, at, k, rtn, skipped, marks>>

\* ParseRecvShellMonitorCommand (gCommandType names the monitor until the request
\* is answered), ParseRecvCellSetCommand: the number is that of uSeqId, which is
\* reset. Neither keeps the cell from being marked before it goes on: the first
\* locks nothing and unlocks CommRemLock, which the second may hold.
Answer(c) ==
    /\ c \in table /\ half = {}
    /\ owes[c] = "initall" \/ (owes[c] = "user" /\ at # "idle")
    /\ owes' = [owes EXCEPT ![c] = "none"]
    /\ half' = {c} /\ steady' = steady \ {c}
    /\ UNCHANGED <<table, online, comm, parts, flags, wait, message, at, k, rtn, skipped, late>>

\* The same handler, some lines further on: eCellComm, whatever it is by now
AnswerClear ==
    /\ half # {}
    /\ comm' = comm \ half /\ half' = {}
    /\ UNCHANGED <<table, online, owes, parts, flags, wait, message, at, k, rtn, skipped, marks>>

-----------------------------------------------------------------------------
(* The wait, and who did not answer *)

\* ioffLineCount, j and eSetMass are PackMonitorToComm's own.
Fresh == off' = 0 /\ pos' = 1 /\ verdict' = "succ"

\* Mutant: the wait goes on until every cell has answered.
WaitOverAnswered ==
    /\ at = "wait" /\ ~flag /\ \A c \in Cells : owes[c] = "none"
    /\ total' = IF mass THEN Cardinality(table) ELSE Len(list)
    /\ at' = IF mass THEN "count" ELSE "collect"
    /\ mass' = FALSE
    /\ Fresh
    /\ walked' = {} /\ counted' = IF mass THEN table ELSE {}
    /\ UNCHANGED <<cells, parts, flag, lock, dest, message, k, rtn, skipped, marks>>

\* SetDelay. It may be over before the command was sent: no answers are as
\* many as no requests.
WaitOver ==
    /\ at = "wait"
    /\ total' = IF mass THEN Cardinality(table) ELSE Len(list)
    /\ at' = IF mass THEN "count" ELSE "collect"
    /\ mass' = FALSE
    /\ Fresh
    /\ walked' = {} /\ counted' = IF mass THEN table ELSE {}
    /\ UNCHANGED <<cells, parts, flag, lock, dest, message, k, rtn, skipped, marks>>

\* "all": the list of cells is walked under MonitorRemLock, and the cells that are
\* offline are counted against the length it had before. One that failed is named;
\* its eCellComm stays.
WalkFailed(c) ==
    /\ c \in online \cap comm
    /\ owes' = [owes EXCEPT ![c] = "none"]
    /\ verdict' = IF verdict = "succ" THEN "fail" ELSE verdict
    /\ dest' = IF verdict = "succ" THEN [word |-> "offline", cells |-> {c}]
               ELSE [dest EXCEPT !.cells = @ \cup {c}]
    /\ UNCHANGED off

WalkOffline(c) ==
    /\ c \in table \ online /\ off + 1 # total
    /\ off' = off + 1
    /\ UNCHANGED <<owes, verdict, dest>>

\* As many as there were: szRetBuf[2] is written where the buffer is at. It is the
\* first word there, or runs into the name of a cell.
WalkInterrupted(c) ==
    /\ c \in table \ online /\ off + 1 = total
    /\ off' = total
    /\ verdict' = "inter"
    /\ \/ verdict = "succ" /\ dest' = [word |-> "AllInterruption", cells |-> {}]
       \/ verdict # "succ" /\ \E n \in dest.cells : dest' = [dest EXCEPT !.cells = @ \ {n}]
    /\ UNCHANGED owes

WalkOther(c) ==
    /\ c \in online \ comm
    /\ UNCHANGED <<owes, off, verdict, dest>>

WalkOne(c) ==
    /\ at = "count" /\ c \in table \ walked
    /\ WalkFailed(c) \/ WalkOffline(c) \/ WalkInterrupted(c) \/ WalkOther(c)
    /\ walked' = walked \cup {c}
    /\ UNCHANGED <<table, online, comm, half, parts, flags, total, pos, counted, message, at, k, rtn, skipped, marks>>

WalkEnds ==
    /\ at = "count" /\ table \subseteq walked
    /\ dest' = IF verdict = "succ" THEN [word |-> "Success", cells |-> {}] ELSE dest
    /\ Fresh /\ total' = 0
    /\ NextId
    /\ UNCHANGED <<cells, parts, flags, walked, counted, message, rtn, skipped, marks>>

CollectAll == WalkEnds \/ \E c \in Cells : WalkOne(c)

\* Mutant: a cell that failed is taken off the list of those that did.
CollectFailedLast(c) ==
    /\ c \in online \cap comm
    /\ comm' = comm \ {c} /\ owes' = [owes EXCEPT ![c] = "none"]
    /\ verdict' = "fail"
    /\ dest' = [word |-> "offline", cells |-> {c}]
    /\ UNCHANGED off

\* Online, with the command in eCellComm: the cell failed.
CollectFailed(c) ==
    /\ c \in online \cap comm
    /\ comm' = comm \ {c} /\ owes' = [owes EXCEPT ![c] = "none"]
    /\ verdict' = "fail"
    /\ dest' = [word |-> "offline", cells |-> {c} \cup (IF verdict = "succ" THEN {} ELSE dest.cells)]
    /\ UNCHANGED off

\* Offline: only told if all of the list are.
CollectOffline(c) ==
    /\ c \in table \ online
    /\ off' = off + 1
    /\ verdict' = IF off + 1 = total /\ verdict = "succ" THEN "inter" ELSE verdict
    /\ dest' = IF verdict # "succ" THEN dest
               ELSE [word |-> IF verdict' = "inter" THEN "AllInterruption" ELSE "Success", cells |-> {}]
    /\ UNCHANGED <<comm, owes>>

\* Answered, or deleted, or never marked
CollectOther(c) ==
    /\ c \notin online \cap comm /\ c \notin table \ online
    /\ dest' = IF verdict = "succ" THEN [word |-> "Success", cells |-> {}] ELSE dest
    /\ UNCHANGED <<comm, owes, off, verdict>>

CollectOne ==
    /\ at = "collect" /\ pos <= Len(list)
    /\ CollectFailed(list[pos]) \/ CollectOffline(list[pos]) \/ CollectOther(list[pos])
    /\ pos' = pos + 1
    /\ UNCHANGED <<table, online, half, parts, flags, total, walked, counted, message, at, k, rtn, skipped, marks>>

Collected ==
    /\ at = "collect" /\ pos > Len(list)
    /\ Fresh /\ total' = 0
    /\ NextId
    /\ UNCHANGED <<cells, parts, flags, dest, walked, counted, message, rtn, skipped, marks>>

Reply ==
    /\ at = "reply"
    /\ out' = Append(out, IF rtn = "ok" THEN Replay ELSE Refusal)
    /\ at' = "idle"
    /\ walked' = {} /\ counted' = {} /\ steady' = {} /\ late' = {}
    /\ k' = 1 /\ rtn' = "ok"
    /\ UNCHANGED <<cells, parts, flags, total, off, pos, verdict, dest, req, served, skipped>>

-----------------------------------------------------------------------------
(* The cells *)

Login(c) ==
    /\ c \notin table
    /\ table' = table \cup {c} /\ online' = online \cup {c}
    /\ UNCHANGED <<comm, owes, half, parts, flags, wait, message, at, k, rtn, skipped, marks>>

ComesOnline(c) ==
    /\ c \in table \ online
    /\ online' = online \cup {c}
    /\ UNCHANGED <<table, comm, owes, half, parts, flags, wait, message, at, k, rtn, skipped, marks>>

GoesOffline(c) ==
    /\ c \in online
    /\ online' = online \ {c} /\ steady' = steady \ {c}
    /\ UNCHANGED <<table, comm, owes, half, parts, flags, wait, message, at, k, rtn, skipped, late>>

\* Not during the walk, and under CommRemLock. A handler that goes on with the
\* freed node has no node to clear the mark of.
DelCell(c) ==
    /\ c \in table /\ ~(at = "count" /\ walked # {})
    /\ table' = table \ {c} /\ online' = online \ {c} /\ comm' = comm \ {c} /\ half' = half \ {c}
    /\ owes' = [owes EXCEPT ![c] = "none"] /\ steady' = steady \ {c}
    /\ UNCHANGED <<parts, flags, wait, message, at, k, rtn, skipped, late>>

Works == Lookup \/ WaitOver \/ CollectAll \/ CollectOne \/ Collected \/ Reply
Sends == CommandMonitorAll \/ CommandMonitorList

Next ==
    \/ \E r \in Requests : ClientDataIn(r)
    \/ Works \/ Sends \/ AnswerClear
    \/ \E c \in Cells : Answer(c) \/ Login(c) \/ ComesOnline(c) \/ GoesOffline(c) \/ DelCell(c)

\* The monitor's thread goes on with a request it has begun.
Spec == Init /\ [][Next]_vars /\ WF_vars(Works)

-----------------------------------------------------------------------------
SetOf(s) == {s[n] : n \in DOMAIN s}

TypeOK ==
    /\ online \subseteq table /\ table \subseteq Cells /\ comm \subseteq table
    /\ owes \in [Cells -> {"none", "user", "initall"}]
    /\ req \in [form : Forms, ids : Seq(Ids)]
    /\ at \in {"idle", "lookup", "wait", "count", "collect", "reply", "stuck"}
    /\ at = "lookup" => k \in DOMAIN Targets
    /\ partLen \in Nat /\ SetOf(list) \subseteq Cells \cup {All} /\ notexist \subseteq Ids
    /\ lock \in {"free", "leaked"} /\ {raised, mass, flag, skipped} \subseteq BOOLEAN
    /\ total \in Nat /\ off \in Nat /\ pos \in Nat
    /\ verdict \in {"succ", "inter", "fail"} /\ rtn \in {"ok", "empty"}
    /\ dest.word \in {"none", "Success", "offline", "AllInterruption"} /\ dest.cells \subseteq Cells
    /\ Len(out) <= 2 /\ steady \subseteq online
    /\ half \subseteq table /\ {walked, counted, late} \subseteq SUBSET Cells

\* Whatever the order of known and unknown ids, deletions between the lookups
\* included, a command is flagged once all of them were looked up, each is sent
\* the command or named in the answer, and no other is (ParseMonitorCommand
\* counts both in ParData). A table found empty and an id that is too long
\* break the count.
IdsAccounted ==
    at = "reply" /\ Targets # <<>> /\ ~skipped =>
        ~raised /\ SetOf(list) \cup notexist = SetOf(Targets)

\* A cell that was marked for the request with no older answer due, stayed
\* online and never answered is named in the answer (PackMonitorToComm). So it
\* is not if it was marked while an older answer was half handled, or if a cell
\* that logged in after the count was walked with the others.
SteadyAreNamed ==
    at = "reply" /\ rtn = "ok" /\ ~skipped /\ walked \subseteq counted =>
        steady \ late \subseteq Replay.offline

\* The answer accounts for the request: for each id of it, and for each cell
\* that should have answered.
AnswerAccounts == TypeOK /\ IdsAccounted /\ SteadyAreNamed

\* A request comes to its answer, whether or not the cells answer, unless
\* CommandMonitor has left its lock locked (SetDelay).
RequestsEndUnlessLeaked == at # "idle" ~> at = "idle" \/ lock = "leaked"

\* Refuted. "param":[ ] is a command for all cells (api_monitor.c:3635).
EmptyMeansAll ==
    [][served' = served + 1 /\ req'.form = "none" => at' = "lookup"]_vars

\* Refuted. E_SET_MONITOR_ALL_SUCC is success of all (api_monitor.h:46): when a
\* list was found to have succeeded, no cell of it still owes an answer.
SuccessIsOfAll ==
    [][at = "collect" /\ at' = "reply" /\ dest.word = "Success" =>
         \A n \in DOMAIN list : list[n] \in Cells => owes[list[n]] = "none"]_vars

\* Refuted, the first exception. A cell that never answered the request is named
\* (api_command.c:2898): its answer to an older one clears the mark of this one.
NoLateAnswerCounts ==
    at = "reply" /\ rtn = "ok" /\ ~skipped /\ walked \subseteq counted =>
        steady \subseteq Replay.offline

\* Refuted, the second. The cells are counted before the list is locked for the
\* walk (api_monitor.c:1252): with one more, of two of which the other fails, the
\* answer is that all are interrupted.
NoLoginHidesFailures ==
    at = "reply" /\ rtn = "ok" /\ ~skipped => steady \ late \subseteq Replay.offline

\* Refuted. A request is answered after at most 15 seconds (api_monitor.c:5193).
RequestsEnd == at # "idle" ~> at = "idle"
=============================================================================
