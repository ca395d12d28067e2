--------------------------- MODULE CellPools_proofs ---------------------------
(***************************************************************************)
(* Proofs about CellPools, for any cells, commands and faults: which pools *)
(* a cell's node may hold, when the cell works for them, and when its row  *)
(* gives them back at the next start.                                      *)
(***************************************************************************)
EXTENDS CellPools, TLAPS

Rows == [by : {"none", "insert", "update"}, pools : Conf]

\* A command that is being carried out, its cells being listed in ParData, and
\* one of them being packed.
Working == [at : {"clear", "fill", "cells"}, algos : SUBSET Algos, mass : BOOLEAN, all : BOOLEAN,
            todo : SUBSET Cells, to : SUBSET Cells, failed : BOOLEAN]
Listing == [at : {"list"}, all : BOOLEAN, done : SUBSET Cells]
Packing == [at : {"BTC", "LTC", "send"}, all : BOOLEAN, cell : Cells, done : SUBSET Cells,
            msg : Conf]

\* The cells in the table, and their lists of pools.
ListTypes ==
    /\ specify \in Conf
    /\ known \subseteq Cells /\ online \subseteq known /\ owed \subseteq known
    /\ marked \subseteq known /\ missed \subseteq known /\ unread \subseteq Cells
    /\ node \in [Cells -> Conf] /\ has \in [Cells -> Conf]
    /\ row \in [Cells -> Rows]
    /\ \A c \in Cells \ known : row[c] = NoRow \/ c \in unread

PoolTypes ==
    /\ ListTypes
    /\ monitor \in {Idle, [at |-> "wait"]} \cup Working
    /\ monitor.at \in {"clear", "fill", "cells"} => monitor.to \subseteq known
    /\ part \subseteq Cells /\ flag \in BOOLEAN /\ mass \in BOOLEAN
    /\ shell \in Cells \cup {NoCell}
    /\ pack \in {Idle} \cup Listing \cup Packing
    /\ n \in 0 .. MaxCommands /\ meant \in [1 .. MaxCommands -> SUBSET Cells]
    /\ odd \subseteq Fault

\* No update was written to the row since it was inserted, or the row was not read.
Fresh(c) == row[c].by # "update" \/ c \in unread

\* The cells that the command waited for is sent to.
Target == IF mass THEN marked ELSE part

\* The cell has the pools of the buffer, or it logged in too late to get them.
Set(c) == node[c] = specify \/ Fresh(c)

\* While no command of the shell and no wait that was too short disturbs it, a
\* command is sent between its lookups and the end of its wait, and the nodes of
\* its cells hold the buffer all that time. A command for all may be sent to a
\* cell that it did not look up: then the row of the cell was never updated.
Ordered ==
    /\ shell = NoCell
    /\ monitor.at # "wait" => ~flag /\ pack = Idle /\ ~mass
    /\ flag => pack = Idle
    /\ monitor.at \in {"clear", "fill"} => monitor.to = {} /\ (monitor.mass => monitor.all)
    /\ monitor.at = "cells" =>
          /\ monitor.to \subseteq known /\ \A c \in monitor.to : node[c] = specify
          /\ (monitor.mass /\ ~monitor.all) => \A c \in known : c \in monitor.todo \cup monitor.to \/ Fresh(c)
    /\ monitor.at = "wait" => part \subseteq known /\ \A c \in Target : Set(c)
    /\ pack.at \in {"list", "BTC", "LTC", "send"} => (pack.all <=> mass)
    /\ pack.at \in {"BTC", "LTC", "send"} =>
          /\ pack.cell \in known /\ Set(pack.cell)
          /\ ~pack.all => pack.cell \in part

OrderOK == Without({"shell", "late"}) => Ordered

\* A row that was updated holds the pools of the node, or gave them to it.
RowsOK ==
    Without({"shell", "late", "query"}) =>
        \A c \in known \ unread : row[c].by = "update" => node[c] \in {Loaded(row[c]), row[c].pools}

\* The cells of the command in progress that are yet to be told of its pools.
Untold ==
    {c \in Cells : \/ monitor.at = "cells" /\ c \in monitor.to
                   \/ flag /\ c \in Target
                   \/ pack.at = "list" /\ c \in Target \ pack.done
                   \/ pack.at \in {"BTC", "LTC", "send"} /\ (c = pack.cell \/ c \in Target \ pack.done)}

Telling ==
    /\ monitor.at \in {"clear", "fill", "cells"} => ~monitor.failed
    /\ \A c \in known \ missed : has[c] = node[c] \/ c \in Untold
    /\ pack.at \in {"LTC", "send"} => pack.msg["BTC"] = node[pack.cell]["BTC"]
    /\ pack.at = "send" => pack.msg["LTC"] = node[pack.cell]["LTC"]

ToldOK == Without({"shell", "late", "lost", "unknown", "restart"}) => Telling

\* The pools of a list were given by commands that named the cell.
MeantFor(c, pools) ==
    \A a \in Algos : pools[a] > None => pools[a] <= n /\ c \in meant[pools[a]]

Intended ==
    /\ \A c \in Cells : MeantFor(c, node[c]) /\ MeantFor(c, row[c].pools)
    /\ monitor # Idle => n > 0
    /\ monitor.at \in {"fill", "cells", "wait"} => \A a \in Algos : specify[a] \in {None, n}
    /\ monitor.at \in {"clear", "fill", "cells"} =>
          /\ monitor.todo \cup monitor.to \subseteq meant[n]
          /\ monitor.all \/ monitor.mass => meant[n] = Cells
    /\ monitor.at = "wait" => part \subseteq meant[n] /\ (mass => meant[n] = Cells)

MeantOK == Without({"shell", "late", "first"}) => Intended

CellPoolsInv == PoolTypes /\ OrderOK /\ RowsOK /\ ToldOK /\ MeantOK

-----------------------------------------------------------------------------
(* Lists of pools *)

LEMMA Lists ==
  /\ Empty \in Conf /\ Defaults \in Conf /\ Algos = {"BTC", "LTC"}
  /\ \A a \in Algos : Empty[a] = None /\ ~(Defaults[a] > None)
  /\ NoRow \in Rows /\ NoRow.by = "none" /\ NoRow.pools = Empty
  BY BoundsAssumption DEF Empty, Defaults, Conf, Algos, None, Default, NoRow, Rows

LEMMA RowLists ==
  ASSUME NEW r \in Rows, NEW p \in Conf
  PROVE  /\ Inserted(p) \in Rows /\ Inserted(p).by = "insert" /\ Inserted(p).pools = p
         /\ Updated(r, p) \in Rows /\ (r = NoRow => Updated(r, p) = NoRow)
         /\ Updated(r, p).by = "update" => Updated(r, p).pools = p
         /\ Updated(r, p).pools \in {p, Empty}
         /\ Loaded(r) \in Conf /\ Loaded(r) \in {r.pools, Empty}
  BY Lists DEF Rows, Inserted, Updated, Loaded, NoRow

\* Two lists are one if they agree on each algorithm.
LEMMA SameLists ==
  ASSUME NEW p \in Conf, NEW q \in Conf, p["BTC"] = q["BTC"], p["LTC"] = q["LTC"]
  PROVE  p = q
  BY DEF Conf, Algos

\* Faults are never forgotten.
LEMMA OddGrows ==
  ASSUME PoolTypes, Next
  PROVE  odd \subseteq odd' /\ odd' \subseteq Fault
  BY DEF PoolTypes, Fault, Next, Cell, Setpool, Pack, LoginNew, LoginAgain, AlarmCell, ReplyClear,
         Told, SetBegin, SpecifyClear, SpecifyFill, SpecifyTooMany, NoCells, AllCells, SetSend,
         SetFailed, WaitOver, SetCell, SetUnknown, PackShell, PackMonitor, PackEnd, JsonPackCopy,
         JsonPackSend, PackCell, PackSkip, Restart, CellDbOp, ShellSetpool, Goes

\* The record of a command in progress, and of a cell being packed.
LEMMA WorkingShape ==
  ASSUME PoolTypes, monitor.at \in {"clear", "fill", "cells"}
  PROVE  /\ monitor \in Working
         /\ monitor = [at |-> monitor.at, algos |-> monitor.algos, mass |-> monitor.mass,
                       all |-> monitor.all, todo |-> monitor.todo, to |-> monitor.to, failed |-> monitor.failed]
         /\ monitor.algos \subseteq Algos /\ monitor.all \in BOOLEAN /\ monitor.mass \in BOOLEAN
         /\ monitor.todo \subseteq Cells /\ monitor.to \subseteq Cells /\ monitor.failed \in BOOLEAN
  <1>1. monitor \in Working
    BY DEF PoolTypes, Idle
  <1>2. QED BY <1>1 DEF Working

LEMMA PackingShape ==
  ASSUME PoolTypes, pack.at \in {"BTC", "LTC", "send"}
  PROVE  /\ pack \in Packing
         /\ pack = [at |-> pack.at, all |-> pack.all, cell |-> pack.cell, done |-> pack.done, msg |-> pack.msg]
         /\ pack.all \in BOOLEAN /\ pack.cell \in Cells /\ pack.done \subseteq Cells /\ pack.msg \in Conf
  <1>1. pack \in Packing
    BY DEF PoolTypes, Idle, Listing
  <1>2. QED BY <1>1 DEF Packing

LEMMA ListingShape ==
  ASSUME PoolTypes, pack.at = "list"
  PROVE  pack \in Listing /\ pack = [at |-> "list", all |-> pack.all, done |-> pack.done]
         /\ pack.all \in BOOLEAN /\ pack.done \subseteq Cells
  <1>1. pack \in Listing
    BY DEF PoolTypes, Idle, Packing
  <1>2. QED BY <1>1 DEF Listing

-----------------------------------------------------------------------------
(* What each step makes of the command in progress and of the cell packed *)

LEMMA MonitorSteps ==
  ASSUME PoolTypes
  PROVE  /\ SpecifyClear => /\ monitor'.at = "fill" /\ monitor' \in Working
                            /\ monitor'.all = monitor.all /\ monitor'.todo = monitor.todo
                            /\ monitor'.to = monitor.to /\ monitor'.failed = monitor.failed /\ monitor'.mass = monitor.mass
         /\ SpecifyFill => /\ monitor'.at \in {"fill", "cells"} /\ monitor' \in Working
                           /\ monitor'.all = monitor.all /\ monitor'.todo = monitor.todo
                           /\ monitor'.to = monitor.to /\ monitor'.failed = monitor.failed /\ monitor'.mass = monitor.mass
         /\ AllCells => /\ monitor'.at = "cells" /\ monitor' \in Working /\ ~monitor'.all
                        /\ monitor'.todo = known /\ monitor'.to = monitor.to
                        /\ monitor'.failed = monitor.failed /\ monitor'.mass = monitor.mass
         /\ \A c \in Cells : SetCell(c) =>
                        /\ monitor'.at = "cells" /\ monitor' \in Working /\ ~monitor'.all
                        /\ monitor'.todo = monitor.todo \ {c} /\ monitor'.to = monitor.to \cup {c}
                        /\ monitor'.failed = monitor.failed /\ monitor'.mass = monitor.mass /\ c \in known /\ c \in monitor.todo
         /\ \A c \in Cells : SetUnknown(c) =>
                        /\ monitor'.at = "cells" /\ monitor' \in Working /\ monitor'.all = monitor.all
                        /\ monitor'.todo = monitor.todo \ {c} /\ monitor'.to = monitor.to
                        /\ monitor'.mass = monitor.mass
  <1>1. ASSUME SpecifyClear
        PROVE  /\ monitor'.at = "fill" /\ monitor' \in Working
               /\ monitor'.all = monitor.all /\ monitor'.todo = monitor.todo
               /\ monitor'.to = monitor.to /\ monitor'.failed = monitor.failed /\ monitor'.mass = monitor.mass
    <2>1. monitor' = [monitor EXCEPT !.at = "fill"]
      BY <1>1 DEF SpecifyClear
    <2>2. monitor' = [at |-> "fill", algos |-> monitor.algos, mass |-> monitor.mass,
                      all |-> monitor.all, todo |-> monitor.todo, to |-> monitor.to, failed |-> monitor.failed]
      BY <1>1, <2>1, WorkingShape DEF SpecifyClear
    <2>3. QED BY <1>1, <2>2, WorkingShape DEF SpecifyClear, Working
  <1>2. ASSUME SpecifyFill
        PROVE  /\ monitor'.at \in {"fill", "cells"} /\ monitor' \in Working
               /\ monitor'.all = monitor.all /\ monitor'.todo = monitor.todo
               /\ monitor'.to = monitor.to /\ monitor'.failed = monitor.failed /\ monitor'.mass = monitor.mass
    <2>1. PICK a \in monitor.algos, s \in {"fill", "cells"} :
             monitor' = [monitor EXCEPT !.algos = @ \ {a}, !.at = s]
      BY <1>2 DEF SpecifyFill
    <2>2. monitor' = [at |-> s, algos |-> monitor.algos \ {a}, mass |-> monitor.mass,
                      all |-> monitor.all, todo |-> monitor.todo, to |-> monitor.to, failed |-> monitor.failed]
      BY <1>2, <2>1, WorkingShape DEF SpecifyFill
    <2>3. QED BY <1>2, <2>2, WorkingShape DEF SpecifyFill, Working
  <1>3. ASSUME AllCells
        PROVE  /\ monitor'.at = "cells" /\ monitor' \in Working /\ ~monitor'.all
               /\ monitor'.todo = known /\ monitor'.to = monitor.to
               /\ monitor'.failed = monitor.failed /\ monitor'.mass = monitor.mass
    <2>1. monitor' = [monitor EXCEPT !.all = FALSE, !.todo = known] /\ monitor.at = "cells"
      BY <1>3 DEF AllCells
    <2>2. monitor' = [at |-> "cells", algos |-> monitor.algos, mass |-> monitor.mass,
                      all |-> FALSE, todo |-> known, to |-> monitor.to, failed |-> monitor.failed]
      BY <2>1, WorkingShape
    <2>3. QED BY <2>1, <2>2, WorkingShape DEF Working, PoolTypes, ListTypes
  <1>4. ASSUME NEW c \in Cells, SetCell(c)
        PROVE  /\ monitor'.at = "cells" /\ monitor' \in Working /\ ~monitor'.all
               /\ monitor'.todo = monitor.todo \ {c} /\ monitor'.to = monitor.to \cup {c}
               /\ monitor'.failed = monitor.failed /\ monitor'.mass = monitor.mass /\ c \in known /\ c \in monitor.todo
    <2>1. monitor' = [monitor EXCEPT !.todo = @ \ {c}, !.to = @ \cup {c}] /\ monitor.at = "cells"
          /\ ~monitor.all /\ c \in known /\ c \in monitor.todo
      BY <1>4 DEF SetCell
    <2>2. monitor' = [at |-> "cells", algos |-> monitor.algos, mass |-> monitor.mass,
                      all |-> monitor.all, todo |-> monitor.todo \ {c}, to |-> monitor.to \cup {c}, failed |-> monitor.failed]
      BY <2>1, WorkingShape
    <2>3. QED BY <2>1, <2>2, WorkingShape DEF Working
  <1>5. ASSUME NEW c \in Cells, SetUnknown(c)
        PROVE  /\ monitor'.at = "cells" /\ monitor' \in Working /\ monitor'.all = monitor.all
               /\ monitor'.todo = monitor.todo \ {c} /\ monitor'.to = monitor.to
                        /\ monitor'.mass = monitor.mass
    <2>1. monitor' = [monitor EXCEPT !.todo = @ \ {c}, !.failed = TRUE] /\ monitor.at = "cells"
      BY <1>5 DEF SetUnknown
    <2>2. monitor' = [at |-> "cells", algos |-> monitor.algos, mass |-> monitor.mass,
                      all |-> monitor.all, todo |-> monitor.todo \ {c}, to |-> monitor.to, failed |-> TRUE]
      BY <2>1, WorkingShape
    <2>3. QED BY <2>1, <2>2, WorkingShape DEF Working
  <1>6. QED BY <1>1, <1>2, <1>3, <1>4, <1>5

LEMMA SkipStep ==
  ASSUME PoolTypes, NEW c \in Cells, PackSkip(c)
  PROVE  /\ pack.at = "list" /\ pack' \in Listing /\ pack'.at = "list"
         /\ pack'.all = pack.all /\ pack'.done = pack.done \cup {c}
  <1>1. pack.at = "list" /\ pack' = [pack EXCEPT !.done = @ \cup {c}]
    BY DEF PackSkip
  <1>2. pack' = [at |-> "list", all |-> pack.all, done |-> pack.done \cup {c}]
    BY <1>1, ListingShape
  <1>3. QED BY <1>1, <1>2, ListingShape DEF Listing

LEMMA CopyStep ==
  ASSUME PoolTypes, JsonPackCopy
  PROVE  /\ pack.at \in Algos /\ pack.cell \in Cells
         /\ pack'.at = (IF pack.at = "BTC" THEN "LTC" ELSE "send") /\ pack' \in Packing
         /\ pack'.all = pack.all /\ pack'.cell = pack.cell /\ pack'.done = pack.done
         /\ pack'.msg = [pack.msg EXCEPT ![pack.at] = specify[pack.at]]
         /\ node' = [node EXCEPT ![pack.cell] = [@ EXCEPT ![pack.at] = specify[pack.at]]]
         /\ node' \in [Cells -> Conf]
  <1>1. pack.at \in {"BTC", "LTC"}
    BY DEF JsonPackCopy, Algos
  <1>2. PICK m, s : /\ m = [pack.msg EXCEPT ![pack.at] = specify[pack.at]]
                    /\ s = IF pack.at = "BTC" THEN "LTC" ELSE "send"
    OBVIOUS
  <1>3. m \in Conf /\ s \in {"LTC", "send"}
    BY <1>1, <1>2, PackingShape DEF PoolTypes, ListTypes, Conf
  <1>4. pack' = [at |-> s, all |-> pack.all, cell |-> pack.cell, done |-> pack.done, msg |-> m]
    <2>1. pack' = [pack EXCEPT !.msg[pack.at] = specify[pack.at],
                               !.at = IF @ = "BTC" THEN "LTC" ELSE "send"]
      BY DEF JsonPackCopy
    <2>2. PICK a, b, c, d, g : pack = [at |-> a, all |-> b, cell |-> c, done |-> d, msg |-> g]
      BY <1>1, PackingShape
    <2>3. QED BY <1>2, <2>1, <2>2
  <1>5. node' = [node EXCEPT ![pack.cell][pack.at] = specify[pack.at]]
    BY DEF JsonPackCopy
  <1>6. node' \in [Cells -> Conf]
    BY <1>1, <1>5, PackingShape DEF PoolTypes, ListTypes, Conf
  <1>7. QED BY <1>1, <1>2, <1>3, <1>4, <1>5, <1>6, PackingShape DEF Packing, Algos

\* The record of a command that begins.
LEMMA BeginStep ==
  ASSUME PoolTypes, SetBegin
  PROVE  /\ monitor = Idle /\ n \in Nat /\ n + 1 \in 1 .. MaxCommands /\ n' = n + 1 /\ part' = {}
         /\ monitor' \in Working /\ monitor'.at \in {"clear", "cells"}
         /\ monitor'.to = {} /\ monitor'.todo \subseteq Cells /\ ~monitor'.failed
         /\ \E cells \in SUBSET Cells : /\ meant' = [meant EXCEPT ![n + 1] = IF cells = {} THEN Cells ELSE cells]
                                        /\ monitor'.todo = cells /\ (monitor'.all <=> cells = {})
         /\ (monitor'.mass <=> monitor'.all)
         /\ monitor'.at = "cells" => "first" \in odd'
  <1>1. PICK whole \in BOOLEAN, algos \in (SUBSET Algos) \ {{}}, cells \in SUBSET Cells :
           /\ meant' = [meant EXCEPT ![n + 1] = IF cells = {} THEN Cells ELSE cells]
           /\ monitor' = [at |-> IF whole THEN "clear" ELSE "cells",
                          algos |-> algos, mass |-> cells = {}, all |-> cells = {}, todo |-> cells,
                          to |-> {}, failed |-> FALSE]
           /\ IF whole THEN UNCHANGED odd ELSE Goes("first")
    BY DEF SetBegin
  <1>2. PICK b \in BOOLEAN : b <=> cells = {}
    OBVIOUS
  <1>3. PICK s \in {"clear", "cells"} : s = IF whole THEN "clear" ELSE "cells"
    OBVIOUS
  <1>4. monitor' = [at |-> s, algos |-> algos, mass |-> b, all |-> b, todo |-> cells, to |-> {}, failed |-> FALSE]
    BY <1>1, <1>2, <1>3
  <1>5. n \in Nat /\ n + 1 \in 1 .. MaxCommands
    BY BoundsAssumption DEF SetBegin, PoolTypes
  <1>6. s = "cells" => "first" \in odd'
    BY <1>1, <1>3 DEF Goes
  <1>7. /\ monitor' \in Working /\ monitor'.at = s /\ monitor'.to = {} /\ monitor'.todo = cells
        /\ ~monitor'.failed /\ (monitor'.all <=> cells = {}) /\ (monitor'.mass <=> monitor'.all)
    BY <1>2, <1>4 DEF Working
  <1>8. QED BY <1>1, <1>5, <1>6, <1>7 DEF SetBegin

LEMMA TypesRest ==
  ASSUME PoolTypes, Next
  PROVE  /\ n' \in 0 .. MaxCommands /\ meant' \in [1 .. MaxCommands -> SUBSET Cells]
         /\ odd' \subseteq Fault /\ part' \subseteq Cells /\ flag' \in BOOLEAN
         /\ mass' \in BOOLEAN /\ shell' \in Cells \cup {NoCell}
  <1>1. odd' \subseteq Fault
    BY OddGrows
  <1>2. CASE SetBegin
    <2>1. n' \in 0 .. MaxCommands /\ part' = {}
      BY <1>2, BeginStep
    <2>4. UNCHANGED <<flag, mass, shell>>
      BY <1>2 DEF SetBegin
    <2>2. meant' \in [1 .. MaxCommands -> SUBSET Cells]
      BY <1>2, BeginStep DEF PoolTypes
    <2>3. QED BY <1>1, <2>1, <2>2, <2>4 DEF PoolTypes
  <1>3. CASE Restart
    BY <1>1, <1>3 DEF PoolTypes, Restart
  <1>4. CASE Cell \/ \E c \in Cells : CellDbOp(c) \/ ShellSetpool(c)
    BY <1>1, <1>4 DEF PoolTypes, Cell, LoginNew, LoginAgain, AlarmCell, ReplyClear, CellDbOp, ShellSetpool
  <1>5. CASE Pack
    BY <1>1, <1>5 DEF PoolTypes, Pack, PackShell, PackMonitor, PackEnd, JsonPackCopy, JsonPackSend,
                      PackCell, PackSkip
  <1>6. CASE SetSend
    <2>1. monitor.at = "cells"
      BY <1>6 DEF SetSend, CellsDone
    <2>2. monitor.mass \in BOOLEAN /\ monitor.to \subseteq Cells
      BY <2>1, WorkingShape
    <2>3. /\ mass' = monitor.mass /\ part' = (IF monitor.mass THEN {} ELSE monitor.to)
          /\ flag' = TRUE /\ UNCHANGED <<n, meant, shell>>
      BY <1>6 DEF SetSend, Mark
    <2>4. QED BY <1>1, <2>2, <2>3 DEF PoolTypes
  <1>7. CASE Setpool /\ ~SetBegin /\ ~SetSend
    <2>1. UNCHANGED <<n, meant, part, flag, shell>> /\ mass' \in {mass, FALSE}
      BY <1>7 DEF Setpool, SpecifyClear, SpecifyFill, SpecifyTooMany, NoCells, AllCells,
                  SetFailed, WaitOver, SetCell, SetUnknown
    <2>2. QED BY <1>1, <2>1 DEF PoolTypes
  <1>8. QED BY <1>2, <1>3, <1>4, <1>5, <1>6, <1>7 DEF Next

LEMMA TypesMonitor ==
  ASSUME PoolTypes, Next
  PROVE  monitor' \in {Idle, [at |-> "wait"]} \cup Working
  <1>1. CASE Setpool
    <2>1. CASE SpecifyTooMany \/ NoCells \/ SetFailed \/ WaitOver \/ SetSend
      BY <2>1 DEF SpecifyTooMany, NoCells, SetFailed, WaitOver, SetSend, Mark
    <2>2. QED BY <1>1, <2>1, BeginStep, MonitorSteps DEF Setpool
  <1>2. CASE Restart
    BY <1>2 DEF Restart
  <1>3. CASE Cell \/ Pack \/ \E c \in Cells : CellDbOp(c) \/ ShellSetpool(c)
    <2>1. monitor' = monitor
      BY <1>3 DEF Cell, LoginNew, LoginAgain, AlarmCell, ReplyClear, CellDbOp, ShellSetpool, Pack,
                  PackShell, PackMonitor, PackEnd, JsonPackCopy, JsonPackSend, PackCell, PackSkip
    <2>2. QED BY <2>1 DEF PoolTypes
  <1>4. QED BY <1>1, <1>2, <1>3 DEF Next

\* The cells that a command has set are in the table.
LEMMA TypesTo ==
  ASSUME PoolTypes, Next
  PROVE  monitor'.at \in {"clear", "fill", "cells"} => monitor'.to \subseteq known'
  <1>1. CASE Setpool
    <2>1. known' = known
      BY <1>1 DEF Setpool, SetBegin, SpecifyClear, SpecifyFill, SpecifyTooMany, NoCells, AllCells, SetSend,
                  SetFailed, WaitOver, SetCell, SetUnknown
    <2>2. CASE SpecifyTooMany \/ NoCells \/ SetFailed \/ WaitOver \/ SetSend
      BY <2>2 DEF SpecifyTooMany, NoCells, SetFailed, WaitOver, SetSend, Mark, Idle
    <2>3. CASE SetBegin
      BY <2>3, BeginStep
    <2>4. CASE SpecifyClear \/ SpecifyFill \/ AllCells
      <3>1. monitor.at \in {"clear", "fill", "cells"}
        BY <2>4 DEF SpecifyClear, SpecifyFill, AllCells
      <3>2. QED BY <2>1, <2>4, <3>1, MonitorSteps DEF PoolTypes
    <2>5. ASSUME NEW c \in Cells, SetCell(c) \/ SetUnknown(c) PROVE monitor'.to \subseteq known'
      <3>1. monitor.at = "cells" /\ (SetCell(c) => c \in known)
        BY <2>5 DEF SetCell, SetUnknown
      <3>2. QED BY <2>1, <2>5, <3>1, MonitorSteps DEF PoolTypes
    <2>6. QED BY <1>1, <2>2, <2>3, <2>4, <2>5 DEF Setpool
  <1>2. CASE Restart
    BY <1>2 DEF Restart, Idle
  <1>3. CASE Cell \/ Pack \/ \E c \in Cells : CellDbOp(c) \/ ShellSetpool(c)
    <2>1. monitor' = monitor /\ known \subseteq known'
      BY <1>3 DEF Cell, LoginNew, LoginAgain, AlarmCell, ReplyClear, CellDbOp, ShellSetpool, Pack,
                  PackShell, PackMonitor, PackEnd, JsonPackCopy, JsonPackSend, PackCell, PackSkip
    <2>2. QED BY <2>1 DEF PoolTypes
  <1>4. QED BY <1>1, <1>2, <1>3 DEF Next

LEMMA TypesPack ==
  ASSUME PoolTypes, Next
  PROVE  pack' \in {Idle} \cup Listing \cup Packing
  <1>1. CASE Setpool \/ Cell \/ \E c \in Cells : CellDbOp(c) \/ ShellSetpool(c)
    <2>1. pack' = pack
      BY <1>1 DEF Cell, LoginNew, LoginAgain, AlarmCell, ReplyClear, CellDbOp, ShellSetpool, Setpool,
                  SetBegin, SpecifyClear, SpecifyFill, SpecifyTooMany, NoCells, AllCells, SetSend,
                  SetFailed, WaitOver, SetCell, SetUnknown
    <2>2. QED BY <2>1 DEF PoolTypes
  <1>2. CASE Restart \/ PackEnd
    BY <1>2 DEF Restart, PackEnd
  <1>3. CASE PackShell
    BY <1>3, Lists DEF PackShell, PoolTypes, Packing
  <1>4. CASE PackMonitor
    BY <1>4 DEF PackMonitor, Listing, PoolTypes
  <1>5. ASSUME NEW c \in Cells, PackCell(c) PROVE pack' \in Packing
    <2>1. pack' = [at |-> "BTC", all |-> pack.all, cell |-> c, done |-> pack.done \cup {c}, msg |-> Empty]
          /\ pack.at = "list"
      BY <1>5 DEF PackCell
    <2>2. QED BY <2>1, Lists, ListingShape DEF Packing
  <1>6. ASSUME NEW c \in Cells, PackSkip(c) PROVE pack' \in Listing
    BY <1>6, SkipStep
  <1>7. CASE JsonPackCopy
    BY <1>7, CopyStep
  <1>8. CASE JsonPackSend
    BY <1>8, PackingShape DEF JsonPackSend, Listing
  <1>9. QED BY <1>1, <1>2, <1>3, <1>4, <1>5, <1>6, <1>7, <1>8 DEF Next, Pack

\* The nodes, what the cells were told, the rows and the buffer.
LEMMA TypesLists ==
  ASSUME PoolTypes, Next
  PROVE  ListTypes'
  <1> USE DEF ListTypes
  <1>0. ListTypes
    BY DEF PoolTypes
  <1>1. ASSUME NEW c \in Cells, LoginNew(c) \/ LoginAgain(c) \/ CellDbOp(c) PROVE ListTypes'
    <2>1. PICK p, q : p = Inserted(node[c]) /\ q = Inserted(Defaults)
      OBVIOUS
    <2>2. p \in Rows /\ q \in Rows /\ Defaults \in Conf /\ node[c] \in Conf
      BY <1>0, <2>1, Lists, RowLists
    <2>3. PICK d : d = Defaults
      OBVIOUS
    <2>4. CASE LoginNew(c)
      <3>1. /\ known' = known \cup {c} /\ online' = online \cup {c} /\ owed' \subseteq owed \cup {c}
            /\ node' = [node EXCEPT ![c] = d] /\ has' \in {has, [has EXCEPT ![c] = d]}
            /\ missed' \subseteq missed /\ UNCHANGED <<specify, marked>>
            /\ \/ row' = [row EXCEPT ![c] = q] /\ unread' = unread \ {c}
               \/ UNCHANGED <<row, unread>>
        BY <2>1, <2>3, <2>4 DEF LoginNew, Told, Insert
      <3>2. QED BY <1>0, <2>2, <2>3, <3>1
    <2>5. CASE LoginAgain(c)
      <3>1. /\ has' \in {has, [has EXCEPT ![c] = node[c]]} /\ missed' \subseteq missed /\ owed' \subseteq owed
            /\ UNCHANGED <<specify, known, online, marked, unread, node, row>>
        BY <2>5 DEF LoginAgain, Told
      <3>2. QED BY <1>0, <2>2, <3>1
    <2>6. CASE CellDbOp(c)
      <3>1. /\ row' = [row EXCEPT ![c] = p] /\ unread' = unread \ {c} /\ owed' \subseteq owed
            /\ c \in owed /\ UNCHANGED <<specify, known, online, marked, missed, node, has>>
        BY <2>1, <2>6 DEF CellDbOp, Insert
      <3>2. QED BY <1>0, <2>2, <3>1
    <2>7. QED BY <1>1, <2>4, <2>5, <2>6
  <1>2. ASSUME NEW c \in Cells, SetCell(c) PROVE ListTypes'
    <2>1. PICK r : r = Updated(row[c], specify)
      OBVIOUS
    <2>2. r \in Rows
      BY <1>0, <2>1, RowLists
    <2>3. /\ \/ row' = [row EXCEPT ![c] = r] /\ unread' = unread \ {c}
             \/ UNCHANGED <<row, unread>>
          /\ node' = [node EXCEPT ![c] = specify] /\ c \in known
          /\ UNCHANGED <<specify, known, online, owed, has, marked, missed>>
      BY <1>2, <2>1 DEF SetCell
    <2>4. QED BY <1>0, <2>2, <2>3
  <1>3. CASE Restart
    <2>1. PICK up \in BOOLEAN : Load(up)
      BY <1>3 DEF Restart
    <2>2. \A c \in Cells : (IF up THEN Loaded(row[c]) ELSE Empty) \in Conf
      BY <1>0, Lists, RowLists
    <2>3. node' \in [Cells -> Conf] /\ online' \subseteq known'
      BY <2>1, <2>2 DEF Load
    <2>4. /\ known' \subseteq Cells /\ unread' \subseteq Cells
          /\ \A c \in Cells \ known' : row[c] = NoRow \/ c \in unread'
      BY <2>1 DEF Load
    <2>5. specify' = Empty /\ owed' = {} /\ marked' = {} /\ missed' = {} /\ UNCHANGED <<row, has>>
      BY <1>3 DEF Restart
    <2>6. QED BY <1>0, <2>3, <2>4, <2>5, Lists
  <1>4. CASE SpecifyClear \/ SpecifyTooMany \/ SpecifyFill
    <2>1. UNCHANGED <<known, online, owed, marked, missed, unread, node, row, has>>
      BY <1>4 DEF SpecifyClear, SpecifyTooMany, SpecifyFill
    <2>2. CASE SpecifyFill
      <3>1. PICK a \in monitor.algos : specify' = [specify EXCEPT ![a] = n]
        BY <2>2 DEF SpecifyFill
      <3>2. n \in Default .. MaxCommands
        BY BoundsAssumption DEF Default, PoolTypes
      <3>3. specify' \in Conf
        BY <1>0, <3>1, <3>2 DEF Conf
      <3>4. QED BY <1>0, <2>1, <3>3
    <2>3. CASE SpecifyClear \/ SpecifyTooMany
      BY <1>0, <2>1, <2>3, Lists DEF SpecifyClear, SpecifyTooMany
    <2>4. QED BY <1>4, <2>2, <2>3
  <1>5. CASE SetSend
    <2>1. /\ monitor.at = "cells" /\ marked' \subseteq marked \cup online
          /\ missed' \subseteq missed \cup monitor.to
          /\ UNCHANGED <<specify, known, online, owed, unread, node, row, has>>
      BY <1>5 DEF SetSend, CellsDone, Mark
    <2>2. monitor.to \subseteq known
      BY <2>1 DEF PoolTypes
    <2>3. QED BY <1>0, <2>1, <2>2
  <1>6. CASE JsonPackCopy
    <2>1. node' \in [Cells -> Conf]
      BY <1>6, CopyStep
    <2>2. UNCHANGED <<specify, known, online, owed, marked, missed, unread, row, has>>
      BY <1>6 DEF JsonPackCopy
    <2>3. QED BY <1>0, <2>1, <2>2
  <1>7. CASE JsonPackSend
    <2>1. /\ has' \in {has, [has EXCEPT ![pack.cell] = pack.msg]} /\ missed' \subseteq missed
          /\ pack.at = "send" /\ UNCHANGED <<specify, known, online, owed, marked, unread, node, row>>
      BY <1>7 DEF JsonPackSend, Told
    <2>2. QED BY <1>0, <2>1, PackingShape
  <1>8. ASSUME NEW c \in Cells, AlarmCell(c) \/ ReplyClear(c) \/ PackSkip(c) PROVE ListTypes'
    <2>1. /\ UNCHANGED <<specify, known, owed, unread, node, row, has>>
          /\ online' \subseteq online \cup {c} /\ (c \notin known => online' = online)
          /\ marked' \subseteq marked /\ missed' \subseteq missed \cup ({c} \cap marked)
      BY <1>8 DEF AlarmCell, ReplyClear, PackSkip
    <2>2. QED BY <1>0, <2>1
  <1>9. CASE UNCHANGED <<specify, known, online, owed, marked, missed, unread, node, row, has>>
    BY <1>0, <1>9
  <1>10. CASE \/ SetBegin \/ NoCells \/ AllCells \/ SetFailed \/ WaitOver
              \/ PackShell \/ PackMonitor \/ PackEnd
              \/ \E c \in Cells : SetUnknown(c) \/ PackCell(c) \/ ShellSetpool(c)
    BY <1>9, <1>10 DEF SetBegin, NoCells, AllCells, SetFailed, WaitOver, PackShell, PackMonitor,
                       PackEnd, SetUnknown, PackCell, ShellSetpool
  <1>11. QED BY <1>1, <1>2, <1>3, <1>4, <1>5, <1>6, <1>7, <1>8, <1>10 DEF Next, Cell, Setpool, Pack

LEMMA TypesStep ==
  ASSUME PoolTypes, Next
  PROVE  PoolTypes'
  BY TypesLists, TypesMonitor, TypesTo, TypesPack, TypesRest DEF PoolTypes

-----------------------------------------------------------------------------
LEMMA OrderMonitor ==
  ASSUME PoolTypes, Ordered, Setpool, "late" \notin odd'
  PROVE  Ordered'
  <1>0. ListTypes /\ flag \in BOOLEAN /\ mass \in BOOLEAN
    BY DEF PoolTypes
  <1> USE DEF Ordered
  <1>1. CASE SetBegin
    BY <1>1, BeginStep DEF SetBegin, Idle
  <1>2. CASE SpecifyClear \/ SpecifyFill
    <2>1. UNCHANGED <<known, node, part, flag, mass, shell, pack>> /\ monitor.at \in {"clear", "fill"}
      BY <1>2 DEF SpecifyClear, SpecifyFill
    <2>2. /\ monitor'.at \in {"fill", "cells"} /\ monitor'.to = {}
          /\ monitor'.mass = monitor.mass /\ monitor'.all = monitor.all
      BY <1>2, <2>1, MonitorSteps
    <2>3. QED BY <2>1, <2>2 DEF Idle
  <1>3. CASE SpecifyTooMany \/ NoCells \/ SetFailed
    <2>1. UNCHANGED <<part, flag, mass, shell, pack>> /\ monitor' = Idle /\ monitor.at \in {"fill", "cells"}
      BY <1>3 DEF SpecifyTooMany, NoCells, SetFailed, CellsDone
    <2>2. QED BY <2>1 DEF Idle
  <1>4. CASE AllCells
    <2>1. UNCHANGED <<specify, known, node, part, flag, mass, shell, pack>> /\ monitor.at = "cells"
      BY <1>4 DEF AllCells
    <2>2. monitor'.at = "cells" /\ monitor'.to = monitor.to /\ monitor'.todo = known
      BY <1>4, MonitorSteps
    <2>3. QED BY <2>1, <2>2 DEF Idle
  <1>5. ASSUME NEW c \in Cells, SetCell(c) PROVE Ordered'
    <2>1. UNCHANGED <<specify, known, part, flag, mass, shell, pack>> /\ monitor.at = "cells" /\ ~monitor.all
          /\ node' = [node EXCEPT ![c] = specify]
      BY <1>5 DEF SetCell
    <2>2. /\ monitor'.at = "cells" /\ monitor'.to = monitor.to \cup {c} /\ c \in known
          /\ monitor'.todo = monitor.todo \ {c} /\ monitor'.mass = monitor.mass
      BY <1>5, MonitorSteps
    <2>3. \A d \in monitor'.to : node'[d] = specify'
      BY <1>0, <2>1, <2>2 DEF ListTypes
    <2>4. ASSUME NEW d \in Cells, d # c, Fresh(d) PROVE Fresh(d)'
      <3>1. row'[d] = row[d] /\ (d \in unread => d \in unread')
        BY <1>0, <1>5, <2>4 DEF SetCell, ListTypes
      <3>2. QED BY <2>4, <3>1 DEF Fresh
    <2>5. ASSUME monitor.mass, NEW d \in known PROVE d \in monitor'.todo \cup monitor'.to \/ Fresh(d)'
      <3>1. d \in monitor.todo \cup monitor.to \/ Fresh(d)
        BY <2>1, <2>5
      <3>2. QED BY <1>0, <2>2, <2>4, <3>1 DEF ListTypes
    <2>6. monitor'.to \subseteq known'
      BY <2>1, <2>2
    <2>7. QED BY <2>1, <2>2, <2>3, <2>5, <2>6 DEF Idle
  <1>6. ASSUME NEW c \in Cells, SetUnknown(c) PROVE Ordered'
    <2>1. UNCHANGED <<specify, known, node, row, unread, part, flag, mass, shell, pack>>
          /\ monitor.at = "cells" /\ c \notin known
      BY <1>6 DEF SetUnknown
    <2>2. /\ monitor'.at = "cells" /\ monitor'.todo = monitor.todo \ {c} /\ monitor'.to = monitor.to
          /\ monitor'.mass = monitor.mass /\ monitor'.all = monitor.all
      BY <1>6, MonitorSteps
    <2>3. \A d \in Cells : Fresh(d) => Fresh(d)'
      BY <2>1 DEF Fresh
    <2>4. ASSUME monitor.mass, ~monitor.all, NEW d \in known
          PROVE  d \in monitor'.todo \cup monitor'.to \/ Fresh(d)'
      <3>1. d \in monitor.todo \cup monitor.to \/ Fresh(d)
        BY <2>1, <2>4
      <3>2. d \in Cells /\ d # c
        BY <1>0, <2>1, <2>4 DEF ListTypes
      <3>3. QED BY <2>2, <2>3, <3>1, <3>2
    <2>5. QED BY <2>1, <2>2, <2>4 DEF Idle
  <1>7. CASE SetSend
    <2>1. /\ UNCHANGED <<specify, known, node, row, unread, shell, pack>> /\ monitor.at = "cells"
          /\ ~monitor.all /\ monitor.todo = {}
          /\ monitor' = [at |-> "wait"] /\ flag' = TRUE
          /\ mass' = monitor.mass
          /\ part' = (IF monitor.mass THEN {} ELSE monitor.to)
          /\ monitor.mass => marked' = marked \cup online
      BY <1>7 DEF SetSend, CellsDone, Mark
    <2>2. pack = Idle /\ monitor.to \subseteq known /\ shell = NoCell
      BY <2>1
    <2>3. ASSUME NEW c \in Target' PROVE Set(c)'
      <3>1. CASE monitor.mass
        <4>1. c \in known
          BY <1>0, <2>1, <2>3, <3>1 DEF Target, ListTypes
        <4>2. c \in monitor.to \/ Fresh(c)
          BY <2>1, <3>1, <4>1
        <4>3. QED BY <2>1, <4>2 DEF Set, Fresh
      <3>2. CASE ~monitor.mass
        <4>1. c \in monitor.to
          BY <2>1, <2>3, <3>2 DEF Target
        <4>2. QED BY <2>1, <4>1 DEF Set
      <3>3. QED BY <3>1, <3>2
    <2>4. part' \subseteq known'
      BY <2>1, <2>2
    <2>5. pack'.at = "idle"
      BY <2>1, <2>2 DEF Idle
    <2>6. QED BY <2>1, <2>2, <2>3, <2>4, <2>5
  <1>8. CASE WaitOver
    <2>1. ~flag /\ pack = Idle /\ monitor' = Idle /\ ~mass' /\ UNCHANGED <<part, flag, shell, pack>>
      BY <1>8 DEF WaitOver, Goes
    <2>2. QED BY <2>1 DEF Idle
  <1>9. QED BY <1>1, <1>2, <1>3, <1>4, <1>5, <1>6, <1>7, <1>8 DEF Setpool

\* The buffer is copied to a node that holds it already, or to one of a cell that
\* logged in too late for the lookups of its command.
LEMMA CopyKeeps ==
  ASSUME PoolTypes, Ordered, JsonPackCopy
  PROVE  /\ monitor.at = "wait" /\ pack.cell \in known /\ UNCHANGED <<specify, row, unread>>
         /\ \A c \in Cells : c # pack.cell => node'[c] = node[c]
         /\ node'[pack.cell] = node[pack.cell] \/ Fresh(pack.cell)
         /\ \A c \in Cells : Set(c) => Set(c)'
         /\ node'[pack.cell][pack.at] = specify[pack.at]
         /\ \A a \in Algos : a # pack.at => node'[pack.cell][a] = node[pack.cell][a]
  <1>0. ListTypes
    BY DEF PoolTypes
  <1>1. pack.at \in {"BTC", "LTC"} /\ pack # Idle /\ UNCHANGED <<specify, row, unread>>
    BY DEF JsonPackCopy, Algos, Idle
  <1>2. monitor.at = "wait" /\ pack.cell \in known /\ Set(pack.cell)
    BY <1>1 DEF Ordered
  <1>3. PICK c \in Cells, a \in Algos : c = pack.cell /\ a = pack.at
    BY <1>0, <1>1, <1>2 DEF ListTypes, Algos
  <1>4. PICK p : p = [node[c] EXCEPT ![a] = specify[a]]
    OBVIOUS
  <1>5. node' = [node EXCEPT ![c] = p]
    BY <1>3, <1>4, CopyStep
  <1>6. /\ p \in Conf /\ p[a] = specify[a] /\ \A b \in Algos : b # a => p[b] = node[c][b]
        /\ node[c] = specify => p = specify
    BY <1>0, <1>4 DEF ListTypes, Conf
  <1>7. node'[c] = p /\ \A d \in Cells : d # c => node'[d] = node[d]
    BY <1>0, <1>5 DEF ListTypes
  <1>8. \A d \in Cells : Fresh(d) => Fresh(d)'
    BY <1>1 DEF Fresh
  <1>9. node'[c] = node[c] \/ Fresh(c)
    BY <1>2, <1>3, <1>6, <1>7 DEF Set
  <1>10. ASSUME NEW d \in Cells, Set(d) PROVE Set(d)'
    <2>1. node[d] = specify => node'[d] = specify
      BY <1>6, <1>7
    <2>2. QED BY <1>1, <1>8, <1>10, <2>1 DEF Set
  <1>11. QED BY <1>1, <1>2, <1>3, <1>6, <1>7, <1>9, <1>10

LEMMA OrderPack ==
  ASSUME PoolTypes, Ordered, Pack
  PROVE  Ordered'
  <1>0. UNCHANGED <<specify, known, monitor, part, mass, marked, row, unread>>
    BY DEF Pack, PackShell, PackMonitor, PackEnd, PackCell, PackSkip, JsonPackCopy, JsonPackSend
  <1>1. CASE PackShell
    BY <1>1 DEF PackShell, Ordered
  <1>2. ASSUME node' = node PROVE \A c \in Cells : Set(c) => Set(c)'
    BY <1>0, <1>2 DEF Set, Fresh
  <1>3. Target' = Target /\ Target \subseteq Cells
    BY <1>0 DEF Target, PoolTypes, ListTypes
  <1>4. monitor.at = "wait"
    <2>1. flag \/ pack # Idle \/ shell # NoCell
      BY DEF Pack, PackShell, PackMonitor, PackEnd, PackCell, PackSkip, JsonPackCopy, JsonPackSend, Idle, Algos
    <2>2. QED BY <2>1 DEF Ordered
  <1>5. shell = NoCell /\ known \subseteq Cells
    BY DEF Ordered, PoolTypes, ListTypes
  <1>6. CASE PackMonitor \/ PackEnd
    <2>1. /\ UNCHANGED <<node, shell>> /\ ~flag'
          /\ pack' = [at |-> "list", all |-> mass, done |-> {}] \/ pack' = Idle
      <3>1. CASE PackMonitor
        BY <3>1 DEF PackMonitor
      <3>2. CASE PackEnd
        BY <3>2 DEF PackEnd, Ordered, Idle, PoolTypes
      <3>3. QED BY <1>6, <3>1, <3>2
    <2>2. pack'.at = "idle" \/ (pack'.at = "list" /\ pack'.all = mass)
      BY <2>1 DEF Idle
    <2>3. QED BY <1>0, <1>2, <1>3, <1>4, <2>1, <2>2 DEF Ordered
  <1>7. ASSUME NEW c \in Cells, PackCell(c) PROVE Ordered'
    <2>1. /\ pack.at = "list" /\ c \in known /\ c \in (IF pack.all THEN marked \cap online ELSE part)
          /\ UNCHANGED <<node, flag, shell>>
          /\ pack' = [at |-> "BTC", all |-> pack.all, cell |-> c, done |-> pack.done \cup {c}, msg |-> Empty]
      BY <1>7 DEF PackCell
    <2>2. (pack.all <=> mass) /\ ~flag /\ pack.all \in BOOLEAN
      BY <2>1, ListingShape DEF Ordered, Idle, PoolTypes
    <2>3. c \in Target /\ (~pack.all => c \in part)
      BY <2>1, <2>2 DEF Target
    <2>4. Set(c)
      BY <1>4, <2>3 DEF Ordered
    <2>5. /\ pack'.at = "BTC" /\ pack'.cell = c /\ pack'.all = pack.all /\ pack' # Idle
      BY <2>1 DEF Idle
    <2>6. QED BY <1>0, <1>2, <1>3, <1>4, <2>1, <2>2, <2>3, <2>4, <2>5 DEF Ordered
  <1>8. ASSUME NEW c \in Cells, PackSkip(c) PROVE Ordered'
    <2>1. UNCHANGED <<node, flag, shell>> /\ pack.at = "list" /\ pack # Idle
      BY <1>8 DEF PackSkip, Idle
    <2>2. pack'.at = "list" /\ pack'.all = pack.all /\ pack' # Idle
      BY <1>8, SkipStep DEF Idle
    <2>3. QED BY <1>0, <1>2, <1>3, <1>4, <2>1, <2>2 DEF Ordered
  <1>9. CASE JsonPackCopy
    <2>1. UNCHANGED <<flag, shell>> /\ pack # Idle /\ pack.at \in {"BTC", "LTC"}
      BY <1>9 DEF JsonPackCopy, Idle, Algos
    <2>2. pack'.cell = pack.cell /\ pack'.all = pack.all /\ pack'.at \in {"LTC", "send"} /\ pack' # Idle
      BY <1>9, CopyStep DEF Algos, Idle
    <2>3. \A c \in Cells : Set(c) => Set(c)'
      BY <1>9, CopyKeeps
    <2>4. QED BY <1>0, <1>3, <1>4, <1>5, <2>1, <2>2, <2>3 DEF Ordered
  <1>10. CASE JsonPackSend
    <2>1. UNCHANGED <<node, flag, shell>> /\ pack.at = "send" /\ pack # Idle
          /\ (pack' = Idle \/ pack' = [at |-> "list", all |-> pack.all, done |-> pack.done])
      BY <1>10 DEF JsonPackSend, Idle
    <2>2. pack'.at = "idle" \/ (pack'.at = "list" /\ pack'.all = pack.all)
      BY <2>1 DEF Idle
    <2>3. QED BY <1>0, <1>2, <1>3, <1>4, <2>1, <2>2 DEF Ordered
  <1>11. QED BY <1>1, <1>6, <1>7, <1>8, <1>9, <1>10 DEF Pack

LEMMA OrderStep ==
  ASSUME PoolTypes, OrderOK, Next
  PROVE  OrderOK'
  <1>1. SUFFICES ASSUME Without({"shell", "late"})' PROVE Ordered'
    BY DEF OrderOK
  <1>2. "shell" \notin odd' /\ "late" \notin odd'
    BY <1>1 DEF Without
  <1>3. Without({"shell", "late"})
    BY <1>2, OddGrows DEF Without
  <1>4. Ordered /\ ListTypes
    BY <1>3 DEF OrderOK, PoolTypes
  <1>5. ASSUME NEW c \in Cells, LoginNew(c) \/ LoginAgain(c) \/ CellDbOp(c) \/ AlarmCell(c) \/ ReplyClear(c)
        PROVE  Ordered'
    <2>1. /\ UNCHANGED <<specify, monitor, part, flag, mass, shell, pack>>
          /\ marked' \subseteq marked /\ known \subseteq known' /\ known' \subseteq known \cup {c}
          /\ c \notin known \/ known' = known
      BY <1>5 DEF LoginNew, LoginAgain, CellDbOp, AlarmCell, ReplyClear
    <2>2. \A d \in known : node'[d] = node[d]
      BY <1>4, <1>5 DEF LoginNew, LoginAgain, CellDbOp, AlarmCell, ReplyClear, ListTypes
    <2>3. \A d \in known : Fresh(d) => Fresh(d)'
      BY <1>4, <1>5 DEF LoginNew, LoginAgain, CellDbOp, AlarmCell, ReplyClear, Insert, Inserted, ListTypes,
                        Fresh
    <2>4. c \notin known => c \in Cells /\ (row[c] = NoRow \/ c \in unread)
      BY <1>4 DEF ListTypes
    <2>5. \A d \in known' \ known : Fresh(d)'
      <3>1. CASE LoginNew(c)
        BY <1>4, <2>1, <2>4, <3>1, Lists DEF LoginNew, Insert, Inserted, ListTypes, Fresh
      <3>2. CASE known' = known
        BY <3>2
      <3>3. QED BY <1>5, <3>1, <3>2 DEF LoginAgain, CellDbOp, AlarmCell, ReplyClear
    <2>6. \A d \in known : Set(d) => Set(d)'
      BY <2>1, <2>2, <2>3 DEF Set
    <2>7. Target' \subseteq Target /\ (monitor.at = "wait" => Target \subseteq known)
      BY <1>4, <2>1 DEF Target, Ordered, ListTypes
    <2>8. ASSUME monitor.at = "cells" PROVE
            /\ monitor'.to \subseteq known' /\ \A d \in monitor'.to : node'[d] = specify'
            /\ (monitor'.mass /\ ~monitor'.all) =>
                  \A d \in known' : d \in monitor'.todo \cup monitor'.to \/ Fresh(d)'
      BY <1>4, <2>1, <2>2, <2>3, <2>5, <2>8 DEF Ordered
    <2>9. ASSUME monitor.at = "wait" PROVE part' \subseteq known' /\ \A d \in Target' : Set(d)'
      BY <1>4, <2>1, <2>6, <2>7, <2>9 DEF Ordered
    <2>10. ASSUME pack.at \in {"BTC", "LTC", "send"} PROVE
             /\ pack'.cell \in known' /\ Set(pack.cell)'
             /\ ~pack'.all => pack'.cell \in part'
      <3>1. pack.cell \in known /\ Set(pack.cell) /\ (~pack.all => pack.cell \in part)
        BY <1>4, <2>10 DEF Ordered
      <3>2. PICK d \in known : d = pack.cell /\ Set(d)'
        BY <2>6, <3>1
      <3>3. QED BY <2>1, <3>1, <3>2 DEF Set, Fresh
    <2>11. QED BY <1>4, <2>1, <2>8, <2>9, <2>10 DEF Ordered
  <1>7. ASSUME NEW c \in Cells, ShellSetpool(c) PROVE FALSE
    BY <1>2, <1>7 DEF ShellSetpool, Goes
  <1>8. CASE Restart
    BY <1>8 DEF Restart, Ordered, Idle
  <1>9. QED BY <1>2, <1>4, <1>5, <1>7, <1>8, OrderMonitor, OrderPack DEF Next, Cell

-----------------------------------------------------------------------------
LEMMA RowsStep ==
  ASSUME PoolTypes, OrderOK, RowsOK, Next
  PROVE  RowsOK'
  <1>1. SUFFICES ASSUME Without({"shell", "late", "query"})', NEW d \in (known \ unread)', row'[d].by = "update"
                 PROVE  node'[d] \in {Loaded(row'[d]), row'[d].pools}
    BY DEF RowsOK, Loaded
  <1>2. "shell" \notin odd' /\ "late" \notin odd' /\ "query" \notin odd'
    BY <1>1 DEF Without
  <1>3. Without({"shell", "late"}) /\ Without({"shell", "late", "query"})
    BY <1>2, OddGrows DEF Without
  <1>4. /\ Ordered /\ ListTypes
        /\ \A c \in known \ unread : row[c].by = "update" => node[c] \in {Loaded(row[c]), row[c].pools}
    BY <1>3 DEF OrderOK, RowsOK, PoolTypes
  <1>5. CASE UNCHANGED <<node, row, known, unread>>
    BY <1>1, <1>4, <1>5
  <1>6. ASSUME NEW c \in Cells, LoginNew(c) \/ LoginAgain(c) \/ CellDbOp(c) \/ AlarmCell(c) \/ ReplyClear(c)
        PROVE  node'[d] \in {Loaded(row'[d]), row'[d].pools}
    <2>1. CASE LoginNew(c)
      <3>1. c \notin known /\ known' = known \cup {c} /\ (row[c] = NoRow \/ c \in unread)
        BY <1>4, <2>1 DEF LoginNew, ListTypes
      <3>2. /\ \/ row' = [row EXCEPT ![c] = Inserted(Defaults)] /\ unread' = unread \ {c}
               \/ UNCHANGED <<row, unread>>
            /\ node' = [node EXCEPT ![c] = Defaults]
        BY <2>1 DEF LoginNew, Insert
      <3>3. Inserted(Defaults).by = "insert" /\ NoRow.by = "none"
        BY DEF Inserted, NoRow
      <3>4. d # c
        BY <1>1, <1>4, <3>1, <3>2, <3>3 DEF ListTypes
      <3>5. QED BY <1>1, <1>4, <3>1, <3>2, <3>4 DEF ListTypes
    <2>2. CASE LoginAgain(c) \/ AlarmCell(c) \/ ReplyClear(c)
      BY <1>5, <2>2 DEF LoginAgain, AlarmCell, ReplyClear
    <2>3. CASE CellDbOp(c)
      <3>1. row' = [row EXCEPT ![c] = Inserted(node[c])] /\ unread' = unread \ {c} /\ UNCHANGED <<node, known>>
        BY <2>3 DEF CellDbOp, Insert
      <3>2. d # c
        BY <1>1, <1>4, <3>1 DEF Inserted, ListTypes
      <3>3. QED BY <1>1, <1>4, <3>1, <3>2 DEF ListTypes
    <2>4. QED BY <1>6, <2>1, <2>2, <2>3
  <1>7. ASSUME NEW c \in Cells, SetCell(c) PROVE node'[d] \in {Loaded(row'[d]), row'[d].pools}
    <2>1. row' = [row EXCEPT ![c] = Updated(@, specify)] /\ node' = [node EXCEPT ![c] = specify]
          /\ known' = known /\ unread' = unread \ {c}
      BY <1>2, <1>7 DEF SetCell, Goes
    <2>2. CASE d = c
      <3>1. row'[d] = Updated(row[d], specify) /\ node'[d] = specify
        BY <1>1, <1>4, <2>1, <2>2 DEF ListTypes
      <3>2. row[d] \in Rows /\ specify \in Conf
        BY <1>4, <2>2 DEF ListTypes
      <3>4. Updated(row[d], specify).by = "update"
        BY <1>1, <3>1
      <3>5. Updated(row[d], specify).pools = specify
        BY <3>2, <3>4, RowLists
      <3>3. QED BY <3>1, <3>5
    <2>3. CASE d # c
      BY <1>1, <1>4, <2>1, <2>3 DEF ListTypes
    <2>4. QED BY <2>2, <2>3
  <1>8. CASE Restart
    <2>1. PICK up \in BOOLEAN : Load(up)
      BY <1>8 DEF Restart
    <2>2. up /\ node'[d] = Loaded(row[d]) /\ row' = row
      BY <1>1, <1>8, <2>1 DEF Restart, Load
    <2>3. QED BY <2>2
  <1>9. CASE JsonPackCopy
    <2>1. UNCHANGED <<row, known, unread>>
      BY <1>9 DEF JsonPackCopy
    <2>2. ~Fresh(d) /\ d \in Cells
      BY <1>1, <1>4, <2>1 DEF Fresh, ListTypes
    <2>3. node'[d] = node[d]
      BY <1>4, <1>9, <2>2, CopyKeeps
    <2>4. QED BY <1>1, <1>4, <2>1, <2>3
  <1>10. CASE \/ SetBegin \/ SpecifyClear \/ SpecifyFill \/ SpecifyTooMany
              \/ NoCells \/ AllCells \/ SetSend \/ SetFailed \/ WaitOver
              \/ PackShell \/ PackMonitor \/ PackEnd \/ JsonPackSend
              \/ \E c \in Cells : SetUnknown(c) \/ ShellSetpool(c) \/ PackCell(c) \/ PackSkip(c)
    <2>1. UNCHANGED <<node, row, known, unread>>
      BY <1>10 DEF SetBegin, SpecifyClear, SpecifyFill, SpecifyTooMany, NoCells, AllCells, SetSend, Mark,
                   SetFailed, WaitOver, SetUnknown, ShellSetpool, PackShell, PackMonitor, PackEnd,
                   PackCell, PackSkip, JsonPackSend
    <2>2. QED BY <1>5, <2>1
  <1>11. QED BY <1>6, <1>7, <1>8, <1>9, <1>10 DEF Next, Cell, Setpool, Pack

-----------------------------------------------------------------------------
LEMMA ToldMonitor ==
  ASSUME PoolTypes, Ordered, Telling, Setpool, "late" \notin odd', "unknown" \notin odd'
  PROVE  Telling'
  <1>0. has' = has /\ known' = known /\ pack' = pack /\ missed \subseteq missed'
    BY DEF Setpool, SetBegin, SpecifyClear, SpecifyFill, SpecifyTooMany, NoCells, AllCells, SetSend, Mark,
           SetFailed, WaitOver, SetCell, SetUnknown
  <1>1. ASSUME monitor.at # "cells", ~flag, pack = Idle
        PROVE  \A c \in known \ missed : has[c] = node[c]
    BY <1>1 DEF Telling, Untold, Idle
  <1>2. CASE SetBegin
    <2>1. monitor = Idle /\ node' = node /\ ~flag /\ pack = Idle
      BY <1>2 DEF SetBegin, Ordered, Idle
    <2>2. ~monitor'.failed /\ monitor.at # "cells"
      BY <1>2, <2>1, BeginStep DEF Idle
    <2>3. QED BY <1>0, <1>1, <2>1, <2>2 DEF Telling, Idle
  <1>3. CASE SpecifyClear \/ SpecifyFill
    <2>1. monitor.at \in {"clear", "fill"} /\ node' = node /\ ~flag /\ pack = Idle
      BY <1>3 DEF SpecifyClear, SpecifyFill, Ordered
    <2>2. monitor'.failed = monitor.failed
      BY <1>3, MonitorSteps
    <2>3. QED BY <1>0, <1>1, <2>1, <2>2 DEF Telling, Idle
  <1>4. CASE SpecifyTooMany \/ WaitOver
    <2>1. monitor.at # "cells" /\ node' = node /\ ~flag /\ pack = Idle /\ monitor' = Idle
      BY <1>4 DEF SpecifyTooMany, WaitOver, Ordered, Goes
    <2>2. QED BY <1>0, <1>1, <2>1 DEF Telling, Idle
  <1>5. CASE NoCells
    <2>1. known = {} /\ pack = Idle /\ monitor' = Idle
      BY <1>5 DEF NoCells, Ordered
    <2>2. QED BY <1>0, <2>1 DEF Telling, Idle
  <1>6. CASE AllCells
    <2>1. monitor.at = "cells" /\ UNCHANGED <<node, flag, part, mass, marked, missed>> /\ pack = Idle
      BY <1>6 DEF AllCells, Ordered
    <2>2. monitor'.at = "cells" /\ monitor'.to = monitor.to /\ monitor'.failed = monitor.failed
      BY <1>6, MonitorSteps
    <2>3. Untold' = Untold
      BY <1>0, <2>1, <2>2 DEF Untold, Target
    <2>4. QED BY <1>0, <2>1, <2>2, <2>3 DEF Telling, Idle
  <1>7. ASSUME NEW c \in Cells, SetCell(c) PROVE Telling'
    <2>1. monitor.at = "cells" /\ UNCHANGED <<flag, part, mass, marked, missed>> /\ pack = Idle
          /\ node' = [node EXCEPT ![c] = specify]
      BY <1>7 DEF SetCell, Ordered
    <2>2. monitor'.at = "cells" /\ monitor'.to = monitor.to \cup {c} /\ monitor'.failed = monitor.failed
      BY <1>7, MonitorSteps
    <2>3. \A d \in known : d # c => node'[d] = node[d]
      BY <2>1 DEF PoolTypes, ListTypes
    <2>4. Untold' = Untold \cup {c}
      BY <1>0, <2>1, <2>2 DEF Untold, Target, Idle
    <2>5. \A d \in (known \ missed)' : has'[d] = node'[d] \/ d \in Untold'
      BY <1>0, <2>1, <2>3, <2>4 DEF Telling
    <2>6. QED BY <1>0, <2>1, <2>2, <2>5 DEF Telling, Idle
  <1>8. ASSUME NEW c \in Cells, SetUnknown(c) PROVE FALSE
    BY <1>8 DEF SetUnknown, Goes
  <1>9. CASE SetSend
    <2>1. /\ monitor.at = "cells" /\ UNCHANGED <<node, specify>> /\ flag' = TRUE
          /\ monitor' = [at |-> "wait"] /\ pack = Idle /\ ~flag
      BY <1>9 DEF SetSend, CellsDone, Mark, Ordered
    <2>2. monitor.mass \in BOOLEAN /\ monitor.to \subseteq Cells
      BY <2>1, WorkingShape
    <2>3. \A d \in monitor.to : d \in missed' \/ d \in Target'
      <3>1. CASE monitor.mass
        BY <1>9, <3>1 DEF SetSend, Mark, Target
      <3>2. CASE ~monitor.mass
        BY <1>9, <3>2 DEF SetSend, Mark, Target
      <3>3. QED BY <2>2, <3>1, <3>2
    <2>4. \A d \in known : d \in Untold => d \in Untold' \/ d \in missed'
      BY <1>0, <2>1, <2>2, <2>3 DEF Untold, Idle
    <2>5. QED BY <1>0, <2>1, <2>4 DEF Telling, Idle
  <1>10. CASE SetFailed
    BY <1>10 DEF SetFailed, CellsDone, Telling
  <1>11. QED BY <1>2, <1>3, <1>4, <1>5, <1>6, <1>7, <1>8, <1>9, <1>10 DEF Setpool

LEMMA ToldPack ==
  ASSUME PoolTypes, Ordered, Telling, Pack, "lost" \notin odd'
  PROVE  Telling'
  <1>0. UNCHANGED <<specify, known, monitor, part, mass, marked>> /\ Target' = Target
    BY DEF Pack, PackShell, PackMonitor, PackEnd, PackCell, PackSkip, JsonPackCopy, JsonPackSend, Target
  <1>1. CASE PackShell
    BY <1>1 DEF PackShell, Ordered
  <1>2. known \subseteq Cells /\ Target \subseteq known /\ monitor.at = "wait"
    <2>1. flag \/ pack # Idle \/ shell # NoCell
      BY DEF Pack, PackShell, PackMonitor, PackEnd, PackCell, PackSkip, JsonPackCopy, JsonPackSend, Idle, Algos
    <2>2. QED BY <2>1 DEF Ordered, Target, PoolTypes, ListTypes
  <1>3. ASSUME UNCHANGED <<node, has, missed>>, \A c \in known : c \in Untold => c \in Untold',
               pack'.at \in {"idle", "list", "BTC"}
        PROVE  Telling'
    BY <1>0, <1>3 DEF Telling
  <1>4. CASE PackMonitor
    <2>1. /\ flag /\ pack = Idle /\ ~flag' /\ UNCHANGED <<node, has, missed>>
          /\ pack' = [at |-> "list", all |-> mass, done |-> {}]
      BY <1>4 DEF PackMonitor
    <2>2. \A c \in known : c \in Untold => c \in Untold'
      BY <1>0, <2>1 DEF Untold, Idle
    <2>3. QED BY <1>3, <2>1, <2>2
  <1>5. CASE PackEnd
    <2>1. /\ pack.at = "list" /\ (IF pack.all THEN known ELSE part \cap known) \subseteq pack.done
          /\ pack' = Idle /\ UNCHANGED <<node, has, missed, flag>> /\ pack # Idle
      BY <1>5 DEF PackEnd, Idle
    <2>2. (pack.all <=> mass) /\ pack.all \in BOOLEAN
      BY <2>1, ListingShape DEF Ordered
    <2>3. Target \subseteq pack.done
      BY <1>2, <2>1, <2>2 DEF Target
    <2>4. \A c \in known : c \in Untold => c \in Untold'
      BY <1>0, <1>2, <2>1, <2>3 DEF Untold, Ordered
    <2>5. QED BY <1>3, <2>1, <2>4 DEF Idle
  <1>6. ASSUME NEW c \in Cells, PackCell(c) PROVE Telling'
    <2>1. /\ pack.at = "list" /\ UNCHANGED <<node, has, missed, flag>>
          /\ pack' = [at |-> "BTC", all |-> pack.all, cell |-> c, done |-> pack.done \cup {c}, msg |-> Empty]
      BY <1>6 DEF PackCell
    <2>2. \A d \in known : d \in Untold => d \in Untold'
      BY <1>0, <2>1 DEF Untold
    <2>3. QED BY <1>3, <2>1, <2>2
  <1>7. ASSUME NEW c \in Cells, PackSkip(c) PROVE Telling'
    <2>1. /\ UNCHANGED <<node, has, flag>> /\ missed' = missed \cup ({c} \cap marked) /\ pack.all
          /\ pack.at = "list"
      BY <1>7 DEF PackSkip
    <2>2. pack'.at = "list" /\ pack'.done = pack.done \cup {c}
      BY <1>7, SkipStep
    <2>3. mass
      BY <2>1, ListingShape DEF Ordered
    <2>4. c \in Target => c \in missed'
      BY <2>1, <2>3 DEF Target
    <2>5. \A d \in known : d \in Untold => d \in Untold' \/ d \in missed'
      BY <1>0, <2>1, <2>2, <2>4 DEF Untold
    <2>6. QED BY <1>0, <2>1, <2>2, <2>5 DEF Telling
  <1>8. CASE JsonPackCopy
    <2>1. UNCHANGED <<has, flag, missed>> /\ pack.at \in {"BTC", "LTC"}
      BY <1>8 DEF JsonPackCopy, Algos
    <2>2. /\ pack'.at = (IF pack.at = "BTC" THEN "LTC" ELSE "send")
          /\ pack'.cell = pack.cell /\ pack'.done = pack.done
          /\ pack'.msg = [pack.msg EXCEPT ![pack.at] = specify[pack.at]]
      BY <1>8, CopyStep
    <2>3. Untold' = Untold /\ pack.cell \in Untold
      BY <1>0, <1>2, <2>1, <2>2, PackingShape DEF Untold
    <2>4. pack'.msg[pack.at] = specify[pack.at] /\ (pack.at = "LTC" => pack'.msg["BTC"] = pack.msg["BTC"])
      BY <2>1, <2>2, PackingShape DEF Conf, Algos
    <2>5. /\ \A c \in Cells : c # pack.cell => node'[c] = node[c]
          /\ node'[pack.cell][pack.at] = specify[pack.at]
          /\ pack.at = "LTC" => node'[pack.cell]["BTC"] = node[pack.cell]["BTC"]
      BY <1>8, CopyKeeps DEF Algos
    <2>6. \A c \in known \ missed : has'[c] = node'[c] \/ c \in Untold'
      BY <1>2, <2>1, <2>3, <2>5 DEF Telling
    <2>7. pack'.at \in {"LTC", "send"} => pack'.msg["BTC"] = node'[pack'.cell]["BTC"]
      BY <2>1, <2>2, <2>4, <2>5 DEF Telling
    <2>8. pack'.at = "send" => pack'.msg["LTC"] = node'[pack'.cell]["LTC"]
      BY <2>1, <2>2, <2>4, <2>5
    <2>9. QED BY <1>0, <2>1, <2>6, <2>7, <2>8 DEF Telling
  <1>9. CASE JsonPackSend
    <2>1. /\ pack.at = "send" /\ has' = [has EXCEPT ![pack.cell] = pack.msg] /\ UNCHANGED <<node, flag>>
          /\ missed' = missed \ {pack.cell}
          /\ pack' = IF pack.done = Cells THEN Idle ELSE [at |-> "list", all |-> pack.all, done |-> pack.done]
      BY <1>9 DEF JsonPackSend, Told, Goes
    <2>2. pack.cell \in Cells /\ pack.msg \in Conf /\ node[pack.cell] \in Conf
      BY <2>1, PackingShape DEF PoolTypes, ListTypes
    <2>3. pack.msg = node[pack.cell]
      BY <2>1, <2>2, SameLists DEF Telling
    <2>4. has'[pack.cell] = node'[pack.cell] /\ \A c \in Cells : c # pack.cell => has'[c] = has[c]
      BY <2>1, <2>2, <2>3 DEF PoolTypes, ListTypes
    <2>5. ASSUME NEW c \in known, c \in Untold, c # pack.cell PROVE c \in Untold'
      <3>1. flag = FALSE
        BY <2>1 DEF Ordered, Idle, PoolTypes
      <3>2. c \in Target \ pack.done /\ c \in Cells
        BY <1>2, <2>1, <2>5, <3>1 DEF Untold
      <3>3. pack'.at = "list" /\ pack'.done = pack.done
        BY <2>1, <3>2
      <3>4. QED BY <1>0, <3>2, <3>3 DEF Untold
    <2>6. \A c \in (known \ missed)' : has'[c] = node'[c] \/ c \in Untold'
      BY <1>0, <1>2, <2>1, <2>4, <2>5 DEF Telling
    <2>7. pack'.at \in {"idle", "list"}
      BY <2>1 DEF Idle
    <2>8. QED BY <1>0, <2>6, <2>7 DEF Telling
  <1>10. QED BY <1>1, <1>4, <1>5, <1>6, <1>7, <1>8, <1>9 DEF Pack

LEMMA ToldStep ==
  ASSUME PoolTypes, OrderOK, ToldOK, Next
  PROVE  ToldOK'
  <1> DEFINE F == {"shell", "late", "lost", "unknown", "restart"}
  <1>1. SUFFICES ASSUME Without(F)' PROVE Telling'
    BY DEF ToldOK
  <1>2. \A f \in F : f \notin odd'
    BY <1>1 DEF Without
  <1>3. Without({"shell", "late"}) /\ Without(F)
    BY <1>2, OddGrows DEF Without
  <1>4. Ordered /\ Telling /\ ListTypes
    BY <1>3 DEF OrderOK, ToldOK, PoolTypes
  <1>5. ASSUME NEW c \in Cells, LoginNew(c) \/ LoginAgain(c) \/ CellDbOp(c) \/ AlarmCell(c) PROVE Telling'
    <2>1. UNCHANGED <<monitor, part, flag, mass, marked, pack>>
      BY <1>5 DEF LoginNew, LoginAgain, CellDbOp, AlarmCell
    <2>2. Untold' = Untold
      BY <2>1 DEF Untold, Target
    <2>3. CASE LoginNew(c)
      <3>1. has' = [has EXCEPT ![c] = Defaults] /\ node' = [node EXCEPT ![c] = Defaults]
            /\ known' = known \cup {c} /\ c \notin known /\ missed' = missed \ {c}
        BY <1>2, <2>3 DEF LoginNew, Told, Goes
      <3>2. \A d \in (known \ missed)' : has'[d] = node'[d] \/ d \in Untold
        BY <1>4, <3>1 DEF Telling, ListTypes
      <3>3. pack.at \in {"LTC", "send"} => node'[pack.cell] = node[pack.cell]
        BY <1>4, <3>1 DEF Ordered, ListTypes
      <3>4. QED BY <1>4, <2>1, <2>2, <3>2, <3>3 DEF Telling
    <2>4. CASE LoginAgain(c)
      <3>1. has' = [has EXCEPT ![c] = node[c]] /\ UNCHANGED <<known, node>> /\ missed' = missed \ {c}
        BY <1>2, <2>4 DEF LoginAgain, Told, Goes
      <3>2. \A d \in (known \ missed)' : has'[d] = node'[d] \/ d \in Untold
        BY <1>4, <3>1 DEF Telling, ListTypes
      <3>3. QED BY <1>4, <2>1, <2>2, <3>1, <3>2 DEF Telling
    <2>5. CASE CellDbOp(c) \/ AlarmCell(c)
      BY <1>4, <2>1, <2>2, <2>5 DEF CellDbOp, AlarmCell, Telling
    <2>6. QED BY <1>5, <2>3, <2>4, <2>5
  <1>6. ASSUME NEW c \in Cells, ShellSetpool(c) PROVE FALSE
    BY <1>2, <1>6 DEF ShellSetpool, Goes
  <1>7. ASSUME NEW c \in Cells, ReplyClear(c) PROVE Telling'
    <2>1. /\ UNCHANGED <<known, node, has, monitor, part, flag, mass, pack>> /\ marked' = marked \ {c}
          /\ missed' = IF flag \/ (pack # Idle /\ c \notin pack.done) THEN missed \cup {c} ELSE missed
      BY <1>7 DEF ReplyClear
    <2>2. \A d \in Target : d \in Target' \/ d = c
      BY <2>1 DEF Target
    <2>3. c \in Untold => c \in missed' \/ c \in Untold'
      <3>1. CASE flag \/ (pack # Idle /\ c \notin pack.done)
        BY <2>1, <3>1
      <3>2. CASE ~(flag \/ (pack # Idle /\ c \notin pack.done))
        BY <2>1, <3>2 DEF Untold, Idle
      <3>3. QED BY <3>1, <3>2
    <2>4. \A d \in Untold : d \in Untold' \/ d \in missed'
      BY <2>1, <2>2, <2>3 DEF Untold
    <2>5. missed \subseteq missed'
      BY <2>1
    <2>6. QED BY <1>4, <2>1, <2>4, <2>5 DEF Telling
  <1>8. ~Restart
    BY <1>2 DEF Restart, Goes
  <1>9. QED BY <1>2, <1>4, <1>5, <1>6, <1>7, <1>8, ToldMonitor, ToldPack DEF Next, Cell

-----------------------------------------------------------------------------
LEMMA MeantLists ==
  ASSUME NEW c
  PROVE  MeantFor(c, Empty) /\ MeantFor(c, Defaults)
  <1>1. ~(None > None)
    BY DEF None
  <1>2. \A a \in Algos : ~(Empty[a] > None) /\ ~(Defaults[a] > None)
    BY <1>1, Lists
  <1> HIDE DEF Empty, Defaults
  <1>3. QED BY <1>2 DEF MeantFor

LEMMA MeantSpecify ==
  ASSUME Intended, monitor.at \in {"fill", "cells", "wait"}, NEW c \in meant[n], n \in Nat
  PROVE  MeantFor(c, specify)
  BY DEF Intended, MeantFor, None

LEMMA MeantMonitor ==
  ASSUME PoolTypes, Intended, Setpool, "first" \notin odd'
  PROVE  Intended'
  <1>0. n \in Nat /\ n <= MaxCommands /\ MaxCommands \in Nat
    BY BoundsAssumption DEF PoolTypes, ListTypes
  <1>1. CASE SetBegin
    <2>1. /\ n + 1 \in 1 .. MaxCommands /\ n' = n + 1
          /\ monitor'.at = "clear" /\ monitor'.to = {}
          /\ UNCHANGED <<node, row>>
      BY <1>1, BeginStep DEF SetBegin
    <2>2. PICK cells \in SUBSET Cells :
             /\ meant' = [meant EXCEPT ![n + 1] = IF cells = {} THEN Cells ELSE cells]
             /\ monitor'.todo = cells /\ (monitor'.all <=> cells = {})
      BY <1>1, BeginStep
    <2>3. PICK C : C = IF cells = {} THEN Cells ELSE cells
      OBVIOUS
    <2>4. meant'[n + 1] = C /\ \A k \in 1 .. MaxCommands : k # n + 1 => meant'[k] = meant[k]
      BY <2>1, <2>2, <2>3 DEF PoolTypes, ListTypes
    <2>5. ASSUME NEW c \in Cells, NEW p \in Conf, MeantFor(c, p) PROVE MeantFor(c, p)'
      <3>1. ASSUME NEW a \in Algos, p[a] > None PROVE p[a] <= n' /\ c \in meant'[p[a]]
        <4>1. p[a] <= n /\ c \in meant[p[a]] /\ p[a] \in Int
          BY <2>5, <3>1 DEF MeantFor, Conf, Default
        <4>2. p[a] \in 1 .. MaxCommands /\ p[a] # n + 1
          <5>1. p[a] > 0
            BY <3>1 DEF None
          <5>2. QED BY <1>0, <4>1, <5>1
        <4>3. QED BY <1>0, <2>1, <2>4, <4>1, <4>2
      <3>2. QED BY <3>1 DEF MeantFor
    <2>6. \A c \in Cells : node[c] \in Conf /\ row[c].pools \in Conf
      BY DEF PoolTypes, ListTypes, Rows
    <2>7. \A c \in Cells : (MeantFor(c, node[c]) /\ MeantFor(c, row[c].pools))'
      BY <2>1, <2>5, <2>6 DEF Intended, MeantFor
    <2>8. /\ monitor'.todo \cup monitor'.to \subseteq meant'[n']
          /\ monitor'.all \/ monitor'.mass => meant'[n'] = Cells
      BY <1>1, <2>1, <2>2, <2>3, <2>4, BeginStep
    <2>9. QED BY <1>0, <2>1, <2>7, <2>8 DEF Intended
  <1> DEFINE Kept == \A c \in Cells : (MeantFor(c, node[c]) /\ MeantFor(c, row[c].pools))'
  <1>2. ASSUME UNCHANGED <<node, row, n, meant>> PROVE Kept
    BY <1>2 DEF Intended, MeantFor
  <1>3. CASE SpecifyClear \/ SpecifyFill
    <2>1. UNCHANGED <<node, row, n, meant>> /\ monitor.at \in {"clear", "fill"} /\ monitor # Idle
      <3>1. monitor.at \in {"clear", "fill"} => monitor # Idle
        BY DEF Idle
      <3>2. CASE SpecifyClear
        BY <3>1, <3>2 DEF SpecifyClear
      <3>3. CASE SpecifyFill
        BY <3>1, <3>3 DEF SpecifyFill
      <3>4. QED BY <1>3, <3>2, <3>3
    <2>2. /\ monitor'.at \in {"fill", "cells"} /\ monitor'.todo = monitor.todo
          /\ monitor'.to = monitor.to /\ monitor'.all = monitor.all /\ monitor'.mass = monitor.mass
      BY <1>3, MonitorSteps
    <2>3. \A a \in Algos : specify'[a] \in {None, n'}
      <3>1. CASE SpecifyClear
        BY <3>1, Lists DEF SpecifyClear
      <3>2. CASE SpecifyFill
        <4>1. PICK a \in monitor.algos : specify' = [specify EXCEPT ![a] = n]
          BY <3>2 DEF SpecifyFill
        <4>2. monitor.at = "fill"
          BY <3>2 DEF SpecifyFill
        <4>3. QED BY <2>1, <4>1, <4>2 DEF Intended, PoolTypes, ListTypes, Conf
      <3>3. QED BY <1>3, <3>1, <3>2
    <2>4. QED BY <1>2, <2>1, <2>2, <2>3 DEF Intended
  <1>4. CASE SpecifyTooMany \/ NoCells \/ SetFailed \/ WaitOver
    <2>1. UNCHANGED <<node, row, n, meant>> /\ monitor' = Idle
      BY <1>4 DEF SpecifyTooMany, NoCells, SetFailed, WaitOver
    <2>2. QED BY <1>2, <2>1 DEF Intended, Idle
  <1>5. CASE AllCells
    <2>1. UNCHANGED <<node, row, n, meant, specify>> /\ monitor.at = "cells" /\ monitor.all /\ monitor # Idle
      BY <1>5 DEF AllCells, Idle
    <2>2. monitor'.at = "cells" /\ monitor'.todo = known /\ monitor'.to = monitor.to /\ ~monitor'.all
      BY <1>5, MonitorSteps
    <2>3. meant[n] = Cells /\ known \subseteq Cells
      BY <2>1 DEF Intended, PoolTypes, ListTypes
    <2>4. monitor'.todo \cup monitor'.to \subseteq meant'[n']
      BY <2>1, <2>2, <2>3 DEF Intended
    <2>5. QED BY <1>2, <2>1, <2>2, <2>4 DEF Intended
  <1>6. ASSUME NEW c \in Cells, SetCell(c) PROVE Intended'
    <2>1. UNCHANGED <<n, meant, specify>> /\ monitor.at = "cells" /\ monitor # Idle
          /\ node' = [node EXCEPT ![c] = specify]
      BY <1>6 DEF SetCell, Idle
    <2>2. /\ monitor'.at = "cells" /\ monitor'.todo = monitor.todo \ {c} /\ monitor'.to = monitor.to \cup {c}
          /\ ~monitor'.all /\ monitor'.mass = monitor.mass /\ c \in monitor.todo
      BY <1>6, MonitorSteps
    <2>3. c \in meant[n]
      BY <2>1, <2>2 DEF Intended
    <2>4. MeantFor(c, specify) /\ MeantFor(c, Empty)
      BY <1>0, <2>1, <2>3, MeantSpecify, MeantLists
    <2>5. PICK r : r = Updated(row[c], specify)
      OBVIOUS
    <2>6. r.pools \in {specify, Empty}
      BY <2>5, RowLists DEF PoolTypes, ListTypes
    <2>7. row' = row \/ row' = [row EXCEPT ![c] = r]
      BY <1>6, <2>5 DEF SetCell
    <2>8. ASSUME NEW d \in Cells PROVE MeantFor(d, node'[d]) /\ MeantFor(d, row'[d].pools)
      <3>1. node'[d] = (IF d = c THEN specify ELSE node[d]) /\ row'[d] \in {row[d], IF d = c THEN r ELSE row[d]}
        BY <2>1, <2>7 DEF PoolTypes, ListTypes
      <3>2. QED BY <2>4, <2>6, <3>1 DEF Intended
    <2>9. Kept
      BY <2>1, <2>8 DEF MeantFor
    <2>10. monitor'.todo \cup monitor'.to \subseteq meant'[n']
      BY <2>1, <2>2 DEF Intended
    <2>11. QED BY <2>1, <2>2, <2>9, <2>10 DEF Intended
  <1>7. ASSUME NEW c \in Cells, SetUnknown(c) PROVE Intended'
    <2>1. UNCHANGED <<node, row, n, meant, specify>> /\ monitor.at = "cells" /\ monitor # Idle
      BY <1>7 DEF SetUnknown, Idle
    <2>2. /\ monitor'.at = "cells" /\ monitor'.todo = monitor.todo \ {c} /\ monitor'.to = monitor.to
          /\ monitor'.all = monitor.all /\ monitor'.mass = monitor.mass
      BY <1>7, MonitorSteps
    <2>3. QED BY <1>2, <2>1, <2>2 DEF Intended
  <1>8. CASE SetSend
    <2>1. UNCHANGED <<node, row, n, meant, specify>> /\ monitor.at = "cells" /\ monitor # Idle
          /\ part' = (IF monitor.mass THEN {} ELSE monitor.to) /\ mass' = monitor.mass
          /\ monitor' = [at |-> "wait"]
      BY <1>8 DEF SetSend, CellsDone, Mark, Idle
    <2>2. part' \subseteq meant[n] /\ (mass' => meant[n] = Cells)
      BY <2>1 DEF Intended
    <2>3. QED BY <1>2, <2>1, <2>2 DEF Intended
  <1>9. QED BY <1>1, <1>3, <1>4, <1>5, <1>6, <1>7, <1>8 DEF Setpool

LEMMA MeantStep ==
  ASSUME PoolTypes, OrderOK, MeantOK, Next
  PROVE  MeantOK'
  <1>1. SUFFICES ASSUME Without({"shell", "late", "first"})' PROVE Intended'
    BY DEF MeantOK
  <1>2. "shell" \notin odd' /\ "late" \notin odd' /\ "first" \notin odd'
    BY <1>1 DEF Without
  <1>3. Without({"shell", "late"}) /\ Without({"shell", "late", "first"})
    BY <1>2, OddGrows DEF Without
  <1>4. Ordered /\ Intended
    BY <1>3 DEF OrderOK, MeantOK
  <1>5. ASSUME UNCHANGED <<specify, monitor, part, mass, n, meant>>,
               \A c \in Cells : MeantFor(c, node'[c]) /\ MeantFor(c, row'[c].pools)
        PROVE  Intended'
    <2>1. \A c \in Cells : (MeantFor(c, node[c]) /\ MeantFor(c, row[c].pools))'
      BY <1>5 DEF MeantFor
    <2>2. QED BY <1>4, <1>5, <2>1 DEF Intended
  <1>6. ASSUME NEW c \in Cells, LoginNew(c) \/ LoginAgain(c) \/ CellDbOp(c) \/ AlarmCell(c) \/ ReplyClear(c)
        PROVE  Intended'
    <2>1. UNCHANGED <<specify, monitor, part, mass, n, meant>>
      BY <1>6 DEF LoginNew, LoginAgain, CellDbOp, AlarmCell, ReplyClear
    <2>2. PICK p, q : p = Inserted(Defaults) /\ q = Inserted(node[c])
      OBVIOUS
    <2>3. MeantFor(c, p.pools) /\ MeantFor(c, q.pools) /\ MeantFor(c, Defaults)
      BY <1>4, <2>2, MeantLists DEF Inserted, Intended
    <2>4. /\ node' = node \/ node' = [node EXCEPT ![c] = Defaults]
          /\ row' = row \/ row' = [row EXCEPT ![c] = p] \/ row' = [row EXCEPT ![c] = q]
      BY <1>6, <2>2 DEF LoginNew, LoginAgain, CellDbOp, AlarmCell, ReplyClear, Insert
    <2>5. ASSUME NEW d \in Cells PROVE MeantFor(d, node'[d]) /\ MeantFor(d, row'[d].pools)
      <3>1. /\ node'[d] \in {node[d], IF d = c THEN Defaults ELSE node[d]}
            /\ row'[d] \in {row[d], IF d = c THEN p ELSE row[d], IF d = c THEN q ELSE row[d]}
        BY <2>4 DEF PoolTypes, ListTypes
      <3>2. QED BY <1>4, <2>3, <3>1 DEF Intended
    <2>6. QED BY <1>5, <2>1, <2>5
  <1>7. ASSUME NEW c \in Cells, ShellSetpool(c) PROVE FALSE
    BY <1>2, <1>7 DEF ShellSetpool, Goes
  <1>8. CASE Restart
    <2>1. UNCHANGED <<n, meant, row>> /\ monitor' = Idle
      BY <1>8 DEF Restart
    <2>4. PICK up \in BOOLEAN : node' = [c \in Cells |-> IF up THEN Loaded(row[c]) ELSE Empty]
      BY <1>8 DEF Restart, Load
    <2>2. ASSUME NEW d \in Cells PROVE MeantFor(d, node'[d]) /\ MeantFor(d, row'[d].pools)
      <3>1. PICK p : p = IF up THEN Loaded(row[d]) ELSE Empty
        OBVIOUS
      <3>2. p \in {row[d].pools, Empty}
        BY <3>1, RowLists DEF PoolTypes, ListTypes
      <3>3. MeantFor(d, p)
        BY <1>4, <3>2, MeantLists DEF Intended
      <3>4. node'[d] = p
        BY <2>4, <3>1
      <3>5. QED BY <1>4, <2>1, <3>3, <3>4 DEF Intended
    <2>3. \A d \in Cells : (MeantFor(d, node[d]) /\ MeantFor(d, row[d].pools))'
      BY <2>1, <2>2 DEF MeantFor
    <2>5. QED BY <2>1, <2>3 DEF Intended, Idle
  <1>9. CASE Pack /\ ~JsonPackCopy
    <2>1. UNCHANGED <<specify, monitor, part, mass, n, meant, node, row>>
      BY <1>9 DEF Pack, PackShell, PackMonitor, PackEnd, PackCell, PackSkip, JsonPackSend
    <2>2. QED BY <1>4, <1>5, <2>1 DEF Intended
  <1>10. CASE JsonPackCopy
    <2>1. UNCHANGED <<specify, monitor, part, mass, n, meant, row>>
      BY <1>10 DEF JsonPackCopy
    <2>2. monitor.at = "wait" /\ pack.at \in {"BTC", "LTC"} /\ pack.cell \in Cells
      BY <1>4, <1>10, CopyKeeps, CopyStep DEF Algos
    <2>3. pack.cell \in meant[n]
      BY <1>4, <2>2, PackingShape DEF Ordered, Intended
    <2>4. MeantFor(pack.cell, specify) /\ MeantFor(pack.cell, node[pack.cell])
      <3>1. n \in Nat
        BY BoundsAssumption DEF PoolTypes
      <3>2. QED BY <1>4, <2>2, <2>3, <3>1, MeantSpecify DEF Intended
    <2>5. \A a \in Algos : node'[pack.cell][a] \in {specify[a], node[pack.cell][a]}
      BY <1>4, <1>10, CopyKeeps
    <2>6. MeantFor(pack.cell, node'[pack.cell])
      BY <2>4, <2>5 DEF MeantFor
    <2>7. \A c \in Cells : c # pack.cell => node'[c] = node[c]
      BY <1>4, <1>10, CopyKeeps
    <2>8. \A c \in Cells : MeantFor(c, node'[c]) /\ MeantFor(c, row'[c].pools)
      BY <1>4, <2>1, <2>6, <2>7 DEF Intended
    <2>9. QED BY <1>5, <2>1, <2>8
  <1>11. QED BY <1>2, <1>4, <1>6, <1>7, <1>8, <1>9, <1>10, MeantMonitor DEF Next, Cell

-----------------------------------------------------------------------------
LEMMA InvInit == Init => CellPoolsInv
  <1> SUFFICES ASSUME Init PROVE CellPoolsInv
    OBVIOUS
  <1>1. PoolTypes
    <2>1. /\ specify \in Conf /\ node \in [Cells -> Conf] /\ has \in [Cells -> Conf] /\ row \in [Cells -> Rows]
          /\ \A c \in Cells \ known : row[c] = NoRow \/ c \in unread
      BY Lists DEF Init
    <2>2. n \in 0 .. MaxCommands /\ meant \in [1 .. MaxCommands -> SUBSET Cells]
      BY BoundsAssumption DEF Init
    <2>3. QED BY <2>1, <2>2 DEF Init, PoolTypes, ListTypes, Idle
  <1>2. Ordered /\ Telling
    BY DEF Init, Ordered, Telling, Idle
  <1>3. Intended
    BY MeantLists DEF Init, Intended, Idle, NoRow
  <1>4. QED BY <1>1, <1>2, <1>3 DEF CellPoolsInv, OrderOK, RowsOK, ToldOK, MeantOK, Init

LEMMA InvStep == CellPoolsInv /\ [Next]_vars => CellPoolsInv'
  <1> SUFFICES ASSUME CellPoolsInv, [Next]_vars PROVE CellPoolsInv'
    OBVIOUS
  <1>1. CASE UNCHANGED vars
    BY <1>1 DEF vars, CellPoolsInv, PoolTypes, ListTypes, OrderOK, Ordered, Set,
                Fresh, Target, RowsOK, ToldOK, Telling, Untold, MeantOK, Intended, MeantFor, Without, Loaded
  <1>2. QED BY <1>1, TypesStep, OrderStep, RowsStep, ToldStep, MeantStep DEF CellPoolsInv

\* The four places keep to their types, and a cell's node holds only pools that
\* a command named the cell for, whatever the buffer is copied to when the
\* command is sent, unless the wait ended first, the shell sent the buffer or a
\* command left it as it was.
THEOREM PoolsMeant == Spec => []PoolsWellFormed
  <1>1. CellPoolsInv => PoolsWellFormed
    <2> SUFFICES ASSUME CellPoolsInv PROVE PoolsWellFormed
      OBVIOUS
    <2>1. PoolTypes
      BY DEF CellPoolsInv
    <2>2. TypeOK
      <3>1. monitor.at \in {"idle", "clear", "fill", "cells", "wait"}
        BY <2>1 DEF PoolTypes, ListTypes, Idle, Working
      <3>2. pack.at \in {"idle", "list", "BTC", "LTC", "send"}
        BY <2>1 DEF PoolTypes, ListTypes, Idle, Listing, Packing
      <3>3. \A c \in Cells : row[c].by \in {"none", "insert", "update"} /\ row[c].pools \in Conf
        BY <2>1 DEF PoolTypes, ListTypes, Rows
      <3>4. QED BY <2>1, <3>1, <3>2, <3>3 DEF PoolTypes, ListTypes, TypeOK
    <2>3. PoolsAreMeant
      BY <2>1 DEF CellPoolsInv, MeantOK, Intended, MeantFor, PoolsAreMeant, PoolTypes, ListTypes
    <2>4. QED BY <2>2, <2>3 DEF PoolsWellFormed
  <1>2. QED BY <1>1, InvInit, InvStep, PTL DEF Spec

\* When no command is in progress the cells work for the pools of their nodes:
\* what the node got when its command was looked up is what the cell is sent.
THEOREM CellsAreTold == Spec => []CellsHaveNodePools
  <1>1. CellPoolsInv => CellsHaveNodePools
    BY DEF CellPoolsInv, ToldOK, Telling, Untold, CellsHaveNodePools, Quiet, Idle
  <1>2. QED BY <1>1, InvInit, InvStep, PTL DEF Spec

\* The text of a row that was updated gives its pools back at the next start.
THEOREM UpdatedRowsLoad == Spec => []UpdatedRowsAreLoaded
  <1>1. CellPoolsInv => UpdatedRowsAreLoaded
    BY DEF CellPoolsInv, RowsOK, UpdatedRowsAreLoaded, Loaded, Empty, Algos
  <1>2. QED BY <1>1, InvInit, InvStep, PTL DEF Spec

=============================================================================
