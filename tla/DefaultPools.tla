---------------------------- MODULE DefaultPools ----------------------------
(***************************************************************************)
(* The pools that every new cell is told to work for. The dataserver sets  *)
(* them (cell.setdefaultpool); they are kept in gPoolDefaultConf and in    *)
(* the table pool_conf, and are loaded from the table at start.            *)
(* The thread of the monitor fills gPoolDefaultConf item by item while the *)
(* thread of login copies it to a cell, and no lock keeps them apart.      *)
(*                                                                         *)
(* A pool is its id, its algorithm and the command whose address, user and *)
(* password it holds: Nobody when a field was missing or after a memset.   *)
(* Slot i of BTC is slot[i] and slot i of LTC is slot[MaxPools + i], as    *)
(* the two arrays lie in stPoolFixedConf.                                  *)
(* The command answers with the result of its last query only.             *)
(***************************************************************************)
EXTENDS Integers

CONSTANTS MaxPools,   \* MAX_POOL_COUNT, 3
          MaxItems,   \* the items of a command that are read, 6
          MaxOrders   \* bound: the commands sent

ASSUME PoolsAssumption == MaxPools \in Nat \ {0} /\ MaxItems \in Nat
ASSUME OrdersAssumption == MaxOrders \in Nat

VARIABLES conf,   \* gPoolDefaultConf
          table,  \* pool_conf, by pool id
          order,  \* where ParseSetdefaultPoolCommand is
          sent,   \* the commands so far
          cell,   \* where PackJsonCellLogin is, how many pools of each algorithm it has
                  \* written to a new cell, and of which commands they are
          clean,  \* history: since the table was last emptied every query went through,
                  \* all items were whole, and neither algorithm had more than MaxPools
          fetched, \* history: the table was read at the start, or was emptied since
          over    \* history: the algorithms whose count went past MaxPools for a moment
                  \* while a cell was packed

history == <<clean, fetched, over>>
vars == <<conf, table, order, sent, cell, history>>

Algos == {"BTC", "LTC"}
Nobody == 0
Pool == [id : 0 .. MaxItems, algo : Algos, of : 0 .. MaxOrders]
NoPool == [id |-> 0, algo |-> "BTC", of |-> Nobody]
Slots == 0 .. 2 * MaxPools - 1

EmptyConf == [count |-> [a \in Algos |-> 0], slot |-> [i \in Slots |-> NoPool]]
Idle == [at |-> "idle"]

SlotOf(a, i) == IF a = "BTC" THEN i ELSE MaxPools + i

\* A write at index MaxPools of LTC lands behind the structure.
Written(c, a, i, p) ==
    IF SlotOf(a, i) \in Slots THEN [c EXCEPT !.slot[SlotOf(a, i)] = p] ELSE c

PoolsOf(c, a) == [i \in 1 .. c.count[a] |-> c.slot[SlotOf(a, i - 1)]]

\* What PackJsonCellLogin gives of a configuration that stands still.
Given(c) == [a \in Algos |-> IF c.count[a] <= MaxPools THEN PoolsOf(c, a) ELSE <<>>]

-----------------------------------------------------------------------------
(* Loading the table: InitDbToDefaultPool for each row *)

LoadCount(n) == IF n > MaxPools THEN MaxPools ELSE n + 1

LoadRow(c, p) ==
    [Written(c, p.algo, c.count[p.algo], p) EXCEPT !.count[p.algo] = LoadCount(@)]

Load(t) ==
    LET loaded[k \in 0 .. MaxItems] ==
            IF k = 0 THEN EmptyConf
            ELSE IF k \in DOMAIN t THEN LoadRow(loaded[k - 1], t[k]) ELSE loaded[k - 1]
    IN  loaded[MaxItems]

Replaced(t, p) == [k \in DOMAIN t \cup {p.id} |-> IF k = p.id THEN p ELSE t[k]]

Init ==
    /\ conf = EmptyConf
    /\ table = [k \in {} |-> NoPool]
    /\ order = Idle
    /\ sent = 0
    /\ cell = Idle
    /\ clean = TRUE /\ fetched = TRUE /\ over = {}

-----------------------------------------------------------------------------
(* ParseSetdefaultPoolCommand *)

\* The memset.
OrderBegin ==
    /\ order = Idle /\ sent < MaxOrders
    /\ sent' = sent + 1
    /\ conf' = EmptyConf
    /\ order' = [at |-> "delete"]
    /\ UNCHANGED <<table, cell, history>>

AtItem(k, last) == [at |-> "item", k |-> k, last |-> last]

\* Mutant: the rows of the command before stay.
OrderDeleteKept ==
    /\ order.at = "delete"
    /\ clean' = TRUE /\ fetched' = TRUE
    /\ order' = AtItem(1, NoPool)
    /\ UNCHANGED <<conf, table, sent, cell, over>>

OrderDelete ==
    /\ order.at = "delete"
    /\ \/ table' = [k \in {} |-> NoPool] /\ clean' = TRUE /\ fetched' = TRUE
       \/ clean' = FALSE /\ UNCHANGED <<table, fetched>>
    /\ order' = AtItem(1, NoPool)
    /\ UNCHANGED <<conf, sent, cell, over>>

\* ModifyBTCPool and ModifyLTCPool: a missing field leaves the rest of the slot.
ItemSlot ==
    /\ order.at = "item" /\ order.k <= MaxItems
    /\ \E a \in Algos, whole \in BOOLEAN :
          LET p == [id |-> order.k, algo |-> a, of |-> IF whole THEN sent ELSE Nobody]
          IN  /\ conf' = Written(conf, a, conf.count[a], p)
              /\ order' = [at |-> "count", k |-> order.k, last |-> p, whole |-> whole]
              /\ clean' = (clean /\ whole /\ conf.count[a] < MaxPools)
    /\ UNCHANGED <<table, sent, cell, fetched, over>>

ToInsert == order' = [at |-> "insert", k |-> order.k, last |-> order.last]

ItemBroken ==
    /\ order.at = "count" /\ ~order.whole
    /\ ToInsert
    /\ UNCHANGED <<conf, table, sent, cell, history>>

\* The count is raised where all see it, and goes back when it is too high.
ItemCount ==
    /\ order.at = "count" /\ order.whole
    /\ LET a == order.last.algo
       IN  /\ conf' = [conf EXCEPT !.count[a] = @ + 1]
           /\ over' = IF conf.count[a] = MaxPools /\ cell # Idle THEN over \cup {a} ELSE over
    /\ order' = [at |-> "cap", k |-> order.k, last |-> order.last]
    /\ UNCHANGED <<table, sent, cell, clean, fetched>>

ItemCap ==
    /\ order.at = "cap"
    /\ LET a == order.last.algo
       IN  conf' = IF conf.count[a] > MaxPools THEN [conf EXCEPT !.count[a] = MaxPools] ELSE conf
    /\ ToInsert
    /\ UNCHANGED <<table, sent, cell, history>>

\* An algorithm that does not exist: Packbuf still holds the item before.
ItemUnknown ==
    /\ order.at = "item" /\ order.k <= MaxItems
    /\ ToInsert
    /\ UNCHANGED <<conf, table, sent, cell, history>>

\* A query whose Packbuf is empty is an error of the database.
ItemInsert ==
    /\ order.at = "insert"
    /\ \/ /\ order.last # NoPool
          /\ table' = Replaced(table, order.last)
          /\ UNCHANGED clean
       \/ /\ clean' = (clean /\ order.last = NoPool)
          /\ UNCHANGED table
    /\ order' = AtItem(order.k + 1, order.last)
    /\ UNCHANGED <<conf, sent, cell, fetched, over>>

OrderEnd ==
    /\ order.at = "item"
    /\ order' = Idle
    /\ UNCHANGED <<conf, table, sent, cell, history>>

\* The process ends at any time (at an item without "algo", whose log line
\* reads the item that is NULL, for one) and killSwitch.sh starts it again.
\* InitDbAndDev reads the table once: if the database does not answer then,
\* there are no default pools until the next command.
Restart ==
    /\ \/ conf' = Load(table) /\ fetched' = TRUE
       \/ conf' = EmptyConf /\ fetched' = FALSE
    /\ order' = Idle
    /\ cell' = Idle
    /\ clean' = TRUE /\ over' = {}
    /\ UNCHANGED <<table, sent>>

-----------------------------------------------------------------------------
(* PackJsonCellLogin *)

CellBegin ==
    /\ cell = Idle
    /\ cell' = [at |-> "test", algo |-> "BTC", got |-> [a \in Algos |-> 0], of |-> {}]
    /\ over' = {}
    /\ UNCHANGED <<conf, table, order, sent, clean, fetched>>

Got == cell.got[cell.algo]

\* The loop goes on, or the next algorithm begins.
Goes(on, at) ==
    /\ cell' = IF on THEN [cell EXCEPT !.at = at]
               ELSE IF cell.algo = "BTC" THEN [cell EXCEPT !.at = "test", !.algo = "LTC"]
               ELSE [cell EXCEPT !.at = "packed"]
    /\ UNCHANGED <<conf, table, order, sent, history>>

\* The test of the loop reads the count twice, and the monitor may change it in
\* between and before the copy.
CellTest ==
    /\ cell.at = "test"
    /\ Goes(Got < conf.count[cell.algo], "second")

\* Mutant: the count is not compared with the length of the arrays.
CellSecondAny == cell.at = "second" /\ Goes(TRUE, "copy")

CellSecond ==
    /\ cell.at = "second"
    /\ Goes(conf.count[cell.algo] <= MaxPools, "copy")

\* Past the end of LTC the pool is whatever lies behind the structure.
CellCopy ==
    /\ cell.at = "copy"
    /\ \E n \in 0 .. MaxOrders :
          /\ LET i == SlotOf(cell.algo, Got) IN i \in Slots => n = conf.slot[i].of
          /\ cell' = [cell EXCEPT !.at = "test", !.got[cell.algo] = @ + 1, !.of = @ \cup ({n} \ {Nobody})]
    /\ UNCHANGED <<conf, table, order, sent, history>>

CellSent ==
    /\ cell.at = "packed"
    /\ cell' = Idle
    /\ over' = {}
    /\ UNCHANGED <<conf, table, order, sent, clean, fetched>>

Item == ItemSlot \/ ItemBroken \/ ItemCount \/ ItemCap \/ ItemUnknown \/ ItemInsert
Order == OrderBegin \/ OrderDelete \/ Item \/ OrderEnd
Cell == CellBegin \/ CellTest \/ CellSecond \/ CellCopy \/ CellSent

Next == Order \/ Cell \/ Restart

Spec == Init /\ [][Next]_vars

-----------------------------------------------------------------------------
\* Once a command is done and nothing of it failed, a restart gives new cells
\* the same pools: the table and gPoolDefaultConf agree. A restart in the
\* middle of a command leaves the part of it that was stored. The exception is
\* a start without the database, which leaves gPoolDefaultConf empty until the
\* table is emptied by a command.
TableHoldsDefaults ==
    (order = Idle /\ clean /\ fetched) => Given(Load(table)) = Given(conf)

\* However the commands, the restarts and the copy interleave, the lists of a
\* cell stay within the arrays of its node (CellPoolConf), but for an algorithm
\* whose count went past MaxPools for a moment while the cell was packed: its
\* list may have one pool too many, and never two.
CellListsFit ==
    cell # Idle =>
        \A a \in Algos : cell.got[a] <= MaxPools + (IF a \in over THEN 1 ELSE 0)

\* Refuted: the exceptions are needed. The database holds the pools and new
\* cells get none; a list outgrows its array, when the test of the loop reads
\* the count between "++" and the cap, and again behind it.
TableIsGiven == (order = Idle /\ clean) => Given(Load(table)) = Given(conf)
NoListOutgrows == cell # Idle => \A a \in Algos : cell.got[a] <= MaxPools

\* Refuted. "A default pool configuration is set; a new cell obtains the
\* information of this pool when it logs in" (api_monitor.c:1933): the pools
\* that a new cell gets are of one command.
CellGetsOneOrder ==
    cell.at = "packed" => \A m, n \in cell.of : m = n

\* Refuted. "At most 3 and at least 1" pools of an algorithm (db_mysql.c:387).
AtMostMaxPools == \A a \in Algos : conf.count[a] <= MaxPools
=============================================================================
