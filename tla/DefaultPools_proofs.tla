------------------------- MODULE DefaultPools_proofs -------------------------
(***************************************************************************)
(* Proofs about DefaultPools, for arrays and commands of any length: the   *)
(* table and gPoolDefaultConf agree after a command of which nothing       *)
(* failed, and no list of a cell outgrows the arrays of its node by more   *)
(* than the one pool that a count past its limit lets through.             *)
(***************************************************************************)
EXTENDS DefaultPools, WellFoundedInduction, TLAPS

-----------------------------------------------------------------------------
(* Induction, by the least number that is not in a set                     *)

LEMMA LeastNat ==
  ASSUME NEW T \in SUBSET Nat, T # {}
  PROVE  \E x \in T : \A y \in T : x <= y
  <1> DEFINE R == OpToRel(<, Nat)
  <1>1. IsWellFoundedOn(R, Nat)
    BY NatLessThanWellFounded
  <1>2. PICK x \in T : \A y \in T : <<y, x>> \notin R
    <2> HIDE DEF R
    <2> QED BY <1>1, WFMin
  <1>3. x \in Nat /\ \A y \in T : y \in Nat /\ ~(y < x)
    BY <1>2 DEF OpToRel
  <1>4. QED BY <1>3

LEMMA Induct ==
  ASSUME NEW S \in SUBSET Nat, 0 \in S, \A n \in S : n + 1 \in S
  PROVE  S = Nat
  <1> SUFFICES ASSUME Nat \ S # {} PROVE FALSE
    OBVIOUS
  <1>1. PICK x \in Nat \ S : \A y \in Nat \ S : x <= y
    BY LeastNat
  <1>2. x # 0 /\ x - 1 \in Nat
    BY <1>1
  <1>3. x - 1 \in S
    BY <1>1, <1>2
  <1>4. QED BY <1>1, <1>3

-----------------------------------------------------------------------------
(* Loading the table                                                       *)

\* What the rows of t up to k make of the configuration, if b is what the rows
\* before k make of it.
RowStep(t, k, b) == IF k \in DOMAIN t THEN LoadRow(b, t[k]) ELSE b

\* f holds the configuration after each of the rows 0 to n.
Loads(t, f, n) ==
    /\ DOMAIN f = 0 .. n
    /\ f[0] = EmptyConf
    /\ \A k \in 1 .. n : f[k] = RowStep(t, k, f[k - 1])

LEMMA LoadsExists ==
  ASSUME NEW t, NEW n \in Nat
  PROVE  \E f : f = [k \in 0 .. n |-> f[k]] /\ Loads(t, f, n)
  <1> DEFINE Good(m) == \E f : f = [k \in 0 .. m |-> f[k]] /\ Loads(t, f, m)
             S == {m \in Nat : Good(m)}
  <1>1. Good(0)
    <2>1. PICK f : f = [k \in 0 .. 0 |-> EmptyConf]
      OBVIOUS
    <2>2. f = [k \in 0 .. 0 |-> f[k]] /\ Loads(t, f, 0)
      BY <2>1 DEF Loads
    <2>3. QED BY <2>2
  <1>2. ASSUME NEW m \in Nat, Good(m) PROVE Good(m + 1)
    <2>1. PICK f : Loads(t, f, m)
      BY <1>2
    <2>2. PICK g : g = [k \in 0 .. m + 1 |-> IF k = m + 1 THEN RowStep(t, k, f[m]) ELSE f[k]]
      OBVIOUS
    <2>3. DOMAIN g = 0 .. m + 1 /\ g[m + 1] = RowStep(t, m + 1, f[m]) /\ \A k \in 0 .. m : g[k] = f[k]
      BY <2>2
    <2>4. ASSUME NEW k \in 1 .. m + 1 PROVE g[k] = RowStep(t, k, g[k - 1])
      <3>1. CASE k = m + 1
        BY <2>3, <3>1
      <3>2. CASE k # m + 1
        <4>1. k \in 1 .. m /\ k - 1 \in 0 .. m /\ k \in 0 .. m
          BY <3>2
        <4>2. QED BY <2>1, <2>3, <4>1 DEF Loads
      <3>3. QED BY <3>1, <3>2
    <2>5. g[0] = EmptyConf
      BY <2>1, <2>3 DEF Loads
    <2>6. g = [k \in 0 .. m + 1 |-> g[k]]
      BY <2>2
    <2>7. QED BY <2>3, <2>4, <2>5, <2>6 DEF Loads
  <1>3. S = Nat
    <2>1. 0 \in S /\ \A m \in S : m + 1 \in S
      BY <1>1, <1>2
    <2>2. QED BY <2>1, Induct
  <1>4. QED BY <1>3

LEMMA LoadIs ==
  ASSUME NEW t
  PROVE  \E f : Loads(t, f, MaxItems) /\ Load(t) = f[MaxItems]
  <1> DEFINE Rec(g) == [k \in 0 .. MaxItems |->
                          IF k = 0 THEN EmptyConf
                          ELSE IF k \in DOMAIN t THEN LoadRow(g[k - 1], t[k]) ELSE g[k - 1]]
             loaded == CHOOSE g : g = Rec(g)
  <1>0. MaxItems \in Nat
    BY PoolsAssumption
  <1>1. PICK f : f = [k \in 0 .. MaxItems |-> f[k]] /\ Loads(t, f, MaxItems)
    BY <1>0, LoadsExists
  <1>2. f = Rec(f)
    <2>1. ASSUME NEW k \in 0 .. MaxItems PROVE f[k] = Rec(f)[k]
      <3>1. CASE k = 0
        BY <1>1, <3>1 DEF Loads
      <3>2. CASE k # 0
        <4>1. k \in 1 .. MaxItems
          BY <1>0, <3>2
        <4>2. f[k] = RowStep(t, k, f[k - 1])
          BY <1>1, <4>1 DEF Loads
        <4>3. QED BY <3>2, <4>2 DEF RowStep
      <3>3. QED BY <3>1, <3>2
    <2>2. QED BY <1>1, <2>1
  <1>3. loaded = Rec(loaded)
    <2> HIDE DEF Rec
    <2>1. QED BY <1>2
  <1>4. Loads(t, loaded, MaxItems)
    <2> HIDE DEF loaded
    <2>1. DOMAIN loaded = 0 .. MaxItems /\ loaded[0] = EmptyConf
      BY <1>0, <1>3
    <2>2. ASSUME NEW k \in 1 .. MaxItems PROVE loaded[k] = RowStep(t, k, loaded[k - 1])
      <3>1. k \in 0 .. MaxItems /\ k # 0
        OBVIOUS
      <3>2. loaded[k] = Rec(loaded)[k]
        BY <1>3
      <3>3. QED BY <3>1, <3>2 DEF RowStep
    <2>3. QED BY <2>1, <2>2 DEF Loads
  <1>5. Load(t) = loaded[MaxItems]
    BY DEF Load
  <1>6. QED BY <1>4, <1>5

\* What holds of the empty configuration and is kept by every row holds at the
\* end; Q is the set of the configurations of which it holds.
LEMMA LoadKeeps ==
  ASSUME NEW t, NEW Q, EmptyConf \in Q, \A k \in DOMAIN t : \A b \in Q : LoadRow(b, t[k]) \in Q
  PROVE  Load(t) \in Q
  <1>0. MaxItems \in Nat
    BY PoolsAssumption
  <1>1. PICK f : Loads(t, f, MaxItems) /\ Load(t) = f[MaxItems]
    BY LoadIs
  <1> DEFINE S == {m \in Nat : m <= MaxItems => f[m] \in Q}
  <1>2. 0 \in S
    BY <1>1 DEF Loads
  <1>3. ASSUME NEW m \in S PROVE m + 1 \in S
    <2>1. CASE m + 1 <= MaxItems
      <3>1. m + 1 \in 1 .. MaxItems /\ f[m] \in Q
        BY <1>0, <2>1
      <3>2. f[m + 1] = RowStep(t, m + 1, f[m])
        BY <1>1, <3>1 DEF Loads
      <3>3. QED BY <3>1, <3>2 DEF RowStep
    <2>2. QED BY <2>1
  <1>4. S = Nat
    BY <1>2, <1>3, Induct
  <1>5. QED BY <1>0, <1>1, <1>4

LEMMA LoadNone ==
  ASSUME NEW t, DOMAIN t = {}
  PROVE  Load(t) = EmptyConf
  <1>1. Load(t) \in {EmptyConf}
    BY LoadKeeps
  <1>2. QED BY <1>1

\* A row behind all the others is the last to be loaded.
LEMMA LoadReplaced ==
  ASSUME NEW t, NEW p, p.id \in 1 .. MaxItems, DOMAIN t \subseteq 1 .. p.id - 1
  PROVE  Load(Replaced(t, p)) = LoadRow(Load(t), p)
  <1>0. MaxItems \in Nat
    BY PoolsAssumption
  <1> DEFINE u == Replaced(t, p)
  <1>1. DOMAIN u = DOMAIN t \cup {p.id} /\ u[p.id] = p /\ \A k \in DOMAIN t : u[k] = t[k]
    BY DEF Replaced
  <1> HIDE DEF u
  <1>2. PICK f : Loads(t, f, MaxItems) /\ Load(t) = f[MaxItems]
    BY LoadIs
  <1>3. PICK g : Loads(u, g, MaxItems) /\ Load(u) = g[MaxItems]
    BY LoadIs
  <1> DEFINE Same(m) == IF m < p.id THEN g[m] = f[m]
                        ELSE f[m] = f[p.id - 1] /\ g[m] = LoadRow(f[p.id - 1], p)
             S == {m \in Nat : m <= MaxItems => Same(m)}
  <1>4. 0 \in S
    BY <1>2, <1>3 DEF Loads
  <1>5. ASSUME NEW m \in S PROVE m + 1 \in S
    <2>1. CASE m + 1 <= MaxItems
      <3>1. m + 1 \in 1 .. MaxItems /\ Same(m) /\ (m + 1) - 1 = m
        BY <1>0, <2>1
      <3>2. f[m + 1] = RowStep(t, m + 1, f[m]) /\ g[m + 1] = RowStep(u, m + 1, g[m])
        BY <1>2, <1>3, <3>1 DEF Loads
      <3>3. CASE m + 1 < p.id
        <4>1. g[m] = f[m] /\ RowStep(u, m + 1, f[m]) = RowStep(t, m + 1, f[m])
          BY <1>1, <3>1, <3>3 DEF RowStep
        <4>2. QED BY <3>2, <3>3, <4>1
      <3>4. CASE m + 1 = p.id
        <4>1. m = p.id - 1 /\ g[m] = f[m] /\ p.id \notin DOMAIN t
          BY <3>1, <3>4
        <4>2. f[m + 1] = f[m] /\ g[m + 1] = LoadRow(f[m], p)
          BY <1>1, <3>2, <3>4, <4>1 DEF RowStep
        <4>3. QED BY <3>4, <4>1, <4>2
      <3>5. CASE m + 1 > p.id
        <4>1. f[m] = f[p.id - 1] /\ g[m] = LoadRow(f[p.id - 1], p)
          BY <3>1, <3>5
        <4>2. m + 1 \notin DOMAIN t /\ m + 1 \notin DOMAIN u
          BY <1>1, <3>5
        <4>3. QED BY <3>2, <3>5, <4>1, <4>2 DEF RowStep
      <3>6. QED BY <3>3, <3>4, <3>5
    <2>2. QED BY <2>1
  <1>6. S = Nat
    BY <1>4, <1>5, Induct
  <1>7. Same(MaxItems)
    BY <1>0, <1>6
  <1>8. QED BY <1>0, <1>2, <1>3, <1>7 DEF u

-----------------------------------------------------------------------------
(* The invariant                                                           *)

Confs == [count : [Algos -> 0 .. MaxPools + 1], slot : [Slots -> Pool]]

Orders ==
    {Idle} \cup [at : {"delete"}]
           \cup [at : {"item"}, k : 1 .. MaxItems + 1, last : Pool]
           \cup [at : {"count"}, k : 1 .. MaxItems, last : Pool, whole : BOOLEAN]
           \cup [at : {"cap", "insert"}, k : 1 .. MaxItems, last : Pool]

TableOK ==
    /\ table = [k \in DOMAIN table |-> table[k]]
    /\ DOMAIN table \subseteq 1 .. MaxItems
    /\ \A k \in DOMAIN table : table[k] \in Pool /\ table[k].id = k

\* The text in Packbuf is the one of an item that was read, this or an earlier.
OrderOK ==
    /\ order \in Orders
    /\ order.at \in {"count", "cap"} => order.last.id = order.k
    /\ order.at \in {"item", "insert"} => order.last = NoPool \/ order.last.id \in 1 .. order.k

\* A command has reset the counts; the one just raised may be too high.
CountOK ==
    \A a \in Algos :
        order.at \in {"delete", "item", "count", "insert"} \/ (order.at = "cap" /\ order.last.algo # a)
            => conf.count[a] <= MaxPools

\* The place past the array that a count past MaxPools opens.
Extra(a) == IF a \in over THEN 1 ELSE 0

\* A pool is copied only to a place that was there when the count was read. A
\* count that was too high before the cell was packed lets none through.
Cells == [at : {"test", "second", "copy", "packed"}, algo : Algos,
          got : [Algos -> 0 .. MaxPools + 1], of : SUBSET (0 .. MaxOrders)]
CellOK ==
    cell # Idle =>
        /\ cell \in Cells
        /\ \A a \in Algos :
              /\ cell.got[a] <= MaxPools + Extra(a)
              /\ conf.count[a] > MaxPools /\ a \notin over =>
                    cell.got[a] < MaxPools /\ (cell.algo = a => cell.at # "copy")
        /\ cell.at \in {"second", "copy"} => Got < MaxPools + Extra(cell.algo)

Types ==
    /\ conf \in Confs
    /\ TableOK
    /\ OrderOK
    /\ CountOK
    /\ CellOK
    /\ sent \in 0 .. MaxOrders
    /\ clean \in BOOLEAN /\ fetched \in BOOLEAN /\ over \subseteq Algos

\* The rows of a clean command are those of its items so far.
Stored == DOMAIN table \subseteq 1 .. order.k - 1

\* The pool in Packbuf is in the table, so that storing it again changes nothing.
Repeats == order.last = NoPool \/ (order.last.id \in DOMAIN table /\ table[order.last.id] = order.last)

\* Where gPoolDefaultConf stands against the table at each step of a command of
\* which nothing failed so far.
AgreeIdle == order = Idle => conf = Load(table)
AgreeItem == order.at = "item" => conf = Load(table) /\ Stored /\ Repeats
AgreeCount ==
    order.at = "count" =>
        LET c == Load(table)
            a == order.last.algo
        IN  /\ conf = Written(c, a, c.count[a], order.last)
            /\ order.whole /\ c.count[a] < MaxPools /\ Stored
AgreeCap ==
    order.at = "cap" =>
        LET c == Load(table)
            a == order.last.algo
        IN  /\ conf = [Written(c, a, c.count[a], order.last) EXCEPT !.count[a] = @ + 1]
            /\ c.count[a] < MaxPools /\ Stored
AgreeInsert ==
    order.at = "insert" =>
        /\ Stored
        /\ \/ order.last.id = order.k /\ conf = LoadRow(Load(table), order.last)
           \/ Repeats /\ conf = Load(table)

Sound == clean /\ fetched
AgreeOK ==
    /\ order.at = "delete" => conf = EmptyConf
    /\ Sound => AgreeIdle /\ AgreeItem /\ AgreeCount /\ AgreeCap /\ AgreeInsert

PoolsInv == Types /\ AgreeOK

-----------------------------------------------------------------------------
(* Types                                                                   *)

LEMMA Constants ==
  /\ MaxPools \in Nat \ {0} /\ MaxItems \in Nat /\ MaxOrders \in Nat
  /\ NoPool \in Pool /\ EmptyConf \in Confs /\ Nobody \in 0 .. MaxOrders
  BY PoolsAssumption, OrdersAssumption DEF NoPool, Pool, Nobody, EmptyConf, Confs, Algos, Slots

LEMMA WrittenType ==
  ASSUME NEW c \in Confs, NEW a \in Algos, NEW p \in Pool
  PROVE  LET w == Written(c, a, c.count[a], p)
         IN  w \in Confs /\ w.count = c.count
  BY DEF Written, Confs

LEMMA CountType ==
  ASSUME NEW c \in Confs, NEW a \in Algos, NEW n \in 0 .. MaxPools + 1
  PROVE  [c EXCEPT !.count[a] = n] \in Confs
  BY DEF Confs

LEMMA LoadRowType ==
  ASSUME NEW c \in Confs, NEW p \in Pool
  PROVE  LoadRow(c, p) \in Confs
  <1>1. p.algo \in Algos
    BY DEF Pool
  <1>2. PICK w : w = Written(c, p.algo, c.count[p.algo], p)
    OBVIOUS
  <1>3. w \in Confs
    BY <1>1, <1>2, WrittenType
  <1>4. LoadCount(w.count[p.algo]) \in 0 .. MaxPools + 1
    <2>1. w.count[p.algo] \in 0 .. MaxPools + 1
      BY <1>1, <1>3 DEF Confs
    <2>2. QED BY <2>1, Constants DEF LoadCount
  <1>5. LoadRow(c, p) = [w EXCEPT !.count[p.algo] = LoadCount(w.count[p.algo])]
    BY <1>2 DEF LoadRow
  <1>6. QED BY <1>1, <1>3, <1>4, <1>5, CountType

LEMMA LoadType ==
  ASSUME TableOK
  PROVE  Load(table) \in Confs
  <1>1. \A k \in DOMAIN table : \A b \in Confs : LoadRow(b, table[k]) \in Confs
    BY LoadRowType DEF TableOK
  <1>2. QED BY <1>1, Constants, LoadKeeps

LEMMA OrderShape ==
  ASSUME order \in Orders
  PROVE  /\ order.at \in {"idle", "delete", "item", "count", "cap", "insert"}
         /\ order.at = "item" => order.k \in 1 .. MaxItems + 1 /\ order.last \in Pool
         /\ order.at = "count" => order.k \in 1 .. MaxItems /\ order.last \in Pool /\ order.whole \in BOOLEAN
         /\ order.at \in {"cap", "insert"} => order.k \in 1 .. MaxItems /\ order.last \in Pool
         /\ order.at = "idle" => order = Idle
  BY DEF Orders, Idle

\* Whatever the monitor does to the counts, what the cell has read still holds.
LEMMA CellKept ==
  ASSUME Types, cell' = cell, over \subseteq over', over' \subseteq Algos, conf' \in Confs,
         \A a \in Algos : \/ conf'.count[a] <= conf.count[a]
                         \/ conf'.count[a] <= MaxPools
                         \/ (cell # Idle => a \in over')
  PROVE  CellOK'
  <1> USE Constants DEF Types
  <1>1. SUFFICES ASSUME cell # Idle PROVE CellOK'
    BY DEF CellOK
  <1>2. cell \in Cells /\ cell.algo \in Algos /\ \A a \in Algos : cell.got[a] \in 0 .. MaxPools + 1
    BY <1>1 DEF CellOK, Cells
  <1>3. ASSUME NEW a \in Algos
        PROVE  /\ Extra(a) \in {0, 1} /\ Extra(a)' \in {0, 1} /\ Extra(a) <= Extra(a)'
               /\ conf.count[a] \in Nat /\ conf'.count[a] \in Nat
               /\ conf'.count[a] > MaxPools /\ a \notin over' => conf.count[a] > MaxPools /\ a \notin over
    BY <1>1 DEF Extra, Confs
  <1>4. ASSUME NEW a \in Algos
        PROVE  /\ cell'.got[a] <= MaxPools + Extra(a)'
               /\ conf'.count[a] > MaxPools /\ a \notin over' =>
                     cell'.got[a] < MaxPools /\ (cell'.algo = a => cell'.at # "copy")
    <2>1. cell.got[a] <= MaxPools + Extra(a)
      BY <1>1 DEF CellOK
    <2>2. cell'.got[a] <= MaxPools + Extra(a)'
      BY <1>2, <1>3, <2>1
    <2>3. QED BY <1>1, <1>3, <2>2 DEF CellOK
  <1>5. ASSUME cell'.at \in {"second", "copy"} PROVE Got' < MaxPools + Extra(cell.algo)'
    <2>1. PICK a \in Algos : a = cell.algo
      BY <1>2
    <2>2. cell.got[a] < MaxPools + Extra(a)
      BY <1>1, <1>5, <2>1 DEF CellOK, Got
    <2>3. cell.got[a] < MaxPools + Extra(a)'
      BY <1>2, <1>3, <2>2
    <2>4. Extra(cell.algo)' = Extra(a)'
      BY <2>1 DEF Extra
    <2>5. QED BY <2>1, <2>3, <2>4 DEF Got
  <1>6. QED BY <1>2, <1>4, <1>5 DEF CellOK

LEMMA SlotTypes ==
  ASSUME Types, ItemSlot
  PROVE  Types'
  <1> USE Constants DEF Types
  <1>1. UNCHANGED <<table, sent, cell, fetched, over>>
    BY DEF ItemSlot
  <1>2. PICK a \in Algos, whole \in BOOLEAN :
             LET p == [id |-> order.k, algo |-> a, of |-> IF whole THEN sent ELSE Nobody]
             IN  /\ conf' = Written(conf, a, conf.count[a], p)
                 /\ order' = [at |-> "count", k |-> order.k, last |-> p, whole |-> whole]
                 /\ clean' = (clean /\ whole /\ conf.count[a] < MaxPools)
    BY DEF ItemSlot
  <1>3. PICK p :
             /\ p = [id |-> order.k, algo |-> a, of |-> IF whole THEN sent ELSE Nobody]
             /\ conf' = Written(conf, a, conf.count[a], p)
             /\ order' = [at |-> "count", k |-> order.k, last |-> p, whole |-> whole]
             /\ clean' = (clean /\ whole /\ conf.count[a] < MaxPools)
    BY <1>2
  <1>4. order.at = "item" /\ order.k \in 1 .. MaxItems
    BY OrderShape DEF ItemSlot, OrderOK
  <1>5. p \in Pool /\ p.id = order.k
    BY <1>3, <1>4 DEF Pool
  <1>6. conf' \in Confs /\ conf'.count = conf.count
    BY <1>3, <1>5, WrittenType
  <1>7. OrderOK'
    BY <1>3, <1>4, <1>5 DEF OrderOK, Orders
  <1>8. CountOK'
    BY <1>3, <1>4, <1>6 DEF CountOK
  <1>9. CellOK'
    <2>1. \A b \in Algos : conf'.count[b] <= conf.count[b]
      BY <1>6 DEF Confs
    <2>2. over \subseteq over' /\ over' \subseteq Algos /\ cell' = cell
      BY <1>1
    <2> HIDE DEF Types
    <2>3. QED BY <1>6, <2>1, <2>2, CellKept
  <1>10. clean' \in BOOLEAN /\ TableOK'
    BY <1>1, <1>3 DEF TableOK
  <1>11. QED BY <1>1, <1>6, <1>7, <1>8, <1>9, <1>10

LEMMA CountTypes ==
  ASSUME Types, ItemCount \/ ItemCap \/ ItemBroken
  PROVE  Types'
  <1> USE Constants DEF Types
  <1>1. UNCHANGED <<table, sent, cell, clean, fetched>> /\ TableOK'
    BY DEF ItemCount, ItemCap, ItemBroken, history, TableOK
  <1>2. PICK a \in Algos, p \in Pool : p = order.last /\ a = p.algo /\ p.id = order.k /\ order.k \in 1 .. MaxItems
    BY OrderShape DEF ItemCount, ItemCap, ItemBroken, OrderOK, Pool
  <1>3. \A b \in Algos : conf.count[b] \in 0 .. MaxPools + 1
    BY DEF Confs
  <1>4. CASE ItemCount
    <2>1. order.at = "count" /\ order' = [at |-> "cap", k |-> order.k, last |-> p]
      BY <1>2, <1>4 DEF ItemCount
    <2>2. \A b \in Algos : conf.count[b] <= MaxPools
      BY <2>1 DEF CountOK
    <2>3. /\ conf' = [conf EXCEPT !.count[a] = conf.count[a] + 1]
          /\ over' = IF conf.count[a] = MaxPools /\ cell # Idle THEN over \cup {a} ELSE over
      BY <1>2, <1>4 DEF ItemCount
    <2>4. conf' \in Confs
      BY <1>3, <2>2, <2>3, CountType
    <2>5. conf'.count[a] = conf.count[a] + 1 /\ \A b \in Algos \ {a} : conf'.count[b] = conf.count[b]
      BY <2>3 DEF Confs
    <2>6. OrderOK' /\ CountOK'
      BY <1>2, <2>1, <2>2, <2>5 DEF OrderOK, Orders, CountOK
    <2>7. over \subseteq over' /\ over' \subseteq Algos
      BY <2>3
    <2>8. CellOK'
      <3>1. conf'.count[a] <= MaxPools \/ (cell # Idle => a \in over')
        BY <1>3, <2>2, <2>3, <2>5
      <3>2. \A b \in Algos \ {a} : conf'.count[b] <= conf.count[b]
        BY <1>3, <2>5
      <3>3. \A b \in Algos : \/ conf'.count[b] <= conf.count[b]
                            \/ conf'.count[b] <= MaxPools
                            \/ (cell # Idle => b \in over')
        BY <3>1, <3>2
      <3>4. cell' = cell
        BY <1>1
      <3> HIDE DEF Types
      <3>5. QED BY <2>4, <2>7, <3>3, <3>4, CellKept
    <2>9. QED BY <1>1, <2>4, <2>6, <2>7, <2>8
  <1>5. CASE ItemCap \/ ItemBroken
    <2>1. order' = [at |-> "insert", k |-> order.k, last |-> p] /\ over' = over /\ order.at \in {"count", "cap"}
      BY <1>2, <1>5 DEF ItemCap, ItemBroken, ToInsert, history
    <2>2. \/ conf' = conf
          \/ conf' = [conf EXCEPT !.count[a] = MaxPools] /\ conf.count[a] > MaxPools
      BY <1>2, <1>5 DEF ItemCap, ItemBroken
    <2>3. conf' \in Confs
      BY <2>2, CountType
    <2>4. \A b \in Algos : conf'.count[b] <= conf.count[b] /\ (b # a => conf'.count[b] = conf.count[b])
      BY <1>3, <2>2 DEF Confs
    <2>5. \A b \in Algos : conf'.count[b] <= MaxPools
      <3>1. \A b \in Algos \ {a} : conf.count[b] <= MaxPools
        BY <1>2, <2>1 DEF CountOK
      <3>2. conf'.count[a] <= MaxPools
        <4>1. CASE ItemCap
          BY <1>2, <1>3, <4>1 DEF ItemCap, Confs
        <4>2. CASE ItemBroken
          BY <1>3, <2>4, <4>2 DEF ItemBroken, CountOK
        <4>3. QED BY <1>5, <4>1, <4>2
      <3>3. QED BY <2>4, <3>1, <3>2
    <2>6. OrderOK' /\ CountOK'
      BY <1>2, <2>1, <2>5 DEF OrderOK, Orders, CountOK
    <2>7. CellOK'
      <3>1. over \subseteq over' /\ over' \subseteq Algos /\ cell' = cell
        BY <1>1, <2>1
      <3> HIDE DEF Types
      <3>2. QED BY <2>3, <2>4, <3>1, CellKept
    <2>8. QED BY <1>1, <2>1, <2>3, <2>6, <2>7
  <1>6. QED BY <1>4, <1>5

LEMMA OrderTypes ==
  ASSUME Types, OrderBegin \/ OrderDelete \/ ItemUnknown \/ ItemInsert \/ OrderEnd
  PROVE  Types'
  <1> USE Constants DEF Types
  <1>1. /\ UNCHANGED <<cell, over>> /\ (conf' = conf \/ conf' = EmptyConf)
        /\ clean' \in BOOLEAN /\ fetched' \in BOOLEAN
    BY DEF OrderBegin, OrderDelete, ItemUnknown, ItemInsert, OrderEnd, history
  <1>2. CellOK' /\ conf' \in Confs
    <2>1. conf' \in Confs /\ \A a \in Algos : conf'.count[a] <= conf.count[a] \/ conf'.count[a] <= MaxPools
      BY <1>1 DEF Confs, EmptyConf
    <2>2. over \subseteq over' /\ over' \subseteq Algos /\ cell' = cell
      BY <1>1
    <2> HIDE DEF Types
    <2>3. QED BY <2>1, <2>2, CellKept
  <1>3. sent' \in 0 .. MaxOrders
    BY DEF OrderBegin, OrderDelete, ItemUnknown, ItemInsert, OrderEnd
  <1>4. TableOK'
    <2>1. CASE UNCHANGED table
      BY <2>1 DEF TableOK
    <2>2. CASE table' = [k \in {} |-> NoPool]
      BY <2>2 DEF TableOK
    <2>3. CASE ItemInsert /\ order.last # NoPool /\ table' = Replaced(table, order.last)
      <3>1. order.at = "insert" /\ order.k \in 1 .. MaxItems /\ order.last \in Pool /\ order.last.id \in 1 .. order.k
        BY <2>3, OrderShape DEF ItemInsert, OrderOK
      <3>2. order.last.id \in 1 .. MaxItems
        BY <3>1
      <3>3. PICK p : p = order.last
        OBVIOUS
      <3>4. table' = [k \in DOMAIN table \cup {p.id} |-> IF k = p.id THEN p ELSE table[k]]
        BY <2>3, <3>3 DEF Replaced
      <3>5. QED BY <3>1, <3>2, <3>3, <3>4 DEF TableOK
    <2>4. QED BY <2>1, <2>2, <2>3 DEF OrderBegin, OrderDelete, ItemUnknown, ItemInsert, OrderEnd
  <1>5. OrderOK'
    <2>1. CASE OrderBegin \/ OrderEnd
      BY <2>1 DEF OrderBegin, OrderEnd, OrderOK, Orders, Idle
    <2>2. CASE OrderDelete
      BY <2>2 DEF OrderDelete, AtItem, OrderOK, Orders
    <2>3. CASE ItemUnknown
      <3>1. order.at = "item" /\ order.k \in 1 .. MaxItems /\ order.last \in Pool
        BY <2>3, OrderShape DEF ItemUnknown, OrderOK
      <3>2. order' = [at |-> "insert", k |-> order.k, last |-> order.last]
        BY <2>3 DEF ItemUnknown, ToInsert
      <3>3. QED BY <3>1, <3>2 DEF OrderOK, Orders
    <2>4. CASE ItemInsert
      <3>1. order.at = "insert" /\ order.k \in 1 .. MaxItems /\ order.last \in Pool
        BY <2>4, OrderShape DEF ItemInsert, OrderOK
      <3>2. order' = [at |-> "item", k |-> order.k + 1, last |-> order.last]
        BY <2>4 DEF ItemInsert, AtItem
      <3>3. order.last = NoPool \/ order.last.id \in 1 .. order.k + 1
        BY <3>1 DEF OrderOK
      <3>4. QED BY <3>1, <3>2, <3>3 DEF OrderOK, Orders
    <2>5. QED BY <2>1, <2>2, <2>3, <2>4
  <1>6. CountOK'
    <2>1. CASE OrderBegin
      BY <2>1 DEF OrderBegin, EmptyConf, CountOK
    <2>2. CASE OrderEnd
      BY <2>2 DEF OrderEnd, Idle, CountOK
    <2>3. CASE OrderDelete \/ ItemUnknown \/ ItemInsert
      BY <2>3 DEF OrderDelete, ItemUnknown, ItemInsert, AtItem, ToInsert, CountOK
    <2>4. QED BY <2>1, <2>2, <2>3
  <1>7. QED BY <1>1, <1>2, <1>3, <1>4, <1>5, <1>6

LEMMA CellTypes ==
  ASSUME Types, Cell
  PROVE  Types'
  <1> USE Constants DEF Types
  <1>1. UNCHANGED <<conf, table, order, sent, clean, fetched>> /\ over' \subseteq Algos
    BY DEF Cell, CellBegin, CellTest, CellSecond, CellCopy, CellSent, Goes, history
  <1>2. CellOK'
    <2>1. CASE CellBegin
      <3>1. cell' = [at |-> "test", algo |-> "BTC", got |-> [a \in Algos |-> 0], of |-> {}]
        BY <2>1 DEF CellBegin
      <3>2. \A a \in Algos : Extra(a)' \in {0, 1} /\ cell'.got[a] = 0
        BY <3>1 DEF Extra
      <3>3. QED BY <3>1, <3>2 DEF CellOK, Cells, Algos
    <2>2. CASE CellSent
      BY <2>2 DEF CellSent, CellOK
    <2>3. CASE CellTest \/ CellSecond \/ CellCopy
      <3>1. cell # Idle /\ over' = over
        <4>1. cell.at \in {"test", "second", "copy"}
          BY <2>3 DEF CellTest, CellSecond, CellCopy
        <4>2. over' = over
          BY <2>3 DEF CellTest, CellSecond, CellCopy, Goes, history
        <4>3. QED BY <4>1, <4>2 DEF Idle
      <3>2. PICK a \in Algos, g \in [Algos -> 0 .. MaxPools + 1], o \in SUBSET (0 .. MaxOrders) :
                 /\ cell.algo = a /\ cell.got = g /\ cell.of = o
                 /\ cell = [at |-> cell.at, algo |-> a, got |-> g, of |-> o]
        BY <3>1 DEF CellOK, Cells
      <3>3. \A b \in Algos : /\ Extra(b) \in {0, 1} /\ Extra(b)' = Extra(b)
                             /\ conf.count[b] \in 0 .. MaxPools + 1 /\ g[b] \in 0 .. MaxPools + 1
        BY <3>1 DEF Extra, Confs
      <3>4. \A b \in Algos :
                 /\ g[b] <= MaxPools + Extra(b)
                 /\ conf.count[b] > MaxPools /\ b \notin over =>
                       g[b] < MaxPools /\ (a = b => cell.at # "copy")
        BY <3>1, <3>2 DEF CellOK
      <3>5. CASE CellTest \/ CellSecond
        <4>1. PICK at \in {"second", "copy"} :
                 \/ cell' = [at |-> at, algo |-> a, got |-> g, of |-> o]
                 \/ cell' = [at |-> "test", algo |-> "LTC", got |-> g, of |-> o]
                 \/ cell' = [at |-> "packed", algo |-> a, got |-> g, of |-> o]
          BY <3>2, <3>5 DEF CellTest, CellSecond, Goes
        <4>2. ASSUME cell'.at \in {"second", "copy"}
              PROVE  /\ cell' = [at |-> cell'.at, algo |-> a, got |-> g, of |-> o]
                     /\ g[a] < MaxPools + Extra(a)
                     /\ cell'.at = "copy" => conf.count[a] <= MaxPools
          <5>1. CASE CellTest
            <6>1. g[a] < conf.count[a] /\ cell' = [at |-> "second", algo |-> a, got |-> g, of |-> o]
              BY <3>2, <4>2, <5>1 DEF CellTest, Goes, Got
            <6>2. g[a] < MaxPools + Extra(a)
              <7>1. CASE a \in over
                BY <3>3, <6>1, <7>1 DEF Extra
              <7>2. CASE a \notin over
                BY <3>3, <3>4, <6>1, <7>2 DEF Extra
              <7>3. QED BY <7>1, <7>2
            <6>3. QED BY <6>1, <6>2
          <5>2. CASE CellSecond
            <6>1. conf.count[a] <= MaxPools /\ cell' = [at |-> "copy", algo |-> a, got |-> g, of |-> o]
              BY <3>2, <4>2, <5>2 DEF CellSecond, Goes
            <6>2. g[a] < MaxPools + Extra(a)
              BY <3>1, <3>2, <5>2 DEF CellOK, Got, CellSecond
            <6>3. QED BY <6>1, <6>2
          <5>3. QED BY <3>5, <5>1, <5>2
        <4>3. cell' \in Cells /\ cell'.got = g
          <5>1. "LTC" \in Algos
            BY DEF Algos
          <5>2. PICK at2 \in {"test", "second", "copy", "packed"}, a2 \in Algos :
                   cell' = [at |-> at2, algo |-> a2, got |-> g, of |-> o]
            BY <4>1, <5>1
          <5>3. QED BY <5>2 DEF Cells
        <4>4. cell'.at \in {"second", "copy"} => Got' < MaxPools + Extra(cell.algo)'
          <5>1. SUFFICES ASSUME cell'.at \in {"second", "copy"} PROVE Got' < MaxPools + Extra(cell.algo)'
            OBVIOUS
          <5>2. cell'.algo = a /\ cell'.got = g /\ g[a] < MaxPools + Extra(a)
            BY <4>2, <4>3, <5>1
          <5>3. Extra(cell.algo)' = Extra(a)
            BY <3>1, <5>2 DEF Extra
          <5>4. QED BY <5>2, <5>3 DEF Got
        <4>5. \A b \in Algos :
                 conf.count[b] > MaxPools /\ b \notin over =>
                       g[b] < MaxPools /\ (cell'.algo = b => cell'.at # "copy")
          <5>1. SUFFICES ASSUME NEW b \in Algos, conf.count[b] > MaxPools, b \notin over,
                                cell'.algo = b, cell'.at = "copy"
                         PROVE  FALSE
            BY <3>4
          <5>2. a = b /\ conf.count[a] <= MaxPools
            BY <4>2, <5>1
          <5>3. QED BY <3>3, <5>1, <5>2
        <4>6. QED BY <1>1, <3>1, <3>3, <3>4, <4>3, <4>4, <4>5 DEF CellOK
      <3>6. CASE CellCopy
        <4>1. cell.at = "copy" /\ g[a] < MaxPools + Extra(a)
          BY <3>1, <3>2, <3>6 DEF CellOK, Got, CellCopy
        <4>2. PICK h : h = [g EXCEPT ![a] = g[a] + 1]
          OBVIOUS
        <4>3. PICK n \in 0 .. MaxOrders :
                 cell' = [cell EXCEPT !.at = "test", !.got[cell.algo] = @ + 1, !.of = @ \cup ({n} \ {Nobody})]
          BY <3>6 DEF CellCopy
        <4>4. cell' = [at |-> "test", algo |-> a, got |-> h, of |-> o \cup ({n} \ {Nobody})]
          BY <3>2, <4>2, <4>3
        <4>5. h \in [Algos -> 0 .. MaxPools + 1] /\ h[a] = g[a] + 1 /\ \A b \in Algos \ {a} : h[b] = g[b]
          BY <3>3, <4>1, <4>2
        <4>6. conf.count[a] <= MaxPools \/ a \in over
          BY <3>3, <3>4, <4>1
        <4>7. \A b \in Algos : h[b] <= MaxPools + Extra(b)
          BY <3>3, <3>4, <4>1, <4>5
        <4>8. \A b \in Algos : conf.count[b] > MaxPools /\ b \notin over => h[b] < MaxPools
          BY <3>3, <3>4, <4>5, <4>6
        <4>9. cell' \in Cells /\ cell'.got = h /\ cell'.at = "test"
          BY <4>4, <4>5 DEF Cells
        <4>10. QED BY <1>1, <3>1, <3>3, <4>7, <4>8, <4>9 DEF CellOK
      <3>7. QED BY <2>3, <3>5, <3>6
    <2>4. QED BY <2>1, <2>2, <2>3 DEF Cell
  <1>3. TableOK' /\ OrderOK' /\ CountOK'
    BY <1>1 DEF TableOK, OrderOK, CountOK
  <1>4. QED BY <1>1, <1>2, <1>3

LEMMA TypesStep ==
  ASSUME Types, [Next]_vars
  PROVE  Types'
  <1>1. CASE UNCHANGED vars
    BY <1>1 DEF vars, history, Types, TableOK, OrderOK, CountOK, CellOK, Got, Extra
  <1>2. CASE Restart
    <2>1. conf' \in Confs
      BY <1>2, LoadType, Constants DEF Restart, Types
    <2>2. /\ order' = Idle /\ cell' = Idle /\ clean' = TRUE /\ UNCHANGED <<table, sent>>
          /\ fetched' \in BOOLEAN /\ over' = {}
      BY <1>2 DEF Restart
    <2>3. OrderOK' /\ CountOK' /\ CellOK' /\ TableOK'
      BY <2>2 DEF OrderOK, Orders, CountOK, Idle, CellOK, TableOK, Types
    <2>4. QED BY <2>1, <2>2, <2>3 DEF Types
  <1>3. QED BY <1>1, <1>2, SlotTypes, CountTypes, OrderTypes, CellTypes DEF Next, Order, Item

-----------------------------------------------------------------------------
(* The table and gPoolDefaultConf                                          *)

LEMMA AgreeItems ==
  ASSUME Types, AgreeOK, ItemSlot \/ ItemCount \/ ItemCap \/ ItemBroken
  PROVE  AgreeOK'
  <1> USE Constants
  <1>0. table' = table /\ fetched' = fetched /\ order.at \in {"item", "count", "cap"}
    BY DEF ItemSlot, ItemCount, ItemCap, ItemBroken, history
  <1>1. PICK c : c = Load(table)
    OBVIOUS
  <1>2. c \in Confs /\ Load(table') = c
    BY <1>0, <1>1, LoadType DEF Types
  <1>3. CASE ItemSlot
    <2>0. PICK a \in Algos, whole \in BOOLEAN :
             LET p == [id |-> order.k, algo |-> a, of |-> IF whole THEN sent ELSE Nobody]
             IN  /\ conf' = Written(conf, a, conf.count[a], p)
                 /\ order' = [at |-> "count", k |-> order.k, last |-> p, whole |-> whole]
                 /\ clean' = (clean /\ whole /\ conf.count[a] < MaxPools)
      BY <1>3 DEF ItemSlot
    <2>1. PICK p :
             /\ p = [id |-> order.k, algo |-> a, of |-> IF whole THEN sent ELSE Nobody]
             /\ conf' = Written(conf, a, conf.count[a], p)
             /\ order' = [at |-> "count", k |-> order.k, last |-> p, whole |-> whole]
             /\ clean' = (clean /\ whole /\ conf.count[a] < MaxPools)
      BY <2>0
    <2>2. order'.at = "count" /\ order'.last = p /\ p.algo = a /\ order'.whole = whole /\ order'.k = order.k
      BY <2>1
    <2>3. ASSUME Sound' PROVE AgreeCount'
      <3>1. Sound /\ whole /\ conf.count[a] < MaxPools
        BY <1>0, <2>1, <2>3 DEF Sound
      <3>2. conf = c /\ Stored
        BY <1>1, <1>3, <3>1 DEF AgreeOK, AgreeItem, ItemSlot
      <3>3. conf' = Written(c, a, c.count[a], p) /\ c.count[a] < MaxPools
        BY <2>1, <3>1, <3>2
      <3>4. Stored'
        BY <1>0, <2>2, <3>2 DEF Stored
      <3>5. QED BY <1>2, <2>2, <3>1, <3>3, <3>4 DEF AgreeCount
    <2>4. order' # Idle
      BY <2>2 DEF Idle
    <2>5. QED BY <2>2, <2>3, <2>4 DEF AgreeOK, AgreeIdle, AgreeItem, AgreeCap, AgreeInsert
  <1>4. CASE ItemCount
    <2>1. order.at = "count"
      BY <1>4 DEF ItemCount
    <2>2. order' = [at |-> "cap", k |-> order.k, last |-> order.last] /\ clean' = clean
      BY <1>4 DEF ItemCount
    <2>3. ASSUME Sound' PROVE AgreeCap'
      <3>1. PICK a, p : p = order.last /\ a = p.algo
        OBVIOUS
      <3>2. conf = Written(c, a, c.count[a], p) /\ c.count[a] < MaxPools /\ Stored
        BY <1>0, <1>1, <2>1, <2>2, <2>3, <3>1 DEF Sound, AgreeOK, AgreeCount
      <3>3. conf' = [Written(c, a, c.count[a], p) EXCEPT !.count[a] = @ + 1]
        BY <1>4, <3>1, <3>2 DEF ItemCount
      <3>4. Stored'
        BY <1>0, <2>2, <3>2 DEF Stored
      <3>5. QED BY <1>2, <2>2, <3>1, <3>2, <3>3, <3>4 DEF AgreeCap
    <2>4. order' # Idle /\ order'.at = "cap"
      BY <2>2 DEF Idle
    <2>5. QED BY <2>3, <2>4 DEF AgreeOK, AgreeIdle, AgreeItem, AgreeCount, AgreeInsert
  <1>5. CASE ItemCap
    <2>1. order.at = "cap" /\ order.last \in Pool /\ order.last.id = order.k
      BY <1>5, OrderShape DEF ItemCap, Types, OrderOK
    <2>2. order' = [at |-> "insert", k |-> order.k, last |-> order.last] /\ clean' = clean
      BY <1>5 DEF ItemCap, ToInsert, history
    <2>3. ASSUME Sound' PROVE AgreeInsert'
      <3>1. PICK p \in Pool, a \in Algos : p = order.last /\ a = p.algo
        BY <2>1 DEF Pool
      <3>2. PICK w : w = Written(c, a, c.count[a], p)
        OBVIOUS
      <3>3. conf = [w EXCEPT !.count[a] = @ + 1] /\ c.count[a] < MaxPools /\ Stored
        BY <1>0, <1>1, <2>1, <2>2, <2>3, <3>1, <3>2 DEF Sound, AgreeOK, AgreeCap
      <3>4. w \in Confs /\ w.count = c.count
        BY <1>2, <3>2, WrittenType
      <3>5. c.count[a] \in Nat /\ LoadCount(c.count[a]) = c.count[a] + 1
        BY <1>2, <3>3 DEF Confs, LoadCount
      <3>6. conf.count[a] = c.count[a] + 1
        BY <3>3, <3>4 DEF Confs
      <3>7. conf' = conf
        BY <1>5, <3>1, <3>3, <3>5, <3>6 DEF ItemCap
      <3>8. LoadRow(c, p) = [w EXCEPT !.count[a] = LoadCount(w.count[a])]
        BY <3>1, <3>2 DEF LoadRow
      <3>9. conf' = LoadRow(Load(table'), order'.last)
        BY <1>2, <2>2, <3>1, <3>3, <3>4, <3>5, <3>7, <3>8
      <3>10. QED BY <1>0, <2>1, <2>2, <3>3, <3>9 DEF AgreeInsert, Stored
    <2>4. order' # Idle /\ order'.at = "insert"
      BY <2>2 DEF Idle
    <2>5. QED BY <2>3, <2>4 DEF AgreeOK, AgreeIdle, AgreeItem, AgreeCount, AgreeCap
  <1>6. CASE ItemBroken
    <2>1. ~Sound' /\ order'.at = "insert"
      BY <1>6 DEF ItemBroken, ToInsert, history, Sound, AgreeOK, AgreeCount
    <2>2. QED BY <2>1 DEF AgreeOK
  <1>7. QED BY <1>3, <1>4, <1>5, <1>6

\* The row is stored behind the others, or is there already, or the query fails.
LEMMA AgreeRows ==
  ASSUME Types, AgreeOK, ItemInsert
  PROVE  AgreeOK'
  <1> USE Constants
  <1>1. order.at = "insert" /\ order.k \in 1 .. MaxItems /\ order.last \in Pool
    BY OrderShape DEF ItemInsert, Types, OrderOK
  <1>2. order' = [at |-> "item", k |-> order.k + 1, last |-> order.last] /\ conf' = conf
    BY DEF ItemInsert, AtItem
  <1>3. order'.at = "item" /\ order'.k = order.k + 1 /\ order'.last = order.last /\ order' # Idle
    BY <1>2 DEF Idle
  <1>4. ASSUME Sound' PROVE AgreeItem'
    <2>1. Sound
      BY <1>4 DEF ItemInsert, Sound
    <2>2. /\ Stored
          /\ \/ order.last.id = order.k /\ conf = LoadRow(Load(table), order.last)
             \/ Repeats /\ conf = Load(table)
      BY <1>1, <2>1 DEF AgreeOK, AgreeInsert
    <2>3. DOMAIN table \subseteq 1 .. order.k - 1 /\ order.k \in Nat
      BY <1>1, <2>2 DEF Stored
    <2>4. CASE order.last # NoPool /\ table' = Replaced(table, order.last)
      <3>1. CASE order.last.id = order.k /\ conf = LoadRow(Load(table), order.last)
        <4>1. Load(table') = LoadRow(Load(table), order.last)
          BY <1>1, <2>3, <2>4, <3>1, LoadReplaced
        <4>2. DOMAIN table' = DOMAIN table \cup {order.k} /\ table'[order.k] = order.last
          BY <2>4, <3>1 DEF Replaced
        <4>3. Stored'
          <5>1. order'.k - 1 = order.k /\ order.k \in 1 .. order.k
            BY <1>1, <1>3
          <5>2. DOMAIN table' \subseteq 1 .. order.k
            BY <2>3, <4>2, <5>1
          <5>3. QED BY <5>1, <5>2 DEF Stored
        <4>4. Repeats'
          BY <1>3, <3>1, <4>2 DEF Repeats
        <4>5. QED BY <1>2, <3>1, <4>1, <4>3, <4>4 DEF AgreeItem
      <3>2. CASE Repeats /\ conf = Load(table)
        <4>1. order.last.id \in DOMAIN table /\ table[order.last.id] = order.last
          BY <2>4, <3>2 DEF Repeats
        <4>2. table' = table
          <5>1. PICK p : p = order.last
            OBVIOUS
          <5>2. table' = [k \in DOMAIN table \cup {p.id} |-> IF k = p.id THEN p ELSE table[k]]
            BY <2>4, <5>1 DEF Replaced
          <5>3. DOMAIN table \cup {p.id} = DOMAIN table /\ table[p.id] = p
            BY <4>1, <5>1
          <5>4. \A k \in DOMAIN table : table'[k] = table[k]
            BY <5>2, <5>3
          <5>5. table = [k \in DOMAIN table |-> table[k]]
            BY DEF Types, TableOK
          <5>6. QED BY <5>2, <5>3, <5>4, <5>5
        <4>3. Stored' /\ Repeats'
          BY <1>3, <2>3, <3>2, <4>2 DEF Stored, Repeats
        <4>4. QED BY <1>2, <3>2, <4>2, <4>3 DEF AgreeItem
      <3>3. QED BY <2>2, <3>1, <3>2
    <2>5. CASE order.last = NoPool /\ UNCHANGED table
      <3>1. order.last.id # order.k
        BY <1>1, <2>5 DEF NoPool
      <3>2. conf = Load(table)
        BY <2>2, <3>1
      <3>3. Stored' /\ Repeats'
        BY <1>3, <2>3, <2>5 DEF Stored, Repeats
      <3>4. QED BY <1>2, <2>5, <3>2, <3>3 DEF AgreeItem
    <2>6. QED BY <1>4, <2>4, <2>5 DEF ItemInsert, Sound
  <1>5. QED BY <1>3, <1>4 DEF AgreeOK, AgreeIdle, AgreeCount, AgreeCap, AgreeInsert

LEMMA AgreeOrders ==
  ASSUME Types, AgreeOK, OrderBegin \/ OrderDelete \/ ItemUnknown \/ OrderEnd \/ Restart
  PROVE  AgreeOK'
  <1>1. CASE OrderBegin
    <2>1. order' = [at |-> "delete"] /\ conf' = EmptyConf
      BY <1>1 DEF OrderBegin
    <2>2. order'.at = "delete" /\ order' # Idle
      BY <2>1 DEF Idle
    <2>3. QED BY <2>1, <2>2 DEF AgreeOK, AgreeIdle, AgreeItem, AgreeCount, AgreeCap, AgreeInsert
  <1>2. CASE OrderDelete
    <2>1. order' = [at |-> "item", k |-> 1, last |-> NoPool] /\ conf' = EmptyConf
      BY <1>2 DEF OrderDelete, AtItem, AgreeOK
    <2>2. order'.at = "item" /\ order' # Idle /\ order'.k = 1 /\ order'.last = NoPool
      BY <2>1 DEF Idle
    <2>3. ASSUME Sound' PROVE AgreeItem'
      <3>1. table' = [k \in {} |-> NoPool]
        BY <1>2, <2>3 DEF OrderDelete, Sound
      <3>2. Load(table') = EmptyConf
        BY <3>1, LoadNone
      <3>3. QED BY <2>1, <2>2, <3>1, <3>2 DEF AgreeItem, Stored, Repeats
    <2>4. QED BY <2>2, <2>3 DEF AgreeOK, AgreeIdle, AgreeCount, AgreeCap, AgreeInsert
  <1>3. CASE ItemUnknown
    <2>1. order' = [at |-> "insert", k |-> order.k, last |-> order.last] /\ UNCHANGED <<conf, table, clean, fetched>> /\ order.at = "item"
      BY <1>3 DEF ItemUnknown, ToInsert, history
    <2>2. order'.at = "insert" /\ order' # Idle /\ order'.k = order.k /\ order'.last = order.last
      BY <2>1 DEF Idle
    <2>3. QED BY <2>1, <2>2 DEF AgreeOK, AgreeIdle, AgreeItem, AgreeCount, AgreeCap, AgreeInsert, Sound, Stored, Repeats
  <1>4. CASE OrderEnd
    <2>1. order' = Idle /\ UNCHANGED <<conf, table, clean, fetched>> /\ order.at = "item"
      BY <1>4 DEF OrderEnd, history
    <2>2. order'.at = "idle"
      BY <2>1 DEF Idle
    <2>3. QED BY <2>1, <2>2 DEF Sound, AgreeOK, AgreeIdle, AgreeItem, AgreeCount, AgreeCap, AgreeInsert
  <1>5. CASE Restart
    <2>1. order' = Idle /\ table' = table /\ (Sound' => conf' = Load(table))
      BY <1>5 DEF Restart, Sound
    <2>2. order'.at = "idle"
      BY <2>1 DEF Idle
    <2>3. QED BY <2>1, <2>2 DEF AgreeOK, AgreeIdle, AgreeItem, AgreeCount, AgreeCap, AgreeInsert
  <1>6. QED BY <1>1, <1>2, <1>3, <1>4, <1>5

LEMMA PoolsInit == Init => PoolsInv
  <1> SUFFICES ASSUME Init PROVE PoolsInv
    OBVIOUS
  <1> USE Constants
  <1>1. conf = EmptyConf /\ table = [k \in {} |-> NoPool] /\ order = Idle /\ sent = 0 /\ cell = Idle
        /\ clean = TRUE /\ fetched = TRUE /\ over = {}
    BY DEF Init
  <1>2. order.at = "idle"
    BY <1>1 DEF Idle
  <1>3. Types
    BY <1>1, <1>2 DEF Types, TableOK, OrderOK, Orders, CountOK, CellOK
  <1>4. Load(table) = EmptyConf
    BY <1>1, LoadNone
  <1>5. AgreeOK
    BY <1>1, <1>2, <1>4 DEF AgreeOK, AgreeIdle, AgreeItem, AgreeCount, AgreeCap, AgreeInsert
  <1>6. QED BY <1>3, <1>5 DEF PoolsInv

LEMMA PoolsStep == PoolsInv /\ [Next]_vars => PoolsInv'
  <1> SUFFICES ASSUME PoolsInv, [Next]_vars PROVE PoolsInv'
    OBVIOUS
  <1>0. Types /\ AgreeOK
    BY DEF PoolsInv
  <1>1. Types'
    BY <1>0, TypesStep
  <1>2. CASE Cell \/ UNCHANGED vars
    <2>1. UNCHANGED <<conf, table, order, clean, fetched>>
      BY <1>2 DEF vars, history, Cell, CellBegin, CellTest, CellSecond, CellCopy, CellSent, Goes
    <2>2. AgreeOK'
      BY <1>0, <2>1 DEF Sound, AgreeOK, AgreeIdle, AgreeItem, AgreeCount, AgreeCap, AgreeInsert, Stored, Repeats
    <2>3. QED BY <1>1, <2>2 DEF PoolsInv
  <1>3. CASE Order \/ Restart
    <2>1. AgreeOK'
      BY <1>0, <1>3, AgreeItems, AgreeRows, AgreeOrders DEF Order, Item
    <2>2. QED BY <1>1, <2>1 DEF PoolsInv
  <1>4. QED BY <1>2, <1>3 DEF Next

\* Once a command is done and nothing of it failed, what a start loads from the
\* table is what the cells are given now, whatever the commands, restarts and
\* logins before, unless the last start found no database and no command has
\* emptied the table since (api_monitor.c:1921, db_mysql.c:209, 376).
THEOREM TableAndDefaults == Spec => []TableHoldsDefaults
  <1>1. PoolsInv => TableHoldsDefaults
    BY DEF PoolsInv, Sound, AgreeOK, AgreeIdle, TableHoldsDefaults
  <1>2. QED BY <1>1, PoolsInit, PoolsStep, PTL DEF Spec

\* The lists of a cell stay within the arrays of its node, though the monitor
\* changes the counts between the two reads of the loop's test and its copy;
\* only a count raised past MaxPools while the cell is packed lets a pool go
\* past the end of the array, and one at most (api_login.c:819, 842).
THEOREM CellListsBounded == Spec => []CellListsFit
  <1>1. PoolsInv => CellListsFit
    BY DEF PoolsInv, Types, CellOK, CellListsFit, Extra
  <1>2. QED BY <1>1, PoolsInit, PoolsStep, PTL DEF Spec

=============================================================================
