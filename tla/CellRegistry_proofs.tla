------------------------- MODULE CellRegistry_proofs -------------------------
(***************************************************************************)
(* Proofs about CellRegistry, for any set of cells and any field values.   *)
(***************************************************************************)
EXTENDS CellRegistry, TLAPS

\* The rows a query can write are rows.
LEMMA PackedType ==
  ASSUME TypeOK, NEW c \in Cells
  PROVE  Packed(c) \in Row
  BY DEF TypeOK, Packed, Row

\* Both queries leave the table well typed.
LEMMA WritesType ==
  ASSUME TypeOK, NEW kind, NEW c \in Cells, NEW buf \in Row, Writes(kind, c, buf)
  PROVE  row' \in [Cells -> Row] /\ stored' \subseteq Cells
  BY DEF TypeOK, Writes, base

-----------------------------------------------------------------------------
LEMMA InitTypeOK == Init => TypeOK
  <1> SUFFICES ASSUME Init PROVE TypeOK
    OBVIOUS
  <1>1. PICK a \in Addrs, v \in Versions :
          /\ addr = [c \in Cells |-> a]
          /\ sw = [c \in Cells |-> v] /\ hw = [c \in Cells |-> v]
          /\ row = [c \in Cells |-> [addr |-> a, sw |-> v, hw |-> v, online |-> FALSE]]
    BY DEF Init
  <1>2. row \in [Cells -> Row]
    BY <1>1 DEF Row
  <1>3. QED
    BY <1>1, <1>2 DEF Init, TypeOK, Queries, Idle

LEMMA LoginTypeOK ==
  ASSUME TypeOK, NEW c \in Cells, NEW a \in Addrs, NEW s \in Versions, NEW h \in Versions,
         LoginNew(c, a, s, h) \/ LoginAgain(c, a, s, h)
  PROVE  TypeOK'
  <1>1. CASE LoginNew(c, a, s, h)
    <2>1. [addr |-> a, sw |-> s, hw |-> h, online |-> TRUE] \in Row
      BY DEF Row
    <2>2. row' \in [Cells -> Row] /\ stored' \subseteq Cells
      <3>1. \/ UNCHANGED base
            \/ Writes("insert", c, [addr |-> a, sw |-> s, hw |-> h, online |-> TRUE])
        BY <1>1 DEF LoginNew
      <3>2. QED BY <2>1, <3>1, WritesType DEF TypeOK, base
    <2>3. mysql' \in [Cells -> Queries]
      BY <1>1 DEF LoginNew, TypeOK, Queries, Pending
    <2>4. crossed' \in [Cells -> BOOLEAN]
      BY <1>1 DEF LoginNew, TypeOK
    <2>5. online' \in [Cells -> BOOLEAN] /\ quiet' \in [Cells -> BOOLEAN]
      BY <1>1 DEF LoginNew, TypeOK
    <2>6. login' \in [at : {"send"}, cell : Cells, val : {"node", "freed"}]
      BY <1>1 DEF LoginNew, Answering
    <2>7. QED
      BY <1>1, <2>2, <2>3, <2>4, <2>5, <2>6 DEF LoginNew, TypeOK, alarmV, flushV
  <1>2. CASE LoginAgain(c, a, s, h)
    <2>1. crossed' \in [Cells -> BOOLEAN]
      BY <1>2 DEF LoginAgain, TypeOK, Touch
    <2>2. /\ addr' \in [Cells -> Addrs] /\ sw' \in [Cells -> Versions]
          /\ hw' \in [Cells -> Versions] /\ quiet' \in [Cells -> BOOLEAN]
      BY <1>2 DEF LoginAgain, TypeOK
    <2>3. \/ login' \in [at : {"flag"}, cell : Cells]
          \/ login' \in [at : {"send"}, cell : Cells, val : {"node", "freed"}]
      BY <1>2 DEF LoginAgain, Answering
    <2>4. QED
      BY <1>2, <2>1, <2>2, <2>3 DEF LoginAgain, TypeOK, base, alarmV, flushV
  <1>3. QED BY <1>1, <1>2

LEMMA FlagTypeOK ==
  ASSUME TypeOK, LoginFlag \/ ReplyFlag \/ AlarmFlag
  PROVE  TypeOK'
  <1>1. crossed' \in [Cells -> BOOLEAN]
    BY DEF LoginFlag, ReplyFlag, AlarmFlag, TypeOK, Touch
  <1>2. mysql' \in [Cells -> Queries]
    BY DEF LoginFlag, ReplyFlag, AlarmFlag, TypeOK, Queries, Pending, Idle
  <1>3. CASE LoginFlag
    <2>1. login' \in [at : {"send"}, cell : Cells, val : {"node", "freed"}]
      BY <1>3 DEF LoginFlag, Answering, TypeOK, Idle
    <2>2. QED
      BY <1>1, <1>2, <1>3, <2>1 DEF LoginFlag, TypeOK, fields, base, alarmV, flushV
  <1>4. QED
    BY <1>1, <1>2, <1>3 DEF ReplyFlag, AlarmFlag, TypeOK, fields, base, alarmV, flushV

LEMMA ReplyTypeOK ==
  ASSUME TypeOK, NEW c \in Cells, NEW a \in Addrs, ReplyRefresh(c, a)
  PROVE  TypeOK'
  <1>1. crossed' \in [Cells -> BOOLEAN]
    BY DEF ReplyRefresh, TypeOK, Touch
  <1>2. addr' \in [Cells -> Addrs] /\ quiet' \in [Cells -> BOOLEAN]
    BY DEF ReplyRefresh, TypeOK
  <1>3. reply' \in {Idle} \cup [at : {"flag"}, cell : Cells]
    BY DEF ReplyRefresh, TypeOK
  <1>4. QED
    BY <1>1, <1>2, <1>3 DEF ReplyRefresh, TypeOK, base, alarmV, flushV

LEMMA AlarmTypeOK ==
  ASSUME TypeOK, AlarmProcess
  PROVE  TypeOK'
  <1> USE DEF TypeOK, fields, base, flushV
  <1>1. CASE AlarmStart
    BY <1>1 DEF AlarmStart
  <1>2. ASSUME NEW c \in Cells, AlarmLook(c) PROVE TypeOK'
    <2>1. alarm' \in [at : {"late", "heard", "flag"}, cell : Cells]
      BY <1>2 DEF AlarmLook
    <2>2. QED BY <1>2, <2>1 DEF AlarmLook
  <1>3. CASE AlarmNoChange
    BY <1>3 DEF AlarmNoChange
  <1>4. CASE AlarmSwitch
    <2>1. alarm.cell \in Cells
      BY <1>4 DEF AlarmSwitch, Idle
    <2>2. online' \in [Cells -> BOOLEAN]
      BY <1>4 DEF AlarmSwitch
    <2>3. alarm' \in [at : {"late", "heard", "flag"}, cell : Cells]
      BY <1>4, <2>1 DEF AlarmSwitch
    <2>4. crossed' \in [Cells -> BOOLEAN]
      BY <1>4 DEF AlarmSwitch, Touch
    <2>5. QED BY <1>4, <2>2, <2>3, <2>4 DEF AlarmSwitch
  <1>5. CASE AlarmFlag
    BY <1>5, FlagTypeOK
  <1>6. CASE AlarmEnd
    BY <1>6 DEF AlarmEnd
  <1>7. QED
    BY <1>1, <1>2, <1>3, <1>4, <1>5, <1>6 DEF AlarmProcess

LEMMA MysqlTypeOK ==
  ASSUME TypeOK, MysqlProcess
  PROVE  TypeOK'
  <1> USE DEF TypeOK, fields, base, alarmV
  <1>1. CASE FlushStart
    BY <1>1 DEF FlushStart
  <1>2. ASSUME NEW c \in Cells, FlushSkip(c) PROVE TypeOK'
    BY <1>2 DEF FlushSkip
  <1>3. ASSUME NEW c \in Cells, FlushPack(c) PROVE TypeOK'
    <2>1. flush' \in [at : {"query", "clear"}, cell : Cells, kind : Pending, buf : Row]
      BY <1>3, PackedType DEF FlushPack, Queries, Pending
    <2>2. crossed' \in [Cells -> BOOLEAN]
      BY <1>3 DEF FlushPack
    <2>3. QED BY <1>3, <2>1, <2>2 DEF FlushPack
  <1>4. CASE FlushQuery
    <2>1. flush \in [at : {"query", "clear"}, cell : Cells, kind : Pending, buf : Row]
      BY <1>4 DEF FlushQuery, Idle
    <2>2. row' \in [Cells -> Row] /\ stored' \subseteq Cells
      BY <1>4, <2>1, WritesType DEF FlushQuery
    <2>3. \/ flush' = [flush EXCEPT !.at = "clear"]
          \/ flush' = [at |-> "walk"]
      BY <1>4 DEF FlushQuery
    <2>4. \/ flush' \in [at : {"query", "clear"}, cell : Cells, kind : Pending, buf : Row]
          \/ flush' \in [at : {"walk", "reconnect"}]
      BY <2>1, <2>3
    <2>5. crossed' \in [Cells -> BOOLEAN]
      BY <1>4, <2>1 DEF FlushQuery
    <2>6. QED BY <1>4, <2>2, <2>4, <2>5 DEF FlushQuery
  <1>5. CASE FlushClear
    <2>1. mysql' \in [Cells -> Queries]
      BY <1>5 DEF FlushClear, Queries, Pending
    <2>2. QED BY <1>5, <2>1 DEF FlushClear
  <1>6. CASE FlushEnd
    BY <1>6 DEF FlushEnd
  <1>7. CASE Reconnect
    BY <1>7 DEF Reconnect
  <1>8. QED
    BY <1>1, <1>2, <1>3, <1>4, <1>5, <1>6, <1>7 DEF MysqlProcess

LEMMA OtherTypeOK ==
  ASSUME TypeOK,
         \/ Server \/ LoginSend
         \/ \E c \in Cells : DelCell(c) \/ Silence(c)
         \/ Restart
         \/ UNCHANGED vars
  PROVE  TypeOK'
  <1> USE DEF TypeOK, fields, base, alarmV, flushV
  <1>1. CASE Server \/ LoginSend
    BY <1>1 DEF Server, ServerGoesDown, ServerComesUp, LoginSend
  <1>2. ASSUME NEW c \in Cells, DelCell(c) PROVE TypeOK'
    <2>1. /\ mysql' \in [Cells -> Queries] /\ known' \subseteq Cells
          /\ online' \in [Cells -> BOOLEAN] /\ quiet' \in [Cells -> BOOLEAN]
          /\ crossed' \in [Cells -> BOOLEAN]
      BY <1>2 DEF DelCell, FreeNode, Queries, Pending
    <2>2. stored' \subseteq Cells /\ row' \in [Cells -> Row]
      <3>1. [row[c] EXCEPT !.online = FALSE] \in Row
        <4>1. row[c] \in Row
          OBVIOUS
        <4>2. QED BY <4>1 DEF Row
      <3>2. CASE DeleteRow(c)
        BY <3>1, <3>2 DEF DeleteRow
      <3>3. CASE UNCHANGED base
        BY <3>3
      <3>4. QED BY <1>2, <3>2, <3>3 DEF DelCell
    <2>3. QED BY <1>2, <2>1, <2>2 DEF DelCell
  <1>3. ASSUME NEW c \in Cells, Silence(c) PROVE TypeOK'
    BY <1>3 DEF Silence
  <1>4. CASE Restart
    <2>1. /\ addr' \in [Cells -> Addrs] /\ sw' \in [Cells -> Versions]
          /\ hw' \in [Cells -> Versions] /\ online' \in [Cells -> BOOLEAN]
          /\ quiet' \in [Cells -> BOOLEAN]
      BY <1>4 DEF Restart, Row
    <2>2. mysql' \in [Cells -> Queries] /\ crossed' \in [Cells -> BOOLEAN]
      BY <1>4 DEF Restart, Queries, Pending
    <2>3. QED BY <1>4, <2>1, <2>2 DEF Restart
  <1>5. CASE UNCHANGED vars
    BY <1>5 DEF vars
  <1>6. QED
    BY <1>1, <1>2, <1>3, <1>4, <1>5

LEMMA NextTypeOK == TypeOK /\ [Next]_vars => TypeOK'
  BY LoginTypeOK, FlagTypeOK, ReplyTypeOK, AlarmTypeOK, MysqlTypeOK, OtherTypeOK DEF Next

\* Every variable keeps its type.
THEOREM TypeCorrect == Spec => []TypeOK
  BY InitTypeOK, NextTypeOK, PTL DEF Spec

-----------------------------------------------------------------------------
(***************************************************************************)
(* RowsHaveNodes rests on HandlersHaveNodes: MysqlProcess inserts a row    *)
(* for the cell it packed earlier, and that cell is still in the table     *)
(* because ParseDelCell waits for DatabaseRemLock.                         *)
(***************************************************************************)

\* A HASH_ITER is over before its thread lets go of its removal lock.
IterDone ==
  /\ alarm = Idle => alarmTodo = {}
  /\ flush.at \in {"idle", "reconnect"} => flushTodo = {}

NodesOK  == HandlersHaveNodes /\ RowsHaveNodes /\ IterDone
NodesInv == TypeOK /\ NodesOK

\* A query adds at most the row of its own cell.
LEMMA WritesStored ==
  ASSUME NEW kind, NEW c, NEW buf, Writes(kind, c, buf) \/ UNCHANGED base
  PROVE  stored' \subseteq stored \cup {c}
  BY DEF Writes, base

LEMMA InitNodes == Init => NodesOK
  BY DEF Init, NodesOK, HandlersHaveNodes, RowsHaveNodes, IterDone, LoginUnlocked, Idle

LEMMA LoginNodes ==
  ASSUME NodesInv, NEW c \in Cells, NEW a \in Addrs, NEW s \in Versions, NEW h \in Versions,
         LoginNew(c, a, s, h) \/ LoginAgain(c, a, s, h)
  PROVE  NodesOK'
  <1> USE DEF NodesInv, NodesOK, HandlersHaveNodes, RowsHaveNodes, IterDone, LoginUnlocked, alarmV, flushV, base, Idle,
              Answering
  <1>1. CASE LoginNew(c, a, s, h)
    <2>1. stored' \subseteq stored \cup {c}
      BY <1>1, WritesStored DEF LoginNew
    <2>2. QED BY <1>1, <2>1 DEF LoginNew
  <1>2. CASE LoginAgain(c, a, s, h)
    BY <1>2 DEF LoginAgain
  <1>3. QED BY <1>1, <1>2

LEMMA ReplyNodes ==
  ASSUME NodesInv, LoginFlag \/ ReplyFlag \/ \E c \in Cells, a \in Addrs : ReplyRefresh(c, a)
  PROVE  NodesOK'
  BY DEF NodesInv, NodesOK, HandlersHaveNodes, RowsHaveNodes, IterDone, LoginUnlocked, alarmV, flushV, base, Idle,
     Answering, LoginFlag, ReplyFlag, ReplyRefresh

LEMMA AlarmNodes ==
  ASSUME NodesInv, AlarmProcess
  PROVE  NodesOK'
  BY DEF NodesInv, NodesOK, HandlersHaveNodes, RowsHaveNodes, IterDone, LoginUnlocked, flushV, base, Idle, AlarmProcess,
     AlarmStart, AlarmLook, AlarmNoChange, AlarmSwitch, AlarmFlag, AlarmEnd

LEMMA MysqlNodes ==
  ASSUME NodesInv, MysqlProcess
  PROVE  NodesOK'
  <1> USE DEF NodesInv, NodesOK, HandlersHaveNodes, RowsHaveNodes, IterDone, LoginUnlocked, alarmV, base, Idle
  <1>1. CASE FlushQuery
    <2>1. flush.cell \in known
      BY <1>1 DEF FlushQuery
    <2>2. stored' \subseteq stored \cup {flush.cell}
      BY <1>1, WritesStored DEF FlushQuery
    <2>3. \/ flush' = [flush EXCEPT !.at = "clear"]
          \/ flush' = [at |-> "walk"]
      BY <1>1 DEF FlushQuery
    <2>4. flush'.at \in {"query", "clear"} => flush'.cell = flush.cell
      BY <1>1, <2>3 DEF FlushQuery, TypeOK
    <2>5. QED BY <1>1, <2>1, <2>2, <2>4 DEF FlushQuery
  <1>2. CASE FlushStart \/ FlushEnd \/ FlushClear \/ Reconnect
    BY <1>2 DEF FlushStart, FlushEnd, FlushClear, Reconnect
  <1>3. ASSUME NEW c \in Cells, FlushSkip(c) \/ FlushPack(c)
        PROVE  NodesOK'
    BY <1>3 DEF FlushSkip, FlushPack
  <1>4. QED
    BY <1>1, <1>2, <1>3 DEF MysqlProcess

LEMMA OtherNodes ==
  ASSUME NodesInv,
         \/ Server \/ LoginSend
         \/ \E c \in Cells : DelCell(c) \/ Silence(c)
         \/ Restart
         \/ UNCHANGED vars
  PROVE  NodesOK'
  <1> USE DEF NodesInv, NodesOK, HandlersHaveNodes, RowsHaveNodes, IterDone, LoginUnlocked, base, alarmV, flushV, Idle
  <1>1. CASE Server \/ LoginSend
    BY <1>1 DEF Server, LoginSend
  <1>2. ASSUME NEW c \in Cells, DelCell(c) PROVE NodesOK'
    <2>1. alarmTodo = {} /\ flushTodo = {}
      BY <1>2 DEF DelCell, DeleteRow, FreeNode
    <2>2. QED BY <1>2, <2>1 DEF DelCell, DeleteRow, FreeNode
  <1>3. ASSUME NEW c \in Cells, Silence(c) PROVE NodesOK'
    BY <1>3 DEF Silence
  <1>4. CASE Restart
    BY <1>4 DEF Restart
  <1>5. CASE UNCHANGED vars
    BY <1>5 DEF vars
  <1>6. QED BY <1>1, <1>2, <1>3, <1>4, <1>5

LEMMA NextNodes == NodesInv /\ [Next]_vars => NodesOK'
  BY LoginNodes, ReplyNodes, AlarmNodes, MysqlNodes, OtherNodes DEF Next

\* No thread is left under its lock with a node that ParseDelCell freed.
THEOREM NodesStay == Spec => []HandlersHaveNodes
  <1>1. Init => NodesInv
    BY InitTypeOK, InitNodes DEF NodesInv
  <1>2. NodesInv /\ [Next]_vars => NodesInv'
    BY NextTypeOK, NextNodes DEF NodesInv
  <1>3. NodesInv => HandlersHaveNodes
    BY DEF NodesInv, NodesOK
  <1>4. QED BY <1>1, <1>2, <1>3, PTL DEF Spec

\* Every row has its node if the table could be read at the last start.
THEOREM RowsKept == Spec => []RowsHaveNodes
  <1>1. Init => NodesInv
    BY InitTypeOK, InitNodes DEF NodesInv
  <1>2. NodesInv /\ [Next]_vars => NodesInv'
    BY NextTypeOK, NextNodes DEF NodesInv
  <1>3. NodesInv => RowsHaveNodes
    BY DEF NodesInv, NodesOK
  <1>4. QED BY <1>1, <1>2, <1>3, PTL DEF Spec

-----------------------------------------------------------------------------
(***************************************************************************)
(* DirtyIsFlagged: the mark of a cell can be cleared only by the thread    *)
(* that wrote the cell, and then, unless a handler touched the cell in     *)
(* between, what it wrote is what the node holds.                          *)
(***************************************************************************)
FlushFresh ==
  flush.at \in {"query", "clear"} =>
    /\ mysql[flush.cell] # "none"
    /\ \/ crossed[flush.cell]
       \/ flush.at = "query" /\ flush.buf = Packed(flush.cell)
       \/ flush.at = "clear" /\ (flush.cell \in stored
                                   => row[flush.cell] = Packed(flush.cell))

DirtyOK  == DirtyIsFlagged /\ FlushFresh
DirtyInv == NodesInv /\ DirtyOK

LEMMA InitDirty == Init => DirtyOK
  BY DEF Init, DirtyOK, DirtyIsFlagged, FlushFresh, Idle

\* A cell that a step leaves alone stays clean or flagged.
Untouched(d) ==
  /\ addr'[d] = addr[d] /\ sw'[d] = sw[d] /\ hw'[d] = hw[d] /\ online'[d] = online[d]
  /\ row'[d] = row[d]
  /\ d \in known' <=> d \in known
  /\ d \in stored' <=> d \in stored

LEMMA LoginDirty ==
  ASSUME DirtyInv, NEW c \in Cells, NEW a \in Addrs, NEW s \in Versions, NEW h \in Versions,
         LoginNew(c, a, s, h) \/ LoginAgain(c, a, s, h)
  PROVE  DirtyOK'
  <1> USE DEF DirtyInv, NodesInv, NodesOK, TypeOK, HandlersHaveNodes, DirtyOK, DirtyIsFlagged,
              FlushFresh, BeingFlagged, Packed, alarmV, flushV, base, Idle
  <1>1. CASE LoginNew(c, a, s, h)
    <2>1. ASSUME NEW d \in Cells, d # c PROVE Untouched(d)
      BY <1>1, <2>1 DEF LoginNew, Writes, Untouched
    <2>2. c \in stored' => \/ mysql'[c] = "insert"
                           \/ row'[c] = Packed(c)'
      BY <1>1 DEF LoginNew, Writes
    <2>3. /\ UNCHANGED <<reply, alarm, flush>> /\ known' \subseteq Cells
          /\ login = Idle /\ login'.at = "send"
          /\ \A d \in Cells : d # c => mysql'[d] = mysql[d] /\ crossed'[d] = crossed[d]
      BY <1>1 DEF LoginNew, Answering
    <2>4. DirtyIsFlagged'
      BY <2>1, <2>2, <2>3 DEF Untouched
    <2>5. flush.at \in {"query", "clear"} => flush.cell # c /\ flush.cell \in Cells
      BY <1>1 DEF LoginNew
    <2>6. FlushFresh'
      BY <2>1, <2>3, <2>5 DEF Untouched
    <2>7. QED BY <2>4, <2>6
  <1>2. CASE LoginAgain(c, a, s, h)
    <2>1. ASSUME NEW d \in Cells, d # c PROVE Untouched(d)
      BY <1>2, <2>1 DEF LoginAgain, Untouched
    <2>2. Untouched(c) \/ login' = [at |-> "flag", cell |-> c]
      BY <1>2 DEF LoginAgain, Untouched
    <2>3. /\ login = Idle /\ UNCHANGED <<known, stored, row, mysql, reply, alarm, flush>>
          /\ \A d \in Cells : crossed[d] => crossed'[d]
      BY <1>2 DEF LoginAgain, Touch
    <2>4. DirtyIsFlagged'
      BY <2>1, <2>2, <2>3 DEF Untouched
    <2>5. flush.at \in {"query", "clear"} /\ flush.cell = c => crossed'[c]
      BY <1>2 DEF LoginAgain, Touch
    <2>6. flush.at \in {"query", "clear"} => flush.cell \in Cells
      BY DEF TypeOK
    <2>7. FlushFresh'
      BY <2>1, <2>3, <2>5, <2>6 DEF Untouched
    <2>8. QED BY <2>4, <2>7
  <1>3. QED BY <1>1, <1>2

LEMMA ReplyDirty ==
  ASSUME DirtyInv, NEW c \in Cells, NEW a \in Addrs, ReplyRefresh(c, a)
  PROVE  DirtyOK'
  <1> USE DEF DirtyInv, NodesInv, NodesOK, TypeOK, HandlersHaveNodes, DirtyOK, DirtyIsFlagged,
              FlushFresh, BeingFlagged, Packed, alarmV, flushV, base, Idle
  <1>1. ASSUME NEW d \in Cells, d # c PROVE Untouched(d)
    BY <1>1 DEF ReplyRefresh, Untouched
  <1>2. Untouched(c) \/ reply' = [at |-> "flag", cell |-> c]
    BY DEF ReplyRefresh, Untouched
  <1>3. /\ reply = Idle /\ UNCHANGED <<known, stored, row, mysql, login, alarm, flush>>
        /\ \A d \in Cells : crossed[d] => crossed'[d]
    BY DEF ReplyRefresh, Touch
  <1>4. DirtyIsFlagged'
    BY <1>1, <1>2, <1>3 DEF Untouched
  <1>5. flush.at \in {"query", "clear"} /\ flush.cell = c => crossed'[c]
    BY DEF ReplyRefresh, Touch
  <1>6. flush.at \in {"query", "clear"} => flush.cell \in Cells
    OBVIOUS
  <1>7. FlushFresh'
    BY <1>1, <1>3, <1>5, <1>6 DEF Untouched
  <1>8. QED BY <1>4, <1>7

\* Setting the mark of the cell a handler has changed
LEMMA FlagDirty ==
  ASSUME DirtyInv, LoginFlag \/ ReplyFlag \/ AlarmFlag
  PROVE  DirtyOK'
  <1> USE DEF DirtyInv, NodesInv, NodesOK, TypeOK, HandlersHaveNodes, DirtyOK, DirtyIsFlagged,
              FlushFresh, BeingFlagged, Packed, fields, alarmV, flushV, base, Idle
  <1>1. UNCHANGED <<known, addr, sw, hw, online, row, stored, flush>>
    BY DEF LoginFlag, ReplyFlag, AlarmFlag
  <1>2. /\ \A d \in Cells : crossed[d] => crossed'[d]
        /\ \A d \in Cells : mysql[d] # "none" => mysql'[d] # "none"
    BY DEF LoginFlag, ReplyFlag, AlarmFlag, Touch
  <1>3. \A d \in Cells : BeingFlagged(d) => BeingFlagged(d)' \/ mysql'[d] # "none"
    BY DEF LoginFlag, ReplyFlag, AlarmFlag, Answering
  <1>4. DirtyIsFlagged'
    BY <1>1, <1>2, <1>3
  <1>5. flush.at \in {"query", "clear"} => flush.cell \in Cells
    OBVIOUS
  <1>6. FlushFresh'
    BY <1>1, <1>2, <1>5
  <1>7. QED BY <1>4, <1>6

LEMMA AlarmDirty ==
  ASSUME DirtyInv, AlarmProcess
  PROVE  DirtyOK'
  <1> USE DEF DirtyInv, NodesInv, NodesOK, TypeOK, HandlersHaveNodes, DirtyOK, DirtyIsFlagged,
              FlushFresh, BeingFlagged, Packed, fields, flushV, base, Idle
  <1>1. CASE AlarmSwitch
    <2>1. /\ UNCHANGED <<known, addr, sw, hw, row, stored, mysql, flush, login, reply>>
          /\ alarm.at # "flag" /\ alarm.cell \in Cells
          /\ alarm' = [at |-> "flag", cell |-> alarm.cell]
          /\ \A d \in Cells : d # alarm.cell => online'[d] = online[d]
          /\ \A d \in Cells : crossed[d] => crossed'[d]
      BY <1>1 DEF AlarmSwitch, Touch
    <2>2. DirtyIsFlagged'
      BY <2>1
    <2>3. flush.at \in {"query", "clear"} =>
            flush.cell \in Cells /\ (flush.cell = alarm.cell => crossed'[flush.cell])
      BY <1>1, <2>1 DEF AlarmSwitch, Touch
    <2>4. FlushFresh'
      BY <2>1, <2>3
    <2>5. QED BY <2>2, <2>4
  <1>2. CASE AlarmFlag
    BY <1>2, FlagDirty
  <1>3. CASE AlarmStart \/ (\E c \in Cells : AlarmLook(c)) \/ AlarmNoChange \/ AlarmEnd
    <2>1. /\ UNCHANGED <<known, addr, sw, hw, online, row, stored, mysql, flush, login,
                         reply, crossed>>
          /\ alarm.at # "flag"
      BY <1>3 DEF AlarmStart, AlarmLook, AlarmNoChange, AlarmEnd
    <2>2. QED BY <2>1
  <1>4. QED BY <1>1, <1>2, <1>3 DEF AlarmProcess

LEMMA MysqlDirty ==
  ASSUME DirtyInv, MysqlProcess
  PROVE  DirtyOK'
  <1> USE DEF DirtyInv, NodesInv, NodesOK, TypeOK, HandlersHaveNodes, DirtyOK, DirtyIsFlagged,
              FlushFresh, BeingFlagged, Packed, fields, alarmV, base, Idle
  <1>1. CASE FlushStart \/ FlushEnd \/ Reconnect \/ \E c \in Cells : FlushSkip(c)
    <2>1. /\ UNCHANGED <<known, addr, sw, hw, online, row, stored, mysql, login, reply,
                         alarm, crossed>>
          /\ flush'.at \notin {"query", "clear"}
      BY <1>1 DEF FlushStart, FlushEnd, Reconnect, FlushSkip
    <2>2. QED BY <2>1
  <1>2. ASSUME NEW c \in Cells, FlushPack(c) PROVE DirtyOK'
    <2>1. /\ UNCHANGED <<known, addr, sw, hw, online, row, stored, mysql, login, reply, alarm>>
          /\ flush' = [at |-> "query", cell |-> c, kind |-> mysql[c], buf |-> Packed(c)]
          /\ mysql[c] # "none"
          /\ \A d \in Cells : d # c => crossed'[d] = crossed[d]
      BY <1>2 DEF FlushPack
    <2>2. QED BY <2>1
  <1>3. CASE FlushQuery
    <2>1. /\ flush \in [at : {"query", "clear"}, cell : Cells, kind : Pending, buf : Row]
          /\ flush.at = "query" /\ flush.cell \in Cells /\ mysql[flush.cell] # "none"
          /\ crossed[flush.cell] \/ flush.buf = Packed(flush.cell)
          /\ UNCHANGED <<known, addr, sw, hw, online, mysql, login, reply, alarm>>
      BY <1>3 DEF FlushQuery
    <2>2. /\ stored' \subseteq stored \cup {flush.cell}
          /\ \A d \in Cells : d # flush.cell => row'[d] = row[d]
          /\ \A d \in Cells : d # flush.cell => crossed'[d] = crossed[d]
      BY <1>3 DEF FlushQuery, Writes
    <2>3. DirtyIsFlagged'
      BY <2>1, <2>2
    <2>4. PICK result \in Outcomes :
            /\ IF result = "error" THEN UNCHANGED base
               ELSE Writes(flush.kind, flush.cell, flush.buf)
            /\ flush' = IF result = "ok" THEN [flush EXCEPT !.at = "clear"] ELSE [at |-> "walk"]
            /\ crossed' = [crossed EXCEPT ![flush.cell] = @ /\ result = "ok"]
      BY <1>3 DEF FlushQuery
    <2>5. CASE result = "ok"
      <3>1. /\ flush'.at = "clear" /\ flush'.cell = flush.cell
            /\ crossed[flush.cell] => crossed'[flush.cell]
        BY <2>1, <2>4, <2>5
      <3>2. flush.cell \in stored' => row'[flush.cell] = flush.buf
        BY <2>1, <2>4, <2>5 DEF Writes
      <3>3. QED BY <2>1, <2>3, <3>1, <3>2
    <2>6. CASE result # "ok"
      BY <2>3, <2>4, <2>6
    <2>7. QED BY <2>5, <2>6
  <1>4. CASE FlushClear
    <2>1. /\ UNCHANGED <<known, addr, sw, hw, online, row, stored, login, reply, alarm, crossed>>
          /\ flush.cell \in Cells
          /\ \A d \in Cells : d # flush.cell => mysql'[d] = mysql[d]
          /\ flush'.at = "walk"
          /\ crossed[flush.cell] \/ (flush.cell \in stored
                                       => row[flush.cell] = Packed(flush.cell))
      BY <1>4 DEF FlushClear
    <2>2. QED BY <2>1
  <1>5. QED
    BY <1>1, <1>2, <1>3, <1>4 DEF MysqlProcess

LEMMA OtherDirty ==
  ASSUME DirtyInv,
         \/ Server \/ LoginSend
         \/ \E c \in Cells : DelCell(c) \/ Silence(c)
         \/ Restart
         \/ UNCHANGED vars
  PROVE  DirtyOK'
  <1> USE DEF DirtyInv, NodesInv, NodesOK, TypeOK, HandlersHaveNodes, DirtyOK, DirtyIsFlagged,
              FlushFresh, BeingFlagged, Packed, fields, base, alarmV, flushV, Idle
  <1>1. CASE Server \/ LoginSend
    BY <1>1 DEF Server, LoginSend
  <1>2. ASSUME NEW c \in Cells, DelCell(c) PROVE DirtyOK'
    <2>1. /\ UNCHANGED <<addr, sw, hw, login, reply, alarm, flush>>
          /\ flush.at \notin {"query", "clear"}
          /\ stored' \subseteq stored /\ known' \subseteq known
      BY <1>2 DEF DelCell, DeleteRow, FreeNode
    <2>2. \A d \in Cells : d # c =>
            /\ online'[d] = online[d] /\ row'[d] = row[d]
            /\ crossed'[d] = crossed[d] /\ mysql'[d] = mysql[d]
      BY <1>2 DEF DelCell, DeleteRow, FreeNode
    <2>3. c \in known' \cap stored' => UNCHANGED <<online, row, crossed, mysql>>
      BY <1>2 DEF DelCell, DeleteRow, FreeNode
    <2>4. QED BY <2>1, <2>2, <2>3
  <1>3. ASSUME NEW c \in Cells, Silence(c) PROVE DirtyOK'
    BY <1>3 DEF Silence
  <1>4. CASE Restart
    <2>1. \A d \in Cells : row'[d] = Packed(d)'
      BY <1>4 DEF Restart, Row
    <2>2. flush'.at = "idle" /\ known' \subseteq Cells
      BY <1>4 DEF Restart
    <2>3. QED BY <2>1, <2>2
  <1>5. CASE UNCHANGED vars
    BY <1>5 DEF vars
  <1>6. QED BY <1>1, <1>2, <1>3, <1>4, <1>5

\* A node that differs from its row is always marked for a write or about to
\* be, unless it changed while its last write was out.
THEOREM DirtyFlagged == Spec => []DirtyIsFlagged
  <1>1. Init => DirtyInv
    BY InitTypeOK, InitNodes, InitDirty DEF DirtyInv, NodesInv
  <1>2. DirtyInv /\ [Next]_vars => DirtyOK'
    BY LoginDirty, ReplyDirty, FlagDirty, AlarmDirty, MysqlDirty, OtherDirty DEF Next
  <1>3. DirtyInv /\ [Next]_vars => DirtyInv'
    BY <1>2, NextTypeOK, NextNodes DEF DirtyInv, NodesInv
  <1>4. DirtyInv => DirtyIsFlagged
    BY DEF DirtyInv, DirtyOK
  <1>5. QED BY <1>1, <1>3, <1>4, PTL DEF Spec

=============================================================================
