--------------------------- MODULE CellReport_proofs ---------------------------
(***************************************************************************)
(* Proofs about CellReport, for any cells and any size of a pack: the      *)
(* mutex that is unlocked twice still keeps logins out of the walk unless  *)
(* the second unlock hit the monitor, the unprotected count of cells told  *)
(* never exceeds their number unless a cell is deleted or counted twice,   *)
(* no pack is longer than its buffer, and a report in packs covers the     *)
(* list it began with.                                                     *)
(***************************************************************************)
EXTENDS CellReport, FiniteSetTheorems, SequenceTheorems, TLAPS

Told == {c \in Listed : ser[c] # "new"}

\* Where the monitor is, and which fields its record has there.
MonitorShape ==
    \/ monitor.at \in {"idle", "wait", "look"} /\ monitor = [at |-> monitor.at]
    \/ monitor = [at |-> "walk", todo |-> monitor.todo, packed |-> monitor.packed]
    \/ monitor = [at |-> "tell", todo |-> monitor.todo, packed |-> monitor.packed,
                  read |-> monitor.read]
    \/ monitor = [at |-> "pack", len |-> monitor.len]
    \/ monitor = [at |-> "send", start |-> monitor.start, loop |-> monitor.loop]

Walking == monitor.at \in {"look", "walk", "tell"}

\* Who is behind the mutex without having it locked has lost it to the second
\* unlock.
LockOK ==
    /\ MonitorShape
    /\ lock \in BOOLEAN /\ unlocked \in BOOLEAN
    /\ Walking /\ login = "login" => unlocked
    /\ ~lock /\ (Walking \/ login = "login") => unlocked

-----------------------------------------------------------------------------
\* The mutex of the walk, step by step.
LEMMA LockInit ==
  ASSUME Init
  PROVE  LockOK
  <1>1. monitor = [at |-> "idle"]
    BY DEF Init, Idle
  <1>2. MonitorShape /\ ~Walking
    BY <1>1 DEF MonitorShape, Walking
  <1>3. QED BY <1>2 DEF Init, LockOK

LEMMA LockLogins ==
  ASSUME LockOK, Logins
  PROVE  LockOK'
  <1> USE DEF LockOK, MonitorShape, Walking
  <1>1. CASE LoginLock
    BY <1>1 DEF LoginLock
  <1>2. ASSUME NEW c \in Cells, LoginNew(c) PROVE LockOK'
    <2>1. monitor' = monitor \/ (/\ monitor.at \in {"walk", "tell"}
                                 /\ monitor' = [monitor EXCEPT !.todo = Append(@, c)])
      BY <1>2 DEF LoginNew
    <2>2. MonitorShape' /\ monitor'.at = monitor.at
      BY <2>1
    <2>3. QED BY <1>2, <2>2 DEF LoginNew
  <1>3. CASE LoginAgain
    BY <1>3 DEF LoginAgain
  <1>4. CASE LoginUnlock
    BY <1>4 DEF LoginUnlock
  <1>5. QED BY <1>1, <1>2, <1>3, <1>4 DEF Logins

LEMMA LockLooks ==
  ASSUME LockOK, Looks
  PROVE  LockOK'
  <1> USE DEF LockOK, MonitorShape, Walking, Idle
  <1>1. CASE LookBegin
    BY <1>1 DEF LookBegin
  <1>2. CASE LookLock
    BY <1>2 DEF LookLock
  <1>3. CASE LookNone
    BY <1>3 DEF LookNone
  <1>4. CASE LookWalk
    BY <1>4 DEF LookWalk
  <1>5. CASE WalkPast
    <2>1. monitor' = [at |-> "walk", todo |-> Tail(monitor.todo), packed |-> monitor.packed]
      BY <1>5 DEF WalkPast
    <2>2. QED BY <1>5, <2>1 DEF WalkPast
  <1>6. CASE WalkRead
    BY <1>6 DEF WalkRead
  <1>7. CASE WalkTell
    BY <1>7 DEF WalkTell
  <1>8. CASE WalkEnd
    BY <1>8 DEF WalkEnd
  <1>9. QED BY <1>1, <1>2, <1>3, <1>4, <1>5, <1>6, <1>7, <1>8 DEF Looks

LEMMA LockRounds ==
  ASSUME LockOK, Rounds
  PROVE  LockOK'
  <1> USE DEF LockOK, MonitorShape, Walking, Idle
  <1>1. CASE RoundBegin
    BY <1>1 DEF RoundBegin
  <1>2. CASE PackBegin
    <2>1. \E s, l : monitor' = [at |-> "send", start |-> s, loop |-> l]
      BY <1>2 DEF PackBegin
    <2>2. QED BY <1>2, <2>1 DEF PackBegin
  <1>3. CASE PackSend
    <2>1. monitor' = [at |-> "pack", len |-> 0] \/ monitor' = Idle
      BY <1>3 DEF PackSend
    <2>2. QED BY <1>3, <2>1 DEF PackSend
  <1>4. QED BY <1>1, <1>2, <1>3 DEF Rounds

LEMMA LockOthers ==
  ASSUME LockOK, Replies \/ (\E c \in Cells : DelCell(c))
  PROVE  LockOK'
  <1> USE DEF LockOK, MonitorShape, Walking
  <1>1. CASE Replies
    BY <1>1 DEF Replies, ReplyBegin, ReplyRead, ReplyFlag
  <1>2. ASSUME NEW c \in Cells, DelCell(c) PROVE LockOK'
    <2>1. MonitorShape' /\ monitor'.at = monitor.at
      BY <1>2 DEF DelCell
    <2>2. QED BY <1>2, <2>1 DEF DelCell
  <1>3. QED BY <1>1, <1>2

LEMMA LockStep ==
  ASSUME LockOK, [Next]_vars
  PROVE  LockOK'
  <1>1. CASE UNCHANGED vars
    BY <1>1 DEF vars, LockOK, MonitorShape, Walking
  <1>2. QED BY <1>1, LockLogins, LockLooks, LockRounds, LockOthers DEF Next

\* No login adds a node to the table under the walk of the monitor, unless the
\* unlock behind the login loop has opened its mutex (api_login.c:2247).
THEOREM WalkExcludes == Spec => []WalkExcludesLogin
  <1>1. LockOK /\ [Next]_vars => LockOK'
    BY LockStep
  <1>2. LockOK => WalkExcludesLogin
    BY DEF LockOK, WalkExcludesLogin, Walking
  <1>3. Init => LockOK
    BY LockInit
  <1>4. QED BY <1>1, <1>2, <1>3, PTL DEF Spec

-----------------------------------------------------------------------------
\* The count of the cells told: what the threads have read of it and will write
\* back one higher is no more than the cells told, of which none is lost.
Count == Cardinality(Told)

CountParts ==
    /\ list \in Seq(Cells) /\ IsFiniteSet(Listed)
    /\ ser \in [Cells -> DataFlags]
    /\ reply = Idle \/ (reply.at \in {"test", "read", "write"} /\ reply.cell \in Listed)
    /\ reply.at = "write" => reply.read \in Nat /\ reply.read <= Count
    /\ monitor.at \in {"walk", "tell"} => monitor.todo \in Seq(Listed)
    /\ monitor.at = "tell" => /\ monitor.todo # <<>>
                              /\ monitor.read \in Nat /\ monitor.read <= Count
    /\ sendLen \in Nat /\ sendLen <= Count

CountOK == over \in BOOLEAN /\ (~over => CountParts)

LEMMA ToldFinite ==
  ASSUME IsFiniteSet(Listed)
  PROVE  IsFiniteSet(Told) /\ Count \in Nat
  BY FS_Subset, FS_CardinalityType DEF Told, Count

LEMMA ListedCells ==
  ASSUME list \in Seq(Cells)
  PROVE  Listed \subseteq Cells
  BY DEF Listed

LEMMA CountInit ==
  ASSUME Init
  PROVE  CountOK
  <1>1. over = FALSE /\ reply = [at |-> "idle"] /\ monitor = [at |-> "idle"]
    BY DEF Init, Idle
  <1>2. ser \in [Cells -> DataFlags]
    BY DEF Init, DataFlags
  <1>3. /\ list \in Seq(Cells) /\ Told = Listed
        /\ IsFiniteSet(Listed) /\ Cardinality(Listed) = Len(list)
    <2>1. CASE list = <<>>
      <3>1. Listed = {}
        BY <2>1 DEF Listed
      <3>2. QED BY <2>1, <3>1, FS_EmptySet DEF Told
    <2>2. ASSUME NEW c \in Cells, list = <<c>> PROVE <1>3
      <3>1. Listed = {c}
        BY <2>2 DEF Listed
      <3>2. Told = {c}
        BY <2>2, <3>1 DEF Told, Init
      <3>3. Cardinality({c}) = 1 /\ IsFiniteSet({c})
        BY FS_Singleton
      <3>4. list \in Seq(Cells) /\ Len(list) = 1
        BY <2>2
      <3>5. QED BY <3>1, <3>2, <3>3, <3>4
    <2>3. QED BY <2>1, <2>2 DEF Init
  <1>4. sendLen \in Nat /\ sendLen <= Count
    BY <1>3 DEF Init, Count
  <1>5. reply.at = "idle" /\ monitor.at = "idle" /\ reply = Idle
    BY <1>1 DEF Idle
  <1>6. CountParts
    BY <1>2, <1>3, <1>4, <1>5 DEF CountParts
  <1>7. QED BY <1>1, <1>6 DEF CountOK

\* A step that changes neither the table, its flags, the count nor what a
\* reply holds keeps the count, whatever it does with the walk.
LEMMA CountKept ==
  ASSUME CountOK, UNCHANGED <<list, ser, sendLen, reply, over>>,
         ~over /\ monitor'.at \in {"walk", "tell"} => monitor'.todo \in Seq(Listed),
         ~over /\ monitor'.at = "tell" =>
             /\ monitor'.todo # <<>>
             /\ monitor'.read \in Nat /\ monitor'.read <= Count
  PROVE  CountOK'
  <1>1. Listed' = Listed /\ Told' = Told /\ Count' = Count
    BY DEF Listed, Told, Count
  <1>2. QED BY <1>1 DEF CountOK, CountParts

LEMMA CountLogins ==
  ASSUME CountOK, LockOK, Logins
  PROVE  CountOK'
  <1>1. CASE LoginLock \/ LoginAgain \/ LoginUnlock
    <2>1. UNCHANGED <<list, ser, sendLen, reply, monitor, over>>
      BY <1>1 DEF LoginLock, LoginAgain, LoginUnlock
    <2>2. QED BY <2>1, CountKept DEF CountOK, CountParts
  <1>2. ASSUME NEW c \in Cells, LoginNew(c), ~over PROVE CountParts'
    <2>1. CountParts
      BY <1>2 DEF CountOK
    <2>2. list' = Append(list, c) /\ c \notin Listed /\ ser' = [ser EXCEPT ![c] = "new"]
      BY <1>2 DEF LoginNew
    <2>3. list' \in Seq(Cells) /\ Listed' = Listed \cup {c}
      BY <2>1, <2>2 DEF CountParts, Listed
    <2>4. IsFiniteSet(Listed')
      BY <2>1, <2>3, FS_AddElement DEF CountParts
    <2>5. ser' \in [Cells -> DataFlags]
      BY <2>1, <2>2 DEF CountParts, DataFlags
    <2>6. Told' = Told
      BY <2>1, <2>2, <2>3, ListedCells DEF Told, CountParts
    <2>7. monitor' = monitor \/ (/\ monitor.at \in {"walk", "tell"}
                                 /\ monitor' = [monitor EXCEPT !.todo = Append(@, c)])
      BY <1>2 DEF LoginNew
    <2>8. /\ monitor'.at = monitor.at
          /\ monitor'.todo \in {monitor.todo, Append(monitor.todo, c)}
          /\ monitor.at = "tell" => monitor'.read = monitor.read
      BY <2>7 DEF LockOK, MonitorShape
    <2>9. monitor.at \in {"walk", "tell"} => monitor'.todo \in Seq(Listed')
      <3>1. ASSUME monitor.at \in {"walk", "tell"} PROVE monitor.todo \in Seq(Listed')
        BY <2>1, <2>3, <3>1 DEF CountParts
      <3>2. c \in Listed'
        BY <2>3
      <3>3. ASSUME monitor.at \in {"walk", "tell"} PROVE Append(monitor.todo, c) \in Seq(Listed')
        BY <3>1, <3>2, <3>3, AppendProperties
      <3>4. QED BY <2>8, <3>1, <3>3
    <2>10. monitor.at = "tell" => monitor'.todo # <<>>
      BY <2>1, <2>8, AppendProperties DEF CountParts
    <2>11. UNCHANGED <<sendLen, reply>> /\ Count' = Count
      BY <1>2, <2>6 DEF LoginNew, Count
    <2>12. QED BY <2>1, <2>3, <2>4, <2>5, <2>8, <2>9, <2>10, <2>11 DEF CountParts
  <1>3. ASSUME NEW c \in Cells, LoginNew(c) PROVE CountOK'
    BY <1>2, <1>3 DEF CountOK, LoginNew
  <1>4. QED BY <1>1, <1>3 DEF Logins

LEMMA CountReplies ==
  ASSUME CountOK, Replies
  PROVE  CountOK'
  <1>1. ASSUME NEW c \in Cells, ReplyBegin(c) PROVE CountOK'
    <2>1. /\ UNCHANGED <<list, ser, sendLen, monitor, over>> /\ c \in Listed
          /\ reply'.at \in {"read", "test"} /\ reply'.cell = c
      BY <1>1 DEF ReplyBegin
    <2>2. Listed' = Listed /\ Told' = Told /\ Count' = Count
      BY <2>1 DEF Listed, Told, Count
    <2>3. QED BY <2>1, <2>2 DEF CountOK, CountParts
  <1>2. CASE ReplyRead
    <2>1. /\ UNCHANGED <<list, ser, sendLen, monitor, over>>
          /\ reply.at = "read"
          /\ reply'.at = "write" /\ reply'.cell = reply.cell /\ reply'.read = sendLen
      BY <1>2 DEF ReplyRead
    <2>2. Listed' = Listed /\ Told' = Told /\ Count' = Count
      BY <2>1 DEF Listed, Told, Count
    <2>3. QED BY <2>1, <2>2 DEF CountOK, CountParts, Idle
  <1>3. CASE ReplyFlag
    <2> DEFINE c == reply.cell
    <2>1. /\ UNCHANGED <<list, monitor>> /\ reply' = Idle
          /\ ser' = [ser EXCEPT ![c] = "data"]
          /\ over' = (over \/ (reply.at = "write" /\ ser[c] # "new"))
      BY <1>3 DEF ReplyFlag
    <2>2. over' \in BOOLEAN
      BY <2>1 DEF CountOK
    <2>3. ASSUME ~over' PROVE CountParts'
      <3>1. CountParts /\ (reply.at = "write" => ser[c] = "new")
        BY <2>1, <2>3 DEF CountOK
      <3>2. c \in Listed /\ Listed' = Listed /\ Listed \subseteq Cells
        BY <1>3, <2>1, <3>1, ListedCells DEF ReplyFlag, CountParts, Idle, Listed
      <3>3. Told' = Told \cup {c}
        BY <2>1, <3>1, <3>2 DEF Told, CountParts
      <3>4. IsFiniteSet(Told) /\ Count \in Nat
        BY <3>1, ToldFinite DEF CountParts
      <3>5. Count' = IF c \in Told THEN Count ELSE Count + 1
        BY <3>3, <3>4, FS_AddElement DEF Count
      <3>6. sendLen' \in Nat /\ sendLen' <= Count'
        <4>1. CASE reply.at = "test"
          BY <1>3, <3>1, <3>4, <3>5, <4>1 DEF ReplyFlag, CountParts
        <4>2. CASE reply.at = "write"
          <5>1. c \notin Told
            BY <3>1, <4>2 DEF Told
          <5>2. sendLen' = reply.read + 1
            BY <1>3, <4>2 DEF ReplyFlag
          <5>3. QED BY <3>1, <3>4, <3>5, <4>2, <5>1, <5>2 DEF CountParts
        <4>3. QED BY <1>3, <4>1, <4>2 DEF ReplyFlag
      <3>7. ser' \in [Cells -> DataFlags]
        BY <2>1, <3>1 DEF CountParts, DataFlags
      <3>8. monitor.at = "tell" => monitor.read <= Count'
        BY <3>1, <3>4, <3>5 DEF CountParts
      <3>9. QED BY <2>1, <3>1, <3>2, <3>6, <3>7, <3>8 DEF CountParts, Idle
    <2>4. QED BY <2>2, <2>3 DEF CountOK
  <1>4. QED BY <1>1, <1>2, <1>3 DEF Replies

\* The looks: the walk packs the cell at the head of what is left of it.
LEMMA CountWalkTell ==
  ASSUME CountOK, LockOK, WalkTell
  PROVE  CountOK'
  <1> DEFINE c == Head(monitor.todo)
  <1>1. /\ monitor.at = "tell" /\ UNCHANGED <<list, reply>>
        /\ sendLen' = monitor.read + 1
        /\ ser' = [ser EXCEPT ![c] = "told"]
        /\ monitor' = [at |-> "walk", todo |-> Tail(monitor.todo), packed |-> monitor.packed + 1]
        /\ over' = (over \/ ser[c] # "new")
    BY DEF WalkTell
  <1>2. over' \in BOOLEAN
    BY <1>1 DEF CountOK
  <1>3. ASSUME ~over' PROVE CountParts'
    <2>1. CountParts /\ ser[c] = "new"
      BY <1>1, <1>3 DEF CountOK
    <2>2. monitor.todo \in Seq(Listed) /\ monitor.todo # <<>>
      BY <1>1, <2>1 DEF CountParts
    <2>3. c \in Listed /\ Tail(monitor.todo) \in Seq(Listed)
      BY <2>2
    <2>4. Listed' = Listed /\ Listed \subseteq Cells
      BY <1>1, <2>1, ListedCells DEF Listed, CountParts
    <2>5. Told' = Told \cup {c} /\ c \notin Told
      BY <1>1, <2>1, <2>3, <2>4 DEF Told, CountParts
    <2>6. IsFiniteSet(Told) /\ Count \in Nat
      BY <2>1, ToldFinite DEF CountParts
    <2>7. Count' = Count + 1
      BY <2>5, <2>6, FS_AddElement DEF Count
    <2>8. ser' \in [Cells -> DataFlags]
      BY <1>1, <2>1 DEF CountParts, DataFlags
    <2>9. sendLen' \in Nat /\ sendLen' <= Count'
      BY <1>1, <2>1, <2>6, <2>7 DEF CountParts
    <2>10. reply.at = "write" => reply.read <= Count'
      BY <2>1, <2>6, <2>7 DEF CountParts
    <2>11. QED BY <1>1, <2>1, <2>3, <2>4, <2>8, <2>9, <2>10 DEF CountParts
  <1>4. QED BY <1>2, <1>3 DEF CountOK

LEMMA CountLookNone ==
  ASSUME CountOK, LookNone
  PROVE  CountOK'
  <1>1. /\ UNCHANGED <<list, ser, reply, over>> /\ monitor' = Idle
        /\ sendLen' = Len(list)
        /\ list = <<>> \/ sendLen >= Len(list)
    BY DEF LookNone, NothingNew
  <1>2. Listed' = Listed /\ Told' = Told /\ Count' = Count
    BY <1>1 DEF Listed, Told, Count
  <1>3. ASSUME CountParts PROVE sendLen' \in Nat /\ sendLen' <= Count
    <2>1. Count \in Nat /\ Len(list) \in Nat
      BY <1>3, ToldFinite DEF CountParts
    <2>2. QED BY <1>1, <1>3, <2>1 DEF CountParts
  <1>4. QED BY <1>1, <1>2, <1>3 DEF CountOK, CountParts, Idle

LEMMA CountLooks ==
  ASSUME CountOK, LockOK, Looks
  PROVE  CountOK'
  <1>1. CASE LookBegin \/ LookLock
    <2>1. UNCHANGED <<list, ser, sendLen, reply, over>> /\ monitor'.at \in {"wait", "look"}
      BY <1>1 DEF LookBegin, LookLock
    <2>2. QED BY <2>1, CountKept
  <1>2. CASE LookWalk
    <2>1. /\ UNCHANGED <<list, ser, sendLen, reply, over>>
          /\ monitor'.at = "walk" /\ monitor'.todo = list
      BY <1>2 DEF LookWalk
    <2>2. ~over => list \in Seq(Listed)
      BY DEF CountOK, CountParts, Listed
    <2>3. QED BY <2>1, <2>2, CountKept
  <1>3. CASE WalkPast
    <2>1. /\ UNCHANGED <<list, ser, sendLen, reply, over>>
          /\ monitor.at = "walk" /\ monitor.todo # <<>>
          /\ monitor' = [monitor EXCEPT !.todo = Tail(@)]
      BY <1>3 DEF WalkPast
    <2>2. monitor'.at = "walk" /\ monitor'.todo = Tail(monitor.todo)
      BY <2>1 DEF LockOK, MonitorShape
    <2>3. ~over => monitor'.todo \in Seq(Listed)
      BY <2>1, <2>2 DEF CountOK, CountParts
    <2>4. QED BY <2>1, <2>2, <2>3, CountKept
  <1>4. CASE WalkRead
    <2>1. /\ UNCHANGED <<list, ser, sendLen, reply, over>>
          /\ monitor.at = "walk" /\ monitor.todo # <<>>
          /\ monitor'.at = "tell" /\ monitor'.todo = monitor.todo /\ monitor'.read = sendLen
      BY <1>4 DEF WalkRead
    <2>2. ~over => /\ monitor.todo \in Seq(Listed)
                   /\ sendLen \in Nat /\ sendLen <= Count
      BY <2>1 DEF CountOK, CountParts
    <2>3. QED BY <2>1, <2>2, CountKept
  <1>5. CASE WalkEnd
    <2>1. UNCHANGED <<list, ser, sendLen, reply, over>> /\ monitor'.at = "idle"
      BY <1>5 DEF WalkEnd, Idle
    <2>2. QED BY <2>1, CountKept
  <1>6. QED BY <1>1, <1>2, <1>3, <1>4, <1>5, CountWalkTell, CountLookNone DEF Looks

LEMMA CountRounds ==
  ASSUME CountOK, Rounds
  PROVE  CountOK'
  <1>1. CASE RoundBegin
    <2>1. /\ UNCHANGED <<list, ser, sendLen, reply, over>>
          /\ monitor'.at \in {"idle", "pack"}
      BY <1>1 DEF RoundBegin, Idle
    <2>2. QED BY <2>1, CountKept
  <1>2. CASE PackBegin
    <2>1. UNCHANGED <<list, ser, sendLen, reply, over>> /\ monitor'.at = "send"
      BY <1>2 DEF PackBegin
    <2>2. QED BY <2>1, CountKept
  <1>3. CASE PackSend
    <2>1. UNCHANGED <<list, sendLen, reply, over>> /\ monitor'.at \in {"idle", "pack"}
      BY <1>3 DEF PackSend, Idle
    <2>2. PICK S : ser' = [c \in Cells |-> IF c \in {d \in S : ser[d] = "data"} THEN "told" ELSE ser[c]]
      BY <1>3 DEF PackSend
    <2>3. ASSUME CountParts PROVE CountParts'
      <3>1. Listed' = Listed /\ Listed \subseteq Cells
        BY <2>1, <2>3, ListedCells DEF Listed, CountParts
      <3>2. Told' = Told
        BY <2>2, <2>3, <3>1 DEF Told, CountParts
      <3>3. ser' \in [Cells -> DataFlags]
        BY <2>2, <2>3 DEF CountParts, DataFlags
      <3>4. Count' = Count
        BY <3>2 DEF Count
      <3>5. QED BY <2>1, <2>3, <3>1, <3>3, <3>4 DEF CountParts
    <2>4. QED BY <2>1, <2>3 DEF CountOK
  <1>4. QED BY <1>1, <1>2, <1>3 DEF Rounds

\* The count that PackCellNewInfo trusts to find that no cell is new is at most
\* the number of cells told, though no lock orders the increments of the
\* threads, as long as no cell is deleted or counted twice (api_monitor.c:2351).
THEOREM CountOfTold == Spec => []CountIsOfTold
  <1> DEFINE Inv == LockOK /\ CountOK
  <1>1. Init => Inv
    BY LockInit, CountInit
  <1>2. Inv /\ [Next]_vars => Inv'
    <2>1. ASSUME Inv, [Next]_vars PROVE CountOK'
      <3>1. CASE UNCHANGED vars
        <4>1. UNCHANGED <<list, ser, sendLen, reply, monitor, over>>
          BY <3>1 DEF vars
        <4>2. QED BY <2>1, <4>1, CountKept DEF CountOK, CountParts
      <3>2. ASSUME NEW c \in Cells, DelCell(c) PROVE CountOK'
        BY <3>2 DEF DelCell, CountOK
      <3>3. QED BY <2>1, <3>1, <3>2, CountLogins, CountReplies, CountLooks, CountRounds DEF Next
    <2>2. QED BY <2>1, LockStep
  <1>3. Inv => CountIsOfTold
    BY DEF CountOK, CountParts, CountIsOfTold, Count, Told
  <1>4. QED BY <1>1, <1>2, <1>3, PTL DEF Spec

-----------------------------------------------------------------------------
\* The report in packs: the table, the walk of the new cells and the fields of
\* the report in progress, each with what the threads may do to it.
Distinct == \A i, j \in DOMAIN list : list[i] = list[j] => i = j

TableOK ==
    /\ list \in Seq(Cells) /\ Distinct
    /\ ser \in [Cells -> DataFlags]
    /\ sendLen \in Nat
    /\ {lock, unlocked, over} \subseteq BOOLEAN
    /\ login \in {"idle", "login", "again"}
    /\ reply = Idle \/ (reply.at \in {"test", "read", "write"} /\ reply.cell \in Listed)
    /\ reply.at = "write" => reply.read \in Nat
    /\ due \subseteq Listed
    /\ spoilt \subseteq {"start", "deleted"}

WalkOK ==
    /\ monitor.at \in {"idle", "wait", "look", "walk", "tell", "pack", "send"}
    /\ monitor.at \in {"walk", "tell"} =>
          monitor.todo \in Seq(Cells) /\ monitor.packed \in 0 .. PackSize
    /\ monitor.at = "tell" =>
          monitor.todo # <<>> /\ monitor.packed < PackSize /\ monitor.read \in Nat

Reports == [sub : Nat, num : Nat, remain : 0 .. PackSize - 1, next : Nodes]

\* Fields that split no report, those of one that is split in more packs, and
\* those of one that fits a pack.
Unsplit == report.sub = 0 /\ report.num = 0 /\ report.remain = 0
Split == report.num > 1 /\ report.sub < report.num

RoundOK ==
    /\ report \in Reports
    /\ monitor.at \notin {"pack", "send"} => Unsplit
    /\ monitor.at = "pack" => Split \/ (Unsplit /\ monitor.len \in 1 .. PackSize)
    /\ monitor.at = "send" => /\ Split \/ Unsplit
                              /\ monitor.start \in Nodes /\ monitor.loop \in 1 .. PackSize

\* The nodes that the packs before this one have passed, and those that this
\* one and the packs after it will pass.
Passed == report.sub * PackSize
Last == IF report.remain = 0 THEN PackSize ELSE report.remain
Rest ==
    IF report.num = 0 THEN (IF monitor.at = "pack" THEN monitor.len ELSE monitor.loop)
    ELSE (report.num - 1 - report.sub) * PackSize + Last

\* A report that nothing has spoilt: the cells it owes lie ahead of it, within
\* the packs that are left, and the next pack starts where the last one ended.
Covering ==
    /\ \A c \in due : ser[c] = "data" /\ \E i \in Passed + 1 .. Passed + Rest : list[i] = c
    /\ Passed + Rest <= Len(list)
    /\ report.next = IF report.sub = 0 THEN NoNode ELSE list[Passed + 1]
    /\ monitor.at = "send" =>
          /\ monitor.start = list[Passed + 1]
          /\ monitor.loop = IF report.sub + 1 < report.num THEN PackSize ELSE Rest

CoverOK == spoilt = {} /\ monitor.at \in {"pack", "send"} => Covering

ReportInv == LockOK /\ TableOK /\ WalkOK /\ RoundOK /\ CoverOK

-----------------------------------------------------------------------------
\* One number of packs and one rest: the packs of n nodes, the last of which
\* holds what is left.
LEMMA Quotient ==
  ASSUME NEW P \in Nat, P > 0, NEW a \in Int, NEW b \in Int,
         NEW r \in 0 .. P - 1, NEW s \in 0 .. P - 1, P * a + r = P * b + s
  PROVE  a = b /\ r = s
  <1>1. ~(a < b)
    <2>1. SUFFICES ASSUME a + 1 <= b PROVE FALSE
      OBVIOUS
    <2>2. P * (a + 1) <= P * b
      BY <2>1
    <2>3. P * (a + 1) = P * a + P
      OBVIOUS
    <2>4. QED BY <2>2, <2>3
  <1>2. ~(b < a)
    <2>1. SUFFICES ASSUME b + 1 <= a PROVE FALSE
      OBVIOUS
    <2>2. P * (b + 1) <= P * a
      BY <2>1
    <2>3. P * (b + 1) = P * b + P
      OBVIOUS
    <2>4. QED BY <2>2, <2>3
  <1>3. QED BY <1>1, <1>2

LEMMA PackCount ==
  ASSUME NEW n \in Nat, n > 0
  PROVE  /\ Packs(n) \in Nat /\ Packs(n) > 0
         /\ n % PackSize \in 0 .. PackSize - 1
         /\ n = (Packs(n) - 1) * PackSize + (IF n % PackSize = 0 THEN PackSize ELSE n % PackSize)
         /\ Packs(n) <= 1 => n <= PackSize
  <1> DEFINE P == PackSize
             q == n \div P
             s == n % P
             k == (n + P - 1) \div P
             r == (n + P - 1) % P
  <1>1. P \in Nat /\ P > 0
    BY PackAssumption
  <1>2. n = P * q + s /\ s \in 0 .. P - 1 /\ q \in Nat
    BY <1>1
  <1>3. n + P - 1 = P * k + r /\ r \in 0 .. P - 1 /\ k \in Nat
    BY <1>1
  <1> HIDE DEF q, s, k, r, P
  <1>4. CASE s = 0
    <2>1. P * k + r = P * q + (P - 1)
      BY <1>1, <1>2, <1>3, <1>4
    <2>2. k = q
      BY <1>1, <1>2, <1>3, <2>1, Quotient
    <2>3. n = P * k /\ P * k = (k - 1) * P + P
      BY <1>1, <1>2, <1>3, <1>4, <2>2
    <2>4. k > 0
      <3>1. k = 0 => P * k = 0
        BY <1>1
      <3>2. QED BY <1>3, <2>3, <3>1
    <2>5. k <= 1 => n <= P
      <3>1. P * 1 = P
        BY <1>1
      <3>2. QED BY <1>3, <2>3, <2>4, <3>1
    <2>6. QED BY <1>2, <1>3, <1>4, <2>3, <2>4, <2>5 DEF Packs, P, k, s
  <1>5. CASE s > 0
    <2>1. P * k + r = P * (q + 1) + (s - 1)
      <3>1. P * (q + 1) = P * q + P
        BY <1>1, <1>2
      <3>2. QED BY <1>1, <1>2, <1>3, <3>1
    <2>2. k = q + 1
      BY <1>1, <1>2, <1>3, <1>5, <2>1, Quotient
    <2>3. n = (k - 1) * P + s
      BY <1>1, <1>2, <2>2
    <2>4. k <= 1 => n <= P
      <3>1. P * 0 = 0
        BY <1>1
      <3>2. QED BY <1>1, <1>2, <2>2, <3>1
    <2>5. k > 0
      BY <1>2, <2>2
    <2>6. QED BY <1>2, <1>3, <1>5, <2>3, <2>4, <2>5 DEF Packs, P, k, s
  <1>6. QED BY <1>2, <1>4, <1>5

\* Where a cell is in a list that has it once, and what is left without it.
LEMMA PositionOf ==
  ASSUME TableOK, NEW c \in Listed
  PROVE  Position(c) \in 1 .. Len(list) /\ list[Position(c)] = c
  <1>1. \E i \in DOMAIN list : list[i] = c
    BY DEF Listed
  <1>2. Position(c) \in DOMAIN list /\ list[Position(c)] = c
    BY <1>1 DEF Position
  <1>3. QED BY <1>2 DEF TableOK

LEMMA PositionAt ==
  ASSUME TableOK, NEW i \in 1 .. Len(list)
  PROVE  list[i] \in Listed /\ Position(list[i]) = i
  <1>1. list[i] \in Listed
    BY DEF TableOK, Listed
  <1>2. QED BY <1>1, PositionOf DEF TableOK, Distinct

\* A sequence without its element at p.
Removed(s, p) == SubSeq(s, 1, p - 1) \o SubSeq(s, p + 1, Len(s))

LEMMA RemovedAt ==
  ASSUME NEW S, NEW s \in Seq(S), NEW p \in 1 .. Len(s)
  PROVE  /\ Removed(s, p) \in Seq(S) /\ Len(Removed(s, p)) = Len(s) - 1
         /\ \A i \in 1 .. Len(s) - 1 : Removed(s, p)[i] = IF i < p THEN s[i] ELSE s[i + 1]
  <1> DEFINE n == Len(s)
             W == Removed(s, p)
             A == SubSeq(s, 1, p - 1)
             B == SubSeq(s, p + 1, n)
  <1>1. n \in Nat /\ \A i \in 1 .. n : s[i] \in S
    OBVIOUS
  <1> HIDE DEF n, W
  <1>p. p \in 1 .. n
    BY DEF n
  <1>2. A \in Seq(S) /\ Len(A) = p - 1 /\ \A i \in 1 .. p - 1 : A[i] = s[i]
    BY <1>1, <1>p, SubSeqProperties
  <1>3. B \in Seq(S) /\ Len(B) = n - p /\ \A i \in 1 .. n - p : B[i] = s[p + i]
    <2>1. p + 1 \in Int /\ n \in Int /\ \A i \in p + 1 .. n : s[i] \in S
      BY <1>1, <1>p
    <2>2. /\ B \in Seq(S)
          /\ Len(B) = IF p + 1 <= n THEN n - (p + 1) + 1 ELSE 0
          /\ \A i \in 1 .. n - (p + 1) + 1 : B[i] = s[(p + 1) + i - 1]
      BY <2>1, SubSeqProperties
    <2>3. QED BY <1>1, <1>p, <2>2
  <1> HIDE DEF A, B
  <1>4. W = A \o B
    BY DEF A, B, W, n, Removed
  <1>5. /\ W \in Seq(S) /\ Len(W) = Len(A) + Len(B)
        /\ \A i \in 1 .. Len(A) + Len(B) : W[i] = IF i <= Len(A) THEN A[i] ELSE B[i - Len(A)]
    <2>1. A \in Seq(S) /\ B \in Seq(S)
      BY <1>2, <1>3
    <2>2. /\ A \o B \in Seq(S) /\ Len(A \o B) = Len(A) + Len(B)
          /\ \A i \in 1 .. Len(A) + Len(B) : (A \o B)[i] = IF i <= Len(A) THEN A[i] ELSE B[i - Len(A)]
      BY <2>1, ConcatProperties
    <2>3. QED BY <1>4, <2>2
  <1>6. Len(A) + Len(B) = n - 1 /\ Len(A) = p - 1 /\ p \in Int /\ n \in Nat
    BY <1>1, <1>p, <1>2, <1>3
  <1>7. ASSUME NEW i \in 1 .. n - 1 PROVE W[i] = IF i < p THEN s[i] ELSE s[i + 1]
    <2>1. CASE i < p
      <3>1. i \in 1 .. Len(A) + Len(B) /\ i <= Len(A) /\ i \in 1 .. p - 1
        BY <1>6, <1>7, <2>1
      <3>2. W[i] = A[i]
        BY <1>5, <3>1
      <3>3. QED BY <1>2, <2>1, <3>1, <3>2
    <2>2. CASE i >= p
      <3>1. i - (p - 1) \in 1 .. n - p /\ p + (i - (p - 1)) = i + 1 /\ ~(i <= p - 1)
        BY <1>6, <1>7, <2>2
      <3>2. B[i - (p - 1)] = s[i + 1]
        BY <1>3, <3>1
      <3>3. i \in 1 .. Len(A) + Len(B) /\ ~(i <= Len(A)) /\ ~(i < p)
        BY <1>6, <1>7, <2>2
      <3>4. W[i] = B[i - Len(A)]
        BY <1>5, <3>3
      <3>5. QED BY <1>6, <3>2, <3>3, <3>4
    <2>3. i < p \/ i >= p
      BY <1>6, <1>7
    <2>4. QED BY <2>1, <2>2, <2>3
  <1>8. QED BY <1>5, <1>6, <1>7 DEF n, W

LEMMA WithoutList ==
  ASSUME TableOK, NEW c \in Listed
  PROVE  LET W == Without(c)
         IN  /\ W \in Seq(Cells)
             /\ {W[i] : i \in DOMAIN W} = Listed \ {c}
             /\ \A i, j \in DOMAIN W : W[i] = W[j] => i = j
  <1>1. PICK n \in Nat : n = Len(list)
    BY DEF TableOK
  <1>2. PICK p \in 1 .. n : p = Position(c) /\ list[p] = c
    BY <1>1, PositionOf
  <1>3. PICK W : W = Without(c)
    OBVIOUS
  <1>4. /\ W \in Seq(Cells) /\ Len(W) = n - 1
        /\ \A i \in 1 .. n - 1 : W[i] = IF i < p THEN list[i] ELSE list[i + 1]
    <2>1. list \in Seq(Cells) /\ W = Removed(list, p)
      BY <1>2, <1>3 DEF Without, Removed, TableOK
    <2>2. QED BY <1>1, <2>1, RemovedAt
  <1>5. DOMAIN W = 1 .. n - 1 /\ DOMAIN list = 1 .. n
    BY <1>1, <1>4 DEF TableOK
  <1>6. \A i, j \in 1 .. n : list[i] = list[j] => i = j
    BY <1>5 DEF TableOK, Distinct
  <1>7. ASSUME NEW i \in 1 .. n - 1
        PROVE  \E k \in 1 .. n : k # p /\ W[i] = list[k] /\ k = IF i < p THEN i ELSE i + 1
    BY <1>2, <1>4, <1>7
  <1>8. ASSUME NEW i \in 1 .. n - 1, NEW j \in 1 .. n - 1, W[i] = W[j] PROVE i = j
    <2>1. PICK k \in 1 .. n : W[i] = list[k] /\ k = IF i < p THEN i ELSE i + 1
      BY <1>7
    <2>2. PICK m \in 1 .. n : W[j] = list[m] /\ m = IF j < p THEN j ELSE j + 1
      BY <1>7
    <2>3. k = m
      BY <1>6, <1>8, <2>1, <2>2
    <2>4. QED BY <1>8, <2>1, <2>2, <2>3
  <1>9. {W[i] : i \in DOMAIN W} = Listed \ {c}
    <2>1. ASSUME NEW i \in DOMAIN W PROVE W[i] \in Listed /\ W[i] # c
      <3>1. PICK k \in 1 .. n : k # p /\ W[i] = list[k]
        BY <1>5, <1>7
      <3>2. QED BY <1>2, <1>5, <1>6, <3>1 DEF Listed
    <2>2. ASSUME NEW d \in Listed, d # c PROVE \E i \in DOMAIN W : W[i] = d
      <3>1. PICK j \in 1 .. n : list[j] = d
        BY <1>5 DEF Listed
      <3>2. CASE j < p
        BY <1>2, <1>4, <1>5, <3>1, <3>2
      <3>3. CASE j > p
        <4>1. j - 1 \in 1 .. n - 1 /\ ~(j - 1 < p) /\ (j - 1) + 1 = j
          BY <3>3
        <4>2. W[j - 1] = d
          BY <1>4, <3>1, <4>1
        <4>3. QED BY <1>5, <4>1, <4>2
      <3>4. QED BY <1>2, <2>2, <3>1, <3>2, <3>3
    <2>3. QED BY <2>1, <2>2
  <1>10. QED BY <1>3, <1>4, <1>5, <1>8, <1>9

-----------------------------------------------------------------------------
LEMMA TableLogins ==
  ASSUME TableOK, Logins
  PROVE  TableOK'
  <1>1. CASE LoginLock \/ LoginAgain \/ LoginUnlock
    <2>1. UNCHANGED <<list, ser, sendLen, over, reply, due, spoilt>> /\ Listed' = Listed
      BY <1>1 DEF LoginLock, LoginAgain, LoginUnlock, Listed
    <2>2. lock' \in BOOLEAN /\ unlocked' \in BOOLEAN /\ login' \in {"idle", "login", "again"}
      BY <1>1 DEF LoginLock, LoginAgain, LoginUnlock, TableOK
    <2>3. QED BY <2>1, <2>2 DEF TableOK, Distinct
  <1>2. ASSUME NEW c \in Cells, LoginNew(c) PROVE TableOK'
    <2>1. /\ list' = Append(list, c) /\ c \notin Listed /\ ser' = [ser EXCEPT ![c] = "new"]
          /\ lock' = FALSE /\ login' = "idle" /\ UNCHANGED <<sendLen, reply, due, spoilt, unlocked, over>>
      BY <1>2 DEF LoginNew
    <2>2. list' \in Seq(Cells) /\ Listed' = Listed \cup {c}
      BY <2>1 DEF TableOK, Listed
    <2>3. Distinct'
      BY <2>1 DEF TableOK, Distinct, Listed
    <2>4. ser' \in [Cells -> DataFlags]
      BY <2>1 DEF TableOK, DataFlags
    <2>5. QED BY <2>1, <2>2, <2>3, <2>4 DEF TableOK
  <1>3. QED BY <1>1, <1>2 DEF Logins

LEMMA TableReplies ==
  ASSUME TableOK, Replies
  PROVE  TableOK'
  <1>1. UNCHANGED <<list, lock, login, due, spoilt, unlocked>> /\ Listed' = Listed
    BY DEF Replies, ReplyBegin, ReplyRead, ReplyFlag, Listed
  <1>2. ser' \in [Cells -> DataFlags] /\ sendLen' \in Nat
    <2>1. ser' = ser \/ ser' = [ser EXCEPT ![reply.cell] = "data"]
      BY DEF Replies, ReplyBegin, ReplyRead, ReplyFlag
    <2>2. sendLen' = sendLen \/ (reply.at = "write" /\ sendLen' = reply.read + 1)
      BY DEF Replies, ReplyBegin, ReplyRead, ReplyFlag
    <2>3. QED BY <2>1, <2>2 DEF TableOK, DataFlags
  <1>4. over' \in BOOLEAN
    <2>1. over' = over \/ over' = (over \/ (reply.at = "write" /\ ser[reply.cell] # "new"))
      BY DEF Replies, ReplyBegin, ReplyRead, ReplyFlag
    <2>2. QED BY <2>1 DEF TableOK
  <1>3. /\ reply' = Idle \/ (reply'.at \in {"test", "read", "write"} /\ reply'.cell \in Listed)
        /\ reply'.at = "write" => reply'.read \in Nat
    BY DEF TableOK, Idle, Replies, ReplyBegin, ReplyRead, ReplyFlag
  <1>5. QED BY <1>1, <1>2, <1>3, <1>4 DEF TableOK, Distinct

\* The steps of the monitor leave the table and the reply alone.
LEMMA TableMonitor ==
  ASSUME TableOK, WalkOK, Looks \/ Rounds
  PROVE  TableOK'
  <1>1. UNCHANGED <<list, reply, login>> /\ Listed' = Listed
    BY DEF Looks, LookBegin, LookLock, LookNone, LookWalk, WalkPast, WalkRead, WalkTell, WalkEnd,
           Rounds, RoundBegin, PackBegin, PackSend, Listed
  <1>2. CASE Looks
    <2>1. UNCHANGED <<due, spoilt>>
      BY <1>2 DEF Looks, LookBegin, LookLock, LookNone, LookWalk, WalkPast, WalkRead, WalkTell, WalkEnd
    <2>2. {lock', unlocked', over'} \subseteq BOOLEAN
      BY <1>2 DEF TableOK, Looks, LookBegin, LookLock, LookNone, LookWalk, WalkPast, WalkRead, WalkTell, WalkEnd
    <2>3. ser' \in [Cells -> DataFlags]
      <3>1. ser' = ser \/ ser' = [ser EXCEPT ![Head(monitor.todo)] = "told"]
        BY <1>2 DEF Looks, LookBegin, LookLock, LookNone, LookWalk, WalkPast, WalkRead, WalkTell, WalkEnd
      <3>2. QED BY <3>1 DEF TableOK, DataFlags
    <2>4. sendLen' \in Nat
      BY <1>2 DEF TableOK, WalkOK, Looks, LookBegin, LookLock, LookNone, LookWalk, WalkPast, WalkRead, WalkTell, WalkEnd
    <2>5. QED BY <1>1, <2>1, <2>2, <2>3, <2>4 DEF TableOK, Distinct
  <1>3. CASE Rounds
    <2>1. UNCHANGED <<sendLen, lock, unlocked, over>>
      BY <1>3 DEF Rounds, RoundBegin, PackBegin, PackSend
    <2>2. ser' \in [Cells -> DataFlags]
      BY <1>3 DEF TableOK, DataFlags, Rounds, RoundBegin, PackBegin, PackSend
    <2>3. due' \subseteq Listed /\ spoilt' \subseteq {"start", "deleted"}
      BY <1>3 DEF TableOK, Rounds, RoundBegin, PackBegin, PackSend
    <2>4. QED BY <1>1, <2>1, <2>2, <2>3 DEF TableOK, Distinct
  <1>4. QED BY <1>2, <1>3

LEMMA TableDel ==
  ASSUME TableOK, NEW c \in Cells, DelCell(c)
  PROVE  TableOK'
  <1>1. /\ c \in Listed /\ reply = Idle /\ list' = Without(c) /\ due' = due \ {c}
        /\ spoilt' = spoilt \cup {"deleted"} /\ over' = TRUE
        /\ UNCHANGED <<ser, sendLen, lock, login, reply, unlocked>>
    BY DEF DelCell
  <1>2. list' \in Seq(Cells) /\ Listed' = Listed \ {c} /\ Distinct'
    <2>1. PICK W : W = Without(c)
      OBVIOUS
    <2>2. /\ W \in Seq(Cells) /\ {W[i] : i \in DOMAIN W} = Listed \ {c}
          /\ \A i, j \in DOMAIN W : W[i] = W[j] => i = j
      BY <1>1, <2>1, WithoutList
    <2>3. list' = W /\ Listed' = {W[i] : i \in DOMAIN W}
      BY <1>1, <2>1 DEF Listed
    <2>4. QED BY <2>2, <2>3 DEF Distinct
  <1>3. QED BY <1>1, <1>2 DEF TableOK, Idle

LEMMA WalkStep ==
  ASSUME LockOK, TableOK, WalkOK, Next
  PROVE  WalkOK'
  <1> USE PackAssumption
  <1>1. CASE Logins
    <2>1. ASSUME NEW c \in Cells, LoginNew(c) PROVE WalkOK'
      <3>1. monitor' = monitor \/ (/\ monitor.at \in {"walk", "tell"}
                                   /\ monitor' = [monitor EXCEPT !.todo = Append(@, c)])
        BY <2>1 DEF LoginNew
      <3>2. CASE monitor' = monitor
        BY <3>2 DEF WalkOK
      <3>3. CASE /\ monitor.at \in {"walk", "tell"}
                 /\ monitor' = [monitor EXCEPT !.todo = Append(@, c)]
        <4>1. /\ monitor'.at = monitor.at /\ monitor'.packed = monitor.packed
              /\ monitor'.todo = Append(monitor.todo, c)
              /\ monitor.at = "tell" => monitor'.read = monitor.read
          BY <3>3 DEF LockOK, MonitorShape
        <4>2. monitor'.todo \in Seq(Cells) /\ monitor'.todo # <<>>
          BY <3>3, <4>1, AppendProperties DEF WalkOK
        <4>3. QED BY <4>1, <4>2 DEF WalkOK
      <3>4. QED BY <3>1, <3>2, <3>3
    <2>2. CASE LoginLock \/ LoginAgain \/ LoginUnlock
      BY <2>2 DEF LoginLock, LoginAgain, LoginUnlock, WalkOK
    <2>3. QED BY <1>1, <2>1, <2>2 DEF Logins
  <1>2. CASE Replies
    BY <1>2 DEF Replies, ReplyBegin, ReplyRead, ReplyFlag, WalkOK
  <1>3. ASSUME NEW c \in Cells, DelCell(c) PROVE WalkOK'
    <2>1. monitor' = monitor \/ (monitor.at = "send" /\ monitor' = [monitor EXCEPT !.start = Freed])
      BY <1>3 DEF DelCell
    <2>2. monitor' = monitor \/ monitor'.at = "send"
      BY <2>1 DEF LockOK, MonitorShape
    <2>3. QED BY <2>2 DEF WalkOK
  <1>4. CASE Looks
    <2>1. CASE LookBegin \/ LookLock \/ LookNone
      BY <2>1 DEF LookBegin, LookLock, LookNone, WalkOK, Idle
    <2>2. CASE LookWalk
      BY <2>2 DEF LookWalk, WalkOK, TableOK
    <2>3. CASE WalkPast
      <3>1. monitor = [at |-> "walk", todo |-> monitor.todo, packed |-> monitor.packed]
        BY <2>3 DEF WalkPast, LockOK, MonitorShape
      <3>0. monitor' = [at |-> "walk", todo |-> Tail(monitor.todo), packed |-> monitor.packed]
        BY <2>3, <3>1 DEF WalkPast
      <3>2. QED BY <2>3, <3>0 DEF WalkPast, WalkOK
    <2>4. CASE WalkRead
      BY <2>4 DEF WalkRead, WalkOK, TableOK
    <2>5. CASE WalkTell
      <3>1. monitor.todo \in Seq(Cells) /\ monitor.todo # <<>> /\ monitor.packed \in 0 .. PackSize - 1
        BY <2>5 DEF WalkTell, WalkOK
      <3>2. Tail(monitor.todo) \in Seq(Cells)
        BY <3>1
      <3>3. QED BY <2>5, <3>1, <3>2 DEF WalkTell, WalkOK
    <2>6. CASE WalkEnd
      BY <2>6 DEF WalkEnd, WalkOK, Idle
    <2>7. QED BY <1>4, <2>1, <2>2, <2>3, <2>4, <2>5, <2>6 DEF Looks
  <1>5. CASE Rounds
    <2>1. \/ monitor' = Idle \/ monitor' = [at |-> "pack", len |-> 0]
          \/ monitor' = [at |-> "pack", len |-> Len(list)]
          \/ \E x, l : monitor' = [at |-> "send", start |-> x, loop |-> l]
      BY <1>5 DEF Rounds, RoundBegin, PackBegin, PackSend
    <2>2. monitor'.at \in {"idle", "pack", "send"}
      BY <2>1 DEF Idle
    <2>3. QED BY <2>2 DEF WalkOK
  <1>6. QED BY <1>1, <1>2, <1>3, <1>4, <1>5 DEF Next

LEMMA RoundStep ==
  ASSUME LockOK, TableOK, WalkOK, RoundOK, Next
  PROVE  RoundOK'
  <1> USE PackAssumption
  <1>1. CASE Logins \/ Replies
    <2>1. report' = report
      BY <1>1 DEF Logins, LoginLock, LoginNew, LoginAgain, LoginUnlock,
                  Replies, ReplyBegin, ReplyRead, ReplyFlag
    <2>2. monitor' = monitor \/ (monitor.at \in {"walk", "tell"} /\ \E c \in Cells :
                                   monitor' = [monitor EXCEPT !.todo = Append(@, c)])
      BY <1>1 DEF Logins, LoginLock, LoginNew, LoginAgain, LoginUnlock,
                  Replies, ReplyBegin, ReplyRead, ReplyFlag
    <2>3. monitor' = monitor \/ (monitor.at \in {"walk", "tell"} /\ monitor'.at = monitor.at)
      BY <2>2 DEF LockOK, MonitorShape
    <2>4. QED BY <2>1, <2>3 DEF RoundOK, Unsplit, Split
  <1>2. ASSUME NEW c \in Cells, DelCell(c) PROVE RoundOK'
    <2>1. /\ report' \in Reports /\ report'.sub = report.sub /\ report'.num = report.num
          /\ report'.remain = report.remain
      BY <1>2 DEF DelCell, RoundOK, Reports, Nodes
    <2>2. monitor' = monitor \/ (monitor.at = "send" /\ monitor' = [monitor EXCEPT !.start = Freed])
      BY <1>2 DEF DelCell
    <2>3. monitor' = monitor \/ (/\ monitor.at = "send" /\ monitor'.at = "send"
                                 /\ monitor'.start = Freed /\ monitor'.loop = monitor.loop)
      BY <2>2 DEF LockOK, MonitorShape
    <2>4. QED BY <2>1, <2>3 DEF RoundOK, Unsplit, Split, Nodes
  <1>3. CASE Looks
    <2>1. monitor.at \notin {"pack", "send"} /\ monitor'.at \notin {"pack", "send"}
      <3>1. CASE WalkPast
        <4>1. monitor = [at |-> "walk", todo |-> monitor.todo, packed |-> monitor.packed]
          BY <3>1 DEF WalkPast, LockOK, MonitorShape
        <4>2. QED BY <3>1, <4>1 DEF WalkPast
      <3>2. QED BY <1>3, <3>1 DEF Idle, Looks, LookBegin, LookLock, LookNone, LookWalk, WalkRead, WalkTell, WalkEnd
    <2>2. report' = report \/ \E c \in Cells : report' = [report EXCEPT !.next = c]
      <3>1. CASE WalkEnd
        BY <3>1 DEF WalkEnd, WalkOK
      <3>2. QED BY <1>3, <3>1 DEF Looks, LookBegin, LookLock, LookNone, LookWalk, WalkPast, WalkRead, WalkTell
    <2>3. /\ report' \in Reports /\ report'.sub = report.sub /\ report'.num = report.num
          /\ report'.remain = report.remain
      BY <2>2 DEF RoundOK, Reports, Nodes
    <2>4. QED BY <2>1, <2>3 DEF RoundOK, Unsplit
  <1>4. CASE RoundBegin
    <2>1. Unsplit
      BY <1>4 DEF RoundBegin, RoundOK, Idle
    <2>2. CASE list = <<>>
      <3>1. report' = EmptyReport /\ monitor' = Idle
        BY <1>4, <2>2 DEF RoundBegin
      <3>2. EmptyReport \in Reports
        BY DEF EmptyReport, Reports, Nodes
      <3>3. QED BY <3>1, <3>2 DEF RoundOK, Unsplit, EmptyReport, Idle
    <2>3. CASE list # <<>>
      <3>1. Len(list) \in Nat /\ Len(list) > 0
        BY <2>3 DEF TableOK
      <3>2. /\ Packs(Len(list)) \in Nat /\ Packs(Len(list)) > 0
            /\ Len(list) % PackSize \in 0 .. PackSize - 1
            /\ Packs(Len(list)) <= 1 => Len(list) <= PackSize
        BY <3>1, PackCount
      <3>3. monitor' = [at |-> "pack", len |-> Len(list)]
        BY <1>4, <2>3 DEF RoundBegin
      <3>4. CASE Packs(Len(list)) > 1
        <4>1. report' = [report EXCEPT !.num = Packs(Len(list)), !.remain = Len(list) % PackSize]
          BY <1>4, <2>3, <3>4 DEF RoundBegin
        <4>2. report' \in Reports /\ Split'
          BY <2>1, <3>2, <3>4, <4>1 DEF RoundOK, Reports, Unsplit, Split
        <4>3. QED BY <3>3, <4>2 DEF RoundOK
      <3>5. CASE Packs(Len(list)) <= 1
        <4>1. report' = report
          BY <1>4, <2>3, <3>2, <3>5 DEF RoundBegin
        <4>2. QED BY <2>1, <3>1, <3>2, <3>3, <3>5, <4>1 DEF RoundOK, Unsplit
      <3>6. QED BY <3>2, <3>4, <3>5
    <2>4. QED BY <2>2, <2>3
  <1>5. CASE PackBegin
    <2>1. UNCHANGED <<report, list>> /\ monitor.at = "pack" /\ report \in Reports
      BY <1>5 DEF PackBegin, RoundOK
    <2>2. HeadNode \in Nodes
      BY DEF HeadNode, Nodes, TableOK
    <2>3. \E x \in Nodes, l \in 1 .. PackSize : monitor' = [at |-> "send", start |-> x, loop |-> l]
      <3>1. CASE Unsplit
        BY <1>5, <2>1, <2>2, <3>1 DEF PackBegin, RoundOK, Unsplit, Split
      <3>2. CASE Split
        BY <1>5, <2>1, <2>2, <3>2 DEF PackBegin, Reports, Split
      <3>3. QED BY <2>1, <3>1, <3>2 DEF RoundOK
    <2>4. QED BY <2>1, <2>3 DEF RoundOK, Unsplit, Split
  <1>6. CASE PackSend
    <2>1. PICK walk \in Walks(monitor.start) :
             IF report.sub + 1 < report.num
             THEN /\ report' = [report EXCEPT !.sub = @ + 1,
                                  !.next = IF Len(walk) > monitor.loop THEN walk[monitor.loop + 1] ELSE report.next]
                  /\ monitor' = [at |-> "pack", len |-> 0]
             ELSE report' = EmptyReport /\ monitor' = Idle
      BY <1>6 DEF PackSend
    <2>2. monitor.at = "send" /\ monitor.loop \in 1 .. PackSize /\ report \in Reports
      BY <1>6 DEF PackSend, RoundOK
    <2>3. walk \in Seq(Cells)
      <3>1. ASSUME NEW i \in 1 .. Len(list) + 1 PROVE SubSeq(list, i, Len(list)) \in Seq(Cells)
        BY SubSeqProperties DEF TableOK
      <3>2. From(monitor.start) \in Seq(Cells)
        <4>1. CASE monitor.start \in Listed
          BY <3>1, <4>1, PositionOf DEF From, TableOK
        <4>2. CASE monitor.start \notin Listed
          BY <4>2 DEF From
        <4>3. QED BY <4>1, <4>2
      <3>3. QED BY <2>1, <3>1, <3>2 DEF Walks
    <2>4. CASE report.sub + 1 < report.num
      <3>1. PICK next \in Nodes :
               next = IF Len(walk) > monitor.loop THEN walk[monitor.loop + 1] ELSE report.next
        BY <2>2, <2>3 DEF Reports, Nodes
      <3>a. report' = [report EXCEPT !.sub = @ + 1, !.next = next]
        BY <2>1, <2>4, <3>1
      <3>b. PICK a \in Nat, b \in Nat, r \in 0 .. PackSize - 1, x \in Nodes :
               report = [sub |-> a, num |-> b, remain |-> r, next |-> x]
        BY <2>2 DEF Reports
      <3>c. report' = [sub |-> a + 1, num |-> b, remain |-> r, next |-> next]
        BY <3>a, <3>b
      <3>2. report' \in Reports /\ report'.sub = report.sub + 1 /\ report'.num = report.num
        BY <3>b, <3>c DEF Reports
      <3>3. monitor'.at = "pack"
        BY <2>1, <2>4
      <3>4. Split'
        BY <2>2, <2>4, <3>2 DEF Split, Reports
      <3>5. QED BY <3>2, <3>3, <3>4 DEF RoundOK
    <2>5. CASE ~(report.sub + 1 < report.num)
      <3>1. report' = EmptyReport /\ monitor' = Idle
        BY <2>1, <2>5
      <3>2. EmptyReport \in Reports
        BY DEF EmptyReport, Reports, Nodes
      <3>3. QED BY <3>1, <3>2 DEF RoundOK, Unsplit, EmptyReport, Idle
    <2>6. QED BY <2>4, <2>5
  <1>7. QED BY <1>1, <1>2, <1>3, <1>4, <1>5, <1>6 DEF Next, Rounds

-----------------------------------------------------------------------------
\* What is left of a report that is in a pack: at least a node, and more than a
\* pack unless this is the last.
LEMMA RestLeft ==
  ASSUME RoundOK, monitor.at \in {"pack", "send"}
  PROVE  /\ Passed \in Nat /\ Rest \in Nat /\ Rest > 0
         /\ report.sub + 1 < report.num => Rest > PackSize
         /\ report.sub + 1 = report.num => Rest = Last
  <1> USE PackAssumption
  <1>1. /\ report.sub \in Nat /\ report.num \in Nat /\ report.remain \in 0 .. PackSize - 1
        /\ PackSize \in Nat /\ PackSize > 0
    BY DEF RoundOK, Reports
  <1>2. Passed \in Nat /\ Last \in 1 .. PackSize
    BY <1>1 DEF Passed, Last
  <1>3. CASE Unsplit
    BY <1>1, <1>2, <1>3 DEF RoundOK, Rest, Unsplit, Split
  <1>4. CASE Split
    <2> DEFINE k == report.num - 1 - report.sub
    <2>1. k \in Nat /\ Rest = k * PackSize + Last
      BY <1>1, <1>4 DEF Split, Rest
    <2>2. k = 0 => k * PackSize = 0
      BY <1>1
    <2>3. k > 0 => k * PackSize >= PackSize
      <3>1. SUFFICES ASSUME k > 0 PROVE k * PackSize >= PackSize
        OBVIOUS
      <3>2. PICK m \in Nat : k = m + 1
        BY <2>1, <3>1
      <3>3. k * PackSize = m * PackSize + PackSize /\ m * PackSize \in Nat
        BY <1>1, <3>2
      <3>4. QED BY <1>1, <3>3
    <2>4. k * PackSize \in Nat /\ (report.sub + 1 < report.num => k > 0)
          /\ (report.sub + 1 = report.num => k = 0)
      BY <1>1, <2>1
    <2> HIDE DEF k
    <2>5. QED BY <1>1, <1>2, <2>1, <2>2, <2>3, <2>4
  <1>5. QED BY <1>3, <1>4 DEF RoundOK

\* A step that leaves a report in progress alone, but for nodes added behind.
LEMMA CoverKept ==
  ASSUME TableOK, RoundOK, CoverOK, UNCHANGED <<report, due, spoilt>>,
         monitor' = monitor \/ monitor'.at \notin {"pack", "send"},
         list' = list \/ \E c \in Cells : list' = Append(list, c),
         \A c \in Listed : ser[c] = "data" => ser'[c] = "data"
  PROVE  CoverOK'
  <1>1. SUFFICES ASSUME spoilt' = {}, monitor'.at \in {"pack", "send"} PROVE Covering'
    BY DEF CoverOK
  <1>2. Covering /\ monitor' = monitor /\ monitor.at \in {"pack", "send"}
    BY <1>1 DEF CoverOK
  <1>3. Len(list') >= Len(list) /\ Len(list') \in Nat /\ \A i \in 1 .. Len(list) : list'[i] = list[i]
    BY AppendProperties DEF TableOK
  <1>4. Passed' = Passed /\ Rest' = Rest /\ Passed \in Nat /\ Rest \in Nat /\ Rest > 0
    BY <1>2, RestLeft DEF Passed, Rest, Last
  <1>5. Len(list) \in Nat /\ Passed + Rest <= Len(list)
    BY <1>2 DEF Covering, TableOK
  <1>6. \A i \in Passed + 1 .. Passed + Rest : list'[i] = list[i]
    BY <1>3, <1>4, <1>5
  <1>7. due' = due /\ report' = report
    OBVIOUS
  <1>8. \A c \in due' : ser'[c] = "data" /\ \E i \in Passed + 1 .. Passed + Rest : list'[i] = c
    BY <1>2, <1>6, <1>7 DEF Covering, TableOK
  <1>9. list'[Passed + 1] = list[Passed + 1]
    BY <1>4, <1>6
  <1>10. Passed + Rest <= Len(list')
    BY <1>3, <1>4, <1>5
  <1>11. QED BY <1>2, <1>4, <1>7, <1>8, <1>9, <1>10 DEF Covering

LEMMA CoverRoundBegin ==
  ASSUME TableOK, RoundOK, RoundBegin
  PROVE  CoverOK'
  <1> USE PackAssumption
  <1>1. SUFFICES ASSUME spoilt' = {}, monitor'.at \in {"pack", "send"} PROVE Covering'
    BY DEF CoverOK
  <1>2. /\ list # <<>> /\ report.next = NoNode /\ list' = list /\ ser' = ser
        /\ monitor' = [at |-> "pack", len |-> Len(list)]
        /\ due' = {c \in Listed : ser[c] = "data"}
        /\ report' = IF Packs(Len(list)) > 1
                     THEN [report EXCEPT !.num = Packs(Len(list)), !.remain = Len(list) % PackSize]
                     ELSE report
    BY <1>1 DEF RoundBegin, Idle
  <1>3. Unsplit /\ report \in Reports
    BY DEF RoundBegin, RoundOK, Idle
  <1>4. PICK n \in Nat : n = Len(list) /\ n > 0 /\ DOMAIN list = 1 .. n
    BY <1>2 DEF TableOK
  <1>5. /\ Packs(n) \in Nat /\ Packs(n) > 0 /\ n % PackSize \in 0 .. PackSize - 1
        /\ n = (Packs(n) - 1) * PackSize + (IF n % PackSize = 0 THEN PackSize ELSE n % PackSize)
    BY <1>4, PackCount
  <1>6. report'.sub = 0 /\ report'.next = NoNode
    BY <1>2, <1>3 DEF Unsplit, Reports
  <1>7. Passed' = 0
    BY <1>6 DEF Passed
  <1>8. Rest' = n
    <2>1. CASE Packs(n) > 1
      <3>1. report'.num = Packs(n) /\ report'.remain = n % PackSize
        BY <1>2, <1>3, <1>4, <2>1 DEF Reports
      <3>2. Last' = IF n % PackSize = 0 THEN PackSize ELSE n % PackSize
        BY <3>1 DEF Last
      <3>3. Rest' = (Packs(n) - 1) * PackSize + Last'
        BY <1>5, <1>6, <2>1, <3>1 DEF Rest
      <3>4. QED BY <1>5, <3>2, <3>3
    <2>2. CASE ~(Packs(n) > 1)
      BY <1>2, <1>3, <1>4, <2>2 DEF Rest, Unsplit
    <2>3. QED BY <2>1, <2>2
  <1>9. \A c \in due' : ser'[c] = "data" /\ \E i \in 1 .. n : list'[i] = c
    BY <1>2, <1>4 DEF Listed
  <1>10. monitor'.at = "pack" /\ Len(list') = n
    BY <1>2, <1>4
  <1>11. QED BY <1>4, <1>6, <1>7, <1>8, <1>9, <1>10 DEF Covering

LEMMA CoverPackBegin ==
  ASSUME TableOK, RoundOK, CoverOK, PackBegin
  PROVE  CoverOK'
  <1> USE PackAssumption
  <1>1. SUFFICES ASSUME spoilt' = {} PROVE Covering'
    BY DEF CoverOK
  <1>2. /\ monitor.at = "pack" /\ report \in Reports
        /\ UNCHANGED <<list, ser, report, due, spoilt>>
    BY DEF PackBegin, RoundOK
  <1>3. Covering
    BY <1>1, <1>2 DEF CoverOK
  <1>4. /\ Passed \in Nat /\ Rest \in Nat /\ Rest > 0 /\ (report.sub + 1 = report.num => Rest = Last)
        /\ Passed + Rest <= Len(list) /\ Len(list) \in Nat
    BY <1>2, <1>3, RestLeft DEF Covering, TableOK
  <1>5. report.sub = 0 => HeadNode = list[Passed + 1]
    BY <1>4 DEF HeadNode, TableOK, Passed
  <1>6. report.sub > 0 => report.next = list[Passed + 1] /\ report.next # NoNode
    <2>1. list[Passed + 1] \in Cells
      BY <1>4 DEF TableOK
    <2>2. QED BY <1>2, <1>3, <2>1, CellsAssumption DEF Covering, NoNode, Reports
  <1>7. report.sub = 0 => report.next = NoNode
    BY <1>3 DEF Covering
  <1>8. PICK x, l : /\ monitor' = [at |-> "send", start |-> x, loop |-> l]
                    /\ x = list[Passed + 1]
                    /\ l = IF report.sub + 1 < report.num THEN PackSize ELSE Rest
    <2>1. CASE Unsplit
      <3>1. monitor' = [at |-> "send", start |-> HeadNode, loop |-> monitor.len]
        BY <2>1 DEF PackBegin, Unsplit
      <3>2. Rest = monitor.len /\ ~(report.sub + 1 < report.num)
        BY <1>2, <2>1 DEF Rest, Unsplit
      <3>3. QED BY <1>5, <2>1, <3>1, <3>2 DEF Unsplit
    <2>2. CASE Split
      <3>1. report.sub \in Nat /\ report.num \in Nat /\ report.sub < report.num /\ report.num > 1
            /\ report.remain \in 0 .. PackSize - 1
        BY <1>2, <2>2 DEF Split, Reports
      <3>2. CASE report.sub = report.num - 1 /\ report.remain > 0
        <4>1. monitor' = [at |-> "send", start |-> report.next, loop |-> report.remain]
          BY <3>1, <3>2 DEF PackBegin
        <4>2. Rest = report.remain
          BY <1>4, <3>1, <3>2 DEF Last
        <4>3. report.sub > 0 /\ ~(report.sub + 1 < report.num)
          BY <3>1, <3>2
        <4>4. QED BY <1>6, <4>1, <4>2, <4>3
      <3>3. CASE ~(report.sub = report.num - 1 /\ report.remain > 0)
        <4>1. monitor' = [at |-> "send", start |-> IF report.next = NoNode THEN HeadNode ELSE report.next,
                          loop |-> PackSize]
          BY <3>1, <3>3 DEF PackBegin
        <4>2. ~(report.sub + 1 < report.num) => Rest = PackSize
          <5>1. SUFFICES ASSUME ~(report.sub + 1 < report.num) PROVE Rest = PackSize
            OBVIOUS
          <5>2. report.sub + 1 = report.num /\ report.remain = 0
            BY <3>1, <3>3, <5>1
          <5>3. QED BY <1>4, <5>2 DEF Last
        <4>3. report.sub = 0 \/ report.sub > 0
          BY <3>1
        <4>4. (IF report.next = NoNode THEN HeadNode ELSE report.next) = list[Passed + 1]
          BY <1>5, <1>6, <1>7, <4>3
        <4>5. QED BY <4>1, <4>2, <4>4
      <3>4. QED BY <3>2, <3>3
    <2>3. QED BY <1>2, <2>1, <2>2 DEF RoundOK
  <1>9. Passed' = Passed /\ Rest' = Rest
    <2>1. Passed' = Passed /\ Last' = Last
      BY <1>2 DEF Passed, Last
    <2>2. CASE report.num = 0
      <3>1. Rest' = l
        BY <1>2, <1>8, <2>2 DEF Rest
      <3>2. ~(report.sub + 1 < report.num)
        BY <1>2, <2>2 DEF Reports
      <3>3. QED BY <1>8, <2>1, <3>1, <3>2
    <2>3. CASE report.num # 0
      BY <1>2, <2>1, <2>3 DEF Rest
    <2>4. QED BY <2>2, <2>3
  <1>10. monitor'.at = "send" /\ monitor'.start = list[Passed + 1]
         /\ monitor'.loop = IF report.sub + 1 < report.num THEN PackSize ELSE Rest
    BY <1>8
  <1>11. QED BY <1>2, <1>3, <1>9, <1>10 DEF Covering

\* The walk of a pack that covers starts behind the nodes passed, and is long
\* enough for the pack.
LEMMA PackWalk ==
  ASSUME TableOK, RoundOK, Covering, monitor.at = "send", NEW walk \in Walks(monitor.start)
  PROVE  /\ walk \in Seq(Cells) /\ Len(walk) = Len(list) - Passed
         /\ Passed \in Nat /\ Rest \in Nat /\ monitor.loop \in 1 .. PackSize
         /\ monitor.loop <= Rest /\ Passed + Rest <= Len(list)
         /\ \A i \in 1 .. Len(walk) : walk[i] = list[Passed + i]
  <1> USE PackAssumption
  <1>1. /\ Passed \in Nat /\ Rest \in Nat /\ Rest > 0
        /\ report.sub + 1 < report.num => Rest > PackSize
    BY RestLeft
  <1>2. /\ Passed + Rest <= Len(list) /\ monitor.start = list[Passed + 1]
        /\ monitor.loop = IF report.sub + 1 < report.num THEN PackSize ELSE Rest
        /\ monitor.loop \in 1 .. PackSize
    BY DEF Covering, RoundOK
  <1>3. PICK n \in Nat : n = Len(list) /\ list \in Seq(Cells)
    BY DEF TableOK
  <1>4. Passed + 1 \in 1 .. n
    BY <1>1, <1>2, <1>3
  <1>5. monitor.start \in Listed /\ Position(monitor.start) = Passed + 1 /\ monitor.start \in Cells
    BY <1>2, <1>3, <1>4, PositionAt
  <1>6. walk = SubSeq(list, Passed + 1, n)
    BY <1>3, <1>5, CellsAssumption DEF Walks, From, Freed
  <1>7. /\ Passed + 1 \in Int /\ n \in Int /\ Passed + 1 <= n /\ n - (Passed + 1) + 1 = n - Passed
        /\ \A i \in Passed + 1 .. n : list[i] \in Cells
    BY <1>1, <1>3, <1>4
  <1>8. /\ walk \in Seq(Cells) /\ Len(walk) = n - (Passed + 1) + 1
        /\ \A i \in 1 .. n - (Passed + 1) + 1 : walk[i] = list[(Passed + 1) + i - 1]
    BY <1>6, <1>7, SubSeqProperties
  <1>9. \A i \in 1 .. Len(walk) : walk[i] = list[Passed + i]
    <2>1. ASSUME NEW i \in 1 .. Len(walk) PROVE walk[i] = list[Passed + i]
      <3>1. i \in 1 .. n - (Passed + 1) + 1 /\ (Passed + 1) + i - 1 = Passed + i
        BY <1>1, <1>8, <2>1
      <3>2. QED BY <1>8, <3>1
    <2>2. QED BY <2>1
  <1>10. monitor.loop <= Rest
    BY <1>1, <1>2
  <1>11. Len(walk) = Len(list) - Passed
    BY <1>3, <1>7, <1>8
  <1>12. QED BY <1>1, <1>2, <1>8, <1>9, <1>10, <1>11

LEMMA FirstOf ==
  ASSUME NEW s \in Seq(Cells), NEW n \in Nat, n <= Len(s), NEW i \in 1 .. n
  PROVE  i \in DOMAIN First(n, s) /\ First(n, s)[i] = s[i]
  <1>1. First(n, s) = SubSeq(s, 1, n)
    BY DEF First
  <1>2. Len(SubSeq(s, 1, n)) = n /\ SubSeq(s, 1, n)[i] = s[i] /\ SubSeq(s, 1, n) \in Seq(Cells)
    BY SubSeqProperties
  <1>3. QED BY <1>1, <1>2

\* A pack takes the cells it passes from those owed, and the next pack starts
\* behind it; behind the last, none is owed.
LEMMA CoverPackSend ==
  ASSUME TableOK, RoundOK, CoverOK, PackSend
  PROVE  CoverOK' /\ (monitor' = Idle /\ spoilt = {} => due' = {})
  <1> USE PackAssumption
  <1>1. SUFFICES ASSUME spoilt = {}
                 PROVE  /\ monitor'.at \in {"pack", "send"} => Covering'
                        /\ monitor' = Idle => due' = {}
    BY DEF CoverOK, PackSend
  <1>2. monitor.at = "send" /\ Covering /\ report \in Reports /\ UNCHANGED list
    BY <1>1 DEF PackSend, CoverOK, RoundOK
  <1> DEFINE l == monitor.loop
             passed(walk) == {First(l, walk)[i] : i \in DOMAIN First(l, walk)}
             sent(walk) == {c \in passed(walk) : ser[c] = "data"}
  <1>3. PICK walk \in Walks(monitor.start) :
           /\ ser' = [c \in Cells |-> IF c \in sent(walk) THEN "told" ELSE ser[c]]
           /\ due' = due \ sent(walk)
           /\ IF report.sub + 1 < report.num
              THEN /\ report' = [report EXCEPT !.sub = @ + 1,
                                   !.next = IF Len(walk) > monitor.loop THEN walk[monitor.loop + 1] ELSE report.next]
                   /\ monitor' = [at |-> "pack", len |-> 0]
              ELSE report' = EmptyReport /\ monitor' = Idle
    BY DEF PackSend
  <1>4. /\ walk \in Seq(Cells) /\ Len(walk) = Len(list) - Passed
        /\ Passed \in Nat /\ Rest \in Nat /\ l \in 1 .. PackSize
        /\ l <= Rest /\ Passed + Rest <= Len(list)
        /\ \A i \in 1 .. Len(walk) : walk[i] = list[Passed + i]
    BY <1>2, PackWalk
  <1>5. /\ report.sub + 1 < report.num => Rest > PackSize /\ l = PackSize
        /\ ~(report.sub + 1 < report.num) => l = Rest
    BY <1>2, RestLeft DEF Covering
  <1>6. Len(list) \in Nat /\ l <= Len(walk)
    BY <1>4 DEF TableOK
  <1>7. ASSUME NEW c \in due'
        PROVE  c \in due /\ ser[c] = "data" /\ c \in Cells /\ ser'[c] = "data"
               /\ \E i \in Passed + l + 1 .. Passed + Rest : list[i] = c
    <2>1. c \in due /\ c \notin sent(walk)
      BY <1>3, <1>7
    <2>2. c \in Cells
      BY <2>1 DEF TableOK, Listed
    <2>3. PICK i \in Passed + 1 .. Passed + Rest : list[i] = c /\ ser[c] = "data"
      BY <1>2, <2>1 DEF Covering
    <2>4. ~(i <= Passed + l)
      <3>1. SUFFICES ASSUME i <= Passed + l PROVE FALSE
        OBVIOUS
      <3>2. i - Passed \in 1 .. l /\ Passed + (i - Passed) = i /\ l \in Nat
            /\ i - Passed \in 1 .. Len(walk)
        BY <1>4, <1>6, <3>1
      <3>3. walk[i - Passed] = c
        BY <1>4, <2>3, <3>2
      <3>4. i - Passed \in DOMAIN First(l, walk) /\ First(l, walk)[i - Passed] = c
        BY <1>4, <1>6, <3>2, <3>3, FirstOf
      <3>5. QED BY <2>1, <2>3, <3>4
    <2>5. i \in Passed + l + 1 .. Passed + Rest
      BY <1>4, <2>4
    <2>6. ser'[c] = "data"
      BY <1>3, <2>1, <2>2, <2>3
    <2>7. QED BY <2>1, <2>2, <2>3, <2>5, <2>6
  <1>8. ASSUME ~(report.sub + 1 < report.num)
        PROVE  due' = {} /\ monitor' = Idle
    <2>1. monitor' = Idle
      BY <1>3, <1>8
    <2>2. l = Rest
      BY <1>5, <1>8
    <2>3. Passed + l + 1 .. Passed + Rest = {}
      BY <1>4, <2>2
    <2>4. QED BY <1>7, <2>1, <2>3
  <1> HIDE DEF l, passed, sent
  <1>9. ASSUME report.sub + 1 < report.num
        PROVE  Covering' /\ monitor' # Idle
    <2>1. PICK a \in Nat, b \in Nat, r \in 0 .. PackSize - 1, x \in Nodes :
             report = [sub |-> a, num |-> b, remain |-> r, next |-> x]
      BY <1>2 DEF Reports
    <2>2. l = PackSize /\ Rest > PackSize
      BY <1>5, <1>9
    <2>3. Len(walk) > monitor.loop /\ walk[monitor.loop + 1] = list[Passed + PackSize + 1]
      <3>1. l = monitor.loop
        BY DEF l
      <3>2. l + 1 \in 1 .. Len(walk) /\ Passed + (l + 1) = Passed + PackSize + 1
        BY <1>4, <1>6, <2>2
      <3>3. walk[l + 1] = list[Passed + PackSize + 1] /\ Len(walk) > l
        BY <1>4, <1>6, <3>2
      <3>4. QED BY <3>1, <3>3
    <2>4. report' = [report EXCEPT !.sub = @ + 1, !.next = list[Passed + PackSize + 1]]
      BY <1>3, <1>9, <2>3
    <2>5. report' = [sub |-> a + 1, num |-> b, remain |-> r, next |-> list[Passed + PackSize + 1]]
      BY <2>1, <2>4
    <2>6. monitor' = [at |-> "pack", len |-> 0]
      BY <1>3, <1>9
    <2>7. Passed' = Passed + PackSize /\ Passed' \in Nat
      <3>1. Passed' = (a + 1) * PackSize /\ Passed = a * PackSize
        BY <2>1, <2>5 DEF Passed
      <3>2. (a + 1) * PackSize = a * PackSize + PackSize
        OBVIOUS
      <3>3. QED BY <1>4, <3>1, <3>2
    <2>8. Rest' = Rest - PackSize
      <3>1. Last' = Last /\ Last \in Nat
        BY <2>1, <2>5 DEF Last
      <3>2. a + 1 < b
        BY <1>9, <2>1
      <3>3. Rest = (b - 1 - a) * PackSize + Last
        BY <2>1, <3>2 DEF Rest
      <3>4. Rest' = (b - 1 - (a + 1)) * PackSize + Last
        BY <2>5, <3>1, <3>2 DEF Rest
      <3>5. PICK k \in Nat : b - 1 - a = k + 1 /\ b - 1 - (a + 1) = k
        BY <3>2
      <3>6. (k + 1) * PackSize = k * PackSize + PackSize /\ k * PackSize \in Int
        OBVIOUS
      <3>7. QED BY <3>1, <3>3, <3>4, <3>5, <3>6
    <2>9. Passed' + Rest' = Passed + Rest /\ Passed' + 1 = Passed + PackSize + 1
      BY <1>4, <2>7, <2>8
    <2>10. \A c \in due' : ser'[c] = "data" /\ \E i \in Passed' + 1 .. Passed' + Rest' : list'[i] = c
      BY <1>2, <1>7, <2>2, <2>7, <2>9
    <2>11. Passed' + Rest' <= Len(list')
      BY <1>2, <1>4, <2>9
    <2>12. report'.next = IF report'.sub = 0 THEN NoNode ELSE list'[Passed' + 1]
      BY <1>2, <2>5, <2>9
    <2>13. monitor'.at # "send" /\ monitor' # Idle
      BY <2>6 DEF Idle
    <2>14. QED BY <2>10, <2>11, <2>12, <2>13 DEF Covering
  <1>10. QED BY <1>8, <1>9 DEF Idle

LEMMA CoverStep ==
  ASSUME ReportInv, Next
  PROVE  CoverOK'
  <1> USE DEF ReportInv
  <1>1. CASE Logins
    <2>1. UNCHANGED <<report, due, spoilt>>
      BY <1>1 DEF Logins, LoginLock, LoginNew, LoginAgain, LoginUnlock
    <2>2. monitor' = monitor \/ monitor'.at \notin {"pack", "send"}
      <3>1. monitor' = monitor \/ (monitor.at \in {"walk", "tell"} /\ \E c \in Cells :
                                     monitor' = [monitor EXCEPT !.todo = Append(@, c)])
        BY <1>1 DEF Logins, LoginLock, LoginNew, LoginAgain, LoginUnlock
      <3>2. QED BY <3>1 DEF LockOK, MonitorShape
    <2>3. list' = list \/ \E c \in Cells : list' = Append(list, c)
      BY <1>1 DEF Logins, LoginLock, LoginNew, LoginAgain, LoginUnlock
    <2>4. \A c \in Listed : ser[c] = "data" => ser'[c] = "data"
      <3>1. ser' = ser \/ \E d \in Cells : d \notin Listed /\ ser' = [ser EXCEPT ![d] = "new"]
        BY <1>1 DEF Logins, LoginLock, LoginNew, LoginAgain, LoginUnlock
      <3>2. ser \in [Cells -> DataFlags]
        BY DEF TableOK
      <3>3. ASSUME NEW c \in Listed, NEW d \in Cells, d \notin Listed, ser[c] = "data",
                   ser' = [ser EXCEPT ![d] = "new"]
            PROVE  ser'[c] = "data"
        <4>1. c # d /\ c \in Cells
          BY <3>3 DEF TableOK, Listed
        <4>2. QED BY <3>2, <3>3, <4>1
      <3>4. QED BY <3>1, <3>3
    <2>5. QED BY <2>1, <2>2, <2>3, <2>4, CoverKept
  <1>2. CASE Replies
    <2>1. UNCHANGED <<list, monitor, report, due, spoilt>>
      BY <1>2 DEF Replies, ReplyBegin, ReplyRead, ReplyFlag
    <2>2. \A c \in Listed : ser[c] = "data" => ser'[c] = "data"
      <3>1. \A c \in Listed : c \in Cells
        BY DEF TableOK, Listed
      <3>2. QED BY <1>2, <3>1 DEF Replies, ReplyBegin, ReplyRead, ReplyFlag, TableOK
    <2>3. QED BY <2>1, <2>2, CoverKept
  <1>3. ASSUME NEW c \in Cells, DelCell(c) PROVE CoverOK'
    BY <1>3 DEF DelCell, CoverOK
  <1>4. CASE Looks
    <2>1. monitor'.at \notin {"pack", "send"}
      <3>1. CASE WalkPast
        <4>1. monitor = [at |-> "walk", todo |-> monitor.todo, packed |-> monitor.packed]
          BY <3>1 DEF WalkPast, LockOK, MonitorShape
        <4>2. QED BY <3>1, <4>1 DEF WalkPast
      <3>2. QED BY <1>4, <3>1 DEF Idle, Looks, LookBegin, LookLock, LookNone, LookWalk, WalkRead, WalkTell, WalkEnd
    <2>2. QED BY <2>1 DEF CoverOK
  <1>5. QED BY <1>1, <1>2, <1>3, <1>4, CoverRoundBegin, CoverPackBegin, CoverPackSend DEF Next, Rounds

LEMMA InitReport ==
  ASSUME Init
  PROVE  ReportInv
  <1> USE PackAssumption
  <1>1. monitor.at = "idle" /\ report = EmptyReport
    BY DEF Init, Idle
  <1>2. list \in Seq(Cells) /\ Distinct /\ Len(list) \in Nat
    <2>1. CASE list = <<>>
      BY <2>1 DEF Distinct
    <2>2. ASSUME NEW c \in Cells, list = <<c>> PROVE list \in Seq(Cells) /\ Distinct /\ Len(list) \in Nat
      BY <2>2 DEF Distinct
    <2>3. QED BY <2>1, <2>2 DEF Init
  <1>3. TableOK
    BY <1>2 DEF Init, TableOK, DataFlags, Idle
  <1>4. WalkOK /\ CoverOK
    BY <1>1 DEF WalkOK, CoverOK
  <1>5. RoundOK
    BY <1>1 DEF RoundOK, Unsplit, EmptyReport, Reports, Nodes
  <1>6. QED BY <1>3, <1>4, <1>5, LockInit DEF ReportInv

LEMMA ReportStep ==
  ASSUME ReportInv, [Next]_vars
  PROVE  ReportInv'
  <1>1. CASE UNCHANGED vars
    BY <1>1 DEF vars, ReportInv, LockOK, MonitorShape, Walking, TableOK, Distinct, Listed, WalkOK,
                RoundOK, Unsplit, Split, CoverOK, Covering, Passed, Rest, Last
  <1>2. CASE Next
    <2>1. LockOK'
      BY <1>2, LockStep DEF ReportInv
    <2>2. TableOK'
      BY <1>2, TableLogins, TableReplies, TableMonitor, TableDel DEF ReportInv, Next
    <2>3. WalkOK' /\ RoundOK'
      BY <1>2, WalkStep, RoundStep DEF ReportInv
    <2>4. CoverOK'
      BY <1>2, CoverStep
    <2>5. QED BY <2>1, <2>2, <2>3, <2>4 DEF ReportInv
  <1>3. QED BY <1>1, <1>2

\* The report and the walk keep to their types, and no message has more cells
\* than the send buffer was made for, though logins lengthen the list between
\* its count and the walk (api_monitor.c:2725, 2796).
THEOREM ReportIsWellFormed == Spec => []ReportWellFormed
  <1>1. Init => ReportInv
    BY InitReport
  <1>2. ReportInv /\ [Next]_vars => ReportInv'
    BY ReportStep
  <1>3. ReportInv => ReportWellFormed
    BY PackAssumption DEF ReportInv, TableOK, Distinct, WalkOK, RoundOK, Reports, ReportWellFormed,
                          ReportTypeOK, PacksFit
  <1>4. QED BY <1>1, <1>2, <1>3, PTL DEF Spec

\* A report that nothing has spoilt sends every cell that had new data when it
\* began, in however many packs and whoever logs in meanwhile
\* (api_monitor.c:2753-2766, 5392-5414).
THEOREM ReportCovers == Spec => RoundCovers
  <1>1. Init => ReportInv
    BY InitReport
  <1>2. ReportInv /\ [Next]_vars => ReportInv'
    BY ReportStep
  <1>3. ReportInv /\ [Next]_vars => [RoundEnds /\ spoilt = {} => due' = {}]_vars
    <2>1. SUFFICES ASSUME ReportInv, Next, RoundEnds, spoilt = {} PROVE due' = {}
      OBVIOUS
    <2>2. monitor.at = "send" /\ monitor' = Idle
      BY <2>1 DEF RoundEnds
    <2>3. monitor' # monitor
      BY <2>2 DEF Idle
    <2>4. PackSend
      <3>1. ~Logins
        BY <2>2, <2>3 DEF Logins, LoginLock, LoginNew, LoginAgain, LoginUnlock
      <3>2. ~Replies
        BY <2>3 DEF Replies, ReplyBegin, ReplyRead, ReplyFlag
      <3>3. ~Looks
        BY <2>2 DEF Idle, Looks, LookBegin, LookLock, LookNone, LookWalk, WalkPast, WalkRead, WalkTell, WalkEnd
      <3>4. ASSUME NEW c \in Cells, DelCell(c) PROVE FALSE
        <4>1. monitor' = [monitor EXCEPT !.start = Freed]
          BY <2>3, <3>4 DEF DelCell
        <4>2. monitor'.at = "send"
          BY <2>1, <2>2, <4>1 DEF ReportInv, LockOK, MonitorShape
        <4>3. QED BY <2>2, <4>2 DEF Idle
      <3>5. ~RoundBegin /\ ~PackBegin
        BY <2>2 DEF RoundBegin, PackBegin, Idle
      <3>6. QED BY <2>1, <3>1, <3>2, <3>3, <3>4, <3>5 DEF Next, Rounds
    <2>5. QED BY <2>1, <2>2, <2>4, CoverPackSend DEF ReportInv
  <1>4. QED BY <1>1, <1>2, <1>3, PTL DEF Spec, RoundCovers

=============================================================================
