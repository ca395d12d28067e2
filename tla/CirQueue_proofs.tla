--------------------------- MODULE CirQueue_proofs ---------------------------
(***************************************************************************)
(* Proofs about the two containers of the program.                         *)
(*                                                                         *)
(* CirQueue, for a ring of any capacity and any number of pushes: every    *)
(* variable keeps its type, no datagram is delivered twice, and the queue  *)
(* is a FIFO for as long as no push and pop have clashed.                  *)
(*                                                                         *)
(* PoolLists, for any number of nodes, of items in a command and of pools  *)
(* per algorithm: the pointers of list.c make two lists that share the     *)
(* allocated nodes out, they implement two sequences of pools, and         *)
(* gPoolSpecifyConf gets the pools of the last command. A list is          *)
(* described by the sequence c of its nodes: Linked relates c to the       *)
(* pointers, PushLinks and RemoveLinks say what list_rpush and list_remove *)
(* make of c, and ChainIs that walking the pointers gives c back.          *)
(***************************************************************************)
EXTENDS CirQueue, PoolLists, SequenceTheorems, FiniteSetTheorems, WellFoundedInduction, TLAPS

\* (i + 1) % capacity is a slot again.
LEMMA AdvanceType ==
  ASSUME NEW i \in Slots
  PROVE  Advance(i) \in Slots
  BY CapacityAssumption DEF Advance, Slots

LEMMA ZeroIsSlot == 0 \in Slots
  BY CapacityAssumption DEF Slots

-----------------------------------------------------------------------------
\* The initial queue and every step of push and pop are type correct.
LEMMA InitTypeOK == Init => TypeOK
  <1>1. ASSUME Init PROVE TypeOK
    BY <1>1, ZeroIsSlot, MaxPushAssumption DEF Init, TypeOK, Blank, Serials
  <1>2. QED BY <1>1

LEMMA PushTypeOK ==
  ASSUME TypeOK, Push, clash' = (clash \/ Clashing)
  PROVE  TypeOK'
  <1> USE DEF TypeOK, cvars, ring
  <1>0. clash' \in BOOLEAN
    OBVIOUS
  <1>1. CASE PushLoadFront
    <2>1. pushes' \in Serials /\ pushes' \in 0 .. MaxPush
      BY <1>1, MaxPushAssumption DEF PushLoadFront, Serials
    <2>2. QED BY <1>0, <1>1, <2>1 DEF PushLoadFront
  <1>2. CASE PushRefuse
    BY <1>0, <1>2 DEF PushRefuse
  <1>3. CASE PushRoom
    BY <1>0, <1>3 DEF PushRoom
  <1>4. CASE PushMarkNonEmpty
    BY <1>0, <1>4, ZeroIsSlot DEF PushMarkNonEmpty
  <1>5. CASE PushCopy
    BY <1>0, <1>5 DEF PushCopy
  <1>6. CASE PushLoadRear
    BY <1>0, <1>6 DEF PushLoadRear
  <1>7. CASE PushStoreRear
    <2>1. rear' \in Slots
      BY <1>7, AdvanceType DEF PushStoreRear
    <2>2. accepted' \in Seq(Serials)
      BY <1>7 DEF PushStoreRear
    <2>3. QED BY <1>0, <1>7, <2>1, <2>2 DEF PushStoreRear
  <1>8. QED
    BY <1>1, <1>2, <1>3, <1>4, <1>5, <1>6, <1>7 DEF Push

LEMMA PopTypeOK ==
  ASSUME TypeOK, Pop, clash' = (clash \/ Clashing)
  PROVE  TypeOK'
  <1> USE DEF TypeOK, pvars, ring
  <1>0. clash' \in BOOLEAN
    OBVIOUS
  <1>1. CASE PopCopy
    BY <1>0, <1>1 DEF PopCopy
  <1>2. CASE PopClear
    BY <1>0, <1>2 DEF PopClear
  <1>3. CASE PopAdvance
    <2>1. front' \in Slots
      BY <1>3, AdvanceType DEF PopAdvance
    <2>2. QED BY <1>0, <1>3, <2>1 DEF PopAdvance
  <1>4. CASE PopDrained
    BY <1>0, <1>4 DEF PopDrained
  <1>5. ASSUME Return
        PROVE  /\ result' \in Serials \cup {Blank}
               /\ delivered' \in Seq(Serials)
               /\ cpc' = "idle"
    BY <1>5 DEF Return
  <1>6. CASE PopMore
    BY <1>0, <1>5, <1>6 DEF PopMore
  <1>7. CASE PopResetFront
    BY <1>0, <1>7 DEF PopResetFront
  <1>8. CASE PopResetRear
    BY <1>0, <1>5, <1>8, ZeroIsSlot DEF PopResetRear
  <1>9. QED
    BY <1>1, <1>2, <1>3, <1>4, <1>6, <1>7, <1>8 DEF Pop

\* Every variable keeps its type; in particular cirqueue_pop never indexes
\* data with the mark -1, although push and pop both write front.
THEOREM TypeCorrect == Spec => []TypeOK
  <1>1. Init => TypeOK
    BY InitTypeOK
  <1>2. TypeOK /\ [Next]_vars => TypeOK'
    <2>1. ASSUME TypeOK, Next PROVE TypeOK'
      BY <2>1, PushTypeOK, PopTypeOK DEF Next, PushStep, PopStep
    <2>2. ASSUME TypeOK, UNCHANGED vars PROVE TypeOK'
      BY <2>2 DEF TypeOK, vars, ring, pvars, cvars
    <2>3. QED BY <2>1, <2>2
  <1>3. QED BY <1>1, <1>2, PTL DEF Spec

-----------------------------------------------------------------------------
(***************************************************************************)
(* NeverTwice is not inductive: a step of pop keeps it only if what it     *)
(* hands out is not in the ring any more and was not handed out before.    *)
(* A datagram that has been accepted is in one place at a time: in one     *)
(* slot, or in the buffer of the pop in progress, or delivered; it is in a *)
(* slot and in the buffer only between memcpy and memset, and then in the  *)
(* slot that memset will clear.                                            *)
(***************************************************************************)

\* No two slots hold the same datagram.
SlotsDiffer ==
  \A i, j \in Slots : i # j /\ data[i] # Blank => data[i] # data[j]

\* What has been delivered is neither in a slot nor being delivered.
DeliveredIsGone ==
  \A n \in 1 .. Len(delivered) :
    /\ delivered[n] # result
    /\ \A i \in Slots : data[i] # delivered[n]

\* What is being delivered is in no slot but the one about to be cleared.
ResultIsCleared ==
  /\ cpc = "idle" => result = Blank
  /\ \A i \in Slots :
       result # Blank /\ data[i] = result => cpc = "clear" /\ i = front

\* No datagram in the system is newer than serial number k.
UpTo(k) ==
  /\ result <= k
  /\ \A i \in Slots : data[i] <= k
  /\ \A n \in 1 .. Len(delivered) : delivered[n] <= k

\* The datagram being pushed is nowhere until it is copied.
PushedIsNew ==
  /\ UpTo(pushes)
  /\ ppc \in {"full?", "mark", "copy"} => UpTo(pushes - 1)

\* A push about to set front finds it at -1 still: while the queue is marked
\* empty no pop starts, and none in progress will use front.
MarkIsSafe ==
  ppc = "mark" \/ (ppc = "full?" /\ pfront = -1)
    => front = -1

\* The inductive invariant
OneCopy ==
  /\ TypeOK
  /\ NeverTwice
  /\ SlotsDiffer
  /\ DeliveredIsGone
  /\ ResultIsCleared
  /\ PushedIsNew
  /\ MarkIsSafe

LEMMA BlankFacts ==
  /\ Blank \notin Serials /\ Blank \in Int
  /\ \A k \in Serials : k \in Nat /\ k # Blank /\ Blank <= k
  BY MaxPushAssumption DEF Blank, Serials

LEMMA InitOneCopy == Init => OneCopy
  <1> SUFFICES ASSUME Init PROVE OneCopy
    OBVIOUS
  <1>1. TypeOK
    BY InitTypeOK
  <1>2. Len(delivered) = 0
    BY DEF Init
  <1>3. UpTo(pushes)
    BY <1>2 DEF UpTo, Init, Blank
  <1>4. QED
    BY <1>1, <1>2, <1>3 DEF Init, OneCopy, NeverTwice, SlotsDiffer, DeliveredIsGone,
       ResultIsCleared, PushedIsNew, MarkIsSafe

LEMMA PushOneCopy ==
  ASSUME OneCopy, TypeOK', Push
  PROVE  OneCopy'
  <1> USE DEF OneCopy, TypeOK, cvars, ring
  <1>1. CASE PushLoadFront
    <2>1. /\ result \in Int /\ pushes \in Int
          /\ \A i \in Slots : data[i] \in Int
          /\ \A n \in 1 .. Len(delivered) : delivered[n] \in Int
      BY BlankFacts
    <2>2. UpTo(pushes)' /\ UpTo(pushes - 1)'
      BY <1>1, <2>1 DEF PushLoadFront, PushedIsNew, UpTo
    <2>3. NeverTwice' /\ SlotsDiffer' /\ DeliveredIsGone' /\ ResultIsCleared'
      BY <1>1 DEF PushLoadFront, NeverTwice, SlotsDiffer, DeliveredIsGone, ResultIsCleared
    <2>4. MarkIsSafe'
      BY <1>1 DEF PushLoadFront, MarkIsSafe
    <2>5. QED BY <2>2, <2>3, <2>4 DEF PushedIsNew
  <1>2. CASE PushRefuse
    BY <1>2 DEF PushRefuse, NeverTwice, SlotsDiffer, DeliveredIsGone, ResultIsCleared,
       PushedIsNew, UpTo, MarkIsSafe
  <1>3. CASE PushRoom
    BY <1>3 DEF PushRoom, NeverTwice, SlotsDiffer, DeliveredIsGone, ResultIsCleared,
       PushedIsNew, UpTo, MarkIsSafe
  <1>4. CASE PushMarkNonEmpty
    <2>1. front = -1
      BY <1>4 DEF PushMarkNonEmpty, MarkIsSafe
    <2>2. cpc # "clear"
      BY <2>1 DEF Slots
    <2>3. QED
      BY <1>4, <2>2 DEF PushMarkNonEmpty, NeverTwice, SlotsDiffer, DeliveredIsGone,
         ResultIsCleared, PushedIsNew, UpTo, MarkIsSafe
  <1>5. CASE PushCopy
    <2>1. /\ data' = [data EXCEPT ![rear] = pushes]
          /\ rear \in Slots /\ pushes \in Serials /\ pushes \in Nat
          /\ UNCHANGED <<result, delivered, front, cpc, pushes>>
          /\ ppc' = "load"
      BY <1>5, BlankFacts DEF PushCopy
    <2>2. /\ result < pushes
          /\ \A i \in Slots : data[i] < pushes
          /\ \A n \in 1 .. Len(delivered) : delivered[n] < pushes
      <3>1. UpTo(pushes - 1)
        BY <1>5 DEF PushCopy, PushedIsNew
      <3>2. /\ result \in Int
            /\ \A i \in Slots : data[i] \in Int
            /\ \A n \in 1 .. Len(delivered) : delivered[n] \in Int
        BY BlankFacts
      <3>3. QED BY <2>1, <3>1, <3>2 DEF UpTo
    <2>3. SlotsDiffer'
      BY <2>1, <2>2 DEF SlotsDiffer
    <2>4. DeliveredIsGone'
      BY <2>1, <2>2 DEF DeliveredIsGone
    <2>5. ResultIsCleared'
      BY <2>1, <2>2 DEF ResultIsCleared
    <2>6. UpTo(pushes)'
      BY <2>1, <2>2 DEF UpTo, PushedIsNew
    <2>7. QED
      BY <2>1, <2>3, <2>4, <2>5, <2>6 DEF NeverTwice, PushedIsNew, MarkIsSafe
  <1>6. CASE PushLoadRear
    BY <1>6 DEF PushLoadRear, NeverTwice, SlotsDiffer, DeliveredIsGone, ResultIsCleared,
       PushedIsNew, UpTo, MarkIsSafe
  <1>7. CASE PushStoreRear
    BY <1>7 DEF PushStoreRear, NeverTwice, SlotsDiffer, DeliveredIsGone, ResultIsCleared,
       PushedIsNew, UpTo, MarkIsSafe
  <1>8. QED
    BY <1>1, <1>2, <1>3, <1>4, <1>5, <1>6, <1>7 DEF Push

\* What Return hands out was nowhere but in the buffer.
LEMMA ReturnOneCopy ==
  ASSUME OneCopy, TypeOK', Return, cpc # "clear", data' = data, UNCHANGED pvars,
         MarkIsSafe'
  PROVE  OneCopy'
  <1> USE DEF OneCopy, TypeOK, pvars, Return
  <1>1. CASE result = Blank
    BY <1>1 DEF NeverTwice, SlotsDiffer, DeliveredIsGone, ResultIsCleared, PushedIsNew, UpTo
  <1>2. CASE result # Blank
    <2>1. /\ Len(delivered') = Len(delivered) + 1
          /\ Len(delivered) \in Nat
          /\ \A n \in 1 .. Len(delivered) : delivered'[n] = delivered[n]
          /\ delivered'[Len(delivered) + 1] = result
      BY <1>2
    <2>2. \A n \in 1 .. Len(delivered') :
            \/ n \in 1 .. Len(delivered) /\ delivered'[n] = delivered[n]
            \/ n = Len(delivered) + 1 /\ delivered'[n] = result
      BY <2>1
    <2>3. NeverTwice'
      BY <2>2 DEF NeverTwice, DeliveredIsGone
    <2>4. DeliveredIsGone'
      BY <1>2, <2>2, BlankFacts DEF DeliveredIsGone, ResultIsCleared
    <2>5. SlotsDiffer' /\ ResultIsCleared'
      BY DEF SlotsDiffer, ResultIsCleared
    <2>6. ASSUME NEW k \in Int, UpTo(k), 0 <= k PROVE UpTo(k)'
      BY <2>2, <2>6 DEF UpTo, Blank
    <2>7. PushedIsNew'
      BY <2>6, MaxPushAssumption DEF PushedIsNew, Serials
    <2>8. QED BY <2>3, <2>4, <2>5, <2>7
  <1>3. QED BY <1>1, <1>2

LEMMA PopOneCopy ==
  ASSUME OneCopy, TypeOK', Pop
  PROVE  OneCopy'
  <1> USE DEF OneCopy, TypeOK, ring, pvars
  <1>1. CASE PopCopy
    BY <1>1 DEF PopCopy, NeverTwice, SlotsDiffer, DeliveredIsGone, ResultIsCleared,
       PushedIsNew, UpTo, MarkIsSafe
  <1>2. CASE PopClear
    BY <1>2, BlankFacts DEF PopClear, NeverTwice, SlotsDiffer, DeliveredIsGone,
       ResultIsCleared, PushedIsNew, UpTo, MarkIsSafe
  <1>3. MarkIsSafe' /\ (cpc \in {"advance", "empty?", "resetFront"} => front # -1)
    BY DEF Pop, PopCopy, PopClear, PopAdvance, PopDrained, PopMore, PopResetFront,
       PopResetRear, MarkIsSafe, Slots
  <1>4. CASE PopAdvance
    BY <1>3, <1>4 DEF PopAdvance, NeverTwice, SlotsDiffer, DeliveredIsGone,
       ResultIsCleared, PushedIsNew, UpTo
  <1>5. CASE PopDrained
    BY <1>3, <1>5 DEF PopDrained, NeverTwice, SlotsDiffer, DeliveredIsGone,
       ResultIsCleared, PushedIsNew, UpTo
  <1>6. CASE PopMore
    BY <1>3, <1>6, ReturnOneCopy DEF PopMore
  <1>7. CASE PopResetFront
    BY <1>3, <1>7 DEF PopResetFront, NeverTwice, SlotsDiffer, DeliveredIsGone,
       ResultIsCleared, PushedIsNew, UpTo
  <1>8. CASE PopResetRear
    BY <1>3, <1>8, ReturnOneCopy DEF PopResetRear
  <1>9. QED
    BY <1>1, <1>2, <1>4, <1>5, <1>6, <1>7, <1>8 DEF Pop

\* No datagram is handed to the parsing thread twice, whatever the capacity
\* of the ring, the number of datagrams and the interleaving.
THEOREM DeliveredOnce == Spec => []NeverTwice
  <1>1. Init => OneCopy
    BY InitOneCopy
  <1>2. OneCopy /\ [Next]_vars => OneCopy'
    <2>1. ASSUME OneCopy, Push, clash' = (clash \/ Clashing) PROVE OneCopy'
      BY <2>1, PushTypeOK, PushOneCopy DEF OneCopy
    <2>2. ASSUME OneCopy, Pop, clash' = (clash \/ Clashing) PROVE OneCopy'
      BY <2>2, PopTypeOK, PopOneCopy DEF OneCopy
    <2>3. ASSUME OneCopy, UNCHANGED vars PROVE OneCopy'
      BY <2>3 DEF OneCopy, TypeOK, vars, ring, pvars, cvars, NeverTwice, SlotsDiffer,
         DeliveredIsGone, ResultIsCleared, PushedIsNew, UpTo, MarkIsSafe
    <2>4. QED BY <2>1, <2>2, <2>3 DEF Next, PushStep, PopStep
  <1>3. OneCopy => NeverTwice
    BY DEF OneCopy
  <1>4. QED BY <1>1, <1>2, <1>3, PTL DEF Spec

-----------------------------------------------------------------------------
(***************************************************************************)
(* The queue is a FIFO until a clash. A push and a pop that are both busy  *)
(* are then away from the ends of the ring, so that the push knows whether *)
(* the queue was empty and never stores into a full one, and the pop       *)
(* resets the indices alone.                                               *)
(***************************************************************************)

Storing == ppc \in {"copy", "load", "store"}

Apart == BothBusy => ~AtBoundary

PushOK ==
  /\ ppc = "full?" => pfront = front \/ (pfront # -1 /\ front # -1 /\ front # rear)
  /\ ppc = "mark" => front = -1 /\ pfront = -1
  /\ Storing => IF pfront = -1 THEN cpc = "idle" /\ front = 0 /\ rear = 0
                              ELSE front # -1 /\ front # rear
  /\ ppc = "store" => prear = rear
  /\ ppc \in {"load", "store"} => data[rear] = pushes

PopOK ==
  /\ front = -1 => cpc = "resetRear" \/ (cpc = "idle" /\ rear = 0)
  /\ cpc = "resetFront" => front = rear
  /\ cpc = "resetRear" => front = -1

InOrder == accepted = delivered \o Queued

Fifo == ~clash => Apart /\ PushOK /\ PopOK /\ InOrder

Contents == Serials \cup {Blank}

LEMMA HeldIs ==
  ASSUME TypeOK
  PROVE  /\ Count \in 0 .. Capacity
         /\ Count # 0 => front \in Slots /\ Taken \in Slots
         /\ \A i \in 1 .. Count : Wrap(Taken + i - 1) \in Slots
         /\ Held \in Seq(Contents) /\ Len(Held) = Count
         /\ \A i \in 1 .. Count : Held[i] = data[Wrap(Taken + i - 1)]
  <1>1. front \in Slots => Taken \in Slots
    BY AdvanceType DEF Taken
  <1>2. Capacity \in Nat \ {0} /\ front \in Slots \cup {-1} /\ rear \in Slots
    BY CapacityAssumption DEF TypeOK
  <1>3. Count \in 0 .. Capacity /\ (Count # 0 => front \in Slots)
    <2>1. front = -1 => Count = 0
      BY DEF Count
    <2>2. ASSUME front \in Slots
          PROVE  Wrap(rear - Taken + Capacity) \in 0 .. Capacity
      BY <1>1, <1>2, <2>2 DEF Wrap, Slots
    <2>3. Capacity \in 0 .. Capacity /\ 0 \in 0 .. Capacity
      BY <1>2
    <2>4. QED BY <1>2, <2>1, <2>2, <2>3 DEF Count
  <1>4. ASSUME NEW i \in 1 .. Count PROVE Wrap(Taken + i - 1) \in Slots
    <2>1. Taken \in Slots /\ i \in 1 .. Capacity
      BY <1>1, <1>2, <1>3
    <2>2. QED BY <1>2, <2>1 DEF Wrap, Slots
  <1>5. ASSUME NEW i \in 1 .. Count PROVE data[Wrap(Taken + i - 1)] \in Contents
    BY <1>4 DEF TypeOK, Contents
  <1>6. Held \in [1 .. Count -> Contents]
    BY <1>5 DEF Held
  <1>7. Held \in Seq(Contents) /\ Len(Held) = Count
    <2>1. Count \in Nat
      BY <1>2, <1>3
    <2> HIDE DEF Count, Held
    <2>2. QED BY <1>6, <2>1
  <1>8. \A i \in 1 .. Count : Held[i] = data[Wrap(Taken + i - 1)]
    BY DEF Held
  <1>9. QED BY <1>1, <1>3, <1>4, <1>7, <1>8

\* A step that leaves the slots the queue holds alone leaves what it holds.
LEMMA HeldSame ==
  ASSUME TypeOK, TypeOK', Count' = Count, Count # 0 => Taken' = Taken,
         \A i \in 1 .. Count : data'[Wrap(Taken + i - 1)] = data[Wrap(Taken + i - 1)]
  PROVE  Held' = Held
  <1>1. \A i \in 1 .. Count : Taken' = Taken
    BY HeldIs
  <1>2. Wrap(0)' = Wrap(0)
    BY DEF Wrap
  <1>3. Held' = [i \in 1 .. Count |-> data'[Wrap(Taken' + i - 1)]]
    BY DEF Held, Wrap
  <1>4. QED BY <1>1, <1>3 DEF Held

-----------------------------------------------------------------------------
\* Where a push and a pop are, until they clash.
LEMMA PushApart ==
  ASSUME TypeOK, Push, clash' = (clash \/ Clashing), Fifo, ~clash'
  PROVE  Apart' /\ PushOK' /\ PopOK'
  <1>1. ~clash /\ Apart /\ PushOK /\ PopOK /\ ~Clashing
    BY DEF Fifo
  <1>2. Apart'
    BY <1>1 DEF Apart, Clashing
  <1>3. ppc' # "idle" /\ cpc' # "idle" => front' # -1 /\ front' # rear'
    BY <1>2 DEF Apart, BothBusy, AtBoundary
  <1>4. ppc # "idle" /\ cpc # "idle" => front # -1 /\ front # rear /\ front' # -1 /\ front' # rear'
    BY <1>1 DEF Clashing, BothBusy, AtBoundary
  <1>0. /\ data \in [Slots -> Contents] /\ rear \in Slots /\ 0 \in Slots /\ -1 \notin Slots
        /\ cpc \in {"clear", "advance", "empty?", "resetFront"} => front \in Slots
    BY CapacityAssumption DEF TypeOK, Contents, Slots
  <1> USE <1>0, <1>1, <1>2, <1>3, <1>4 DEF PushOK, PopOK, Storing
  <1>5. CASE PushLoadFront
    BY <1>5 DEF PushLoadFront, ring, cvars
  <1>6. CASE PushRefuse
    BY <1>6 DEF PushRefuse, ring, cvars
  <1>7. CASE PushRoom
    BY <1>7 DEF PushRoom, ring, cvars
  <1>8. CASE PushMarkNonEmpty
    BY <1>8 DEF PushMarkNonEmpty, cvars
  <1>9. CASE PushCopy
    BY <1>9 DEF PushCopy, cvars
  <1>10. CASE PushLoadRear
    BY <1>10 DEF PushLoadRear, ring, cvars
  <1>11. CASE PushStoreRear
    BY <1>11 DEF PushStoreRear, cvars
  <1>12. QED BY <1>2, <1>5, <1>6, <1>7, <1>8, <1>9, <1>10, <1>11 DEF Push

LEMMA PopApart ==
  ASSUME TypeOK, Pop, clash' = (clash \/ Clashing), Fifo, ~clash'
  PROVE  Apart' /\ PushOK' /\ PopOK'
  <1>1. ~clash /\ Apart /\ PushOK /\ PopOK /\ ~Clashing
    BY DEF Fifo
  <1>2. Apart'
    BY <1>1 DEF Apart, Clashing
  <1>3. ppc' # "idle" /\ cpc' # "idle" => front' # -1 /\ front' # rear'
    BY <1>2 DEF Apart, BothBusy, AtBoundary
  <1>4. ppc # "idle" /\ cpc # "idle" => front # -1 /\ front # rear /\ front' # -1 /\ front' # rear'
    BY <1>1 DEF Clashing, BothBusy, AtBoundary
  <1>0. /\ data \in [Slots -> Contents] /\ rear \in Slots /\ 0 \in Slots /\ -1 \notin Slots
        /\ cpc \in {"clear", "advance", "empty?", "resetFront"} => front \in Slots
    BY CapacityAssumption DEF TypeOK, Contents, Slots
  <1> USE <1>0, <1>1, <1>2, <1>3, <1>4 DEF PushOK, PopOK, Storing
  <1>5. CASE PopCopy
    BY <1>5 DEF PopCopy, ring, pvars
  <1>6. CASE PopClear
    BY <1>6 DEF PopClear, pvars
  <1>7. CASE PopAdvance
    BY <1>7, AdvanceType DEF PopAdvance, pvars
  <1>8. CASE PopDrained
    BY <1>8 DEF PopDrained, ring, pvars
  <1>9. CASE PopMore
    BY <1>9 DEF PopMore, Return, ring, pvars
  <1>10. CASE PopResetFront
    BY <1>10 DEF PopResetFront, pvars
  <1>11. CASE PopResetRear
    BY <1>11 DEF PopResetRear, Return, pvars
  <1>12. QED BY <1>2, <1>5, <1>6, <1>7, <1>8, <1>9, <1>10, <1>11 DEF Pop

-----------------------------------------------------------------------------
\* The arithmetic of the ring: n slots from t on end before r.
LEMMA RingSpan ==
  ASSUME NEW t \in Slots, NEW r \in Slots
  PROVE  /\ Wrap(r - t + Capacity) \in 0 .. Capacity - 1
         /\ \A i \in 1 .. Wrap(r - t + Capacity) : Wrap(t + i - 1) # r
         /\ Wrap(t + Wrap(r - t + Capacity)) = r
  BY CapacityAssumption DEF Wrap, Slots

LEMMA RingGrows ==
  ASSUME NEW t \in Slots, NEW r \in Slots
  PROVE  IF Advance(r) = t THEN Wrap(r - t + Capacity) = Capacity - 1
         ELSE Wrap(Advance(r) - t + Capacity) = Wrap(r - t + Capacity) + 1
  BY CapacityAssumption DEF Wrap, Advance, Slots

LEMMA RingShrinks ==
  ASSUME NEW t \in Slots, NEW r \in Slots
  PROVE  /\ t = r => Wrap(r - Advance(t) + Capacity) = Capacity - 1
         /\ t # r => Wrap(r - Advance(t) + Capacity) = Wrap(r - t + Capacity) - 1
         /\ \A i \in 1 .. Capacity - 1 : Wrap(Advance(t) + i - 1) = Wrap(t + i)
         /\ \A i \in 1 .. Wrap(r - Advance(t) + Capacity) : Wrap(Advance(t) + i - 1) # t
         /\ Wrap(t) = t
  BY CapacityAssumption DEF Wrap, Advance, Slots

LEMMA AdvanceInjective ==
  ASSUME NEW t \in Slots, NEW r \in Slots, Advance(t) = Advance(r)
  PROVE  t = r
  BY CapacityAssumption DEF Advance, Slots

\* (Kept behind a name: the provers rewrite sequences before they instantiate.)
Behind(s, t, e) == Append(s \o t, e) = s \o Append(t, e)

LEMMA AppendBehind ==
  ASSUME NEW S, NEW s \in Seq(S), NEW t \in Seq(S), NEW e \in S
  PROVE  Behind(s, t, e)
  <1>1. \A u \in Seq(S) : s \o u \in Seq(S) /\ (s \o t) \o u = s \o (t \o u)
    BY ConcatProperties, ConcatAssociative
  <1>2. \A u \in Seq(S) : Append(u, e) = u \o <<e>>
    BY AppendIsConcat
  <1>3. <<e>> \in Seq(S)
    OBVIOUS
  <1>4. QED BY <1>1, <1>2, <1>3 DEF Behind

Grouped(s, t, u) == (s \o t) \o u = s \o (t \o u)

LEMMA ConcatGrouped ==
  ASSUME NEW S, NEW s \in Seq(S), NEW t \in Seq(S), NEW u \in Seq(S)
  PROVE  Grouped(s, t, u)
  BY ConcatAssociative DEF Grouped

\* A datagram more behind the others.
LEMMA HeldGrows ==
  ASSUME TypeOK, TypeOK', Count' = Count + 1, Count # 0 => Taken' = Taken,
         UNCHANGED data, data[Wrap(Taken' + Count)] = pushes, pushes \in Serials
  PROVE  Held' = Append(Held, pushes)
  <1>1. /\ Count \in Nat /\ Held \in Seq(Contents) /\ Len(Held) = Count
        /\ \A i \in 1 .. Count : Held[i] = data[Wrap(Taken + i - 1)]
    BY HeldIs, CapacityAssumption
  <1>3. Held' = [i \in 1 .. Count + 1 |-> data[Wrap(Taken' + i - 1)]]
    BY DEF Held, Wrap
  <1>4. /\ Append(Held, pushes) \in Seq(Contents) /\ Len(Append(Held, pushes)) = Count + 1
        /\ \A i \in 1 .. Count : Append(Held, pushes)[i] = Held[i]
        /\ Append(Held, pushes)[Count + 1] = pushes
    BY <1>1, AppendProperties DEF Contents
  <1>5. ASSUME NEW i \in 1 .. Count + 1 PROVE Held'[i] = Append(Held, pushes)[i]
    <2>1. CASE i \in 1 .. Count
      BY <1>1, <1>3, <1>4, <2>1
    <2>2. CASE i = Count + 1
      <3>1. Taken' + i - 1 = Taken' + Count
        BY <1>1, <2>2
      <3>2. QED BY <1>3, <1>4, <2>2, <3>1
    <2>3. QED BY <1>1, <2>1, <2>2
  <1>6. Held' \in Seq(Contents) /\ Len(Held') = Count + 1
    <2>1. Held' \in [1 .. Count + 1 -> Contents]
      <3>1. \A i \in 1 .. Count + 1 : Append(Held, pushes)[i] \in Contents
        BY <1>1, <1>4, ElementOfSeq
      <3>2. QED BY <1>3, <1>5, <3>1
    <2> HIDE DEF Held, Count
    <2>2. QED BY <1>1, <2>1
  <1>7. QED BY <1>1, <1>4, <1>5, <1>6, SeqEqual

\* Where Taken comes to.
LEMMA TakenSlot ==
  ASSUME TypeOK, front \in Slots
  PROVE  /\ Taken \in Slots
         /\ cpc \in {"clear", "advance"} => Taken = Advance(front)
         /\ cpc \notin {"clear", "advance"} => Taken = front
  BY AdvanceType DEF Taken

LEMMA PushInOrder ==
  ASSUME TypeOK, TypeOK', Push, clash' = (clash \/ Clashing), Fifo, ~clash'
  PROVE  InOrder'
  <1>1. ~clash /\ Apart /\ PushOK /\ PopOK /\ InOrder /\ ~Clashing
    BY DEF Fifo
  <1>2. ppc # "idle" /\ cpc # "idle" => front # -1 /\ front # rear /\ front' # rear'
    BY <1>1 DEF Clashing, BothBusy, AtBoundary
  <1>3. UNCHANGED <<cpc, result, delivered>>
    BY DEF Push, PushLoadFront, PushRefuse, PushRoom, PushMarkNonEmpty, PushCopy, PushLoadRear,
       PushStoreRear, cvars
  <1>4. front \in Slots \cup {-1} /\ rear \in Slots /\ 0 \in Slots /\ -1 \notin Slots
    BY CapacityAssumption DEF TypeOK, Slots
  <1>5. ASSUME accepted' = accepted, Held' = Held
        PROVE  InOrder'
    BY <1>1, <1>3, <1>5 DEF InOrder, Queued
  <1>6. CASE PushLoadFront \/ PushRefuse \/ PushRoom \/ PushLoadRear
    <2>1. UNCHANGED <<data, front, rear, accepted>>
      BY <1>6 DEF PushLoadFront, PushRefuse, PushRoom, PushLoadRear, ring
    <2>2. Taken' = Taken
      BY <1>3, <2>1 DEF Taken, Advance
    <2>3. (ppc' \in {"copy", "load", "store"} /\ pfront' = -1) <=> (ppc \in {"copy", "load", "store"} /\ pfront = -1)
      BY <1>6 DEF PushLoadFront, PushRefuse, PushRoom, PushLoadRear
    <2>4. Count' = Count
      BY <1>3, <2>1, <2>2, <2>3 DEF Count, Wrap
    <2>5. Held' = Held
      BY <2>1, <2>2, <2>4, HeldSame
    <2>6. QED BY <1>5, <2>1, <2>5
  <1>7. CASE PushMarkNonEmpty
    <2>1. Count = 0 /\ Count' = 0 /\ data' = data /\ accepted' = accepted
      BY <1>1, <1>2, <1>7 DEF PushMarkNonEmpty, PushOK, Count, cvars
    <2>2. Held' = Held
      BY <2>1, HeldSame
    <2>3. QED BY <1>5, <2>1, <2>2
  <1>8. CASE PushCopy
    <2>1. UNCHANGED <<front, rear, accepted, pfront>> /\ ppc = "copy" /\ ppc' = "load"
          /\ data' = [data EXCEPT ![rear] = pushes]
      BY <1>8 DEF PushCopy
    <2>2. Taken' = Taken
      BY <1>3, <2>1 DEF Taken, Advance
    <2>3. Count' = Count
      BY <1>3, <2>1, <2>2 DEF Count, Wrap
    <2>4. Count # 0 => front \in Slots /\ front # rear /\ Count = Wrap(rear - Taken + Capacity)
      BY <1>1, <1>4, <2>1 DEF Count, PushOK, Storing
    <2>5. ASSUME NEW i \in 1 .. Count PROVE Wrap(Taken + i - 1) # rear
      BY <1>4, <2>4, TakenSlot, RingSpan, HeldIs
    <2>6. \A i \in 1 .. Count : data'[Wrap(Taken + i - 1)] = data[Wrap(Taken + i - 1)]
      BY <2>1, <2>5, HeldIs DEF TypeOK
    <2>7. Held' = Held
      BY <2>2, <2>3, <2>6, HeldSame
    <2>8. QED BY <1>5, <2>1, <2>7
  <1>9. CASE PushStoreRear
    <2>1. /\ UNCHANGED <<data, front, pfront>> /\ ppc = "store" /\ ppc' = "idle"
          /\ rear' = Advance(rear) /\ data[rear] = pushes
          /\ accepted' = Append(accepted, pushes) /\ pushes \in Serials
          /\ pushes' = pushes
      BY <1>1, <1>9 DEF PushStoreRear, PushOK, TypeOK
    <2>2. front \in Slots /\ Taken' = Taken
      BY <1>1, <1>3, <1>4, <2>1 DEF Taken, Advance, PushOK, Storing
    <2>3. Count' = Count + 1 /\ Wrap(Taken + Count) = rear
      <3>1. CASE pfront = -1
        <4>1. front = 0 /\ rear = 0 /\ cpc = "idle" /\ Count = 0 /\ Taken = 0
          BY <1>1, <2>1, <3>1 DEF PushOK, Storing, Count, Taken
        <4>2. Count' = IF front = Advance(rear) THEN Capacity ELSE Wrap(Advance(rear) - front + Capacity)
          BY <1>3, <2>1, <2>2, <4>1 DEF Count, Taken, Wrap
        <4>3. QED BY <4>1, <4>2, CapacityAssumption DEF Wrap, Advance
      <3>2. CASE pfront # -1 /\ cpc = "idle"
        <4>1. front # rear /\ Taken = front /\ Count = Wrap(rear - front + Capacity)
          BY <1>1, <1>4, <2>1, <2>2, <3>2 DEF PushOK, Storing, Count, Taken
        <4>2. Count' = IF front = Advance(rear) THEN Capacity ELSE Wrap(Advance(rear) - front + Capacity)
          BY <1>3, <1>4, <2>1, <2>2, <3>2, <4>1 DEF Count, Taken, Wrap
        <4>3. QED BY <1>4, <2>2, <4>1, <4>2, RingSpan, RingGrows, CapacityAssumption
      <3>3. CASE cpc # "idle"
        <4>1. front # rear /\ Advance(rear) # front
          BY <1>2, <2>1, <3>3
        <4>2. Taken \in Slots /\ Advance(rear) # Taken
          BY <1>4, <2>2, <4>1, TakenSlot, AdvanceInjective
        <4>3. Count = Wrap(rear - Taken + Capacity) /\ Count' = Wrap(Advance(rear) - Taken + Capacity)
          BY <1>3, <1>4, <2>1, <2>2, <3>3 DEF Count, Wrap
        <4>4. QED BY <1>4, <4>2, <4>3, RingSpan, RingGrows
      <3>4. QED BY <3>1, <3>2, <3>3
    <2>4. Held' = Append(Held, pushes)
      BY <2>1, <2>2, <2>3, HeldGrows
    <2>5. Held \in Seq(Contents)
      BY HeldIs
    <2>6. CASE cpc = "idle"
      <3>1. accepted' = Append(delivered \o Held, pushes) /\ delivered \in Seq(Contents)
        BY <1>1, <2>1, <2>6 DEF InOrder, Queued, TypeOK, Contents
      <3>2. Append(delivered \o Held, pushes) = delivered \o Append(Held, pushes)
        <4>1. pushes \in Contents
          BY <2>1 DEF Contents
        <4>2. Behind(delivered, Held, pushes)
          BY <2>5, <3>1, <4>1, AppendBehind
        <4>3. QED BY <4>2 DEF Behind
      <3>3. QED BY <1>3, <2>4, <2>6, <3>1, <3>2 DEF InOrder, Queued
    <2>7. CASE cpc # "idle"
      <3>1. accepted' = Append(delivered \o (<<result>> \o Held), pushes)
        BY <1>1, <2>1, <2>7 DEF InOrder, Queued
      <3>2. delivered \in Seq(Contents) /\ <<result>> \in Seq(Contents) /\ pushes \in Contents
        BY <2>1 DEF TypeOK, Contents
      <3>3. <<result>> \o Held \in Seq(Contents)
        BY <2>5, <3>2, ConcatProperties
      <3>4. /\ Append(delivered \o (<<result>> \o Held), pushes) = delivered \o Append(<<result>> \o Held, pushes)
            /\ Append(<<result>> \o Held, pushes) = <<result>> \o Append(Held, pushes)
        <4>1. Behind(delivered, <<result>> \o Held, pushes)
          BY <3>2, <3>3, AppendBehind
        <4>2. Behind(<<result>>, Held, pushes)
          BY <2>5, <3>2, AppendBehind
        <4>3. QED BY <4>1, <4>2 DEF Behind
      <3>5. QED BY <1>3, <2>4, <2>7, <3>1, <3>4 DEF InOrder, Queued
    <2>8. QED BY <2>6, <2>7
  <1>10. QED BY <1>6, <1>7, <1>8, <1>9 DEF Push

\* What a pop in progress has taken is the first of what is not delivered yet.
LEMMA ReturnInOrder ==
  ASSUME TypeOK, Return, InOrder, cpc # "idle", accepted' = accepted, Held' = Held
  PROVE  InOrder'
  <1>1. Held \in Seq(Contents) /\ delivered \in Seq(Contents) /\ result \in Contents
        /\ accepted \in Seq(Serials) /\ delivered \in Seq(Serials)
    BY HeldIs DEF TypeOK, Contents
  <1>2. accepted = delivered \o (<<result>> \o Held)
    BY DEF InOrder, Queued
  <1>3. <<result>> \in Seq(Contents)
    BY <1>1
  <1>4. /\ (delivered \o <<result>>) \o Held = delivered \o (<<result>> \o Held)
        /\ Append(delivered, result) = delivered \o <<result>>
    <2>1. Grouped(delivered, <<result>>, Held)
      BY <1>1, <1>3, ConcatGrouped
    <2>2. Append(delivered, result) = delivered \o <<result>>
      BY <1>1, AppendIsConcat
    <2>3. QED BY <2>1, <2>2 DEF Grouped
  <1>5. result \in Serials
    <2>1. Append(delivered, result) \in Seq(Contents) /\ Len(Append(delivered, result)) = Len(delivered) + 1
          /\ Append(delivered, result)[Len(delivered) + 1] = result
      BY <1>1
    <2>2. accepted = Append(delivered, result) \o Held
      BY <1>2, <1>4
    <2>3. accepted[Len(delivered) + 1] = result /\ Len(delivered) + 1 \in 1 .. Len(accepted)
      <3> DEFINE d == Append(delivered, result)
      <3>1. d \in Seq(Contents) /\ Len(d) = Len(delivered) + 1 /\ d[Len(delivered) + 1] = result
            /\ accepted = d \o Held /\ Len(delivered) \in Nat /\ Len(Held) \in Nat
        BY <1>1, <2>1, <2>2
      <3> HIDE DEF d
      <3>2. QED BY <1>1, <3>1, ConcatProperties
    <2>4. QED BY <1>1, <2>3, ElementOfSeq
  <1>6. result # Blank
    BY <1>5 DEF Serials, Blank
  <1>7. delivered' = Append(delivered, result) /\ Queued' = Held
    BY <1>6 DEF Return, Queued
  <1>8. QED BY <1>2, <1>4, <1>7 DEF InOrder

LEMMA PopInOrder ==
  ASSUME TypeOK, TypeOK', Pop, clash' = (clash \/ Clashing), Fifo, ~clash'
  PROVE  InOrder'
  <1>1. ~clash /\ Apart /\ PushOK /\ PopOK /\ InOrder /\ ~Clashing
    BY DEF Fifo
  <1>2. UNCHANGED <<ppc, pfront, accepted>>
    BY DEF Pop, PopCopy, PopClear, PopAdvance, PopDrained, PopMore, PopResetFront, PopResetRear, pvars
  <1>3. front \in Slots \cup {-1} /\ rear \in Slots /\ 0 \in Slots /\ -1 \notin Slots
    BY CapacityAssumption DEF TypeOK, Slots
  <1>4. ASSUME delivered' = delivered, Queued' = Queued
        PROVE  InOrder'
    BY <1>1, <1>2, <1>4 DEF InOrder
  <1>5. CASE PopCopy
    <2>1. /\ cpc = "idle" /\ cpc' = "clear" /\ front \in Slots /\ result' = data[front]
          /\ UNCHANGED <<data, front, rear, delivered>>
      BY <1>3, <1>5 DEF PopCopy, ring
    <2>2. ~(Storing /\ pfront = -1)
      <3>1. ASSUME Storing, pfront = -1 PROVE FALSE
        <4>1. front' = rear' /\ ppc' # "idle" /\ cpc' # "idle"
          BY <1>1, <1>2, <2>1, <3>1 DEF PushOK, Storing
        <4>2. QED BY <1>1, <4>1 DEF Clashing, BothBusy, AtBoundary
      <3>2. QED BY <3>1
    <2>3. Taken = front /\ Taken' = Advance(front)
      BY <2>1 DEF Taken, Advance
    <2>4. Count = IF front = rear THEN Capacity ELSE Wrap(rear - front + Capacity)
      BY <1>3, <2>1, <2>2, <2>3 DEF Count, Storing
    <2>5. Count' = Wrap(rear - Advance(front) + Capacity)
      BY <1>3, <2>1, <2>3 DEF Count, Wrap
    <2>6. Count' = Count - 1 /\ Count \in 1 .. Capacity
      BY <1>3, <2>1, <2>4, <2>5, RingShrinks, RingSpan, CapacityAssumption
    <2>7. /\ Held \in Seq(Contents) /\ Len(Held) = Count
          /\ \A i \in 1 .. Count : Held[i] = data[Wrap(front + i - 1)]
      BY <2>3, HeldIs
    <2>8. Held' = [i \in 1 .. Count - 1 |-> data[Wrap(Advance(front) + i - 1)]]
      BY <2>1, <2>3, <2>6 DEF Held, Wrap
    <2>9. Held = <<result'>> \o Held'
      <3>1. \A i \in 1 .. Count - 1 : Held'[i] = Held[i + 1]
        <4>1. ASSUME NEW i \in 1 .. Count - 1 PROVE Held'[i] = Held[i + 1]
          <5>1. Wrap(Advance(front) + i - 1) = Wrap(front + i) /\ front + (i + 1) - 1 = front + i
            BY <2>1, <2>6, <4>1, RingShrinks, CapacityAssumption DEF Slots
          <5>2. i + 1 \in 1 .. Count
            BY <2>6, <4>1
          <5>3. QED BY <2>7, <2>8, <4>1, <5>1, <5>2
        <4>2. QED BY <4>1
      <3>2. Held[1] = result' /\ result' \in Contents
        <4>1. front + 1 - 1 = front /\ Wrap(front) = front
          BY <1>3, <2>1, RingShrinks DEF Slots
        <4>2. Held[1] = data[Wrap(front + 1 - 1)]
          BY <2>6, <2>7
        <4>3. data[front] \in Contents
          BY <2>1 DEF TypeOK, Contents
        <4>4. QED BY <2>1, <4>1, <4>2, <4>3
      <3>3. Held' \in Seq(Contents) /\ Len(Held') = Count - 1
        <4>1. Held' \in [1 .. Count - 1 -> Contents]
          <5>1. \A i \in 1 .. Count - 1 : Held[i + 1] \in Contents
            BY <2>6, <2>7, ElementOfSeq
          <5>2. QED BY <2>8, <3>1, <5>1
        <4>2. Count - 1 \in Nat
          BY <2>6
        <4> HIDE DEF Held, Count
        <4>3. QED BY <4>1, <4>2
      <3> HIDE DEF Held, Count
      <3> DEFINE r == <<result'>>
                 h == Held'
      <3>4. r \in Seq(Contents) /\ Len(r) = 1 /\ r[1] = result'
        BY <3>2
      <3> HIDE DEF r, h
      <3>5. /\ r \o h \in Seq(Contents) /\ Len(r \o h) = Count
            /\ \A i \in 1 .. Count : (r \o h)[i] = IF i <= 1 THEN r[i] ELSE h[i - 1]
        <4>1. h \in Seq(Contents) /\ Len(h) = Count - 1
          BY <3>3 DEF h
        <4>2. /\ r \o h \in Seq(Contents) /\ Len(r \o h) = Len(r) + Len(h)
              /\ \A i \in 1 .. Len(r) + Len(h) : (r \o h)[i] = IF i <= Len(r) THEN r[i] ELSE h[i - Len(r)]
          BY <3>4, <4>1, ConcatProperties
        <4>3. Len(r) + Len(h) = Count
          BY <2>6, <3>4, <4>1
        <4>4. QED BY <3>4, <4>2, <4>3
      <3>6. ASSUME NEW i \in 1 .. Count PROVE (r \o h)[i] = Held[i]
        <4>1. CASE i = 1
          BY <3>2, <3>4, <3>5, <4>1
        <4>2. CASE i # 1
          <5>1. i - 1 \in 1 .. Count - 1 /\ (i - 1) + 1 = i
            BY <2>6, <4>2
          <5>2. QED BY <2>6, <3>1, <3>5, <4>2, <5>1 DEF h
        <4>3. QED BY <4>1, <4>2
      <3>7. r \o h = Held
        BY <2>7, <3>5, <3>6, SeqEqual
      <3>8. QED BY <3>7 DEF r, h
    <2>10. Queued' = Queued
      BY <2>1, <2>9 DEF Queued
    <2>11. QED BY <1>4, <2>1, <2>10
  <1>6. CASE PopClear
    <2>1. /\ cpc = "clear" /\ cpc' = "advance" /\ front \in Slots
          /\ UNCHANGED <<front, rear, delivered, result>>
          /\ data' = [data EXCEPT ![front] = Blank]
      BY <1>6 DEF PopClear, TypeOK
    <2>2. Taken = Advance(front) /\ Taken' = Taken
      BY <2>1 DEF Taken, Advance
    <2>3. Count = Wrap(rear - Advance(front) + Capacity) /\ Count' = Count
      BY <1>3, <2>1, <2>2 DEF Count, Wrap
    <2>4. \A i \in 1 .. Count : Wrap(Taken + i - 1) # front
      BY <1>3, <2>1, <2>2, <2>3, RingShrinks
    <2>5. \A i \in 1 .. Count : data'[Wrap(Taken + i - 1)] = data[Wrap(Taken + i - 1)]
      BY <2>1, <2>4, HeldIs DEF TypeOK
    <2>6. Held' = Held
      BY <2>2, <2>3, <2>5, HeldSame
    <2>7. QED BY <1>4, <2>1, <2>6 DEF Queued
  <1>7. CASE PopAdvance
    <2>1. /\ cpc = "advance" /\ cpc' = "empty?" /\ front \in Slots /\ front' = Advance(front)
          /\ UNCHANGED <<data, rear, delivered, result>>
      BY <1>7 DEF PopAdvance, TypeOK
    <2>2. Taken' = Taken /\ front' \in Slots
      BY <2>1, AdvanceType DEF Taken
    <2>3. Count' = Count
      BY <1>3, <2>1, <2>2 DEF Count, Wrap
    <2>4. Held' = Held
      BY <2>1, <2>2, <2>3, HeldSame
    <2>5. QED BY <1>4, <2>1, <2>4 DEF Queued
  <1>8. CASE PopDrained
    <2>1. /\ cpc = "empty?" /\ cpc' = "resetFront"
          /\ UNCHANGED <<data, front, rear, delivered, result>>
      BY <1>8 DEF PopDrained, ring
    <2>2. Taken' = Taken
      BY <2>1 DEF Taken
    <2>3. Count' = Count
      BY <2>1, <2>2 DEF Count, Wrap
    <2>4. Held' = Held
      BY <2>1, <2>2, <2>3, HeldSame
    <2>5. QED BY <1>4, <2>1, <2>4 DEF Queued
  <1>9. CASE PopMore
    <2>1. /\ cpc = "empty?" /\ cpc' = "idle" /\ front \in Slots /\ front # rear
          /\ UNCHANGED <<data, front, rear>> /\ Return
      BY <1>9 DEF PopMore, ring, Return, TypeOK
    <2>2. Taken' = Taken
      BY <2>1 DEF Taken
    <2>3. ~(Storing /\ pfront = -1)
      BY <1>1, <2>1 DEF PushOK
    <2>4. Count' = Count
      BY <1>2, <1>3, <2>1, <2>2, <2>3 DEF Count, Wrap, Storing
    <2>5. Held' = Held
      BY <2>1, <2>2, <2>4, HeldSame
    <2>6. QED BY <1>1, <1>2, <2>1, <2>5, ReturnInOrder
  <1>10. CASE PopResetFront
    <2>1. /\ cpc = "resetFront" /\ cpc' = "resetRear" /\ front' = -1
          /\ UNCHANGED <<data, rear, delivered, result>>
      BY <1>10 DEF PopResetFront
    <2>2. front = rear /\ Taken = rear
      BY <1>1, <2>1 DEF PopOK, Taken
    <2>3. Count = 0 /\ Count' = 0
      BY <1>3, <2>1, <2>2, CapacityAssumption DEF Count, Wrap, Slots
    <2>4. Held' = Held
      BY <2>1, <2>3, HeldSame
    <2>5. QED BY <1>4, <2>1, <2>4 DEF Queued
  <1>11. CASE PopResetRear
    <2>1. cpc = "resetRear" /\ Return /\ UNCHANGED <<data, front>>
      BY <1>11 DEF PopResetRear
    <2>2. front = -1
      BY <1>1, <2>1 DEF PopOK
    <2>3. Count = 0 /\ Count' = 0
      BY <2>1, <2>2 DEF Count
    <2>4. Held' = Held
      BY <2>1, <2>3, HeldSame
    <2>5. QED BY <1>1, <1>2, <2>1, <2>4, ReturnInOrder
  <1>12. QED BY <1>5, <1>6, <1>7, <1>8, <1>9, <1>10, <1>11 DEF Pop

\* The queue is a FIFO that loses nothing for as long as no push has met a pop
\* at the ends of the ring, whatever its capacity and the number of datagrams:
\* the unlocked reset of cirqueue_pop is the only thing wrong with it.
THEOREM FifoUntilClash == Spec => []FifoUnlessClash
  <1>1. Init => Fifo
    <2> SUFFICES ASSUME Init PROVE Fifo
      OBVIOUS
    <2>1. /\ front = -1 /\ rear = 0 /\ cpc = "idle" /\ ppc = "idle"
          /\ accepted = <<>> /\ delivered = <<>>
      BY DEF Init
    <2>2. Held = <<>>
      <3>1. Count = 0
        BY <2>1 DEF Count
      <3>2. QED BY <3>1, HeldIs, InitTypeOK, EmptySeq
    <2>3. QED BY <2>1, <2>2 DEF Fifo, Apart, BothBusy, PushOK, PopOK, Storing, InOrder, Queued
  <1>2. TypeOK /\ Fifo /\ TypeOK' /\ [Next]_vars => Fifo'
    <2> SUFFICES ASSUME TypeOK, Fifo, TypeOK', [Next]_vars, ~clash'
                 PROVE  Apart' /\ PushOK' /\ PopOK' /\ InOrder'
      BY DEF Fifo
    <2>1. CASE PushStep
      BY <2>1, PushApart, PushInOrder DEF PushStep
    <2>2. CASE PopStep
      BY <2>2, PopApart, PopInOrder DEF PopStep
    <2>3. CASE UNCHANGED vars
      <3>1. UNCHANGED <<data, front, rear, ppc, pfront, prear, pushes, accepted, cpc, result, delivered, clash>>
        BY <2>3 DEF vars, ring, pvars, cvars
      <3>2. ~clash /\ Apart /\ PushOK /\ PopOK /\ InOrder
        BY <3>1 DEF Fifo
      <3>3. Taken' = Taken /\ Count' = Count
        BY <3>1 DEF Taken, Advance, Count, Wrap
      <3>4. Held' = Held
        BY <3>1, <3>3, HeldSame
      <3>5. InOrder'
        BY <3>1, <3>2, <3>4 DEF InOrder, Queued
      <3>6. Apart' /\ PushOK' /\ PopOK'
        BY <3>1, <3>2 DEF Apart, BothBusy, AtBoundary, Advance, PushOK, PopOK, Storing
      <3>7. QED BY <3>5, <3>6
    <2>4. QED BY <2>1, <2>2, <2>3 DEF Next
  <1>3. Fifo => FifoUnlessClash
    BY DEF Fifo, FifoUnlessClash, InOrder
  <1>4. QED BY <1>1, <1>2, <1>3, TypeCorrect, PTL DEF Spec

-----------------------------------------------------------------------------
(* Induction on the naturals, by the least counterexample *)

\* A set of naturals has a least element.
LEMMA LeastNat ==
  ASSUME NEW T \in SUBSET Nat, T # {}
  PROVE  \E x \in T : \A y \in T : x <= y
  <1> DEFINE R == OpToRel(<, Nat)
  <1>1. IsWellFoundedOn(R, Nat)
    BY NatLessThanWellFounded
  <1>2. PICK x \in T : \A y \in T : <<y, x>> \notin R
    <2> HIDE DEF R
    <2> QED BY <1>1, WFMin
  <1>3. x \in Nat /\ \A y \in T : y \in Nat /\ ~(y < x)
    BY <1>2 DEF OpToRel
  <1>4. QED BY <1>3

LEMMA Induct ==
  ASSUME NEW S \in SUBSET Nat, 0 \in S, \A n \in S : n + 1 \in S
  PROVE  S = Nat
  <1> SUFFICES ASSUME Nat \ S # {} PROVE FALSE
    OBVIOUS
  <1>1. PICK x \in Nat \ S : \A y \in Nat \ S : x <= y
    BY LeastNat
  <1>2. x # 0 /\ x - 1 \in Nat
    BY <1>1
  <1>3. x - 1 \in S
    BY <1>1, <1>2
  <1>4. QED BY <1>1, <1>3

\* The sequence c of nodes is the list with descriptor l, nx and pv being the
\* pointers of the nodes.
Linked(l, nx, pv, c) ==
    /\ c \in Seq(Nodes)
    /\ \A i, j \in 1 .. Len(c) : c[i] = c[j] => i = j
    /\ l = [head |-> IF Len(c) = 0 THEN Null ELSE c[1],
            tail |-> IF Len(c) = 0 THEN Null ELSE c[Len(c)], len |-> Len(c)]
    /\ \A i \in 1 .. Len(c) : /\ nx[c[i]] = IF i = Len(c) THEN Null ELSE c[i + 1]
                              /\ pv[c[i]] = IF i = 1 THEN Null ELSE c[i - 1]

Elems(c) == {c[i] : i \in 1 .. Len(c)}

-----------------------------------------------------------------------------
(* Walking a list from its head                                            *)

ChainOf(l, nx) ==
    LET at[i \in 1 .. Cardinality(Nodes) + 1] ==
            IF i = 1 THEN l.head ELSE IF at[i - 1] = Null THEN Null ELSE nx[at[i - 1]]
    IN  [i \in 1 .. Cardinality({j \in DOMAIN at : at[j] # Null}) |-> at[i]]

LEMMA ChainNow ==
  ASSUME NEW a
  PROVE  Chain(a) = ChainOf(list[a], next) /\ Chain(a)' = ChainOf(list'[a], next')
  BY DEF Chain, ChainOf

\* A list without a node twice is no longer than there are nodes.
LEMMA LinkedLength ==
  ASSUME NEW c \in Seq(Nodes), \A i, j \in 1 .. Len(c) : c[i] = c[j] => i = j
  PROVE  /\ Cardinality(Nodes) \in Nat /\ Len(c) \in Nat /\ Len(c) <= Cardinality(Nodes)
         /\ IsFiniteSet(Elems(c)) /\ Cardinality(Elems(c)) = Len(c)
  <1>1. IsFiniteSet(Nodes)
    BY NodesAssumption
  <1>2. Cardinality(Nodes) \in Nat /\ Len(c) \in Nat
    BY <1>1, FS_CardinalityType
  <1>3. Elems(c) \in SUBSET Nodes
    BY DEF Elems
  <1>4. IsFiniteSet(Elems(c)) /\ Cardinality(Elems(c)) <= Cardinality(Nodes)
    BY <1>1, <1>3, FS_Subset
  <1>5. ExistsBijection(1 .. Len(c), Elems(c))
    <2> DEFINE f == [i \in 1 .. Len(c) |-> c[i]]
    <2>1. f \in [1 .. Len(c) -> Elems(c)]
      BY DEF Elems
    <2>2. \A i, j \in 1 .. Len(c) : f[i] = f[j] => i = j
      OBVIOUS
    <2>3. \A x \in Elems(c) : \E i \in 1 .. Len(c) : f[i] = x
      BY DEF Elems
    <2> HIDE DEF f
    <2>4. f \in Bijection(1 .. Len(c), Elems(c))
      BY <2>1, <2>2, <2>3 DEF Bijection, Injection, Surjection, IsInjective
    <2>5. QED BY <2>4 DEF ExistsBijection
  <1>6. Cardinality(Elems(c)) = Len(c)
    BY <1>2, <1>5, FS_CountingElements
  <1>7. QED BY <1>2, <1>4, <1>6

\* The walk finds the nodes of the list in their order.
LEMMA ChainIs ==
  ASSUME NEW l, NEW nx, NEW pv, NEW c, Linked(l, nx, pv, c)
  PROVE  ChainOf(l, nx) = c
  <1> DEFINE N == Cardinality(Nodes)
             Rec(g) == [i \in 1 .. N + 1 |->
                           IF i = 1 THEN l.head ELSE IF g[i - 1] = Null THEN Null ELSE nx[g[i - 1]]]
             at == CHOOSE g : g = Rec(g)
             w == [i \in 1 .. N + 1 |-> IF i <= Len(c) THEN c[i] ELSE Null]
  <1>0. c \in Seq(Nodes) /\ N \in Nat /\ Len(c) \in Nat /\ Len(c) <= N /\ \A i \in 1 .. Len(c) : c[i] # Null
    BY LinkedLength, NodesAssumption DEF Linked
  <1>1. l.head = IF Len(c) = 0 THEN Null ELSE c[1]
    BY DEF Linked
  <1>2. \A i \in 1 .. Len(c) : nx[c[i]] = IF i = Len(c) THEN Null ELSE c[i + 1]
    BY DEF Linked
  <1> HIDE DEF N
  <1>3. ASSUME NEW i \in 1 .. N + 1
        PROVE  w[i] = IF i = 1 THEN l.head ELSE IF w[i - 1] = Null THEN Null ELSE nx[w[i - 1]]
    <2>1. CASE i = 1
      BY <1>0, <1>1, <2>1
    <2>2. CASE i # 1
      <3>1. i - 1 \in 1 .. N + 1 /\ w[i - 1] = IF i - 1 <= Len(c) THEN c[i - 1] ELSE Null
        BY <1>0, <2>2
      <3>2. CASE i - 1 <= Len(c)
        <4>1. i - 1 \in 1 .. Len(c)
          BY <1>0, <3>1, <3>2
        <4>2. nx[c[i - 1]] = IF i - 1 = Len(c) THEN Null ELSE c[i]
          BY <1>0, <1>2, <4>1
        <4>3. QED BY <1>0, <2>2, <3>1, <3>2, <4>1, <4>2
      <3>3. CASE ~(i - 1 <= Len(c))
        BY <1>0, <2>2, <3>1, <3>3
      <3>4. QED BY <3>2, <3>3
    <2>3. QED BY <2>1, <2>2
  <1>4. w = Rec(w)
    BY <1>3
  <1>5. at = Rec(at)
    <2> HIDE DEF Rec, w
    <2>1. QED BY <1>4
  <1>6. DOMAIN at = 1 .. N + 1
    <2> HIDE DEF at
    <2>1. QED BY <1>5
  <1>7. \A i \in 1 .. N + 1 :
          at[i] = IF i = 1 THEN l.head ELSE IF at[i - 1] = Null THEN Null ELSE nx[at[i - 1]]
    <2> HIDE DEF at
    <2>1. QED BY <1>5
  <1>8. ASSUME NEW i \in 1 .. N + 1 PROVE at[i] = w[i]
    <2> HIDE DEF at, w
    <2> DEFINE S == {m \in Nat : m <= N => at[m + 1] = w[m + 1]}
    <2>1. 0 \in S
      <3>1. 1 \in 1 .. N + 1 /\ 0 + 1 = 1
        BY <1>0
      <3>2. at[1] = l.head /\ w[1] = l.head
        BY <1>3, <1>7, <3>1
      <3>3. QED BY <3>1, <3>2
    <2>2. ASSUME NEW m \in S PROVE m + 1 \in S
      <3>1. CASE m + 1 <= N
        <4>1. m + 2 \in 1 .. N + 1 /\ m + 2 # 1 /\ (m + 2) - 1 = m + 1 /\ (m + 1) + 1 = m + 2 /\ at[m + 1] = w[m + 1]
          BY <1>0, <3>1
        <4>2. at[m + 2] = w[m + 2]
          BY <1>3, <1>7, <4>1
        <4>3. QED BY <4>1, <4>2
      <3>2. QED BY <3>1
    <2>3. S = Nat
      BY <2>1, <2>2, Induct
    <2>4. i - 1 \in Nat /\ i - 1 <= N /\ (i - 1) + 1 = i
      BY <1>0
    <2>5. i - 1 \in S
      BY <2>3, <2>4
    <2>6. QED BY <2>4, <2>5
  <1>9. {j \in DOMAIN at : at[j] # Null} = 1 .. Len(c)
    <2>1. \A j \in 1 .. N + 1 : w[j] # Null <=> j <= Len(c)
      BY <1>0
    <2> HIDE DEF at, w
    <2>2. \A j : (j \in DOMAIN at /\ at[j] # Null) <=> j \in 1 .. Len(c)
      BY <1>0, <1>6, <1>8, <2>1
    <2>3. QED BY <2>2
  <1>10. Cardinality(1 .. Len(c)) = Len(c)
    <2>1. \A n \in Nat : 1 \in Int /\ n \in Int
      OBVIOUS
    <2>2. \A n \in Nat : Cardinality(1 .. n) = IF 1 > n THEN 0 ELSE n - 1 + 1
      BY <2>1, FS_Interval
    <2>3. \A n \in Nat : (IF 1 > n THEN 0 ELSE n - 1 + 1) = n
      OBVIOUS
    <2>4. QED BY <1>0, <2>2, <2>3
  <1>11. ChainOf(l, nx) = [i \in 1 .. Cardinality({j \in DOMAIN at : at[j] # Null}) |-> at[i]]
    BY DEF ChainOf, N
  <1>12. \A i \in 1 .. Len(c) : at[i] = c[i]
    <2>1. \A i \in 1 .. Len(c) : i \in 1 .. N + 1 /\ w[i] = c[i]
      BY <1>0
    <2> HIDE DEF at, w
    <2>2. QED BY <1>8, <2>1
  <1>13. QED
    <2> HIDE DEF at
    <2>1. ChainOf(l, nx) = [i \in 1 .. Len(c) |-> at[i]]
      BY <1>9, <1>10, <1>11
    <2>2. QED BY <1>0, <1>12, <2>1

-----------------------------------------------------------------------------
(* list_rpush and list_remove on the values of one list                    *)

Links == [Nodes -> Nodes \cup {Null}]

PushedList(l, x) == IF l.len # 0 THEN [l EXCEPT !.tail = x, !.len = @ + 1]
                    ELSE [head |-> x, tail |-> x, len |-> 1]
PushedNext(l, nx, x) == IF l.len # 0 THEN [nx EXCEPT ![x] = Null, ![l.tail] = x]
                        ELSE [nx EXCEPT ![x] = Null]
PushedPrev(l, pv, x) == [pv EXCEPT ![x] = IF l.len # 0 THEN l.tail ELSE Null]

CutList(l, nx, pv, x) == [head |-> IF pv[x] = Null THEN nx[x] ELSE l.head,
                          tail |-> IF nx[x] = Null THEN pv[x] ELSE l.tail,
                          len |-> l.len - 1]
CutNext(nx, pv, x) == IF pv[x] # Null THEN [nx EXCEPT ![pv[x]] = nx[x]] ELSE nx
CutPrev(nx, pv, x) == IF nx[x] # Null THEN [pv EXCEPT ![nx[x]] = pv[x]] ELSE pv
Cut(c, k) == [j \in 1 .. Len(c) - 1 |-> IF j < k THEN c[j] ELSE c[j + 1]]

\* A list does not notice what happens to the pointers of other nodes.
LEMMA LinkedApart ==
  ASSUME NEW l, NEW nx, NEW pv, NEW c, Linked(l, nx, pv, c), NEW nx2, NEW pv2,
         \A x \in Elems(c) : nx2[x] = nx[x] /\ pv2[x] = pv[x]
  PROVE  Linked(l, nx2, pv2, c)
  <1>1. \A i \in 1 .. Len(c) : nx2[c[i]] = nx[c[i]] /\ pv2[c[i]] = pv[c[i]]
    BY DEF Elems
  <1>2. QED BY <1>1 DEF Linked

LEMMA LinkedFacts ==
  ASSUME NEW l, NEW nx, NEW pv, NEW c, Linked(l, nx, pv, c)
  PROVE  /\ c \in Seq(Nodes) /\ Len(c) \in Nat
         /\ \A i \in 1 .. Len(c) : c[i] \in Nodes /\ c[i] # Null
         /\ l.head = (IF Len(c) = 0 THEN Null ELSE c[1])
         /\ l.tail = (IF Len(c) = 0 THEN Null ELSE c[Len(c)])
         /\ l.len = Len(c)
  BY NodesAssumption DEF Linked

\* The list with x at its end is linked again, and no other node is touched.
PushFits(l, nx, pv, c, x) ==
  /\ Linked(PushedList(l, x), PushedNext(l, nx, x), PushedPrev(l, pv, x), Append(c, x))
  /\ PushedNext(l, nx, x) \in Links /\ PushedPrev(l, pv, x) \in Links
  /\ \A y \in Nodes : (y # x /\ y \notin Elems(c)) =>
         PushedNext(l, nx, x)[y] = nx[y] /\ PushedPrev(l, pv, x)[y] = pv[y]
  /\ Elems(Append(c, x)) = Elems(c) \cup {x}

LEMMA PushLinks ==
  ASSUME NEW l, NEW nx \in Links, NEW pv \in Links, NEW c, Linked(l, nx, pv, c),
         NEW x \in Nodes, x \notin Elems(c)
  PROVE  PushFits(l, nx, pv, c, x)
  <1> DEFINE n == Len(c)
             d == Append(c, x)
             l2 == PushedList(l, x)
             nx2 == PushedNext(l, nx, x)
             pv2 == PushedPrev(l, pv, x)
  <1>1. /\ c \in Seq(Nodes) /\ n \in Nat /\ \A i \in 1 .. n : c[i] \in Nodes /\ c[i] # Null /\ c[i] # x
        /\ l.len = n /\ l.tail = (IF n = 0 THEN Null ELSE c[n])
        /\ l.head = (IF n = 0 THEN Null ELSE c[1])
    BY LinkedFacts DEF Elems
  <1>2. /\ \A i, j \in 1 .. n : c[i] = c[j] => i = j
        /\ \A i \in 1 .. n : /\ nx[c[i]] = IF i = n THEN Null ELSE c[i + 1]
                             /\ pv[c[i]] = IF i = 1 THEN Null ELSE c[i - 1]
        /\ l = [head |-> IF n = 0 THEN Null ELSE c[1],
                tail |-> IF n = 0 THEN Null ELSE c[n], len |-> n]
    BY DEF Linked
  <1>3. /\ d \in Seq(Nodes) /\ Len(d) = n + 1 /\ d[n + 1] = x
        /\ \A i \in 1 .. n : d[i] = c[i]
    BY <1>1
  <1>4. \A i \in 1 .. n + 1 : i # n + 1 => i \in 1 .. n
    BY <1>1
  <1>5. /\ nx2[x] = Null /\ (n # 0 => nx2[c[n]] = x)
        /\ \A y \in Nodes : (y # x /\ (n # 0 => y # c[n])) => nx2[y] = nx[y]
        /\ nx2 \in Links
    <2>1. CASE n = 0
      <3>1. nx2 = [nx EXCEPT ![x] = Null]
        BY <1>1, <2>1 DEF PushedNext
      <3>2. QED BY <2>1, <3>1 DEF Links
    <2>2. CASE n # 0
      <3>1. n \in 1 .. n
        BY <1>1, <2>2
      <3>2. nx2 = [nx EXCEPT ![x] = Null, ![c[n]] = x] /\ c[n] \in Nodes /\ c[n] # x
        BY <1>1, <2>2, <3>1 DEF PushedNext
      <3> HIDE DEF nx2
      <3>3. QED BY <2>2, <3>2 DEF Links
    <2>3. QED BY <2>1, <2>2
  <1>6. /\ pv2[x] = (IF n = 0 THEN Null ELSE c[n])
        /\ \A y \in Nodes : y # x => pv2[y] = pv[y]
        /\ pv2 \in Links
    <2>1. pv2 = [pv EXCEPT ![x] = IF n # 0 THEN l.tail ELSE Null]
      BY <1>1 DEF PushedPrev
    <2>2. (IF n # 0 THEN l.tail ELSE Null) \in Nodes \cup {Null}
      <3>1. n # 0 => n \in 1 .. n
        BY <1>1
      <3>2. QED BY <1>1, <3>1
    <2>3. (IF n # 0 THEN l.tail ELSE Null) = (IF n = 0 THEN Null ELSE c[n])
      BY <1>1
    <2> HIDE DEF pv2
    <2>4. QED BY <2>1, <2>2, <2>3 DEF Links
  <1>7. l2 = [head |-> IF Len(d) = 0 THEN Null ELSE d[1],
              tail |-> IF Len(d) = 0 THEN Null ELSE d[Len(d)], len |-> Len(d)]
    <2>1. Len(d) # 0 /\ d[Len(d)] = x
      BY <1>1, <1>3
    <2>2. CASE n = 0
      BY <1>1, <1>3, <2>1, <2>2 DEF PushedList
    <2>3. CASE n # 0
      <3>1. 1 \in 1 .. n /\ d[1] = c[1]
        BY <1>1, <1>3, <2>3
      <3>2. l2 = [l EXCEPT !.tail = x, !.len = @ + 1]
        BY <1>1, <2>3 DEF PushedList
      <3>3. l2 = [head |-> c[1], tail |-> x, len |-> n + 1]
        <4> HIDE DEF l2
        <4>1. l = [head |-> c[1], tail |-> c[n], len |-> n]
          BY <1>2, <2>3
        <4>2. QED BY <3>2, <4>1
      <3> HIDE DEF l2, d
      <3>4. QED BY <1>3, <2>1, <3>1, <3>3
    <2>4. QED BY <2>2, <2>3
  <1> HIDE DEF l2, nx2, pv2, d
  <1>8. \A i, j \in 1 .. n + 1 : d[i] = d[j] => i = j
    <2> TAKE i, j \in 1 .. n + 1
    <2>1. CASE i = n + 1 /\ j # n + 1
      BY <1>1, <1>3, <1>4, <2>1
    <2>2. CASE i # n + 1 /\ j = n + 1
      BY <1>1, <1>3, <1>4, <2>2
    <2>3. CASE i # n + 1 /\ j # n + 1
      <3>1. i \in 1 .. n /\ j \in 1 .. n /\ d[i] = c[i] /\ d[j] = c[j]
        BY <1>3, <1>4, <2>3
      <3>2. QED BY <1>2, <3>1
    <2>4. QED BY <2>1, <2>2, <2>3
  <1>9. \A i \in 1 .. n + 1 : nx2[d[i]] = IF i = n + 1 THEN Null ELSE d[i + 1]
    <2> TAKE i \in 1 .. n + 1
    <2>1. CASE i = n + 1
      BY <1>3, <1>5, <2>1
    <2>2. CASE i = n /\ n # 0
      <3>1. n \in 1 .. n /\ i # n + 1
        BY <1>1, <2>2
      <3>2. nx2[d[i]] = x
        BY <1>3, <1>5, <2>2, <3>1
      <3>3. QED BY <1>3, <2>2, <3>1, <3>2
    <2>3. CASE i # n /\ i # n + 1
      <3>1. i \in 1 .. n /\ i + 1 \in 1 .. n /\ n \in 1 .. n
        BY <1>1, <2>3
      <3>2. c[i] # c[n] /\ c[i] # x /\ c[i] \in Nodes
        BY <1>1, <1>2, <2>3, <3>1
      <3>3. nx2[c[i]] = nx[c[i]]
        BY <1>5, <3>2
      <3>4. QED BY <1>2, <1>3, <2>3, <3>1, <3>3
    <2>4. QED BY <1>1, <2>1, <2>2, <2>3
  <1>10. \A i \in 1 .. n + 1 : pv2[d[i]] = IF i = 1 THEN Null ELSE d[i - 1]
    <2> TAKE i \in 1 .. n + 1
    <2>1. CASE i = n + 1
      <3>1. n # 0 => n \in 1 .. n /\ d[n] = c[n] /\ i # 1
        BY <1>1, <1>3, <2>1
      <3>2. n = 0 <=> i = 1
        BY <1>1, <2>1
      <3>3. i - 1 = n
        BY <1>1, <2>1
      <3>4. QED BY <1>3, <1>6, <2>1, <3>1, <3>2, <3>3
    <2>2. CASE i # n + 1
      <3>1. i \in 1 .. n /\ c[i] # x /\ c[i] \in Nodes /\ d[i] = c[i]
        BY <1>1, <1>3, <1>4, <2>2
      <3>2. i # 1 => i - 1 \in 1 .. n
        BY <3>1
      <3>3. i # 1 => d[i - 1] = c[i - 1]
        BY <1>3, <3>2
      <3>4. pv2[d[i]] = pv[c[i]]
        BY <1>6, <3>1
      <3>5. QED BY <1>2, <3>1, <3>3, <3>4
    <2>3. QED BY <2>1, <2>2
  <1>11. Linked(l2, nx2, pv2, d)
    BY <1>3, <1>7, <1>8, <1>9, <1>10 DEF Linked
  <1>12. Elems(d) = Elems(c) \cup {x}
    <2>1. \A y \in Elems(d) : y \in Elems(c) \cup {x}
      BY <1>3, <1>4 DEF Elems
    <2>2. \A i \in 1 .. n : i \in 1 .. n + 1
      BY <1>1
    <2>3. n + 1 \in 1 .. n + 1
      BY <1>1
    <2>4. \A y \in Elems(c) \cup {x} : y \in Elems(d)
      BY <1>3, <2>2, <2>3 DEF Elems
    <2>5. QED BY <2>1, <2>4
  <1>13. \A y \in Nodes : (y # x /\ y \notin Elems(c)) => nx2[y] = nx[y] /\ pv2[y] = pv[y]
    <2>1. n # 0 => c[n] \in Elems(c)
      <3>1. n # 0 => n \in 1 .. n
        BY <1>1
      <3>2. QED BY <3>1 DEF Elems
    <2>2. QED BY <1>5, <1>6, <2>1
  <1>14. QED BY <1>5, <1>6, <1>11, <1>12, <1>13 DEF PushFits, l2, nx2, pv2, d

\* So it is without its k-th node.
CutFits(l, nx, pv, c, k) ==
  /\ Linked(CutList(l, nx, pv, c[k]), CutNext(nx, pv, c[k]), CutPrev(nx, pv, c[k]), Cut(c, k))
  /\ CutNext(nx, pv, c[k]) \in Links /\ CutPrev(nx, pv, c[k]) \in Links
  /\ \A y \in Nodes : y \notin Elems(c) =>
         CutNext(nx, pv, c[k])[y] = nx[y] /\ CutPrev(nx, pv, c[k])[y] = pv[y]
  /\ Elems(Cut(c, k)) = Elems(c) \ {c[k]}
  /\ Cut(c, k) \in Seq(Nodes) /\ Len(Cut(c, k)) = Len(c) - 1

LEMMA RemoveLinks ==
  ASSUME NEW l, NEW nx \in Links, NEW pv \in Links, NEW c, Linked(l, nx, pv, c),
         NEW k \in 1 .. Len(c)
  PROVE  CutFits(l, nx, pv, c, k)
  <1> DEFINE n == Len(c)
             x == c[k]
             d == Cut(c, k)
             l2 == CutList(l, nx, pv, x)
             nx2 == CutNext(nx, pv, x)
             pv2 == CutPrev(nx, pv, x)
  <1>1. /\ c \in Seq(Nodes) /\ n \in Nat /\ \A i \in 1 .. n : c[i] \in Nodes /\ c[i] # Null
        /\ l.len = n /\ l.tail = (IF n = 0 THEN Null ELSE c[n])
        /\ l.head = (IF n = 0 THEN Null ELSE c[1])
    BY LinkedFacts
  <1>2. /\ \A i, j \in 1 .. n : c[i] = c[j] => i = j
        /\ \A i \in 1 .. n : nx[c[i]] = IF i = n THEN Null ELSE c[i + 1]
        /\ \A i \in 1 .. n : pv[c[i]] = IF i = 1 THEN Null ELSE c[i - 1]
    BY DEF Linked
  <1>3. n > 0 /\ k \in 1 .. n /\ k \in Nat /\ x \in Nodes /\ x # Null /\ n - 1 \in Nat
    BY <1>1
  <1>4. /\ nx[x] = (IF k = n THEN Null ELSE c[k + 1])
        /\ pv[x] = (IF k = 1 THEN Null ELSE c[k - 1])
    BY <1>2
  <1>5. (k # n => k + 1 \in 1 .. n) /\ (k # 1 => k - 1 \in 1 .. n)
    BY <1>3
  <1>6. (nx[x] = Null <=> k = n) /\ (pv[x] = Null <=> k = 1)
    BY <1>1, <1>4, <1>5
  <1>7. /\ d = [j \in 1 .. n - 1 |-> IF j < k THEN c[j] ELSE c[j + 1]]
        /\ \A j \in 1 .. n - 1 : d[j] = IF j < k THEN c[j] ELSE c[j + 1]
        /\ \A j \in 1 .. n - 1 : j \in 1 .. n /\ j + 1 \in 1 .. n
    BY <1>1 DEF Cut
  <1>8. d \in Seq(Nodes) /\ Len(d) = n - 1
    <2>1. \A j \in 1 .. n - 1 : (IF j < k THEN c[j] ELSE c[j + 1]) \in Nodes
      BY <1>1, <1>7
    <2> HIDE DEF d
    <2>2. QED BY <1>3, <1>7, <2>1
  <1>9. nx2 \in Links /\ \A y \in Nodes : nx2[y] = IF k # 1 /\ y = c[k - 1] THEN nx[x] ELSE nx[y]
    <2>1. nx[x] \in Nodes \cup {Null}
      BY <1>3 DEF Links
    <2>2. CASE k = 1
      <3>1. nx2 = nx
        BY <1>6, <2>2 DEF CutNext
      <3>2. QED BY <2>2, <3>1
    <2>3. CASE k # 1
      <3>1. nx2 = [nx EXCEPT ![c[k - 1]] = nx[x]]
        BY <1>4, <1>6, <2>3 DEF CutNext
      <3> HIDE DEF nx2
      <3>2. QED BY <2>1, <2>3, <3>1 DEF Links
    <2>4. QED BY <2>2, <2>3
  <1>10. pv2 \in Links /\ \A y \in Nodes : pv2[y] = IF k # n /\ y = c[k + 1] THEN pv[x] ELSE pv[y]
    <2>1. pv[x] \in Nodes \cup {Null}
      BY <1>3 DEF Links
    <2>2. CASE k = n
      <3>1. pv2 = pv
        BY <1>6, <2>2 DEF CutPrev
      <3>2. QED BY <2>2, <3>1
    <2>3. CASE k # n
      <3>1. pv2 = [pv EXCEPT ![c[k + 1]] = pv[x]]
        BY <1>4, <1>6, <2>3 DEF CutPrev
      <3> HIDE DEF pv2
      <3>2. QED BY <2>1, <2>3, <3>1 DEF Links
    <2>4. QED BY <2>2, <2>3
  <1>11. l2 = [head |-> IF Len(d) = 0 THEN Null ELSE d[1],
               tail |-> IF Len(d) = 0 THEN Null ELSE d[Len(d)], len |-> Len(d)]
    <2>1. l2 = [head |-> IF k = 1 THEN nx[x] ELSE c[1],
                tail |-> IF k = n THEN pv[x] ELSE c[n], len |-> n - 1]
      BY <1>1, <1>3, <1>6 DEF CutList
    <2>2. (IF k = 1 THEN nx[x] ELSE c[1]) = IF n - 1 = 0 THEN Null ELSE d[1]
      <3>1. CASE n = 1
        BY <1>3, <1>4, <3>1
      <3>2. CASE n # 1
        <4> DEFINE Span(m, o) == m - 1 # 0 /\ 1 \in 1 .. m - 1 /\ (o = 1 => o # m /\ ~(1 < o)) /\ (o # 1 => 1 < o)
        <4>0. \A m \in Nat, o \in Nat : m # 1 /\ o > 0 /\ o <= m => Span(m, o)
          OBVIOUS
        <4>01. n \in Nat /\ k > 0 /\ k <= n
          BY <1>1
        <4>1. Span(n, k)
          <5> HIDE DEF Span
          <5>1. QED BY <1>3, <3>2, <4>0, <4>01
        <4>2. d[1] = IF 1 < k THEN c[1] ELSE c[1 + 1]
          BY <1>7, <4>1
        <4> HIDE DEF d
        <4>3. QED BY <1>4, <4>1, <4>2
      <3>3. QED BY <3>1, <3>2
    <2>3. (IF k = n THEN pv[x] ELSE c[n]) = IF n - 1 = 0 THEN Null ELSE d[n - 1]
      <3>1. CASE n = 1
        BY <1>3, <1>4, <3>1
      <3>2. CASE n # 1
        <4>1. n - 1 # 0 /\ n - 1 \in 1 .. n - 1 /\ (n - 1 < k <=> k = n) /\ (n - 1) + 1 = n /\ (k = n => k # 1)
          BY <1>3, <3>2
        <4>2. d[n - 1] = IF n - 1 < k THEN c[n - 1] ELSE c[(n - 1) + 1]
          BY <1>7, <4>1
        <4> HIDE DEF d
        <4>3. QED BY <1>4, <4>1, <4>2
      <3>3. QED BY <3>1, <3>2
    <2> HIDE DEF l2, d
    <2>4. QED BY <1>8, <2>1, <2>2, <2>3
  <1> HIDE DEF l2, nx2, pv2, d
  <1>12. \A i, j \in 1 .. n - 1 : d[i] = d[j] => i = j
    <2> TAKE i, j \in 1 .. n - 1
    <2> DEFINE s(m) == IF m < k THEN m ELSE m + 1
    <2>1. \A m \in 1 .. n - 1 : s(m) \in 1 .. n /\ d[m] = c[s(m)]
      BY <1>3, <1>7
    <2>2. s(i) = s(j) => i = j
      BY <1>3
    <2> HIDE DEF s
    <2>3. d[i] = c[s(i)] /\ d[j] = c[s(j)] /\ (c[s(i)] = c[s(j)] => s(i) = s(j))
      BY <1>2, <2>1
    <2>4. QED BY <2>2, <2>3
  <1>13. \A i \in 1 .. n - 1 : nx2[d[i]] = IF i = n - 1 THEN Null ELSE d[i + 1]
    <2> TAKE i \in 1 .. n - 1
    <2>0. i \in 1 .. n /\ i + 1 \in 1 .. n /\ i \in Nat
      BY <1>3
    <2>1. CASE i = k - 1
      <3>1. i < k /\ k # 1 /\ i + 1 = k /\ d[i] = c[i] /\ (i = n - 1 <=> k = n)
        BY <1>3, <1>7, <2>0, <2>1
      <3>2. nx2[d[i]] = nx[x]
        BY <1>1, <1>9, <2>0, <2>1, <3>1
      <3>3. i # n - 1 => i + 1 \in 1 .. n - 1 /\ ~(i + 1 < k) /\ (i + 1) + 1 = k + 1
        BY <1>3, <2>0, <3>1
      <3>4. i # n - 1 => d[i + 1] = c[k + 1]
        BY <1>7, <3>3
      <3>5. QED BY <1>4, <3>1, <3>2, <3>4
    <2>2. CASE i < k /\ i # k - 1
      <3>1. i + 1 < k /\ i # n - 1 /\ i # n /\ i + 1 \in 1 .. n - 1
        BY <1>3, <2>0, <2>2
      <3>2. d[i] = c[i] /\ d[i + 1] = c[i + 1]
        BY <1>7, <2>2, <3>1
      <3>3. k # 1 => c[i] # c[k - 1]
        BY <1>2, <1>5, <2>0, <2>2
      <3>4. nx2[c[i]] = nx[c[i]]
        BY <1>1, <1>9, <2>0, <3>3
      <3>5. QED BY <1>2, <2>0, <3>1, <3>2, <3>4
    <2>3. CASE ~(i < k)
      <3>1. d[i] = c[i + 1] /\ (i + 1 = n <=> i = n - 1)
        BY <1>3, <1>7, <2>0, <2>3
      <3>2. k # 1 => i + 1 # k - 1
        BY <1>3, <2>0, <2>3
      <3>3. nx2[c[i + 1]] = nx[c[i + 1]]
        BY <1>1, <1>2, <1>5, <1>9, <2>0, <3>2
      <3>4. i # n - 1 => i + 1 \in 1 .. n - 1 /\ ~(i + 1 < k)
        BY <1>3, <2>0, <2>3
      <3>5. i # n - 1 => d[i + 1] = c[(i + 1) + 1]
        BY <1>7, <3>4
      <3>6. QED BY <1>2, <2>0, <3>1, <3>3, <3>5
    <2>4. QED BY <2>1, <2>2, <2>3
  <1>14. \A i \in 1 .. n - 1 : pv2[d[i]] = IF i = 1 THEN Null ELSE d[i - 1]
    <2> TAKE i \in 1 .. n - 1
    <2>0. i \in 1 .. n /\ i + 1 \in 1 .. n /\ i \in Nat /\ (i # 1 => i - 1 \in 1 .. n - 1)
      BY <1>3
    <2>1. CASE i = k
      <3>1. d[i] = c[k + 1] /\ k # n /\ ~(i < k)
        BY <1>3, <1>7, <2>0, <2>1
      <3>2. pv2[d[i]] = pv[x]
        BY <1>1, <1>5, <1>10, <3>1
      <3>3. i # 1 => i - 1 < k
        BY <1>3, <2>1
      <3>4. i # 1 => d[i - 1] = c[k - 1]
        BY <1>7, <2>0, <2>1, <3>3
      <3>5. QED BY <1>4, <2>1, <3>2, <3>4
    <2>2. CASE i < k
      <3>1. d[i] = c[i] /\ (i # 1 => i - 1 < k) /\ (k # n => i # k + 1)
        BY <1>3, <1>7, <2>0, <2>2
      <3>2. i # 1 => d[i - 1] = c[i - 1]
        BY <1>7, <2>0, <3>1
      <3>3. k # n => c[i] # c[k + 1]
        BY <1>2, <1>5, <2>0, <3>1
      <3>4. pv2[c[i]] = pv[c[i]]
        BY <1>1, <1>10, <2>0, <3>3
      <3>5. QED BY <1>2, <2>0, <3>1, <3>2, <3>4
    <2>3. CASE ~(i < k) /\ i # k
      <3>1. d[i] = c[i + 1] /\ i # 1 /\ i + 1 # 1 /\ ~(i - 1 < k) /\ (i - 1) + 1 = i /\ (i + 1) - 1 = i
        BY <1>3, <1>7, <2>0, <2>3
      <3>2. d[i - 1] = c[i]
        BY <1>7, <2>0, <3>1
      <3>3. k # n => i + 1 # k + 1
        BY <1>3, <2>0, <2>3
      <3>4. pv2[c[i + 1]] = pv[c[i + 1]]
        BY <1>1, <1>2, <1>5, <1>10, <2>0, <3>3
      <3>5. QED BY <1>2, <2>0, <3>1, <3>2, <3>4
    <2>4. QED BY <2>1, <2>2, <2>3
  <1>15. Linked(l2, nx2, pv2, d)
    BY <1>8, <1>11, <1>12, <1>13, <1>14 DEF Linked
  <1>16. Elems(d) = Elems(c) \ {x}
    <2>1. ASSUME NEW y \in Elems(d) PROVE y \in Elems(c) \ {x}
      <3>1. PICK i \in 1 .. n - 1 : y = d[i]
        BY <1>8 DEF Elems
      <3>2. PICK j \in 1 .. n : y = c[j] /\ j # k
        <4>1. CASE i < k
          BY <1>3, <1>7, <3>1, <4>1
        <4>2. CASE ~(i < k)
          BY <1>3, <1>7, <3>1, <4>2
        <4>3. QED BY <4>1, <4>2
      <3>3. QED BY <1>2, <1>3, <3>2 DEF Elems
    <2>2. ASSUME NEW y \in Elems(c) \ {x} PROVE y \in Elems(d)
      <3>1. PICK j \in 1 .. n : y = c[j]
        BY DEF Elems
      <3>2. j # k
        BY <3>1
      <3>3. CASE j < k
        <4>1. j \in 1 .. n - 1 /\ d[j] = c[j]
          BY <1>3, <1>7, <3>3
        <4>2. QED BY <1>8, <3>1, <4>1 DEF Elems
      <3>4. CASE ~(j < k)
        <4>1. j - 1 \in 1 .. n - 1 /\ ~(j - 1 < k) /\ (j - 1) + 1 = j
          BY <1>3, <3>2, <3>4
        <4>2. d[j - 1] = c[j]
          BY <1>7, <4>1
        <4>3. QED BY <1>8, <3>1, <4>1, <4>2 DEF Elems
      <3>5. QED BY <3>3, <3>4
    <2>3. QED BY <2>1, <2>2
  <1>17. \A y \in Nodes : y \notin Elems(c) => nx2[y] = nx[y] /\ pv2[y] = pv[y]
    <2>1. (k # 1 => c[k - 1] \in Elems(c)) /\ (k # n => c[k + 1] \in Elems(c))
      BY <1>5 DEF Elems
    <2>2. QED BY <1>9, <1>10, <2>1
  <1>18. QED BY <1>8, <1>9, <1>10, <1>15, <1>16, <1>17 DEF CutFits, l2, nx2, pv2, d

-----------------------------------------------------------------------------
(* The inductive invariant *)

\* The pointers make two lists, which share the allocated nodes out.
ListsOK ==
    /\ next \in [Nodes -> Nodes \cup {Null}] /\ prev \in [Nodes -> Nodes \cup {Null}]
    /\ \A a \in Algos : Linked(list[a], next, prev, Chain(a))
    /\ list \in [Algos -> [head : Nodes \cup {Null}, tail : Nodes \cup {Null}, len : Nat]]
    /\ used = Elems(Chain("BTC")) \cup Elems(Chain("LTC"))
    /\ Elems(Chain("BTC")) \cap Elems(Chain("LTC")) = {}

Places == [at : {"item", "delete", "add", "put"}, k : 1 .. MaxItems + 1, last : 0 .. MaxItems,
           algo : Algos, named : BOOLEAN, ids : Seq(1 .. MaxItems), given : [Algos -> Seq(Pool)]]

\* Where a command is: gCrrMaxPoolId counts its items, and the first one has
\* put nothing yet.
CmdOK ==
    cmd # Idle =>
        /\ cmd \in Places
        /\ cmd.last = IF cmd.at = "item" THEN cmd.k - 1 ELSE cmd.k
        /\ \A n \in DOMAIN cmd.ids : cmd.ids[n] < cmd.k
        /\ cmd.k = 1 => cmd.ids = <<>> /\ cmd.given = NoPools /\ ~cmd.named
        /\ cmd.at = "delete" => cmd.k = 1

\* Each id is in one node of one list, and the one to be put is not in the other.
IdsOK ==
    /\ val \in [Nodes -> Pool]
    /\ \A x \in used : val[x].id # 0
    /\ \A x, y \in used : val[x].id = val[y].id => x = y
    /\ cmd.at = "put" => \A x \in Elems(Chain(Other(cmd.algo))) : val[x].id # cmd.last

Pools(a) == [i \in DOMAIN Chain(a) |-> val[Chain(a)[i]]]
IdsOf(s) == [i \in DOMAIN s |-> s[i].id]

\* The lists were emptied by this command.
Emptied == cmd # Idle /\ (cmd.named \/ (cmd.k = 1 /\ cmd.at \in {"add", "put"}))

\* From then on the lists hold what the command gave, in its order.
GivenHolds ==
    /\ \A x \in used : val[x].id < cmd.k
    /\ \A a \in Algos : Pools(a) = cmd.given[a] /\ Looked(a) = IdsOf(cmd.given[a])

GivenOK == Emptied => GivenHolds

SpecifyOK == \A a \in Algos : \A i \in DOMAIN specify[a] : specify[a][i] \in Pool

ListsInv == ListsOK /\ CmdOK /\ IdsOK /\ GivenOK /\ SpecifyOK

-----------------------------------------------------------------------------
LEMMA AlgoFacts ==
  ASSUME NEW a \in Algos
  PROVE  Other(a) \in Algos /\ Other(a) # a /\ \A b \in Algos : b = a \/ b = Other(a)
  <1>1. \E b \in Algos : b # a
    BY DEF Algos
  <1>2. Other(a) \in Algos /\ Other(a) # a
    BY <1>1 DEF Other
  <1>3. QED BY <1>2 DEF Algos

\* What the walk from the head finds.
LEMMA ChainFacts ==
  ASSUME ListsOK, NEW a \in Algos
  PROVE  /\ Chain(a) \in Seq(Nodes) /\ Len(Chain(a)) \in Nat /\ DOMAIN Chain(a) = 1 .. Len(Chain(a))
         /\ \A i \in 1 .. Len(Chain(a)) : Chain(a)[i] \in Nodes /\ Chain(a)[i] \in Elems(Chain(a))
         /\ \A i, j \in 1 .. Len(Chain(a)) : Chain(a)[i] = Chain(a)[j] => i = j
         /\ list[a].len = Len(Chain(a))
         /\ list[a].head = (IF Len(Chain(a)) = 0 THEN Null ELSE Chain(a)[1])
         /\ Linked(list[a], next, prev, Chain(a))
         /\ Elems(Chain(a)) \subseteq used
  <1>1. Linked(list[a], next, prev, Chain(a))
    BY DEF ListsOK
  <1>2. Elems(Chain(a)) \subseteq used
    BY DEF ListsOK, Algos
  <1>3. /\ Chain(a) \in Seq(Nodes) /\ list[a].len = Len(Chain(a))
        /\ list[a].head = (IF Len(Chain(a)) = 0 THEN Null ELSE Chain(a)[1])
    BY <1>1, LinkedFacts
  <1>4. Len(Chain(a)) \in Nat /\ DOMAIN Chain(a) = 1 .. Len(Chain(a))
    BY <1>3
  <1>5. \A i \in 1 .. Len(Chain(a)) : Chain(a)[i] \in Nodes /\ Chain(a)[i] \in Elems(Chain(a))
    BY <1>3 DEF Elems
  <1>6. \A i, j \in 1 .. Len(Chain(a)) : Chain(a)[i] = Chain(a)[j] => i = j
    BY <1>1 DEF Linked
  <1>7. QED BY <1>1, <1>2, <1>3, <1>4, <1>5, <1>6

LEMMA ChainNext ==
  ASSUME NEW a, NEW c, Linked(list'[a], next', prev', c)
  PROVE  Chain(a)' = c
  BY ChainNow, ChainIs

\* The lists after a step whose chains are known
LEMMA ListsNext ==
  ASSUME NEW a \in Algos, NEW c, NEW d,
         next' \in Links, prev' \in Links,
         list' \in [Algos -> [head : Nodes \cup {Null}, tail : Nodes \cup {Null}, len : Nat]],
         Linked(list'[a], next', prev', c), Linked(list'[Other(a)], next', prev', d),
         used' = Elems(c) \cup Elems(d), Elems(c) \cap Elems(d) = {}
  PROVE  ListsOK' /\ Chain(a)' = c /\ Chain(Other(a))' = d
  <1>1. Chain(a)' = c /\ Chain(Other(a))' = d
    BY ChainNext
  <1>2. \A b \in Algos : Linked(list'[b], next', prev', Chain(b)')
    BY <1>1, AlgoFacts
  <1>3. used' = Elems(Chain("BTC"))' \cup Elems(Chain("LTC"))' /\ Elems(Chain("BTC"))' \cap Elems(Chain("LTC"))' = {}
    <2>1. Elems(Chain(a)') \cup Elems(Chain(Other(a))') = used' /\ Elems(Chain(a)') \cap Elems(Chain(Other(a))') = {}
      BY <1>1
    <2>2. (a = "BTC" /\ Other(a) = "LTC") \/ (a = "LTC" /\ Other(a) = "BTC")
      BY AlgoFacts DEF Algos
    <2>3. Elems(Chain("BTC"))' = Elems(Chain("BTC")') /\ Elems(Chain("LTC"))' = Elems(Chain("LTC")')
      BY DEF Elems
    <2>4. QED BY <2>1, <2>2, <2>3
  <1>4. (\A b \in Algos : Linked(list[b], next, prev, Chain(b)))'
    BY <1>2 DEF Linked
  <1>5. QED BY <1>1, <1>3, <1>4 DEF ListsOK, Links

LEMMA SameLists ==
  ASSUME ListsOK, UNCHANGED <<next, prev, used, list>>
  PROVE  ListsOK' /\ \A a : Chain(a)' = Chain(a)
  <1>1. \A a : Chain(a)' = Chain(a)
    BY ChainNow
  <1>2. next' = next /\ prev' = prev /\ used' = used /\ list' = list
    OBVIOUS
  <1>3. \A b \in Algos : Linked(list'[b], next', prev', Chain(b)')
    BY <1>1, <1>2 DEF ListsOK
  <1>4. (\A b \in Algos : Linked(list[b], next, prev, Chain(b)))'
    BY <1>3 DEF Linked
  <1>5. Elems(Chain("BTC"))' = Elems(Chain("BTC")) /\ Elems(Chain("LTC"))' = Elems(Chain("LTC"))
    BY <1>1 DEF Elems
  <1>6. QED BY <1>1, <1>2, <1>4, <1>5 DEF ListsOK

LEMMA PushedType ==
  ASSUME NEW x \in Nodes, NEW l \in [head : Nodes \cup {Null}, tail : Nodes \cup {Null}, len : Nat]
  PROVE  PushedList(l, x) \in [head : Nodes \cup {Null}, tail : Nodes \cup {Null}, len : Nat]
  <1>1. /\ [head |-> x, tail |-> x, len |-> 1] \in [head : Nodes \cup {Null}, tail : Nodes \cup {Null}, len : Nat]
    OBVIOUS
  <1>2. [l EXCEPT !.tail = x, !.len = @ + 1] \in [head : Nodes \cup {Null}, tail : Nodes \cup {Null}, len : Nat]
    <2>1. PICK h \in Nodes \cup {Null}, u \in Nodes \cup {Null}, n \in Nat : l = [head |-> h, tail |-> u, len |-> n]
      <3>1. /\ l.head \in Nodes \cup {Null} /\ l.tail \in Nodes \cup {Null} /\ l.len \in Nat
            /\ l = [head |-> l.head, tail |-> l.tail, len |-> l.len]
        OBVIOUS
      <3>2. QED BY <3>1
    <2> DEFINE m == [l EXCEPT !.tail = x]
    <2>2. m = [head |-> h, tail |-> x, len |-> n] /\ l.len = n
      BY <2>1
    <2>3. [l EXCEPT !.tail = x, !.len = @ + 1] = [m EXCEPT !.len = n + 1]
      BY <2>2
    <2> HIDE DEF m
    <2>4. [m EXCEPT !.len = n + 1] = [head |-> h, tail |-> x, len |-> n + 1]
      BY <2>2
    <2>5. QED BY <2>3, <2>4
  <1>3. QED BY <1>1, <1>2 DEF PushedList

LEMMA CutType ==
  ASSUME NEW l \in [head : Nodes \cup {Null}, tail : Nodes \cup {Null}, len : Nat], l.len - 1 \in Nat,
         NEW nx, NEW pv, NEW x, nx[x] \in Nodes \cup {Null}, pv[x] \in Nodes \cup {Null}
  PROVE  CutList(l, nx, pv, x) \in [head : Nodes \cup {Null}, tail : Nodes \cup {Null}, len : Nat]
  BY DEF CutList

LEMMA PushLists ==
  ASSUME ListsOK, NEW a \in Algos, NEW x, NEW p, ListRpush(a, x, p)
  PROVE  /\ ListsOK' /\ x \in Nodes \ used /\ used' = used \cup {x}
         /\ Chain(a)' = Append(Chain(a), x) /\ Chain(Other(a))' = Chain(Other(a))
  <1> DEFINE c == Chain(a)
             d == Chain(Other(a))
             l == list[a]
  <1>1. x \in Nodes \ used /\ used' = used \cup {x}
    BY DEF ListRpush
  <1>2. /\ Linked(l, next, prev, c) /\ Linked(list[Other(a)], next, prev, d)
        /\ Elems(c) \subseteq used /\ Elems(d) \subseteq used
    BY AlgoFacts, ChainFacts
  <1>3. next \in Links /\ prev \in Links /\ used = Elems(c) \cup Elems(d) /\ Elems(c) \cap Elems(d) = {}
        /\ list \in [Algos -> [head : Nodes \cup {Null}, tail : Nodes \cup {Null}, len : Nat]]
    <2>1. (a = "BTC" /\ Other(a) = "LTC") \/ (a = "LTC" /\ Other(a) = "BTC")
      BY AlgoFacts DEF Algos
    <2>2. QED BY <2>1 DEF ListsOK, Links
  <1>4. /\ list' = [list EXCEPT ![a] = PushedList(l, x)]
        /\ next' = PushedNext(l, next, x) /\ prev' = PushedPrev(l, prev, x)
    BY <1>3 DEF ListRpush, PushedList, PushedNext, PushedPrev
  <1> HIDE DEF c, d, l
  <1>5. /\ Linked(PushedList(l, x), PushedNext(l, next, x), PushedPrev(l, prev, x), Append(c, x))
        /\ next' \in Links /\ prev' \in Links
        /\ \A y \in Nodes : (y # x /\ y \notin Elems(c)) => next'[y] = next[y] /\ prev'[y] = prev[y]
        /\ Elems(Append(c, x)) = Elems(c) \cup {x}
    <2>1. x \in Nodes /\ x \notin Elems(c) /\ Linked(l, next, prev, c) /\ next \in Links /\ prev \in Links
      BY <1>1, <1>2, <1>3
    <2>2. PushFits(l, next, prev, c, x)
      BY ONLY <2>1, PushLinks
    <2>3. QED BY ONLY <1>4, <2>2 DEF PushFits
  <1>6. PushedList(l, x) \in [head : Nodes \cup {Null}, tail : Nodes \cup {Null}, len : Nat]
    <2>1. l \in [head : Nodes \cup {Null}, tail : Nodes \cup {Null}, len : Nat]
      BY <1>3 DEF l
    <2>2. QED BY <1>1, <2>1, PushedType
  <1>7. /\ list' \in [Algos -> [head : Nodes \cup {Null}, tail : Nodes \cup {Null}, len : Nat]]
        /\ list'[a] = PushedList(l, x) /\ list'[Other(a)] = list[Other(a)]
    BY <1>3, <1>4, <1>6, AlgoFacts
  <1>8. Linked(list'[Other(a)], next', prev', d)
    <2>1. \A y \in Elems(d) : y \in Nodes /\ y # x /\ y \notin Elems(c)
      <3>1. \A i \in 1 .. Len(d) : d[i] \in Nodes
        BY <1>2, LinkedFacts
      <3>2. \A y \in Elems(d) : y \in Nodes
        BY <3>1 DEF Elems
      <3>3. QED BY <1>1, <1>2, <1>3, <3>2
    <2>2. \A y \in Elems(d) : next'[y] = next[y] /\ prev'[y] = prev[y]
      BY <1>5, <2>1
    <2>3. QED BY <1>2, <1>7, <2>2, LinkedApart
  <1>9. Linked(list'[a], next', prev', Append(c, x))
    BY <1>4, <1>5, <1>7
  <1>10. used' = Elems(Append(c, x)) \cup Elems(d) /\ Elems(Append(c, x)) \cap Elems(d) = {}
    BY <1>1, <1>2, <1>3, <1>5
  <1>11. ListsOK' /\ Chain(a)' = Append(c, x) /\ Chain(Other(a))' = d
    BY <1>5, <1>7, <1>8, <1>9, <1>10, ListsNext
  <1>12. QED BY <1>1, <1>11 DEF c, d

LEMMA CutLists ==
  ASSUME ListsOK, NEW a \in Algos, NEW k \in 1 .. Len(Chain(a)), ListRemove(a, Chain(a)[k])
  PROVE  /\ ListsOK' /\ used' = used \ {Chain(a)[k]} /\ val' = val
         /\ Chain(a)' = Cut(Chain(a), k) /\ Chain(Other(a))' = Chain(Other(a))
         /\ Elems(Cut(Chain(a), k)) = Elems(Chain(a)) \ {Chain(a)[k]}
  <1> DEFINE c == Chain(a)
             d == Chain(Other(a))
             l == list[a]
             x == Chain(a)[k]
  <1>1. used' = used \ {x} /\ val' = val
    BY DEF ListRemove
  <1>2. /\ Linked(l, next, prev, c) /\ Linked(list[Other(a)], next, prev, d)
        /\ Elems(c) \subseteq used /\ Elems(d) \subseteq used /\ x \in Elems(c) /\ x \in Nodes
        /\ l.len = Len(c) /\ Len(c) \in Nat
    BY AlgoFacts, ChainFacts
  <1>3. next \in Links /\ prev \in Links /\ used = Elems(c) \cup Elems(d) /\ Elems(c) \cap Elems(d) = {}
        /\ list \in [Algos -> [head : Nodes \cup {Null}, tail : Nodes \cup {Null}, len : Nat]]
    <2>1. (a = "BTC" /\ Other(a) = "LTC") \/ (a = "LTC" /\ Other(a) = "BTC")
      BY AlgoFacts DEF Algos
    <2>2. QED BY <2>1 DEF ListsOK, Links
  <1>4. /\ list' = [list EXCEPT ![a] = CutList(l, next, prev, x)]
        /\ next' = CutNext(next, prev, x) /\ prev' = CutPrev(next, prev, x)
    <2>1. l \in [head : Nodes \cup {Null}, tail : Nodes \cup {Null}, len : Nat]
      BY <1>3
    <2>2. next' = CutNext(next, prev, x) /\ prev' = CutPrev(next, prev, x)
      BY DEF ListRemove, CutNext, CutPrev
    <2>3. list' = [list EXCEPT ![a].head = IF prev[x] = Null THEN next[x] ELSE @,
                               ![a].tail = IF next[x] = Null THEN prev[x] ELSE @,
                               ![a].len = @ - 1]
      BY DEF ListRemove
    <2> HIDE DEF x
    <2>4. list' = [list EXCEPT ![a] = CutList(l, next, prev, x)]
      BY <1>3, <2>1, <2>3 DEF CutList
    <2>5. QED BY <2>2, <2>4
  <1>5. /\ Linked(CutList(l, next, prev, x), next', prev', Cut(c, k))
        /\ next' \in Links /\ prev' \in Links
        /\ \A y \in Nodes : y \notin Elems(c) => next'[y] = next[y] /\ prev'[y] = prev[y]
        /\ Elems(Cut(c, k)) = Elems(c) \ {x}
    <2>1. k \in 1 .. Len(c) /\ Linked(l, next, prev, c) /\ next \in Links /\ prev \in Links /\ x = c[k]
      BY <1>2, <1>3
    <2> HIDE DEF c, d, l, x
    <2>2. CutFits(l, next, prev, c, k)
      BY ONLY <2>1, RemoveLinks
    <2>3. QED BY ONLY <1>4, <2>1, <2>2 DEF CutFits
  <1>6. CutList(l, next, prev, x) \in [head : Nodes \cup {Null}, tail : Nodes \cup {Null}, len : Nat]
    <2>1. l \in [head : Nodes \cup {Null}, tail : Nodes \cup {Null}, len : Nat] /\ l.len - 1 \in Nat
      BY <1>2, <1>3
    <2>2. next[x] \in Nodes \cup {Null} /\ prev[x] \in Nodes \cup {Null}
      BY <1>2, <1>3 DEF Links
    <2> HIDE DEF x, l
    <2>3. QED BY <2>1, <2>2, CutType
  <1>7. /\ list' \in [Algos -> [head : Nodes \cup {Null}, tail : Nodes \cup {Null}, len : Nat]]
        /\ list'[a] = CutList(l, next, prev, x) /\ list'[Other(a)] = list[Other(a)]
    <2> HIDE DEF l, x
    <2>1. QED BY <1>3, <1>4, <1>6, AlgoFacts
  <1>8. Linked(list'[Other(a)], next', prev', d)
    <2> HIDE DEF l, x, c, d
    <2>1. \A y \in Elems(d) : y \in Nodes /\ y \notin Elems(c)
      <3>1. \A i \in 1 .. Len(d) : d[i] \in Nodes
        BY <1>2, LinkedFacts
      <3>2. \A y \in Elems(d) : y \in Nodes
        BY <3>1 DEF Elems
      <3>3. QED BY <1>3, <3>2
    <2>2. \A y \in Elems(d) : next'[y] = next[y] /\ prev'[y] = prev[y]
      BY <1>5, <2>1
    <2>3. QED BY <1>2, <1>7, <2>2, LinkedApart
  <1>9. Linked(list'[a], next', prev', Cut(c, k))
    BY <1>5, <1>7
  <1>10. used' = Elems(Cut(c, k)) \cup Elems(d) /\ Elems(Cut(c, k)) \cap Elems(d) = {}
    BY <1>1, <1>2, <1>3, <1>5
  <1>11. ListsOK' /\ Chain(a)' = Cut(c, k) /\ Chain(Other(a))' = d
    <2> HIDE DEF l, x, c, d
    <2>1. QED BY <1>5, <1>7, <1>8, <1>9, <1>10, ListsNext
  <1>12. QED BY <1>1, <1>5, <1>11

-----------------------------------------------------------------------------
(* The ids of a command that are found in a list                           *)

\* g takes the elements of s where P holds, in their order.
IsLook(g, s, P) ==
    g = [n \in 0 .. Len(s) |->
            IF n = 0 THEN <<>> ELSE IF P[n] THEN Append(g[n - 1], s[n]) ELSE g[n - 1]]

LookOf(s, P) ==
    LET look[n \in 0 .. Len(s)] ==
            IF n = 0 THEN <<>> ELSE IF P[n] THEN Append(look[n - 1], s[n]) ELSE look[n - 1]
    IN  look[Len(s)]

LEMMA LookAt ==
  ASSUME NEW s, Len(s) \in Nat, NEW P, NEW g, IsLook(g, s, P)
  PROVE  /\ g[0] = <<>>
         /\ \A n \in 1 .. Len(s) : g[n] = IF P[n] THEN Append(g[n - 1], s[n]) ELSE g[n - 1]
  <1>1. \A n \in 0 .. Len(s) :
          g[n] = IF n = 0 THEN <<>> ELSE IF P[n] THEN Append(g[n - 1], s[n]) ELSE g[n - 1]
    BY DEF IsLook
  <1>2. 0 \in 0 .. Len(s) /\ \A n \in 1 .. Len(s) : n \in 0 .. Len(s) /\ n # 0
    OBVIOUS
  <1>3. QED BY <1>1, <1>2

LEMMA LookAgree ==
  ASSUME NEW s, Len(s) \in Nat, NEW P, NEW g, IsLook(g, s, P),
         NEW t, Len(t) \in Nat, NEW Q, NEW h, IsLook(h, t, Q),
         Len(s) <= Len(t),
         \A n \in 1 .. Len(s) : s[n] = t[n] /\ (P[n] <=> Q[n])
  PROVE  \A n \in 0 .. Len(s) : g[n] = h[n]
  <1> DEFINE S == {n \in Nat : n <= Len(s) => g[n] = h[n]}
  <1>1. /\ g[0] = <<>> /\ h[0] = <<>>
        /\ \A n \in 1 .. Len(s) : g[n] = IF P[n] THEN Append(g[n - 1], s[n]) ELSE g[n - 1]
        /\ \A n \in 1 .. Len(t) : h[n] = IF Q[n] THEN Append(h[n - 1], t[n]) ELSE h[n - 1]
    BY LookAt
  <1>2. 0 \in S
    BY <1>1
  <1>3. ASSUME NEW n \in S PROVE n + 1 \in S
    <2>1. CASE n + 1 <= Len(s)
      <3>1. n + 1 \in 1 .. Len(s) /\ n + 1 \in 1 .. Len(t) /\ (n + 1) - 1 = n /\ g[n] = h[n] /\ n + 1 \in Nat
        BY <2>1
      <3>2. g[n + 1] = h[n + 1]
        BY <1>1, <3>1
      <3>3. QED BY <3>1, <3>2
    <2>2. QED BY <2>1
  <1>4. S = Nat
    BY <1>2, <1>3, Induct
  <1>5. \A n \in 0 .. Len(s) : n \in S /\ n <= Len(s)
    BY <1>4
  <1>6. QED BY <1>5

LEMMA LookExists ==
  ASSUME NEW s, Len(s) \in Nat, NEW P
  PROVE  \E g : IsLook(g, s, P)
  <1> DEFINE Upto(g, m) == g = [n \in 0 .. m |-> IF n = 0 THEN <<>>
                                   ELSE IF P[n] THEN Append(g[n - 1], s[n]) ELSE g[n - 1]]
             S == {m \in Nat : \E g : Upto(g, m)}
  <1>1. 0 \in S
    <2>1. Upto([n \in 0 .. 0 |-> <<>>], 0)
      OBVIOUS
    <2> HIDE DEF Upto
    <2>2. QED BY <2>1
  <1>2. ASSUME NEW m \in S PROVE m + 1 \in S
    <2>1. PICK g : Upto(g, m)
      OBVIOUS
    <2> DEFINE e == IF P[m + 1] THEN Append(g[m], s[m + 1]) ELSE g[m]
               h == [n \in 0 .. m + 1 |-> IF n = m + 1 THEN e ELSE g[n]]
    <2>2. m \in Nat /\ m + 1 # 0 /\ (m + 1) - 1 = m /\ m # m + 1
      OBVIOUS
    <2>3. \A n \in 0 .. m : g[n] = IF n = 0 THEN <<>> ELSE IF P[n] THEN Append(g[n - 1], s[n]) ELSE g[n - 1]
      BY <2>1
    <2>4. h[m + 1] = e /\ \A n \in 0 .. m : h[n] = g[n]
      BY <2>2
    <2>5. ASSUME NEW n \in 0 .. m + 1
          PROVE  h[n] = IF n = 0 THEN <<>> ELSE IF P[n] THEN Append(h[n - 1], s[n]) ELSE h[n - 1]
      <3>1. CASE n = m + 1
        <4>1. h[n - 1] = g[m] /\ n - 1 = m /\ n # 0
          BY <2>2, <2>4, <3>1
        <4> HIDE DEF h
        <4>2. QED BY <2>4, <3>1, <4>1
      <3>2. CASE n # m + 1
        <4>1. n \in 0 .. m /\ (n # 0 => n - 1 \in 0 .. m)
          BY <2>2, <3>2
        <4>2. h[n] = g[n] /\ (n # 0 => h[n - 1] = g[n - 1])
          BY <2>4, <4>1
        <4> HIDE DEF h
        <4>3. QED BY <2>3, <4>1, <4>2
      <3>3. QED BY <3>1, <3>2
    <2>6. Upto(h, m + 1)
      <3>1. h = [n \in 0 .. m + 1 |-> h[n]]
        OBVIOUS
      <3> HIDE DEF h
      <3>2. QED BY <2>5, <3>1
    <2> HIDE DEF Upto, h
    <2>7. QED BY <2>2, <2>6
  <1>3. S = Nat
    <2> HIDE DEF Upto
    <2>1. QED BY <1>1, <1>2, Induct
  <1>4. PICK g : Upto(g, Len(s))
    <2> HIDE DEF Upto
    <2>1. QED BY <1>3
  <1>5. IsLook(g, s, P)
    BY <1>4 DEF IsLook
  <1>6. QED BY <1>5

LEMMA LookIs ==
  ASSUME NEW s, Len(s) \in Nat, NEW P, NEW g, IsLook(g, s, P)
  PROVE  LookOf(s, P) = g[Len(s)]
  <1> DEFINE Rec(h) == [n \in 0 .. Len(s) |->
                  IF n = 0 THEN <<>> ELSE IF P[n] THEN Append(h[n - 1], s[n]) ELSE h[n - 1]]
             look == CHOOSE h : h = Rec(h)
  <1>1. LookOf(s, P) = look[Len(s)]
    BY DEF LookOf
  <1>2. g = Rec(g)
    BY DEF IsLook
  <1>3. look = Rec(look)
    <2> HIDE DEF Rec
    <2>1. QED BY <1>2
  <1>4. IsLook(look, s, P)
    <2> HIDE DEF look
    <2>1. QED BY <1>3 DEF IsLook
  <1> HIDE DEF look
  <1>5. \A n \in 0 .. Len(s) : look[n] = g[n]
    <2>1. Len(s) <= Len(s)
      OBVIOUS
    <2>2. QED BY <1>4, <2>1, LookAgree
  <1>6. Len(s) \in 0 .. Len(s)
    OBVIOUS
  <1>7. QED BY <1>1, <1>5, <1>6

LEMMA LookNone ==
  ASSUME NEW P PROVE LookOf(<<>>, P) = <<>>
  <1>1. PICK g : IsLook(g, <<>>, P)
    BY LookExists
  <1>2. Len(<<>>) = 0 /\ Len(<<>>) \in Nat
    OBVIOUS
  <1>3. g[0] = <<>>
    BY <1>1, <1>2, LookAt
  <1>4. LookOf(<<>>, P) = g[Len(<<>>)]
    BY <1>1, <1>2, LookIs
  <1>5. QED BY <1>2, <1>3, <1>4

SameUpTo(P, Q, m) == \A n \in 1 .. m : P[n] <=> Q[n]

LooksOn(s, e, P, Q) ==
    LookOf(Append(s, e), Q) = IF Q[Len(s) + 1] THEN Append(LookOf(s, P), e) ELSE LookOf(s, P)

LEMMA LookAppend ==
  ASSUME NEW T, NEW s \in Seq(T), NEW e \in T, NEW P, NEW Q, SameUpTo(P, Q, Len(s))
  PROVE  LooksOn(s, e, P, Q)
  <1> DEFINE t == Append(s, e)
  <1>1. /\ Len(s) \in Nat /\ Len(t) \in Nat /\ Len(t) = Len(s) + 1 /\ t[Len(s) + 1] = e
        /\ \A n \in 1 .. Len(s) : t[n] = s[n]
    OBVIOUS
  <1> HIDE DEF t
  <1>2. PICK g : IsLook(g, s, P)
    BY <1>1, LookExists
  <1>3. PICK h : IsLook(h, t, Q)
    BY <1>1, LookExists
  <1>4. \A n \in 0 .. Len(s) : g[n] = h[n]
    <2>1. Len(s) <= Len(t) /\ \A n \in 1 .. Len(s) : s[n] = t[n] /\ (P[n] <=> Q[n])
      BY <1>1 DEF SameUpTo
    <2>2. QED BY <1>1, <1>2, <1>3, <2>1, LookAgree
  <1>5. LookOf(s, P) = g[Len(s)] /\ LookOf(t, Q) = h[Len(t)]
    BY <1>1, <1>2, <1>3, LookIs
  <1>6. Len(s) \in 0 .. Len(s) /\ Len(s) + 1 \in 1 .. Len(t) /\ (Len(s) + 1) - 1 = Len(s)
    BY <1>1
  <1>7. h[Len(s) + 1] = IF Q[Len(s) + 1] THEN Append(h[Len(s)], e) ELSE h[Len(s)]
    <2>1. \A n \in 1 .. Len(t) : h[n] = IF Q[n] THEN Append(h[n - 1], t[n]) ELSE h[n - 1]
      BY <1>1, <1>3, LookAt
    <2>2. h[Len(s) + 1] = IF Q[Len(s) + 1] THEN Append(h[(Len(s) + 1) - 1], t[Len(s) + 1]) ELSE h[(Len(s) + 1) - 1]
      BY <1>6, <2>1
    <2>3. QED BY <1>1, <1>6, <2>2
  <1>8. QED BY <1>1, <1>4, <1>5, <1>6, <1>7 DEF LooksOn, t

InList(a) == [n \in 1 .. Len(cmd.ids) |-> ListOf(cmd.ids[n]) = a]

LEMMA LookedNow ==
  ASSUME NEW a, Len(cmd.ids) \in Nat
  PROVE  Looked(a) = LookOf(cmd.ids, InList(a))
  <1> DEFINE s == cmd.ids
             Rec(h) == [n \in 0 .. Len(s) |->
                  IF n = 0 THEN <<>> ELSE IF ListOf(s[n]) = a THEN Append(h[n - 1], s[n]) ELSE h[n - 1]]
             look == CHOOSE h : h = Rec(h)
  <1>1. Looked(a) = look[Len(s)]
    BY DEF Looked
  <1>2. ASSUME NEW h PROVE IsLook(h, s, InList(a)) <=> h = Rec(h)
    <2>1. \A n \in 0 .. Len(s) : n # 0 => n \in 1 .. Len(s)
      OBVIOUS
    <2>2. \A n \in 0 .. Len(s) : n # 0 => InList(a)[n] = (ListOf(s[n]) = a)
      BY <2>1 DEF InList
    <2>3. [n \in 0 .. Len(s) |-> IF n = 0 THEN <<>> ELSE IF InList(a)[n] THEN Append(h[n - 1], s[n]) ELSE h[n - 1]]
            = Rec(h)
      BY <2>2
    <2> HIDE DEF Rec
    <2>4. QED BY <2>3 DEF IsLook
  <1>3. look = Rec(look)
    <2>1. PICK h : IsLook(h, s, InList(a))
      BY LookExists
    <2> HIDE DEF Rec
    <2>2. QED BY <1>2, <2>1
  <1> HIDE DEF look, Rec
  <1>4. IsLook(look, s, InList(a))
    BY <1>2, <1>3
  <1>5. QED BY <1>1, <1>4, LookIs

LEMMA LookedThen ==
  ASSUME NEW a, Len(cmd'.ids) \in Nat
  PROVE  Looked(a)' = LookOf(cmd'.ids, InList(a)')
  <1> DEFINE s == cmd'.ids
             Rec(h) == [n \in 0 .. Len(s) |->
                  IF n = 0 THEN <<>> ELSE IF ListOf(cmd.ids[n])' = a THEN Append(h[n - 1], s[n]) ELSE h[n - 1]]
             look == CHOOSE h : h = Rec(h)
  <1>1. Looked(a)' = look[Len(s)]
    BY DEF Looked
  <1>2. ASSUME NEW h PROVE IsLook(h, s, InList(a)') <=> h = Rec(h)
    <2>1. \A n \in 0 .. Len(s) : n # 0 => n \in 1 .. Len(s)
      OBVIOUS
    <2>2. \A n \in 0 .. Len(s) : n # 0 => InList(a)'[n] = (ListOf(cmd.ids[n])' = a)
      BY <2>1 DEF InList
    <2>3. [n \in 0 .. Len(s) |-> IF n = 0 THEN <<>> ELSE IF InList(a)'[n] THEN Append(h[n - 1], s[n]) ELSE h[n - 1]]
            = Rec(h)
      BY <2>2
    <2> HIDE DEF Rec
    <2>4. QED BY <2>3 DEF IsLook
  <1>3. look = Rec(look)
    <2>1. PICK h : IsLook(h, s, InList(a)')
      BY LookExists
    <2> HIDE DEF Rec
    <2>2. QED BY <1>2, <2>1
  <1> HIDE DEF look, Rec
  <1>4. IsLook(look, s, InList(a)')
    BY <1>2, <1>3
  <1>5. QED BY <1>1, <1>4, LookIs

-----------------------------------------------------------------------------
(* Where an id is found *)

LEMMA FoundIs ==
  ASSUME ListsOK, NEW a \in Algos, NEW id
  PROVE  Found(a, id) = {x \in Elems(Chain(a)) : val[x].id = id}
  BY ChainFacts DEF Found, Elems

\* No node is in both lists.
LEMMA Disjoint ==
  ASSUME ListsOK, NEW a \in Algos
  PROVE  Elems(Chain(a)) \cap Elems(Chain(Other(a))) = {} /\ used = Elems(Chain(a)) \cup Elems(Chain(Other(a)))
  <1>1. (a = "BTC" /\ Other(a) = "LTC") \/ (a = "LTC" /\ Other(a) = "BTC")
    BY AlgoFacts DEF Algos
  <1>2. QED BY <1>1 DEF ListsOK

LEMMA ListOfIs ==
  ASSUME ListsOK, IdsOK, NEW a \in Algos, NEW id
  PROVE  ListOf(id) = a <=> \E x \in Elems(Chain(a)) : val[x].id = id
  <1>1. "BTC" \in Algos /\ "LTC" \in Algos
    BY DEF Algos
  <1>2. \A b \in Algos : Found(b, id) = {x \in Elems(Chain(b)) : val[x].id = id}
    BY FoundIs
  <1>3. ~(Found("BTC", id) # {} /\ Found("LTC", id) # {})
    <2> SUFFICES ASSUME NEW x \in Found("BTC", id), NEW y \in Found("LTC", id) PROVE FALSE
      OBVIOUS
    <2>1. x \in Elems(Chain("BTC")) /\ y \in Elems(Chain("LTC")) /\ val[x].id = val[y].id
      BY <1>1, <1>2
    <2>2. x \in used /\ y \in used /\ x # y
      BY <2>1 DEF ListsOK
    <2>3. QED BY <2>1, <2>2 DEF IdsOK
  <1>4. ListOf(id) = a <=> Found(a, id) # {}
    BY <1>3 DEF ListOf, Algos
  <1>5. QED BY <1>2, <1>4

\* The lists as sequences of pools
LEMMA PoolsFacts ==
  ASSUME ListsOK, IdsOK, NEW a \in Algos
  PROVE  /\ Pools(a) \in Seq(Pool) /\ Len(Pools(a)) = Len(Chain(a)) /\ DOMAIN Pools(a) = 1 .. Len(Chain(a))
         /\ \A i \in 1 .. Len(Chain(a)) : Pools(a)[i] = val[Chain(a)[i]]
  <1>1. /\ Len(Chain(a)) \in Nat /\ DOMAIN Chain(a) = 1 .. Len(Chain(a))
        /\ \A i \in 1 .. Len(Chain(a)) : Chain(a)[i] \in Nodes
    BY ChainFacts
  <1>2. Pools(a) = [i \in 1 .. Len(Chain(a)) |-> val[Chain(a)[i]]]
    BY <1>1 DEF Pools
  <1>3. \A i \in 1 .. Len(Chain(a)) : val[Chain(a)[i]] \in Pool
    BY <1>1 DEF IdsOK
  <1>4. QED BY <1>1, <1>2, <1>3

-----------------------------------------------------------------------------
(* CmdOK *)

LEMMA InitCmd == ListInit => CmdOK
  BY DEF ListInit, CmdOK

Cmd(p, k, l, a, m, s, g) ==
    [at |-> p, k |-> k, last |-> l, algo |-> a, named |-> m, ids |-> s, given |-> g]

\* What CmdOK says of the fields
CmdFits(p, k, l, a, m, s, g) ==
    /\ p \in {"item", "delete", "add", "put"} /\ k \in 1 .. MaxItems + 1 /\ l \in 0 .. MaxItems
    /\ a \in Algos /\ m \in BOOLEAN /\ s \in Seq(1 .. MaxItems) /\ g \in [Algos -> Seq(Pool)]
    /\ l = IF p = "item" THEN k - 1 ELSE k
    /\ \A n \in DOMAIN s : s[n] < k
    /\ k = 1 => s = <<>> /\ g = NoPools /\ ~m
    /\ p = "delete" => k = 1

LEMMA CmdTake ==
  ASSUME CmdOK, cmd # Idle
  PROVE  /\ cmd = Cmd(cmd.at, cmd.k, cmd.last, cmd.algo, cmd.named, cmd.ids, cmd.given)
         /\ CmdFits(cmd.at, cmd.k, cmd.last, cmd.algo, cmd.named, cmd.ids, cmd.given)
  <1>1. cmd \in Places
    BY DEF CmdOK
  <1>2. cmd = Cmd(cmd.at, cmd.k, cmd.last, cmd.algo, cmd.named, cmd.ids, cmd.given)
    BY <1>1 DEF Places, Cmd
  <1>3. /\ cmd.at \in {"item", "delete", "add", "put"} /\ cmd.k \in 1 .. MaxItems + 1 /\ cmd.last \in 0 .. MaxItems
        /\ cmd.algo \in Algos /\ cmd.named \in BOOLEAN /\ cmd.ids \in Seq(1 .. MaxItems)
        /\ cmd.given \in [Algos -> Seq(Pool)]
    BY <1>1 DEF Places
  <1>4. /\ cmd.last = IF cmd.at = "item" THEN cmd.k - 1 ELSE cmd.k
        /\ \A n \in DOMAIN cmd.ids : cmd.ids[n] < cmd.k
        /\ cmd.k = 1 => cmd.ids = <<>> /\ cmd.given = NoPools /\ ~cmd.named
        /\ cmd.at = "delete" => cmd.k = 1
    BY DEF CmdOK
  <1>5. QED BY <1>2, <1>3, <1>4 DEF CmdFits

LEMMA CmdMake ==
  ASSUME NEW p, NEW k, NEW l, NEW a, NEW m, NEW s, NEW g,
         CmdFits(p, k, l, a, m, s, g), cmd' = Cmd(p, k, l, a, m, s, g)
  PROVE  CmdOK'
  <1>1. cmd' \in Places
    BY DEF CmdFits, Cmd, Places
  <1>2. /\ cmd'.at = p /\ cmd'.k = k /\ cmd'.last = l /\ cmd'.algo = a /\ cmd'.named = m
        /\ cmd'.ids = s /\ cmd'.given = g
    BY DEF Cmd
  <1>3. QED BY <1>1, <1>2 DEF CmdFits, CmdOK

\* The steps of ParseSetPoolCommand as they change the fields
CmdEdited(p, k, l, a, m, s, g) ==
    /\ NextItem = Cmd("item", k + 1, l, a, m, s, g)
    /\ [NextItem EXCEPT !.last = @ + 1] = Cmd("item", k + 1, l + 1, a, m, s, g)
    /\ \A q : [cmd EXCEPT !.at = q] = Cmd(q, k, l, a, m, s, g)
    /\ \A q : [cmd EXCEPT !.at = q, !.last = @ + 1] = Cmd(q, k, l + 1, a, m, s, g)
    /\ \A q, b : [cmd EXCEPT !.at = q, !.algo = b] = Cmd(q, k, l, b, m, s, g)
    /\ [NextItem EXCEPT !.ids = Append(@, cmd.k), !.named = @ \/ cmd.k = 1,
                        !.given[cmd.algo] = Append(@, This)] =
          Cmd("item", k + 1, l, a, m \/ k = 1, Append(s, k), [g EXCEPT ![a] = Append(@, This)])

LEMMA CmdEdits ==
  ASSUME NEW p, NEW k, NEW l, NEW a, NEW m, NEW s, NEW g, cmd = Cmd(p, k, l, a, m, s, g)
  PROVE  CmdEdited(p, k, l, a, m, s, g)
  <1>1. cmd.k = k /\ cmd.last = l /\ cmd.algo = a
    BY DEF Cmd
  <1>2. ASSUME NEW q PROVE [cmd EXCEPT !.at = q] = Cmd(q, k, l, a, m, s, g)
    BY DEF Cmd
  <1>3. NextItem = Cmd("item", k + 1, l, a, m, s, g)
    <2> DEFINE c == [cmd EXCEPT !.at = "item"]
    <2>1. c = Cmd("item", k, l, a, m, s, g)
      BY <1>2
    <2>2. NextItem = [c EXCEPT !.k = k + 1]
      BY <1>1 DEF NextItem
    <2> HIDE DEF c
    <2>3. QED BY <2>1, <2>2 DEF Cmd
  <1>4. [NextItem EXCEPT !.last = @ + 1] = Cmd("item", k + 1, l + 1, a, m, s, g)
    <2> HIDE DEF NextItem
    <2>1. QED BY <1>3 DEF Cmd
  <1>5. ASSUME NEW q PROVE [cmd EXCEPT !.at = q, !.last = @ + 1] = Cmd(q, k, l + 1, a, m, s, g)
    <2> DEFINE c == [cmd EXCEPT !.at = q]
    <2>1. c = Cmd(q, k, l, a, m, s, g)
      BY <1>2
    <2>2. [cmd EXCEPT !.at = q, !.last = @ + 1] = [c EXCEPT !.last = l + 1]
      BY <1>1
    <2> HIDE DEF c
    <2>3. [c EXCEPT !.last = l + 1] = Cmd(q, k, l + 1, a, m, s, g)
      BY <2>1 DEF Cmd
    <2>4. QED BY <2>2, <2>3
  <1>6. ASSUME NEW q, NEW b PROVE [cmd EXCEPT !.at = q, !.algo = b] = Cmd(q, k, l, b, m, s, g)
    <2> DEFINE c == [cmd EXCEPT !.at = q]
    <2>1. c = Cmd(q, k, l, a, m, s, g)
      BY <1>2
    <2>2. [cmd EXCEPT !.at = q, !.algo = b] = [c EXCEPT !.algo = b]
      OBVIOUS
    <2> HIDE DEF c
    <2>3. [c EXCEPT !.algo = b] = Cmd(q, k, l, b, m, s, g)
      BY <2>1 DEF Cmd
    <2>4. QED BY <2>2, <2>3
  <1>7. [NextItem EXCEPT !.ids = Append(@, cmd.k), !.named = @ \/ cmd.k = 1,
                         !.given[cmd.algo] = Append(@, This)] =
          Cmd("item", k + 1, l, a, m \/ k = 1, Append(s, k), [g EXCEPT ![a] = Append(@, This)])
    <2>1. PICK v, w, h : v = Append(s, k) /\ w = (m \/ k = 1) /\ h = [g EXCEPT ![a] = Append(@, This)]
      OBVIOUS
    <2> DEFINE n == NextItem
               c == [n EXCEPT !.ids = v]
               d == [c EXCEPT !.named = w]
    <2>2. n = Cmd("item", k + 1, l, a, m, s, g) /\ n.ids = s /\ n.named = m /\ n.given = g
      BY <1>3 DEF Cmd
    <2> HIDE DEF n
    <2>3. c = Cmd("item", k + 1, l, a, m, v, g)
      BY ONLY <2>2 DEF Cmd
    <2>4. c.named = m /\ c.given = g
      BY <2>3 DEF Cmd
    <2> HIDE DEF c
    <2>5. d = Cmd("item", k + 1, l, a, w, v, g)
      BY ONLY <2>3 DEF Cmd
    <2>6. d.given = g
      BY <2>5 DEF Cmd
    <2> HIDE DEF d
    <2>7. [d EXCEPT !.given = h] = Cmd("item", k + 1, l, a, w, v, h)
      BY ONLY <2>5 DEF Cmd
    <2>8. [NextItem EXCEPT !.ids = Append(@, cmd.k), !.named = @ \/ cmd.k = 1,
                           !.given[cmd.algo] = Append(@, This)] = [d EXCEPT !.given = h]
      BY <1>1, <2>1, <2>2, <2>4, <2>6 DEF n, c, d
    <2>9. QED BY <2>1, <2>7, <2>8
  <1>8. QED BY <1>2, <1>3, <1>4, <1>5, <1>6, <1>7 DEF CmdEdited

LEMMA ThisIs == This = [id |-> cmd.last, now |-> TRUE]
  BY DEF This

\* The next place of a command, field by field, for every action
CmdMoved(p, k, l, a, m, s, g) ==
    /\ ItemBroken => p = "item" /\ k <= MaxItems /\ cmd' = Cmd("item", k + 1, l + 1, a, m, s, g)
    /\ ItemRead => p = "item" /\ k <= MaxItems
                     /\ cmd' = Cmd(IF k = 1 THEN "delete" ELSE "add", k, l + 1, a, m, s, g)
    /\ DeleteFirst => p = "delete" /\ cmd' = cmd
    /\ Deleted => p = "delete" /\ cmd' = Cmd("add", k, l, a, m, s, g)
    /\ AddRefused => p = "add" /\ cmd' = Cmd("item", k + 1, l, a, m, s, g)
    /\ \A b : AddUnlinks(b) => p = "add" /\ cmd' = Cmd("put", k, l, b, m, s, g)
    /\ AddPuts => p = "put" /\ cmd' = Cmd("item", k + 1, l, a, m \/ k = 1, Append(s, k),
                                          [g EXCEPT ![a] = Append(@, This)])
    /\ ~Begin

LEMMA CmdMoves ==
  ASSUME CmdOK, cmd # Idle, NEW p, NEW k, NEW l, NEW a, NEW m, NEW s, NEW g,
         cmd = Cmd(p, k, l, a, m, s, g), CmdFits(p, k, l, a, m, s, g)
  PROVE  CmdMoved(p, k, l, a, m, s, g)
  <1>1. cmd.at = p /\ cmd.k = k
    BY DEF Cmd
  <1>2. /\ NextItem = Cmd("item", k + 1, l, a, m, s, g)
        /\ [NextItem EXCEPT !.last = @ + 1] = Cmd("item", k + 1, l + 1, a, m, s, g)
        /\ \A q : [cmd EXCEPT !.at = q] = Cmd(q, k, l, a, m, s, g)
        /\ \A q : [cmd EXCEPT !.at = q, !.last = @ + 1] = Cmd(q, k, l + 1, a, m, s, g)
        /\ \A q, b : [cmd EXCEPT !.at = q, !.algo = b] = Cmd(q, k, l, b, m, s, g)
        /\ [NextItem EXCEPT !.ids = Append(@, cmd.k), !.named = @ \/ cmd.k = 1,
                            !.given[cmd.algo] = Append(@, This)] =
              Cmd("item", k + 1, l, a, m \/ k = 1, Append(s, k), [g EXCEPT ![a] = Append(@, This)])
    <2>1. CmdEdited(p, k, l, a, m, s, g)
      BY CmdEdits
    <2>2. QED BY <2>1 DEF CmdEdited
  <1>3. ItemBroken => p = "item" /\ k <= MaxItems /\ cmd' = Cmd("item", k + 1, l + 1, a, m, s, g)
    BY <1>1, <1>2 DEF ItemBroken, HasItem
  <1>4. ItemRead => p = "item" /\ k <= MaxItems
                      /\ cmd' = Cmd(IF k = 1 THEN "delete" ELSE "add", k, l + 1, a, m, s, g)
    BY <1>1, <1>2 DEF ItemRead, HasItem
  <1>5. DeleteFirst => p = "delete" /\ cmd' = cmd
    BY <1>1 DEF DeleteFirst
  <1>6. Deleted => p = "delete" /\ cmd' = Cmd("add", k, l, a, m, s, g)
    BY <1>1, <1>2 DEF Deleted
  <1>7. AddRefused => p = "add" /\ cmd' = Cmd("item", k + 1, l, a, m, s, g)
    BY <1>1, <1>2 DEF AddRefused
  <1>8. \A b : AddUnlinks(b) => p = "add" /\ cmd' = Cmd("put", k, l, b, m, s, g)
    BY <1>1, <1>2 DEF AddUnlinks
  <1>9. AddPuts => p = "put" /\ cmd' = Cmd("item", k + 1, l, a, m \/ k = 1, Append(s, k),
                                           [g EXCEPT ![a] = Append(@, This)])
    BY <1>1, <1>2 DEF AddPuts
  <1>10. ~Begin
    BY DEF Begin
  <1>11. QED BY <1>3, <1>4, <1>5, <1>6, <1>7, <1>8, <1>9, <1>10 DEF CmdMoved

LEMMA ThisIsPool ==
  ASSUME CmdOK, cmd # Idle
  PROVE  This \in Pool /\ This.id = cmd.last /\ cmd.last \in Nat
  <1>1. cmd.last \in 0 .. MaxItems
    BY CmdTake DEF CmdFits
  <1>2. QED BY <1>1, ItemsAssumption DEF This, Pool

LEMMA StepCmd ==
  ASSUME CmdOK, [ListNext]_listVars
  PROVE  CmdOK'
  <1> USE ItemsAssumption
  <1>1. CASE Begin
    <2>1. cmd' = Cmd("item", 1, 0, "BTC", FALSE, <<>>, NoPools)
      BY <1>1 DEF Begin, Cmd
    <2>2. NoPools \in [Algos -> Seq(Pool)] /\ <<>> \in Seq(1 .. MaxItems) /\ 1 \in 1 .. MaxItems + 1 /\ 0 \in 0 .. MaxItems
      BY DEF NoPools
    <2>3. CmdFits("item", 1, 0, "BTC", FALSE, <<>>, NoPools)
      BY <2>2 DEF CmdFits, Algos
    <2>4. QED BY <2>1, <2>3, CmdMake
  <1>2. CASE cmd' = Idle
    BY <1>2 DEF CmdOK
  <1>3. CASE UNCHANGED cmd
    BY <1>3 DEF CmdOK
  <1>4. CASE ItemBroken \/ ItemRead \/ Deleted \/ AddRefused \/ (\E b \in Algos : AddUnlinks(b)) \/ AddPuts
    <2>1. cmd # Idle
      <3>1. cmd.at \in {"item", "delete", "add", "put"}
        BY <1>4 DEF ItemBroken, ItemRead, HasItem, Deleted, AddRefused, AddUnlinks, AddPuts
      <3>2. QED BY <3>1 DEF Idle
    <2>2. PICK p, k, l, a, m, s, g : cmd = Cmd(p, k, l, a, m, s, g) /\ CmdFits(p, k, l, a, m, s, g)
      BY <2>1, CmdTake
    <2>01. CmdMoved(p, k, l, a, m, s, g)
      BY <2>1, <2>2, CmdMoves
    <2> DEFINE This0 == This
    <2>3. This0 \in Pool
      BY <2>1, ThisIsPool
    <2>4. /\ p \in {"item", "delete", "add", "put"} /\ k \in 1 .. MaxItems + 1 /\ l \in 0 .. MaxItems
          /\ a \in Algos /\ m \in BOOLEAN /\ s \in Seq(1 .. MaxItems) /\ g \in [Algos -> Seq(Pool)]
      BY <2>2 DEF CmdFits
    <2>5. l = IF p = "item" THEN k - 1 ELSE k
      BY <2>2 DEF CmdFits
    <2>6. /\ \A n \in DOMAIN s : s[n] < k
          /\ k = 1 => s = <<>> /\ g = NoPools /\ ~m
          /\ p = "delete" => k = 1
      BY <2>2 DEF CmdFits
    <2>7. \A n \in DOMAIN s : s[n] \in Nat
      BY <2>4
    <2> HIDE DEF This0
    <2>8. \A n \in DOMAIN s : s[n] < k + 1
      BY <2>4, <2>6, <2>7
    <2>9. k + 1 # 1
      BY <2>4
    <2>10. CASE ItemBroken
      <3>1. p = "item" /\ k <= MaxItems /\ cmd' = Cmd("item", k + 1, l + 1, a, m, s, g)
        BY <2>01, <2>10 DEF CmdMoved
      <3>2. k + 1 \in 1 .. MaxItems + 1 /\ l + 1 = (k + 1) - 1 /\ l + 1 \in 0 .. MaxItems
        BY <2>4, <2>5, <3>1
      <3>3. CmdFits("item", k + 1, l + 1, a, m, s, g)
        BY <2>4, <2>8, <2>9, <3>2 DEF CmdFits
      <3>4. QED BY <3>1, <3>3, CmdMake
    <2>11. CASE ItemRead
      <3>1. p = "item" /\ k <= MaxItems /\ cmd' = Cmd(IF k = 1 THEN "delete" ELSE "add", k, l + 1, a, m, s, g)
        BY <2>01, <2>11 DEF CmdMoved
      <3>2. l + 1 = k /\ l + 1 \in 0 .. MaxItems
        BY <2>4, <2>5, <3>1
      <3>3. CmdFits(IF k = 1 THEN "delete" ELSE "add", k, l + 1, a, m, s, g)
        BY <2>4, <2>6, <3>2 DEF CmdFits
      <3>4. QED BY <3>1, <3>3, CmdMake
    <2>12. CASE Deleted
      <3>1. p = "delete" /\ cmd' = Cmd("add", k, l, a, m, s, g)
        BY <2>01, <2>12 DEF CmdMoved
      <3>2. CmdFits("add", k, l, a, m, s, g)
        BY <2>4, <2>5, <2>6, <3>1 DEF CmdFits
      <3>3. QED BY <3>1, <3>2, CmdMake
    <2>13. CASE AddRefused
      <3>1. p = "add" /\ cmd' = Cmd("item", k + 1, l, a, m, s, g)
        BY <2>01, <2>13 DEF CmdMoved
      <3>2. k + 1 \in 1 .. MaxItems + 1 /\ l = (k + 1) - 1
        BY <2>4, <2>5, <3>1
      <3>3. CmdFits("item", k + 1, l, a, m, s, g)
        BY <2>4, <2>8, <2>9, <3>2 DEF CmdFits
      <3>4. QED BY <3>1, <3>3, CmdMake
    <2>14. ASSUME NEW b \in Algos, AddUnlinks(b) PROVE CmdOK'
      <3>1. p = "add" /\ cmd' = Cmd("put", k, l, b, m, s, g)
        BY <2>01, <2>14 DEF CmdMoved
      <3>2. CmdFits("put", k, l, b, m, s, g)
        BY <2>4, <2>5, <2>6, <3>1 DEF CmdFits
      <3>3. QED BY <3>1, <3>2, CmdMake
    <2>15. CASE AddPuts
      <3> DEFINE h == [g EXCEPT ![a] = Append(@, This0)]
                 w == (m \/ k = 1)
      <3>1. p = "put" /\ cmd' = Cmd("item", k + 1, l, a, w, Append(s, k), h)
        BY <2>01, <2>15 DEF CmdMoved, This0
      <3>2. k \in 1 .. MaxItems /\ k + 1 \in 1 .. MaxItems + 1 /\ l = (k + 1) - 1
        BY <2>4, <2>5, <3>1
      <3>3. h \in [Algos -> Seq(Pool)]
        BY <2>3, <2>4
      <3>4. Append(s, k) \in Seq(1 .. MaxItems) /\ w \in BOOLEAN
        BY <2>4, <3>2
      <3>5. \A n \in DOMAIN Append(s, k) : Append(s, k)[n] < k + 1
        <4>1. \A n \in 1 .. Len(s) + 1 : Append(s, k)[n] = IF n = Len(s) + 1 THEN k ELSE s[n]
          BY <2>4, <3>2
        <4>2. DOMAIN Append(s, k) = 1 .. Len(s) + 1 /\ Len(s) \in Nat /\ DOMAIN s = 1 .. Len(s)
          BY <2>4, <3>2
        <4>3. \A n \in 1 .. Len(s) + 1 : n # Len(s) + 1 => n \in DOMAIN s
          BY <4>2
        <4>4. k < k + 1
          BY <3>2
        <4>5. QED BY <2>8, <4>1, <4>2, <4>3, <4>4
      <3> HIDE DEF h, w
      <3>6. CmdFits("item", k + 1, l, a, w, Append(s, k), h)
        BY <2>4, <2>9, <3>2, <3>3, <3>4, <3>5 DEF CmdFits
      <3>7. QED BY <3>1, <3>6, CmdMake
    <2>16. QED BY <1>4, <2>10, <2>11, <2>12, <2>13, <2>14, <2>15
  <1>5. CASE DeleteFirst \/ EndUnnamed \/ LookUp \/ UNCHANGED listVars
    BY <1>2, <1>3, <1>5 DEF DeleteFirst, EndUnnamed, LookUp, listVars
  <1>6. QED BY <1>1, <1>4, <1>5 DEF ListNext

-----------------------------------------------------------------------------
(* ListsOK and IdsOK *)

LEMMA InitLists == ListInit => ListsOK /\ \A a \in Algos : Chain(a) = <<>>
  <1> SUFFICES ASSUME ListInit PROVE ListsOK /\ \A a \in Algos : Chain(a) = <<>>
    OBVIOUS
  <1>1. \A a \in Algos : list[a] = EmptyList
    BY DEF ListInit
  <1>2. \A a \in Algos : Linked(list[a], next, prev, <<>>)
    BY <1>1 DEF Linked, EmptyList
  <1>3. \A a \in Algos : Chain(a) = <<>>
    BY <1>2, ChainIs, ChainNow
  <1>4. "BTC" \in Algos /\ "LTC" \in Algos
    BY DEF Algos
  <1>5. Elems(<<>>) = {}
    BY DEF Elems
  <1>6. list \in [Algos -> [head : Nodes \cup {Null}, tail : Nodes \cup {Null}, len : Nat]]
    BY DEF ListInit, EmptyList
  <1>7. \A a \in Algos : Linked(list[a], next, prev, Chain(a))
    BY <1>2, <1>3
  <1>8. next \in [Nodes -> Nodes \cup {Null}] /\ prev \in [Nodes -> Nodes \cup {Null}] /\ used = {}
    BY DEF ListInit
  <1>9. QED BY <1>3, <1>4, <1>5, <1>6, <1>7, <1>8 DEF ListsOK

LEMMA RemoveFound ==
  ASSUME ListsOK, NEW a \in Algos, NEW x \in Elems(Chain(a)), ListRemove(a, x)
  PROVE  /\ ListsOK' /\ val' = val /\ used' = used \ {x} /\ Chain(Other(a))' = Chain(Other(a))
         /\ Elems(Chain(a)') = Elems(Chain(a)) \ {x}
         /\ \E k \in 1 .. Len(Chain(a)) : x = Chain(a)[k] /\ Chain(a)' = Cut(Chain(a), k)
  <1>1. PICK k \in 1 .. Len(Chain(a)) : x = Chain(a)[k]
    BY DEF Elems
  <1>2. ListRemove(a, Chain(a)[k])
    BY <1>1
  <1>3. /\ ListsOK' /\ used' = used \ {Chain(a)[k]} /\ val' = val
        /\ Chain(a)' = Cut(Chain(a), k) /\ Chain(Other(a))' = Chain(Other(a))
        /\ Elems(Cut(Chain(a), k)) = Elems(Chain(a)) \ {Chain(a)[k]}
    BY <1>2, CutLists
  <1>4. QED BY <1>1, <1>3

\* SetDelAllPoolList takes the first node.
LEMMA DeleteIs ==
  ASSUME ListsOK, DeleteFirst
  PROVE  \E a \in Algos : /\ Len(Chain(a)) # 0 /\ Chain(a)[1] \in Elems(Chain(a))
                          /\ 1 \in 1 .. Len(Chain(a)) /\ ListRemove(a, Chain(a)[1])
  <1>1. PICK a \in Algos : list[a].len # 0 /\ ListRemove(a, list[a].head)
    BY DEF DeleteFirst
  <1>2. list[a].len = Len(Chain(a)) /\ list[a].head = (IF Len(Chain(a)) = 0 THEN Null ELSE Chain(a)[1])
        /\ Len(Chain(a)) \in Nat
    BY ChainFacts
  <1>3. Len(Chain(a)) # 0 /\ 1 \in 1 .. Len(Chain(a)) /\ list[a].head = Chain(a)[1]
    BY <1>1, <1>2
  <1>4. Chain(a)[1] \in Elems(Chain(a))
    BY <1>3 DEF Elems
  <1>5. QED BY <1>1, <1>3, <1>4

\* SetAddPoolToList removes at most one node, of the other algorithm.
LEMMA UnlinkIs ==
  ASSUME ListsOK, NEW a \in Algos, AddUnlinks(a)
  PROVE  \/ UNCHANGED mem /\ \A x \in Elems(Chain(Other(a))) : val[x].id # cmd.last
         \/ \E x \in Elems(Chain(Other(a))) : val[x].id = cmd.last /\ ListRemove(Other(a), x)
  <1>1. Found(Other(a), cmd.last) = {x \in Elems(Chain(Other(a))) : val[x].id = cmd.last}
    BY AlgoFacts, FoundIs
  <1>2. QED BY <1>1 DEF AddUnlinks, Unlink

\* SetAddPoolToList overwrites the pool or makes a node for it.
LEMMA PutIs ==
  ASSUME ListsOK, cmd.algo \in Algos, AddPuts
  PROVE  \/ /\ \A x \in Elems(Chain(cmd.algo)) : val[x].id # This.id
            /\ \E x \in Nodes : ListRpush(cmd.algo, x, This)
         \/ /\ \E x \in Elems(Chain(cmd.algo)) : val[x].id = This.id
            /\ val' = [x \in Nodes |-> IF x \in Elems(Chain(cmd.algo)) /\ val[x].id = This.id THEN This ELSE val[x]]
            /\ UNCHANGED <<next, prev, used, list>>
  <1>1. Found(cmd.algo, This.id) = {x \in Elems(Chain(cmd.algo)) : val[x].id = This.id}
    BY FoundIs
  <1>2. QED BY <1>1 DEF AddPuts, Put

LEMMA StepLists ==
  ASSUME ListsOK, CmdOK, [ListNext]_listVars
  PROVE  ListsOK'
  <1>1. CASE UNCHANGED <<next, prev, used, list>>
    BY <1>1, SameLists
  <1>2. CASE DeleteFirst
    BY <1>2, DeleteIs, RemoveFound
  <1>3. ASSUME NEW a \in Algos, AddUnlinks(a) PROVE ListsOK'
    <2>1. CASE UNCHANGED mem
      BY <1>1, <2>1 DEF mem
    <2>2. CASE \E x \in Elems(Chain(Other(a))) : ListRemove(Other(a), x)
      BY <2>2, AlgoFacts, RemoveFound
    <2>3. QED BY <1>3, <2>1, <2>2, UnlinkIs
  <1>4. CASE AddPuts
    <2>1. cmd.algo \in Algos
      <3>1. cmd # Idle
        BY <1>4 DEF AddPuts, Idle
      <3>2. QED BY <3>1, CmdTake DEF CmdFits
    <2>2. CASE \E x \in Nodes : ListRpush(cmd.algo, x, This)
      BY <2>1, <2>2, PushLists
    <2>3. QED BY <1>1, <1>4, <2>1, <2>2, PutIs
  <1>5. CASE Begin \/ ItemBroken \/ ItemRead \/ Deleted \/ AddRefused \/ EndUnnamed \/ LookUp \/ UNCHANGED listVars
    BY <1>1, <1>5 DEF Begin, ItemBroken, ItemRead, Deleted, AddRefused, EndUnnamed, LookUp, mem, listVars
  <1>6. QED BY <1>2, <1>3, <1>4, <1>5 DEF ListNext

\* What IdsOK says when no pool is to be put
IdsApart ==
    /\ val \in [Nodes -> Pool]
    /\ \A x \in used : val[x].id # 0
    /\ \A x, y \in used : val[x].id = val[y].id => x = y

LEMMA IdsKept ==
  ASSUME IdsOK, val' \in [Nodes -> Pool], \A x \in used' : x \in used /\ val'[x].id = val[x].id
  PROVE  IdsApart'
  BY DEF IdsOK, IdsApart

LEMMA StepIds ==
  ASSUME ListsOK, CmdOK, IdsOK, [ListNext]_listVars
  PROVE  IdsOK'
  <1>0. val \in [Nodes -> Pool] /\ used \subseteq Nodes
    <2>1. "BTC" \in Algos /\ "LTC" \in Algos
      BY DEF Algos
    <2>2. \A a \in Algos : Elems(Chain(a)) \subseteq Nodes
      BY ChainFacts DEF Elems
    <2>3. QED BY <2>1, <2>2 DEF ListsOK, IdsOK
  <1>1. ASSUME IdsApart', cmd'.at # "put" PROVE IdsOK'
    BY <1>1 DEF IdsApart, IdsOK
  <1>2. ASSUME UNCHANGED <<val, used>> PROVE IdsApart'
    BY <1>0, <1>2, IdsKept
  <1>3. CASE Begin
    <2>1. val' = [x \in Nodes |-> [val[x] EXCEPT !.now = FALSE]] /\ used' = used /\ cmd'.at = "item"
      BY <1>3 DEF Begin
    <2>2. ASSUME NEW x \in Nodes PROVE [val[x] EXCEPT !.now = FALSE] \in Pool /\ [val[x] EXCEPT !.now = FALSE].id = val[x].id
      <3>1. val[x] \in Pool
        BY <1>0
      <3>2. QED BY <3>1 DEF Pool
    <2>3. val' \in [Nodes -> Pool] /\ \A x \in used' : x \in used /\ val'[x].id = val[x].id
      BY <1>0, <2>1, <2>2
    <2>4. QED BY <1>1, <2>1, <2>3, IdsKept
  <1>4. CASE UNCHANGED listVars
    <2>1. cmd' = cmd /\ val' = val /\ used' = used /\ UNCHANGED <<next, prev, used, list>>
      BY <1>4 DEF listVars
    <2>2. \A a : Chain(a)' = Chain(a)
      BY <2>1, SameLists
    <2>3. (cmd.at = "put" => \A x \in Elems(Chain(Other(cmd.algo))) : val[x].id # cmd.last)'
      <3>1. Chain(Other(cmd.algo))' = Chain(Other(cmd.algo))
        <4>1. Chain(Other(cmd.algo))' = ChainOf(list'[Other(cmd'.algo)], next')
          BY DEF Chain, ChainOf, Other
        <4>2. Chain(Other(cmd.algo)) = ChainOf(list[Other(cmd.algo)], next)
          BY DEF Chain, ChainOf
        <4>3. QED BY <2>1, <4>1, <4>2
      <3>2. Elems(Chain(Other(cmd.algo)))' = Elems(Chain(Other(cmd.algo)))
        BY <3>1 DEF Elems
      <3>3. QED BY <2>1, <3>2 DEF IdsOK
    <2>4. QED BY <1>2, <2>1, <2>3 DEF IdsOK, IdsApart
  <1>5. CASE EndUnnamed \/ LookUp
    <2>1. cmd' = Idle /\ UNCHANGED <<val, used>>
      BY <1>5 DEF EndUnnamed, LookUp, mem
    <2>2. QED BY <1>1, <1>2, <2>1 DEF Idle
  <1>6. CASE ItemBroken \/ ItemRead \/ Deleted \/ AddRefused \/ DeleteFirst \/ (\E b \in Algos : AddUnlinks(b)) \/ AddPuts
    <2>1. cmd # Idle
      <3>1. cmd.at \in {"item", "delete", "add", "put"}
        BY <1>6 DEF ItemBroken, ItemRead, HasItem, Deleted, AddRefused, DeleteFirst, AddUnlinks, AddPuts
      <3>2. QED BY <3>1 DEF Idle
    <2>2. PICK p, k, l, a, m, s, g : cmd = Cmd(p, k, l, a, m, s, g) /\ CmdFits(p, k, l, a, m, s, g)
      BY <2>1, CmdTake
    <2>3. CmdMoved(p, k, l, a, m, s, g)
      BY <2>1, <2>2, CmdMoves
    <2>4. cmd.at = p /\ cmd.last = l /\ cmd.algo = a
      BY <2>2 DEF Cmd
    <2>5. CASE ItemBroken \/ ItemRead \/ Deleted \/ AddRefused
      <3>1. UNCHANGED <<val, used>>
        BY <2>5 DEF ItemBroken, ItemRead, Deleted, AddRefused, mem
      <3>2. cmd'.at # "put"
        BY <2>3, <2>5 DEF CmdMoved, Cmd
      <3>3. QED BY <1>1, <1>2, <3>1, <3>2
    <2>6. CASE DeleteFirst
      <3>1. cmd'.at # "put"
        BY <2>3, <2>4, <2>6 DEF CmdMoved
      <3>2. val' = val /\ used' \subseteq used
        BY <2>6, DeleteIs, RemoveFound
      <3>3. QED BY <1>0, <1>1, <3>1, <3>2, IdsKept
    <2>7. ASSUME NEW b \in Algos, AddUnlinks(b) PROVE IdsOK'
      <3>1. cmd'.algo = b /\ cmd'.last = cmd.last
        BY <2>2, <2>3, <2>4, <2>7 DEF CmdMoved, Cmd
      <3>2. Other(b) \in Algos /\ Other(b) # b /\ used = Elems(Chain(b)) \cup Elems(Chain(Other(b)))
        BY AlgoFacts, Disjoint
      <3>3. ASSUME val' = val, used' \subseteq used,
                   \A x \in Elems(Chain(Other(b))') : val[x].id # cmd.last
            PROVE  IdsOK'
        <4>1. IdsApart'
          BY <1>0, <3>3, IdsKept
        <4>2. Chain(Other(cmd.algo))' = Chain(Other(b))'
          <5>1. Chain(Other(cmd.algo))' = ChainOf(list'[Other(cmd'.algo)], next')
            BY DEF Chain, ChainOf, Other
          <5>2. Chain(Other(b))' = ChainOf(list'[Other(b)], next')
            BY ChainNow
          <5>3. QED BY <3>1, <5>1, <5>2
        <4>3. Elems(Chain(Other(cmd.algo)))' = Elems(Chain(Other(b))')
          BY <4>2 DEF Elems
        <4>4. QED BY <3>1, <3>3, <4>1, <4>3 DEF IdsApart, IdsOK
      <3>4. CASE UNCHANGED mem /\ \A x \in Elems(Chain(Other(b))) : val[x].id # cmd.last
        <4>1. val' = val /\ used' = used /\ UNCHANGED <<next, prev, used, list>>
          BY <3>4 DEF mem
        <4>2. Chain(Other(b))' = Chain(Other(b))
          BY <4>1, SameLists
        <4>3. QED BY <3>3, <3>4, <4>1, <4>2
      <3>5. ASSUME NEW x \in Elems(Chain(Other(b))), val[x].id = cmd.last, ListRemove(Other(b), x)
            PROVE  IdsOK'
        <4>1. val' = val /\ used' = used \ {x} /\ Elems(Chain(Other(b))') = Elems(Chain(Other(b))) \ {x}
          BY <3>2, <3>5, RemoveFound
        <4>2. \A y \in Elems(Chain(Other(b))') : val[y].id # cmd.last
          BY <3>2, <3>5, <4>1 DEF IdsOK
        <4>3. QED BY <3>3, <4>1, <4>2
      <3>6. QED BY <2>7, <3>4, <3>5, UnlinkIs
    <2>8. CASE AddPuts
      <3>1. cmd'.at # "put" /\ p = "put" /\ a \in Algos /\ l # 0
        <4>1. cmd'.at # "put" /\ p = "put"
          BY <2>3, <2>8 DEF CmdMoved, Cmd
        <4>2. QED BY <2>2, <4>1 DEF CmdFits
      <3>2. This \in Pool /\ This.id = cmd.last
        BY <2>1, ThisIsPool
      <3>3. used = Elems(Chain(a)) \cup Elems(Chain(Other(a)))
        BY <3>1, Disjoint
      <3>4. ASSUME \A x \in Elems(Chain(a)) : val[x].id # This.id, NEW x \in Nodes, ListRpush(a, x, This)
            PROVE  IdsApart'
        <4>1. x \notin used /\ used' = used \cup {x} /\ val' = [val EXCEPT ![x] = This]
          BY <3>4 DEF ListRpush
        <4>2. \A y \in used : val[y].id # This.id
          BY <2>4, <3>1, <3>2, <3>3, <3>4 DEF IdsOK
        <4>3. val' \in [Nodes -> Pool] /\ val'[x] = This /\ \A y \in used : val'[y] = val[y]
          BY <1>0, <3>2, <4>1
        <4>4. \A y \in used' : y = x \/ y \in used
          BY <4>1
        <4>5. \A y \in used' : val'[y].id # 0
          BY <2>4, <3>1, <3>2, <4>3, <4>4 DEF IdsOK
        <4>6. \A y, z \in used' : val'[y].id = val'[z].id => y = z
          BY <4>2, <4>3, <4>4 DEF IdsOK
        <4>7. QED BY <4>3, <4>5, <4>6 DEF IdsApart
      <3>5. CASE /\ val' = [x \in Nodes |-> IF x \in Elems(Chain(a)) /\ val[x].id = This.id THEN This ELSE val[x]]
                 /\ UNCHANGED <<next, prev, used, list>>
        <4>1. val' \in [Nodes -> Pool]
          BY <1>0, <3>2, <3>5
        <4>2. \A x \in used' : x \in used /\ val'[x].id = val[x].id
          BY <1>0, <3>5
        <4>3. QED BY <1>1, <3>1, <4>1, <4>2, IdsKept
      <3>6. QED BY <1>1, <2>4, <2>8, <3>1, <3>4, <3>5, PutIs
    <2>9. QED BY <1>6, <2>5, <2>6, <2>7, <2>8
  <1>7. QED BY <1>3, <1>4, <1>5, <1>6 DEF ListNext

-----------------------------------------------------------------------------
(* GivenOK *)

\* An id of the command is in the list of an algorithm.
InListAs ==
    \A a \in Algos : \A n \in 1 .. Len(cmd.ids) :
        InList(a)[n] <=> \E x \in Elems(Chain(a)) : val[x].id = cmd.ids[n]

LEMMA InListNow == ListsOK /\ IdsOK => InListAs
  <1> SUFFICES ASSUME ListsOK, IdsOK, NEW a \in Algos, NEW n \in 1 .. Len(cmd.ids)
               PROVE  InList(a)[n] <=> \E x \in Elems(Chain(a)) : val[x].id = cmd.ids[n]
    BY DEF InListAs
  <1>1. InList(a)[n] = (ListOf(cmd.ids[n]) = a)
    BY DEF InList
  <1>2. QED BY <1>1, ListOfIs

LEMMA InListThen == ListsOK' /\ IdsOK' => InListAs'
  BY InListNow, PTL

PoolsAre ==
    \A a \in Algos :
        /\ Len(Chain(a)) \in Nat
        /\ Pools(a) \in Seq(Pool) /\ Len(Pools(a)) = Len(Chain(a)) /\ DOMAIN Pools(a) = 1 .. Len(Chain(a))
        /\ \A i \in 1 .. Len(Chain(a)) : Pools(a)[i] = val[Chain(a)[i]]

LEMMA PoolsNow == ListsOK /\ IdsOK => PoolsAre
  BY PoolsFacts, ChainFacts DEF PoolsAre

LEMMA PoolsThen == ListsOK' /\ IdsOK' => PoolsAre'
  BY PoolsNow, PTL

LEMMA LookSame ==
  ASSUME NEW s, Len(s) \in Nat, NEW P, NEW Q, \A n \in 1 .. Len(s) : P[n] <=> Q[n]
  PROVE  LookOf(s, P) = LookOf(s, Q)
  <1>1. PICK g : IsLook(g, s, P)
    BY LookExists
  <1>2. PICK h : IsLook(h, s, Q)
    BY LookExists
  <1>3. \A n \in 0 .. Len(s) : g[n] = h[n]
    <2>1. Len(s) <= Len(s) /\ \A n \in 1 .. Len(s) : s[n] = s[n] /\ (P[n] <=> Q[n])
      OBVIOUS
    <2>2. QED BY <1>1, <1>2, <2>1, LookAgree
  <1>4. Len(s) \in 0 .. Len(s)
    OBVIOUS
  <1>5. QED BY <1>1, <1>2, <1>3, <1>4, LookIs

LEMMA GivenSame ==
  ASSUME ListsOK, IdsOK, ListsOK', IdsOK', GivenHolds, Len(cmd.ids) \in Nat,
         val' = val, UNCHANGED <<next, prev, used, list>>,
         cmd'.ids = cmd.ids, cmd'.given = cmd.given,
         cmd.k \in Int, cmd'.k \in Int, cmd.k <= cmd'.k, \A x \in used : val[x].id \in Int
  PROVE  GivenHolds'
  <1>1. used' = used /\ \A a \in Algos : Chain(a)' = Chain(a)
    BY SameLists
  <1>2. \A x \in used' : val'[x].id < cmd'.k
    BY <1>1 DEF GivenHolds
  <1>3. \A a \in Algos : Pools(a)' = Pools(a)
    BY <1>1 DEF Pools
  <1>4. ASSUME NEW a \in Algos PROVE Looked(a)' = Looked(a)
    <2>1. Elems(Chain(a))' = Elems(Chain(a))
      BY <1>1 DEF Elems
    <2>2. \A n \in 1 .. Len(cmd.ids) : InList(a)[n] <=> \E x \in Elems(Chain(a)) : val[x].id = cmd.ids[n]
      BY InListNow DEF InListAs
    <2>3. \A n \in 1 .. Len(cmd.ids) : InList(a)'[n] <=> \E x \in Elems(Chain(a)) : val[x].id = cmd.ids[n]
      <3>1. InListAs'
        BY InListThen
      <3>2. QED BY <2>1, <3>1 DEF InListAs
    <2>4. \A n \in 1 .. Len(cmd.ids) : InList(a)[n] <=> InList(a)'[n]
      BY <2>2, <2>3
    <2>5. LookOf(cmd.ids, InList(a)) = LookOf(cmd.ids, InList(a)')
      BY <2>4, LookSame
    <2>6. Looked(a) = LookOf(cmd.ids, InList(a)) /\ Looked(a)' = LookOf(cmd'.ids, InList(a)')
      BY LookedNow, LookedThen
    <2>7. QED BY <2>5, <2>6
  <1>5. \A a \in Algos : IdsOf(cmd.given[a])' = IdsOf(cmd.given[a])
    BY DEF IdsOf
  <1>6. QED BY <1>2, <1>3, <1>4, <1>5 DEF GivenHolds

LEMMA AppendAt ==
  ASSUME NEW T, NEW c \in Seq(T), NEW e \in T
  PROVE  /\ Len(c) \in Nat /\ DOMAIN c = 1 .. Len(c) /\ DOMAIN Append(c, e) = 1 .. Len(c) + 1
         /\ Append(c, e) \in Seq(T) /\ Len(Append(c, e)) = Len(c) + 1
         /\ \A i \in 1 .. Len(c) + 1 : Append(c, e)[i] = IF i = Len(c) + 1 THEN e ELSE c[i]
         /\ \A i \in 1 .. Len(c) + 1 : i # Len(c) + 1 => i \in 1 .. Len(c)
         /\ \A i \in 1 .. Len(c) : i \in 1 .. Len(c) + 1 /\ i # Len(c) + 1
         /\ Len(c) + 1 \in 1 .. Len(c) + 1
  OBVIOUS

\* A function one element longer is the sequence with that element appended.
Longer(f, e, h) ==
    /\ h = [i \in 1 .. Len(f) + 1 |-> h[i]] /\ h[Len(f) + 1] = e
    /\ \A i \in 1 .. Len(f) : h[i] = f[i]

LEMMA AppendIs ==
  ASSUME NEW T, NEW f \in Seq(T), NEW e \in T, NEW h, Longer(f, e, h)
  PROVE  h = Append(f, e)
  <1> USE DEF Longer
  <1> DEFINE q == Append(f, e)
  <1>1. /\ q \in Seq(T) /\ Len(q) = Len(f) + 1 /\ Len(f) \in Nat
        /\ \A i \in 1 .. Len(f) + 1 : q[i] = IF i = Len(f) + 1 THEN e ELSE f[i]
        /\ \A i \in 1 .. Len(f) + 1 : i # Len(f) + 1 => i \in 1 .. Len(f)
    BY AppendAt
  <1> HIDE DEF q
  <1>2. q = [i \in 1 .. Len(f) + 1 |-> q[i]]
    BY <1>1
  <1>3. \A i \in 1 .. Len(f) + 1 : h[i] = q[i]
    BY <1>1
  <1>4. h = q
    BY <1>2, <1>3
  <1>5. QED BY <1>4 DEF q

LEMMA IdsPush ==
  ASSUME NEW q \in Seq(Pool), NEW e \in Pool
  PROVE  IdsOf(Append(q, e)) = Append(IdsOf(q), e.id)
  <1>1. /\ Len(q) \in Nat /\ DOMAIN q = 1 .. Len(q) /\ DOMAIN Append(q, e) = 1 .. Len(q) + 1
        /\ \A i \in 1 .. Len(q) + 1 : Append(q, e)[i] = IF i = Len(q) + 1 THEN e ELSE q[i]
        /\ \A i \in 1 .. Len(q) : i \in 1 .. Len(q) + 1 /\ i # Len(q) + 1
        /\ Len(q) + 1 \in 1 .. Len(q) + 1
    BY AppendAt
  <1>2. IdsOf(q) = [i \in 1 .. Len(q) |-> q[i].id]
    BY <1>1 DEF IdsOf
  <1>3. IdsOf(Append(q, e)) = [i \in 1 .. Len(q) + 1 |-> Append(q, e)[i].id]
    BY <1>1 DEF IdsOf
  <1>4. \A i \in 1 .. Len(q) : q[i].id \in 0 .. MaxItems
    <2>1. \A i \in 1 .. Len(q) : q[i] \in Pool
      BY <1>1
    <2>2. QED BY <2>1 DEF Pool
  <1>5. IdsOf(q) \in Seq(0 .. MaxItems) /\ Len(IdsOf(q)) = Len(q)
    BY <1>1, <1>2, <1>4
  <1>6. e.id \in 0 .. MaxItems
    BY DEF Pool
  <1> DEFINE h == IdsOf(Append(q, e))
             f == IdsOf(q)
  <1>7. h = [i \in 1 .. Len(f) + 1 |-> h[i]] /\ h[Len(f) + 1] = e.id /\ \A i \in 1 .. Len(f) : h[i] = f[i]
    <2>1. \A i \in 1 .. Len(q) + 1 : h[i] = Append(q, e)[i].id
      BY <1>3
    <2>2. \A i \in 1 .. Len(q) : f[i] = q[i].id
      BY <1>2
    <2>3. h = [i \in 1 .. Len(q) + 1 |-> h[i]]
      BY <1>3
    <2> HIDE DEF h, f
    <2>4. QED BY <1>1, <1>5, <2>1, <2>2, <2>3 DEF f
  <1> HIDE DEF h, f
  <1>8. h = Append(f, e.id)
    <2>1. Longer(f, e.id, h) /\ f \in Seq(0 .. MaxItems)
      BY <1>5, <1>7 DEF Longer, f
    <2>2. QED BY <1>6, <2>1, AppendIs
  <1>9. QED BY <1>8 DEF h, f

\* The pools of a chain that is one node longer
Values(v, c) == [i \in DOMAIN c |-> v[c[i]]]

KeepsValues(v, w, c) == \A i \in 1 .. Len(c) : w[c[i]] = v[c[i]] /\ v[c[i]] \in Pool

LEMMA PoolsPush ==
  ASSUME NEW c \in Seq(Nodes), NEW x \in Nodes, NEW v, NEW w, NEW e \in Pool, w[x] = e,
         KeepsValues(v, w, c)
  PROVE  Values(w, Append(c, x)) = Append(Values(v, c), e)
  <1> USE DEF KeepsValues
  <1>1. /\ Len(c) \in Nat /\ DOMAIN c = 1 .. Len(c) /\ DOMAIN Append(c, x) = 1 .. Len(c) + 1
        /\ \A i \in 1 .. Len(c) + 1 : Append(c, x)[i] = IF i = Len(c) + 1 THEN x ELSE c[i]
        /\ \A i \in 1 .. Len(c) : i \in 1 .. Len(c) + 1 /\ i # Len(c) + 1
        /\ Len(c) + 1 \in 1 .. Len(c) + 1
    BY AppendAt
  <1> DEFINE h == [i \in DOMAIN Append(c, x) |-> w[Append(c, x)[i]]]
             f == [i \in DOMAIN c |-> v[c[i]]]
  <1>2. f \in Seq(Pool) /\ Len(f) = Len(c) /\ \A i \in 1 .. Len(c) : f[i] = v[c[i]]
    BY <1>1
  <1>3. h = [i \in 1 .. Len(c) + 1 |-> h[i]] /\ h[Len(c) + 1] = e /\ \A i \in 1 .. Len(c) : h[i] = w[c[i]]
    BY <1>1
  <1> HIDE DEF h, f
  <1>4. h = Append(f, e)
    <2>1. Len(f) = Len(c)
      BY <1>2
    <2>2. h = [i \in 1 .. Len(f) + 1 |-> h[i]] /\ h[Len(f) + 1] = e
      BY <1>3, <2>1
    <2>3. \A i \in 1 .. Len(c) : h[i] = f[i]
      BY <1>2, <1>3
    <2>4. Longer(f, e, h)
      BY <2>1, <2>2, <2>3 DEF Longer
    <2>5. QED BY <1>2, <2>4, AppendIs
  <1>5. QED BY <1>4 DEF Values, h, f

LEMMA GivenPush ==
  ASSUME ListsOK, IdsOK, ListsOK', IdsOK', GivenHolds, AddPuts,
         NEW k \in Nat, NEW a \in Algos, NEW s \in Seq(Nat), NEW g \in [Algos -> Seq(Pool)],
         cmd.k = k, cmd.algo = a, cmd.ids = s, cmd.given = g, This \in Pool, This.id = k,
         \A n \in DOMAIN s : s[n] < k,
         cmd'.k = k + 1, cmd'.ids = Append(s, k), cmd'.given = [g EXCEPT ![a] = Append(@, This)]
  PROVE  GivenHolds'
  <1> DEFINE o == Other(a)
  <1>0. o \in Algos /\ o # a /\ (\A b \in Algos : b = a \/ b = o) /\ used = Elems(Chain(a)) \cup Elems(Chain(o))
        /\ Elems(Chain(a)) \cap Elems(Chain(o)) = {}
    BY AlgoFacts, Disjoint
  <1>1. \A x \in used : val[x].id < k /\ val[x].id \in Int /\ x \in Nodes
    <2>1. \A b \in Algos : Elems(Chain(b)) \subseteq Nodes
      BY ChainFacts DEF Elems
    <2>2. \A x \in used : x \in Nodes
      BY <1>0, <2>1
    <2>3. \A x \in used : val[x] \in Pool
      BY <2>2 DEF IdsOK
    <2>4. \A x \in used : val[x].id \in Int
      BY <2>3, ItemsAssumption DEF Pool
    <2>5. QED BY <2>2, <2>4 DEF GivenHolds
  <1>2. PICK x \in Nodes : ListRpush(a, x, This)
    <2>1. \A y \in Elems(Chain(a)) : val[y].id # This.id
      BY <1>0, <1>1
    <2>2. QED BY <2>1, PutIs
  <1>3. /\ x \notin used /\ used' = used \cup {x} /\ val' = [val EXCEPT ![x] = This]
        /\ Chain(a)' = Append(Chain(a), x) /\ Chain(o)' = Chain(o)
    BY <1>2, PushLists DEF ListRpush
  <1>4. val'[x] = This /\ \A y \in used : val'[y] = val[y]
    BY <1>1, <1>3 DEF IdsOK
  <1>5. \A y \in used' : val'[y].id < cmd'.k
    <2>1. \A y \in used' : y = x \/ y \in used
      BY <1>3
    <2>2. k < k + 1 /\ \A y \in used : val[y].id < k + 1
      BY <1>1
    <2>3. QED BY <1>4, <2>1, <2>2
  <1>6. /\ Len(Chain(a)) \in Nat /\ Chain(a) \in Seq(Nodes) /\ Len(Chain(o)) \in Nat
        /\ \A i \in 1 .. Len(Chain(a)) : Chain(a)[i] \in used
        /\ \A i \in 1 .. Len(Chain(o)) : Chain(o)[i] \in used
    BY <1>0, ChainFacts
  <1>7. /\ Len(Append(Chain(a), x)) = Len(Chain(a)) + 1 /\ Append(Chain(a), x)[Len(Chain(a)) + 1] = x
        /\ \A i \in 1 .. Len(Chain(a)) : Append(Chain(a), x)[i] = Chain(a)[i]
    BY <1>6
  <1>8. PoolsAre /\ PoolsAre'
    BY PoolsNow, PoolsThen
  <1>9. Pools(a)' = Append(Pools(a), This)
    <2>1. \A i \in 1 .. Len(Chain(a)) : val'[Chain(a)[i]] = val[Chain(a)[i]] /\ val[Chain(a)[i]] \in Pool
      BY <1>1, <1>4, <1>6 DEF IdsOK
    <2>2. KeepsValues(val, val', Chain(a))
      BY <2>1 DEF KeepsValues
    <2>3. Values(val', Append(Chain(a), x)) = Append(Values(val, Chain(a)), This)
      BY <1>4, <1>6, <2>2, PoolsPush
    <2>4. Pools(a)' = Values(val', Chain(a)') /\ Pools(a) = Values(val, Chain(a))
      BY DEF Pools, Values
    <2>5. QED BY <1>3, <2>3, <2>4
  <1>10. Pools(o)' = Pools(o)
    <2>1. \A i \in 1 .. Len(Chain(o)) : val'[Chain(o)[i]] = val[Chain(o)[i]]
      BY <1>4, <1>6
    <2>2. DOMAIN Chain(o) = 1 .. Len(Chain(o))
      BY <1>0, ChainFacts
    <2>3. Pools(o)' = [i \in DOMAIN Chain(o)' |-> val'[Chain(o)'[i]]]
      <3>1. Pools(o)' = [i \in DOMAIN Chain(o)' |-> val'[Chain(o)'[i]]]
        BY DEF Pools
      <3>2. QED BY <3>1
    <2> HIDE DEF o
    <2>4. QED BY <1>3, <2>1, <2>2, <2>3 DEF Pools
  <1>11. cmd'.given[a] = Append(g[a], This) /\ cmd'.given[o] = g[o]
    BY <1>0
  <1>12. Len(s) \in Nat /\ DOMAIN s = 1 .. Len(s) /\ Len(cmd'.ids) = Len(s) + 1
         /\ cmd'.ids[Len(s) + 1] = k /\ \A n \in 1 .. Len(s) : cmd'.ids[n] = s[n]
    OBVIOUS
  <1>13. Elems(Chain(a)') = Elems(Chain(a)) \cup {x} /\ Elems(Chain(o)') = Elems(Chain(o))
    <2>1. Elems(Append(Chain(a), x)) = Elems(Chain(a)) \cup {x}
      <3>1. \A i \in 1 .. Len(Chain(a)) + 1 : i # Len(Chain(a)) + 1 => i \in 1 .. Len(Chain(a))
        BY <1>6
      <3>2. Len(Chain(a)) + 1 \in 1 .. Len(Chain(a)) + 1 /\ \A i \in 1 .. Len(Chain(a)) : i \in 1 .. Len(Chain(a)) + 1
        BY <1>6
      <3>3. \A y \in Elems(Append(Chain(a), x)) : y \in Elems(Chain(a)) \cup {x}
        BY <1>7, <3>1 DEF Elems
      <3>4. \A y \in Elems(Chain(a)) \cup {x} : y \in Elems(Append(Chain(a), x))
        BY <1>7, <3>2 DEF Elems
      <3>5. QED BY <3>3, <3>4
    <2>2. QED BY <1>3, <2>1
  <1>14. ASSUME NEW b \in Algos
         PROVE  /\ \A n \in 1 .. Len(s) : InList(b)[n] <=> InList(b)'[n]
                /\ InList(b)'[Len(s) + 1] <=> b = a
    <2>1. /\ \A n \in 1 .. Len(s) : InList(b)[n] <=> \E y \in Elems(Chain(b)) : val[y].id = s[n]
      BY InListNow DEF InListAs
    <2>2. \A n \in 1 .. Len(s) + 1 : InList(b)'[n] <=> \E y \in Elems(Chain(b)') : val'[y].id = cmd'.ids[n]
      <3>1. InListAs'
        BY InListThen
      <3>2. Elems(Chain(b))' = Elems(Chain(b)')
        BY DEF Elems
      <3>3. \A n \in 1 .. Len(cmd'.ids) : InList(b)'[n] <=> \E y \in Elems(Chain(b)') : val'[y].id = cmd'.ids[n]
        BY <3>1, <3>2 DEF InListAs
      <3>4. QED BY <1>12, <3>3
    <2>3. \A y \in Elems(Chain(b)) : y \in used
      BY <1>0
    <2>4. \A y \in Elems(Chain(b)') : y \in Elems(Chain(b)) \/ (b = a /\ y = x)
      BY <1>0, <1>13
    <2>5. \A y \in Elems(Chain(b)) : y \in Elems(Chain(b)')
      BY <1>0, <1>13
    <2>6. ASSUME NEW n \in 1 .. Len(s) PROVE InList(b)[n] <=> InList(b)'[n]
      <3>1. cmd'.ids[n] = s[n] /\ s[n] # k /\ n \in 1 .. Len(s) + 1
        <4>1. s[n] < k /\ s[n] \in Nat
          <5>1. n \in DOMAIN s /\ s[n] \in Nat
            BY <1>12
          <5>2. QED BY <5>1
        <4>2. s[n] # k /\ n \in 1 .. Len(s) + 1
          BY <1>12, <4>1
        <4>3. QED BY <1>12, <4>2
      <3>2. (\E y \in Elems(Chain(b)') : val'[y].id = s[n]) <=> (\E y \in Elems(Chain(b)) : val[y].id = s[n])
        BY <1>4, <2>3, <2>4, <2>5, <3>1
      <3>3. QED BY <2>1, <2>2, <3>1, <3>2
    <2>7. InList(b)'[Len(s) + 1] <=> b = a
      <3>1. Len(s) + 1 \in 1 .. Len(s) + 1
        BY <1>12
      <3>2. InList(b)'[Len(s) + 1] <=> \E y \in Elems(Chain(b)') : val'[y].id = k
        <4>1. InList(b)'[Len(s) + 1] <=> \E y \in Elems(Chain(b)') : val'[y].id = cmd'.ids[Len(s) + 1]
          BY <2>2, <3>1
        <4>2. cmd'.ids[Len(s) + 1] = k
          BY <1>12
        <4>3. QED BY <4>1, <4>2
      <3>3. \A y \in used : val[y].id # k
        BY <1>1
      <3>4. (\E y \in Elems(Chain(b)') : val'[y].id = k) => b = a
        BY <1>4, <2>3, <2>4, <3>3
      <3>5. b = a => x \in Elems(Chain(b)')
        BY <1>13
      <3>6. b = a => \E y \in Elems(Chain(b)') : val'[y].id = k
        BY <1>4, <3>5
      <3>7. QED BY <3>2, <3>4, <3>6
    <2>8. QED BY <2>6, <2>7
  <1>15. ASSUME NEW b \in Algos
         PROVE  Looked(b)' = IF b = a THEN Append(Looked(b), k) ELSE Looked(b)
    <2>1. Looked(b) = LookOf(s, InList(b)) /\ Looked(b)' = LookOf(Append(s, k), InList(b)')
      <3>1. Len(cmd.ids) \in Nat /\ Len(cmd'.ids) \in Nat
        BY <1>12
      <3>2. QED BY <3>1, LookedNow, LookedThen
    <2>2. \A n \in 1 .. Len(s) : InList(b)[n] <=> InList(b)'[n]
      BY <1>14
    <2>3. LookOf(Append(s, k), InList(b)')
             = IF InList(b)'[Len(s) + 1] THEN Append(LookOf(s, InList(b)), k) ELSE LookOf(s, InList(b))
      <3>1. SameUpTo(InList(b), InList(b)', Len(s))
        BY <1>14 DEF SameUpTo
      <3>2. LooksOn(s, k, InList(b), InList(b)')
        BY <3>1, LookAppend
      <3>3. QED BY <3>2 DEF LooksOn
    <2>4. QED BY <1>14, <2>1, <2>3
  <1>16. IdsOf(Append(g[a], This)) = Append(IdsOf(g[a]), k)
    BY IdsPush
  <1>17. ASSUME NEW b \in Algos PROVE (Pools(b) = cmd.given[b] /\ Looked(b) = IdsOf(cmd.given[b]))'
    <2>1. Pools(b) = g[b] /\ Looked(b) = IdsOf(g[b])
      BY DEF GivenHolds
    <2>2. IdsOf(cmd.given[b])' = IdsOf(cmd'.given[b])
      BY DEF IdsOf
    <2>3. CASE b = a
      BY <1>9, <1>11, <1>15, <1>16, <2>1, <2>2, <2>3
    <2>4. CASE b = o
      BY <1>0, <1>10, <1>11, <1>15, <2>1, <2>2, <2>4
    <2>5. QED BY <1>0, <2>3, <2>4
  <1>18. QED BY <1>5, <1>17 DEF GivenHolds

LEMMA IntIds ==
  ASSUME ListsOK, IdsOK
  PROVE  \A x \in used : x \in Nodes /\ val[x] \in Pool /\ val[x].id \in Int
  <1>1. "BTC" \in Algos /\ "LTC" \in Algos
    BY DEF Algos
  <1>2. \A b \in Algos : Elems(Chain(b)) \subseteq Nodes
    BY ChainFacts DEF Elems
  <1>3. \A x \in used : x \in Nodes
    BY <1>1, <1>2 DEF ListsOK
  <1>4. \A x \in used : val[x] \in Pool
    BY <1>3 DEF IdsOK
  <1>5. QED BY <1>3, <1>4, ItemsAssumption DEF Pool

\* SetDelAllPoolList has emptied both lists.
LEMMA GivenEmpty ==
  ASSUME ListsOK, ListsOK', UNCHANGED <<next, prev, used, list>>,
         \A a \in Algos : list[a].len = 0, cmd'.ids = <<>>, cmd'.given = NoPools
  PROVE  GivenHolds'
  <1>1. used' = used /\ \A a : Chain(a)' = Chain(a)
    BY SameLists
  <1>2. ASSUME NEW a \in Algos PROVE Chain(a) = <<>>
    <2>1. Len(Chain(a)) = 0 /\ Chain(a) \in Seq(Nodes)
      BY ChainFacts
    <2>2. QED BY <2>1, EmptySeq
  <1>3. used = {}
    <2>1. "BTC" \in Algos /\ "LTC" \in Algos
      BY DEF Algos
    <2>2. Elems(<<>>) = {}
      BY DEF Elems
    <2>3. QED BY <1>2, <2>1, <2>2 DEF ListsOK
  <1>4. ASSUME NEW a \in Algos PROVE (Pools(a) = cmd.given[a] /\ Looked(a) = IdsOf(cmd.given[a]))'
    <2>1. cmd'.given[a] = <<>>
      BY DEF NoPools
    <2>2. Pools(a)' = <<>>
      <3>1. Pools(a)' = Values(val', Chain(a)')
        BY DEF Pools, Values
      <3>2. Values(val', <<>>) = <<>>
        BY DEF Values
      <3>3. QED BY <1>1, <1>2, <3>1, <3>2
    <2>3. IdsOf(<<>>) = <<>>
      BY DEF IdsOf
    <2>4. IdsOf(cmd.given[a])' = <<>>
      <3>1. IdsOf(cmd.given[a])' = IdsOf(cmd'.given[a])
        BY DEF IdsOf
      <3>2. QED BY <2>1, <2>3, <3>1
    <2>5. Looked(a)' = <<>>
      <3>1. Len(cmd'.ids) \in Nat
        OBVIOUS
      <3>2. Looked(a)' = LookOf(cmd'.ids, InList(a)')
        BY <3>1, LookedThen
      <3>3. QED BY <3>2, LookNone
    <2>6. QED BY <2>1, <2>2, <2>4, <2>5
  <1>5. QED BY <1>1, <1>3, <1>4 DEF GivenHolds

LEMMA SeqWider ==
  ASSUME NEW m \in Nat, NEW t \in Seq(1 .. m)
  PROVE  t \in Seq(Nat)
  <1>1. Len(t) \in Nat /\ \A i \in 1 .. Len(t) : t[i] \in 1 .. m
    OBVIOUS
  <1>2. \A i \in 1 .. Len(t) : t[i] \in Nat
    BY <1>1
  <1>3. t = [i \in 1 .. Len(t) |-> t[i]]
    OBVIOUS
  <1> DEFINE f == [i \in 1 .. Len(t) |-> t[i]]
  <1>4. f \in Seq(Nat)
    BY <1>1, <1>2
  <1>5. QED BY <1>3, <1>4

LEMMA StepGiven ==
  ASSUME ListsOK, CmdOK, IdsOK, GivenOK, ListsOK', IdsOK', [ListNext]_listVars
  PROVE  GivenOK'
  <1>1. CASE Begin
    <2>1. cmd'.named = FALSE /\ cmd'.at = "item"
      BY <1>1 DEF Begin
    <2>2. QED BY <2>1 DEF GivenOK, Emptied
  <1>2. CASE UNCHANGED listVars
    <2>1. cmd' = cmd /\ val' = val /\ UNCHANGED <<next, prev, used, list>>
      BY <1>2 DEF listVars
    <2>2. Emptied' <=> Emptied
      BY <2>1 DEF Emptied, Idle
    <2>3. ASSUME Emptied PROVE GivenHolds'
      <3>1. GivenHolds
        BY <2>3 DEF GivenOK
      <3>2. cmd # Idle
        BY <2>3 DEF Emptied
      <3>3. Len(cmd.ids) \in Nat /\ cmd.k \in Int /\ cmd.k <= cmd'.k
        <4>1. cmd.k \in 1 .. MaxItems + 1 /\ cmd.ids \in Seq(1 .. MaxItems)
          BY <3>2, CmdTake DEF CmdFits
        <4>2. QED BY <2>1, <4>1
      <3>4. QED BY <2>1, <3>1, <3>3, IntIds, GivenSame
    <2>4. QED BY <2>2, <2>3 DEF GivenOK
  <1>3. CASE EndUnnamed \/ LookUp
    BY <1>3 DEF EndUnnamed, LookUp, GivenOK, Emptied, Idle
  <1>4. CASE ItemBroken \/ ItemRead \/ Deleted \/ AddRefused \/ DeleteFirst \/ (\E b \in Algos : AddUnlinks(b)) \/ AddPuts
    <2>1. cmd # Idle
      <3>1. cmd.at \in {"item", "delete", "add", "put"}
        BY <1>4 DEF ItemBroken, ItemRead, HasItem, Deleted, AddRefused, DeleteFirst, AddUnlinks, AddPuts
      <3>2. QED BY <3>1 DEF Idle
    <2>2. PICK p, k, l, a, m, s, g : cmd = Cmd(p, k, l, a, m, s, g) /\ CmdFits(p, k, l, a, m, s, g)
      BY <2>1, CmdTake
    <2>3. CmdMoved(p, k, l, a, m, s, g)
      BY <2>1, <2>2, CmdMoves
    <2>4. /\ cmd.at = p /\ cmd.k = k /\ cmd.last = l /\ cmd.algo = a /\ cmd.named = m
          /\ cmd.ids = s /\ cmd.given = g
      BY <2>2 DEF Cmd
    <2>5. /\ p \in {"item", "delete", "add", "put"} /\ k \in 1 .. MaxItems + 1
          /\ a \in Algos /\ m \in BOOLEAN /\ s \in Seq(1 .. MaxItems) /\ g \in [Algos -> Seq(Pool)]
      BY <2>2 DEF CmdFits
    <2>6. /\ \A n \in DOMAIN s : s[n] < k
          /\ k = 1 => s = <<>> /\ g = NoPools /\ ~m
          /\ p = "delete" => k = 1
          /\ p = "put" => l = k
      BY <2>2 DEF CmdFits
    <2>7. k \in Nat /\ k + 1 \in Nat /\ k + 1 # 1 /\ k <= k + 1 /\ k <= k /\ Len(s) \in Nat
      BY <2>5, ItemsAssumption
    <2>8. Emptied <=> m \/ (k = 1 /\ p \in {"add", "put"})
      BY <2>1, <2>4 DEF Emptied
    <2>9. ASSUME NEW q, NEW j \in {k, k + 1}, NEW r, NEW b, cmd' = Cmd(q, j, r, b, m, s, g), UNCHANGED mem,
                 (m \/ (j = 1 /\ q \in {"add", "put"})) => Emptied
          PROVE  GivenOK'
      <3>1. cmd'.at = q /\ cmd'.k = j /\ cmd'.named = m /\ cmd'.ids = s /\ cmd'.given = g
        BY <2>9 DEF Cmd
      <3>2. Emptied' => Emptied
        BY <2>9, <3>1 DEF Emptied
      <3>3. ASSUME Emptied PROVE GivenHolds'
        <4>1. GivenHolds
          BY <3>3 DEF GivenOK
        <4>2. val' = val /\ UNCHANGED <<next, prev, used, list>>
          BY <2>9 DEF mem
        <4>3. Len(cmd.ids) \in Nat /\ cmd'.ids = cmd.ids /\ cmd'.given = cmd.given
              /\ cmd.k \in Int /\ cmd'.k \in Int /\ cmd.k <= cmd'.k
          BY <2>4, <2>7, <2>9, <3>1
        <4>4. QED BY <4>1, <4>2, <4>3, IntIds, GivenSame
      <3>4. QED BY <3>2, <3>3 DEF GivenOK
    <2>10. CASE ItemBroken
      <3>1. cmd' = Cmd("item", k + 1, l + 1, a, m, s, g) /\ UNCHANGED mem
        BY <2>3, <2>10 DEF CmdMoved, ItemBroken
      <3>2. QED BY <2>7, <2>8, <2>9, <3>1
    <2>11. CASE ItemRead
      <3>1. cmd' = Cmd(IF k = 1 THEN "delete" ELSE "add", k, l + 1, a, m, s, g) /\ UNCHANGED mem
        BY <2>3, <2>11 DEF CmdMoved, ItemRead
      <3>2. QED BY <2>7, <2>8, <2>9, <3>1
    <2>12. CASE AddRefused
      <3>1. cmd' = Cmd("item", k + 1, l, a, m, s, g) /\ UNCHANGED mem
        BY <2>3, <2>12 DEF CmdMoved, AddRefused
      <3>2. QED BY <2>7, <2>8, <2>9, <3>1
    <2>13. CASE DeleteFirst
      <3>1. p = "delete" /\ cmd' = cmd
        BY <2>3, <2>13 DEF CmdMoved
      <3>2. cmd'.at = "delete" /\ cmd'.named = m /\ ~m
        BY <2>4, <2>6, <3>1
      <3>3. QED BY <3>2 DEF GivenOK, Emptied
    <2>14. CASE Deleted
      <3>1. p = "delete" /\ cmd' = Cmd("add", k, l, a, m, s, g)
        BY <2>3, <2>14 DEF CmdMoved
      <3>2. cmd'.ids = <<>> /\ cmd'.given = NoPools
        BY <2>6, <3>1 DEF Cmd
      <3>3. (\A b \in Algos : list[b].len = 0) /\ UNCHANGED <<next, prev, used, list>>
        BY <2>14 DEF Deleted, mem
      <3>4. GivenHolds'
        BY <3>2, <3>3, GivenEmpty
      <3>5. QED BY <3>4 DEF GivenOK
    <2>15. ASSUME NEW b \in Algos, AddUnlinks(b) PROVE GivenOK'
      <3>1. p = "add" /\ cmd' = Cmd("put", k, l, b, m, s, g)
        BY <2>3, <2>15 DEF CmdMoved
      <3>2. l = k
        BY <2>2, <3>1 DEF CmdFits
      <3>3. CASE UNCHANGED mem
        BY <2>7, <2>8, <2>9, <3>1, <3>3
      <3>4. CASE Emptied
        <4>1. \A x \in used : val[x].id < k /\ val[x].id \in Int
          BY <2>4, <3>4, IntIds DEF GivenOK, GivenHolds
        <4>2. \A x \in Elems(Chain(Other(b))) : val[x].id # cmd.last
          BY <2>4, <2>7, <3>2, <4>1, Disjoint
        <4>3. UNCHANGED mem
          BY <2>15, <4>2, UnlinkIs
        <4>4. QED BY <3>3, <4>3
      <3>5. CASE ~Emptied
        <4>1. cmd'.named = m /\ cmd'.k = k
          BY <3>1 DEF Cmd
        <4>2. ~Emptied'
          BY <2>8, <3>1, <3>5, <4>1 DEF Emptied
        <4>3. QED BY <4>2 DEF GivenOK
      <3>6. QED BY <3>4, <3>5
    <2>16. CASE AddPuts
      <3>1. p = "put" /\ cmd' = Cmd("item", k + 1, l, a, m \/ k = 1, Append(s, k), [g EXCEPT ![a] = Append(@, This)])
        BY <2>3, <2>16 DEF CmdMoved
      <3>2. cmd'.k = k + 1 /\ cmd'.named = (m \/ k = 1) /\ cmd'.ids = Append(s, k)
            /\ cmd'.given = [g EXCEPT ![a] = Append(@, This)]
        BY <3>1 DEF Cmd
      <3>3. Emptied' => Emptied
        BY <2>7, <2>8, <3>1, <3>2 DEF Emptied
      <3>4. ASSUME Emptied PROVE GivenHolds'
        <4>1. GivenHolds
          BY <3>4 DEF GivenOK
        <4>2. This \in Pool /\ This.id = k
          BY <2>1, <2>4, <2>6, <3>1, ThisIsPool
        <4>3. s \in Seq(Nat)
          BY <2>5, ItemsAssumption, SeqWider
        <4>4. QED BY <2>4, <2>5, <2>6, <2>7, <2>16, <3>2, <4>1, <4>2, <4>3, GivenPush
      <3>5. QED BY <3>3, <3>4 DEF GivenOK
    <2>17. QED BY <1>4, <2>10, <2>11, <2>12, <2>13, <2>14, <2>15, <2>16
  <1>5. QED BY <1>1, <1>2, <1>3, <1>4 DEF ListNext

-----------------------------------------------------------------------------
(* gPoolSpecifyConf *)

LEMMA IdsOfFacts ==
  ASSUME NEW q \in Seq(Pool)
  PROVE  Len(IdsOf(q)) = Len(q) /\ DOMAIN IdsOf(q) = DOMAIN q /\ \A i \in DOMAIN q : IdsOf(q)[i] = q[i].id
  <1>1. Len(q) \in Nat /\ DOMAIN q = 1 .. Len(q)
    OBVIOUS
  <1>2. IdsOf(q) = [i \in 1 .. Len(q) |-> q[i].id]
    BY <1>1 DEF IdsOf
  <1>3. \A i \in 1 .. Len(q) : q[i].id \in 0 .. MaxItems
    <2>1. \A i \in 1 .. Len(q) : q[i] \in Pool
      BY <1>1
    <2>2. QED BY <2>1 DEF Pool
  <1>4. Len(IdsOf(q)) = Len(q)
    BY <1>1, <1>2, <1>3
  <1>5. QED BY <1>1, <1>2, <1>4

\* SetSpecifyPoolMonitor finds every pool the command gave.
LEMMA CopiedIs ==
  ASSUME ListsOK, IdsOK, GivenHolds, NEW a \in Algos, cmd.given[a] \in Seq(Pool)
  PROVE  Copied(a) = cmd.given[a] /\ Len(Looked(a)) = Len(cmd.given[a])
  <1>1. PICK q \in Seq(Pool) : q = cmd.given[a]
    OBVIOUS
  <1>2. Pools(a) = q /\ Looked(a) = IdsOf(q)
    BY <1>1 DEF GivenHolds
  <1>3. /\ Len(Chain(a)) \in Nat /\ DOMAIN q = 1 .. Len(Chain(a))
        /\ \A i \in 1 .. Len(Chain(a)) : q[i] = val[Chain(a)[i]]
    BY <1>2, PoolsNow DEF PoolsAre
  <1>4. /\ Len(IdsOf(q)) = Len(q) /\ DOMAIN IdsOf(q) = DOMAIN q
        /\ \A i \in DOMAIN q : IdsOf(q)[i] = q[i].id
    BY IdsOfFacts
  <1>5. ASSUME NEW i \in DOMAIN q
        PROVE  val[CHOOSE x \in Found(a, IdsOf(q)[i]) : TRUE] = q[i]
    <2>1. Chain(a)[i] \in Elems(Chain(a)) /\ Elems(Chain(a)) \subseteq used /\ q[i] = val[Chain(a)[i]]
      BY <1>3, ChainFacts
    <2>2. Found(a, IdsOf(q)[i]) = {x \in Elems(Chain(a)) : val[x].id = q[i].id}
      BY <1>4, FoundIs
    <2>3. Found(a, IdsOf(q)[i]) = {Chain(a)[i]}
      BY <2>1, <2>2 DEF IdsOK
    <2>4. (CHOOSE x \in Found(a, IdsOf(q)[i]) : TRUE) = Chain(a)[i]
      BY <2>3
    <2>5. QED BY <2>1, <2>4
  <1>6. Copied(a) = [i \in DOMAIN IdsOf(q) |-> val[CHOOSE x \in Found(a, IdsOf(q)[i]) : TRUE]]
    BY <1>2 DEF Copied
  <1>7. Copied(a) = [i \in DOMAIN q |-> q[i]]
    BY <1>4, <1>5, <1>6
  <1>8. q = [i \in DOMAIN q |-> q[i]]
    OBVIOUS
  <1>9. QED BY <1>1, <1>2, <1>4, <1>7, <1>8

LEMMA LookUpIs ==
  ASSUME ListsOK, CmdOK, IdsOK, GivenOK, LookUp
  PROVE  /\ cmd.given \in [Algos -> Seq(Pool)]
         /\ specify' = IF \E a \in Algos : Len(cmd.given[a]) > MaxPools THEN NoPools ELSE cmd.given
  <1>1. cmd.named /\ cmd # Idle
    BY DEF LookUp, Idle
  <1>2. GivenHolds
    BY <1>1 DEF GivenOK, Emptied
  <1>3. cmd.given \in [Algos -> Seq(Pool)]
    BY <1>1, CmdTake DEF CmdFits
  <1>4. \A a \in Algos : Copied(a) = cmd.given[a] /\ Len(Looked(a)) = Len(cmd.given[a])
    BY <1>2, <1>3, CopiedIs
  <1>5. specify' = IF \E a \in Algos : Len(Looked(a)) > MaxPools
                   THEN NoPools ELSE [a \in Algos |-> Copied(a)]
    BY DEF LookUp
  <1>6. [a \in Algos |-> Copied(a)] = cmd.given
    BY <1>3, <1>4
  <1>7. QED BY <1>3, <1>4, <1>5, <1>6

LEMMA StepSpecify ==
  ASSUME ListsOK, CmdOK, IdsOK, GivenOK, SpecifyOK, [ListNext]_listVars
  PROVE  SpecifyOK'
  <1>1. CASE LookUp
    <2>1. specify' = NoPools \/ (specify' = cmd.given /\ cmd.given \in [Algos -> Seq(Pool)])
      BY <1>1, LookUpIs
    <2>2. CASE specify' = NoPools
      BY <2>2 DEF SpecifyOK, NoPools
    <2>3. CASE specify' = cmd.given /\ cmd.given \in [Algos -> Seq(Pool)]
      <3>1. \A a \in Algos : specify'[a] \in Seq(Pool)
        BY <2>3
      <3>2. \A q \in Seq(Pool) : \A i \in DOMAIN q : q[i] \in Pool
        OBVIOUS
      <3>3. QED BY <3>1, <3>2 DEF SpecifyOK
    <2>4. QED BY <2>1, <2>2, <2>3
  <1>2. CASE UNCHANGED specify
    BY <1>2 DEF SpecifyOK
  <1>3. QED BY <1>1, <1>2 DEF ListNext, Begin, ItemBroken, ItemRead, DeleteFirst, Deleted, AddRefused,
                              AddUnlinks, AddPuts, EndUnnamed, listVars

-----------------------------------------------------------------------------
LEMMA InitListsInv == ListInit => ListsInv
  <1> SUFFICES ASSUME ListInit PROVE ListsInv
    OBVIOUS
  <1>1. ListsOK /\ CmdOK
    BY InitLists, InitCmd
  <1>2. cmd = Idle /\ used = {} /\ specify = NoPools
    BY DEF ListInit
  <1>3. val \in [Nodes -> Pool]
    BY ItemsAssumption DEF ListInit, Pool
  <1>4. IdsOK
    BY <1>2, <1>3 DEF IdsOK, Idle
  <1>5. GivenOK /\ SpecifyOK
    BY <1>2 DEF GivenOK, Emptied, SpecifyOK, NoPools
  <1>6. QED BY <1>1, <1>4, <1>5 DEF ListsInv

LEMMA StepListsInv == ListsInv /\ [ListNext]_listVars => ListsInv'
  <1> SUFFICES ASSUME ListsInv, [ListNext]_listVars PROVE ListsInv'
    OBVIOUS
  <1>1. ListsOK /\ CmdOK /\ IdsOK /\ GivenOK /\ SpecifyOK
    BY DEF ListsInv
  <1>2. ListsOK' /\ CmdOK' /\ IdsOK'
    BY <1>1, StepLists, StepCmd, StepIds
  <1>3. GivenOK' /\ SpecifyOK'
    BY <1>1, <1>2, StepGiven, StepSpecify
  <1>4. QED BY <1>2, <1>3 DEF ListsInv

LEMMA ListsInvariant == ListSpec => []ListsInv
  <1>1. QED BY InitListsInv, StepListsInv, PTL DEF ListSpec

LEMMA ListsInvLinked == ListsInv => WellLinked
  <1> SUFFICES ASSUME ListsInv PROVE WellLinked
    OBVIOUS
  <1>1. ListsOK /\ IdsOK /\ SpecifyOK
    BY DEF ListsInv
  <1>2. "BTC" \in Algos /\ "LTC" \in Algos
    BY DEF Algos
  <1>3. ASSUME NEW a \in Algos
        PROVE  /\ Members(a) = Elems(Chain(a)) /\ Elems(Chain(a)) \subseteq Nodes
               /\ Len(Chain(a)) = list[a].len
               /\ list[a].tail = IF Chain(a) = <<>> THEN Null ELSE Chain(a)[Len(Chain(a))]
               /\ Cardinality(Members(a)) = Len(Chain(a))
               /\ \A i \in DOMAIN Chain(a) : prev[Chain(a)[i]] = IF i = 1 THEN Null ELSE Chain(a)[i - 1]
               /\ list[a] \in [head : Nodes \cup {Null}, tail : Nodes \cup {Null}, len : 0 .. Cardinality(Nodes)]
    <2>1. /\ Linked(list[a], next, prev, Chain(a)) /\ Chain(a) \in Seq(Nodes) /\ Len(Chain(a)) \in Nat
          /\ DOMAIN Chain(a) = 1 .. Len(Chain(a)) /\ list[a].len = Len(Chain(a))
          /\ \A i, j \in 1 .. Len(Chain(a)) : Chain(a)[i] = Chain(a)[j] => i = j
          /\ \A i \in 1 .. Len(Chain(a)) : Chain(a)[i] \in Nodes
      BY <1>1, ChainFacts
    <2>2. Members(a) = Elems(Chain(a)) /\ Elems(Chain(a)) \subseteq Nodes
      BY <2>1 DEF Members, Elems
    <2>3. list[a].tail = IF Len(Chain(a)) = 0 THEN Null ELSE Chain(a)[Len(Chain(a))]
      BY <2>1, LinkedFacts
    <2>4. Len(Chain(a)) = 0 <=> Chain(a) = <<>>
      BY <2>1, EmptySeq
    <2>5. /\ Cardinality(Nodes) \in Nat /\ Len(Chain(a)) <= Cardinality(Nodes)
          /\ Cardinality(Elems(Chain(a))) = Len(Chain(a))
      BY <2>1, LinkedLength
    <2>6. \A i \in 1 .. Len(Chain(a)) : prev[Chain(a)[i]] = IF i = 1 THEN Null ELSE Chain(a)[i - 1]
      BY <2>1 DEF Linked
    <2>7. list[a] \in [head : Nodes \cup {Null}, tail : Nodes \cup {Null}, len : Nat]
      BY <1>1 DEF ListsOK
    <2>8. list[a].len \in 0 .. Cardinality(Nodes)
      BY <2>1, <2>5
    <2>9. list[a] \in [head : Nodes \cup {Null}, tail : Nodes \cup {Null}, len : 0 .. Cardinality(Nodes)]
      <3>1. PICK e : e = list[a]
        OBVIOUS
      <3>2. e \in [head : Nodes \cup {Null}, tail : Nodes \cup {Null}, len : Nat] /\ e.len \in 0 .. Cardinality(Nodes)
        BY <2>7, <2>8, <3>1
      <3>3. QED BY <3>1, <3>2
    <2>10. QED BY <2>1, <2>2, <2>3, <2>4, <2>5, <2>6, <2>9
  <1>4. used = Members("BTC") \cup Members("LTC") /\ Members("BTC") \cap Members("LTC") = {} /\ used \subseteq Nodes
    BY <1>1, <1>2, <1>3 DEF ListsOK
  <1>5. ListTypeOK
    BY <1>1, <1>3, <1>4 DEF ListTypeOK, ListsOK, IdsOK, SpecifyOK
  <1>6. QED BY <1>3, <1>4, <1>5 DEF WellLinked

\* For any number of nodes, items and pools per algorithm, the pointers of
\* list.c give two lists which share the allocated nodes out.
THEOREM ListsStayLinked == ListSpec => []WellLinked
  <1>1. QED BY ListsInvariant, ListsInvLinked, PTL

\* gPoolSpecifyConf gets the pools of the command and no others.
THEOREM SpecifyTakesCommand == ListSpec => SpecifyIsCommand
  <1>1. ASSUME ListsInv, [ListNext]_listVars, cmd # Idle, cmd' = Idle, cmd.named
        PROVE  specify' = IF \E a \in Algos : Len(cmd.given[a]) > MaxPools THEN NoPools ELSE cmd.given
    <2>1. CASE LookUp
      BY <1>1, <2>1, LookUpIs DEF ListsInv
    <2>2. CASE EndUnnamed
      BY <1>1, <2>2 DEF EndUnnamed
    <2>3. CASE UNCHANGED listVars
      BY <1>1, <2>3 DEF listVars
    <2>4. CASE Begin
      BY <1>1, <2>4 DEF Begin
    <2>5. CASE ItemBroken \/ ItemRead \/ Deleted \/ AddRefused \/ DeleteFirst \/ (\E b \in Algos : AddUnlinks(b)) \/ AddPuts
      <3>1. PICK p, k, l, a, m, s, g : cmd = Cmd(p, k, l, a, m, s, g) /\ CmdFits(p, k, l, a, m, s, g)
        BY <1>1, CmdTake DEF ListsInv
      <3>2. CmdMoved(p, k, l, a, m, s, g)
        BY <1>1, <3>1, CmdMoves DEF ListsInv
      <3>3. \A q, kk, ll, aa, mm, ss, gg : q \in {"item", "delete", "add", "put"} => Cmd(q, kk, ll, aa, mm, ss, gg) # Idle
        <4>1. ASSUME NEW q, NEW kk, NEW ll, NEW aa, NEW mm, NEW ss, NEW gg, q \in {"item", "delete", "add", "put"}
              PROVE  Cmd(q, kk, ll, aa, mm, ss, gg) # Idle
          <5>1. Cmd(q, kk, ll, aa, mm, ss, gg).at = q /\ Idle.at = "idle" /\ q # "idle"
            BY <4>1 DEF Cmd, Idle
          <5>2. QED BY <5>1
        <4>2. QED BY <4>1
      <3>4. cmd' # Idle
        BY <1>1, <2>5, <3>2, <3>3 DEF CmdMoved
      <3>5. QED BY <1>1, <3>4
    <2>6. QED BY <1>1, <2>1, <2>2, <2>3, <2>4, <2>5 DEF ListNext
  <1>2. ListsInv /\ [ListNext]_listVars =>
          [cmd # Idle /\ cmd' = Idle /\ cmd.named =>
             specify' = IF \E a \in Algos : Len(cmd.given[a]) > MaxPools THEN NoPools ELSE cmd.given]_listVars
    BY <1>1
  <1>3. QED BY <1>2, ListsInvariant, PTL DEF ListSpec, SpecifyIsCommand

-----------------------------------------------------------------------------
(* The lists as sequences *)

Seen == [a \in Algos |-> [i \in DOMAIN Chain(a) |-> val[Chain(a)[i]]]]

LEMMA SeenAre == \A a \in Algos : Seen[a] = Pools(a) /\ Seen'[a] = Pools(a)'
  BY DEF Seen, Pools

LEMMA SeenSame ==
  ASSUME \A a \in Algos : Pools(a)' = Pools(a)
  PROVE  Seen' = Seen
  BY DEF Seen, Pools

LEMMA SeenEdit ==
  ASSUME NEW a \in Algos, Pools(Other(a))' = Pools(Other(a))
  PROVE  Seen' = [Seen EXCEPT ![a] = Pools(a)']
  <1>1. \A b \in Algos : b = a \/ b = Other(a)
    BY AlgoFacts
  <1>2. \A b \in Algos : Seen'[b] = [Seen EXCEPT ![a] = Pools(a)'][b]
    <2>1. \A b \in Algos : Seen[b] = Pools(b) /\ Seen'[b] = Pools(b)'
      BY SeenAre
    <2>2. ASSUME NEW b \in Algos PROVE [Seen EXCEPT ![a] = Pools(a)'][b] = IF b = a THEN Pools(a)' ELSE Seen[b]
      BY DEF Seen
    <2>3. QED BY <1>1, <2>1, <2>2
  <1>3. Seen' = [b \in Algos |-> Seen'[b]]
    BY DEF Seen
  <1>4. [Seen EXCEPT ![a] = Pools(a)'] = [b \in Algos |-> [Seen EXCEPT ![a] = Pools(a)'][b]]
    BY DEF Seen
  <1>5. QED BY <1>2, <1>3, <1>4

\* Taking a node out of a chain takes its pool out of the sequence.
LEMMA ValuesCut ==
  ASSUME NEW c \in Seq(Nodes), NEW k \in 1 .. Len(c), NEW v \in [Nodes -> Pool]
  PROVE  Values(v, Cut(c, k)) = Cut(Values(v, c), k)
  <1>1. Len(c) \in Nat /\ DOMAIN c = 1 .. Len(c) /\ \A i \in 1 .. Len(c) : c[i] \in Nodes
    OBVIOUS
  <1>2. Values(v, c) \in Seq(Pool) /\ Len(Values(v, c)) = Len(c) /\ \A i \in 1 .. Len(c) : Values(v, c)[i] = v[c[i]]
    BY <1>1 DEF Values
  <1>3. Values(v, Cut(c, k)) = [j \in 1 .. Len(c) - 1 |-> v[Cut(c, k)[j]]]
    BY DEF Values, Cut
  <1>4. ASSUME NEW j \in 1 .. Len(c) - 1
        PROVE  v[Cut(c, k)[j]] = IF j < k THEN Values(v, c)[j] ELSE Values(v, c)[j + 1]
    <2>1. j \in 1 .. Len(c) /\ j + 1 \in 1 .. Len(c)
      BY <1>1
    <2>2. Cut(c, k)[j] = IF j < k THEN c[j] ELSE c[j + 1]
      BY DEF Cut
    <2>3. Values(v, c)[j] = v[c[j]] /\ Values(v, c)[j + 1] = v[c[j + 1]]
      BY <1>2, <2>1
    <2>4. QED BY <2>2, <2>3
  <1>5. QED BY <1>2, <1>3, <1>4 DEF Cut

LEMMA CutFirst ==
  ASSUME NEW q \in Seq(Pool), 1 \in 1 .. Len(q)
  PROVE  Cut(q, 1) = Tail(q) /\ q # <<>>
  <1>1. Len(q) \in Nat /\ Len(q) # 0
    OBVIOUS
  <1>2. q # <<>>
    BY <1>1, EmptySeq
  <1>3. Tail(q) \in Seq(Pool) /\ Len(Tail(q)) = Len(q) - 1 /\ \A i \in 1 .. Len(q) - 1 : Tail(q)[i] = q[i + 1]
    BY <1>1, <1>2, HeadTailProperties
  <1>4. Tail(q) = [i \in 1 .. Len(q) - 1 |-> Tail(q)[i]]
    <2>1. PICK t : t = Tail(q)
      OBVIOUS
    <2>2. t \in Seq(Pool) /\ Len(t) = Len(q) - 1
      BY <1>3, <2>1
    <2>3. t = [i \in 1 .. Len(t) |-> t[i]]
      BY <2>2
    <2>4. QED BY <2>1, <2>2, <2>3
  <1>5. Cut(q, 1) = [i \in 1 .. Len(q) - 1 |-> q[i + 1]]
    BY DEF Cut
  <1>6. QED BY <1>2, <1>3, <1>4, <1>5

LEMMA PoolsValues == \A a : Pools(a) = Values(val, Chain(a)) /\ Pools(a)' = Values(val', Chain(a)')
  BY DEF Pools, Values

LEMMA SeenCut ==
  ASSUME ListsOK, IdsOK, NEW a \in Algos, NEW k \in 1 .. Len(Chain(a)), ListRemove(a, Chain(a)[k])
  PROVE  /\ Pools(a)' = Cut(Pools(a), k) /\ Pools(Other(a))' = Pools(Other(a))
         /\ Seen' = [Seen EXCEPT ![a] = Cut(Seen[a], k)]
  <1>1. val' = val /\ Chain(a)' = Cut(Chain(a), k) /\ Chain(Other(a))' = Chain(Other(a))
    BY CutLists
  <1>2. Chain(a) \in Seq(Nodes) /\ val \in [Nodes -> Pool]
    BY ChainFacts DEF IdsOK
  <1>3. Pools(a)' = Cut(Pools(a), k)
    BY <1>1, <1>2, PoolsValues, ValuesCut
  <1>4. Pools(Other(a))' = Pools(Other(a))
    BY <1>1, PoolsValues
  <1>5. QED BY <1>3, <1>4, SeenEdit, SeenAre

LEMMA SeenDelete ==
  ASSUME ListsOK, IdsOK, DeleteFirst
  PROVE  \E a \in Algos : Seen[a] # <<>> /\ Seen' = [Seen EXCEPT ![a] = Tail(@)]
  <1>1. PICK a \in Algos : 1 \in 1 .. Len(Chain(a)) /\ ListRemove(a, Chain(a)[1])
    BY DeleteIs
  <1>2. Seen' = [Seen EXCEPT ![a] = Cut(Seen[a], 1)]
    BY <1>1, SeenCut
  <1>3. Seen[a] \in Seq(Pool) /\ Len(Seen[a]) = Len(Chain(a))
    BY PoolsFacts, SeenAre
  <1>4. Cut(Seen[a], 1) = Tail(Seen[a]) /\ Seen[a] # <<>>
    BY <1>1, <1>3, CutFirst
  <1>5. QED BY <1>2, <1>4

LEMMA SeenUnlink ==
  ASSUME ListsOK, IdsOK, NEW a \in Algos, AddUnlinks(a)
  PROVE  \/ Seen' = Seen
         \/ \E i \in DOMAIN Seen[Other(a)] :
                /\ Seen[Other(a)][i].id = cmd.last
                /\ Seen' = [Seen EXCEPT ![Other(a)] = Cut(Seen[Other(a)], i)]
  <1> DEFINE o == Other(a)
  <1>1. o \in Algos
    BY AlgoFacts
  <1>2. CASE UNCHANGED mem
    <2>1. val' = val /\ \A b : Chain(b)' = Chain(b)
      BY <1>2, SameLists DEF mem
    <2>2. QED BY <2>1, SeenSame, PoolsValues
  <1>3. CASE \E x \in Elems(Chain(o)) : val[x].id = cmd.last /\ ListRemove(o, x)
    <2>1. PICK x \in Elems(Chain(o)) : val[x].id = cmd.last /\ ListRemove(o, x)
      BY <1>3
    <2>2. PICK k \in 1 .. Len(Chain(o)) : x = Chain(o)[k]
      BY <2>1 DEF Elems
    <2>3. Seen' = [Seen EXCEPT ![o] = Cut(Seen[o], k)]
      BY <1>1, <2>1, <2>2, SeenCut
    <2>4. k \in DOMAIN Seen[o] /\ Seen[o][k] = val[x]
      BY <1>1, <2>2, PoolsFacts, SeenAre
    <2>5. QED BY <2>1, <2>3, <2>4
  <1>4. QED BY <1>2, <1>3, UnlinkIs

LEMMA SeenPut ==
  ASSUME ListsOK, IdsOK, CmdOK, cmd # Idle, NEW a \in Algos, cmd.algo = a, AddPuts
  PROVE  \/ /\ \A i \in DOMAIN Seen[a] : Seen[a][i].id # This.id
            /\ Seen' = [Seen EXCEPT ![a] = Append(Seen[a], This)]
         \/ /\ \E i \in DOMAIN Seen[a] : Seen[a][i].id = This.id
            /\ Seen' = [Seen EXCEPT ![a] =
                   [i \in DOMAIN Seen[a] |-> IF Seen[a][i].id = This.id THEN This ELSE Seen[a][i]]]
  <1> DEFINE o == Other(a)
  <1>1. a \in Algos /\ o \in Algos /\ o # a
    BY AlgoFacts
  <1>2. /\ Chain(a) \in Seq(Nodes) /\ Chain(o) \in Seq(Nodes)
        /\ Elems(Chain(a)) \subseteq used /\ Elems(Chain(o)) \subseteq used
        /\ Elems(Chain(a)) \cap Elems(Chain(o)) = {} /\ val \in [Nodes -> Pool]
    BY <1>1, ChainFacts, Disjoint DEF IdsOK
  <1>3. /\ Seen[a] = Pools(a) /\ DOMAIN Pools(a) = 1 .. Len(Chain(a))
        /\ \A i \in 1 .. Len(Chain(a)) : Pools(a)[i] = val[Chain(a)[i]]
    BY <1>1, PoolsFacts, SeenAre
  <1>4. This \in Pool
    BY ThisIsPool
  <1>5. ASSUME \A x \in Elems(Chain(a)) : val[x].id # This.id,
               NEW x \in Nodes, ListRpush(a, x, This)
        PROVE  /\ \A i \in DOMAIN Seen[a] : Seen[a][i].id # This.id
               /\ Seen' = [Seen EXCEPT ![a] = Append(Seen[a], This)]
    <2>1. x \notin used /\ Chain(a)' = Append(Chain(a), x) /\ Chain(o)' = Chain(o)
      BY <1>1, <1>5, PushLists
    <2>2. val' = [val EXCEPT ![x] = This]
      BY <1>5 DEF ListRpush
    <2>3. \A y \in used : y \in Nodes => val'[y] = val[y]
      BY <1>2, <2>1, <2>2
    <2>4. val'[x] = This
      BY <1>2, <2>2
    <2>5. KeepsValues(val, val', Chain(a)) /\ KeepsValues(val, val', Chain(o))
      <3>1. \A b \in {a, o} : \A i \in 1 .. Len(Chain(b)) : Chain(b)[i] \in used /\ Chain(b)[i] \in Nodes
        BY <1>1, ChainFacts
      <3>2. QED BY <1>2, <2>3, <3>1 DEF KeepsValues
    <2>6. Pools(a)' = Append(Pools(a), This)
      <3>1. PICK v, w, c, e : v = val /\ w = val' /\ c = Chain(a) /\ e = This
        OBVIOUS
      <3>2. Values(w, Append(c, x)) = Append(Values(v, c), e)
        BY <1>2, <1>4, <2>4, <2>5, <3>1, PoolsPush
      <3>3. QED BY <2>1, <3>1, <3>2, PoolsValues
    <2>7. Pools(o)' = Pools(o)
      <3>1. PICK v, w, c : v = val /\ w = val' /\ c = Chain(o)
        OBVIOUS
      <3>2. c \in Seq(Nodes) /\ \A i \in 1 .. Len(c) : w[c[i]] = v[c[i]]
        BY <1>2, <2>5, <3>1 DEF KeepsValues
      <3>3. DOMAIN c = 1 .. Len(c)
        BY <3>2
      <3>4. Values(w, c) = Values(v, c)
        BY <3>2, <3>3 DEF Values
      <3>5. QED BY <2>1, <3>1, <3>4, PoolsValues
    <2>8. Seen' = [Seen EXCEPT ![a] = Append(Seen[a], This)]
      BY <1>1, <1>3, <2>6, <2>7, SeenEdit
    <2>9. \A i \in DOMAIN Seen[a] : Seen[a][i].id # This.id
      BY <1>3, <1>5 DEF Elems
    <2>10. QED BY <2>8, <2>9
  <1>6. ASSUME \E x \in Elems(Chain(a)) : val[x].id = This.id,
               val' = [x \in Nodes |-> IF x \in Elems(Chain(a)) /\ val[x].id = This.id THEN This ELSE val[x]],
               UNCHANGED <<next, prev, used, list>>
        PROVE  /\ \E i \in DOMAIN Seen[a] : Seen[a][i].id = This.id
               /\ Seen' = [Seen EXCEPT ![a] =
                      [i \in DOMAIN Seen[a] |-> IF Seen[a][i].id = This.id THEN This ELSE Seen[a][i]]]
    <2>1. Chain(a)' = Chain(a) /\ Chain(o)' = Chain(o)
      BY <1>6, SameLists
    <2>2. \A i \in 1 .. Len(Chain(o)) : val'[Chain(o)[i]] = val[Chain(o)[i]]
      <3>1. \A i \in 1 .. Len(Chain(o)) : Chain(o)[i] \in Nodes /\ Chain(o)[i] \notin Elems(Chain(a))
        BY <1>1, <1>2, ChainFacts
      <3>2. QED BY <1>6, <3>1
    <2>3. Pools(o)' = Pools(o)
      <3>1. DOMAIN Chain(o) = 1 .. Len(Chain(o))
        BY <1>1, ChainFacts
      <3>2. [i \in DOMAIN Chain(o) |-> val'[Chain(o)[i]]] = [i \in DOMAIN Chain(o) |-> val[Chain(o)[i]]]
        BY <2>2, <3>1
      <3>3. QED BY <2>1, <3>2 DEF Pools
    <2>4. \A i \in 1 .. Len(Chain(a)) :
             val'[Chain(a)[i]] = IF val[Chain(a)[i]].id = This.id THEN This ELSE val[Chain(a)[i]]
      <3>1. \A i \in 1 .. Len(Chain(a)) : Chain(a)[i] \in Nodes /\ Chain(a)[i] \in Elems(Chain(a))
        BY <1>1, ChainFacts
      <3>2. QED BY <1>6, <3>1
    <2>5. Pools(a)' = [i \in DOMAIN Pools(a) |-> IF Pools(a)[i].id = This.id THEN This ELSE Pools(a)[i]]
      <3>1. Pools(a)' = [i \in DOMAIN Chain(a) |-> val'[Chain(a)[i]]] /\ DOMAIN Chain(a) = 1 .. Len(Chain(a))
        BY <1>2, <2>1 DEF Pools
      <3>2. QED BY <1>3, <2>4, <3>1
    <2>6. \E i \in DOMAIN Seen[a] : Seen[a][i].id = This.id
      BY <1>3, <1>6 DEF Elems
    <2>7. Seen' = [Seen EXCEPT ![a] =
                [i \in DOMAIN Seen[a] |-> IF Seen[a][i].id = This.id THEN This ELSE Seen[a][i]]]
      BY <1>1, <1>3, <2>3, <2>5, SeenEdit
    <2>8. QED BY <2>6, <2>7
  <1>7. QED BY <1>5, <1>6, PutIs

LEMMA SeenBegin ==
  ASSUME ListsOK, IdsOK, Begin
  PROVE  Seen' = [a \in Algos |-> [i \in DOMAIN Seen[a] |-> [Seen[a][i] EXCEPT !.now = FALSE]]]
  <1>1. \A a : Chain(a)' = Chain(a)
    BY SameLists DEF Begin
  <1>2. ASSUME NEW a \in Algos
        PROVE  Seen'[a] = [i \in DOMAIN Seen[a] |-> [Seen[a][i] EXCEPT !.now = FALSE]]
    <2>1. /\ Seen[a] = Pools(a) /\ Seen'[a] = Pools(a)' /\ DOMAIN Pools(a) = 1 .. Len(Chain(a))
          /\ DOMAIN Chain(a) = 1 .. Len(Chain(a))
          /\ \A i \in 1 .. Len(Chain(a)) : Chain(a)[i] \in Nodes /\ Pools(a)[i] = val[Chain(a)[i]]
      BY PoolsFacts, ChainFacts, SeenAre
    <2>2. Pools(a)' = [i \in 1 .. Len(Chain(a)) |-> val'[Chain(a)[i]]]
      BY <1>1, <2>1 DEF Pools
    <2>3. \A x \in Nodes : val'[x] = [val[x] EXCEPT !.now = FALSE]
      BY DEF Begin
    <2>4. \A i \in 1 .. Len(Chain(a)) : val'[Chain(a)[i]] = [Pools(a)[i] EXCEPT !.now = FALSE]
      BY <2>1, <2>3
    <2>5. Pools(a)' = [i \in 1 .. Len(Chain(a)) |-> [Pools(a)[i] EXCEPT !.now = FALSE]]
      BY <2>2, <2>4
    <2>6. QED BY <2>1, <2>5
  <1>3. Seen' = [a \in Algos |-> Seen'[a]]
    BY DEF Seen
  <1>4. QED BY <1>2, <1>3

LEMMA LastCounts ==
  ASSUME CmdOK, cmd.at \in {"add", "put"}
  PROVE  cmd.last \in 1 .. MaxItems /\ cmd # Idle /\ cmd.algo \in Algos
  <1>1. cmd # Idle
    BY DEF Idle
  <1>2. cmd \in Places /\ cmd.last = cmd.k
    BY <1>1 DEF CmdOK
  <1>3. cmd.k \in 1 .. MaxItems + 1 /\ cmd.last \in 0 .. MaxItems /\ cmd.algo \in Algos
    BY <1>2 DEF Places
  <1>4. QED BY <1>1, <1>2, <1>3, ItemsAssumption

LEMMA StepSeen == ListsInv /\ [ListNext]_listVars => [Lists!Next]_Seen
  <1> SUFFICES ASSUME ListsInv, [ListNext]_listVars PROVE Lists!Next \/ Seen' = Seen
    BY DEF Lists!Next
  <1>1. ListsOK /\ CmdOK /\ IdsOK
    BY DEF ListsInv
  <1>2. ASSUME UNCHANGED mem PROVE Seen' = Seen
    <2>1. val' = val /\ \A b : Chain(b)' = Chain(b)
      BY <1>1, <1>2, SameLists DEF mem
    <2>2. QED BY <2>1, SeenSame, PoolsValues
  <1>3. CASE Begin
    <2>1. Lists!Age
      BY <1>1, <1>3, SeenBegin DEF Lists!Age, Seen, Lists!Algos, Algos
    <2>2. QED BY <2>1 DEF Lists!Next
  <1>4. CASE ItemBroken \/ ItemRead \/ Deleted \/ AddRefused \/ EndUnnamed \/ LookUp
    BY <1>2, <1>4 DEF ItemBroken, ItemRead, Deleted, AddRefused, EndUnnamed, LookUp
  <1>5. CASE UNCHANGED listVars
    BY <1>2, <1>5 DEF listVars, mem
  <1>6. CASE DeleteFirst
    <2>1. PICK a \in Algos : Seen[a] # <<>> /\ Seen' = [Seen EXCEPT ![a] = Tail(@)]
      BY <1>1, <1>6, SeenDelete
    <2>2. Lists!DropFirst(a)
      BY <2>1 DEF Lists!DropFirst, Seen
    <2>3. QED BY <2>2 DEF Lists!Next, Lists!Algos, Algos
  <1>7. ASSUME NEW a \in Algos, AddUnlinks(a) PROVE Lists!Next \/ Seen' = Seen
    <2>1. cmd.at = "add"
      BY <1>7 DEF AddUnlinks
    <2>2. cmd.last \in 1 .. MaxItems
      BY <1>1, <2>1, LastCounts
    <2>3. CASE \E i \in DOMAIN Seen[Other(a)] :
                  /\ Seen[Other(a)][i].id = cmd.last
                  /\ Seen' = [Seen EXCEPT ![Other(a)] = Cut(Seen[Other(a)], i)]
      <3>1. PICK id \in 1 .. MaxItems : cmd.last = id
        BY <2>2
      <3>2. PICK o \in Algos : Other(a) = o
        BY AlgoFacts
      <3>3. \E i \in DOMAIN Seen[o] : Seen[o][i].id = id /\ Seen' = [Seen EXCEPT ![o] = Cut(Seen[o], i)]
        BY <2>3, <3>1, <3>2
      <3>4. Lists!Drop(o, id)
        BY <3>3 DEF Lists!Drop, Lists!Without, Cut, Seen
      <3>5. QED BY <3>4 DEF Lists!Next, Lists!Algos, Algos
    <2>4. QED BY <1>1, <1>7, <2>3, SeenUnlink
  <1>8. CASE AddPuts
    <2>1. cmd.at = "put"
      BY <1>8 DEF AddPuts
    <2>2. cmd.last \in 1 .. MaxItems /\ cmd # Idle /\ cmd.algo \in Algos
      BY <1>1, <2>1, LastCounts
    <2>0. PICK a \in Algos : cmd.algo = a
      BY <2>2
    <2> PICK p : p = This
      OBVIOUS
    <2>3. \A i \in DOMAIN Seen[Other(a)] : Seen[Other(a)][i].id # This.id
      <3>1. \A x \in Elems(Chain(Other(a))) : val[x].id # cmd.last
        BY <1>1, <2>0, <2>1 DEF IdsOK
      <3>2. /\ DOMAIN Seen[Other(a)] = 1 .. Len(Chain(Other(a)))
            /\ \A i \in 1 .. Len(Chain(Other(a))) : Seen[Other(a)][i] = val[Chain(Other(a))[i]]
        BY <1>1, AlgoFacts, PoolsFacts, SeenAre
      <3>3. QED BY <3>1, <3>2, ThisIs DEF Elems
    <2>4. \/ /\ \A i \in DOMAIN Seen[a] : Seen[a][i].id # This.id
             /\ Seen' = [Seen EXCEPT ![a] = Append(Seen[a], This)]
          \/ /\ \E i \in DOMAIN Seen[a] : Seen[a][i].id = This.id
             /\ Seen' = [Seen EXCEPT ![a] =
                    [i \in DOMAIN Seen[a] |-> IF Seen[a][i].id = This.id THEN This ELSE Seen[a][i]]]
      BY <1>1, <1>8, <2>0, <2>2, SeenPut
    <2>5. Lists!Put(a, p)
      <3>1. p.id \notin Lists!Ids(Seen[Lists!Other(a)])
        BY <2>3 DEF Lists!Ids, Lists!Other, Other, Lists!Algos, Algos
      <3>2. p.id \in Lists!Ids(Seen[a]) <=> \E i \in DOMAIN Seen[a] : Seen[a][i].id = p.id
        BY DEF Lists!Ids
      <3>3. Seen' = [Seen EXCEPT ![a] =
                IF p.id \in Lists!Ids(Seen[a])
                THEN [i \in DOMAIN Seen[a] |-> IF Seen[a][i].id = p.id THEN p ELSE Seen[a][i]]
                ELSE Append(Seen[a], p)]
        BY <2>4, <3>2
      <3>4. QED BY <3>1, <3>3 DEF Lists!Put, Seen
    <2>6. PICK id \in 1 .. MaxItems : p = [id |-> id, now |-> TRUE]
      BY <2>2, ThisIs
    <2>7. Lists!Put(a, [id |-> id, now |-> TRUE])
      BY <2>5, <2>6
    <2>8. QED BY <2>7 DEF Lists!Next, Lists!Algos, Algos
  <1>9. QED BY <1>3, <1>4, <1>5, <1>6, <1>7, <1>8 DEF ListNext

LEMMA InitSeen == ListInit => Lists!Init
  <1> SUFFICES ASSUME ListInit PROVE Lists!Init
    OBVIOUS
  <1>1. \A a \in Algos : Chain(a) = <<>>
    BY InitLists
  <1>2. QED BY <1>1 DEF Lists!Init, Lists!Algos, Algos

\* What list.c does to its pointers is, to ParseSetPoolCommand and
\* SetSpecifyPoolMonitor, a step on two sequences in which each id is once: an
\* append, an overwrite in place, or one pool taken out.
THEOREM ListsAreSequences == ListSpec => ImplementsSequences
  <1>1. QED BY InitSeen, StepSeen, ListsInvariant, PTL DEF ListSpec, ImplementsSequences, Lists!Spec, Seen

=============================================================================
