------------------------------ MODULE CirQueue ------------------------------
(***************************************************************************)
(* The circular queue between the receiving thread and a parsing thread    *)
(* (fifo_queue/circular_queue.c).  One thread, PollRecvProcess, pushes the *)
(* datagrams it receives; one thread, LoginParseProcess for gpLoginQue and *)
(* CommandParseProcess for gpCommandQue, pops them.  Neither takes a lock, *)
(* so a push and a pop interleave at their accesses to front, rear and to  *)
(* the slots; every action below is one such access.                       *)
(*                                                                         *)
(* A datagram is its serial number, 1..MaxPush; the zero-filled buffer     *)
(* that memset leaves in a slot is Blank.  front and pfront are in         *)
(* {-1} \cup 0..Capacity-1: -1 is the code's mark for "empty".             *)
(***************************************************************************)
EXTENDS Integers, Sequences

CONSTANTS
  Capacity,   \* elements in the ring (MAX_BUF_NUM in the code)
  MaxPush     \* bound on the number of calls to cirqueue_push

ASSUME CapacityAssumption == Capacity \in Nat \ {0}
ASSUME MaxPushAssumption  == MaxPush \in Nat

VARIABLES
  data,       \* queue->data, one datagram per slot
  front,      \* queue->front
  rear,       \* queue->rear
  ppc,        \* where the pushing thread is
  pfront,     \* the front the push in progress loaded for isFull
  prear,      \* the rear the push in progress loaded to advance it
  pushes,     \* serial number of the last datagram offered to the queue
  cpc,        \* where the popping thread is
  result,     \* the buffer the pop in progress copied out
  accepted,   \* history: datagrams whose cirqueue_push returned 0, in order
  delivered,  \* history: datagrams cirqueue_pop returned, blank ones left out
  clash       \* history: a push and a pop have been in progress together
              \* while the ring held at most one datagram or was full

ring  == <<data, front, rear>>
pvars == <<ppc, pfront, prear, pushes, accepted>>
cvars == <<cpc, result, delivered>>
vars  == <<ring, pvars, cvars, clash>>

Blank   == 0
Slots   == 0 .. Capacity - 1
Serials == 1 .. MaxPush

\* Defect: the index does not wrap.
AdvanceNoWrap(i) == i + 1

\* (i + 1) % queue->capacity
Advance(i) == IF i + 1 = Capacity THEN 0 ELSE i + 1

Init ==
  /\ data = [i \in Slots |-> Blank]
  /\ front = -1
  /\ rear = 0
  /\ ppc = "idle" /\ pfront = -1 /\ prear = 0 /\ pushes = 0
  /\ cpc = "idle" /\ result = Blank
  /\ accepted = <<>> /\ delivered = <<>>
  /\ clash = FALSE

-----------------------------------------------------------------------------
(* cirqueue_push, called by PollRecvProcess for each datagram received.     *)

\* isFull loads front; the value serves the later test for -1 too.
PushLoadFront ==
  /\ ppc = "idle"
  /\ pushes < MaxPush
  /\ pushes' = pushes + 1
  /\ pfront' = front
  /\ ppc' = "full?"
  /\ UNCHANGED <<ring, prear, accepted, cvars>>

\* front == rear: return 1, and PollRecvProcess drops the datagram.
PushRefuse ==
  /\ ppc = "full?"
  /\ pfront = rear
  /\ ppc' = "idle"
  /\ UNCHANGED <<ring, pfront, prear, pushes, accepted, cvars>>

PushRoom ==
  /\ ppc = "full?"
  /\ pfront # rear
  /\ ppc' = IF pfront = -1 THEN "mark" ELSE "copy"
  /\ UNCHANGED <<ring, pfront, prear, pushes, accepted, cvars>>

\* queue->front = 0
PushMarkNonEmpty ==
  /\ ppc = "mark"
  /\ front' = 0
  /\ ppc' = "copy"
  /\ UNCHANGED <<data, rear, pfront, prear, pushes, accepted, cvars>>

\* memcpy into the slot rear names now
PushCopy ==
  /\ ppc = "copy"
  /\ data' = [data EXCEPT ![rear] = pushes]
  /\ ppc' = "load"
  /\ UNCHANGED <<front, rear, pfront, prear, pushes, accepted, cvars>>

PushLoadRear ==
  /\ ppc = "load"
  /\ prear' = rear
  /\ ppc' = "store"
  /\ UNCHANGED <<ring, pfront, pushes, accepted, cvars>>

\* queue->rear = (rear + 1) % capacity; return 0
PushStoreRear ==
  /\ ppc = "store"
  /\ rear' = Advance(prear)
  /\ accepted' = Append(accepted, pushes)
  /\ ppc' = "idle"
  /\ UNCHANGED <<data, front, pfront, prear, pushes, cvars>>

Push ==
  \/ PushLoadFront
  \/ PushRefuse
  \/ PushRoom
  \/ PushMarkNonEmpty
  \/ PushCopy
  \/ PushLoadRear
  \/ PushStoreRear

-----------------------------------------------------------------------------
(* cirqueue_pop, called by the parsing thread in its loop.  A pop that      *)
(* finds the queue empty returns NULL and changes nothing, so it is no step. *)

\* Defect: a full ring, front = rear, is taken for an empty one.
PopCopyNotFull ==
  /\ cpc = "idle"
  /\ front # -1 /\ front # rear
  /\ result' = data[front]
  /\ cpc' = "clear"
  /\ UNCHANGED <<ring, pvars, delivered>>

\* Not empty: calloc and memcpy the slot out.
PopCopy ==
  /\ cpc = "idle"
  /\ front # -1
  /\ result' = data[front]
  /\ cpc' = "clear"
  /\ UNCHANGED <<ring, pvars, delivered>>

\* Defect: the slot is not zeroed.
PopClearNothing ==
  /\ cpc = "clear"
  /\ cpc' = "advance"
  /\ UNCHANGED <<ring, pvars, result, delivered>>

\* memset the slot to zero
PopClear ==
  /\ cpc = "clear"
  /\ data' = [data EXCEPT ![front] = Blank]
  /\ cpc' = "advance"
  /\ UNCHANGED <<front, rear, pvars, result, delivered>>

PopAdvance ==
  /\ cpc = "advance"
  /\ front' = Advance(front)
  /\ cpc' = "empty?"
  /\ UNCHANGED <<data, rear, pvars, result, delivered>>

\* front == rear: the queue has become empty
PopDrained ==
  /\ cpc = "empty?"
  /\ front = rear
  /\ cpc' = "resetFront"
  /\ UNCHANGED <<ring, pvars, result, delivered>>

\* Return result: the parser drops a blank buffer (it splits into no words).
Return ==
  /\ cpc' = "idle"
  /\ result' = Blank
  /\ delivered' = IF result = Blank THEN delivered ELSE Append(delivered, result)

PopMore ==
  /\ cpc = "empty?"
  /\ front # rear
  /\ Return
  /\ UNCHANGED <<ring, pvars>>

\* queue->front = -1
PopResetFront ==
  /\ cpc = "resetFront"
  /\ front' = -1
  /\ cpc' = "resetRear"
  /\ UNCHANGED <<data, rear, pvars, result, delivered>>

\* Defect: only front is reset.
PopResetNoRear ==
  /\ cpc = "resetRear"
  /\ Return
  /\ UNCHANGED <<ring, pvars>>

\* queue->rear = 0
PopResetRear ==
  /\ cpc = "resetRear"
  /\ rear' = 0
  /\ Return
  /\ UNCHANGED <<data, front, pvars>>

Pop ==
  \/ PopCopy
  \/ PopClear
  \/ PopAdvance
  \/ PopDrained
  \/ PopMore
  \/ PopResetFront
  \/ PopResetRear

-----------------------------------------------------------------------------
(* The ends of the ring, where isFull and isEmpty look at both indices.     *)
AtBoundary == front = -1 \/ front = rear \/ Advance(front) = rear

BothBusy == ppc # "idle" /\ cpc # "idle"

Clashing == \/ BothBusy /\ (AtBoundary \/ AtBoundary')
            \/ BothBusy' /\ AtBoundary'

PushStep == Push /\ clash' = (clash \/ Clashing)
PopStep  == Pop /\ clash' = (clash \/ Clashing)

Next == PushStep \/ PopStep

\* Each thread's loop goes on: a push that has begun ends, and the parser pops.
Fairness == WF_vars(PushStep) /\ WF_vars(PopStep)

Spec     == Init /\ [][Next]_vars
FairSpec == Spec /\ Fairness

-----------------------------------------------------------------------------
\* Every variable has its type; front and rear never leave the ring, and
\* front is a slot whenever cirqueue_pop indexes data with it.
TypeOK ==
  /\ data \in [Slots -> Serials \cup {Blank}]
  /\ front \in Slots \cup {-1}
  /\ rear \in Slots
  /\ ppc \in {"idle", "full?", "mark", "copy", "load", "store"}
  /\ pfront \in Slots \cup {-1}
  /\ prear \in Slots
  /\ pushes \in 0 .. MaxPush
  /\ ppc # "idle" => pushes \in Serials
  /\ cpc \in {"idle", "clear", "advance", "empty?", "resetFront", "resetRear"}
  /\ cpc \in {"clear", "advance", "empty?", "resetFront"} => front \in Slots
  /\ result \in Serials \cup {Blank}
  /\ accepted \in Seq(Serials)
  /\ delivered \in Seq(Serials)
  /\ clash \in BOOLEAN

\* Whatever the interleaving of cirqueue_push and cirqueue_pop, a datagram is
\* handed to the parser at most once: no command reply is counted twice.
NeverTwice ==
  \A i, j \in 1 .. Len(delivered) : i # j => delivered[i] # delivered[j]

\* What cirqueue_pop will hand out, oldest first, were nothing to interfere:
\* the datagram being popped, then the slots from front to rear.
Taken == IF cpc \in {"clear", "advance"} THEN Advance(front) ELSE front

\* i % capacity, of an i below twice the capacity
Wrap(i) == IF i < Capacity THEN i ELSE i - Capacity

Count ==
  IF \/ front = -1
     \/ cpc = "idle" /\ ppc \in {"copy", "load", "store"} /\ pfront = -1
  THEN 0
  ELSE IF cpc = "idle" /\ front = rear THEN Capacity
       ELSE Wrap(rear - Taken + Capacity)

Held == [i \in 1 .. Count |-> data[Wrap(Taken + i - 1)]]

Queued == IF cpc = "idle" THEN Held ELSE <<result>> \o Held

\* The queue is a FIFO that loses nothing as long as no push has met a pop at
\* the ends of the ring: all its loss and reordering comes from the unlocked
\* "empty" mark (front = -1, rear = 0), none from the slots or the wrap.
FifoUnlessClash == ~clash => accepted = delivered \o Queued

\* A ring that looks full (front = rear), which after a clash it may do with
\* nothing in it, is drained by the parser: PollRecvProcess is never refused
\* for good.
FullDrains == []<>(front # rear)

\* circular_queue.h:19 says of QuePop: "return the data from the que (FIFO)".
\* Datagrams come out in the order they went in.
FifoOrder ==
  \A i, j \in 1 .. Len(delivered) : i < j => delivered[i] < delivered[j]

=============================================================================
