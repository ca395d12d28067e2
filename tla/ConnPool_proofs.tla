--------------------------- MODULE ConnPool_proofs ---------------------------
(***************************************************************************)
(* Proofs about ConnPool, for a pool of any size and any descriptors: the  *)
(* counter used_slots is exact and no descriptor is in two slots, whatever *)
(* the peers, the user, the callback and the failing calls do; and about   *)
(* its users ShellSessions and MonitorLink: each does with its pool what   *)
(* any user may, and an entry of control_conns is a connection that sent   *)
(* the marker.                                                             *)
(***************************************************************************)
EXTENDS ShellSessions, MonitorLink, FiniteSetTheorems, TLAPS

\* What the operators on the slots preserve of the value of a pool.
Exact(p) == p.used = Cardinality(Held(p))

FdOfOne(p) ==
    /\ \A i, j \in 1 .. Size : p.slots[i].fd = p.slots[j].fd /\ i # j => p.slots[i].fd = NoFd
    /\ \A i \in 1 .. Size : ~Connected(p, i) => p.slots[i].fd = NoFd

GoodPool(p) == p \in PoolStates /\ Exact(p) /\ FdOfOne(p)

LEMMA SlotFields ==
  ASSUME NEW p \in PoolStates
  PROVE  /\ Indices(p) = 1 .. Size
         /\ p = [slots |-> p.slots, used |-> p.used]
         /\ p.slots \in [1 .. Size -> Slot] /\ p.used \in Int
         /\ \A i \in 1 .. Size : /\ p.slots[i] \in Slot
                                 /\ p.slots[i].state \subseteq StateBits
                                 /\ p.slots[i].fd \in Fds \cup {NoFd}
                                 /\ p.slots[i].expire \in Expiries
  BY DEF PoolStates, Indices, Slot

LEMMA HeldFinite ==
  ASSUME NEW p \in PoolStates
  PROVE  Held(p) \subseteq 1 .. Size /\ IsFiniteSet(Held(p)) /\ Cardinality(Held(p)) \in Nat
  <1>1. Held(p) \subseteq 1 .. Size
    BY SlotFields DEF Held
  <1>2. IsFiniteSet(1 .. Size)
    BY FS_Interval, SizeAssumption
  <1>3. QED BY <1>1, <1>2, FS_Subset, FS_CardinalityType

\* A pool that differs in one slot stays good if the counter follows the slot,
\* its descriptor is no other slot's and a free slot has none.
LEMMA SlotChange ==
  ASSUME NEW p, GoodPool(p), NEW q \in PoolStates, NEW i \in 1 .. Size,
         \A j \in 1 .. Size : j # i => q.slots[j] = p.slots[j],
         q.used = p.used + (IF Connected(q, i) THEN 1 ELSE 0) - (IF Connected(p, i) THEN 1 ELSE 0),
         q.slots[i].fd \in {NoFd, p.slots[i].fd} \/ q.slots[i].fd \notin OpenFds(p),
         ~Connected(q, i) => q.slots[i].fd = NoFd
  PROVE  GoodPool(q) /\ OpenFds(q) \subseteq OpenFds(p) \cup {q.slots[i].fd}
  <1>1. p \in PoolStates /\ Indices(p) = 1 .. Size /\ Indices(q) = 1 .. Size
    BY SlotFields DEF GoodPool
  <1>2. \A j \in 1 .. Size : j # i => (Connected(q, j) <=> Connected(p, j))
    BY DEF Connected
  <1>3. Exact(q)
    <2>1. Held(p) \ {i} = Held(q) \ {i}
      BY <1>1, <1>2 DEF Held
    <2>2. /\ Cardinality(Held(p) \ {i}) = Cardinality(Held(p)) - (IF Connected(p, i) THEN 1 ELSE 0)
          /\ Cardinality(Held(q) \ {i}) = Cardinality(Held(q)) - (IF Connected(q, i) THEN 1 ELSE 0)
      <3>1. (i \in Held(p) <=> Connected(p, i)) /\ (i \in Held(q) <=> Connected(q, i))
        BY <1>1 DEF Held
      <3>2. IsFiniteSet(Held(p)) /\ IsFiniteSet(Held(q))
            /\ Cardinality(Held(p)) \in Nat /\ Cardinality(Held(q)) \in Nat
        BY <1>1, HeldFinite
      <3>3. /\ Cardinality(Held(p) \ {i}) = IF i \in Held(p) THEN Cardinality(Held(p)) - 1
                                                              ELSE Cardinality(Held(p))
            /\ Cardinality(Held(q) \ {i}) = IF i \in Held(q) THEN Cardinality(Held(q)) - 1
                                                              ELSE Cardinality(Held(q))
        BY <3>2, FS_RemoveElement
      <3>4. QED BY <3>1, <3>2, <3>3
    <2>3. Cardinality(Held(p)) \in Nat /\ Cardinality(Held(q)) \in Nat
      BY <1>1, HeldFinite
    <2>4. p.used = Cardinality(Held(p))
      BY DEF GoodPool, Exact
    <2> DEFINE P == Cardinality(Held(p))
               Q == Cardinality(Held(q))
               a == IF Connected(p, i) THEN 1 ELSE 0
               b == IF Connected(q, i) THEN 1 ELSE 0
    <2>5. P - a = Q - b /\ q.used = P + b - a
      BY <2>1, <2>2, <2>4
    <2>6. P \in Nat /\ Q \in Nat /\ a \in Int /\ b \in Int
      BY <2>3
    <2>7. q.used = Q
      <3> HIDE DEF P, Q, a, b
      <3>1. QED BY <2>5, <2>6
    <2>8. QED BY <2>7 DEF Exact
  <1>4. FdOfOne(q)
    <2>1. \A j \in 1 .. Size : j # i => q.slots[j].fd = p.slots[j].fd
      OBVIOUS
    <2>2. \A j \in 1 .. Size : p.slots[j].fd \in OpenFds(p) \/ p.slots[j].fd = NoFd
      BY <1>1 DEF OpenFds
    <2>3. \A j \in 1 .. Size : j # i /\ q.slots[i].fd = q.slots[j].fd => q.slots[i].fd = NoFd
      BY <2>1, <2>2 DEF GoodPool, FdOfOne
    <2>4. QED BY <1>2, <2>1, <2>3 DEF GoodPool, FdOfOne
  <1>5. OpenFds(q) \subseteq OpenFds(p) \cup {q.slots[i].fd}
    BY <1>1 DEF OpenFds
  <1>6. QED BY <1>3, <1>4, <1>5 DEF GoodPool

-----------------------------------------------------------------------------
(* The operators on the slots *)

LEMMA FreeSlotFound ==
  ASSUME NEW p, GoodPool(p), NEW i \in FindFreeSlot(p)
  PROVE  i \in 1 .. Size /\ ~Connected(p, i) /\ p.slots[i].fd = NoFd
  <1>1. i \in Indices(p) \ Held(p) /\ Indices(p) = 1 .. Size
    BY SlotFields DEF FindFreeSlot, GoodPool
  <1>2. QED BY <1>1 DEF Held, GoodPool, FdOfOne

\* A slot that is taken: what it becomes, and the pool with it.
Fresh(ttl, fd) == [state |-> {"connected"}, fd |-> fd, expire |-> ttl]

WithTaken(p, i, s) == [slots |-> [p.slots EXCEPT ![i] = s], used |-> p.used + 1]

Opened(p, i, ttl, fd) == [PreConnect(p, i, ttl) EXCEPT !.slots[i].fd = fd]

LEMMA FreshSlot ==
  ASSUME NEW ttl \in {"none", "ahead"}, NEW fd \in Fds \cup {NoFd}
  PROVE  /\ Fresh(ttl, fd) \in Slot /\ Fresh(ttl, fd).fd = fd
         /\ "connected" \in Fresh(ttl, fd).state
  BY DEF Fresh, Slot, StateBits, Expiries

LEMMA WithTakenGood ==
  ASSUME NEW p, GoodPool(p), NEW i \in 1 .. Size, ~Connected(p, i),
         NEW s \in Slot, "connected" \in s.state, s.fd = NoFd \/ s.fd \notin OpenFds(p)
  PROVE  /\ GoodPool(WithTaken(p, i, s)) /\ OpenFds(WithTaken(p, i, s)) \subseteq OpenFds(p) \cup {s.fd}
         /\ Connected(WithTaken(p, i, s), i) /\ WithTaken(p, i, s).slots[i].fd = s.fd
  <1>0. PICK q : q = WithTaken(p, i, s)
    OBVIOUS
  <1>1. p \in PoolStates /\ p.used \in Int
    BY DEF GoodPool, PoolStates
  <1>2. q \in PoolStates
    BY <1>0, <1>1 DEF PoolStates, WithTaken
  <1>3. q.slots[i] = s /\ (\A j \in 1 .. Size : j # i => q.slots[j] = p.slots[j])
    BY <1>0, <1>1 DEF PoolStates, WithTaken
  <1>4. Connected(q, i) /\ q.used = p.used + 1
    BY <1>0, <1>3 DEF Connected, WithTaken
  <1>5. q.used = p.used + (IF Connected(q, i) THEN 1 ELSE 0) - (IF Connected(p, i) THEN 1 ELSE 0)
    BY <1>1, <1>4
  <1>6. q.slots[i].fd \in {NoFd, p.slots[i].fd} \/ q.slots[i].fd \notin OpenFds(p)
    BY <1>3
  <1>7. ~Connected(q, i) => q.slots[i].fd = NoFd
    BY <1>4
  <1>8. GoodPool(q) /\ OpenFds(q) \subseteq OpenFds(p) \cup {q.slots[i].fd}
    BY <1>2, <1>3, <1>5, <1>6, <1>7, SlotChange
  <1>9. QED BY <1>0, <1>3, <1>4, <1>8

LEMMA FdGiven ==
  ASSUME NEW bits, NEW ttl, NEW fd,
         NEW t, t = [state |-> bits, fd |-> NoFd, expire |-> ttl],
         NEW s, s = [state |-> bits, fd |-> fd, expire |-> ttl]
  PROVE  [t EXCEPT !.fd = fd] = s
  BY SMT

LEMMA PreConnectTakes ==
  ASSUME NEW p \in PoolStates, NEW i \in 1 .. Size, NEW ttl
  PROVE  PreConnect(p, i, ttl) = WithTaken(p, i, Fresh(ttl, NoFd))
  <1>1. PreConnect(p, i, ttl) = [p EXCEPT !.slots[i] = Fresh(ttl, NoFd), !.used = @ + 1]
    BY DEF PreConnect, Fresh
  <1>2. PICK f \in [1 .. Size -> Slot], u \in Int : p = [slots |-> f, used |-> u]
    BY SlotFields
  <1>3. QED BY <1>1, <1>2 DEF WithTaken

LEMMA OpenedTakes ==
  ASSUME NEW p \in PoolStates, NEW i \in 1 .. Size, NEW ttl, NEW fd
  PROVE  Opened(p, i, ttl, fd) = WithTaken(p, i, Fresh(ttl, fd))
  <1> DEFINE s == Fresh(ttl, fd)
             t == Fresh(ttl, NoFd)
  <1>1. [t EXCEPT !.fd = fd] = s
    BY FdGiven DEF Fresh
  <1> HIDE DEF s, t
  <1>2. PICK f \in [1 .. Size -> Slot], u \in Int : p = [slots |-> f, used |-> u]
    BY SlotFields
  <1>3. PreConnect(p, i, ttl) = [slots |-> [f EXCEPT ![i] = t], used |-> u + 1]
    BY <1>2, PreConnectTakes DEF WithTaken, t
  <1>4. Opened(p, i, ttl, fd) =
            [slots |-> [[f EXCEPT ![i] = t] EXCEPT ![i] = [@ EXCEPT !.fd = fd]], used |-> u + 1]
    BY <1>3 DEF Opened
  <1>5. [[f EXCEPT ![i] = t] EXCEPT ![i] = [@ EXCEPT !.fd = fd]] = [f EXCEPT ![i] = s]
    BY <1>1
  <1>6. Opened(p, i, ttl, fd) = WithTaken(p, i, s)
    BY <1>2, <1>4, <1>5 DEF WithTaken
  <1>7. QED BY <1>6 DEF s

\* The free slot is taken for a new descriptor.
LEMMA OpenedGood ==
  ASSUME NEW p, GoodPool(p), NEW i \in FindFreeSlot(p), NEW ttl \in {"none", "ahead"},
         NEW fd \in Fds \ OpenFds(p)
  PROVE  /\ GoodPool(Opened(p, i, ttl, fd)) /\ OpenFds(Opened(p, i, ttl, fd)) \subseteq OpenFds(p) \cup {fd}
         /\ i \in 1 .. Size /\ Connected(Opened(p, i, ttl, fd), i)
         /\ Opened(p, i, ttl, fd).slots[i].fd = fd
  <1>1. i \in 1 .. Size /\ ~Connected(p, i) /\ p \in PoolStates
    BY FreeSlotFound DEF GoodPool
  <1>2. PICK s : s = Fresh(ttl, fd)
    OBVIOUS
  <1>3. /\ s \in Slot /\ s.fd = fd /\ "connected" \in s.state
        /\ s.fd = NoFd \/ s.fd \notin OpenFds(p)
    BY <1>2, FreshSlot
  <1>4. /\ GoodPool(WithTaken(p, i, s)) /\ OpenFds(WithTaken(p, i, s)) \subseteq OpenFds(p) \cup {s.fd}
        /\ Connected(WithTaken(p, i, s), i) /\ WithTaken(p, i, s).slots[i].fd = s.fd
    BY <1>1, <1>3, WithTakenGood
  <1>5. Opened(p, i, ttl, fd) = WithTaken(p, i, s)
    BY <1>1, <1>2, OpenedTakes
  <1>6. QED BY <1>1, <1>3, <1>4, <1>5

\* A slot that is released.
LEMMA ReleasedGood ==
  ASSUME NEW p, GoodPool(p), NEW i \in 1 .. Size, Connected(p, i),
         NEW s \in Slot, "connected" \notin s.state, s.fd = NoFd, NEW q,
         q = [slots |-> [p.slots EXCEPT ![i] = s], used |-> p.used - 1]
  PROVE  GoodPool(q) /\ OpenFds(q) \subseteq OpenFds(p) \ {p.slots[i].fd}
  <1>1. p \in PoolStates /\ p.used \in Int
    BY DEF GoodPool, PoolStates
  <1>2. q \in PoolStates
    BY <1>1 DEF PoolStates
  <1>3. q.slots[i] = s /\ (\A j \in 1 .. Size : j # i => q.slots[j] = p.slots[j])
    BY <1>1 DEF PoolStates
  <1>4. ~Connected(q, i) /\ q.used = p.used - 1
    BY <1>3 DEF Connected
  <1>5. q.used = p.used + (IF Connected(q, i) THEN 1 ELSE 0) - (IF Connected(p, i) THEN 1 ELSE 0)
    BY <1>1, <1>4
  <1>6. q.slots[i].fd = NoFd
    BY <1>3
  <1>7. ~Connected(q, i) => q.slots[i].fd = NoFd
    BY <1>6
  <1>8. q.slots[i].fd \in {NoFd, p.slots[i].fd} \/ q.slots[i].fd \notin OpenFds(p)
    BY <1>6
  <1>9. GoodPool(q) /\ OpenFds(q) \subseteq OpenFds(p) \cup {q.slots[i].fd}
    BY <1>2, <1>3, <1>5, <1>7, <1>8, SlotChange
  <1>10. p.slots[i].fd \notin OpenFds(q)
    <2>1. ASSUME NEW j \in 1 .. Size, q.slots[j].fd = p.slots[i].fd, q.slots[j].fd # NoFd PROVE FALSE
      <3>1. CASE j = i
        BY <1>6, <2>1, <3>1
      <3>2. CASE j # i
        BY <1>3, <2>1, <3>2 DEF GoodPool, FdOfOne
      <3>3. QED BY <3>1, <3>2
    <2>2. Indices(q) = 1 .. Size
      BY <1>2, SlotFields
    <2>3. QED BY <2>1, <2>2 DEF OpenFds
  <1>11. NoFd \notin OpenFds(q)
    BY DEF OpenFds
  <1>12. QED BY <1>6, <1>9, <1>10, <1>11

LEMMA CloseGood ==
  ASSUME NEW p, GoodPool(p), NEW i \in 1 .. Size
  PROVE  /\ GoodPool(CloseSlot(p, i))
         /\ OpenFds(CloseSlot(p, i)) \subseteq OpenFds(p)
         /\ Connected(p, i) => p.slots[i].fd \notin OpenFds(CloseSlot(p, i))
  <1>1. CASE ~Connected(p, i)
    BY <1>1 DEF CloseSlot
  <1>2. CASE Connected(p, i)
    <2>1. FreeSlot \in Slot /\ "connected" \notin FreeSlot.state /\ FreeSlot.fd = NoFd
      BY DEF FreeSlot, Slot, StateBits, Expiries
    <2>2. CloseSlot(p, i) = [slots |-> [p.slots EXCEPT ![i] = FreeSlot], used |-> p.used - 1]
      BY <1>2 DEF CloseSlot, GoodPool, PoolStates
    <2>3. QED BY <1>2, <2>1, <2>2, ReleasedGood
  <1>3. QED BY <1>1, <1>2

LEMMA CloseManyGood ==
  ASSUME NEW p, GoodPool(p), NEW S
  PROVE  GoodPool(CloseSlots(p, S)) /\ OpenFds(CloseSlots(p, S)) \subseteq OpenFds(p)
  <1> DEFINE q == CloseSlots(p, S)
  <1>1. p \in PoolStates /\ Indices(p) = 1 .. Size
    BY SlotFields DEF GoodPool
  <1>2. FreeSlot \in Slot /\ "connected" \notin FreeSlot.state /\ FreeSlot.fd = NoFd
    BY DEF FreeSlot, Slot, StateBits, Expiries
  <1>3. \A i \in 1 .. Size : q.slots[i] = IF i \in S /\ Connected(p, i) THEN FreeSlot ELSE p.slots[i]
    BY <1>1 DEF CloseSlots
  <1>4. /\ IsFiniteSet(Held(p)) /\ Cardinality(Held(p)) \in Nat
        /\ Held(p) \cap S = S \cap Held(p)
        /\ Cardinality(Held(p) \cap S) \in Nat
    BY <1>1, HeldFinite, FS_Subset, FS_CardinalityType
  <1>5. q.used = p.used - Cardinality(Held(p) \cap S)
    BY <1>4 DEF CloseSlots
  <1>6. q \in PoolStates
    <2>1. q = [slots |-> q.slots, used |-> q.used] /\ DOMAIN q.slots = 1 .. Size
      BY <1>1 DEF CloseSlots
    <2>2. \A i \in 1 .. Size : q.slots[i] \in Slot
      BY <1>1, <1>2, <1>3, SlotFields
    <2>3. q.slots \in [1 .. Size -> Slot]
      BY <1>1, <2>2 DEF CloseSlots
    <2>4. q.used \in Int
      BY <1>1, <1>4, <1>5, SlotFields
    <2>5. QED BY <2>1, <2>3, <2>4 DEF PoolStates
  <1>7. Held(q) = Held(p) \ S
    BY <1>1, <1>2, <1>3, <1>6, SlotFields DEF Held, Connected
  <1>8. Exact(q)
    BY <1>4, <1>5, <1>7, FS_Difference DEF Exact, GoodPool
  <1>9. FdOfOne(q)
    <2>1. \A i \in 1 .. Size : q.slots[i].fd \in {NoFd, p.slots[i].fd}
      BY <1>2, <1>3
    <2>2. \A i \in 1 .. Size : ~Connected(q, i) => q.slots[i].fd = NoFd
      BY <1>2, <1>3 DEF Connected, GoodPool, FdOfOne
    <2>3. QED BY <2>1, <2>2 DEF FdOfOne, GoodPool
  <1>10. OpenFds(q) \subseteq OpenFds(p)
    BY <1>1, <1>2, <1>3, <1>6, SlotFields DEF OpenFds
  <1>11. QED BY <1>6, <1>8, <1>9, <1>10 DEF GoodPool

\* A slot whose connection goes on: only its expiry or a mark changes.
LEMMA MarkedGood ==
  ASSUME NEW p, GoodPool(p), NEW i \in 1 .. Size, NEW s \in Slot,
         s.fd = p.slots[i].fd, "connected" \in s.state <=> Connected(p, i), NEW q,
         q = [slots |-> [p.slots EXCEPT ![i] = s], used |-> p.used]
  PROVE  GoodPool(q) /\ OpenFds(q) \subseteq OpenFds(p)
  <1>1. p \in PoolStates /\ p.used \in Int /\ Indices(p) = 1 .. Size
    BY SlotFields DEF GoodPool
  <1>2. q \in PoolStates
    BY <1>1 DEF PoolStates
  <1>3. q.slots[i] = s /\ (\A j \in 1 .. Size : j # i => q.slots[j] = p.slots[j])
    BY <1>1 DEF PoolStates
  <1>4. (Connected(q, i) <=> Connected(p, i)) /\ q.used = p.used
    BY <1>3 DEF Connected
  <1>5. ~Connected(q, i) => q.slots[i].fd = NoFd
    BY <1>3, <1>4 DEF GoodPool, FdOfOne
  <1>6. q.used = p.used + (IF Connected(q, i) THEN 1 ELSE 0) - (IF Connected(p, i) THEN 1 ELSE 0)
    BY <1>1, <1>4
  <1>7. q.slots[i].fd = p.slots[i].fd
    BY <1>3
  <1>11. q.slots[i].fd \in {NoFd, p.slots[i].fd} \/ q.slots[i].fd \notin OpenFds(p)
    BY <1>7
  <1>8. GoodPool(q) /\ OpenFds(q) \subseteq OpenFds(p) \cup {q.slots[i].fd}
    BY <1>2, <1>3, <1>5, <1>6, <1>11, SlotChange
  <1>9. p.slots[i].fd \in OpenFds(p) \cup {NoFd} /\ NoFd \notin OpenFds(q)
    BY <1>1 DEF OpenFds
  <1>10. QED BY <1>7, <1>8, <1>9

\* A slot that is taken and has no socket yet.
LEMMA PreConnectGood ==
  ASSUME NEW p, GoodPool(p), NEW i \in FindFreeSlot(p), NEW ttl \in {"none", "ahead"}
  PROVE  GoodPool(PreConnect(p, i, ttl)) /\ OpenFds(PreConnect(p, i, ttl)) \subseteq OpenFds(p)
  <1>1. i \in 1 .. Size /\ ~Connected(p, i) /\ p \in PoolStates
    BY FreeSlotFound DEF GoodPool
  <1>2. PICK s : s = Fresh(ttl, NoFd)
    OBVIOUS
  <1>3. s \in Slot /\ s.fd = NoFd /\ "connected" \in s.state
    BY <1>2, FreshSlot
  <1>4. GoodPool(WithTaken(p, i, s)) /\ OpenFds(WithTaken(p, i, s)) \subseteq OpenFds(p) \cup {NoFd}
    BY <1>1, <1>3, WithTakenGood
  <1>5. PreConnect(p, i, ttl) = WithTaken(p, i, s)
    BY <1>1, <1>2, PreConnectTakes
  <1>6. QED BY <1>4, <1>5 DEF OpenFds

LEMMA ConnectErrorGood ==
  ASSUME NEW p, GoodPool(p), NEW i \in 1 .. Size, Connected(p, i)
  PROVE  /\ GoodPool(ConnectError(p, i))
         /\ OpenFds(ConnectError(p, i)) \subseteq OpenFds(p) \ {p.slots[i].fd}
  <1>1. PICK f \in [1 .. Size -> Slot], u \in Int : p = [slots |-> f, used |-> u]
    BY SlotFields DEF GoodPool
  <1> DEFINE s == [p.slots[i] EXCEPT !.state = @ \ {"connected"}, !.fd = NoFd]
  <1>2. s \in Slot /\ "connected" \notin s.state /\ s.fd = NoFd
    BY <1>1 DEF Slot
  <1>3. ConnectError(p, i) = [p EXCEPT !.slots[i] = s, !.used = @ - 1]
    BY DEF ConnectError
  <1> HIDE DEF s
  <1>5. ConnectError(p, i) = [slots |-> [p.slots EXCEPT ![i] = s], used |-> p.used - 1]
    BY <1>1, <1>3
  <1>6. QED BY <1>2, <1>5, ReleasedGood

LEMMA ConnectGood ==
  ASSUME NEW p, GoodPool(p), NEW i \in FindFreeSlot(p), NEW ttl \in {"none", "ahead"},
         NEW fd \in Fds \ OpenFds(p), NEW outcome \in {"bind", "ok", "connect"}
  PROVE  /\ GoodPool(ConnectOutcome(p, i, ttl, fd, outcome))
         /\ OpenFds(ConnectOutcome(p, i, ttl, fd, outcome)) \subseteq
                IF outcome = "connect" THEN OpenFds(p) ELSE OpenFds(p) \cup {fd}
  <1>1. PICK q : q = Opened(p, i, ttl, fd)
    OBVIOUS
  <1>2. /\ GoodPool(q) /\ OpenFds(q) \subseteq OpenFds(p) \cup {fd}
        /\ i \in 1 .. Size /\ Connected(q, i) /\ q.slots[i].fd = fd
    BY <1>1, OpenedGood
  <1>3. CASE outcome \in {"bind", "ok"}
    BY <1>1, <1>2, <1>3 DEF ConnectOutcome, Opened
  <1>4. CASE outcome = "connect"
    <2>1. ConnectOutcome(p, i, ttl, fd, outcome) = ConnectError(q, i)
      BY <1>1, <1>4 DEF ConnectOutcome, Opened
    <2>2. GoodPool(ConnectError(q, i)) /\ OpenFds(ConnectError(q, i)) \subseteq OpenFds(q) \ {fd}
      BY <1>2, ConnectErrorGood
    <2>3. QED BY <1>2, <1>4, <2>1, <2>2
  <1>5. QED BY <1>3, <1>4

LEMMA AcceptGood ==
  ASSUME NEW p, GoodPool(p), NEW i \in FindFreeSlot(p), NEW fd \in Fds \ OpenFds(p),
         NEW outcome \in {"ok", "poller"}
  PROVE  /\ GoodPool(AcceptOutcome(p, i, Ttl, fd, outcome))
         /\ OpenFds(AcceptOutcome(p, i, Ttl, fd, outcome)) \subseteq
                IF outcome = "poller" THEN OpenFds(p) ELSE OpenFds(p) \cup {fd}
  <1>1. PICK q : q = Opened(p, i, Ttl, fd)
    OBVIOUS
  <1>2. /\ GoodPool(q) /\ OpenFds(q) \subseteq OpenFds(p) \cup {fd}
        /\ i \in 1 .. Size /\ Connected(q, i) /\ q.slots[i].fd = fd
    BY <1>1, OpenedGood, TtlAssumption
  <1>3. CASE outcome = "ok"
    BY <1>1, <1>2, <1>3 DEF AcceptOutcome, Opened
  <1>4. CASE outcome = "poller"
    <2>1. AcceptOutcome(p, i, Ttl, fd, outcome) = CloseSlot(q, i)
      BY <1>1, <1>4 DEF AcceptOutcome, Opened
    <2>2. GoodPool(CloseSlot(q, i)) /\ OpenFds(CloseSlot(q, i)) \subseteq OpenFds(q) \ {fd}
      BY <1>2, CloseGood
    <2>3. QED BY <1>2, <1>4, <2>1, <2>2
  <1>5. QED BY <1>3, <1>4

-----------------------------------------------------------------------------
(* The steps *)

\* The pool is good, and the kernel has a socket for each of its descriptors.
PoolInv ==
    /\ GoodPool(pool)
    /\ peer \in [Fds -> PeerStates]
    /\ \A fd \in OpenFds(pool) : peer[fd] # "none"

LEMMA OpenAreFds ==
  ASSUME NEW p \in PoolStates
  PROVE  OpenFds(p) \subseteq Fds
  BY SlotFields DEF OpenFds

LEMMA InitInv ==
  ASSUME PoolInit
  PROVE  PoolInv
  <1>1. FreeSlot \in Slot /\ "connected" \notin FreeSlot.state /\ FreeSlot.fd = NoFd
    BY DEF FreeSlot, Slot, StateBits, Expiries
  <1>2. pool.slots = [j \in 1 .. Size |-> FreeSlot] /\ pool.used = 0
        /\ pool = [slots |-> pool.slots, used |-> pool.used]
    BY DEF PoolInit, NewPool
  <1>3. pool \in PoolStates
    BY <1>1, <1>2 DEF PoolStates
  <1>4. Held(pool) = {}
    BY <1>1, <1>2 DEF Held, Connected, Indices
  <1>5. GoodPool(pool)
    BY <1>1, <1>2, <1>3, <1>4, FS_EmptySet DEF GoodPool, Exact, FdOfOne
  <1>6. OpenFds(pool) = {}
    BY <1>1, <1>2 DEF OpenFds, Indices
  <1>7. QED BY <1>5, <1>6 DEF PoolInv, PoolInit, PeerStates

LEMMA BecomesInv ==
  ASSUME PoolInv, NEW p, GoodPool(p), OpenFds(p) \subseteq OpenFds(pool), Becomes(p)
  PROVE  PoolInv'
  <1>1. pool' = p /\ OpenFds(p) \subseteq Fds
    BY OpenAreFds DEF Becomes, GoodPool
  <1>2. peer' = [fd \in Fds |-> IF fd \in OpenFds(p) THEN peer[fd] ELSE "none"]
    BY DEF Becomes
  <1>3. peer' \in [Fds -> PeerStates]
    BY <1>2 DEF PoolInv, PeerStates
  <1>4. \A fd \in OpenFds(p) : peer'[fd] # "none"
    BY <1>1, <1>2 DEF PoolInv
  <1>5. QED BY <1>1, <1>3, <1>4 DEF PoolInv

LEMMA NewSocketInv ==
  ASSUME PoolInv, NEW fd \in Unused, NEW s \in {"raw", "quiet"}, NEW p, GoodPool(p),
         OpenFds(p) \subseteq OpenFds(pool) \cup {fd}, NewSocket(p, fd, s)
  PROVE  PoolInv'
  <1>1. pool' = p /\ peer' = [peer EXCEPT ![fd] = s] /\ fd \in Fds
    BY DEF NewSocket, Unused
  <1>2. peer' \in [Fds -> PeerStates]
    BY <1>1 DEF PoolInv, PeerStates
  <1>3. \A g \in OpenFds(p) : peer'[g] # "none"
    BY <1>1, OpenAreFds DEF PoolInv, GoodPool
  <1>4. QED BY <1>1, <1>2, <1>3 DEF PoolInv

\* The pool stays, or one of its slots is marked or loses its expiry; no
\* socket leaves.
LEMMA SameFdsInv ==
  ASSUME PoolInv, NEW p, GoodPool(p), OpenFds(p) \subseteq OpenFds(pool), pool' = p,
         peer' \in [Fds -> PeerStates], \A fd \in Fds : peer[fd] # "none" => peer'[fd] # "none"
  PROVE  PoolInv'
  BY OpenAreFds DEF PoolInv, GoodPool

LEMMA UnusedIsNotOpen ==
  ASSUME PoolInv, NEW fd \in Unused
  PROVE  fd \in Fds \ OpenFds(pool)
  BY DEF PoolInv, Unused

LEMMA EnvironmentInv ==
  ASSUME PoolInv, Environment
  PROVE  PoolInv'
  <1>1. GoodPool(pool) /\ peer \in [Fds -> PeerStates]
    BY DEF PoolInv
  <1>2. CASE ClientKnocks
    BY <1>1, <1>2, SameFdsInv DEF ClientKnocks
  <1>3. ASSUME NEW fd \in Fds, PeerSends(fd) \/ PeerLeaves(fd) PROVE PoolInv'
    <2>1. PICK s \in {"data", "eof", "reset"} : peer' = [peer EXCEPT ![fd] = s]
      BY <1>3 DEF PeerSends, PeerLeaves
    <2>2. peer' \in [Fds -> PeerStates] /\ \A g \in Fds : peer[g] # "none" => peer'[g] # "none"
      BY <1>1, <2>1 DEF PeerStates
    <2>3. pool' = pool
      BY <1>3 DEF PeerSends, PeerLeaves
    <2>4. QED BY <1>1, <2>2, <2>3, SameFdsInv
  <1>4. ASSUME NEW i \in 1 .. Size, TimePasses(i) PROVE PoolInv'
    <2>1. PICK f \in [1 .. Size -> Slot], u \in Int : pool = [slots |-> f, used |-> u]
      BY <1>1, SlotFields DEF GoodPool
    <2>2. PICK s : s = [f[i] EXCEPT !.expire = "due"]
      OBVIOUS
    <2>3. /\ s \in Slot /\ s.fd = pool.slots[i].fd
          /\ "connected" \in s.state <=> Connected(pool, i)
      BY <2>1, <2>2 DEF Slot, Expiries, Connected
    <2>4. pool' = [pool EXCEPT !.slots[i].expire = "due"]
      BY <1>4 DEF TimePasses
    <2>5. pool' = [slots |-> [f EXCEPT ![i] = [@ EXCEPT !.expire = "due"]], used |-> u]
      BY <2>1, <2>4
    <2>6. [f EXCEPT ![i] = [@ EXCEPT !.expire = "due"]] = [f EXCEPT ![i] = s]
      BY <2>2
    <2>7. pool' = [slots |-> [pool.slots EXCEPT ![i] = s], used |-> pool.used]
      BY <2>1, <2>5, <2>6
    <2>8. GoodPool(pool') /\ OpenFds(pool') \subseteq OpenFds(pool)
      BY <1>1, <2>3, <2>7, MarkedGood
    <2>9. peer' = peer
      BY <1>4 DEF TimePasses
    <2>10. QED BY <1>1, <2>8, <2>9, SameFdsInv
  <1>5. QED BY <1>2, <1>3, <1>4 DEF Environment

LEMMA UserInv ==
  ASSUME PoolInv,
         UserConnects \/ UserSends \/ (\E i \in 1 .. Size : ConnPoolClose(i))
  PROVE  PoolInv'
  <1>1. GoodPool(pool)
    BY DEF PoolInv
  <1>2. CASE UserConnects
    <2>1. PICK i \in 1 .. Size, ttl \in {"none", "ahead"} : ConnPoolConnect(i, ttl)
      BY <1>2 DEF UserConnects
    <2>2. i \in FindFreeSlot(pool)
      BY <2>1 DEF ConnPoolConnect
    <2>3. ASSUME NEW outcome \in {"address", "socket"},
                 Becomes(ConnectOutcome(pool, i, ttl, NoFd, outcome))
          PROVE  PoolInv'
      <3>1. ConnectOutcome(pool, i, ttl, NoFd, outcome) = PreConnect(pool, i, ttl)
        BY DEF ConnectOutcome
      <3>2. QED BY <1>1, <2>2, <2>3, <3>1, PreConnectGood, BecomesInv
    <2>4. ASSUME NEW fd \in Unused,
                 \/ NewSocket(ConnectOutcome(pool, i, ttl, fd, "bind"), fd, "raw")
                 \/ Becomes(ConnectOutcome(pool, i, ttl, fd, "connect"))
                 \/ NewSocket(ConnectOutcome(pool, i, ttl, fd, "ok"), fd, "quiet")
          PROVE  PoolInv'
      <3>1. fd \in Fds \ OpenFds(pool)
        BY UnusedIsNotOpen
      <3>2. CASE NewSocket(ConnectOutcome(pool, i, ttl, fd, "bind"), fd, "raw")
        BY <1>1, <2>2, <3>1, <3>2, ConnectGood, NewSocketInv
      <3>3. CASE Becomes(ConnectOutcome(pool, i, ttl, fd, "connect"))
        BY <1>1, <2>2, <3>1, <3>3, ConnectGood, BecomesInv
      <3>4. CASE NewSocket(ConnectOutcome(pool, i, ttl, fd, "ok"), fd, "quiet")
        BY <1>1, <2>2, <3>1, <3>4, ConnectGood, NewSocketInv
      <3>5. QED BY <2>4, <3>2, <3>3, <3>4
    <2>5. QED BY <2>1, <2>3, <2>4 DEF ConnPoolConnect
  <1>3. CASE UserSends
    <2>0. PICK i \in 1 .. Size : \E p \in AfterSend(pool, i) : Becomes(p)
      BY <1>3 DEF UserSends
    <2>1. PICK p \in AfterSend(pool, i) : Becomes(p)
      BY <2>0
    <2>2. p \in {pool, CloseSlot(pool, i)}
      BY <2>1 DEF AfterSend
    <2>3. QED BY <1>1, <2>1, <2>2, CloseGood, BecomesInv
  <1>4. ASSUME NEW i \in 1 .. Size, ConnPoolClose(i) PROVE PoolInv'
    BY <1>1, <1>4, CloseGood, BecomesInv DEF ConnPoolClose
  <1>5. QED BY <1>2, <1>3, <1>4

LEMMA ServedInv ==
  ASSUME PoolInv, UserServed
  PROVE  PoolInv'
  <1>1. GoodPool(pool) /\ peer \in [Fds -> PeerStates]
    BY DEF PoolInv
  <1>0. PICK fd \in Fds, i \in 1 .. Size : \E p \in AnyCallback(i) : EventData(fd, i, p)
    BY DEF UserServed
  <1>2. PICK p \in AnyCallback(i) : EventData(fd, i, p)
    BY <1>0
  <1>3. GoodPool(p) /\ OpenFds(p) \subseteq OpenFds(pool)
    <2>1. CASE p = [pool EXCEPT !.slots[i].expire = "none"]
      <3>1. PICK f \in [1 .. Size -> Slot], u \in Int : pool = [slots |-> f, used |-> u]
        BY <1>1, SlotFields DEF GoodPool
      <3>2. PICK s : s = [f[i] EXCEPT !.expire = "none"]
        OBVIOUS
      <3>3. /\ s \in Slot /\ s.fd = pool.slots[i].fd
            /\ "connected" \in s.state <=> Connected(pool, i)
        BY <3>1, <3>2 DEF Slot, Expiries, Connected
      <3>4. p = [slots |-> [f EXCEPT ![i] = [@ EXCEPT !.expire = "none"]], used |-> u]
        BY <2>1, <3>1
      <3>5. [f EXCEPT ![i] = [@ EXCEPT !.expire = "none"]] = [f EXCEPT ![i] = s]
        BY <3>2
      <3>6. p = [slots |-> [pool.slots EXCEPT ![i] = s], used |-> pool.used]
        BY <3>1, <3>4, <3>5
      <3>7. QED BY <1>1, <3>3, <3>6, MarkedGood
    <2>2. CASE p = pool
      BY <1>1, <2>2
    <2>3. ASSUME NEW j \in 1 .. Size, p = CloseSlot(pool, j)
          PROVE  GoodPool(p) /\ OpenFds(p) \subseteq OpenFds(pool)
      BY <1>1, <2>3, CloseGood
    <2>4. QED BY <1>2, <2>1, <2>2, <2>3 DEF AnyCallback
  <1>4. pool' = p
        /\ peer' = [g \in Fds |-> IF g \notin OpenFds(p) THEN "none" ELSE IF g = fd THEN "quiet" ELSE peer[g]]
    BY <1>2 DEF EventData
  <1>5. peer' \in [Fds -> PeerStates]
    BY <1>1, <1>4 DEF PeerStates
  <1>6. \A g \in OpenFds(p) : peer'[g] # "none"
    BY <1>3, <1>4, OpenAreFds DEF PoolInv, GoodPool
  <1>7. QED BY <1>3, <1>4, <1>5, <1>6 DEF PoolInv

LEMMA AcceptInv ==
  ASSUME PoolInv, NEW i \in 1 .. Size, Accept(i) \/ AcceptFails(i)
  PROVE  PoolInv'
  <1>1. GoodPool(pool) /\ i \in FindFreeSlot(pool)
    BY DEF PoolInv, Accept, AcceptFails
  <1>2. ASSUME Becomes(AcceptOutcome(pool, i, Ttl, NoFd, "accept")) PROVE PoolInv'
    <2>1. AcceptOutcome(pool, i, Ttl, NoFd, "accept") = PreConnect(pool, i, Ttl)
      BY DEF AcceptOutcome
    <2>2. QED BY <1>1, <1>2, <2>1, PreConnectGood, BecomesInv, TtlAssumption
  <1>3. ASSUME NEW fd \in Unused,
               \/ Becomes(AcceptOutcome(pool, i, Ttl, fd, "poller"))
               \/ NewSocket(AcceptOutcome(pool, i, Ttl, fd, "ok"), fd, "quiet")
        PROVE  PoolInv'
    <2>1. fd \in Fds \ OpenFds(pool)
      BY UnusedIsNotOpen
    <2>2. CASE Becomes(AcceptOutcome(pool, i, Ttl, fd, "poller"))
      BY <1>1, <2>1, <2>2, AcceptGood, BecomesInv
    <2>3. CASE NewSocket(AcceptOutcome(pool, i, Ttl, fd, "ok"), fd, "quiet")
      BY <1>1, <2>1, <2>3, AcceptGood, NewSocketInv
    <2>4. QED BY <1>3, <2>2, <2>3
  <1>4. QED BY <1>2, <1>3 DEF Accept, AcceptFails

LEMMA EventInv ==
  ASSUME PoolInv, NEW fd \in Fds, NEW i \in 1 .. Size,
         EventError(fd, i) \/ EventRecvError(fd, i) \/ EventEof(fd, i)
  PROVE  PoolInv'
  <1>1. GoodPool(pool) /\ peer \in [Fds -> PeerStates]
    BY DEF PoolInv
  <1>2. CASE EventError(fd, i) \/ EventRecvError(fd, i)
    <2>1. Becomes(CloseSlot(pool, i))
      BY <1>2 DEF EventError, EventRecvError
    <2>2. QED BY <1>1, <2>1, CloseGood, BecomesInv
  <1>3. CASE EventEof(fd, i)
    <2>1. peer' = peer /\ pool' \in {pool, Disconnected(pool, i)}
      BY <1>3 DEF EventEof
    <2>2. PICK f \in [1 .. Size -> Slot], u \in Int : pool = [slots |-> f, used |-> u]
      BY <1>1, SlotFields DEF GoodPool
    <2>3. PICK s : s = [f[i] EXCEPT !.state = @ \cup {"disconnection"},
                                    !.expire = IF @ = "none" THEN "ahead" ELSE @]
      OBVIOUS
    <2>4. /\ s \in Slot /\ s.fd = pool.slots[i].fd
          /\ "connected" \in s.state <=> Connected(pool, i)
      BY <2>2, <2>3 DEF Slot, StateBits, Expiries, Connected
    <2>5. Disconnected(pool, i) = [slots |-> [pool.slots EXCEPT ![i] = s], used |-> pool.used]
      BY <2>2, <2>3 DEF Disconnected
    <2>6. GoodPool(pool') /\ OpenFds(pool') \subseteq OpenFds(pool)
      BY <1>1, <2>1, <2>4, <2>5, MarkedGood
    <2>7. QED BY <1>1, <2>1, <2>6, SameFdsInv
  <1>4. QED BY <1>2, <1>3

LEMMA PollInv ==
  ASSUME PoolInv, Poll \/ PollQuits
  PROVE  PoolInv'
  <1>1. GoodPool(pool) /\ peer \in [Fds -> PeerStates]
    BY DEF PoolInv
  <1>2. CASE PollBegin \/ PollFails \/ PollExpiry
    <2>1. PICK S : Becomes(CloseSlots(pool, S))
      BY <1>2 DEF PollBegin, PollFails, PollExpiry
    <2>2. QED BY <1>1, <2>1, CloseManyGood, BecomesInv
  <1>3. CASE AcceptFull \/ EventsDone \/ \E fd \in Fds : EventStale(fd)
    <2>1. UNCHANGED <<pool, peer>>
      BY <1>3 DEF AcceptFull, EventsDone, EventStale
    <2>2. QED BY <1>1, <2>1, SameFdsInv
  <1>4. QED BY <1>2, <1>3, AcceptInv, EventInv DEF Poll, PollQuits

LEMMA StepInv == PoolInv /\ [Next]_poolVars => PoolInv'
  <1>1. ASSUME PoolInv, UNCHANGED poolVars PROVE PoolInv'
    <2>1. UNCHANGED <<pool, peer>>
      BY <1>1 DEF poolVars
    <2>2. QED BY <1>1, <2>1, SameFdsInv DEF PoolInv
  <1>2. QED BY <1>1, EnvironmentInv, PollInv, ServedInv, UserInv DEF Next

\* used_slots counts the connected slots after any sequence of calls, failures
\* and callbacks, in a pool of any size (conn_pool_utils.c:240).
THEOREM CounterIsExact == Spec => []CounterExact
  <1>1. PoolInv => CounterExact
    BY DEF PoolInv, GoodPool, Exact, CounterExact
  <1>2. PoolInit => PoolInv
    BY InitInv
  <1>3. QED BY <1>1, <1>2, StepInv, PTL DEF Spec

\* A descriptor belongs to one slot, and to none that is free: an event reaches
\* the connection it is of (ap_net_conn_pool_get_conn_by_fd).
THEOREM FdInOneSlot == Spec => []OneSlotPerFd
  <1>1. PoolInv => OneSlotPerFd
    BY DEF PoolInv, GoodPool, FdOfOne, OneSlotPerFd
  <1>2. PoolInit => PoolInv
    BY InitInv
  <1>3. QED BY <1>1, <1>2, StepInv, PTL DEF Spec

-----------------------------------------------------------------------------
(* The pool implements OpenConnections *)

Alive == {"quiet", "data", "eof", "reset"}

Live(q) == {fd \in Fds : q[fd] \in Alive}

\* Slots that are held with no connection in them.
Idle(p, q) == {i \in Held(p) : p.slots[i].fd \notin Live(q)}

\* The kernel has no socket that is in no slot.
NoOrphan == \A fd \in Fds : peer[fd] # "none" => fd \in OpenFds(pool)

\* What is open in pool q was open in p, in the same slot.
Kept(p, q) ==
    \A j \in 1 .. Size : Connected(q, j) => Connected(p, j) /\ q.slots[j].fd = p.slots[j].fd

\* The slots that are held are those with a connection and the idle ones.
LEMMA HeldSplit ==
  ASSUME NEW p, GoodPool(p), NEW q, Live(q) \subseteq OpenFds(p)
  PROVE  /\ Cardinality(Live(q)) \in Nat
         /\ IsFiniteSet(Live(q)) /\ IsFiniteSet(Idle(p, q))
         /\ Cardinality(Held(p)) = Cardinality(Live(q)) + Cardinality(Idle(p, q))
         /\ Cardinality(Idle(p, q)) \in Nat
  <1> DEFINE Busy == {i \in Held(p) : p.slots[i].fd \in Live(q)}
             fdOf == [i \in Busy |-> p.slots[i].fd]
  <1>1. p \in PoolStates /\ Indices(p) = 1 .. Size
    BY SlotFields DEF GoodPool
  <1>2. IsFiniteSet(Held(p)) /\ Held(p) \subseteq 1 .. Size
    BY <1>1, HeldFinite
  <1>3. IsFiniteSet(Busy) /\ IsFiniteSet(Idle(p, q))
    BY <1>2, FS_Subset DEF Idle
  <1>4. fdOf \in Bijection(Busy, Live(q))
    <2>1. fdOf \in [Busy -> Live(q)]
      OBVIOUS
    <2>2. ASSUME NEW i \in Busy, NEW j \in Busy, fdOf[i] = fdOf[j] PROVE i = j
      BY <1>2, <2>2, FdsAssumption DEF GoodPool, FdOfOne, Live
    <2>3. ASSUME NEW fd \in Live(q) PROVE \E i \in Busy : fdOf[i] = fd
      <3>1. PICK i \in 1 .. Size : p.slots[i].fd = fd /\ fd # NoFd
        BY <1>1, <2>3 DEF OpenFds
      <3>2. i \in Held(p)
        BY <1>1, <3>1 DEF Held, GoodPool, FdOfOne
      <3>3. QED BY <2>3, <3>1, <3>2
    <2>4. QED BY <2>1, <2>2, <2>3 DEF Bijection, Injection, Surjection, IsInjective
  <1>5. IsFiniteSet(Live(q)) /\ Cardinality(Live(q)) = Cardinality(Busy)
    <2>1. ExistsBijection(Busy, Live(q))
      BY <1>4 DEF ExistsBijection
    <2>2. QED BY <1>3, <2>1, FS_Bijection
  <1>6. Busy \cap Idle(p, q) = {} /\ Held(p) = Busy \cup Idle(p, q)
    BY DEF Idle
  <1>7. Cardinality(Held(p)) = Cardinality(Busy) + Cardinality(Idle(p, q))
    <2>1. Cardinality(Busy \cap Idle(p, q)) = 0
      BY <1>6, FS_EmptySet
    <2>2. Cardinality(Busy \cup Idle(p, q))
            = Cardinality(Busy) + Cardinality(Idle(p, q)) - Cardinality(Busy \cap Idle(p, q))
      BY <1>3, FS_Union
    <2>3. Cardinality(Busy) \in Nat /\ Cardinality(Idle(p, q)) \in Nat
      BY <1>3, FS_CardinalityType
    <2> HIDE DEF Busy
    <2>4. QED BY <1>6, <2>1, <2>2, <2>3
  <1>8. QED BY <1>3, <1>5, <1>7, FS_CardinalityType

LEMMA LiveOpen ==
  ASSUME NoOrphan
  PROVE  Live(peer) \subseteq OpenFds(pool) /\ LiveFds = Live(peer)
  BY DEF NoOrphan, Live, LiveFds, Alive

LEMMA LiveNext == LiveFds' = Live(peer')
  BY DEF Live, LiveFds, Alive

\* OpenConnections counts with the same Cardinality.
LEMMA SameCardinality ==
  ASSUME NEW S
  PROVE  Abstract!Cardinality(S) = Cardinality(S)
  BY DEF Abstract!Cardinality, Cardinality

\* The step that a step of the pool stands for.
Simulates == [Abstract!Next]_(Abstract!vars)

\* Connections are closed, slots freed, or neither.
LEMMA KeptSimulates ==
  ASSUME PoolInv, NoOrphan, PoolInv', NoOrphan', Kept(pool, pool'),
         Live(peer') \subseteq Live(peer),
         Live(peer) \cap OpenFds(pool') \subseteq Live(peer')
  PROVE  Simulates
  <1>1. GoodPool(pool) /\ GoodPool(pool')
    BY DEF PoolInv
  <1>2. /\ Live(peer) \subseteq OpenFds(pool) /\ LiveFds = Live(peer)
        /\ Live(peer') \subseteq OpenFds(pool') /\ LiveFds' = Live(peer')
    BY LiveOpen, LiveNext DEF NoOrphan, Live, Alive
  <1>3. Indices(pool) = 1 .. Size /\ Indices(pool') = 1 .. Size
    BY <1>1, SlotFields DEF GoodPool
  <1>4. Idle(pool', peer') \subseteq Idle(pool, peer)
    <2>1. ASSUME NEW i \in Idle(pool', peer') PROVE i \in Idle(pool, peer)
      <3>1. i \in 1 .. Size /\ Connected(pool', i) /\ pool'.slots[i].fd \notin Live(peer')
        BY <1>3 DEF Idle, Held
      <3>2. Connected(pool, i) /\ pool'.slots[i].fd = pool.slots[i].fd
        BY <3>1 DEF Kept
      <3>3. pool.slots[i].fd \notin Live(peer)
        BY <1>2, <1>3, <3>1, <3>2 DEF OpenFds
      <3>4. QED BY <1>3, <3>1, <3>2, <3>3 DEF Idle, Held
    <2>2. QED BY <2>1
  <1> DEFINE H == Cardinality(Held(pool))
             H1 == Cardinality(Held(pool'))
             L == Cardinality(Live(peer))
             L1 == Cardinality(Live(peer'))
             I == Cardinality(Idle(pool, peer))
             I1 == Cardinality(Idle(pool', peer'))
  <1>5. H = L + I /\ L \in Nat /\ I \in Nat /\ IsFiniteSet(Idle(pool, peer))
    BY <1>1, <1>2, HeldSplit
  <1>6. H1 = L1 + I1 /\ L1 \in Nat /\ I1 \in Nat
    BY <1>1, <1>2, HeldSplit
  <1>7. I1 <= I
    BY <1>4, <1>5, FS_Subset
  <1>8. H1 - L1 \in 0 .. (H - L)
    <2> HIDE DEF H, H1, L, L1, I, I1
    <2>1. QED BY <1>5, <1>6, <1>7
  <1>9. Abstract!Release
    BY <1>2, <1>8 DEF Abstract!Release
  <1>10. QED BY <1>9 DEF Simulates, Abstract!Next

\* A free slot is taken, with a connection in it or not.
LEMMA TakenSimulates ==
  ASSUME PoolInv, NoOrphan, NEW i \in FindFreeSlot(pool), PoolInv',
         \A j \in 1 .. Size : j # i => pool'.slots[j] = pool.slots[j], Connected(pool', i),
         \/ Live(peer') = Live(peer)
         \/ \E fd \in Fds \ Live(peer) : Live(peer') = Live(peer) \cup {fd}
  PROVE  Simulates
  <1>1. GoodPool(pool) /\ GoodPool(pool')
    BY DEF PoolInv
  <1>2. /\ Live(peer) \subseteq OpenFds(pool) /\ LiveFds = Live(peer) /\ LiveFds' = Live(peer')
    BY LiveOpen, LiveNext
  <1>3. /\ Indices(pool) = 1 .. Size /\ Indices(pool') = 1 .. Size
        /\ IsFiniteSet(Held(pool)) /\ Cardinality(Held(pool)) \in Nat
        /\ Held(pool) \subseteq 1 .. Size
    BY <1>1, SlotFields, HeldFinite DEF GoodPool
  <1>4. i \in 1 .. Size /\ ~Connected(pool, i)
    BY <1>1, FreeSlotFound
  <1>5. Held(pool') = Held(pool) \cup {i} /\ i \notin Held(pool)
    BY <1>3, <1>4 DEF Held, Connected
  <1> DEFINE H == Cardinality(Held(pool))
             H1 == Cardinality(Held(pool'))
             L == Cardinality(Live(peer))
             L1 == Cardinality(Live(peer'))
  <1>6. H1 = H + 1 /\ H \in Nat
    BY <1>3, <1>5, FS_AddElement
  <1>7. H < Size
    <2>1. IsFiniteSet(1 .. Size) /\ Cardinality(1 .. Size) = Size
      BY FS_Interval, SizeAssumption
    <2>2. H <= Size
      BY <1>3, <2>1, FS_Subset
    <2>3. pool.used # Size /\ pool.used = H
      BY <1>1, <1>3, <2>1 DEF FindFreeSlot, GoodPool, Exact
    <2> HIDE DEF H
    <2>4. QED BY <1>6, <2>2, <2>3, SizeAssumption
  <1>8. L \in Nat /\ IsFiniteSet(Live(peer))
    BY <1>1, <1>2, HeldSplit
  <1>9. L + (H - L) < Size
    <2> HIDE DEF H, L
    <2>1. QED BY <1>6, <1>7, <1>8
  <1>10. Abstract!Room
    BY <1>2, <1>9, SameCardinality DEF Abstract!Room
  <1>11. CASE Live(peer') = Live(peer)
    <2>1. L1 = L
      BY <1>11
    <2>2. H1 - L1 = (H - L) + 1
      <3> HIDE DEF H, H1, L, L1
      <3>1. QED BY <1>6, <1>8, <2>1
    <2>3. Abstract!Hold
      BY <1>2, <1>10, <1>11, <2>2 DEF Abstract!Hold
    <2>4. QED BY <2>3 DEF Simulates, Abstract!Next
  <1>12. ASSUME NEW fd \in Fds \ Live(peer), Live(peer') = Live(peer) \cup {fd} PROVE Simulates
    <2>1. L1 = L + 1
      BY <1>8, <1>12, FS_AddElement
    <2>2. H1 - L1 = H - L
      <3> HIDE DEF H, H1, L, L1
      <3>1. QED BY <1>6, <1>8, <2>1
    <2>3. Abstract!Open(fd)
      BY <1>2, <1>10, <1>12, <2>2 DEF Abstract!Open
    <2>4. QED BY <2>3 DEF Simulates, Abstract!Next
  <1>13. QED BY <1>11, <1>12

\* What a slot operation keeps of the others.
LEMMA CloseKeeps ==
  ASSUME NEW p, GoodPool(p), NEW i \in 1 .. Size
  PROVE  Kept(p, CloseSlot(p, i))
  <1>1. p \in PoolStates
    BY DEF GoodPool
  <1>2. "connected" \notin FreeSlot.state
    BY DEF FreeSlot
  <1>3. ASSUME Connected(p, i) PROVE CloseSlot(p, i).slots = [p.slots EXCEPT ![i] = FreeSlot]
    BY <1>1, <1>3 DEF CloseSlot, PoolStates
  <1>4. QED BY <1>1, <1>2, <1>3, SlotFields DEF CloseSlot, Kept, Connected

LEMMA CloseManyKeeps ==
  ASSUME NEW p, GoodPool(p), NEW S
  PROVE  Kept(p, CloseSlots(p, S))
  <1>1. Indices(p) = 1 .. Size
    BY SlotFields DEF GoodPool
  <1>2. \A j \in 1 .. Size :
            CloseSlots(p, S).slots[j] = IF j \in S /\ Connected(p, j) THEN FreeSlot ELSE p.slots[j]
    BY <1>1 DEF CloseSlots
  <1>3. "connected" \notin FreeSlot.state
    BY DEF FreeSlot
  <1>4. QED BY <1>2, <1>3 DEF Kept, Connected

LEMMA MarkKeeps ==
  ASSUME NEW p, GoodPool(p), NEW i \in 1 .. Size, NEW s, s.fd = p.slots[i].fd,
         "connected" \in s.state <=> Connected(p, i), NEW q, q.slots = [p.slots EXCEPT ![i] = s]
  PROVE  /\ Kept(p, q)
         /\ \A j \in 1 .. Size : q.slots[j].fd = p.slots[j].fd
  <1>1. p.slots \in [1 .. Size -> Slot]
    BY SlotFields DEF GoodPool
  <1>2. \A j \in 1 .. Size : q.slots[j] = IF j = i THEN s ELSE p.slots[j]
    BY <1>1
  <1>3. QED BY <1>2 DEF Kept, Connected

LEMMA WithTakenSlots ==
  ASSUME NEW p, GoodPool(p), NEW i \in 1 .. Size, NEW s
  PROVE  /\ WithTaken(p, i, s).slots[i] = s
         /\ \A j \in 1 .. Size : j # i => WithTaken(p, i, s).slots[j] = p.slots[j]
  BY SlotFields DEF GoodPool, WithTaken

\* A slot that was taken and is released again leaves the others as they were.
LEMMA ReleasedKeeps ==
  ASSUME NEW p, GoodPool(p), NEW i \in FindFreeSlot(p), NEW ttl \in {"none", "ahead"},
         NEW fd \in Fds \ OpenFds(p)
  PROVE  /\ Kept(p, ConnectOutcome(p, i, ttl, fd, "connect"))
         /\ Kept(p, AcceptOutcome(p, i, ttl, fd, "poller"))
  <1>1. i \in 1 .. Size /\ ~Connected(p, i) /\ p \in PoolStates
    BY FreeSlotFound DEF GoodPool
  <1>2. PICK q : q = Opened(p, i, ttl, fd)
    OBVIOUS
  <1>3. GoodPool(q) /\ Connected(q, i)
    BY <1>2, OpenedGood
  <1>4. \A j \in 1 .. Size : j # i => q.slots[j] = p.slots[j]
    BY <1>1, <1>2, OpenedTakes, WithTakenSlots
  <1>5. Kept(p, ConnectError(q, i))
    <2>1. PICK f \in [1 .. Size -> Slot], u \in Int : q = [slots |-> f, used |-> u]
      BY <1>3, SlotFields DEF GoodPool
    <2> DEFINE s == [q.slots[i] EXCEPT !.state = @ \ {"connected"}, !.fd = NoFd]
    <2>2. "connected" \notin s.state
      BY <1>1, <2>1 DEF Slot
    <2>3. ConnectError(q, i) = [q EXCEPT !.slots[i] = s, !.used = @ - 1]
      BY DEF ConnectError
    <2> HIDE DEF s
    <2>4. ConnectError(q, i).slots = [q.slots EXCEPT ![i] = s]
      BY <2>1, <2>3
    <2>5. \A j \in 1 .. Size : ConnectError(q, i).slots[j] = IF j = i THEN s ELSE q.slots[j]
      BY <2>1, <2>4
    <2>6. QED BY <1>4, <2>2, <2>5 DEF Kept, Connected
  <1>6. Kept(p, CloseSlot(q, i))
    <2>1. CloseSlot(q, i).slots = [q.slots EXCEPT ![i] = FreeSlot] /\ "connected" \notin FreeSlot.state
      BY <1>3 DEF CloseSlot, FreeSlot, GoodPool, PoolStates
    <2>2. \A j \in 1 .. Size : CloseSlot(q, i).slots[j] = IF j = i THEN FreeSlot ELSE q.slots[j]
      BY <1>3, <2>1, SlotFields DEF GoodPool
    <2>3. QED BY <1>4, <2>1, <2>2 DEF Kept, Connected
  <1>7. QED BY <1>2, <1>5, <1>6 DEF ConnectOutcome, AcceptOutcome, Opened

\* Connections are closed, and nothing else happens.
LEMMA ClosesSimulate ==
  ASSUME PoolInv, NoOrphan, PoolInv', NEW p, Kept(pool, p), Becomes(p)
  PROVE  NoOrphan' /\ Simulates
  <1>1. /\ pool' = p
        /\ peer' = [fd \in Fds |-> IF fd \in OpenFds(p) THEN peer[fd] ELSE "none"]
    BY DEF Becomes
  <1>2. NoOrphan'
    BY <1>1 DEF NoOrphan
  <1>3. Live(peer') \subseteq Live(peer) /\ Live(peer) \cap OpenFds(pool') \subseteq Live(peer')
    BY <1>1 DEF Live, Alive
  <1>4. QED BY <1>1, <1>2, <1>3, KeptSimulates

\* The slots stay what they are, and the sockets with them.
LEMMA StaysSimulates ==
  ASSUME PoolInv, NoOrphan, PoolInv', Kept(pool, pool'),
         \A j \in 1 .. Size : pool'.slots[j].fd = pool.slots[j].fd,
         \A fd \in Fds : peer'[fd] \in Alive <=> peer[fd] \in Alive,
         \A fd \in Fds : peer'[fd] = "none" <=> peer[fd] = "none"
  PROVE  NoOrphan' /\ Simulates
  <1>1. Indices(pool) = 1 .. Size /\ Indices(pool') = 1 .. Size
    BY SlotFields DEF PoolInv, GoodPool
  <1>2. OpenFds(pool') = OpenFds(pool)
    BY <1>1 DEF OpenFds
  <1>3. NoOrphan'
    BY <1>2 DEF NoOrphan
  <1>4. Live(peer') = Live(peer)
    BY DEF Live
  <1>5. QED BY <1>3, <1>4, KeptSimulates

\* A free slot is taken, with no socket.
LEMMA PreConnectSimulates ==
  ASSUME PoolInv, NoOrphan, PoolInv', NEW i \in FindFreeSlot(pool), NEW ttl \in {"none", "ahead"},
         Becomes(PreConnect(pool, i, ttl))
  PROVE  NoOrphan' /\ Simulates
  <1>1. GoodPool(pool) /\ pool \in PoolStates /\ i \in 1 .. Size /\ Indices(pool) = 1 .. Size
        /\ ~Connected(pool, i) /\ pool.slots[i].fd = NoFd
    BY FreeSlotFound, SlotFields DEF PoolInv, GoodPool
  <1>2. PICK s : s = Fresh(ttl, NoFd)
    OBVIOUS
  <1>3. "connected" \in s.state /\ s.fd = NoFd
    BY <1>2, FreshSlot
  <1>4. /\ pool' = WithTaken(pool, i, s)
        /\ peer' = [fd \in Fds |-> IF fd \in OpenFds(pool') THEN peer[fd] ELSE "none"]
    BY <1>1, <1>2, PreConnectTakes DEF Becomes
  <1>5. pool'.slots[i] = s /\ (\A j \in 1 .. Size : j # i => pool'.slots[j] = pool.slots[j])
    BY <1>1, <1>4, WithTakenSlots
  <1>6. Connected(pool', i)
    BY <1>3, <1>5 DEF Connected
  <1>7. NoOrphan'
    BY <1>4 DEF NoOrphan
  <1>8. OpenFds(pool) \subseteq OpenFds(pool')
    <2>1. Indices(pool') = 1 .. Size
      BY SlotFields DEF PoolInv, GoodPool
    <2>2. ASSUME NEW fd \in OpenFds(pool) PROVE fd \in OpenFds(pool')
      <3>1. PICK j \in 1 .. Size : fd = pool.slots[j].fd /\ fd # NoFd
        BY <1>1, <2>2 DEF OpenFds
      <3>2. j # i
        BY <1>1, <3>1
      <3>3. QED BY <1>5, <2>1, <3>1, <3>2 DEF OpenFds
    <2>3. QED BY <2>2
  <1>9. Live(peer') = Live(peer)
    BY <1>4, <1>8, LiveOpen DEF Live, Alive
  <1>10. QED BY <1>5, <1>6, <1>7, <1>9, TakenSimulates

\* A free slot is taken with a new socket.
LEMMA NewSocketSimulates ==
  ASSUME PoolInv, NoOrphan, PoolInv', NEW i \in FindFreeSlot(pool), NEW ttl \in {"none", "ahead"},
         NEW fd \in Unused, NEW st \in {"raw", "quiet"}, NewSocket(Opened(pool, i, ttl, fd), fd, st)
  PROVE  NoOrphan' /\ Simulates
  <1>1. GoodPool(pool) /\ pool \in PoolStates /\ i \in 1 .. Size /\ Indices(pool) = 1 .. Size
        /\ ~Connected(pool, i) /\ pool.slots[i].fd = NoFd
    BY FreeSlotFound, SlotFields DEF PoolInv, GoodPool
  <1>2. PICK s : s = Fresh(ttl, fd)
    OBVIOUS
  <1>3. "connected" \in s.state /\ s.fd = fd /\ fd \in Fds /\ peer[fd] = "none" /\ fd # NoFd
    BY <1>2, FreshSlot, FdsAssumption DEF Unused
  <1>4. pool' = WithTaken(pool, i, s) /\ peer' = [peer EXCEPT ![fd] = st]
    BY <1>1, <1>2, OpenedTakes DEF NewSocket
  <1>5. pool'.slots[i] = s /\ (\A j \in 1 .. Size : j # i => pool'.slots[j] = pool.slots[j])
    BY <1>1, <1>4, WithTakenSlots
  <1>6. Connected(pool', i) /\ peer \in [Fds -> PeerStates]
    BY <1>3, <1>5 DEF Connected, PoolInv
  <1>7. OpenFds(pool) \cup {fd} \subseteq OpenFds(pool')
    <2>1. Indices(pool') = 1 .. Size
      BY SlotFields DEF PoolInv, GoodPool
    <2>2. ASSUME NEW g \in OpenFds(pool) PROVE g \in OpenFds(pool')
      <3>1. PICK j \in 1 .. Size : g = pool.slots[j].fd /\ g # NoFd
        BY <1>1, <2>2 DEF OpenFds
      <3>2. j # i
        BY <1>1, <3>1
      <3>3. QED BY <1>5, <2>1, <3>1, <3>2 DEF OpenFds
    <2>3. fd \in OpenFds(pool')
      BY <1>1, <1>3, <1>5, <2>1 DEF OpenFds
    <2>4. QED BY <2>2, <2>3
  <1>8. \A g \in Fds : peer'[g] = IF g = fd THEN st ELSE peer[g]
    BY <1>4, <1>6
  <1>9. NoOrphan'
    BY <1>7, <1>8 DEF NoOrphan
  <1>10. fd \notin Live(peer)
    BY <1>3 DEF Live, Alive
  <1>11. CASE st = "raw"
    <2>1. Live(peer') = Live(peer)
      BY <1>3, <1>8, <1>11 DEF Live, Alive
    <2>2. QED BY <1>5, <1>6, <1>9, <2>1, TakenSimulates
  <1>12. CASE st = "quiet"
    <2>1. Live(peer') = Live(peer) \cup {fd}
      BY <1>3, <1>8, <1>12 DEF Live, Alive
    <2>2. QED BY <1>3, <1>5, <1>6, <1>9, <1>10, <2>1, TakenSimulates
  <1>13. QED BY <1>11, <1>12

\* Each action of the pool is a step of OpenConnections or none.
LEMMA EnvironmentSimulates ==
  ASSUME PoolInv, NoOrphan, PoolInv', Environment
  PROVE  NoOrphan' /\ Simulates
  <1>1. GoodPool(pool) /\ peer \in [Fds -> PeerStates]
    BY DEF PoolInv
  <1>2. CASE ClientKnocks
    <2>1. pool' = pool /\ peer' = peer
      BY <1>2 DEF ClientKnocks
    <2>2. QED BY <2>1, StaysSimulates DEF Kept
  <1>3. ASSUME NEW fd \in Fds, PeerSends(fd) \/ PeerLeaves(fd) PROVE NoOrphan' /\ Simulates
    <2>1. PICK s \in {"data", "eof", "reset"} : peer' = [peer EXCEPT ![fd] = s]
      BY <1>3 DEF PeerSends, PeerLeaves
    <2>2. pool' = pool /\ peer[fd] \in {"quiet", "data"}
      BY <1>3 DEF PeerSends, PeerLeaves
    <2>3. \A g \in Fds : /\ peer'[g] \in Alive <=> peer[g] \in Alive
                         /\ peer'[g] = "none" <=> peer[g] = "none"
      BY <1>1, <2>1, <2>2 DEF Alive
    <2>4. QED BY <2>2, <2>3, StaysSimulates DEF Kept
  <1>4. ASSUME NEW i \in 1 .. Size, TimePasses(i) PROVE NoOrphan' /\ Simulates
    <2>1. PICK f \in [1 .. Size -> Slot], u \in Int : pool = [slots |-> f, used |-> u]
      BY <1>1, SlotFields DEF GoodPool
    <2>2. PICK s : s = [f[i] EXCEPT !.expire = "due"]
      OBVIOUS
    <2>3. s.fd = pool.slots[i].fd /\ ("connected" \in s.state <=> Connected(pool, i))
      BY <2>1, <2>2 DEF Slot, Connected
    <2>4. pool' = [slots |-> [f EXCEPT ![i] = [@ EXCEPT !.expire = "due"]], used |-> u]
      BY <1>4, <2>1 DEF TimePasses
    <2>5. [f EXCEPT ![i] = [@ EXCEPT !.expire = "due"]] = [f EXCEPT ![i] = s]
      BY <2>2
    <2>6. pool'.slots = [pool.slots EXCEPT ![i] = s]
      BY <2>1, <2>4, <2>5
    <2>7. Kept(pool, pool') /\ \A j \in 1 .. Size : pool'.slots[j].fd = pool.slots[j].fd
      BY <1>1, <2>3, <2>6, MarkKeeps
    <2>8. peer' = peer
      BY <1>4 DEF TimePasses
    <2>9. QED BY <2>7, <2>8, StaysSimulates
  <1>5. QED BY <1>2, <1>3, <1>4 DEF Environment

LEMMA UserSimulates ==
  ASSUME PoolInv, NoOrphan, PoolInv',
         UserConnects \/ UserSends \/ (\E i \in 1 .. Size : ConnPoolClose(i))
  PROVE  NoOrphan' /\ Simulates
  <1>1. GoodPool(pool)
    BY DEF PoolInv
  <1>2. CASE UserConnects
    <2>1. PICK i \in 1 .. Size, ttl \in {"none", "ahead"} : ConnPoolConnect(i, ttl)
      BY <1>2 DEF UserConnects
    <2>2. i \in FindFreeSlot(pool)
      BY <2>1 DEF ConnPoolConnect
    <2>3. ASSUME NEW outcome \in {"address", "socket"},
                 Becomes(ConnectOutcome(pool, i, ttl, NoFd, outcome))
          PROVE  NoOrphan' /\ Simulates
      <3>1. ConnectOutcome(pool, i, ttl, NoFd, outcome) = PreConnect(pool, i, ttl)
        BY DEF ConnectOutcome
      <3>2. QED BY <2>2, <2>3, <3>1, PreConnectSimulates
    <2>4. ASSUME NEW fd \in Unused,
                 \/ NewSocket(ConnectOutcome(pool, i, ttl, fd, "bind"), fd, "raw")
                 \/ Becomes(ConnectOutcome(pool, i, ttl, fd, "connect"))
                 \/ NewSocket(ConnectOutcome(pool, i, ttl, fd, "ok"), fd, "quiet")
          PROVE  NoOrphan' /\ Simulates
      <3>1. fd \in Fds \ OpenFds(pool)
        BY UnusedIsNotOpen
      <3>2. /\ ConnectOutcome(pool, i, ttl, fd, "bind") = Opened(pool, i, ttl, fd)
            /\ ConnectOutcome(pool, i, ttl, fd, "ok") = Opened(pool, i, ttl, fd)
        BY DEF ConnectOutcome, Opened
      <3>3. CASE Becomes(ConnectOutcome(pool, i, ttl, fd, "connect"))
        BY <1>1, <2>2, <3>1, <3>3, ReleasedKeeps, ClosesSimulate
      <3>4. QED BY <2>2, <2>4, <3>2, <3>3, NewSocketSimulates
    <2>5. QED BY <2>1, <2>3, <2>4 DEF ConnPoolConnect
  <1>3. CASE UserSends
    <2>1. PICK i \in 1 .. Size : \E p \in AfterSend(pool, i) : Becomes(p)
      BY <1>3 DEF UserSends
    <2>2. PICK p \in AfterSend(pool, i) : Becomes(p)
      BY <2>1
    <2>3. p \in {pool, CloseSlot(pool, i)}
      BY <2>2 DEF AfterSend
    <2>4. Kept(pool, p)
      BY <1>1, <2>3, CloseKeeps DEF Kept
    <2>5. QED BY <2>2, <2>4, ClosesSimulate
  <1>4. ASSUME NEW i \in 1 .. Size, ConnPoolClose(i) PROVE NoOrphan' /\ Simulates
    BY <1>1, <1>4, CloseKeeps, ClosesSimulate DEF ConnPoolClose
  <1>5. QED BY <1>2, <1>3, <1>4

LEMMA ServedSimulates ==
  ASSUME PoolInv, NoOrphan, PoolInv', UserServed
  PROVE  NoOrphan' /\ Simulates
  <1>1. GoodPool(pool)
    BY DEF PoolInv
  <1>2. PICK fd \in Fds, i \in 1 .. Size : \E p \in AnyCallback(i) : EventData(fd, i, p)
    BY DEF UserServed
  <1>3. PICK p \in AnyCallback(i) : EventData(fd, i, p)
    BY <1>2
  <1>4. Kept(pool, p)
    <2>1. CASE p = [pool EXCEPT !.slots[i].expire = "none"]
      <3>1. PICK f \in [1 .. Size -> Slot], u \in Int : pool = [slots |-> f, used |-> u]
        BY <1>1, SlotFields DEF GoodPool
      <3>2. PICK s : s = [f[i] EXCEPT !.expire = "none"]
        OBVIOUS
      <3>3. s.fd = pool.slots[i].fd /\ ("connected" \in s.state <=> Connected(pool, i))
        BY <3>1, <3>2 DEF Slot, Connected
      <3>4. p = [slots |-> [f EXCEPT ![i] = [@ EXCEPT !.expire = "none"]], used |-> u]
        BY <2>1, <3>1
      <3>5. [f EXCEPT ![i] = [@ EXCEPT !.expire = "none"]] = [f EXCEPT ![i] = s]
        BY <3>2
      <3>6. p.slots = [pool.slots EXCEPT ![i] = s]
        BY <3>1, <3>4, <3>5
      <3>7. QED BY <1>1, <3>3, <3>6, MarkKeeps
    <2>2. CASE p = pool
      BY <2>2 DEF Kept
    <2>3. ASSUME NEW j \in 1 .. Size, p = CloseSlot(pool, j) PROVE Kept(pool, p)
      BY <1>1, <2>3, CloseKeeps
    <2>4. QED BY <1>3, <2>1, <2>2, <2>3 DEF AnyCallback
  <1>5. pool' = p /\ peer[fd] = "data"
        /\ peer' = [g \in Fds |-> IF g \notin OpenFds(p) THEN "none" ELSE IF g = fd THEN "quiet" ELSE peer[g]]
    BY <1>3 DEF EventData
  <1>6. NoOrphan'
    BY <1>5 DEF NoOrphan
  <1>7. Live(peer') \subseteq Live(peer) /\ Live(peer) \cap OpenFds(pool') \subseteq Live(peer')
    BY <1>5 DEF Live, Alive
  <1>8. QED BY <1>4, <1>5, <1>6, <1>7, KeptSimulates

LEMMA AcceptSimulates ==
  ASSUME PoolInv, NoOrphan, PoolInv', NEW i \in 1 .. Size, Accept(i) \/ AcceptFails(i)
  PROVE  NoOrphan' /\ Simulates
  <1>1. GoodPool(pool) /\ i \in FindFreeSlot(pool)
    BY DEF PoolInv, Accept, AcceptFails
  <1>2. ASSUME Becomes(AcceptOutcome(pool, i, Ttl, NoFd, "accept")) PROVE NoOrphan' /\ Simulates
    <2>1. AcceptOutcome(pool, i, Ttl, NoFd, "accept") = PreConnect(pool, i, Ttl)
      BY DEF AcceptOutcome
    <2>2. QED BY <1>1, <1>2, <2>1, PreConnectSimulates, TtlAssumption
  <1>3. ASSUME NEW fd \in Unused,
               \/ Becomes(AcceptOutcome(pool, i, Ttl, fd, "poller"))
               \/ NewSocket(AcceptOutcome(pool, i, Ttl, fd, "ok"), fd, "quiet")
        PROVE  NoOrphan' /\ Simulates
    <2>1. fd \in Fds \ OpenFds(pool)
      BY UnusedIsNotOpen
    <2>2. AcceptOutcome(pool, i, Ttl, fd, "ok") = Opened(pool, i, Ttl, fd)
      BY DEF AcceptOutcome, Opened
    <2>3. CASE Becomes(AcceptOutcome(pool, i, Ttl, fd, "poller"))
      BY <1>1, <2>1, <2>3, ReleasedKeeps, ClosesSimulate, TtlAssumption
    <2>4. QED BY <1>1, <1>3, <2>2, <2>3, NewSocketSimulates, TtlAssumption
  <1>4. QED BY <1>2, <1>3 DEF Accept, AcceptFails

LEMMA EventSimulates ==
  ASSUME PoolInv, NoOrphan, PoolInv', NEW fd \in Fds, NEW i \in 1 .. Size,
         EventError(fd, i) \/ EventRecvError(fd, i) \/ EventEof(fd, i)
  PROVE  NoOrphan' /\ Simulates
  <1>1. GoodPool(pool)
    BY DEF PoolInv
  <1>2. CASE EventError(fd, i) \/ EventRecvError(fd, i)
    <2>1. Becomes(CloseSlot(pool, i))
      BY <1>2 DEF EventError, EventRecvError
    <2>2. QED BY <1>1, <2>1, CloseKeeps, ClosesSimulate
  <1>3. CASE EventEof(fd, i)
    <2>1. peer' = peer /\ pool' \in {pool, Disconnected(pool, i)}
      BY <1>3 DEF EventEof
    <2>2. PICK f \in [1 .. Size -> Slot], u \in Int : pool = [slots |-> f, used |-> u]
      BY <1>1, SlotFields DEF GoodPool
    <2>3. PICK s : s = [f[i] EXCEPT !.state = @ \cup {"disconnection"},
                                    !.expire = IF @ = "none" THEN "ahead" ELSE @]
      OBVIOUS
    <2>4. s.fd = pool.slots[i].fd /\ ("connected" \in s.state <=> Connected(pool, i))
      BY <2>2, <2>3 DEF Slot, Connected
    <2>5. Disconnected(pool, i).slots = [pool.slots EXCEPT ![i] = s]
      BY <2>2, <2>3 DEF Disconnected
    <2>6. Kept(pool, pool') /\ \A j \in 1 .. Size : pool'.slots[j].fd = pool.slots[j].fd
      BY <1>1, <2>1, <2>4, <2>5, MarkKeeps DEF Kept
    <2>7. QED BY <2>1, <2>6, StaysSimulates
  <1>4. QED BY <1>2, <1>3

LEMMA PollSimulates ==
  ASSUME PoolInv, NoOrphan, PoolInv', Poll \/ PollQuits
  PROVE  NoOrphan' /\ Simulates
  <1>1. GoodPool(pool)
    BY DEF PoolInv
  <1>2. CASE PollBegin \/ PollFails \/ PollExpiry
    <2>1. PICK S : Becomes(CloseSlots(pool, S))
      BY <1>2 DEF PollBegin, PollFails, PollExpiry
    <2>2. QED BY <1>1, <2>1, CloseManyKeeps, ClosesSimulate
  <1>3. CASE AcceptFull \/ EventsDone \/ \E fd \in Fds : EventStale(fd)
    <2>1. UNCHANGED <<pool, peer>>
      BY <1>3 DEF AcceptFull, EventsDone, EventStale
    <2>2. QED BY <2>1, StaysSimulates DEF Kept
  <1>4. QED BY <1>2, <1>3, AcceptSimulates, EventSimulates DEF Poll, PollQuits

LEMMA StepSimulates ==
  ASSUME PoolInv, NoOrphan, PoolInv', [Next]_poolVars
  PROVE  NoOrphan' /\ Simulates
  <1>1. CASE UNCHANGED poolVars
    <2>1. UNCHANGED <<pool, peer>>
      BY <1>1 DEF poolVars
    <2>2. QED BY <2>1, StaysSimulates DEF Kept
  <1>2. QED BY <1>1, EnvironmentSimulates, PollSimulates, ServedSimulates, UserSimulates DEF Next

LEMMA InitSimulates == PoolInit => PoolInv /\ NoOrphan /\ Abstract!Init
  <1> SUFFICES ASSUME PoolInit PROVE PoolInv /\ NoOrphan /\ Abstract!Init
    OBVIOUS
  <1>1. PoolInv
    BY InitInv
  <1>2. NoOrphan /\ Live(peer) = {}
    BY DEF PoolInit, NoOrphan, Live, Alive
  <1>3. LiveFds = {}
    BY <1>2, LiveOpen
  <1>4. Held(pool) = {}
    BY DEF PoolInit, NewPool, Held, Connected, Indices, FreeSlot
  <1>5. Cardinality(Held(pool)) - Cardinality(LiveFds) = 0
    BY <1>3, <1>4, FS_EmptySet
  <1>6. QED BY <1>1, <1>2, <1>3, <1>5 DEF Abstract!Init

\* A pool of any size implements a bounded set of open connections, with every
\* failing call, callback and expiry a step of it or none.
THEOREM PoolImplements == Spec => ImplementsConnections
  <1>1. PoolInit => PoolInv /\ NoOrphan /\ Abstract!Init
    BY InitSimulates
  <1>2. PoolInv /\ NoOrphan /\ [Next]_poolVars => (PoolInv /\ NoOrphan)' /\ [Abstract!Next]_(Abstract!vars)
    BY StepInv, StepSimulates DEF Simulates
  <1>3. QED BY <1>1, <1>2, PTL DEF Spec, ImplementsConnections, Abstract!Spec

-----------------------------------------------------------------------------
(* The shell above its pool *)

\* The callback answers, ends the connection or makes it a user's, whose
\* expiry is cleared: all that any callback of a pool may do.
LEMMA ClosedUser ==
  ASSUME PoolInv, NEW i \in 1 .. Size, Connected(pool, i)
  PROVE  ClearExpire(CloseSlot(pool, i), i) = CloseSlot(pool, i)
  <1>1. PICK f \in [1 .. Size -> Slot], u \in Int : pool = [slots |-> f, used |-> u]
    BY SlotFields DEF PoolInv, GoodPool
  <1>2. PICK g : g = [f EXCEPT ![i] = FreeSlot]
    OBVIOUS
  <1>3. CloseSlot(pool, i) = [slots |-> g, used |-> u - 1]
    BY <1>1, <1>2 DEF CloseSlot
  <1>4. [g EXCEPT ![i] = [@ EXCEPT !.expire = "none"]] = g
    <2>1. [FreeSlot EXCEPT !.expire = "none"] = FreeSlot
      BY DEF FreeSlot
    <2> HIDE DEF FreeSlot
    <2>2. g \in [1 .. Size -> Slot \cup {FreeSlot}] /\ g[i] = FreeSlot
      BY <1>2
    <2>3. QED BY <2>1, <2>2
  <1>5. QED BY <1>3, <1>4 DEF ClearExpire

LEMMA ShellUses ==
  ASSUME PoolInv, [ShellNext]_vars
  PROVE  [Next]_poolVars
  <1>1. CASE UNCHANGED vars
    BY <1>1 DEF vars
  <1>2. CASE (Environment \/ Poll \/ PollQuits) /\ NoLogin
    BY <1>2 DEF Next
  <1>3. CASE ShellServed
    <2>1. PICK fd \in Fds, i \in 1 .. Size :
             Command(fd, i) \/ BadLine(fd, i) \/ Stranger(fd, i) \/ UserLogin(fd, i)
      BY <1>3 DEF ShellServed
    <2>2. PICK p : EventData(fd, i, p) /\ (\/ p = pool \/ p = CloseSlot(pool, i) \/ p = ClearExpire(pool, i)
                                           \/ p = ClearExpire(CloseSlot(pool, i), i))
      BY <2>1 DEF Command, BadLine, Stranger, UserLogin, Answered
    <2>3. Connected(pool, i)
      BY <2>2 DEF EventData
    <2>4. p \in AnyCallback(i)
      BY <2>2, <2>3, ClosedUser DEF AnyCallback, ClearExpire
    <2>5. UserServed
      BY <2>2, <2>4 DEF UserServed
    <2>6. QED BY <2>5 DEF Next
  <1>4. QED BY <1>1, <1>2, <1>3 DEF ShellNext

\* A listener is served only when a client waits: the count of those waiting
\* never falls below 0.
KernelOK ==
    /\ watched \subseteq Fds
    /\ backlog \in 0 .. MaxBacklog
    /\ pc \in Steps
    /\ pc = "listener" => backlog > 0
    /\ todo \subseteq Fds

LEMMA KernelStep ==
  ASSUME PoolInv, KernelOK, [Next]_poolVars
  PROVE  KernelOK'
  <1> USE BacklogAssumption DEF KernelOK, Steps
  <1>0. Unused \subseteq Fds /\ pool \in PoolStates
    BY DEF Unused, PoolInv, GoodPool
  <1>1. CASE UNCHANGED poolVars
    BY <1>1 DEF poolVars
  <1>2. CASE Environment
    BY <1>2 DEF Environment, ClientKnocks, PeerSends, PeerLeaves, TimePasses
  <1>3. ASSUME NEW i \in 1 .. Size, Accept(i) \/ AcceptFails(i) PROVE KernelOK'
    <2>1. watched' \subseteq Fds
      BY <1>0, <1>3 DEF Accept, AcceptFails, Becomes, NewSocket
    <2>2. pc = "listener" /\ backlog' \in {backlog - 1, backlog} /\ pc' \in {"idle", "events"} /\ todo' \in {todo, {}}
      BY <1>3 DEF Accept, AcceptFails
    <2>3. QED BY <2>1, <2>2
  <1>4. CASE PollBegin \/ PollFails \/ AcceptFull \/ EventsDone \/ PollExpiry
    BY <1>4 DEF PollBegin, PollFails, AcceptFull, EventsDone, PollExpiry, Becomes, Ready
  <1>5. ASSUME NEW fd \in Fds, NEW i \in 1 .. Size,
               EventStale(fd) \/ EventError(fd, i) \/ EventRecvError(fd, i) \/ EventEof(fd, i)
               \/ (\E p \in AnyCallback(i) : EventData(fd, i, p))
        PROVE  KernelOK'
    BY <1>5 DEF EventStale, EventError, EventRecvError, EventEof, EventData, Becomes
  <1>6. CASE UserConnects \/ UserSends \/ \E i \in 1 .. Size : ConnPoolClose(i)
    <2>1. UNCHANGED <<backlog, pc, todo>>
      BY <1>6 DEF UserConnects, UserSends, ConnPoolConnect, ConnPoolClose
    <2>2. watched' \subseteq Fds
      BY <1>0, <1>6 DEF UserConnects, UserSends, ConnPoolConnect, ConnPoolClose, Becomes, NewSocket
    <2>3. QED BY <2>1, <2>2
  <1>8. 1 \in 1 .. Size
    BY SizeAssumption
  <1>7. QED BY <1>1, <1>2, <1>3, <1>4, <1>5, <1>6, <1>8 DEF Next, Poll, PollQuits, UserServed

\* An entry of control_conns is a connection that sent the marker and has no
\* other entry.
UsersOK ==
    /\ control \in [1 .. Size -> 0 .. Size]
    /\ greeted \subseteq 1 .. Size
    /\ UsersSentMarker
    /\ OneEntryEach

\* Clearing the entries of the connections that are closed, after an entry was
\* given to a connection or not.
LEMMA ClearedOK ==
  ASSUME NEW c \in [1 .. Size -> 0 .. Size], NEW g \in SUBSET (1 .. Size),
         \A k \in 1 .. Size : c[k] # 0 => Connected(pool, c[k]) /\ c[k] \in g,
         \A k, n \in 1 .. Size : c[k] = c[n] /\ c[k] # 0 => k = n,
         control' = SignalConnClose(c), greeted' = g \ Closing
  PROVE  UsersOK'
  <1>1. 0 \in 0 .. Size
    BY SizeAssumption
  <1>2. \A k \in 1 .. Size : control'[k] = IF c[k] \in Closing THEN 0 ELSE c[k]
    BY DEF SignalConnClose
  <1>3. control' \in [1 .. Size -> 0 .. Size]
    BY <1>1 DEF SignalConnClose
  <1>4. ASSUME NEW k \in 1 .. Size, control'[k] # 0
        PROVE  Connected(pool', control'[k]) /\ control'[k] \in greeted'
    <2>1. control'[k] = c[k] /\ c[k] \notin Closing /\ c[k] # 0 /\ c[k] \in 1 .. Size
      BY <1>2, <1>4, SizeAssumption
    <2>2. Connected(pool, c[k]) /\ c[k] \in g
      BY <2>1
    <2>3. Connected(pool', c[k])
      BY <2>1, <2>2 DEF Closing, Connected
    <2>4. QED BY <2>1, <2>2, <2>3
  <1>5. UsersSentMarker'
    BY <1>4 DEF UsersSentMarker, Users, Connected
  <1>6. OneEntryEach'
    BY <1>2 DEF OneEntryEach
  <1>7. QED BY <1>3, <1>5, <1>6 DEF UsersOK

LEMMA UsersStep ==
  ASSUME UsersOK, ShellNext
  PROVE  UsersOK'
  <1>0. /\ control \in [1 .. Size -> 0 .. Size] /\ greeted \in SUBSET (1 .. Size)
        /\ \A k \in 1 .. Size : control[k] # 0 => Connected(pool, control[k]) /\ control[k] \in greeted
        /\ \A k, n \in 1 .. Size : control[k] = control[n] /\ control[k] # 0 => k = n
    BY DEF UsersOK, UsersSentMarker, OneEntryEach, Users
  <1>1. CASE NoLogin
    BY <1>0, <1>1, ClearedOK DEF NoLogin
  <1>2. ASSUME NEW fd \in Fds, NEW i \in 1 .. Size, UserLogin(fd, i) PROVE UsersOK'
    <2>1. PICK c : c = [k \in 1 .. Size |-> IF k \in FreeEntries THEN i ELSE control[k]]
      OBVIOUS
    <2>2. PICK g : g = greeted \cup {i}
      OBVIOUS
    <2>3. i \notin Users /\ Connected(pool, i) /\ control' = SignalConnClose(c) /\ greeted' = g \ Closing
      BY <1>2, <2>1, <2>2 DEF UserLogin, EventData
    <2>4. c \in [1 .. Size -> 0 .. Size] /\ g \in SUBSET (1 .. Size)
      BY <1>0, <2>1, <2>2, SizeAssumption
    <2>5. \A k \in 1 .. Size : c[k] # 0 => Connected(pool, c[k]) /\ c[k] \in g
      BY <1>0, <2>1, <2>2, <2>3
    <2>6. \A k, n \in FreeEntries : k = n
      BY SizeAssumption DEF FreeEntries
    <2>7. ASSUME NEW k \in 1 .. Size, NEW n \in 1 .. Size, c[k] = c[n], c[k] # 0 PROVE k = n
      <3>1. i # 0
        BY SizeAssumption
      <3>2. \A m \in 1 .. Size : control[m] # i
        BY <2>3, <3>1 DEF Users
      <3>3. QED BY <1>0, <2>1, <2>6, <2>7, <3>2
    <2>8. QED BY <2>3, <2>4, <2>5, <2>7, ClearedOK
  <1>3. QED BY <1>1, <1>2 DEF ShellNext, ShellServed, Command, BadLine, Stranger

ShellInv == PoolInv /\ NoOrphan /\ KernelOK /\ UsersOK

LEMMA ShellInit == Init => ShellInv /\ Abstract!Init
  <1> SUFFICES ASSUME Init PROVE ShellInv /\ Abstract!Init
    OBVIOUS
  <1>1. KernelOK
    BY BacklogAssumption DEF Init, PoolInit, KernelOK, Steps
  <1>2. UsersOK
    BY SizeAssumption DEF Init, UsersOK, UsersSentMarker, OneEntryEach, Users
  <1>3. QED BY <1>1, <1>2, InitSimulates DEF Init, ShellInv

LEMMA ShellStep == ShellInv /\ [ShellNext]_vars => ShellInv' /\ [Next]_poolVars /\ [Abstract!Next]_(Abstract!vars)
  <1> SUFFICES ASSUME ShellInv, [ShellNext]_vars
               PROVE  ShellInv' /\ [Next]_poolVars /\ [Abstract!Next]_(Abstract!vars)
    OBVIOUS
  <1>1. [Next]_poolVars
    BY ShellUses DEF ShellInv
  <1>2. PoolInv' /\ NoOrphan' /\ [Abstract!Next]_(Abstract!vars)
    BY <1>1, StepInv, StepSimulates DEF ShellInv, Simulates
  <1>3. KernelOK'
    BY <1>1, KernelStep DEF ShellInv
  <1>4. UsersOK'
    <2>1. CASE UNCHANGED vars
      BY <2>1 DEF vars, poolVars, ShellInv, UsersOK, UsersSentMarker, OneEntryEach, Users, Connected
    <2>2. QED BY <2>1, UsersStep DEF ShellInv
  <1>5. QED BY <1>1, <1>2, <1>3, <1>4 DEF ShellInv

\* A user is a connection that sent the marker itself: no entry of
\* control_conns outlives its connection, whichever way that one ends, to be
\* inherited by the next client of its slot (api_shell_terminal.c:3284-3288).
THEOREM UsersAreGreeted == ShellSpec => []UsersSentMarker
  <1>1. ShellInv => UsersSentMarker
    BY DEF ShellInv, UsersOK
  <1>2. QED BY <1>1, ShellInit, ShellStep, PTL DEF ShellSpec

\* The pool and the table of users keep to their types, and no connection has
\* two entries, for which its line would run twice (api_shell_terminal.c:3302).
THEOREM ControlIsWellFormed == ShellSpec => []ControlWellFormed
  <1>1. ShellInv => ControlWellFormed
    BY DEF ShellInv, PoolInv, GoodPool, KernelOK, UsersOK, ControlWellFormed, ControlTypeOK, TypeOK
  <1>2. QED BY <1>1, ShellInit, ShellStep, PTL DEF ShellSpec

\* Whatever the shell's clients send, the shell does with its pool only what
\* any user of ConnPool may do.
THEOREM ShellUsesPool == ShellSpec => UsesPool
  <1>1. Init => PoolInit
    BY DEF Init
  <1>2. QED BY <1>1, ShellInit, ShellStep, PTL DEF ShellSpec, UsesPool

\* So the counter is exact and a descriptor is in one slot under the shell.
THEOREM ShellKeepsPool == ShellSpec => [](CounterExact /\ OneSlotPerFd)
  <1>1. ShellInv => CounterExact /\ OneSlotPerFd
    BY DEF ShellInv, PoolInv, GoodPool, Exact, FdOfOne, CounterExact, OneSlotPerFd
  <1>2. QED BY <1>1, ShellInit, ShellStep, PTL DEF ShellSpec

\* And the shell's connections are a bounded set that none leaves unclosed.
THEOREM ShellImplements == ShellSpec => ImplementsConnections
  <1>1. QED BY ShellInit, ShellStep, PTL DEF ShellSpec, ImplementsConnections, Abstract!Spec

-----------------------------------------------------------------------------
(* The link to the dataserver above its pool *)

\* Outside the poll MonitorProcess finds the pool between two polls.
LinkOK ==
    /\ at \in Places
    /\ interval \in Intervals
    /\ sendDue \in BOOLEAN /\ reconnDue \in BOOLEAN
    /\ connOK \in BOOLEAN /\ greets \in BOOLEAN
    /\ inbox \in Seq(Messages) /\ Len(inbox) <= MaxInbox
    /\ owes \subseteq Requests
    /\ at # "poll" => pc = "idle"

LEMMA SlotOne ==
  ASSUME PoolInv
  PROVE  1 \in 1 .. Size /\ Fd \in Fds \cup {NoFd}
  <1>1. 1 \in 1 .. Size
    BY SizeAssumption
  <1>2. pool.slots \in [1 .. Size -> Slot]
    BY SlotFields DEF PoolInv, GoodPool
  <1>3. QED BY <1>1, <1>2 DEF Fd, Slot

\* A send finds the slot connected: it changes nothing, or closes the slot of a
\* socket that is not connected or has lost its peer.
LEMMA SendingUses ==
  ASSUME PoolInv, Sending, State = {"connected"}, pc = "idle"
  PROVE  UserSends
  <1>1. 1 \in 1 .. Size
    BY SlotOne
  <1>2. Connected(pool, 1)
    BY DEF State, Connected
  <1>3. PICK p : Becomes(p) /\ (\/ p \in AfterSend(pool, 1)
                                \/ p = CloseSlot(pool, 1) /\ Fd # NoFd /\ peer[Fd] = "raw")
    BY DEF Sending
  <1>4. p \in AfterSend(pool, 1)
    BY <1>2, <1>3 DEF AfterSend, Fd
  <1>5. UNCHANGED <<backlog, pc, todo>>
    BY DEF Sending
  <1>6. QED BY <1>1, <1>3, <1>4, <1>5 DEF UserSends

LEMMA ReadUses ==
  ASSUME PoolInv, KernelOK, NEW answered, Read(answered)
  PROVE  UserServed
  <1>1. PICK p : EventData(Fd, 1, p) /\ (p = pool \/ p = CloseSlot(pool, 1))
    BY DEF Read
  <1>2. 1 \in 1 .. Size /\ Fd \in Fds
    BY <1>1, SlotOne DEF EventData, KernelOK
  <1>3. p \in AnyCallback(1)
    BY <1>1, <1>2 DEF AnyCallback
  <1>4. QED BY <1>1, <1>2, <1>3 DEF UserServed

LEMMA LinkUses ==
  ASSUME ~Listening, PoolInv, KernelOK, LinkOK, [LinkNext]_linkVars
  PROVE  [Next]_poolVars
  <1>0. 1 \in 1 .. Size /\ (Fd # NoFd => Fd \in Fds)
    BY SlotOne
  <1>1. CASE UNCHANGED linkVars
    BY <1>1 DEF linkVars
  <1>2. ASSUME NEW m, Arrives(m) PROVE [Next]_poolVars
    BY <1>0, <1>2 DEF Arrives, Next, Environment
  <1>3. CASE ServerLeaves
    BY <1>0, <1>3 DEF ServerLeaves, Next, Environment
  <1>4. CASE SendTimer \/ ReconnTimer \/ Skip
    BY <1>4 DEF SendTimer, ReconnTimer, Skip
  <1>5. CASE CloseLeft
    BY <1>0, <1>5 DEF CloseLeft, Next
  <1>6. CASE Reconnect
    <2>1. CASE ConnPoolConnect(1, "none")
      <3>1. UserConnects
        BY <1>0, <2>1 DEF UserConnects
      <3>2. QED BY <3>1 DEF Next
    <2>2. QED BY <1>6, <2>1 DEF Reconnect
  <1>7. CASE SwitchPro \/ CellInfoPro \/ NewCells
    <2>1. pc = "idle" /\ State = {"connected"} /\ (Sending \/ UNCHANGED poolVars)
      BY <1>7 DEF SwitchPro, CellInfoPro, NewCells, LinkOK
    <2>2. QED BY <2>1, SendingUses DEF Next
  <1>8. CASE Polls
    BY <1>8 DEF Polls, Next
  <1>9. CASE FirstMessage \/ Accepted \/ Replied
    <2>1. Read(TRUE) \/ Read(FALSE)
      BY <1>9 DEF FirstMessage, Accepted, Replied
    <2>2. QED BY <2>1, ReadUses DEF Next
  <1>10. (\E m : Arrives(m)) \/ ServerLeaves \/ SendTimer \/ ReconnTimer \/ MonitorProcess \/ UNCHANGED linkVars
    BY DEF LinkNext, Greet, Answers, Answer, Refusal, Orders
  <1>11. QED BY <1>1, <1>2, <1>3, <1>4, <1>5, <1>6, <1>7, <1>8, <1>9, <1>10 DEF MonitorProcess

\* The socket holds no more than it has room for, and MonitorProcess leaves the
\* poll only when the poll has returned.
LEMMA LinkStep ==
  ASSUME LinkOK, [LinkNext]_linkVars
  PROVE  LinkOK'
  <1> USE DEF LinkOK, Places, Intervals, Messages, Requests
  <1>0. <<>> \in Seq(Messages) /\ Len(<<>>) <= MaxInbox
    BY InboxAssumption
  <1>1. CASE UNCHANGED linkVars
    BY <1>1 DEF linkVars, ownVars, poolVars
  <1>2. ASSUME NEW m \in Messages, Arrives(m) PROVE inbox' \in Seq(Messages) /\ Len(inbox') <= MaxInbox /\ pc' = pc
    <2>1. Len(inbox) < MaxInbox /\ inbox' = Append(inbox, m)
      BY <1>2 DEF Arrives
    <2>2. pc' = pc
      BY <1>2 DEF Arrives, PeerSends, poolVars
    <2>3. QED BY <2>1, <2>2, InboxAssumption
  <1>3. CASE Greet \/ Answers \/ Orders \/ \E r \in Requests : Refusal(r)
    BY <1>2, <1>3 DEF Greet, Answers, Answer, AnswerTo, Orders, Refusal
  <1>4. CASE ServerLeaves \/ SendTimer \/ ReconnTimer
    BY <1>0, <1>4 DEF ServerLeaves, PeerLeaves, SendTimer, ReconnTimer, poolVars
  <1>5. ASSUME Dropped PROVE /\ inbox' \in Seq(Messages) /\ Len(inbox') <= MaxInbox
                             /\ owes' \subseteq Requests /\ greets' \in BOOLEAN
    BY <1>0, <1>5 DEF Dropped
  <1>6. CASE CloseLeft
    <2>1. pc' = pc
      BY <1>6 DEF CloseLeft, ConnPoolClose, poolVars
    <2>2. QED BY <1>5, <1>6, <2>1 DEF CloseLeft
  <1>7. CASE Reconnect
    <2>1. pc' = pc
      BY <1>7 DEF Reconnect, ConnPoolConnect, poolVars
    <2>2. greets' \in BOOLEAN
      BY <1>7 DEF Reconnect
    <2>3. QED BY <1>7, <2>1, <2>2 DEF Reconnect
  <1>8. CASE SwitchPro \/ CellInfoPro
    BY <1>0, <1>8 DEF SwitchPro, CellInfoPro, Reaches
  <1>9. CASE NewCells \/ Skip
    BY <1>5, <1>9 DEF NewCells, Skip, poolVars
  <1>10. CASE Polls
    BY <1>5, <1>10 DEF Polls
  <1>11. CASE FirstMessage \/ Accepted \/ Replied
    <2>1. at' = at /\ at = "poll" /\ inbox' = <<>> /\ UNCHANGED <<sendDue, reconnDue>>
          /\ owes' \subseteq Requests /\ greets' \in BOOLEAN
      BY <1>11 DEF FirstMessage, Accepted, Replied, Read
    <2>2. interval' \in Intervals /\ connOK' \in BOOLEAN
      BY <1>11 DEF FirstMessage, Accepted, Replied, NextInterval
    <2>3. QED BY <1>0, <2>1, <2>2
  <1>12. QED BY <1>1, <1>3, <1>4, <1>6, <1>7, <1>8, <1>9, <1>10, <1>11 DEF LinkNext, MonitorProcess

LinkInv == PoolInv /\ NoOrphan /\ KernelOK /\ LinkOK

LEMMA LinkStarts == LinkInit => LinkInv /\ Abstract!Init
  <1> SUFFICES ASSUME LinkInit PROVE LinkInv /\ Abstract!Init
    OBVIOUS
  <1>1. KernelOK
    BY BacklogAssumption DEF LinkInit, PoolInit, KernelOK, Steps
  <1>2. LinkOK
    <2>1. inbox \in Seq(Messages) /\ Len(inbox) <= MaxInbox
      BY InboxAssumption DEF LinkInit
    <2>2. sendDue \in BOOLEAN /\ reconnDue \in BOOLEAN /\ connOK \in BOOLEAN /\ greets \in BOOLEAN
      BY DEF LinkInit
    <2>3. at = "connect" /\ interval = "init" /\ owes = {} /\ pc = "idle"
      BY DEF LinkInit, PoolInit
    <2>4. QED BY <2>1, <2>2, <2>3 DEF LinkOK, Places, Intervals
  <1>3. QED BY <1>1, <1>2, InitSimulates DEF LinkInit, LinkInv

LEMMA LinkKeeps ==
  ASSUME ~Listening
  PROVE  LinkInv /\ [LinkNext]_linkVars => LinkInv' /\ [Next]_poolVars /\ [Abstract!Next]_(Abstract!vars)
  <1> SUFFICES ASSUME LinkInv, [LinkNext]_linkVars
               PROVE  LinkInv' /\ [Next]_poolVars /\ [Abstract!Next]_(Abstract!vars)
    OBVIOUS
  <1>1. [Next]_poolVars
    BY LinkUses DEF LinkInv
  <1>2. PoolInv' /\ NoOrphan' /\ [Abstract!Next]_(Abstract!vars)
    BY <1>1, StepInv, StepSimulates DEF LinkInv, Simulates
  <1>3. KernelOK' /\ LinkOK'
    BY <1>1, KernelStep, LinkStep DEF LinkInv
  <1>4. QED BY <1>1, <1>2, <1>3 DEF LinkInv

\* MonitorProcess calls a pool that has no listener between two polls only, and
\* closes, connects and sends as any user may: no socket is lost or used after
\* its end, whatever the server does (api_monitor.c:5453-5579).
THEOREM LinkUsesItsPool == ~Listening => (LinkSpec => LinkUsesPool)
  <1> SUFFICES ASSUME ~Listening PROVE LinkSpec => LinkUsesPool
    OBVIOUS
  <1>1. LinkInit => PoolInit
    BY DEF LinkInit
  <1>2. LinkInv => LinkTypeOK
    BY DEF LinkInv, LinkOK, PoolInv, GoodPool, KernelOK, LinkTypeOK, TypeOK
  <1>3. LinkInv /\ [LinkNext]_linkVars => LinkInv' /\ [Next]_poolVars
    BY LinkKeeps
  <1>4. QED BY <1>1, <1>2, <1>3, LinkStarts, PTL DEF LinkSpec, LinkUsesPool

\* So its counter is exact and its connections are a bounded set of which none
\* is dropped unclosed.
THEOREM LinkImplements == ~Listening => (LinkSpec => []CounterExact /\ ImplementsConnections)
  <1> SUFFICES ASSUME ~Listening PROVE LinkSpec => []CounterExact /\ ImplementsConnections
    OBVIOUS
  <1>1. LinkInv => CounterExact
    BY DEF LinkInv, PoolInv, GoodPool, Exact, CounterExact
  <1>2. LinkInv /\ [LinkNext]_linkVars => LinkInv' /\ [Abstract!Next]_(Abstract!vars)
    BY LinkKeeps
  <1>3. QED BY <1>1, <1>2, LinkStarts, PTL DEF LinkSpec, ImplementsConnections, Abstract!Spec

=============================================================================
