------------------------ MODULE ServerRequests_proofs ------------------------
(***************************************************************************)
(* Proofs about ServerRequests, for any cells and any requests: the answer *)
(* to a request accounts for each of its ids, and for each cell that       *)
(* should have answered.                                                   *)
(***************************************************************************)
EXTENDS ServerRequests, FiniteSetTheorems, TLAPS

Places == {"idle", "lookup", "wait", "count", "collect", "reply", "stuck"}

\* The places where ids are still to be looked up, or their cells waited for
Waits == {"wait", "count", "collect"}

\* What the cells do, and the handler of their answers
CellsDo == AnswerClear \/ \E c \in Cells : Answer(c) \/ Login(c) \/ ComesOnline(c) \/ GoesOffline(c) \/ DelCell(c)

Types ==
    /\ online \subseteq table /\ table \subseteq Cells /\ comm \subseteq table
    /\ owes \in [Cells -> {"none", "user", "initall"}]
    /\ req \in [form : Forms, ids : Seq(Ids)]
    /\ at \in Places /\ k \in Nat
    /\ partLen \in Nat /\ list \in Seq(Cells \cup {All}) /\ notexist \subseteq Ids
    /\ lock \in {"free", "leaked"}
    /\ raised \in BOOLEAN /\ mass \in BOOLEAN /\ flag \in BOOLEAN /\ skipped \in BOOLEAN
    /\ total \in Nat /\ off \in Nat /\ pos \in Nat
    /\ verdict \in {"succ", "inter", "fail"} /\ rtn \in {"ok", "empty"}
    /\ dest \in [word : {"none", "Success", "offline", "AllInterruption"}, cells : SUBSET Cells]
    /\ Len(out) <= 2 /\ steady \subseteq online
    /\ half \subseteq table /\ walked \subseteq Cells /\ counted \subseteq Cells /\ late \subseteq Cells

\* iPartLen never falls below the ids kept so far and those yet to be looked up.
PlaceOK ==
    /\ at # "idle" => out = <<OK>>
    /\ at \in {"lookup"} \cup Waits => k \in 1 .. Len(Targets)
    /\ at = "lookup" => partLen >= Len(list) + (Len(Targets) - k) + 1
    /\ at \in Waits => partLen >= Len(list) + (Len(Targets) - k)
    /\ at = "collect" => pos >= 1

LookedUp(m) == {Targets[i] : i \in 1 .. m}
Kinds == SetOf(list) \cup notexist

\* With no id left out iPartLen is exactly that, so that the command is flagged
\* with the last id and not before.
Counted ==
    /\ at = "lookup" => /\ raised /\ partLen = Len(list) + (Len(Targets) - k) + 1
                        /\ Kinds = LookedUp(k - 1)
    /\ at \in Waits => k = Len(Targets)
    /\ at \in Waits => ~raised /\ Kinds = SetOf(Targets)
    /\ at = "reply" /\ Targets # <<>> => ~raised /\ Kinds = SetOf(Targets)

CountOK == ~skipped => Counted

\* The cells that are to be named
Due == steady \ late

\* The handler of an answer clears the mark of no cell that is due. The cells that
\* the walk has counted off are none of the steady ones, so that all there were
\* when they were counted cannot be.
WalkOK ==
    /\ half \cap steady \subseteq late
    /\ at = "count" => /\ steady \subseteq counted
                       /\ total = Cardinality(counted)
                       /\ off <= Cardinality(walked \ steady)

\* A cell that is due is still marked and on the list, at an entry that is yet
\* to be collected, or was named already.
Named ==
    /\ at \in {"lookup", "wait", "count"} => Due \subseteq comm
    /\ at \in {"lookup", "wait"} => mass \/ Due \subseteq SetOf(list)
    /\ at = "collect" => walked = {}
    /\ at = "collect" => \A c \in Due : \/ c \in comm /\ \E m \in pos .. Len(list) : list[m] = c
                                        \/ verdict = "fail" /\ c \in dest.cells
    /\ at = "collect" => (verdict = "fail" => dest.word = "offline")
    /\ at = "count" /\ walked \subseteq counted =>
          /\ verdict = "inter" => steady = {}
          /\ verdict = "fail" => dest.word = "offline"
          /\ \A c \in Due \cap walked : verdict = "fail" /\ c \in dest.cells
    /\ at = "reply" /\ walked \subseteq counted => Due \subseteq Replay.offline

NamedOK == ~skipped => Named

RequestInv == Types /\ PlaceOK /\ CountOK /\ WalkOK /\ NamedOK

-----------------------------------------------------------------------------
(* The targets, and what the lookup of one of them does *)

LEMMA TargetsType ==
  ASSUME Types
  PROVE  /\ Targets \in Seq(Ids \cup {All}) /\ Len(Targets) \in Nat /\ DOMAIN Targets = 1 .. Len(Targets)
         /\ \A i \in 1 .. Len(Targets) : Targets[i] \in Ids \cup {All}
  <1>1. req.ids \in Seq(Ids \cup {All})
    <2>1. req.ids \in Seq(Ids)
      BY DEF Types
    <2>2. \A i \in 1 .. Len(req.ids) : req.ids[i] \in Ids \cup {All}
      BY <2>1
    <2>3. QED BY <2>1, <2>2
  <1>2. <<All>> \in Seq(Ids \cup {All})
    OBVIOUS
  <1>3. Targets \in Seq(Ids \cup {All})
    BY <1>1, <1>2 DEF Targets
  <1> HIDE DEF Targets
  <1>4. QED BY <1>3

LEMMA SetOfAppend ==
  ASSUME NEW S, NEW s \in Seq(S), NEW e \in S
  PROVE  /\ Append(s, e) \in Seq(S) /\ Len(Append(s, e)) = Len(s) + 1
         /\ SetOf(Append(s, e)) = SetOf(s) \cup {e}
  <1>1. /\ Append(s, e) \in Seq(S) /\ Len(Append(s, e)) = Len(s) + 1 /\ Len(s) \in Nat
        /\ \A i \in 1 .. Len(s) : Append(s, e)[i] = s[i]
        /\ Append(s, e)[Len(s) + 1] = e
        /\ DOMAIN s = 1 .. Len(s) /\ DOMAIN Append(s, e) = 1 .. Len(s) + 1
    OBVIOUS
  <1>2. \A x : x \in SetOf(Append(s, e)) => x \in SetOf(s) \cup {e}
    BY <1>1 DEF SetOf
  <1>3. \A x \in SetOf(s) : x \in SetOf(Append(s, e))
    BY <1>1 DEF SetOf
  <1>4. e \in SetOf(Append(s, e))
    BY <1>1 DEF SetOf
  <1>5. QED BY <1>1, <1>2, <1>3, <1>4

\* One more id looked up, and all of them.
LEMMA LookedUpNext ==
  ASSUME Types, k \in 1 .. Len(Targets)
  PROVE  /\ LookedUp(k) = LookedUp(k - 1) \cup {Targets[k]}
         /\ k = Len(Targets) => LookedUp(k) = SetOf(Targets)
         /\ LookedUp(0) = {}
  <1>1. k \in Nat /\ Len(Targets) \in Nat /\ DOMAIN Targets = 1 .. Len(Targets)
    BY TargetsType DEF Types
  <1> HIDE DEF Targets
  <1>2. \A i : i \in 1 .. k <=> i \in 1 .. k - 1 \/ i = k
    BY <1>1
  <1>3. LookedUp(k) = LookedUp(k - 1) \cup {Targets[k]}
    BY <1>2 DEF LookedUp
  <1>4. k = Len(Targets) => LookedUp(k) = SetOf(Targets)
    BY <1>1 DEF LookedUp, SetOf
  <1>5. LookedUp(0) = {}
    BY DEF LookedUp
  <1>6. QED BY <1>3, <1>4, <1>5

\* Kept either flags the command, is stuck at the lock, or goes on.
LEMMA KeptCases ==
  ASSUME Kept
  PROVE  /\ rtn' = "ok"
         /\ \/ /\ raised /\ partLen' = Len(list') /\ at' = "wait" /\ flag' = TRUE /\ raised' = FALSE /\ k' = k
            \/ /\ raised /\ partLen' = Len(list') /\ at' = "stuck" /\ UNCHANGED <<flag, raised>> /\ k' = k
            \/ /\ ~(raised /\ partLen' = Len(list')) /\ UNCHANGED <<flag, raised>> /\ k' = k + 1
               /\ at' = IF k < Len(Targets) THEN "lookup" ELSE "reply"
  BY DEF Kept, NextId

\* The ids that are kept or counted off: what the lookup leaves in ParData.
LEMMA LookupKinds ==
  ASSUME Types, at = "lookup", k \in 1 .. Len(Targets),
         LookupAll \/ LookupKnown \/ LookupUnknown
  PROVE  /\ Kept /\ UNCHANGED <<table, online, owes, half, lock, wait, message, skipped>>
         /\ list' \in Seq(Cells \cup {All}) /\ notexist' \subseteq Ids
         /\ Kinds' = Kinds \cup {Targets[k]}
         /\ \/ Len(list') = Len(list) + 1 /\ partLen' = partLen
            \/ Len(list') = Len(list) /\ partLen' = partLen - 1
         /\ Targets' = Targets
  <1>1. Targets[k] \in Ids \cup {All} /\ list \in Seq(Cells \cup {All}) /\ notexist \subseteq Ids
    BY TargetsType DEF Types
  <1>2. Kept /\ UNCHANGED <<table, online, owes, half, lock, wait, message, skipped>> /\ Targets' = Targets
    BY DEF LookupAll, LookupKnown, LookupUnknown, Mark, cells, message, Targets
  <1>3. CASE LookupAll
    <2>1. list' = Append(list, Targets[k]) /\ Targets[k] = All /\ notexist' = notexist /\ partLen' = partLen
      BY <1>3 DEF LookupAll
    <2>2. QED BY <1>1, <1>2, <2>1, SetOfAppend DEF Kinds
  <1>4. CASE LookupKnown
    <2>1. list' = Append(list, Targets[k]) /\ Targets[k] \in Cells /\ notexist' = notexist /\ partLen' = partLen
      BY <1>4 DEF LookupKnown, Types
    <2>2. QED BY <1>1, <1>2, <2>1, SetOfAppend DEF Kinds
  <1>5. CASE LookupUnknown
    <2>1. list' = list /\ Targets[k] # All /\ notexist' = notexist \cup {Targets[k]} /\ partLen' = partLen - 1
      BY <1>5 DEF LookupUnknown
    <2>2. QED BY <1>1, <1>2, <2>1 DEF Kinds
  <1>6. QED BY <1>3, <1>4, <1>5

-----------------------------------------------------------------------------
(* Types *)

LEMMA TypesLookup ==
  ASSUME Types, PlaceOK, Lookup
  PROVE  Types'
  <1>1. at = "lookup" /\ k \in 1 .. Len(Targets)
    BY DEF Lookup, LookupEmpty, LookupAll, LookupKnown, LookupUnknown, LookupLong, PlaceOK
  <1>2. k \in Nat /\ k + 1 \in Nat /\ Targets[k] \in Ids \cup {All}
    BY <1>1, TargetsType DEF Types
  <1>3. CASE LookupEmpty
    BY <1>2, <1>3 DEF LookupEmpty, NextId, Types, Places, cells, parts, flags, wait, message, marks
  <1>4. CASE LookupLong
    <2>1. Targets[k] \in Ids
      BY <1>4, IdsAssumption DEF LookupLong, Ids
    <2>2. QED BY <1>4, <2>1 DEF LookupLong, Types, Places, cells, flags, wait, message, marks
  <1>5. CASE LookupAll \/ LookupKnown \/ LookupUnknown
    <2>1. /\ Kept /\ UNCHANGED <<table, online, owes, half, lock, wait, message, skipped>>
          /\ list' \in Seq(Cells \cup {All}) /\ notexist' \subseteq Ids
      BY <1>1, <1>5, LookupKinds
    <2>2. partLen' \in Nat
      <3>1. partLen' = partLen \/ partLen' = partLen - 1
        BY <1>1, <1>5, LookupKinds
      <3>2. partLen \in Nat /\ Len(list) \in Nat /\ Len(Targets) \in Nat /\ k <= Len(Targets)
            /\ partLen >= Len(list) + (Len(Targets) - k) + 1
        BY <1>1, TargetsType DEF Types, PlaceOK
      <3> HIDE DEF Targets
      <3>3. QED BY <1>2, <3>1, <3>2
    <2>3. /\ rtn' = "ok" /\ at' \in Places /\ k' \in Nat /\ flag' \in BOOLEAN /\ raised' \in BOOLEAN
      BY <1>2, <2>1, KeptCases DEF Types, Places
    <2>4. comm' \subseteq table /\ steady' \subseteq online /\ late' \subseteq Cells /\ mass' \in BOOLEAN
      BY <1>5 DEF LookupAll, LookupKnown, LookupUnknown, Mark, Types, cells, marks
    <2>5. QED BY <2>1, <2>2, <2>3, <2>4 DEF Types, wait, message
  <1>6. QED BY <1>3, <1>4, <1>5 DEF Lookup

LEMMA TypesSends ==
  ASSUME Types, Sends
  PROVE  Types'
  <1>1. PICK o \in [Cells -> {"none", "user", "initall"}], l \in {"free", "leaked"} : owes' = o /\ lock' = l
    <2>1. CASE CommandMonitorAll
      BY <2>1 DEF CommandMonitorAll, Types
    <2>2. CASE CommandMonitorList
      BY <2>2 DEF CommandMonitorList, Types
    <2>3. QED BY <2>1, <2>2 DEF Sends
  <1>2. flag' = FALSE /\ UNCHANGED <<table, online, comm, half, parts, mass, wait, message, at, k, rtn, skipped, marks>>
    BY DEF Sends, CommandMonitorAll, CommandMonitorList
  <1>3. QED BY <1>1, <1>2 DEF Types, parts, wait, message, marks

LEMMA TypesWalk ==
  ASSUME Types, NEW c \in Cells, WalkOne(c)
  PROVE  Types'
  <1>1. /\ WalkFailed(c) \/ WalkOffline(c) \/ WalkInterrupted(c) \/ WalkOther(c)
        /\ walked' = walked \cup {c}
        /\ UNCHANGED <<table, online, comm, half, parts, flags, total, pos, counted, message, at, k, rtn, skipped, marks>>
    BY DEF WalkOne
  <1>2. /\ owes' \in [Cells -> {"none", "user", "initall"}] /\ verdict' \in {"succ", "inter", "fail"} /\ off' \in Nat
        /\ dest' \in [word : {"none", "Success", "offline", "AllInterruption"}, cells : SUBSET Cells]
    <2>1. CASE WalkFailed(c)
      <3>1. /\ [word |-> "offline", cells |-> {c}] \in [word : {"none", "Success", "offline", "AllInterruption"}, cells : SUBSET Cells]
            /\ [dest EXCEPT !.cells = @ \cup {c}] \in [word : {"none", "Success", "offline", "AllInterruption"}, cells : SUBSET Cells]
        BY DEF Types
      <3>2. QED BY <2>1, <3>1 DEF WalkFailed, Types
    <2>2. CASE WalkOffline(c)
      BY <2>2 DEF WalkOffline, Types
    <2>3. CASE WalkInterrupted(c)
      <3>1. ASSUME NEW n, dest' = [dest EXCEPT !.cells = @ \ {n}]
            PROVE  dest' \in [word : {"none", "Success", "offline", "AllInterruption"}, cells : SUBSET Cells]
        BY <3>1 DEF Types
      <3>2. dest' \in [word : {"none", "Success", "offline", "AllInterruption"}, cells : SUBSET Cells]
        BY <2>3, <3>1 DEF WalkInterrupted
      <3>3. QED BY <2>3, <3>2 DEF WalkInterrupted, Types
    <2>4. CASE WalkOther(c)
      BY <2>4 DEF WalkOther, Types
    <2>5. QED BY <1>1, <2>1, <2>2, <2>3, <2>4
  <1>3. walked' \subseteq Cells
    BY <1>1 DEF Types
  <1>4. QED BY <1>1, <1>2, <1>3 DEF Types, parts, flags, message, marks

LEMMA TypesCollect ==
  ASSUME Types, PlaceOK, CollectAll \/ CollectOne \/ Collected
  PROVE  Types'
  <1>1. k \in Nat /\ k + 1 \in Nat /\ pos + 1 \in Nat /\ off + 1 \in Nat
    BY DEF Types
  <1>2. CASE CollectAll
    <2>1. CASE WalkEnds
      <3>1. dest' \in [word : {"none", "Success", "offline", "AllInterruption"}, cells : SUBSET Cells]
        BY <2>1 DEF WalkEnds, Types
      <3>2. /\ UNCHANGED <<cells, parts, flags, walked, counted, message, rtn, skipped, marks>>
            /\ at' \in Places /\ k' \in Nat /\ total' = 0 /\ off' = 0 /\ pos' = 1 /\ verdict' = "succ"
        BY <1>1, <2>1 DEF WalkEnds, Fresh, NextId, Places
      <3>3. QED BY <3>1, <3>2 DEF Types, cells, parts, flags, message, marks
    <2>2. QED BY <1>2, <2>1, TypesWalk DEF CollectAll
  <1>3. CASE CollectOne
    <2>1. PICK c : c = list[pos]
      OBVIOUS
    <2>2. /\ CollectFailed(c) \/ CollectOffline(c) \/ CollectOther(c)
          /\ pos' = pos + 1
          /\ UNCHANGED <<table, online, half, parts, flags, total, walked, counted, message, at, k, rtn, skipped, marks>>
      BY <1>3, <2>1 DEF CollectOne
    <2>3. /\ comm' \subseteq comm /\ owes' \in [Cells -> {"none", "user", "initall"}]
          /\ verdict' \in {"succ", "inter", "fail"} /\ off' \in Nat
          /\ dest' \in [word : {"none", "Success", "offline", "AllInterruption"}, cells : SUBSET Cells]
      <3>1. CASE CollectFailed(c)
        <4>1. PICK D : D = {c} \cup (IF verdict = "succ" THEN {} ELSE dest.cells)
          OBVIOUS
        <4>2. D \subseteq Cells
          BY <3>1, <4>1 DEF CollectFailed, Types
        <4>3. dest' = [word |-> "offline", cells |-> D]
          BY <3>1, <4>1 DEF CollectFailed
        <4>4. QED BY <3>1, <4>2, <4>3 DEF CollectFailed, Types
      <3>2. CASE CollectOffline(c)
        BY <1>1, <3>2 DEF CollectOffline, Types
      <3>3. CASE CollectOther(c)
        BY <3>3 DEF CollectOther, Types
      <3>4. QED BY <2>2, <3>1, <3>2, <3>3
    <2>4. QED BY <1>1, <2>2, <2>3 DEF Types, parts, flags, message, marks
  <1>4. CASE Collected
    BY <1>1, <1>4 DEF Collected, Fresh, NextId, Types, Places, cells, parts, flags, message, marks
  <1>5. QED BY <1>2, <1>3, <1>4

LEMMA TypesCells ==
  ASSUME Types, CellsDo
  PROVE  Types'
  <1>1. UNCHANGED <<parts, flags, wait, message, at, k, rtn, skipped>>
    BY DEF CellsDo, Answer, AnswerClear, Login, ComesOnline, GoesOffline, DelCell
  <1>2. /\ online' \subseteq table' /\ table' \subseteq Cells /\ comm' \subseteq table' /\ steady' \subseteq online'
        /\ half' \subseteq table' /\ late' = late
        /\ owes' \in [Cells -> {"none", "user", "initall"}]
    BY DEF CellsDo, Answer, AnswerClear, Login, ComesOnline, GoesOffline, DelCell, Types, marks
  <1>3. QED BY <1>1, <1>2 DEF Types, parts, flags, wait, message

LEMMA TypesStep ==
  ASSUME Types, PlaceOK, Next
  PROVE  Types'
  <1>1. ASSUME NEW r \in Requests, ClientDataIn(r) PROVE Types'
    <2>1. req' = r /\ r \in [form : Forms, ids : Seq(Ids)]
      BY <1>1, RequestsAssumption DEF ClientDataIn
    <2>2. Len(Targets') \in Nat
      <3>1. Len(<<All>>) \in Nat /\ Len(r.ids) \in Nat
        BY <2>1
      <3>2. Targets' = <<All>> \/ Targets' = r.ids
        BY <2>1 DEF Targets
      <3>3. QED BY <3>1, <3>2
    <2>3. partLen' \in Nat /\ k' = 1 /\ at' \in Places /\ list' = <<>> /\ notexist' = {} /\ steady' = {}
          /\ late' = {} /\ skipped' = FALSE /\ rtn' = "ok" /\ raised' \in BOOLEAN
      BY <1>1, <2>2 DEF ClientDataIn, Places
    <2>4. Len(out') <= 2
      BY <1>1 DEF ClientDataIn, Answered
    <2>5. dest' = Empty /\ UNCHANGED <<cells, flags, total, off, pos, verdict, walked, counted>>
      BY <1>1 DEF ClientDataIn
    <2>6. Empty \in [word : {"none", "Success", "offline", "AllInterruption"}, cells : SUBSET Cells]
      BY DEF Empty
    <2>7. k' \in Nat /\ list' \in Seq(Cells \cup {All}) /\ notexist' \subseteq Ids /\ rtn' \in {"ok", "empty"}
          /\ skipped' \in BOOLEAN /\ steady' \subseteq online'
      <3>1. <<>> \in Seq(Cells \cup {All}) /\ 1 \in Nat
        OBVIOUS
      <3>2. {} \subseteq Ids /\ {} \subseteq online'
        OBVIOUS
      <3>3. QED BY <2>3, <3>1, <3>2
    <2>8. dest' \in [word : {"none", "Success", "offline", "AllInterruption"}, cells : SUBSET Cells]
      BY <2>5, <2>6
    <2>9. QED BY <2>1, <2>3, <2>4, <2>5, <2>7, <2>8 DEF Types, cells, flags
  <1>2. CASE WaitOver
    <2>1. Cardinality(table) \in Nat /\ Len(list) \in Nat
      BY CellsAssumption, FS_Subset, FS_CardinalityType DEF Types
    <2>2. total' \in Nat /\ at' \in Places /\ mass' = FALSE /\ off' = 0 /\ pos' = 1 /\ verdict' = "succ"
          /\ walked' = {} /\ counted' \in {table, {}}
          /\ UNCHANGED <<cells, parts, flag, lock, dest, message, k, rtn, skipped, marks>>
      BY <1>2, <2>1 DEF WaitOver, Fresh, Places
    <2>3. QED BY <2>2 DEF Types, cells, parts, message, marks
  <1>3. CASE Reply
    <2>1. out = <<OK>> /\ at' = "idle" /\ UNCHANGED <<cells, parts, flags, total, off, pos, verdict, dest, req, served, skipped>>
          /\ k' = 1 /\ rtn' = "ok" /\ walked' = {} /\ counted' = {} /\ steady' = {} /\ late' = {}
      BY <1>3 DEF Reply, PlaceOK
    <2>2. PICK a : out' = Append(out, a)
      BY <1>3 DEF Reply
    <2>3. Len(out') <= 2
      BY <2>1, <2>2
    <2>4. QED BY <2>1, <2>3 DEF Types, Places, cells, parts, flags
  <1>4. QED BY <1>1, <1>2, <1>3, TypesLookup, TypesSends, TypesCollect, TypesCells DEF Next, Works, CellsDo

-----------------------------------------------------------------------------
(* Where the request is *)

\* The steps that leave the request where it is.
LEMMA Elsewhere ==
  ASSUME Sends \/ CellsDo
  PROVE  UNCHANGED <<parts, wait, message, mass, at, k, rtn, skipped>> /\ Targets' = Targets /\ Kinds' = Kinds
  <1>1. UNCHANGED <<parts, wait, message, mass, at, k, rtn, skipped>>
    BY DEF Sends, CommandMonitorAll, CommandMonitorList, CellsDo, Answer, AnswerClear, Login, ComesOnline, GoesOffline, DelCell, flags
  <1>2. QED BY <1>1 DEF parts, message, Targets, Kinds, SetOf

LEMMA Begins ==
  ASSUME NEW r \in Requests, ClientDataIn(r)
  PROVE  /\ at' \in {"idle", "lookup", "reply"} /\ k' = 1 /\ ~skipped' /\ rtn' = "ok"
         /\ partLen' = Len(Targets') /\ list' = <<>> /\ notexist' = {} /\ steady' = {}
         /\ Targets' \in Seq(Ids \cup {All})
         /\ at' = "lookup" => raised' /\ Targets' # <<>>
         /\ at' = "reply" => Targets' = <<>>
         /\ at' # "idle" => out' = <<OK>>
  <1>1. r.ids \in Seq(Ids)
    BY RequestsAssumption
  <1>2. r.ids \in Seq(Ids \cup {All})
    <2>1. \A i \in 1 .. Len(r.ids) : r.ids[i] \in Ids \cup {All}
      BY <1>1
    <2>2. QED BY <1>1, <2>1
  <1>3. Targets' \in Seq(Ids \cup {All})
    <2>1. Targets' = <<All>> \/ Targets' = r.ids
      BY DEF ClientDataIn, Targets
    <2>2. <<All>> \in Seq(Ids \cup {All})
      OBVIOUS
    <2> HIDE DEF Targets
    <2>3. QED BY <1>2, <2>1, <2>2
  <1>4. /\ out' = Answered(r.form) /\ partLen' = Len(Targets') /\ (raised' <=> (raised \/ r.form \in Commands))
        /\ at' = IF r.form \notin Commands THEN "idle" ELSE IF partLen' = 0 THEN "reply" ELSE "lookup"
        /\ k' = 1 /\ ~skipped' /\ rtn' = "ok" /\ list' = <<>> /\ notexist' = {} /\ steady' = {}
    BY DEF ClientDataIn
  <1>5. r.form \in Commands => Answered(r.form) = <<OK>>
    BY DEF Commands, Answered
  <1> HIDE DEF Targets
  <1>6. Targets' = <<>> <=> Len(Targets') = 0
    BY <1>3
  <1>7. QED BY <1>3, <1>4, <1>5, <1>6

LEMMA PlaceStep ==
  ASSUME Types, PlaceOK, Next
  PROVE  PlaceOK'
  <1>1. /\ k \in Nat /\ partLen \in Nat /\ Len(list) \in Nat /\ Len(Targets) \in Nat /\ pos \in Nat
    BY TargetsType DEF Types
  <1>2. ASSUME NEW r \in Requests, ClientDataIn(r) PROVE PlaceOK'
    <2>1. Len(Targets') \in Nat /\ (Targets' # <<>> => Len(Targets') > 0) /\ Len(list') = 0
      BY <1>2, Begins
    <2>2. QED BY <1>2, <2>1, Begins DEF PlaceOK, Waits
  <1>3. CASE Lookup
    <2>1. /\ at = "lookup" /\ k \in 1 .. Len(Targets) /\ out = <<OK>> /\ out' = out /\ Targets' = Targets
          /\ partLen >= Len(list) + (Len(Targets) - k) + 1
      BY <1>3 DEF Lookup, LookupEmpty, LookupAll, LookupKnown, LookupUnknown, LookupLong, PlaceOK, message, Targets
    <2>2. CASE LookupEmpty
      <3>1. partLen' = partLen /\ list' = list /\ k' = k + 1 /\ at' = IF k < Len(Targets) THEN "lookup" ELSE "reply"
        BY <2>2 DEF LookupEmpty, NextId, parts
      <3> HIDE DEF Targets
      <3>2. QED BY <1>1, <2>1, <3>1 DEF PlaceOK, Waits
    <2>3. CASE LookupLong
      <3>1. partLen' = partLen /\ list' = list /\ k' = k /\ at' = "wait"
        BY <2>3 DEF LookupLong
      <3> HIDE DEF Targets
      <3>2. QED BY <1>1, <2>1, <3>1 DEF PlaceOK, Waits
    <2>4. CASE LookupAll \/ LookupKnown \/ LookupUnknown
      <3>1. Kept /\ \/ Len(list') = Len(list) + 1 /\ partLen' = partLen
                    \/ Len(list') = Len(list) /\ partLen' = partLen - 1
        BY <2>1, <2>4, LookupKinds
      <3>2. \/ at' = "wait" /\ k' = k
            \/ at' = "stuck"
            \/ k' = k + 1 /\ at' = IF k < Len(Targets) THEN "lookup" ELSE "reply"
        BY <3>1, KeptCases
      <3> HIDE DEF Targets
      <3>3. partLen' >= Len(list') + (Len(Targets) - k)
        BY <1>1, <2>1, <3>1
      <3>4. k' = k + 1 => partLen' >= Len(list') + (Len(Targets) - k') + 1
        BY <1>1, <3>1, <3>3
      <3>5. k' = k + 1 /\ at' = "lookup" => k' \in 1 .. Len(Targets)
        BY <1>1, <3>2
      <3>6. QED BY <2>1, <3>2, <3>3, <3>4, <3>5 DEF PlaceOK, Waits
    <2>5. QED BY <1>3, <2>2, <2>3, <2>4 DEF Lookup
  <1>4. CASE WaitOver
    BY <1>4 DEF WaitOver, Fresh, PlaceOK, Waits, parts, message, Targets
  <1>5. CASE WalkEnds \/ Collected
    <2>1. /\ at \in Waits /\ UNCHANGED <<parts, message>> /\ k' = k + 1 /\ pos' = 1 /\ at # "lookup" /\ at # "idle"
          /\ at' = IF k < Len(Targets) THEN "lookup" ELSE "reply"
      BY <1>5 DEF WalkEnds, Collected, Fresh, NextId, Waits
    <2>2. partLen' = partLen /\ list' = list /\ Targets' = Targets /\ out' = out
      BY <2>1 DEF parts, message, Targets
    <2> HIDE DEF Targets
    <2>3. k \in 1 .. Len(Targets) /\ partLen >= Len(list) + (Len(Targets) - k) /\ out = <<OK>>
      BY <2>1 DEF PlaceOK
    <2>4. partLen' >= Len(list') + (Len(Targets) - k') + 1
      BY <1>1, <2>1, <2>2, <2>3
    <2>5. at' = "lookup" => k' \in 1 .. Len(Targets)
      BY <1>1, <2>1
    <2>6. QED BY <2>1, <2>2, <2>3, <2>4, <2>5 DEF PlaceOK, Waits
  <1>5a. ASSUME NEW c \in Cells, WalkOne(c) PROVE PlaceOK'
    BY <1>5a DEF WalkOne, PlaceOK, Waits, parts, message, Targets
  <1>6. CASE CollectOne
    <2>1. pos' = pos + 1 /\ UNCHANGED <<parts, message, at, k>>
      BY <1>6 DEF CollectOne
    <2>2. partLen' = partLen /\ list' = list /\ Targets' = Targets /\ out' = out
      BY <2>1 DEF parts, message, Targets
    <2> HIDE DEF Targets
    <2>3. QED BY <1>1, <2>1, <2>2 DEF PlaceOK, Waits
  <1>7. CASE Reply
    BY <1>7 DEF Reply, PlaceOK, Waits
  <1>8. CASE Sends \/ CellsDo
    <2>1. UNCHANGED <<parts, wait, message, mass, at, k, rtn, skipped>> /\ Targets' = Targets
      BY <1>8, Elsewhere
    <2> HIDE DEF Targets
    <2>2. QED BY <2>1 DEF PlaceOK, parts, wait, message
  <1>9. QED BY <1>2, <1>3, <1>4, <1>5, <1>5a, <1>6, <1>7, <1>8 DEF Next, Works, CollectAll, CellsDo

-----------------------------------------------------------------------------
(* The count of the ids *)

LEMMA CountLookup ==
  ASSUME Types, PlaceOK, Counted, LookupAll \/ LookupKnown \/ LookupUnknown
  PROVE  Counted'
  <1>1. at = "lookup" /\ k \in 1 .. Len(Targets)
    BY DEF LookupAll, LookupKnown, LookupUnknown, PlaceOK
  <1>2. k \in Nat /\ Len(Targets) \in Nat /\ partLen \in Nat /\ Len(list) \in Nat
    BY TargetsType DEF Types
  <1>3. raised /\ partLen = Len(list) + (Len(Targets) - k) + 1 /\ Kinds = LookedUp(k - 1)
    BY <1>1 DEF Counted
  <1>4. /\ Kept /\ Kinds' = Kinds \cup {Targets[k]} /\ Targets' = Targets
        /\ \/ Len(list') = Len(list) + 1 /\ partLen' = partLen
           \/ Len(list') = Len(list) /\ partLen' = partLen - 1
    BY <1>1, LookupKinds
  <1> HIDE DEF Targets
  <1>5. Kinds' = LookedUp(k)
    BY <1>1, <1>3, <1>4, LookedUpNext
  <1>6. partLen' = Len(list') + (Len(Targets) - k)
    BY <1>2, <1>3, <1>4
  <1>7. /\ Len(list') \in Nat
        /\ partLen' = Len(list') => k = Len(Targets)
        /\ partLen' # Len(list') => k < Len(Targets)
    BY <1>1, <1>2, <1>4, <1>6
  <1>8. CASE partLen' = Len(list')
    <2>1. at' = "stuck" \/ (at' = "wait" /\ ~raised' /\ k' = k)
      BY <1>3, <1>4, <1>8, KeptCases
    <2>2. Kinds' = SetOf(Targets)
      BY <1>1, <1>5, <1>7, <1>8, LookedUpNext
    <2>3. SetOf(Targets') = SetOf(Targets)
      BY <1>4
    <2>4. QED BY <1>4, <1>7, <1>8, <2>1, <2>2, <2>3 DEF Counted, Waits
  <1>9. CASE partLen' # Len(list')
    <2>1. raised' /\ k' = k + 1 /\ at' = "lookup"
      BY <1>3, <1>4, <1>7, <1>9, KeptCases
    <2>2. k' - 1 = k /\ partLen' = Len(list') + (Len(Targets') - k') + 1
      BY <1>2, <1>4, <1>6, <1>7, <2>1
    <2>3. Kinds' = {Targets'[m] : m \in 1 .. k' - 1}
      BY <1>4, <1>5, <2>2 DEF LookedUp
    <2>4. QED BY <2>1, <2>2, <2>3 DEF Counted, Waits, LookedUp
  <1>10. QED BY <1>8, <1>9

LEMMA CountStep ==
  ASSUME Types, PlaceOK, CountOK, Next
  PROVE  CountOK'
  <1>1. SUFFICES ASSUME ~skipped' PROVE Counted'
    BY DEF CountOK
  <1>2. ASSUME NEW r \in Requests, ClientDataIn(r) PROVE Counted'
    <2>1. /\ at' \in {"idle", "lookup", "reply"} /\ k' = 1 /\ partLen' = Len(Targets') /\ list' = <<>> /\ notexist' = {}
          /\ at' = "lookup" => raised'
          /\ at' = "reply" => Targets' = <<>>
          /\ Len(Targets') \in Nat
      BY <1>2, Begins
    <2> HIDE DEF Targets
    <2>2. Len(list') = 0 /\ Kinds' = {}
      BY <2>1 DEF Kinds, SetOf
    <2>3. partLen' = Len(list') + (Len(Targets') - k') + 1
      BY <2>1, <2>2
    <2>4. {Targets'[m] : m \in 1 .. k' - 1} = {}
      BY <2>1
    <2>5. QED BY <2>1, <2>2, <2>3, <2>4 DEF Counted, Waits, LookedUp
  <1>3. ASSUME ~skipped PROVE Counted
    BY <1>3 DEF CountOK
  <1>4. ASSUME UNCHANGED <<parts, message, k>> PROVE UNCHANGED <<partLen, list, raised, k>> /\ Targets' = Targets /\ Kinds' = Kinds
    BY <1>4 DEF parts, message, Targets, Kinds, SetOf
  <1>5. CASE Lookup
    <2>1. ~LookupEmpty /\ ~LookupLong
      BY <1>1 DEF LookupEmpty, LookupLong
    <2>2. LookupAll \/ LookupKnown \/ LookupUnknown
      BY <1>5, <2>1 DEF Lookup
    <2>3. ~skipped
      BY <1>1, <2>2 DEF LookupAll, LookupKnown, LookupUnknown
    <2>4. QED BY <1>3, <2>2, <2>3, CountLookup
  <1>6. CASE WaitOver \/ CollectOne \/ \E c \in Cells : WalkOne(c)
    <2>1. UNCHANGED <<parts, message, k>> /\ at \in Waits /\ at' \in Waits /\ ~skipped
      BY <1>1, <1>6 DEF WaitOver, CollectOne, WalkOne, Waits
    <2> HIDE DEF Targets
    <2>2. QED BY <1>3, <1>4, <2>1 DEF Counted, Waits
  <1>7. CASE WalkEnds \/ Collected
    <2>1. /\ at \in Waits /\ ~skipped /\ UNCHANGED <<parts, message>>
          /\ at' = IF k < Len(Targets) THEN "lookup" ELSE "reply"
      BY <1>1, <1>7 DEF WalkEnds, Collected, NextId, Waits
    <2>2. UNCHANGED <<raised, list, notexist>> /\ Targets' = Targets
      BY <2>1 DEF parts, message, Targets
    <2>3. k = Len(Targets) /\ ~raised /\ Kinds = SetOf(Targets) /\ Len(Targets) \in Nat
      BY <1>3, <2>1, TargetsType DEF Counted
    <2> HIDE DEF Targets
    <2>4. at' = "reply"
      BY <2>1, <2>3
    <2>5. Kinds' = SetOf(Targets')
      BY <2>2, <2>3 DEF Kinds
    <2>6. QED BY <2>2, <2>3, <2>4, <2>5 DEF Counted, Waits
  <1>8. CASE Reply
    BY <1>8 DEF Reply, Counted, Waits
  <1>9. CASE Sends \/ CellsDo
    <2>1. UNCHANGED <<parts, wait, message, mass, at, k, rtn, skipped>> /\ Targets' = Targets /\ Kinds' = Kinds
      BY <1>9, Elsewhere
    <2>2. UNCHANGED <<partLen, list, raised, k, at, skipped>>
      BY <2>1 DEF parts
    <2> HIDE DEF Targets, Kinds
    <2>3. QED BY <1>1, <1>3, <2>1, <2>2 DEF Counted, Waits, LookedUp
  <1>10. QED BY <1>2, <1>5, <1>6, <1>7, <1>8, <1>9 DEF Next, Works, CollectAll, CellsDo

-----------------------------------------------------------------------------
(* The cells that should have answered *)

LEMMA NamedLookup ==
  ASSUME Types, PlaceOK, WalkOK, Counted, Named, LookupAll \/ LookupKnown \/ LookupUnknown
  PROVE  Named'
  <1>1. at = "lookup" /\ k \in 1 .. Len(Targets) /\ Due \subseteq comm /\ (mass \/ Due \subseteq SetOf(list))
    BY DEF LookupAll, LookupKnown, LookupUnknown, PlaceOK, Named
  <1>2. at' \in {"lookup", "wait", "stuck"}
    <2>1. Counted'
      BY CountLookup
    <2>2. Kept /\ raised
      BY <1>1 DEF LookupAll, LookupKnown, LookupUnknown, Counted
    <2>3. at' = "reply" => partLen' # Len(list') /\ ~(k < Len(Targets))
      BY <2>2, KeptCases
    <2>4. partLen = Len(list) + (Len(Targets) - k) + 1
      BY <1>1 DEF Counted
    <2>5. k \in Nat /\ Len(Targets) \in Nat /\ partLen \in Nat /\ Len(list) \in Nat
      BY TargetsType DEF Types
    <2>6. \/ Len(list') = Len(list) + 1 /\ partLen' = partLen
          \/ Len(list') = Len(list) /\ partLen' = partLen - 1
      BY <1>1, LookupKinds
    <2> HIDE DEF Targets
    <2>7. at' # "reply"
      BY <1>1, <2>3, <2>4, <2>5, <2>6
    <2>8. QED BY <2>2, <2>7, KeptCases
  <1>3. CASE LookupAll
    <2>1. mass' /\ Due' \subseteq comm'
      BY <1>1, <1>3 DEF LookupAll, Mark, Due
    <2>2. QED BY <1>2, <2>1 DEF Named
  <1>4. CASE LookupKnown
    <2>1. mass' = mass /\ Due' \subseteq comm' /\ Due' \subseteq Due \cup {Targets[k]} /\ list' = Append(list, Targets[k])
      BY <1>1, <1>4 DEF LookupKnown, Mark, Due
    <2>2. Targets[k] \in Cells \cup {All} /\ list \in Seq(Cells \cup {All})
      BY <1>4 DEF LookupKnown, Types
    <2>3. SetOf(list') = SetOf(list) \cup {Targets[k]}
      BY <2>1, <2>2, SetOfAppend
    <2>4. mass' \/ Due' \subseteq SetOf(list')
      BY <1>1, <2>1, <2>3
    <2>5. QED BY <1>2, <2>1, <2>4 DEF Named
  <1>5. CASE LookupUnknown
    <2>1. UNCHANGED <<mass, steady, late, comm, list>> /\ Due' = Due
      BY <1>5 DEF LookupUnknown, cells, marks, Due
    <2>2. mass' \/ Due' \subseteq SetOf(list')
      BY <1>1, <2>1
    <2>3. QED BY <1>1, <1>2, <2>1, <2>2 DEF Named
  <1>6. QED BY <1>3, <1>4, <1>5

\* What a cell does takes it off the steady ones, or leaves it marked; the handler
\* of an answer clears the mark of one that is not due.
LEMMA NamedCells ==
  ASSUME Types, WalkOK, Named, Sends \/ CellsDo
  PROVE  Named'
  <1>1. UNCHANGED <<parts, wait, message, mass, at, k, rtn, skipped>>
    BY Elsewhere
  <1>2. UNCHANGED <<list, notexist, verdict, dest, pos, mass, at, walked, counted>>
    BY <1>1 DEF parts, wait
  <1>3. steady' \subseteq steady /\ late' = late
    BY DEF Sends, CommandMonitorAll, CommandMonitorList, CellsDo, Answer, AnswerClear, Login, ComesOnline, GoesOffline, DelCell, marks
  <1>4. Due' \subseteq Due /\ (steady = {} => steady' = {})
    BY <1>3 DEF Due
  <1>5. \A c \in Due' : c \in comm => c \in comm'
    <2>1. CASE AnswerClear
      <3>1. comm' = comm \ half /\ half \cap Due = {}
        BY <2>1 DEF AnswerClear, WalkOK, Due
      <3>2. QED BY <1>4, <3>1
    <2>2. CASE ~AnswerClear
      BY <2>2 DEF Sends, CommandMonitorAll, CommandMonitorList, CellsDo, Answer, Login, ComesOnline, GoesOffline, DelCell, Due
    <2>3. QED BY <2>1, <2>2
  <1>6. SetOf(list') = SetOf(list) /\ Replay'.offline = Replay.offline
    BY <1>2 DEF Replay
  <1> HIDE DEF Due
  <1>7. QED BY <1>2, <1>4, <1>5, <1>6 DEF Named

LEMMA NamedOne ==
  ASSUME Types, PlaceOK, Named, CollectOne
  PROVE  Named'
  <1>1. at = "collect" /\ at' = "collect" /\ pos <= Len(list) /\ pos' = pos + 1 /\ list' = list /\ Due' = Due
          /\ Due \subseteq steady /\ walked = {} /\ walked' = walked
    BY DEF CollectOne, parts, marks, Due, Named
  <1> HIDE DEF Due
  <1>2. pos \in Nat /\ pos >= 1 /\ list \in Seq(Cells \cup {All}) /\ Len(list) \in Nat /\ Due \subseteq online
    BY <1>1 DEF Types, PlaceOK
  <1>3. PICK e : e = list[pos]
    OBVIOUS
  <1>4. CollectFailed(e) \/ CollectOffline(e) \/ CollectOther(e)
    BY <1>3 DEF CollectOne
  <1>5. /\ \A c \in Due : \/ c \in comm /\ \E m \in pos .. Len(list) : list[m] = c
                          \/ verdict = "fail" /\ c \in dest.cells
        /\ verdict = "fail" => dest.word = "offline"
    BY <1>1 DEF Named
  <1>6. /\ \A c \in Due : \/ c \in comm' /\ c # e
                          \/ verdict' = "fail" /\ c \in dest'.cells
        /\ verdict = "fail" => verdict' = "fail" /\ dest.cells \subseteq dest'.cells
        /\ verdict' = "fail" => dest'.word = "offline"
    <2>1. CASE CollectFailed(e)
      BY <1>5, <2>1 DEF CollectFailed
    <2>2. CASE CollectOffline(e)
      BY <1>2, <1>5, <2>2 DEF CollectOffline
    <2>3. CASE CollectOther(e)
      BY <1>2, <1>5, <2>3 DEF CollectOther
    <2>4. QED BY <1>4, <2>1, <2>2, <2>3
  <1>7. \A c \in Due : \/ c \in comm' /\ \E m \in pos' .. Len(list') : list'[m] = c
                       \/ verdict' = "fail" /\ c \in dest'.cells
    <2>1. ASSUME NEW c \in Due, c \in comm', c # e, NEW m \in pos .. Len(list), list[m] = c
          PROVE  \E i \in pos' .. Len(list') : list'[i] = c
      <3>1. m # pos /\ m \in Int
        BY <1>3, <2>1
      <3>2. m \in pos' .. Len(list')
        BY <1>1, <1>2, <2>1, <3>1
      <3>3. QED BY <1>1, <2>1, <3>2
    <2>2. QED BY <1>5, <1>6, <2>1
  <1>8. QED BY <1>1, <1>6, <1>7 DEF Named

LEMMA NamedWalk ==
  ASSUME Types, WalkOK, Named, NEW c \in Cells, WalkOne(c)
  PROVE  Named'
  <1>1. /\ at = "count" /\ at' = at /\ c \in table /\ c \notin walked /\ walked' = walked \cup {c}
        /\ WalkFailed(c) \/ WalkOffline(c) \/ WalkInterrupted(c) \/ WalkOther(c)
        /\ UNCHANGED <<comm, steady, late, counted>>
    BY DEF WalkOne, marks
  <1>2. Due' = Due /\ Due \subseteq comm /\ Due \subseteq online /\ steady \subseteq online
    BY <1>1 DEF Due, Named, Types
  <1> HIDE DEF Due
  <1>3. SUFFICES ASSUME walked' \subseteq counted
                 PROVE  /\ verdict' = "inter" => steady = {}
                        /\ verdict' = "fail" => dest'.word = "offline"
                        /\ \A d \in Due \cap walked' : verdict' = "fail" /\ d \in dest'.cells
    BY <1>1, <1>2 DEF Named
  <1>4. /\ verdict = "inter" => steady = {}
        /\ verdict = "fail" => dest.word = "offline"
        /\ \A d \in Due \cap walked : verdict = "fail" /\ d \in dest.cells
    BY <1>1, <1>3 DEF Named
  <1>5. Due \subseteq steady
    BY DEF Due
  <1>6. CASE WalkFailed(c)
    <2>1. CASE verdict = "succ"
      <3>1. verdict' = "fail" /\ dest' = [word |-> "offline", cells |-> {c}]
        BY <1>6, <2>1 DEF WalkFailed
      <3>2. QED BY <1>1, <1>4, <2>1, <3>1
    <2>2. CASE verdict # "succ"
      <3>1. verdict' = verdict /\ dest' = [dest EXCEPT !.cells = @ \cup {c}]
        BY <1>6, <2>2 DEF WalkFailed
      <3>2. dest'.word = dest.word /\ dest'.cells = dest.cells \cup {c}
        BY <3>1 DEF Types
      <3>3. verdict = "fail" \/ Due = {}
        BY <1>4, <1>5, <2>2 DEF Types
      <3>4. QED BY <1>1, <1>4, <3>1, <3>2, <3>3
    <2>3. QED BY <2>1, <2>2
  <1>7. CASE WalkOffline(c)
    BY <1>1, <1>2, <1>4, <1>7 DEF WalkOffline
  <1>8. CASE WalkInterrupted(c)
    <2>1. steady = {}
      <3> SUFFICES ASSUME NEW d \in steady PROVE FALSE
        OBVIOUS
      <3>1. /\ total = Cardinality(counted) /\ off + 1 = total /\ off <= Cardinality(walked \ steady)
            /\ d \in counted /\ c \notin steady
        BY <1>1, <1>2, <1>8 DEF WalkOK, WalkInterrupted
      <3>2. IsFiniteSet(counted) /\ IsFiniteSet(walked \ steady)
        BY CellsAssumption, FS_Subset DEF Types
      <3>3. c \notin walked \ steady /\ IsFiniteSet((walked \ steady) \cup {c})
            /\ Cardinality((walked \ steady) \cup {c}) = Cardinality(walked \ steady) + 1
        BY <1>1, <3>2, FS_AddElement
      <3>4. (walked \ steady) \cup {c} \subseteq counted \ {d}
        BY <1>1, <1>3, <3>1
      <3>5. IsFiniteSet(counted \ {d}) /\ Cardinality(counted \ {d}) = Cardinality(counted) - 1
        BY <3>1, <3>2, FS_RemoveElement
      <3>6. Cardinality((walked \ steady) \cup {c}) <= Cardinality(counted \ {d})
        BY <3>4, <3>5, FS_Subset
      <3>7. Cardinality(walked \ steady) \in Nat /\ Cardinality(counted) \in Nat /\ off \in Nat
        BY <3>2, FS_CardinalityType DEF Types
      <3>8. QED BY <3>1, <3>3, <3>5, <3>6, <3>7
    <2>2. verdict' = "inter" /\ Due = {}
      BY <1>5, <1>8, <2>1 DEF WalkInterrupted
    <2>3. QED BY <2>1, <2>2
  <1>9. CASE WalkOther(c)
    BY <1>1, <1>2, <1>4, <1>9 DEF WalkOther
  <1>10. QED BY <1>1, <1>6, <1>7, <1>8, <1>9

\* The cells that are counted off are walked, and not steady.
LEMMA WalkStep ==
  ASSUME Types, WalkOK, Next
  PROVE  WalkOK'
  <1>1. half \cap steady \subseteq late
    BY DEF WalkOK
  <1>2. ASSUME NEW S, NEW T, S \subseteq T, T \subseteq Cells
        PROVE  Cardinality(S) <= Cardinality(T) /\ Cardinality(S) \in Nat /\ Cardinality(T) \in Nat
    <2>1. IsFiniteSet(T) /\ IsFiniteSet(S)
      BY <1>2, CellsAssumption, FS_Subset
    <2>2. QED BY <1>2, <2>1, FS_Subset, FS_CardinalityType
  <1>3. ASSUME NEW r \in Requests, ClientDataIn(r) PROVE WalkOK'
    <2>1. steady' = {} /\ at' # "count"
      BY <1>3, Begins
    <2>2. QED BY <2>1 DEF WalkOK
  <1>4. CASE Lookup
    <2>1. half' = half /\ half' \cap steady' \subseteq late'
      BY <1>1, <1>4 DEF Lookup, LookupEmpty, LookupAll, LookupKnown, LookupUnknown, LookupLong, Mark, cells, marks
    <2>2. at' # "count"
      <3>1. CASE LookupEmpty \/ LookupLong
        BY <3>1 DEF LookupEmpty, LookupLong, NextId
      <3>2. CASE LookupAll \/ LookupKnown \/ LookupUnknown
        BY <3>2, KeptCases DEF LookupAll, LookupKnown, LookupUnknown
      <3>3. QED BY <1>4, <3>1, <3>2 DEF Lookup
    <2>3. QED BY <2>1, <2>2 DEF WalkOK
  <1>5. CASE WaitOver
    <2>1. /\ UNCHANGED <<half, steady, late, table, online>> /\ walked' = {} /\ off' = 0
          /\ at' = "count" => total' = Cardinality(table) /\ counted' = table
      BY <1>5 DEF WaitOver, Fresh, cells, marks
    <2>2. Cardinality(walked' \ steady') >= 0
      BY <1>2, <2>1
    <2>3. steady' \subseteq table
      BY <2>1 DEF Types
    <2>4. QED BY <1>1, <2>1, <2>2, <2>3 DEF WalkOK
  <1>6. ASSUME NEW c \in Cells, WalkOne(c) PROVE WalkOK'
    <2>1. /\ at = "count" /\ c \notin walked /\ walked' = walked \cup {c}
          /\ WalkFailed(c) \/ WalkOffline(c) \/ WalkInterrupted(c) \/ WalkOther(c)
          /\ UNCHANGED <<half, steady, late, counted, total>>
      BY <1>6 DEF WalkOne, marks
    <2>2. walked \ steady \subseteq walked' \ steady /\ walked' \ steady \subseteq Cells
      BY <2>1 DEF Types
    <2>3. Cardinality(walked \ steady) <= Cardinality(walked' \ steady)
          /\ Cardinality(walked \ steady) \in Nat /\ Cardinality(walked' \ steady) \in Nat
      BY <1>2, <2>2
    <2>4. /\ steady \subseteq counted /\ total = Cardinality(counted) /\ off <= Cardinality(walked \ steady) /\ off \in Nat
      BY <2>1 DEF WalkOK, Types
    <2>5. off' <= Cardinality(walked' \ steady)
      <3>1. CASE off' = off
        BY <2>3, <2>4, <3>1
      <3>2. CASE off' = off + 1 /\ c \notin online
        <4>1. c \notin steady
          BY <3>2 DEF Types
        <4>2. walked' \ steady = (walked \ steady) \cup {c} /\ c \notin walked \ steady
          BY <2>1, <4>1
        <4>3. IsFiniteSet(walked \ steady)
          BY CellsAssumption, FS_Subset DEF Types
        <4>4. Cardinality(walked' \ steady) = Cardinality(walked \ steady) + 1
          BY <4>2, <4>3, FS_AddElement
        <4>5. QED BY <2>3, <2>4, <3>2, <4>4
      <3>3. QED BY <2>1, <3>1, <3>2 DEF WalkFailed, WalkOffline, WalkInterrupted, WalkOther
    <2>6. QED BY <1>1, <2>1, <2>4, <2>5 DEF WalkOK
  <1>7. CASE WalkEnds \/ CollectOne \/ Collected \/ Reply
    <2>1. half' = half /\ half' \cap steady' \subseteq late'
      BY <1>1, <1>7 DEF WalkEnds, CollectOne, Collected, Reply, cells, marks
    <2>2. at' # "count"
      BY <1>7 DEF WalkEnds, CollectOne, Collected, Reply, NextId
    <2>3. QED BY <2>1, <2>2 DEF WalkOK
  <1>8. CASE Sends \/ CellsDo
    <2>1. UNCHANGED <<total, off, walked, counted, at>>
      BY <1>8, Elsewhere DEF wait
    <2>2. steady' \subseteq steady /\ late' = late /\ half' \cap steady' \subseteq late'
      BY <1>1, <1>8 DEF Sends, CommandMonitorAll, CommandMonitorList, CellsDo, Answer, AnswerClear, Login, ComesOnline, GoesOffline, DelCell, marks
    <2>3. walked \ steady \subseteq walked \ steady' /\ walked \ steady' \subseteq Cells
      BY <2>2 DEF Types
    <2>4. /\ Cardinality(walked \ steady) <= Cardinality(walked \ steady') /\ off \in Nat
          /\ Cardinality(walked \ steady) \in Nat /\ Cardinality(walked \ steady') \in Nat
      BY <1>2, <2>3 DEF Types
    <2>5. at' = "count" => off' <= Cardinality(walked' \ steady')
      BY <2>1, <2>4 DEF WalkOK
    <2>6. QED BY <2>1, <2>2, <2>5 DEF WalkOK
  <1>9. QED BY <1>3, <1>4, <1>5, <1>6, <1>7, <1>8 DEF Next, Works, CollectAll, CellsDo

LEMMA NamedStep ==
  ASSUME Types, PlaceOK, CountOK, WalkOK, NamedOK, Next
  PROVE  NamedOK'
  <1>1. SUFFICES ASSUME ~skipped' PROVE Named'
    BY DEF NamedOK
  <1>2. ASSUME NEW r \in Requests, ClientDataIn(r) PROVE Named'
    <2>1. steady' = {} /\ at' # "collect"
      BY <1>2, Begins
    <2>2. at' # "count"
      BY <1>2, Begins
    <2>3. Due' = {}
      BY <2>1 DEF Due
    <2>4. QED BY <2>1, <2>2, <2>3 DEF Named
  <1>3. ASSUME ~skipped PROVE Named /\ Counted
    BY <1>3 DEF NamedOK, CountOK
  <1>4. CASE Lookup
    <2>1. ~LookupEmpty /\ ~LookupLong
      BY <1>1 DEF LookupEmpty, LookupLong
    <2>2. LookupAll \/ LookupKnown \/ LookupUnknown
      BY <1>4, <2>1 DEF Lookup
    <2>3. ~skipped
      BY <1>1, <2>2 DEF LookupAll, LookupKnown, LookupUnknown
    <2>4. QED BY <1>3, <2>2, <2>3, NamedLookup
  <1>5. CASE WaitOver
    <2>1. /\ at = "wait" /\ at' = (IF mass THEN "count" ELSE "collect") /\ pos' = 1 /\ verdict' = "succ" /\ ~skipped
          /\ UNCHANGED <<comm, list>> /\ Due' = Due /\ walked' = {}
      BY <1>1, <1>5 DEF WaitOver, Fresh, cells, parts, marks, Due
    <2> HIDE DEF Due
    <2>2. Due \subseteq comm /\ (mass \/ Due \subseteq SetOf(list))
      BY <1>3, <2>1 DEF Named
    <2>3. ASSUME at' = "collect", NEW c \in Due PROVE \E m \in pos' .. Len(list') : list'[m] = c
      <3>1. c \in SetOf(list)
        BY <2>1, <2>2, <2>3
      <3>2. DOMAIN list = 1 .. Len(list)
        BY DEF Types
      <3>3. QED BY <2>1, <3>1, <3>2 DEF SetOf
    <2>4. QED BY <2>1, <2>2, <2>3 DEF Named
  <1>6. CASE WalkEnds
    <2>1. /\ ~skipped /\ at = "count" /\ table \subseteq walked /\ Due' = Due /\ UNCHANGED <<walked, counted>>
          /\ Due \subseteq steady
          /\ verdict # "succ" => dest' = dest
          /\ at' = IF k < Len(Targets) THEN "lookup" ELSE "reply"
      BY <1>1, <1>6 DEF WalkEnds, NextId, marks, Due
    <2> HIDE DEF Due
    <2>2. at' = "reply"
      <3>1. k = Len(Targets) /\ Len(Targets) \in Nat
        BY <1>3, <2>1, TargetsType DEF Counted, Waits
      <3> HIDE DEF Targets
      <3>2. QED BY <2>1, <3>1
    <2>3. ASSUME walked \subseteq counted, NEW c \in Due PROVE c \in Replay'.offline
      <3>1. c \in walked
        BY <2>1, <2>3 DEF Types
      <3>2. verdict = "fail" /\ c \in dest.cells /\ dest.word = "offline"
        BY <1>3, <2>1, <2>3, <3>1 DEF Named
      <3>3. QED BY <2>1, <3>2 DEF Replay
    <2>4. QED BY <2>1, <2>2, <2>3 DEF Named
  <1>6a. ASSUME NEW c \in Cells, WalkOne(c) PROVE Named'
    <2>1. ~skipped
      BY <1>1, <1>6a DEF WalkOne
    <2>2. QED BY <1>3, <1>6a, <2>1, NamedWalk
  <1>7. CASE CollectOne
    <2>1. ~skipped
      BY <1>1, <1>7 DEF CollectOne
    <2>2. QED BY <1>3, <1>7, <2>1, NamedOne
  <1>8. CASE Collected
    <2>1. ~skipped /\ at = "collect" /\ pos > Len(list) /\ dest' = dest /\ Due' = Due
          /\ at' = IF k < Len(Targets) THEN "lookup" ELSE "reply"
      BY <1>1, <1>8 DEF Collected, NextId, marks, Due
    <2> HIDE DEF Due
    <2>2. at' = "reply"
      <3>1. k = Len(Targets) /\ Len(Targets) \in Nat
        BY <1>3, <2>1, TargetsType DEF Counted, Waits
      <3> HIDE DEF Targets
      <3>2. QED BY <2>1, <3>1
    <2>3. ~\E m \in pos .. Len(list) : TRUE
      <3>1. pos \in Nat /\ Len(list) \in Nat
        BY DEF Types
      <3>2. QED BY <2>1, <3>1
    <2>4. \A c \in Due : c \in dest.cells /\ dest.word = "offline"
      BY <1>3, <2>1, <2>3 DEF Named
    <2>5. QED BY <2>1, <2>2, <2>4 DEF Named, Replay
  <1>9. CASE Reply
    BY <1>9 DEF Reply, Named
  <1>10. CASE Sends \/ CellsDo
    <2>1. ~skipped
      BY <1>1, <1>10, Elsewhere
    <2>2. QED BY <1>3, <1>10, <2>1, NamedCells
  <1>11. QED BY <1>2, <1>4, <1>5, <1>6, <1>6a, <1>7, <1>8, <1>9, <1>10 DEF Next, Works, CollectAll, CellsDo

-----------------------------------------------------------------------------
LEMMA InvInit == Init => RequestInv
  <1> SUFFICES ASSUME Init PROVE RequestInv
    OBVIOUS
  <1>1. Types
    <2>1. <<>> \in Seq(Cells \cup {All}) /\ <<>> \in Seq(Ids)
      OBVIOUS
    <2>2. Empty \in [word : {"none", "Success", "offline", "AllInterruption"}, cells : SUBSET Cells]
      BY DEF Empty
    <2>3. req \in [form : Forms, ids : Seq(Ids)]
      BY <2>1 DEF Init, Forms
    <2>4. Len(out) <= 2
      BY DEF Init
    <2>5. QED BY <2>1, <2>2, <2>3, <2>4 DEF Init, Types, Places
  <1>2. PlaceOK /\ Counted /\ WalkOK /\ Named
    BY DEF Init, PlaceOK, Counted, WalkOK, Named, Waits
  <1>3. QED BY <1>1, <1>2 DEF RequestInv, CountOK, NamedOK

LEMMA InvStep == RequestInv /\ [Next]_vars => RequestInv'
  <1> SUFFICES ASSUME RequestInv, [Next]_vars PROVE RequestInv'
    OBVIOUS
  <1>1. CASE UNCHANGED vars
    <2>1. UNCHANGED <<cells, parts, flags, wait, message, at, k, rtn, skipped, marks>>
      BY <1>1 DEF vars
    <2>2. /\ UNCHANGED <<table, online, comm, owes, half, partLen, list, notexist, raised, mass, flag, lock>>
          /\ UNCHANGED <<total, off, pos, verdict, dest, walked, counted, out, req, steady, late>>
      BY <2>1 DEF cells, parts, flags, wait, message, marks
    <2>3. Targets' = Targets /\ Kinds' = Kinds /\ SetOf(list') = SetOf(list) /\ Replay'.offline = Replay.offline /\ Due' = Due
      BY <2>2 DEF Targets, Kinds, SetOf, Replay, Due
    <2> HIDE DEF Targets, Kinds, Due
    <2>4. Types' /\ PlaceOK' /\ WalkOK'
      BY <2>1, <2>2, <2>3 DEF RequestInv, Types, PlaceOK, WalkOK
    <2>5. CountOK'
      BY <2>1, <2>2, <2>3 DEF RequestInv, CountOK, Counted, LookedUp
    <2>6. NamedOK'
      BY <2>1, <2>2, <2>3 DEF RequestInv, NamedOK, Named
    <2>7. QED BY <2>4, <2>5, <2>6 DEF RequestInv
  <1>2. CASE Next
    BY <1>2, TypesStep, PlaceStep, CountStep, WalkStep, NamedStep DEF RequestInv
  <1>3. QED BY <1>1, <1>2

\* The answer to a request accounts for each of its ids, whatever their order and
\* whichever cells are deleted between the lookups, and names every cell that was
\* marked, stayed online and never answered, unless an id was too long, the table
\* was found empty, an older answer of the cell was half handled when it was
\* marked, or a cell logged in between the count and the walk.
THEOREM AnswersAccount == Spec => []AnswerAccounts
  <1>1. RequestInv => AnswerAccounts
    <2> SUFFICES ASSUME RequestInv PROVE AnswerAccounts
      OBVIOUS
    <2>1. Types /\ PlaceOK /\ CountOK /\ NamedOK
      BY DEF RequestInv
    <2>2. TypeOK
      <3>1. at = "lookup" => k \in DOMAIN Targets
        BY <2>1, TargetsType DEF PlaceOK
      <3>2. SetOf(list) \subseteq Cells \cup {All}
        BY <2>1 DEF Types, SetOf
      <3>3. dest.word \in {"none", "Success", "offline", "AllInterruption"} /\ dest.cells \subseteq Cells
        BY <2>1 DEF Types
      <3> HIDE DEF Targets
      <3>4. QED BY <2>1, <3>1, <3>2, <3>3 DEF Types, TypeOK, Places
    <2>3. IdsAccounted
      BY <2>1 DEF CountOK, Counted, IdsAccounted, Kinds
    <2>4. SteadyAreNamed
      BY <2>1 DEF NamedOK, Named, SteadyAreNamed, Due
    <2>5. QED BY <2>2, <2>3, <2>4 DEF AnswerAccounts
  <1>2. QED BY <1>1, InvInit, InvStep, PTL DEF Spec

=============================================================================
