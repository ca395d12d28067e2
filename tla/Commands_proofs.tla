--------------------------- MODULE Commands_proofs ---------------------------
(***************************************************************************)
(* Commands: its types, the exactness of the reports and the verdict on a  *)
(* single command, proved for any set of cells, commands and users; and    *)
(* what the rates of HashRate span, which replies to one command bring,    *)
(* and how near the LTC rate is to the documented one.                     *)
(***************************************************************************)
EXTENDS Commands, HashRate, TLAPS

(* The types are inductive with the room left below MaxSeq for the commands *)
(* that have begun and have no number yet.                                  *)
Room ==
  last + (IF Numbered("shell") THEN 0 ELSE 1)
       + (IF Numbered("monitor") THEN 0 ELSE 1) <= MaxSeq

TypeInv == TypeOK /\ Room

Working(f) == front[f].at \in {"number", "flag", "wait", "count", "off", "report"}

\* No other command is under way with f's.
Alone(f) == front[f] # Idle /\ ~overlap

\* gCommandType names a front end that is busy.
ModeOK == mode # "none" => front[mode] # Idle

\* When f is alone, what CommandPackProcess has to send is f's command.
PackOK ==
  \A f \in FrontEnds : Alone(f) =>
    /\ front[Other(f)] = Idle /\ mode = f
    /\ flag[f] \subseteq {front[f].kind}
    /\ Sending => pack.by = f /\ pack.kind = front[f].kind

\* A request bears a number, and 0 is none.
SeqOK ==
  /\ \A m \in sent : m.seq # 0
  /\ \A f \in FrontEnds : \A j \in flag[f] : src[j] # 0
  /\ \A f \in FrontEnds : Is(f, "flag") => last # 0
  /\ Sending => src[pack.kind] # 0

\* A cell with no earlier request pending, nor half answered, is cleared by its
\* answer and nothing else, and waits for an answer only to this command.
AnswerOK ==
  \A f \in FrontEnds : Alone(f) /\ Working(f) =>
    /\ \A c \in fresh \ late :
         /\ c \in acked <=> comm[c] = STAT \/ c \in Handling
         /\ seq[c] # 0 => c \in asked
    /\ f = "shell" /\ front[f].to # All => fresh = {}

Inv == ModeOK /\ PackOK /\ SeqOK /\ AnswerOK

-----------------------------------------------------------------------------
(* Types.                                                                   *)

\* A busy front end that goes on keeps its command and its destination.
LEMMA GotoType ==
  ASSUME TypeOK, NEW f \in FrontEnds, NEW a \in At, front[f] # Idle, Goto(f, a)
  PROVE  /\ front' \in [FrontEnds -> {Idle} \cup Busy]
         /\ front[f] \in Busy
         /\ front'[f] # Idle /\ front'[f].at = a
         /\ front'[f].kind = front[f].kind /\ front'[f].to = front[f].to
         /\ front'[Other(f)] = front[Other(f)]
  <1>1. front[f] \in Busy
    BY DEF TypeOK
  <1>2. front' = [front EXCEPT ![f] = [front[f] EXCEPT !.at = a]]
    BY DEF Goto
  <1>3. [front[f] EXCEPT !.at = a] \in Busy
    BY <1>1 DEF Busy
  <1>4. Other(f) # f /\ Other(f) \in FrontEnds
    BY DEF Other, FrontEnds
  <1>5. [front[f] EXCEPT !.at = a] # Idle
    BY <1>1 DEF Busy, Idle, At
  <1>6. front' \in [FrontEnds -> {Idle} \cup Busy]
    BY <1>2, <1>3 DEF TypeOK
  <1>7. front'[f] = [front[f] EXCEPT !.at = a] /\ front'[Other(f)] = front[Other(f)]
    BY <1>2, <1>4 DEF TypeOK
  <1> QED BY <1>1, <1>3, <1>5, <1>6, <1>7 DEF Busy

\* The rest of the state when an action changes front alone to go on.
LEMMA BusyAt ==
  ASSUME TypeOK, NEW f \in FrontEnds, NEW a \in At, Is(f, a)
  PROVE  front[f] # Idle
  BY DEF TypeOK, Is, Idle, At

\* A step that numbers no command leaves the room as it is.
LEMMA RoomKept ==
  ASSUME TypeInv, NEW f \in FrontEnds, last' = last,
         Numbered(f)' \/ ~Numbered(f),
         front'[Other(f)] = front[Other(f)]
  PROVE  Room'
  <1>1. f = "shell" \/ f = "monitor"
    BY DEF FrontEnds
  <1>2. CASE f = "shell"
    BY <1>2, MaxSeqAssumption DEF TypeInv, TypeOK, Room, Numbered, Other, Seqs
  <1>3. CASE f = "monitor"
    BY <1>3, MaxSeqAssumption DEF TypeInv, TypeOK, Room, Numbered, Other, Seqs
  <1> QED BY <1>1, <1>2, <1>3

LEMMA BeginType ==
  ASSUME TypeInv, NEW f \in FrontEnds, NEW j \in Kinds, NEW t \in Dest, Begin(f, j, t)
  PROVE  TypeInv'
  <1>1. front' \in [FrontEnds -> {Idle} \cup Busy]
    BY DEF Begin, TypeInv, TypeOK, Busy, At
  <1>2. mode' \in FrontEnds \cup {"none"} /\ part' \in Dest \cup {Nobody} /\ overlap' \in BOOLEAN
    BY DEF Begin, TypeInv, TypeOK, Sending
  <1>3. TypeOK'
    BY <1>1, <1>2 DEF Begin, TypeInv, TypeOK, cells, locks
  <1>4. Room'
    <2>1. f = "shell" \/ f = "monitor"
      BY DEF FrontEnds
    <2>2. /\ last' = last /\ last + (IF Numbered(Other(f)) THEN 0 ELSE 1) < MaxSeq
          /\ front'[f].at = "begin" /\ front'[Other(f)] = front[Other(f)]
      BY <2>1 DEF Begin, TypeInv, TypeOK, Other, FrontEnds
    <2>3. CASE f = "shell"
      BY <2>2, <2>3, MaxSeqAssumption DEF TypeInv, TypeOK, Room, Numbered, Other, Seqs
    <2>4. CASE f = "monitor"
      BY <2>2, <2>4, MaxSeqAssumption DEF TypeInv, TypeOK, Room, Numbered, Other, Seqs
    <2> QED BY <2>1, <2>3, <2>4
  <1> QED BY <1>3, <1>4 DEF TypeInv

LEMMA MarkType ==
  ASSUME TypeInv, NEW f \in FrontEnds, Mark(f)
  PROVE  TypeInv'
  <1> USE DEF TypeInv
  <1>1. front[f] # Idle /\ Goto(f, "number") /\ "number" \in At
    BY BusyAt DEF Mark, At
  <1>2. /\ front' \in [FrontEnds -> {Idle} \cup Busy] /\ front[f] \in Busy
        /\ front'[f].at = "number" /\ front'[Other(f)] = front[Other(f)]
    BY <1>1, GotoType
  <1>3. Marked(f) \subseteq Cells
    BY DEF Marked
  <1>4. comm' \in [Cells -> Kinds \cup {STAT}] /\ part' \in Dest \cup {Nobody}
    BY <1>2 DEF Mark, TypeOK, Busy
  <1>5. TypeOK'
    BY <1>2, <1>3, <1>4 DEF Mark, TypeOK, flags, locks
  <1>6. Numbered(f) = FALSE /\ last' = last
    BY DEF Mark, Numbered, Is
  <1> QED BY <1>2, <1>5, <1>6, RoomKept

LEMMA NumberType ==
  ASSUME TypeInv, NEW f \in FrontEnds, Number(f)
  PROVE  TypeInv'
  <1> USE DEF TypeInv
  <1>1. front[f] # Idle /\ Goto(f, "flag") /\ "flag" \in At
    BY BusyAt DEF Number, At
  <1>2. /\ front' \in [FrontEnds -> {Idle} \cup Busy] /\ front[f] \in Busy
        /\ front'[f].at = "flag" /\ front'[Other(f)] = front[Other(f)]
    BY <1>1, GotoType
  <1>3. last' \in Seqs /\ Room'
    <2>1. f = "shell" \/ f = "monitor"
      BY DEF FrontEnds
    <2>2. ~Numbered(f) /\ last' = last + 1
      BY DEF Number, Is, Numbered
    <2>3. CASE f = "shell"
      BY <1>2, <2>2, <2>3, MaxSeqAssumption DEF TypeOK, Room, Numbered, Other, Seqs
    <2>4. CASE f = "monitor"
      BY <1>2, <2>2, <2>4, MaxSeqAssumption DEF TypeOK, Room, Numbered, Other, Seqs
    <2> QED BY <2>1, <2>3, <2>4
  <1>4. target' \in [Kinds -> Dest \cup {Nobody}]
    BY <1>2 DEF Number, TypeOK, Busy
  <1>5. userSeq' \in [Slots -> Seqs]
    BY <1>3 DEF Number, TypeOK
  <1>6. TypeOK'
    BY <1>2, <1>3, <1>4, <1>5 DEF Number, TypeOK, cells, flags, locks, history
  <1> QED BY <1>3, <1>6

LEMMA FlagType ==
  ASSUME TypeInv, NEW f \in FrontEnds, Flag(f)
  PROVE  TypeInv'
  <1> USE DEF TypeInv
  <1>1. front[f] # Idle /\ Goto(f, "wait") /\ "wait" \in At
    BY BusyAt DEF Flag, At
  <1>2. /\ front' \in [FrontEnds -> {Idle} \cup Busy] /\ front[f] \in Busy
        /\ front'[f].at = "wait" /\ front'[Other(f)] = front[Other(f)]
    BY <1>1, GotoType
  <1>3. src' \in [Kinds -> Seqs] /\ flag' \in [FrontEnds -> SUBSET Kinds]
    BY <1>2 DEF Flag, TypeOK, Busy
  <1>4. TypeOK'
    BY <1>2, <1>3 DEF Flag, TypeOK, cells, locks, history
  <1> QED BY <1>2, <1>4, RoomKept DEF Flag, Numbered

LEMMA ReportType ==
  ASSUME TypeInv, NEW f \in FrontEnds, Report(f)
  PROVE  TypeInv'
  <1> USE DEF TypeInv
  <1>1. front[f] # Idle /\ Goto(f, "done") /\ "done" \in At
    BY BusyAt DEF Report, At
  <1>2. /\ front' \in [FrontEnds -> {Idle} \cup Busy]
        /\ front'[f].at = "done" /\ front'[Other(f)] = front[Other(f)]
    BY <1>1, GotoType
  <1>3. seq' \in [Cells -> Seqs] /\ comm' \in [Cells -> Kinds \cup {STAT}]
    BY MaxSeqAssumption DEF Report, TypeOK, Seqs
  <1>4. TypeOK'
    BY <1>2, <1>3 DEF Report, TypeOK, buffers, flags, locks, history
  <1> QED BY <1>2, <1>4, RoomKept DEF Report, Numbered, buffers

\* The steps of a front end that touch little besides its place.
LEMMA PlainStep ==
  ASSUME TypeInv, NEW f \in FrontEnds,
         \/ Refuse(f) \/ SetMass(f) \/ (f = "monitor" /\ Count) \/ WaitOver(f) \/ MassOff(f)
         \/ f = "shell" /\ (PollTimeout \/ \E k \in Slots : Polled(k))
  PROVE  /\ TypeInv'
         /\ UNCHANGED <<cells, buffers, mode, flag, locks, pack, parse, sent, history>>
         /\ front[f] # Idle /\ front'[f] # Idle
         /\ front'[f].kind = front[f].kind /\ front'[f].to = front[f].to
         /\ front'[Other(f)] = front[Other(f)]
         /\ front'[f].at # "flag"
         /\ Working(f)' => Working(f)
  <1> USE DEF TypeInv
  <1> DEFINE There == {"done", "mark", "count", "off", "report"}
  <1>1. PICK a \in There :
          /\ Goto(f, a)
          /\ a = "mark" => front[f].at = "begin"
          /\ a \notin {"mark", "done"} => front[f].at \in {"wait", "count", "off"}
    BY DEF Refuse, SetMass, Count, WaitOver, MassOff, PollTimeout, Polled, Is
  <1>2. front[f].at \in {"begin", "wait", "count", "off"}
    BY DEF Refuse, SetMass, Count, WaitOver, MassOff, PollTimeout, Polled, Is
  <1>3. front[f] # Idle
    BY <1>2 DEF Idle
  <1>4. /\ front' \in [FrontEnds -> {Idle} \cup Busy]
        /\ front'[f] # Idle /\ front'[f].at = a
        /\ front'[f].kind = front[f].kind /\ front'[f].to = front[f].to
        /\ front'[Other(f)] = front[Other(f)]
    BY <1>1, <1>3, GotoType DEF At
  <1>5. UNCHANGED <<cells, buffers, mode, flag, locks, pack, parse, sent, history>>
    BY DEF Refuse, SetMass, Count, WaitOver, MassOff, PollTimeout, Polled, flags
  <1>6. /\ mass' \in [FrontEnds -> BOOLEAN] /\ recvFlag' \in [Slots -> BOOLEAN]
        /\ said' \in {"nothing", "success", "failed"}
    BY DEF Refuse, SetMass, Count, WaitOver, MassOff, PollTimeout, Polled, flags, TypeOK
  <1>7. TypeOK'
    BY <1>4, <1>5, <1>6 DEF TypeOK, cells, buffers, locks, history
  <1>8. /\ Numbered(f)' \/ ~Numbered(f)
        /\ Working(f)' => Working(f)
    <2>1. CASE a = "mark"
      BY <1>1, <1>4, <2>1 DEF Numbered, Working
    <2>2. CASE a = "done"
      BY <1>4, <2>2 DEF Numbered, Working
    <2>3. CASE a \notin {"mark", "done"}
      BY <1>1, <1>4, <2>3 DEF Numbered, Working
    <2> QED BY <2>1, <2>2, <2>3
  <1>9. Room'
    BY <1>4, <1>5, <1>8, RoomKept DEF buffers
  <1>10. front'[f].at # "flag"
    BY <1>4
  <1> QED BY <1>3, <1>4, <1>5, <1>7, <1>8, <1>9, <1>10

LEMMA EndType ==
  ASSUME TypeInv, NEW f \in FrontEnds, End(f)
  PROVE  /\ TypeInv'
         /\ front'[f] = Idle /\ front'[Other(f)] = front[Other(f)]
  <1> USE DEF TypeInv
  <1>1. /\ front' \in [FrontEnds -> {Idle} \cup Busy]
        /\ front'[f] = Idle /\ front'[Other(f)] = front[Other(f)]
    BY DEF End, TypeOK, Other, FrontEnds
  <1>2. TypeOK'
    BY <1>1 DEF End, TypeOK, cells, buffers, locks
  <1>3. Numbered(f)' /\ last' = last
    BY <1>1 DEF End, Numbered, Idle, buffers
  <1> QED BY <1>1, <1>2, <1>3, RoomKept

\* What CommandPackProcess is about while it has something to send.
LEMMA PackBusy ==
  ASSUME TypeOK, pack.at \in {"take", "send"}
  PROVE  /\ pack \in Packing
         /\ pack.by # "stat" => pack.by \in FrontEnds /\ pack.kind \in Kinds
         /\ pack.by = "stat" => pack.all
  <1>1. pack \in Packing
    BY DEF TypeOK, Idle
  <1> QED BY <1>1 DEF Packing, FrontEnds

\* A step of another thread leaves the front ends, the last number and the room.
LEMMA OthersRoom ==
  ASSUME TypeInv, front' = front, last' = last
  PROVE  Room'
  BY DEF TypeInv, Room, Numbered

LEMMA SentType ==
  ASSUME TypeOK, pack.at = "send", NEW good \in BOOLEAN, Sent(good)
  PROVE  /\ rem' = "free" /\ pack' = Idle
         /\ lock' \in [FrontEnds -> {"free", "pack", "leaked"}]
  BY DEF Sent, TypeOK

\* The bookkeeping of a command's send.
LEMMA AskType ==
  ASSUME TypeOK, pack.at = "send", pack.by # "stat",
         NEW to \in SUBSET Cells, NEW ok \in SUBSET to,
         seq' = Packed(to), sent' = sent \cup Requests(ok), NoteAsked(to)
  PROVE  seq' \in [Cells -> Seqs] /\ sent' \subseteq Request /\ asked' \subseteq Cells
  <1>1. pack.kind \in Kinds /\ src[pack.kind] \in Seqs
    BY PackBusy DEF TypeOK
  <1>2. seq' \in [Cells -> Seqs]
    BY <1>1 DEF Packed, TypeOK
  <1>3. sent' \subseteq Request
    BY <1>1 DEF Requests, Request, TypeOK
  <1>4. asked' \subseteq Cells
    BY DEF NoteAsked, TypeOK
  <1> QED BY <1>2, <1>3, <1>4

LEMMA TakeType ==
  ASSUME TypeInv,
         PackStat \/ (\E f \in FrontEnds, j \in Kinds : PackTake(f, j)) \/ PackRemLock \/ PackRelock
  PROVE  /\ TypeInv'
         /\ UNCHANGED <<cells, buffers, mode, mass, recvFlag, front, parse, sent, said, history>>
  <1> USE DEF TypeInv
  <1>1. UNCHANGED <<cells, buffers, mode, mass, recvFlag, front, parse, sent, said, history>>
    BY DEF PackStat, PackTake, PackRemLock, PackRelock, flags
  <1>2. Room'
    BY <1>1, OthersRoom DEF buffers
  <1>3. CASE PackStat
    <2>1. pack' \in Packing
      BY <1>3 DEF PackStat, Packing
    <2> QED BY <1>1, <1>2, <1>3, <2>1
            DEF PackStat, TypeOK, cells, buffers, flags, locks, history
  <1>4. CASE \E f \in FrontEnds, j \in Kinds : PackTake(f, j)
    <2>1. PICK f \in FrontEnds, j \in Kinds : PackTake(f, j)
      BY <1>4
    <2>2. pack' \in Packing
      BY <2>1 DEF PackTake, Packing, TypeOK
    <2>3. /\ flag' \in [FrontEnds -> SUBSET Kinds]
          /\ lock' \in [FrontEnds -> {"free", "pack", "leaked"}]
          /\ rem' = rem
      BY <2>1 DEF PackTake, TypeOK
    <2> QED BY <1>1, <1>2, <2>2, <2>3 DEF TypeOK, cells, buffers, history
  <1>5. CASE PackRemLock
    <2>1. pack' \in Packing
      BY <1>5, PackBusy DEF PackRemLock, Packing
    <2> QED BY <1>1, <1>2, <1>5, <2>1
            DEF PackRemLock, TypeOK, cells, buffers, flags, history
  <1>6. CASE PackRelock
    BY <1>1, <1>2, <1>6 DEF PackRelock, TypeOK, cells, buffers, flags, locks, history
  <1> QED BY <1>3, <1>4, <1>5, <1>6

LEMMA SendAllType ==
  ASSUME TypeInv, PackSendAll
  PROVE  TypeInv'
  <1> USE DEF TypeInv
  <1> DEFINE to == { c \in Cells : online[c] /\ comm[c] = pack.kind }
  <1>1. UNCHANGED <<online, comm, buffers, flags, recvFlag, front, parse, said,
                    overlap, fresh, late, acked>>
    BY DEF PackSendAll
  <1>2. Room'
    BY <1>1, OthersRoom DEF buffers
  <1>3. pack \in Packing /\ pack.at = "send"
    BY PackBusy DEF PackSendAll
  <1>4. /\ rem' = "free" /\ pack' = Idle
        /\ lock' \in [FrontEnds -> {"free", "pack", "leaked"}]
        /\ seq' \in [Cells -> Seqs] /\ sent' \subseteq Request /\ asked' \subseteq Cells
    <2>1. CASE pack.by = "stat"
      <3>1. Sent(TRUE) /\ UNCHANGED <<seq, sent, asked>>
        BY <2>1 DEF PackSendAll
      <3> QED BY <1>3, <3>1, SentType DEF TypeOK
    <2>2. CASE pack.by # "stat"
      <3>1. PICK ok \in SUBSET to :
              seq' = Packed(to) /\ sent' = sent \cup Requests(ok) /\ NoteAsked(to) /\ Sent(ok # {})
        BY <2>2 DEF PackSendAll
      <3>2. to \subseteq Cells /\ (ok # {}) \in BOOLEAN
        OBVIOUS
      <3> HIDE DEF to
      <3> QED BY <1>3, <2>2, <3>1, <3>2, AskType, SentType
    <2> QED BY <2>1, <2>2
  <1> QED BY <1>1, <1>2, <1>4 DEF TypeOK, buffers, flags

LEMMA SendSingleType ==
  ASSUME TypeInv, PackSendSingle
  PROVE  TypeInv'
  <1> USE DEF TypeInv
  <1> DEFINE to == {target'[pack.kind]} \cap Cells
  <1>1. UNCHANGED <<online, comm, last, src, part, userSeq, flags, recvFlag, front, parse,
                    said, overlap, fresh, late, acked>>
    BY DEF PackSendSingle
  <1>2. Room'
    BY <1>1, OthersRoom
  <1>3. pack \in Packing /\ pack.at = "send" /\ pack.by # "stat"
    BY PackBusy DEF PackSendSingle
  <1>4. target' \in [Kinds -> Dest \cup {Nobody}]
    BY <1>3, PackBusy DEF PackSendSingle, TypeOK
  <1>5. /\ rem' = "free" /\ pack' = Idle
        /\ lock' \in [FrontEnds -> {"free", "pack", "leaked"}]
        /\ seq' \in [Cells -> Seqs] /\ sent' \subseteq Request /\ asked' \subseteq Cells
    <2>1. CASE pack.by = "monitor" /\ part = Nobody
      <3>1. Sent(TRUE) /\ UNCHANGED <<seq, sent, asked>>
        BY <2>1 DEF PackSendSingle
      <3> QED BY <1>3, <3>1, SentType DEF TypeOK
    <2>2. CASE ~(pack.by = "monitor" /\ part = Nobody)
      <3>1. PICK ok \in SUBSET to :
              seq' = Packed(to) /\ sent' = sent \cup Requests(ok) /\ NoteAsked(to) /\ Sent(ok # {})
        BY <2>2 DEF PackSendSingle
      <3>2. to \subseteq Cells /\ (ok # {}) \in BOOLEAN
        OBVIOUS
      <3> HIDE DEF to
      <3> QED BY <1>3, <3>1, <3>2, AskType, SentType
    <2> QED BY <2>1, <2>2
  <1> QED BY <1>1, <1>2, <1>4, <1>5 DEF TypeOK, flags

\* The replies and AlarmCell.
LEMMA MatchType ==
  ASSUME TypeOK, NEW c \in Cells, NEW next \in {"reset", "clear"}, Match(c, next)
  PROVE  /\ acked' \subseteq Cells
         /\ parse' \in [at : {"reset", "clear", "unlock"}, cell : Cells]
  BY DEF Match, TypeOK

LEMMA ResetType ==
  ASSUME TypeOK, NEW c \in Cells, Reset(c)
  PROVE  /\ seq' \in [Cells -> Seqs]
         /\ \A d \in Cells : seq'[d] = IF d = c THEN 0 ELSE seq[d]
  BY MaxSeqAssumption DEF Reset, TypeOK, Seqs

LEMMA ParseBusy ==
  ASSUME TypeOK, parse.at \in {"reset", "clear", "unlock"}
  PROVE  parse \in [at : {"reset", "clear", "unlock"}, cell : Cells]
  BY DEF TypeOK, Idle

LEMMA ReplyType ==
  ASSUME TypeInv, CommandParseProcess
  PROVE  TypeInv'
  <1> USE DEF TypeInv
  <1>1. \A m \in sent : m.cell \in Cells
    BY DEF TypeOK, Request
  <1>2. Room'
    BY OthersRoom DEF CommandParseProcess, ReplyInitall, ReplyShell, ReplyMonitor,
                      ReplyReset, ReplyClear, ReplyUnlock, buffers
  <1>3. ASSUME NEW m \in sent, ReplyInitall(m) PROVE TypeInv'
    <2>1. /\ acked' \subseteq Cells
          /\ parse' \in [at : {"reset", "clear", "unlock"}, cell : Cells]
          /\ seq' \in [Cells -> Seqs]
      BY <1>1, <1>3, MatchType, ResetType DEF ReplyInitall
    <2> QED BY <1>2, <1>3, <2>1 DEF ReplyInitall, TypeOK, buffers, flags
  <1>4. ASSUME NEW m \in sent, ReplyShell(m) PROVE TypeInv'
    <2>1. recvFlag' \in [Slots -> BOOLEAN]
      BY <1>4 DEF ReplyShell, TypeOK
    <2>2. acked' \subseteq Cells
      BY <1>1, <1>4 DEF ReplyShell, TypeOK
    <2> QED BY <1>2, <1>4, <2>1, <2>2 DEF ReplyShell, TypeOK, cells, buffers, flags, locks
  <1>5. ASSUME NEW m \in sent, ReplyMonitor(m) PROVE TypeInv'
    <2>1. /\ acked' \subseteq Cells
          /\ parse' \in [at : {"reset", "clear", "unlock"}, cell : Cells]
      BY <1>1, <1>5, MatchType DEF ReplyMonitor, TypeOK
    <2> QED BY <1>2, <1>5, <2>1 DEF ReplyMonitor, TypeOK, cells, buffers, flags, locks
  <1>6. CASE ReplyClear
    <2>1. /\ parse' \in [at : {"reset", "clear", "unlock"}, cell : Cells]
          /\ comm' \in [Cells -> Kinds \cup {STAT}]
      BY <1>6, ParseBusy DEF ReplyClear, TypeOK
    <2> QED BY <1>2, <1>6, <2>1 DEF ReplyClear, TypeOK, buffers, flags, locks, history
  <1>7. CASE ReplyUnlock
    BY <1>2, <1>7 DEF ReplyUnlock, TypeOK, cells, buffers, flags, history
  <1>8. CASE ReplyReset
    <2>1. /\ parse' \in [at : {"reset", "clear", "unlock"}, cell : Cells]
          /\ seq' \in [Cells -> Seqs]
      BY <1>8, ParseBusy, ResetType DEF ReplyReset, TypeOK
    <2> QED BY <1>2, <1>8, <2>1 DEF ReplyReset, TypeOK, buffers, flags, locks, history
  <1> QED BY <1>3, <1>4, <1>5, <1>6, <1>7, <1>8 DEF CommandParseProcess

LEMMA SwitchType ==
  ASSUME TypeInv, NEW c \in Cells, Switch(c)
  PROVE  TypeInv'
  <1> USE DEF TypeInv
  <1>1. Room'
    BY OthersRoom DEF Switch, buffers
  <1>2. online' \in [Cells -> BOOLEAN]
    BY DEF Switch, TypeOK
  <1> QED BY <1>1, <1>2 DEF Switch, TypeOK, buffers, flags, locks, history

LEMMA TypeInit == Init => TypeInv
  <1> 0 \in Seqs
    BY MaxSeqAssumption DEF Seqs
  <1>1. Init => TypeOK
    <2> SUFFICES ASSUME Init PROVE TypeOK
      OBVIOUS
    <2>1. /\ comm \in [Cells -> Kinds \cup {STAT}] /\ seq \in [Cells -> Seqs]
          /\ src \in [Kinds -> Seqs] /\ target \in [Kinds -> Dest \cup {Nobody}]
          /\ userSeq \in [Slots -> Seqs] /\ recvFlag \in [Slots -> BOOLEAN]
      BY DEF Init
    <2>2. /\ mass \in [FrontEnds -> BOOLEAN] /\ flag \in [FrontEnds -> SUBSET Kinds]
          /\ lock \in [FrontEnds -> {"free", "pack", "leaked"}]
          /\ front \in [FrontEnds -> {Idle} \cup Busy]
      BY DEF Init
    <2> QED BY <2>1, <2>2 DEF Init, TypeOK
  <1>2. Init => last = 0 /\ Numbered("shell") /\ Numbered("monitor")
    BY DEF Init, Numbered, Idle, FrontEnds
  <1>3. Init => Room
    BY <1>2, MaxSeqAssumption DEF Room
  <1> QED BY <1>1, <1>3 DEF TypeInv

LEMMA TypeStep == TypeInv /\ [Next]_vars => TypeInv'
  <1> SUFFICES ASSUME TypeInv, [Next]_vars PROVE TypeInv'
    OBVIOUS
  <1>1. ASSUME NEW f \in FrontEnds, NEW j \in Kinds, NEW t \in Dest, Begin(f, j, t)
        PROVE  TypeInv'
    BY <1>1, BeginType
  <1>2. ASSUME NEW f \in FrontEnds, FrontEnd(f)
        PROVE  TypeInv'
    BY <1>2, MarkType, NumberType, FlagType, ReportType, PlainStep, EndType DEF FrontEnd
  <1>3. CASE CommandPackProcess
    BY <1>3, TakeType, SendAllType, SendSingleType DEF CommandPackProcess
  <1>4. CASE CommandParseProcess
    BY <1>4, ReplyType
  <1>5. ASSUME NEW c \in Cells, Switch(c)
        PROVE  TypeInv'
    BY <1>5, SwitchType
  <1>6. CASE UNCHANGED vars
    BY <1>6 DEF TypeInv, TypeOK, Room, Numbered, vars, cells, buffers, flags, locks, history
  <1> QED BY <1>1, <1>2, <1>3, <1>4, <1>5, <1>6 DEF Next

\* Every variable keeps its type: in particular the numbers stay within the bound
\* however the two front ends interleave, and CommandPackProcess has a command of
\* the buffers, or the poll, in hand when it sends.
THEOREM TypeCorrect == Spec => []TypeOK
  <1>1. TypeInv => TypeOK
    BY DEF TypeInv
  <1> QED BY TypeInit, TypeStep, <1>1, PTL DEF Spec

-----------------------------------------------------------------------------
(* The reports.                                                             *)

LEMMA OtherFront ==
  ASSUME NEW f \in FrontEnds, NEW g \in FrontEnds
  PROVE  Other(f) \in FrontEnds /\ Other(f) # f /\ (g = f \/ g = Other(f)) /\ Other(Other(f)) = f
  BY DEF FrontEnds, Other

\* When a front end goes on, no other command is alone.
LEMMA OnlyAlone ==
  ASSUME PackOK, NEW f \in FrontEnds, front[f] # Idle, overlap' = overlap,
         front'[Other(f)] = front[Other(f)],
         NEW g \in FrontEnds, Alone(g)'
  PROVE  g = f /\ Alone(f)
  <1>1. ASSUME g = Other(f) PROVE FALSE
    BY <1>1, OtherFront DEF Alone, PackOK
  <1>2. g = f
    BY <1>1, OtherFront
  <1> QED BY <1>2 DEF Alone

\* What a front end's step must leave alone for the invariant to be kept, the
\* cells and the flags apart.
LEMMA FrontKeeps ==
  ASSUME TypeOK, Inv, NEW f \in FrontEnds, front[f] # Idle, front'[f] # Idle,
         front'[f].kind = front[f].kind, front'[f].to = front[f].to,
         front'[Other(f)] = front[Other(f)],
         UNCHANGED <<mode, overlap, pack, parse, sent>>
  PROVE  /\ ModeOK'
         /\ flag'[f] \subseteq flag[f] \cup {front[f].kind} => PackOK'
  <1>1. ModeOK'
    <2>1. mode \in {"none", f, Other(f)}
      BY OtherFront DEF TypeOK
    <2> QED BY <2>1 DEF Inv, ModeOK
  <1>2. ASSUME flag'[f] \subseteq flag[f] \cup {front[f].kind},
               NEW g \in FrontEnds, Alone(g)'
        PROVE  /\ front'[Other(g)] = Idle /\ mode' = g
               /\ flag'[g] \subseteq {front'[g].kind}
               /\ Sending' => pack'.by = g /\ pack'.kind = front'[g].kind
    <2>1. g = f /\ Alone(f)
      BY <1>2, OnlyAlone DEF Inv
    <2> QED BY <1>2, <2>1 DEF Inv, PackOK, Sending
  <1> QED BY <1>1, <1>2 DEF PackOK

LEMMA BeginInv ==
  ASSUME TypeInv, Inv, NEW f \in FrontEnds, NEW j \in Kinds, NEW t \in Dest, Begin(f, j, t)
  PROVE  Inv'
  <1>1. /\ front'[f].at = "begin" /\ front'[f].kind = j /\ front'[f] # Idle /\ front[f] = Idle
        /\ front'[Other(f)] = front[Other(f)]
        /\ UNCHANGED <<cells, last, src, flag, pack, parse, sent>>
    BY OtherFront DEF Begin, TypeInv, TypeOK, Idle
  <1>2. mode' = IF mode = "none" THEN f ELSE mode
    BY DEF Begin
  <1>3. overlap' = (front[Other(f)] # Idle \/ flag[f] # {} \/ Sending)
    BY DEF Begin
  <1>4. ASSUME NEW g \in FrontEnds, Alone(g)'
        PROVE  g = f /\ front[Other(f)] = Idle /\ flag[f] = {} /\ ~Sending
    BY <1>1, <1>3, <1>4, OtherFront DEF Alone
  <1>5. ModeOK'
    <2>1. mode \in {"none", f, Other(f)}
      BY OtherFront DEF TypeInv, TypeOK
    <2> QED BY <1>1, <1>2, <2>1 DEF Inv, ModeOK
  <1>6. PackOK'
    <2> SUFFICES ASSUME NEW g \in FrontEnds, Alone(g)'
                 PROVE  /\ front'[Other(g)] = Idle /\ mode' = g
                        /\ flag'[g] \subseteq {front'[g].kind}
                        /\ Sending' => pack'.by = g /\ pack'.kind = front'[g].kind
      BY DEF PackOK
    <2>1. mode' = f
      BY <1>2, <1>4, <1>1, OtherFront DEF Inv, ModeOK, TypeInv, TypeOK
    <2>2. ~Sending'
      BY <1>1, <1>4 DEF Sending
    <2> QED BY <1>1, <1>4, <2>1, <2>2
  <1>7. SeqOK'
    <2>1. ASSUME NEW g \in FrontEnds, Is(g, "flag")' PROVE Is(g, "flag")
      BY <1>1, <2>1, OtherFront DEF Is
    <2> QED BY <1>1, <2>1 DEF Inv, SeqOK, Sending
  <1>8. AnswerOK'
    BY <1>1, <1>4 DEF AnswerOK, Working
  <1> QED BY <1>5, <1>6, <1>7, <1>8 DEF Inv

\* Numbers and cells are as they were.
LEMMA SeqKept ==
  ASSUME Inv, NEW f \in FrontEnds, front'[f].at # "flag",
         front'[Other(f)] = front[Other(f)],
         UNCHANGED <<last, src, flag, pack, parse, sent>>
  PROVE  SeqOK'
  <1>1. ASSUME NEW g \in FrontEnds, Is(g, "flag")' PROVE Is(g, "flag")
    BY <1>1, OtherFront DEF Is
  <1> QED BY <1>1 DEF Inv, SeqOK, Sending

LEMMA AnswerKept ==
  ASSUME Inv, NEW f \in FrontEnds, front[f] # Idle, front'[Other(f)] = front[Other(f)],
         front'[f].to = front[f].to, Working(f)' => Working(f),
         UNCHANGED <<comm, seq, parse, overlap, fresh, late, asked, acked>>
  PROVE  AnswerOK'
  <1> SUFFICES ASSUME NEW g \in FrontEnds, Alone(g)', Working(g)'
               PROVE  /\ \A c \in (fresh \ late)' :
                                           /\ c \in acked' <=> comm'[c] = STAT \/ c \in Handling'
                                           /\ seq'[c] # 0 => c \in asked'
                      /\ g = "shell" /\ front'[g].to # All => fresh' = {}
    BY DEF AnswerOK
  <1>1. g = f /\ Alone(f)
    BY OnlyAlone DEF Inv
  <1>2. Handling' = Handling
    BY DEF Handling
  <1> QED BY <1>1, <1>2 DEF Inv, AnswerOK

LEMMA PlainInv ==
  ASSUME TypeInv, Inv, NEW f \in FrontEnds,
         \/ Refuse(f) \/ SetMass(f) \/ (f = "monitor" /\ Count) \/ WaitOver(f) \/ MassOff(f)
         \/ f = "shell" /\ (PollTimeout \/ \E k \in Slots : Polled(k))
  PROVE  Inv'
  <1>1. /\ UNCHANGED <<cells, buffers, mode, flag, locks, pack, parse, sent, history>>
        /\ front[f] # Idle /\ front'[f] # Idle
        /\ front'[f].kind = front[f].kind /\ front'[f].to = front[f].to
        /\ front'[Other(f)] = front[Other(f)]
        /\ front'[f].at # "flag" /\ (Working(f)' => Working(f))
    BY PlainStep
  <1>2. UNCHANGED <<last, src, comm, seq, overlap, fresh, late, asked, acked, mode, flag, pack, parse, sent>>
    BY <1>1 DEF cells, buffers, history
  <1>3. ModeOK' /\ PackOK'
    BY <1>1, <1>2, FrontKeeps DEF TypeInv
  <1>4. SeqOK'
    BY <1>1, <1>2, SeqKept
  <1>5. AnswerOK'
    BY <1>1, <1>2, AnswerKept
  <1> QED BY <1>3, <1>4, <1>5 DEF Inv

\* The cells are marked, and owe no answer to the command yet.
LEMMA MarkInv ==
  ASSUME TypeInv, Inv, NEW f \in FrontEnds, Mark(f)
  PROVE  Inv'
  <1>1. front[f] # Idle /\ Goto(f, "number") /\ "number" \in At
    BY BusyAt DEF Mark, At, TypeInv
  <1>2. /\ front'[f] # Idle /\ front'[f].at = "number" /\ front[f] \in Busy
        /\ front'[f].kind = front[f].kind /\ front'[f].to = front[f].to
        /\ front'[Other(f)] = front[Other(f)]
    BY <1>1, GotoType DEF TypeInv
  <1>3. UNCHANGED <<last, src, seq, mode, flag, pack, parse, sent, overlap>>
    BY DEF Mark, flags
  <1>4. ModeOK' /\ PackOK'
    BY <1>1, <1>2, <1>3, FrontKeeps DEF TypeInv
  <1>5. SeqOK'
    BY <1>2, <1>3, SeqKept
  <1>6. AnswerOK'
    <2> SUFFICES ASSUME NEW g \in FrontEnds, Alone(g)', Working(g)'
                 PROVE  /\ \A c \in (fresh \ late)' :
                                             /\ c \in acked' <=> comm'[c] = STAT \/ c \in Handling'
                                             /\ seq'[c] # 0 => c \in asked'
                        /\ g = "shell" /\ front'[g].to # All => fresh' = {}
      BY DEF AnswerOK
    <2>1. g = f
      BY <1>1, <1>2, <1>3, OnlyAlone DEF Inv
    <2>2. front[f].kind # STAT
      BY <1>2, KindsAssumption DEF Busy, STAT
    <2>3. \A c \in fresh' : c \in Cells /\ c \in Marked(f) /\ seq[c] = 0
      BY DEF Mark, Marked
    <2>6. late' = fresh' \cap Handling /\ Handling' = Handling
      BY <1>3 DEF Mark, Handling
    <2>4. acked' = {} /\ comm' = [c \in Cells |-> IF c \in Marked(f) THEN front[f].kind ELSE comm[c]]
      BY DEF Mark
    <2>5. g = "shell" /\ front'[g].to # All => fresh' = {}
      BY <1>2, <2>1 DEF Mark, Marked
    <2> QED BY <1>3, <2>2, <2>3, <2>4, <2>5, <2>6
  <1> QED BY <1>4, <1>5, <1>6 DEF Inv

LEMMA NumberInv ==
  ASSUME TypeInv, Inv, NEW f \in FrontEnds, Number(f)
  PROVE  Inv'
  <1>1. front[f] # Idle /\ Goto(f, "flag") /\ "flag" \in At
    BY BusyAt DEF Number, At, TypeInv
  <1>2. /\ front'[f] # Idle /\ front'[f].at = "flag"
        /\ front'[f].kind = front[f].kind /\ front'[f].to = front[f].to
        /\ front'[Other(f)] = front[Other(f)]
    BY <1>1, GotoType DEF TypeInv
  <1>3. UNCHANGED <<src, comm, seq, mode, flag, pack, parse, sent, overlap, fresh, late, asked, acked>>
    BY DEF Number, flags, cells, history
  <1>4. ModeOK' /\ PackOK'
    BY <1>1, <1>2, <1>3, FrontKeeps DEF TypeInv
  <1>5. SeqOK'
    <2>1. last' # 0
      BY MaxSeqAssumption DEF Number, TypeInv, TypeOK, Seqs
    <2> QED BY <1>3, <2>1 DEF Inv, SeqOK, Sending
  <1>6. AnswerOK'
    BY <1>1, <1>2, <1>3, AnswerKept DEF Number, Working, Is
  <1> QED BY <1>4, <1>5, <1>6 DEF Inv

LEMMA FlagInv ==
  ASSUME TypeInv, Inv, NEW f \in FrontEnds, Flag(f)
  PROVE  Inv'
  <1>1. front[f] # Idle /\ Goto(f, "wait") /\ "wait" \in At
    BY BusyAt DEF Flag, At, TypeInv
  <1>2. /\ front'[f] # Idle /\ front'[f].at = "wait" /\ front[f].kind \in Kinds
        /\ front'[f].kind = front[f].kind /\ front'[f].to = front[f].to
        /\ front'[Other(f)] = front[Other(f)]
    BY <1>1, GotoType DEF TypeInv, Busy
  <1>3. UNCHANGED <<last, comm, seq, mode, pack, parse, sent, overlap, fresh, late, asked, acked>>
    BY DEF Flag, cells, history
  <1>4. /\ src' = [src EXCEPT ![front[f].kind] = last]
        /\ flag' = [flag EXCEPT ![f] = @ \cup {front[f].kind}]
    BY DEF Flag
  <1>5. ModeOK' /\ PackOK'
    BY <1>1, <1>2, <1>3, <1>4, FrontKeeps DEF TypeInv, TypeOK
  <1>6. SeqOK'
    <2>1. last # 0
      BY DEF Flag, Inv, SeqOK
    <2>2. ASSUME NEW k \in Kinds, src[k] # 0 PROVE src'[k] # 0
      BY <1>4, <2>1, <2>2 DEF TypeInv, TypeOK
    <2>3. src'[front[f].kind] # 0
      BY <1>2, <1>4, <2>1 DEF TypeInv, TypeOK
    <2>4. \A g \in FrontEnds : \A j \in flag'[g] : src'[j] # 0
      BY <1>4, <2>2, <2>3 DEF Inv, SeqOK, TypeInv, TypeOK
    <2>5. Sending' => src'[pack'.kind] # 0
      BY <1>3, <2>2, PackBusy DEF Inv, SeqOK, Sending, TypeInv
    <2>6. \A g \in FrontEnds : Is(g, "flag")' => last' # 0
      BY <1>3, <2>1
    <2> QED BY <1>3, <2>4, <2>5, <2>6 DEF SeqOK, Inv
  <1>7. AnswerOK'
    BY <1>1, <1>2, <1>3, AnswerKept DEF Flag, Working, Is
  <1> QED BY <1>5, <1>6, <1>7 DEF Inv

LEMMA ReportInv ==
  ASSUME TypeInv, Inv, NEW f \in FrontEnds, Report(f)
  PROVE  Inv'
  <1>1. front[f] # Idle /\ Goto(f, "done") /\ "done" \in At
    BY BusyAt DEF Report, At, TypeInv
  <1>2. /\ front'[f] # Idle /\ front'[f].at = "done"
        /\ front'[f].kind = front[f].kind /\ front'[f].to = front[f].to
        /\ front'[Other(f)] = front[Other(f)]
    BY <1>1, GotoType DEF TypeInv
  <1>3. UNCHANGED <<last, src, mode, flag, pack, parse, sent, overlap>>
    BY DEF Report, buffers, flags, history
  <1>4. ModeOK' /\ PackOK'
    BY <1>1, <1>2, <1>3, FrontKeeps DEF TypeInv
  <1>5. SeqOK'
    BY <1>2, <1>3, SeqKept
  <1>6. AnswerOK'
    BY <1>1, <1>2, <1>3, OnlyAlone DEF AnswerOK, Working, Inv
  <1> QED BY <1>4, <1>5, <1>6 DEF Inv

LEMMA EndInv ==
  ASSUME TypeInv, Inv, NEW f \in FrontEnds, End(f)
  PROVE  Inv'
  <1>1. /\ front[f] # Idle /\ front'[f] = Idle
        /\ front'[Other(f)] = front[Other(f)]
    BY EndType, BusyAt DEF End, At, TypeInv
  <1>2. /\ UNCHANGED <<last, src, flag, pack, parse, sent>>
        /\ overlap' = (overlap /\ front[Other(f)] # Idle)
        /\ mode' = IF mode = f THEN "none" ELSE mode
    BY DEF End, buffers
  <1>3. \A g \in FrontEnds : ~Alone(g)'
    <2>1. ASSUME NEW g \in FrontEnds, Alone(g)' PROVE FALSE
      <3>1. g = Other(f) /\ front'[g] # Idle /\ ~overlap'
        BY <1>1, <2>1, OtherFront DEF Alone
      <3>2. front[g] # Idle /\ ~overlap
        BY <1>1, <1>2, <3>1
      <3>3. Alone(f)
        BY <1>1, <3>2 DEF Alone
      <3>4. QED BY <3>1, <3>2, <3>3 DEF Inv, PackOK
    <2>2. QED BY <2>1
  <1>4. ModeOK'
    <2>1. mode \in {"none", f, Other(f)}
      BY OtherFront DEF TypeInv, TypeOK
    <2> QED BY <1>1, <1>2, <2>1 DEF Inv, ModeOK
  <1>5. SeqOK'
    BY <1>1, <1>2, SeqKept DEF Idle
  <1> QED BY <1>3, <1>4, <1>5 DEF Inv, PackOK, AnswerOK

\* The steps of the other threads leave the front ends as they are.
LEMMA StillFront ==
  ASSUME front' = front, overlap' = overlap
  PROVE  \A g \in FrontEnds :
           /\ Alone(g)' <=> Alone(g)
           /\ Working(g)' <=> Working(g)
           /\ \A a \in {"flag"} : Is(g, a)' <=> Is(g, a)
  BY DEF Alone, Working, Is

LEMMA TakeInv ==
  ASSUME TypeInv, Inv,
         PackStat \/ (\E f \in FrontEnds, j \in Kinds : PackTake(f, j)) \/ PackRemLock \/ PackRelock
  PROVE  Inv'
  <1>1. UNCHANGED <<comm, seq, last, src, mode, front, parse, sent, overlap, fresh, late, asked, acked>>
    BY TakeType DEF cells, buffers, history
  <1>2. ModeOK'
    BY <1>1 DEF Inv, ModeOK
  <1>3. AnswerOK'
    BY <1>1, StillFront DEF Inv, AnswerOK, Handling
  <1>4. CASE PackStat
    <2>1. flag' = flag /\ ~Sending'
      BY <1>4 DEF PackStat, flags, Sending
    <2> QED BY <1>1, <1>2, <1>3, <2>1, StillFront DEF Inv, PackOK, SeqOK
  <1>5. CASE \E f \in FrontEnds, j \in Kinds : PackTake(f, j)
    <2>1. PICK f \in FrontEnds, j \in Kinds : PackTake(f, j)
      BY <1>5
    <2>2. /\ mode = f /\ j \in flag[f]
          /\ \A g \in FrontEnds : flag'[g] \subseteq flag[g]
          /\ pack'.by = f /\ pack'.kind = j
      BY <2>1 DEF PackTake, TypeInv, TypeOK
    <2>3. PackOK'
      BY <1>1, <2>2, StillFront DEF Inv, PackOK
    <2>4. SeqOK'
      BY <1>1, <2>2, StillFront DEF Inv, SeqOK
    <2> QED BY <1>2, <1>3, <2>3, <2>4 DEF Inv
  <1>6. CASE PackRemLock
    <2>1. flag' = flag /\ pack'.by = pack.by /\ pack'.kind = pack.kind
      BY <1>6, PackBusy DEF PackRemLock, flags, Packing, TypeInv
    <2>2. Sending' => Sending
      BY <1>6, <2>1 DEF PackRemLock, Sending
    <2> QED BY <1>1, <1>2, <1>3, <2>1, <2>2, StillFront DEF Inv, PackOK, SeqOK
  <1>7. CASE PackRelock
    <2>1. flag' = flag /\ ~Sending'
      BY <1>7 DEF PackRelock, flags, Sending
    <2> QED BY <1>1, <1>2, <1>3, <2>1, StillFront DEF Inv, PackOK, SeqOK
  <1> QED BY <1>4, <1>5, <1>6, <1>7

\* A cell sent the command of a front end that is alone is among those asked.
LEMMA SendInv ==
  ASSUME TypeInv, Inv, pack.at = "send", pack' = Idle,
         UNCHANGED <<comm, src, last, mode, flag, front, parse, overlap, fresh, late, acked>>,
         \/ UNCHANGED <<seq, sent, asked>>
         \/ /\ pack.by # "stat"
            /\ \E to \in SUBSET Cells : \E ok \in SUBSET to :
                 seq' = Packed(to) /\ sent' = sent \cup Requests(ok) /\ NoteAsked(to)
  PROVE  Inv'
  <1>1. ~Sending'
    BY DEF Sending, Idle
  <1>2. ModeOK' /\ PackOK'
    BY <1>1, StillFront DEF Inv, ModeOK, PackOK
  <1>3. CASE UNCHANGED <<seq, sent, asked>>
    BY <1>1, <1>2, <1>3, StillFront DEF Inv, SeqOK, AnswerOK, Handling
  <1>4. CASE /\ pack.by # "stat"
             /\ \E to \in SUBSET Cells : \E ok \in SUBSET to :
                  seq' = Packed(to) /\ sent' = sent \cup Requests(ok) /\ NoteAsked(to)
    <2>0. PICK to \in SUBSET Cells : \E ok \in SUBSET to :
            seq' = Packed(to) /\ sent' = sent \cup Requests(ok) /\ NoteAsked(to)
      BY <1>4
    <2>1. PICK ok \in SUBSET to :
            seq' = Packed(to) /\ sent' = sent \cup Requests(ok) /\ NoteAsked(to)
      BY <2>0
    <2>2. Sending
      BY <1>4 DEF Sending
    <2>3. SeqOK'
      <3>1. src[pack.kind] # 0
        BY <2>2 DEF Inv, SeqOK
      <3>2. \A m \in sent' : m.seq # 0
        BY <2>1, <3>1 DEF Requests, Inv, SeqOK
      <3> QED BY <1>1, <3>2, StillFront DEF Inv, SeqOK
    <2>4. ASSUME NEW g \in FrontEnds, Alone(g)
          PROVE  asked' = asked \cup to
      <3>1. front[g] # Idle /\ pack.kind = front[g].kind
        BY <2>2, <2>4 DEF Inv, PackOK, Alone
      <3>2. ~Is(g, "idle")
        BY <3>1 DEF Is, TypeInv, TypeOK, Busy, At
      <3> QED BY <2>1, <2>4, <3>1, <3>2 DEF NoteAsked, Alone
    <2>5. \A c \in Cells : seq'[c] # 0 => c \in to \/ seq[c] # 0
      BY <2>1 DEF Packed
    <2>6. AnswerOK'
      BY <2>4, <2>5, StillFront DEF Inv, AnswerOK, Handling, TypeInv, TypeOK
    <2> QED BY <1>2, <2>3, <2>6 DEF Inv
  <1> QED BY <1>3, <1>4

LEMMA SendAllInv ==
  ASSUME TypeInv, Inv, PackSendAll
  PROVE  Inv'
  <1>1. /\ pack.at = "send"
        /\ UNCHANGED <<comm, src, last, mode, flag, front, parse, overlap, fresh, late, acked>>
    BY DEF PackSendAll, buffers, flags
  <1>2. pack' = Idle
    BY DEF PackSendAll, Sent
  <1>3. CASE pack.by = "stat"
    BY <1>1, <1>2, <1>3, SendInv DEF PackSendAll
  <1>4. CASE pack.by # "stat"
    <2> DEFINE to == { c \in Cells : online[c] /\ comm[c] = pack.kind }
    <2>1. PICK ok \in SUBSET to : seq' = Packed(to) /\ sent' = sent \cup Requests(ok) /\ NoteAsked(to)
      BY <1>4 DEF PackSendAll
    <2>2. to \in SUBSET Cells
      OBVIOUS
    <2> HIDE DEF to
    <2> QED BY <1>1, <1>2, <1>4, <2>1, <2>2, SendInv
  <1> QED BY <1>3, <1>4

LEMMA SendSingleInv ==
  ASSUME TypeInv, Inv, PackSendSingle
  PROVE  Inv'
  <1>1. /\ pack.at = "send" /\ pack.by # "stat"
        /\ UNCHANGED <<comm, src, last, mode, flag, front, parse, overlap, fresh, late, acked>>
    BY PackBusy DEF PackSendSingle, flags, TypeInv
  <1>2. pack' = Idle
    BY DEF PackSendSingle, Sent
  <1>3. CASE pack.by = "monitor" /\ part = Nobody
    BY <1>1, <1>2, <1>3, SendInv DEF PackSendSingle
  <1>4. CASE ~(pack.by = "monitor" /\ part = Nobody)
    <2> DEFINE to == {target'[pack.kind]} \cap Cells
    <2>1. PICK ok \in SUBSET to : seq' = Packed(to) /\ sent' = sent \cup Requests(ok) /\ NoteAsked(to)
      BY <1>4 DEF PackSendSingle
    <2>2. to \in SUBSET Cells
      OBVIOUS
    <2> HIDE DEF to
    <2> QED BY <1>1, <1>2, <2>1, <2>2, SendInv
  <1> QED BY <1>3, <1>4

\* A reply that is found to answer a cell's last request bears its number.
LEMMA MatchInv ==
  ASSUME TypeInv, Inv, NEW m \in sent, seq[m.cell] = m.seq, parse = Idle,
         NEW next \in {"reset", "clear"}, Match(m.cell, next),
         \A c \in Cells : seq'[c] \in {0, seq[c]},
         UNCHANGED <<comm, last, src, mode, flag, front, pack, sent, overlap, fresh, late, asked>>
  PROVE  Inv'
  <1>1. m.seq # 0 /\ m.cell \in Cells
    BY DEF Inv, SeqOK, TypeInv, TypeOK, Request
  <1>2. ModeOK' /\ PackOK' /\ SeqOK'
    BY StillFront DEF Inv, ModeOK, PackOK, SeqOK, Sending
  <1>3. /\ Handling = {} /\ Handling' = {m.cell}
        /\ acked' = acked \cup ({m.cell} \cap asked)
    BY <1>1 DEF Match, TypeInv, TypeOK, Handling, Idle
  <1>4. AnswerOK'
    <2> SUFFICES ASSUME NEW g \in FrontEnds, Alone(g)', Working(g)'
                 PROVE  /\ \A c \in (fresh \ late)' :
                             /\ c \in acked' <=> comm'[c] = STAT \/ c \in Handling'
                             /\ seq'[c] # 0 => c \in asked'
                        /\ g = "shell" /\ front'[g].to # All => fresh' = {}
      BY DEF AnswerOK
    <2>1. /\ \A c \in fresh \ late : /\ c \in acked <=> comm[c] = STAT \/ c \in Handling
                                     /\ seq[c] # 0 => c \in asked
          /\ g = "shell" /\ front[g].to # All => fresh = {}
      BY StillFront DEF Inv, AnswerOK
    <2>2. fresh \subseteq Cells
      BY DEF TypeInv, TypeOK
    <2>3. ASSUME NEW c \in fresh \ late
          PROVE  /\ c \in acked' <=> comm'[c] = STAT \/ c \in Handling'
                 /\ seq'[c] # 0 => c \in asked'
      <3>1. CASE c = m.cell
        BY <1>1, <1>3, <2>1, <2>3, <3>1
      <3>2. CASE c # m.cell
        BY <1>3, <2>1, <2>2, <2>3, <3>2
      <3> QED BY <3>1, <3>2
    <2> QED BY <2>1, <2>3
  <1> QED BY <1>2, <1>4 DEF Inv

\* With its number reset the cell waits for no answer.
LEMMA ResetInv ==
  ASSUME TypeInv, Inv, ReplyReset
  PROVE  Inv'
  <1>1. UNCHANGED <<comm, last, src, mode, flag, front, pack, sent, overlap, fresh, late, asked, acked>>
    BY DEF ReplyReset, buffers, flags, history
  <1>2. ModeOK' /\ PackOK' /\ SeqOK'
    BY <1>1, StillFront DEF Inv, ModeOK, PackOK, SeqOK, Sending
  <1>3. parse.cell \in Cells /\ parse.at = "reset" /\ parse'.at = "clear" /\ parse'.cell = parse.cell
    BY ParseBusy DEF ReplyReset, TypeInv
  <1>4. /\ Handling' = Handling
        /\ \A c \in Cells : seq'[c] = IF c = parse.cell THEN 0 ELSE seq[c]
    BY <1>3, ResetType DEF ReplyReset, Handling, TypeInv
  <1>5. AnswerOK'
    <2>1. fresh \subseteq Cells
      BY DEF TypeInv, TypeOK
    <2> QED BY <1>1, <1>4, <2>1, StillFront DEF Inv, AnswerOK
  <1> QED BY <1>2, <1>5 DEF Inv

\* Clearing the mark of a cell that was not marked in between makes no
\* difference to who has answered.
LEMMA ClearInv ==
  ASSUME TypeInv, Inv, ReplyClear
  PROVE  Inv'
  <1>1. UNCHANGED <<seq, last, src, mode, flag, front, pack, sent, overlap, fresh, late, asked, acked>>
    BY DEF ReplyClear, buffers, flags, history
  <1>2. ModeOK' /\ PackOK' /\ SeqOK'
    BY <1>1, StillFront DEF Inv, ModeOK, PackOK, SeqOK, Sending
  <1>3. parse.cell \in Cells /\ parse.at = "clear" /\ parse'.at = "unlock"
    BY ParseBusy DEF ReplyClear, TypeInv
  <1>4. /\ Handling = {parse.cell} /\ Handling' = {}
        /\ \A c \in Cells : comm'[c] = IF c = parse.cell THEN STAT ELSE comm[c]
    BY <1>3 DEF ReplyClear, Handling, TypeInv, TypeOK
  <1>5. AnswerOK'
    <2>1. fresh \subseteq Cells
      BY DEF TypeInv, TypeOK
    <2> QED BY <1>1, <1>4, <2>1, StillFront DEF Inv, AnswerOK
  <1> QED BY <1>2, <1>5 DEF Inv

LEMMA ReplyInv ==
  ASSUME TypeInv, Inv, CommandParseProcess
  PROVE  Inv'
  <1>1. UNCHANGED <<last, src, mode, flag, front, pack, sent, overlap, fresh, late, asked>>
    BY DEF CommandParseProcess, ReplyInitall, ReplyShell, ReplyMonitor, ReplyReset, ReplyClear,
           ReplyUnlock, buffers, flags, history
  <1>2. ASSUME NEW m \in sent, ReplyInitall(m) PROVE Inv'
    <2>1. m.cell \in Cells
      BY DEF TypeInv, TypeOK, Request
    <2>2. \A c \in Cells : seq'[c] \in {0, seq[c]}
      BY <1>2, <2>1, ResetType DEF ReplyInitall, TypeInv
    <2> QED BY <1>1, <1>2, <2>2, MatchInv DEF ReplyInitall
  <1>3. ASSUME NEW m \in sent, ReplyMonitor(m), seq[m.cell] = m.seq PROVE Inv'
    <2>1. /\ Match(m.cell, "reset") /\ parse = Idle
          /\ UNCHANGED <<comm, seq>>
      BY <1>3 DEF ReplyMonitor, cells
    <2> QED BY <1>1, <1>3, <2>1, MatchInv
  <1>4. ASSUME UNCHANGED <<seq, comm, acked>>, Handling' = Handling PROVE Inv'
    BY <1>1, <1>4, StillFront DEF Inv, ModeOK, PackOK, SeqOK, AnswerOK, Handling, Sending
  <1>5. ASSUME NEW m \in sent, ReplyMonitor(m), seq[m.cell] # m.seq PROVE Inv'
    <2>1. UNCHANGED <<seq, comm, acked>> /\ Handling' = {} /\ Handling = {}
      BY <1>5 DEF ReplyMonitor, Handling, Idle, cells
    <2> QED BY <1>4, <2>1
  <1>6. ASSUME NEW m \in sent, ReplyShell(m) PROVE Inv'
    <2>1. UNCHANGED <<seq, comm>> /\ Handling' = Handling
      BY <1>6 DEF ReplyShell, cells, Handling
    <2>2. ModeOK' /\ PackOK' /\ SeqOK'
      BY <1>1, StillFront DEF Inv, ModeOK, PackOK, SeqOK, Sending
    <2>3. acked' # acked => front["shell"].to # All
      BY <1>6, DestAssumption DEF ReplyShell, TypeInv, TypeOK, Request
    <2>4. AnswerOK'
      <3> SUFFICES ASSUME NEW g \in FrontEnds, Alone(g)', Working(g)'
                   PROVE  /\ \A c \in (fresh \ late)' :
                               /\ c \in acked' <=> comm'[c] = STAT \/ c \in Handling'
                               /\ seq'[c] # 0 => c \in asked'
                          /\ g = "shell" /\ front'[g].to # All => fresh' = {}
        BY DEF AnswerOK
      <3>1. g = "shell"
        BY <1>6, StillFront, <1>1 DEF Inv, PackOK, ReplyShell
      <3> QED BY <1>1, <2>1, <2>3, <3>1, StillFront DEF Inv, AnswerOK
    <2> QED BY <2>2, <2>4 DEF Inv
  <1>7. CASE ReplyClear
    BY <1>7, ClearInv
  <1>8. CASE ReplyUnlock
    <2>1. UNCHANGED <<seq, comm, acked>> /\ Handling' = {} /\ Handling = {}
      BY <1>8 DEF ReplyUnlock, Handling, Idle, cells, history
    <2> QED BY <1>4, <2>1
  <1>9. CASE ReplyReset
    BY <1>9, ResetInv
  <1> QED BY <1>2, <1>3, <1>5, <1>6, <1>7, <1>8, <1>9 DEF CommandParseProcess

LEMMA InvInit == Init => Inv
  <1> SUFFICES ASSUME Init PROVE Inv
    OBVIOUS
  <1>1. \A f \in FrontEnds : front[f] = Idle /\ flag[f] = {}
    BY DEF Init
  <1>2. ~Sending
    BY DEF Init, Sending, Idle
  <1> QED BY <1>1, <1>2 DEF Init, Inv, ModeOK, PackOK, SeqOK, AnswerOK, Alone, Is, Idle

LEMMA InvStep == TypeInv /\ Inv /\ [Next]_vars => Inv'
  <1> SUFFICES ASSUME TypeInv, Inv, [Next]_vars PROVE Inv'
    OBVIOUS
  <1>1. ASSUME NEW f \in FrontEnds, NEW j \in Kinds, NEW t \in Dest, Begin(f, j, t)
        PROVE  Inv'
    BY <1>1, BeginInv
  <1>2. ASSUME NEW f \in FrontEnds, FrontEnd(f)
        PROVE  Inv'
    BY <1>2, MarkInv, NumberInv, FlagInv, ReportInv, PlainInv, EndInv DEF FrontEnd
  <1>3. CASE CommandPackProcess
    BY <1>3, TakeInv, SendAllInv, SendSingleInv DEF CommandPackProcess
  <1>4. CASE CommandParseProcess
    BY <1>4, ReplyInv
  <1>5. ASSUME NEW c \in Cells, Switch(c)
        PROVE  Inv'
    <2>1. UNCHANGED <<comm, seq, last, src, mode, flag, front, pack, parse, sent,
                      overlap, fresh, late, asked, acked>>
      BY <1>5 DEF Switch, buffers, flags, history
    <2> QED BY <2>1, StillFront DEF Inv, ModeOK, PackOK, SeqOK, AnswerOK, Handling, Sending
  <1>6. CASE UNCHANGED vars
    <2>1. UNCHANGED <<comm, seq, last, src, mode, flag, front, pack, parse, sent,
                      overlap, fresh, late, asked, acked>>
      BY <1>6 DEF vars, cells, buffers, flags, history
    <2> QED BY <2>1, StillFront DEF Inv, ModeOK, PackOK, SeqOK, AnswerOK, Handling, Sending
  <1> QED BY <1>1, <1>2, <1>3, <1>4, <1>5, <1>6 DEF Next

\* A report is exact for any number of cells, users and commands: when no other
\* command was under way, a cell that owed no earlier reply, nor had one half
\* handled when it was marked, is reported as set if and only if it answered this
\* command, however datagrams are lost, duplicated, delayed and reordered.
THEOREM ReportExact == Spec => []ReportIsExact
  <1>1. TypeInv /\ Inv => ReportIsExact
    <2> SUFFICES ASSUME TypeInv, Inv, NEW f \in FrontEnds, Is(f, "report"), ~overlap,
                        NEW c \in fresh \ late
                 PROVE  c \in acked <=> comm[c] = STAT \/ c \in Handling
      BY DEF ReportIsExact
    <2>1. Alone(f) /\ Working(f)
      BY BusyAt DEF Alone, Working, Is, At, TypeInv
    <2> QED BY <2>1 DEF Inv, AnswerOK
  <1> QED BY TypeInit, TypeStep, InvInit, InvStep, <1>1, PTL DEF Spec
-----------------------------------------------------------------------------
(***************************************************************************)
(* A single command of the shell. AnsweredNotFailed needs that the cell's  *)
(* answer reaches the shell through recvFlag only: its request, the only   *)
(* one with the command's number, does not have the head of a mass         *)
(* command, which would be answered behind the shell's back.               *)
(***************************************************************************)

SeqBound ==
  /\ \A m \in sent : m.seq <= last
  /\ \A j \in Kinds : src[j] <= last

MassOK ==
  \A f \in FrontEnds : mass[f] =>
    front[f].at \in {"mark", "number", "flag", "wait", "count", "off"} /\ front[f].to = All

SaidOK == said = "failed" => Is("shell", "done")

\* Nothing has been sent for the shell's command yet.
Quiet == flag["shell"] = {} /\ ~Sending /\ asked = {} /\ acked = {}

\* The requests with the number of the shell's command are its own.
Own ==
  /\ \A m \in sent : m.seq = src[front["shell"].kind] => m.head = "user"
  /\ \A c \in asked : seq[c] \in {0, src[front["shell"].kind]}

SingleOK ==
  Alone("shell") /\ front["shell"].to # All =>
    /\ \/ front["shell"].at \in {"begin", "mark", "number", "flag", "done"} /\ Quiet
       \/ front["shell"].at \in {"wait", "done"} /\ Own
    /\ Is("shell", "flag") => \A m \in sent : m.seq # last
    /\ Is("shell", "wait") /\ front["shell"].to \in acked => \E k \in Slots : recvFlag[k]
    /\ Is("shell", "done") /\ said = "failed" => front["shell"].to \notin acked

Single == SeqBound /\ MassOK /\ SaidOK /\ SingleOK

LEMMA ShellIsFront == "shell" \in FrontEnds /\ Other("shell") = "monitor" /\ Other("monitor") = "shell"
  BY DEF FrontEnds, Other

LEMMA BeginSingle ==
  ASSUME TypeInv, Inv, Single, NEW f \in FrontEnds, NEW j \in Kinds, NEW t \in Dest, Begin(f, j, t)
  PROVE  Single'
  <1>1. /\ front'[f].at = "begin" /\ front'[f].to = t /\ front[f] = Idle /\ front'[f] # Idle
        /\ front'[Other(f)] = front[Other(f)]
        /\ UNCHANGED <<seq, last, src, flag, mass, pack, parse, sent, said>>
        /\ overlap' = (front[Other(f)] # Idle \/ flag[f] # {} \/ Sending)
        /\ asked' = {} /\ acked' = {}
    BY OtherFront DEF Begin, TypeInv, TypeOK, Idle, cells
  <1>2. ~mass[f] /\ ~Is(f, "done")
    BY <1>1 DEF Single, MassOK, Idle, Is
  <1>3. SeqBound'
    BY <1>1 DEF Single, SeqBound
  <1>4. MassOK'
    <2>1. ASSUME NEW g \in FrontEnds, mass'[g] PROVE g = Other(f) /\ mass[g]
      BY <1>1, <1>2, <2>1, OtherFront
    <2>2. QED BY <1>1, <2>1 DEF Single, MassOK
  <1>5. SaidOK'
    BY <1>1, <1>2, OtherFront, ShellIsFront DEF Single, SaidOK, Is
  <1>6. SingleOK'
    <2>1. ASSUME Alone("shell")' PROVE f = "shell" /\ flag[f] = {} /\ ~Sending
      BY <1>1, <2>1, OtherFront, ShellIsFront DEF Alone
    <2>2. ASSUME Alone("shell")' PROVE Quiet' /\ front'["shell"].at = "begin"
      BY <1>1, <2>1, <2>2 DEF Quiet, Sending
    <2>3. QED BY <2>2 DEF SingleOK, Is
  <1>7. QED BY <1>3, <1>4, <1>5, <1>6 DEF Single

\* A front end that goes on keeps MassOK if its flag stays or is given up.
LEMMA MassKept ==
  ASSUME MassOK, NEW f \in FrontEnds, front'[Other(f)] = front[Other(f)],
         mass'[Other(f)] = mass[Other(f)],
         mass'[f] => /\ front'[f].at \in {"mark", "number", "flag", "wait", "count", "off"}
                     /\ front'[f].to = All
  PROVE  MassOK'
  <1>1. ASSUME NEW g \in FrontEnds, mass'[g]
        PROVE  /\ front'[g].at \in {"mark", "number", "flag", "wait", "count", "off"}
               /\ front'[g].to = All
    <2>1. CASE g = f
      BY <1>1, <2>1
    <2>2. CASE g = Other(f)
      BY <1>1, <2>2 DEF MassOK
    <2>3. QED BY <2>1, <2>2, OtherFront
  <1>2. QED BY <1>1 DEF MassOK

LEMMA PlainSingle ==
  ASSUME TypeInv, Inv, Single, NEW f \in FrontEnds,
         \/ Refuse(f) \/ SetMass(f) \/ (f = "monitor" /\ Count) \/ WaitOver(f) \/ MassOff(f)
         \/ f = "shell" /\ (PollTimeout \/ \E k \in Slots : Polled(k))
  PROVE  Single'
  <1>1. /\ UNCHANGED <<cells, buffers, mode, flag, locks, pack, parse, sent, history>>
        /\ front[f] # Idle /\ front'[f] # Idle
        /\ front'[f].kind = front[f].kind /\ front'[f].to = front[f].to
        /\ front'[Other(f)] = front[Other(f)]
    BY PlainStep
  <1>2. UNCHANGED <<seq, last, src, flag, pack, parse, sent, overlap, asked, acked>>
    BY <1>1 DEF cells, buffers, history
  <1>3. SeqBound'
    BY <1>2 DEF Single, SeqBound
  <1>4. ASSUME NEW a \in At, Goto(f, a) PROVE front'[f].at = a
    BY <1>1, <1>4, GotoType DEF TypeInv
  <1>5. /\ Refuse(f) => front[f].at = "begin" /\ front'[f].at = "done" /\ UNCHANGED <<mass, recvFlag, said>>
        /\ SetMass(f) => /\ front[f].at = "begin" /\ front'[f].at = "mark"
                         /\ mass' = [mass EXCEPT ![f] = (front[f].to = All)]
                         /\ UNCHANGED <<recvFlag, said>>
        /\ f = "monitor" /\ Count => /\ front[f].at = "wait" /\ front'[f].at = "count"
                                     /\ UNCHANGED <<mass, recvFlag, said>>
        /\ WaitOver(f) => /\ front'[f].at = "off" /\ UNCHANGED <<mass, recvFlag, said>>
                          /\ front[f].at \in {"wait", "count"} /\ (f = "shell" => mass[f])
        /\ MassOff(f) => /\ front[f].at = "off" /\ front'[f].at = "report"
                         /\ mass' = [mass EXCEPT ![f] = FALSE] /\ UNCHANGED <<recvFlag, said>>
    BY <1>4 DEF Refuse, SetMass, Count, WaitOver, MassOff, Is, flags, At
  <1>6. /\ f = "shell" /\ PollTimeout =>
             /\ front[f].at = "wait" /\ front'[f].at = "done" /\ ~mass[f] /\ mass' = mass
             /\ \A k \in Slots : ~recvFlag[k]
        /\ f = "shell" /\ (\E k \in Slots : Polled(k)) =>
             /\ front[f].at = "wait" /\ front'[f].at = "done" /\ ~mass[f] /\ mass' = mass
             /\ said' = "success"
    BY <1>4 DEF PollTimeout, Polled, Is, flags, At
  <1>7. mass[f] => /\ front[f].at \in {"mark", "number", "flag", "wait", "count", "off"}
                   /\ front[f].to = All
    BY DEF Single, MassOK
  <1>8. mass \in [FrontEnds -> BOOLEAN] /\ mass'[Other(f)] = mass[Other(f)]
    BY <1>5, <1>6, OtherFront DEF TypeInv, TypeOK
  <1>9. MassOK'
    <2>1. mass'[f] => /\ front'[f].at \in {"mark", "number", "flag", "wait", "count", "off"}
                      /\ front'[f].to = All
      BY <1>1, <1>5, <1>6, <1>7, <1>8
    <2>2. QED BY <1>1, <1>8, <2>1, MassKept DEF Single
  <1>10. SaidOK'
    <2>1. CASE f = "shell"
      <3>1. said = "failed" => front[f].at = "done"
        BY <2>1 DEF Single, SaidOK, Is
      <3>2. QED BY <1>5, <1>6, <2>1, <3>1 DEF SaidOK, Is
    <2>2. CASE f = "monitor"
      BY <1>1, <1>5, <2>2, ShellIsFront DEF Single, SaidOK, Is
    <2>3. QED BY <2>1, <2>2 DEF FrontEnds
  <1>11. SingleOK'
    <2> SUFFICES ASSUME Alone("shell")', front'["shell"].to # All
                 PROVE  /\ \/ front'["shell"].at \in {"begin", "mark", "number", "flag", "done"} /\ Quiet'
                           \/ front'["shell"].at \in {"wait", "done"} /\ Own'
                        /\ front'["shell"].at # "flag"
                        /\ front'["shell"].at # "wait"
                        /\ Is("shell", "done")' /\ said' = "failed" => front'["shell"].to \notin acked'
      BY DEF SingleOK, Is
    <2>1. f = "shell" /\ Alone("shell") /\ front["shell"].to # All
      BY <1>1, <1>2, OnlyAlone, ShellIsFront DEF Inv
    <2>2. ~mass[f]
      BY <1>7, <2>1
    <2>3. (Quiet' <=> Quiet) /\ (Own' <=> Own)
      BY <1>1, <1>2, <2>1 DEF Quiet, Own, Sending
    <2>4. /\ \/ front["shell"].at \in {"begin", "mark", "number", "flag", "done"} /\ Quiet
             \/ front["shell"].at \in {"wait", "done"} /\ Own
          /\ front["shell"].at = "wait" /\ front["shell"].to \in acked => \E k \in Slots : recvFlag[k]
      BY <2>1 DEF Single, SingleOK, Is
    <2>5. said = "failed" => front["shell"].at = "done"
      BY DEF Single, SaidOK, Is
    <2>6. CASE Refuse(f)
      BY <1>2, <1>5, <2>1, <2>3, <2>4, <2>5, <2>6
    <2>7. CASE SetMass(f)
      BY <1>5, <2>1, <2>3, <2>4, <2>7 DEF Is
    <2>8. CASE WaitOver(f) \/ MassOff(f)
      BY <1>5, <2>1, <2>2, <2>4, <2>8
    <2>9. CASE PollTimeout \/ \E k \in Slots : Polled(k)
      BY <1>1, <1>2, <1>6, <2>1, <2>3, <2>4, <2>9
    <2>10. QED BY <2>1, <2>6, <2>7, <2>8, <2>9
  <1>12. QED BY <1>3, <1>9, <1>10, <1>11 DEF Single

LEMMA MarkSingle ==
  ASSUME TypeInv, Inv, Single, NEW f \in FrontEnds, Mark(f)
  PROVE  Single'
  <1>1. front[f] # Idle /\ Goto(f, "number") /\ "number" \in At /\ Is(f, "mark")
    BY BusyAt DEF Mark, At, TypeInv
  <1>2. /\ front'[f].at = "number" /\ front'[f].to = front[f].to
        /\ front'[Other(f)] = front[Other(f)]
    BY <1>1, GotoType DEF TypeInv
  <1>3. /\ UNCHANGED <<seq, last, src, flag, mass, pack, parse, sent, said, overlap, recvFlag>>
        /\ asked' = {} /\ acked' = {}
    BY DEF Mark, flags
  <1>4. SeqBound' /\ MassOK'
    BY <1>2, <1>3, MassKept DEF Single, SeqBound, MassOK
  <1>5. SaidOK'
    BY <1>1, <1>2, <1>3, OtherFront, ShellIsFront DEF Single, SaidOK, Is
  <1>6. SingleOK'
    <2>1. ASSUME Alone("shell")', front'["shell"].to # All
          PROVE  Quiet' /\ front'["shell"].at = "number"
      <3>1. f = "shell" /\ Alone("shell") /\ front["shell"].to # All
        BY <1>1, <1>2, <1>3, <2>1, OnlyAlone, ShellIsFront DEF Inv
      <3>2. Quiet
        BY <1>1, <3>1 DEF Single, SingleOK, Is
      <3>3. QED BY <1>2, <1>3, <3>1, <3>2 DEF Quiet, Sending
    <2>2. QED BY <2>1 DEF SingleOK, Is
  <1>7. QED BY <1>4, <1>5, <1>6 DEF Single

\* The number of a command is new.
LEMMA NumberSingle ==
  ASSUME TypeInv, Inv, Single, NEW f \in FrontEnds, Number(f)
  PROVE  Single'
  <1>1. front[f] # Idle /\ Goto(f, "flag") /\ "flag" \in At /\ Is(f, "number")
    BY BusyAt DEF Number, At, TypeInv
  <1>2. /\ front'[f].at = "flag" /\ front'[f].to = front[f].to
        /\ front'[Other(f)] = front[Other(f)]
    BY <1>1, GotoType DEF TypeInv
  <1>3. /\ UNCHANGED <<seq, src, flag, mass, pack, parse, sent, said, overlap, asked, acked>>
        /\ last' = last + 1 /\ last \in Nat
    BY MaxSeqAssumption DEF Number, flags, cells, history, TypeInv, TypeOK, Seqs
  <1>4. \A m \in sent : m.seq <= last /\ m.seq \in Nat
    BY MaxSeqAssumption DEF Single, SeqBound, TypeInv, TypeOK, Request, Seqs
  <1>5. \A j \in Kinds : src[j] <= last /\ src[j] \in Nat
    BY MaxSeqAssumption DEF Single, SeqBound, TypeInv, TypeOK, Seqs
  <1>6. SeqBound'
    BY <1>3, <1>4, <1>5 DEF SeqBound
  <1>7. MassOK'
    BY <1>2, <1>3, MassKept DEF Single, MassOK
  <1>8. SaidOK'
    BY <1>1, <1>2, <1>3, OtherFront, ShellIsFront DEF Single, SaidOK, Is
  <1>9. SingleOK'
    <2>1. ASSUME Alone("shell")', front'["shell"].to # All
          PROVE  Quiet' /\ front'["shell"].at = "flag"
      <3>1. f = "shell" /\ Alone("shell") /\ front["shell"].to # All
        BY <1>1, <1>2, <1>3, <2>1, OnlyAlone, ShellIsFront DEF Inv
      <3>2. Quiet
        BY <1>1, <3>1 DEF Single, SingleOK, Is
      <3>3. QED BY <1>2, <1>3, <3>1, <3>2 DEF Quiet, Sending
    <2>2. \A m \in sent' : m.seq # last'
      BY <1>3, <1>4
    <2>3. QED BY <2>1, <2>2 DEF SingleOK, Is
  <1>10. QED BY <1>6, <1>7, <1>8, <1>9 DEF Single

LEMMA FlagSingle ==
  ASSUME TypeInv, Inv, Single, NEW f \in FrontEnds, Flag(f)
  PROVE  Single'
  <1>1. front[f] # Idle /\ Goto(f, "wait") /\ "wait" \in At /\ Is(f, "flag")
    BY BusyAt DEF Flag, At, TypeInv
  <1>2. /\ front'[f].at = "wait" /\ front'[f].to = front[f].to
        /\ front'[f].kind = front[f].kind /\ front[f].kind \in Kinds
        /\ front'[Other(f)] = front[Other(f)]
    BY <1>1, GotoType DEF TypeInv, Busy
  <1>3. /\ UNCHANGED <<seq, last, mass, pack, parse, sent, said, overlap, asked, acked>>
        /\ src' = [src EXCEPT ![front[f].kind] = last]
    BY DEF Flag, cells, history
  <1>4. SeqBound'
    <2>1. \A j \in Kinds : src'[j] = IF j = front[f].kind THEN last ELSE src[j]
      BY <1>3 DEF TypeInv, TypeOK
    <2>2. last <= last
      BY MaxSeqAssumption DEF TypeInv, TypeOK, Seqs
    <2>3. QED BY <1>3, <2>1, <2>2 DEF Single, SeqBound
  <1>5. MassOK'
    BY <1>2, <1>3, MassKept DEF Single, MassOK
  <1>6. SaidOK'
    BY <1>1, <1>2, <1>3, OtherFront, ShellIsFront DEF Single, SaidOK, Is
  <1>7. SingleOK'
    <2>1. ASSUME Alone("shell")', front'["shell"].to # All
          PROVE  Own' /\ front'["shell"].at = "wait" /\ acked' = {}
      <3>1. f = "shell" /\ Alone("shell") /\ front["shell"].to # All
        BY <1>1, <1>2, <1>3, <2>1, OnlyAlone, ShellIsFront DEF Inv
      <3>2. Quiet /\ \A m \in sent : m.seq # last
        BY <1>1, <3>1 DEF Single, SingleOK, Is
      <3>3. src'[front'["shell"].kind] = last
        BY <1>2, <1>3, <3>1 DEF TypeInv, TypeOK
      <3>4. QED BY <1>2, <1>3, <3>1, <3>2, <3>3 DEF Quiet, Own
    <2>2. QED BY <2>1 DEF SingleOK, Is
  <1>8. QED BY <1>4, <1>5, <1>6, <1>7 DEF Single

\* The report is of a mass command, or the monitor's.
LEMMA ReportSingle ==
  ASSUME TypeInv, Inv, Single, NEW f \in FrontEnds, Report(f)
  PROVE  Single'
  <1>1. front[f] # Idle /\ Goto(f, "done") /\ "done" \in At /\ Is(f, "report")
    BY BusyAt DEF Report, At, TypeInv
  <1>2. /\ front'[f].at = "done" /\ front'[f].to = front[f].to
        /\ front'[Other(f)] = front[Other(f)]
    BY <1>1, GotoType DEF TypeInv
  <1>3. UNCHANGED <<last, src, mass, sent, said, overlap>>
    BY DEF Report, buffers, flags, history
  <1>4. ~mass[f]
    BY <1>1 DEF Single, MassOK, Is
  <1>5. SeqBound' /\ MassOK'
    BY <1>2, <1>3, <1>4, MassKept DEF Single, SeqBound
  <1>6. SaidOK'
    BY <1>1, <1>2, <1>3, OtherFront, ShellIsFront DEF Single, SaidOK, Is
  <1>7. SingleOK'
    <2>1. ASSUME Alone("shell")', front'["shell"].to # All PROVE FALSE
      <3>1. f = "shell" /\ Alone("shell") /\ front["shell"].to # All
        BY <1>1, <1>2, <1>3, <2>1, OnlyAlone, ShellIsFront DEF Inv
      <3>2. QED BY <1>1, <3>1 DEF Single, SingleOK, Is
    <2>2. QED BY <2>1 DEF SingleOK
  <1>8. QED BY <1>5, <1>6, <1>7 DEF Single

LEMMA EndSingle ==
  ASSUME TypeInv, Inv, Single, NEW f \in FrontEnds, End(f)
  PROVE  Single'
  <1>1. /\ front[f] # Idle /\ front'[f] = Idle /\ Is(f, "done")
        /\ front'[Other(f)] = front[Other(f)]
    BY EndType, BusyAt DEF End, At, TypeInv
  <1>2. /\ UNCHANGED <<last, src, mass, sent>> /\ said' = "nothing"
        /\ overlap' = (overlap /\ front[Other(f)] # Idle)
    BY DEF End, buffers
  <1>3. ~Alone("shell")'
    <2>1. ASSUME Alone("shell")' PROVE FALSE
      <3>1. f = "monitor" /\ front["shell"] # Idle /\ ~overlap'
        BY <1>1, <2>1, OtherFront, ShellIsFront DEF Alone
      <3>2. ~overlap
        BY <1>2, <3>1, ShellIsFront
      <3>3. Alone("shell")
        BY <3>1, <3>2 DEF Alone
      <3>4. QED BY <1>1, <3>1, <3>3, ShellIsFront DEF Inv, PackOK
    <2>2. QED BY <2>1
  <1>4. ~mass[f]
    BY <1>1 DEF Single, MassOK, Is
  <1>5. SeqBound' /\ MassOK'
    BY <1>1, <1>2, <1>4, MassKept DEF Single, SeqBound
  <1>6. QED BY <1>2, <1>3, <1>5 DEF Single, SaidOK, SingleOK

\* The front ends stay where they are, and no request is sent.
LEMMA StillSingle ==
  ASSUME Single, UNCHANGED <<front, overlap, mass, said, last, src, sent>>,
         Quiet /\ ~Is("shell", "wait") /\ Alone("shell") /\ front["shell"].to # All => Quiet',
         Own /\ Alone("shell") /\ front["shell"].to # All => Own',
         Is("shell", "wait") /\ Alone("shell") /\ front["shell"].to # All
           /\ front["shell"].to \in acked' => front["shell"].to \in acked \/ \E k \in Slots : recvFlag'[k],
         \A k \in Slots : recvFlag[k] => recvFlag'[k],
         ~Is("shell", "wait") /\ Alone("shell") /\ front["shell"].to # All => acked' = acked
  PROVE  Single'
  <1>1. SeqBound' /\ MassOK' /\ SaidOK'
    BY DEF Single, SeqBound, MassOK, SaidOK, Is
  <1>2. SingleOK'
    <2> SUFFICES ASSUME Alone("shell")', front'["shell"].to # All
                 PROVE  /\ \/ front["shell"].at \in {"begin", "mark", "number", "flag", "done"} /\ Quiet'
                           \/ front["shell"].at \in {"wait", "done"} /\ Own'
                        /\ Is("shell", "flag") => \A m \in sent' : m.seq # last'
                        /\ Is("shell", "wait") /\ front["shell"].to \in acked' => \E k \in Slots : recvFlag'[k]
                        /\ Is("shell", "done") /\ said = "failed" => front["shell"].to \notin acked'
      BY DEF SingleOK, Is
    <2>1. Alone("shell") /\ front["shell"].to # All
      BY DEF Alone
    <2>2. /\ \/ front["shell"].at \in {"begin", "mark", "number", "flag", "done"} /\ Quiet
             \/ front["shell"].at \in {"wait", "done"} /\ Own
          /\ Is("shell", "flag") => \A m \in sent : m.seq # last
          /\ Is("shell", "wait") /\ front["shell"].to \in acked => \E k \in Slots : recvFlag[k]
          /\ Is("shell", "done") /\ said = "failed" => front["shell"].to \notin acked
      BY <2>1 DEF Single, SingleOK
    <2>3. (Is("shell", "done") \/ Is("shell", "flag")) => ~Is("shell", "wait")
      BY DEF Is
    <2>4. CASE Is("shell", "wait")
      BY <2>1, <2>2, <2>3, <2>4 DEF Is
    <2>5. CASE ~Is("shell", "wait")
      BY <2>1, <2>2, <2>5
    <2>6. QED BY <2>4, <2>5
  <1>3. QED BY <1>1, <1>2 DEF Single

LEMMA TakeSingle ==
  ASSUME TypeInv, Inv, Single,
         PackStat \/ (\E f \in FrontEnds, j \in Kinds : PackTake(f, j)) \/ PackRemLock \/ PackRelock
  PROVE  Single'
  <1>1. UNCHANGED <<seq, last, src, mass, front, sent, overlap, said, recvFlag, asked, acked>>
    BY TakeType DEF cells, buffers, history
  <1>2. Quiet /\ Alone("shell") => Quiet'
    <2>1. CASE PackStat
      BY <1>1, <2>1 DEF PackStat, Quiet, Sending, flags
    <2>2. CASE \E f \in FrontEnds, j \in Kinds : PackTake(f, j)
      <3>1. PICK f \in FrontEnds, j \in Kinds : PackTake(f, j)
        BY <2>2
      <3>2. mode = f /\ j \in flag[f]
        BY <3>1 DEF PackTake
      <3>3. Alone("shell") => mode = "shell"
        BY ShellIsFront DEF Inv, PackOK
      <3>4. QED BY <3>2, <3>3 DEF Quiet
    <2>3. CASE PackRemLock
      <3>1. flag' = flag /\ pack'.by = pack.by /\ pack.at = "take"
        BY <2>3, PackBusy DEF PackRemLock, flags, Packing, TypeInv
      <3>2. QED BY <1>1, <3>1 DEF Quiet, Sending
    <2>4. CASE PackRelock
      BY <1>1, <2>4 DEF PackRelock, Quiet, Sending, flags
    <2>5. QED BY <2>1, <2>2, <2>3, <2>4
  <1>3. Own => Own'
    BY <1>1 DEF Own
  <1>4. QED BY <1>1, <1>2, <1>3, StillSingle

\* The shell's single command is sent with the head of a user's.
LEMMA SendSingleOK ==
  ASSUME TypeInv, Inv, Single, pack.at = "send", pack' = Idle,
         UNCHANGED <<src, last, mass, flag, front, overlap, acked, said, recvFlag>>,
         \/ UNCHANGED <<seq, sent, asked>>
         \/ /\ pack.by # "stat"
            /\ \E to \in SUBSET Cells : \E ok \in SUBSET to :
                 seq' = Packed(to) /\ sent' = sent \cup Requests(ok) /\ NoteAsked(to)
  PROVE  Single'
  <1>1. ~Sending'
    BY DEF Sending, Idle
  <1>2. CASE UNCHANGED <<seq, sent, asked>>
    BY <1>1, <1>2, StillSingle DEF Quiet, Own
  <1>3. CASE /\ pack.by # "stat"
             /\ \E to \in SUBSET Cells : \E ok \in SUBSET to :
                  seq' = Packed(to) /\ sent' = sent \cup Requests(ok) /\ NoteAsked(to)
    <2>0. PICK to \in SUBSET Cells : \E ok \in SUBSET to :
            seq' = Packed(to) /\ sent' = sent \cup Requests(ok) /\ NoteAsked(to)
      BY <1>3
    <2>1. PICK ok \in SUBSET to :
            seq' = Packed(to) /\ sent' = sent \cup Requests(ok) /\ NoteAsked(to)
      BY <2>0
    <2>2. Sending /\ pack.kind \in Kinds
      BY <1>3, PackBusy DEF Sending, TypeInv
    <2>3. SeqBound' /\ MassOK' /\ SaidOK'
      <3>1. \A m \in sent' : m \in sent \/ m.seq = src[pack.kind]
        BY <2>1 DEF Requests
      <3>2. QED BY <2>2, <3>1 DEF Single, SeqBound, MassOK, SaidOK, Is
    <2>4. ASSUME Alone("shell"), front["shell"].to # All
          PROVE  SingleOK'
      <3>1. pack.kind = front["shell"].kind /\ front["monitor"] = Idle
        BY <2>2, <2>4, ShellIsFront DEF Inv, PackOK
      <3>2. \A f \in FrontEnds : ~mass[f]
        BY <2>4, <3>1 DEF Single, MassOK, FrontEnds, Idle
      <3>3. \A m \in sent' : m \in sent \/ m.head = "user"
        BY <2>1, <3>2 DEF Requests
      <3>4. Own
        BY <2>2, <2>4 DEF Single, SingleOK, Quiet
      <3>5. asked' \subseteq asked \cup to /\ asked \subseteq Cells
        BY <2>1 DEF NoteAsked, TypeInv, TypeOK
      <3>6. \A c \in Cells : seq'[c] = IF c \in to THEN src[pack.kind] ELSE seq[c]
        BY <2>1 DEF Packed
      <3>7. Own'
        BY <3>1, <3>3, <3>4, <3>5, <3>6 DEF Own
      <3>8. front["shell"].at \in {"wait", "done"}
        BY <2>2, <2>4 DEF Single, SingleOK, Quiet
      <3>9. QED BY <2>4, <3>7, <3>8 DEF Single, SingleOK, Is
    <2>5. SingleOK'
      BY <2>4 DEF SingleOK, Alone
    <2>6. QED BY <2>3, <2>5 DEF Single
  <1>4. QED BY <1>2, <1>3

LEMMA SendAllSingle ==
  ASSUME TypeInv, Inv, Single, PackSendAll
  PROVE  Single'
  <1>1. /\ pack.at = "send"
        /\ UNCHANGED <<src, last, mass, flag, front, overlap, acked, said, recvFlag>>
    BY DEF PackSendAll, buffers, flags
  <1>2. pack' = Idle
    BY DEF PackSendAll, Sent
  <1>3. CASE pack.by = "stat"
    BY <1>1, <1>2, <1>3, SendSingleOK DEF PackSendAll
  <1>4. CASE pack.by # "stat"
    <2> DEFINE to == { c \in Cells : online[c] /\ comm[c] = pack.kind }
    <2>1. PICK ok \in SUBSET to : seq' = Packed(to) /\ sent' = sent \cup Requests(ok) /\ NoteAsked(to)
      BY <1>4 DEF PackSendAll
    <2>2. to \in SUBSET Cells
      OBVIOUS
    <2> HIDE DEF to
    <2> QED BY <1>1, <1>2, <1>4, <2>1, <2>2, SendSingleOK
  <1> QED BY <1>3, <1>4

LEMMA SendOneSingle ==
  ASSUME TypeInv, Inv, Single, PackSendSingle
  PROVE  Single'
  <1>1. /\ pack.at = "send" /\ pack.by # "stat"
        /\ UNCHANGED <<src, last, mass, flag, front, overlap, acked, said, recvFlag>>
    BY PackBusy DEF PackSendSingle, flags, TypeInv
  <1>2. pack' = Idle
    BY DEF PackSendSingle, Sent
  <1>3. CASE pack.by = "monitor" /\ part = Nobody
    BY <1>1, <1>2, <1>3, SendSingleOK DEF PackSendSingle
  <1>4. CASE ~(pack.by = "monitor" /\ part = Nobody)
    <2> DEFINE to == {target'[pack.kind]} \cap Cells
    <2>1. PICK ok \in SUBSET to : seq' = Packed(to) /\ sent' = sent \cup Requests(ok) /\ NoteAsked(to)
      BY <1>4 DEF PackSendSingle
    <2>2. to \in SUBSET Cells
      OBVIOUS
    <2> HIDE DEF to
    <2> QED BY <1>1, <1>2, <2>1, <2>2, SendSingleOK
  <1> QED BY <1>3, <1>4

\* No reply to a mass command's request clears a cell behind the shell's back.
LEMMA ReplySingle ==
  ASSUME TypeInv, Inv, Single, CommandParseProcess
  PROVE  Single'
  <1>1. UNCHANGED <<last, src, mass, flag, front, pack, sent, said, overlap, asked>>
    BY DEF CommandParseProcess, ReplyInitall, ReplyShell, ReplyMonitor, ReplyReset, ReplyClear,
           ReplyUnlock, buffers, flags, history
  <1>2. asked \subseteq Cells /\ \A m \in sent : m.seq # 0 /\ m.cell \in Cells
    BY DEF Inv, SeqOK, TypeInv, TypeOK, Request
  <1>3. ASSUME NEW m \in sent, ReplyInitall(m) PROVE Single'
    <2>1. /\ m.head = "initall" /\ seq[m.cell] = m.seq /\ recvFlag' = recvFlag
          /\ acked' = acked \cup ({m.cell} \cap asked)
          /\ \A c \in Cells : seq'[c] \in {0, seq[c]}
      BY <1>2, <1>3, ResetType DEF ReplyInitall, Match, TypeInv
    <2>2. Quiet => Quiet'
      BY <1>1, <1>2, <2>1 DEF Quiet, Sending
    <2>3. Own => Own'
      BY <1>1, <1>2, <2>1 DEF Own
    <2>4. Own \/ Quiet => acked' = acked
      BY <1>2, <2>1 DEF Own, Quiet
    <2>5. Alone("shell") /\ front["shell"].to # All => Own \/ Quiet
      BY DEF Single, SingleOK
    <2>6. QED BY <1>1, <2>1, <2>2, <2>3, <2>4, <2>5, StillSingle
  <1>4. ASSUME NEW m \in sent, ReplyMonitor(m) PROVE Single'
    <2>1. ~Alone("shell") /\ recvFlag' = recvFlag
      BY <1>4, ShellIsFront DEF ReplyMonitor, Inv, PackOK
    <2>2. QED BY <1>1, <2>1, StillSingle
  <1>5. ASSUME NEW m \in sent, ReplyShell(m) PROVE Single'
    <2>1. /\ seq' = seq
          /\ \A k \in Slots : recvFlag'[k] <=> recvFlag[k] \/ userSeq[k] = m.seq
      BY <1>5 DEF ReplyShell, cells
    <2>2. acked' = acked \/ (Is("shell", "wait") /\ \E k \in Slots : userSeq[k] = m.seq)
      BY <1>5 DEF ReplyShell
    <2>3. Own => Own'
      BY <1>1, <2>1 DEF Own
    <2>4. Quiet /\ ~Is("shell", "wait") => Quiet'
      BY <1>1, <2>1, <2>2 DEF Quiet, Sending
    <2>5. QED BY <1>1, <2>1, <2>2, <2>3, <2>4, StillSingle
  <1>6. CASE ReplyClear \/ ReplyUnlock
    <2>1. UNCHANGED <<seq, recvFlag, acked>>
      BY <1>6 DEF ReplyClear, ReplyUnlock, cells, history
    <2>2. QED BY <1>1, <2>1, StillSingle DEF Quiet, Own, Sending
  <1>7. CASE ReplyReset
    <2>1. /\ UNCHANGED <<recvFlag, acked>>
          /\ \A c \in Cells : seq'[c] \in {0, seq[c]}
      BY <1>7, ParseBusy, ResetType DEF ReplyReset, history, TypeInv
    <2>2. QED BY <1>1, <1>2, <2>1, StillSingle DEF Quiet, Own, Sending
  <1>8. QED BY <1>3, <1>4, <1>5, <1>6, <1>7 DEF CommandParseProcess

LEMMA SingleInit == Init => Single
  <1> SUFFICES ASSUME Init PROVE Single
    OBVIOUS
  <1>1. /\ front["shell"] = Idle /\ said = "nothing" /\ sent = {} /\ last = 0
        /\ \A j \in Kinds : src[j] = 0
        /\ \A f \in FrontEnds : ~mass[f]
    BY ShellIsFront DEF Init
  <1> QED BY <1>1 DEF Single, SeqBound, MassOK, SaidOK, SingleOK, Alone

LEMMA SingleStep == TypeInv /\ Inv /\ Single /\ [Next]_vars => Single'
  <1> SUFFICES ASSUME TypeInv, Inv, Single, [Next]_vars PROVE Single'
    OBVIOUS
  <1>1. ASSUME NEW f \in FrontEnds, NEW j \in Kinds, NEW t \in Dest, Begin(f, j, t)
        PROVE  Single'
    BY <1>1, BeginSingle
  <1>2. ASSUME NEW f \in FrontEnds, FrontEnd(f)
        PROVE  Single'
    BY <1>2, MarkSingle, NumberSingle, FlagSingle, ReportSingle, PlainSingle, EndSingle DEF FrontEnd
  <1>3. CASE CommandPackProcess
    BY <1>3, TakeSingle, SendAllSingle, SendOneSingle DEF CommandPackProcess
  <1>4. CASE CommandParseProcess
    BY <1>4, ReplySingle
  <1>5. CASE (\E c \in Cells : Switch(c)) \/ UNCHANGED vars
    <2>1. UNCHANGED <<seq, last, src, mass, flag, front, pack, parse, sent, said,
                      recvFlag, overlap, asked, acked>>
      BY <1>5 DEF Switch, vars, cells, buffers, flags, history
    <2> QED BY <2>1, StillSingle DEF Quiet, Own, Sending
  <1> QED BY <1>1, <1>2, <1>3, <1>4, <1>5 DEF Next

\* A single command of the shell that its cell answered in time is not reported
\* as failed when no other command was under way, for any number of cells, users
\* and commands: the answer raises the flag the shell polls, whichever user's.
THEOREM AnsweredIsNotFailed == Spec => []AnsweredNotFailed
  <1>1. TypeInv /\ Single => AnsweredNotFailed
    <2> SUFFICES ASSUME TypeInv, Single, said = "failed", Is("shell", "done"), ~overlap
                 PROVE  front["shell"].to \notin acked
      BY DEF AnsweredNotFailed
    <2>1. Alone("shell")
      BY BusyAt, ShellIsFront DEF Alone, Is, At, TypeInv
    <2>2. CASE front["shell"].to = All
      BY <2>2, DestAssumption DEF TypeInv, TypeOK
    <2>3. CASE front["shell"].to # All
      BY <2>1, <2>3 DEF Single, SingleOK
    <2> QED BY <2>2, <2>3
  <1> QED BY TypeInit, TypeStep, InvInit, InvStep, SingleInit, SingleStep, <1>1, PTL DEF Spec

-----------------------------------------------------------------------------
(* HashRate: what the rates computed from the replies to getstat span, for *)
(* every Interval and all counts, whatever the arithmetic of the rate.     *)

Texts == [idx : 0 .. Interval, vals : Seq(Nat)]

RingOK ==
    /\ ring \in [Algos -> [RingSlots -> Nat]]
    /\ idx \in [Algos -> 0 .. Interval]
    /\ row \in [Algos -> Texts]
    /\ num \in [Algos -> [RingSlots -> Nat]]
    /\ total \in Nat /\ since \in Nat

\* How many samples ago slot j was written, going by the index alone
Age(a, j) ==
    IF j < idx[a] THEN idx[a] - 1 - j
    ELSE IF j = 0 THEN 0 ELSE idx[a] + Interval - j

\* The slots written since the last start are as old as the index tells.
AgesOK ==
    \A a \in Algos : \A j \in 0 .. Interval - 1 :
        Age(a, j) < since => num[a][j] = total - Age(a, j)

RateInv == RingOK /\ AgesOK

LEMMA InitRateInv == RateInit => RateInv
  BY IntervalAssumption, SMTT(30) DEF RateInit, RateInv, RingOK, AgesOK, Texts, NoText, Age, RingSlots, Algos

LEMMA TextOK ==
  ASSUME NEW r \in [RingSlots -> Nat], NEW i \in 0 .. Interval
  PROVE  Text(r, i) \in Texts
<1> DEFINE loop == IF i < Interval /\ (r[i + 1] = 0 \/ i = Interval - 1) THEN i ELSE Interval
<1>1. loop \in Nat /\ loop <= Interval
  BY IntervalAssumption
<1>2. [k \in 1 .. loop |-> r[k - 1]] \in [1 .. loop -> Nat]
  <2> SUFFICES ASSUME NEW k \in 1 .. loop PROVE r[k - 1] \in Nat
    OBVIOUS
  <2>1. k - 1 \in RingSlots
    BY <1>1, IntervalAssumption DEF RingSlots
  <2> QED BY <2>1
<1>3. [k \in 1 .. loop |-> r[k - 1]] \in Seq(Nat)
  BY <1>1, <1>2
<1> QED BY <1>3 DEF Text, Texts

LEMMA LoadedOK ==
  ASSUME NEW t \in Texts
  PROVE  Loaded(t) \in [RingSlots -> Nat]
<1>1. \A i \in DOMAIN t.vals : t.vals[i] \in Nat
  BY DEF Texts
<1> QED BY <1>1 DEF Loaded

LEMMA SampleRateInv ==
  ASSUME RateInv, NEW v \in Reports, Sample(v)
  PROVE  RateInv'
<1> USE IntervalAssumption DEF RateInv
<1>0. v \in [Algos -> Nat]
  BY ReportsAssumption
<1>1. \A a \in Algos : idx[a] \in 0 .. Interval /\ Slot(idx[a]) \in RingSlots
  BY DEF RingOK, Slot, RingSlots
<1>2. ring' \in [Algos -> [RingSlots -> Nat]]
  BY <1>0, <1>1 DEF Sample, RingOK
<1>3. idx' \in [Algos -> 0 .. Interval]
  BY <1>1 DEF Sample, NextIdx
<1>4. row' \in [Algos -> Texts]
  <2>1. [a \in Algos |-> Text(ring'[a], idx'[a])] \in [Algos -> Texts]
    BY <1>2, <1>3, TextOK
  <2> QED BY <2>1 DEF Sample, RingOK
<1>5. num' \in [Algos -> [RingSlots -> Nat]] /\ total' \in Nat /\ since' \in Nat
  BY <1>1 DEF Sample, RingOK
<1>6. RingOK'
  BY <1>2, <1>3, <1>4, <1>5 DEF RingOK
<1>7. ASSUME NEW a \in Algos, NEW j \in 0 .. Interval - 1, Age(a, j)' < since'
      PROVE  num'[a][j] = total' - Age(a, j)'
  <2>1. num'[a] = [num[a] EXCEPT ![Slot(idx[a])] = total + 1]
        /\ idx'[a] = NextIdx(idx[a]) /\ total' = total + 1 /\ since' = since + 1
    BY DEF Sample
  <2>2. j \in RingSlots /\ num[a] \in [RingSlots -> Nat]
    BY DEF RingSlots, RingOK
  <2>3. CASE j = Slot(idx[a])
    <3>1. num'[a][j] = total + 1
      BY <2>1, <2>2, <2>3
    <3>2. Age(a, j)' = 0
      BY <1>1, <2>1, <2>3 DEF Age, Slot, NextIdx
    <3> QED BY <2>1, <3>1, <3>2 DEF RingOK
  <2>4. CASE j # Slot(idx[a])
    <3>1. num'[a][j] = num[a][j]
      BY <2>1, <2>2, <2>4
    <3>2. Age(a, j)' = Age(a, j) + 1 /\ Age(a, j) \in Int
      BY <1>1, <2>1, <2>4 DEF Age, Slot, NextIdx
    <3>3. Age(a, j) < since
      BY <1>7, <2>1, <3>2 DEF RingOK
    <3>4. num[a][j] = total - Age(a, j)
      BY <3>3 DEF AgesOK
    <3> QED BY <2>1, <3>1, <3>2, <3>4 DEF RingOK
  <2> QED BY <2>3, <2>4
<1>8. AgesOK'
  BY <1>7 DEF AgesOK, Age
<1> QED BY <1>6, <1>8

LEMMA RestartRateInv ==
  ASSUME RateInv, Restart
  PROVE  RateInv'
<1> USE IntervalAssumption DEF RateInv
<1>1. NoText \in Texts
  BY DEF NoText, Texts
<1>2. row["BTC"] \in Texts
  BY DEF RingOK, Algos
<1>3. Loaded(row["BTC"]) \in [RingSlots -> Nat] /\ Loaded(NoText) \in [RingSlots -> Nat]
  BY <1>1, <1>2, LoadedOK
<1>4. ring' \in [Algos -> [RingSlots -> Nat]]
  BY <1>3 DEF Restart, RingOK
<1>5. row["BTC"].idx \in 0 .. Interval
  BY <1>2 DEF Texts
<1>6. idx' \in [Algos -> 0 .. Interval]
  <2> DEFINE w == IF row["BTC"].vals = <<>> THEN 0 ELSE row["BTC"].idx
  <2>1. w \in 0 .. Interval /\ 0 \in 0 .. Interval
    BY <1>5
  <2>2. idx' = [idx EXCEPT !["BTC"] = w, !["LTC"] = 0]
    BY DEF Restart
  <2> HIDE DEF w
  <2> QED BY <2>1, <2>2 DEF RingOK
<1>7. RingOK'
  BY <1>4, <1>6 DEF Restart, RingOK
<1>8. since' = 0 /\ idx' \in [Algos -> 0 .. Interval]
  BY <1>6 DEF Restart
<1>9. \A a \in Algos : \A j \in 0 .. Interval - 1 : ~(Age(a, j)' < since')
  BY <1>8 DEF Age
<1>10. AgesOK'
  BY <1>9 DEF AgesOK, Age
<1> QED BY <1>7, <1>10

LEMMA RateInvHolds == RateSpec => []RateInv
<1>1. RateInv /\ [RateNext]_rateVars => RateInv'
  <2> SUFFICES ASSUME RateInv, [RateNext]_rateVars PROVE RateInv'
    OBVIOUS
  <2>1. CASE RateNext
    BY <2>1, SampleRateInv, RestartRateInv DEF RateNext
  <2>2. CASE UNCHANGED rateVars
    BY <2>2 DEF rateVars, RateInv, RingOK, AgesOK, Age
  <2> QED BY <2>1, <2>2
<1> QED BY <1>1, InitRateInv, PTL DEF RateSpec

\* CalculateBTCRealKHash and CalculateLTCRealKHash: after a full round of counts
\* a rate spans the whole interval, or one sample less at the seam.
THEOREM Spans == RateSpec => SpansInterval
<1> USE IntervalAssumption
<1> DEFINE Spanned == \A a \in Algos :
                 IsSample /\ since > Interval /\ Filled(a) /\ idx[a] # Interval =>
                     Span(a) = IF idx[a] = Interval - 1 THEN Interval - 1 ELSE Interval
<1>1. RateInv /\ [RateNext]_rateVars => [Spanned]_rateVars
  <2> SUFFICES ASSUME RateInv, [RateNext]_rateVars, NEW a \in Algos, IsSample, since > Interval, Filled(a), idx[a] # Interval
               PROVE  Span(a) = IF idx[a] = Interval - 1 THEN Interval - 1 ELSE Interval
    OBVIOUS
  <2> HIDE DEF Spanned
  <2>6. RingOK /\ AgesOK
    BY DEF RateInv
  <2> DEFINE i == idx[a]
  <2>7. i \in 0 .. Interval /\ i # Interval
    BY <2>6 DEF RingOK
  <2>8. i \in 0 .. Interval - 1
    BY <2>7
  <2>1. total \in Nat /\ since \in Nat /\ i \in 0 .. Interval - 1 /\ ring \in [Algos -> [RingSlots -> Nat]]
    BY <2>6, <2>8 DEF RingOK
  <2>2. PICK v \in Reports : Sample(v)
    <3>1. total' # total
      BY <2>1 DEF IsSample
    <3> QED BY <3>1 DEF RateNext, Restart, rateVars
  <2>3. ring'[a] = [ring[a] EXCEPT ![i] = v[a]]
    <3>1. Slot(i) = i
      BY <2>1 DEF Slot
    <3>2. ring'[a] = [ring[a] EXCEPT ![Slot(i)] = v[a]]
      BY <2>2 DEF Sample
    <3> QED BY <3>1, <3>2
  <2>4. CASE i = Interval - 1
    <3>1. Base(ring'[a], i) = 0
      BY <2>1, <2>4 DEF Base
    <3>2. Age(a, 0) = Interval - 2 /\ Age(a, 0) < since
      BY <2>1, <2>4 DEF Age
    <3>3. num[a][0] = total - (Interval - 2)
      BY <2>6, <2>1, <3>2 DEF AgesOK
    <3> QED BY <2>1, <2>4, <3>1, <3>3 DEF Span, IsSample
  <2>5. CASE i # Interval - 1
    <3>1. i + 1 \in 1 .. Interval - 1 /\ i + 1 \in RingSlots /\ ring[a][i + 1] # 0
      BY <2>1, <2>5 DEF Filled, RingSlots
    <3>2. ring'[a][i + 1] = ring[a][i + 1]
      BY <2>1, <2>3, <3>1
    <3>3. Base(ring'[a], i) = i + 1
      BY <2>1, <2>5, <3>1, <3>2 DEF Base
    <3>4. Age(a, i + 1) = Interval - 1 /\ Age(a, i + 1) < since
      BY <2>1, <3>1 DEF Age
    <3>5. num[a][i + 1] = total - (Interval - 1)
      BY <2>6, <3>1, <3>4 DEF AgesOK
    <3> QED BY <2>1, <2>5, <3>3, <3>5 DEF Span, IsSample
  <2> QED BY <2>4, <2>5
<1> QED BY <1>1, RateInvHolds, PTL DEF RateSpec, SpansInterval

-----------------------------------------------------------------------------
(* The arithmetic of the rate: conversions that lose nothing               *)

LEMMA ModSmall ==
  ASSUME NEW m \in Nat, NEW x \in 0 .. m - 1
  PROVE  x % m = x
  OBVIOUS

LEMMA ModBelow ==
  ASSUME NEW m \in Nat \ {0}, NEW x \in Int, -m <= x, x < 0
  PROVE  x % m = x + m
  OBVIOUS

\* A number within the type is what the type holds.
LEMMA SignedSmall ==
  ASSUME NEW m \in Nat \ {0}, NEW x \in Int, 2 * x < m, -m <= 2 * x
  PROVE  Signed(x, m) = x
<1>1. CASE x >= 0
  <2>1. x % m = x
    BY <1>1, ModSmall
  <2> QED BY <2>1 DEF Signed
<1>2. CASE x < 0
  <2>1. x % m = x + m
    BY <1>2, ModBelow
  <2>2. 2 * (x + m) >= m /\ (x + m) - m = x
    OBVIOUS
  <2> QED BY <2>1, <2>2 DEF Signed
<1> QED BY <1>1, <1>2

\* The detour of a negative difference over HASH_MAX_RANGE costs one.
LEMMA DifferenceNear ==
  ASSUME NEW x \in Int, NEW g \in Nat, g = (IF x < 0 THEN -x ELSE x), 2 * (g + 1) < IntRange
  PROVE  Difference(x) = IF x < 0 THEN x - 1 ELSE x
<1> USE RangesAssumption
<1>1. Signed(x, LongRange) = x
  BY SignedSmall
<1>2. ASSUME x < 0 PROVE Signed(LongRange - 1 + x, LongRange) = x - 1
  <2>1. LongRange - 1 + x \in 0 .. LongRange - 1 /\ 2 * (LongRange - 1 + x) >= LongRange
    BY <1>2
  <2>2. (LongRange - 1 + x) % LongRange = LongRange - 1 + x
    BY <2>1, ModSmall
  <2> QED BY <2>1, <2>2 DEF Signed
<1> QED BY <1>1, <1>2 DEF Difference

LEMMA AbsNear ==
  ASSUME NEW x \in Int, NEW g \in Nat, g = (IF x < 0 THEN -x ELSE x), 2 * (g + 1) < IntRange
  PROVE  Abs(Difference(x)) \in {g, g + 1}
<1> USE RangesAssumption
<1>1. PICK d \in Int : d = Difference(x) /\ d = IF x < 0 THEN x - 1 ELSE x
  BY DifferenceNear
<1>2. Signed(d, IntRange) = d
  BY <1>1, SignedSmall
<1>3. d < 0 => Signed(-d, IntRange) = -d
  BY <1>1, SignedSmall
<1> QED BY <1>1, <1>2, <1>3 DEF Abs

LEMMA RateNear ==
  ASSUME NEW x \in Int, NEW g \in Nat, g = (IF x < 0 THEN -x ELSE x),
         2 * (g + 1) * LtcShare < IntRange
  PROVE  Rate("LTC", Difference(x)) \in {(h * LtcShare) \div Divisor : h \in {g, g + 1}}
<1> USE RangesAssumption, ShareAssumption
<1>1. 2 * (g + 1) < IntRange
  <2>1. 2 * (g + 1) <= 2 * (g + 1) * LtcShare
    OBVIOUS
  <2> QED BY <2>1
<1>2. PICK h \in {g, g + 1} : h = Abs(Difference(x))
  BY <1>1, AbsNear
<1>3. PICK p \in Nat : p = h * LtcShare
  OBVIOUS
<1>4. 2 * p < IntRange
  <2>1. h * LtcShare <= (g + 1) * LtcShare
    BY <1>2
  <2> QED BY <1>3, <2>1
<1>5. Signed(p, IntRange) = p
  BY <1>4, SignedSmall
<1>6. p \div Divisor \in 0 .. p
  OBVIOUS
<1>7. Quotient(p) = p \div Divisor
  BY DEF Quotient
<1>8. (p \div Divisor) % LongRange = p \div Divisor
  BY <1>4, <1>6, ModSmall
<1>9. Rate("LTC", Difference(x)) = p \div Divisor
  BY <1>2, <1>3, <1>5, <1>7, <1>8 DEF Rate
<1> QED BY <1>2, <1>3, <1>9

\* CalculateLTCRealKHash: whatever way the counter of the cell moved, and through
\* the wrap of a negative difference and the int of abs, the rate is the documented
\* one of the counts compared, or of one nonce more, while the product fits an int.
THEOREM LtcIsNear == RateSpec => LtcRateIsNear
<1> USE IntervalAssumption
<1> DEFINE Near == IsSample /\ 2 * (Gap("LTC") + 1) * LtcShare < IntRange =>
                      rate'["LTC"] \in {(g * LtcShare) \div Divisor : g \in {Gap("LTC"), Gap("LTC") + 1}}
<1>1. RateInv /\ [RateNext]_rateVars => [Near]_rateVars
  <2> SUFFICES ASSUME RateInv, [RateNext]_rateVars, IsSample, 2 * (Gap("LTC") + 1) * LtcShare < IntRange
               PROVE  rate'["LTC"] \in {(g * LtcShare) \div Divisor : g \in {Gap("LTC"), Gap("LTC") + 1}}
    OBVIOUS
  <2> HIDE DEF Near
  <2>1. RingOK
    BY DEF RateInv
  <2>2. PICK v \in Reports : Sample(v)
    <3>1. total' # total
      BY <2>1 DEF IsSample, RingOK
    <3> QED BY <3>1 DEF RateNext, Restart, rateVars
  <2>3. "LTC" \in Algos
    BY DEF Algos
  <2>4. PICK i \in 0 .. Interval, r \in [RingSlots -> Nat], q \in [RingSlots -> Nat] :
           i = idx["LTC"] /\ r = ring["LTC"] /\ q = ring'["LTC"]
    <3>1. RingOK'
      BY <2>2, SampleRateInv DEF RateInv
    <3> QED BY <2>1, <2>3, <3>1 DEF RingOK
  <2>5. Slot(i) \in RingSlots /\ Base(q, i) \in RingSlots /\ (i # Interval => Slot(i) = i)
    BY DEF Slot, Base, RingSlots
  <2>6. \A j \in RingSlots : j # Slot(i) => q[j] = r[j]
    <3>1. q = [r EXCEPT ![Slot(i)] = v["LTC"]]
      BY <2>2, <2>3, <2>4 DEF Sample
    <3> QED BY <2>5, <3>1
  <2>7. PICK x \in Int : x = Compared(q, i) /\ (x = q[Slot(i)] - q[Base(q, i)] \/ x = q[Base(q, i)] - q[Slot(i)])
    BY <2>5 DEF Compared
  <2>8. Gap("LTC") = IF x < 0 THEN -x ELSE x
    <3>1. Gap("LTC") = Distance(q[Slot(i)], q[Base(q, i)])
      BY <2>4, <2>5, <2>6 DEF Gap
    <3>2. q[Slot(i)] \in Nat /\ q[Base(q, i)] \in Nat
      BY <2>5
    <3> QED BY <2>7, <3>1, <3>2 DEF Distance
  <2>9. PICK g \in Nat : g = Gap("LTC")
    BY <2>8
  <2>10. rate'["LTC"] = Rate("LTC", Difference(x))
    BY <2>2, <2>3, <2>4, <2>7 DEF Sample
  <2>11. Rate("LTC", Difference(x)) \in {(h * LtcShare) \div Divisor : h \in {g, g + 1}}
    BY <2>8, <2>9, RateNear
  <2> QED BY <2>9, <2>10, <2>11
<1> QED BY <1>1, RateInvHolds, PTL DEF RateSpec, LtcRateIsNear

=============================================================================
