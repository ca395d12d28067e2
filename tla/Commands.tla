------------------------------ MODULE Commands ------------------------------
(***************************************************************************)
(* Commands to the cells.  Two front ends issue them:                      *)
(*   shell    ShellTerminalProcess, "comm cell <all|id> <command>" typed   *)
(*            by a user on the TCP shell (PackComm, ParseShellCommand)     *)
(*   monitor  MonitorProcess, a request of the dataserver                  *)
(*            (PackMonitorToComm, ParseMonitorCommand)                     *)
(* A front end marks the cells (eCellComm), numbers the command, leaves it *)
(* in the buffer of its kind and raises a flag; CommandPackProcess sees    *)
(* the flag of the front end gCommandType names and sends the command; the *)
(* replies, parsed by CommandParseProcess, clear eCellComm of the cells or *)
(* raise bRecvSeqFlag; the front end waits, and reports by what it finds.  *)
(* Time is abstract: each wait may end at any moment.  Datagrams may be    *)
(* lost, delayed, duplicated and reordered.                                *)
(***************************************************************************)
EXTENDS Integers

CONSTANTS
  Cells,    \* the cells in the table
  Kinds,    \* commands, by index in idCellControlInput; 0 is getstat
  Slots,    \* users' slots, the indices of bUserFlag, uUserSeq, bRecvSeqFlag
  MaxSeq,   \* bound on gSendSeq: commands numbered since the start
  All,      \* the destination "all"
  Nobody    \* no destination yet

RESETFLASH == 3   \* E_COMMAND_TYPE
SETLED     == 4
SETPOOL    == 5
STAT       == 0

ASSUME KindsAssumption  == Kinds \subseteq 1 .. 6
ASSUME MaxSeqAssumption == MaxSeq \in Nat
ASSUME DestAssumption   == All \notin Cells /\ Nobody \notin Cells /\ All # Nobody

VARIABLES
  online,   \* bCellOnline
  comm,     \* eCellComm: the command the cell is to be sent
  seq,      \* uSeqId: the number the cell's reply must bear
  mode,     \* gCommandType
  last,     \* gSendSeq
  src,      \* pSrcBuf: the number of the command in the buffer of its kind
  target,   \* pDevId of each kind
  part,     \* ParData: the cell the dataserver addresses
  mass,     \* bMassFlag of each front end
  flag,     \* kinds flagged by each front end: pShellFlag, pMonitorFlag
  lock,     \* CommShellFlagLock, CommMonitorFlagLock
  rem,      \* CommRemLock
  userSeq, recvFlag,   \* uUserSeq, bRecvSeqFlag
  front,    \* where each front end is, with its command and its destination
  pack,     \* where CommandPackProcess is
  parse,    \* where CommandParseProcess is in the reply it handles
  sent,     \* requests sent to the cells; a reply to any may come at any time
  said,     \* what the shell told its user
  overlap,  \* history: another command was under way with the last one
            \* and, unless one was,
  fresh,    \* history: cells the command marked, no earlier request pending
  late,     \* history: those it marked while an earlier reply was half handled
  asked, acked   \* history: cells sent the command, those that answered it

FrontEnds == {"shell", "monitor"}
Dest      == Cells \cup {All}
Seqs      == 0 .. MaxSeq
Request   == [cell : Cells, seq : Seqs, head : {"user", "initall"}]
Idle      == [at |-> "idle"]
At        == {"begin", "mark", "number", "flag", "wait", "count", "off", "report", "done"}
Busy      == [at : At, kind : Kinds, to : Dest]
Packing   == [at : {"take", "send"}, by : FrontEnds, kind : Kinds, all : BOOLEAN]
             \cup [at : {"take", "send"}, by : {"stat"}, kind : {STAT}, all : {TRUE}]

cells   == <<online, comm, seq>>
buffers == <<last, src, target, part, userSeq>>
flags   == <<mode, mass, flag>>
locks   == <<lock, rem>>
history == <<overlap, fresh, late, asked, acked>>
vars == <<cells, buffers, flags, locks, recvFlag, front, pack, parse, sent, said, history>>

TypeOK ==
  /\ online \in [Cells -> BOOLEAN]
  /\ comm \in [Cells -> Kinds \cup {STAT}]
  /\ seq \in [Cells -> Seqs]
  /\ mode \in FrontEnds \cup {"none"}
  /\ last \in Seqs
  /\ src \in [Kinds -> Seqs]
  /\ target \in [Kinds -> Dest \cup {Nobody}]
  /\ part \in Dest \cup {Nobody}
  /\ mass \in [FrontEnds -> BOOLEAN]
  /\ flag \in [FrontEnds -> SUBSET Kinds]
  /\ lock \in [FrontEnds -> {"free", "pack", "leaked"}]
  /\ rem \in {"free", "pack", "parse"}
  /\ userSeq \in [Slots -> Seqs]
  /\ recvFlag \in [Slots -> BOOLEAN]
  /\ front \in [FrontEnds -> {Idle} \cup Busy]
  /\ pack \in {Idle, [at |-> "stuck"]} \cup Packing
  /\ parse \in {Idle} \cup [at : {"reset", "clear", "unlock"}, cell : Cells]
  /\ sent \subseteq Request
  /\ said \in {"nothing", "success", "failed"}
  /\ overlap \in BOOLEAN
  /\ fresh \subseteq Cells /\ late \subseteq Cells
  /\ asked \subseteq Cells /\ acked \subseteq Cells

Init ==
  /\ online \in [Cells -> BOOLEAN]
  /\ comm = [c \in Cells |-> STAT] /\ seq = [c \in Cells |-> 0]
  /\ mode = "none" /\ last = 0
  /\ src = [j \in Kinds |-> 0] /\ target = [j \in Kinds |-> Nobody]
  /\ part = Nobody
  /\ mass = [f \in FrontEnds |-> FALSE] /\ flag = [f \in FrontEnds |-> {}]
  /\ lock = [f \in FrontEnds |-> "free"] /\ rem = "free"
  /\ userSeq = [k \in Slots |-> 0] /\ recvFlag = [k \in Slots |-> FALSE]
  /\ front = [f \in FrontEnds |-> Idle] /\ pack = Idle /\ parse = Idle
  /\ sent = {} /\ said = "nothing"
  /\ overlap = FALSE /\ fresh = {} /\ late = {} /\ asked = {} /\ acked = {}

-----------------------------------------------------------------------------
(* The front ends.                                                          *)

Other(f)      == IF f = "shell" THEN "monitor" ELSE "shell"
Is(f, a)      == front[f].at = a
Numbered(f)   == front[f].at \notin {"begin", "mark", "number"}
Goto(f, a)    == front' = [front EXCEPT ![f].at = a]

\* CommandPackProcess has taken a command and not sent it yet.
Sending == pack.at \in {"take", "send"} /\ pack.by # "stat"

\* The cell whose reply CommandParseProcess has half handled
Handling == IF parse.at \in {"reset", "clear"} THEN {parse.cell} ELSE {}

\* server_callback, ParseRecv: the first front end to be busy names itself in
\* gCommandType.
Begin(f, j, t) ==
  /\ front[f] = Idle
  /\ last + (IF Numbered(Other(f)) THEN 0 ELSE 1) < MaxSeq
  /\ front' = [front EXCEPT ![f] = [at |-> "begin", kind |-> j, to |-> t]]
  /\ mode' = IF mode = "none" THEN f ELSE mode
  /\ part' = IF f = "monitor" THEN Nobody ELSE part
  /\ overlap' = (front[Other(f)] # Idle \/ flag[f] # {} \/ Sending)
  /\ fresh' = {} /\ late' = {} /\ asked' = {} /\ acked' = {}
  /\ UNCHANGED <<cells, last, src, target, userSeq, mass, flag, locks, recvFlag,
                 pack, parse, sent, said>>

\* Another command, or one that does not parse: nothing more is done.
Refuse(f) ==
  /\ Is(f, "begin")
  /\ Goto(f, "done")
  /\ UNCHANGED <<cells, buffers, flags, locks, recvFlag, pack, parse, sent, said, history>>

SetMass(f) ==
  /\ Is(f, "begin")
  /\ mass' = [mass EXCEPT ![f] = (front[f].to = All)]
  /\ Goto(f, "mark")
  /\ UNCHANGED <<cells, buffers, mode, flag, locks, recvFlag, pack, parse, sent, said, history>>

\* The cells whose eCellComm becomes the command: those online, if the command
\* is one that the front end sends to them all, or the dataserver to one.
Marked(f) ==
  LET j == front[f].kind
  IN  { c \in Cells :
          /\ online[c]
          /\ IF front[f].to = All
             THEN j <= (IF f = "shell" THEN RESETFLASH ELSE SETPOOL)
             ELSE f = "monitor" /\ front[f].to = c /\ j <= SETLED }

\* For "all" under CommRemLock.
Mark(f) ==
  /\ Is(f, "mark")
  /\ front[f].to = All => rem = "free"
  /\ comm' = [c \in Cells |-> IF c \in Marked(f) THEN front[f].kind ELSE comm[c]]
  /\ part' = IF f = "monitor" THEN front[f].to ELSE part
  /\ fresh' = { c \in Marked(f) : seq[c] = 0 /\ ~overlap }
  /\ late' = fresh' \cap Handling
  /\ asked' = {} /\ acked' = {}
  /\ Goto(f, "number")
  /\ UNCHANGED <<online, seq, last, src, target, userSeq, flags, locks, recvFlag,
                 pack, parse, sent, said, overlap>>

\* The shell writes pDevId under CommShellFlagLock, and notes the number for a
\* user: the first whose bUserFlag is set, which need not be the one served.
Number(f) ==
  /\ Is(f, "number")
  /\ f = "shell" => lock[f] = "free"
  /\ last' = last + 1
  /\ IF f = "shell"
     THEN /\ target' = [target EXCEPT ![front[f].kind] = front[f].to]
          /\ \E k \in Slots : userSeq' = [userSeq EXCEPT ![k] = last + 1]
     ELSE UNCHANGED <<target, userSeq>>
  /\ Goto(f, "flag")
  /\ UNCHANGED <<cells, src, part, flags, locks, recvFlag, pack, parse, sent, said, history>>

\* Defect: the buffer takes a number of its own.
FlagRenumber(f) ==
  /\ Is(f, "flag")
  /\ lock[f] = "free"
  /\ src' = [src EXCEPT ![front[f].kind] = last + 1]
  /\ flag' = [flag EXCEPT ![f] = @ \cup {front[f].kind}]
  /\ Goto(f, "wait")
  /\ UNCHANGED <<cells, last, target, part, userSeq, mode, mass, locks, recvFlag,
                 pack, parse, sent, said, history>>

\* gSendSeq is read again for the buffer.
Flag(f) ==
  /\ Is(f, "flag")
  /\ lock[f] = "free"
  /\ src' = [src EXCEPT ![front[f].kind] = last]
  /\ flag' = [flag EXCEPT ![f] = @ \cup {front[f].kind}]
  /\ Goto(f, "wait")
  /\ UNCHANGED <<cells, last, target, part, userSeq, mode, mass, locks, recvFlag,
                 pack, parse, sent, said, history>>

\* SetDelay of the monitor: 1.5 s, then up to 15 s with OnlineCountLock held.
Count ==
  /\ Is("monitor", "wait") /\ mass["monitor"]
  /\ Goto("monitor", "count")
  /\ UNCHANGED <<cells, buffers, flags, locks, recvFlag, pack, parse, sent, said, history>>

\* The wait for a mass command, or for the monitor's single one, is over.
WaitOver(f) ==
  /\ IF f = "shell" THEN Is(f, "wait") /\ mass[f]
     ELSE Is(f, "count") \/ (Is(f, "wait") /\ ~mass[f])
  /\ Goto(f, "off")
  /\ UNCHANGED <<cells, buffers, flags, locks, recvFlag, pack, parse, sent, said, history>>

MassOff(f) ==
  /\ Is(f, "off")
  /\ mass' = [mass EXCEPT ![f] = FALSE]
  /\ Goto(f, "report")
  /\ UNCHANGED <<cells, buffers, mode, flag, locks, recvFlag, pack, parse, sent, said, history>>

\* The cells the report lists as failed.
Failed(f) ==
  { c \in Cells : online[c] /\ comm[c] # STAT /\ front[f].to \in {All, c} }

\* Their uSeqId is reset, and eCellComm too but after the monitor's mass command.
Report(f) ==
  /\ Is(f, "report")
  /\ seq' = [c \in Cells |-> IF c \in Failed(f) THEN 0 ELSE seq[c]]
  /\ comm' = IF f = "monitor" /\ front[f].to = All THEN comm
             ELSE [c \in Cells |-> IF c \in Failed(f) THEN STAT ELSE comm[c]]
  /\ Goto(f, "done")
  /\ UNCHANGED <<online, buffers, flags, locks, recvFlag, pack, parse, sent, said, history>>

\* The shell polls for the reply to a single command, whoever's flag it finds.
Polled(k) ==
  /\ Is("shell", "wait") /\ ~mass["shell"]
  /\ recvFlag[k]
  /\ recvFlag' = [recvFlag EXCEPT ![k] = FALSE]
  /\ said' = "success"
  /\ Goto("shell", "done")
  /\ UNCHANGED <<cells, buffers, flags, locks, pack, parse, sent, history>>

\* Defect: the time is up before the flags are looked at.
PollTimeoutBlind ==
  /\ Is("shell", "wait") /\ ~mass["shell"]
  /\ said' = "failed"
  /\ Goto("shell", "done")
  /\ UNCHANGED <<cells, buffers, flags, locks, recvFlag, pack, parse, sent, history>>

PollTimeout ==
  /\ Is("shell", "wait") /\ ~mass["shell"]
  /\ \A k \in Slots : ~recvFlag[k]
  /\ said' = "failed"
  /\ Goto("shell", "done")
  /\ UNCHANGED <<cells, buffers, flags, locks, recvFlag, pack, parse, sent, history>>

End(f) ==
  /\ Is(f, "done")
  /\ front' = [front EXCEPT ![f] = Idle]
  /\ mode' = IF mode = f THEN "none" ELSE mode
  /\ said' = "nothing"
  /\ overlap' = (overlap /\ front[Other(f)] # Idle)
  /\ fresh' = {} /\ late' = {} /\ asked' = {} /\ acked' = {}
  /\ UNCHANGED <<cells, buffers, mass, flag, locks, recvFlag, pack, parse, sent>>

-----------------------------------------------------------------------------
(* CommandPackProcess.                                                      *)

\* SendCellAll of getstat, to the cells with no other command, at its interval
PackStat ==
  /\ pack = Idle
  /\ pack' = [at |-> "take", by |-> "stat", kind |-> STAT, all |-> TRUE]
  /\ UNCHANGED <<cells, buffers, flags, locks, recvFlag, front, parse, sent, said, history>>

\* CommandShell, CommandMonitor: take the lock, find the flag, reset it.
PackTake(f, j) ==
  /\ pack = Idle
  /\ mode = f
  /\ lock[f] = "free"
  /\ j \in flag[f]
  /\ flag' = [flag EXCEPT ![f] = @ \ {j}]
  /\ lock' = [lock EXCEPT ![f] = "pack"]
  /\ pack' = [at |-> "take", by |-> f, kind |-> j, all |-> mass[f]]
  /\ UNCHANGED <<cells, buffers, mode, mass, rem, recvFlag, front, parse, sent, said, history>>

PackRemLock ==
  /\ pack.at = "take"
  /\ rem = "free"
  /\ rem' = "pack"
  /\ pack' = [pack EXCEPT !.at = "send"]
  /\ UNCHANGED <<cells, buffers, flags, lock, recvFlag, front, parse, sent, said, history>>

\* Defect: CommRemLock stays locked if nothing was sent.
SentHoldRem(good) ==
  /\ rem' = IF good THEN "free" ELSE rem
  /\ pack' = Idle
  /\ lock' = IF pack.by = "stat" THEN lock ELSE [lock EXCEPT ![pack.by] = "free"]

\* What follows a send: CommandShell and CommandMonitor return without
\* unlocking if it failed.
Sent(good) ==
  /\ rem' = "free"
  /\ pack' = Idle
  /\ lock' = IF pack.by = "stat" THEN lock
             ELSE [lock EXCEPT ![pack.by] = IF good THEN "free" ELSE "leaked"]

\* The JsonPack functions: uSeqId, and the head by either front end's mass flag
Packed(to) ==
  [c \in Cells |-> IF c \in to THEN src[pack.kind] ELSE seq[c]]

Requests(to) ==
  { [cell |-> c, seq |-> src[pack.kind],
     head |-> IF \E f \in FrontEnds : mass[f] THEN "initall" ELSE "user"] : c \in to }

NoteAsked(to) ==
  asked' = IF ~overlap /\ \E f \in FrontEnds : ~Is(f, "idle") /\ front[f].kind = pack.kind
           THEN asked \cup to ELSE asked

\* SendCellAll, once OnlineCountLock is free; sendto may fail for some cells.
PackSendAll ==
  /\ pack.at = "send" /\ pack.all
  /\ ~Is("monitor", "count")
  /\ LET to == { c \in Cells : online[c] /\ comm[c] = pack.kind }
     IN  IF pack.by = "stat"
         THEN Sent(TRUE) /\ UNCHANGED <<seq, sent, asked>>
         ELSE \E ok \in SUBSET to :
                /\ seq' = Packed(to)
                /\ sent' = sent \cup Requests(ok)
                /\ NoteAsked(to)
                /\ Sent(ok # {})
  /\ UNCHANGED <<online, comm, buffers, flags, recvFlag, front, parse, said,
                 overlap, fresh, late, acked>>

\* SendCellSingle looks pDevId up, where the monitor has put the part list's cell.
PackSendSingle ==
  /\ pack.at = "send" /\ ~pack.all
  /\ target' = IF pack.by = "monitor" /\ part # Nobody
               THEN [target EXCEPT ![pack.kind] = part] ELSE target
  /\ LET to == {target'[pack.kind]} \cap Cells
     IN  IF pack.by = "monitor" /\ part = Nobody
         THEN Sent(TRUE) /\ UNCHANGED <<seq, sent, asked>>
         ELSE \E ok \in SUBSET to :
                /\ seq' = Packed(to)
                /\ sent' = sent \cup Requests(ok)
                /\ NoteAsked(to)
                /\ Sent(ok # {})
  /\ UNCHANGED <<online, comm, last, src, part, userSeq, flags, recvFlag, front,
                 parse, said, overlap, fresh, late, acked>>

\* The thread locks again the mutex it has left locked.
PackRelock ==
  /\ pack = Idle
  /\ mode # "none" /\ lock[mode] = "leaked"
  /\ pack' = [at |-> "stuck"]
  /\ UNCHANGED <<cells, buffers, flags, locks, recvFlag, front, parse, sent, said, history>>

CommandPackProcess ==
  \/ PackStat
  \/ \E f \in FrontEnds, j \in Kinds : PackTake(f, j)
  \/ PackRemLock
  \/ PackSendAll
  \/ PackSendSingle
  \/ PackRelock

-----------------------------------------------------------------------------
(* CommandParseProcess.  A reply's number is compared with the cell's       *)
(* uSeqId, which is reset; eCellComm is cleared some lines further on.  The *)
(* front ends report and mark cells in between.  A number is written under  *)
(* CommRemLock, or reset.                                                   *)

\* The reply answers the cell's last request.
Match(c, next) ==
  /\ parse' = [at |-> next, cell |-> c]
  /\ acked' = acked \cup ({c} \cap asked)

Reset(c) == seq' = [seq EXCEPT ![c] = 0]

\* Defect: the reply's number is not compared with uSeqId.
ReplyInitallAny(m) ==
  /\ parse = Idle
  /\ m.head = "initall"
  /\ rem = "free"
  /\ rem' = "parse"
  /\ Match(m.cell, "clear")
  /\ Reset(m.cell)
  /\ UNCHANGED <<online, comm, buffers, flags, lock, recvFlag, front, pack, sent, said,
                 overlap, fresh, late, asked>>

\* ParseRecvCellSetCommand, which holds CommRemLock until its end
ReplyInitall(m) ==
  /\ parse = Idle
  /\ m.head = "initall"
  /\ rem = "free"
  /\ seq[m.cell] = m.seq
  /\ rem' = "parse"
  /\ Match(m.cell, "clear")
  /\ Reset(m.cell)
  /\ UNCHANGED <<online, comm, buffers, flags, lock, recvFlag, front, pack, sent, said,
                 overlap, fresh, late, asked>>

\* ParseRecvShellMonitorCommand while the shell is served
ReplyShell(m) ==
  /\ parse = Idle
  /\ m.head = "user"
  /\ mode = "shell"
  /\ recvFlag' = [k \in Slots |-> recvFlag[k] \/ userSeq[k] = m.seq]
  /\ acked' = IF /\ ~overlap /\ Is("shell", "wait") /\ front["shell"].to = m.cell
                 /\ m.seq = src[front["shell"].kind]
                 /\ \E k \in Slots : userSeq[k] = m.seq
              THEN acked \cup {m.cell} ELSE acked
  /\ UNCHANGED <<cells, buffers, flags, locks, front, pack, parse, sent, said,
                 overlap, fresh, late, asked>>

\* and while the monitor is, without a lock.
ReplyMonitor(m) ==
  /\ parse = Idle
  /\ m.head = "user"
  /\ mode = "monitor"
  /\ IF seq[m.cell] = m.seq THEN Match(m.cell, "reset")
     ELSE parse' = [at |-> "unlock", cell |-> m.cell] /\ UNCHANGED acked
  /\ UNCHANGED <<cells, buffers, flags, locks, recvFlag, front, pack, sent, said,
                 overlap, fresh, late, asked>>

ReplyReset ==
  /\ parse.at = "reset"
  /\ Reset(parse.cell)
  /\ parse' = [parse EXCEPT !.at = "clear"]
  /\ UNCHANGED <<online, comm, buffers, flags, locks, recvFlag, front, pack, sent, said, history>>

\* Whatever eCellComm is by now, it goes back to getstat.
ReplyClear ==
  /\ parse.at = "clear"
  /\ comm' = [comm EXCEPT ![parse.cell] = STAT]
  /\ parse' = [parse EXCEPT !.at = "unlock"]
  /\ UNCHANGED <<online, seq, buffers, flags, locks, recvFlag, front, pack, sent, said, history>>

\* Both handlers unlock CommRemLock, which the monitor's has not locked.
ReplyUnlock ==
  /\ parse.at = "unlock"
  /\ rem' = "free"
  /\ parse' = Idle
  /\ UNCHANGED <<cells, buffers, flags, lock, recvFlag, front, pack, sent, said, history>>

CommandParseProcess ==
  \/ \E m \in sent : ReplyInitall(m) \/ ReplyShell(m) \/ ReplyMonitor(m)
  \/ ReplyReset
  \/ ReplyClear
  \/ ReplyUnlock

-----------------------------------------------------------------------------
\* AlarmCell marks a cell offline or online.
Switch(c) ==
  /\ online' = [online EXCEPT ![c] = ~@]
  /\ UNCHANGED <<comm, seq, buffers, flags, locks, recvFlag, front, pack, parse, sent, said, history>>

FrontEnd(f) ==
  \/ Refuse(f)
  \/ SetMass(f)
  \/ Mark(f)
  \/ Number(f)
  \/ Flag(f)
  \/ f = "monitor" /\ Count
  \/ WaitOver(f)
  \/ MassOff(f)
  \/ Report(f)
  \/ f = "shell" /\ (PollTimeout \/ \E k \in Slots : Polled(k))
  \/ End(f)

Next ==
  \/ \E f \in FrontEnds, j \in Kinds, t \in Dest : Begin(f, j, t)
  \/ \E f \in FrontEnds : FrontEnd(f)
  \/ CommandPackProcess
  \/ CommandParseProcess
  \/ \E c \in Cells : Switch(c)

\* The threads run.  CommandPackProcess sleeps a second between two rounds with
\* CommRemLock free, so who waits for that lock gets it.
Fairness ==
  /\ \A f \in FrontEnds : WF_vars(FrontEnd(f)) /\ SF_vars(Mark(f))
  /\ WF_vars(CommandPackProcess)
  /\ WF_vars(ReplyReset \/ ReplyClear \/ ReplyUnlock)

Spec     == Init /\ [][Next]_vars
FairSpec == Spec /\ Fairness

-----------------------------------------------------------------------------
\* The report of a command to marked cells is exact, if no other command was
\* under way meanwhile: a cell that owed no earlier reply is reported as set if and
\* only if it answered a request sent to it since it was marked.  A late or
\* duplicated reply to an earlier command never counts for this one, unless it
\* was half handled when the cell was marked; an answer that is half handled at
\* the report is reported as missing.
ReportIsExact ==
  \A f \in FrontEnds :
    Is(f, "report") /\ ~overlap =>
      \A c \in fresh \ late : c \in acked <=> comm[c] = STAT \/ c \in Handling

\* The exception refuted: a late reply, its number found equal before the report
\* of its command, clears the mark of the next command (api_command.c:2897).
NoLateReplyCounts ==
  \A f \in FrontEnds :
    Is(f, "report") /\ ~overlap => \A c \in fresh : comm[c] = STAT => c \in acked

\* A single command of the shell that was answered in time, with no other
\* command under way, is not reported as failed.
AnsweredNotFailed ==
  said = "failed" /\ Is("shell", "done") /\ ~overlap => front["shell"].to \notin acked

\* Every command comes to its report, whatever the waits for OnlineCountLock,
\* CommRemLock and the flag locks, unless CommandPackProcess has left the front
\* end's flag lock locked.  A behaviour has at most MaxSeq commands that get
\* further than their beginning: there are always times when each of them is over.
CommandsEnd ==
  []<>(\A f \in FrontEnds : lock[f] = "leaked" \/ front[f].at \in {"idle", "begin", "done"})

\* api_shell_terminal.c:2150 says that a mass command takes 15 s at the most.
\* Every command the shell is given is answered.
ShellAnswers == []<>(front["shell"] = Idle)

\* def_devstr.h:273 says of eCellComm that its default is getstat.  With no
\* command in progress, the cells online are polled for their status.
IdleMeansPolled ==
  (\A f \in FrontEnds : front[f] = Idle /\ flag[f] = {}) /\ ~Sending
    => \A c \in Cells : online[c] => comm[c] = STAT

\* def_devstr.h:332 says of uUserSeq, the number of a user's command, that the
\* parsing of replies goes by it.  Success is reported for the command answered.
SuccessIsAnswered ==
  said = "success" /\ Is("shell", "done") /\ ~overlap => front["shell"].to \in acked

=============================================================================
