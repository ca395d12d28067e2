----------------------------- MODULE MonitorLink -----------------------------
(***************************************************************************)
(* The link to the dataserver (api_monitor.c) above a connection pool of   *)
(* one slot: MonitorProcess connects again when the slot is free, sends    *)
(* switch.validator or cell.info when the interval is over, and polls.     *)
(* Which of the two it sends is told by the interval itself, and only the  *)
(* server's answers change it.                                             *)
(*                                                                         *)
(* The server's messages lie in the socket until recv() takes them all;    *)
(* cJSON_Parse then reads the first and the others are lost.               *)
(***************************************************************************)
EXTENDS ConnPool, Sequences

CONSTANT MaxInbox   \* bound: messages in the socket

ASSUME InboxAssumption == MaxInbox \in Nat \ {0}

VARIABLES at,         \* where MonitorProcess is
          interval,   \* gCliSendInterval: 2, 30 or 60 seconds
          sendDue,    \* lSendEndTime - lSendStartTime >= interval
          reconnDue,  \* lReConnEndTime - lReConnStartTime >= 8
          connOK,     \* bConnOK
          inbox,      \* the server's messages in the socket
          owes,       \* messages of this connection the server has yet to answer
          greets      \* the server has yet to greet this connection

ownVars == <<at, interval, sendDue, reconnDue, connOK, inbox, owes, greets>>
linkVars == <<poolVars, ownVars>>

Places == {"reconnect", "connect", "send", "poll"}
Requests == {"validator", "cells"}
Intervals == {"init", "switch", "cells"}
Messages == {"greeting", "validated", "counted", "refused", "command"}

LinkTypeOK ==
    /\ TypeOK
    /\ at \in Places
    /\ interval \in Intervals
    /\ {sendDue, reconnDue, connOK, greets} \subseteq BOOLEAN
    /\ inbox \in Seq(Messages) /\ Len(inbox) <= MaxInbox
    /\ owes \subseteq Requests

Fd == pool.slots[1].fd
State == pool.slots[1].state

\* CreateTCPClient: the first connection is tried before the loop.
LinkInit ==
    /\ PoolInit
    /\ at = "connect"
    /\ interval = "init"
    /\ sendDue = FALSE /\ reconnDue = TRUE
    /\ connOK = FALSE
    /\ inbox = <<>> /\ owes = {} /\ greets = FALSE

-----------------------------------------------------------------------------
(* The server and the clock *)

Arrives(m) ==
    /\ Fd # NoFd /\ Len(inbox) < MaxInbox
    /\ \/ PeerSends(Fd)
       \/ peer[Fd] = "data" /\ UNCHANGED poolVars
    /\ inbox' = Append(inbox, m)

Greet ==
    /\ greets
    /\ Arrives("greeting")
    /\ greets' = FALSE
    /\ UNCHANGED <<at, interval, sendDue, reconnDue, connOK, owes>>

AnswerTo(r) == IF r = "validator" THEN "validated" ELSE "counted"

Answer(r) ==
    /\ r \in owes
    /\ Arrives(AnswerTo(r))
    /\ owes' = owes \ {r}
    /\ UNCHANGED <<at, interval, sendDue, reconnDue, connOK, greets>>

Answers == \E r \in Requests : Answer(r)

Refusal(r) ==
    /\ r \in owes
    /\ Arrives("refused")
    /\ owes' = owes \ {r}
    /\ UNCHANGED <<at, interval, sendDue, reconnDue, connOK, greets>>

Orders ==
    /\ Arrives("command")
    /\ UNCHANGED <<at, interval, sendDue, reconnDue, connOK, owes, greets>>

ServerLeaves ==
    /\ Fd # NoFd
    /\ PeerLeaves(Fd)
    /\ inbox' = <<>> /\ owes' = {} /\ greets' = FALSE
    /\ UNCHANGED <<at, interval, sendDue, reconnDue, connOK>>

SendTimer == /\ sendDue' = TRUE
             /\ UNCHANGED <<poolVars, at, interval, reconnDue, connOK, inbox, owes, greets>>

ReconnTimer == /\ reconnDue' = TRUE
               /\ UNCHANGED <<poolVars, at, interval, sendDue, connOK, inbox, owes, greets>>

-----------------------------------------------------------------------------
(* MonitorProcess *)

\* What was in the socket, and what the server owed, ends with the connection.
Dropped ==
    IF Connected(pool, 1)' THEN UNCHANGED <<inbox, owes, greets>>
    ELSE inbox' = <<>> /\ owes' = {} /\ greets' = FALSE

\* Mutant: nothing closes a connection whose peer has left.
CloseLeftNever ==
    /\ at = "reconnect"
    /\ at' = IF reconnDue THEN "connect" ELSE "send"
    /\ UNCHANGED <<poolVars, interval, sendDue, reconnDue, connOK, inbox, owes, greets>>

\* Lines 5466-5471.
CloseLeft ==
    /\ at = "reconnect"
    /\ at' = IF reconnDue THEN "connect" ELSE "send"
    /\ \/ reconnDue /\ State = {"connected", "disconnection"} /\ ConnPoolClose(1)
       \/ ~(reconnDue /\ State = {"connected", "disconnection"}) /\ UNCHANGED poolVars
    /\ Dropped
    /\ UNCHANGED <<interval, sendDue, reconnDue, connOK>>

\* Lines 5473-5484, and the first connection of CreateTCPClient.
Reconnect ==
    /\ at = "connect"
    /\ at' = "send"
    /\ \/ State = {} /\ ConnPoolConnect(1, "none")
       \/ State # {} /\ UNCHANGED poolVars
    /\ greets' = (Fd' \in watched' \ watched \/ greets)
    /\ reconnDue' = FALSE
    /\ UNCHANGED <<interval, sendDue, connOK, inbox, owes>>

\* Mutant: a failed send only resets the state of the slot.
SendingResets == /\ \E p \in {pool, [pool EXCEPT !.slots[1].state = {}]} : Becomes(p)
                 /\ UNCHANGED <<backlog, pc, todo>>

\* ap_net_conn_pool_send: a socket that was never connected gives EPIPE at
\* once, one whose peer has left may give it.
Sending == /\ \E p \in IF Fd # NoFd /\ peer[Fd] = "raw" THEN {CloseSlot(pool, 1)}
                       ELSE AfterSend(pool, 1) : Becomes(p)
           /\ UNCHANGED <<backlog, pc, todo>>

Reaches(r) == IF Connected(pool, 1)' /\ Fd # NoFd THEN owes' = owes \cup {r} ELSE owes' = {}

\* SwitchPro.
SwitchPro ==
    /\ at = "send" /\ State = {"connected"} /\ sendDue /\ interval \in {"init", "switch"}
    /\ Sending /\ Reaches("validator")
    /\ (IF Connected(pool, 1)' THEN UNCHANGED <<inbox, greets>> ELSE inbox' = <<>> /\ greets' = FALSE)
    /\ at' = "poll" /\ sendDue' = FALSE /\ interval' = "switch"
    /\ UNCHANGED <<reconnDue, connOK>>

\* CellInfoPro: the packs of one report are one message.
CellInfoPro ==
    /\ at = "send" /\ State = {"connected"} /\ sendDue /\ interval = "cells"
    /\ Sending /\ Reaches("cells")
    /\ (IF Connected(pool, 1)' THEN UNCHANGED <<inbox, greets>> ELSE inbox' = <<>> /\ greets' = FALSE)
    /\ at' = "poll" /\ sendDue' = FALSE
    /\ UNCHANGED <<interval, reconnDue, connOK>>

\* Lines 5538-5561: new cells are announced while the interval is that of
\* cell.info (NewCellReport).
NewCells ==
    /\ at = "send" /\ State = {"connected"} /\ ~sendDue
    /\ \/ UNCHANGED poolVars
       \/ interval = "cells" /\ Sending
    /\ Dropped
    /\ at' = "poll"
    /\ UNCHANGED <<interval, sendDue, reconnDue, connOK>>

\* The slot is free or its peer has left: neither sending nor polling.
Skip ==
    /\ at = "send" /\ State # {"connected"}
    /\ at' = "reconnect"
    /\ UNCHANGED <<poolVars, interval, sendDue, reconnDue, connOK, inbox, owes, greets>>

Polls ==
    /\ at = "poll"
    /\ Poll \/ PollQuits
    /\ at' = IF pc' = "idle" THEN "reconnect" ELSE "poll"
    /\ Dropped
    /\ UNCHANGED <<interval, sendDue, reconnDue, connOK>>

-----------------------------------------------------------------------------
(* ClientDataIn: recv() has taken every message, the first is read. *)

\* What follows a message: nothing is sent, or an answer, which may find the
\* peer gone.
Read(answered) ==
    /\ at = "poll"
    /\ \E p \in {pool} \cup (IF answered THEN {CloseSlot(pool, 1)} ELSE {}) : EventData(Fd, 1, p)
    /\ inbox' = <<>>
    /\ (IF Connected(pool, 1)' THEN UNCHANGED <<owes, greets>> ELSE owes' = {} /\ greets' = FALSE)
    /\ UNCHANGED <<at, sendDue, reconnDue>>

\* The first message ever is taken for the greeting, whatever it is.
FirstMessage ==
    /\ ~connOK
    /\ Read(FALSE)
    /\ connOK' = TRUE
    /\ UNCHANGED interval

\* Mutant: the interval after cell.info stays the one of cell.info.
NextIntervalCells(m) == IF m \in {"validated", "counted"} THEN "cells" ELSE interval

\* ParseReplay: the answer to one request makes the other the next.
NextInterval(m) == CASE m = "validated" -> "cells"
                     [] m = "counted"   -> "switch"
                     [] OTHER           -> interval

\* Answers to switch.validator and cell.info: ParseReplay with result true.
Accepted ==
    /\ connOK /\ inbox # <<>> /\ Head(inbox) \in {"validated", "counted"}
    /\ Read(FALSE)
    /\ interval' = NextInterval(Head(inbox))
    /\ UNCHANGED connOK

\* Commands are answered after they were carried out (Commands); a refusal and
\* the greeting of a later connection are answered with an error.
Replied ==
    /\ connOK /\ inbox # <<>> /\ Head(inbox) \in {"greeting", "refused", "command"}
    /\ Read(TRUE)
    /\ UNCHANGED <<connOK, interval>>

-----------------------------------------------------------------------------
MonitorProcess ==
    CloseLeft \/ Reconnect \/ SwitchPro \/ CellInfoPro \/ NewCells \/ Skip
        \/ Polls \/ FirstMessage \/ Accepted \/ Replied

LinkNext ==
    \/ Greet \/ Answers \/ Orders \/ ServerLeaves
    \/ \E r \in Requests : Refusal(r)
    \/ SendTimer \/ ReconnTimer
    \/ MonitorProcess

\* The thread loops for ever and its clocks go on.  Nothing promises that the end
\* of a connection is ever told from "no data": recv() leaves errno as it was, and
\* it may be EAGAIN at every poll (conn_pool_recv.c:74).
LinkSpec ==
    /\ LinkInit /\ [][LinkNext]_linkVars
    /\ WF_linkVars(MonitorProcess) /\ WF_linkVars(SendTimer) /\ WF_linkVars(ReconnTimer)

-----------------------------------------------------------------------------
(* Properties *)

Up == State = {"connected"} /\ Fd # NoFd /\ peer[Fd] \in {"quiet", "data"}

\* socket() failed, or the address could not be read.
Stuck == State = {"connected"} /\ Fd = NoFd

\* The server has left, and no poll has told the end from "no data".
Unseen == State = {"connected"} /\ Fd # NoFd /\ peer[Fd] = "eof"

\* The poll returned 0, and not because the step was another's.
PollFailed == at = "poll" /\ at' = "reconnect" /\ PollQuits

\* The server leaves while it is answered.
ReplyFails == Replied /\ State' = {}

ConnectFails == Reconnect /\ State = {} /\ ~Up'

\* The link calls the pool between two polls only, and its callback does no
\* more to the pool than ConnPool lets a callback do: a connection closed by a
\* failed send is never used again. Its own state keeps its types.
LinkUsesPool == PoolInit /\ [][Next]_poolVars /\ []LinkTypeOK

\* When connecting works and the server stays, the link comes up and stays up,
\* whatever happened before: ends noticed, sends that failed, sockets never bound
\* (api_monitor.c:5466-5484). Two ends keep the slot and are never connected
\* again: a socket() that failed, or an address that could not be read; and a
\* connection whose end stays unseen (conn_pool_recv.c:74), although the server
\* is there again. LinkRecovers refutes the promise without the second.
Settled == <>[][~ServerLeaves /\ ~ReplyFails /\ ~ConnectFails /\ ~PollFailed]_linkVars

LinkComesUp == Settled => <>[](Up \/ Stuck \/ Unseen)

LinkRecovers == Settled => <>[](Up \/ Stuck)

\* A server that answers, and sends nothing else, is told of the cells again
\* and again, and so is a server that is sent validators.
BothAreSent ==
    (/\ WF_linkVars(Answers)
     /\ <>[]Up
     /\ <>[][~Orders /\ ~(\E r \in Requests : Refusal(r)) /\ ~PollFailed]_linkVars)
        => []<>("cells" \in owes) /\ []<>("validator" \in owes)

\* "switch.validator is sent every 30 seconds, cell.info every 60"
\* (api_monitor.h:59). MonitorLinkStarved.cfg refutes it: a server that does
\* not answer cell.info is never sent switch.validator again.
ValidatorsAreSent == (<>[]Up /\ <>[][~PollFailed]_linkVars) => []<>("validator" \in owes)

=============================================================================
