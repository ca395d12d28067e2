--------------------------- MODULE OpenConnections ---------------------------
(***************************************************************************)
(* What a pool of Capacity slots promises: a set of open connections that  *)
(* never outgrows it. A slot may also be held with no connection in it,    *)
(* when opening one failed half-way; connections come one at a time and    *)
(* only while there is room.                                               *)
(***************************************************************************)
EXTENDS Naturals, FiniteSets

CONSTANTS Connections, Capacity

VARIABLES live,     \* the open connections
          held      \* slots held with no connection in them

vars == <<live, held>>

Init == live = {} /\ held = 0

Room == Cardinality(live) + held < Capacity

Open(c) ==
    /\ Room
    /\ c \notin live
    /\ live' = live \cup {c}
    /\ held' = held

Hold ==
    /\ Room
    /\ held' = held + 1
    /\ live' = live

Release ==
    /\ live' \subseteq live
    /\ held' \in 0 .. held

Next ==
    \/ \E c \in Connections : Open(c)
    \/ Hold
    \/ Release

Spec == Init /\ [][Next]_vars

=============================================================================
