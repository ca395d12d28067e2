----------------------------- MODULE MCCellPools -----------------------------
EXTENDS CellPools, TLC

CellSymmetry == Permutations(Cells)

\* What follows a wait that ended too soon is looked at up to the end of the
\* first command, what follows a setpool of the shell up to the beginning of it,
\* as no property speaks of more than types then. Cells are offline only while no
\* fault has happened, no insertion is owed and the last command has not begun,
\* and no fault is looked at while a cell is missed. No cell is still marked after
\* the last command, which gives pools of BTC alone, with no insertion owed. The
\* proofs have none of these.
Looked ==
    /\ Without({"late"}) \/ n < MaxCommands
    /\ Without({"shell"}) \/ n = 0
    /\ online = known \/ (odd = {} /\ owed = {} /\ n < MaxCommands)
    /\ missed = {} \/ odd = {}
    /\ n = MaxCommands =>
          /\ owed = {} /\ (Quiet => marked = {})
          /\ monitor.at \in {"clear", "cells"} => monitor.algos \subseteq {"BTC"}
=============================================================================
