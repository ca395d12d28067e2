---------------------------- MODULE MCCellReport ----------------------------
EXTENDS CellReport, TLC

CellSymmetry == Permutations(Cells)
=============================================================================
