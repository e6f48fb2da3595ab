--------------------------- MODULE MCPriorityQueue ---------------------------
EXTENDS PriorityQueue, TLC

TaskSymmetry == Permutations(Task)
=============================================================================
