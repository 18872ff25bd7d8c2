---------------------------- MODULE MC_WorkerPool ----------------------------
EXTENDS WorkerPool, TLC

Perms == Permutations(Workers) \union Permutations(PersistentIDs)
=============================================================================
