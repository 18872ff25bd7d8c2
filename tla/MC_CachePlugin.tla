-------------------------- MODULE MC_CachePlugin --------------------------
EXTENDS CachePlugin, TLC

Perms == Permutations(Calls) \union Permutations(Keys)
=============================================================================
