----------------------- MODULE MC_WebSocketTransport -----------------------
EXTENDS WebSocketTransport, TLC

Perms == Permutations(Sockets)
=============================================================================
