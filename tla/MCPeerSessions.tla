--------------------------- MODULE MCPeerSessions ---------------------------
(* PeerSessions for TLC; the request threads are interchangeable.            *)
EXTENDS PeerSessions, TLC

ThreadSymmetry == Permutations(Thread)
=============================================================================
