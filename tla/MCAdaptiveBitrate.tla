------------------------- MODULE MCAdaptiveBitrate -------------------------
(* AdaptiveBitrate for TLC: peers and request threads are interchangeable.   *)
EXTENDS AdaptiveBitrate, TLC

Symmetry == Permutations(Peer) \cup Permutations(Thread)

============================================================================
