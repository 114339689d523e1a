--------------------------- MODULE MCCuckooFilter ---------------------------
(* A table of four buckets of two fingerprints (2^2 buckets instead of     *)
(* 2^14, 2 slots instead of 4) and keys that share fingerprints, buckets,  *)
(* both or neither.                                                        *)
EXTENDS CuckooFilter, Bitwise

MCXor(a, b) == a ^^ b

Hash(l, f) == [lo |-> l, hi |-> f]
CollidingKeys == {Hash(0, 1), Hash(2, 0), Hash(1, 1), Hash(4, 2), Hash(3, 4)}
CrowdedKeys == {Hash(0, 1), Hash(0, 2), Hash(0, 3), Hash(0, 4), Hash(1, 5),
                Hash(1, 6), Hash(1, 7), Hash(1, 9), Hash(0, 11)}
=============================================================================
