---------------------------- MODULE MCHashTable ----------------------------
(* All collision patterns of four keys over four hashes, in tables of two  *)
(* to eight slots; hash 7 makes probes wrap around.                        *)
EXTENDS HashTable

MCHashes == {0, 1, 3, 7}
MCValues == {1, 2}
KeySymmetry == Permutations(Keys)
=============================================================================
