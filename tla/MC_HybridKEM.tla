---------------------------- MODULE MC_HybridKEM ----------------------------
(* HybridKEM for TLC: two components of different sizes, the first one     *)
(* malleable (a broken KEM), so that a slice at the wrong offset or a PRF  *)
(* branch that misses a ciphertext shows.                                  *)
EXTENDS HybridKEM

CONSTANTS A, B

MCComponents == {A, B}
\* Every size differs between A and B, and within a component the public
\* and private key sizes differ, as do the ciphertext and encapsulation
\* seed sizes, so a cut at the offset of another size shows.  The hybrid
\* sizes are all 3 bytes.
MCPkSize == [c \in MCComponents |-> IF c = A THEN 1 ELSE 2]
MCSkSize == [c \in MCComponents |-> IF c = A THEN 2 ELSE 1]
MCSdSize == [c \in MCComponents |-> IF c = A THEN 1 ELSE 2]
MCCtSize == [c \in MCComponents |-> IF c = A THEN 1 ELSE 2]
MCEsSize == [c \in MCComponents |-> IF c = A THEN 2 ELSE 1]
MCSsSize == [c \in MCComponents |-> 32]
MCMalleable == {A}
MCNoneMalleable == {}
=============================================================================
