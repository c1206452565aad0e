----------------------------- MODULE MC_Ed25519 -----------------------------
(* Ed25519 for TLC: two seeds, one message, and caller buffers holding a   *)
(* well-formed private key, one whose public half belongs to the other    *)
(* seed, a public key and a 32-byte string that is not a point.           *)
EXTENDS Ed25519

CONSTANTS s1, s2, m1

MCSeeds == {s1, s2}
MCMsgs == {m1}
MCInputs == << <<s1, PubOf(s1)>>, <<s1, PubOf(s2)>>, <<PubOf(s2)>>, <<Bad>> >>
MCPublicInputs == << <<PubOf(s2)>>, <<Bad>> >>
=============================================================================
