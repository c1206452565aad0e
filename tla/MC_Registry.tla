---------------------------- MODULE MC_Registry ----------------------------
(* Registry for TLC: two callers, schemes of the callers' own (one for    *)
(* the pass runs, two where two callers must write different values) and  *)
(* queries that hit the literal list, the appended potential list, a      *)
(* scheme the build lacks and an unknown name, in several letter cases.   *)
EXTENDS Registry

CONSTANTS c1, c2, m1, m2

MCCallers == {c1, c2}
MCMine == {m1, m2}
MCOneMine == {m1}
MCQueries ==
  { N("mlkem768-x25519", "mixed"), N("mlkem768-x25519", "lower"),
    N("ctidh512-x25519", "mixed"), N("ctidh512-x25519", "upper"),
    N("ctidh511", "lower"), N("nosuch", "lower") }
\* init()'s loops as the code runs them, one iteration at a time, for
\* comparison with the unrolled filter and the closed-form capacity of
\* Registry.
InitCapLoop[k \in Nat] ==
  IF k = 0 THEN Len(allSchemesLiteral)
  ELSE IF Len(allSchemesLiteral) + k - 1 < InitCapLoop[k - 1] THEN InitCapLoop[k - 1]
  ELSE GrowCap(InitCapLoop[k - 1], Len(allSchemesLiteral) + k)

ASSUME LoopsAgree ==
  /\ Available = SelectSeq(potentialSchemes, LAMBDA s : ~Skipped(s))
  /\ \A k \in 0 .. Len(potentialSchemes) : InitCap(k) = InitCapLoop[k]

MCNoCTIDH == {"ctidh511", "ctidh512", "ctidh1024", "ctidh2048"}
=============================================================================
