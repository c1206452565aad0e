--------------------------- MODULE Registry_proofs ---------------------------
EXTENDS Registry, SequenceTheorems, TLAPS

(***************************************************************************)
(* Proofs about schemes.go for every build and every set of callers:      *)
(* the facts about the two literal lists (no nil is registered, names are  *)
(* unique after case-folding), the inductive invariant IInv, and from it   *)
(* the theorems TypeCorrect, InitNeverPanics and ByNameCorrect.            *)
(***************************************************************************)

PrimValues == [name : SchemeNames, parts : {<<>>}]

LEMMA LitLen ==
  /\ Len(allSchemesLiteral) = 25 /\ DOMAIN allSchemesLiteral = 1 .. 25
  /\ Len(potentialSchemes) = 11 /\ DOMAIN potentialSchemes = 1 .. 11
BY DEF allSchemesLiteral, potentialSchemes

LEMMA TupleSeq ==
  ASSUME NEW S, NEW a \in S, NEW b \in S, NEW c \in S
  PROVE  <<a, b>> \in Seq(S) /\ <<a, b, c>> \in Seq(S)
<1>1. Seq(S) = UNION {[1 .. n -> S] : n \in Nat} BY SeqDef
<1>2. <<a, b>> \in [1 .. 2 -> S] /\ <<a, b, c>> \in [1 .. 3 -> S] OBVIOUS
<1> QED BY <1>1, <1>2

LEMMA PrimIn == \A p \in SchemeFolds : Prim(p) \in PrimValues /\ Prim(p) \in SchemeValues
BY DEF Prim, PrimValues, SchemeValues, SchemeNames, N

LEMMA AdapterIn == \A p \in SchemeFolds : Adapter(p) \in PrimValues \cup {Nil}
BY PrimIn DEF Adapter

LEMMA CombinerIn ==
  ASSUME NEW f \in SchemeFolds, NEW c \in {"lower", "mixed"},
         NEW k \in Seq(PrimValues \cup {Nil})
  PROVE  Combiner(N(f, c), k) \in SchemeValues
BY DEF Combiner, N, SchemeValues, SchemeNames, PrimValues

LEMMA LitValues ==
  \A i \in 1 .. 25 : allSchemesLiteral[i] \in SchemeValues
<1>1. \A p \in {"diffiehellman", "x25519", "x448"} : Adapter(p) = Prim(p)
  BY SchemesAssumption DEF Adapter
<1> DEFINE P == PrimValues \cup {Nil}
<1>2. /\ Combiner(N("kyber768-x25519", "mixed"), <<Adapter("x25519"), Prim("kyber768")>>) \in SchemeValues
      /\ Combiner(N("mlkem768-x25519", "mixed"), <<Adapter("x25519"), Prim("mlkem768")>>) \in SchemeValues
      /\ Combiner(N("x448-mceliece8192128f-mlkem768", "lower"),
                  <<Adapter("x448"), Prim("mceliece8192128f"), Prim("mlkem768")>>) \in SchemeValues
      /\ Combiner(N("sntrup4591761-x25519", "mixed"), <<Adapter("x25519"), Prim("sntrup")>>) \in SchemeValues
      /\ Combiner(N("x25519-mlkem768-sntrup4591761", "mixed"),
                  <<Adapter("x25519"), Prim("mlkem768"), Prim("sntrup")>>) \in SchemeValues
  <2>1. /\ Adapter("x25519") \in P /\ Adapter("x448") \in P
        /\ Prim("kyber768") \in P /\ Prim("mlkem768") \in P
        /\ Prim("mceliece8192128f") \in P /\ Prim("sntrup") \in P
    BY PrimIn, AdapterIn DEF SchemeFolds
  <2>2. /\ <<Adapter("x25519"), Prim("kyber768")>> \in Seq(P)
        /\ <<Adapter("x25519"), Prim("mlkem768")>> \in Seq(P)
        /\ <<Adapter("x448"), Prim("mceliece8192128f"), Prim("mlkem768")>> \in Seq(P)
        /\ <<Adapter("x25519"), Prim("sntrup")>> \in Seq(P)
        /\ <<Adapter("x25519"), Prim("mlkem768"), Prim("sntrup")>> \in Seq(P)
    BY <2>1, TupleSeq
  <2> QED BY <2>2, CombinerIn DEF SchemeFolds
<1>3. \A p \in SchemeFolds : Prim(p) \in SchemeValues BY PrimIn
<1> QED BY <1>1, <1>2, <1>3 DEF allSchemesLiteral, Hybrid, SchemeFolds
\* The case-folded names of a list, and their uniqueness (spec 4.6).
FoldSet(l) == {l[i].name.fold : i \in DOMAIN l}
UniqueFolds(l) == \A i, j \in DOMAIN l : l[i].name.fold = l[j].name.fold => i = j

\* Concatenating two lists with unique names and no name in common gives
\* a list with unique names.
LEMMA ConcatUnique ==
  ASSUME NEW s \in Seq(SchemeValues), NEW t \in Seq(SchemeValues),
         UniqueFolds(s), UniqueFolds(t), FoldSet(s) \cap FoldSet(t) = {}
  PROVE  /\ UniqueFolds(s \o t)
         /\ FoldSet(s \o t) = FoldSet(s) \cup FoldSet(t)
<1> DEFINE u == s \o t
<1>1. /\ Len(u) = Len(s) + Len(t) /\ DOMAIN u = 1 .. Len(s) + Len(t)
      /\ DOMAIN s = 1 .. Len(s) /\ DOMAIN t = 1 .. Len(t)
      /\ Len(s) \in Nat /\ Len(t) \in Nat
      /\ \A i \in 1 .. Len(s) + Len(t) :
           u[i] = IF i <= Len(s) THEN s[i] ELSE t[i - Len(s)]
  BY ConcatProperties, LenProperties
<1>2. UniqueFolds(u)
  <2> SUFFICES ASSUME NEW i \in DOMAIN u, NEW j \in DOMAIN u,
                      u[i].name.fold = u[j].name.fold
               PROVE  i = j
    BY DEF UniqueFolds
  <2>1. CASE i <= Len(s) /\ j <= Len(s) BY <2>1, <1>1 DEF UniqueFolds
  <2>2. CASE i > Len(s) /\ j > Len(s)
    <3>1. i - Len(s) \in DOMAIN t /\ j - Len(s) \in DOMAIN t BY <2>2, <1>1
    <3>2. t[i - Len(s)].name.fold = t[j - Len(s)].name.fold BY <2>2, <1>1
    <3> QED BY <3>1, <3>2, <1>1 DEF UniqueFolds
  <2>3. CASE i <= Len(s) /\ j > Len(s)
    <3>1. s[i].name.fold \in FoldSet(s) BY <2>3, <1>1 DEF FoldSet
    <3>2. t[j - Len(s)].name.fold \in FoldSet(t) BY <2>3, <1>1 DEF FoldSet
    <3> QED BY <2>3, <3>1, <3>2, <1>1
  <2>4. CASE i > Len(s) /\ j <= Len(s)
    <3>1. s[j].name.fold \in FoldSet(s) BY <2>4, <1>1 DEF FoldSet
    <3>2. t[i - Len(s)].name.fold \in FoldSet(t) BY <2>4, <1>1 DEF FoldSet
    <3> QED BY <2>4, <3>1, <3>2, <1>1
  <2> QED BY <2>1, <2>2, <2>3, <2>4, <1>1
<1>3. FoldSet(u) = FoldSet(s) \cup FoldSet(t)
  <2>1. FoldSet(u) \subseteq FoldSet(s) \cup FoldSet(t)
    BY <1>1 DEF FoldSet
  <2>2. FoldSet(s) \subseteq FoldSet(u)
    BY <1>1 DEF FoldSet
  <2>3. FoldSet(t) \subseteq FoldSet(u)
    <3> SUFFICES ASSUME NEW j \in DOMAIN t PROVE t[j].name.fold \in FoldSet(u)
      BY DEF FoldSet
    <3>1. j + Len(s) \in DOMAIN u /\ u[j + Len(s)] = t[j] BY <1>1
    <3> QED BY <3>1 DEF FoldSet
  <2> QED BY <2>1, <2>2, <2>3
<1> QED BY <1>2, <1>3

\* The case-folded names of potentialSchemes, entry by entry.
PotFolds ==
  << "ctidh511", "ctidh512", "ctidh1024", "ctidh2048",
     "x25519-mceliece8192128f-ctidh512", "x448-mceliece8192128f-ctidh512",
     "ctidh512-x25519", "ctidh1024-x25519", "ctidh2048-x25519",
     "x25519-mlkem768-ctidh512", "x25519-mlkem768-ctidh1024" >>

\* Every potential scheme is a scheme value named PotFolds[i], or nil.
LEMMA PotValues ==
  \A i \in 1 .. 11 : \/ potentialSchemes[i] = Nil
                     \/ /\ potentialSchemes[i] \in SchemeValues
                        /\ potentialSchemes[i].name.fold = PotFolds[i]
<1> DEFINE P == PrimValues \cup {Nil}
<1>1. \A p \in {"x25519", "x448", "ctidh512", "ctidh1024", "ctidh2048"} : Adapter(p) \in P
  BY AdapterIn DEF SchemeFolds
<1>2. Prim("mceliece8192128f") \in P /\ Prim("mlkem768") \in P
  BY PrimIn DEF SchemeFolds
<1>3. \A i \in 5 .. 11 : potentialSchemes[i] \in SchemeValues
  <2>1. /\ <<Adapter("x25519"), Prim("mceliece8192128f"), Adapter("ctidh512")>> \in Seq(P)
        /\ <<Adapter("x448"), Prim("mceliece8192128f"), Adapter("ctidh512")>> \in Seq(P)
        /\ <<Adapter("x25519"), Adapter("ctidh512")>> \in Seq(P)
        /\ <<Adapter("x25519"), Adapter("ctidh1024")>> \in Seq(P)
        /\ <<Adapter("x25519"), Adapter("ctidh2048")>> \in Seq(P)
        /\ <<Adapter("x25519"), Prim("mlkem768"), Adapter("ctidh512")>> \in Seq(P)
        /\ <<Adapter("x25519"), Prim("mlkem768"), Adapter("ctidh1024")>> \in Seq(P)
    BY <1>1, <1>2, TupleSeq
  <2>2. /\ Combiner(N("x25519-mceliece8192128f-ctidh512", "lower"),
                  <<Adapter("x25519"), Prim("mceliece8192128f"), Adapter("ctidh512")>>) \in SchemeValues
        /\ Combiner(N("x448-mceliece8192128f-ctidh512", "lower"),
                  <<Adapter("x448"), Prim("mceliece8192128f"), Adapter("ctidh512")>>) \in SchemeValues
        /\ Combiner(N("ctidh512-x25519", "mixed"), <<Adapter("x25519"), Adapter("ctidh512")>>) \in SchemeValues
        /\ Combiner(N("ctidh1024-x25519", "mixed"), <<Adapter("x25519"), Adapter("ctidh1024")>>) \in SchemeValues
        /\ Combiner(N("ctidh2048-x25519", "mixed"), <<Adapter("x25519"), Adapter("ctidh2048")>>) \in SchemeValues
        /\ Combiner(N("x25519-mlkem768-ctidh512", "mixed"),
                  <<Adapter("x25519"), Prim("mlkem768"), Adapter("ctidh512")>>) \in SchemeValues
        /\ Combiner(N("x25519-mlkem768-ctidh1024", "mixed"),
                  <<Adapter("x25519"), Prim("mlkem768"), Adapter("ctidh1024")>>) \in SchemeValues
    BY <2>1, CombinerIn DEF SchemeFolds
  <2> QED BY <2>2 DEF potentialSchemes
<1>4. \A i \in 1 .. 4 : \/ potentialSchemes[i] = Nil
                        \/ potentialSchemes[i] = Prim(PotFolds[i])
  BY DEF potentialSchemes, Adapter, PotFolds
<1>5. \A i \in 1 .. 4 : PotFolds[i] \in SchemeFolds
  BY DEF PotFolds, SchemeFolds
<1>6. \A i \in 1 .. 11 : potentialSchemes[i] # Nil => potentialSchemes[i].name.fold = PotFolds[i]
  BY DEF potentialSchemes, Adapter, Prim, Combiner, N, PotFolds
<1> QED BY <1>3, <1>4, <1>5, <1>6, PrimIn

\* The potential schemes have eleven different names.
LEMMA PotFoldsDistinct ==
  \A i, j \in 1 .. 11 : PotFolds[i] = PotFolds[j] => i = j
BY DEF PotFolds

\* What init()'s first loop has built after n passes: scheme values with
\* unique names, at most one per pass, each a potential scheme seen so far.
Good(s, n) ==
  /\ s \in Seq(SchemeValues)
  /\ Len(s) <= n
  /\ UniqueFolds(s)
  /\ FoldSet(s) \subseteq {PotFolds[j] : j \in 1 .. n}
  /\ \A k \in DOMAIN s : \E j \in 1 .. n : s[k] = potentialSchemes[j]

\* One pass of the loop keeps Good.
LEMMA KeptStep ==
  ASSUME NEW s, NEW n \in 0 .. 10, NEW i, i = n + 1, Good(s, n)
  PROVE  Good(s \o Kept(i), i)
<1> DEFINE p == potentialSchemes[i]
<1>0. /\ s \in Seq(SchemeValues) /\ Len(s) <= n /\ UniqueFolds(s)
      /\ FoldSet(s) \subseteq {PotFolds[j] : j \in 1 .. n}
      /\ \A k \in DOMAIN s : \E j \in 1 .. n : s[k] = potentialSchemes[j]
  BY DEF Good
<1>1. CASE p = Nil
  <2>1. s \o Kept(i) = s BY <1>1, <1>0, ConcatEmptySeq DEF Kept, Skipped
  <2>2. /\ s \in Seq(SchemeValues) /\ Len(s) <= i /\ UniqueFolds(s)
        /\ FoldSet(s) \subseteq {PotFolds[j] : j \in 1 .. i}
        /\ \A k \in DOMAIN s : \E j \in 1 .. i : s[k] = potentialSchemes[j]
    BY <1>0
  <2>3. Good(s, i) BY <2>2 DEF Good
  <2> QED BY <2>1, <2>3
<1>2. CASE p # Nil
  <2>1. p \in SchemeValues /\ p.name.fold = PotFolds[i] BY <1>2, PotValues
  <2>2. Kept(i) = <<p>> BY <1>2 DEF Kept, Skipped
  <2>3. <<p>> \in Seq(SchemeValues) /\ UniqueFolds(<<p>>) /\ FoldSet(<<p>>) = {PotFolds[i]}
    BY <2>1 DEF UniqueFolds, FoldSet
  <2>4. FoldSet(s) \cap FoldSet(<<p>>) = {}
    <3>1. \A j \in 1 .. n : PotFolds[j] # PotFolds[i] BY PotFoldsDistinct
    <3> QED BY <3>1, <2>3, <1>0
  <2>5. UniqueFolds(s \o <<p>>) /\ FoldSet(s \o <<p>>) = FoldSet(s) \cup {PotFolds[i]}
    <3>1. s \in Seq(SchemeValues) /\ UniqueFolds(s) BY <1>0
    <3> QED BY <3>1, <2>3, <2>4, ConcatUnique, Zenon
  <2>6. /\ s \o <<p>> \in Seq(SchemeValues) /\ Len(s \o <<p>>) = Len(s) + 1
        /\ \A k \in 1 .. Len(s) + 1 :
             (s \o <<p>>)[k] = IF k <= Len(s) THEN s[k] ELSE p
        /\ DOMAIN (s \o <<p>>) = 1 .. Len(s) + 1 /\ DOMAIN s = 1 .. Len(s)
    BY <2>3, <1>0, ConcatProperties, LenProperties
  <2>7. \A k \in DOMAIN (s \o <<p>>) : \E j \in 1 .. i : (s \o <<p>>)[k] = potentialSchemes[j]
    BY <2>6, <1>0
  <2>8. FoldSet(s) \cup {PotFolds[i]} \subseteq {PotFolds[j] : j \in 1 .. i}
    BY <1>0
  <2>9. Len(s \o <<p>>) <= i BY <2>6, <1>0
  <2>10. FoldSet(s \o <<p>>) \subseteq {PotFolds[j] : j \in 1 .. i} BY <2>5, <2>8
  <2>11. Good(s \o <<p>>, i) BY <2>5, <2>6, <2>7, <2>9, <2>10 DEF Good
  <2> QED BY <2>2, <2>11
<1> QED BY <1>1, <1>2

\* Available holds the non-nil potential schemes, with unique names, at
\* most eleven.
LEMMA AvailableGood == Good(Available, 11)
<1> DEFINE A1 == Kept(1)
           A2 == A1 \o Kept(2)
           A3 == A2 \o Kept(3)
           A4 == A3 \o Kept(4)
           A5 == A4 \o Kept(5)
           A6 == A5 \o Kept(6)
           A7 == A6 \o Kept(7)
           A8 == A7 \o Kept(8)
           A9 == A8 \o Kept(9)
           A10 == A9 \o Kept(10)
           A11 == A10 \o Kept(11)
<1>0. Good(<<>>, 0) BY DEF Good, UniqueFolds, FoldSet
<1>a. /\ 1 = 0 + 1 /\ 2 = 1 + 1 /\ 3 = 2 + 1 /\ 4 = 3 + 1 /\ 5 = 4 + 1 /\ 6 = 5 + 1
      /\ 7 = 6 + 1 /\ 8 = 7 + 1 /\ 9 = 8 + 1 /\ 10 = 9 + 1 /\ 11 = 10 + 1
      /\ {0, 1, 2, 3, 4, 5, 6, 7, 8, 9, 10} \subseteq 0 .. 10
  OBVIOUS
<1>1. Good(A1, 1)
  <2>1. Good(<<>> \o Kept(1), 1) BY <1>0, <1>a, KeptStep, Zenon
  <2>2. Kept(1) \in Seq({potentialSchemes[1]})
    <3>1. <<potentialSchemes[1]>> \in Seq({potentialSchemes[1]}) OBVIOUS
    <3>2. <<>> \in Seq({potentialSchemes[1]}) OBVIOUS
    <3> QED BY <3>1, <3>2 DEF Kept
  <2>3. <<>> \o Kept(1) = Kept(1) BY <2>2, ConcatEmptySeq
  <2> QED BY <2>1, <2>3
<1>2. Good(A2, 2) BY <1>1, <1>a, KeptStep, Zenon
<1>3. Good(A3, 3) BY <1>2, <1>a, KeptStep, Zenon
<1>4. Good(A4, 4) BY <1>3, <1>a, KeptStep, Zenon
<1>5. Good(A5, 5) BY <1>4, <1>a, KeptStep, Zenon
<1>6. Good(A6, 6) BY <1>5, <1>a, KeptStep, Zenon
<1>7. Good(A7, 7) BY <1>6, <1>a, KeptStep, Zenon
<1>8. Good(A8, 8) BY <1>7, <1>a, KeptStep, Zenon
<1>9. Good(A9, 9) BY <1>8, <1>a, KeptStep, Zenon
<1>10. Good(A10, 10) BY <1>9, <1>a, KeptStep, Zenon
<1>11. Good(A11, 11) BY <1>10, <1>a, KeptStep, Zenon
<1> QED BY <1>11 DEF Available

\* The case-folded names of the literal allSchemes, entry by entry.
LitFolds ==
  << "diffiehellman", "x25519", "x448", "mlkem768", "sntrup", "kyber512",
     "kyber768", "kyber1024", "frodo640shake", "mceliece348864",
     "mceliece348864f", "mceliece460896", "mceliece460896f", "mceliece6688128",
     "mceliece6688128f", "mceliece6960119", "mceliece6960119f",
     "mceliece8192128", "mceliece8192128f", "xwing", "kyber768-x25519",
     "mlkem768-x25519", "x448-mceliece8192128f-mlkem768", "sntrup4591761-x25519",
     "x25519-mlkem768-sntrup4591761" >>

LEMMA LitFoldsAre == \A i \in 1 .. 25 : allSchemesLiteral[i].name.fold = LitFolds[i]
<1>1. \A p \in {"diffiehellman", "x25519", "x448"} : Adapter(p) = Prim(p)
  BY SchemesAssumption DEF Adapter
<1> QED BY <1>1 DEF allSchemesLiteral, LitFolds, Prim, Hybrid, Combiner, N

\* The literal's 25 names differ from one another and from the names of
\* the potential schemes.
LEMMA LitFoldsDistinct ==
  /\ \A i, j \in 1 .. 25 : LitFolds[i] = LitFolds[j] => i = j
  /\ \A i \in 1 .. 25, j \in 1 .. 11 : LitFolds[i] # PotFolds[j]
BY DEF LitFolds, PotFolds

\* The literal allSchemes is a list of scheme values.
LEMMA LitSeq == allSchemesLiteral \in Seq(SchemeValues)
<1>1. allSchemesLiteral \in [1 .. 25 -> SchemeValues] BY LitValues DEF allSchemesLiteral
<1>2. Seq(SchemeValues) = UNION {[1 .. n -> SchemeValues] : n \in Nat} BY SeqDef
<1> QED BY <1>1, <1>2

\* The registered list (spec 4.6): scheme values of the two lists, none of
\* them nil, and no two with the same name after case-folding.
LEMMA RegisteredFacts ==
  /\ Registered \in Seq(SchemeValues)
  /\ Len(Registered) = 25 + Len(Available)
  /\ Len(Available) \in Nat /\ Len(Available) <= 11
  /\ DOMAIN Registered = 1 .. Len(Registered)
  /\ UniqueFolds(Registered)
  /\ \A i \in DOMAIN Registered : Registered[i] \in Schemes /\ Registered[i] # Nil
<1>1. allSchemesLiteral \in Seq(SchemeValues) BY LitSeq
<1>2. UniqueFolds(allSchemesLiteral)
  <2> SUFFICES ASSUME NEW i \in 1 .. 25, NEW j \in 1 .. 25,
                      allSchemesLiteral[i].name.fold = allSchemesLiteral[j].name.fold
               PROVE  i = j
    BY LitLen DEF UniqueFolds
  <2>1. LitFolds[i] = LitFolds[j] BY LitFoldsAre
  <2> QED BY <2>1, LitFoldsDistinct
<1>3. FoldSet(allSchemesLiteral) \cap FoldSet(Available) = {}
  <2>1. FoldSet(Available) \subseteq {PotFolds[j] : j \in 1 .. 11} BY AvailableGood DEF Good
  <2>2. FoldSet(allSchemesLiteral) = {LitFolds[i] : i \in 1 .. 25}
    BY LitFoldsAre, LitLen DEF FoldSet
  <2> QED BY <2>1, <2>2, LitFoldsDistinct
<1>4. /\ Available \in Seq(SchemeValues) /\ UniqueFolds(Available) /\ Len(Available) <= 11
      /\ \A k \in DOMAIN Available : \E j \in 1 .. 11 : Available[k] = potentialSchemes[j]
  BY AvailableGood DEF Good
<1>5. UniqueFolds(Registered) BY <1>1, <1>2, <1>3, <1>4, ConcatUnique DEF Registered
<1>6. /\ Registered \in Seq(SchemeValues)
      /\ Len(Registered) = 25 + Len(Available)
      /\ DOMAIN Registered = 1 .. Len(Registered)
      /\ \A k \in 1 .. Len(Registered) :
           Registered[k] = IF k <= 25 THEN allSchemesLiteral[k] ELSE Available[k - 25]
      /\ Len(Available) \in Nat /\ DOMAIN Available = 1 .. Len(Available)
  <2>1. /\ allSchemesLiteral \o Available \in Seq(SchemeValues)
        /\ Len(allSchemesLiteral \o Available) = Len(allSchemesLiteral) + Len(Available)
        /\ \A k \in 1 .. Len(allSchemesLiteral) + Len(Available) :
             (allSchemesLiteral \o Available)[k] =
               IF k <= Len(allSchemesLiteral) THEN allSchemesLiteral[k]
               ELSE Available[k - Len(allSchemesLiteral)]
    BY <1>1, <1>4, ConcatProperties
  <2>2. /\ Len(Available) \in Nat /\ DOMAIN Available = 1 .. Len(Available)
        /\ DOMAIN (allSchemesLiteral \o Available) = 1 .. Len(allSchemesLiteral \o Available)
    BY <1>4, <2>1, LenProperties
  <2> QED BY <2>1, <2>2, LitLen DEF Registered
<1>7. \A i \in DOMAIN Registered : Registered[i] \in Schemes
  <2> SUFFICES ASSUME NEW i \in DOMAIN Registered PROVE Registered[i] \in Schemes
    OBVIOUS
  <2>1. CASE i <= 25
    <3>a. DOMAIN Registered = 1 .. Len(Registered) BY <1>6
    <3>b. i \in 1 .. Len(Registered) BY <3>a
    <3>c. i \in Nat /\ 1 <= i BY <3>b, <1>6
    <3>0. i \in 1 .. 25 BY <3>c, <2>1
    <3>d. Registered[i] = IF i <= 25 THEN allSchemesLiteral[i] ELSE Available[i - 25]
      BY <3>b, <1>6
    <3>1. Registered[i] = allSchemesLiteral[i] /\ i \in DOMAIN allSchemesLiteral
      BY <3>0, <3>d, <2>1, LitLen
    <3> QED BY <3>1 DEF Schemes
  <2>2. CASE ~(i <= 25)
    <3>1. i - 25 \in DOMAIN Available /\ Registered[i] = Available[i - 25] BY <2>2, <1>6
    <3>2. PICK j \in 1 .. 11 : Registered[i] = potentialSchemes[j] BY <3>1, <1>4
    <3>3. j \in DOMAIN potentialSchemes BY LitLen
    <3> QED BY <3>2, <3>3 DEF Schemes
  <2> QED BY <2>1, <2>2
<1>8. \A i \in DOMAIN Registered : Registered[i] # Nil
  BY <1>6, SchemesAssumption, ElementOfSeq
<1>9. Len(Available) <= 11 BY AvailableGood DEF Good
<1> QED BY <1>5, <1>6, <1>7, <1>8, <1>9

\* What ByName reads from the map init() builds is what spec 4.6's lookup
\* returns: the one registered scheme of the query's name, nil if none.
LEMMA NameMapLookup ==
  ASSUME NEW q \in Names
  PROVE  (IF ToLower(q) \in DOMAIN NameMap(Registered)
          THEN NameMap(Registered)[ToLower(q)] ELSE Nil) = Lookup(Registered, q)
<1> DEFINE R == Registered
           key == ToLower(q)
<1>1. /\ UniqueFolds(R) /\ R \in Seq(SchemeValues)
      /\ \A i \in DOMAIN R : R[i].name \in SchemeNames
  <2>1. UniqueFolds(R) /\ R \in Seq(SchemeValues) BY RegisteredFacts
  <2>2. \A i \in DOMAIN R : R[i] \in SchemeValues
    BY <2>1, RegisteredFacts, ElementOfSeq
  <2> QED BY <2>1, <2>2 DEF SchemeValues
<1>2. \A i \in DOMAIN R : ToLower(R[i].name) = key <=> R[i].name.fold = q.fold
  <2> SUFFICES ASSUME NEW i \in DOMAIN R
               PROVE  ToLower(R[i].name) = ToLower(q) <=> R[i].name.fold = q.fold
    OBVIOUS
  <2>1. R[i].name \in [fold : SchemeFolds, case : {"lower", "mixed"}]
    BY <1>1 DEF SchemeNames
  <2>2. q \in [fold : STRING, case : STRING] BY DEF Names
  <2>3. ToLower(R[i].name) = [fold |-> R[i].name.fold, case |-> "lower"]
    BY <2>1 DEF ToLower
  <2>4. ToLower(q) = [fold |-> q.fold, case |-> "lower"] BY <2>2 DEF ToLower
  <2> QED BY <2>3, <2>4
<1>3. DOMAIN NameMap(R) = {ToLower(R[i].name) : i \in DOMAIN R} BY DEF NameMap
<1>4. CASE \E i \in DOMAIN R : R[i].name.fold = q.fold
  <2>1. PICK i \in DOMAIN R : R[i].name.fold = q.fold BY <1>4
  <2>2. \A j \in DOMAIN R : R[j].name.fold = q.fold <=> j = i
    BY <2>1, <1>1 DEF UniqueFolds
  <2>3. key \in DOMAIN NameMap(R) BY <2>1, <1>2, <1>3
  <2>4. LastWith(R, key) = i
    <3>1. \A j \in DOMAIN R : (/\ ToLower(R[j].name) = key
                               /\ \A m \in DOMAIN R : ToLower(R[m].name) = key => m <= j)
                               <=> j = i
      BY <2>2, <1>2, <1>1, RegisteredFacts
    <3> QED BY <3>1 DEF LastWith
  <2>5. NameMap(R)[key] = R[i] BY <2>3, <2>4 DEF NameMap
  <2>6. Lookup(R, q) = R[i] BY <2>1, <2>2 DEF Lookup
  <2> QED BY <2>3, <2>5, <2>6
<1>5. CASE ~\E i \in DOMAIN R : R[i].name.fold = q.fold
  <2>1. key \notin DOMAIN NameMap(R) BY <1>5, <1>2, <1>3
  <2>2. Lookup(R, q) = Nil BY <1>5 DEF Lookup
  <2> QED BY <2>1, <2>2
<1> QED BY <1>4, <1>5

-----------------------------------------------------------------------------
(* The inductive invariant.                                                *)

\* Before init() the package variables hold their initialisers and no
\* caller has called anything; afterwards the map indexes the registered
\* list; every slice header stays within its backing array; and every
\* answer of ByName is the registered scheme of its query.
IInv ==
  /\ TypeOK
  /\ phase \in {"boot", "ready"}
  /\ phase = "boot" =>
       /\ heap = <<allSchemesLiteral>>
       /\ allSchemes = Header(1, Len(allSchemesLiteral))
       /\ names = [k \in {} |-> Nil]
       /\ held = [c \in Callers |-> None]
       /\ got = [c \in Callers |-> None]
  /\ phase = "ready" => names = NameMap(Registered)
  /\ allSchemes.len <= Len(heap[allSchemes.arr])
  /\ \A c \in Callers : held[c] # None => held[c].len <= Len(heap[held[c].arr])
  /\ LookupCorrect

\* The elements the heap may hold.
Elems == Schemes \cup Mine \cup {Nil}

\* A scheme's name indexes that scheme: the registered names are unique,
\* so LastWith finds the one entry of that name.
LEMMA LastWithIs ==
  \A i \in DOMAIN Registered :
    LastWith(Registered, ToLower(Registered[i].name)) = i
<1> DEFINE R == Registered
<1> SUFFICES ASSUME NEW i \in DOMAIN R
             PROVE  LastWith(R, ToLower(R[i].name)) = i
  OBVIOUS
<1>1. /\ UniqueFolds(R) /\ R \in Seq(SchemeValues)
      /\ DOMAIN R = 1 .. Len(R) /\ Len(R) \in Nat
  BY RegisteredFacts
<1>2. \A j \in DOMAIN R : R[j].name \in [fold : SchemeFolds, case : {"lower", "mixed"}]
  <2> SUFFICES ASSUME NEW j \in DOMAIN R PROVE R[j].name \in SchemeNames
    BY DEF SchemeNames
  <2>1. R[j] \in SchemeValues BY <1>1, ElementOfSeq
  <2> QED BY <2>1 DEF SchemeValues
<1>3. \A j \in DOMAIN R : ToLower(R[j].name) = [fold |-> R[j].name.fold, case |-> "lower"]
  BY <1>2 DEF ToLower
<1>4. \A j \in DOMAIN R : ToLower(R[j].name) = ToLower(R[i].name) <=> j = i
  <2>1. \A j \in DOMAIN R :
          ToLower(R[j].name) = ToLower(R[i].name) <=> R[j].name.fold = R[i].name.fold
    <3> SUFFICES ASSUME NEW j \in DOMAIN R
                 PROVE  ToLower(R[j].name) = ToLower(R[i].name) <=> R[j].name.fold = R[i].name.fold
      OBVIOUS
    <3>1. ToLower(R[j].name) = [fold |-> R[j].name.fold, case |-> "lower"] BY <1>3
    <3>2. ToLower(R[i].name) = [fold |-> R[i].name.fold, case |-> "lower"] BY <1>3
    <3> QED BY <3>1, <3>2
  <2> QED BY <2>1, <1>1 DEF UniqueFolds
<1>5. \A j \in DOMAIN R :
        (/\ ToLower(R[j].name) = ToLower(R[i].name)
         /\ \A m \in DOMAIN R : ToLower(R[m].name) = ToLower(R[i].name) => m <= j)
        <=> j = i
  BY <1>4, <1>1
<1> QED BY <1>5 DEF LastWith

\* The map init() builds has lower-case keys and registered schemes.
LEMMA NameMapTyped ==
  \A key \in DOMAIN NameMap(Registered) :
    key.case = "lower" /\ NameMap(Registered)[key] \in Schemes
<1> DEFINE R == Registered
<1> SUFFICES ASSUME NEW i \in DOMAIN R
             PROVE  /\ ToLower(R[i].name).case = "lower"
                    /\ NameMap(R)[ToLower(R[i].name)] \in Schemes
  BY DEF NameMap
<1>1. R[i] \in SchemeValues /\ R[i] \in Schemes BY RegisteredFacts, ElementOfSeq
<1>2. ToLower(R[i].name).case = "lower" BY <1>1 DEF SchemeValues, SchemeNames, ToLower
<1>3. NameMap(R)[ToLower(R[i].name)] = R[i] BY LastWithIs DEF NameMap
<1> QED BY <1>1, <1>2, <1>3

\* A fixed-size array of elements is a sequence of them.
LEMMA ArrayIsSeq ==
  ASSUME NEW S, NEW n \in Nat, NEW f \in [1 .. n -> S]
  PROVE  f \in Seq(S)
<1>1. Seq(S) = UNION {[1 .. m -> S] : m \in Nat} BY SeqDef
<1> QED BY <1>1

\* The package variables as their initialisers leave them satisfy IInv.
LEMMA InitIInv == Init => IInv
<1> SUFFICES ASSUME Init PROVE IInv OBVIOUS
<1>1. allSchemesLiteral \in Seq(Elems)
  <2>0. allSchemesLiteral \in [1 .. 25 -> SchemeValues] BY LitSeq, LitLen, LenProperties
  <2>1. allSchemesLiteral \in [1 .. 25 -> Elems] BY <2>0, LitLen DEF Schemes, Elems
  <2> QED BY <2>1, ArrayIsSeq
<1>2. heap \in Seq(Seq(Elems)) /\ Len(heap[1]) = 25 /\ DOMAIN heap = {1}
  <2>1. heap = <<allSchemesLiteral>> BY DEF Init
  <2> QED BY <2>1, <1>1, LitLen
<1>3. TypeOK
  BY <1>2, LitLen, ConstantsAssumption DEF Init, TypeOK, Elems, Header, Headers
<1>4. LookupCorrect BY ConstantsAssumption DEF Init, LookupCorrect
<1>5. allSchemes.len <= Len(heap[allSchemes.arr])
  <2>1. allSchemes.arr = 1 /\ allSchemes.len = 25 BY LitLen DEF Init, Header
  <2> QED BY <2>1, <1>2
<1>6. \A c \in Callers : held[c] # None => held[c].len <= Len(heap[held[c].arr])
  BY DEF Init
<1>7. phase = "boot" /\ phase \in {"boot", "ready"} BY DEF Init
<1>8. /\ heap = <<allSchemesLiteral>>
      /\ allSchemes = Header(1, Len(allSchemesLiteral))
      /\ names = [k \in {} |-> Nil]
      /\ held = [c \in Callers |-> None]
      /\ got = [c \in Callers |-> None]
  BY DEF Init
<1> QED BY <1>3, <1>4, <1>5, <1>6, <1>7, <1>8 DEF IInv

\* ByName answers from the map init() built: spec 4.6's lookup.
LEMMA ByNameIInv ==
  ASSUME IInv, NEW c \in Callers, NEW q \in Queries, ByName(c, q)
  PROVE  IInv'
<1> DEFINE ans == IF ToLower(q) \in DOMAIN names THEN names[ToLower(q)] ELSE Nil
<1>1. phase = "ready" /\ names = NameMap(Registered) BY DEF ByName, IInv
<1>2. ans = Lookup(Registered, q) BY <1>1, NameMapLookup, SchemesAssumption
<1>3. ans \in Schemes \cup {Nil} BY <1>1, NameMapTyped
<1>4. got' = [got EXCEPT ![c] = [query |-> q, scheme |-> ans]] BY DEF ByName
<1>5. UNCHANGED <<phase, heap, allSchemes, names, held, mutations>> BY DEF ByName
<1>6. TypeOK' BY <1>3, <1>4, <1>5 DEF IInv, TypeOK
<1>7. LookupCorrect'
  <2>1. got \in [Callers -> {None} \cup [query : Queries, scheme : Schemes \cup {Nil}]]
    BY DEF IInv, TypeOK
  <2> QED BY <1>2, <1>4, <2>1 DEF IInv, LookupCorrect
<1> QED BY <1>1, <1>5, <1>6, <1>7 DEF IInv

\* All hands out the header of allSchemes itself.
LEMMA AllIInv ==
  ASSUME IInv, NEW c \in Callers, All(c)
  PROVE  IInv'
<1>1. phase = "ready" /\ held' = [held EXCEPT ![c] = allSchemes] BY DEF All
<1>2. UNCHANGED <<phase, heap, allSchemes, names, got, mutations>> BY DEF All
<1>3. allSchemes \in Headers /\ allSchemes.arr \in DOMAIN heap
      /\ held \in [Callers -> Headers \cup {None}]
      /\ allSchemes.len <= Len(heap[allSchemes.arr])
  BY DEF IInv, TypeOK
<1>4. TypeOK' BY <1>1, <1>2, <1>3 DEF IInv, TypeOK
<1>5. \A d \in Callers : held'[d] # None => held'[d].len <= Len(heap'[held'[d].arr])
  BY <1>1, <1>2, <1>3 DEF IInv
<1> QED BY <1>1, <1>2, <1>3, <1>4, <1>5 DEF IInv, LookupCorrect

\* A step that changes nothing keeps IInv.
LEMMA StutterIInv ==
  ASSUME IInv, UNCHANGED vars
  PROVE  IInv'
BY DEF IInv, vars, TypeOK, LookupCorrect

\* Writing one element of one array in place keeps the heap's shape.
LEMMA HeapWrite ==
  ASSUME NEW H \in Seq(Seq(Elems)), NEW a \in DOMAIN H, NEW i \in 1 .. Len(H[a]),
         NEW x \in Elems
  PROVE  /\ [H EXCEPT ![a][i] = x] \in Seq(Seq(Elems))
         /\ DOMAIN [H EXCEPT ![a][i] = x] = DOMAIN H
         /\ \A b \in DOMAIN H : Len([H EXCEPT ![a][i] = x][b]) = Len(H[b])
<1>1. a \in 1 .. Len(H) /\ DOMAIN H = 1 .. Len(H) BY LenProperties
<1>2. H[a] \in Seq(Elems) BY <1>1, ElementOfSeq
<1> DEFINE row == [H[a] EXCEPT ![i] = x]
<1>3. row \in Seq(Elems) /\ Len(row) = Len(H[a]) BY <1>2, ExceptSeq
<1>4. [H EXCEPT ![a][i] = x] = [H EXCEPT ![a] = row] OBVIOUS
<1>5. /\ [H EXCEPT ![a] = row] \in Seq(Seq(Elems))
      /\ Len([H EXCEPT ![a] = row]) = Len(H)
      /\ \A b \in 1 .. Len(H) : [H EXCEPT ![a] = row][b] = IF b = a THEN row ELSE H[b]
  BY <1>1, <1>3, ExceptSeq
<1>6. DOMAIN [H EXCEPT ![a] = row] = DOMAIN H OBVIOUS
<1> QED BY <1>1, <1>3, <1>4, <1>5, <1>6

\* A caller's s[i] = x writes into the array its slice shares.
LEMMA SetIndexIInv ==
  ASSUME IInv, NEW c \in Callers, NEW i, NEW x \in Mine, SetIndex(c, i, x)
  PROVE  IInv'
<1> DEFINE a == held[c].arr
<1>1. /\ held[c] # None /\ mutations < MaxMutations /\ i \in 1 .. held[c].len
      /\ heap' = [heap EXCEPT ![a][i] = x] /\ mutations' = mutations + 1
      /\ UNCHANGED <<phase, allSchemes, names, held, got>>
  BY DEF SetIndex
<1>2. /\ heap \in Seq(Seq(Elems)) /\ a \in DOMAIN heap /\ held[c].len <= Len(heap[a])
      /\ held[c] \in Headers /\ x \in Elems
  BY <1>1 DEF IInv, TypeOK, Elems
<1>3. i \in 1 .. Len(heap[a]) BY <1>1, <1>2 DEF Headers
<1>4. /\ heap' \in Seq(Seq(Elems))
      /\ DOMAIN heap' = DOMAIN heap
      /\ \A b \in DOMAIN heap : Len(heap'[b]) = Len(heap[b])
  BY <1>1, <1>2, <1>3, HeapWrite
<1>5. phase = "ready" BY <1>1 DEF IInv
<1>6. mutations' \in 0 .. MaxMutations BY <1>1, ConstantsAssumption DEF IInv, TypeOK
<1>7. TypeOK' BY <1>1, <1>4, <1>6 DEF IInv, TypeOK, Elems
<1>8. /\ allSchemes'.len <= Len(heap'[allSchemes'.arr])
      /\ \A d \in Callers : held'[d] # None => held'[d].len <= Len(heap'[held'[d].arr])
  BY <1>1, <1>4 DEF IInv, TypeOK
<1> QED BY <1>1, <1>5, <1>7, <1>8 DEF IInv, LookupCorrect

\* A caller's s = append(s, x): in place while s has capacity, into a new
\* array of GrowCap elements otherwise.
LEMMA AppendToIInv ==
  ASSUME IInv, NEW c \in Callers, NEW x \in Mine, AppendTo(c, x)
  PROVE  IInv'
<1> DEFINE h == held[c]
           a == h.arr
           L == Len(heap[a])
<1>1. /\ h # None /\ mutations < MaxMutations
      /\ held' = [held EXCEPT ![c] = AppendSlice(h, x).hdr]
      /\ heap' = AppendSlice(h, x).heap
      /\ mutations' = mutations + 1
      /\ UNCHANGED <<phase, allSchemes, names, got>>
  BY DEF AppendTo
<1>2. /\ heap \in Seq(Seq(Elems)) /\ a \in DOMAIN heap /\ h.len <= L
      /\ h \in Headers /\ x \in Elems /\ DOMAIN heap = 1 .. Len(heap)
      /\ heap[a] \in Seq(Elems) /\ L \in Nat
  <2>1. heap \in Seq(Seq(Elems)) /\ a \in DOMAIN heap /\ h.len <= L /\ h \in Headers
    BY <1>1 DEF IInv, TypeOK, Elems
  <2>2. DOMAIN heap = 1 .. Len(heap) BY <2>1, LenProperties
  <2>3. heap[a] \in Seq(Elems) BY <2>1, <2>2, ElementOfSeq
  <2> QED BY <2>1, <2>2, <2>3, LenProperties DEF Elems
<1>3. phase = "ready" BY <1>1 DEF IInv
<1>4. mutations' \in 0 .. MaxMutations BY <1>1, ConstantsAssumption DEF IInv, TypeOK
\* What the step does to the heap and to c's header, in either branch.
<1>5. /\ heap' \in Seq(Seq(Elems))
      /\ DOMAIN heap \subseteq DOMAIN heap'
      /\ \A b \in DOMAIN heap : b # a => heap'[b] = heap[b]
      /\ Len(heap'[a]) = L
      /\ held'[c] \in Headers /\ held'[c].arr \in DOMAIN heap'
      /\ held'[c].len <= Len(heap'[held'[c].arr])
  <2>1. CASE h.len < L
    <3>0. AppendSlice(h, x) = [hdr |-> Header(a, h.len + 1),
                               heap |-> [heap EXCEPT ![a][h.len + 1] = x]]
      BY <2>1 DEF AppendSlice
    <3>1. heap' = [heap EXCEPT ![a][h.len + 1] = x]
          /\ held'[c] = Header(a, h.len + 1)
      BY <3>0, <1>1 DEF IInv, TypeOK
    <3>2. h.len + 1 \in 1 .. L BY <2>1, <1>2 DEF Headers
    <3>3. /\ heap' \in Seq(Seq(Elems))
          /\ DOMAIN heap' = DOMAIN heap
          /\ \A b \in DOMAIN heap : Len(heap'[b]) = Len(heap[b])
      BY <3>1, <3>2, <1>2, HeapWrite
    <3>4. \A b \in DOMAIN heap : b # a => heap'[b] = heap[b] BY <3>1
    <3> QED BY <3>1, <3>2, <3>3, <3>4, <1>2 DEF Header, Headers
  <2>2. CASE ~(h.len < L)
    <3> DEFINE cap == GrowCap(L, h.len + 1)
               arr == [i \in 1 .. cap |-> IF i <= h.len THEN heap[a][i]
                                          ELSE IF i = h.len + 1 THEN x ELSE Nil]
    <3>0. AppendSlice(h, x) = [hdr |-> Header(Len(heap) + 1, h.len + 1),
                               heap |-> Append(heap, arr)]
      BY <2>2 DEF AppendSlice
    <3>1. heap' = Append(heap, arr) /\ held'[c] = Header(Len(heap) + 1, h.len + 1)
      BY <3>0, <1>1 DEF IInv, TypeOK
    <3>2. h.len = L /\ cap \in Nat /\ cap >= h.len + 1
      BY <2>2, <1>2 DEF Headers, GrowCap
    <3>3. arr \in Seq(Elems)
      <4>1. \A i \in 1 .. h.len : heap[a][i] \in Elems BY <3>2, <1>2, ElementOfSeq
      <4>2. arr \in [1 .. cap -> Elems] BY <4>1 DEF Elems
      <4> QED BY <4>2, <3>2, ArrayIsSeq
    <3>4. /\ Append(heap, arr) \in Seq(Seq(Elems))
          /\ Len(Append(heap, arr)) = Len(heap) + 1
          /\ \A b \in 1 .. Len(heap) + 1 :
               Append(heap, arr)[b] = IF b <= Len(heap) THEN heap[b] ELSE arr
          /\ DOMAIN Append(heap, arr) = 1 .. Len(heap) + 1
      <5>1. /\ Append(heap, arr) \in Seq(Seq(Elems))
            /\ Len(Append(heap, arr)) = Len(heap) + 1
            /\ \A b \in 1 .. Len(heap) + 1 :
                 Append(heap, arr)[b] = IF b <= Len(heap) THEN heap[b] ELSE arr
        BY <3>3, <1>2, AppendProperties
      <5> QED BY <5>1, LenProperties
    <3>5. Len(arr) = cap BY <3>2
    <3>6. heap' \in Seq(Seq(Elems)) /\ DOMAIN heap \subseteq DOMAIN heap'
      BY <3>1, <3>4, <1>2
    <3>7. \A b \in DOMAIN heap : b # a => heap'[b] = heap[b]
      BY <3>1, <3>4, <1>2
    <3>8. Len(heap'[a]) = L BY <3>1, <3>4, <1>2
    <3>9. /\ held'[c] \in Headers /\ held'[c].arr \in DOMAIN heap'
          /\ held'[c].len <= Len(heap'[held'[c].arr])
      <4>1. held'[c] = [arr |-> Len(heap) + 1, len |-> h.len + 1] BY <3>1 DEF Header
      <4>2. heap'[Len(heap) + 1] = arr /\ Len(heap) + 1 \in DOMAIN heap'
        BY <3>1, <3>4, <1>2
      <4> QED BY <4>1, <4>2, <3>2, <3>5 DEF Headers
    <3> QED BY <3>6, <3>7, <3>8, <3>9
  <2> QED BY <2>1, <2>2
<1>6. TypeOK'
  <2>1. heap' \in Seq(Seq(Schemes \cup Mine \cup {Nil})) BY <1>5 DEF Elems
  <2>2. allSchemes' \in Headers /\ allSchemes'.arr \in DOMAIN heap' BY <1>1, <1>5 DEF IInv, TypeOK
  <2>3. held' \in [Callers -> Headers \cup {None}] BY <1>1, <1>5 DEF IInv, TypeOK
  <2>4. \A d \in Callers : held'[d] # None => held'[d].arr \in DOMAIN heap'
    BY <1>1, <1>5 DEF IInv, TypeOK
  <2> QED BY <1>1, <1>4, <2>1, <2>2, <2>3, <2>4 DEF IInv, TypeOK
<1>7. \A b \in DOMAIN heap : Len(heap'[b]) = Len(heap[b]) BY <1>5
<1>8. allSchemes'.len <= Len(heap'[allSchemes'.arr]) BY <1>1, <1>7 DEF IInv, TypeOK
<1>9. \A d \in Callers : held'[d] # None => held'[d].len <= Len(heap'[held'[d].arr])
  BY <1>1, <1>5, <1>7 DEF IInv, TypeOK
<1> QED BY <1>1, <1>3, <1>6, <1>8, <1>9 DEF IInv, LookupCorrect

\* init() appends the available potential schemes and indexes them all; it
\* never reaches Name() on a nil scheme.
LEMMA PackageInitIInv ==
  ASSUME IInv, PackageInit
  PROVE  IInv'
<1> DEFINE k == Len(Available)
           grown == [i \in 1 .. InitCap(k) |->
                     IF i <= Len(Registered) THEN Registered[i] ELSE Nil]
<1>0. allSchemesLiteral \o Available = Registered BY DEF Registered
<1>1. /\ phase = "boot"
      /\ heap = <<allSchemesLiteral>> /\ allSchemes = Header(1, 25)
      /\ held = [c \in Callers |-> None] /\ got = [c \in Callers |-> None]
  BY LitLen DEF PackageInit, IInv
<1>2. /\ heap' = IF k = 0 THEN heap ELSE Append(heap, grown)
      /\ allSchemes' = Header(IF k = 0 THEN 1 ELSE 2, Len(Registered))
      /\ IF \E i \in DOMAIN Registered : Registered[i] = Nil
         THEN phase' = "panicked" /\ UNCHANGED names
         ELSE phase' = "ready" /\ names' = NameMap(Registered)
      /\ UNCHANGED <<held, got, mutations>>
  BY <1>0 DEF PackageInit
<1>3. /\ Len(Registered) = 25 + k /\ k \in Nat /\ k <= 11
      /\ DOMAIN Registered = 1 .. Len(Registered)
      /\ \A i \in DOMAIN Registered : Registered[i] \in Schemes /\ Registered[i] # Nil
  BY RegisteredFacts
<1>4. phase' = "ready" /\ names' = NameMap(Registered) BY <1>2, <1>3
<1>5. /\ heap' \in Seq(Seq(Elems))
      /\ allSchemes' \in Headers /\ allSchemes'.arr \in DOMAIN heap'
      /\ allSchemes'.len <= Len(heap'[allSchemes'.arr])
  <2>0. heap \in Seq(Seq(Elems)) BY DEF IInv, TypeOK, Elems
  <2>1. Len(heap) = 1 /\ DOMAIN heap = {1} /\ Len(heap[1]) = 25
    BY <1>1, LitLen
  <2>2. CASE k = 0
    <3>1. heap' = heap /\ allSchemes' = Header(1, 25) BY <2>2, <1>2, <1>3
    <3>2. heap' \in Seq(Seq(Elems)) BY <3>1, <2>0
    <3>3. allSchemes' \in Headers /\ allSchemes'.arr = 1 /\ allSchemes'.len = 25
      BY <3>1 DEF Header, Headers
    <3>4. allSchemes'.arr \in DOMAIN heap' BY <3>1, <3>3, <2>1
    <3>5. Len(heap'[allSchemes'.arr]) = 25 BY <3>1, <3>3, <2>1
    <3> QED BY <3>2, <3>3, <3>4, <3>5
  <2>3. CASE k # 0
    <3>1. InitCap(k) = 50 BY <2>3, LitLen DEF InitCap, GrowCap
    <3>2. grown \in Seq(Elems)
      <4>0. grown = [i \in 1 .. 50 |-> IF i <= Len(Registered) THEN Registered[i] ELSE Nil]
        BY <3>1
      <4>1. \A i \in 1 .. 50 : (IF i <= Len(Registered) THEN Registered[i] ELSE Nil) \in Elems
        BY <1>3 DEF Elems
      <4>2. grown \in [1 .. 50 -> Elems] BY <4>0, <4>1
      <4> QED BY <4>2, ArrayIsSeq
    <3>3. /\ Append(heap, grown) \in Seq(Seq(Elems))
          /\ Len(Append(heap, grown)) = Len(heap) + 1
          /\ \A b \in 1 .. Len(heap) + 1 :
               Append(heap, grown)[b] = IF b <= Len(heap) THEN heap[b] ELSE grown
      BY <3>2, <2>0, AppendProperties
    <3>4. /\ DOMAIN Append(heap, grown) = 1 .. 2 /\ Append(heap, grown)[2] = grown
      <4>1. Len(Append(heap, grown)) = 2 BY <3>3, <2>1
      <4>2. DOMAIN Append(heap, grown) = 1 .. Len(Append(heap, grown)) BY <3>3, LenProperties
      <4> QED BY <4>1, <4>2, <3>3, <2>1
    <3>5. Len(grown) = 50 BY <3>1
    <3>6. heap' = Append(heap, grown) /\ allSchemes' = Header(2, 25 + k) BY <2>3, <1>2, <1>3
    <3>7. allSchemes' \in Headers /\ allSchemes'.arr = 2 /\ allSchemes'.len = 25 + k
      BY <3>6, <1>3 DEF Header, Headers
    <3>8. 25 + k <= 50 BY <1>3
    <3>9. allSchemes'.arr \in DOMAIN heap' BY <3>4, <3>6, <3>7
    <3>10. Len(heap'[allSchemes'.arr]) = 50 BY <3>4, <3>5, <3>6, <3>7
    <3>11. heap' \in Seq(Seq(Elems)) BY <3>3, <3>6
    <3> QED BY <3>7, <3>8, <3>9, <3>10, <3>11
  <2> QED BY <2>2, <2>3
<1>6. TypeOK'
  <2>1. \A key \in DOMAIN names' : key.case = "lower" /\ names'[key] \in Schemes
    BY <1>4, NameMapTyped
  <2> QED BY <1>1, <1>2, <1>4, <1>5, <2>1 DEF IInv, TypeOK, Elems
<1> QED BY <1>1, <1>2, <1>4, <1>5, <1>6 DEF IInv, LookupCorrect

\* Every step of the registry and its callers keeps IInv.
LEMMA NextIInv == IInv /\ [Next]_vars => IInv'
<1> SUFFICES ASSUME IInv, [Next]_vars PROVE IInv' OBVIOUS
<1>1. CASE PackageInit BY <1>1, PackageInitIInv
<1>2. CASE \E c \in Callers, q \in Queries : ByName(c, q) BY <1>2, ByNameIInv
<1>3. CASE \E c \in Callers : All(c) BY <1>3, AllIInv
<1>4. CASE \E c \in Callers, x \in Mine : AppendTo(c, x) BY <1>4, AppendToIInv
<1>5. CASE \E c \in Callers, x \in Mine, i \in 1 .. Len(allSchemesLiteral) + Len(potentialSchemes) :
             SetIndex(c, i, x)
  BY <1>5, SetIndexIInv
<1>6. CASE UNCHANGED vars BY <1>6, StutterIInv
<1> QED BY <1>1, <1>2, <1>3, <1>4, <1>5, <1>6 DEF Next

\* IInv holds in every state of every behaviour.
THEOREM IInvHolds == Spec => []IInv
BY InitIInv, NextIInv, PTL DEF Spec

\* The registry's state keeps its types whatever callers do with the
\* slices All returns (Registry.TypeOK, checked by run registry).
THEOREM TypeCorrect == Spec => []TypeOK
BY IInvHolds, PTL DEF IInv

\* Package initialisation never panics in any build, whichever CTIDH
\* NIKEs it lacks: init() names only non-nil schemes (NoInitPanic).
THEOREM InitNeverPanics == Spec => []NoInitPanic
<1>1. IInv => NoInitPanic BY DEF IInv, NoInitPanic
<1> QED BY <1>1, IInvHolds, PTL

\* Every answer ByName gives is spec 4.6's case-insensitive lookup in the
\* registered list, whatever callers append to or write into the slices
\* All returns (LookupCorrect).
THEOREM ByNameCorrect == Spec => []LookupCorrect
BY IInvHolds, PTL DEF IInv

====
