--------------------------- MODULE HybridKEM_proofs ---------------------------
(***************************************************************************)
(* Proofs about HybridKEM for every choice of the components and sizes.    *)
(***************************************************************************)
EXTENDS HybridKEM, SequenceTheorems, TLAPS

-----------------------------------------------------------------------------
(* Byte buffers.                                                           *)

\* A buffer of n bytes is a sequence of bytes of length n.
LEMMA BytesIsSeq ==
  ASSUME NEW n \in Nat, NEW b \in Bytes(n)
  PROVE  b \in Seq(Byte) /\ Len(b) = n
BY DEF Bytes, Byte

\* Every buffer a caller passes in has some length n in 0 .. MaxBuf.
LEMMA BuffersLen ==
  ASSUME NEW b \in Buffers
  PROVE  Len(b) \in 0 .. MaxBuf /\ b \in Bytes(Len(b))
<1>1. PICK n \in 0 .. MaxBuf : b \in Bytes(n)
  BY DEF Buffers
<1>2. Len(b) = n
  BY <1>1, BytesIsSeq, SizesAssumption
<1>. QED
  BY <1>1, <1>2

\* The toy public key of an n-byte private key is n bytes long.
LEMMA ComplementBytes ==
  ASSUME NEW n \in Nat, NEW b \in Bytes(n)
  PROVE  Complement(b) \in Bytes(n)
BY DEF Complement, Bytes, Byte

\* seed[:m] and seed[m:] of an (m+n)-byte buffer have m and n bytes.
LEMMA SliceBytes ==
  ASSUME NEW m \in Nat, NEW n \in Nat, NEW b \in Bytes(m + n)
  PROVE  Prefix(b, m) \in Bytes(m) /\ Suffix(b, m) \in Bytes(n)
<1>1. b \in Seq(Byte) /\ Len(b) = m + n
  BY BytesIsSeq
<1>2. Prefix(b, m) \in Seq(Byte) /\ Len(Prefix(b, m)) = m
  BY <1>1, SubSeqProperties DEF Prefix
<1>3. Suffix(b, m) \in Seq(Byte) /\ Len(Suffix(b, m)) = n
  BY <1>1, SubSeqProperties DEF Suffix
<1>. QED
  BY <1>2, <1>3, LenProperties DEF Bytes

\* Cutting a ++ b at len(a) gives a and b back.
LEMMA SplitConcat ==
  ASSUME NEW m \in Nat \ {0}, NEW n \in Nat \ {0},
         NEW a \in Bytes(m), NEW b \in Bytes(n)
  PROVE  Prefix(a \o b, m) = a /\ Suffix(a \o b, m) = b
<1>1. a \in Seq(Byte) /\ Len(a) = m /\ b \in Seq(Byte) /\ Len(b) = n
  BY BytesIsSeq
<1>2. Len(a \o b) = m + n
  BY <1>1, ConcatProperties
<1>3. Prefix(a \o b, m) = SubSeq(a, 1, m)
  BY <1>1, SubSeqOfConcat1 DEF Prefix
<1>4. Suffix(a \o b, m) = SubSeq(b, 1, n)
  <2>1. Suffix(a \o b, m) = SubSeq(a \o b, m + 1, m + n)
    BY <1>2 DEF Suffix
  <2>2. SubSeq(a \o b, m + 1, m + n) = SubSeq(b, (m + 1) - m, (m + n) - m)
    BY <1>1, SubSeqOfConcat2
  <2>3. (m + 1) - m = 1 /\ (m + n) - m = n
    OBVIOUS
  <2>. QED
    BY <2>1, <2>2, <2>3, Zenon
<1>. QED
  BY <1>1, <1>3, <1>4, SubSeqFull

\* seed[:m] ++ seed[m:] is the whole seed.
LEMMA ConcatSplit ==
  ASSUME NEW m \in Nat, NEW n \in Nat, NEW b \in Bytes(m + n)
  PROVE  Prefix(b, m) \o Suffix(b, m) = b
<1>1. b \in Seq(Byte) /\ Len(b) = m + n
  BY BytesIsSeq
<1>2. Prefix(b, m) \in Bytes(m) /\ Suffix(b, m) \in Bytes(n)
  BY SliceBytes
<1>3. Prefix(b, m) \in Seq(Byte) /\ Len(Prefix(b, m)) = m
      /\ Suffix(b, m) \in Seq(Byte) /\ Len(Suffix(b, m)) = n
  BY <1>2, BytesIsSeq
<1>4. \A i \in 1 .. m : Prefix(b, m)[i] = b[i]
  BY <1>1, SubSeqProperties DEF Prefix
<1>5. \A i \in 1 .. n : Suffix(b, m)[i] = b[m + i]
  BY <1>1, SubSeqProperties DEF Suffix
<1>6. Prefix(b, m) \o Suffix(b, m) \in Seq(Byte)
      /\ Len(Prefix(b, m) \o Suffix(b, m)) = m + n
      /\ \A i \in 1 .. m + n : (Prefix(b, m) \o Suffix(b, m))[i] =
           IF i <= m THEN Prefix(b, m)[i] ELSE Suffix(b, m)[i - m]
  BY <1>3, ConcatProperties
<1>7. \A i \in 1 .. m + n : (Prefix(b, m) \o Suffix(b, m))[i] = b[i]
  BY <1>4, <1>5, <1>6
<1>. QED
  BY <1>1, <1>6, <1>7, SeqEqual

\* Cycle(b, n) of a non-empty buffer b has n bytes.
LEMMA CycleBytes ==
  ASSUME NEW m \in Nat \ {0}, NEW n \in Nat, NEW b \in Bytes(m)
  PROVE  Cycle(b, n) \in Bytes(n)
<1>1. b \in Seq(Byte) /\ Len(b) = m
  BY BytesIsSeq
<1>2. \A i \in 1 .. n : ((i - 1) % m) + 1 \in 1 .. m
  OBVIOUS
<1>. QED
  BY <1>1, <1>2 DEF Cycle, Bytes

-----------------------------------------------------------------------------
(* Keys.                                                                   *)

\* The public key of a component private key is a component public key.
LEMMA CPublicIn ==
  ASSUME NEW c \in Components, NEW b \in Bytes(SkSize[c])
  PROVE  CPublic(CKey(c, b)) \in CPublicKeys(c)
<1>1. SkSize[c] \in Nat \ {0} /\ PkSize[c] \in Nat
  BY SizesAssumption
<1>2. Cycle(b, PkSize[c]) \in Bytes(PkSize[c])
  BY <1>1, CycleBytes
<1>3. Complement(Cycle(b, PkSize[c])) \in Bytes(PkSize[c])
  BY <1>1, <1>2, ComplementBytes
<1>. QED
  BY <1>3 DEF CPublic, CPublicKeys, CKey

\* A component key pair derived from a seed of the component's seed size.
LEMMA CDeriveInKeys ==
  ASSUME NEW c \in Components, NEW seed \in Bytes(SdSize[c])
  PROVE  /\ CDeriveKeyPair(c, seed).pk \in CPublicKeys(c)
         /\ CDeriveKeyPair(c, seed).sk \in CPrivateKeys(c)
<1>1. SdSize[c] \in Nat \ {0} /\ SkSize[c] \in Nat
  BY SizesAssumption
<1>2. Cycle(seed, SkSize[c]) \in Bytes(SkSize[c])
  BY <1>1, CycleBytes
<1>3. CPublic(CKey(c, Cycle(seed, SkSize[c]))) \in CPublicKeys(c)
  BY <1>2, CPublicIn
<1>. QED
  BY <1>2, <1>3 DEF CDeriveKeyPair, CPrivateKeys

\* PrivateKey.Public of an initialised key is an initialised public key.
LEMMA PublicInKeys ==
  ASSUME NEW sk \in PrivateKeys
  PROVE  Public(sk) \in PublicKeys
<1>1. PICK b1 \in Bytes(SkSize[First]) : sk.first = CKey(First, b1)
  BY DEF PrivateKeys, CPrivateKeys
<1>2. PICK b2 \in Bytes(SkSize[Second]) : sk.second = CKey(Second, b2)
  BY DEF PrivateKeys, CPrivateKeys
<1>3. CPublic(CKey(First, b1)) \in CPublicKeys(First)
      /\ CPublic(CKey(Second, b2)) \in CPublicKeys(Second)
  BY CPublicIn, ComponentsAssumption
<1>. QED
  BY <1>1, <1>2, <1>3 DEF Public, PublicKeys

\* An UnmarshalKey that succeeds on a caller's buffer gives a key whose
\* components have the sizes it checked.
LEMMA UnmarshalKeyIn ==
  ASSUME NEW sizes \in [Components -> Nat \ {0}], NEW e, e # None, NEW buf \in Buffers,
         UnmarshalKey(buf, sizes, sizes[First], e).err = None
  PROVE  UnmarshalKey(buf, sizes, sizes[First], e).key
           \in [first : {CKey(First, b) : b \in Bytes(sizes[First])},
                second : {CKey(Second, b) : b \in Bytes(sizes[Second])}]
<1>1. sizes[First] \in Nat /\ sizes[Second] \in Nat
  BY ComponentsAssumption
<1>2. Len(buf) = sizes[First] + sizes[Second]
  BY DEF UnmarshalKey, CUnmarshal
<1>3. buf \in Bytes(sizes[First] + sizes[Second])
  BY <1>1, <1>2, BuffersLen
<1>4. Prefix(buf, sizes[First]) \in Bytes(sizes[First])
      /\ Suffix(buf, sizes[First]) \in Bytes(sizes[Second])
  BY <1>1, <1>3, SliceBytes
<1>5. /\ Len(Prefix(buf, sizes[First])) = sizes[First]
      /\ Len(Suffix(buf, sizes[First])) = sizes[Second]
  BY <1>1, <1>4, BytesIsSeq
<1>. QED
  BY <1>2, <1>4, <1>5 DEF UnmarshalKey, CUnmarshal

\* A successful UnmarshalBinaryPublicKey (resp. PrivateKey) of a caller's
\* buffer gives an initialised public (resp. private) key.
LEMMA UnmarshalInKeys ==
  ASSUME NEW buf \in Buffers
  PROVE  /\ UnmarshalBinaryPublicKey(buf).err = None
              => UnmarshalBinaryPublicKey(buf).key \in PublicKeys
         /\ UnmarshalBinaryPrivateKey(buf).err = None
              => UnmarshalBinaryPrivateKey(buf).key \in PrivateKeys
<1>1. PkSize \in [Components -> Nat \ {0}] /\ SkSize \in [Components -> Nat \ {0}]
  BY SizesAssumption
<1>2. "ErrPubKeySize" # None /\ "ErrPrivKeySize" # None
  BY DEF None
<1>. QED
  BY <1>1, <1>2, UnmarshalKeyIn
  DEF UnmarshalBinaryPublicKey, UnmarshalBinaryPrivateKey, PublicKeys, PrivateKeys,
      CPublicKeys, CPrivateKeys

\* DeriveKeyPair of a seed of SeedSize bytes gives two initialised keys.
LEMMA DeriveInKeys ==
  ASSUME NEW seed \in Bytes(SeedSize)
  PROVE  DeriveKeyPair(seed).pk \in PublicKeys /\ DeriveKeyPair(seed).sk \in PrivateKeys
<1>1. SdSize[First] \in Nat /\ SdSize[Second] \in Nat
  BY SizesAssumption, ComponentsAssumption
<1>2. Prefix(seed, SdSize[First]) \in Bytes(SdSize[First])
      /\ Suffix(seed, SdSize[First]) \in Bytes(SdSize[Second])
  BY <1>1, SliceBytes DEF SeedSize
<1>3. /\ CDeriveKeyPair(First, Prefix(seed, SdSize[First])).pk \in CPublicKeys(First)
      /\ CDeriveKeyPair(First, Prefix(seed, SdSize[First])).sk \in CPrivateKeys(First)
      /\ CDeriveKeyPair(Second, Suffix(seed, SdSize[First])).pk \in CPublicKeys(Second)
      /\ CDeriveKeyPair(Second, Suffix(seed, SdSize[First])).sk \in CPrivateKeys(Second)
  BY <1>2, CDeriveInKeys, ComponentsAssumption
<1>. QED
  BY <1>3 DEF DeriveKeyPair, PublicKeys, PrivateKeys

-----------------------------------------------------------------------------
(* Every method returns one of the modelled errors.                        *)

LEMMA ErrorsReturned ==
  ASSUME NEW k, NEW buf
  PROVE  /\ EncapsulateDeterministically(k, buf).err \in Errors
         /\ Decapsulate(k, buf).err \in Errors
         /\ MarshalPublicKey(k).err \in Errors
         /\ MarshalPrivateKey(k).err \in Errors
         /\ UnmarshalBinaryPublicKey(buf).err \in Errors
         /\ UnmarshalBinaryPrivateKey(buf).err \in Errors
BY DEF EncapsulateDeterministically, CEncapsulateDeterministically, Decapsulate,
       CDecapsulate, MarshalPublicKey, MarshalPrivateKey, UnmarshalKey, CUnmarshal,
       UnmarshalBinaryPublicKey, UnmarshalBinaryPrivateKey, Errors, None, Panic

\* An initialised key is no nil, foreign or zero value, and neither are its
\* components.
LEMMA KeysInitialised ==
  ASSUME NEW k \in PublicKeys \cup PrivateKeys
  PROVE  /\ k.first \notin {Nil, Foreign} /\ k.second \notin {Nil, Foreign}
         /\ k \notin {Nil, Foreign, ZeroKey}
<1>1. ASSUME NEW c \in Components
      PROVE  CPublicKeys(c) \cup CPrivateKeys(c) \subseteq [scheme : Components, bytes : Seq({0, 1})]
  <2>1. PkSize[c] \in Nat /\ SkSize[c] \in Nat
    BY SizesAssumption
  <2>. QED
    BY <2>1, BytesIsSeq DEF CPublicKeys, CPrivateKeys, CKey, Byte
<1>2. /\ k.first \in CPublicKeys(First) \cup CPrivateKeys(First)
      /\ k.second \in CPublicKeys(Second) \cup CPrivateKeys(Second)
      /\ k = [first |-> k.first, second |-> k.second]
  BY DEF PublicKeys, PrivateKeys
<1>3. k.first \in [scheme : Components, bytes : Seq({0, 1})]
      /\ k.second \in [scheme : Components, bytes : Seq({0, 1})]
  BY <1>1, <1>2, ComponentsAssumption
<1>. QED
  BY <1>2, <1>3, NilAssumption DEF ZeroKey

\* UnmarshalKey of b1 ++ b2, for buffers of the sizes it checks, gives the
\* key of components b1 and b2.
LEMMA UnmarshalConcat ==
  ASSUME NEW sizes \in [Components -> Nat \ {0}], NEW e,
         NEW b1 \in Bytes(sizes[First]), NEW b2 \in Bytes(sizes[Second])
  PROVE  UnmarshalKey(b1 \o b2, sizes, sizes[First], e)
           = [err |-> None, key |-> [first |-> CKey(First, b1), second |-> CKey(Second, b2)]]
<1>1. sizes[First] \in Nat \ {0} /\ sizes[Second] \in Nat \ {0}
  BY ComponentsAssumption
<1>2. b1 \in Seq(Byte) /\ Len(b1) = sizes[First]
      /\ b2 \in Seq(Byte) /\ Len(b2) = sizes[Second]
  BY <1>1, BytesIsSeq
<1>3. Len(b1 \o b2) = sizes[First] + sizes[Second]
  <2>1. Len(b1 \o b2) = Len(b1) + Len(b2)
    BY <1>2, ConcatProperties
  <2>. QED
    BY <1>2, <2>1
<1>4. Prefix(b1 \o b2, sizes[First]) = b1 /\ Suffix(b1 \o b2, sizes[First]) = b2
  BY <1>1, SplitConcat
<1>. QED
  BY <1>2, <1>3, <1>4 DEF UnmarshalKey, CUnmarshal

\* UnmarshalBinary of MarshalBinary of an initialised key is that key.
LEMMA RoundTripKey ==
  /\ \A k \in PublicKeys :
       UnmarshalBinaryPublicKey(MarshalPublicKey(k).buf) = [err |-> None, key |-> k]
  /\ \A k \in PrivateKeys :
       UnmarshalBinaryPrivateKey(MarshalPrivateKey(k).buf) = [err |-> None, key |-> k]
<1>1. PkSize \in [Components -> Nat \ {0}] /\ SkSize \in [Components -> Nat \ {0}]
  BY SizesAssumption
<1>2. ASSUME NEW k \in PublicKeys
      PROVE  UnmarshalBinaryPublicKey(MarshalPublicKey(k).buf) = [err |-> None, key |-> k]
  <2>1. PICK b1 \in Bytes(PkSize[First]), b2 \in Bytes(PkSize[Second]) :
          k = [first |-> CKey(First, b1), second |-> CKey(Second, b2)]
    BY DEF PublicKeys, CPublicKeys
  <2>2. MarshalPublicKey(k).buf = b1 \o b2
    BY <2>1, KeysInitialised DEF MarshalPublicKey, CKey
  <2>3. UnmarshalKey(b1 \o b2, PkSize, PkSize[First], "ErrPubKeySize")
          = [err |-> None, key |-> [first |-> CKey(First, b1), second |-> CKey(Second, b2)]]
    BY <1>1, <2>1, UnmarshalConcat
  <2>. QED
    BY <2>1, <2>2, <2>3 DEF UnmarshalBinaryPublicKey
<1>3. ASSUME NEW k \in PrivateKeys
      PROVE  UnmarshalBinaryPrivateKey(MarshalPrivateKey(k).buf) = [err |-> None, key |-> k]
  <2>1. PICK b1 \in Bytes(SkSize[First]), b2 \in Bytes(SkSize[Second]) :
          k = [first |-> CKey(First, b1), second |-> CKey(Second, b2)]
    BY DEF PrivateKeys, CPrivateKeys
  <2>2. MarshalPrivateKey(k).buf = b1 \o b2
    BY <2>1, KeysInitialised DEF MarshalPrivateKey, CKey
  <2>3. UnmarshalKey(b1 \o b2, SkSize, SkSize[First], "ErrPrivKeySize")
          = [err |-> None, key |-> [first |-> CKey(First, b1), second |-> CKey(Second, b2)]]
    BY <1>1, <2>1, UnmarshalConcat
  <2>. QED
    BY <2>1, <2>2, <2>3 DEF UnmarshalBinaryPrivateKey
<1>. QED
  BY <1>2, <1>3

-----------------------------------------------------------------------------
(* Type correctness.                                                       *)

\* The caller only ever holds zero-valued or fully initialised keys of this
\* scheme, and every call ends with one of the modelled errors.
THEOREM TypeCorrect == Spec => []TypeOK
<1>1. Init => TypeOK
  BY DEF Init, TypeOK, Result, Ops, Errors, None
<1>2. TypeOK /\ [Next]_vars => TypeOK'
  <2> SUFFICES ASSUME TypeOK, [Next]_vars PROVE TypeOK'
    OBVIOUS
  <2>. USE DEF TypeOK, Result, Ops
  <2>1. CASE NewKey
    BY <2>1 DEF NewKey, Errors, None
  <2>2. CASE GenerateKeyPair
    <3>1. CASE result' = Result("GenerateKeyPair", "ErrRand") /\ UNCHANGED <<pks, sks>>
      BY <3>1 DEF Errors
    <3>2. ASSUME NEW s1 \in Bytes(SdSize[First]), NEW s2 \in Bytes(SdSize[Second]),
                 pks' = pks \cup {[first |-> CDeriveKeyPair(First, s1).pk,
                                   second |-> CDeriveKeyPair(Second, s2).pk]},
                 sks' = sks \cup {[first |-> CDeriveKeyPair(First, s1).sk,
                                   second |-> CDeriveKeyPair(Second, s2).sk]},
                 result' = Result("GenerateKeyPair", None)
          PROVE  TypeOK'
      <4>1. CDeriveKeyPair(First, s1).pk \in CPublicKeys(First)
            /\ CDeriveKeyPair(First, s1).sk \in CPrivateKeys(First)
            /\ CDeriveKeyPair(Second, s2).pk \in CPublicKeys(Second)
            /\ CDeriveKeyPair(Second, s2).sk \in CPrivateKeys(Second)
        BY CDeriveInKeys, ComponentsAssumption
      <4>. QED
        BY <3>2, <4>1 DEF PublicKeys, PrivateKeys, Errors, None
    <3>. QED
      BY <2>2, <3>1, <3>2 DEF GenerateKeyPair
  <2>3. CASE DeriveKeyPairStep
    <3>1. PICK seed \in Buffers :
            \/ /\ Len(seed) # SeedSize
               /\ result' = Result("DeriveKeyPair", Panic)
               /\ UNCHANGED <<pks, sks>>
            \/ /\ Len(seed) = SeedSize
               /\ pks' = pks \cup {DeriveKeyPair(seed).pk}
               /\ sks' = sks \cup {DeriveKeyPair(seed).sk}
               /\ result' = Result("DeriveKeyPair", None)
      BY <2>3 DEF DeriveKeyPairStep
    <3>2. Len(seed) = SeedSize => seed \in Bytes(SeedSize)
      BY BuffersLen
    <3>. QED
      BY <3>1, <3>2, DeriveInKeys DEF Errors, None, Panic
  <2>4. CASE PublicStep
    BY <2>4, PublicInKeys DEF PublicStep, Errors, None, Panic
  <2>5. CASE Encapsulate
    BY <2>5, ErrorsReturned DEF Encapsulate, Errors
  <2>6. CASE EncapsulateDeterministicallyStep
    BY <2>6, ErrorsReturned DEF EncapsulateDeterministicallyStep
  <2>7. CASE DecapsulateStep
    BY <2>7, ErrorsReturned DEF DecapsulateStep
  <2>8. CASE MarshalBinary
    BY <2>8, ErrorsReturned DEF MarshalBinary
  <2>9. CASE MarshalText
    BY <2>9, ErrorsReturned DEF MarshalText, Errors, Panic
  <2>10. CASE UnmarshalTextStep
    <3>1. PICK pk \in pks, text \in Texts : UnmarshalText(pk, text)
      BY <2>10 DEF UnmarshalTextStep
    <3>2. UnmarshalBinaryPublicKey(text.blob).err \in Errors
      BY ErrorsReturned DEF Texts
    <3>. QED
      BY <3>1, <3>2 DEF UnmarshalText, Errors, Panic
  <2>11. CASE UnmarshalPublicStep
    <3>1. PICK buf \in Buffers :
            LET u == UnmarshalBinaryPublicKey(buf)
            IN  /\ pks' = IF u.err = None THEN pks \cup {u.key} ELSE pks
                /\ result' = Result("UnmarshalBinaryPublicKey", u.err)
                /\ UNCHANGED sks
      BY <2>11 DEF UnmarshalPublicStep
    <3>2. UnmarshalBinaryPublicKey(buf).err = None
            => UnmarshalBinaryPublicKey(buf).key \in PublicKeys
      BY UnmarshalInKeys
    <3>. QED
      BY <3>1, <3>2, ErrorsReturned
  <2>12. CASE UnmarshalPrivateStep
    <3>1. PICK buf \in Buffers :
            LET u == UnmarshalBinaryPrivateKey(buf)
            IN  /\ sks' = IF u.err = None THEN sks \cup {u.key} ELSE sks
                /\ result' = Result("UnmarshalBinaryPrivateKey", u.err)
                /\ UNCHANGED pks
      BY <2>12 DEF UnmarshalPrivateStep
    <3>2. UnmarshalBinaryPrivateKey(buf).err = None
            => UnmarshalBinaryPrivateKey(buf).key \in PrivateKeys
      BY UnmarshalInKeys
    <3>. QED
      BY <3>1, <3>2, ErrorsReturned
  <2>13. CASE UNCHANGED vars
    BY <2>13 DEF vars
  <2>. QED
    BY <2>1, <2>2, <2>3, <2>4, <2>5, <2>6, <2>7, <2>8, <2>9, <2>10, <2>11,
       <2>12, <2>13 DEF Next
<1>. QED
  BY <1>1, <1>2, PTL DEF Spec

-----------------------------------------------------------------------------
(* Marshalling.                                                            *)

\* MarshalBinary followed by UnmarshalBinaryPublicKey (resp. PrivateKey)
\* returns every initialised key the caller can hold, for every choice of
\* component schemes and key sizes.
THEOREM MarshalRoundTripHolds == Spec => []MarshalRoundTrip
<1>1. TypeOK => MarshalRoundTrip
  BY RoundTripKey DEF TypeOK, MarshalRoundTrip
<1>. QED
  BY <1>1, TypeCorrect, PTL

-----------------------------------------------------------------------------
(* Encapsulation and decapsulation.                                        *)

\* Decapsulate with a private key inverts EncapsulateDeterministically to
\* its public key: each component's ciphertext has CtSize bytes, both
\* methods cut the ciphertext at CtSize[First], and they feed the PRF the
\* same component secrets and ciphertext halves.
LEMMA DecapInvertsEncap ==
  ASSUME NEW sk \in PrivateKeys, NEW pk \in PublicKeys, PkEqual(Public(sk), pk),
         NEW seed \in Bytes(EncapsulationSeedSize)
  PROVE  LET e == EncapsulateDeterministically(pk, seed)
         IN  /\ e.err = None
             /\ Decapsulate(sk, e.ct) = [err |-> None, ss |-> e.ss]
<1>. DEFINE e1 == EsSize[First]
            e2 == EsSize[Second]
            c1 == CtSize[First]
            c2 == CtSize[Second]
            p == Prefix(seed, e1)
            q == Suffix(seed, e1)
            cp == Cycle(p, c1)
            cq == Cycle(q, c2)
<1>1. e1 \in Nat \ {0} /\ e2 \in Nat \ {0} /\ c1 \in Nat \ {0} /\ c2 \in Nat \ {0}
  BY SizesAssumption, ComponentsAssumption
<1>2. p \in Bytes(e1) /\ q \in Bytes(e2)
  BY <1>1, SliceBytes DEF EncapsulationSeedSize
<1>3. Len(seed) = EncapsulationSeedSize /\ Len(p) = e1 /\ Len(q) = e2
  BY <1>1, <1>2, BytesIsSeq DEF EncapsulationSeedSize
<1>4. cp \in Bytes(c1) /\ cq \in Bytes(c2)
  BY <1>1, <1>2, CycleBytes
<1>5. cp \in Seq(Byte) /\ Len(cp) = c1 /\ cq \in Seq(Byte) /\ Len(cq) = c2
  BY <1>1, <1>4, BytesIsSeq
<1>6. pk.first = CPublic(sk.first) /\ pk.second = CPublic(sk.second)
  BY DEF PkEqual, Public, PublicKeys
<1>7. /\ pk.first \notin {Nil, Foreign} /\ pk.second \notin {Nil, Foreign}
      /\ sk.first \notin {Nil, Foreign} /\ sk.second \notin {Nil, Foreign}
      /\ pk # Foreign /\ sk # Foreign
  BY KeysInitialised
<1>8. EncapsulateDeterministically(pk, seed) =
        [err |-> None, ct |-> cp \o cq,
         ss |-> PairSplitPRF(CSecret(First, pk.first.bytes, cp),
                             CSecret(Second, pk.second.bytes, cq), cp, cq)]
  BY <1>3, <1>7 DEF EncapsulateDeterministically, CEncapsulateDeterministically
<1>9. Prefix(cp \o cq, c1) = cp /\ Suffix(cp \o cq, c1) = cq
  BY <1>1, <1>4, SplitConcat
<1>10. Len(cp \o cq) = CiphertextSize
  BY <1>5, ConcatProperties DEF CiphertextSize
<1>11. Decapsulate(sk, cp \o cq) =
         [err |-> None,
          ss |-> PairSplitPRF(CSecret(First, CPublic(sk.first).bytes, cp),
                              CSecret(Second, CPublic(sk.second).bytes, cq), cp, cq)]
  BY <1>5, <1>7, <1>9, <1>10 DEF Decapsulate, CDecapsulate
<1>. QED
  BY <1>6, <1>8, <1>11

\* Every pair of keys the caller holds that Equal as public and private key
\* agree on every shared secret, for every choice of components and sizes.
THEOREM DecapCorrectHolds == Spec => []DecapCorrect
<1>1. TypeOK => DecapCorrect
  BY DecapInvertsEncap DEF TypeOK, DecapCorrect
<1>. QED
  BY <1>1, TypeCorrect, PTL

-----------------------------------------------------------------------------
(* Transcript binding.                                                     *)

\* Decapsulate of a well-sized ciphertext ct gives PRF(s1 || ct) XOR
\* PRF(s2 || ct) for component secrets s1 of First and s2 of Second: the
\* two halves the PRF receives concatenate back to ct.
LEMMA DecapSecretShape ==
  ASSUME NEW sk \in PrivateKeys, NEW ct \in Bytes(CiphertextSize)
  PROVE  \E s1, s2 : /\ s1[1] = First /\ s2[1] = Second
                     /\ Decapsulate(sk, ct) = [err |-> None,
                                               ss |-> Xor(PRF(<<s1, ct>>), PRF(<<s2, ct>>))]
<1>. DEFINE c1 == CtSize[First]
            c2 == CtSize[Second]
            p == Prefix(ct, c1)
            q == Suffix(ct, c1)
<1>1. c1 \in Nat \ {0} /\ c2 \in Nat \ {0}
  BY SizesAssumption, ComponentsAssumption
<1>2. p \o q = ct
  BY <1>1, ConcatSplit DEF CiphertextSize
<1>3. Len(ct) = CiphertextSize /\ Len(p) = c1 /\ Len(q) = c2
  <2>1. p \in Bytes(c1) /\ q \in Bytes(c2)
    BY <1>1, SliceBytes DEF CiphertextSize
  <2>. QED
    BY <1>1, <2>1, BytesIsSeq DEF CiphertextSize
<1>4. sk.first \notin {Nil, Foreign} /\ sk.second \notin {Nil, Foreign} /\ sk # Foreign
  BY KeysInitialised
<1>5. Decapsulate(sk, ct) =
        [err |-> None,
         ss |-> PairSplitPRF(CSecret(First, CPublic(sk.first).bytes, p),
                             CSecret(Second, CPublic(sk.second).bytes, q), p, q)]
  BY <1>3, <1>4 DEF Decapsulate, CDecapsulate
<1>. WITNESS CSecret(First, CPublic(sk.first).bytes, p),
             CSecret(Second, CPublic(sk.second).bytes, q)
<1>. QED
  BY <1>2, <1>5 DEF PairSplitPRF, CSecret

\* With two different component schemes, no two different ciphertexts
\* decapsulate to the same secret under one key.
LEMMA BindingKey ==
  ASSUME First # Second, NEW sk \in PrivateKeys,
         NEW ct1 \in Bytes(CiphertextSize), NEW ct2 \in Bytes(CiphertextSize),
         ct1 # ct2
  PROVE  Decapsulate(sk, ct1).ss # Decapsulate(sk, ct2).ss
<1>1. PICK s1, s2 : /\ s1[1] = First /\ s2[1] = Second
                    /\ Decapsulate(sk, ct1) = [err |-> None,
                                               ss |-> Xor(PRF(<<s1, ct1>>), PRF(<<s2, ct1>>))]
  BY DecapSecretShape
<1>2. PICK t1, t2 : /\ t1[1] = First /\ t2[1] = Second
                    /\ Decapsulate(sk, ct2) = [err |-> None,
                                               ss |-> Xor(PRF(<<t1, ct2>>), PRF(<<t2, ct2>>))]
  BY DecapSecretShape
<1>3. Decapsulate(sk, ct1).ss = {<<s1, ct1>>, <<s2, ct1>>}
  BY <1>1 DEF Xor, PRF
<1>4. Decapsulate(sk, ct2).ss = {<<t1, ct2>>, <<t2, ct2>>}
  BY <1>2 DEF Xor, PRF
<1>5. <<s1, ct1>> \notin {<<t1, ct2>>, <<t2, ct2>>}
  OBVIOUS
<1>. QED
  BY <1>3, <1>4, <1>5

\* Two component schemes that differ make every private key the caller
\* holds bind the whole ciphertext into the shared secret.
THEOREM CiphertextBindingHolds ==
  ASSUME First # Second
  PROVE  Spec => []CiphertextBinding
<1>1. TypeOK => CiphertextBinding
  BY BindingKey DEF TypeOK, CiphertextBinding
<1>. QED
  BY <1>1, TypeCorrect, PTL

=============================================================================
