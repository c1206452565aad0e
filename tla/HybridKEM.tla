------------------------------ MODULE HybridKEM ------------------------------
(***************************************************************************)
(* The two-KEM hybrid combiner of package hybrid (kem/hybrid/hybrid.go,    *)
(* src/unnamed/part_001), seen from a caller that holds key objects of one *)
(* hybrid scheme New(name, First, Second) and calls its methods in any     *)
(* order with any arguments.                                               *)
(*                                                                         *)
(* Data abstraction.  A byte is 0 or 1 and every size is a few bytes, so   *)
(* the slicing at the component boundaries (seed[:n], ct[:firstSize]) is   *)
(* kept exactly.  The component KEMs (kem.Scheme values, not in this       *)
(* repository's sources) are an ideal toy KEM written from the contract of *)
(* spec section 4.1, with the six sizes of a kem.Scheme kept apart: the    *)
(* private key is its seed stretched to the private-key size, the public   *)
(* key a function of the private key, the ciphertext the encapsulation     *)
(* seed stretched to the ciphertext size, and the shared secret names the  *)
(* component, the recipient public key and the ciphertext.  Unmarshal,     *)
(* encapsulation and decapsulation reject a buffer of the wrong size, as   *)
(* the component schemes do.  A component in Malleable is a broken KEM     *)
(* whose secret ignores the ciphertext.  Blake2b-256 is an ideal PRF: its  *)
(* output on x is the singleton {x}; byte-wise XOR of such outputs is      *)
(* symmetric difference and the all-zero buffer is {}.                     *)
(*                                                                         *)
(* Hybrid keys are immutable values ([first, second]); the zero value      *)
(* (a caller's new(PublicKey)) has both components Nil and a nil scheme.   *)
(***************************************************************************)
EXTENDS Naturals, Sequences, FiniteSets

CONSTANTS
  Components,    \* the component KEM schemes (model values)
  First,         \* Scheme.first
  Second,        \* Scheme.second
  PkSize,        \* component PublicKeySize()
  SkSize,        \* component PrivateKeySize()
  SdSize,        \* component SeedSize()
  CtSize,        \* component CiphertextSize()
  EsSize,        \* component EncapsulationSeedSize()
  SsSize,        \* component SharedKeySize()
  PrfSize,       \* size of a Blake2b-256 output
  Malleable,     \* components whose shared secret ignores the ciphertext
  MaxBuf,        \* longest byte buffer a caller passes in
  MaxKeys,       \* most public (and most private) keys a caller holds
  Nil,           \* a nil interface or pointer
  Foreign        \* a key of another KEM scheme

ASSUME ComponentsAssumption ==
  /\ First \in Components /\ Second \in Components
  /\ Malleable \subseteq Components
  /\ Nil \notin Components /\ Foreign \notin Components /\ Nil # Foreign

\* A nil interface and a key of another scheme are neither a component key
\* object nor a hybrid key of this scheme.
ASSUME NilAssumption ==
  LET CK == [scheme : Components, bytes : Seq({0, 1})]
  IN  \A x \in {Nil, Foreign} : x \notin CK /\ x \notin [first : CK, second : CK]

ASSUME SizesAssumption ==
  /\ PkSize \in [Components -> Nat \ {0}]
  /\ SkSize \in [Components -> Nat \ {0}]
  /\ SdSize \in [Components -> Nat \ {0}]
  /\ CtSize \in [Components -> Nat \ {0}]
  /\ EsSize \in [Components -> Nat \ {0}]
  /\ SsSize \in [Components -> Nat \ {0}]
  /\ PrfSize \in Nat \ {0}
  /\ MaxBuf \in Nat /\ MaxKeys \in Nat

VARIABLES
  pks,      \* the hybrid public keys the caller holds
  sks,      \* the hybrid private keys the caller holds
  result    \* the method last called and the error it returned

vars == <<pks, sks, result>>

-----------------------------------------------------------------------------
(* Bytes, errors and outcomes.                                             *)

Byte == {0, 1}
Bytes(n) == [1 .. n -> Byte]
Buffers == UNION {Bytes(n) : n \in 0 .. MaxBuf}

\* The byte slices seed[:n] and seed[n:] of Go.
Prefix(b, n) == SubSeq(b, 1, n)
Suffix(b, n) == SubSeq(b, n + 1, Len(b))

None == "none"
Panic == "panic"
Errors == {None, Panic, "ErrSeedSize", "ErrTypeMismatch", "ErrCiphertextSize",
           "ErrPubKeySize", "ErrPrivKeySize", "ErrUninitialized", "ErrRand",
           "ErrPEM"}
Ops == {"init", "new", "GenerateKeyPair", "DeriveKeyPair", "Public",
        "Encapsulate", "EncapsulateDeterministically", "Decapsulate",
        "MarshalBinary", "MarshalText", "UnmarshalText",
        "UnmarshalBinaryPublicKey", "UnmarshalBinaryPrivateKey"}

-----------------------------------------------------------------------------
(* The component KEMs (kem.Scheme; modelled from spec section 4.1).        *)

CKey(c, b) == [scheme |-> c, bytes |-> b]
CPublicKeys(c) == {CKey(c, b) : b \in Bytes(PkSize[c])}
CPrivateKeys(c) == {CKey(c, b) : b \in Bytes(SkSize[c])}

\* The bytes of b repeated or cut to n bytes (b not empty).
Cycle(b, n) == [i \in 1 .. n |-> b[((i - 1) % Len(b)) + 1]]

Complement(b) == [i \in DOMAIN b |-> 1 - b[i]]

\* The toy map from a private key to its public key.
CPublic(sk) == CKey(sk.scheme, Complement(Cycle(sk.bytes, PkSize[sk.scheme])))

CDeriveKeyPair(c, seed) ==
  LET sk == CKey(c, Cycle(seed, SkSize[c])) IN [pk |-> CPublic(sk), sk |-> sk]

\* The component's UnmarshalBinaryPublicKey (size PkSize[c]) or
\* UnmarshalBinaryPrivateKey (size SkSize[c]).
CUnmarshal(c, b, size, sizeErr) ==
  IF Len(b) # size THEN [err |-> sizeErr, key |-> Nil] ELSE [err |-> None, key |-> CKey(c, b)]

\* The component shared secret of a ciphertext sent to public key bytes pkb.
CSecret(c, pkb, ct) == <<c, pkb, IF c \in Malleable THEN <<>> ELSE ct>>

\* A nil key fails the component's type assertion.
CEncapsulateDeterministically(c, pk, seed) ==
  IF Len(seed) # EsSize[c] THEN [err |-> "ErrSeedSize", ct |-> <<>>, ss |-> <<>>]
  ELSE IF pk = Nil THEN [err |-> "ErrTypeMismatch", ct |-> <<>>, ss |-> <<>>]
  ELSE LET ct == Cycle(seed, CtSize[c])
       IN  [err |-> None, ct |-> ct, ss |-> CSecret(c, pk.bytes, ct)]

CDecapsulate(c, sk, ct) ==
  IF Len(ct) # CtSize[c] THEN [err |-> "ErrCiphertextSize", ss |-> <<>>]
  ELSE IF sk = Nil THEN [err |-> "ErrTypeMismatch", ss |-> <<>>]
  ELSE [err |-> None, ss |-> CSecret(c, CPublic(sk).bytes, ct)]

\* util.PairSplitPRF: PRF(ss1 || ct1 || ct2) XOR PRF(ss2 || ct1 || ct2).
PRF(x) == {x}
Xor(a, b) == (a \ b) \cup (b \ a)
\* Variant: the branches hash the component secrets without the ciphertext.
PairSplitPRFNoTranscript(ss1, ss2, ct1, ct2) == Xor(PRF(ss1), PRF(ss2))

PairSplitPRF(ss1, ss2, ct1, ct2) ==
  Xor(PRF(<<ss1, ct1 \o ct2>>), PRF(<<ss2, ct1 \o ct2>>))

-----------------------------------------------------------------------------
(* The hybrid scheme.                                                      *)

ZeroKey == [first |-> Nil, second |-> Nil]
PublicKeys == [first : CPublicKeys(First), second : CPublicKeys(Second)]
PrivateKeys == [first : CPrivateKeys(First), second : CPrivateKeys(Second)]

PublicKeySize == PkSize[First] + PkSize[Second]
PrivateKeySize == SkSize[First] + SkSize[Second]
SeedSize == SdSize[First] + SdSize[Second]
SharedKeySize == SsSize[First] + SsSize[Second]
CiphertextSize == CtSize[First] + CtSize[Second]
EncapsulationSeedSize == EsSize[First] + EsSize[Second]

\* Variant: the components swapped in the composite literal.
PublicSwapped(sk) == [first |-> CPublic(sk.second), second |-> CPublic(sk.first)]

Public(sk) == [first |-> CPublic(sk.first), second |-> CPublic(sk.second)]

\* PublicKey.Equal: both components Equal.
PkEqual(pk, other) ==
  other # Foreign /\ pk.first = other.first /\ pk.second = other.second

MarshalPrivateKey(sk) ==
  IF sk.first = Nil \/ sk.second = Nil
  THEN [err |-> "ErrUninitialized", buf |-> <<>>]
  ELSE [err |-> None, buf |-> sk.first.bytes \o sk.second.bytes]

MarshalPublicKey(pk) ==
  IF pk.first = Nil \/ pk.second = Nil
  THEN [err |-> "ErrUninitialized", buf |-> <<>>]
  ELSE [err |-> None, buf |-> pk.first.bytes \o pk.second.bytes]

\* The body shared by UnmarshalBinaryPublicKey and UnmarshalBinaryPrivateKey:
\* the length check against the hybrid size, the cut at firstSize and the
\* two component unmarshals, whose errors are returned.  The key is
\* meaningful only when err is None.
UnmarshalKey(buf, sizes, firstSize, sizeErr) ==
  LET u1 == CUnmarshal(First, Prefix(buf, firstSize), sizes[First], sizeErr)
      u2 == CUnmarshal(Second, Suffix(buf, firstSize), sizes[Second], sizeErr)
  IN  IF Len(buf) # sizes[First] + sizes[Second] THEN [err |-> sizeErr, key |-> ZeroKey]
      ELSE IF u1.err # None THEN [err |-> u1.err, key |-> ZeroKey]
      ELSE IF u2.err # None THEN [err |-> u2.err, key |-> ZeroKey]
      ELSE [err |-> None, key |-> [first |-> u1.key, second |-> u2.key]]

UnmarshalBinaryPublicKey(buf) == UnmarshalKey(buf, PkSize, PkSize[First], "ErrPubKeySize")

\* Variant: the private key cut at the first component's public-key size.
UnmarshalBinaryPrivateKeyAtPublicSize(buf) ==
  UnmarshalKey(buf, SkSize, PkSize[First], "ErrPrivKeySize")

UnmarshalBinaryPrivateKey(buf) == UnmarshalKey(buf, SkSize, SkSize[First], "ErrPrivKeySize")

\* Defined for len(seed) = SeedSize only: the method panics otherwise.
DeriveKeyPair(seed) ==
  LET k1 == CDeriveKeyPair(First, Prefix(seed, SdSize[First]))
      k2 == CDeriveKeyPair(Second, Suffix(seed, SdSize[First]))
  IN  [pk |-> [first |-> k1.pk, second |-> k2.pk],
       sk |-> [first |-> k1.sk, second |-> k2.sk]]

EncapsulateDeterministically(pk, seed) ==
  LET e1 == CEncapsulateDeterministically(First, pk.first, Prefix(seed, EsSize[First]))
      e2 == CEncapsulateDeterministically(Second, pk.second, Suffix(seed, EsSize[First]))
  IN  IF Len(seed) # EncapsulationSeedSize
        THEN [err |-> "ErrSeedSize", ct |-> <<>>, ss |-> {}]
      ELSE IF pk = Foreign THEN [err |-> "ErrTypeMismatch", ct |-> <<>>, ss |-> {}]
      ELSE IF e1.err # None THEN [err |-> e1.err, ct |-> <<>>, ss |-> {}]
      ELSE IF e2.err # None THEN [err |-> e2.err, ct |-> <<>>, ss |-> {}]
      ELSE [err |-> None, ct |-> e1.ct \o e2.ct,
            ss |-> PairSplitPRF(e1.ss, e2.ss, e1.ct, e2.ct)]

\* Variant: the ciphertext cut at the second component's size.
DecapsulateCutAtSecond(sk, ct) ==
  LET firstSize == CtSize[Second]
      d1 == CDecapsulate(First, sk.first, Prefix(ct, firstSize))
      d2 == CDecapsulate(Second, sk.second, Suffix(ct, firstSize))
  IN  IF Len(ct) # CiphertextSize THEN [err |-> "ErrCiphertextSize", ss |-> {}]
      ELSE IF sk = Foreign THEN [err |-> "ErrTypeMismatch", ss |-> {}]
      ELSE IF d1.err # None THEN [err |-> d1.err, ss |-> {}]
      ELSE IF d2.err # None THEN [err |-> d2.err, ss |-> {}]
      ELSE [err |-> None,
            ss |-> PairSplitPRF(d1.ss, d2.ss, Prefix(ct, firstSize), Suffix(ct, firstSize))]

Decapsulate(sk, ct) ==
  LET firstSize == CtSize[First]
      d1 == CDecapsulate(First, sk.first, Prefix(ct, firstSize))
      d2 == CDecapsulate(Second, sk.second, Suffix(ct, firstSize))
  IN  IF Len(ct) # CiphertextSize THEN [err |-> "ErrCiphertextSize", ss |-> {}]
      ELSE IF sk = Foreign THEN [err |-> "ErrTypeMismatch", ss |-> {}]
      ELSE IF d1.err # None THEN [err |-> d1.err, ss |-> {}]
      ELSE IF d2.err # None THEN [err |-> d2.err, ss |-> {}]
      ELSE [err |-> None,
            ss |-> PairSplitPRF(d1.ss, d2.ss, Prefix(ct, firstSize), Suffix(ct, firstSize))]


\* pem.ToPublicPEMBytes / FromPublicPEMToBytes (kem/pem): a PEM block is a
\* type label and the binary key; only the scheme's public-key label loads.
Texts == [label : {"PUBLIC KEY", "OTHER"}, blob : Buffers]

-----------------------------------------------------------------------------
(* The caller's steps: one action per method.                              *)

Result(op, err) == [op |-> op, err |-> err]

Init ==
  /\ pks = {}
  /\ sks = {}
  /\ result = Result("init", None)

\* Room to keep one more key of a kind.
Room(keys, k) == Cardinality(keys \cup {k}) <= MaxKeys

\* new(PublicKey) / new(PrivateKey): the Go zero value.
NewKey ==
  /\ result' = Result("new", None)
  /\ \/ /\ Room(pks, ZeroKey)
        /\ pks' = pks \cup {ZeroKey} /\ UNCHANGED sks
     \/ /\ Room(sks, ZeroKey)
        /\ sks' = sks \cup {ZeroKey} /\ UNCHANGED pks

\* Each component draws its key seed from the RNG; two draws never collide.
\* Either component's draw may fail, and the error is returned.
GenerateKeyPair ==
  \/ /\ result' = Result("GenerateKeyPair", "ErrRand")
     /\ UNCHANGED <<pks, sks>>
  \/ \E s1 \in Bytes(SdSize[First]), s2 \in Bytes(SdSize[Second]) :
       LET k1 == CDeriveKeyPair(First, s1)
           k2 == CDeriveKeyPair(Second, s2)
           pk == [first |-> k1.pk, second |-> k2.pk]
           sk == [first |-> k1.sk, second |-> k2.sk]
       IN  /\ s1 # s2
           /\ Room(pks, pk) /\ Room(sks, sk)
           /\ pks' = pks \cup {pk} /\ sks' = sks \cup {sk}
           /\ result' = Result("GenerateKeyPair", None)

\* A seed of the wrong length panics.
DeriveKeyPairStep ==
  \E seed \in Buffers :
    \/ /\ Len(seed) # SeedSize
       /\ result' = Result("DeriveKeyPair", Panic)
       /\ UNCHANGED <<pks, sks>>
    \/ /\ Len(seed) = SeedSize
       /\ Room(pks, DeriveKeyPair(seed).pk) /\ Room(sks, DeriveKeyPair(seed).sk)
       /\ pks' = pks \cup {DeriveKeyPair(seed).pk}
       /\ sks' = sks \cup {DeriveKeyPair(seed).sk}
       /\ result' = Result("DeriveKeyPair", None)

\* PrivateKey.Public of the zero value calls a method on a nil interface.
PublicStep ==
  \E sk \in sks :
    \/ /\ sk = ZeroKey
       /\ result' = Result("Public", Panic) /\ UNCHANGED <<pks, sks>>
    \/ /\ sk # ZeroKey /\ Room(pks, Public(sk))
       /\ pks' = pks \cup {Public(sk)} /\ UNCHANGED sks
       /\ result' = Result("Public", None)

\* The RNG read of the seed may fail; otherwise EncapsulateDeterministically.
Encapsulate ==
  /\ \E pk \in pks \cup {Foreign} :
       \/ result' = Result("Encapsulate", "ErrRand")
       \/ \E seed \in Bytes(EncapsulationSeedSize) :
            result' = Result("Encapsulate", EncapsulateDeterministically(pk, seed).err)
  /\ UNCHANGED <<pks, sks>>

EncapsulateDeterministicallyStep ==
  /\ \E pk \in pks \cup {Foreign}, seed \in Buffers :
       result' = Result("EncapsulateDeterministically",
                        EncapsulateDeterministically(pk, seed).err)
  /\ UNCHANGED <<pks, sks>>

DecapsulateStep ==
  /\ \E sk \in sks \cup {Foreign}, ct \in Buffers :
       result' = Result("Decapsulate", Decapsulate(sk, ct).err)
  /\ UNCHANGED <<pks, sks>>

MarshalBinary ==
  /\ \/ \E pk \in pks : result' = Result("MarshalBinary", MarshalPublicKey(pk).err)
     \/ \E sk \in sks : result' = Result("MarshalBinary", MarshalPrivateKey(sk).err)
  /\ UNCHANGED <<pks, sks>>

\* pem.ToPublicPEMBytes panics when MarshalBinary fails.
MarshalText ==
  /\ \E pk \in pks :
       result' = Result("MarshalText",
                        IF MarshalPublicKey(pk).err = None THEN None ELSE Panic)
  /\ UNCHANGED <<pks, sks>>

\* PublicKey.UnmarshalText assigns the decoded key to its local receiver
\* variable only (sk, ok = pubkey.(*PublicKey)): the caller's key keeps its
\* value.  The zero value has a nil scheme, on which the PEM decoder panics.
UnmarshalText(pk, text) ==
  /\ result' = Result("UnmarshalText",
        IF pk = ZeroKey THEN Panic
        ELSE IF text.label # "PUBLIC KEY" THEN "ErrPEM"
        ELSE UnmarshalBinaryPublicKey(text.blob).err)
  /\ UNCHANGED <<pks, sks>>

UnmarshalTextStep == \E pk \in pks, text \in Texts : UnmarshalText(pk, text)

UnmarshalPublicStep ==
  \E buf \in Buffers :
    LET u == UnmarshalBinaryPublicKey(buf)
    IN  /\ u.err = None => Room(pks, u.key)
        /\ pks' = IF u.err = None THEN pks \cup {u.key} ELSE pks
        /\ result' = Result("UnmarshalBinaryPublicKey", u.err)
        /\ UNCHANGED sks

UnmarshalPrivateStep ==
  \E buf \in Buffers :
    LET u == UnmarshalBinaryPrivateKey(buf)
    IN  /\ u.err = None => Room(sks, u.key)
        /\ sks' = IF u.err = None THEN sks \cup {u.key} ELSE sks
        /\ result' = Result("UnmarshalBinaryPrivateKey", u.err)
        /\ UNCHANGED pks

Next ==
  \/ NewKey
  \/ GenerateKeyPair
  \/ DeriveKeyPairStep
  \/ PublicStep
  \/ Encapsulate
  \/ EncapsulateDeterministicallyStep
  \/ DecapsulateStep
  \/ MarshalBinary
  \/ MarshalText
  \/ UnmarshalTextStep
  \/ UnmarshalPublicStep
  \/ UnmarshalPrivateStep

Spec == Init /\ [][Next]_vars

-----------------------------------------------------------------------------
(* Properties.                                                             *)

TypeOK ==
  /\ pks \subseteq PublicKeys \cup {ZeroKey}
  /\ sks \subseteq PrivateKeys \cup {ZeroKey}
  /\ result \in [op : Ops, err : Errors]

\* Round trip (spec 3, 8.1): for every private key and every public key the
\* caller holds, however each was obtained (GenerateKeyPair, DeriveKeyPair,
\* Public or UnmarshalBinary*), if the public key Equals the private key's
\* Public(), then every deterministic encapsulation to it succeeds and
\* Decapsulate of its ciphertext returns its shared secret: the two methods
\* cut the ciphertext at the same place and feed the PRF the same inputs.
DecapCorrect ==
  \A pk \in pks \ {ZeroKey}, sk \in sks \ {ZeroKey} :
    PkEqual(Public(sk), pk) =>
      \A seed \in Bytes(EncapsulationSeedSize) :
        LET e == EncapsulateDeterministically(pk, seed)
        IN  /\ e.err = None
            /\ Decapsulate(sk, e.ct) = [err |-> None, ss |-> e.ss]

\* Marshal/unmarshal idempotence (spec 3, 8.3): UnmarshalBinaryPublicKey
\* (resp. PrivateKey) of MarshalBinary of any initialised key the caller
\* holds gives the same key back.
MarshalRoundTrip ==
  /\ \A pk \in pks \ {ZeroKey} :
       UnmarshalBinaryPublicKey(MarshalPublicKey(pk).buf) = [err |-> None, key |-> pk]
  /\ \A sk \in sks \ {ZeroKey} :
       UnmarshalBinaryPrivateKey(MarshalPrivateKey(sk).buf) = [err |-> None, key |-> sk]

\* Transcript binding (spec 4.3, 8.6): under any private key the caller
\* holds, two different ciphertexts never decapsulate to the same shared
\* secret, even when one component (Malleable) ignores its ciphertext: the
\* whole ciphertext enters every PRF branch of Decapsulate.
CiphertextBinding ==
  \A sk \in sks \ {ZeroKey}, ct1, ct2 \in Bytes(CiphertextSize) :
    ct1 # ct2 => Decapsulate(sk, ct1).ss # Decapsulate(sk, ct2).ss

\* Errors are returned, never raised (spec 7): no method the caller can call
\* with the arguments it can pass panics; a bad seed length is InvalidSeed.
NoPanic == result.err # Panic

=============================================================================
