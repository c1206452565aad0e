--------------------------- MODULE Ed25519_proofs ---------------------------
(***************************************************************************)
(* Proofs about the ed25519 wrapper, for any seeds, messages, caller      *)
(* buffers and bounds: every key owns its bytes, the key objects keep     *)
(* their types, and a private key's secret changes only by its own calls. *)
(***************************************************************************)
EXTENDS Ed25519, SequenceTheorems, FiniteSetTheorems, TLAPS

\* The strengthening of NoSharedArrays that is inductive: mem only grows
\* (so the caller's buffers stay at its front) and every key field points
\* at an array that exists, so an array allocated by a step is fresh.
IInv ==
  /\ mem \in Seq(Seq(Halves))
  /\ Len(Inputs) <= Len(mem)
  /\ privKey \in Seq(Nat)
  /\ \A k \in DOMAIN privKey : privKey[k] \in 1 .. Len(mem)
  /\ \A p \in DOMAIN pubKey : pubKey[p] \in (1 .. Len(mem)) \cup {Nil}
  /\ NoSharedArrays

-----------------------------------------------------------------------------
(* Lemmas about the helpers.                                               *)

\* Store sets one entry of a sequence, or appends one past its end.
LEMMA StoreProperties ==
  ASSUME NEW s \in Seq(Nat), NEW k \in 1 .. Len(s) + 1, NEW v \in Nat
  PROVE  /\ Store(s, k, v) \in Seq(Nat)
         /\ DOMAIN Store(s, k, v) = DOMAIN s \cup {k}
         /\ Store(s, k, v)[k] = v
         /\ \A i \in DOMAIN s \ {k} : Store(s, k, v)[i] = s[i]
<1>1. CASE k = Len(s) + 1
  BY <1>1, AppendProperties, LenProperties DEF Store
<1>2. CASE k \in 1 .. Len(s)
  BY <1>2, LenProperties DEF Store
<1> QED BY <1>1, <1>2

\* Extend maps one more point, or remaps one.
LEMMA ExtendProperties ==
  ASSUME NEW f, NEW x, NEW v
  PROVE  /\ DOMAIN Extend(f, x, v) = DOMAIN f \cup {x}
         /\ Extend(f, x, v)[x] = v
         /\ \A y \in DOMAIN f \ {x} : Extend(f, x, v)[y] = f[y]
BY DEF Extend

\* ExplicitBzero keeps a buffer's length.
LEMMA ZeroBuffer ==
  ASSUME NEW c \in Seq(Halves)
  PROVE  Zero(c) \in Seq(Halves) /\ Len(Zero(c)) = Len(c)
<1>1. Z \in Halves BY DEF Halves
<1>2. DOMAIN c = 1 .. Len(c) /\ Len(c) \in Nat BY LenProperties
<1> QED BY <1>1, <1>2 DEF Zero

\* Wiping one array of the store keeps the store's shape.
LEMMA WipeArray ==
  ASSUME NEW m \in Seq(Seq(Halves)), NEW a
  PROVE  /\ [m EXCEPT ![a] = Zero(m[a])] \in Seq(Seq(Halves))
         /\ Len([m EXCEPT ![a] = Zero(m[a])]) = Len(m)
<1>1. CASE a \in 1 .. Len(m)
  <2>1. m[a] \in Seq(Halves) BY <1>1, ElementOfSeq
  <2>2. Zero(m[a]) \in Seq(Halves) BY <2>1, ZeroBuffer
  <2> QED BY <1>1, <2>2, ExceptSeq
<1>2. CASE a \notin 1 .. Len(m)
  BY <1>2, LenProperties
<1> QED BY <1>1, <1>2

\* PrivateKey.Reset wipes two arrays of the store.
LEMMA WipeTwo ==
  ASSUME NEW m \in Seq(Seq(Halves)), NEW a, NEW b
  PROVE  /\ [m EXCEPT ![a] = Zero(@), ![b] = Zero(@)] \in Seq(Seq(Halves))
         /\ Len([m EXCEPT ![a] = Zero(@), ![b] = Zero(@)]) = Len(m)
<1> DEFINE w == [m EXCEPT ![a] = Zero(@), ![b] = Zero(@)]
<1>1. \A i \in 1 .. Len(m) :
        /\ m[i] \in Seq(Halves)
        /\ Zero(m[i]) \in Seq(Halves)
        /\ Zero(Zero(m[i])) \in Seq(Halves)
  BY ElementOfSeq, ZeroBuffer
<1>2. DOMAIN w = 1 .. Len(m) /\ \A i \in 1 .. Len(m) : w[i] \in Seq(Halves)
  BY <1>1, LenProperties
<1>3. Len(m) \in Nat BY LenProperties
<1>4. w \in [1 .. Len(m) -> Seq(Halves)] BY <1>2
<1>5. w \in Seq(Seq(Halves))
  <2>1. Seq(Seq(Halves)) = UNION {[1 .. n -> Seq(Halves)] : n \in Nat} BY SeqDef
  <2> QED BY <2>1, <1>3, <1>4
<1>6. Len(w) \in Nat /\ DOMAIN w = 1 .. Len(w) BY <1>5, LenProperties
<1> QED BY <1>2, <1>3, <1>5, <1>6

-----------------------------------------------------------------------------
(* The kinds of step, and why each keeps IInv.                             *)

\* A step that allocates two arrays and makes them privKey of k and pubKey
\* of Emb(k): NewKeypair and FromBytes of a private key.
LEMMA TwoFreshArrays ==
  ASSUME IInv, NEW k \in 1 .. Len(privKey) + 1,
         NEW c \in Seq(Halves), NEW d \in Seq(Halves),
         mem' = Append(mem, c) \o <<d>>,
         privKey' = Store(privKey, k, Len(mem) + 1),
         pubKey' = Extend(pubKey, Emb(k), Len(mem) + 2)
  PROVE  IInv'
<1> DEFINE L == Len(mem)
<1>1. L \in Nat /\ Len(Inputs) \in Nat /\ Len(Inputs) <= L
  BY ConstantsAssumption, LenProperties DEF IInv
<1>2. mem' \in Seq(Seq(Halves)) /\ Len(mem') = L + 2
  <2>1. Append(mem, c) \in Seq(Seq(Halves)) /\ Len(Append(mem, c)) = L + 1
    BY AppendProperties DEF IInv
  <2>2. <<d>> \in Seq(Seq(Halves)) /\ Len(<<d>>) = 1
    OBVIOUS
  <2> QED BY <2>1, <2>2, ConcatProperties
<1>3. /\ privKey' \in Seq(Nat)
      /\ DOMAIN privKey' = DOMAIN privKey \cup {k}
      /\ privKey'[k] = L + 1
      /\ \A i \in DOMAIN privKey \ {k} : privKey'[i] = privKey[i]
  <2>1. privKey \in Seq(Nat) /\ L + 1 \in Nat BY <1>1 DEF IInv
  <2>2. /\ Store(privKey, k, L + 1) \in Seq(Nat)
        /\ DOMAIN Store(privKey, k, L + 1) = DOMAIN privKey \cup {k}
        /\ Store(privKey, k, L + 1)[k] = L + 1
        /\ \A i \in DOMAIN privKey \ {k} : Store(privKey, k, L + 1)[i] = privKey[i]
    BY <2>1, StoreProperties
  <2> QED BY <2>2
<1>4. /\ DOMAIN pubKey' = DOMAIN pubKey \cup {Emb(k)}
      /\ pubKey'[Emb(k)] = L + 2
      /\ \A p \in DOMAIN pubKey \ {Emb(k)} : pubKey'[p] = pubKey[p]
  BY DEF Extend
<1>5. /\ \A i \in DOMAIN privKey : privKey[i] \in 1 .. L
      /\ \A p \in DOMAIN pubKey : pubKey[p] \in (1 .. L) \cup {Nil}
      /\ NoSharedArrays
  BY DEF IInv
<1>6. /\ \A i \in DOMAIN privKey' : privKey'[i] \in 1 .. L + 2
      /\ \A p \in DOMAIN pubKey' : pubKey'[p] \in (1 .. L + 2) \cup {Nil}
  <2>1. ASSUME NEW i \in DOMAIN privKey' PROVE privKey'[i] \in 1 .. L + 2
    <3>1. CASE i = k BY <3>1, <1>1, <1>3
    <3>2. CASE i # k BY <3>2, <1>1, <1>3, <1>5
    <3> QED BY <3>1, <3>2
  <2>2. ASSUME NEW p \in DOMAIN pubKey' PROVE pubKey'[p] \in (1 .. L + 2) \cup {Nil}
    <3>1. CASE p = Emb(k) BY <3>1, <1>1, <1>4
    <3>2. CASE p # Emb(k) BY <3>2, <1>1, <1>4, <1>5
    <3> QED BY <3>1, <3>2
  <2> QED BY <2>1, <2>2
<1>7. NoSharedArrays'
  <2>1. Nil \notin Nat /\ Len(Inputs) <= L BY <1>1, ConstantsAssumption
  <2>2. ASSUME NEW i \in DOMAIN privKey' PROVE privKey'[i] > Len(Inputs)
    <3>1. CASE i = k BY <3>1, <2>1, <1>1, <1>3
    <3>2. CASE i # k BY <3>2, <1>3, <1>5 DEF NoSharedArrays
    <3> QED BY <3>1, <3>2
  <2>3. \A p \in DOMAIN pubKey' : pubKey'[p] # Nil => pubKey'[p] > Len(Inputs)
    BY <2>1, <1>1, <1>4, <1>5 DEF NoSharedArrays
  <2>4. ASSUME NEW i \in DOMAIN privKey', NEW j \in DOMAIN privKey', i # j
        PROVE  privKey'[i] # privKey'[j]
    <3>1. CASE i = k BY <3>1, <2>4, <1>1, <1>3, <1>5
    <3>2. CASE j = k BY <3>2, <2>4, <1>1, <1>3, <1>5
    <3>3. CASE i # k /\ j # k BY <3>3, <2>4, <1>3, <1>5 DEF NoSharedArrays
    <3> QED BY <3>1, <3>2, <3>3
  <2>5. \A p, q \in DOMAIN pubKey' : p # q /\ pubKey'[p] # Nil => pubKey'[p] # pubKey'[q]
    BY <2>1, <1>1, <1>4, <1>5 DEF NoSharedArrays
  <2>6. ASSUME NEW i \in DOMAIN privKey', NEW p \in DOMAIN pubKey'
        PROVE  privKey'[i] # pubKey'[p]
    <3>1. CASE i = k /\ p = Emb(k) BY <3>1, <1>1, <1>3, <1>4
    <3>2. CASE i = k /\ p # Emb(k) BY <3>2, <2>1, <1>1, <1>3, <1>4, <1>5
    <3>3. CASE i # k /\ p = Emb(k) BY <3>3, <1>1, <1>3, <1>4, <1>5
    <3>4. CASE i # k /\ p # Emb(k) BY <3>4, <1>3, <1>4, <1>5 DEF NoSharedArrays
    <3> QED BY <3>1, <3>2, <3>3, <3>4
  <2> QED BY <2>2, <2>3, <2>4, <2>5, <2>6 DEF NoSharedArrays
<1> QED BY <1>1, <1>2, <1>3, <1>6, <1>7 DEF IInv

\* A step that allocates one array and makes it pubKey of p: FromBytes of
\* a public key, on a new PublicKey or an existing one.
LEMMA OneFreshArray ==
  ASSUME IInv, NEW p, NEW c \in Seq(Halves),
         mem' = Append(mem, c),
         privKey' = privKey,
         pubKey' = Extend(pubKey, p, Len(mem) + 1)
  PROVE  IInv'
<1> DEFINE L == Len(mem)
<1>1. L \in Nat /\ Len(Inputs) \in Nat /\ Len(Inputs) <= L /\ Nil \notin Nat
  BY ConstantsAssumption, LenProperties DEF IInv
<1>2. mem' \in Seq(Seq(Halves)) /\ Len(mem') = L + 1
  BY AppendProperties DEF IInv
<1>3. /\ DOMAIN pubKey' = DOMAIN pubKey \cup {p}
      /\ pubKey'[p] = L + 1
      /\ \A q \in DOMAIN pubKey \ {p} : pubKey'[q] = pubKey[q]
  BY DEF Extend
<1>4. /\ privKey \in Seq(Nat)
      /\ \A i \in DOMAIN privKey : privKey[i] \in 1 .. L
      /\ \A q \in DOMAIN pubKey : pubKey[q] \in (1 .. L) \cup {Nil}
      /\ NoSharedArrays
  BY DEF IInv
<1>5. \A q \in DOMAIN pubKey' : pubKey'[q] \in (1 .. L + 1) \cup {Nil}
  <2> SUFFICES ASSUME NEW q \in DOMAIN pubKey' PROVE pubKey'[q] \in (1 .. L + 1) \cup {Nil}
    OBVIOUS
  <2>1. CASE q = p BY <2>1, <1>1, <1>3
  <2>2. CASE q # p BY <2>2, <1>1, <1>3, <1>4
  <2> QED BY <2>1, <2>2
<1>6. NoSharedArrays'
  <2>1. \A q \in DOMAIN pubKey' : pubKey'[q] # Nil => pubKey'[q] > Len(Inputs)
    <3> SUFFICES ASSUME NEW q \in DOMAIN pubKey', pubKey'[q] # Nil
                 PROVE  pubKey'[q] > Len(Inputs)
      OBVIOUS
    <3>1. CASE q = p BY <3>1, <1>1, <1>3
    <3>2. CASE q # p BY <3>2, <1>3, <1>4 DEF NoSharedArrays
    <3> QED BY <3>1, <3>2
  <2>2. \A q, r \in DOMAIN pubKey' : q # r /\ pubKey'[q] # Nil => pubKey'[q] # pubKey'[r]
    <3> SUFFICES ASSUME NEW q \in DOMAIN pubKey', NEW r \in DOMAIN pubKey',
                        q # r, pubKey'[q] # Nil
                 PROVE  pubKey'[q] # pubKey'[r]
      OBVIOUS
    <3>1. CASE q = p BY <3>1, <1>1, <1>3, <1>4
    <3>2. CASE r = p BY <3>2, <1>1, <1>3, <1>4
    <3>3. CASE q # p /\ r # p BY <3>3, <1>3, <1>4 DEF NoSharedArrays
    <3> QED BY <3>1, <3>2, <3>3
  <2>3. \A i \in DOMAIN privKey', q \in DOMAIN pubKey' : privKey'[i] # pubKey'[q]
    <3> SUFFICES ASSUME NEW i \in DOMAIN privKey', NEW q \in DOMAIN pubKey'
                 PROVE  privKey'[i] # pubKey'[q]
      OBVIOUS
    <3>1. CASE q = p BY <3>1, <1>1, <1>3, <1>4
    <3>2. CASE q # p BY <3>2, <1>3, <1>4 DEF NoSharedArrays
    <3> QED BY <3>1, <3>2
  <2> QED BY <2>1, <2>2, <2>3, <1>4 DEF NoSharedArrays
<1> QED BY <1>1, <1>2, <1>4, <1>5, <1>6 DEF IInv

\* A step that adds a PublicKey whose pubKey is nil: NewEmptyPublicKey.
LEMMA NilField ==
  ASSUME IInv, NEW p,
         mem' = mem, privKey' = privKey, pubKey' = Extend(pubKey, p, Nil)
  PROVE  IInv'
<1>1. /\ DOMAIN pubKey' = DOMAIN pubKey \cup {p}
      /\ pubKey'[p] = Nil
      /\ \A q \in DOMAIN pubKey \ {p} : pubKey'[q] = pubKey[q]
  BY DEF Extend
<1>2. \A q \in DOMAIN pubKey' : pubKey'[q] \in (1 .. Len(mem)) \cup {Nil}
  BY <1>1 DEF IInv
<1>3. NoSharedArrays'
  <2>1. \A i \in DOMAIN privKey : privKey[i] \in Nat BY DEF IInv
  <2>2. Nil \notin Nat BY ConstantsAssumption
  <2> QED BY <1>1, <2>1, <2>2 DEF IInv, NoSharedArrays
<1> QED BY <1>2, <1>3 DEF IInv

\* A step that leaves the key fields alone and keeps the store's length:
\* Reset, Sign, Verify, Equal, ToECDH and every error return.
LEMMA FieldsKept ==
  ASSUME IInv, mem' \in Seq(Seq(Halves)), Len(mem') = Len(mem),
         privKey' = privKey, pubKey' = pubKey
  PROVE  IInv'
BY DEF IInv, NoSharedArrays

\* The caller's buffers and the halves PubOf and the seeds make.
LEMMA BufferFacts ==
  ASSUME IInv, NEW b \in DOMAIN mem
  PROVE  /\ mem[b] \in Seq(Halves)
         /\ Len(mem[b]) = 2 => mem[b][2] \in Halves /\ <<mem[b][2]>> \in Seq(Halves)
<1>1. b \in 1 .. Len(mem) BY LenProperties DEF IInv
<1>2. mem[b] \in Seq(Halves) BY <1>1, ElementOfSeq DEF IInv
<1>3. Len(mem[b]) = 2 => mem[b][2] \in Halves BY <1>2, ElementOfSeq
<1> QED BY <1>2, <1>3

-----------------------------------------------------------------------------
(* The theorem.                                                            *)

LEMMA InitIInv == Init => IInv
<1> SUFFICES ASSUME Init PROVE IInv
  OBVIOUS
<1>1. mem = Inputs /\ privKey = <<>> /\ pubKey = [p \in {} |-> Nil] BY DEF Init
<1>2. Inputs \in Seq(Seq(Halves)) BY ConstantsAssumption
<1>3. <<>> \in Seq(Nat) BY EmptySeq
<1> QED BY <1>1, <1>2, <1>3 DEF IInv, NoSharedArrays

LEMMA NextIInv ==
  ASSUME IInv, [Next]_vars
  PROVE  IInv'
<1>1. CASE NewKeypair
  <2>1. CASE \E s \in Seeds :
               LET k == Len(privKey) + 1 IN
               /\ mem' = Alloc(<<s, PubOf(s)>>) \o <<<<PubOf(s)>>>>
               /\ privKey' = Store(privKey, k, Len(mem) + 1)
               /\ pubKey' = Extend(pubKey, Emb(k), Len(mem) + 2)
    <3>1. PICK s \in Seeds :
               /\ mem' = Append(mem, <<s, PubOf(s)>>) \o <<<<PubOf(s)>>>>
               /\ privKey' = Store(privKey, Len(privKey) + 1, Len(mem) + 1)
               /\ pubKey' = Extend(pubKey, Emb(Len(privKey) + 1), Len(mem) + 2)
      BY <2>1 DEF Alloc
    <3>2. <<s, PubOf(s)>> \in Seq(Halves) /\ <<PubOf(s)>> \in Seq(Halves)
      BY DEF Halves
    <3>3. Len(privKey) + 1 \in 1 .. Len(privKey) + 1 BY LenProperties DEF IInv
    <3> QED BY <3>1, <3>2, <3>3, TwoFreshArrays
  <2>2. CASE UNCHANGED <<mem, privKey, pubKey>>
    BY <2>2, FieldsKept DEF IInv
  <2> QED BY <1>1, <2>1, <2>2 DEF NewKeypair
<1>2. CASE NewEmptyPublicKey
  BY <1>2, NilField DEF NewEmptyPublicKey
<1>3. ASSUME NEW b \in DOMAIN mem, UnmarshalBinaryPrivateKey(b) PROVE IInv'
  <2>1. CASE Len(mem[b]) # 2
    BY <1>3, <2>1, FieldsKept DEF UnmarshalBinaryPrivateKey, IInv
  <2>2. CASE Len(mem[b]) = 2
    <3>1. Len(privKey) + 1 \in 1 .. Len(privKey) + 1 BY LenProperties DEF IInv
    <3>2. LoadPrivate(Len(privKey) + 1, b) BY <1>3, <2>2 DEF UnmarshalBinaryPrivateKey
    <3> QED BY <2>2, <3>1, <3>2, BufferFacts, TwoFreshArrays DEF LoadPrivate, Alloc
  <2> QED BY <2>1, <2>2
<1>4. ASSUME NEW b \in DOMAIN mem, NEW k \in DOMAIN privKey, FromBytesPrivate(k, b)
      PROVE IInv'
  <2>1. CASE Len(mem[b]) # 2
    BY <1>4, <2>1, FieldsKept DEF FromBytesPrivate, IInv
  <2>2. CASE Len(mem[b]) = 2
    <3>1. k \in 1 .. Len(privKey) + 1 BY LenProperties DEF IInv
    <3>2. LoadPrivate(k, b) BY <1>4, <2>2 DEF FromBytesPrivate
    <3> QED BY <2>2, <3>1, <3>2, BufferFacts, TwoFreshArrays DEF LoadPrivate, Alloc
  <2> QED BY <2>1, <2>2
<1>5. ASSUME NEW b \in DOMAIN mem, UnmarshalBinaryPublicKey(b) PROVE IInv'
  <2>1. CASE Len(mem[b]) # 1
    BY <1>5, <2>1, FieldsKept DEF UnmarshalBinaryPublicKey, IInv
  <2>2. CASE Len(mem[b]) = 1
    <3>1. mem[b] \in Seq(Halves) BY BufferFacts
    <3>2. LoadPublic(Own(OwnCount + 1), b) /\ privKey' = privKey
      BY <1>5, <2>2 DEF UnmarshalBinaryPublicKey
    <3> QED BY <3>1, <3>2, OneFreshArray DEF LoadPublic, Alloc
  <2> QED BY <2>1, <2>2
<1>6. ASSUME NEW b \in DOMAIN mem, NEW p \in DOMAIN pubKey, FromBytesPublic(p, b)
      PROVE IInv'
  <2>1. CASE Len(mem[b]) # 1
    BY <1>6, <2>1, FieldsKept DEF FromBytesPublic, IInv
  <2>2. CASE Len(mem[b]) = 1
    <3>1. mem[b] \in Seq(Halves) BY BufferFacts
    <3>2. LoadPublic(p, b) /\ privKey' = privKey BY <1>6, <2>2 DEF FromBytesPublic
    <3> QED BY <3>1, <3>2, OneFreshArray DEF LoadPublic, Alloc
  <2> QED BY <2>1, <2>2
<1>7. ASSUME NEW k \in DOMAIN privKey, ResetPrivate(k) PROVE IInv'
  <2>1. /\ mem' \in Seq(Seq(Halves)) /\ Len(mem') = Len(mem)
        /\ privKey' = privKey /\ pubKey' = pubKey
    BY <1>7, WipeTwo DEF ResetPrivate, IInv
  <2> QED BY <2>1, FieldsKept
<1>8. ASSUME NEW p \in DOMAIN pubKey, ResetPublic(p) PROVE IInv'
  <2>1. CASE pubKey[p] = Nil
    BY <1>8, <2>1, FieldsKept DEF ResetPublic, IInv
  <2>2. CASE pubKey[p] # Nil
    <3>1. /\ [mem EXCEPT ![pubKey[p]] = Zero(mem[pubKey[p]])] \in Seq(Seq(Halves))
          /\ Len([mem EXCEPT ![pubKey[p]] = Zero(mem[pubKey[p]])]) = Len(mem)
      BY WipeArray DEF IInv
    <3> QED BY <1>8, <2>2, <3>1, FieldsKept DEF ResetPublic
  <2> QED BY <2>1, <2>2
<1>9. CASE \/ \E k \in DOMAIN privKey, m \in Msgs : Sign(k, m)
           \/ \E p \in DOMAIN pubKey :
                \/ ToECDH(p)
                \/ \E q \in DOMAIN pubKey \cup {Foreign} : Equal(p, q)
                \/ \E sig \in sigs, m \in Msgs : Verify(p, sig, m)
  BY <1>9, FieldsKept DEF Sign, ToECDH, Equal, Verify, IInv
<1>10. CASE UNCHANGED vars
  BY <1>10, FieldsKept DEF vars, IInv
<1> QED BY <1>1, <1>2, <1>3, <1>4, <1>5, <1>6, <1>7, <1>8, <1>9, <1>10 DEF Next

\* Every key owns its bytes (NoSharedArrays) in every reachable state, for
\* any seeds, messages, caller buffers and bounds: NewKeypair, FromBytes
\* and UnmarshalBinary* copy into fresh arrays, and nothing else assigns a
\* key field.
THEOREM ArraysOwned == Spec => []NoSharedArrays
<1>1. Init => IInv BY InitIInv
<1>2. IInv /\ [Next]_vars => IInv' BY NextIInv
<1>3. IInv => NoSharedArrays BY DEF IInv
<1> QED BY <1>1, <1>2, <1>3, PTL DEF Spec

-----------------------------------------------------------------------------
(* Type correctness.                                                       *)

\* The PublicKey structs the scheme made itself, which OwnCount counts.
OwnIds == {p \in DOMAIN pubKey : p[1] = "own"}

Results == [op : Ops, out : {"ok", "err", "panic", "true", "false"}]

\* The strengthening of TypeOK that is inductive: IInv; the scheme's own
\* structs are numbered 1 .. OwnCount, so the next one is fresh; every
\* private key's embedded struct exists; and the first half of every
\* 64-byte array is a seed, so that Sign makes a signature of a seed.
TInv ==
  /\ IInv
  /\ IsFiniteSet(OwnIds) /\ OwnIds = {Own(j) : j \in 1 .. OwnCount}
  /\ DOMAIN pubKey = {Emb(k) : k \in DOMAIN privKey} \cup OwnIds
  /\ \A k \in DOMAIN privKey : Len(mem[privKey[k]]) = 2
  /\ \A p \in DOMAIN pubKey : pubKey[p] # Nil => Len(mem[pubKey[p]]) = 1
  /\ \A a \in DOMAIN mem : Len(mem[a]) = 2 => mem[a][1] \in Seeds \cup {Z}
  /\ sigs \subseteq Signatures
  /\ result \in Results

\* What ExplicitBzero leaves: an array of the same length, all zero halves.
LEMMA ZeroFacts ==
  ASSUME NEW c \in Seq(Halves)
  PROVE  /\ Zero(c) \in Seq(Halves) /\ Len(Zero(c)) = Len(c)
         /\ Len(c) = 2 => Zero(c)[1] = Z
         /\ Zero(Zero(c)) = Zero(c)
<1>1. Zero(c) \in Seq(Halves) /\ Len(Zero(c)) = Len(c) BY ZeroBuffer
<1>2. DOMAIN c = 1 .. Len(c) BY LenProperties
<1>3. Len(c) = 2 => Zero(c)[1] = Z BY <1>2 DEF Zero
<1>4. Zero(Zero(c)) = Zero(c) BY DEF Zero
<1> QED BY <1>1, <1>3, <1>4

\* Reset wipes up to two arrays and leaves every other one as it was.
LEMMA WipeValues ==
  ASSUME NEW m \in Seq(Seq(Halves)), NEW x, NEW y
  PROVE  \A a \in 1 .. Len(m) :
           LET w == [m EXCEPT ![x] = Zero(@), ![y] = Zero(@)]
           IN  w[a] = m[a] \/ w[a] = Zero(m[a])
<1> SUFFICES ASSUME NEW a \in 1 .. Len(m)
             PROVE  LET w == [m EXCEPT ![x] = Zero(@), ![y] = Zero(@)]
                    IN  w[a] = m[a] \/ w[a] = Zero(m[a])
  OBVIOUS
<1>1. DOMAIN m = 1 .. Len(m) /\ m[a] \in Seq(Halves) BY LenProperties, ElementOfSeq
<1>2. Zero(Zero(m[a])) = Zero(m[a]) BY <1>1, ZeroFacts
<1> QED BY <1>1, <1>2

\* Two arrays appended to the store: the old ones keep their contents.
LEMMA GrowTwo ==
  ASSUME NEW m \in Seq(Seq(Halves)), NEW c \in Seq(Halves), NEW d \in Seq(Halves)
  PROVE  LET w == Append(m, c) \o <<d>>
         IN  /\ Len(w) = Len(m) + 2 /\ DOMAIN w = 1 .. Len(m) + 2
             /\ \A i \in 1 .. Len(m) : w[i] = m[i]
             /\ w[Len(m) + 1] = c /\ w[Len(m) + 2] = d
<1> DEFINE u == Append(m, c)
<1>1. /\ u \in Seq(Seq(Halves)) /\ Len(u) = Len(m) + 1 /\ Len(m) \in Nat
      /\ \A i \in 1 .. Len(m) : u[i] = m[i]
      /\ u[Len(m) + 1] = c
  BY AppendProperties, LenProperties
<1>2. <<d>> \in Seq(Seq(Halves)) /\ Len(<<d>>) = 1 OBVIOUS
<1>3. /\ u \o <<d>> \in Seq(Seq(Halves))
      /\ Len(u \o <<d>>) = Len(u) + 1
      /\ \A i \in 1 .. Len(u) + 1 : (u \o <<d>>)[i] = IF i <= Len(u) THEN u[i] ELSE <<d>>[i - Len(u)]
  BY <1>1, <1>2, ConcatProperties
<1>4. DOMAIN (u \o <<d>>) = 1 .. Len(m) + 2 BY <1>1, <1>3, LenProperties
<1> QED BY <1>1, <1>3, <1>4

\* A new pointer: an existing struct, or the scheme's next own struct.
LEMMA PointerAdded ==
  ASSUME TInv, NEW p, p \in DOMAIN pubKey \/ p = Own(OwnCount + 1),
         DOMAIN pubKey' = DOMAIN pubKey \cup {p}, DOMAIN privKey' = DOMAIN privKey
  PROVE  /\ IsFiniteSet(OwnIds') /\ OwnIds' = {Own(j) : j \in 1 .. OwnCount'}
         /\ DOMAIN pubKey' = {Emb(k) : k \in DOMAIN privKey'} \cup OwnIds'
<1>1. CASE p \in DOMAIN pubKey
  <2>1. DOMAIN pubKey' = DOMAIN pubKey BY <1>1
  <2>2. OwnIds' = OwnIds BY <2>1 DEF OwnIds
  <2>3. OwnCount' = OwnCount BY <2>1 DEF OwnCount
  <2> QED BY <2>1, <2>2, <2>3 DEF TInv
<1>2. CASE p = Own(OwnCount + 1)
  <2> DEFINE n == OwnCount
  <2>1. IsFiniteSet(OwnIds) /\ OwnIds = {Own(j) : j \in 1 .. n} BY DEF TInv
  <2>2. n = Cardinality(OwnIds) BY DEF OwnCount, OwnIds
  <2>3. n \in Nat BY <2>1, <2>2, FS_CardinalityType
  <2>4. Own(n + 1) \notin OwnIds BY <2>1, <2>3 DEF Own
  <2>5. OwnIds' = OwnIds \cup {Own(n + 1)} BY <1>2 DEF OwnIds, Own
  <2>6. IsFiniteSet(OwnIds') /\ Cardinality(OwnIds') = n + 1
    BY <2>1, <2>2, <2>4, <2>5, FS_AddElement
  <2>7. OwnCount' = n + 1 BY <2>6 DEF OwnCount, OwnIds
  <2>8. OwnIds' = {Own(j) : j \in 1 .. n + 1} BY <2>1, <2>3, <2>5
  <2>9. DOMAIN pubKey' = {Emb(k) : k \in DOMAIN privKey'} \cup OwnIds'
    BY <1>2, <2>5 DEF TInv
  <2> QED BY <2>6, <2>7, <2>8, <2>9
<1> QED BY <1>1, <1>2


\* A step that keeps every key field and every array's length, and only
\* wipes arrays: Reset, Sign, Verify, Equal, ToECDH and error returns.
LEMMA KeptTyped ==
  ASSUME TInv, IInv', Len(mem') = Len(mem),
         \A a \in 1 .. Len(mem) : mem'[a] = mem[a] \/ mem'[a] = Zero(mem[a]),
         privKey' = privKey, pubKey' = pubKey,
         sigs' \subseteq Signatures, result' \in Results
  PROVE  TInv'
<1>1. mem \in Seq(Seq(Halves)) /\ DOMAIN mem = 1 .. Len(mem) /\ DOMAIN mem' = 1 .. Len(mem)
  BY LenProperties DEF TInv, IInv
<1>2. \A a \in 1 .. Len(mem) :
        /\ Len(mem'[a]) = Len(mem[a])
        /\ Len(mem[a]) = 2 => mem'[a][1] \in {mem[a][1], Z}
  <2> SUFFICES ASSUME NEW a \in 1 .. Len(mem) PROVE
        /\ Len(mem'[a]) = Len(mem[a])
        /\ Len(mem[a]) = 2 => mem'[a][1] \in {mem[a][1], Z}
    OBVIOUS
  <2>1. mem[a] \in Seq(Halves) BY <1>1, ElementOfSeq
  <2> QED BY <2>1, ZeroFacts
<1>3. OwnIds' = OwnIds /\ OwnCount' = OwnCount BY DEF OwnIds, OwnCount
<1>4. \A k \in DOMAIN privKey : privKey[k] \in 1 .. Len(mem) BY DEF TInv, IInv
<1>5. \A p \in DOMAIN pubKey : pubKey[p] \in (1 .. Len(mem)) \cup {Nil} BY DEF TInv, IInv
<1> QED BY <1>1, <1>2, <1>3, <1>4, <1>5 DEF TInv

\* NewKeypair and FromBytes of a private key: two fresh arrays, a 64-byte
\* one whose first half is a seed and a 32-byte one.
LEMMA TwoFreshTyped ==
  ASSUME TInv, IInv', NEW k \in 1 .. Len(privKey) + 1,
         NEW c \in Seq(Halves), NEW d \in Seq(Halves),
         Len(c) = 2, Len(d) = 1, c[1] \in Seeds \cup {Z},
         mem' = Append(mem, c) \o <<d>>,
         privKey' = Store(privKey, k, Len(mem) + 1),
         pubKey' = Extend(pubKey, Emb(k), Len(mem) + 2),
         sigs' = sigs, result' \in Results
  PROVE  TInv'
<1> DEFINE L == Len(mem)
<1>1. /\ mem \in Seq(Seq(Halves)) /\ L \in Nat
      /\ Len(mem') = L + 2 /\ DOMAIN mem' = 1 .. L + 2
      /\ \A i \in 1 .. L : mem'[i] = mem[i]
      /\ mem'[L + 1] = c /\ mem'[L + 2] = d
  <2>1. mem \in Seq(Seq(Halves)) BY DEF TInv, IInv
  <2> QED BY <2>1, GrowTwo, LenProperties
<1>2. /\ DOMAIN privKey' = DOMAIN privKey \cup {k}
      /\ privKey'[k] = L + 1
      /\ \A i \in DOMAIN privKey \ {k} : privKey'[i] = privKey[i]
  <2>1. privKey \in Seq(Nat) /\ L + 1 \in Nat BY <1>1 DEF TInv, IInv
  <2>2. /\ DOMAIN Store(privKey, k, L + 1) = DOMAIN privKey \cup {k}
        /\ Store(privKey, k, L + 1)[k] = L + 1
        /\ \A i \in DOMAIN privKey \ {k} : Store(privKey, k, L + 1)[i] = privKey[i]
    BY <2>1, StoreProperties
  <2> QED BY <2>2
<1>3. /\ DOMAIN pubKey' = DOMAIN pubKey \cup {Emb(k)}
      /\ pubKey'[Emb(k)] = L + 2
      /\ \A p \in DOMAIN pubKey \ {Emb(k)} : pubKey'[p] = pubKey[p]
  BY DEF Extend
<1>4. OwnIds' = OwnIds /\ OwnCount' = OwnCount
  <2>1. OwnIds' = OwnIds BY <1>3 DEF OwnIds, Emb
  <2> QED BY <2>1 DEF OwnIds, OwnCount
<1>5. /\ \A i \in DOMAIN privKey : privKey[i] \in 1 .. L
      /\ \A p \in DOMAIN pubKey : pubKey[p] \in (1 .. L) \cup {Nil}
      /\ DOMAIN mem = 1 .. L
  BY <1>1, LenProperties DEF TInv, IInv
<1>6. \A i \in DOMAIN privKey' : Len(mem'[privKey'[i]]) = 2
  <2> SUFFICES ASSUME NEW i \in DOMAIN privKey' PROVE Len(mem'[privKey'[i]]) = 2
    OBVIOUS
  <2>1. CASE i = k BY <2>1, <1>1, <1>2
  <2>2. CASE i # k BY <2>2, <1>1, <1>2, <1>5 DEF TInv
  <2> QED BY <2>1, <2>2
<1>7. \A p \in DOMAIN pubKey' : pubKey'[p] # Nil => Len(mem'[pubKey'[p]]) = 1
  <2> SUFFICES ASSUME NEW p \in DOMAIN pubKey', pubKey'[p] # Nil
               PROVE  Len(mem'[pubKey'[p]]) = 1
    OBVIOUS
  <2>1. CASE p = Emb(k) BY <2>1, <1>1, <1>3
  <2>2. CASE p # Emb(k) BY <2>2, <1>1, <1>3, <1>5 DEF TInv
  <2> QED BY <2>1, <2>2
<1>8. \A a \in DOMAIN mem' : Len(mem'[a]) = 2 => mem'[a][1] \in Seeds \cup {Z}
  <2> SUFFICES ASSUME NEW a \in DOMAIN mem', Len(mem'[a]) = 2
               PROVE  mem'[a][1] \in Seeds \cup {Z}
    OBVIOUS
  <2>1. CASE a \in 1 .. L BY <2>1, <1>1, <1>5 DEF TInv
  <2>2. CASE a = L + 1 BY <2>2, <1>1
  <2>3. CASE a = L + 2 BY <2>3, <1>1
  <2> QED BY <2>1, <2>2, <2>3, <1>1
<1>9. DOMAIN pubKey' = {Emb(i) : i \in DOMAIN privKey'} \cup OwnIds'
  BY <1>2, <1>3, <1>4 DEF TInv
<1> QED BY <1>4, <1>6, <1>7, <1>8, <1>9 DEF TInv

\* FromBytes of a public key: one fresh 32-byte array, for an existing
\* PublicKey or the scheme's next one.
LEMMA OneFreshTyped ==
  ASSUME TInv, IInv', NEW p, p \in DOMAIN pubKey \/ p = Own(OwnCount + 1),
         NEW c \in Seq(Halves), Len(c) = 1,
         mem' = Append(mem, c), privKey' = privKey,
         pubKey' = Extend(pubKey, p, Len(mem) + 1),
         sigs' = sigs, result' \in Results
  PROVE  TInv'
<1> DEFINE L == Len(mem)
<1>1. /\ mem \in Seq(Seq(Halves)) /\ L \in Nat
      /\ DOMAIN mem = 1 .. L /\ DOMAIN mem' = 1 .. L + 1
      /\ \A i \in 1 .. L : mem'[i] = mem[i]
      /\ mem'[L + 1] = c
  <2>1. mem \in Seq(Seq(Halves)) BY DEF TInv, IInv
  <2>2. Append(mem, c) \in Seq(Seq(Halves)) /\ Len(Append(mem, c)) = L + 1
    BY <2>1, AppendProperties
  <2> QED BY <2>1, <2>2, AppendProperties, LenProperties
<1>2. /\ DOMAIN pubKey' = DOMAIN pubKey \cup {p}
      /\ pubKey'[p] = L + 1
      /\ \A q \in DOMAIN pubKey \ {p} : pubKey'[q] = pubKey[q]
  BY DEF Extend
<1>3. /\ IsFiniteSet(OwnIds') /\ OwnIds' = {Own(j) : j \in 1 .. OwnCount'}
      /\ DOMAIN pubKey' = {Emb(k) : k \in DOMAIN privKey'} \cup OwnIds'
  BY <1>2, PointerAdded
<1>4. /\ \A i \in DOMAIN privKey : privKey[i] \in 1 .. L
      /\ \A q \in DOMAIN pubKey : pubKey[q] \in (1 .. L) \cup {Nil}
  BY DEF TInv, IInv
<1>5. \A q \in DOMAIN pubKey' : pubKey'[q] # Nil => Len(mem'[pubKey'[q]]) = 1
  <2> SUFFICES ASSUME NEW q \in DOMAIN pubKey', pubKey'[q] # Nil
               PROVE  Len(mem'[pubKey'[q]]) = 1
    OBVIOUS
  <2>1. CASE q = p BY <2>1, <1>1, <1>2
  <2>2. CASE q # p BY <2>2, <1>1, <1>2, <1>4 DEF TInv
  <2> QED BY <2>1, <2>2
<1>6. \A i \in DOMAIN privKey' : Len(mem'[privKey'[i]]) = 2
  BY <1>1, <1>4 DEF TInv
<1>7. \A a \in DOMAIN mem' : Len(mem'[a]) = 2 => mem'[a][1] \in Seeds \cup {Z}
  <2> SUFFICES ASSUME NEW a \in DOMAIN mem', Len(mem'[a]) = 2
               PROVE  mem'[a][1] \in Seeds \cup {Z}
    OBVIOUS
  <2>1. CASE a \in 1 .. L
    <3>1. mem'[a] = mem[a] /\ a \in DOMAIN mem BY <2>1, <1>1
    <3>2. \A x \in DOMAIN mem : Len(mem[x]) = 2 => mem[x][1] \in Seeds \cup {Z}
      BY DEF TInv
    <3> QED BY <3>1, <3>2
  <2>2. CASE a = L + 1
    <3>1. mem'[a] = c BY <2>2, <1>1
    <3>2. Len(mem'[a]) = 1 BY <3>1
    <3>3. 1 # 2 OBVIOUS
    <3> QED BY <3>2, <3>3, Zenon
  <2> QED BY <2>1, <2>2, <1>1
<1> QED BY <1>3, <1>5, <1>6, <1>7 DEF TInv

\* NewEmptyPublicKey: the scheme's next PublicKey, with a nil field.
LEMMA NilTyped ==
  ASSUME TInv, IInv', mem' = mem, privKey' = privKey,
         pubKey' = Extend(pubKey, Own(OwnCount + 1), Nil),
         sigs' = sigs, result' \in Results
  PROVE  TInv'
<1>1. /\ DOMAIN pubKey' = DOMAIN pubKey \cup {Own(OwnCount + 1)}
      /\ pubKey'[Own(OwnCount + 1)] = Nil
      /\ \A q \in DOMAIN pubKey \ {Own(OwnCount + 1)} : pubKey'[q] = pubKey[q]
  BY DEF Extend
<1>2. /\ IsFiniteSet(OwnIds') /\ OwnIds' = {Own(j) : j \in 1 .. OwnCount'}
      /\ DOMAIN pubKey' = {Emb(k) : k \in DOMAIN privKey'} \cup OwnIds'
  BY <1>1, PointerAdded
<1> QED BY <1>1, <1>2 DEF TInv

LEMMA InitTInv == Init => TInv
<1> SUFFICES ASSUME Init PROVE TInv
  OBVIOUS
<1>1. IInv BY InitIInv
<1>2. DOMAIN pubKey = {} /\ DOMAIN privKey = {} /\ mem = Inputs
  BY DEF Init
<1>3. OwnIds = {} /\ IsFiniteSet(OwnIds) /\ OwnCount = 0
  BY <1>2, FS_EmptySet DEF OwnIds, OwnCount
<1>4. {Own(j) : j \in 1 .. 0} = {} OBVIOUS
<1>5. \A a \in DOMAIN mem : Len(mem[a]) = 2 => mem[a][1] \in Seeds \cup {Z}
  BY <1>2, ConstantsAssumption
<1>6. sigs = {} /\ result \in Results BY DEF Init, Results, Ops
<1> QED BY <1>1, <1>2, <1>3, <1>4, <1>5, <1>6 DEF TInv

LEMMA TInvTypeOK == TInv => TypeOK
<1> SUFFICES ASSUME TInv PROVE TypeOK
  OBVIOUS
<1>1. mem \in Seq(Seq(Halves)) /\ DOMAIN mem = 1 .. Len(mem)
  BY LenProperties DEF TInv, IInv
<1>2. privKey \in Seq(DOMAIN mem)
  <2>1. privKey \in [1 .. Len(privKey) -> Nat] /\ Len(privKey) \in Nat
    BY LenProperties DEF TInv, IInv
  <2>2. privKey \in [1 .. Len(privKey) -> DOMAIN mem] BY <1>1, <2>1 DEF TInv, IInv
  <2>3. Seq(DOMAIN mem) = UNION {[1 .. n -> DOMAIN mem] : n \in Nat} BY SeqDef
  <2> QED BY <2>1, <2>2, <2>3
<1>3. \A p \in DOMAIN pubKey : pubKey[p] \in DOMAIN mem \cup {Nil}
  BY <1>1 DEF TInv, IInv
<1> QED BY <1>1, <1>2, <1>3 DEF TInv, TypeOK, Results

LEMMA NextTInv ==
  ASSUME TInv, [Next]_vars
  PROVE  TInv'
<1>0. IInv' BY NextIInv DEF TInv
<1>a. /\ mem \in Seq(Seq(Halves)) /\ DOMAIN mem = 1 .. Len(mem)
      /\ privKey \in Seq(Nat) /\ DOMAIN privKey = 1 .. Len(privKey)
  BY LenProperties DEF TInv, IInv
<1>b. ASSUME UNCHANGED <<mem, privKey, pubKey, sigs>>, result' \in Results
      PROVE  TInv'
  <2>1. \A a \in 1 .. Len(mem) : mem'[a] = mem[a] /\ Len(mem') = Len(mem)
    BY <1>b
  <2>2. sigs' \subseteq Signatures BY <1>b DEF TInv
  <2> QED BY <1>0, <1>b, <2>1, <2>2, KeptTyped
<1>1. CASE NewKeypair
  <2>1. CASE \E s \in Seeds :
               LET k == Len(privKey) + 1 IN
               /\ mem' = Alloc(<<s, PubOf(s)>>) \o <<<<PubOf(s)>>>>
               /\ privKey' = Store(privKey, k, Len(mem) + 1)
               /\ pubKey' = Extend(pubKey, Emb(k), Len(mem) + 2)
               /\ result' = [op |-> "NewKeypair", out |-> "ok"]
    <3>1. PICK s \in Seeds :
               /\ mem' = Append(mem, <<s, PubOf(s)>>) \o <<<<PubOf(s)>>>>
               /\ privKey' = Store(privKey, Len(privKey) + 1, Len(mem) + 1)
               /\ pubKey' = Extend(pubKey, Emb(Len(privKey) + 1), Len(mem) + 2)
               /\ result' = [op |-> "NewKeypair", out |-> "ok"]
      BY <2>1 DEF Alloc
    <3>2. <<s, PubOf(s)>> \in Seq(Halves) /\ <<PubOf(s)>> \in Seq(Halves)
      BY DEF Halves
    <3>3. Len(privKey) + 1 \in 1 .. Len(privKey) + 1 BY <1>a, LenProperties
    <3>4. sigs' = sigs /\ result' \in Results BY <1>1, <3>1 DEF NewKeypair, Results, Ops
    <3> QED BY <1>0, <3>1, <3>2, <3>3, <3>4, TwoFreshTyped
  <2>2. CASE /\ result' = [op |-> "NewKeypair", out |-> "panic"]
             /\ UNCHANGED <<mem, privKey, pubKey>>
    BY <1>1, <2>2, <1>b DEF NewKeypair, Results, Ops
  <2> QED BY <1>1, <2>1, <2>2 DEF NewKeypair
<1>2. CASE NewEmptyPublicKey
  BY <1>0, <1>2, NilTyped DEF NewEmptyPublicKey, Results, Ops
<1>3. ASSUME NEW b \in DOMAIN mem, NEW k \in 1 .. Len(privKey) + 1,
             LoadPrivate(k, b), Len(mem[b]) = 2,
             sigs' = sigs, result' \in Results
      PROVE  TInv'
  <2>1. mem[b] \in Seq(Halves) /\ mem[b][2] \in Halves /\ <<mem[b][2]>> \in Seq(Halves)
    BY <1>3, BufferFacts DEF TInv
  <2>2. mem[b][1] \in Seeds \cup {Z} BY <1>3 DEF TInv
  <2> QED BY <1>0, <1>3, <2>1, <2>2, TwoFreshTyped DEF LoadPrivate, Alloc
<1>4. ASSUME NEW b \in DOMAIN mem, UnmarshalBinaryPrivateKey(b) PROVE TInv'
  <2>1. CASE Len(mem[b]) # 2
    BY <1>4, <2>1, <1>b DEF UnmarshalBinaryPrivateKey, Results, Ops
  <2>2. CASE Len(mem[b]) = 2
    <3>1. Len(privKey) + 1 \in 1 .. Len(privKey) + 1 BY <1>a, LenProperties
    <3>2. LoadPrivate(Len(privKey) + 1, b) /\ sigs' = sigs /\ result' \in Results
      BY <1>4, <2>2 DEF UnmarshalBinaryPrivateKey, Results, Ops
    <3> QED BY <2>2, <3>1, <3>2, <1>3
  <2> QED BY <2>1, <2>2
<1>5. ASSUME NEW b \in DOMAIN mem, NEW k \in DOMAIN privKey, FromBytesPrivate(k, b)
      PROVE TInv'
  <2>1. CASE Len(mem[b]) # 2
    BY <1>5, <2>1, <1>b DEF FromBytesPrivate, Results, Ops
  <2>2. CASE Len(mem[b]) = 2
    <3>1. k \in 1 .. Len(privKey) + 1 BY <1>a, LenProperties
    <3>2. LoadPrivate(k, b) /\ sigs' = sigs /\ result' \in Results
      BY <1>5, <2>2 DEF FromBytesPrivate, Results, Ops
    <3> QED BY <2>2, <3>1, <3>2, <1>3
  <2> QED BY <2>1, <2>2
<1>6. ASSUME NEW b \in DOMAIN mem, NEW p,
             p \in DOMAIN pubKey \/ p = Own(OwnCount + 1),
             LoadPublic(p, b), Len(mem[b]) = 1, privKey' = privKey,
             sigs' = sigs, result' \in Results
      PROVE  TInv'
  <2>1. mem[b] \in Seq(Halves) BY <1>6, BufferFacts DEF TInv
  <2> QED BY <1>0, <1>6, <2>1, OneFreshTyped DEF LoadPublic, Alloc
<1>7. ASSUME NEW b \in DOMAIN mem, UnmarshalBinaryPublicKey(b) PROVE TInv'
  <2>1. CASE Len(mem[b]) # 1
    BY <1>7, <2>1, <1>b DEF UnmarshalBinaryPublicKey, Results, Ops
  <2>2. CASE Len(mem[b]) = 1
    <3>1. LoadPublic(Own(OwnCount + 1), b) /\ privKey' = privKey
          /\ sigs' = sigs /\ result' \in Results
      BY <1>7, <2>2 DEF UnmarshalBinaryPublicKey, Results, Ops
    <3> QED BY <2>2, <3>1, <1>6
  <2> QED BY <2>1, <2>2
<1>8. ASSUME NEW b \in DOMAIN mem, NEW p \in DOMAIN pubKey, FromBytesPublic(p, b)
      PROVE TInv'
  <2>1. CASE Len(mem[b]) # 1
    BY <1>8, <2>1, <1>b DEF FromBytesPublic, Results, Ops
  <2>2. CASE Len(mem[b]) = 1
    <3>1. LoadPublic(p, b) /\ privKey' = privKey /\ sigs' = sigs /\ result' \in Results
      BY <1>8, <2>2 DEF FromBytesPublic, Results, Ops
    <3> QED BY <2>2, <3>1, <1>6
  <2> QED BY <2>1, <2>2
<1>9. ASSUME NEW k \in DOMAIN privKey, ResetPrivate(k) PROVE TInv'
  <2>1. Len(mem') = Len(mem) BY <1>9, <1>a, WipeTwo DEF ResetPrivate
  <2>2. \A a \in 1 .. Len(mem) : mem'[a] = mem[a] \/ mem'[a] = Zero(mem[a])
    BY <1>9, <1>a, WipeValues DEF ResetPrivate
  <2>3. UNCHANGED <<privKey, pubKey, sigs>> /\ result' \in Results
    BY <1>9 DEF ResetPrivate, Results, Ops
  <2> QED BY <1>0, <2>1, <2>2, <2>3, KeptTyped DEF TInv
<1>10. ASSUME NEW p \in DOMAIN pubKey, ResetPublic(p) PROVE TInv'
  <2>1. UNCHANGED <<privKey, pubKey, sigs>> /\ result' \in Results
    BY <1>10 DEF ResetPublic, Results, Ops
  <2>2. CASE pubKey[p] = Nil
    BY <1>10, <2>1, <2>2, <1>b DEF ResetPublic
  <2>3. CASE pubKey[p] # Nil
    <3>1. mem' = [mem EXCEPT ![pubKey[p]] = Zero(mem[pubKey[p]])]
      BY <1>10, <2>3 DEF ResetPublic
    <3>2. Len(mem') = Len(mem) BY <3>1, <1>a, WipeArray
    <3>3. \A a \in 1 .. Len(mem) : mem'[a] = mem[a] \/ mem'[a] = Zero(mem[a])
      BY <3>1, <1>a
    <3> QED BY <1>0, <2>1, <3>2, <3>3, KeptTyped DEF TInv
  <2> QED BY <2>2, <2>3
<1>11. ASSUME NEW k \in DOMAIN privKey, NEW m \in Msgs, Sign(k, m) PROVE TInv'
  <2>1. privKey[k] \in DOMAIN mem BY <1>a DEF TInv, IInv
  <2>2. Len(mem[privKey[k]]) = 2 /\ mem[privKey[k]][1] \in Seeds \cup {Z}
    BY <2>1 DEF TInv
  <2>3. mem[privKey[k]][2] \in Halves BY <2>1, <2>2, BufferFacts DEF TInv
  <2>4. SignOf(mem[privKey[k]], m) \in Signatures BY <2>2, <2>3 DEF SignOf, Signatures
  <2>5. sigs' \subseteq Signatures BY <1>11, <2>4 DEF Sign, TInv
  <2>6. UNCHANGED <<mem, privKey, pubKey>> /\ result' \in Results
    BY <1>11 DEF Sign, Results, Ops
  <2> QED BY <1>0, <2>5, <2>6, KeptTyped
<1>12. ASSUME NEW p \in DOMAIN pubKey,
              \/ ToECDH(p)
              \/ \E q \in DOMAIN pubKey \cup {Foreign} : Equal(p, q)
              \/ \E sig \in sigs, m \in Msgs : Verify(p, sig, m)
       PROVE  TInv'
  <2>1. \A sig, m : VerifyOut(p, sig, m) \in {"panic", "true", "false"}
    BY DEF VerifyOut, Out
  <2> QED BY <1>12, <2>1, <1>b DEF ToECDH, Equal, Verify, Out, Results, Ops
<1>13. CASE UNCHANGED vars
  BY <1>13, <1>b DEF vars, TInv
<1> QED BY <1>1, <1>2, <1>4, <1>5, <1>7, <1>8, <1>9, <1>10, <1>11, <1>12, <1>13 DEF Next

\* TypeOK holds in every reachable state, for any seeds, messages, caller
\* buffers and bounds: every key field points at an array of its size
\* (64 bytes for privKey, 32 for a non-nil pubKey), every PublicKey struct
\* is an embedded one or one the scheme made, and Sign only ever returns
\* signatures of a seed -- because FromBytes checks the length before it
\* copies and the caller's 64-byte buffers start with a seed.
THEOREM TypeCorrect == Spec => []TypeOK
<1>1. Init => TInv BY InitTInv
<1>2. TInv /\ [Next]_vars => TInv' BY NextTInv
<1>3. TInv => TypeOK BY TInvTypeOK
<1> QED BY <1>1, <1>2, <1>3, PTL DEF Spec

-----------------------------------------------------------------------------
(* A private key's secret is its own.                                      *)

\* A step that is not Reset or FromBytes on PrivateKey k leaves the bytes
\* of k.privKey as they were: it either appends fresh arrays and keeps
\* k's field, or wipes arrays that NoSharedArrays says are not k's.
LEMMA PrivateStep ==
  ASSUME TInv, [Next]_vars, NEW k \in DOMAIN privKey,
         ~ResetPrivate(k), ~\E b \in DOMAIN mem : FromBytesPrivate(k, b)
  PROVE  mem'[privKey'[k]] = mem[privKey[k]]
<1>a. /\ mem \in Seq(Seq(Halves)) /\ DOMAIN mem = 1 .. Len(mem)
      /\ privKey \in Seq(Nat) /\ DOMAIN privKey = 1 .. Len(privKey)
      /\ privKey[k] \in 1 .. Len(mem)
  BY LenProperties DEF TInv, IInv
<1>b. ASSUME privKey'[k] = privKey[k], \A i \in 1 .. Len(mem) : mem'[i] = mem[i]
      PROVE  mem'[privKey'[k]] = mem[privKey[k]]
  BY <1>a, <1>b
<1>c. ASSUME NEW j \in 1 .. Len(privKey) + 1, j # k, NEW b \in DOMAIN mem,
             Len(mem[b]) = 2, LoadPrivate(j, b)
      PROVE  mem'[privKey'[k]] = mem[privKey[k]]
  <2>1. mem[b] \in Seq(Halves) /\ <<mem[b][2]>> \in Seq(Halves)
    BY <1>c, BufferFacts DEF TInv
  <2>2. \A i \in 1 .. Len(mem) : mem'[i] = mem[i]
    BY <1>a, <1>c, <2>1, GrowTwo DEF LoadPrivate, Alloc
  <2>3. privKey'[k] = privKey[k]
    <3>1. Len(mem) + 1 \in Nat BY <1>a, LenProperties
    <3>2. \A i \in DOMAIN privKey \ {j} : Store(privKey, j, Len(mem) + 1)[i] = privKey[i]
      BY <1>a, <3>1, StoreProperties
    <3> QED BY <1>c, <3>2 DEF LoadPrivate
  <2> QED BY <2>2, <2>3, <1>b
<1>d. ASSUME NEW p, NEW b \in DOMAIN mem, LoadPublic(p, b), privKey' = privKey
      PROVE  mem'[privKey'[k]] = mem[privKey[k]]
  <2>1. mem[b] \in Seq(Halves) BY <1>d, BufferFacts DEF TInv
  <2>2. \A i \in 1 .. Len(mem) : mem'[i] = mem[i]
    BY <1>a, <1>d, <2>1, AppendProperties DEF LoadPublic, Alloc
  <2> QED BY <1>d, <2>2, <1>b
<1>e. ASSUME UNCHANGED <<mem, privKey>>
      PROVE  mem'[privKey'[k]] = mem[privKey[k]]
  BY <1>e
<1>1. CASE NewKeypair
  <2>1. CASE \E s \in Seeds :
               LET j == Len(privKey) + 1 IN
               /\ mem' = Alloc(<<s, PubOf(s)>>) \o <<<<PubOf(s)>>>>
               /\ privKey' = Store(privKey, j, Len(mem) + 1)
    <3>1. PICK s \in Seeds :
               /\ mem' = Append(mem, <<s, PubOf(s)>>) \o <<<<PubOf(s)>>>>
               /\ privKey' = Store(privKey, Len(privKey) + 1, Len(mem) + 1)
      BY <2>1 DEF Alloc
    <3>2. <<s, PubOf(s)>> \in Seq(Halves) /\ <<PubOf(s)>> \in Seq(Halves)
      BY DEF Halves
    <3>3. \A i \in 1 .. Len(mem) : mem'[i] = mem[i] BY <1>a, <3>1, <3>2, GrowTwo
    <3>4. privKey'[k] = privKey[k]
      <4>1. Len(privKey) + 1 \in 1 .. Len(privKey) + 1 /\ Len(mem) + 1 \in Nat
        BY <1>a, LenProperties
      <4>2. \A i \in DOMAIN privKey \ {Len(privKey) + 1} :
              Store(privKey, Len(privKey) + 1, Len(mem) + 1)[i] = privKey[i]
        BY <1>a, <4>1, StoreProperties
      <4>3. k # Len(privKey) + 1 BY <1>a
      <4> QED BY <3>1, <4>2, <4>3
    <3> QED BY <3>3, <3>4, <1>b
  <2> QED BY <1>1, <2>1, <1>e DEF NewKeypair
<1>2. CASE NewEmptyPublicKey
  BY <1>2, <1>e DEF NewEmptyPublicKey
<1>3. ASSUME NEW b \in DOMAIN mem, UnmarshalBinaryPrivateKey(b)
      PROVE  mem'[privKey'[k]] = mem[privKey[k]]
  <2>1. CASE Len(mem[b]) # 2 BY <1>3, <2>1, <1>e DEF UnmarshalBinaryPrivateKey
  <2>2. CASE Len(mem[b]) = 2
    <3>1. Len(privKey) + 1 \in 1 .. Len(privKey) + 1 /\ Len(privKey) + 1 # k
      BY <1>a, LenProperties
    <3> QED BY <1>3, <2>2, <3>1, <1>c DEF UnmarshalBinaryPrivateKey
  <2> QED BY <2>1, <2>2
<1>4. ASSUME NEW b \in DOMAIN mem, NEW j \in DOMAIN privKey, FromBytesPrivate(j, b)
      PROVE  mem'[privKey'[k]] = mem[privKey[k]]
  <2>1. j # k BY <1>4
  <2>2. CASE Len(mem[b]) # 2 BY <1>4, <2>2, <1>e DEF FromBytesPrivate
  <2>3. CASE Len(mem[b]) = 2
    <3>1. j \in 1 .. Len(privKey) + 1 BY <1>a
    <3> QED BY <1>4, <2>1, <2>3, <3>1, <1>c DEF FromBytesPrivate
  <2> QED BY <2>2, <2>3
<1>5. ASSUME NEW b \in DOMAIN mem, UnmarshalBinaryPublicKey(b)
      PROVE  mem'[privKey'[k]] = mem[privKey[k]]
  <2>1. CASE Len(mem[b]) # 1 BY <1>5, <2>1, <1>e DEF UnmarshalBinaryPublicKey
  <2>2. CASE Len(mem[b]) = 1
    BY <1>5, <2>2, <1>d DEF UnmarshalBinaryPublicKey
  <2> QED BY <2>1, <2>2
<1>6. ASSUME NEW b \in DOMAIN mem, NEW p \in DOMAIN pubKey, FromBytesPublic(p, b)
      PROVE  mem'[privKey'[k]] = mem[privKey[k]]
  <2>1. CASE Len(mem[b]) # 1 BY <1>6, <2>1, <1>e DEF FromBytesPublic
  <2>2. CASE Len(mem[b]) = 1 BY <1>6, <2>2, <1>d DEF FromBytesPublic
  <2> QED BY <2>1, <2>2
<1>7. ASSUME NEW j \in DOMAIN privKey, ResetPrivate(j)
      PROVE  mem'[privKey'[k]] = mem[privKey[k]]
  <2>1. j # k BY <1>7
  <2>2. Emb(j) \in DOMAIN pubKey BY DEF TInv
  <2>3. privKey[k] # privKey[j] /\ privKey[k] # pubKey[Emb(j)]
    BY <2>1, <2>2 DEF TInv, IInv, NoSharedArrays
  <2>4. /\ mem' = [mem EXCEPT ![pubKey[Emb(j)]] = Zero(@), ![privKey[j]] = Zero(@)]
        /\ privKey' = privKey
    BY <1>7 DEF ResetPrivate
  <2> QED BY <1>a, <2>3, <2>4
<1>8. ASSUME NEW p \in DOMAIN pubKey, ResetPublic(p)
      PROVE  mem'[privKey'[k]] = mem[privKey[k]]
  <2>1. privKey[k] # pubKey[p] BY DEF TInv, IInv, NoSharedArrays
  <2> QED BY <1>8, <2>1 DEF ResetPublic
<1>9. CASE \/ \E j \in DOMAIN privKey, m \in Msgs : Sign(j, m)
           \/ \E p \in DOMAIN pubKey :
                \/ ToECDH(p)
                \/ \E q \in DOMAIN pubKey \cup {Foreign} : Equal(p, q)
                \/ \E sig \in sigs, m \in Msgs : Verify(p, sig, m)
  BY <1>9, <1>e DEF Sign, ToECDH, Equal, Verify
<1>10. CASE UNCHANGED vars
  BY <1>10, <1>e DEF vars
<1> QED BY <1>1, <1>2, <1>3, <1>4, <1>5, <1>6, <1>7, <1>8, <1>9, <1>10 DEF Next

\* PrivateKeyOwnership holds for any seeds, messages, caller buffers and
\* bounds: only Reset and FromBytes on k change k's secret -- never a call
\* on another key, on the PublicKey PublicKey() hands out, or a FromBytes
\* fed with k's own Bytes().
THEOREM PrivateKeysOwned == Spec => PrivateKeyOwnership
<1>1. Spec => []TInv BY InitTInv, NextTInv, PTL DEF Spec
<1>2. TInv /\ [Next]_vars =>
        [\A k \in DOMAIN privKey :
           mem'[privKey'[k]] # mem[privKey[k]] =>
             ResetPrivate(k) \/ \E b \in DOMAIN mem : FromBytesPrivate(k, b)]_vars
  BY PrivateStep
<1> QED BY <1>1, <1>2, PTL DEF Spec, PrivateKeyOwnership

=============================================================================
