------------------------------- MODULE Ed25519 -------------------------------
(***************************************************************************)
(* The ed25519 wrapper of package sign/ed25519 (src/unnamed/part_000): the *)
(* PrivateKey and PublicKey objects a caller holds, the byte arrays their  *)
(* fields point to, and every method that creates, loads, resets or uses  *)
(* a key.                                                                  *)
(*                                                                         *)
(* A PrivateKey k is a struct holding privKey (a 64-byte slice) and an     *)
(* embedded PublicKey; PrivateKey.PublicKey() returns a pointer to that    *)
(* embedded struct, Emb(k).  A PublicKey made by the scheme is a struct of *)
(* its own, Own(j).  Slices are modelled by the array they point to: a     *)
(* method that returns p.privKey or p.pubKey (Bytes, MarshalBinary,        *)
(* Identity) hands out the key's own array, and the caller may pass any    *)
(* array it can reach back into FromBytes.                                 *)
(*                                                                         *)
(* Bytes are abstracted to 32-byte halves: a private key is <<seed, A>>, a *)
(* public key <<A>>; Z is a half of zero bytes, Bad a 32-byte string that  *)
(* is not the encoding of a curve point.  crypto/ed25519 (not in this     *)
(* repository) is an ideal signature scheme: a signature records the seed *)
(* and public half it was made with and the message, and verifies under A *)
(* when A is the public key of its seed.                                   *)
(***************************************************************************)
EXTENDS Naturals, Sequences, FiniteSets

CONSTANTS
  Seeds,      \* the private-key seeds the caller's keys are made from,
              \* the first half of every 64-byte buffer it passes included
  Msgs,       \* the messages the caller signs and verifies
  Inputs,     \* the caller's own byte buffers, before any key exists
  MaxArrays,  \* bound on the arrays allocated, the caller's buffers included
  MaxPubs,    \* bound on the PublicKey structs the scheme makes
  Z, Bad, Nil, Foreign  \* zero half, invalid point, nil, a key of another scheme

\* The public key of a seed (ed25519.NewKeyFromSeed(seed)[32:]); the seed
\* of zero bytes has one too (spec 8.A's test vector).
PubOf(s) == <<"A", s>>

Halves == Seeds \cup {Z, Bad} \cup {PubOf(s) : s \in Seeds \cup {Z}}

ASSUME ConstantsAssumption ==
  /\ Inputs \in Seq(Seq(Halves))
  /\ \A i \in DOMAIN Inputs : Len(Inputs[i]) = 2 => Inputs[i][1] \in Seeds \cup {Z}
  /\ MaxArrays \in Nat /\ MaxPubs \in Nat
  /\ Z \notin Seeds /\ Bad \notin Seeds
  /\ Nil \notin Nat /\ Foreign \notin Nat

VARIABLES
  mem,      \* mem[a]: the contents of byte array a; the caller's Inputs first
  privKey,  \* privKey[k]: the array of field privKey of PrivateKey k
  pubKey,   \* pubKey[p]: the array of field pubKey of PublicKey p (or Nil)
  sigs,     \* the signatures Sign has returned to the caller
  result    \* the last method called and what it returned

vars == <<mem, privKey, pubKey, sigs, result>>

-----------------------------------------------------------------------------
(* Pointers, arrays and the signature scheme.                              *)

Emb(k) == <<"emb", k>>
Own(j) == <<"own", j>>

\* The PublicKey structs that exist: embedded ones and the scheme's own.
OwnCount == Cardinality({p \in DOMAIN pubKey : p[1] = "own"})

\* util.ExplicitBzero: every byte of the array set to zero.
Zero(c) == [i \in DOMAIN c |-> Z]

\* p.Bytes(): the slice the field pubKey holds, empty when it is nil.
PubBytes(p) == IF pubKey[p] = Nil THEN <<>> ELSE mem[pubKey[p]]

\* The function f with x mapped to v, x new or not.
Extend(f, x, v) == [y \in DOMAIN f \cup {x} |-> IF y = x THEN v ELSE f[y]]

\* The sequence s with entry k set to v, k one past its end or not.
Store(s, k, v) == IF k = Len(s) + 1 THEN Append(s, v) ELSE [s EXCEPT ![k] = v]

\* make([]byte, n); copy(dst, src): a fresh array with the contents c.
Alloc(c) == Append(mem, c)

\* A boolean result as the caller sees it.
Out(b) == IF b THEN "true" ELSE "false"

Signatures == [seed : Seeds \cup {Z}, a : Halves, msg : Msgs]

\* ed25519.Sign(priv, msg): hashes the seed priv[:32] and puts priv[32:]
\* into the challenge, whatever it is.
SignOf(c, m) == [seed |-> c[1], a |-> c[2], msg |-> m]

\* ed25519.Verify(pub, msg, sig) for a 32-byte pub: false for a signature
\* that is not 64 bytes or a pub that is not a point; otherwise true when
\* the signature was made on msg by the seed whose public key is pub.
Verifies(a, m, sig) ==
  /\ sig \in Signatures
  /\ a # Bad
  /\ sig.msg = m /\ sig.a = a /\ PubOf(sig.seed) = a

-----------------------------------------------------------------------------
(* The methods.                                                            *)

Init ==
  /\ mem = Inputs
  /\ privKey = <<>>
  /\ pubKey = [p \in {} |-> Nil]
  /\ sigs = {}
  /\ result = [op |-> "none", out |-> "ok"]

\* scheme.NewKeypair: NewKeypair(rand.Reader) draws a seed; the private
\* key and a copy of its public half become a new PrivateKey, and the pair
\* (k, k.PublicKey()) is returned.  A failing RNG makes it panic.
NewKeypair ==
  /\ Len(mem) + 2 <= MaxArrays
  /\ \/ \E s \in Seeds :
          LET k == Len(privKey) + 1 IN
          /\ mem' = Alloc(<<s, PubOf(s)>>) \o <<<<PubOf(s)>>>>
          /\ privKey' = Store(privKey, k, Len(mem) + 1)
          /\ pubKey' = Extend(pubKey, Emb(k), Len(mem) + 2)
          /\ result' = [op |-> "NewKeypair", out |-> "ok"]
     \/ /\ result' = [op |-> "NewKeypair", out |-> "panic"]
        /\ UNCHANGED <<mem, privKey, pubKey>>
  /\ UNCHANGED sigs

\* Variant: p.privKey = b, keeping the caller's slice instead of a copy.
LoadPrivateNoCopy(k, b) ==
  /\ mem' = Alloc(<<mem[b][2]>>)
  /\ privKey' = Store(privKey, k, b)
  /\ pubKey' = Extend(pubKey, Emb(k), Len(mem) + 1)

\* PrivateKey.FromBytes(b) on PrivateKey k: a length check, then a fresh
\* copy of b as privKey and a fresh copy of its second half as the
\* embedded public key.  The arrays k held before are dropped as they are.
LoadPrivate(k, b) ==
  /\ mem' = Alloc(mem[b]) \o <<<<mem[b][2]>>>>
  /\ privKey' = Store(privKey, k, Len(mem) + 1)
  /\ pubKey' = Extend(pubKey, Emb(k), Len(mem) + 2)

FromBytesPrivate(k, b) ==
  /\ IF Len(mem[b]) # 2
     THEN /\ result' = [op |-> "PrivFromBytes", out |-> "err"]
          /\ UNCHANGED <<mem, privKey, pubKey>>
     ELSE /\ Len(mem) + 2 <= MaxArrays
          /\ LoadPrivate(k, b)
          /\ result' = [op |-> "PrivFromBytes", out |-> "ok"]
  /\ UNCHANGED sigs

\* scheme.UnmarshalBinaryPrivateKey: FromBytes on a new PrivateKey, which
\* is dropped on error.
UnmarshalBinaryPrivateKey(b) ==
  /\ IF Len(mem[b]) # 2
     THEN /\ result' = [op |-> "UnmarshalPriv", out |-> "err"]
          /\ UNCHANGED <<mem, privKey, pubKey>>
     ELSE /\ Len(mem) + 2 <= MaxArrays
          /\ LoadPrivate(Len(privKey) + 1, b)
          /\ result' = [op |-> "UnmarshalPriv", out |-> "ok"]
  /\ UNCHANGED sigs

\* Variant: p.pubKey = data, keeping the caller's slice instead of a copy.
LoadPublicNoCopy(p, b) ==
  /\ mem' = mem
  /\ pubKey' = Extend(pubKey, p, b)

\* PublicKey.FromBytes(data) on the PublicKey p points to: a length check,
\* then a fresh copy of data.
LoadPublic(p, b) ==
  /\ mem' = Alloc(mem[b])
  /\ pubKey' = Extend(pubKey, p, Len(mem) + 1)

\* Variant: the length checked against PrivateKeySize.
FromBytesPublicWrongSize(p, b) ==
  /\ IF Len(mem[b]) # 2
     THEN /\ result' = [op |-> "PubFromBytes", out |-> "err"]
          /\ UNCHANGED <<mem, pubKey>>
     ELSE /\ Len(mem) + 1 <= MaxArrays
          /\ LoadPublic(p, b)
          /\ result' = [op |-> "PubFromBytes", out |-> "ok"]
  /\ UNCHANGED <<privKey, sigs>>

FromBytesPublic(p, b) ==
  /\ IF Len(mem[b]) # 1
     THEN /\ result' = [op |-> "PubFromBytes", out |-> "err"]
          /\ UNCHANGED <<mem, pubKey>>
     ELSE /\ Len(mem) + 1 <= MaxArrays
          /\ LoadPublic(p, b)
          /\ result' = [op |-> "PubFromBytes", out |-> "ok"]
  /\ UNCHANGED <<privKey, sigs>>

\* scheme.UnmarshalBinaryPublicKey: FromBytes on a new PublicKey, dropped
\* on error.
UnmarshalBinaryPublicKey(b) ==
  /\ OwnCount < MaxPubs
  /\ IF Len(mem[b]) # 1
     THEN /\ result' = [op |-> "UnmarshalPub", out |-> "err"]
          /\ UNCHANGED <<mem, pubKey>>
     ELSE /\ Len(mem) + 1 <= MaxArrays
          /\ LoadPublic(Own(OwnCount + 1), b)
          /\ result' = [op |-> "UnmarshalPub", out |-> "ok"]
  /\ UNCHANGED <<privKey, sigs>>

\* scheme.NewEmptyPublicKey: new(PublicKey), whose pubKey is nil.
NewEmptyPublicKey ==
  /\ OwnCount < MaxPubs
  /\ pubKey' = Extend(pubKey, Own(OwnCount + 1), Nil)
  /\ result' = [op |-> "NewEmptyPub", out |-> "ok"]
  /\ UNCHANGED <<mem, privKey, sigs>>

\* PrivateKey.Sign(m): ed25519.Sign(p.privKey, m).  privKey is always 64
\* bytes here, so its length panic cannot happen.
Sign(k, m) ==
  /\ sigs' = sigs \cup {SignOf(mem[privKey[k]], m)}
  /\ result' = [op |-> "Sign", out |-> "ok"]
  /\ UNCHANGED <<mem, privKey, pubKey>>

\* PublicKey.Verify(signature, message): ed25519.Verify(p.pubKey, message,
\* signature), which panics when pubKey is not 32 bytes long.
VerifyOut(p, sig, m) ==
  IF Len(PubBytes(p)) # 1 THEN "panic" ELSE Out(Verifies(PubBytes(p)[1], m, sig))

Verify(p, sig, m) ==
  /\ result' = [op |-> "Verify", out |-> VerifyOut(p, sig, m)]
  /\ UNCHANGED <<mem, privKey, pubKey, sigs>>

\* PublicKey.Equal(other): the type assertion other.(*PublicKey) panics on
\* a key of another scheme; hmac.Equal compares lengths and bytes.
Equal(p, q) ==
  /\ result' = [op |-> "Equal",
                out |-> IF q = Foreign THEN "panic" ELSE Out(PubBytes(p) = PubBytes(q))]
  /\ UNCHANGED <<mem, privKey, pubKey, sigs>>

\* PublicKey.ToECDH: the error of Point.SetBytes is dropped, and the nil
\* point it leaves for bytes that are not a point is dereferenced.
ToECDH(p) ==
  /\ result' = [op |-> "ToECDH",
                out |-> IF PubBytes(p) \in {<<h>> : h \in Halves \ {Bad}}
                        THEN "ok" ELSE "panic"]
  /\ UNCHANGED <<mem, privKey, pubKey, sigs>>

\* PublicKey.Reset: zero the bytes pubKey points to (nothing when nil) and
\* scrub the base64 string.
ResetPublic(p) ==
  /\ mem' = IF pubKey[p] = Nil THEN mem ELSE [mem EXCEPT ![pubKey[p]] = Zero(@)]
  /\ result' = [op |-> "PubReset", out |-> "ok"]
  /\ UNCHANGED <<privKey, pubKey, sigs>>

\* PrivateKey.Reset: p.pubKey.Reset(), then zero privKey.
ResetPrivate(k) ==
  /\ mem' = [mem EXCEPT ![pubKey[Emb(k)]] = Zero(@), ![privKey[k]] = Zero(@)]
  /\ result' = [op |-> "PrivReset", out |-> "ok"]
  /\ UNCHANGED <<privKey, pubKey, sigs>>

Next ==
  \/ NewKeypair
  \/ NewEmptyPublicKey
  \/ \E b \in DOMAIN mem :
       \/ UnmarshalBinaryPrivateKey(b)
       \/ UnmarshalBinaryPublicKey(b)
       \/ \E k \in DOMAIN privKey : FromBytesPrivate(k, b)
       \/ \E p \in DOMAIN pubKey : FromBytesPublic(p, b)
  \/ \E k \in DOMAIN privKey :
       \/ ResetPrivate(k)
       \/ \E m \in Msgs : Sign(k, m)
  \/ \E p \in DOMAIN pubKey :
       \/ ResetPublic(p)
       \/ ToECDH(p)
       \/ \E q \in DOMAIN pubKey \cup {Foreign} : Equal(p, q)
       \/ \E sig \in sigs, m \in Msgs : Verify(p, sig, m)

Spec == Init /\ [][Next]_vars

-----------------------------------------------------------------------------
(* Properties.                                                             *)

Ops == {"none", "NewKeypair", "NewEmptyPub", "PrivFromBytes", "UnmarshalPriv",
        "PubFromBytes", "UnmarshalPub", "Sign", "Verify", "Equal", "ToECDH",
        "PubReset", "PrivReset"}

TypeOK ==
  /\ mem \in Seq(Seq(Halves))
  /\ privKey \in Seq(DOMAIN mem)
  /\ DOMAIN pubKey = {Emb(k) : k \in DOMAIN privKey} \cup {Own(j) : j \in 1 .. OwnCount}
  /\ \A p \in DOMAIN pubKey : pubKey[p] \in DOMAIN mem \cup {Nil}
  /\ \A k \in DOMAIN privKey : Len(mem[privKey[k]]) = 2
  /\ \A p \in DOMAIN pubKey : pubKey[p] # Nil => Len(mem[pubKey[p]]) = 1
  /\ sigs \subseteq Signatures
  /\ result \in [op : Ops, out : {"ok", "err", "panic", "true", "false"}]

\* Every key owns its bytes: FromBytes and NewKeypair copy what they are
\* given, so no two key fields share an array, and no key field is one of
\* the caller's buffers -- even when the caller passes the Bytes() of one
\* key (its own array) to FromBytes of another.
NoSharedArrays ==
  /\ \A k \in DOMAIN privKey : privKey[k] > Len(Inputs)
  /\ \A p \in DOMAIN pubKey : pubKey[p] # Nil => pubKey[p] > Len(Inputs)
  /\ \A k, j \in DOMAIN privKey : k # j => privKey[k] # privKey[j]
  /\ \A p, q \in DOMAIN pubKey : p # q /\ pubKey[p] # Nil => pubKey[p] # pubKey[q]
  /\ \A k \in DOMAIN privKey, p \in DOMAIN pubKey : privKey[k] # pubKey[p]

\* A PublicKey the caller holds changes only by a call on that PublicKey
\* (spec 3: public and private keys are separate objects, each destroyed
\* by its own Reset) -- not by Reset or FromBytes of a private key.
PublicKeyOwnership ==
  [][\A p \in DOMAIN pubKey :
       PubBytes(p)' # PubBytes(p) =>
         ResetPublic(p) \/ \E b \in DOMAIN mem : FromBytesPublic(p, b)]_vars

\* A PrivateKey's secret is its own: the bytes of k.privKey change only
\* by a call on k itself (Reset or FromBytes), never by Reset, FromBytes
\* or NewKeypair of another private key or of any public key -- even the
\* embedded one PublicKey() hands out, and even when the caller feeds one
\* key's Bytes() into another key's FromBytes.
PrivateKeyOwnership ==
  [][\A k \in DOMAIN privKey :
       mem'[privKey'[k]] # mem[privKey[k]] =>
         ResetPrivate(k) \/ \E b \in DOMAIN mem : FromBytesPrivate(k, b)]_vars

\* Equality, verification and conversion return a value and never panic
\* (spec 7: equality and verification return a boolean, never an error;
\* errors are returned, nothing is swallowed).
NoPanic == result.op \in {"Equal", "Verify", "ToECDH"} => result.out # "panic"

\* Private-key bytes are wiped before they are dropped (spec 5, 9): every
\* array holding a seed, other than the caller's own buffers, is the
\* privKey of a live PrivateKey.
NoOrphanedSeed ==
  \A a \in DOMAIN mem :
    a > Len(Inputs) /\ mem[a][1] \in Seeds => \E k \in DOMAIN privKey : privKey[k] = a

=============================================================================
