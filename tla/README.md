# Formal models of hpqc

TLA+ models of the hybrid post-quantum cryptography library hpqc
(`src/`), checked with TLC on small instances and, where it matters most,
proved for every instance with TLAPS.

## 1. The system

The repository's sources under `src/` are three Go files:

| source | package | what it is |
|---|---|---|
| `src/unnamed/part_001` | `kem/hybrid` | the legacy two-KEM hybrid combiner: `Scheme{first, second}` with its `PublicKey` and `PrivateKey` |
| `src/unnamed/part_000` | `sign/ed25519` | the ed25519 wrapper that implements the library's generic signature interfaces |
| `src/kem/schemes/schemes.go` | `kem/schemes` | the KEM registry (L5): the hard-coded scheme lists, `init()`, `ByName` and `All` |

`spec.md` describes more layers that have no code under `src/`:
- L1, the scheme contracts (the `kem`, `nike` and `sign` interfaces);
- L2, the NIKE-to-KEM adapter;
- L3, the N-KEM combiner;
- L4, the signature and NIKE composers.

The registry (L5) has code in `schemes.go`.

The code in `src/` also calls some external collaborators:
- the component KEM schemes;
- `util.PairSplitPRF`, which is Blake2b-256 with an XOR;
- `pem.ToPublicPEMBytes` and `pem.FromPublicPEMToBytes`.

### Hybrid combiner: state, operations, interactions

A `Scheme` is immutable. Keys are values holding two component keys and a
back-pointer to the scheme. The state that changes is the set of key objects
a caller holds. Each method call produces one of three outcomes: a new key, a
returned error, or a panic.

The operations are:
- `GenerateKeyPair`, which calls the first component's RNG and then the
  second's, and returns the first error;
- `DeriveKeyPair(seed)`, which panics on a wrong length and otherwise slices
  the seed at `first.SeedSize()`;
- `Encapsulate`, which reads a seed from the RNG and calls
  `EncapsulateDeterministically`;
- `EncapsulateDeterministically(pk, seed)`, which checks the seed length, the
  type, the first component's error and the second component's error, in that
  order. It returns `ct1||ct2` and `PairSplitPRF(ss1, ss2, ct1, ct2)`;
- `Decapsulate(sk, ct)`, which checks the length and the type, cuts `ct` at
  `first.CiphertextSize()`, decapsulates each half, and computes the PRF over
  both halves;
- `PrivateKey.Public`, `PublicKey.Equal`, `MarshalBinary` and
  `UnmarshalBinary{Public,Private}Key`, which split at the first component's
  size;
- `MarshalText` and `UnmarshalText`, the PEM path.

Nothing runs concurrently inside the package. The "interleavings" are the
orders in which a caller may call methods on the keys it holds. These include
keys obtained from each other's outputs, such as `Public()` of an unmarshalled
key, and zero values made with `new(PublicKey)`.

### Registry: state, operations, interactions

`schemes.go` has three package variables:
- `potentialSchemes`, an array of 11 schemes that use CTIDH. An entry is nil
  when the build lacks that NIKE.
- `allSchemes`, a slice literal of 25 schemes.
- `allSchemeNames`, a map.

`init()` appends the non-nil potential schemes to `allSchemes`. It then maps
each scheme's lower-cased name to the scheme. `ByName` looks up the
lower-cased query. `All` returns `a[:]` of `allSchemes`.

That result is the registry's own slice. It has the same backing array and,
after the appends, spare capacity. So everything a caller does with the slice
it got interacts with the registry and with every other caller.

### Ed25519 wrapper: state, operations, interactions

`part_000` wraps `crypto/ed25519`. A `PrivateKey` holds a 64-byte slice
`privKey` and an embedded `PublicKey`. A `PublicKey` holds a 32-byte slice
`pubKey` and a base64 string. The slices point to byte arrays. Several keys,
and the caller, may reach one array:
- `PrivateKey.PublicKey()` returns `&p.pubKey`, a pointer into the private
  key. `scheme.NewKeypair` returns that pointer as the public key.
- `Bytes()` and `MarshalBinary()` return the key's own slice, which the
  caller may pass to `FromBytes` of another key.
- `FromBytes` allocates and copies; `PrivateKey.FromBytes` takes the public
  half from the buffer's second half without checking it against the seed.
- `Reset` zeroes the arrays in place. `PrivateKey.Reset` resets the embedded
  public key first.

### The hard cases

The bugs here need several calls, or a particular combination of sizes, to
show:
- A slicing offset is wrong. Decapsulate or Unmarshal cuts at the wrong
  component's size. This is invisible whenever the two sizes coincide.
- A PRF branch misses part of the transcript. This is invisible unless a
  component KEM is malleable, meaning its secret ignores its ciphertext.
- Key objects come from different creation paths: generated, derived,
  `Public()`, unmarshalled, or the zero value.
- The seed expansion that the package comment promises (lines 8-11) is
  missing.

## 2. Plan

Done in this round:
1. `HybridKEM`: the combiner, with one action per method.
2. `MC_HybridKEM`: TLC runs of the safety properties, plus runs that
   show real divergences (two are kept: `no_panic` and
   `same_scheme_binding`).
3. `HybridKEM_proofs`: TLAPS proofs of the type invariant and of the three
   main safety invariants, for all sizes.

Next rounds:
1. `Ed25519Key`: the ed25519 `PrivateKey`/`PublicKey` objects with their
   shared byte arrays (`PublicKey()` returns `&p.pubKey`; `FromBytes` aliases
   `pubKey` to `privKey[32:]`), `Reset`, `FromBytes`, `Sign` and `Verify`.
   Properties: a key handed out stays valid until its own Reset, and
   `Identity() == Bytes()[32:]`. It also covers the `ToECDH` and `Equal`
   panics.
2. An abstract KEM specification: key pairs, and secrets keyed by
   ciphertext. `HybridKEM` is to be shown to implement it through a
   refinement mapping, as a TLC PROPERTY and as a TLAPS step-simulation
   proof.
3. Theorems for the ed25519 module's invariants.

Done in the second round:
1. `Registry`: `schemes.go`, with Go slices modelled as headers over shared
   backing arrays.
2. `RegistryAbstract`: spec 4.6's name table, which `Registry` refines.
3. `MC_Registry`, with its runs and the three findings they make.
4. `Ed25519`: the ed25519 wrapper, with the byte arrays as a heap, its runs
   and three findings (item 1 of "next rounds" above).
5. `Ed25519_proofs`: the TLAPS proof that no two key fields share an array
   (item 3 above).

Done in the proof rounds:
1. `Ed25519_proofs`: the type invariant and private-key ownership.
2. `Registry_proofs`: the registry's type invariant, the proof that
   `init()` never panics, and the proof that `ByName` is correct. The model
   was changed so that a prover can read it: the nil filter and the
   capacity are no longer recursive functions, and `LoopsAgree` checks them
   against the loops.
3. `RegistryRefinement_proofs`: the refinement of `RegistryAbstract`, and
   the stability of the list, for callers that do not write elements.

Still open: item 2, the abstract KEM specification for `HybridKEM`.

## 3. Modules

### `HybridKEM.tla` (`src/unnamed/part_001`)

The model takes the view of a caller who holds hybrid keys of one scheme
`New(name, First, Second)`.

Constants:
- `First` and `Second`: the component schemes.
- Their sizes, each a function of the component, named after the
  `kem.Scheme` method they stand for: `PkSize` (`PublicKeySize()`), `SkSize`
  (`PrivateKeySize()`), `SdSize` (`SeedSize()`), `CtSize`
  (`CiphertextSize()`), `EsSize` (`EncapsulationSeedSize()`) and `SsSize`
  (`SharedKeySize()`). The hybrid cuts each kind of buffer at the first
  component's size of that kind, so the model keeps the six apart.
- `PrfSize`: the Blake2b output size.
- `Malleable`: the components whose secret ignores their ciphertext.
- `MaxBuf`: the longest buffer a caller passes in.
- `MaxKeys`: the most keys a caller holds.
- `Nil` and `Foreign`: model values for a nil interface and for a key of
  another scheme.

Variables:
- `pks` and `sks`: the hybrid public and private keys held, as
  `[first, second]` records.
- `result`: the last method called and the error it returned. The value
  `"panic"` stands for a Go panic.

Data abstraction:
- A byte is 0 or 1. Buffers are sequences, so slicing (`seed[:n]`,
  `ct[firstSize:]`) and `append` are exact.
- A component KEM is an ideal toy KEM written from spec 4.1, marked
  `spec_modelled`:
  - its private key is its seed repeated or cut to `SkSize` bytes (`Cycle`);
  - its public key is the bitwise complement of the private key, cycled to
    `PkSize` bytes;
  - its ciphertext is the encapsulation seed cycled to `CtSize` bytes;
  - its secret is `<<component, pk bytes, ct>>`, where a malleable component
    puts `<<>>` in place of ct;
  - like a real component scheme, its unmarshal, encapsulation and
    decapsulation return a size error for a buffer of the wrong length.
    The hybrid returns these errors (lines 247-254, 263-270, 204-212,
    230-237), so a cut at the wrong offset surfaces as an error.
- Blake2b is an ideal PRF, `PRF(x) = {x}`. Byte-wise XOR of PRF outputs is
  symmetric difference, and the zero buffer is `{}`.

This abstraction keeps what the properties distinguish: which bytes each
component sees, and whether two secrets coincide.

| action | code |
|---|---|
| `NewKey` | `new(PublicKey)` / `new(PrivateKey)`: the zero value, with nil components and a nil scheme |
| `GenerateKeyPair` | 158-169: the RNG of either component may fail (`ErrRand`); two fresh draws never collide |
| `DeriveKeyPairStep` | 171-180: a wrong length panics |
| `PublicStep` | 131-133: on a zero key this panics |
| `Encapsulate` | 182-189 |
| `EncapsulateDeterministicallyStep` | 191-217 |
| `DecapsulateStep` | 219-240 |
| `MarshalBinary` | 87-100, 143-156 |
| `MarshalText` | 102-104: `pem.ToPublicPEMBytes` panics when `MarshalBinary` fails |
| `UnmarshalTextStep` | 106-121: the decoded key goes to the local receiver variable only, so the caller's key is unchanged |
| `UnmarshalPublicStep` | 242-256 |
| `UnmarshalPrivateStep` | 258-272 |

Each action is the whole method. Its early returns are the nested IF
branches of the pure operators (`EncapsulateDeterministically`,
`Decapsulate`, `UnmarshalBinary*`, `Marshal*`), in the code's order.
PROJECT.json's `map` gives the lines of every definition.

### `MC_HybridKEM.tla` and the `.cfg` files

`MC_HybridKEM` has components `A` (1-byte keys and ciphertexts, malleable)
and `B` (2 bytes). It uses `MaxBuf = 4` and `MaxKeys = 2`.

The sizes differ so that cutting at the wrong component's size is visible.
`A` is malleable so that a PRF branch that misses part of the ciphertext
changes the outcome.

`MaxBuf = 4` covers every well-formed key and ciphertext (3 bytes) as well
as buffers that are too short or too long. `MaxKeys = 2` lets a caller hold
two different generated keys, or a zero value next to a real key, which is
enough for every cross-key case the properties quantify over.

No symmetry set is used, because A and B have different sizes.

### `Registry.tla` (`src/kem/schemes/schemes.go`)

Constants:
- `Unavailable`: the primitives this build lacks.
- `Callers`: the goroutines that use the registry.
- `Mine`: schemes of the callers' own that they put into their slices.
- `Queries`: the names callers look up.
- `CallerWrites`: whether callers also write elements (`s[i] = x`) of the
  slice `All` returned, as a sort does.
- `MaxMutations`: a bound on the appends and writes callers make.
- `Nil` and `None`: model values for a nil scheme and for "not yet".

Variables:
- `phase`: before `init()`, after it, or panicked.
- `heap`: the backing arrays. An array's length is its capacity.
- `allSchemes` and `held[c]`: slice headers `[arr, len]`.
- `names`: the map.
- `got[c]`: the last query of caller `c` and its answer.
- `mutations`: how many appends and writes callers have made.

Data abstraction:
- A name is `[fold, case]`. Only the letter case matters to `ToLower`, and
  only the folded name to a case-insensitive comparison.
- A scheme is a name and the tuple of its components.
- `adapter.FromNIKE` of a NIKE the build lacks is `Nil`, and `combiner.New`
  and `hybrid.New` always give a scheme, even over a nil component. The
  adapter and combiner code is not under `src/`, and the spec says neither.
  Both are premises of the `ctidh_unavailable` finding. The nil filter at
  `schemes.go:200` is what justifies the first: it would serve no purpose
  if a potential scheme could never be nil.

`append` is Go's: it writes in place while the length is below the capacity.
Otherwise it copies into a new array of twice the capacity
(`runtime.growslice`, with the rounding to size classes left out).
The first loop of `init()` is `Available`: the eleven passes `Kept(1)` ..
`Kept(11)`, each of which appends `potentialSchemes[i]` unless it is nil,
written out one after the other. `InitCap(k)` is the capacity after `k` such
appends. The literal is full (length 25 = capacity 25), so the first append
grows the array to `GrowCap(25, 26) = 50`. The potential list is no longer
than the literal, so no later append grows it again. Both are written
without recursion so that the provers can reason about them (section 5).
`MC_Registry` checks them against the loops as the code runs them (below).

`SchemesAssumption` states what the model takes from outside `src/`:
- nil is not a scheme value;
- a query is a name;
- the three NIKEs the literal adapts (`diffiehellman`, `x25519`, `x448`)
  are in every build. `init()` nil-checks only `potentialSchemes`, so the
  code relies on this. Spec 4.2 makes only the CTIDH NIKEs optional;
- the potential list is no longer than the literal.

`SchemeValues` is the set of values the two lists hold. Their names are
drawn from the 36 case-folded names of the lists (`SchemeFolds`).

| action | code |
|---|---|
| `Init` | 110-195: the literal, and a map that is still empty |
| `PackageInit` | 197-207: the filter and appends, then the map loop (last write wins). `Name()` of a nil entry panics. |
| `ByName` | 209-213 |
| `All` | 215-219: the same header |
| `AppendTo`, `SetIndex` | caller code on the result of `All` (`spec_modelled`) |

### `RegistryAbstract.tla`

`RegistryAbstract` is spec 4.6 as a state machine. `Load` sets the list once
to the registered schemes. `Lookup` returns the entry whose case-folded name
equals the query, or nil.

`Registry` maps to it by `ready <- phase = "ready"` and by `list <-` the
elements `allSchemes` shows. `got` maps to itself.

### `MC_Registry.tla`

The model values are callers `c1`, `c2` and schemes `m1`, `m2`. `MaxMutations
= 2`.

The queries cover:
- a literal scheme, in mixed and lower case;
- an appended CTIDH combiner, in mixed and upper case;
- a primitive the build lacks;
- an unknown name.

The pass runs use one scheme of the callers' own (`MCOneMine`). The
violation runs that need two callers to write different values use two
(`MCMine`).

Two mutations are enough for two callers each to append once, or for one to
append and then write.

`LoopsAgree`, an `ASSUME` that TLC evaluates on every registry run, checks
the rewritten loops against the code's:
- `Available` equals `SelectSeq(potentialSchemes, LAMBDA s : ~Skipped(s))`.
  `Skipped` is `init()`'s nil check;
- `InitCap(k)` equals `InitCapLoop[k]` for every `k` up to 11. `InitCapLoop`
  grows the capacity one append at a time, as `append` does.

### `Ed25519.tla` (`src/unnamed/part_000`)

State:
- `mem`: the byte arrays, a sequence; the caller's `Inputs` come first.
  A new array is appended (`Alloc`), so an array id is never reused.
- `privKey[k]`: the array of `PrivateKey` k's `privKey` field.
- `pubKey[p]`: the array of `PublicKey` p's `pubKey` field, or `Nil`.
  A pointer p is `Emb(k)`, the struct embedded in private key k, or
  `Own(j)`, a struct the scheme allocated.
- `sigs`: the signatures `Sign` returned.
- `result`: the last method and what it returned (`ok`, `err`, `panic`,
  or a boolean).

Data abstraction: a 32-byte string is one "half": a seed, `PubOf(s)`, the
zero half `Z`, or `Bad`, which is not a curve point. A private key is
`<<seed, A>>`, a public key `<<A>>`. `crypto/ed25519` is not in the
repository. It is an ideal signature scheme (spec-modelled): a signature
records seed, public half and message, and verifies under `A` when
`A = PubOf(seed)`. `GenerateKey` and `Public()` return fresh arrays, as
the Go library does. `b64String` is left out: no method reads it back.

| action | code |
|---|---|
| `NewKeypair` | `scheme.NewKeypair` and `NewKeypair` (52-59, 227-238), the RNG panic included |
| `FromBytesPrivate`, `LoadPrivate` | `PrivateKey.FromBytes` (124-134) |
| `UnmarshalBinaryPrivateKey` | 70-77: `FromBytes` on a new key |
| `FromBytesPublic`, `LoadPublic` | `PublicKey.FromBytes` (206-215) |
| `UnmarshalBinaryPublicKey` | 61-68 and `UnmarshalBinary` (221-223) |
| `NewEmptyPublicKey` | 48-50: a key with a nil `pubKey` |
| `Sign` | 110-112 |
| `Verify` | 181-183; a nil key panics in `ed25519.Verify` |
| `Equal` | 177-179; the type assertion panics on a foreign key |
| `ToECDH` | 154-161; the dropped `SetBytes` error leads to a nil dereference on bytes that are not a point (all-zero bytes, as `Reset` leaves them, are a valid point) |
| `ResetPublic`, `ResetPrivate` | 185-188, 114-117 |

Every length-check failure is an `err` result that changes nothing. Each
method is one atomic step: spec 5 makes the caller synchronise a key.

`ConstantsAssumption` asks that the caller's buffers are sequences of
halves, and that the first half of each 64-byte buffer is in `Seeds` or is
`Z`. `Seeds` is the set of seeds the caller's keys are made from, so this
names the seeds of the buffers it passes and restricts nothing.

### `MC_Ed25519.tla`

Seeds `s1`, `s2`, one message. The caller's buffers are a valid private key
of `s1`, a private key of `s1` carrying `PubOf(s2)`, the public key
`PubOf(s2)` and `<<Bad>>`. `MaxArrays = 9` allows, on top of the four
buffers, two private keys (two arrays each) and one public load; `MaxPubs = 1`
allows one scheme-made public key. That is enough for every alias to arise:
a key loaded from another key's `Bytes()`, a public key reset through the
embedded pointer, and a reload of a live key. `MCPublicInputs` (only the
public buffers) keeps the `pubkey_embedded` trace short.

## 4. Runs

| run | checks | shows |
|---|---|---|
| `hybrid_pass` | `TypeOK`, `DecapCorrect`, `MarshalRoundTrip`, `CiphertextBinding` | Over every sequence of calls (45,449 states), key types hold. Every matching key pair agrees on every encapsulation. Marshal/unmarshal round-trips. No two ciphertexts share a secret under one key, even though `A` is malleable. |
| `no_panic` (violation) | `NoPanic` | `DeriveKeyPair` with a short seed panics, where spec 7 requires an InvalidSeed error. So does `Public()` of a zero key. |
| `same_scheme_binding` (violation) | `CiphertextBinding` | With `Second = First` and no malleable component, `DeriveKeyPair` of a seed with equal halves gives equal component keys. Every ciphertext `c‖c` then decapsulates to the zero secret. The root cause is that the two equal PRF branches cancel in the XOR; `UnmarshalBinaryPrivateKey(k‖k)` reaches the same state with no seed. The package comment's seed expansion (lines 8-11) would only close the seed path. The setup, a scheme hybridised with itself, is contrived. |

| `registry_pass` | `TypeOK`, `NoInitPanic`, `LookupCorrect` | `ctidh511` is missing from the build, and callers append to and overwrite their slices (111,035 states). `init()` does not panic. Every `ByName` answer is the registered scheme of that folded name, or nil. The map is separate from the slice, so callers' writes do not reach it. |
| `registry_refines` | `RegistryRefines` | When callers only append, `Registry` implements `RegistryAbstract`. The appends land beyond `allSchemes`' length, so the registry's list never changes. |
| `registry_mutable` (violation) | `RegistryStable` | `All()` then `s[i] = x` changes `allSchemes`. Spec 4.6 and 9 call the registry immutable. |
| `append_clobber` (violation) | `AppendIsolation` | Two callers take `All()` and each appends. The second append overwrites the slot the first one wrote. |
| `ctidh_unavailable` (violation) | `RegisteredUsable` | In a build without CTIDH, `ByName("ctidh512-X25519")` returns a combiner with a nil component. |
| `ed25519_pass` | `TypeOK`, `NoSharedArrays`, `PrivateKeyOwnership` | Over every sequence of calls (318,311 states), keys keep their lengths, and every key field has an array of its own that is not a caller buffer, even when the caller feeds one key's `Bytes()` to another's `FromBytes`. A private key's bytes change only by `Reset` or `FromBytes` on that key: never by a call on another key, or on the `PublicKey` that `PublicKey()` hands out. |
| `pubkey_embedded` (violation) | `PublicKeyOwnership` | `NewKeypair` then `PrivateKey.Reset` zeroes the public key the caller got back. Spec 3 makes the two separate objects, each destroyed by its own `Reset`. |
| `ed25519_no_panic` (violation) | `NoPanic` | `Equal` with a key of another scheme panics; so do `Verify` on an empty key and `ToECDH` on a non-point. Spec 7 asks for a boolean and returned errors. |
| `orphaned_seed` (violation) | `NoOrphanedSeed` | `PrivateKey.FromBytes` on a live key drops its old `privKey` array unwiped (spec 5, 9). |

Each property of `hybrid_pass` has a mutant in PROJECT.json, a plausible
bug that TLC catches:
- the components of `Public` swapped;
- `Decapsulate` cutting at the second component's size;
- `UnmarshalBinaryPrivateKey` cutting at the first component's public-key
  size (`MarshalRoundTrip`);
- `PairSplitPRF` hashing the component secrets without the ciphertext
  (`CiphertextBinding`). This mutant changes both methods alike, so it leaves
  `DecapCorrect` intact. Any change to `Decapsulate` alone breaks
  `DecapCorrect` first.

The `registry_pass` and `registry_refines` properties also have mutants:
- the map keyed by the raw name (`TypeOK`);
- the nil filter dropped (`NoInitPanic`);
- `ByName` without `ToLower` (`LookupCorrect`);
- the map built before the appends (`RegistryRefines`).

The `ed25519_pass` properties have mutants too:
- `PublicKey.FromBytes` checking the private-key size (`TypeOK`);
- `PublicKey.FromBytes` keeping the caller's slice instead of a copy
  (`NoSharedArrays`);
- `PrivateKey.FromBytes` keeping the caller's slice as `privKey`
  (`PrivateKeyOwnership`: a later call on the key whose `Bytes()` were
  passed changes this one).

**Fairness.** None is assumed. All properties are safety properties: the
library has no internal threads and no waits (spec 5), so there is nothing
that must eventually happen. The registry has no waits either: `init()` runs once before `main`.
Deadlock checking is on. A registry caller can always call `ByName` again. An ed25519 caller
can always call `UnmarshalBinaryPrivateKey` on its public-key buffer, which
returns an error. In
the hybrid model, a caller can always
call `Encapsulate` on `Foreign`, which returns an error and leaves the keys
unchanged, so there is no deadlock.

## 5. Proofs

`HybridKEM_proofs.tla` proves the following with tlapm, for every choice of
component schemes and sizes that satisfies `ComponentsAssumption`,
`NilAssumption` and `SizesAssumption`:

- `TypeCorrect`: `Spec => []TypeOK`, by induction with one step per action.
  It rests on these lemmas:
  - `SliceBytes`: the slices have the right lengths;
  - `CycleBytes`, `UnmarshalKeyIn`, `UnmarshalInKeys` and `DeriveInKeys`:
    the keys built from a well-sized buffer are well-formed;
  - `PublicInKeys`;
  - `ErrorsReturned`: every method returns one of the modelled errors.
- `MarshalRoundTripHolds`: `Spec => []MarshalRoundTrip`. It follows from
  `TypeOK` and `RoundTripKey`. The core of `RoundTripKey` is
  `UnmarshalConcat`, which rests on `SplitConcat`: cutting `a‖b` at `Len(a)`
  gives `a` and `b`. Each unmarshal cuts at the size of its own kind of key.
- `DecapCorrectHolds`: `Spec => []DecapCorrect`. It follows from `TypeOK`
  and `DecapInvertsEncap`. Encapsulation concatenates `p‖q`. Decapsulation
  cuts it back at the same place (`SplitConcat`) and passes the PRF the same
  secrets, because the public key `Equal` to `Public(sk)` is `CPublic` of
  each component of `sk`. The lemma `CycleBytes` gives each component
  ciphertext its `CtSize`.
- `CiphertextBindingHolds`: under the hypothesis `First # Second`,
  `Spec => []CiphertextBinding`. `DecapSecretShape` shows that the secret of
  any well-sized `ct` is `PRF(s1‖ct) XOR PRF(s2‖ct)`, using
  `ConcatSplit: ct[:n]‖ct[n:] = ct`. The two PRF inputs differ because their
  component tags differ, so the secret contains `ct` itself. The hypothesis
  is needed, as the `same_scheme_binding` run shows.

`TypeOK` alone is inductive here. The three other invariants are statements
about every key in `Keys`, so `TypeOK` is the strengthening they need, and
each is proved as `TypeOK => Inv` plus the theorem `TypeCorrect`.

`NilAssumption` says that a nil interface and a foreign key are not key
objects of this scheme. In Go this holds by typing.

`Ed25519_proofs.tla` proves `ArraysOwned: Spec => []NoSharedArrays` for
all seeds, messages, caller buffers and bounds that satisfy
`ConstantsAssumption`. `NoSharedArrays` is not inductive by itself: a step
that allocates must know that the new array id `Len(mem) + 1` is not already
held by a key. The strengthening `IInv` adds that `mem` is a sequence of
buffers that only grows (so the caller's buffers stay at its front), and
that every key field points into `1 .. Len(mem)`. `InitIInv` and `NextIInv`
(one case per action) prove it inductive, on these lemmas:
- `StoreProperties`, `ExtendProperties`: what the field updates change;
- `ZeroBuffer`, `WipeArray`, `WipeTwo`: a `Reset` keeps every buffer's
  length and the heap's size;
- `TwoFreshArrays`, `OneFreshArray`: a step that allocates keeps `IInv`;
- `NilField`, `FieldsKept`, `BufferFacts`.
`IInv` was first checked with TLC, as an invariant of the `ed25519_pass`
instance, before it was proved.

The same module proves `TypeCorrect: Spec => []TypeOK`. `TypeOK` is not
inductive either, and its inductive strengthening `TInv` adds to `IInv`:
- the scheme's own structs are exactly `Own(1) .. Own(OwnCount)`, a finite
  set, so the struct `UnmarshalBinaryPublicKey` makes is new and `OwnCount`
  grows by one (`PointerAdded`, from `FS_AddElement`);
- every 64-byte array starts with a seed or the zero half, so `Sign` only
  ever returns a signature of a seed. `ConstantsAssumption` says the same of
  the caller's 64-byte buffers, which `FromBytes` copies as they are.
`InitTInv`, `NextTInv` (one case per action) and `TInvTypeOK` give the
theorem. They rest on `ZeroFacts` and `WipeValues` (a `Reset` keeps every
array's length and leaves a seed or zeros), `GrowTwo` (the arrays that
`NewKeypair` and `FromBytes` append), and `KeptTyped`, `TwoFreshTyped`,
`OneFreshTyped`, `NilTyped` (one per shape of step). `TInv` was checked with
TLC on the `ed25519_pass` instance (318,311 states) before it was proved.

`PrivateKeysOwned: Spec => PrivateKeyOwnership` proves the action property
from `[]TInv`. `PrivateStep` shows that a step which is not `Reset` or
`FromBytes` on key k leaves `mem[privKey[k]]` as it was. A step that
allocates keeps k's field (`StoreProperties`) and every existing array. A
`Reset` of another private key, or of any public key, wipes arrays that
`NoSharedArrays` says are not k's. The embedded struct `Emb(j)` of the key
being reset is in `DOMAIN pubKey` by `TInv`.

`Registry_proofs.tla` proves the registry's three invariants for every
build (any set `Unavailable` of missing NIKEs allowed by `SchemesAssumption`),
any callers, queries and schemes of the callers' own, and any bound
`MaxMutations`:
- `TypeCorrect: Spec => []TypeOK`;
- `InitNeverPanics: Spec => []NoInitPanic`;
- `ByNameCorrect: Spec => []LookupCorrect`.

They rest on facts about the two literal lists:
- `LitValues` and `PotValues`: each entry is a scheme value, or nil for a
  missing CTIDH NIKE;
- `KeptStep` and `AvailableGood`: pass by pass, the first loop of `init()`
  keeps only non-nil potential schemes, with distinct names;
- `RegisteredFacts`: the registered list has no nil entry, and no two of its
  names are equal after case-folding. This is spec 4.6's "names must be
  unique after case-folding", proved of the lists as written. It uses
  `ConcatUnique`, `LitFoldsDistinct` and `PotFoldsDistinct`;
- `NameMapLookup`: because the names are unique, `allSchemeNames[ToLower(q)]`
  is spec 4.6's lookup of `q`. The last write of the map loop is the only
  write of its key (`LastWithIs`).

None of the three invariants is inductive alone. The strengthening `IInv`
adds:
- before `init()`, the package variables still hold their initialisers and no
  caller has a slice or an answer;
- after it, the map indexes the registered list;
- every slice header, `allSchemes` and each caller's, lies within its backing
  array. This is what lets `AppendTo` copy the old elements in the
  grow-and-copy branch, and keeps `SetIndex` inside the array.

`InitIInv` and `NextIInv` prove `IInv` inductive, with one lemma per action
(`PackageInitIInv`, `ByNameIInv`, `AllIInv`, `AppendToIInv`,
`SetIndexIInv`). `HeapWrite` and `ArrayIsSeq` carry the heap facts. `IInv`
was first checked with TLC on the `registry_pass` instance (111,035 states)
and on the instance without CTIDH (3,039 states).

`RegistryRefinement_proofs.tla` proves, under the hypothesis `NoWrites`
(`CallerWrites = FALSE`: callers only append to the slices `All` returns):
- `RegistryImplementsAbstract: NoWrites => (Spec => RegistryRefines)`.
  `RInit` maps the initial state to `AInit`. `RNext` maps each step:
  `PackageInit` to `Load` (`PackageInitView`: `allSchemes` then shows
  exactly the registered list), `ByName` to `Lookup`, and `All` and
  `AppendTo` to stutters.
- `RegistryStableWithoutWrites: NoWrites => (Spec => RegistryStable)`.

Both rest on `RInv`, which adds two things to `IInv`:
- once ready, `allSchemes` shows the registered list;
- a caller's slice that shares `allSchemes`' array is at least as long as
  `allSchemes`.
So an in-place append through such a slice writes past what `allSchemes`
shows (`AppendToView`). A grow-and-copy append writes into a new array.
`RInv` was checked with TLC on the `registry_refines` instance (1,275
states) before it was proved.

The hypothesis is needed: with element writes, run `registry_mutable` shows
a caller changing what `All()` returns. Without it, the theorems would state
something false.

Only model-checked:
- the violated properties (by definition);
- `LoopsAgree`. The rewritten loops equal the code's loops over the actual
  eleven-entry list. TLC checks this; a proof would be an induction over the
  loop, which the provers here cannot do (their induction theorems take an
  operator parameter);
- `AppendIsolation` and `RegisteredUsable`. Both are violated, and both are
  findings (section 4).

Out of the prover's reach: liveness and ENABLED. None is used here: no
fairness is assumed (section 4).

## 6. Not modelled

Three divergences were seen with TLC while modelling and are not kept as
runs, because each shows in a single call: `PublicKey.UnmarshalText`
(`part_001:116`) returns success without loading the key; `SharedKeySize()`
(`part_001:73`) is the sum of the component sizes while the secret is 32
bytes; `PrivateKey.FromBytes` (`part_000:131`) loads a key whose public half
is not its seed's. PROJECT.json records them as hazards with notes.


- In the ed25519 wrapper: `Reset` racing `Sign` on one key (spec 5 leaves
  that to the caller, so each method is atomic); `b64String`, `Sum256`,
  `ByteArray`, `KeyType` and `InternalPtr`, which only read or format.
- The internals of the component KEMs, Blake2b and PEM. They are external
  collaborators, not under `src/`, and are abstracted to their contracts
  (spec 4.1, 6).
- `Name()`, `Scheme()` and `PrivateKey.Equal`. They are pure getters and do
  not change state.
- L2 to L4 of spec.md. They have no source under `src/`.
- The CTIDH, McEliece and other primitives that the registry lists. They are
  named values. Only whether each one exists in the build matters to the
  registry.
- The Go runtime's rounding of capacities to size classes. It only adds
  spare capacity, which makes `append_clobber` happen sooner.
