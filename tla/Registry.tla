------------------------------- MODULE Registry -------------------------------
(***************************************************************************)
(* The KEM scheme registry of package schemes (src/kem/schemes/schemes.go) *)
(* and the callers that use it.                                            *)
(*                                                                         *)
(* Package initialisation evaluates the two literal lists potentialSchemes *)
(* and allSchemes, then init() appends the non-nil potential schemes to    *)
(* allSchemes and indexes every scheme by its lower-cased name.  Callers   *)
(* then call ByName and All, and may append to or write into the slice    *)
(* All returns, as Go code does with any slice it is given.                *)
(*                                                                         *)
(* Go slices are modelled as they are: a header (backing array, length)    *)
(* over a heap of arrays whose length is their capacity, and append        *)
(* writes in place while there is capacity and copies to a new array      *)
(* otherwise (Go spec, "Appending to and copying slices").                 *)
(*                                                                         *)
(* A scheme is a record of its name and its component schemes.  A name is  *)
(* its lower-case form and its letter case; strings.ToLower keeps the      *)
(* first and makes the second "lower".  The names of the primitive schemes *)
(* come from packages outside this repository and are their package names. *)
(***************************************************************************)
EXTENDS Naturals, Sequences, FiniteSets

CONSTANTS
  Unavailable,   \* primitive NIKEs whose Scheme() is nil in this build
  Callers,       \* goroutines that use the registry
  Mine,          \* schemes callers create and put into their own slices
  Queries,       \* names callers pass to ByName
  CallerWrites,  \* whether callers assign to elements of All()'s slice
  MaxMutations,  \* most appends and element writes callers make
  Nil,           \* the nil kem.Scheme
  None           \* a caller that has not called the method yet

ASSUME ConstantsAssumption ==
  /\ CallerWrites \in BOOLEAN
  /\ MaxMutations \in Nat
  /\ Nil \notin Mine /\ None # Nil

VARIABLES
  phase,        \* "boot" before init(), then "ready", or "panicked"
  heap,         \* the backing arrays: heap[a] is array a, Len = its capacity
  allSchemes,   \* the slice header of the package variable allSchemes
  names,        \* the map allSchemeNames
  held,         \* held[c]: the slice header caller c got from All
  got,          \* got[c]: the last query of caller c to ByName and its result
  mutations     \* appends and element writes made so far by callers

vars == <<phase, heap, allSchemes, names, held, got, mutations>>

-----------------------------------------------------------------------------
(* Names and schemes.                                                      *)

N(fold, case) == [fold |-> fold, case |-> case]

\* strings.ToLower
ToLower(n) == [n EXCEPT !.case = "lower"]

\* A scheme of a package outside this repository, named after it.
Prim(p) == [name |-> N(p, "mixed"), parts |-> <<>>]

\* adapter.FromNIKE(p.Scheme()): nil when the NIKE is not in this build.
Adapter(p) == IF p \in Unavailable THEN Nil ELSE Prim(p)

\* combiner.New(name, kems) and hybrid.New(name, first, second): a scheme
\* value whatever its components are.
Combiner(n, kems) == [name |-> n, parts |-> kems]
Hybrid(n, first, second) == Combiner(n, <<first, second>>)

potentialSchemes ==
  << Adapter("ctidh511"), Adapter("ctidh512"), Adapter("ctidh1024"),
     Adapter("ctidh2048"),
     Combiner(N("x25519-mceliece8192128f-ctidh512", "lower"),
              <<Adapter("x25519"), Prim("mceliece8192128f"), Adapter("ctidh512")>>),
     Combiner(N("x448-mceliece8192128f-ctidh512", "lower"),
              <<Adapter("x448"), Prim("mceliece8192128f"), Adapter("ctidh512")>>),
     Combiner(N("ctidh512-x25519", "mixed"), <<Adapter("x25519"), Adapter("ctidh512")>>),
     Combiner(N("ctidh1024-x25519", "mixed"), <<Adapter("x25519"), Adapter("ctidh1024")>>),
     Combiner(N("ctidh2048-x25519", "mixed"), <<Adapter("x25519"), Adapter("ctidh2048")>>),
     Combiner(N("x25519-mlkem768-ctidh512", "mixed"),
              <<Adapter("x25519"), Prim("mlkem768"), Adapter("ctidh512")>>),
     Combiner(N("x25519-mlkem768-ctidh1024", "mixed"),
              <<Adapter("x25519"), Prim("mlkem768"), Adapter("ctidh1024")>>) >>

allSchemesLiteral ==
  << Adapter("diffiehellman"), Adapter("x25519"), Adapter("x448"),
     Prim("mlkem768"), Prim("sntrup"), Prim("kyber512"), Prim("kyber768"),
     Prim("kyber1024"), Prim("frodo640shake"), Prim("mceliece348864"),
     Prim("mceliece348864f"), Prim("mceliece460896"), Prim("mceliece460896f"),
     Prim("mceliece6688128"), Prim("mceliece6688128f"), Prim("mceliece6960119"),
     Prim("mceliece6960119f"), Prim("mceliece8192128"), Prim("mceliece8192128f"),
     Prim("xwing"),
     Hybrid(N("kyber768-x25519", "mixed"), Adapter("x25519"), Prim("kyber768")),
     Combiner(N("mlkem768-x25519", "mixed"), <<Adapter("x25519"), Prim("mlkem768")>>),
     Combiner(N("x448-mceliece8192128f-mlkem768", "lower"),
              <<Adapter("x448"), Prim("mceliece8192128f"), Prim("mlkem768")>>),
     Combiner(N("sntrup4591761-x25519", "mixed"), <<Adapter("x25519"), Prim("sntrup")>>),
     Combiner(N("x25519-mlkem768-sntrup4591761", "mixed"),
              <<Adapter("x25519"), Prim("mlkem768"), Prim("sntrup")>>) >>

\* Names as strings.ToLower sees them.
Names == [fold : STRING, case : STRING]

\* The case-folded names the two lists give their schemes and components.
SchemeFolds ==
  { "diffiehellman", "x25519", "x448", "mlkem768", "sntrup", "kyber512",
    "kyber768", "kyber1024", "frodo640shake", "mceliece348864",
    "mceliece348864f", "mceliece460896", "mceliece460896f", "mceliece6688128",
    "mceliece6688128f", "mceliece6960119", "mceliece6960119f",
    "mceliece8192128", "mceliece8192128f", "xwing", "kyber768-x25519",
    "mlkem768-x25519", "x448-mceliece8192128f-mlkem768", "sntrup4591761-x25519",
    "x25519-mlkem768-sntrup4591761", "ctidh511", "ctidh512", "ctidh1024",
    "ctidh2048", "x25519-mceliece8192128f-ctidh512",
    "x448-mceliece8192128f-ctidh512", "ctidh512-x25519", "ctidh1024-x25519",
    "ctidh2048-x25519", "x25519-mlkem768-ctidh512", "x25519-mlkem768-ctidh1024" }

\* The values of kem.Scheme the lists hold: a name and components that are
\* primitive schemes or nil.
SchemeNames == [fold : SchemeFolds, case : {"lower", "mixed"}]
SchemeValues ==
  [name : SchemeNames, parts : Seq([name : SchemeNames, parts : {<<>>}] \cup {Nil})]

\* A nil kem.Scheme is no scheme value, and a query is a name.  The NIKEs
\* that the literal allSchemes adapts are in every build: init() checks
\* only potentialSchemes for nil.  potentialSchemes is not longer than the
\* literal, which InitCap relies on.
ASSUME SchemesAssumption ==
  /\ Nil \notin SchemeValues
  /\ Queries \subseteq Names
  /\ Unavailable \cap {"diffiehellman", "x25519", "x448"} = {}
  /\ Len(potentialSchemes) <= Len(allSchemesLiteral)

\* Variant: the nil check of init() left out.
SkippedNever(scheme) == FALSE

\* init()'s check `if scheme != nil`: the schemes its first loop skips.
Skipped(scheme) == scheme = Nil

\* One pass of init()'s first loop: potentialSchemes[i] appended, unless
\* it is skipped.
Kept(i) == IF Skipped(potentialSchemes[i]) THEN <<>> ELSE <<potentialSchemes[i]>>

\* The non-nil potential schemes, in order: what init() appends, the loop
\* over the eleven entries of the literal unrolled.
Available ==
  Kept(1) \o Kept(2) \o Kept(3) \o Kept(4) \o Kept(5) \o Kept(6) \o Kept(7)
    \o Kept(8) \o Kept(9) \o Kept(10) \o Kept(11)

-----------------------------------------------------------------------------
(* Go slices.                                                              *)

\* runtime.growslice for capacities below 256: double, or the length
\* needed when that is more (rounding up to a size class is left out).
GrowCap(old, needed) == IF needed > 2 * old THEN needed ELSE 2 * old

Header(a, n) == [arr |-> a, len |-> n]

\* The elements a slice header shows.
View(h) == SubSeq(heap[h.arr], 1, h.len)

\* append(s, x): the new header and heap.
AppendSlice(h, x) ==
  IF h.len < Len(heap[h.arr])
  THEN [hdr |-> Header(h.arr, h.len + 1),
        heap |-> [heap EXCEPT ![h.arr][h.len + 1] = x]]
  ELSE LET cap == GrowCap(Len(heap[h.arr]), h.len + 1)
           arr == [i \in 1 .. cap |-> IF i <= h.len THEN heap[h.arr][i]
                                      ELSE IF i = h.len + 1 THEN x ELSE Nil]
       IN  [hdr |-> Header(Len(heap) + 1, h.len + 1), heap |-> Append(heap, arr)]

\* The capacity of allSchemes after init() has appended k schemes to the
\* literal, one append at a time.  The literal is full (len = cap), so the
\* first append grows it to GrowCap(cap, cap + 1); that is twice the
\* literal, and potentialSchemes is not longer than the literal
\* (SchemesAssumption), so no later append grows it again.
InitCap(k) ==
  IF k = 0 THEN Len(allSchemesLiteral)
  ELSE GrowCap(Len(allSchemesLiteral), Len(allSchemesLiteral) + 1)

\* The index of the last scheme of list s whose lower-cased name is key:
\* the entry the map keeps when later assignments overwrite earlier ones.
LastWith(s, key) ==
  CHOOSE i \in DOMAIN s : /\ ToLower(s[i].name) = key
                          /\ \A j \in DOMAIN s : ToLower(s[j].name) = key => j <= i

\* Variant: the map keyed by scheme.Name() as it is.
NameMapRawKeys(list) ==
  [key \in {list[i].name : i \in DOMAIN list} |->
     list[CHOOSE i \in DOMAIN list : /\ list[i].name = key
                                    /\ \A j \in DOMAIN list : list[j].name = key => j <= i]]

\* Variant: the names indexed before the potential schemes are appended.
NameMapLiteralOnly(list) ==
  [key \in {ToLower(allSchemesLiteral[i].name) : i \in DOMAIN allSchemesLiteral} |->
     allSchemesLiteral[LastWith(allSchemesLiteral, key)]]

\* allSchemeNames[strings.ToLower(scheme.Name())] = scheme for every scheme
\* of the list in order.
NameMap(list) ==
  [key \in {ToLower(list[i].name) : i \in DOMAIN list} |-> list[LastWith(list, key)]]

-----------------------------------------------------------------------------
(* Package initialisation and the exported functions.                     *)

\* The package variables once their initialisers have run: allSchemes is
\* the literal (length = capacity) and allSchemeNames is a nil map.
Init ==
  /\ phase = "boot"
  /\ heap = <<allSchemesLiteral>>
  /\ allSchemes = Header(1, Len(allSchemesLiteral))
  /\ names = [k \in {} |-> Nil]
  /\ held = [c \in Callers |-> None]
  /\ got = [c \in Callers |-> None]
  /\ mutations = 0

\* init(): append the non-nil potential schemes, then map every scheme's
\* lower-cased name to it.  scheme.Name() on a nil scheme panics.
PackageInit ==
  /\ phase = "boot"
  /\ LET lit == allSchemesLiteral
         list == lit \o Available
         k == Len(Available)
         cap == InitCap(k)
         arr == [i \in 1 .. cap |-> IF i <= Len(list) THEN list[i] ELSE Nil]
     IN  /\ heap' = IF k = 0 THEN heap ELSE Append(heap, arr)
         /\ allSchemes' = Header(IF k = 0 THEN 1 ELSE 2, Len(list))
         /\ IF \E i \in DOMAIN list : list[i] = Nil
            THEN /\ phase' = "panicked" /\ UNCHANGED names
            ELSE /\ phase' = "ready" /\ names' = NameMap(list)
  /\ UNCHANGED <<held, got, mutations>>

\* Variant: the query used as the key without lower-casing it.
ByNameCaseSensitive(c, q) ==
  /\ phase = "ready"
  /\ got' = [got EXCEPT ![c] =
               [query |-> q, scheme |-> IF q \in DOMAIN names THEN names[q] ELSE Nil]]
  /\ UNCHANGED <<phase, heap, allSchemes, names, held, mutations>>

\* ByName(name): the map's entry for the lower-cased name, nil if none.
ByName(c, q) ==
  /\ phase = "ready"
  /\ got' = [got EXCEPT ![c] =
               [query |-> q,
                scheme |-> IF ToLower(q) \in DOMAIN names THEN names[ToLower(q)] ELSE Nil]]
  /\ UNCHANGED <<phase, heap, allSchemes, names, held, mutations>>

\* All(): a := allSchemes; return a[:] -- the same array, length, capacity.
All(c) ==
  /\ phase = "ready"
  /\ held' = [held EXCEPT ![c] = allSchemes]
  /\ UNCHANGED <<phase, heap, allSchemes, names, got, mutations>>

\* A caller's s = append(s, x) on the slice it got from All.
AppendTo(c, x) ==
  /\ held[c] # None /\ mutations < MaxMutations
  /\ LET r == AppendSlice(held[c], x)
     IN  /\ held' = [held EXCEPT ![c] = r.hdr]
         /\ heap' = r.heap
  /\ mutations' = mutations + 1
  /\ UNCHANGED <<phase, allSchemes, names, got>>

\* A caller's s[i] = x on the slice it got from All (e.g. while sorting it).
SetIndex(c, i, x) ==
  /\ CallerWrites /\ held[c] # None /\ mutations < MaxMutations
  /\ i \in 1 .. held[c].len
  /\ heap' = [heap EXCEPT ![held[c].arr][i] = x]
  /\ mutations' = mutations + 1
  /\ UNCHANGED <<phase, allSchemes, names, held, got>>

Next ==
  \/ PackageInit
  \/ \E c \in Callers :
       \/ \E q \in Queries : ByName(c, q)
       \/ All(c)
       \/ \E x \in Mine : AppendTo(c, x)
       \/ \E x \in Mine, i \in 1 .. Len(allSchemesLiteral) + Len(potentialSchemes) :
            SetIndex(c, i, x)

Spec == Init /\ [][Next]_vars

-----------------------------------------------------------------------------
(* Properties.                                                             *)

Schemes == UNION {{s[i] : i \in DOMAIN s} : s \in {allSchemesLiteral, potentialSchemes}}
Headers == [arr : Nat \ {0}, len : Nat]

TypeOK ==
  /\ phase \in {"boot", "ready", "panicked"}
  /\ heap \in Seq(Seq(Schemes \cup Mine \cup {Nil}))
  /\ allSchemes \in Headers /\ allSchemes.arr \in DOMAIN heap
  /\ held \in [Callers -> Headers \cup {None}]
  /\ \A c \in Callers : held[c] # None => held[c].arr \in DOMAIN heap
  /\ mutations \in 0 .. MaxMutations
  /\ \A k \in DOMAIN names : k.case = "lower" /\ names[k] \in Schemes
  /\ got \in [Callers -> {None} \cup [query : Queries, scheme : Schemes \cup {Nil}]]

\* The registered schemes as spec 4.6 defines them: the hard-coded list
\* with the schemes this build lacks left out.
Registered == allSchemesLiteral \o Available

\* Lookup as spec 4.6 states it: the registered scheme whose name equals
\* the query after case-folding, None (nil) when there is none.
Lookup(list, q) ==
  IF \E i \in DOMAIN list : list[i].name.fold = q.fold
  THEN list[CHOOSE i \in DOMAIN list : list[i].name.fold = q.fold]
  ELSE Nil

\* Package initialisation never panics: init() calls Name() only on
\* schemes that exist, whichever primitives the build leaves out.
NoInitPanic == phase # "panicked"

\* ByName is case-insensitive and total (spec 4.6, 8.E): whatever callers
\* did before with the slices All returned them, every answer is the
\* registered scheme of that name in any letter case, or nil.
LookupCorrect ==
  \A c \in Callers :
    got[c] # None => got[c].scheme = Lookup(Registered, got[c].query)

\* The registry is immutable once initialised (spec 4.6, 9): no step of
\* any caller changes the list All() returns.
RegistryStable ==
  [][phase = "ready" => View(allSchemes)' = View(allSchemes)]_vars

\* A caller's slice is its own: appending to the slice one caller got
\* from All never changes what another caller's slice holds.
AppendIsolation ==
  [][\A d \in Callers, x \in Mine :
       AppendTo(d, x) =>
         \A c \in Callers \ {d} : held[c] # None => View(held[c])' = View(held[c])]_vars

\* ByName never hands out a scheme with a nil component (which would
\* panic on first use): a scheme the build lacks is not registered.
RegisteredUsable ==
  \A c \in Callers :
    got[c] # None /\ got[c].scheme # Nil =>
      \A i \in DOMAIN got[c].scheme.parts : got[c].scheme.parts[i] # Nil

-----------------------------------------------------------------------------
(* Refinement.                                                             *)

\* The abstract registry's list is what allSchemes shows once init() has
\* run; before, the registry is empty.
Abs == INSTANCE RegistryAbstract WITH
         ready <- phase = "ready",
         list <- IF phase = "ready" THEN View(allSchemes) ELSE <<>>

\* The registry, ByName and All as implemented behave as the immutable
\* case-insensitive registry of spec 4.6.
RegistryRefines == Abs!ASpec

=============================================================================
