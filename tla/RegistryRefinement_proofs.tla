----------------------- MODULE RegistryRefinement_proofs -----------------------
EXTENDS Registry_proofs

(***************************************************************************)
(* Proof that Registry implements RegistryAbstract (spec 4.6's name table) *)
(* and that All() keeps returning the same list, for callers that do not   *)
(* assign to the elements of the slice All() returns.                      *)
(***************************************************************************)

\* Callers only append to the slices All returns, never assign to their
\* elements: the assumption under which the registry is immutable.
NoWrites == CallerWrites = FALSE

\* Once init() has run, allSchemes shows the registered list, and a
\* caller's slice that shares allSchemes' array is at least as long, so an
\* append through it writes past what allSchemes shows.
RInv ==
  /\ IInv
  /\ phase = "ready" => View(allSchemes) = Registered
  /\ \A c \in Callers :
       held[c] # None /\ held[c].arr = allSchemes.arr => allSchemes.len <= held[c].len
\* A slice of the first n elements of s is the list r when the two agree
\* on those elements.
LEMMA SubSeqIs ==
  ASSUME NEW S, NEW r \in Seq(S), NEW s, NEW n \in Nat, Len(r) = n,
         \A i \in 1 .. n : s[i] = r[i]
  PROVE  SubSeq(s, 1, n) = r
<1>1. DOMAIN r = 1 .. n BY LenProperties
<1>2. SubSeq(s, 1, n) = [i \in 1 .. n |-> s[i]] OBVIOUS
<1> QED BY <1>1, <1>2

\* Two lists that agree on their first n elements have the same slice of
\* those.
LEMMA SubSeqAgree ==
  ASSUME NEW s, NEW t, NEW n \in Nat, \A i \in 1 .. n : s[i] = t[i]
  PROVE  SubSeq(s, 1, n) = SubSeq(t, 1, n)
<1>1. SubSeq(s, 1, n) = [i \in 1 .. n |-> s[i]] OBVIOUS
<1>2. SubSeq(t, 1, n) = [i \in 1 .. n |-> t[i]] OBVIOUS
<1> QED BY <1>1, <1>2

\* The first 25 registered schemes are the literal ones.
LEMMA RegisteredPrefix ==
  \A i \in 1 .. 25 : Registered[i] = allSchemesLiteral[i]
<1>1. /\ allSchemesLiteral \o Available \in Seq(SchemeValues)
      /\ \A k \in 1 .. Len(allSchemesLiteral) + Len(Available) :
           (allSchemesLiteral \o Available)[k] =
             IF k <= Len(allSchemesLiteral) THEN allSchemesLiteral[k]
             ELSE Available[k - Len(allSchemesLiteral)]
  <2>1. Available \in Seq(SchemeValues) BY AvailableGood DEF Good
  <2> QED BY <2>1, LitSeq, ConcatProperties
<1>2. Len(Available) \in Nat BY RegisteredFacts
<1> SUFFICES ASSUME NEW i \in 1 .. 25 PROVE Registered[i] = allSchemesLiteral[i] OBVIOUS
<1>3. i \in 1 .. Len(allSchemesLiteral) + Len(Available) /\ i <= Len(allSchemesLiteral)
  BY <1>2, LitLen
<1>4. (allSchemesLiteral \o Available)[i] = allSchemesLiteral[i] BY <1>1, <1>3
<1> QED BY <1>4 DEF Registered

\* The abstract registry starts where the package variables start.
LEMMA RInit == Init => RInv /\ Abs!AInit
<1> SUFFICES ASSUME Init PROVE RInv /\ Abs!AInit OBVIOUS
<1>1. IInv BY InitIInv
<1>2. phase # "ready" /\ \A c \in Callers : held[c] = None BY DEF Init
<1> QED BY <1>1, <1>2 DEF RInv, Abs!AInit, Init

\* After init(), allSchemes shows exactly the registered list.
LEMMA PackageInitView ==
  ASSUME IInv, PackageInit
  PROVE  View(allSchemes)' = Registered
<1> DEFINE k == Len(Available)
           grown == [i \in 1 .. InitCap(k) |->
                       IF i <= Len(Registered) THEN Registered[i] ELSE Nil]
<1>0. allSchemesLiteral \o Available = Registered BY DEF Registered
<1>1. heap = <<allSchemesLiteral>> BY DEF PackageInit, IInv
<1>2. /\ heap' = IF k = 0 THEN heap ELSE Append(heap, grown)
      /\ allSchemes' = Header(IF k = 0 THEN 1 ELSE 2, Len(Registered))
  BY <1>0 DEF PackageInit
<1>3. /\ Registered \in Seq(SchemeValues) /\ Len(Registered) = 25 + k
      /\ k \in Nat /\ k <= 11
  BY RegisteredFacts
<1>4. View(allSchemes)' = SubSeq(heap'[allSchemes'.arr], 1, allSchemes'.len) BY DEF View
<1>5. CASE k = 0
  <2>1. heap'[allSchemes'.arr] = allSchemesLiteral /\ allSchemes'.len = 25
    BY <1>5, <1>1, <1>2, <1>3 DEF Header
  <2>2. \A i \in 1 .. 25 : allSchemesLiteral[i] = Registered[i] BY RegisteredPrefix
  <2>3. Len(Registered) = 25 BY <1>5, <1>3
  <2>4. SubSeq(allSchemesLiteral, 1, 25) = Registered BY <2>2, <2>3, <1>3, SubSeqIs
  <2> QED BY <1>4, <2>1, <2>4
<1>6. CASE k # 0
  <2>1. Len(heap) = 1 /\ heap \in Seq(Seq(Elems)) BY <1>1 DEF IInv, TypeOK, Elems
  <2>2. grown \in Seq(Elems) /\ InitCap(k) = 50
    <3>1. InitCap(k) = 50 BY <1>6, LitLen DEF InitCap, GrowCap
    <3>2. \A i \in 1 .. 50 : (IF i <= Len(Registered) THEN Registered[i] ELSE Nil) \in Elems
      BY RegisteredFacts DEF Elems
    <3>3. grown \in [1 .. 50 -> Elems] BY <3>1, <3>2
    <3> QED BY <3>1, <3>3, ArrayIsSeq
  <2>3. Append(heap, grown)[2] = grown
    <3>0. heap \in Seq(Seq(Elems)) /\ grown \in Seq(Elems) BY <2>1, <2>2
    <3>1. \A i \in 1 .. Len(heap) + 1 :
            Append(heap, grown)[i] = IF i <= Len(heap) THEN heap[i] ELSE grown
      BY <3>0, AppendProperties
    <3>2. 2 \in 1 .. Len(heap) + 1 /\ ~(2 <= Len(heap)) BY <2>1
    <3> QED BY <3>1, <3>2
  <2>4. heap'[allSchemes'.arr] = grown /\ allSchemes'.len = Len(Registered)
    BY <1>6, <1>2, <2>3 DEF Header
  <2>5. \A i \in 1 .. Len(Registered) : grown[i] = Registered[i] BY <2>2, <1>3
  <2>6. Len(Registered) \in Nat BY <1>3
  <2> QED BY <1>4, <2>4, <2>5, <2>6, <1>3, SubSeqIs
<1> QED BY <1>5, <1>6

\* A caller's append never changes what allSchemes shows: it writes past
\* allSchemes' length into a shared array, or into an array of its own.
LEMMA AppendToView ==
  ASSUME RInv, NEW c \in Callers, NEW x \in Mine, AppendTo(c, x)
  PROVE  /\ View(allSchemes)' = View(allSchemes)
         /\ held'[c].arr = allSchemes.arr => allSchemes.len <= held'[c].len
<1> DEFINE h == held[c]
           a == h.arr
           A == allSchemes.arr
           n == allSchemes.len
           L == Len(heap[a])
<1>1. /\ h # None
      /\ held' = [held EXCEPT ![c] = AppendSlice(h, x).hdr]
      /\ heap' = AppendSlice(h, x).heap
      /\ allSchemes' = allSchemes
  BY DEF AppendTo
<1>2. /\ heap \in Seq(Seq(Elems)) /\ DOMAIN heap = 1 .. Len(heap)
      /\ A \in DOMAIN heap /\ a \in DOMAIN heap /\ h \in Headers
      /\ allSchemes \in Headers /\ n <= Len(heap[A]) /\ h.len <= L
      /\ a = A => n <= h.len
      /\ held \in [Callers -> Headers \cup {None}]
  <2>1. /\ heap \in Seq(Seq(Elems)) /\ A \in DOMAIN heap /\ a \in DOMAIN heap
        /\ h \in Headers /\ allSchemes \in Headers /\ n <= Len(heap[A]) /\ h.len <= L
        /\ held \in [Callers -> Headers \cup {None}]
    BY <1>1 DEF RInv, IInv, TypeOK, Elems
  <2>2. a = A => n <= h.len BY <1>1 DEF RInv
  <2>3. DOMAIN heap = 1 .. Len(heap) BY <2>1, LenProperties
  <2> QED BY <2>1, <2>2, <2>3
<1>3. View(allSchemes)' = SubSeq(heap'[A], 1, n) /\ View(allSchemes) = SubSeq(heap[A], 1, n)
  BY <1>1 DEF View
<1>4. CASE h.len < L
  <2>1. AppendSlice(h, x) = [hdr |-> Header(a, h.len + 1),
                             heap |-> [heap EXCEPT ![a][h.len + 1] = x]]
    BY <1>4 DEF AppendSlice
  <2>2. heap' = [heap EXCEPT ![a][h.len + 1] = x] /\ held'[c] = Header(a, h.len + 1)
    BY <2>1, <1>1, <1>2
  <2>3. \A i \in 1 .. n : heap'[A][i] = heap[A][i]
    <3>1. CASE a = A
      <4>1. heap'[A] = [heap[A] EXCEPT ![h.len + 1] = x] BY <3>1, <2>2, <1>2
      <4>2. n < h.len + 1 BY <3>1, <1>2 DEF Headers
      <4>3. heap[A] \in Seq(Elems) BY <1>2, ElementOfSeq
      <4>4. DOMAIN heap[A] = 1 .. Len(heap[A]) /\ n \in Nat BY <4>3, <1>2, LenProperties DEF Headers
      <4> QED BY <4>1, <4>2, <4>4, <1>2
    <3>2. CASE a # A BY <3>2, <2>2
    <3> QED BY <3>1, <3>2
  <2>4. held'[c].arr = a /\ held'[c].len = h.len + 1 BY <2>2 DEF Header
  <2>5. a = A => n <= h.len + 1 BY <1>2 DEF Headers
  <2>6. n \in Nat BY <1>2 DEF Headers
  <2>7. SubSeq(heap'[A], 1, n) = SubSeq(heap[A], 1, n) BY <2>3, <2>6, SubSeqAgree
  <2> QED BY <1>3, <2>4, <2>5, <2>7
<1>5. CASE ~(h.len < L)
  <2> DEFINE grown == [i \in 1 .. GrowCap(L, h.len + 1) |->
                         IF i <= h.len THEN heap[a][i] ELSE IF i = h.len + 1 THEN x ELSE Nil]
  <2>1. AppendSlice(h, x) = [hdr |-> Header(Len(heap) + 1, h.len + 1),
                             heap |-> Append(heap, grown)]
    BY <1>5 DEF AppendSlice
  <2>2. heap' = Append(heap, grown) /\ held'[c] = Header(Len(heap) + 1, h.len + 1)
    BY <2>1, <1>1, <1>2
  <2>3. heap'[A] = heap[A]
    <3>1. h.len = L /\ GrowCap(L, h.len + 1) \in Nat BY <1>5, <1>2 DEF Headers, GrowCap
    <3>2. heap[a] \in Seq(Elems) BY <1>2, ElementOfSeq
    <3>3. \A i \in 1 .. h.len : heap[a][i] \in Elems BY <3>1, <3>2, ElementOfSeq
    <3>4. grown \in [1 .. GrowCap(L, h.len + 1) -> Elems] BY <3>3 DEF Elems
    <3>5. grown \in Seq(Elems) BY <3>1, <3>4, ArrayIsSeq
    <3>6. \A i \in 1 .. Len(heap) + 1 :
            Append(heap, grown)[i] = IF i <= Len(heap) THEN heap[i] ELSE grown
      BY <3>5, <1>2, AppendProperties
    <3>7. A \in 1 .. Len(heap) BY <1>2
    <3> QED BY <3>6, <3>7, <2>2
  <2>4. held'[c].arr # A BY <2>2, <1>2 DEF Header
  <2> QED BY <1>3, <2>3, <2>4
<1> QED BY <1>4, <1>5

\* The list the abstract registry sees: what allSchemes shows once ready.
AbsList == IF phase = "ready" THEN View(allSchemes) ELSE <<>>

\* init() is the abstract Load.
LEMMA PackageInitStep ==
  ASSUME RInv, PackageInit
  PROVE  RInv' /\ Abs!Load
<1>1. IInv /\ phase = "boot" /\ held = [c \in Callers |-> None] BY DEF RInv, IInv, PackageInit
<1>2. IInv' BY <1>1, PackageInitIInv
<1>3. View(allSchemes)' = Registered BY <1>1, PackageInitView
<1>4. phase' = "ready"
  <2>1. \A i \in DOMAIN Registered : Registered[i] # Nil BY RegisteredFacts
  <2>2. allSchemesLiteral \o Available = Registered BY DEF Registered
  <2> QED BY <2>1, <2>2 DEF PackageInit
<1>5. held' = held /\ got' = got BY DEF PackageInit
<1>6. RInv' BY <1>1, <1>2, <1>3, <1>5 DEF RInv
<1>7. Abs!Load BY <1>1, <1>3, <1>4, <1>5 DEF Abs!Load
<1> QED BY <1>6, <1>7

\* ByName is the abstract Lookup.
LEMMA ByNameStep ==
  ASSUME RInv, NEW c \in Callers, NEW q \in Queries, ByName(c, q)
  PROVE  RInv' /\ Abs!Lookup(c, q)
<1>1. IInv /\ phase = "ready" /\ View(allSchemes) = Registered
      /\ names = NameMap(Registered)
  BY DEF RInv, IInv, ByName
<1>2. IInv' BY <1>1, ByNameIInv
<1>3. UNCHANGED <<phase, heap, allSchemes, names, held, mutations>> BY DEF ByName
<1>4. got' = [got EXCEPT ![c] = [query |-> q, scheme |-> Lookup(Registered, q)]]
  <2>1. got' = [got EXCEPT ![c] =
                  [query |-> q,
                   scheme |-> IF ToLower(q) \in DOMAIN names THEN names[ToLower(q)] ELSE Nil]]
    BY DEF ByName
  <2>2. q \in Names BY SchemesAssumption
  <2> QED BY <2>1, <2>2, <1>1, NameMapLookup
<1>5. Abs!Find(Registered, q) = Lookup(Registered, q) BY DEF Abs!Find, Lookup
<1>6. RInv' BY <1>1, <1>2, <1>3 DEF RInv, View
<1>7. Abs!Lookup(c, q) BY <1>1, <1>3, <1>4, <1>5 DEF Abs!Lookup, View
<1> QED BY <1>6, <1>7

\* All hands out allSchemes' header and is invisible to the abstract
\* registry.
LEMMA AllStep ==
  ASSUME RInv, NEW c \in Callers, All(c)
  PROVE  RInv' /\ UNCHANGED <<phase, AbsList, got>>
<1>1. IInv' BY AllIInv DEF RInv
<1>2. UNCHANGED <<phase, heap, allSchemes, names, got, mutations>>
      /\ held' = [held EXCEPT ![c] = allSchemes]
  BY DEF All
<1>3. held \in [Callers -> Headers \cup {None}] BY DEF RInv, IInv, TypeOK
<1>4. \A d \in Callers :
        held'[d] # None /\ held'[d].arr = allSchemes'.arr => allSchemes'.len <= held'[d].len
  <2> SUFFICES ASSUME NEW d \in Callers, held'[d] # None, held'[d].arr = allSchemes'.arr
               PROVE  allSchemes'.len <= held'[d].len
    OBVIOUS
  <2>1. allSchemes \in Headers BY DEF RInv, IInv, TypeOK
  <2>2. CASE d = c BY <2>2, <2>1, <1>2, <1>3 DEF Headers
  <2>3. CASE d # c
    <3>1. held'[d] = held[d] BY <2>3, <1>2, <1>3
    <3> QED BY <3>1, <1>2 DEF RInv
  <2> QED BY <2>2, <2>3
<1>5. phase' = "ready" => View(allSchemes)' = Registered BY <1>2 DEF RInv, View
<1> QED BY <1>1, <1>2, <1>4, <1>5 DEF RInv, AbsList, View

\* A caller's append is invisible to the abstract registry.
LEMMA AppendToStep ==
  ASSUME RInv, NEW c \in Callers, NEW x \in Mine, AppendTo(c, x)
  PROVE  RInv' /\ UNCHANGED <<phase, AbsList, got>>
<1>1. IInv' BY AppendToIInv DEF RInv
<1>2. /\ View(allSchemes)' = View(allSchemes)
      /\ held'[c].arr = allSchemes.arr => allSchemes.len <= held'[c].len
  BY AppendToView
<1>3. /\ UNCHANGED <<phase, allSchemes, names, got>>
      /\ held' = [held EXCEPT ![c] = AppendSlice(held[c], x).hdr]
  BY DEF AppendTo
<1>4. held \in [Callers -> Headers \cup {None}] BY DEF RInv, IInv, TypeOK
<1>5. \A d \in Callers :
        held'[d] # None /\ held'[d].arr = allSchemes'.arr => allSchemes'.len <= held'[d].len
  BY <1>2, <1>3, <1>4 DEF RInv
<1> QED BY <1>1, <1>2, <1>3, <1>5 DEF RInv, AbsList

\* Every step keeps RInv and is a step or a stutter of the abstract
\* registry, as long as callers do not assign to elements of their slices.
LEMMA RNext ==
  ASSUME NoWrites, RInv, [Next]_vars
  PROVE  RInv' /\ [Abs!ANext]_<<phase = "ready", AbsList, got>>
<1>1. CASE PackageInit
  <2>1. RInv' /\ Abs!Load BY <1>1, PackageInitStep
  <2> QED BY <2>1 DEF Abs!ANext
<1>2. CASE \E c \in Callers, q \in Queries : ByName(c, q)
  <2>1. PICK c \in Callers, q \in Queries : ByName(c, q) BY <1>2
  <2>2. RInv' /\ Abs!Lookup(c, q) BY <2>1, ByNameStep
  <2> QED BY <2>2 DEF Abs!ANext
<1>3. CASE \E c \in Callers : All(c) BY <1>3, AllStep
<1>4. CASE \E c \in Callers, x \in Mine : AppendTo(c, x) BY <1>4, AppendToStep
<1>5. CASE \E c \in Callers, x \in Mine, i \in 1 .. Len(allSchemesLiteral) + Len(potentialSchemes) :
             SetIndex(c, i, x)
  BY <1>5 DEF SetIndex, NoWrites
<1>6. CASE UNCHANGED vars BY <1>6 DEF vars, RInv, IInv, TypeOK, LookupCorrect, AbsList, View
<1> QED BY <1>1, <1>2, <1>3, <1>4, <1>5, <1>6 DEF Next

\* The registry as implemented, with callers that only append to the
\* slices All returns, behaves as spec 4.6's registry: built once by
\* init() from the registered list, immutable afterwards, looked up by
\* case-insensitive name (RegistryRefines).  With callers that assign to
\* elements, run registry_mutable shows that it does not.
THEOREM RegistryImplementsAbstract == NoWrites => (Spec => RegistryRefines)
<1> SUFFICES ASSUME NoWrites PROVE Spec => Abs!ASpec BY DEF RegistryRefines
<1>1. Init => RInv /\ Abs!AInit BY RInit
<1>2. RInv /\ [Next]_vars => RInv' /\ [Abs!ANext]_<<phase = "ready", AbsList, got>>
  BY RNext
<1> QED BY <1>1, <1>2, PTL DEF Spec, Abs!ASpec, Abs!avars, AbsList

\* No step leaves the ready phase.
LEMMA ReadyStays ==
  ASSUME [Next]_vars, phase = "ready"
  PROVE  phase' = "ready"
BY DEF Next, vars, PackageInit, ByName, All, AppendTo, SetIndex

\* With callers that only append, no step of any caller changes the list
\* All() returns once init() has run (RegistryStable, spec 4.6, 9).  Run
\* registry_mutable shows a caller's element write changing it.
THEOREM RegistryStableWithoutWrites == NoWrites => (Spec => RegistryStable)
<1> SUFFICES ASSUME NoWrites PROVE Spec => RegistryStable OBVIOUS
<1>1. Init => RInv BY RInit
<1>2. RInv /\ [Next]_vars => RInv' BY RNext
<1>3. RInv /\ RInv' /\ [Next]_vars => [phase = "ready" => View(allSchemes)' = View(allSchemes)]_vars
  <2> SUFFICES ASSUME RInv, RInv', [Next]_vars, phase = "ready"
               PROVE  View(allSchemes)' = View(allSchemes)
    OBVIOUS
  <2>1. phase' = "ready" BY ReadyStays
  <2> QED BY <2>1 DEF RInv
<1> QED BY <1>1, <1>2, <1>3, PTL DEF Spec, RegistryStable

====
