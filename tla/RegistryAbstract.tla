--------------------------- MODULE RegistryAbstract ---------------------------
(***************************************************************************)
(* What the scheme registry promises (spec 4.6): built once at             *)
(* initialisation from a fixed list, immutable afterwards, looked up by   *)
(* case-insensitive name with nil on a miss.  A name is a record whose    *)
(* fold field is its case-folded form.                                    *)
(***************************************************************************)
EXTENDS Naturals, Sequences

CONSTANTS
  Registered,   \* the list the registry is built from
  Callers,      \* goroutines that look schemes up
  Queries,      \* names callers pass
  Nil,          \* no scheme
  None          \* no lookup made yet

VARIABLES
  ready,   \* whether initialisation has run
  list,    \* the registered schemes, as enumeration returns them
  got      \* got[c]: the last name caller c looked up and the answer

avars == <<ready, list, got>>

\* The scheme of the list whose name folds to the query's, nil if none.
Find(l, q) ==
  IF \E i \in DOMAIN l : l[i].name.fold = q.fold
  THEN l[CHOOSE i \in DOMAIN l : l[i].name.fold = q.fold]
  ELSE Nil

AInit ==
  /\ ready = FALSE
  /\ list = <<>>
  /\ got = [c \in Callers |-> None]

Load ==
  /\ ~ready
  /\ ready' = TRUE /\ list' = Registered
  /\ UNCHANGED got

Lookup(c, q) ==
  /\ ready
  /\ got' = [got EXCEPT ![c] = [query |-> q, scheme |-> Find(list, q)]]
  /\ UNCHANGED <<ready, list>>

ANext == Load \/ \E c \in Callers, q \in Queries : Lookup(c, q)

ASpec == AInit /\ [][ANext]_avars
=============================================================================
