CONSTANTS
  c1 = c1
  c2 = c2
  m1 = m1
  m2 = m2
  Nil = Nil
  None = None
  Callers <- MCCallers
  Mine <- MCMine
  Queries <- MCQueries
  Unavailable = {"ctidh511"}
  CallerWrites = FALSE
  MaxMutations = 2
SPECIFICATION Spec
PROPERTY AppendIsolation
