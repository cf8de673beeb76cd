\* Two goroutines share a cache that holds two of three cacheable inputs,
\* against the contract of a guard without a cache.  QueryRow keeps an error in a
\* row; Exec and Query return it.
SPECIFICATION Spec
CONSTANTS
  g1 = g1  g2 = g2  a = a  b = b  d = d  long = long  broken = broken
  Callers = {g1, g2}
  Operations = {"QueryRow"}
  Inputs = {a, b, d, long, broken}
  Malformed = {broken}
  Oversized = {long}
  Capacity = 2
  Changing = {a}
  NoInput = NoInput
SYMMETRY CallerSymmetry
INVARIANTS
  TypeOK
  DelegatedMeansValidated
  CacheBounded
  CacheIsSound
  EvictsLeastRecent
PROPERTY ImplementsGuard
