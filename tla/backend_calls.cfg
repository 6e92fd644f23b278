\* Three paths for two places in the cache, two results to apply passes to, and a
\* process that may die between any two requests and during each. The output of each
\* module may be missing once per process.
SPECIFICATION BackendSpec
CONSTANTS
  raw = raw  clean = clean  p1 = p1  p2 = p2  p3 = p3  r1 = r1  r2 = r2
  Modules <- TwoModules
  Passes <- BothPasses
  Fails = Fails  None = None
  Paths = {p1, p2, p3}
  Results = {r1, r2}
  MaxCached = 2
  MaxStarts = 2
  MaxStranded = 1
SYMMETRY AnyPathAndResult
INVARIANTS
  ReferencesAreCounted
  ResultsAreRight
  HandlesAreKnown
