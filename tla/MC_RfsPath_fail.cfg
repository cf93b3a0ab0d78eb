CONSTANTS
  t1 = t1  t2 = t2  f1 = f1  f2 = f2
  Threads = {t1, t2}
  Filters = {f1, f2}
  Flt <- FltDistinct
  Dentries = {d1, d2}
  NoDentry = NoDentry
  Objs = {o1, o2}
  MaxHandles = 2
  AllocFails = TRUE
  StrictClients = TRUE
  RootOf <- RootShared
SPECIFICATION Spec
SYMMETRY SymmetryClients
INVARIANTS TypeOK RegistryWellFormed RefCountSound PathsNrCount
PROPERTIES RemPathsClearsFilter AtomicFailure RefinesPathRegistry
