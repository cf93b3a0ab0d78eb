\* rfs_path_get_id after a removal: three dentries, one thread.
CONSTANTS
  t1 = t1  t2 = t2  f1 = f1  f2 = f2
  Threads = {t1}
  Filters = {f1}
  Flt <- FltOne
  Dentries = {d1, d2, d3}
  NoDentry = NoDentry
  Objs = {o1, o2, o3}
  MaxHandles = 1
  AllocFails = FALSE
  StrictClients = TRUE
  RootOf <- RootSelf
SPECIFICATION Spec
SYMMETRY Symmetry
INVARIANT IdsUnique
