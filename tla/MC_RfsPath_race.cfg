\* redirfs_rem_paths racing redirfs_rem_path for the same filter.
CONSTANTS
  t1 = t1  t2 = t2  f1 = f1  f2 = f2
  Threads = {t1, t2}
  Filters = {f1}
  Flt <- FltShared
  Dentries = {d1}
  NoDentry = NoDentry
  Objs = {o1, o2}
  MaxHandles = 2
  AllocFails = FALSE
  StrictClients = TRUE
  RootOf <- RootSelf
SPECIFICATION Spec
SYMMETRY Symmetry
INVARIANT RefCountSound
