\* redirfs_get_paths_root on a root shared by two bind-mounted paths, each
\* registered by a different filter.
CONSTANTS
  t1 = t1  t2 = t2  f1 = f1  f2 = f2
  Threads = {t1, t2}
  Filters = {f1, f2}
  Flt <- FltDistinct
  Dentries = {d1, d2}
  NoDentry = NoDentry
  Objs = {o1, o2}
  MaxHandles = 1
  AllocFails = FALSE
  StrictClients = TRUE
  RootOf <- RootShared
SPECIFICATION Spec
SYMMETRY Symmetry
PROPERTY RootPathsCiteFilter
