\* redirfs_get_filename of a path whose dentry was renamed out of the
\* root of the bind mount it was registered through.
CONSTANTS
  r1 = r1  x = x  y = y  w = w  r2 = r2  z = z  m1 = m1  m2 = m2  m3 = m3
  Dent <- DentMC
  DParent <- DParentMC
  DLen <- DLenMC
  Mnts <- MntsMC
  MntRoot <- MntRootMC
  MntParent <- MntParentMC
  MntPoint <- MntPointMC
  Pairs <- PairsMoved
  Listings <- ListingsMC
  PageSize = 8
  MaxSize = 20
  AllocFails = TRUE
SPECIFICATION Spec
INVARIANT NameTooLongOnlyWhenShort
