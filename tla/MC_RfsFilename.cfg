\* Every call of redirfs_get_filename on the shown pairs and of
\* rfs_path_get_info on every listing, with buffer sizes 0 .. 20.
CONSTANTS
  r1 = r1  x = x  y = y  w = w  r2 = r2  z = z  m1 = m1  m2 = m2  m3 = m3
  Dent <- DentMC
  DParent <- DParentMC
  DLen <- DLenMC
  Mnts <- MntsMC
  MntRoot <- MntRootMC
  MntParent <- MntParentMC
  MntPoint <- MntPointMC
  Pairs <- PairsShown
  Listings <- ListingsMC
  PageSize = 8
  MaxSize = 20
  AllocFails = TRUE
SPECIFICATION Spec
INVARIANTS FilenameMatchesPath GetInfoWithinBuffer
