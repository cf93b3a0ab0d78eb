\* Two lockers and a reclaimer on one lrfs vnode: the stacked lock behaves
\* as one shared/exclusive lock across lrfs_reclaim, lvp stays held while
\* used, and every call returns under FairSpec.
CONSTANTS
  Lockers = {l1, l2}
  Reclaimer = r
  NoThread = NoThread
SPECIFICATION FairSpec
INVARIANT LowerHeldWhileUsed
PROPERTIES RefinesVnodeLock CallsReturn
