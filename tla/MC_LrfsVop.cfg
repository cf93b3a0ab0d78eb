\* lrfs vnode operations over two upper vnodes and a foreign vnode.
CONSTANTS
  ur = ur  u1 = u1  lr = lr  l1 = l1  x = x
  Uppers = {ur, u1}
  Lowers = {lr, l1}
  LowerOf <- LowerMap
  Root = ur
  Foreign = {x}
  NULLVP = NULLVP
  MaxHeld = 4
  NodegetFailsIn = {"lookup", "vptocnp"}
SPECIFICATION Spec
INVARIANTS RefsAccounted MapsReturnedVnode ReadOnlyLowerUnchanged
