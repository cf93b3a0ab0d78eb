\* lrfs_bypass when lrfs_nodeget fails to map the vnode a lower create returned.
CONSTANTS
  ur = ur  u1 = u1  lr = lr  l1 = l1  x = x
  Uppers = {ur, u1}
  Lowers = {lr, l1}
  LowerOf <- LowerMap
  Root = ur
  Foreign = {x}
  NULLVP = NULLVP
  MaxHeld = 3
  NodegetFailsIn = {"lookup", "bypass"}
SPECIFICATION Spec
INVARIANT RefsAccounted
