\* The source may be deleted, and created again once.
CONSTANTS
  Sidecars = {s1, s2}
  Collectors = {g1, g2}
  MaxInode = 3
  MaxSource = 2
  Free = Free
SYMMETRY Symmetry
SPECIFICATION Spec
INVARIANTS LeaseIsExact SingleOwnerOfSource OwnerHoldsLinkedLock
PROPERTY RemovalSparesOwner
