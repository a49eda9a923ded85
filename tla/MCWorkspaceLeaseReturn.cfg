\* One gc pass is enough for the source to return under it.
CONSTANTS
  Sidecars = {s1, s2}
  Collectors = {g1}
  MaxInode = 3
  MaxSource = 2
  Free = Free
SPECIFICATION Spec
INVARIANT SingleOwner
