SPECIFICATION Spec
CONSTANTS
  i1 = i1
  i2 = i2
  i3 = i3
  Utlbs = {u1, u2}
  Addresses = {1, 2}
  Instances = {i1, i2, i3}
  VaSpace <- MCVaSpace
  BlockEnd <- MCBlockEnd
  AccessTypes = {0, 1, 2}
  max_batch_size = 3
SYMMETRY MCSymmetry
INVARIANTS OneRepresentative PagesServed
CHECK_DEADLOCK FALSE
