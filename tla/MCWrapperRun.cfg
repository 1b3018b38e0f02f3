SPECIFICATION Spec
CONSTANTS
  Processes = {1, 2}
  Jobs <- JobKinds
  Ids = {i1, i2}
  User = user
  Root = root
  Uids = {user, root}
  Missing = Missing
  NoPlan = NoPlan
  MaxChanges = 1
SYMMETRY IdSymmetry
INVARIANTS
  DryStaysDry
  RetentionIsSound
PROPERTY FinalGuardsDecide
CHECK_DEADLOCK FALSE
