\* One token used for forwards to two destinations.
CONSTANTS
  t1 = t1
  t2 = t2
  Users = {1, 2, 3}
  Creator = 1
  Founders = {1, 2}
  RandomIDs = {7}
  Slots = {t1}
  Kinds <- ForwardKinds
  MaxParticipants = 3
  MaxForward = 1
  MaxDelete = 1
  MaxOps = 2
SPECIFICATION Spec
PROPERTIES
  ForwardDedupIsPerDestination
CHECK_DEADLOCK FALSE
