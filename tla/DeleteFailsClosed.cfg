\* A chat message its author clears, and then deletes for everyone.
CONSTANTS
  t1 = t1
  t2 = t2
  Users = {1, 2}
  Creator = 1
  Founders = {1, 2}
  RandomIDs = {}
  Slots = {t1}
  Kinds <- DeleteKinds
  MaxParticipants = 3
  MaxForward = 1
  MaxDelete = 1
  MaxOps = 3
SPECIFICATION Spec
PROPERTIES
  DeleteFailsClosed
CHECK_DEADLOCK FALSE
