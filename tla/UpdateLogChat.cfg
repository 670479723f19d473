\* A chat of two that a third user may join: two transactions at a time, three
\* in all, so that an edit or a delete of a sent message races a removal.
CONSTANTS
  t1 = t1
  t2 = t2
  Users = {1, 2, 3}
  Creator = 1
  Founders = {1, 2}
  RandomIDs = {7}
  Slots = {t1, t2}
  Kinds <- ChatKinds
  MaxParticipants = 3
  MaxForward = 1
  MaxDelete = 1
  MaxOps = 3
SPECIFICATION Spec
INVARIANTS
  CopiesAgree
PROPERTIES
  NonMembersAreFrozen
  WritesHoldOwnerLock
  TransactionsEnd
CHECK_DEADLOCK FALSE
