\* Joining, leaving, blocking and restricting: the chat is full at two members.
CONSTANTS
  t1 = t1
  t2 = t2
  Users = {1, 2, 3}
  Creator = 1
  Founders = {1, 2}
  RandomIDs = {}
  Slots = {t1, t2}
  Kinds <- AdmissionKinds
  MaxParticipants = 2
  MaxForward = 1
  MaxDelete = 1
  MaxOps = 3
SPECIFICATION Spec
SYMMETRY SlotSymmetry
PROPERTIES
  ChatSendsAreAuthorised
  AddsAreAuthorised
CHECK_DEADLOCK FALSE
