\* Two users, one token: sends, resends and forwards of it to either user or to
\* the chat, edits, and deletes of up to two messages.
CONSTANTS
  t1 = t1
  t2 = t2
  Users = {1, 2}
  Creator = 1
  Founders = {1, 2}
  RandomIDs = {7}
  Slots = {t1, t2}
  Kinds <- DirectKinds
  MaxParticipants = 3
  MaxForward = 1
  MaxDelete = 2
  MaxOps = 3
SPECIFICATION Spec
SYMMETRY SlotSymmetry
INVARIANTS
  OneRowPerRandomID
  MirrorsAgree
  LogTellsRows
PROPERTIES
  ResendKeepsPts
CHECK_DEADLOCK FALSE
