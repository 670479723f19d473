SPECIFICATION Spec
CONSTANTS
  Users <- MCUsers
  Channels <- MCChannels
  MinChannelID = 100
  Invites = {"i1", "i2"}
  Handles = {"h1", "h2", "h3"}
  IdBits = 3
  None = None
  Slots = {s1, s2, s3}
  RandomIDs = {0, 7, 8}
  DiffLimit = 1
  ChangeLimit = 2
  InviteTargets = 2
  Mixes <- MCMixes
CHECK_DEADLOCK FALSE
SYMMETRY SlotSymmetry
INVARIANTS
  CapsHold
  UnreadAgrees
  NamesAgree
  OnlyNamesDeadlock
PROPERTIES
  AdminsActInOffice
  PostsAreOrderly
  ViewsAreSeparate
  ReadersMissNothing
