\* Two workers, a lane table of two (there are four keys) and two slots per
\* lane: with three notifications every limit of submit is reached.
CONSTANTS
  w1 = w1
  w2 = w2
  Channels <- MCChannels
  Owners <- MCOwners
  Workers = {w1, w2}
  QueueLimit = 2
  LanePendingLimit = 2
  MaxSubmissions = 3
SPECIFICATION Spec
INVARIANTS
  NoLaneStranded
  QueueBounded
PROPERTIES
  LanesKeepOrder
  WorkEnds
CHECK_DEADLOCK FALSE
