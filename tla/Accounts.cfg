SPECIFICATION MCSpec
CONSTANTS
  Slots = {s1, s2}
  s1 = s1
  s2 = s2
  Limits <- MCLimits
  Secrets <- MCSecrets
  Reserved = {"admin"}
  Operator = "operator"
  CodeTTL = 1
  MaxAttempts = 1
  ResendCooldown = 1
  InviteLifetime = 1
  SRPTTL = 1
  MaxContacts = 1
INVARIANTS QuotasHold AdmissionIsWhole
PROPERTIES LoginsAreEarned
CHECK_DEADLOCK FALSE
SYMMETRY Symmetry
