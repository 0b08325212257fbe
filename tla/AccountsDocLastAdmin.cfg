SPECIFICATION Spec
CONSTANTS
  MaxUsers = 2
  MaxKeys = 1
  MaxDigests = 1
  s1 = s1
  s2 = s2
  Slots = {s1, s2}
  None = None
  Emails <- MCEmails
  Lower <- MCLower
  Changes <- MCChanges
SYMMETRY Symmetry
CHECK_DEADLOCK FALSE
INVARIANT LastAdminPreserved
