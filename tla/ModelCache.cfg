SPECIFICATION Spec
CONSTANTS
  r1 = r1
  r2 = r2
  s1 = s1
  s2 = s2
  s3 = s3
  m = m
  Replicas = {r1, r2}
  Slots = {s1, s2, s3}
  Lists = {m}
  MaxInstalls = 1
  None = None
SYMMETRY Symmetry
INVARIANT ForgottenStaysForgotten
