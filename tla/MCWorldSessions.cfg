SPECIFICATION Spec
CONSTANTS
  s1 = s1
  s2 = s2
  s3 = s3
  s4 = s4
  acc1 = acc1
  acc2 = acc2
  acc3 = acc3
  NoSession = NoSession
  Never = Never
  Session = {s1, s2, s3, s4}
  Account = {acc1, acc2, acc3}
  AccountOf <- AccountsOfAll
  SkipQueue = {acc3}
  Limits = {1}
  InitialLimit = 1
  Tolerance = 0
  ExpireTime = 2
  MaxTime = 0
INVARIANTS
  PointersAreLive
  LimitHolds
PROPERTIES
  AdmittedInOrder
CHECK_DEADLOCK FALSE
SYMMETRY Symmetry
