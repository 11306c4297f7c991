SPECIFICATION Spec
CONSTANTS
  s1 = s1
  s2 = s2
  s3 = s3
  s4 = s4
  acc1 = acc1
  acc2 = acc2
  acc3 = acc3
  NoSession = NoSession
  Never = Never
  Session = {s1, s3}
  Account = {acc1, acc2}
  AccountOf <- AccountsOfTwo
  SkipQueue = {}
  Limits = {0, 1}
  InitialLimit = 1
  Tolerance = 1
  ExpireTime = 2
  MaxTime = 1
PROPERTIES
  SessionsGoOn
CHECK_DEADLOCK FALSE
