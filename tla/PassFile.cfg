CONSTANTS
  Config = {c1, c2}
  Password = {p1, p2, p3, p4, p5, p6}
  NoPassword = none
  MaxFaults = 2
SPECIFICATION PassFairSpec
PROPERTIES
  NeverEmpty
  PasswordKept
  ExpiredIsReplaced
  ConfigsAgree
