SPECIFICATION Spec
CONSTANTS
  u1 = u1 u2 = u2 u3 = u3 u4 = u4 ip1 = ip1 ip2 = ip2
  Users = {u1}
  IPs = {ip1, ip2}
  Devices = {}
  Passwords = {TRUE, FALSE}
  MAXIMUM_FAILED_LOGINS = 2
  FAILED_ATTEMPTS_DURATION = 5
  LOCKOUT_DURATION = 6
  MAXIMUM_ACCOUNTS = 2
  IP_LOCKOUT = 8
  CODE_DURATION = 4
  MaxTime = 9
INVARIANTS
  GuessesBounded
PROPERTIES
  TrustIsEarned
CHECK_DEADLOCK FALSE
