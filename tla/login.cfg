SPECIFICATION Spec
CONSTANTS
  u1 = u1 u2 = u2 u3 = u3 u4 = u4 ip1 = ip1 ip2 = ip2
  Users = {u1, u2, u3, u4}
  IPs = {ip1}
  Devices = {}
  Passwords = {FALSE}
  MAXIMUM_FAILED_LOGINS = 1
  FAILED_ATTEMPTS_DURATION = 2
  LOCKOUT_DURATION = 6
  MAXIMUM_ACCOUNTS = 2
  IP_LOCKOUT = 8
  CODE_DURATION = 2
  MaxTime = 16
SYMMETRY Symmetry
INVARIANTS
  TypeOK
  
CHECK_DEADLOCK FALSE
