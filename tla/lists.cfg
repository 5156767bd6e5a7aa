SPECIFICATION ServerSpec
CONSTANTS
  Clients = {c1}
  IPs = {ip1, ip2}
  Lists = {"tecnici", "utenti"}
  Roles = {"tecnico", "utente"}
  Role <- UserOf
  Readers <- Policy
  maximumHops = 3
  tokenDuration = 3
  MaxTime = 16
  Requests = {1, 2, 3}
  Names = {"anna", "Anna", "bruno"}
  Mails = {"a@", "b@"}
  Fold <- LowerCase
  MaxRestarts = 1
INVARIANTS
  TypeOK
  SessionEnds
  ListsPerLogin
  AnswersAreTrue
PROPERTIES
  KnownUsersLogIn
CHECK_DEADLOCK FALSE
