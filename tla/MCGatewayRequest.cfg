SPECIFICATION Spec
CONSTANTS
  r1 = r1
  r2 = r2
  ann = ann
  bob = bob
  base = base
  mail = mail
  wiki = wiki
  mine = mine
  twin = twin
  Requests = {r1, r2}
  Users = {ann, bob}
  Shared = {base}
  Delegated = {mail, wiki}
  Custom = {mine, twin}
  UserOf <- MCUserOf
  OwnerOf <- MCOwnerOf
  ToolsOf <- MCToolsOf
  Calls = {c1}
  Allowed <- MCAllowed
  Denied = {"wiki.read"}
  Granted <- MCGranted
  Under <- MCUnder
  Contract = {"mail.send"}
INVARIANTS
  ConnectionsAreClosed
  RoutesArePrivate
  OnlyCheckedCallsReach
  AuditTellsTheTruth
CHECK_DEADLOCK FALSE
