SPECIFICATION FairSpec
CONSTANTS
  Macs = {m1}
  None = None
  HostConfigured = TRUE
  KeyConfigured = TRUE
  Listeners = {tls}
  TlsListeners = {tls}
  Clients = {c1}
  Requests <- EveryOutcome
  MaxRequests = 2
\* The host goes down and stays down.
CHECK_DEADLOCK FALSE
INVARIANTS
  TypeOK
  ContactMeansAnswered
  NoContactIsLost
  NothingReadAfterFarewell
PROPERTIES
  StoppingSessionsEnd
  RepliedIsReported
  StopEndsSessions
