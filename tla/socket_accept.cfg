SPECIFICATION FairSpec
CONSTANTS
  Macs = {m1}
  None = None
  HostConfigured = TRUE
  KeyConfigured = TRUE
  Listeners = {tls}
  TlsListeners = {tls}
  Clients = {c1, c2}
  Requests <- OneLine
  MaxRequests = 0
\* The host goes down and stays down.
CHECK_DEADLOCK FALSE
PROPERTIES
  EveryConnectionIsTaken
