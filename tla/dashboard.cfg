SPECIFICATION DashboardSpec
CONSTANTS
  Macs = {m1, m2}
  Contacts = {x1, x2}
  None = None
  Browsers = {b1}
  Removals = {k1}
  MaxJoins = 2
  MaxDetails = 2
SYMMETRY Symmetry
\* Contacts, removals and connections run out.
CHECK_DEADLOCK FALSE
INVARIANTS
  DashboardTypeOK
  SettledDashboardAgrees
  DialogShowsKnownDevice
PROPERTIES
  DialogClosesForItsDevice
