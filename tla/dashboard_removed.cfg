SPECIFICATION DashboardSpec
CONSTANTS
  Macs = {m1}
  Contacts = {x1, x2}
  None = None
  Browsers = {b1}
  Removals = {k1}
  MaxJoins = 1
  MaxDetails = 0
SYMMETRY Symmetry
\* Contacts, removals and connections run out.
CHECK_DEADLOCK FALSE
INVARIANTS
  RemovedDevicesDisappear
