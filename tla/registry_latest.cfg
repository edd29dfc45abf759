\* The address a quiet registry shows for a device, after two contacts.
SPECIFICATION Spec
CONSTANTS
  Macs = {m1}
  Ips = {i1, i2}
  MaxContacts = 2
  Sweeps = {}
  Readers = {}
  Timeout = 1
  MaxTime = 0
  None = None
INVARIANTS
  LatestContactWins
CHECK_DEADLOCK FALSE
