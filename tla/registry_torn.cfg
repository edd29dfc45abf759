\* The name next to the address a quiet registry shows for a device, after three contacts.
SPECIFICATION Spec
CONSTANTS
  Macs = {m1}
  Ips = {i1, i2}
  MaxContacts = 3
  Sweeps = {}
  Readers = {}
  Timeout = 1
  MaxTime = 0
  None = None
INVARIANTS
  NameMatchesAddress
CHECK_DEADLOCK FALSE
