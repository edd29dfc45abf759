\* Contacts of two devices racing with each other, with a sweep and with deletions.
SPECIFICATION FairSpec
CONSTANTS
  Macs = {m1, m2}
  Ips = {i1, i2}
  MaxContacts = 2
  Sweeps = {s1}
  Readers = {r1}
  Timeout = 0
  MaxTime = 1
  None = None
INVARIANTS
  TypeOK
  RecordsFiledUnderTheirMac
  NoForeignData
PROPERTIES
  UncontendedContactIsExact
  ContactsNeverReplaceARecord
  ImplementsKnownDevices
  EveryContactIsRecorded
CHECK_DEADLOCK FALSE
