---------------------------- MODULE KnownDevices ----------------------------
(***************************************************************************)
(* What the device registry promises to the rest of the server, without     *)
(* dictionary, objects or threads: a set of known devices.  A contact makes *)
(* its device known in a single step some time after it arrives, and a      *)
(* removal makes one device unknown.                                        *)
(***************************************************************************)
CONSTANTS Macs, Contacts, None

VARIABLES
  known,   \* the devices the registry lists
  status,  \* how far each contact has come
  about    \* the device of each contact

vars == <<known, status, about>>

Init ==
  /\ known = {}
  /\ status = [c \in Contacts |-> "absent"]
  /\ about = [c \in Contacts |-> None]

Arrive(c) ==
  /\ status[c] = "absent"
  /\ \E m \in Macs : about' = [about EXCEPT ![c] = m]
  /\ \E s \in {"pending", "ignored"} : status' = [status EXCEPT ![c] = s]
  /\ UNCHANGED known

Record(c) ==
  /\ status[c] = "pending"
  /\ known' = known \cup {about[c]}
  /\ status' = [status EXCEPT ![c] = "recorded"]
  /\ UNCHANGED about

Forget(m) ==
  /\ known' = known \ {m}
  /\ UNCHANGED <<status, about>>

Next ==
  \/ \E c \in Contacts : Arrive(c) \/ Record(c)
  \/ \E m \in Macs : Forget(m)

Spec == Init /\ [][Next]_vars

EveryContactIsRecorded ==
  \A c \in Contacts : status[c] = "pending" ~> status[c] = "recorded"
=============================================================================
