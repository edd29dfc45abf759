--------------------------- MODULE DeviceRegistry ---------------------------
(***************************************************************************)
(* The in-memory registry of air conditioners: HeadlessDeviceManagerService *)
(* over a ConcurrentDictionary, fed by SocketHandlerBackgroundService.      *)
(*                                                                         *)
(* Every contact of a device is one call of UpdateOrAddAsync that nobody    *)
(* awaits, so any number of them run at once.  ConcurrentDictionary makes   *)
(* the lookup, the conditional add and the conditional update atomic; the   *)
(* two factories run outside its locks, and the update factory writes the   *)
(* shared AcDeviceState object one property at a time.                      *)
(***************************************************************************)
EXTENDS Integers, FiniteSets

CONSTANTS
  Macs,          \* keys of the dictionary, compared ordinally
  Ips,           \* remote addresses of the connections
  MaxContacts,   \* bound: how many contacts arrive
  Sweeps,        \* calls of RemoveStaleDevicesAsync (none in production)
  Readers,       \* calls of GetAsync
  Timeout,       \* DeviceTimeoutMinutes
  MaxTime,       \* bound: the last instant of the clock
  None           \* null

Calls == 1..MaxContacts

(* Definitions that no action uses (TryAddOverwrites, LookupPublishesUnfilled, *)
(* ...) are what a plausible bug would turn the operation after them into.  *)

VARIABLES
  dict,      \* _deviceStates: the object filed under each MAC, or None
  record,    \* the AcDeviceState each call has allocated, or None
  arrived,   \* how many contacts have arrived: call c is the c-th
  pc,        \* where each call of UpdateOrAddAsync stands
  mac, ip,   \* its arguments
  dns,       \* its local dnsName
  held,      \* the object its lookup returned ("existing")
  stamp,     \* the instant it read for LastConnectionTime
  contended, \* history: another call for the MAC was inside AddOrUpdate too
  now,       \* DateTime.UtcNow
  sweep,     \* local state of each RemoveStaleDevicesAsync
  reader     \* local state of each GetAsync

callVars == <<arrived, pc, mac, ip, dns, held, stamp, contended>>
vars == <<dict, record, callVars, now, sweep, reader>>

Time == 0..MaxTime

(* A DNS name as far as it matters: the address it was resolved from.  The  *)
(* resolver answers with a host name or, on any failure, the address text.  *)
NameOf(i) == [of |-> i]

DnsNames == {NameOf(i) : i \in Ips}

AcDeviceState == [mac : Macs, ip : Ips, dns : DnsNames, time : Time]

ASSUME RegistryAssumption ==
  /\ MaxContacts \in Nat
  /\ Timeout \in Nat
  /\ MaxTime \in Nat
  /\ None \notin Macs \cup Ips \cup Calls \cup AcDeviceState

InAddOrUpdate ==
  {"create", "tryAdd", "setIp", "setDns", "readClock", "setTime", "tryUpdate"}

Labels == {"idle", "ignored", "resolving", "lookup", "notify", "done"}
            \cup InAddOrUpdate

ReaderState ==
  [at : {"idle", "ip", "dns", "time", "done"}, mac : Macs \cup {None},
   obj : Calls \cup {None}, ip : Ips \cup {None},
   dns : DnsNames \cup {None}, time : Time \cup {None}]

SweepState ==
  [at : {"idle", "scan", "remove", "done"}, threshold : Int,
   todo : SUBSET Macs, stale : Macs \cup {None}]

IdleReader == [at |-> "idle", mac |-> None, obj |-> None,
               ip |-> None, dns |-> None, time |-> None]

IdleSweep == [at |-> "idle", threshold |-> 0, todo |-> {}, stale |-> None]

TypeOK ==
  /\ dict \in [Macs -> Calls \cup {None}]
  /\ record \in [Calls -> AcDeviceState \cup {None}]
  /\ arrived \in 0..MaxContacts
  /\ pc \in [Calls -> Labels]
  /\ mac \in [Calls -> Macs \cup {None}]
  /\ ip \in [Calls -> Ips \cup {None}]
  /\ dns \in [Calls -> DnsNames \cup {None}]
  /\ held \in [Calls -> Calls \cup {None}]
  /\ stamp \in [Calls -> Time]
  /\ contended \in [Calls -> BOOLEAN]
  /\ now \in Time
  /\ sweep \in [Sweeps -> SweepState]
  /\ reader \in [Readers -> ReaderState]

Init ==
  /\ dict = [m \in Macs |-> None]
  /\ record = [c \in Calls |-> None]
  /\ arrived = 0
  /\ pc = [c \in Calls |-> "idle"]
  /\ mac = [c \in Calls |-> None]
  /\ ip = [c \in Calls |-> None]
  /\ dns = [c \in Calls |-> None]
  /\ held = [c \in Calls |-> None]
  /\ stamp = [c \in Calls |-> 0]
  /\ contended = [c \in Calls |-> FALSE]
  /\ now = 0
  /\ sweep = [s \in Sweeps |-> IdleSweep]
  /\ reader = [r \in Readers |-> IdleReader]

Goto(c, from, to) ==
  /\ pc[c] = from
  /\ pc' = [pc EXCEPT ![c] = to]

-----------------------------------------------------------------------------
(* UpdateOrAddAsync *)

OnDeviceConnectedUnchecked(c, m, i) ==
  /\ c = arrived + 1
  /\ arrived' = c
  /\ Goto(c, "idle", "resolving")
  /\ mac' = [mac EXCEPT ![c] = m]
  /\ ip' = [ip EXCEPT ![c] = i]
  /\ UNCHANGED <<dict, record, dns, held, stamp, contended, now, sweep, reader>>

(* SocketHandlerBackgroundService.OnDeviceConnected starts the call and     *)
(* drops its task.  A connection without an address (None) is ignored.      *)
OnDeviceConnected(c, m, i) ==
  /\ c = arrived + 1
  /\ arrived' = c
  /\ Goto(c, "idle", IF i = None THEN "ignored" ELSE "resolving")
  /\ mac' = [mac EXCEPT ![c] = m]
  /\ ip' = [ip EXCEPT ![c] = i]
  /\ UNCHANGED <<dict, record, dns, held, stamp, contended, now, sweep, reader>>

(* The resolver answers, in any order and after any delay: it never throws, *)
(* its failures return the address itself.                                  *)
ResolveDnsName(c) ==
  /\ Goto(c, "resolving", "lookup")
  /\ dns' = [dns EXCEPT ![c] = NameOf(ip[c])]
  /\ UNCHANGED <<dict, record, arrived, mac, ip, held, stamp, contended,
                 now, sweep, reader>>

Rivals(c) == {d \in Calls \ {c} : mac[d] = mac[c] /\ pc[d] \in InAddOrUpdate}

LookupPublishesUnfilled(c) ==
  /\ Goto(c, "lookup", IF dict[mac[c]] = None THEN "tryAdd" ELSE "setIp")
  /\ held' = [held EXCEPT ![c] = dict[mac[c]]]
  /\ UNCHANGED <<dict, record, arrived, mac, ip, dns, stamp, contended, now,
                 sweep, reader>>

(* AddOrUpdate, first half of its loop: is there an object for the key?     *)
Lookup(c) ==
  /\ Goto(c, "lookup", IF dict[mac[c]] = None THEN "create" ELSE "setIp")
  /\ held' = [held EXCEPT ![c] = dict[mac[c]]]
  /\ contended' = [d \in Calls |->
       \/ contended[d]
       \/ d \in Rivals(c)
       \/ d = c /\ Rivals(c) # {}]
  /\ UNCHANGED <<dict, record, arrived, mac, ip, dns, stamp, now, sweep, reader>>

AddFactoryFromSharedField(c) ==
  /\ Goto(c, "create", "tryAdd")
  /\ record' = [record EXCEPT ![c] =
       [mac |-> mac[c], ip |-> ip[arrived], dns |-> dns[c], time |-> now]]
  /\ UNCHANGED <<dict, arrived, mac, ip, dns, held, stamp, contended, now,
                 sweep, reader>>

(* The add factory: a complete object nobody else can see yet.              *)
AddFactory(c) ==
  /\ Goto(c, "create", "tryAdd")
  /\ record' = [record EXCEPT ![c] =
       [mac |-> mac[c], ip |-> ip[c], dns |-> dns[c], time |-> now]]
  /\ UNCHANGED <<dict, arrived, mac, ip, dns, held, stamp, contended, now,
                 sweep, reader>>

TryAddOverwrites(c) ==
  /\ Goto(c, "tryAdd", "notify")
  /\ dict' = [dict EXCEPT ![mac[c]] = c]
  /\ UNCHANGED <<record, arrived, mac, ip, dns, held, stamp, contended, now,
                 sweep, reader>>

(* Publish the new object unless another call has: then go round the loop.  *)
TryAdd(c) ==
  /\ Goto(c, "tryAdd", IF dict[mac[c]] = None THEN "notify" ELSE "lookup")
  /\ dict' = [dict EXCEPT ![mac[c]] = IF @ = None THEN c ELSE @]
  /\ UNCHANGED <<record, arrived, mac, ip, dns, held, stamp, contended, now,
                 sweep, reader>>

(* The update factory: three property writes on the shared object, the last *)
(* one after a read of the clock.                                           *)
SetIpAddress(c) ==
  /\ Goto(c, "setIp", "setDns")
  /\ record' = [record EXCEPT ![held[c]].ip = ip[c]]
  /\ UNCHANGED <<dict, arrived, mac, ip, dns, held, stamp, contended, now,
                 sweep, reader>>

SetDnsNameForgotten(c) ==
  /\ Goto(c, "setDns", "readClock")
  /\ UNCHANGED <<dict, record, arrived, mac, ip, dns, held, stamp, contended,
                 now, sweep, reader>>

SetDnsName(c) ==
  /\ Goto(c, "setDns", "readClock")
  /\ record' = [record EXCEPT ![held[c]].dns = dns[c]]
  /\ UNCHANGED <<dict, arrived, mac, ip, dns, held, stamp, contended, now,
                 sweep, reader>>

ReadUtcNow(c) ==
  /\ Goto(c, "readClock", "setTime")
  /\ stamp' = [stamp EXCEPT ![c] = now]
  /\ UNCHANGED <<dict, record, arrived, mac, ip, dns, held, contended, now,
                 sweep, reader>>

SetLastConnectionTime(c) ==
  /\ Goto(c, "setTime", "tryUpdate")
  /\ record' = [record EXCEPT ![held[c]].time = stamp[c]]
  /\ UNCHANGED <<dict, arrived, mac, ip, dns, held, stamp, contended, now,
                 sweep, reader>>

TryUpdateNeverRetries(c) ==
  /\ Goto(c, "tryUpdate", "notify")
  /\ UNCHANGED <<dict, record, arrived, mac, ip, dns, held, stamp, contended,
                 now, sweep, reader>>

TryUpdateAlwaysRetries(c) ==
  /\ Goto(c, "tryUpdate", "lookup")
  /\ UNCHANGED <<dict, record, arrived, mac, ip, dns, held, stamp, contended,
                 now, sweep, reader>>

(* The factory returned the object it was given, so the exchange changes    *)
(* nothing; it fails, and the loop goes round, if the object was removed.   *)
TryUpdate(c) ==
  /\ Goto(c, "tryUpdate", IF dict[mac[c]] = held[c] THEN "notify" ELSE "lookup")
  /\ UNCHANGED <<dict, record, arrived, mac, ip, dns, held, stamp, contended,
                 now, sweep, reader>>

(* OnDeviceUpdatedAsync of the base class does nothing.                     *)
OnDeviceUpdated(c) ==
  /\ Goto(c, "notify", "done")
  /\ UNCHANGED <<dict, record, arrived, mac, ip, dns, held, stamp, contended,
                 now, sweep, reader>>

-----------------------------------------------------------------------------
(* RemoveDeviceAsync: one atomic TryRemove, then a hook that does nothing   *)
(* here.  Removing a device that is not filed returns false and is a        *)
(* stuttering step.                                                         *)
RemoveDevice(m) ==
  /\ dict[m] # None
  /\ dict' = [dict EXCEPT ![m] = None]
  /\ UNCHANGED <<record, callVars, now, sweep, reader>>

-----------------------------------------------------------------------------
(* RemoveStaleDevicesAsync *)

SweepStart(s) ==
  /\ sweep[s].at = "idle"
  /\ sweep' = [sweep EXCEPT ![s] = [@ EXCEPT
       !.at = "scan", !.threshold = now - Timeout, !.todo = Macs]]
  /\ UNCHANGED <<dict, record, callVars, now, reader>>

(* The enumerator is no snapshot: each key is seen, or missed, as it is     *)
(* when the enumeration comes to it.                                        *)
IsStale(s, m) == dict[m] # None /\ record[dict[m]].time < sweep[s].threshold

SweepSkip(s, m) ==
  /\ sweep[s].at = "scan"
  /\ m \in sweep[s].todo
  /\ ~IsStale(s, m)
  /\ sweep' = [sweep EXCEPT ![s] = [@ EXCEPT !.todo = sweep[s].todo \ {m}]]
  /\ UNCHANGED <<dict, record, callVars, now, reader>>

SweepCondemn(s, m) ==
  /\ sweep[s].at = "scan"
  /\ m \in sweep[s].todo
  /\ IsStale(s, m)
  /\ sweep' = [sweep EXCEPT ![s] = [@ EXCEPT !.todo = sweep[s].todo \ {m},
                                            !.at = "remove", !.stale = m]]
  /\ UNCHANGED <<dict, record, callVars, now, reader>>

(* TryRemove by key: whatever object is filed under it by now.  The list of *)
(* the removed keys only feeds a hook that does nothing here.               *)
SweepRemove(s) ==
  /\ sweep[s].at = "remove"
  /\ dict' = [dict EXCEPT ![sweep[s].stale] = None]
  /\ sweep' = [sweep EXCEPT ![s] = [@ EXCEPT !.at = "scan", !.stale = None]]
  /\ UNCHANGED <<record, callVars, now, reader>>

SweepEnd(s) ==
  /\ sweep[s].at = "scan"
  /\ sweep[s].todo = {}
  /\ sweep' = [sweep EXCEPT ![s] = [@ EXCEPT !.at = "done"]]
  /\ UNCHANGED <<dict, record, callVars, now, reader>>

-----------------------------------------------------------------------------
(* GetAsync: look the object up, then read its properties one by one.  The  *)
(* MacAddress property is never written after the object is published.      *)

GetFound(r, m) ==
  /\ reader[r].at = "idle"
  /\ dict[m] # None
  /\ reader' = [reader EXCEPT ![r] = [@ EXCEPT
       !.at = "ip", !.obj = dict[m], !.mac = record[dict[m]].mac]]
  /\ UNCHANGED <<dict, record, callVars, now, sweep>>

GetIp(r) ==
  /\ reader[r].at = "ip"
  /\ reader' = [reader EXCEPT ![r] = [@ EXCEPT
       !.at = "dns", !.ip = record[reader[r].obj].ip]]
  /\ UNCHANGED <<dict, record, callVars, now, sweep>>

GetDns(r) ==
  /\ reader[r].at = "dns"
  /\ reader' = [reader EXCEPT ![r] = [@ EXCEPT
       !.at = "time", !.dns = record[reader[r].obj].dns]]
  /\ UNCHANGED <<dict, record, callVars, now, sweep>>

GetTime(r) ==
  /\ reader[r].at = "time"
  /\ reader' = [reader EXCEPT ![r] = [@ EXCEPT
       !.at = "done", !.time = record[reader[r].obj].time]]
  /\ UNCHANGED <<dict, record, callVars, now, sweep>>

Tick ==
  /\ now < MaxTime
  /\ now' = now + 1
  /\ UNCHANGED <<dict, record, callVars, sweep, reader>>

-----------------------------------------------------------------------------
AddOrUpdate(c) ==
  \/ Lookup(c)
  \/ AddFactory(c)
  \/ TryAdd(c)
  \/ SetIpAddress(c)
  \/ SetDnsName(c)
  \/ ReadUtcNow(c)
  \/ SetLastConnectionTime(c)
  \/ TryUpdate(c)

UpdateOrAdd(c) == ResolveDnsName(c) \/ AddOrUpdate(c) \/ OnDeviceUpdated(c)

RemoveStaleDevices(s) ==
  \/ SweepStart(s)
  \/ \E m \in Macs : SweepSkip(s, m) \/ SweepCondemn(s, m)
  \/ SweepRemove(s)
  \/ SweepEnd(s)

Get(r) ==
  \/ \E m \in Macs : GetFound(r, m)
  \/ GetIp(r)
  \/ GetDns(r)
  \/ GetTime(r)

Next ==
  \/ \E c \in Calls, m \in Macs, i \in Ips \cup {None} : OnDeviceConnected(c, m, i)
  \/ \E c \in Calls : UpdateOrAdd(c)
  \/ \E m \in Macs : RemoveDevice(m)
  \/ \E s \in Sweeps : RemoveStaleDevices(s)
  \/ \E r \in Readers : Get(r)
  \/ Tick

Spec == Init /\ [][Next]_vars

(* The thread pool runs every continuation that is ready and the resolver   *)
(* always comes back, so a call that has started keeps taking steps.        *)
(* Nobody has to connect, delete or sweep.                                  *)
Fairness == \A c \in Calls : WF_vars(UpdateOrAdd(c))

FairSpec == Spec /\ Fairness

-----------------------------------------------------------------------------
(* Safety *)

(* An object stays with the device it was created for: it is filed under    *)
(* no key but its own MacAddress, and only after its add factory filled it  *)
(* in (AddOrUpdate at HeadlessDeviceManagerService.cs:27).                  *)
RecordsFiledUnderTheirMac ==
  \A m \in Macs :
    dict[m] # None => record[dict[m]] # None /\ record[dict[m]].mac = m

ReportedIps(m) == {ip[c] : c \in {d \in 1..arrived : mac[d] = m}}

(* However calls interleave their property writes, no address and no name   *)
(* wanders from one device to another: what a record, or a caller of        *)
(* GetAsync half-way through it, holds for a MAC was reported by a contact  *)
(* of that MAC.                                                             *)
NoForeignData ==
  /\ \A m \in Macs : dict[m] # None =>
       /\ record[dict[m]].ip \in ReportedIps(m)
       /\ record[dict[m]].dns.of \in ReportedIps(m)
  /\ \A r \in Readers : reader[r].at = "done" =>
       /\ reader[r].ip \in ReportedIps(reader[r].mac)
       /\ reader[r].dns.of \in ReportedIps(reader[r].mac)

Returns(c) == pc[c] # "notify" /\ pc'[c] = "notify"

(* A contact that had AddOrUpdate for its MAC to itself leaves exactly its  *)
(* own address and name behind, also when the object it first found was     *)
(* removed under its hands and it had to start over.                        *)
UncontendedContactIsExact ==
  [][\A c \in Calls : Returns(c) /\ ~contended[c] =>
       /\ dict'[mac[c]] # None
       /\ record'[dict'[mac[c]]].ip = ip[c]
       /\ record'[dict'[mac[c]]].dns = dns[c]]_vars

(* First contacts that race to add the same device never replace each       *)
(* other's object, which another call or a reader may hold: an object       *)
(* leaves the dictionary by removal only.                                   *)
ContactsNeverReplaceARecord ==
  [][\A m \in Macs : dict[m] # None => dict'[m] \in {dict[m], None}]_vars

-----------------------------------------------------------------------------
(* The inductive invariant behind the safety properties.  It adds to what   *)
(* they say what a call knows at each of its steps, and that an object that *)
(* is in the dictionary, or that another call holds, comes from a call that *)
(* has left AddOrUpdate.                                                    *)

Returned == {"notify", "done"}

Updating == {"setIp", "setDns", "readClock", "setTime", "tryUpdate"}

CallOK(c) ==
  /\ pc[c] # "idle" => c <= arrived /\ mac[c] \in Macs
  /\ pc[c] \notin {"idle", "ignored"} => ip[c] \in Ips
  /\ pc[c] \notin {"idle", "ignored", "resolving"} => dns[c] = NameOf(ip[c])
  /\ pc[c] = "tryAdd" => record[c] # None
  /\ pc[c] \in Updating =>
       /\ held[c] \in Calls
       /\ record[held[c]] # None
       /\ mac[held[c]] = mac[c]
       /\ pc[held[c]] \in Returned

RecordOK(c) ==
  record[c] # None =>
    /\ pc[c] # "idle"
    /\ record[c].mac = mac[c]
    /\ record[c].ip \in ReportedIps(mac[c])
    /\ record[c].dns.of \in ReportedIps(mac[c])

FiledOK(m) ==
  dict[m] # None =>
    /\ record[dict[m]] # None
    /\ mac[dict[m]] = m
    /\ pc[dict[m]] \in Returned

ReaderOK(r) ==
  /\ reader[r].at # "idle" =>
       /\ reader[r].obj \in Calls
       /\ record[reader[r].obj] # None
       /\ reader[r].mac = mac[reader[r].obj]
  /\ reader[r].at \in {"dns", "time", "done"} =>
       reader[r].ip \in ReportedIps(reader[r].mac)
  /\ reader[r].at \in {"time", "done"} =>
       reader[r].dns.of \in ReportedIps(reader[r].mac)

SweepOK(s) == sweep[s].at = "remove" => sweep[s].stale \in Macs

(* Two calls inside AddOrUpdate for one MAC know of each other, and a call  *)
(* that is alone there finds what it has written so far.                    *)
ContentionOK(c) ==
  /\ pc[c] \in InAddOrUpdate =>
       \A d \in Rivals(c) : contended[c]
  /\ pc[c] = "tryAdd" => record[c].ip = ip[c] /\ record[c].dns = dns[c]
  /\ ~contended[c] /\ pc[c] \in Updating \ {"setIp"} =>
       record[held[c]].ip = ip[c]
  /\ ~contended[c] /\ pc[c] \in Updating \ {"setIp", "setDns"} =>
       record[held[c]].dns = dns[c]

IInv ==
  /\ TypeOK
  /\ \A c \in Calls : CallOK(c) /\ RecordOK(c) /\ ContentionOK(c)
  /\ \A m \in Macs : FiledOK(m)
  /\ \A r \in Readers : ReaderOK(r)
  /\ \A s \in Sweeps : SweepOK(s)

-----------------------------------------------------------------------------
(* What the registry promises: see KnownDevices *)

Status ==
  [c \in Calls |->
     CASE pc[c] = "idle" -> "absent"
       [] pc[c] = "ignored" -> "ignored"
       [] pc[c] \in {"notify", "done"} -> "recorded"
       [] OTHER -> "pending"]

Known == {m \in Macs : dict[m] # None}

Abstract == INSTANCE KnownDevices WITH
  Contacts <- Calls, known <- Known, status <- Status, about <- mac

(* Every contact registers its device in one atomic step between its        *)
(* arrival and its return, once, and only removal forgets a device.         *)
ImplementsKnownDevices == Abstract!Spec

(* Every contact with an address is registered in the end: the retry loop   *)
(* of AddOrUpdate does not starve it however devices are removed.           *)
EveryContactIsRecorded == Abstract!EveryContactIsRecorded

-----------------------------------------------------------------------------
(* What the documents and tests say and concurrent contacts break *)

(* "IP Address - Current network address of the device" (Readme.md:524):    *)
(* when no contact is in progress, a listed device shows the address of its *)
(* latest contact.                                                          *)
Quiescent == \A c \in Calls : pc[c] \in {"idle", "ignored", "done"}

LatestContactWins ==
  Quiescent => \A m \in Macs : dict[m] # None =>
    \A c \in Calls :
      /\ mac[c] = m
      /\ pc[c] = "done"
      /\ \A d \in Calls : mac[d] = m /\ pc[d] = "done" => d <= c
      => record[dict[m]].ip = ip[c]

(* "DNS Name - Resolved hostname" (Readme.md:525) of the address next to    *)
(* it: when no contact is in progress, address and name belong together.    *)
NameMatchesAddress ==
  Quiescent => \A m \in Macs :
    dict[m] # None => record[dict[m]].dns = NameOf(record[dict[m]].ip)
=============================================================================
