------------------------ MODULE DeviceRegistry_proofs ------------------------
(***************************************************************************)
(* Proofs about DeviceRegistry, for any number of contacts, devices, sweeps *)
(* and readers.  The argument is one inductive invariant, IInv: one lemma   *)
(* per action shows that the action preserves it, and every safety theorem  *)
(* follows from it.                                                         *)
(***************************************************************************)
EXTENDS DeviceRegistry, TLAPS

-----------------------------------------------------------------------------
(* Type correctness.  TypeOK is preserved by each step that starts in IInv: *)
(* a call writes only what its earlier steps have fetched.                  *)

LEMMA InitTypeOK == Init => TypeOK
<1> SUFFICES ASSUME Init PROVE TypeOK
  OBVIOUS
<1> USE RegistryAssumption DEF Init
<1>1. 0 \in Time /\ 0 \in 0..MaxContacts
  BY DEF Time
<1>2. IdleSweep \in SweepState
  BY DEF IdleSweep, SweepState
<1>3. IdleReader \in ReaderState
  BY DEF IdleReader, ReaderState
<1> QED
  BY <1>1, <1>2, <1>3 DEF TypeOK, Labels

LEMMA ContactTypeOK ==
  ASSUME TypeOK, NEW c \in Calls, NEW m \in Macs, NEW i \in Ips \cup {None},
         OnDeviceConnected(c, m, i)
  PROVE  TypeOK'
BY RegistryAssumption
   DEF TypeOK, OnDeviceConnected, Goto, Labels, Calls

LEMMA CallTypeOK ==
  ASSUME TypeOK, NEW c \in Calls, CallOK(c), UpdateOrAdd(c)
  PROVE  TypeOK'
<1> USE DEF TypeOK, CallOK, Goto, Labels, InAddOrUpdate, Updating
<1>1. CASE ResolveDnsName(c)
  BY <1>1 DEF ResolveDnsName, DnsNames
<1>2. CASE Lookup(c)
  BY <1>2 DEF Lookup
<1>3. CASE AddFactory(c)
  BY <1>3 DEF AddFactory, AcDeviceState, DnsNames
<1>4. CASE TryAdd(c)
  BY <1>4 DEF TryAdd
<1>5. CASE SetIpAddress(c)
  BY <1>5 DEF SetIpAddress, AcDeviceState
<1>6. CASE SetDnsName(c)
  BY <1>6 DEF SetDnsName, AcDeviceState, DnsNames
<1>7. CASE ReadUtcNow(c)
  BY <1>7 DEF ReadUtcNow
<1>8. CASE SetLastConnectionTime(c)
  BY <1>8 DEF SetLastConnectionTime, AcDeviceState
<1>9. CASE TryUpdate(c)
  BY <1>9 DEF TryUpdate
<1>10. CASE OnDeviceUpdated(c)
  BY <1>10 DEF OnDeviceUpdated
<1> QED
  BY <1>1, <1>2, <1>3, <1>4, <1>5, <1>6, <1>7, <1>8, <1>9, <1>10
  DEF UpdateOrAdd, AddOrUpdate

LEMMA SweepTypeOK ==
  ASSUME TypeOK, NEW s \in Sweeps, SweepOK(s), RemoveStaleDevices(s)
  PROVE  TypeOK'
<1> USE DEF TypeOK, callVars
<1>1. sweep[s] \in SweepState
  OBVIOUS
<1>2. CASE SweepStart(s)
  <2>1. sweep'[s] = [sweep[s] EXCEPT !.at = "scan",
                       !.threshold = now - Timeout, !.todo = Macs]
    BY <1>2 DEF SweepStart
  <2>2. now - Timeout \in Int
    BY RegistryAssumption DEF Time
  <2>3. sweep'[s] \in SweepState
    BY <1>1, <2>1, <2>2 DEF SweepState
  <2> QED
    BY <1>2, <2>3 DEF SweepStart
<1>3. ASSUME NEW m \in Macs, SweepSkip(s, m)
      PROVE  TypeOK'
  <2> DEFINE rest == sweep[s].todo \ {m}
  <2>1. sweep'[s] = [sweep[s] EXCEPT !.todo = rest]
    BY <1>3 DEF SweepSkip
  <2>2. rest \in SUBSET Macs
    BY <1>1 DEF SweepState
  <2>3. sweep'[s] \in SweepState
    <3> HIDE DEF rest
    <3> QED
      BY <1>1, <2>1, <2>2 DEF SweepState
  <2> QED
    BY <1>3, <2>3 DEF SweepSkip
<1>6. ASSUME NEW m \in Macs, SweepCondemn(s, m)
      PROVE  TypeOK'
  <2> DEFINE rest == sweep[s].todo \ {m}
  <2>1. sweep'[s] = [sweep[s] EXCEPT !.todo = rest, !.at = "remove",
                                     !.stale = m]
    BY <1>6 DEF SweepCondemn
  <2>2. rest \in SUBSET Macs
    BY <1>1 DEF SweepState
  <2>3. sweep'[s] \in SweepState
    <3> HIDE DEF rest
    <3> QED
      BY <1>1, <2>1, <2>2 DEF SweepState
  <2> QED
    BY <1>6, <2>3 DEF SweepCondemn
<1>4. CASE SweepRemove(s)
  <2>1. sweep'[s] \in SweepState
    BY <1>1, <1>4 DEF SweepRemove, SweepState
  <2>2. dict' \in [Macs -> Calls \cup {None}]
    BY <1>4 DEF SweepRemove
  <2> QED
    BY <1>4, <2>1, <2>2 DEF SweepRemove
<1>5. CASE SweepEnd(s)
  <2>1. sweep'[s] \in SweepState
    BY <1>1, <1>5 DEF SweepEnd, SweepState
  <2> QED
    BY <1>5, <2>1 DEF SweepEnd
<1> QED
  BY <1>2, <1>3, <1>4, <1>5, <1>6 DEF RemoveStaleDevices

LEMMA GetTypeOK ==
  ASSUME TypeOK, \A m \in Macs : FiledOK(m),
         NEW r \in Readers, ReaderOK(r), Get(r)
  PROVE  TypeOK'
<1> USE DEF TypeOK, callVars
<1>1. reader[r] \in ReaderState
  OBVIOUS
<1>2. ASSUME NEW m \in Macs, GetFound(r, m)
      PROVE  TypeOK'
  <2>1. dict[m] \in Calls /\ record[dict[m]] \in AcDeviceState
    BY <1>2 DEF GetFound, FiledOK
  <2>2. reader'[r] \in ReaderState
    BY <1>1, <1>2, <2>1 DEF GetFound, ReaderState, AcDeviceState
  <2> QED
    BY <1>2, <2>2 DEF GetFound
<1>3. reader[r].at # "idle" => record[reader[r].obj] \in AcDeviceState
  BY DEF ReaderOK
<1>4. CASE GetIp(r)
  <2>1. reader'[r] \in ReaderState
    BY <1>1, <1>3, <1>4 DEF GetIp, ReaderState, AcDeviceState
  <2> QED
    BY <1>4, <2>1 DEF GetIp
<1>5. CASE GetDns(r)
  <2>1. reader'[r] \in ReaderState
    BY <1>1, <1>3, <1>5 DEF GetDns, ReaderState, AcDeviceState
  <2> QED
    BY <1>5, <2>1 DEF GetDns
<1>6. CASE GetTime(r)
  <2>1. reader'[r] \in ReaderState
    BY <1>1, <1>3, <1>6 DEF GetTime, ReaderState, AcDeviceState
  <2> QED
    BY <1>6, <2>1 DEF GetTime
<1> QED
  BY <1>2, <1>4, <1>5, <1>6 DEF Get

-----------------------------------------------------------------------------
(* The inductive invariant.  What has been reported for a MAC is never      *)
(* unreported: the steps of a call leave it as it is, an arrival adds to it. *)

LEMMA SameReports ==
  ASSUME UNCHANGED <<arrived, mac, ip>>
  PROVE  \A m : ReportedIps(m)' = ReportedIps(m)
BY DEF ReportedIps

LEMMA ReportsGrow ==
  ASSUME TypeOK, NEW c \in Calls, NEW m \in Macs, NEW i \in Ips \cup {None},
         OnDeviceConnected(c, m, i)
  PROVE  \A n : ReportedIps(n) \subseteq ReportedIps(n)'
<1>1. /\ arrived \in Nat /\ arrived' = arrived + 1 /\ c = arrived + 1
      /\ \A d \in 1..arrived : d \in 1..arrived' /\ mac'[d] = mac[d] /\ ip'[d] = ip[d]
  BY RegistryAssumption DEF OnDeviceConnected, TypeOK, Calls
<1> QED
  BY <1>1 DEF ReportedIps

LEMMA InitIInv == Init => IInv
<1> SUFFICES ASSUME Init PROVE IInv
  OBVIOUS
<1>1. TypeOK
  BY InitTypeOK
<1>2. ASSUME NEW c \in Calls
      PROVE  CallOK(c) /\ RecordOK(c) /\ ContentionOK(c)
  BY DEF Init, CallOK, RecordOK, ContentionOK, Updating, InAddOrUpdate
<1>3. /\ \A m \in Macs : FiledOK(m)
      /\ \A r \in Readers : ReaderOK(r)
      /\ \A s \in Sweeps : SweepOK(s)
  BY DEF Init, FiledOK, ReaderOK, SweepOK, IdleReader, IdleSweep
<1> QED
  BY <1>1, <1>2, <1>3 DEF IInv

(* Steps that touch neither calls nor records and at most forget devices.   *)
LEMMA ForgettingIInv ==
  ASSUME IInv, TypeOK', UNCHANGED <<record, callVars, reader>>,
         \A m \in Macs : dict'[m] \in {dict[m], None},
         \A s \in Sweeps : SweepOK(s)'
  PROVE  IInv'
<1>1. \A m : ReportedIps(m)' = ReportedIps(m)
  BY SameReports DEF callVars
<1>2. ASSUME NEW c \in Calls
      PROVE  CallOK(c)' /\ RecordOK(c)' /\ ContentionOK(c)'
  BY <1>1 DEF IInv, CallOK, RecordOK, ContentionOK, Rivals, callVars
<1>3. ASSUME NEW m \in Macs
      PROVE  FiledOK(m)'
  BY DEF IInv, FiledOK, callVars
<1>4. ASSUME NEW r \in Readers
      PROVE  ReaderOK(r)'
  BY <1>1 DEF IInv, ReaderOK, callVars
<1> QED
  BY <1>2, <1>3, <1>4 DEF IInv

LEMMA RemoveIInv ==
  ASSUME IInv, NEW m \in Macs, RemoveDevice(m)
  PROVE  IInv'
<1>1. dict' \in [Macs -> Calls \cup {None}] /\ TypeOK
  BY DEF IInv, TypeOK, RemoveDevice
<1>2. TypeOK'
  BY <1>1 DEF TypeOK, RemoveDevice, callVars
<1>3. \A n \in Macs : dict'[n] \in {dict[n], None}
  BY <1>1 DEF TypeOK, RemoveDevice
<1>4. \A s \in Sweeps : SweepOK(s)'
  BY DEF IInv, SweepOK, RemoveDevice
<1> QED
  BY <1>2, <1>3, <1>4, ForgettingIInv DEF RemoveDevice

LEMMA SweepIInv ==
  ASSUME IInv, NEW s \in Sweeps, RemoveStaleDevices(s)
  PROVE  IInv'
<1>1. TypeOK /\ TypeOK' /\ SweepOK(s)
  BY SweepTypeOK DEF IInv
<1> USE DEF SweepStart, SweepSkip, SweepCondemn, SweepRemove, SweepEnd
<1>2. UNCHANGED <<record, callVars, reader>>
  BY DEF RemoveStaleDevices
<1>3. \A m \in Macs : dict'[m] \in {dict[m], None}
  BY <1>1 DEF RemoveStaleDevices, TypeOK
<1>4. SweepOK(s)'
  <2>1. sweep[s] \in SweepState /\ sweep \in [Sweeps -> SweepState]
    BY <1>1 DEF TypeOK
  <2>2. ASSUME NEW m \in Macs, SweepCondemn(s, m)
        PROVE  SweepOK(s)'
    <3>1. sweep'[s].stale = m
      BY <2>1, <2>2 DEF SweepState
    <3> QED
      BY <3>1 DEF SweepOK
  <2>3. ASSUME NEW m \in Macs, SweepSkip(s, m)
        PROVE  SweepOK(s)'
    BY <2>1, <2>3 DEF SweepOK, SweepState
  <2>4. CASE SweepStart(s)
    <3>1. sweep'[s].at = "scan"
      BY <2>1, <2>4 DEF SweepState
    <3> QED
      BY <3>1 DEF SweepOK
  <2>5. CASE SweepRemove(s)
    <3>1. sweep'[s].at = "scan"
      BY <2>1, <2>5 DEF SweepState
    <3> QED
      BY <3>1 DEF SweepOK
  <2>6. CASE SweepEnd(s)
    BY <2>1, <2>6 DEF SweepOK, SweepState
  <2> QED
    BY <2>2, <2>3, <2>4, <2>5, <2>6 DEF RemoveStaleDevices
<1>5. ASSUME NEW t \in Sweeps
      PROVE  SweepOK(t)'
  <2>1. CASE t = s
    BY <2>1, <1>4
  <2>2. CASE t # s
    <3>1. sweep'[t] = sweep[t]
      BY <2>2, <1>1 DEF RemoveStaleDevices, TypeOK
    <3> QED
      BY <3>1 DEF IInv, SweepOK
  <2> QED
    BY <2>1, <2>2
<1> QED
  BY <1>1, <1>2, <1>3, <1>5, ForgettingIInv

LEMMA TickIInv ==
  ASSUME IInv, Tick
  PROVE  IInv'
<1>1. TypeOK'
  BY RegistryAssumption DEF IInv, TypeOK, Tick, Time, callVars
<1>2. \A s \in Sweeps : SweepOK(s)'
  BY DEF IInv, SweepOK, Tick
<1> QED
  BY <1>1, <1>2, ForgettingIInv DEF Tick

LEMMA StutterIInv ==
  ASSUME IInv, UNCHANGED vars
  PROVE  IInv'
<1>1. TypeOK'
  BY DEF IInv, TypeOK, vars, callVars
<1>2. \A s \in Sweeps : SweepOK(s)'
  BY DEF IInv, SweepOK, vars
<1> QED
  BY <1>1, <1>2, ForgettingIInv DEF vars

LEMMA GetIInv ==
  ASSUME IInv, NEW r \in Readers, Get(r)
  PROVE  IInv'
<1>1. TypeOK /\ TypeOK'
  BY GetTypeOK DEF IInv
<1> USE DEF GetFound, GetIp, GetDns, GetTime
<1>2. UNCHANGED <<dict, record, callVars, sweep>>
  BY DEF Get
<1>3. \A m : ReportedIps(m)' = ReportedIps(m)
  BY <1>2, SameReports DEF callVars
<1>4. ASSUME NEW c \in Calls
      PROVE  CallOK(c)' /\ RecordOK(c)' /\ ContentionOK(c)'
  BY <1>2, <1>3 DEF IInv, CallOK, RecordOK, ContentionOK, Rivals, callVars
<1>5. /\ \A m \in Macs : FiledOK(m)'
      /\ \A s \in Sweeps : SweepOK(s)'
  BY <1>2 DEF IInv, FiledOK, SweepOK, callVars
<1>6. ReaderOK(r)'
  <2>1. reader[r] \in ReaderState /\ reader \in [Readers -> ReaderState]
    BY <1>1 DEF TypeOK
  <2>2. ReaderOK(r) /\ \A c \in Calls : RecordOK(c)
    BY DEF IInv
  <2>3. CASE \E m \in Macs : GetFound(r, m)
    <3>1. PICK m \in Macs : GetFound(r, m)
      BY <2>3
    <3>2. dict[m] \in Calls /\ record[dict[m]] # None /\ mac[dict[m]] = m
      BY <3>1, <1>1 DEF IInv, FiledOK, TypeOK
    <3>3. /\ reader'[r].at = "ip"
          /\ reader'[r].obj = dict[m]
          /\ reader'[r].mac = record[dict[m]].mac
      BY <3>1, <2>1 DEF ReaderState
    <3> QED
      BY <3>2, <3>3, <2>2, <1>2 DEF ReaderOK, RecordOK, callVars
  <2>4. CASE GetIp(r)
    BY <2>4, <2>1, <2>2, <1>2, <1>3 DEF ReaderOK, RecordOK, ReaderState, callVars
  <2>5. CASE GetDns(r)
    BY <2>5, <2>1, <2>2, <1>2, <1>3 DEF ReaderOK, RecordOK, ReaderState, callVars
  <2>6. CASE GetTime(r)
    BY <2>6, <2>1, <2>2, <1>2, <1>3 DEF ReaderOK, RecordOK, ReaderState, callVars
  <2> QED
    BY <2>3, <2>4, <2>5, <2>6 DEF Get
<1>7. ASSUME NEW q \in Readers
      PROVE  ReaderOK(q)'
  <2>1. CASE q = r
    BY <2>1, <1>6
  <2>2. CASE q # r
    <3>1. reader'[q] = reader[q]
      BY <2>2, <1>1 DEF Get, TypeOK
    <3> QED
      BY <3>1, <1>2, <1>3 DEF IInv, ReaderOK, callVars
  <2> QED
    BY <2>1, <2>2
<1> QED
  BY <1>1, <1>4, <1>5, <1>7 DEF IInv

(* An arrival.  The call it starts held nothing, so no object changes hands. *)
LEMMA ContactIInv ==
  ASSUME IInv, NEW c \in Calls, NEW m \in Macs, NEW i \in Ips \cup {None},
         OnDeviceConnected(c, m, i)
  PROVE  IInv'
<1>1. TypeOK /\ TypeOK'
  BY ContactTypeOK DEF IInv
<1>2. \A n : ReportedIps(n) \subseteq ReportedIps(n)'
  BY <1>1, ReportsGrow
<1>3. /\ pc[c] = "idle" /\ arrived' = c /\ c > arrived
      /\ arrived \in Nat /\ c \in Nat
      /\ pc'[c] \in {"ignored", "resolving"} /\ mac'[c] = m /\ ip'[c] = i
      /\ pc'[c] = "resolving" => i \in Ips
  BY <1>1, RegistryAssumption DEF OnDeviceConnected, Goto, TypeOK, Calls
<1>4. \A d \in Calls \ {c} : pc'[d] = pc[d] /\ mac'[d] = mac[d] /\ ip'[d] = ip[d]
  BY <1>1 DEF OnDeviceConnected, Goto, TypeOK
<1>5. UNCHANGED <<dict, record, dns, held, stamp, contended, now, sweep, reader>>
  BY DEF OnDeviceConnected
<1>6. record[c] = None
  BY <1>3 DEF IInv, RecordOK
<1>7. ASSUME NEW d \in Calls
      PROVE  CallOK(d)' /\ RecordOK(d)'
  <2>1. CASE d = c
    BY <2>1, <1>3, <1>5, <1>6 DEF CallOK, RecordOK, Updating
  <2>2. CASE d # c
    <3>1. d \in Nat /\ CallOK(d) /\ RecordOK(d)
      BY DEF IInv, Calls
    <3>2. CallOK(d)'
      <4>1. pc'[d] # "idle" => d <= arrived' /\ mac'[d] \in Macs
        BY <3>1, <2>2, <1>3, <1>4 DEF CallOK
      <4>2. pc[d] \in Updating => held[d] \in Calls \ {c}
        BY <3>1, <1>6 DEF CallOK
      <4> QED
        BY <4>1, <4>2, <3>1, <2>2, <1>4, <1>5 DEF CallOK
    <3>3. RecordOK(d)'
      BY <3>1, <2>2, <1>2, <1>4, <1>5 DEF RecordOK
    <3> QED
      BY <3>2, <3>3
  <2> QED
    BY <2>1, <2>2
<1>8. ASSUME NEW d \in Calls
      PROVE  ContentionOK(d)'
  <2>1. CASE d = c
    BY <2>1, <1>3 DEF ContentionOK, Updating, InAddOrUpdate
  <2>2. CASE d # c
    <3>1. Rivals(d)' \subseteq Rivals(d)
      BY <2>2, <1>3, <1>4 DEF Rivals, InAddOrUpdate
    <3> QED
      BY <3>1, <2>2, <1>4, <1>5 DEF IInv, ContentionOK
  <2> QED
    BY <2>1, <2>2
<1>9. ASSUME NEW n \in Macs
      PROVE  FiledOK(n)'
  <2>1. dict[n] # None => dict[n] # c /\ dict[n] \in Calls
    BY <1>1, <1>6 DEF IInv, FiledOK, TypeOK
  <2> QED
    BY <2>1, <1>4, <1>5 DEF IInv, FiledOK
<1>10. ASSUME NEW r \in Readers
       PROVE  ReaderOK(r)'
  <2>1. reader[r].at # "idle" => reader[r].obj # c /\ reader[r].obj \in Calls
    BY <1>6 DEF IInv, ReaderOK
  <2> QED
    BY <2>1, <1>2, <1>4, <1>5 DEF IInv, ReaderOK
<1>11. \A s \in Sweeps : SweepOK(s)'
  BY <1>5 DEF IInv, SweepOK
<1> QED
  BY <1>1, <1>7, <1>8, <1>9, <1>10, <1>11 DEF IInv

(* What every step of UpdateOrAddAsync leaves alone once the call exists.   *)
LEMMA CallFrame ==
  ASSUME IInv, NEW c \in Calls, UpdateOrAdd(c)
  PROVE  /\ TypeOK /\ TypeOK'
         /\ UNCHANGED <<arrived, mac, ip, now, sweep, reader>>
         /\ pc[c] \notin {"idle", "ignored", "done"}
         /\ pc'[c] \notin {"idle", "ignored", "resolving"}
         /\ \A d \in Calls \ {c} : pc'[d] = pc[d]
         /\ \A m : ReportedIps(m)' = ReportedIps(m)
         /\ \A s \in Sweeps : SweepOK(s)'
<1> USE DEF UpdateOrAdd, AddOrUpdate, ResolveDnsName, Lookup, AddFactory, TryAdd,
            SetIpAddress, SetDnsName, ReadUtcNow, SetLastConnectionTime,
            TryUpdate, OnDeviceUpdated, Goto
<1>1. TypeOK /\ TypeOK'
  BY CallTypeOK DEF IInv
<1>2. UNCHANGED <<arrived, mac, ip, now, sweep, reader>>
  OBVIOUS
<1>3. /\ pc[c] \notin {"idle", "ignored", "done"}
      /\ pc'[c] \notin {"idle", "ignored", "resolving"}
      /\ \A d \in Calls \ {c} : pc'[d] = pc[d]
  BY <1>1 DEF TypeOK
<1>4. \A m : ReportedIps(m)' = ReportedIps(m)
  BY <1>2, SameReports
<1>5. \A s \in Sweeps : SweepOK(s)'
  BY <1>2 DEF IInv, SweepOK
<1> QED
  BY <1>1, <1>2, <1>3, <1>4, <1>5

(* A step that loses no object keeps what readers hold.                     *)
LEMMA ReadersKeep ==
  ASSUME IInv, UNCHANGED <<mac, reader>>,
         \A m : ReportedIps(m)' = ReportedIps(m),
         \A d \in Calls : record[d] # None => record'[d] # None
  PROVE  \A r \in Readers : ReaderOK(r)'
BY DEF IInv, ReaderOK

(* Steps that write no object and no dictionary entry: the answer of the    *)
(* resolver, the clock, the exchange that changes nothing, the return.      *)
LEMMA LocalIInv ==
  ASSUME IInv, NEW c \in Calls,
         ResolveDnsName(c) \/ ReadUtcNow(c) \/ TryUpdate(c) \/ OnDeviceUpdated(c)
  PROVE  IInv'
<1> USE DEF ResolveDnsName, ReadUtcNow, TryUpdate, OnDeviceUpdated, Goto
<1>1. UpdateOrAdd(c)
  BY DEF UpdateOrAdd, AddOrUpdate
<1>2. /\ TypeOK /\ TypeOK'
      /\ UNCHANGED <<arrived, mac, ip, now, sweep, reader>>
      /\ \A d \in Calls \ {c} : pc'[d] = pc[d]
      /\ \A m : ReportedIps(m)' = ReportedIps(m)
      /\ \A s \in Sweeps : SweepOK(s)'
  BY <1>1, CallFrame
<1>3. UNCHANGED <<dict, record, held, contended>>
  OBVIOUS
<1>4. /\ pc'[c] \in Returned \/ pc[c] \notin Returned
      /\ pc'[c] # "tryAdd"
      /\ pc'[c] \in Updating => pc[c] \in Updating
      /\ pc'[c] \in Updating \ {"setIp"} => pc[c] \in Updating \ {"setIp"}
      /\ pc'[c] \in Updating \ {"setIp", "setDns"} =>
           pc[c] \in Updating \ {"setIp", "setDns"}
      /\ pc'[c] \in InAddOrUpdate => pc[c] \in InAddOrUpdate
      /\ pc[c] \notin {"idle", "ignored"} /\ pc'[c] \notin {"idle", "ignored"}
      /\ \A d \in Calls \ {c} : dns'[d] = dns[d]
      /\ pc[c] # "resolving" => dns'[c] = dns[c]
      /\ pc[c] = "resolving" => dns'[c] = NameOf(ip[c]) /\ pc'[c] = "lookup"
      /\ pc'[c] # "resolving"
  BY <1>2 DEF TypeOK, Returned, Updating, InAddOrUpdate
<1>5. ASSUME NEW d \in Calls
      PROVE  CallOK(d)'
  <2>1. CallOK(d) /\ CallOK(c)
    BY DEF IInv
  <2>2. \A e \in Calls : pc[e] \in Returned => pc'[e] \in Returned
    BY <1>2, <1>4
  <2>3. CASE d = c
    BY <2>1, <2>2, <2>3, <1>2, <1>3, <1>4 DEF CallOK
  <2>4. CASE d # c
    BY <2>1, <2>2, <2>4, <1>2, <1>3, <1>4 DEF CallOK
  <2> QED
    BY <2>3, <2>4
<1>6. ASSUME NEW d \in Calls
      PROVE  RecordOK(d)'
  BY <1>2, <1>3, <1>4 DEF IInv, RecordOK
<1>7. ASSUME NEW d \in Calls
      PROVE  ContentionOK(d)'
  <2>1. ContentionOK(d) /\ Rivals(d)' \subseteq Rivals(d)
    BY <1>2, <1>4 DEF IInv, Rivals
  <2>2. CASE d = c
    BY <2>1, <2>2, <1>2, <1>3, <1>4 DEF ContentionOK, Updating
  <2>3. CASE d # c
    BY <2>1, <2>3, <1>2, <1>3, <1>4 DEF ContentionOK
  <2> QED
    BY <2>2, <2>3
<1>8. \A m \in Macs : FiledOK(m)'
  BY <1>2, <1>3, <1>4 DEF IInv, FiledOK, TypeOK
<1>9. \A r \in Readers : ReaderOK(r)'
  BY <1>2, <1>3, ReadersKeep
<1> QED
  BY <1>2, <1>5, <1>6, <1>7, <1>8, <1>9 DEF IInv

(* The lookup: what it finds was filed by a call that has returned, and it  *)
(* makes every pair of rivals contended.                                    *)
LEMMA LookupIInv ==
  ASSUME IInv, NEW c \in Calls, Lookup(c)
  PROVE  IInv'
<1>1. UpdateOrAdd(c)
  BY DEF UpdateOrAdd, AddOrUpdate
<1>2. /\ TypeOK /\ TypeOK'
      /\ UNCHANGED <<arrived, mac, ip, now, sweep, reader>>
      /\ \A d \in Calls \ {c} : pc'[d] = pc[d]
      /\ \A m : ReportedIps(m)' = ReportedIps(m)
      /\ \A s \in Sweeps : SweepOK(s)'
  BY <1>1, CallFrame
<1>3. UNCHANGED <<dict, record, dns>>
  BY DEF Lookup
<1>4. /\ pc[c] = "lookup" /\ mac[c] \in Macs
      /\ held'[c] = dict[mac[c]]
      /\ pc'[c] = IF dict[mac[c]] = None THEN "create" ELSE "setIp"
      /\ \A d \in Calls \ {c} : held'[d] = held[d]
  BY <1>2 DEF Lookup, Goto, TypeOK, IInv, CallOK
<1>5. \A d \in Calls : pc[d] \in Returned => pc'[d] \in Returned
  BY <1>2, <1>4 DEF Returned
<1>6. ASSUME NEW d \in Calls
      PROVE  CallOK(d)'
  <2>1. CASE d = c
    <3>1. CallOK(c) /\ FiledOK(mac[c])
      BY <1>4 DEF IInv
    <3>2. dict[mac[c]] # None => dict[mac[c]] \in Calls
      BY <1>2, <1>4 DEF TypeOK
    <3> QED
      BY <2>1, <3>1, <3>2, <1>2, <1>3, <1>4, <1>5 DEF CallOK, FiledOK, Updating
  <2>2. CASE d # c
    BY <2>2, <1>2, <1>3, <1>4, <1>5 DEF IInv, CallOK
  <2> QED
    BY <2>1, <2>2
<1>7. ASSUME NEW d \in Calls
      PROVE  RecordOK(d)'
  BY <1>2, <1>3, <1>4 DEF IInv, RecordOK
<1>8. \A d \in Calls : contended'[d] = (contended[d] \/ d \in Rivals(c)
                                       \/ (d = c /\ Rivals(c) # {}))
  BY DEF Lookup
<1>9. ASSUME NEW d \in Calls
      PROVE  ContentionOK(d)'
  <2>1. CASE d = c
    <3>1. Rivals(c)' \subseteq Rivals(c)
      BY <1>2 DEF Rivals
    <3>2. \A e \in Rivals(c)' : contended'[c]
      BY <3>1, <1>8
    <3> QED
      BY <2>1, <3>2, <1>4 DEF ContentionOK, Updating
  <2>2. CASE d # c
    <3>1. ContentionOK(d)
      BY DEF IInv
    <3>2. ASSUME NEW e \in Rivals(d)', pc[d] \in InAddOrUpdate
          PROVE  contended'[d]
      <4>1. CASE e = c
        <5>1. d \in Rivals(c)
          BY <2>2, <3>2, <4>1, <1>2 DEF Rivals
        <5> QED
          BY <5>1, <1>8
      <4>2. CASE e # c
        <5>1. e \in Rivals(d)
          BY <3>2, <4>2, <1>2 DEF Rivals
        <5> QED
          BY <5>1, <3>1, <3>2, <1>8 DEF ContentionOK
      <4> QED
        BY <4>1, <4>2
    <3>3. contended[d] => contended'[d]
      BY <1>8
    <3> QED
      BY <2>2, <3>1, <3>2, <3>3, <1>2, <1>3, <1>4 DEF ContentionOK
  <2> QED
    BY <2>1, <2>2
<1>10. \A m \in Macs : FiledOK(m)'
  BY <1>2, <1>3, <1>5 DEF IInv, FiledOK, TypeOK
<1>11. \A r \in Readers : ReaderOK(r)'
  BY <1>2, <1>3, ReadersKeep
<1> QED
  BY <1>2, <1>6, <1>7, <1>9, <1>10, <1>11 DEF IInv

(* The add factory writes an object nobody refers to: only calls that have  *)
(* returned own objects that are filed or held.                             *)
LEMMA AddFactoryIInv ==
  ASSUME IInv, NEW c \in Calls, AddFactory(c)
  PROVE  IInv'
<1>1. UpdateOrAdd(c)
  BY DEF UpdateOrAdd, AddOrUpdate
<1>2. /\ TypeOK /\ TypeOK'
      /\ UNCHANGED <<arrived, mac, ip, now, sweep, reader>>
      /\ \A d \in Calls \ {c} : pc'[d] = pc[d]
      /\ \A m : ReportedIps(m)' = ReportedIps(m)
      /\ \A s \in Sweeps : SweepOK(s)'
  BY <1>1, CallFrame
<1>3. UNCHANGED <<dict, dns, held, contended>>
  BY DEF AddFactory
<1>4. /\ pc[c] = "create" /\ pc'[c] = "tryAdd"
      /\ record'[c] = [mac |-> mac[c], ip |-> ip[c], dns |-> dns[c], time |-> now]
      /\ \A d \in Calls \ {c} : record'[d] = record[d]
  BY <1>2 DEF AddFactory, Goto, TypeOK
<1>5. /\ CallOK(c)
      /\ c <= arrived /\ mac[c] \in Macs /\ ip[c] \in Ips /\ dns[c] = NameOf(ip[c])
  BY <1>4 DEF IInv, CallOK
<1>6. record'[c] # None
  BY <1>2, <1>4, <1>5, RegistryAssumption DEF AcDeviceState, DnsNames, TypeOK
<1>7. ip[c] \in ReportedIps(mac[c])
  BY <1>2, <1>5, RegistryAssumption DEF ReportedIps, Calls, TypeOK
<1>8. ASSUME NEW d \in Calls
      PROVE  CallOK(d)'
  <2>1. CASE d = c
    BY <2>1, <1>2, <1>3, <1>4, <1>5, <1>6 DEF CallOK, Updating
  <2>2. CASE d # c
    <3>1. CallOK(d)
      BY DEF IInv
    <3>2. pc[d] \in Updating => held[d] # c
      BY <3>1, <1>4 DEF CallOK, Returned
    <3> QED
      BY <3>1, <3>2, <2>2, <1>2, <1>3, <1>4 DEF CallOK
  <2> QED
    BY <2>1, <2>2
<1>9. ASSUME NEW d \in Calls
      PROVE  RecordOK(d)'
  <2>1. CASE d = c
    BY <2>1, <1>2, <1>4, <1>5, <1>7 DEF RecordOK, NameOf
  <2>2. CASE d # c
    BY <2>2, <1>2, <1>4 DEF IInv, RecordOK
  <2> QED
    BY <2>1, <2>2
<1>10. ASSUME NEW d \in Calls
       PROVE  ContentionOK(d)'
  <2>1. ContentionOK(d) /\ Rivals(d)' = Rivals(d)
    BY <1>2, <1>4 DEF IInv, Rivals, InAddOrUpdate
  <2>2. CASE d = c
    BY <2>1, <2>2, <1>2, <1>3, <1>4 DEF ContentionOK, Updating, InAddOrUpdate
  <2>3. CASE d # c
    <3>1. pc[d] \in Updating => held[d] # c
      BY <1>4 DEF IInv, CallOK, Returned
    <3> QED
      BY <2>1, <2>3, <3>1, <1>2, <1>3, <1>4 DEF IInv, CallOK, ContentionOK
  <2> QED
    BY <2>2, <2>3
<1>11. \A m \in Macs : FiledOK(m)'
  BY <1>2, <1>3, <1>4, <1>6 DEF IInv, FiledOK, TypeOK, Returned
<1>12. \A r \in Readers : ReaderOK(r)'
  BY <1>2, <1>4, <1>6, ReadersKeep
<1> QED
  BY <1>2, <1>8, <1>9, <1>10, <1>11, <1>12 DEF IInv

LEMMA TryAddIInv ==
  ASSUME IInv, NEW c \in Calls, TryAdd(c)
  PROVE  IInv'
<1>1. UpdateOrAdd(c)
  BY DEF UpdateOrAdd, AddOrUpdate
<1>2. /\ TypeOK /\ TypeOK'
      /\ UNCHANGED <<arrived, mac, ip, now, sweep, reader>>
      /\ \A d \in Calls \ {c} : pc'[d] = pc[d]
      /\ \A m : ReportedIps(m)' = ReportedIps(m)
      /\ \A s \in Sweeps : SweepOK(s)'
  BY <1>1, CallFrame
<1>3. UNCHANGED <<record, dns, held, contended>>
  BY DEF TryAdd
<1>4. /\ pc[c] = "tryAdd" /\ pc'[c] \in {"notify", "lookup"}
      /\ CallOK(c) /\ mac[c] \in Macs /\ record[c] # None
      /\ dict[mac[c]] = None => dict'[mac[c]] = c /\ pc'[c] = "notify"
      /\ dict[mac[c]] # None => dict'[mac[c]] = dict[mac[c]]
      /\ \A m \in Macs \ {mac[c]} : dict'[m] = dict[m]
  BY <1>2 DEF TryAdd, Goto, TypeOK, IInv, CallOK
<1>5. \A d \in Calls : pc[d] \in Returned => pc'[d] \in Returned
  BY <1>2, <1>4 DEF Returned
<1>6. ASSUME NEW d \in Calls
      PROVE  CallOK(d)'
  <2>1. CASE d = c
    BY <2>1, <1>2, <1>3, <1>4 DEF CallOK, Updating
  <2>2. CASE d # c
    BY <2>2, <1>2, <1>3, <1>5 DEF IInv, CallOK
  <2> QED
    BY <2>1, <2>2
<1>7. ASSUME NEW d \in Calls
      PROVE  RecordOK(d)'
  BY <1>2, <1>3, <1>4 DEF IInv, RecordOK
<1>8. ASSUME NEW d \in Calls
      PROVE  ContentionOK(d)'
  <2>1. ContentionOK(d) /\ Rivals(d)' \subseteq Rivals(d)
    BY <1>2, <1>4 DEF IInv, Rivals, InAddOrUpdate
  <2>2. CASE d = c
    BY <2>1, <2>2, <1>4 DEF ContentionOK, Updating, InAddOrUpdate
  <2>3. CASE d # c
    BY <2>1, <2>3, <1>2, <1>3 DEF ContentionOK
  <2> QED
    BY <2>2, <2>3
<1>9. ASSUME NEW m \in Macs
      PROVE  FiledOK(m)'
  <2>1. CASE m = mac[c] /\ dict[m] = None
    BY <2>1, <1>2, <1>3, <1>4 DEF FiledOK, Returned
  <2>2. CASE ~(m = mac[c] /\ dict[m] = None)
    BY <2>2, <1>2, <1>3, <1>4, <1>5 DEF IInv, FiledOK, TypeOK
  <2> QED
    BY <2>1, <2>2
<1>10. \A r \in Readers : ReaderOK(r)'
  BY <1>2, <1>3, ReadersKeep
<1> QED
  BY <1>2, <1>6, <1>7, <1>8, <1>9, <1>10 DEF IInv

(* The property writes: the object belongs to the same MAC, so its data     *)
(* stay that MAC's, and any other call that holds it is contended.          *)
LEMMA WriteIInv ==
  ASSUME IInv, NEW c \in Calls,
         SetIpAddress(c) \/ SetDnsName(c) \/ SetLastConnectionTime(c)
  PROVE  IInv'
<1> DEFINE o == held[c]
<1>1. UpdateOrAdd(c)
  BY DEF UpdateOrAdd, AddOrUpdate
<1>2. /\ TypeOK /\ TypeOK'
      /\ UNCHANGED <<arrived, mac, ip, now, sweep, reader>>
      /\ \A d \in Calls \ {c} : pc'[d] = pc[d]
      /\ \A m : ReportedIps(m)' = ReportedIps(m)
      /\ \A s \in Sweeps : SweepOK(s)'
  BY <1>1, CallFrame
<1>3. UNCHANGED <<dict, dns, held, contended>>
  BY DEF SetIpAddress, SetDnsName, SetLastConnectionTime
<1>4. pc[c] \in Updating /\ pc'[c] \in Updating /\ pc'[c] # "setIp"
  BY <1>2 DEF SetIpAddress, SetDnsName, SetLastConnectionTime, Goto, Updating, TypeOK
<1>5. /\ o \in Calls /\ record[o] # None /\ mac[o] = mac[c] /\ pc[o] \in Returned
      /\ c <= arrived /\ mac[c] \in Macs /\ ip[c] \in Ips /\ dns[c] = NameOf(ip[c])
  BY <1>4 DEF IInv, CallOK, Updating
<1>6. record[o] \in AcDeviceState
  BY <1>2, <1>5 DEF TypeOK
<1>7. /\ \A d \in Calls \ {o} : record'[d] = record[d]
      /\ record'[o].mac = record[o].mac
      /\ SetIpAddress(c) => record'[o].ip = ip[c] /\ record'[o].dns = record[o].dns
      /\ SetDnsName(c) => record'[o].dns = dns[c] /\ record'[o].ip = record[o].ip
      /\ SetLastConnectionTime(c) =>
           record'[o].ip = record[o].ip /\ record'[o].dns = record[o].dns
  BY <1>2, <1>5, <1>6
  DEF SetIpAddress, SetDnsName, SetLastConnectionTime, TypeOK, AcDeviceState
<1>8. record'[o] # None
  <2>1. record'[o] \in AcDeviceState
    BY <1>2, <1>4, <1>5, <1>6
    DEF SetIpAddress, SetDnsName, SetLastConnectionTime, TypeOK, AcDeviceState, DnsNames
  <2> QED
    BY <2>1, RegistryAssumption
<1>9. \A d \in Calls : record[d] # None => record'[d] # None
  BY <1>7, <1>8
<1>10. \A d \in Calls : pc[d] \in Returned => pc'[d] \in Returned
  BY <1>2, <1>4 DEF Returned, Updating
<1>11. ip[c] \in ReportedIps(mac[c])
  BY <1>2, <1>5, RegistryAssumption DEF ReportedIps, Calls, TypeOK
<1>12. ASSUME NEW d \in Calls
       PROVE  CallOK(d)'
  <2>1. CallOK(d)
    BY DEF IInv
  <2>2. CASE d = c
    BY <2>1, <2>2, <1>2, <1>3, <1>4, <1>9, <1>10 DEF CallOK, Updating
  <2>3. CASE d # c
    BY <2>1, <2>3, <1>2, <1>3, <1>9, <1>10 DEF CallOK
  <2> QED
    BY <2>2, <2>3
<1>13. ASSUME NEW d \in Calls
       PROVE  RecordOK(d)'
  <2>1. RecordOK(d)
    BY DEF IInv
  <2>2. CASE d = o
    BY <2>1, <2>2, <1>2, <1>5, <1>7, <1>10, <1>11 DEF RecordOK, NameOf, Returned
  <2>3. CASE d # o
    BY <2>1, <2>3, <1>2, <1>4, <1>7 DEF RecordOK, Updating
  <2> QED
    BY <2>2, <2>3
<1>14. ASSUME NEW d \in Calls
       PROVE  ContentionOK(d)'
  <2>1. ContentionOK(d) /\ CallOK(d)
    BY DEF IInv
  <2>2. Rivals(d)' = Rivals(d) /\ (pc'[d] \in InAddOrUpdate => pc[d] \in InAddOrUpdate)
    BY <1>2, <1>4 DEF Rivals, InAddOrUpdate, Updating
  <2>3. CASE d = c
    <3>1. pc'[c] \in Updating \ {"setIp", "setDns"} =>
            SetDnsName(c) \/ SetLastConnectionTime(c)
      BY <1>2 DEF SetIpAddress, Goto, TypeOK
    <3>2. /\ SetDnsName(c) => pc[c] = "setDns"
          /\ SetLastConnectionTime(c) => pc[c] = "setTime"
      BY DEF SetDnsName, SetLastConnectionTime, Goto
    <3> QED
      BY <2>1, <2>2, <2>3, <3>1, <3>2, <1>2, <1>3, <1>4, <1>7
      DEF ContentionOK, Updating
  <2>4. CASE d # c
    <3>1. pc[d] = "tryAdd" => d # o
      BY <1>5 DEF Returned
    <3>2. ASSUME pc[d] \in Updating, held[d] = o
          PROVE  contended[d]
      <4>1. c \in Rivals(d)
        BY <3>2, <2>1, <2>4, <1>4, <1>5 DEF Rivals, CallOK, InAddOrUpdate, Updating
      <4> QED
        BY <4>1, <3>2, <2>1 DEF ContentionOK, InAddOrUpdate, Updating
    <3>3. pc[d] \in Updating => held[d] \in Calls
      BY <2>1 DEF CallOK
    <3> QED
      BY <2>1, <2>2, <2>4, <3>1, <3>2, <3>3, <1>2, <1>3, <1>7 DEF ContentionOK
  <2> QED
    BY <2>3, <2>4
<1>15. \A m \in Macs : FiledOK(m)'
  BY <1>2, <1>3, <1>9, <1>10 DEF IInv, FiledOK, TypeOK
<1>16. \A r \in Readers : ReaderOK(r)'
  BY <1>2, <1>9, ReadersKeep
<1> QED
  BY <1>2, <1>12, <1>13, <1>14, <1>15, <1>16 DEF IInv

LEMMA NextIInv == IInv /\ [Next]_vars => IInv'
<1> SUFFICES ASSUME IInv, [Next]_vars PROVE IInv'
  OBVIOUS
<1>1. CASE \E c \in Calls, m \in Macs, i \in Ips \cup {None} :
             OnDeviceConnected(c, m, i)
  BY <1>1, ContactIInv
<1>2. CASE \E c \in Calls : UpdateOrAdd(c)
  BY <1>2, LocalIInv, LookupIInv, AddFactoryIInv, TryAddIInv, WriteIInv
  DEF UpdateOrAdd, AddOrUpdate
<1>3. CASE \E m \in Macs : RemoveDevice(m)
  BY <1>3, RemoveIInv
<1>4. CASE \E s \in Sweeps : RemoveStaleDevices(s)
  BY <1>4, SweepIInv
<1>5. CASE \E r \in Readers : Get(r)
  BY <1>5, GetIInv
<1>6. CASE Tick
  BY <1>6, TickIInv
<1>7. CASE UNCHANGED vars
  BY <1>7, StutterIInv
<1> QED
  BY <1>1, <1>2, <1>3, <1>4, <1>5, <1>6, <1>7 DEF Next

-----------------------------------------------------------------------------
(* The theorems.                                                            *)

(* The inductive invariant holds in every reachable state.                  *)
THEOREM Invariance == Spec => []IInv
<1> QED
  BY InitIInv, NextIInv, PTL DEF Spec

(* Every variable keeps its type: no null is ever written into a record.    *)
THEOREM TypeCorrect == Spec => []TypeOK
<1>1. IInv => TypeOK
  BY DEF IInv
<1> QED
  BY <1>1, Invariance, PTL

(* An object is filed under its own MAC only and complete.                  *)
THEOREM FiledCorrect == Spec => []RecordsFiledUnderTheirMac
<1>1. IInv => RecordsFiledUnderTheirMac
  BY DEF IInv, RecordsFiledUnderTheirMac, FiledOK, RecordOK, TypeOK
<1> QED
  BY <1>1, Invariance, PTL

(* No address and no name ever wanders from one device to another, whatever *)
(* the number of contacts that interleave their writes.                     *)
THEOREM NoForeignDataCorrect == Spec => []NoForeignData
<1>1. IInv => NoForeignData
  BY DEF IInv, NoForeignData, FiledOK, RecordOK, ReaderOK, TypeOK
<1> QED
  BY <1>1, Invariance, PTL

(* A contact that had AddOrUpdate for its MAC to itself is recorded exactly. *)
THEOREM UncontendedExact == Spec => UncontendedContactIsExact
<1> DEFINE Exact == \A c \in Calls : Returns(c) /\ ~contended[c] =>
                      /\ dict'[mac[c]] # None
                      /\ record'[dict'[mac[c]]].ip = ip[c]
                      /\ record'[dict'[mac[c]]].dns = dns[c]
<1>1. IInv /\ [Next]_vars => [Exact]_vars
  <2> SUFFICES ASSUME IInv, Next, NEW c \in Calls, Returns(c), ~contended[c]
               PROVE  /\ dict'[mac[c]] # None
                      /\ record'[dict'[mac[c]]].ip = ip[c]
                      /\ record'[dict'[mac[c]]].dns = dns[c]
    OBVIOUS
  <2>1. TypeOK /\ CallOK(c) /\ ContentionOK(c)
    BY DEF IInv
  <2>2. TryAdd(c) \/ TryUpdate(c)
    <3>1. \A m \in Macs : ~RemoveDevice(m)
      BY DEF RemoveDevice, Returns, callVars
    <3>2. \A s \in Sweeps : ~RemoveStaleDevices(s)
      BY DEF RemoveStaleDevices, SweepStart, SweepSkip, SweepCondemn, SweepRemove,
             SweepEnd, Returns, callVars
    <3>3. (\A r \in Readers : ~Get(r)) /\ ~Tick
      BY DEF Get, GetFound, GetIp, GetDns, GetTime, Tick, Returns, callVars
    <3>4. \A d \in Calls, m \in Macs, i \in Ips \cup {None} :
            ~OnDeviceConnected(d, m, i)
      BY <2>1 DEF OnDeviceConnected, Goto, Returns, TypeOK
    <3>5. PICK d \in Calls : UpdateOrAdd(d)
      BY <3>1, <3>2, <3>3, <3>4 DEF Next
    <3>6. d = c
      BY <3>5, CallFrame DEF Returns
    <3> QED
      BY <3>5, <3>6, <2>1 DEF UpdateOrAdd, AddOrUpdate, ResolveDnsName, Lookup,
         AddFactory, SetIpAddress, SetDnsName, ReadUtcNow, SetLastConnectionTime,
         OnDeviceUpdated, Goto, Returns, TypeOK
  <2>3. CASE TryAdd(c)
    <3>1. dict[mac[c]] = None /\ pc[c] = "tryAdd"
      BY <2>1, <2>3 DEF TryAdd, Goto, Returns, TypeOK
    <3>2. dict'[mac[c]] = c /\ c # None /\ record' = record
      BY <2>1, <2>3, <3>1, RegistryAssumption DEF TryAdd, TypeOK, CallOK
    <3> QED
      BY <2>1, <3>1, <3>2 DEF ContentionOK
  <2>4. CASE TryUpdate(c)
    <3>1. /\ pc[c] = "tryUpdate" /\ dict[mac[c]] = held[c]
          /\ dict' = dict /\ record' = record
      BY <2>1, <2>4 DEF TryUpdate, Goto, Returns, TypeOK
    <3>2. held[c] # None
      BY <2>1, <3>1, RegistryAssumption DEF CallOK, Updating
    <3> QED
      BY <2>1, <3>1, <3>2 DEF ContentionOK, Updating
  <2> QED
    BY <2>2, <2>3, <2>4
<1> QED
  BY <1>1, Invariance, PTL DEF Spec, UncontendedContactIsExact

(* An object leaves the dictionary by removal only.                         *)
THEOREM NeverReplaced == Spec => ContactsNeverReplaceARecord
<1> DEFINE Kept == \A m \in Macs : dict[m] # None => dict'[m] \in {dict[m], None}
<1>1. IInv /\ [Next]_vars => [Kept]_vars
  <2> SUFFICES ASSUME IInv, Next PROVE Kept
    OBVIOUS
  <2>1. TypeOK
    BY DEF IInv
  <2>2. CASE \E c \in Calls : UpdateOrAdd(c)
    BY <2>1, <2>2 DEF UpdateOrAdd, AddOrUpdate, ResolveDnsName, Lookup, AddFactory,
       TryAdd, SetIpAddress, SetDnsName, ReadUtcNow, SetLastConnectionTime,
       TryUpdate, OnDeviceUpdated, TypeOK
  <2>3. CASE \E m \in Macs : RemoveDevice(m)
    BY <2>1, <2>3 DEF RemoveDevice, TypeOK
  <2>4. CASE \E s \in Sweeps : RemoveStaleDevices(s)
    BY <2>1, <2>4 DEF RemoveStaleDevices, SweepStart, SweepSkip, SweepCondemn,
       SweepRemove, SweepEnd, TypeOK
  <2>5. CASE \/ \E c \in Calls, m \in Macs, i \in Ips \cup {None} :
                  OnDeviceConnected(c, m, i)
             \/ \E r \in Readers : Get(r)
             \/ Tick
    BY <2>5 DEF OnDeviceConnected, Get, GetFound, GetIp, GetDns, GetTime, Tick
  <2> QED
    BY <2>2, <2>3, <2>4, <2>5 DEF Next
<1> QED
  BY <1>1, Invariance, PTL DEF Spec, ContactsNeverReplaceARecord

-----------------------------------------------------------------------------
(* The registry implements KnownDevices.  A call records its contact in the *)
(* step that leaves AddOrUpdate; removals forget one device; every other    *)
(* step stutters.                                                           *)

LEMMA ContactRefines ==
  ASSUME IInv, NEW c \in Calls, NEW m \in Macs, NEW i \in Ips \cup {None},
         OnDeviceConnected(c, m, i)
  PROVE  Abstract!Arrive(c)
<1>1. TypeOK
  BY DEF IInv
<1>2. /\ pc[c] = "idle" /\ dict' = dict
      /\ mac' = [mac EXCEPT ![c] = m]
      /\ pc' = [pc EXCEPT ![c] = IF i = None THEN "ignored" ELSE "resolving"]
  BY DEF OnDeviceConnected, Goto
<1>3. Status[c] = "absent" /\ Known' = Known
  BY <1>2 DEF Status, Known
<1>4. Status' = [Status EXCEPT ![c] = IF i = None THEN "ignored" ELSE "pending"]
  BY <1>1, <1>2 DEF Status, TypeOK
<1> QED
  BY <1>2, <1>3, <1>4 DEF Abstract!Arrive

LEMMA CallRefines ==
  ASSUME IInv, NEW c \in Calls, UpdateOrAdd(c)
  PROVE  Abstract!Record(c) \/ UNCHANGED <<Known, Status, mac>>
<1>1. /\ TypeOK /\ CallOK(c) /\ mac' = mac /\ mac[c] \in Macs
      /\ pc[c] \notin {"idle", "ignored", "done"}
      /\ pc'[c] \notin {"idle", "ignored", "resolving"}
      /\ pc' \in [Calls -> Labels]
      /\ \A d \in Calls \ {c} : pc'[d] = pc[d]
  BY CallFrame DEF IInv, CallOK, TypeOK
<1>2. CASE pc[c] \notin Returned /\ pc'[c] \in Returned
  <2>1. TryAdd(c) \/ TryUpdate(c)
    BY <1>1, <1>2 DEF UpdateOrAdd, AddOrUpdate, ResolveDnsName, Lookup, AddFactory,
       SetIpAddress, SetDnsName, ReadUtcNow, SetLastConnectionTime,
       OnDeviceUpdated, Goto, Returned, TypeOK
  <2>2. dict'[mac[c]] # None /\ \A m \in Macs \ {mac[c]} : dict'[m] = dict[m]
    <3>1. CASE TryAdd(c)
      BY <1>1, <1>2, <3>1, RegistryAssumption DEF TryAdd, Goto, Returned, TypeOK
    <3>2. CASE TryUpdate(c)
      BY <1>1, <1>2, <3>2, RegistryAssumption
      DEF TryUpdate, Goto, Returned, TypeOK, CallOK, Updating
    <3> QED
      BY <2>1, <3>1, <3>2
  <2>3. Known' = Known \cup {mac[c]}
    BY <1>1, <2>2 DEF Known
  <2>4. Status[c] = "pending"
    BY <1>1, <1>2 DEF Status, Returned
  <2>5. Status' = [Status EXCEPT ![c] = "recorded"]
    BY <1>1, <1>2 DEF Status, Returned
  <2> QED
    BY <1>1, <2>3, <2>4, <2>5 DEF Abstract!Record
<1>3. CASE ~(pc[c] \notin Returned /\ pc'[c] \in Returned)
  <2>1. pc[c] \in Returned => pc'[c] \in Returned
    BY <1>1 DEF UpdateOrAdd, AddOrUpdate, ResolveDnsName, Lookup, AddFactory, TryAdd,
       SetIpAddress, SetDnsName, ReadUtcNow, SetLastConnectionTime, TryUpdate,
       OnDeviceUpdated, Goto, Returned, TypeOK
  <2>2. Status' = Status
    BY <1>1, <1>3, <2>1 DEF Status, Returned
  <2>3. dict' = dict
    BY <1>1, <1>3 DEF UpdateOrAdd, AddOrUpdate, ResolveDnsName, Lookup, AddFactory,
       TryAdd, SetIpAddress, SetDnsName, ReadUtcNow, SetLastConnectionTime,
       TryUpdate, OnDeviceUpdated, Goto, Returned, TypeOK
  <2>4. Known' = Known
    BY <2>3 DEF Known
  <2> QED
    BY <1>1, <2>2, <2>4
<1> QED
  BY <1>2, <1>3

LEMMA ForgettingRefines ==
  ASSUME IInv, NEW m, dict' = [dict EXCEPT ![m] = None], UNCHANGED <<pc, mac>>
  PROVE  (m \in Macs /\ Abstract!Forget(m)) \/ UNCHANGED <<Known, Status, mac>>
<1>1. TypeOK
  BY DEF IInv
<1>2. Status' = Status
  BY DEF Status
<1>3. Known' = Known \ {m}
  BY <1>1 DEF Known, TypeOK
<1>4. m \notin Macs => Known' = Known
  BY <1>3 DEF Known
<1> QED
  BY <1>2, <1>3, <1>4 DEF Abstract!Forget

(* Known, Status and mac behave as KnownDevices allows, whatever the number *)
(* of contacts, sweeps and readers.                                         *)
THEOREM Refinement == Spec => ImplementsKnownDevices
<1>1. Init => Abstract!Init
  BY DEF Init, Abstract!Init, Known, Status
<1>2. IInv /\ [Next]_vars => [Abstract!Next]_Abstract!vars
  <2> SUFFICES ASSUME IInv, [Next]_vars
               PROVE  Abstract!Next \/ UNCHANGED <<Known, Status, mac>>
    BY DEF Abstract!vars
  <2>1. CASE \E c \in Calls, m \in Macs, i \in Ips \cup {None} :
               OnDeviceConnected(c, m, i)
    BY <2>1, ContactRefines DEF Abstract!Next
  <2>2. CASE \E c \in Calls : UpdateOrAdd(c)
    BY <2>2, CallRefines DEF Abstract!Next
  <2>3. CASE \E m \in Macs : RemoveDevice(m)
    BY <2>3, ForgettingRefines DEF RemoveDevice, callVars, Abstract!Next
  <2>4. CASE \E s \in Sweeps : SweepRemove(s)
    BY <2>4, ForgettingRefines DEF SweepRemove, callVars, Abstract!Next
  <2>5. CASE UNCHANGED <<dict, pc, mac>>
    BY <2>5 DEF Known, Status
  <2>6. CASE \/ \E s \in Sweeps : RemoveStaleDevices(s) /\ ~SweepRemove(s)
             \/ \E r \in Readers : Get(r)
             \/ Tick
             \/ UNCHANGED vars
    BY <2>5, <2>6 DEF RemoveStaleDevices, SweepStart, SweepSkip, SweepCondemn,
       SweepEnd, Get, GetFound, GetIp, GetDns, GetTime, Tick, vars, callVars
  <2> QED
    BY <2>1, <2>2, <2>3, <2>4, <2>6 DEF Next
<1> QED
  BY <1>1, <1>2, Invariance, PTL DEF Spec, Abstract!Spec, ImplementsKnownDevices

=============================================================================
