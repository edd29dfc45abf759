-------------------------- MODULE Dashboard_proofs --------------------------
(***************************************************************************)
(* Proofs about Dashboard, for any number of devices, contacts, removals,   *)
(* browsers, connections and dialogs.                                       *)
(***************************************************************************)
EXTENDS Dashboard, TLAPS

-----------------------------------------------------------------------------
(* The invariant *)

KnownTypeOK ==
  /\ known \subseteq Macs
  /\ status \in [Contacts -> {"absent", "pending", "ignored", "recorded"}]
  /\ about \in [Contacts -> Macs \cup {None}]
  /\ \A c \in Contacts : status[c] = "pending" => about[c] \in Macs

(* Nothing is written to a connection that is gone.                         *)
SendsOK == \A n \in notices : n.to \subseteq Connections

(* What Home remembers of the dialog, as long as it is open.                *)
DialogOK ==
  \A b \in Browsers :
    /\ link[b] \in Linked => joins[b] # 0
    /\ link[b] = "off" /\ joins[b] = 0 =>
         devices[b] = {} /\ cards[b] = {} /\ dialog[b] = None
    /\ dialog[b] # None =>
         /\ openDialog[b] = dialog[b]
         /\ dialog[b] \in devices[b] \/ orphaned[b]

(* The messages on their way to b that say something of m, and what.        *)
About(msg, m) == msg.is = "DevicesSnapshot" \/ msg.mac = m

Lists(msg, m) ==
  \/ msg.is = "DevicesSnapshot" /\ m \in msg.devices
  \/ msg.is = "DeviceUpserted"

(* When b has received them all it is right about m: the last one that says *)
(* something is right, or the list is, if there is none.                    *)
Agrees(ch, shown, m, is) ==
  /\ \A i \in 1..Len(ch) :
       About(ch[i], m) /\ (\A j \in i+1..Len(ch) : ~About(ch[j], m)) =>
         (Lists(ch[i], m) <=> is)
  /\ (\A i \in 1..Len(ch) : ~About(ch[i], m)) => (m \in shown <=> is)

Pending(b, m) == {n \in notices : n.mac = m /\ Concerns(n, b)}

(* While nothing has overlapped, whatever is still to come is right.        *)
AgreementOK(b, m) ==
  /\ \A n \in Pending(b, m) : n.is = "DeviceUpserted" <=> m \in known
  /\ link[b] = "read" => (m \in snapshot[b] <=> m \in known)
  /\ link[b] = "live" /\ Pending(b, m) = {} =>
       Agrees(channel[b], devices[b], m, m \in known)

AgreementsOK ==
  \A b \in Browsers : link[b] \in Linked =>
    \A m \in Macs \ raced[b] : AgreementOK(b, m)

-----------------------------------------------------------------------------
(* Queues of messages *)

LEMMA AgreesAppend ==
  ASSUME NEW ch \in Seq(Message), NEW msg \in Message, NEW shown, NEW m, NEW is,
         IF About(msg, m) THEN Lists(msg, m) <=> is
                          ELSE Agrees(ch, shown, m, is)
  PROVE  Agrees(Append(ch, msg), shown, m, is)
<1> DEFINE new == Append(ch, msg)
           n == Len(ch)
<1>1. /\ n \in Nat
      /\ Len(new) = n + 1
      /\ \A i \in 1..n : new[i] = ch[i]
      /\ new[n + 1] = msg
  OBVIOUS
<1> HIDE DEF new, n
<1>2. CASE About(msg, m)
  <2>1. \A i \in 1..n : n + 1 \in i+1..n+1
    BY <1>1
  <2> QED
    BY <1>1, <1>2, <2>1 DEF Agrees, new
<1>3. CASE ~About(msg, m)
  <2>1. \A i \in 1..n : \A j \in i+1..n : j \in 1..n /\ j \in i+1..n+1
    BY <1>1
  <2> QED
    BY <1>1, <1>3, <2>1 DEF Agrees, new, n
<1> QED
  BY <1>2, <1>3

LEMMA AgreesTail ==
  ASSUME NEW ch \in Seq(Message), ch # <<>>, NEW shown, NEW m, NEW is,
         Agrees(ch, shown, m, is)
  PROVE  Agrees(Tail(ch), After(shown, Head(ch)), m, is)
<1> DEFINE rest == Tail(ch)
           n == Len(rest)
           msg == Head(ch)
<1>1. /\ n \in Nat
      /\ Len(ch) = n + 1
      /\ \A i \in 1..n : rest[i] = ch[i + 1]
      /\ ch[1] = msg
      /\ msg \in Message
  OBVIOUS
<1> HIDE DEF rest, n, msg
<1>2. ASSUME NEW i \in 1..n, About(rest[i], m),
             \A j \in i+1..n : ~About(rest[j], m)
      PROVE  Lists(rest[i], m) <=> is
  <2>1. i + 1 \in 1..Len(ch) /\ ch[i + 1] = rest[i]
    BY <1>1
  <2>2. \A j \in (i+1)+1..Len(ch) : ~About(ch[j], m)
    <3> TAKE j \in (i+1)+1..Len(ch)
    <3>1. j - 1 \in i+1..n /\ j - 1 \in 1..n /\ (j - 1) + 1 = j
      BY <1>1
    <3> QED
      BY <1>1, <1>2, <3>1
  <2> QED
    BY <1>2, <2>1, <2>2 DEF Agrees
<1>3. ASSUME \A i \in 1..n : ~About(rest[i], m)
      PROVE  m \in After(shown, msg) <=> is
  <2>1. \A j \in 2..Len(ch) : ~About(ch[j], m)
    <3> TAKE j \in 2..Len(ch)
    <3>1. j - 1 \in 1..n /\ (j - 1) + 1 = j
      BY <1>1
    <3> QED
      BY <1>1, <1>3, <3>1
  <2>2. CASE About(msg, m)
    <3>1. Lists(msg, m) <=> is
      BY <1>1, <2>1, <2>2 DEF Agrees
    <3>2. m \in After(shown, msg) <=> Lists(msg, m)
      BY <1>1, <2>2 DEF After, Lists, About, Message
    <3> QED
      BY <3>1, <3>2
  <2>3. CASE ~About(msg, m)
    <3>1. \A i \in 1..Len(ch) : ~About(ch[i], m)
      <4> TAKE i \in 1..Len(ch)
      <4>1. i = 1 \/ i \in 2..Len(ch)
        BY <1>1
      <4> QED
        BY <1>1, <2>1, <2>3, <4>1
    <3>2. m \in shown <=> is
      BY <3>1 DEF Agrees
    <3>3. m \in After(shown, msg) <=> m \in shown
      BY <1>1, <2>3 DEF After, About, Message
    <3> QED
      BY <3>2, <3>3
  <2> QED
    BY <2>2, <2>3
<1> QED
  BY <1>2, <1>3 DEF Agrees, rest, n, msg

-----------------------------------------------------------------------------
(* Type correctness *)

IInv == KnownTypeOK /\ DashboardTypeOK /\ SendsOK /\ DialogOK /\ AgreementsOK

Types == KnownTypeOK /\ DashboardTypeOK

LEMMA InitTypes == DashboardInit => Types
BY DashboardAssumption
   DEF DashboardInit, Init, Types, KnownTypeOK, DashboardTypeOK, Linked

LEMMA AnnounceType ==
  ASSUME Types, NEW who \in Contacts \cup Removals,
         NEW kind \in {"DeviceUpserted", "DeviceRemoved"}, NEW m \in Macs,
         Announce(who, kind, m)
  PROVE  notices' \subseteq Notice /\ raced' \in [Browsers -> SUBSET Macs]
<1>1. [by |-> who, is |-> kind, mac |-> m, begun |-> FALSE, to |-> {}] \in Notice
  BY DEF Notice
<1>2. notices' \subseteq Notice
  BY <1>1 DEF Announce, Types, DashboardTypeOK
<1>3. \A b \in Browsers :
        (IF Overlap(b, m, kind) THEN raced[b] \cup {m} ELSE raced[b]) \in SUBSET Macs
  BY DEF Types, DashboardTypeOK
<1>4. raced' \in [Browsers -> SUBSET Macs]
  BY <1>3 DEF Announce
<1> QED
  BY <1>2, <1>4

LEMMA ChangeTypes ==
  ASSUME Types,
         \/ \E c \in Contacts : Arrival(c) \/ UpdateOrAdd(c)
         \/ \E k \in Removals, m \in Macs : RemoveDevice(k, m)
  PROVE  Types'
<1> USE DEF dialogVars
<1>1. CASE \E c \in Contacts : Arrival(c)
  BY <1>1 DEF Arrival, Arrive, hubVars, Types, KnownTypeOK, DashboardTypeOK, Linked
<1>2. ASSUME NEW c \in Contacts, UpdateOrAdd(c)
      PROVE  Types'
  <2>1. about[c] \in Macs
    BY <1>2 DEF UpdateOrAdd, Record, Types, KnownTypeOK
  <2>2. notices' \subseteq Notice /\ raced' \in [Browsers -> SUBSET Macs]
    BY <1>2, <2>1, AnnounceType DEF UpdateOrAdd
  <2>3. KnownTypeOK'
    BY <1>2, <2>1 DEF UpdateOrAdd, Record, Types, KnownTypeOK
  <2>4. DashboardTypeOK'
    BY <1>2, <2>2 DEF UpdateOrAdd, Types, DashboardTypeOK, Linked
  <2> QED
    BY <2>3, <2>4 DEF Types
<1>3. ASSUME NEW k \in Removals, NEW m \in Macs, RemoveDevice(k, m)
      PROVE  Types'
  <2>1. notices' \subseteq Notice /\ raced' \in [Browsers -> SUBSET Macs]
    BY <1>3, AnnounceType DEF RemoveDevice
  <2>2. KnownTypeOK'
    BY <1>3 DEF RemoveDevice, Forget, Types, KnownTypeOK
  <2>3. DashboardTypeOK'
    BY <1>3, <2>1 DEF RemoveDevice, Types, DashboardTypeOK, Linked
  <2> QED
    BY <2>2, <2>3 DEF Types
<1> QED
  BY <1>1, <1>2, <1>3

(* Adding to and taking from the recipients of a notification.              *)
LEMMA NoticeTypes ==
  ASSUME NEW n \in Notice
  PROVE  /\ [n EXCEPT !.begun = TRUE, !.to = Connections] \in Notice
         /\ \A b \in Browsers : [n EXCEPT !.to = @ \ {b}] \in Notice
         /\ \A b \in Browsers : [n EXCEPT !.to = @ \cup {b}] \in Notice
BY DEF Notice, Connections

LEMMA NotifyTypes ==
  ASSUME Types, SendsOK, Notify
  PROVE  Types'
<1> USE DEF Types, DashboardTypeOK, dialogVars
<1>1. PICK n \in notices :
        BeginSend(n) \/ (\E b \in Browsers : Write(n, b)) \/ EndSend(n)
  BY DEF Notify
<1>2. n \in Notice
  OBVIOUS
<1>3. KnownTypeOK'
  BY <1>1 DEF BeginSend, Write, EndSend, vars, KnownTypeOK
<1>4. CASE BeginSend(n)
  <2>1. notices' \subseteq Notice
    BY <1>2, <1>4, NoticeTypes DEF BeginSend
  <2> QED
    BY <1>3, <1>4, <2>1 DEF BeginSend, Linked
<1>5. ASSUME NEW b \in Browsers, Write(n, b)
      PROVE  Types'
  <2>1. notices' \subseteq Notice
    BY <1>2, <1>5, NoticeTypes DEF Write
  <2>2. [is |-> n.is, mac |-> n.mac] \in Message
    BY <1>2 DEF Notice, Message
  <2>3. channel' \in [Browsers -> Seq(Message)]
    BY <1>5, <2>2 DEF Write
  <2>4. link[b] \in Linked
    BY <1>5 DEF Write, SendsOK, Connections
  <2> QED
    BY <1>3, <1>5, <2>1, <2>3, <2>4 DEF Write
<1>6. CASE EndSend(n)
  BY <1>3, <1>6 DEF EndSend, Linked
<1> QED
  BY <1>1, <1>4, <1>5, <1>6

LEMMA BrowseTypes ==
  ASSUME Types, NEW b \in Browsers, Browse(b)
  PROVE  Types'
<1> USE DashboardAssumption DEF Types, DashboardTypeOK, dialogVars, Linked
<1>0. KnownTypeOK'
  BY DEF Browse, Join, ReadSnapshot, SendSnapshot, LoseConnection, FallBack,
         HandleMessage, ShowDeviceDetails, Cancel, Escape, vars, KnownTypeOK
<1>1. CASE Join(b)
  <2>1. PICK caught \in SUBSET {n \in notices : n.begun} :
          /\ notices' = (notices \ caught)
               \cup {[n EXCEPT !.to = @ \cup {b}] : n \in caught}
          /\ raced' = [raced EXCEPT ![b] = {n.mac : n \in {x \in notices :
               (~x.begun \/ x \in caught) /\ Outdated(x)}}]
    BY <1>1 DEF Join
  <2>2. notices' \subseteq Notice
    <3>1. \A n \in notices : [n EXCEPT !.to = @ \cup {b}] \in Notice
      BY NoticeTypes
    <3>2. {[n EXCEPT !.to = @ \cup {b}] : n \in caught} \subseteq Notice
      BY <2>1, <3>1
    <3> QED
      BY <2>1, <3>2
  <2>3. \A n \in notices : n.mac \in Macs
    BY DEF Notice
  <2>4. raced' \in [Browsers -> SUBSET Macs]
    BY <2>1, <2>3
  <2>5. joins' \in [Browsers -> 0..MaxJoins]
    BY <1>1 DEF Join, NextRetryDelay
  <2> QED
    BY <1>0, <1>1, <2>2, <2>4, <2>5 DEF Join
<1>2. CASE ReadSnapshot(b)
  BY <1>0, <1>2 DEF ReadSnapshot, KnownTypeOK
<1>3. CASE SendSnapshot(b)
  <2>1. [is |-> "DevicesSnapshot", devices |-> snapshot[b]] \in Message
    BY DEF Message
  <2>2. channel' \in [Browsers -> Seq(Message)]
    BY <1>3, <2>1 DEF SendSnapshot
  <2> QED
    BY <1>0, <1>3, <2>2 DEF SendSnapshot
<1>4. CASE LoseConnection(b)
  <2>1. notices' \subseteq Notice
    <3>1. \A n \in notices : [n EXCEPT !.to = @ \ {b}] \in Notice
      BY NoticeTypes
    <3>2. notices' = {[n EXCEPT !.to = @ \ {b}] : n \in notices}
      BY <1>4 DEF LoseConnection
    <3> QED
      BY <3>1, <3>2
  <2> QED
    BY <1>0, <1>4, <2>1 DEF LoseConnection
<1>5. CASE FallBack(b)
  BY <1>0, <1>5 DEF FallBack, KnownTypeOK
<1>6. CASE HandleMessage(b)
  <2> DEFINE msg == Head(channel[b])
  <2>1. msg \in Message /\ Tail(channel[b]) \in Seq(Message)
    BY <1>6 DEF HandleMessage
  <2>2. After(devices[b], msg) \subseteq Macs
    BY <2>1 DEF After, Message
  <2>3. devices' = [devices EXCEPT ![b] = After(devices[b], msg)]
    BY <1>6 DEF HandleMessage
  <2>4. devices' \in [Browsers -> SUBSET Macs]
    BY <2>2, <2>3
  <2>5. cards' \in [Browsers -> SUBSET Macs]
    BY <1>6 DEF HandleMessage
  <2>6. channel' \in [Browsers -> Seq(Message)]
    BY <1>6, <2>1 DEF HandleMessage
  <2>7. dialog' \in [Browsers -> Macs \cup {None}]
    BY <1>6 DEF HandleMessage, CloseDialogForDevice
  <2>8. orphaned' \in [Browsers -> BOOLEAN]
    BY <1>6 DEF HandleMessage
  <2>9. \A x \in Browsers : link'[x] \notin Linked => channel'[x] = <<>>
    BY <1>6 DEF HandleMessage
  <2> QED
    BY <1>0, <1>6, <2>4, <2>5, <2>6, <2>7, <2>8, <2>9 DEF HandleMessage
<1>7. ASSUME NEW m \in Macs, ShowDeviceDetails(b, m)
      PROVE  Types'
  <2>1. details' \in [Browsers -> 0..MaxDetails]
    BY <1>7 DEF ShowDeviceDetails
  <2> QED
    BY <1>0, <1>7, <2>1 DEF ShowDeviceDetails
<1>8. CASE Cancel(b)
  BY <1>0, <1>8 DEF Cancel
<1>9. CASE Escape(b)
  BY <1>0, <1>9 DEF Escape
<1> QED
  BY <1>1, <1>2, <1>3, <1>4, <1>5, <1>6, <1>7, <1>8, <1>9 DEF Browse

-----------------------------------------------------------------------------
(* Recipients of notifications *)

Changes ==
  \/ \E c \in Contacts : Arrival(c) \/ UpdateOrAdd(c)
  \/ \E k \in Removals, m \in Macs : RemoveDevice(k, m)

Dialogs(b) ==
  (\E m \in Macs : ShowDeviceDetails(b, m)) \/ Cancel(b) \/ Escape(b)

LEMMA ChangeSends ==
  ASSUME Types, SendsOK, Changes
  PROVE  SendsOK'
<1>1. link' = link
  BY DEF Changes, Arrival, UpdateOrAdd, RemoveDevice, hubVars
<1>2. \A n \in notices' : n \in notices \/ n.to = {}
  BY DEF Changes, Arrival, UpdateOrAdd, RemoveDevice, hubVars, Announce
<1> QED
  BY <1>1, <1>2 DEF SendsOK, Connections

LEMMA NotifySends ==
  ASSUME Types, SendsOK, Notify
  PROVE  SendsOK'
<1>1. link' = link
  BY DEF Notify, BeginSend, Write, EndSend
<1>2. PICK n \in notices :
        BeginSend(n) \/ (\E b \in Browsers : Write(n, b)) \/ EndSend(n)
  BY DEF Notify
<1>3. n \in Notice
  BY DEF Types, DashboardTypeOK
<1>4. \A x \in notices' : x \in notices \/ x.to \subseteq Connections
  <2>1. CASE BeginSend(n)
    <3>1. [n EXCEPT !.begun = TRUE, !.to = Connections].to = Connections
      BY <1>3 DEF Notice
    <3> QED
      BY <2>1, <3>1 DEF BeginSend
  <2>2. ASSUME NEW b \in Browsers, Write(n, b)
        PROVE  \A x \in notices' : x \in notices \/ x.to \subseteq Connections
    <3>1. [n EXCEPT !.to = @ \ {b}].to = n.to \ {b}
      BY <1>3 DEF Notice
    <3>2. n.to \subseteq Connections
      BY DEF SendsOK
    <3> QED
      BY <2>2, <3>1, <3>2 DEF Write
  <2>3. CASE EndSend(n)
    BY <2>3 DEF EndSend
  <2> QED
    BY <1>2, <2>1, <2>2, <2>3
<1> QED
  BY <1>1, <1>4 DEF SendsOK, Connections

LEMMA BrowseSends ==
  ASSUME Types, SendsOK, NEW b \in Browsers, Browse(b)
  PROVE  SendsOK'
<1> USE DEF Types, DashboardTypeOK, SendsOK, Connections
<1>0. \A n \in notices : n \in Notice
  OBVIOUS
<1>1. CASE Join(b)
  <2>1. \A n \in notices' : \E x \in notices : n.to \subseteq x.to \cup {b}
    BY <1>0, <1>1 DEF Join, Notice
  <2> QED
    BY <1>1, <2>1 DEF Join, Linked
<1>2. CASE LoseConnection(b)
  <2>1. \A n \in notices' : \E x \in notices : n.to \subseteq x.to \ {b}
    BY <1>0, <1>2 DEF LoseConnection, Notice
  <2> QED
    BY <1>2, <2>1 DEF LoseConnection
<1>3. CASE ReadSnapshot(b) \/ SendSnapshot(b) \/ FallBack(b)
  BY <1>3 DEF ReadSnapshot, SendSnapshot, FallBack, Linked
<1>4. CASE HandleMessage(b) \/ Dialogs(b)
  BY <1>4 DEF HandleMessage, Dialogs, ShowDeviceDetails, Cancel, Escape
<1> QED
  BY <1>1, <1>2, <1>3, <1>4 DEF Browse, Dialogs

-----------------------------------------------------------------------------
(* Dialogs *)

LEMMA OtherDialogs ==
  ASSUME DialogOK, UNCHANGED <<devices, dialogVars>>,
         \A b \in Browsers : link'[b] = "off" /\ joins'[b] = 0 =>
           link[b] = "off" /\ joins[b] = 0,
         \A b \in Browsers : link'[b] \in Linked => joins'[b] # 0
  PROVE  DialogOK'
BY DEF DialogOK, dialogVars

LEMMA BrowseDialogs ==
  ASSUME Types, DialogOK, NEW b \in Browsers, Browse(b)
  PROVE  DialogOK'
<1> USE DEF Types, DashboardTypeOK
<1>1. CASE Join(b)
  <2>1. joins'[b] # 0
    BY <1>1 DEF Join
  <2> QED
    BY <1>1, <2>1, OtherDialogs DEF Join, DialogOK
<1>2. CASE ReadSnapshot(b) \/ SendSnapshot(b)
  BY <1>2, OtherDialogs DEF ReadSnapshot, SendSnapshot, DialogOK, Linked
<1>3. CASE LoseConnection(b)
  BY <1>3, OtherDialogs DEF LoseConnection, DialogOK, Linked
<1>4. CASE FallBack(b)
  BY <1>4 DEF FallBack, DialogOK, dialogVars, Linked
<1>5. CASE HandleMessage(b)
  <2> DEFINE msg == Head(channel[b])
  <2>1. msg \in Message
    BY <1>5 DEF HandleMessage
  <2>2. link[b] # "off"
    BY <1>5 DEF HandleMessage, Linked
  <2>3. ASSUME dialog'[b] # None
        PROVE  /\ dialog'[b] = dialog[b]
               /\ openDialog'[b] = dialog'[b]
               /\ dialog'[b] \in devices'[b] \/ orphaned'[b]
    <3>1. dialog'[b] = dialog[b] /\ openDialog[b] = dialog[b]
      BY <1>5, <2>3 DEF HandleMessage, CloseDialogForDevice, DialogOK
    <3>2. dialog[b] \in Macs
      BY <2>3, <3>1
    <3>3. devices'[b] = After(devices[b], msg)
      BY <1>5 DEF HandleMessage
    <3>4. orphaned'[b] <=> orphaned[b] \/
            (msg.is = "DevicesSnapshot" /\ dialog[b] \in Macs \ msg.devices)
      BY <1>5 DEF HandleMessage
    <3>5. dialog[b] \in devices[b] \/ orphaned[b]
      BY <2>3, <3>1 DEF DialogOK
    <3>6. ASSUME dialog[b] \in devices[b], dialog[b] \notin devices'[b]
          PROVE  orphaned'[b]
      <4>1. CASE msg.is = "DevicesSnapshot"
        BY <3>2, <3>3, <3>4, <3>6, <4>1 DEF After
      <4>2. CASE msg.is = "DeviceUpserted"
        BY <3>3, <3>6, <4>2 DEF After
      <4>3. CASE msg.is = "DeviceRemoved"
        <5>1. msg.mac = dialog[b]
          BY <3>3, <3>6, <4>3 DEF After
        <5>2. dialog'[b] = None
          BY <1>5, <3>1, <3>6, <4>3, <5>1 DEF HandleMessage, CloseDialogForDevice
        <5> QED
          BY <2>3, <5>2
      <4> QED
        BY <2>1, <4>1, <4>2, <4>3 DEF Message
    <3>7. openDialog'[b] = openDialog[b]
      BY <1>5 DEF HandleMessage
    <3> QED
      BY <3>1, <3>4, <3>5, <3>6, <3>7
  <2>4. \A x \in Browsers \ {b} :
          /\ dialog'[x] = dialog[x]
          /\ openDialog'[x] = openDialog[x]
          /\ orphaned'[x] = orphaned[x]
          /\ devices'[x] = devices[x]
          /\ cards'[x] = cards[x]
    BY <1>5 DEF HandleMessage, CloseDialogForDevice
  <2>5. UNCHANGED <<link, joins>>
    BY <1>5 DEF HandleMessage
  <2> QED
    <3>1. \A x \in Browsers \ {b} :
            /\ link'[x] \in Linked => joins'[x] # 0
            /\ link'[x] = "off" /\ joins'[x] = 0 =>
                 devices'[x] = {} /\ cards'[x] = {} /\ dialog'[x] = None
            /\ dialog'[x] # None =>
                 /\ openDialog'[x] = dialog'[x]
                 /\ dialog'[x] \in devices'[x] \/ orphaned'[x]
      BY <2>4, <2>5 DEF DialogOK
    <3>2. link'[b] \in Linked => joins'[b] # 0
      BY <2>5 DEF DialogOK
    <3> HIDE DEF DashboardTypeOK
    <3> QED
      BY <2>2, <2>3, <2>5, <3>1, <3>2 DEF DialogOK
<1>6. CASE Dialogs(b)
  <2>1. ASSUME NEW m \in Macs, ShowDeviceDetails(b, m)
        PROVE  DialogOK'
    BY <2>1 DEF ShowDeviceDetails, DialogOK
  <2>2. CASE Cancel(b) \/ Escape(b)
    BY <2>2 DEF Cancel, Escape, DialogOK
  <2> QED
    BY <1>6, <2>1, <2>2 DEF Dialogs
<1> QED
  BY <1>1, <1>2, <1>3, <1>4, <1>5, <1>6 DEF Browse, Dialogs

-----------------------------------------------------------------------------
(* Agreement: what a step leaves of it for one connection and one device    *)

(* As far as b and m are concerned the notifications are the same.          *)
SameNews(b, m) ==
  /\ \A n \in Pending(b, m)' : \E x \in Pending(b, m) : x.is = n.is
  /\ Pending(b, m)' = {} => Pending(b, m) = {}

SameLink(b) ==
  /\ link'[b] = link[b]
  /\ snapshot'[b] = snapshot[b]
  /\ channel'[b] = channel[b]
  /\ devices'[b] = devices[b]

LEMMA AgreementFrame ==
  ASSUME NEW b \in Browsers, NEW m \in Macs, AgreementOK(b, m),
         SameLink(b), SameNews(b, m), m \in known' <=> m \in known
  PROVE  AgreementOK(b, m)'
<1>1. \A n \in Pending(b, m)' : n.is = "DeviceUpserted" <=> m \in known'
  BY DEF AgreementOK, SameNews
<1>2. link'[b] = "read" => (m \in snapshot'[b] <=> m \in known')
  BY DEF AgreementOK, SameLink
<1>3. link'[b] = "live" /\ Pending(b, m)' = {} =>
        Agrees(channel'[b], devices'[b], m, m \in known')
  <2>1. (m \in known') = (m \in known)
    OBVIOUS
  <2> QED
    BY <2>1 DEF AgreementOK, SameLink, SameNews
<1> QED
  BY <1>1, <1>2, <1>3 DEF AgreementOK

LEMMA SameNotices ==
  ASSUME notices' = notices, NEW b, NEW m
  PROVE  SameNews(b, m)
<1>1. Pending(b, m)' = Pending(b, m)
  BY DEF Pending, Concerns
<1> QED
  BY <1>1 DEF SameNews

(* A change of x makes a notification.                                      *)
LEMMA AnnounceAgreement ==
  ASSUME Types, AgreementsOK,
         NEW who, NEW x \in Macs, NEW kind \in {"DeviceUpserted", "DeviceRemoved"},
         Announce(who, kind, x),
         UNCHANGED <<link, snapshot, channel, devices>>,
         known' = IF kind = "DeviceUpserted" THEN known \cup {x} ELSE known \ {x}
  PROVE  AgreementsOK'
<1> SUFFICES ASSUME NEW b \in Browsers, link'[b] \in Linked,
                    NEW m \in Macs \ raced'[b]
             PROVE  AgreementOK(b, m)'
  BY DEF AgreementsOK
<1> DEFINE new == [by |-> who, is |-> kind, mac |-> x, begun |-> FALSE, to |-> {}]
<1>1. notices' = notices \cup {new}
  BY DEF Announce
<1>2. new.is = kind /\ new.mac = x /\ ~new.begun
  OBVIOUS
<1> HIDE DEF new
<1>3. raced'[b] = IF Overlap(b, x, kind) THEN raced[b] \cup {x} ELSE raced[b]
  BY DEF Announce
<1>4. m \in Macs \ raced[b] /\ (m = x => ~Overlap(b, x, kind))
  BY <1>3
<1>5. AgreementOK(b, m)
  BY <1>4 DEF AgreementsOK
<1>6. SameLink(b)
  BY DEF SameLink
<1>7. CASE m # x
  <2>1. Pending(b, m)' = Pending(b, m)
    BY <1>1, <1>2, <1>7 DEF Pending, Concerns
  <2>2. m \in known' <=> m \in known
    BY <1>7
  <2> QED
    BY <1>5, <1>6, <2>1, <2>2, AgreementFrame DEF SameNews
<1>8. CASE m = x
  <2>1. link[b] # "read" /\ \A n \in Pending(b, x) : n.is = kind
    BY <1>4, <1>8 DEF Overlap, Pending
  <2>2. Pending(b, x)' = Pending(b, x) \cup {new}
    BY <1>1, <1>2 DEF Pending, Concerns
  <2>3. \A n \in Pending(b, x)' : n.is = kind
    BY <1>2, <2>1, <2>2
  <2>4. kind = "DeviceUpserted" <=> x \in known'
    OBVIOUS
  <2>5. Pending(b, x)' # {}
    BY <2>2
  <2> QED
    BY <1>6, <1>8, <2>1, <2>3, <2>4, <2>5 DEF AgreementOK, SameLink
<1> QED
  BY <1>7, <1>8

LEMMA ChangeAgreement ==
  ASSUME Types, AgreementsOK, Changes
  PROVE  AgreementsOK'
<1>1. ASSUME NEW c \in Contacts, Arrival(c)
      PROVE  AgreementsOK'
  <2>1. known' = known
    BY <1>1 DEF Arrival, Arrive
  <2> QED
    BY <1>1, <2>1, AgreementFrame, SameNotices
       DEF Arrival, hubVars, AgreementsOK, SameLink
<1>2. ASSUME NEW c \in Contacts, UpdateOrAdd(c)
      PROVE  AgreementsOK'
  <2>1. about[c] \in Macs
    BY <1>2 DEF UpdateOrAdd, Record, Types, KnownTypeOK
  <2> QED
    BY <1>2, <2>1, AnnounceAgreement DEF UpdateOrAdd, Record
<1>3. ASSUME NEW k \in Removals, NEW m \in Macs, RemoveDevice(k, m)
      PROVE  AgreementsOK'
  BY <1>3, AnnounceAgreement DEF RemoveDevice, Forget
<1> QED
  BY <1>1, <1>2, <1>3 DEF Changes

(* A notification that still concerns a connection goes on doing so.        *)
LEMMA ReplaceNews ==
  ASSUME NEW b, NEW m, NEW n \in notices, NEW r,
         notices' = (notices \ {n}) \cup {r},
         r.is = n.is, r.mac = n.mac, Concerns(r, b) <=> Concerns(n, b)
  PROVE  SameNews(b, m)
<1>1. \A x \in Pending(b, m)' : \E y \in Pending(b, m) : y.is = x.is
  BY DEF Pending, Concerns
<1>2. n \in Pending(b, m) => r \in Pending(b, m)'
  BY DEF Pending, Concerns
<1>3. \A x \in Pending(b, m) : x = n \/ x \in Pending(b, m)'
  BY DEF Pending, Concerns
<1> QED
  BY <1>1, <1>2, <1>3 DEF SameNews

LEMMA NotifyAgreement ==
  ASSUME Types, SendsOK, AgreementsOK, Notify
  PROVE  AgreementsOK'
<1> SUFFICES ASSUME NEW b \in Browsers, link'[b] \in Linked,
                    NEW m \in Macs \ raced'[b]
             PROVE  AgreementOK(b, m)'
  BY DEF AgreementsOK
<1>1. UNCHANGED <<known, link, snapshot, devices, raced>>
  BY DEF Notify, BeginSend, Write, EndSend, vars
<1>2. AgreementOK(b, m)
  BY <1>1 DEF AgreementsOK
<1>3. PICK n \in notices :
        BeginSend(n) \/ (\E x \in Browsers : Write(n, x)) \/ EndSend(n)
  BY DEF Notify
<1>4. n \in Notice
  BY DEF Types, DashboardTypeOK
<1>5. CASE BeginSend(n)
  <2> DEFINE r == [n EXCEPT !.begun = TRUE, !.to = Connections]
  <2>1. r.is = n.is /\ r.mac = n.mac /\ r.begun /\ r.to = Connections
    BY <1>4 DEF Notice
  <2>2. notices' = (notices \ {n}) \cup {r} /\ ~n.begun /\ channel' = channel
    BY <1>5 DEF BeginSend
  <2> HIDE DEF r
  <2>3. Concerns(r, b) /\ Concerns(n, b)
    BY <1>1, <2>1, <2>2 DEF Concerns, Connections
  <2>4. SameNews(b, m)
    BY <2>1, <2>2, <2>3, ReplaceNews
  <2> QED
    BY <1>1, <1>2, <2>2, <2>4, AgreementFrame DEF SameLink
<1>6. ASSUME NEW x \in Browsers, Write(n, x)
      PROVE  AgreementOK(b, m)'
  <2> DEFINE r == [n EXCEPT !.to = @ \ {x}]
             msg == [is |-> n.is, mac |-> n.mac]
  <2>1. r.is = n.is /\ r.mac = n.mac /\ r.begun = n.begun /\ r.to = n.to \ {x}
    BY <1>4 DEF Notice
  <2>2. /\ notices' = (notices \ {n}) \cup {r}
        /\ n.begun /\ x \in n.to
        /\ channel' = [channel EXCEPT ![x] = Append(@, msg)]
    BY <1>6 DEF Write
  <2>3. msg \in Message /\ msg.is = n.is /\ msg.mac = n.mac
    BY <1>4 DEF Notice, Message
  <2> HIDE DEF r, msg
  <2>4. CASE b # x
    <3>1. Concerns(r, b) <=> Concerns(n, b)
      BY <2>1, <2>4 DEF Concerns
    <3>2. SameNews(b, m)
      BY <2>1, <2>2, <3>1, ReplaceNews
    <3>3. channel'[b] = channel[b]
      BY <2>2, <2>4 DEF Types, DashboardTypeOK
    <3> QED
      BY <1>1, <1>2, <3>2, <3>3, AgreementFrame DEF SameLink
  <2>5. CASE b = x
    <3>1. ~Concerns(r, b) /\ Concerns(n, b)
      BY <2>1, <2>2, <2>5 DEF Concerns
    <3>2. \A y \in Pending(b, m)' : y \in Pending(b, m)
      BY <2>2, <3>1 DEF Pending, Concerns
    <3>3. n.mac # m /\ Pending(b, m)' = {} => Pending(b, m) = {}
      BY <2>2 DEF Pending, Concerns
    <3>4. channel'[b] = Append(channel[b], msg) /\ channel[b] \in Seq(Message)
      BY <2>2, <2>5 DEF Types, DashboardTypeOK
    <3>5. n.mac = m => (n.is = "DeviceUpserted" <=> m \in known)
      BY <1>2, <3>1 DEF AgreementOK, Pending
    <3>6. n.is # "DevicesSnapshot"
      BY <1>4 DEF Notice
    <3>7. ASSUME link[b] = "live", Pending(b, m)' = {}
          PROVE  Agrees(channel'[b], devices[b], m, m \in known)
      <4>1. CASE n.mac = m
        BY <2>3, <3>4, <3>5, <3>6, <4>1, AgreesAppend DEF About, Lists
      <4>2. CASE n.mac # m
        <5>1. Agrees(channel[b], devices[b], m, m \in known)
          BY <1>2, <3>3, <3>7, <4>2 DEF AgreementOK
        <5> QED
          BY <2>3, <3>4, <3>6, <4>2, <5>1, AgreesAppend DEF About
      <4> QED
        BY <4>1, <4>2
    <3> QED
      BY <1>1, <1>2, <3>2, <3>7 DEF AgreementOK
  <2> QED
    BY <2>4, <2>5
<1>7. CASE EndSend(n)
  <2>1. ~Concerns(n, b) /\ notices' = notices \ {n} /\ channel' = channel
    BY <1>7 DEF EndSend, Concerns
  <2>2. Pending(b, m)' = Pending(b, m)
    BY <2>1 DEF Pending, Concerns
  <2> QED
    BY <1>1, <1>2, <2>1, <2>2, AgreementFrame DEF SameLink, SameNews
<1> QED
  BY <1>3, <1>5, <1>6, <1>7

(* What concerns the other connections when one comes or goes.              *)
LEMMA OtherNews ==
  ASSUME Types, NEW b \in Browsers, NEW x \in Browsers \ {b}, NEW m \in Macs,
         Join(b) \/ LoseConnection(b)
  PROVE  SameNews(x, m)
<1> USE DEF Types, DashboardTypeOK
<1>0. \A n \in notices : n \in Notice
  OBVIOUS
<1>1. \A n \in notices' : \E y \in notices :
        n.mac = y.mac /\ n.is = y.is /\ (Concerns(n, x) <=> Concerns(y, x))
  <2>1. CASE Join(b)
    <3>1. PICK caught \in SUBSET {n \in notices : n.begun} :
            notices' = (notices \ caught)
              \cup {[n EXCEPT !.to = @ \cup {b}] : n \in caught}
      BY <2>1 DEF Join
    <3> TAKE n \in notices'
    <3>2. CASE n \in notices
      BY <3>2
    <3>3. CASE n \notin notices
      <4>1. PICK y \in caught : n = [y EXCEPT !.to = @ \cup {b}]
        BY <3>1, <3>3
      <4>2. y \in notices /\ y \in Notice
        BY <1>0, <3>1
      <4>3. n.mac = y.mac /\ n.is = y.is /\ n.begun = y.begun /\ n.to = y.to \cup {b}
        BY <4>1, <4>2 DEF Notice
      <4> QED
        BY <4>2, <4>3 DEF Concerns
    <3> QED
      BY <3>2, <3>3
  <2>2. CASE LoseConnection(b)
    <3> TAKE n \in notices'
    <3>1. PICK y \in notices : n = [y EXCEPT !.to = @ \ {b}]
      BY <2>2 DEF LoseConnection
    <3> QED
      BY <1>0, <3>1 DEF Notice, Concerns
  <2> QED
    BY <2>1, <2>2
<1>2. \A y \in notices : \E n \in notices' :
        n.mac = y.mac /\ n.is = y.is /\ (Concerns(n, x) <=> Concerns(y, x))
  <2>1. CASE Join(b)
    <3>1. PICK caught \in SUBSET {n \in notices : n.begun} :
            notices' = (notices \ caught)
              \cup {[n EXCEPT !.to = @ \cup {b}] : n \in caught}
      BY <2>1 DEF Join
    <3> TAKE y \in notices
    <3>2. CASE y \in caught
      <4>1. [y EXCEPT !.to = @ \cup {b}] \in notices'
        BY <3>1, <3>2
      <4> QED
        BY <1>0, <4>1 DEF Notice, Concerns
    <3>3. CASE y \notin caught
      BY <3>1, <3>3
    <3> QED
      BY <3>2, <3>3
  <2>2. CASE LoseConnection(b)
    <3> TAKE y \in notices
    <3>1. [y EXCEPT !.to = @ \ {b}] \in notices'
      BY <2>2 DEF LoseConnection
    <3> QED
      BY <1>0, <3>1 DEF Notice, Concerns
  <2> QED
    BY <2>1, <2>2
<1> HIDE DEF Types, DashboardTypeOK
<1>3. \A n \in Pending(x, m)' : \E y \in Pending(x, m) : y.is = n.is
  BY <1>1 DEF Pending, Concerns
<1>4. Pending(x, m)' = {} => Pending(x, m) = {}
  BY <1>2 DEF Pending, Concerns
<1> QED
  BY <1>3, <1>4 DEF SameNews

LEMMA OthersAgree ==
  ASSUME Types, AgreementsOK, NEW b \in Browsers, Browse(b),
         NEW x \in Browsers \ {b}, link'[x] \in Linked, NEW m \in Macs \ raced'[x]
  PROVE  AgreementOK(x, m)'
<1>1. SameLink(x) /\ raced'[x] = raced[x] /\ known' = known
  BY DEF Browse, Join, ReadSnapshot, SendSnapshot, LoseConnection, FallBack,
         HandleMessage, ShowDeviceDetails, Cancel, Escape, vars, SameLink, Types,
         DashboardTypeOK
<1>2. SameNews(x, m)
  <2>1. CASE Join(b) \/ LoseConnection(b)
    BY <2>1, OtherNews
  <2>2. CASE ~(Join(b) \/ LoseConnection(b))
    <3>1. notices' = notices
      BY <2>2 DEF Browse, ReadSnapshot, SendSnapshot, FallBack, HandleMessage,
         ShowDeviceDetails, Cancel, Escape
    <3> QED
      BY <3>1, SameNotices
  <2> QED
    BY <2>1, <2>2
<1>3. AgreementOK(x, m)
  BY <1>1 DEF AgreementsOK, SameLink
<1> QED
  BY <1>1, <1>2, <1>3, AgreementFrame

(* The notifications that wait for a new connection and are outdated make   *)
(* their devices raced.                                                     *)
LEMMA JoinAgreement ==
  ASSUME Types, SendsOK, NEW b \in Browsers, Join(b), NEW m \in Macs \ raced'[b]
  PROVE  AgreementOK(b, m)'
<1> USE DEF Types, DashboardTypeOK
<1>0. \A n \in notices : n \in Notice
  OBVIOUS
<1>1. PICK caught \in SUBSET {n \in notices : n.begun} :
        /\ notices' = (notices \ caught)
             \cup {[n EXCEPT !.to = @ \cup {b}] : n \in caught}
        /\ raced' = [raced EXCEPT ![b] = {n.mac : n \in {x \in notices :
             (~x.begun \/ x \in caught) /\ Outdated(x)}}]
  BY DEF Join
<1>2. link[b] = "off" /\ link'[b] = "joined" /\ known' = known
  BY DEF Join, vars
<1>3. \A x \in notices : (~x.begun \/ x \in caught) /\ Outdated(x) => x.mac # m
  <2>1. raced'[b] = {n.mac : n \in {x \in notices :
             (~x.begun \/ x \in caught) /\ Outdated(x)}}
    BY <1>1
  <2> QED
    BY <2>1
<1> HIDE DEF Types, DashboardTypeOK
<1>4. ASSUME NEW n \in Pending(b, m)'
      PROVE  n.is = "DeviceUpserted" <=> m \in known
  <2>1. n \in notices' /\ n.mac = m /\ (~n.begun \/ b \in n.to)
    BY DEF Pending, Concerns
  <2>2. \A x \in notices : (~x.begun \/ x \in caught) /\ x.mac = m =>
          (x.is = "DeviceUpserted" <=> m \in known)
    BY <1>0, <1>3 DEF Outdated, Notice
  <2>3. CASE n \in notices \ caught
    <3>1. b \notin n.to
      BY <1>2, <2>3 DEF SendsOK, Connections, Linked
    <3> QED
      BY <2>1, <2>2, <2>3, <3>1
  <2>4. CASE n \notin notices \ caught
    <3>1. PICK x \in caught : n = [x EXCEPT !.to = @ \cup {b}]
      BY <1>1, <2>1, <2>4
    <3>2. n.is = x.is /\ n.mac = x.mac
      BY <1>0, <1>1, <3>1 DEF Notice
    <3> QED
      BY <1>1, <2>1, <2>2, <3>2
  <2> QED
    BY <2>3, <2>4
<1> QED
  BY <1>2, <1>4 DEF AgreementOK

LEMMA BrowseAgreement ==
  ASSUME Types, SendsOK, AgreementsOK, NEW b \in Browsers, Browse(b)
  PROVE  AgreementsOK'
<1> SUFFICES ASSUME link'[b] \in Linked, NEW m \in Macs \ raced'[b]
             PROVE  AgreementOK(b, m)'
  BY OthersAgree DEF AgreementsOK
<1>1. CASE Join(b)
  BY <1>1, JoinAgreement
<1>2. CASE LoseConnection(b) \/ FallBack(b)
  BY <1>2 DEF LoseConnection, FallBack, Linked, Types, DashboardTypeOK
<1>3. CASE ReadSnapshot(b) \/ SendSnapshot(b) \/ HandleMessage(b) \/ Dialogs(b)
  <2>1. UNCHANGED <<known, notices, raced>>
    BY <1>3 DEF ReadSnapshot, SendSnapshot, HandleMessage, Dialogs,
       ShowDeviceDetails, Cancel, Escape, vars
  <2>2. Pending(b, m)' = Pending(b, m)
    BY <2>1 DEF Pending, Concerns
  <2>3. link[b] \in Linked
    BY <1>3 DEF ReadSnapshot, SendSnapshot, HandleMessage, Dialogs,
       ShowDeviceDetails, Cancel, Escape, Linked
  <2>4. AgreementOK(b, m)
    BY <2>1, <2>3 DEF AgreementsOK
  <2>5. CASE ReadSnapshot(b)
    <3>1. link'[b] = "read" /\ snapshot'[b] = known
      BY <2>5 DEF ReadSnapshot, Types, DashboardTypeOK
    <3> QED
      BY <2>1, <2>2, <2>4, <3>1 DEF AgreementOK
  <2>6. CASE SendSnapshot(b)
    <3> DEFINE msg == [is |-> "DevicesSnapshot", devices |-> snapshot[b]]
    <3>1. /\ link[b] = "read" /\ link'[b] = "live"
          /\ channel'[b] = Append(channel[b], msg)
          /\ channel[b] \in Seq(Message)
          /\ devices'[b] = devices[b]
      BY <2>6 DEF SendSnapshot, Types, DashboardTypeOK
    <3>2. msg \in Message
      BY DEF Message, Types, DashboardTypeOK
    <3>3. About(msg, m) /\ (Lists(msg, m) <=> m \in known)
      BY <2>4, <3>1 DEF About, Lists, AgreementOK
    <3> HIDE DEF msg
    <3>4. Agrees(channel'[b], devices'[b], m, m \in known)
      BY <3>1, <3>2, <3>3, AgreesAppend
    <3> QED
      BY <2>1, <2>2, <2>4, <3>1, <3>4 DEF AgreementOK
  <2>7. CASE HandleMessage(b)
    <3>1. /\ channel[b] # <<>> /\ channel[b] \in Seq(Message)
          /\ channel'[b] = Tail(channel[b])
          /\ devices'[b] = After(devices[b], Head(channel[b]))
          /\ UNCHANGED <<link, snapshot>>
      BY <2>7 DEF HandleMessage, Types, DashboardTypeOK
    <3>2. Agrees(channel[b], devices[b], m, m \in known) =>
            Agrees(channel'[b], devices'[b], m, m \in known)
      BY <3>1, AgreesTail
    <3> QED
      BY <2>1, <2>2, <2>4, <3>1, <3>2 DEF AgreementOK
  <2>8. CASE Dialogs(b)
    <3>1. SameLink(b)
      BY <2>8 DEF Dialogs, ShowDeviceDetails, Cancel, Escape, SameLink
    <3> QED
      BY <2>1, <2>4, <3>1, AgreementFrame, SameNotices
  <2> QED
    BY <1>3, <2>5, <2>6, <2>7, <2>8
<1> QED
  BY <1>1, <1>2, <1>3 DEF Browse, Dialogs

-----------------------------------------------------------------------------
(* The theorems *)

LEMMA InitOK == DashboardInit => IInv
<1> SUFFICES ASSUME DashboardInit PROVE IInv
  OBVIOUS
<1>1. Types
  BY InitTypes
<1>2. notices = {}
  BY DEF DashboardInit
<1>3. \A b \in Browsers : link[b] = "off"
  BY DEF DashboardInit
<1>4. DialogOK
  BY DEF DashboardInit, DialogOK, Linked
<1> QED
  BY <1>1, <1>2, <1>3, <1>4 DEF IInv, Types, SendsOK, AgreementsOK, Linked

LEMMA NextOK == IInv /\ [DashboardNext]_dashboardVars => IInv'
<1> SUFFICES ASSUME IInv, [DashboardNext]_dashboardVars PROVE IInv'
  OBVIOUS
<1> USE DEF IInv
<1>0. Types
  BY DEF Types
<1>1. CASE Changes
  <2>1. Types' /\ SendsOK' /\ AgreementsOK'
    BY <1>0, <1>1, ChangeTypes, ChangeSends, ChangeAgreement DEF Changes
  <2>2. DialogOK'
    <3>1. UNCHANGED <<devices, dialogVars, link, joins>>
      BY <1>1 DEF Changes, Arrival, UpdateOrAdd, RemoveDevice, hubVars
    <3> QED
      BY <3>1, OtherDialogs DEF DialogOK
  <2> QED
    BY <2>1, <2>2 DEF Types
<1>2. CASE Notify
  <2>1. Types' /\ SendsOK' /\ AgreementsOK'
    BY <1>0, <1>2, NotifyTypes, NotifySends, NotifyAgreement
  <2>2. DialogOK'
    <3>1. UNCHANGED <<devices, dialogVars, link, joins>>
      BY <1>2 DEF Notify, BeginSend, Write, EndSend
    <3> QED
      BY <3>1, OtherDialogs DEF DialogOK
  <2> QED
    BY <2>1, <2>2 DEF Types
<1>3. ASSUME NEW b \in Browsers, Browse(b)
      PROVE  IInv'
  BY <1>0, <1>3, BrowseTypes, BrowseSends, BrowseDialogs, BrowseAgreement DEF Types
<1>4. CASE UNCHANGED dashboardVars
  <2> USE <1>4 DEF dashboardVars, hubVars, dialogVars, vars
  <2>1. KnownTypeOK' /\ DashboardTypeOK'
    BY DEF KnownTypeOK, DashboardTypeOK
  <2>2. SendsOK'
    BY DEF SendsOK, Connections
  <2>3. DialogOK'
    BY DEF DialogOK
  <2>4. AgreementsOK'
    BY AgreementFrame, SameNotices DEF AgreementsOK, SameLink
  <2> QED
    BY <2>1, <2>2, <2>3, <2>4
<1> QED
  BY <1>1, <1>2, <1>3, <1>4 DEF DashboardNext, Changes

(* The inductive invariant: for every connection and every device whose     *)
(* changes have not overlapped on it, what is still to come is right.       *)
THEOREM Invariance == DashboardSpec => []IInv
BY InitOK, NextOK, PTL DEF DashboardSpec

(* Every variable keeps its type, and a lost connection has no messages.    *)
THEOREM TypeCorrect == DashboardSpec => []DashboardTypeOK
<1>1. IInv => DashboardTypeOK
  BY DEF IInv
<1> QED
  BY Invariance, <1>1, PTL

LEMMA SettledIsRight == IInv => SettledDashboardAgrees
<1> SUFFICES ASSUME IInv, NEW b \in Browsers, Settled(b), NEW m \in Macs \ raced[b]
             PROVE  m \in devices[b] <=> m \in known
  BY DEF SettledDashboardAgrees
<1>1. link[b] = "live" /\ channel[b] = <<>> /\ Pending(b, m) = {}
  BY DEF Settled, Pending
<1>2. Agrees(channel[b], devices[b], m, m \in known)
  BY <1>1 DEF IInv, AgreementsOK, AgreementOK, Linked
<1>3. 1..Len(channel[b]) = {}
  BY <1>1
<1> QED
  BY <1>2, <1>3 DEF Agrees

(* A connected dashboard with nothing left to receive shows exactly the     *)
(* known devices, but for those whose changes overlapped.                   *)
THEOREM SettledCorrect == DashboardSpec => []SettledDashboardAgrees
BY Invariance, SettledIsRight, PTL

(* A details dialog stays open only for devices that are known.             *)
THEOREM DialogCorrect == DashboardSpec => []DialogShowsKnownDevice
<1>1. IInv => DialogShowsKnownDevice
  BY SettledIsRight, DashboardAssumption
     DEF IInv, DialogOK, DialogShowsKnownDevice, SettledDashboardAgrees
<1> QED
  BY Invariance, <1>1, PTL

(* A dialog is closed by its user or by the removal of its own device.      *)
THEOREM DialogCloses == DashboardSpec => DialogClosesForItsDevice
<1> DEFINE Closes ==
      \A b \in Browsers : dialog[b] # None /\ dialog'[b] # dialog[b] =>
        Cancel(b) \/ Escape(b) \/ dialog[b] \in devices[b] \ devices'[b]
<1>1. IInv /\ [DashboardNext]_dashboardVars => [Closes]_dashboardVars
  <2> SUFFICES ASSUME IInv, DashboardNext, NEW b \in Browsers,
                      dialog[b] # None, dialog'[b] # dialog[b]
               PROVE  Cancel(b) \/ Escape(b) \/ dialog[b] \in devices[b] \ devices'[b]
    OBVIOUS
  <2> USE DEF IInv, DashboardTypeOK
  <2>1. PICK x \in Browsers : Browse(x)
    BY DEF DashboardNext, Arrival, UpdateOrAdd, RemoveDevice, Notify, BeginSend,
           Write, EndSend, hubVars, dialogVars
  <2>2. x = b
    BY <2>1 DEF Browse, Join, ReadSnapshot, SendSnapshot, LoseConnection, FallBack,
       HandleMessage, CloseDialogForDevice, ShowDeviceDetails, Cancel, Escape,
       dialogVars
  <2>3. HandleMessage(b) \/ Cancel(b) \/ Escape(b)
    BY <2>1, <2>2 DEF Browse, Join, ReadSnapshot, SendSnapshot, LoseConnection,
       FallBack, ShowDeviceDetails, dialogVars
  <2>4. CASE HandleMessage(b)
    <3> DEFINE msg == Head(channel[b])
    <3>1. /\ msg.is = "DeviceRemoved" /\ msg.mac \in devices[b]
          /\ openDialog[b] = msg.mac
          /\ devices'[b] = After(devices[b], msg)
      BY <2>4 DEF HandleMessage, CloseDialogForDevice
    <3>2. openDialog[b] = dialog[b]
      BY DEF DialogOK
    <3> QED
      BY <3>1, <3>2 DEF After
  <2> QED
    BY <2>3, <2>4
<1> QED
  BY Invariance, <1>1, PTL DEF DashboardSpec, DialogClosesForItsDevice
-----------------------------------------------------------------------------
(* The composition with the registry                                        *)

(* DeviceManagerService does to the registry what KnownDevices allows and   *)
(* nothing else: a change is one of KnownDevices, and a notification, a     *)
(* connection, a snapshot or a dialog leaves the devices alone.             *)
THEOREM RegistryIsKept == DashboardSpec => Spec
<1>1. DashboardInit => Init
  BY DEF DashboardInit
<1>2. [DashboardNext]_dashboardVars => [Next]_vars
  <2> SUFFICES ASSUME [DashboardNext]_dashboardVars
               PROVE  Next \/ UNCHANGED vars
    OBVIOUS
  <2>1. ASSUME NEW c \in Contacts, Arrival(c) \/ UpdateOrAdd(c)
        PROVE  Next
    BY <2>1 DEF Arrival, UpdateOrAdd, Next
  <2>2. ASSUME NEW k \in Removals, NEW m \in Macs, RemoveDevice(k, m)
        PROVE  Next
    BY <2>2 DEF RemoveDevice, Next
  <2>3. CASE Notify
    BY <2>3 DEF Notify, BeginSend, Write, EndSend
  <2>4. ASSUME NEW b \in Browsers, Browse(b)
        PROVE  UNCHANGED vars
    BY <2>4 DEF Browse, Join, ReadSnapshot, SendSnapshot, LoseConnection, FallBack,
                HandleMessage, ShowDeviceDetails, Cancel, Escape
  <2>5. CASE UNCHANGED dashboardVars
    BY <2>5 DEF dashboardVars
  <2> QED
    BY <2>1, <2>2, <2>3, <2>4, <2>5 DEF DashboardNext
<1> QED
  BY <1>1, <1>2, PTL DEF DashboardSpec, Spec
=============================================================================
