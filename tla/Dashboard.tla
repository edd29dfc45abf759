----------------------------- MODULE Dashboard -----------------------------
(***************************************************************************)
(* The live device list: DeviceManagerService and DeviceHub on the server,  *)
(* Home.razor in every browser, SignalR between them.                       *)
(*                                                                         *)
(* The registry is taken at its word (KnownDevices, which DeviceRegistry    *)
(* implements).  Here is what it does after a change: it tells every        *)
(* connection, one at a time and without ordering one change against        *)
(* another, while a connection that has just been made is sent a snapshot   *)
(* read at some earlier moment.  Each connection keeps its messages in      *)
(* order; when it is lost they are lost, and the browser connects again.    *)
(***************************************************************************)
EXTENDS KnownDevices, Naturals, Sequences

CONSTANTS
  Browsers,   \* dashboards that are open
  Removals,   \* calls of RemoveDeviceAsync
  MaxJoins,   \* bound: connections each browser makes
  MaxDetails  \* bound: dialogs each browser opens

VARIABLES
  removed,   \* removals that have been made
  notices,   \* notifications that have not been written to every connection
  link,      \* state of each browser's hub connection
  joins,     \* how many connections it has made
  snapshot,  \* what OnConnectedAsync has read for it and not sent yet
  channel,   \* messages on their way to the browser
  devices,   \* _devices: what it shows
  dialog,    \* the device whose details dialog is open in it
  openDialog,\* the device of _openDialogComponent, which may be closed by now
  cards,     \* devices off the list whose cards may still be on the screen
  details,   \* dialogs opened so far
  raced,     \* history: changes on this connection that overlapped
  orphaned   \* history: the dialog was opened from such a card, or a snapshot
             \* has come without its device

dialogVars == <<dialog, openDialog, cards, details, orphaned>>
hubVars == <<removed, notices, link, joins, snapshot, channel, devices, raced,
             dialogVars>>
dashboardVars == <<vars, hubVars>>

ASSUME DashboardAssumption ==
  /\ MaxJoins \in Nat
  /\ MaxDetails \in Nat
  /\ Contacts \cap Removals = {}
  /\ None \notin Macs

(* A notification: begun once the enumeration of the connections has, then  *)
(* to those connections that have not been written to.                      *)
Notice == [by : Contacts \cup Removals, is : {"DeviceUpserted", "DeviceRemoved"},
           mac : Macs, begun : BOOLEAN, to : SUBSET Browsers]

Message == [is : {"DeviceUpserted", "DeviceRemoved"}, mac : Macs]
             \cup [is : {"DevicesSnapshot"}, devices : SUBSET Macs]

Linked == {"joined", "read", "live"}

DashboardTypeOK ==
  /\ removed \subseteq Removals
  /\ notices \subseteq Notice
  /\ link \in [Browsers -> {"off", "static"} \cup Linked]
  /\ joins \in [Browsers -> 0..MaxJoins]
  /\ snapshot \in [Browsers -> SUBSET Macs]
  /\ channel \in [Browsers -> Seq(Message)]
  /\ devices \in [Browsers -> SUBSET Macs]
  /\ raced \in [Browsers -> SUBSET Macs]
  /\ dialog \in [Browsers -> Macs \cup {None}]
  /\ openDialog \in [Browsers -> Macs \cup {None}]
  /\ cards \in [Browsers -> SUBSET Macs]
  /\ details \in [Browsers -> 0..MaxDetails]
  /\ orphaned \in [Browsers -> BOOLEAN]
  /\ \A b \in Browsers : link[b] \notin Linked => channel[b] = <<>>

DashboardInit ==
  /\ Init
  /\ removed = {}
  /\ notices = {}
  /\ link = [b \in Browsers |-> "off"]
  /\ joins = [b \in Browsers |-> 0]
  /\ snapshot = [b \in Browsers |-> {}]
  /\ channel = [b \in Browsers |-> <<>>]
  /\ devices = [b \in Browsers |-> {}]
  /\ raced = [b \in Browsers |-> {}]
  /\ dialog = [b \in Browsers |-> None]
  /\ openDialog = [b \in Browsers |-> None]
  /\ cards = [b \in Browsers |-> {}]
  /\ details = [b \in Browsers |-> 0]
  /\ orphaned = [b \in Browsers |-> FALSE]

-----------------------------------------------------------------------------
(* DeviceManagerService: a change, then its notification *)

Concerns(n, b) == ~n.begun \/ b \in n.to

(* A change of m meets a notification of the opposite change that may still *)
(* reach b, or a snapshot for b that was read before it.                    *)
Overlap(b, m, kind) ==
  \/ link[b] = "read"
  \/ \E n \in notices : n.mac = m /\ n.is # kind /\ Concerns(n, b)

Announce(who, kind, m) ==
  /\ notices' = notices \cup
       {[by |-> who, is |-> kind, mac |-> m, begun |-> FALSE, to |-> {}]}
  /\ raced' = [b \in Browsers |->
       IF Overlap(b, m, kind) THEN raced[b] \cup {m} ELSE raced[b]]

Arrival(c) ==
  /\ Arrive(c)
  /\ UNCHANGED hubVars

UpdateOrAdd(c) ==
  /\ Record(c)
  /\ Announce(c, "DeviceUpserted", about[c])
  /\ UNCHANGED <<removed, link, joins, snapshot, channel, devices, dialogVars>>

RemoveDevice(k, m) ==
  /\ k \notin removed
  /\ m \in known
  /\ Forget(m)
  /\ removed' = removed \cup {k}
  /\ Announce(k, "DeviceRemoved", m)
  /\ UNCHANGED <<link, joins, snapshot, channel, devices, dialogVars>>

Connections == {b \in Browsers : link[b] \in Linked}

BeginSendToEveryone(n) ==
  /\ ~n.begun
  /\ notices' = (notices \ {n})
       \cup {[n EXCEPT !.begun = TRUE, !.to = Browsers]}
  /\ UNCHANGED <<vars, removed, link, joins, snapshot, channel, devices, raced,
                 dialogVars>>

(* Clients.All.SendAsync                                                    *)
BeginSend(n) ==
  /\ ~n.begun
  /\ notices' = (notices \ {n})
       \cup {[n EXCEPT !.begun = TRUE, !.to = Connections]}
  /\ UNCHANGED <<vars, removed, link, joins, snapshot, channel, devices, raced,
                 dialogVars>>

Write(n, b) ==
  /\ n.begun
  /\ b \in n.to
  /\ notices' = (notices \ {n}) \cup {[n EXCEPT !.to = @ \ {b}]}
  /\ channel' = [channel EXCEPT ![b] = Append(@, [is |-> n.is, mac |-> n.mac])]
  /\ UNCHANGED <<vars, removed, link, joins, snapshot, devices, raced, dialogVars>>

EndSend(n) ==
  /\ n.begun
  /\ n.to = {}
  /\ notices' = notices \ {n}
  /\ UNCHANGED <<vars, removed, link, joins, snapshot, channel, devices, raced,
                 dialogVars>>

-----------------------------------------------------------------------------
(* DeviceHub *)

Outdated(n) ==
  \/ n.is = "DeviceUpserted" /\ n.mac \notin known
  \/ n.is = "DeviceRemoved" /\ n.mac \in known

(* LinearBackoffRetryPolicy never gives up: a browser that has lost its     *)
(* connection is free to connect again, after some delay.                   *)
NextRetryDelay(b) == joins[b] < MaxJoins

(* SignalR adds the connection to Clients.All before it calls               *)
(* OnConnectedAsync.  A notification that still waits for its turn will     *)
(* reach the new connection, and one whose enumeration is under way may,    *)
(* though a later change has overtaken it.                                  *)
Join(b) ==
  /\ link[b] = "off"
  /\ NextRetryDelay(b)
  /\ joins' = [joins EXCEPT ![b] = @ + 1]
  /\ link' = [link EXCEPT ![b] = "joined"]
  /\ \E caught \in SUBSET {n \in notices : n.begun} :
       /\ notices' = (notices \ caught)
            \cup {[n EXCEPT !.to = @ \cup {b}] : n \in caught}
       /\ raced' = [raced EXCEPT ![b] = {n.mac : n \in {x \in notices :
            (~x.begun \/ x \in caught) /\ Outdated(x)}}]
  /\ UNCHANGED <<vars, removed, snapshot, channel, devices, dialogVars>>

ReadSnapshot(b) ==
  /\ link[b] = "joined"
  /\ link' = [link EXCEPT ![b] = "read"]
  /\ snapshot' = [snapshot EXCEPT ![b] = known]
  /\ UNCHANGED <<vars, removed, notices, joins, channel, devices, raced, dialogVars>>

SendSnapshot(b) ==
  /\ link[b] = "read"
  /\ link' = [link EXCEPT ![b] = "live"]
  /\ snapshot' = [snapshot EXCEPT ![b] = {}]
  /\ channel' = [channel EXCEPT ![b] =
       Append(@, [is |-> "DevicesSnapshot", devices |-> snapshot[b]])]
  /\ UNCHANGED <<vars, removed, notices, joins, devices, raced, dialogVars>>

LoseConnection(b) ==
  /\ link[b] \in Linked
  /\ link' = [link EXCEPT ![b] = "off"]
  /\ snapshot' = [snapshot EXCEPT ![b] = {}]
  /\ channel' = [channel EXCEPT ![b] = <<>>]
  /\ notices' = {[n EXCEPT !.to = @ \ {b}] : n \in notices}
  /\ UNCHANGED <<vars, removed, joins, devices, raced, dialogVars>>

-----------------------------------------------------------------------------
(* Home.razor *)

(* The very first connection fails: the list is fetched once, or stays      *)
(* empty when that fails too, and nothing ever updates it.                  *)
FallBack(b) ==
  /\ link[b] = "off"
  /\ joins[b] = 0
  /\ link' = [link EXCEPT ![b] = "static"]
  /\ \E items \in {known, {}} : devices' = [devices EXCEPT ![b] = items]
  /\ UNCHANGED <<vars, removed, notices, joins, snapshot, channel, raced, dialogVars>>

(* AfterMerging, like BeginSendToEveryone, is a plausible bug: no action    *)
(* uses it.                                                                 *)
AfterMerging(shown, msg) ==
  CASE msg.is = "DevicesSnapshot" -> shown \cup msg.devices
    [] msg.is = "DeviceUpserted"  -> shown \cup {msg.mac}
    [] msg.is = "DeviceRemoved"   -> shown \ {msg.mac}

After(shown, msg) ==
  CASE msg.is = "DevicesSnapshot" -> msg.devices
    [] msg.is = "DeviceUpserted"  -> shown \cup {msg.mac}
    [] msg.is = "DeviceRemoved"   -> shown \ {msg.mac}

CloseNoDialog(b, m) == dialog' = dialog

CloseAnyDialog(b, m) == dialog' = [dialog EXCEPT ![b] = None]

(* The component that is remembered may have been closed by Escape, by its  *)
(* close button or by a removal, of which Home is not told; closing it      *)
(* again does nothing.                                                      *)
CloseDialogForDevice(b, m) ==
  dialog' = IF openDialog[b] = m THEN [dialog EXCEPT ![b] = None] ELSE dialog

(* Upserts and snapshots bring the dialog up to date (UpdateOpenDialog),    *)
(* which changes nothing that is kept here.                                 *)
HandleMessage(b) ==
  /\ channel[b] # <<>>
  /\ LET msg == Head(channel[b])
     IN  /\ devices' = [devices EXCEPT ![b] = After(@, msg)]
         /\ IF msg.is = "DeviceRemoved" /\ msg.mac \in devices[b]
            THEN CloseDialogForDevice(b, msg.mac)
            ELSE UNCHANGED dialog
         /\ orphaned' = [orphaned EXCEPT ![b] = @ \/
              (msg.is = "DevicesSnapshot" /\ dialog[b] \in Macs \ msg.devices)]
         /\ cards' = [cards EXCEPT ![b] = devices[b] \ devices'[b]]
  /\ channel' = [channel EXCEPT ![b] = Tail(@)]
  /\ UNCHANGED <<vars, removed, notices, link, joins, snapshot, raced, openDialog,
                 details>>

-----------------------------------------------------------------------------
(* DeviceDetailsDialog, which lies over the list while it is open.  A click  *)
(* may come from a card that the browser has not taken off the screen yet.  *)

ShowDeviceDetails(b, m) ==
  /\ m \in devices[b] \cup cards[b]
  /\ dialog[b] = None
  /\ details[b] < MaxDetails
  /\ details' = [details EXCEPT ![b] = @ + 1]
  /\ dialog' = [dialog EXCEPT ![b] = m]
  /\ openDialog' = [openDialog EXCEPT ![b] = m]
  /\ orphaned' = [orphaned EXCEPT ![b] = m \notin devices[b]]
  /\ UNCHANGED <<vars, removed, notices, link, joins, snapshot, channel, devices,
                 cards, raced>>

(* The Close button of the dialog.                                          *)
Cancel(b) ==
  /\ dialog[b] # None
  /\ openDialog' = [openDialog EXCEPT ![b] = None]
  /\ dialog' = [dialog EXCEPT ![b] = None]
  /\ UNCHANGED <<vars, removed, notices, link, joins, snapshot, channel, devices,
                 raced, cards, details, orphaned>>

(* Escape, or the close button of the frame: OnDialogClosed is not called.  *)
Escape(b) ==
  /\ dialog[b] # None
  /\ dialog' = [dialog EXCEPT ![b] = None]
  /\ UNCHANGED <<vars, removed, notices, link, joins, snapshot, channel, devices,
                 raced, openDialog, cards, details, orphaned>>

-----------------------------------------------------------------------------
Notify ==
  \E n \in notices :
    \/ BeginSend(n)
    \/ \E b \in Browsers : Write(n, b)
    \/ EndSend(n)

Browse(b) ==
  \/ Join(b)
  \/ ReadSnapshot(b)
  \/ SendSnapshot(b)
  \/ LoseConnection(b)
  \/ FallBack(b)
  \/ HandleMessage(b)
  \/ \E m \in Macs : ShowDeviceDetails(b, m)
  \/ Cancel(b)
  \/ Escape(b)

DashboardNext ==
  \/ \E c \in Contacts : Arrival(c) \/ UpdateOrAdd(c)
  \/ \E k \in Removals, m \in Macs : RemoveDevice(k, m)
  \/ Notify
  \/ \E b \in Browsers : Browse(b)

DashboardSpec == DashboardInit /\ [][DashboardNext]_dashboardVars

-----------------------------------------------------------------------------
(* Safety *)

Settled(b) == link[b] = "live" /\ channel[b] = <<>> /\ notices = {}

(* A connected dashboard that has nothing left to receive shows exactly the *)
(* known devices, but for those of which a removal and a contact, or a      *)
(* change and a snapshot, overlapped on its present connection: whatever    *)
(* went wrong before, connecting again heals it.                            *)
SettledDashboardAgrees ==
  \A b \in Browsers : Settled(b) =>
    \A m \in Macs \ raced[b] : m \in devices[b] <=> m \in known

(* Likewise a details dialog is open for known devices only, unless it was  *)
(* opened too late, or a snapshot has come meanwhile without its device:    *)
(* snapshots close no dialog.                                               *)
DialogShowsKnownDevice ==
  \A b \in Browsers : Settled(b) /\ dialog[b] \in Macs \ raced[b] =>
    dialog[b] \in known \/ orphaned[b]

(* A dialog is never taken away from its user but for the removal of its    *)
(* own device, whatever component Home still remembers.                     *)
DialogClosesForItsDevice ==
  [][\A b \in Browsers : dialog[b] # None /\ dialog'[b] # dialog[b] =>
       Cancel(b) \/ Escape(b) \/ dialog[b] \in devices[b] \ devices'[b]]_dashboardVars

-----------------------------------------------------------------------------
(* What the documents say and overlapping notifications break *)

(* "Removed devices disappear immediately from all connected clients"       *)
(* (Readme.md:533): a connected dashboard that has nothing left to receive  *)
(* shows no device that is not known.                                       *)
RemovedDevicesDisappear ==
  \A b \in Browsers : Settled(b) => devices[b] \subseteq known
=============================================================================
