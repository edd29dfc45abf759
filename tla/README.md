# A verification project for GreeACLocalServer

GreeACLocalServer takes the place of the vendor's cloud for Gree air
conditioners: the devices connect to it over TCP, it answers them, remembers
which of them it has heard of, shows them on a live web page, and can set a
device's name and server over UDP. This directory holds TLA+ models of its
parts, the TLC configurations that check them, and proofs for TLAPS. Paths
below are relative to the repository (`src/src/...` is its `src` directory).

## The system

| Part | Code | State it keeps | Operations |
| --- | --- | --- | --- |
| Device registry | `HeadlessDeviceManagerService`, `DnsResolverService`, `SocketHandlerBackgroundService.OnDeviceConnected` | a `ConcurrentDictionary` from MAC to a mutable `AcDeviceState` | `UpdateOrAddAsync`, `RemoveDeviceAsync`, `RemoveStaleDevicesAsync`, `GetAsync`, `GetAllDeviceStatesAsync` |
| TCP socket server | `SocketHandlerService`, `SocketHandlerBackgroundService`, `EventHandlerService` | `_isRunning`, the cancellation token, the bag of listeners, the certificate, one task per listener and per connection | `Start`, `Stop`, `AcceptClientsLoop`, `HandleClientAsync` |
| Message handler | `MessageHandlerService` | none | `GetResponse` |
| Device controller | `DeviceControllerService`, `DeviceConfigService` | none between operations; the step, the attempt and the key of an operation | query status, set name, set remote host |
| Live dashboard | `DeviceManagerService`, `DeviceHub`, `Home.razor`, `LinearBackoffRetryPolicy` | the hub's connections and their messages, the list in each browser | notify, connect, snapshot, show |
| Details dialog | `DeviceDetailsDialog`, `Home.razor` | the dialog that is open, the component `Home` remembers | open, close, Escape, close for a removal |
| Loading screen | the scripts of `wwwroot`, `App.razor` | counters and percentage of a visit, the count stored for the next one, inline styles | `loadBootResource`, the four hooks |
| Theme service | `ThemeService`, `LocalStorageService`, `MainLayout` | dark and auto mode, the stored theme, the watcher | `Init`, `ToggleTheme`, `OnSystemThemeChanged` |
| TLS certificate | `CryptoService.GetCertificate` | a file | load, create, write |
| Configuration page, Wi-Fi page | `GreeACLocalServer.UI` | forms | user actions |
| HTTP modules and clients, hosting | `Modules/`, `Http*Service`, `Program`, `Infrastructure/` | none | pass-through, wiring |

How they interact. A connection handler of the socket server asks the message
handler for a response, writes it, and raises an event for the device's address;
`SocketHandlerBackgroundService` turns the event into a call of
`UpdateOrAddAsync` that it does not await. The registry resolves the name of the
address, updates its dictionary and calls a hook. With the web interface enabled
the hook (`DeviceManagerService`) tells all hub connections; a new connection
gets a snapshot from the registry. Deletions come in over HTTP. The device
controller is called over HTTP and shares nothing with the other parts but the
configuration. In the browser, Blazor calls the hooks of the loading screen
before and after each of its two runtimes starts; when the layout is rendered
for the first time it starts `ThemeService`, which talks to the browser by
asynchronous calls. Both read the same local storage, as every other tab does.

What is hard about it:

- **Concurrency.** Every contact is a task of its own, nobody awaits it, and the
  update factory of `AddOrUpdate` runs outside the dictionary's locks on a shared
  object. `Start` runs on the thread pool next to the loops it has started and
  next to `Stop`, ordered by a volatile flag only.
- **Ordering.** A contact waits for a name lookup of any length before it is
  recorded. Notifications and snapshots are sent by different tasks. Toggles of the
  theme overlap each other, the start of the service, and changes of the system's
  theme; each has two calls to the browser.
- **Failure.** `Start` may throw half-way. A device may be silent, hang up, reset
  the connection, or send lines behind the one that ends its session. UDP loses,
  delays and duplicates. Browsers lose their connection. The process may crash
  while it writes its certificate. A browser may refuse its storage, and a page may
  be reloaded at any moment.
- **Timeouts and retries.** The controller tries each step three times, from a
  new socket each time; a set command may take effect long after it was given up.

PROJECT.json lists these as hazards, each at its line.

What makes each part correct:

- *Registry*: a record stays with its device; data of one device never reaches
  another; a contact is recorded, once; only a deletion or a sweep forgets.
- *Socket server*: a listener that was started is served until the stop; the stop
  is final and ends every session; a silent device holds up nobody; a contact is
  reported for an answered line only, and for every one.
- *Controller*: success means the device that was found has obeyed; nothing
  happens to a device when management is disabled; every operation ends.
- *Dashboard*: when nothing is on its way, a browser shows the registry's devices;
  a details dialog is open for one of them, and closes for no other one.
- *Loading screen*: the percentage is 100 at the end and not before, and the screen
  goes away whichever runtime starts.
- *Theme*: the loading screen and the components agree on it, also when the page is
  loaded again; what is stored is what is shown; auto mode follows the system.
- *Certificate*: what the server has created it can use again.

## The modules

| Module | Models | Properties |
| --- | --- | --- |
| `KnownDevices` | what the registry promises: a set, atomic operations | the abstract specification |
| `DeviceRegistry` | the registry, one action per shared-memory step | `TypeOK`, `RecordsFiledUnderTheirMac`, `NoForeignData`, `UncontendedContactIsExact`, `ContactsNeverReplaceARecord`, `ImplementsKnownDevices`, `EveryContactIsRecorded` |
| `DeviceRegistry_proofs` | | theorems about it |
| `MessageHandler` | `GetResponse` as a function (no variables) | |
| `SocketServer` | start, stop, accept loops, handlers; extends `MessageHandler` | `TypeOK`, `HandshakeHasCertificate`, `OrderlyStopIsFinal`, `AcceptLoopSurvives`, `FailedStartReleasesPorts`, `EveryConnectionIsTaken`, `ContactMeansAnswered`, `NoContactIsLost`, `NothingReadAfterFarewell`, `RepliedIsReported`, `StoppingSessionsEnd`, `StopEndsSessions` |
| `SocketServer_proofs` | | theorems about it and about `GetResponse` |
| `DeviceController` | one UDP operation step by step, the device, the network | `TypeOK`, `SuccessWasApplied`, `OnlyAllowedCommandsAct`, `EveryStepCounts`, `EveryOperationEnds` |
| `DeviceController_proofs` | | theorems about it |
| `Dashboard` | notifications, snapshots, browsers; extends `KnownDevices`, i.e. composes the hub with the registry's abstract specification | `DashboardTypeOK`, `SettledDashboardAgrees`, `DialogShowsKnownDevice`, `DialogClosesForItsDevice` |
| `Dashboard_proofs` | | theorems about it |
| `LoadingScreen` | the scripts of a page, the two runtimes, the local storage, other tabs | `FullMeansComplete` |
| `ThemeService` | the theme service over `LoadingScreen`, which it extends: calls, answers, failures | `TypeOK`, `BootThemeIsAppTheme`, `InitIsOwedItsAnswer`, `StoredThemeAgrees`, `WatchingPageFollows`, `ReloadKeepsTheme`, `SettledPageShowsItsTheme`, `LoaderGoesAway`, `InitCompletes` |
| `ThemeService_proofs` | | theorems about both |
| `ThemeToggle_proofs` | | theorems about overlapping toggles |
| `CertificateStore` | the certificate file across restarts | |
| `MC*` | the same modules with the sets and symmetries TLC needs | |

Some definitions are used by no action. They are what a plausible bug would turn
the definition after them into (`TryAddOverwrites` before `TryAdd`); replacing
the one by the other makes the property fail that PROJECT.json names, which shows
that the property can see such a bug.

### State and actions, and the code

**DeviceRegistry.** `dict` is `_deviceStates`, from a MAC to the *object* filed
under it; an object is named by the call that allocated it, and `record` holds
its properties. `pc`, `mac`, `ip`, `dns`, `held`, `stamp` are the arguments and
locals of each `UpdateOrAddAsync`. `AddOrUpdate` is the documented loop of
`ConcurrentDictionary`: `Lookup`; without an entry `AddFactory` and `TryAdd`
(which fails when somebody else was faster); with one the update factory,
`SetIpAddress`, `SetDnsName`, `ReadUtcNow`, `SetLastConnectionTime`, then
`TryUpdate`, which compares the object with the one it found. A name is
represented by the address it was looked up for, which is all the properties
compare. `ip = None` stands for the blank address that makes the code return.

**MessageHandler / SocketServer.** A request is its type, the kind of payload and
the two places an address can come from; a response is which reply, keep-alive
and the address. `start`, `toAdd`, `toOpen` are `Start`'s position in its two
loops, `host` and `toClose` those of `StopAsync` and `Stop`, `loop` and
`newClient` each accept loop, `conn` each handler. Every `await` is a step of its
own and so is every read or write of `_isRunning`, the token and a listener. The
exception paths are the actions named `...Fails`, `...Throws`, `...Aborted`,
`...Cancelled`, `Abort`. The devices (`Connect`, `Send`, `Leave`) may do anything
at any time; they pipeline lines and never have to answer.

**DeviceController.** `op[o]` is an operation's step (`scan`, `bind`, `command`),
the phase of `SendUdpCommandAsync` (`send`, `receive`, `delay`) and its locals.
`DeviceConfigService` is `Begin` and `Reject`. The address may change hands
(`Readdress`). A datagram that changes nothing on a device and whose socket is
closed has no effect, so only set commands are kept under way (`commands`), for
ever: `LateCommand` delivers them late or again. Values (names, hosts) are left
out; a device is changed or not.

**Dashboard.** The registry is `KnownDevices`, the specification the registry is
proved to implement, so nothing of the dictionary reappears here. A notification
begins (`BeginSend`: the connections it will go to), is written to them one at a
time in any order (`Write`), and ends. A connection that is made while a
notification is under way may or may not get it (`Join`). `raced` is history: the
devices of which, on the present connection of a browser, two opposite changes,
or a change and a snapshot, overlapped. `dialog` is the dialog on the
screen and `openDialog` the component in `_openDialogComponent`, which Home keeps
when the dialog is closed without `OnDialogClosed`; its `CloseDialog` then does
nothing. `cards` are the devices of which the list has just been relieved: the
click on a card may have been made before the browser drew the list again.

**LoadingScreen.** `localStorage` has the two items the program stores and
survives `OpenPage`; everything else is a page's own. Blazor (external) calls the
hooks and `loadBootResource`; the server's runtime starts when it likes, that of
WebAssembly after its resources, and on a page that the server renders only
`beforeWebAssemblyStart` of the latter. `CurrentPercentage` is
`Math.floor(loaded / total * 100)` in binary floating point, whose quotient may
lie just below a whole percentage: the model admits both results there. A stored
count is text; `totalResources <= 1` and the division read it as a number, so it
is modelled as one. A storage that is denied or full throws, and nothing catches it:
in a hook that comes before a start this is the first line (`:26`), Blazor (external)
gives up that runtime, and if the components were to be rendered by it `renderer`
becomes `none` (`GiveUp`); in a hook that comes after a start the loading screen has
been hidden already (`:43`) and only the count is lost. `fullCount` and `exact` are history: who has written the
stored count, and whether this visit was started with the count of its own version.

**ThemeService.** `phase` is what `Init` waits for. `calls` and `answers` are the
two directions between the service and the browser, each in order; `imports` are
the modules that are being fetched. `LocalStorageService` imports its module
before an operation as long as no import has been answered (`import` in a
message), so that two operations may fetch it twice. `ToText` and `Parse` are
`bool.ToString` and `bool.Parse`. An exception nobody catches ends a server
circuit (`Fail`) and leaves WebAssembly running. `rendered` is the theme
`MudThemeProvider` was last rendered with: the layout is rendered by the callback
of `Init` and after a click has been handled, and not when `Init` fails. The history
variables say when a page is excused: `disturbed` (a click during `Init`, a failed
call), `overwritten` (another tab has stored something since), `unseen` (the
system's theme has changed between its reading and its watch).

**CertificateStore.** `GetCertificate` over the kinds of file there can be.

## The runs

| Run | Question | Instance | Result |
| --- | --- | --- | --- |
| `registry` | safety and liveness of racing contacts | 2 devices, 2 addresses, 2 contacts, 1 sweep, 1 reader, clock of 2 instants, any deletions | holds |
| `registry_latest` | is the latest address shown? | 1 device, 2 contacts | **violated** |
| `registry_torn` | do name and address belong together? | 1 device, 3 contacts | **violated** |
| `socket_lifecycle` | start, failures, stop | plain and TLS listener, 1 connection | holds |
| `socket_accept` | is every connection taken? | TLS listener, 2 connections | holds |
| `socket_session` | a session | TLS listener, 1 connection, up to 2 lines of 8 kinds | holds |
| `socket_started` | does a started server accept? | plain and TLS listener | **violated** |
| `controller` | operations over UDP | 2 devices, 2 operations of any kind, 2 attempts, 1 change of hands | holds |
| `dashboard` | does a settled browser agree, its dialog too? | 2 devices, 2 contacts, 1 removal, 1 browser, 2 connections, 2 dialogs | holds |
| `dashboard_removed` | do removed devices disappear? | 1 device, 2 contacts, 1 removal, 1 connection | **violated** |
| `page` | start and theme of a page | 2 versions of 2 and 3 resources; 3 visits, or 2 with another tab, or 2 overlapping clicks and a change, or a click with another visit, another tab or a failing call or hook | holds |
| `certificate_restart` | does the created certificate work again? | every configuration | **violated** |

The bounds are named constants. `MaxContacts`: two contacts race to add a record,
and one of them finds the record of the other, loses it to a deletion or to the
sweep and goes round the loop; that two update factories meet on a record a third
contact has created takes three, as in `registry_torn`, and the proofs cover any
number. `Sweeps`, `Readers`: one of each meets every step of the contacts, and they
do not interact. `MaxTime = 1` with `Timeout = 0`: a record can be stale, fresh, and
become fresh between check and removal. `MaxRequests = 2`: a line before and a line
behind the one that ends a session. `Attempts = 2` where the code has 3: a first
attempt, and one that may meet the remains of an earlier one. `MaxMoves = 1`: away
from the device that was scanned. `MaxJoins = 2`: one connection whose errors are to
be healed, and the one that heals them. `MaxDetails = 2`: the second dialog meets what
Home remembers of the first, which may have been closed behind its back. `Versions = {2, 3}`: a count may be
too small, right or too large for the version of the next visit. `Budgets` are
sets of what may happen around a page: visits and changes; another tab; two clicks,
the least that overlap, with a change between them; a click and another visit (the
theme that .NET has stored is read by the hooks), another tab or a failure. `First` is the version of the first visit. Symmetry is used in safety runs
only (`dashboard`, `dashboard_removed`), over sets no definition tells apart.

The runs switch deadlock checking off because contacts, connections, removals,
visits or operations are used up, or because the host has gone down, and then
nothing is left to happen.

### What the violated runs show

- `LatestContactWins`: "Current network address of the device" (`Readme.md:524`).
  A slow name lookup of an earlier contact ends after that of a later one and puts
  the old address back.
- `NameMatchesAddress`: "Resolved hostname" (`Readme.md:525`). Two update factories
  interleave and the record keeps the address of one contact and the name of the
  other.
- `StartedServerAccepts`: "TCP Server listening on port 5000" (`Readme.md:17`). An
  accept loop is started before `_isRunning` is raised, sees it false and ends.
- `RemovedDevicesDisappear`: "Removed devices disappear immediately from all
  connected clients" (`Readme.md:533`). An upsert, or a snapshot, that is under
  way while the device is removed arrives last.
- `AutoCreateSurvivesRestart`: "Auto-create TLS certificate if needed"
  (`Readme.md:313`). What is written at the first start is not what is read at
  the second: `.pfx` is compared with `pfx`, and with a password set only the
  public part is written.

### Fairness

*DeviceRegistry*: weak fairness of each call that has started. The thread pool
runs a ready continuation, and `DnsResolverService` catches everything and comes
back. Contacts, deletions, sweeps and the clock have none. *SocketServer*: weak
fairness of `Start`, of `StopAsync` once it has been called, of the accept loops,
and of those handler steps that wait for nobody; the host stops after a failed
start because `BackgroundServiceExceptionBehavior` is left at `StopHost`; strong
fairness of `Accept`, since the errors it may meet again and again are transient
(`Accept` is not possible any more once its token is cancelled, and
`EveryConnectionIsTaken` asks for nothing then).
Handshakes, lines and replies that depend on the device have no fairness.
*DeviceController*: weak fairness of `SendUdpCommandAsync`, whose receive has a
timeout; devices and the network have none. *ThemeService*: weak fairness of
`Progress`, i.e. of Blazor (it starts the runtime it has begun to start), of the
browser (it runs the calls it is sent, or fails them) and of the continuations of
the service. Each of these actions can be taken only so many times in a row, so
it is enough that they do not all stop. Clicks, other tabs, changes of the system's
theme and new visits have none. `LoaderGoesAway` asks for nothing once Blazor
has given up the start of the runtime that was to render the page. *Dashboard* and *CertificateStore* state safety
only: when a lost connection comes back is up to SignalR and the network.

## What is proved

`DeviceRegistry_proofs` proves for every value of the constants (any number of
devices, addresses, contacts, sweeps and readers), from `RegistryAssumption` alone
(the bounds are natural numbers, `None` is no element of the other sets):

- `TypeCorrect`, `FiledCorrect`, `NoForeignDataCorrect`: the invariants;
- `UncontendedExact`, `NeverReplaced`: the action properties;
- `Refinement`: the registry implements `KnownDevices`, initial state by initial
  state and step by step.

None of the invariants is inductive. `RecordsFiledUnderTheirMac`, for instance,
says nothing of an object a call has created but not published, or of one it has
found and will write to after it was removed. `IInv` adds, for each label of a
call, what the call knows there (`CallOK`: an object it holds exists, belongs to
the same MAC and comes from a call that has returned), for each object what has
been written to it (`RecordOK`: only what contacts of its MAC reported), the same
for readers and sweeps, and for each call that has not met a rival what it finds
of its own writes (`ContentionOK`). The proof has a lemma for each group of
actions; those of a call are split by action, and under it by the conjuncts it
can disturb. The action properties and the refinement follow from `IInv` before
each step.

`SocketServer_proofs` proves, for any number of listeners, connections and lines,
from `HandlerAssumption` and `ServerAssumption`:

- `TypeCorrect`, `CertificateCorrect`, `OrderlyStopCorrect`, `ContactsCorrect`,
  `FarewellCorrect`, `ReportsCorrect`: the invariants;
- `LoopsSurvive`, `StoppingEnds`: the action properties;
- the lemma `GetResponseReturns`: what `GetResponse` does not throw is a response.

Its `IInv` has a part for each thread of control. `StartOK`: once `Start` opens
listeners the certificate is there, and it opens only what is in the bag.
`StopOK`: a `Stop` that began after `Start` had ended closes every socket there is,
since nothing opens another one behind it. `LoopOK`: a connection between accept
and dispatch belongs to one loop and has no handler. `SessionOK`: before the first
line nothing was read; from its assignment until the next line is read `response`
answers the last line; in `read` no line so far ended the session; in `publish`
the reply has been written. A step of one session changes no other
(`OthersStayTheSame`), so `SessionFrame` covers all the others. `ReportsCorrect` is
the converse of `ContactsCorrect`: no answered line that names its device is lost
while the host listens. Its `ReportOK` says so of every line of a session but the
one that is just being published, and needs that the line at work has not been
answered yet before it is written; that somebody listens is in `StartOK`, which has
the host subscribe before the first listener is opened. `StoppingEnds` needs of `StopOK`
that `_isRunning` is down and stays down: only then does every step of a session lower
`StepsLeft`, since the check of the loop cannot lead back to a read.

`DeviceController_proofs` proves, for any number of operations, devices, attempts
and changes of hands, from `ControllerAssumption` (one attempt at least, `None` is
neither a device nor an error code):

- `TypeCorrect`, `SuccessCorrect`, `AllowedCorrect`: the invariants;
- `StepsCount`: the action property `EveryStepCounts`.

`SuccessWasApplied` says nothing of an operation that is still at work, nor of a
`done` answer that waits at its socket. Its `IInv` adds the key: an operation has
a key only from its command on, and then it is that of the device it scanned
(`OpOK`); an answer waiting at a socket is one to the step at work, a `bindok` is
from the scanned device, and behind a `done` the change has been made
(`AnswerOK`); a command under way, and every change made, belongs to an operation
with that device's key (`EffectOK`). `EveryStepCounts` is the part of
`EveryOperationEnds` that is not fairness: `Remaining` is a ranking function, at most
`9 * Attempts + 1`, which each step of an operation lowers and no step of anybody
else touches. A retry lowers it because it uses up an attempt, an answer because it
leads to a later step, whose attempts were counted from the start.

`Dashboard_proofs` proves, for any number of devices, contacts, removals, browsers,
connections and dialogs, from `DashboardAssumption`:

- `TypeCorrect`, `SettledCorrect`, `DialogCorrect`: the invariants;
- `DialogCloses`: the action property;
- `RegistryIsKept`: every step of the dashboard is a step of `KnownDevices` or leaves
  its variables alone, so what is proved of the registry holds beneath the dashboard.

`SettledDashboardAgrees` speaks of a moment when nothing is under way, so its
strengthening has to say what is under way. A browser's messages are summed up by
the last one that says something of a device (`Agrees`): when it has been handled
the list is right about that device, or the list is right already when there is
none. `AgreementsOK` says this of every device that has not raced, as soon as the
snapshot has been sent and no notification of that device is pending; before, the
snapshot that was read and each pending notification are right about it
themselves. `AgreesAppend` and `AgreesTail` carry `Agrees` over sending and handling.
`DialogOK` says that an open dialog is the one Home remembers, and that its device
is listed unless the dialog is orphaned.

`ThemeService_proofs` proves, for any versions and budgets, from
`LoadingScreenAssumption` (a version has at least two resources):

- `TypeCorrect`, `FullCorrect`, `BootThemeCorrect`, `OwedCorrect`: the invariants.

`CurrentPercentageBound` is the arithmetic: the percentage is in 0..100, and 100
exactly if everything expected has come, rounding included. For
`FullMeansComplete`, `CountsOK` adds why a visit that started with the right count
keeps it: before the hook of its runtime at most one resource is counted, which is
little of the default total. For `BootThemeIsAppTheme`, `SteadyOK` follows the
stored theme through the start: as long as nothing disturbs it every message
between service and browser is one of `Init` and carries the stored theme or the
system's (`CalmWire`), and both the hooks and the service have computed
`Dark` of the same two values, whichever of the two came first. A hook that throws
claims nothing: `Started` is the hook of the page's own runtime, and a runtime that is
given up never starts the components.

`InitIsOwedItsAnswer` is the part of `InitCompletes` that is not fairness: while `Init`
waits, exactly one message about what it waits for is in one of the three queues
between service and browser. `PassesOn` is the step of such a message from one queue
to the next, and the lemmas about it say that everybody else's messages pass by
without making it more or fewer.

`ThemeToggle_proofs` extends it, from the same assumption, to pages whose toggles
overlap each other, `Init`, and the changes of the system's theme, any number of each:

- `StoredThemeCorrect`, `WatchingCorrect`, `ReloadCorrect`, `SettledCorrect`: the
  invariants.

Each of them speaks of a page at rest (`Settled`), and none says anything of how it got
there. `ToggleInv` sums up what is under way, as the dashboard's invariant does. Until
something disturbs the page (a call fails, or a toggle comes while `Init` waits for
the stored theme, the system's or the watch) the module of the storage is there before
the first toggle, so nothing is imported any more and no call overtakes another. From
then on (`Running`) the last write on its way to the storage carries the theme the page
is in, or the storage has it already (`Stores`); the last report on its way to a page
that watches carries the theme of the system, or the page is in it already (`Follows`);
whoever has changed the theme without drawing it awaits the answer to a write, and that
answer draws it (`Draws`). Before, `Init` is alone and its one message carries what was
stored or what the system is in (`Getting`, `Asking`, `Subscribing`). `ReloadCorrect` joins `Stores` and `Follows` with
what the hooks compute (`Dark`): the text that .NET wrote is one they know. `Bare` is about
the inline style: in WebAssembly the only hook that puts it there runs before the first
component, and the removal that `Init` waits for comes after it. The lemmas about
queues (`WriteTaken`, `WriteAppended`, ...) say how "the last one of its kind" moves
when a queue loses its head or gets a message.

Only model-checked are the liveness properties, since the prover does not handle
fairness and ENABLED: `EveryContactIsRecorded`, `FailedStartReleasesPorts`,
`EveryConnectionIsTaken`, `RepliedIsReported`, `StopEndsSessions`,
`EveryOperationEnds`, `LoaderGoesAway` and `InitCompletes`. Of most of them the part
that is not fairness is proved: `NoContactIsLost` of `RepliedIsReported`,
`StoppingSessionsEnd` of `StopEndsSessions`, `AcceptLoopSurvives` of
`EveryConnectionIsTaken`, `OrderlyStopIsFinal` of `FailedStartReleasesPorts`,
`EveryStepCounts` of `EveryOperationEnds`, `InitIsOwedItsAnswer` of `InitCompletes`. The
five violated properties are refuted by TLC. Every invariant and every action property
of a passing run is a theorem.

How the parts fit together is argued from these theorems. `EventHandlerService`
calls its subscribers before it returns, so `Publish` of a session and the arrival of
a contact are one step: an answered line is reported (`ReportsCorrect`,
`RepliedIsReported`), a contact is recorded (`EveryContactIsRecorded`), the registry is
the set of known devices (`Refinement`), the dashboard does nothing else to that set
(`RegistryIsKept`) and agrees with it (`SettledCorrect`).

## Not modelled

The HTTP modules and clients pass calls through; their failures appear where
another part sees them. Encryption is what a payload is readable with; the cipher
itself, JSON, the layout of replies and logging are left out. The configuration
page sends one request per form at a time, read before its call leaves the page, and
its operations are those of `DeviceController`; the text of its results is left out.
The Wi-Fi page formats text. Hosting, forwarded headers and dependency injection are
wiring. `BrowserDetectionService` answers a question without state. The confirmation
of a removal is a question to the user before `RemoveDevice`; whether a device is
online is computed from its record whenever it is drawn.

Two things are known and not constrained. A page that was loaded with a stored theme
and is toggled to auto mode does not watch the system's theme until it is loaded
again (`ThemeService.cs:98`; `Readme.md:504` promises "Automatic detection based on
browser preference" and does not say when): `WatchingPageFollows` is about pages that
watch. A visit that the server renders stores a count of the resources that have come
so far (`GreeACLocalServer.UI.lib.module.js:44`), and the percentage of the next visit
is computed from it: `FullMeansComplete` is about visits that follow a complete one.

## Order of the work

1. Registry: `KnownDevices`, `DeviceRegistry`, the refinement, its proofs.
2. `MessageHandler`, `SocketServer` and its three questions, its proofs.
3. `DeviceController` and its proofs; `CertificateStore`.
4. `Dashboard` over `KnownDevices`, the details dialog, its proofs.
5. `LoadingScreen`, `ThemeService` over it, their proofs; then those of the toggles.

What could follow: a ranking of what a starting page has still to do, for
`LoaderGoesAway`; and the address itself in the models, in both spellings, for the
comparison of `Home.razor.cs:91` with the one of the registry.
