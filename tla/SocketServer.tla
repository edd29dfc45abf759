---------------------------- MODULE SocketServer ----------------------------
(***************************************************************************)
(* The TCP server the air conditioners talk to: SocketHandlerService, its   *)
(* background service and the host that starts and stops it.                *)
(*                                                                         *)
(* Start runs on the thread pool, every listener has an accept loop and     *)
(* every connection a handler task of its own; Stop runs on the host's      *)
(* shutdown, at any moment, also while Start is still at work.  They share  *)
(* _isRunning, the cancellation token and the bag of listeners, and no lock *)
(* orders them.                                                             *)
(***************************************************************************)
EXTENDS MessageHandler, Sequences

CONSTANTS
  Listeners,     \* one per configured address and port
  TlsListeners,  \* those on TLS_PORT; none when TLS is disabled
  Clients,       \* connections devices make
  Requests,      \* the lines devices send
  MaxRequests    \* bound: lines sent on one connection

VARIABLES
  start,        \* where ExecuteAsync and Start stand
  certificate,  \* _tlsCertificate has been loaded
  toAdd,        \* listeners Start has still to add to the bag
  servers,      \* _servers, the bag
  toOpen,       \* Start's enumeration of the bag
  open,         \* listeners whose socket is listening
  isRunning,    \* _isRunning
  cancelled,    \* the service's own cancellation token
  loop,         \* where the accept loop of each listener stands
  newClient,    \* its local newClient
  host,         \* where the host's StopAsync stands
  toClose,      \* Stop's enumeration of the bag
  overlap,      \* history: Stop was called before Start had returned or failed
  subscribed,   \* OnDeviceConnected is subscribed to the events
  conn,         \* where each connection stands
  port,         \* the listener it was made to
  peer,         \* the device's end of it
  sent,         \* the lines the device has sent
  nread,        \* how many of them the handler has read
  response,     \* the handler's latest response
  replied,      \* lines whose reply has been written and flushed
  reported      \* lines whose contact has reached the device registry

startVars == <<start, certificate, toAdd, servers, toOpen>>
stopVars == <<host, toClose, overlap, cancelled>>
loopVars == <<loop, newClient>>
sharedVars == <<open, isRunning, subscribed>>
serverVars == <<startVars, stopVars, loopVars, sharedVars>>
sessionVars == <<peer, sent, nread, response, replied, reported>>
connVars == <<conn, port, sessionVars>>
vars == <<serverVars, connVars>>

besidesStart == <<stopVars, newClient, connVars>>
besidesStop == <<startVars, loopVars, connVars>>
besidesLoops == <<startVars, stopVars, sharedVars>>

ASSUME ServerAssumption ==
  /\ TlsListeners \subseteq Listeners
  /\ Requests \subseteq Request
  /\ MaxRequests \in Nat
  /\ None \notin Listeners \cup Clients

(* Definitions that no action uses (SkipCertificate, KeepSocket, ...) are    *)
(* what a plausible bug would turn the definition after them into.          *)

StartEnded == {"started", "failed", "never"}

HostLabels == {"up", "cancel", "snapshot", "close", "unsubscribe", "token",
               "await", "down"}

(* The host has unsubscribed OnDeviceConnected.                             *)
Gone == {"token", "await", "down"}

(* Connections that have a handler task.                                    *)
Handled == {"accepted", "handshake", "check", "read", "respond", "write",
            "publish"}

Ended == {"closed", "refused", "abandoned"}

Serial == 1..MaxRequests

TypeOK ==
  /\ start \in {"queued", "subscribed", "certificate", "adding", "opening",
                "flag"} \cup StartEnded
  /\ certificate \in BOOLEAN
  /\ toAdd \subseteq Listeners
  /\ servers \subseteq Listeners
  /\ toOpen \subseteq Listeners
  /\ open \subseteq Listeners
  /\ isRunning \in BOOLEAN
  /\ cancelled \in BOOLEAN
  /\ loop \in [Listeners -> {"none", "check", "accept", "dispatch", "exited"}]
  /\ newClient \in [Listeners -> Clients \cup {None}]
  /\ host \in HostLabels
  /\ toClose \subseteq Listeners
  /\ overlap \in BOOLEAN
  /\ subscribed \in BOOLEAN
  /\ conn \in [Clients -> {"away", "backlog", "taken"} \cup Handled \cup Ended]
  /\ port \in [Clients -> Listeners \cup {None}]
  /\ peer \in [Clients -> {"up", "hungup", "reset"}]
  /\ sent \in [Clients -> Seq(Requests)]
  /\ nread \in [Clients -> 0..MaxRequests]
  /\ response \in [Clients -> Response]
  /\ replied \in [Clients -> SUBSET Serial]
  /\ reported \in [Clients -> SUBSET Serial]

Init ==
  /\ start = "queued"
  /\ certificate = FALSE
  /\ toAdd = Listeners
  /\ servers = {}
  /\ toOpen = {}
  /\ open = {}
  /\ isRunning = FALSE
  /\ cancelled = FALSE
  /\ loop = [l \in Listeners |-> "none"]
  /\ newClient = [l \in Listeners |-> None]
  /\ host = "up"
  /\ toClose = {}
  /\ overlap = FALSE
  /\ subscribed = FALSE
  /\ conn = [c \in Clients |-> "away"]
  /\ port = [c \in Clients |-> None]
  /\ peer = [c \in Clients |-> "up"]
  /\ sent = [c \in Clients |-> <<>>]
  /\ nread = [c \in Clients |-> 0]
  /\ response = [c \in Clients |-> Answer(None, TRUE)]
  /\ replied = [c \in Clients |-> {}]
  /\ reported = [c \in Clients |-> {}]

-----------------------------------------------------------------------------
(* ExecuteAsync and Start *)

StartStep(from, to) == start = from /\ start' = to

(* The host runs ExecuteAsync on the thread pool: it subscribes, then       *)
(* queues Start.                                                            *)
Subscribe ==
  /\ StartStep("queued", "subscribed")
  /\ subscribed' = TRUE
  /\ UNCHANGED <<certificate, toAdd, servers, toOpen, loop, open, isRunning,
                 besidesStart>>

SkipCertificate == "adding"

FirstStep == IF TlsListeners = {} THEN "adding" ELSE "certificate"

BeginStart ==
  /\ StartStep("subscribed", FirstStep)
  /\ UNCHANGED <<certificate, toAdd, servers, toOpen, loop, sharedVars, besidesStart>>

LoadCertificate ==
  /\ StartStep("certificate", "adding")
  /\ certificate' = TRUE
  /\ UNCHANGED <<toAdd, servers, toOpen, loop, sharedVars, besidesStart>>

AddServer(l) ==
  /\ start = "adding"
  /\ l \in toAdd
  /\ servers' = servers \cup {l}
  /\ toAdd' = toAdd \ {l}
  /\ UNCHANGED <<start, certificate, toOpen, loop, sharedVars, besidesStart>>

(* The bag is enumerated as it is now, in any order.                        *)
EnumerateServers ==
  /\ StartStep("adding", "opening")
  /\ toAdd = {}
  /\ toOpen' = servers
  /\ UNCHANGED <<certificate, toAdd, servers, loop, sharedVars, besidesStart>>

(* The socket starts to listen, then its accept loop is queued: also on a   *)
(* listener that Stop has been through already.                             *)
OpenListener(l) ==
  /\ start = "opening"
  /\ l \in toOpen
  /\ toOpen' = toOpen \ {l}
  /\ open' = open \cup {l}
  /\ loop' = [loop EXCEPT ![l] = "check"]
  /\ UNCHANGED <<start, certificate, toAdd, servers, isRunning, subscribed,
                 besidesStart>>

(* Only now do the accept loops find that the server is running.            *)
RaiseIsRunning ==
  /\ StartStep("opening", "started")
  /\ toOpen = {}
  /\ isRunning' = TRUE
  /\ UNCHANGED <<certificate, toAdd, servers, toOpen, loop, open, subscribed,
                 besidesStart>>

(* No usable certificate, an address that does not parse, a port in use:    *)
(* the exception leaves behind what has been done so far.                   *)
StartThrows ==
  /\ \/ start = "certificate"
     \/ start = "adding" /\ toAdd # {}
     \/ start = "opening" /\ toOpen # {}
  /\ start' = "failed"
  /\ UNCHANGED <<certificate, toAdd, servers, toOpen, loop, sharedVars, besidesStart>>

-----------------------------------------------------------------------------
(* StopAsync and Stop *)

HostStep(from, to) == host = from /\ host' = to

(* The host stops on a signal, or because ExecuteAsync failed.              *)
Stop ==
  /\ HostStep("up", "cancel")
  /\ isRunning' = FALSE
  /\ overlap' = (start \notin StartEnded)
  /\ UNCHANGED <<toClose, cancelled, open, subscribed, besidesStop>>

Cancel ==
  /\ HostStep("cancel", "snapshot")
  /\ cancelled' = TRUE
  /\ UNCHANGED <<toClose, overlap, sharedVars, besidesStop>>

SnapshotServers ==
  /\ HostStep("snapshot", "close")
  /\ toClose' = servers
  /\ UNCHANGED <<overlap, cancelled, sharedVars, besidesStop>>

KeepSocket(l) == open

CloseSocket(l) == open \ {l}

(* Closing the listening socket resets the connections nobody accepted.     *)
StopListener(l) ==
  /\ host = "close"
  /\ l \in toClose
  /\ toClose' = toClose \ {l}
  /\ open' = CloseSocket(l)
  /\ conn' = [c \in Clients |->
       IF conn[c] = "backlog" /\ port[c] = l THEN "refused" ELSE conn[c]]
  /\ UNCHANGED <<host, overlap, cancelled, isRunning, subscribed, startVars, loopVars,
                 port, sessionVars>>

StopReturns ==
  /\ HostStep("close", "unsubscribe")
  /\ toClose = {}
  /\ UNCHANGED <<toClose, overlap, cancelled, sharedVars, besidesStop>>

Unsubscribe ==
  /\ HostStep("unsubscribe", "token")
  /\ subscribed' = FALSE
  /\ UNCHANGED <<toClose, overlap, cancelled, open, isRunning, besidesStop>>

(* base.StopAsync cancels stoppingToken: what is still queued never runs.   *)
CancelExecution ==
  /\ HostStep("token", "await")
  /\ start' = IF start \in {"queued", "subscribed"} THEN "never" ELSE start
  /\ UNCHANGED <<certificate, toAdd, servers, toOpen, toClose, overlap, cancelled,
                 sharedVars, loopVars, connVars>>

(* It then waits for Start, which does not look at the token.               *)
StopAsyncReturns ==
  /\ HostStep("await", "down")
  /\ start \in StartEnded
  /\ UNCHANGED <<toClose, overlap, cancelled, sharedVars, besidesStop>>

-----------------------------------------------------------------------------
(* AcceptClientsLoop *)

LoopStep(l, from, to) == loop[l] = from /\ loop' = [loop EXCEPT ![l] = to]

LoopCheck(l) ==
  /\ LoopStep(l, "check", IF isRunning THEN "accept" ELSE "exited")
  /\ UNCHANGED <<newClient, connVars, besidesLoops>>

(* An accept with a token that is cancelled already only throws.            *)
Accept(l, c) ==
  /\ LoopStep(l, "accept", "dispatch")
  /\ l \in open
  /\ ~cancelled
  /\ conn[c] = "backlog" /\ port[c] = l
  /\ newClient' = [newClient EXCEPT ![l] = c]
  /\ conn' = [conn EXCEPT ![c] = "taken"]
  /\ UNCHANGED <<port, sessionVars, besidesLoops>>

DispatchAwaitsHandler(l) ==
  /\ loop[l] = "dispatch"
  /\ \/ /\ conn[newClient[l]] = "taken"
        /\ conn' = [conn EXCEPT ![newClient[l]] =
             IF cancelled THEN "abandoned" ELSE "accepted"]
        /\ UNCHANGED loopVars
     \/ /\ conn[newClient[l]] \in Ended
        /\ loop' = [loop EXCEPT ![l] = "check"]
        /\ newClient' = [newClient EXCEPT ![l] = None]
        /\ UNCHANGED conn
  /\ UNCHANGED <<port, sessionVars, besidesLoops>>

(* The handler task is started and not awaited.  A connection accepted just *)
(* before the cancellation is dropped without being closed.                 *)
DispatchClient(l) ==
  /\ LoopStep(l, "dispatch", "check")
  /\ conn' = [conn EXCEPT ![newClient[l]] =
       IF cancelled THEN "abandoned" ELSE "accepted"]
  /\ newClient' = [newClient EXCEPT ![l] = None]
  /\ UNCHANGED <<port, sessionVars, besidesLoops>>

AfterErrorGivesUp == "exited"

(* Too many open files, a connection that was reset in the backlog: the     *)
(* exception is logged and the loop goes on.                                *)
AfterError == "check"

AcceptFails(l) ==
  /\ LoopStep(l, "accept", AfterError)
  /\ l \in open
  /\ UNCHANGED <<newClient, connVars, besidesLoops>>

(* OperationCanceledException is logged like any other exception; so is the *)
(* InvalidOperationException of a listener that has been stopped.           *)
AcceptCancelled(l) ==
  /\ LoopStep(l, "accept", "check")
  /\ cancelled
  /\ UNCHANGED <<newClient, connVars, besidesLoops>>

(* ObjectDisposedException, or OperationAborted of an accept whose socket   *)
(* is closed under it.                                                      *)
AcceptAborted(l) ==
  /\ LoopStep(l, "accept", "exited")
  /\ l \notin open
  /\ UNCHANGED <<newClient, connVars, besidesLoops>>

-----------------------------------------------------------------------------
(* HandleClientAsync *)

ConnStep(c, from, to) == conn[c] = from /\ conn' = [conn EXCEPT ![c] = to]

BeginHandling(c) ==
  /\ ConnStep(c, "accepted", IF port[c] \in TlsListeners THEN "handshake" ELSE "check")
  /\ UNCHANGED <<serverVars, port, sessionVars>>

HandshakeSucceeds(c) ==
  /\ ConnStep(c, "handshake", "check")
  /\ peer[c] = "up"
  /\ UNCHANGED <<serverVars, port, sessionVars>>

(* The device refuses the protocol or the certificate, or goes away.        *)
HandshakeFails(c) ==
  /\ ConnStep(c, "handshake", "closed")
  /\ UNCHANGED <<serverVars, port, sessionVars>>

GoesOnAfterFarewell(c) == isRunning

GoesOnAfterStop(c) == response[c].keepAlive

(* while (isClientConnected && _isRunning)                                  *)
GoesOn(c) == response[c].keepAlive /\ isRunning

Check(c) ==
  /\ ConnStep(c, "check", IF GoesOn(c) THEN "read" ELSE "closed")
  /\ UNCHANGED <<serverVars, port, sessionVars>>

(* A line that is there is read even when the token is cancelled already.   *)
ReadLine(c) ==
  /\ ConnStep(c, "read", "respond")
  /\ peer[c] # "reset"
  /\ nread[c] < Len(sent[c])
  /\ nread' = [nread EXCEPT ![c] = @ + 1]
  /\ UNCHANGED <<serverVars, port, peer, sent, response, replied, reported>>

(* End of the stream, after the lines that came before it, or an            *)
(* IOException.                                                             *)
ReadEnds(c) ==
  /\ ConnStep(c, "read", "closed")
  /\ \/ peer[c] = "hungup" /\ nread[c] = Len(sent[c])
     \/ peer[c] = "reset"
  /\ UNCHANGED <<serverVars, port, sessionVars>>

Line(c) == sent[c][nread[c]]

(* A response without data is not written, one without an address is not    *)
(* published.                                                               *)
AfterWriteSkipsFarewell(r) ==
  IF r.mac # None /\ r.keepAlive THEN "publish" ELSE "check"

AfterWrite(r) == IF r.mac # None THEN "publish" ELSE "check"

AfterRespond(r) == IF r.data # None THEN "write" ELSE AfterWrite(r)

Respond(c) ==
  /\ conn[c] = "respond"
  /\ GetResponse(Line(c)) # Exception
  /\ response' = [response EXCEPT ![c] = GetResponse(Line(c))]
  /\ ConnStep(c, "respond", AfterRespond(GetResponse(Line(c))))
  /\ UNCHANGED <<serverVars, port, peer, sent, nread, replied, reported>>

(* An exception of GetResponse ends its own connection and nothing else.    *)
RespondThrows(c) ==
  /\ ConnStep(c, "respond", "closed")
  /\ GetResponse(Line(c)) = Exception
  /\ UNCHANGED <<serverVars, port, sessionVars>>

WriteReply(c) ==
  /\ ConnStep(c, "write", AfterWrite(response[c]))
  /\ peer[c] # "reset"
  /\ replied' = [replied EXCEPT ![c] = @ \cup {nread[c]}]
  /\ UNCHANGED <<serverVars, port, peer, sent, nread, response, reported>>

AfterFailureGoesOn(c) == AfterWrite(response[c])

(* An IOException ends the connection, like any other exception.            *)
AfterFailure(c) == "closed"

WriteFails(c) ==
  /\ ConnStep(c, "write", AfterFailure(c))
  /\ peer[c] # "up"
  /\ UNCHANGED <<serverVars, port, sessionVars>>

(* The event is raised on the handler's own thread; nobody listens to it    *)
(* once the host has unsubscribed.                                          *)
Publish(c) ==
  /\ ConnStep(c, "publish", "check")
  /\ reported' = [reported EXCEPT ![c] =
       IF subscribed THEN @ \cup {nread[c]} ELSE @]
  /\ UNCHANGED <<serverVars, port, peer, sent, nread, response, replied>>

AwaitHandshakeOnly == {"handshake"}

AwaitPublishToo == {"handshake", "read", "write", "publish"}

(* Where the handler awaits something with the token.                       *)
Await == {"handshake", "read", "write"}

Abort(c) ==
  /\ conn[c] \in Await
  /\ ConnStep(c, conn[c], "closed")
  /\ cancelled
  /\ UNCHANGED <<serverVars, port, sessionVars>>

-----------------------------------------------------------------------------
(* The devices *)

Connect(c, l) ==
  /\ ConnStep(c, "away", "backlog")
  /\ l \in open
  /\ port' = [port EXCEPT ![c] = l]
  /\ UNCHANGED <<serverVars, sessionVars>>

Connected(c) == conn[c] \in {"backlog", "taken"} \cup Handled

(* Devices need not wait for an answer before they send the next line.      *)
Send(c, r) ==
  /\ Connected(c)
  /\ peer[c] = "up"
  /\ Len(sent[c]) < MaxRequests
  /\ sent' = [sent EXCEPT ![c] = Append(@, r)]
  /\ UNCHANGED <<serverVars, conn, port, peer, nread, response, replied, reported>>

Leave(c, how) ==
  /\ Connected(c)
  /\ peer[c] = "up"
  /\ peer' = [peer EXCEPT ![c] = how]
  /\ UNCHANGED <<serverVars, conn, port, sent, nread, response, replied, reported>>

-----------------------------------------------------------------------------
Starting ==
  \/ Subscribe
  \/ BeginStart
  \/ LoadCertificate
  \/ \E l \in Listeners : AddServer(l) \/ OpenListener(l)
  \/ EnumerateServers
  \/ RaiseIsRunning
  \/ StartThrows

Stopping ==
  \/ Cancel
  \/ SnapshotServers
  \/ \E l \in Listeners : StopListener(l)
  \/ StopReturns
  \/ Unsubscribe
  \/ CancelExecution
  \/ StopAsyncReturns

AcceptClientsLoop(l) ==
  \/ LoopCheck(l)
  \/ \E c \in Clients : Accept(l, c)
  \/ DispatchClient(l)
  \/ AcceptFails(l)
  \/ AcceptCancelled(l)
  \/ AcceptAborted(l)

HandleClient(c) ==
  \/ BeginHandling(c)
  \/ HandshakeSucceeds(c) \/ HandshakeFails(c)
  \/ Check(c)
  \/ ReadLine(c) \/ ReadEnds(c)
  \/ Respond(c) \/ RespondThrows(c)
  \/ WriteReply(c) \/ WriteFails(c)
  \/ Publish(c)
  \/ Abort(c)

Device(c) ==
  \/ \E l \in Listeners : Connect(c, l)
  \/ \E r \in Requests : Send(c, r)
  \/ \E how \in {"hungup", "reset"} : Leave(c, how)

Next ==
  \/ Starting
  \/ Stop
  \/ Stopping
  \/ \E l \in Listeners : AcceptClientsLoop(l)
  \/ \E c \in Clients : HandleClient(c) \/ Device(c)

Spec == Init /\ [][Next]_vars

(* Code that does not wait for anybody runs; an accept that keeps finding a *)
(* connection succeeds one day, since its transient errors are not for      *)
(* ever; a failed start makes the host stop (StopHost).  Devices owe        *)
(* nothing: they may stay silent in a handshake, send no line and read no   *)
(* reply, so these steps of a handler have no fairness.                     *)
HandlerComputes(c) ==
  \/ BeginHandling(c)
  \/ Check(c)
  \/ ReadLine(c) \/ ReadEnds(c)
  \/ Respond(c) \/ RespondThrows(c)
  \/ WriteFails(c)
  \/ Publish(c)
  \/ Abort(c)

Fairness ==
  /\ WF_vars(Starting)
  /\ WF_vars(Stopping)
  /\ WF_vars(Stop /\ start = "failed")
  /\ \A l \in Listeners :
       /\ WF_vars(AcceptClientsLoop(l))
       /\ \A c \in Clients : SF_vars(Accept(l, c))
  /\ \A c \in Clients : WF_vars(HandlerComputes(c))

FairSpec == Spec /\ Fairness

-----------------------------------------------------------------------------
(* Safety *)

(* No TLS handshake runs before the certificate it serves has been loaded   *)
(* (SocketHandlerService.cs:44 and :159): connections come in as soon as    *)
(* the first listener is open, while Start is still at work.                *)
HandshakeHasCertificate ==
  \A c \in Clients : conn[c] = "handshake" => certificate

(* When Stop was called after Start had ended, nothing of the server runs   *)
(* again once Stop has returned: no socket listens and the accept loops     *)
(* that are left find _isRunning down.                                      *)
OrderlyStopIsFinal ==
  host \in {"unsubscribe"} \cup Gone /\ ~overlap =>
    /\ open = {}
    /\ ~isRunning

(* A contact reaches the registry only for a line that the handler read and *)
(* answered in full: a device is not listed as connected by an exchange     *)
(* that failed half-way.                                                    *)
ContactMeansAnswered ==
  \A c \in Clients : \A n \in reported[c] :
    /\ n <= nread[c]
    /\ GetResponse(sent[c][n]) # Exception
    /\ GetResponse(sent[c][n]).data # None => n \in replied[c]

(* And none gets lost: a line that was answered, and any line the handler   *)
(* has left behind, is reported if it names a device.  The end of a session *)
(* and the cancellation come before a reply or after its contact, but never *)
(* between them; only the host unsubscribes when it likes.                  *)
NoContactIsLost ==
  host \notin Gone =>
    \A c \in Clients : \A n \in 1..nread[c] :
      /\ n \in replied[c] \/ n < nread[c]
      /\ GetResponse(sent[c][n]).mac # None
      => n \in reported[c] \/ (n = nread[c] /\ conn[c] = "publish")

(* The line that ends a session is the last one the handler reads, also     *)
(* when the device has sent more of them behind it.                         *)
NothingReadAfterFarewell ==
  \A c \in Clients : \A n \in 1..nread[c] :
    ~GetResponse(sent[c][n]).keepAlive => n = nread[c]

(* Once Start has returned, an accept loop that is still there serves its   *)
(* listener until the server is stopped: no error of one accept ends it.    *)
AcceptLoopSurvives ==
  [][\A l \in Listeners :
       loop[l] # "exited" /\ loop'[l] = "exited" =>
         host # "up" \/ start # "started"]_vars

(* The steps a session has before it when _isRunning is down: a line it is  *)
(* waiting for already is the last one it serves.                           *)
StepsLeft ==
  [read |-> 5, respond |-> 4, write |-> 3, publish |-> 2, check |-> 1,
   accepted |-> 3, handshake |-> 2, closed |-> 0]

(* From a Stop on that Start does not overlap, each step of a session leads *)
(* it to its end, even if the device goes on sending and the cancellation   *)
(* finds it at none of its awaits.                                          *)
StoppingSessionsEnd ==
  [][\A c \in Clients :
       /\ host # "up" /\ ~overlap
       /\ conn[c] \in Handled /\ conn'[c] # conn[c]
       => StepsLeft[conn'[c]] < StepsLeft[conn[c]]]_vars

-----------------------------------------------------------------------------
(* The inductive invariant behind the safety properties: what Start, Stop,  *)
(* each accept loop and each session know at each of their steps.           *)

Ready ==
  /\ start \notin {"queued", "subscribed", "never"}
  /\ TlsListeners # {} => certificate

StartOK ==
  /\ start \in {"adding", "opening"} \/ open # {} => Ready
  /\ start \notin {"queued", "never"} /\ host \notin Gone => subscribed
  /\ toOpen \subseteq servers
  /\ open \subseteq servers
  /\ start = "started" /\ host = "up" => isRunning

(* What holds of a Stop that Start does not overlap.                        *)
StopOK ==
  host # "up" /\ ~overlap =>
    /\ start \in StartEnded
    /\ ~isRunning
    /\ host = "close" => open \subseteq toClose
    /\ host \in {"unsubscribe"} \cup Gone => open = {}

LoopOK(l) ==
  /\ loop[l] # "none" /\ host \in {"up", "cancel", "snapshot"} => l \in open
  /\ loop[l] = "dispatch" =>
       /\ newClient[l] \in Clients
       /\ conn[newClient[l]] = "taken"
       /\ port[newClient[l]] = l

Unserved == {"away", "backlog", "taken", "accepted", "handshake"}

ContactOK(c) ==
  \A n \in reported[c] :
    /\ n <= nread[c]
    /\ GetResponse(sent[c][n]) # Exception
    /\ GetResponse(sent[c][n]).data # None => n \in replied[c]

Stays(c, n) == GetResponse(sent[c][n]).keepAlive

(* response[c] answers the last line read, from its assignment until the    *)
(* next line is read.                                                       *)
SessionOK(c) ==
  /\ conn[c] # "away" => Ready
  /\ conn[c] = "handshake" => port[c] \in TlsListeners
  /\ nread[c] <= Len(sent[c]) /\ Len(sent[c]) <= MaxRequests
  /\ conn[c] \in Unserved => nread[c] = 0
  /\ conn[c] \in {"respond", "write", "publish"} => nread[c] > 0
  /\ conn[c] \in {"check", "write", "publish"} /\ nread[c] > 0 =>
       /\ GetResponse(Line(c)) # Exception
       /\ response[c] = GetResponse(Line(c))
  /\ conn[c] = "publish" /\ response[c].data # None => nread[c] \in replied[c]
  /\ conn[c] = "read" => \A n \in 1..nread[c] : Stays(c, n)
  /\ \A n \in 1..nread[c] : ~Stays(c, n) => n = nread[c]
  /\ ContactOK(c)

IInv ==
  /\ TypeOK
  /\ StartOK
  /\ StopOK
  /\ \A l \in Listeners : LoopOK(l)
  /\ \A c \in Clients : SessionOK(c)

-----------------------------------------------------------------------------
(* Liveness *)

(* However slow or silent the devices before it are, a connection to a      *)
(* listener whose loop is accepting gets a handler, or the server stops: a  *)
(* loop that outlives a Stop, because Start has raised _isRunning behind    *)
(* it, takes nobody any more.                                               *)
EveryConnectionIsTaken ==
  \A c \in Clients, l \in Listeners :
    (conn[c] = "backlog" /\ port[c] = l /\ loop[l] = "accept")
      ~> (conn[c] # "backlog" \/ cancelled)

(* A start that fails half-way does not leave its open ports behind: the    *)
(* host, unless it is stopping already, stops and Stop closes them.         *)
FailedStartReleasesPorts ==
  (start = "failed" /\ host = "up") ~> (open = {} /\ host = "down")

(* Stop ends every session, also those that wait for a silent device.       *)
StopEndsSessions ==
  \A c \in Clients :
    (cancelled /\ conn[c] \in Handled) ~> (conn[c] \in Ended)

(* A reply that was sent is followed by its contact, unless the host has    *)
(* unsubscribed in between.                                                 *)
RepliedIsReported ==
  \A c \in Clients, n \in Serial :
    (n \in replied[c] /\ response[c].mac # None /\ nread[c] = n)
      ~> (n \in reported[c] \/ ~subscribed)

-----------------------------------------------------------------------------
(* What the documents say and the order of Start breaks *)

(* "TCP Server listening on port 5000" (Readme.md:17), and the log line     *)
(* "Gree AC server started" at SocketHandlerService.cs:76: from then on     *)
(* every listener has a loop that accepts, until the server is stopped.     *)
StartedServerAccepts ==
  start = "started" /\ host = "up" => \A l \in Listeners : loop[l] # "exited"
=============================================================================
