------------------------- MODULE SocketServer_proofs -------------------------
(***************************************************************************)
(* Proofs about SocketServer, for any number of listeners, connections and  *)
(* lines.  Start and Stop on the one side and each session on the other     *)
(* have an inductive invariant of their own; what the two share is the      *)
(* state of the accept loops, in LoopOK.                                    *)
(***************************************************************************)
EXTENDS SocketServer, TLAPS

-----------------------------------------------------------------------------
(* What GetResponse returns: a response, or it throws.                      *)

LEMMA DispatchReturns ==
  ASSUME NEW req \in Request, Dispatch(req) # Exception
  PROVE  Dispatch(req) \in Response
<1>1. \A k \in BOOLEAN, d \in Replies \cup {None} : Answer(d, k) \in Response
  BY DEF Answer, Response
<1>2. \A k \in BOOLEAN : HandleUnknownCommand(k) \in Response
  BY <1>1 DEF HandleUnknownCommand
<1>3. HandleDiscover # Exception => HandleDiscover \in Response
  BY <1>1 DEF HandleDiscover, Replies
<1>4. HandleTime \in Response /\ HandleHeartbeat \in Response
  BY <1>1 DEF HandleTime, HandleHeartbeat, Replies
<1>5. HandlePack(req) # Exception => HandlePack(req) \in Response
  BY <1>1 DEF HandlePack, HandleDevLogin, NormalizeMacThrows, Replies
<1> QED
  BY <1>2, <1>3, <1>4, <1>5 DEF Dispatch, Request, Types

LEMMA GetResponseReturns ==
  ASSUME NEW req \in Request, GetResponse(req) # Exception
  PROVE  GetResponse(req) \in Response
<1>1. \A k \in BOOLEAN : HandleUnknownCommand(k) \in Response
  BY DEF HandleUnknownCommand, Answer, Response
<1>2. CASE req.type \in {"blank", "invalid", "null"}
  BY <1>1, <1>2 DEF GetResponse
<1>3. CASE req.type \notin {"blank", "invalid", "null"}
  <2> DEFINE m == IF req.mac # None THEN req.mac ELSE req.cid
  <2>1. Dispatch(req) # Exception
    BY <1>3 DEF GetResponse
  <2>2. GetResponse(req) = [Dispatch(req) EXCEPT !.mac = m]
    BY <1>3, <2>1 DEF GetResponse
  <2>3. m \in Macs \cup {None}
    BY DEF Request
  <2>4. Dispatch(req) \in Response
    BY <2>1, DispatchReturns
  <2> HIDE DEF m
  <2> QED
    BY <2>2, <2>3, <2>4 DEF Response
<1> QED
  BY <1>2, <1>3

-----------------------------------------------------------------------------
(* Type correctness *)

LEMMA InitTypeOK == Init => TypeOK
<1> SUFFICES ASSUME Init PROVE TypeOK
  OBVIOUS
<1>1. Answer(None, TRUE) \in Response
  BY DEF Answer, Response
<1>2. 0 \in 0..MaxRequests
  BY ServerAssumption
<1>3. sent \in [Clients -> Seq(Requests)]
  BY DEF Init
<1>4. /\ response \in [Clients -> Response]
      /\ nread \in [Clients -> 0..MaxRequests]
  BY <1>1, <1>2 DEF Init
<1>5. replied \in [Clients -> SUBSET Serial] /\ reported \in [Clients -> SUBSET Serial]
  BY DEF Init
<1> QED
  BY <1>3, <1>4, <1>5 DEF Init, TypeOK, StartEnded, HostLabels

LEMMA StartingTypeOK == TypeOK /\ Starting => TypeOK'
<1> SUFFICES ASSUME TypeOK, Starting PROVE TypeOK'
  OBVIOUS
<1> USE DEF TypeOK, StartStep, besidesStart, stopVars, sharedVars, connVars,
            sessionVars
<1>1. CASE Subscribe
  BY <1>1 DEF Subscribe
<1>2. CASE BeginStart
  BY <1>2 DEF BeginStart, FirstStep
<1>3. CASE LoadCertificate
  BY <1>3 DEF LoadCertificate
<1>4. ASSUME NEW l \in Listeners, AddServer(l) PROVE TypeOK'
  BY <1>4 DEF AddServer
<1>5. ASSUME NEW l \in Listeners, OpenListener(l) PROVE TypeOK'
  BY <1>5 DEF OpenListener
<1>6. CASE EnumerateServers
  BY <1>6 DEF EnumerateServers
<1>7. CASE RaiseIsRunning
  BY <1>7 DEF RaiseIsRunning, StartEnded
<1>8. CASE StartThrows
  BY <1>8 DEF StartThrows, StartEnded
<1> QED
  BY <1>1, <1>2, <1>3, <1>4, <1>5, <1>6, <1>7, <1>8 DEF Starting

LEMMA StoppingTypeOK == TypeOK /\ (Stop \/ Stopping) => TypeOK'
<1> SUFFICES ASSUME TypeOK, Stop \/ Stopping PROVE TypeOK'
  OBVIOUS
<1> USE DEF TypeOK, HostStep, HostLabels, besidesStop, startVars, loopVars,
            sharedVars, connVars, sessionVars
<1>1. CASE Stop
  BY <1>1 DEF Stop
<1>2. CASE Cancel
  BY <1>2 DEF Cancel
<1>3. CASE SnapshotServers
  BY <1>3 DEF SnapshotServers
<1>4. ASSUME NEW l \in Listeners, StopListener(l) PROVE TypeOK'
  BY <1>4 DEF StopListener, CloseSocket, Ended
<1>5. CASE StopReturns
  BY <1>5 DEF StopReturns
<1>6. CASE Unsubscribe
  BY <1>6 DEF Unsubscribe
<1>7. CASE CancelExecution
  BY <1>7 DEF CancelExecution, StartEnded
<1>8. CASE StopAsyncReturns
  BY <1>8 DEF StopAsyncReturns
<1> QED
  BY <1>1, <1>2, <1>3, <1>4, <1>5, <1>6, <1>7, <1>8 DEF Stopping

LEMMA LoopTypeOK ==
  ASSUME TypeOK, NEW l \in Listeners, AcceptClientsLoop(l)
  PROVE  TypeOK'
<1> USE DEF TypeOK, LoopStep, besidesLoops, startVars, stopVars, sharedVars,
            connVars, sessionVars
<1>1. CASE LoopCheck(l)
  BY <1>1 DEF LoopCheck
<1>2. ASSUME NEW c \in Clients, Accept(l, c) PROVE TypeOK'
  BY <1>2 DEF Accept
<1>3. CASE DispatchClient(l)
  BY <1>3 DEF DispatchClient, Handled, Ended
<1>4. CASE AcceptFails(l)
  BY <1>4 DEF AcceptFails, AfterError
<1>5. CASE AcceptCancelled(l)
  BY <1>5 DEF AcceptCancelled
<1>6. CASE AcceptAborted(l)
  BY <1>6 DEF AcceptAborted
<1> QED
  BY <1>1, <1>2, <1>3, <1>4, <1>5, <1>6 DEF AcceptClientsLoop

(* A step of a handler or of a device changes connVars only.                *)
SessionTypeOK ==
  /\ conn \in [Clients -> {"away", "backlog", "taken"} \cup Handled \cup Ended]
  /\ port \in [Clients -> Listeners \cup {None}]
  /\ peer \in [Clients -> {"up", "hungup", "reset"}]
  /\ sent \in [Clients -> Seq(Requests)]
  /\ nread \in [Clients -> 0..MaxRequests]
  /\ response \in [Clients -> Response]
  /\ replied \in [Clients -> SUBSET Serial]
  /\ reported \in [Clients -> SUBSET Serial]

LEMMA SessionSuffices ==
  ASSUME TypeOK, UNCHANGED serverVars, SessionTypeOK'
  PROVE  TypeOK'
BY DEF TypeOK, SessionTypeOK, serverVars, startVars, stopVars, loopVars, sharedVars

LEMMA LineIsRequest ==
  ASSUME TypeOK, NEW c \in Clients, SessionOK(c), conn[c] = "respond"
  PROVE  Line(c) \in Request
<1>1. nread[c] \in 1..Len(sent[c]) /\ sent[c] \in Seq(Requests)
  BY DEF TypeOK, SessionOK
<1>2. Line(c) \in Requests
  BY <1>1 DEF Line
<1> QED
  BY <1>2, ServerAssumption

LEMMA HandleClientTypeOK ==
  ASSUME TypeOK, NEW c \in Clients, SessionOK(c), HandleClient(c)
  PROVE  TypeOK'
<1> SUFFICES UNCHANGED serverVars /\ SessionTypeOK'
  BY SessionSuffices
<1> USE DEF TypeOK, SessionTypeOK, ConnStep, sessionVars, Handled, Ended
<1>1. CASE BeginHandling(c)
  BY <1>1 DEF BeginHandling
<1>2. CASE HandshakeSucceeds(c)
  BY <1>2 DEF HandshakeSucceeds
<1>3. CASE HandshakeFails(c)
  BY <1>3 DEF HandshakeFails
<1>4. CASE Check(c)
  BY <1>4 DEF Check
<1>5. CASE ReadLine(c)
  <2>1. nread[c] + 1 \in 0..MaxRequests
    BY <1>5, ServerAssumption DEF ReadLine, SessionOK
  <2> QED
    BY <1>5, <2>1 DEF ReadLine
<1>6. CASE ReadEnds(c)
  BY <1>6 DEF ReadEnds
<1>7. CASE Respond(c)
  <2>1. GetResponse(Line(c)) \in Response
    BY <1>7, LineIsRequest, GetResponseReturns DEF Respond
  <2>2. \A r : AfterRespond(r) \in {"write", "publish", "check"}
    BY DEF AfterRespond, AfterWrite
  <2> QED
    BY <1>7, <2>1, <2>2 DEF Respond
<1>8. CASE RespondThrows(c)
  BY <1>8 DEF RespondThrows
<1>9. CASE WriteReply(c)
  <2>1. nread[c] \in Serial
    BY <1>9 DEF WriteReply, SessionOK, Serial
  <2>2. \A r : AfterWrite(r) \in {"publish", "check"}
    BY DEF AfterWrite
  <2> QED
    BY <1>9, <2>1, <2>2 DEF WriteReply
<1>10. CASE WriteFails(c)
  BY <1>10 DEF WriteFails, AfterFailure
<1>11. CASE Publish(c)
  <2>1. nread[c] \in Serial
    BY <1>11 DEF Publish, SessionOK, Serial
  <2> QED
    BY <1>11, <2>1 DEF Publish
<1>12. CASE Abort(c)
  BY <1>12 DEF Abort
<1> QED
  BY <1>1, <1>2, <1>3, <1>4, <1>5, <1>6, <1>7, <1>8, <1>9, <1>10, <1>11,
     <1>12 DEF HandleClient

LEMMA DeviceTypeOK ==
  ASSUME TypeOK, NEW c \in Clients, Device(c)
  PROVE  TypeOK'
<1> SUFFICES UNCHANGED serverVars /\ SessionTypeOK'
  BY SessionSuffices
<1> USE DEF TypeOK, SessionTypeOK, ConnStep, sessionVars, Handled, Ended
<1>1. ASSUME NEW l \in Listeners, Connect(c, l)
      PROVE  UNCHANGED serverVars /\ SessionTypeOK'
  BY <1>1 DEF Connect
<1>2. ASSUME NEW r \in Requests, Send(c, r)
      PROVE  UNCHANGED serverVars /\ SessionTypeOK'
  BY <1>2 DEF Send
<1>3. ASSUME NEW how \in {"hungup", "reset"}, Leave(c, how)
      PROVE  UNCHANGED serverVars /\ SessionTypeOK'
  BY <1>3 DEF Leave
<1> QED
  BY <1>1, <1>2, <1>3 DEF Device

-----------------------------------------------------------------------------
(* Start and Stop: StartOK, StopOK *)

LEMMA StartingKeepsServerOK ==
  ASSUME TypeOK, StartOK, StopOK, Starting
  PROVE  StartOK' /\ StopOK' /\ (Ready => Ready')
<1> USE DEF TypeOK, StartOK, StopOK, Gone, Ready, StartStep, besidesStart, stopVars,
            sharedVars, StartEnded
<1>1. CASE Subscribe
  BY <1>1 DEF Subscribe
<1>2. CASE BeginStart
  BY <1>2 DEF BeginStart, FirstStep
<1>3. CASE LoadCertificate
  BY <1>3 DEF LoadCertificate
<1>4. ASSUME NEW l \in Listeners, AddServer(l)
      PROVE  StartOK' /\ StopOK' /\ (Ready => Ready')
  BY <1>4 DEF AddServer
<1>5. ASSUME NEW l \in Listeners, OpenListener(l)
      PROVE  StartOK' /\ StopOK' /\ (Ready => Ready')
  BY <1>5 DEF OpenListener
<1>6. CASE EnumerateServers
  BY <1>6 DEF EnumerateServers
<1>7. CASE RaiseIsRunning
  BY <1>7 DEF RaiseIsRunning
<1>8. CASE StartThrows
  BY <1>8 DEF StartThrows
<1> QED
  BY <1>1, <1>2, <1>3, <1>4, <1>5, <1>6, <1>7, <1>8 DEF Starting

LEMMA StoppingKeepsServerOK ==
  ASSUME TypeOK, StartOK, StopOK, Stop \/ Stopping
  PROVE  StartOK' /\ StopOK' /\ (Ready => Ready')
<1> USE DEF TypeOK, StartOK, StopOK, Gone, Ready, HostStep, besidesStop, startVars,
            sharedVars, StartEnded
<1>1. CASE Stop
  BY <1>1 DEF Stop
<1>2. CASE Cancel
  BY <1>2 DEF Cancel
<1>3. CASE SnapshotServers
  BY <1>3 DEF SnapshotServers
<1>4. ASSUME NEW l \in Listeners, StopListener(l)
      PROVE  StartOK' /\ StopOK' /\ (Ready => Ready')
  BY <1>4 DEF StopListener, CloseSocket
<1>5. CASE StopReturns
  BY <1>5 DEF StopReturns
<1>6. CASE Unsubscribe
  BY <1>6 DEF Unsubscribe
<1>7. CASE CancelExecution
  BY <1>7 DEF CancelExecution
<1>8. CASE StopAsyncReturns
  BY <1>8 DEF StopAsyncReturns
<1> QED
  BY <1>1, <1>2, <1>3, <1>4, <1>5, <1>6, <1>7, <1>8 DEF Stopping

(* No other step concerns them.                                             *)
LEMMA ServerFrame ==
  ASSUME StartOK, StopOK, UNCHANGED <<startVars, stopVars, sharedVars>>
  PROVE  StartOK' /\ StopOK' /\ (Ready => Ready')
BY DEF StartOK, StopOK, Gone, Ready, startVars, stopVars, sharedVars

-----------------------------------------------------------------------------
(* The accept loops: LoopOK *)

LEMMA LoopFrame ==
  ASSUME NEW l \in Listeners, LoopOK(l), UNCHANGED <<loop, newClient>>,
         host' \in {"up", "cancel", "snapshot"} =>
           host \in {"up", "cancel", "snapshot"} /\ open \subseteq open',
         loop[l] = "dispatch" /\ conn[newClient[l]] = "taken" =>
           /\ conn'[newClient[l]] = "taken"
           /\ port'[newClient[l]] = port[newClient[l]]
  PROVE  LoopOK(l)'
BY DEF LoopOK

LEMMA StartingKeepsLoopOK ==
  ASSUME TypeOK, NEW l \in Listeners, LoopOK(l), Starting
  PROVE  LoopOK(l)'
<1> USE DEF StartStep, besidesStart, stopVars, sharedVars, connVars
<1>1. ASSUME NEW k \in Listeners, OpenListener(k)
      PROVE  LoopOK(l)'
  BY <1>1 DEF OpenListener, LoopOK, TypeOK
<1>2. ASSUME \A k \in Listeners : ~OpenListener(k)
      PROVE  UNCHANGED <<loop, newClient, host, open, conn, port>>
  BY <1>2 DEF Starting, Subscribe, BeginStart, LoadCertificate, AddServer,
              EnumerateServers, RaiseIsRunning, StartThrows
<1> QED
  BY <1>1, <1>2, LoopFrame

LEMMA StoppingKeepsLoopOK ==
  ASSUME TypeOK, NEW l \in Listeners, LoopOK(l), Stop \/ Stopping
  PROVE  LoopOK(l)'
<1> USE DEF HostStep, besidesStop, loopVars, sharedVars, connVars
<1>1. ASSUME NEW k \in Listeners, StopListener(k)
      PROVE  LoopOK(l)'
  BY <1>1 DEF StopListener, LoopOK, TypeOK
<1>2. ASSUME \A k \in Listeners : ~StopListener(k)
      PROVE  /\ UNCHANGED <<loop, newClient, open, conn, port>>
             /\ host' \in {"up", "cancel", "snapshot"} =>
                  host \in {"up", "cancel", "snapshot"}
  BY <1>2 DEF Stop, Stopping, Cancel, SnapshotServers, StopReturns,
              Unsubscribe, CancelExecution, StopAsyncReturns
<1> QED
  BY <1>1, <1>2, LoopFrame

LEMMA LoopKeepsLoopOK ==
  ASSUME TypeOK, NEW l \in Listeners, AcceptClientsLoop(l), LoopOK(l),
         NEW k \in Listeners, LoopOK(k)
  PROVE  LoopOK(k)'
<1> USE DEF LoopStep, besidesLoops, stopVars, sharedVars, connVars, LoopOK, TypeOK
<1>1. CASE LoopCheck(l)
  BY <1>1 DEF LoopCheck
<1>2. ASSUME NEW c \in Clients, Accept(l, c) PROVE LoopOK(k)'
  BY <1>2 DEF Accept
<1>3. CASE DispatchClient(l)
  BY <1>3 DEF DispatchClient
<1>4. CASE AcceptFails(l)
  BY <1>4 DEF AcceptFails, AfterError
<1>5. CASE AcceptCancelled(l)
  BY <1>5 DEF AcceptCancelled
<1>6. CASE AcceptAborted(l)
  BY <1>6 DEF AcceptAborted
<1> QED
  BY <1>1, <1>2, <1>3, <1>4, <1>5, <1>6 DEF AcceptClientsLoop

(* Handlers and devices: a connection that a loop has just taken has no     *)
(* handler yet, and its port was fixed when it was made.                    *)
LEMMA SessionKeepsLoopOK ==
  ASSUME TypeOK, NEW l \in Listeners, LoopOK(l),
         NEW c \in Clients, HandleClient(c) \/ Device(c)
  PROVE  LoopOK(l)'
<1> USE DEF ConnStep, serverVars, startVars, stopVars, loopVars, sharedVars,
            sessionVars, TypeOK
<1>1. UNCHANGED <<loop, newClient, host, open>>
  BY DEF HandleClient, BeginHandling, HandshakeSucceeds, HandshakeFails, Check,
         ReadLine, ReadEnds, Respond, RespondThrows, WriteReply, WriteFails,
         Publish, Abort, Device, Connect, Send, Leave
<1>2. conn' = conn \/ \E at : conn' = [conn EXCEPT ![c] = at] /\ conn[c] # "taken"
  BY DEF HandleClient, BeginHandling, HandshakeSucceeds, HandshakeFails, Check,
         ReadLine, ReadEnds, Respond, RespondThrows, WriteReply, WriteFails,
         Publish, Abort, Await, Device, Connect, Send, Leave
<1>3. port' = port \/ \E k : port' = [port EXCEPT ![c] = k] /\ conn[c] # "taken"
  BY DEF HandleClient, BeginHandling, HandshakeSucceeds, HandshakeFails, Check,
         ReadLine, ReadEnds, Respond, RespondThrows, WriteReply, WriteFails,
         Publish, Abort, Await, Device, Connect, Send, Leave
<1>4. ASSUME NEW d \in Clients, conn[d] = "taken"
      PROVE  conn'[d] = "taken" /\ port'[d] = port[d]
  BY <1>2, <1>3, <1>4
<1>5. loop[l] = "dispatch" => newClient[l] \in Clients
  BY DEF LoopOK
<1> QED
  BY <1>1, <1>4, <1>5, LoopFrame

-----------------------------------------------------------------------------
(* The sessions: SessionOK *)

Same(c) ==
  /\ conn'[c] = conn[c]
  /\ port'[c] = port[c]
  /\ sent'[c] = sent[c]
  /\ nread'[c] = nread[c]
  /\ response'[c] = response[c]
  /\ replied'[c] = replied[c]
  /\ reported'[c] = reported[c]

LEMMA SessionFrame ==
  ASSUME NEW c \in Clients, SessionOK(c), Same(c), Ready => Ready'
  PROVE  SessionOK(c)'
BY DEF SessionOK, Same, Line, Stays, ContactOK

LEMMA StartingKeepsSessionOK ==
  ASSUME TypeOK, StartOK, StopOK, NEW c \in Clients, SessionOK(c), Starting
  PROVE  SessionOK(c)'
<1>1. UNCHANGED connVars
  BY DEF Starting, Subscribe, BeginStart, LoadCertificate, AddServer,
         EnumerateServers, OpenListener, RaiseIsRunning, StartThrows, besidesStart
<1> QED
  BY <1>1, StartingKeepsServerOK, SessionFrame DEF Same, connVars, sessionVars

LEMMA StoppingKeepsSessionOK ==
  ASSUME TypeOK, StartOK, StopOK, NEW c \in Clients, SessionOK(c),
         Stop \/ Stopping
  PROVE  SessionOK(c)'
<1> USE DEF besidesStop, connVars, sessionVars
<1>1. ASSUME NEW l \in Listeners, StopListener(l)
      PROVE  SessionOK(c)'
  <2>1. Same(c) \/ (conn[c] = "backlog" /\ conn'[c] = "refused")
    BY <1>1 DEF StopListener, Same, TypeOK
  <2>2. Ready => Ready'
    BY StoppingKeepsServerOK
  <2>3. CASE Same(c)
    BY <2>2, <2>3, SessionFrame
  <2>4. CASE conn[c] = "backlog" /\ conn'[c] = "refused"
    BY <1>1, <2>2, <2>4
    DEF StopListener, SessionOK, Unserved, Line, Stays, ContactOK
  <2> QED
    BY <2>1, <2>3, <2>4
<1>2. ASSUME \A l \in Listeners : ~StopListener(l)
      PROVE  UNCHANGED connVars
  BY <1>2 DEF Stop, Stopping, Cancel, SnapshotServers, StopReturns,
              Unsubscribe, CancelExecution, StopAsyncReturns
<1> QED
  BY <1>1, <1>2, StoppingKeepsServerOK, SessionFrame DEF Same

LEMMA LoopKeepsSessionOK ==
  ASSUME TypeOK, StartOK, NEW l \in Listeners, LoopOK(l), AcceptClientsLoop(l),
         NEW c \in Clients, SessionOK(c)
  PROVE  SessionOK(c)'
<1> USE DEF LoopStep, besidesLoops, startVars, stopVars, sharedVars, connVars,
            sessionVars, TypeOK
<1>1. Ready' = Ready
  BY DEF Ready, AcceptClientsLoop, LoopCheck, Accept, DispatchClient, AcceptFails,
         AcceptCancelled, AcceptAborted
<1>2. UNCHANGED sessionVars /\ UNCHANGED port
  BY DEF AcceptClientsLoop, LoopCheck, Accept, DispatchClient, AcceptFails,
         AcceptCancelled, AcceptAborted
<1>3. \/ conn'[c] = conn[c]
      \/ conn[c] = "backlog" /\ conn'[c] = "taken"
      \/ conn[c] = "taken" /\ conn'[c] \in {"accepted", "abandoned"}
  BY DEF AcceptClientsLoop, LoopCheck, Accept, DispatchClient, AcceptFails,
         AcceptCancelled, AcceptAborted, LoopOK
<1>4. CASE conn'[c] = conn[c]
  BY <1>1, <1>2, <1>4, SessionFrame DEF Same
<1>5. CASE conn'[c] # conn[c]
  BY <1>1, <1>2, <1>3, <1>5 DEF SessionOK, Unserved, Line, Stays, ContactOK
<1> QED
  BY <1>4, <1>5

(* A handler that ends leaves everything else about its connection.         *)
LEMMA EndKeepsSessionOK ==
  ASSUME NEW c \in Clients, SessionOK(c), conn[c] # "away", conn'[c] \in Ended,
         UNCHANGED <<start, certificate, port, sessionVars>>
  PROVE  SessionOK(c)'
<1>1. Ready' = Ready /\ Line(c)' = Line(c) /\ ContactOK(c)' = ContactOK(c)
  BY DEF Ready, Line, ContactOK, sessionVars
<1>2. \A n : Stays(c, n)' = Stays(c, n)
  BY DEF Stays, sessionVars
<1> QED
  BY <1>1, <1>2 DEF SessionOK, Unserved, Ended, sessionVars

LEMMA ReadLineKeepsSessionOK ==
  ASSUME TypeOK, NEW c \in Clients, SessionOK(c), ReadLine(c)
  PROVE  SessionOK(c)'
<1>1. /\ nread[c] \in Nat /\ Len(sent[c]) \in Nat
      /\ reported[c] \subseteq Nat
  BY ServerAssumption DEF TypeOK, Serial
<1>2. nread'[c] = nread[c] + 1 /\ conn'[c] = "respond" /\ conn[c] = "read"
  BY DEF ReadLine, ConnStep, TypeOK
<1>3. nread[c] < Len(sent[c])
  BY DEF ReadLine
<1>4. UNCHANGED <<start, certificate, port, sent, replied, reported>>
  BY DEF ReadLine, serverVars, startVars
<1>5. \A n : Stays(c, n)' = Stays(c, n)
  BY <1>4 DEF Stays
<1>6. \A n \in 1..nread'[c] : ~Stays(c, n)' => n = nread'[c]
  BY <1>1, <1>2, <1>5 DEF SessionOK
<1>7. ContactOK(c)'
  <2>1. SUFFICES ASSUME NEW n \in reported[c]
                 PROVE  /\ n <= nread'[c]
                        /\ GetResponse(sent[c][n]) # Exception
                        /\ GetResponse(sent[c][n]).data # None => n \in replied[c]
    BY <1>4 DEF ContactOK
  <2>2. n <= nread[c] /\ n \in Nat
    BY <1>1, <2>1 DEF SessionOK, ContactOK
  <2>3. n <= nread'[c]
    BY <1>1, <1>2, <2>2
  <2> QED
    BY <2>1, <2>3 DEF SessionOK, ContactOK
<1> QED
  BY <1>1, <1>2, <1>3, <1>4, <1>6, <1>7 DEF SessionOK, Ready, Unserved

LEMMA RespondKeepsSessionOK ==
  ASSUME TypeOK, NEW c \in Clients, SessionOK(c), Respond(c)
  PROVE  SessionOK(c)'
<1>1. /\ conn[c] = "respond"
      /\ conn'[c] \in {"write", "publish", "check"}
      /\ conn'[c] = "publish" => GetResponse(Line(c)).data = None
  BY DEF Respond, ConnStep, AfterRespond, AfterWrite, TypeOK
<1>2. GetResponse(Line(c)) # Exception /\ response'[c] = GetResponse(Line(c))
  BY DEF Respond, TypeOK
<1>3. UNCHANGED <<start, certificate, port, sent, nread, replied, reported>>
  BY DEF Respond, serverVars, startVars
<1>4. Line(c)' = Line(c) /\ ContactOK(c)' = ContactOK(c)
  BY <1>3 DEF Line, ContactOK
<1>5. \A n : Stays(c, n)' = Stays(c, n)
  BY <1>3 DEF Stays
<1> QED
  BY <1>1, <1>2, <1>3, <1>4, <1>5 DEF SessionOK, Ready, Unserved

LEMMA WriteReplyKeepsSessionOK ==
  ASSUME TypeOK, NEW c \in Clients, SessionOK(c), WriteReply(c)
  PROVE  SessionOK(c)'
<1>1. conn[c] = "write" /\ conn'[c] \in {"publish", "check"}
  BY DEF WriteReply, ConnStep, AfterWrite, TypeOK
<1>2. replied'[c] = replied[c] \cup {nread[c]}
  BY DEF WriteReply, TypeOK
<1>3. UNCHANGED <<start, certificate, port, sent, nread, response, reported>>
  BY DEF WriteReply, serverVars, startVars
<1>4. Line(c)' = Line(c)
  BY <1>3 DEF Line
<1>5. \A n : Stays(c, n)' = Stays(c, n)
  BY <1>3 DEF Stays
<1>6. ContactOK(c)'
  BY <1>2, <1>3 DEF SessionOK, ContactOK
<1> QED
  BY <1>1, <1>2, <1>3, <1>4, <1>5, <1>6 DEF SessionOK, Ready, Unserved

LEMMA PublishKeepsSessionOK ==
  ASSUME TypeOK, NEW c \in Clients, SessionOK(c), Publish(c)
  PROVE  SessionOK(c)'
<1>1. conn[c] = "publish" /\ conn'[c] = "check" /\ nread[c] \in Nat
  BY ServerAssumption DEF Publish, ConnStep, TypeOK
<1>2. reported'[c] \subseteq reported[c] \cup {nread[c]}
  BY DEF Publish, TypeOK
<1>3. UNCHANGED <<start, certificate, port, sent, nread, response, replied>>
  BY DEF Publish, serverVars, startVars
<1>4. Line(c)' = Line(c)
  BY <1>3 DEF Line
<1>5. \A n : Stays(c, n)' = Stays(c, n)
  BY <1>3 DEF Stays
<1>6. /\ GetResponse(sent[c][nread[c]]) # Exception
      /\ GetResponse(sent[c][nread[c]]).data # None => nread[c] \in replied[c]
  BY <1>1 DEF SessionOK, Line
<1>7. ContactOK(c)'
  BY <1>1, <1>2, <1>3, <1>6 DEF SessionOK, ContactOK
<1> QED
  BY <1>1, <1>3, <1>4, <1>5, <1>7 DEF SessionOK, Ready, Unserved

LEMMA HandleClientKeepsSessionOK ==
  ASSUME TypeOK, NEW c \in Clients, SessionOK(c), HandleClient(c)
  PROVE  SessionOK(c)'
<1> USE DEF TypeOK, ConnStep, serverVars, startVars
<1>1. ASSUME ConnStep(c, conn[c], "closed"), conn[c] # "away",
             UNCHANGED <<serverVars, port, sessionVars>>
      PROVE  SessionOK(c)'
  BY <1>1, EndKeepsSessionOK DEF Ended
(* The steps before the first line and the test of the loop.                *)
<1>2. ASSUME BeginHandling(c) \/ HandshakeSucceeds(c) \/ Check(c)
      PROVE  SessionOK(c)'
  <2>1. UNCHANGED <<start, certificate, port, sessionVars>>
    BY <1>2 DEF BeginHandling, HandshakeSucceeds, Check
  <2>2. Ready' = Ready /\ Line(c)' = Line(c) /\ ContactOK(c)' = ContactOK(c)
    BY <2>1 DEF Ready, Line, ContactOK, sessionVars
  <2>3. \A n : Stays(c, n)' = Stays(c, n)
    BY <2>1 DEF Stays, sessionVars
  <2> USE <2>1, <2>2, <2>3 DEF SessionOK, Unserved, sessionVars
  <2>4. CASE BeginHandling(c)
    BY <2>4 DEF BeginHandling
  <2>5. CASE HandshakeSucceeds(c)
    BY <2>5 DEF HandshakeSucceeds
  <2>6. CASE Check(c)
    <3>1. conn[c] = "check" /\ conn'[c] \in {"read", "closed"}
      BY <2>6 DEF Check
    <3>2. ASSUME conn'[c] = "read", NEW n \in 1..nread[c]
          PROVE  Stays(c, n)
      <4>1. response[c].keepAlive /\ nread[c] \in Nat
        BY <2>6, <3>2, ServerAssumption DEF Check, GoesOn
      <4>2. Stays(c, nread[c])
        BY <3>1, <3>2, <4>1 DEF Stays, Line
      <4> QED
        BY <4>2
    <3> QED
      BY <3>1, <3>2
  <2> QED
    BY <1>2, <2>4, <2>5, <2>6
<1>3. CASE \/ HandshakeFails(c) \/ ReadEnds(c) \/ RespondThrows(c)
           \/ WriteFails(c) \/ Abort(c)
  BY <1>1, <1>3 DEF HandshakeFails, ReadEnds, RespondThrows, WriteFails,
                    AfterFailure, Abort, Await
<1> QED
  BY <1>2, <1>3, ReadLineKeepsSessionOK, RespondKeepsSessionOK,
     WriteReplyKeepsSessionOK, PublishKeepsSessionOK DEF HandleClient

LEMMA DeviceKeepsSessionOK ==
  ASSUME TypeOK, StartOK, NEW c \in Clients, SessionOK(c), Device(c)
  PROVE  SessionOK(c)'
<1>1. nread[c] \in Nat /\ sent[c] \in Seq(Requests) /\ Len(sent[c]) \in Nat
  BY ServerAssumption DEF TypeOK
<1> USE <1>1 DEF TypeOK, ConnStep, serverVars, startVars, sessionVars,
                 SessionOK, Unserved, Ready
<1>2. ASSUME NEW l \in Listeners, Connect(c, l) PROVE SessionOK(c)'
  BY <1>2 DEF Connect, sharedVars, StartOK, Line, Stays, ContactOK
<1>3. ASSUME NEW r \in Requests, Send(c, r) PROVE SessionOK(c)'
  <2>1. \A n \in 1..nread[c] : sent'[c][n] = sent[c][n]
    BY <1>3 DEF Send
  <2>2. Len(sent'[c]) = Len(sent[c]) + 1 /\ Len(sent[c]) < MaxRequests
    BY <1>3 DEF Send
  <2>3. \A n \in reported[c] : n \in 1..nread[c]
    BY DEF ContactOK, Serial
  <2>4. nread[c] > 0 => Line(c)' = Line(c)
    BY <1>3, <2>1 DEF Send, Line
  <2>5. \A n \in 1..nread[c] : Stays(c, n)' = Stays(c, n)
    BY <1>3, <2>1 DEF Send, Stays
  <2>6. ContactOK(c)'
    BY <1>3, <2>1, <2>3 DEF Send, ContactOK
  <2> QED
    BY <1>3, <2>2, <2>4, <2>5, <2>6, ServerAssumption DEF Send
<1>4. ASSUME NEW how \in {"hungup", "reset"}, Leave(c, how) PROVE SessionOK(c)'
  BY <1>4 DEF Leave, Line, Stays, ContactOK
<1> QED
  BY <1>2, <1>3, <1>4 DEF Device

(* A handler, or a device, leaves the connections of the others alone.      *)
LEMMA OthersStayTheSame ==
  ASSUME TypeOK, NEW c \in Clients, HandleClient(c) \/ Device(c),
         NEW d \in Clients \ {c}
  PROVE  Same(d)
BY DEF TypeOK, Same, ConnStep, sessionVars, HandleClient, BeginHandling,
       HandshakeSucceeds, HandshakeFails, Check, ReadLine, ReadEnds, Respond,
       RespondThrows, WriteReply, WriteFails, Publish, Abort, Device, Connect,
       Send, Leave

-----------------------------------------------------------------------------
(* The invariant *)

LEMMA InitIInv == Init => IInv
<1> SUFFICES ASSUME Init PROVE IInv
  OBVIOUS
<1>1. TypeOK
  BY InitTypeOK
<1>2. StartOK /\ StopOK
  BY DEF Init, StartOK, StopOK
<1>3. \A l \in Listeners : LoopOK(l)
  BY DEF Init, LoopOK
<1>4. \A c \in Clients : SessionOK(c)
  BY ServerAssumption DEF Init, SessionOK, Unserved, ContactOK
<1> QED
  BY <1>1, <1>2, <1>3, <1>4 DEF IInv

LEMMA StepIInv == IInv /\ [Next]_vars => IInv'
<1> SUFFICES ASSUME IInv, [Next]_vars PROVE IInv'
  OBVIOUS
<1> USE DEF IInv
<1>1. CASE Starting
  BY <1>1, StartingTypeOK, StartingKeepsServerOK, StartingKeepsLoopOK,
     StartingKeepsSessionOK
<1>2. CASE Stop \/ Stopping
  BY <1>2, StoppingTypeOK, StoppingKeepsServerOK, StoppingKeepsLoopOK,
     StoppingKeepsSessionOK
<1>3. ASSUME NEW l \in Listeners, AcceptClientsLoop(l)
      PROVE  IInv'
  <2>1. UNCHANGED <<startVars, stopVars, sharedVars>>
    BY <1>3 DEF AcceptClientsLoop, LoopCheck, Accept, DispatchClient,
                AcceptFails, AcceptCancelled, AcceptAborted, besidesLoops
  <2> QED
    BY <1>3, <2>1, LoopTypeOK, ServerFrame, LoopKeepsLoopOK, LoopKeepsSessionOK
<1>4. ASSUME NEW c \in Clients, HandleClient(c) \/ Device(c)
      PROVE  IInv'
  <2>1. UNCHANGED <<startVars, stopVars, sharedVars>>
    BY <1>4 DEF HandleClient, BeginHandling, HandshakeSucceeds, HandshakeFails,
                Check, ReadLine, ReadEnds, Respond, RespondThrows, WriteReply,
                WriteFails, Publish, Abort, Device, Connect, Send, Leave,
                serverVars
  <2>2. StartOK' /\ StopOK' /\ (Ready => Ready')
    BY <2>1, ServerFrame
  <2>3. \A d \in Clients : SessionOK(d)'
    BY <1>4, <2>2, HandleClientKeepsSessionOK, DeviceKeepsSessionOK,
       OthersStayTheSame, SessionFrame
  <2> QED
    BY <1>4, <2>2, <2>3, HandleClientTypeOK, DeviceTypeOK, SessionKeepsLoopOK
<1>5. CASE UNCHANGED vars
  BY <1>5 DEF vars, serverVars, startVars, stopVars, loopVars, sharedVars,
              connVars, sessionVars, TypeOK, StartOK, StopOK, LoopOK, SessionOK,
              Ready, Line, Stays, ContactOK
<1> QED
  BY <1>1, <1>2, <1>3, <1>4, <1>5 DEF Next

(* IInv is an invariant: every reachable state of the server satisfies it.  *)
THEOREM Invariance == Spec => []IInv
BY InitIInv, StepIInv, PTL DEF Spec

-----------------------------------------------------------------------------
(* The theorems *)

(* The state of the server keeps the types of _tlsCertificate, the bag of   *)
(* listeners, _isRunning, the token, the loops and the sessions.            *)
THEOREM TypeCorrect == Spec => []TypeOK
BY Invariance, PTL DEF IInv

(* No handshake begins while Start has still to load the certificate,       *)
(* however early the first connection comes (SocketHandlerService.cs:44).   *)
THEOREM CertificateCorrect == Spec => []HandshakeHasCertificate
<1>1. IInv => HandshakeHasCertificate
  BY DEF IInv, SessionOK, HandshakeHasCertificate, Ready
<1> QED
  BY <1>1, Invariance, PTL

(* A Stop that finds Start at its end leaves no socket open and _isRunning  *)
(* down for good (SocketHandlerService.cs:86).                              *)
THEOREM OrderlyStopCorrect == Spec => []OrderlyStopIsFinal
<1>1. IInv => OrderlyStopIsFinal
  BY DEF IInv, StopOK, Gone, OrderlyStopIsFinal
<1> QED
  BY <1>1, Invariance, PTL

(* The registry hears of no device by a line that was not answered in full  *)
(* (SocketHandlerService.cs:191-204).                                       *)
THEOREM ContactsCorrect == Spec => []ContactMeansAnswered
<1>1. IInv => ContactMeansAnswered
  BY DEF IInv, SessionOK, ContactOK, ContactMeansAnswered
<1> QED
  BY <1>1, Invariance, PTL

(* Lines behind the one that ends a session are never read, in whatever     *)
(* order the device sent them (SocketHandlerService.cs:180).                *)
THEOREM FarewellCorrect == Spec => []NothingReadAfterFarewell
<1>1. IInv => NothingReadAfterFarewell
  BY DEF IInv, SessionOK, Stays, NothingReadAfterFarewell
<1> QED
  BY <1>1, Invariance, PTL

(* Until Start has returned or the host stops, and only then, may an accept *)
(* loop end: no error of an accept ends it (SocketHandlerService.cs:119).   *)
THEOREM LoopsSurvive == Spec => AcceptLoopSurvives
<1> DEFINE Survives ==
      \A l \in Listeners :
        loop[l] # "exited" /\ loop'[l] = "exited" => host # "up" \/ start # "started"
<1>1. IInv /\ [Next]_vars => Survives
  <2> SUFFICES ASSUME IInv, [Next]_vars, NEW l \in Listeners,
                      loop[l] # "exited", loop'[l] = "exited",
                      host = "up", start = "started"
               PROVE  FALSE
    OBVIOUS
  <2>1. /\ isRunning
        /\ loop \in [Listeners -> {"none", "check", "accept", "dispatch", "exited"}]
    BY DEF IInv, StartOK, TypeOK
  <2>2. PICK k \in Listeners : AcceptClientsLoop(k) \/ OpenListener(k)
    <3>1. loop' # loop
      OBVIOUS
    <3>2. Starting => \E k \in Listeners : OpenListener(k)
      BY <3>1 DEF Starting, Subscribe, BeginStart, LoadCertificate, AddServer,
         EnumerateServers, RaiseIsRunning, StartThrows
    <3>3. ~(Stop \/ Stopping)
      BY <3>1 DEF Stop, Stopping, Cancel, SnapshotServers, StopListener,
         StopReturns, Unsubscribe, CancelExecution, StopAsyncReturns,
         besidesStop, loopVars
    <3>4. ~\E c \in Clients : HandleClient(c) \/ Device(c)
      BY <3>1 DEF HandleClient, BeginHandling, HandshakeSucceeds,
         HandshakeFails, Check, ReadLine, ReadEnds, Respond, RespondThrows,
         WriteReply, WriteFails, Publish, Abort, Device, Connect, Send, Leave,
         serverVars, loopVars
    <3> QED
      BY <3>1, <3>2, <3>3, <3>4 DEF Next, vars, serverVars, loopVars
  <2>3. l \in open
    BY <2>1, <2>2 DEF IInv, LoopOK, AcceptClientsLoop, LoopCheck, Accept,
       DispatchClient, AcceptFails, AcceptCancelled, AcceptAborted, LoopStep,
       OpenListener
  <2> QED
    BY <2>1, <2>2, <2>3 DEF AcceptClientsLoop, LoopCheck, Accept, DispatchClient,
       AcceptFails, AfterError, AcceptCancelled, AcceptAborted, LoopStep,
       OpenListener
<1> QED
  BY <1>1, Invariance, PTL DEF Spec, AcceptLoopSurvives

(* A step of the server's own threads, or of another session, leaves a      *)
(* session that has a handler where it is, and so does its device.          *)
LEMMA HandledByItself ==
  ASSUME IInv, [Next]_vars, NEW c \in Clients,
         conn[c] \in Handled, conn'[c] # conn[c]
  PROVE  HandleClient(c)
<1>1. conn \in [Clients -> {"away", "backlog", "taken"} \cup Handled \cup Ended]
  BY DEF IInv, TypeOK
<1>2. conn[c] \notin {"away", "backlog", "taken"}
  BY DEF Handled
<1>3. ~(Starting \/ Stop)
  BY DEF Starting, Subscribe, BeginStart, LoadCertificate, AddServer,
     EnumerateServers, OpenListener, RaiseIsRunning, StartThrows, Stop,
     besidesStart, besidesStop, connVars
<1>4. ~Stopping
  BY <1>1, <1>2 DEF Stopping, Cancel, SnapshotServers, StopListener,
     StopReturns, Unsubscribe, CancelExecution, StopAsyncReturns, besidesStop,
     connVars
<1>5. ASSUME NEW l \in Listeners PROVE ~AcceptClientsLoop(l)
  <2>1. loop[l] = "dispatch" => newClient[l] # c
    BY <1>2 DEF IInv, LoopOK
  <2> QED
    BY <1>1, <1>2, <2>1 DEF AcceptClientsLoop, LoopCheck, Accept, DispatchClient,
       AcceptFails, AcceptCancelled, AcceptAborted, LoopStep, besidesLoops, connVars
<1>6. ASSUME NEW d \in Clients, d # c PROVE ~(HandleClient(d) \/ Device(d))
  BY <1>6, OthersStayTheSame DEF IInv, Same
<1>7. ~Device(c)
  BY <1>1, <1>2 DEF Device, Connect, Send, Leave, ConnStep
<1>8. vars' # vars
  BY DEF vars, connVars
<1> QED
  BY <1>3, <1>4, <1>5, <1>6, <1>7, <1>8 DEF Next

(* From an orderly Stop on each step of a session leaves it fewer steps: it *)
(* serves the line it waits for, if it still comes, and no other one        *)
(* (SocketHandlerService.cs:180).                                           *)
THEOREM StoppingEnds == Spec => StoppingSessionsEnd
<1> DEFINE Ends ==
      \A c \in Clients :
        /\ host # "up" /\ ~overlap
        /\ conn[c] \in Handled /\ conn'[c] # conn[c]
        => StepsLeft[conn'[c]] < StepsLeft[conn[c]]
<1>1. IInv /\ [Next]_vars => Ends
  <2> SUFFICES ASSUME IInv, [Next]_vars, NEW c \in Clients,
                      host # "up", ~overlap,
                      conn[c] \in Handled, conn'[c] # conn[c]
               PROVE  StepsLeft[conn'[c]] < StepsLeft[conn[c]]
    OBVIOUS
  <2>1. ~isRunning
    BY DEF IInv, StopOK
  <2>2. HandleClient(c)
    BY HandledByItself
  <2>3. conn \in [Clients -> {"away", "backlog", "taken"} \cup Handled \cup Ended]
    BY DEF IInv, TypeOK
  <2> QED
    BY <2>1, <2>2, <2>3 DEF StepsLeft, HandleClient, ConnStep, BeginHandling,
       HandshakeSucceeds, HandshakeFails, Check, GoesOn, ReadLine, ReadEnds,
       Respond, RespondThrows, AfterRespond, WriteReply, AfterWrite, WriteFails,
       AfterFailure, Publish, Abort, Await
<1> QED
  BY <1>1, Invariance, PTL DEF Spec, StoppingSessionsEnd
-----------------------------------------------------------------------------
(* No contact is lost: what has happened to each line that was read         *)

Names(c, n) == GetResponse(sent[c][n]).mac # None

(* The handler is through with the line, its report not counted.            *)
Answered(c, n) ==
  n \in replied[c] \/ n < nread[c] \/ conn[c] \in {"check", "read"}

ReportOK(c) ==
  /\ replied[c] \subseteq 1..nread[c]
  /\ conn[c] \in {"respond", "write"} => nread[c] \notin replied[c]
  /\ host \notin Gone =>
       \A n \in 1..nread[c] : Answered(c, n) /\ Names(c, n) =>
         n \in reported[c] \/ (n = nread[c] /\ conn[c] = "publish")

(* The host does not subscribe again.                                       *)
LEMMA GoneForGood == [Next]_vars /\ host \in Gone => host' \in Gone
<1> SUFFICES ASSUME [Next]_vars, host \in Gone PROVE host' \in Gone
  OBVIOUS
<1> USE DEF Gone
<1>1. CASE Starting
  BY <1>1 DEF Starting, Subscribe, BeginStart, LoadCertificate, AddServer,
     EnumerateServers, OpenListener, RaiseIsRunning, StartThrows, besidesStart,
     stopVars
<1>2. CASE Stop \/ Stopping
  BY <1>2 DEF Stop, Stopping, Cancel, SnapshotServers, StopListener, StopReturns,
     Unsubscribe, CancelExecution, StopAsyncReturns, HostStep
<1>3. ASSUME NEW l \in Listeners, AcceptClientsLoop(l)
      PROVE  host' = host
  BY <1>3 DEF AcceptClientsLoop, LoopCheck, Accept, DispatchClient,
              AcceptFails, AcceptCancelled, AcceptAborted, besidesLoops, stopVars
<1>4. ASSUME NEW c \in Clients, HandleClient(c) \/ Device(c)
      PROVE  host' = host
  BY <1>4 DEF HandleClient, BeginHandling, HandshakeSucceeds, HandshakeFails,
              Check, ReadLine, ReadEnds, Respond, RespondThrows, WriteReply,
              WriteFails, Publish, Abort, Device, Connect, Send, Leave,
              serverVars, stopVars
<1>5. CASE UNCHANGED vars
  BY <1>5 DEF vars, serverVars, stopVars
<1> QED
  BY <1>1, <1>2, <1>3, <1>4, <1>5 DEF Next

(* Steps that read, answer and report nothing may end a session, or take it *)
(* nearer to its first line.                                                *)
LEMMA ReportFrame ==
  ASSUME TypeOK, NEW c \in Clients, ReportOK(c),
         host \in Gone => host' \in Gone,
         \A n \in 1..nread[c] : sent'[c][n] = sent[c][n],
         nread'[c] = nread[c], replied'[c] = replied[c], reported'[c] = reported[c],
         \/ conn'[c] = conn[c]
         \/ conn'[c] \in Ended /\ conn[c] # "publish"
         \/ conn'[c] = "read" /\ conn[c] = "check"
         \/ nread[c] = 0
  PROVE  ReportOK(c)'
<1>1. CASE nread[c] = 0
  BY <1>1 DEF ReportOK
<1>2. CASE nread[c] # 0
  <2>1. /\ conn'[c] \in {"respond", "write"} => conn[c] = conn'[c]
        /\ conn'[c] \in {"check", "read"} => conn[c] \in {"check", "read"}
        /\ conn[c] = "publish" => conn'[c] = "publish"
    BY <1>2 DEF Ended
  <2>2. \A n \in 1..nread[c] : Names(c, n)' = Names(c, n)
    BY DEF Names
  <2>3. \A n \in 1..nread[c] : Answered(c, n)' => Answered(c, n)
    BY <2>1 DEF Answered
  <2> QED
    BY <2>1, <2>2, <2>3 DEF ReportOK
<1> QED
  BY <1>1, <1>2

LEMMA ReadLineReports ==
  ASSUME TypeOK, NEW c \in Clients, ReportOK(c), ReadLine(c)
  PROVE  ReportOK(c)'
<1>1. /\ conn[c] = "read" /\ conn'[c] = "respond"
      /\ nread[c] \in Nat /\ nread'[c] = nread[c] + 1
      /\ UNCHANGED <<sent, replied, reported, host>>
  BY ServerAssumption DEF ReadLine, ConnStep, TypeOK, serverVars, stopVars
<1>2. replied'[c] \subseteq 1..nread'[c] /\ nread'[c] \notin replied'[c]
  BY <1>1 DEF ReportOK
<1>3. ASSUME NEW n \in 1..nread'[c], Answered(c, n)'
      PROVE  n \in 1..nread[c] /\ Answered(c, n) /\ ~(conn[c] = "publish")
  BY <1>1, <1>2, <1>3 DEF Answered
<1>4. \A n : Names(c, n)' = Names(c, n)
  BY <1>1 DEF Names
<1> QED
  BY <1>1, <1>2, <1>3, <1>4 DEF ReportOK

(* A response names its device: it goes on to the report.                   *)
LEMMA RespondReports ==
  ASSUME TypeOK, NEW c \in Clients, ReportOK(c), Respond(c)
  PROVE  ReportOK(c)'
<1>1. /\ conn[c] = "respond" /\ nread[c] \in Nat
      /\ UNCHANGED <<sent, nread, replied, reported, host>>
  BY ServerAssumption DEF Respond, TypeOK, serverVars, stopVars
<1>2. \/ conn'[c] \in {"write", "publish"}
      \/ conn'[c] = "check" /\ ~Names(c, nread[c])
  BY DEF Respond, ConnStep, AfterRespond, AfterWrite, Names, Line, TypeOK
<1>3. \A n : Names(c, n)' = Names(c, n)
  BY <1>1 DEF Names
<1>4. ASSUME NEW n \in 1..nread[c], Answered(c, n)', Names(c, n), n # nread[c]
      PROVE  Answered(c, n)
  BY <1>1, <1>4 DEF Answered
<1>5. ASSUME Answered(c, nread[c])', Names(c, nread[c])
      PROVE  conn'[c] = "publish"
  BY <1>1, <1>2, <1>5 DEF Answered, ReportOK
<1> QED
  BY <1>1, <1>2, <1>3, <1>4, <1>5 DEF ReportOK

(* The reply is out, and the report is the next thing the handler does.     *)
LEMMA WriteReplyReports ==
  ASSUME TypeOK, NEW c \in Clients, SessionOK(c), ReportOK(c), WriteReply(c)
  PROVE  ReportOK(c)'
<1>1. /\ conn[c] = "write" /\ nread[c] \in Nat /\ nread[c] > 0
      /\ replied'[c] = replied[c] \cup {nread[c]}
      /\ UNCHANGED <<sent, nread, reported, host>>
  BY ServerAssumption DEF WriteReply, ConnStep, SessionOK, TypeOK, serverVars,
                          stopVars
<1>2. \/ conn'[c] = "publish"
      \/ conn'[c] = "check" /\ ~Names(c, nread[c])
  BY <1>1 DEF WriteReply, ConnStep, AfterWrite, Names, Line, SessionOK, TypeOK
<1>3. \A n : Names(c, n)' = Names(c, n)
  BY <1>1 DEF Names
<1>4. ASSUME NEW n \in 1..nread[c], n # nread[c]
      PROVE  Answered(c, n)
  BY <1>1, <1>4 DEF Answered
<1> QED
  BY <1>1, <1>2, <1>3, <1>4 DEF ReportOK

(* Whoever has a session has subscribed before.                             *)
LEMMA PublishReports ==
  ASSUME TypeOK, StartOK, NEW c \in Clients, SessionOK(c), ReportOK(c), Publish(c)
  PROVE  ReportOK(c)'
<1>1. /\ conn[c] = "publish" /\ conn'[c] = "check" /\ nread[c] \in Nat
      /\ UNCHANGED <<sent, nread, replied, host>>
  BY ServerAssumption DEF Publish, ConnStep, TypeOK, serverVars, stopVars
<1>2. host \notin Gone => reported'[c] = reported[c] \cup {nread[c]}
  BY <1>1 DEF Publish, SessionOK, StartOK, Ready, TypeOK
<1>3. \A n : Names(c, n)' = Names(c, n)
  BY <1>1 DEF Names
<1>4. ASSUME NEW n \in 1..nread[c], n # nread[c]
      PROVE  Answered(c, n)
  BY <1>1, <1>4 DEF Answered
<1> QED
  BY <1>1, <1>2, <1>3, <1>4 DEF ReportOK

LEMMA HandleClientReports ==
  ASSUME TypeOK, StartOK, NEW c \in Clients, SessionOK(c), ReportOK(c),
         HandleClient(c)
  PROVE  ReportOK(c)'
<1>1. CASE ReadLine(c) \/ Respond(c) \/ WriteReply(c) \/ Publish(c)
  BY <1>1, ReadLineReports, RespondReports, WriteReplyReports, PublishReports
<1>2. CASE ~(ReadLine(c) \/ Respond(c) \/ WriteReply(c) \/ Publish(c))
  <2> USE DEF HandleClient, BeginHandling, HandshakeSucceeds, HandshakeFails, Check,
              ReadEnds, RespondThrows, WriteFails, AfterFailure, Abort, Await,
              ConnStep
  <2>1. UNCHANGED <<sessionVars, host>>
    BY <1>2 DEF serverVars, stopVars
  <2>2. \/ conn'[c] = "closed" /\ conn[c] # "publish"
        \/ conn'[c] = "read" /\ conn[c] = "check"
        \/ conn[c] \in {"accepted", "handshake"}
    BY <1>2 DEF TypeOK
  <2>3. conn[c] \in {"accepted", "handshake"} => nread[c] = 0
    BY DEF SessionOK, Unserved
  <2> QED
    BY <2>1, <2>2, <2>3, ReportFrame DEF sessionVars, Ended
<1> QED
  BY <1>1, <1>2

LEMMA DeviceReports ==
  ASSUME TypeOK, NEW c \in Clients, SessionOK(c), ReportOK(c), Device(c)
  PROVE  ReportOK(c)'
<1>1. nread[c] \in Nat /\ sent[c] \in Seq(Requests) /\ nread[c] <= Len(sent[c])
  BY ServerAssumption DEF TypeOK, SessionOK
<1>2. UNCHANGED <<nread, replied, reported, host>>
  BY DEF Device, Connect, Send, Leave, serverVars, sessionVars, stopVars
<1>3. \A n \in 1..nread[c] : sent'[c][n] = sent[c][n]
  <2>1. UNCHANGED sent \/ \E r \in Requests : sent'[c] = Append(sent[c], r)
    BY DEF Device, Connect, Send, Leave, sessionVars, TypeOK
  <2>2. \A n \in 1..nread[c] : n \in 1..Len(sent[c])
    BY <1>1
  <2> QED
    BY <1>1, <2>1, <2>2
<1>4. conn'[c] = conn[c] \/ nread[c] = 0
  BY DEF Device, Connect, Send, Leave, ConnStep, SessionOK, Unserved
<1> QED
  BY <1>2, <1>3, <1>4, ReportFrame

LEMMA StepReports ==
  ASSUME IInv, [Next]_vars, NEW c \in Clients, ReportOK(c)
  PROVE  ReportOK(c)'
<1> USE DEF IInv
<1>1. host \in Gone => host' \in Gone
  BY GoneForGood
<1>2. ASSUME NEW d \in Clients, HandleClient(d) \/ Device(d)
      PROVE  ReportOK(c)'
  <2>1. CASE d = c
    BY <1>2, <2>1, HandleClientReports, DeviceReports
  <2>2. CASE d # c
    <3>1. Same(c)
      BY <1>2, <2>2, OthersStayTheSame
    <3> QED
      BY <1>1, <3>1, ReportFrame DEF Same
  <2> QED
    BY <2>1, <2>2
<1>3. CASE Starting \/ UNCHANGED vars
  <2>1. UNCHANGED connVars
    BY <1>3 DEF Starting, Subscribe, BeginStart, LoadCertificate, AddServer,
       EnumerateServers, OpenListener, RaiseIsRunning, StartThrows, besidesStart,
       vars
  <2> QED
    BY <1>1, <2>1, ReportFrame DEF connVars, sessionVars
<1>4. CASE Stop \/ Stopping
  <2>1. UNCHANGED sessionVars
    BY <1>4 DEF Stop, Stopping, Cancel, SnapshotServers, StopListener, StopReturns,
       Unsubscribe, CancelExecution, StopAsyncReturns, besidesStop, connVars
  <2>2. conn'[c] = conn[c] \/ (conn'[c] = "refused" /\ conn[c] = "backlog")
    BY <1>4 DEF Stop, Stopping, Cancel, SnapshotServers, StopListener, StopReturns,
       Unsubscribe, CancelExecution, StopAsyncReturns, besidesStop, connVars, TypeOK
  <2> QED
    BY <1>1, <2>1, <2>2, ReportFrame DEF sessionVars, Ended
<1>5. ASSUME NEW l \in Listeners, AcceptClientsLoop(l)
      PROVE  ReportOK(c)'
  <2> USE DEF AcceptClientsLoop, LoopCheck, Accept, DispatchClient, AcceptFails,
              AcceptCancelled, AcceptAborted
  <2>1. UNCHANGED sessionVars
    BY <1>5 DEF connVars
  <2>2. conn'[c] = conn[c] \/ conn[c] \in {"backlog", "taken"}
    BY <1>5 DEF connVars, TypeOK, LoopOK, LoopStep
  <2>3. conn[c] \in {"backlog", "taken"} => nread[c] = 0
    BY DEF SessionOK, Unserved
  <2> QED
    BY <1>1, <2>1, <2>2, <2>3, ReportFrame DEF sessionVars
<1> QED
  BY <1>2, <1>3, <1>4, <1>5 DEF Next

(* An answered line that names its device has been reported, or is just     *)
(* about to be, until the host unsubscribes: the cancellation, a failure    *)
(* and the end of a session never fall between the two                      *)
(* (SocketHandlerService.cs:191-204).                                       *)
THEOREM ReportsCorrect == Spec => []NoContactIsLost
<1> DEFINE Reports == \A c \in Clients : ReportOK(c)
<1>1. Init => Reports
  BY DEF Init, ReportOK
<1>2. IInv /\ Reports /\ [Next]_vars => Reports'
  BY StepReports
<1>3. Reports => NoContactIsLost
  BY DEF ReportOK, NoContactIsLost, Answered, Names
<1> QED
  <2> HIDE DEF Reports
  <2> QED
    BY <1>1, <1>2, <1>3, Invariance, PTL DEF Spec
=============================================================================
