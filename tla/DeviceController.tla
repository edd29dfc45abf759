-------------------------- MODULE DeviceController --------------------------
(***************************************************************************)
(* The configuration tool: DeviceConfigService over DeviceControllerService *)
(* queries or sets a device's parameters over UDP.  An operation scans the  *)
(* address, binds to the device it finds there to get its key, and sends    *)
(* one command under that key.  Each of these steps is tried up to three    *)
(* times, each time from a socket of its own.                               *)
(*                                                                         *)
(* The network loses, delays and duplicates datagrams.  A scan, a bind or a *)
(* query changes nothing on the device, and its answer reaches nobody once  *)
(* the socket it was asked from is closed; so of the datagrams still under  *)
(* way only the set commands are kept, for ever.                            *)
(***************************************************************************)
EXTENDS Integers

CONSTANTS
  Devices,   \* named by their MAC; a device's key is known by its MAC too
  Ops,       \* requests to DeviceConfigService, all for the one address
  Attempts,  \* 3
  MaxMoves,  \* bound: how often the address changes hands
  None

VARIABLES
  op,        \* local state of each operation
  answer,    \* the datagram waiting at its open socket, or None
  commands,  \* operations whose set command is under way
  holder,    \* the device that has the address
  moves,     \* how often the address has changed hands
  allowed,   \* history: management was enabled when the operation began
  applied    \* history: which operation has changed which device

vars == <<op, answer, commands, holder, moves, allowed, applied>>

(* How an operation fails before its command is sent.                       *)
EarlyCodes == {"MANAGEMENT_DISABLED", "MAC_NOT_FOUND", "BIND_NO_RESPONSE",
               "KEY_NOT_FOUND", "SCAN_EXCEPTION"}

Codes == EarlyCodes
           \cup {"NO_RESPONSE", "PACK_COMMAND_EXCEPTION", "QUERY_ERROR", None}

ASSUME ControllerAssumption ==
  /\ Attempts \in Nat \ {0}
  /\ MaxMoves \in Nat
  /\ None \notin Devices \cup EarlyCodes

Kinds == {"query", "set"}

Steps == {"scan", "bind", "command"}

(* What a device answers.  "empty" has no pack, "garbled" does not decrypt. *)
Noise == [is : {"empty", "garbled", "refused"}]

Body == Noise \cup [is : {"mac"}, mac : Devices \cup {None}]
              \cup [is : {"bindok"}, key : Devices \cup {None}]
              \cup [is : {"done"}]

OpState ==
  [at : {"idle", "done"} \cup Steps, phase : {"send", "receive", "delay"},
   attempt : 1..Attempts, kind : Kinds, mac : Devices \cup {None},
   key : Devices \cup {None}, success : BOOLEAN, code : Codes]

TypeOK ==
  /\ op \in [Ops -> OpState]
  /\ answer \in [Ops -> Body \cup {None}]
  /\ commands \subseteq Ops
  /\ holder \in Devices \cup {None}
  /\ moves \in 0..MaxMoves
  /\ allowed \in [Ops -> BOOLEAN]
  /\ applied \subseteq Ops \X Devices

Init ==
  /\ op \in [Ops -> {s \in OpState :
       /\ s.at = "idle" /\ s.phase = "send" /\ s.attempt = 1
       /\ s.mac = None /\ s.key = None /\ ~s.success /\ s.code = None}]
  /\ answer = [o \in Ops |-> None]
  /\ commands = {}
  /\ holder \in Devices
  /\ moves = 0
  /\ allowed = [o \in Ops |-> FALSE]
  /\ applied = {}

netVars == <<commands, holder, moves, applied>>

-----------------------------------------------------------------------------
(* DeviceConfigService *)

(* Definitions that no action uses (GatedNever, MayRetryOnceMore, ...) are   *)
(* what a plausible bug would turn the definition after them into.          *)

GatedNever(o) == FALSE

Gated(o) == op[o].kind = "set"

(* EnableManagement may change with the configuration file at any time; it  *)
(* is read once, before the first datagram.                                 *)
Begin(o, enabled) ==
  /\ op[o].at = "idle"
  /\ Gated(o) => enabled
  /\ op' = [op EXCEPT ![o].at = "scan"]
  /\ allowed' = [allowed EXCEPT ![o] = enabled]
  /\ UNCHANGED <<answer, netVars>>

Reject(o, enabled) ==
  /\ op[o].at = "idle"
  /\ Gated(o) /\ ~enabled
  /\ op' = [op EXCEPT ![o].at = "done", ![o].code = "MANAGEMENT_DISABLED"]
  /\ UNCHANGED <<answer, allowed, netVars>>

-----------------------------------------------------------------------------
(* SendUdpCommandAsync: one attempt *)

In(o, phase) == op[o].at \in Steps /\ op[o].phase = phase

(* From a socket of its own, that is closed when the attempt ends: an       *)
(* answer to an earlier attempt finds nobody.                               *)
Send(o) ==
  /\ In(o, "send")
  /\ op' = [op EXCEPT ![o].phase = "receive"]
  /\ commands' = IF op[o].at = "command" /\ op[o].kind = "set"
                 THEN commands \cup {o} ELSE commands
  /\ UNCHANGED <<answer, holder, moves, allowed, applied>>

Ends(o, success, code) ==
  op' = [op EXCEPT ![o] = [@ EXCEPT !.at = "done", !.success = success,
                                   !.code = code]]

FailsWith(o, code) == Ends(o, FALSE, code)

Continues(o, step, mac, key) ==
  op' = [op EXCEPT ![o] = [@ EXCEPT !.at = step, !.phase = "send",
                                   !.attempt = 1, !.mac = mac, !.key = key]]

(* The step got no answer at all: SendUdpCommandAsync returned null.        *)
NoAnswer(o) ==
  FailsWith(o, IF op[o].at = "bind" THEN "BIND_NO_RESPONSE" ELSE "NO_RESPONSE")

(* An exception of the step is caught where the step is.                    *)
StepThrows(o) ==
  FailsWith(o, CASE op[o].at = "scan"    -> "SCAN_EXCEPTION"
                 [] op[o].at = "bind"    -> "BIND_NO_RESPONSE"
                 [] op[o].at = "command" -> "PACK_COMMAND_EXCEPTION")

MayRetryOnceMore(o) == op[o].attempt <= Attempts

MayRetry(o) == op[o].attempt < Attempts

(* The send fails, the receive times out, an ICMP error comes back, or what *)
(* was received is no JSON.                                                 *)
AttemptFails(o) ==
  /\ In(o, "send") \/ In(o, "receive")
  /\ IF MayRetry(o)
     THEN op' = [op EXCEPT ![o].phase = "delay"]
     ELSE NoAnswer(o)
  /\ answer' = [answer EXCEPT ![o] = None]
  /\ UNCHANGED <<allowed, netVars>>

NextAttemptUncounted(n) == n

NextAttempt(n) == n + 1

Retry(o) ==
  /\ In(o, "delay")
  /\ op' = [op EXCEPT ![o].phase = "send", ![o].attempt = NextAttempt(@)]
  /\ UNCHANGED <<answer, allowed, netVars>>

(* The client may give the HTTP request up at any time.  Task.Delay is the  *)
(* only place that looks at the cancellation token, and its exception       *)
(* leaves the loop of attempts.                                             *)
CancelDelay(o) ==
  /\ In(o, "delay")
  /\ StepThrows(o)
  /\ UNCHANGED <<answer, allowed, netVars>>

-----------------------------------------------------------------------------
(* What an operation makes of an answer *)

AfterScan(o, a) ==
  /\ op[o].at = "scan"
  /\ \/ a.is = "empty" /\ FailsWith(o, "NO_RESPONSE")
     \/ a.is = "refused" /\ FailsWith(o, "MAC_NOT_FOUND")
     \/ a.is = "garbled" /\ StepThrows(o)
     \/ a.is = "mac" /\ a.mac = None /\ FailsWith(o, "MAC_NOT_FOUND")
     \/ a.is = "mac" /\ a.mac # None /\ Continues(o, "bind", a.mac, None)

AfterBind(o, a) ==
  /\ op[o].at = "bind"
  /\ \/ a.is \notin {"bindok"} /\ FailsWith(o, "BIND_NO_RESPONSE")
     \/ a.is = "bindok" /\ a.key = None /\ FailsWith(o, "KEY_NOT_FOUND")
     \/ a.is = "bindok" /\ a.key # None /\ Continues(o, "command", op[o].mac, a.key)

(* A result code other than 200, or a status of other columns, is a failure *)
(* without an error code; a status without columns throws where they are    *)
(* counted.                                                                 *)
AfterCommand(o, a) ==
  /\ op[o].at = "command"
  /\ \/ a.is = "empty" /\ FailsWith(o, "NO_RESPONSE")
     \/ a.is = "garbled" /\ StepThrows(o)
     \/ a.is = "refused" /\ FailsWith(o, None)
     \/ a.is = "refused" /\ op[o].kind = "query" /\ FailsWith(o, "QUERY_ERROR")
     \/ a.is = "done" /\ Ends(o, TRUE, None)

Understand(o, a) == AfterScan(o, a) \/ AfterBind(o, a) \/ AfterCommand(o, a)

SharedSocket(o) == {p \in Ops : op[p].at = op[o].at /\ op[p].kind = op[o].kind}

(* Whose answers an operation receives: those from its own socket.          *)
OwnSocket(o) == {o}

Receive(o) ==
  /\ In(o, "receive")
  /\ \E p \in OwnSocket(o) :
       /\ answer[p] # None
       /\ Understand(o, answer[p])
       /\ answer' = [answer EXCEPT ![p] = None]
  /\ UNCHANGED <<allowed, netVars>>

-----------------------------------------------------------------------------
(* The device at the address, and the network *)

Obey(o, d) == applied' = applied \cup {<<o, d>>}

Says(o, bodies) ==
  \E b \in bodies : answer' = [answer EXCEPT ![o] = b]

AnswersScan(o, d) ==
  /\ op[o].at = "scan"
  /\ Says(o, [is : {"mac"}, mac : {d, None}] \cup Noise)
  /\ UNCHANGED applied

AnswersBind(o, d) ==
  /\ op[o].at = "bind"
  /\ op[o].mac = d
  /\ Says(o, [is : {"bindok"}, key : {d, None}] \cup Noise)
  /\ UNCHANGED applied

(* Only the device whose key the command is encrypted with understands it.  *)
(* It obeys or refuses, and its answer may be damaged either way.           *)
AnswersCommand(o, d) ==
  /\ op[o].at = "command"
  /\ op[o].key = d
  /\ \/ /\ Says(o, Noise)
        /\ UNCHANGED applied
     \/ /\ Says(o, [is : {"done", "empty", "garbled"}])
        /\ IF op[o].kind = "set" THEN Obey(o, d) ELSE UNCHANGED applied

DeviceAnswers(o) ==
  /\ In(o, "receive")
  /\ answer[o] = None
  /\ \E d \in Devices :
       /\ holder = d
       /\ AnswersScan(o, d) \/ AnswersBind(o, d) \/ AnswersCommand(o, d)
  /\ UNCHANGED <<op, commands, holder, moves, allowed>>

(* The answer gets lost, or the datagram comes late, or once again: also    *)
(* when the operation has long ended.                                       *)
LateCommand(o) ==
  /\ o \in commands
  /\ holder = op[o].key
  /\ Obey(o, holder)
  /\ UNCHANGED <<op, answer, commands, holder, moves, allowed>>

Readdress(d) ==
  /\ moves < MaxMoves
  /\ d # holder
  /\ moves' = moves + 1
  /\ holder' = d
  /\ UNCHANGED <<op, answer, commands, allowed, applied>>

-----------------------------------------------------------------------------
SendUdpCommand(o) ==
  \/ Send(o)
  \/ AttemptFails(o)
  \/ Retry(o)
  \/ CancelDelay(o)
  \/ Receive(o)

Call(o) == \E enabled \in BOOLEAN : Begin(o, enabled) \/ Reject(o, enabled)

Next ==
  \/ \E o \in Ops :
       \/ Call(o)
       \/ SendUdpCommand(o)
       \/ DeviceAnswers(o)
       \/ LateCommand(o)
  \/ \E d \in Devices \cup {None} : Readdress(d)

Spec == Init /\ [][Next]_vars

(* A thread that sends, waits or sleeps goes on: the receive has a timeout. *)
(* No device has to answer.                                                 *)
FairSpec == Spec /\ \A o \in Ops : WF_vars(SendUdpCommand(o))

-----------------------------------------------------------------------------
(* Safety *)

(* An operation that reports success has changed the device that its own    *)
(* scan found, and no other: whoever else talks to it, however late answers *)
(* come, and also when the address has changed hands on the way.            *)
SuccessWasApplied ==
  \A o \in Ops :
    op[o].at = "done" /\ op[o].success /\ op[o].kind = "set" =>
      /\ <<o, op[o].mac>> \in applied
      /\ \A d \in Devices : <<o, d>> \in applied => d = op[o].mac

(* No device is ever changed by an operation that began while management    *)
(* was disabled, nor by one that failed before its command: no attempt of   *)
(* such an operation is under way that could arrive later.                  *)
FailedEarly(o) == op[o].at = "done" /\ op[o].code \in EarlyCodes

OnlyAllowedCommandsAct ==
  \A o \in Ops :
    (\E d \in Devices : <<o, d>> \in applied) => allowed[o] /\ ~FailedEarly(o)

-----------------------------------------------------------------------------
(* How many steps an operation may still make: three for each attempt that  *)
(* is left to it, in this step and in those behind it, and its end.         *)

StepsBehind(at) ==
  CASE at = "scan" -> 2 [] at = "bind" -> 1 [] at = "command" -> 0

PhasesLeft(phase) ==
  CASE phase = "send" -> 2 [] phase = "receive" -> 1 [] phase = "delay" -> 0

Remaining(s) ==
  CASE s.at = "done" -> 0
    [] s.at = "idle" -> 9 * Attempts + 1
    [] OTHER -> 3 * (Attempts * StepsBehind(s.at) + Attempts - s.attempt)
                  + PhasesLeft(s.phase) + 1

(* No answer, loss, error or retry leads an operation back: each of its     *)
(* steps leaves it fewer to make, and their number was bounded at its       *)
(* begin, whatever the device and the network do.                           *)
EveryStepCounts ==
  [][\A o \in Ops :
       op'[o] # op[o] => Remaining(op'[o]) \in 0..Remaining(op[o]) - 1]_vars

-----------------------------------------------------------------------------
(* The inductive invariant behind the safety properties: what an operation  *)
(* knows at each step, what the answer at its socket says, and that a       *)
(* command reaches a device only under the key the operation has from it.   *)

OpOK(o) ==
  /\ op[o].at \in Steps /\ Gated(o) => allowed[o]
  /\ op[o].at \in {"bind", "command"} => op[o].mac \in Devices
  /\ op[o].at = "command" => op[o].key # None
  /\ op[o].at # "done" => ~op[o].success
  /\ op[o].phase = "delay" => op[o].attempt < Attempts
  /\ op[o].key # None =>
       /\ op[o].key = op[o].mac
       /\ op[o].at \in {"command", "done"}
       /\ Gated(o) => allowed[o]
       /\ ~FailedEarly(o)

AnswerOK(o) ==
  answer[o] # None =>
    /\ In(o, "receive")
    /\ answer[o].is = "mac" => op[o].at = "scan"
    /\ answer[o].is = "bindok" =>
         op[o].at = "bind" /\ answer[o].key \in {op[o].mac, None}
    /\ answer[o].is = "done" =>
         /\ op[o].at = "command"
         /\ Gated(o) => <<o, op[o].key>> \in applied

EffectOK(o) ==
  /\ o \in commands => Gated(o) /\ op[o].key # None
  /\ \A d \in Devices : <<o, d>> \in applied => Gated(o) /\ op[o].key = d
  /\ op[o].at = "done" /\ op[o].success =>
       /\ op[o].key # None
       /\ Gated(o) => <<o, op[o].key>> \in applied

IInv == TypeOK /\ \A o \in Ops : OpOK(o) /\ AnswerOK(o) /\ EffectOK(o)

-----------------------------------------------------------------------------
(* Liveness *)

(* Every request is answered in the end, also when no device is there.      *)
EveryOperationEnds ==
  \A o \in Ops : (op[o].at \in Steps) ~> (op[o].at = "done")
=============================================================================
