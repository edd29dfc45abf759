----------------------- MODULE DeviceController_proofs -----------------------
(***************************************************************************)
(* Proofs about DeviceController, for any number of operations, devices and *)
(* attempts, and however often the address changes hands.  An operation is  *)
(* disturbed by no other one, so the invariant is a statement about each.   *)
(***************************************************************************)
EXTENDS DeviceController, TLAPS

-----------------------------------------------------------------------------
(* One operation's step leaves the others alone.                            *)

Same(p) ==
  /\ op'[p] = op[p]
  /\ answer'[p] = answer[p]
  /\ allowed'[p] = allowed[p]
  /\ p \in commands' <=> p \in commands
  /\ \A d \in Devices : <<p, d>> \in applied' <=> <<p, d>> \in applied

OperationOK(o) == OpOK(o) /\ AnswerOK(o) /\ EffectOK(o)

LEMMA OperationFrame ==
  ASSUME NEW p \in Ops, OperationOK(p), Same(p),
         op[p].key \in Devices \cup {None}
  PROVE  OperationOK(p)'
<1>1. Gated(p)' = Gated(p) /\ FailedEarly(p)' = FailedEarly(p)
  BY DEF Gated, FailedEarly, Same
<1>2. In(p, "receive")' = In(p, "receive")
  BY DEF In, Same
<1>3. OpOK(p)'
  BY <1>1 DEF OperationOK, OpOK, Same
<1>4. AnswerOK(p)'
  BY <1>1, <1>2 DEF OperationOK, AnswerOK, OpOK, Same
<1>5. EffectOK(p)'
  BY <1>1 DEF OperationOK, EffectOK, Same
<1> QED
  BY <1>3, <1>4, <1>5 DEF OperationOK

LEMMA OthersStayTheSame ==
  ASSUME TypeOK, NEW o \in Ops, NEW p \in Ops \ {o},
         Call(o) \/ SendUdpCommand(o) \/ DeviceAnswers(o) \/ LateCommand(o)
  PROVE  Same(p)
<1> USE DEF TypeOK, Same, netVars, Ends, FailsWith, Continues, NoAnswer, StepThrows
<1>1. CASE Call(o)
  BY <1>1 DEF Call, Begin, Reject
<1>2. CASE Send(o) \/ AttemptFails(o) \/ Retry(o) \/ CancelDelay(o)
  BY <1>2 DEF Send, AttemptFails, Retry, CancelDelay
<1>3. CASE Receive(o)
  BY <1>3 DEF Receive, OwnSocket, Understand, AfterScan, AfterBind, AfterCommand
<1>4. CASE DeviceAnswers(o)
  BY <1>4 DEF DeviceAnswers, AnswersScan, AnswersBind, AnswersCommand, Says, Obey
<1>5. CASE LateCommand(o)
  BY <1>5 DEF LateCommand, Obey
<1> QED
  BY <1>1, <1>2, <1>3, <1>4, <1>5 DEF SendUdpCommand

-----------------------------------------------------------------------------
(* Type correctness *)

LEMMA InitTypeOK == Init => TypeOK
<1> SUFFICES ASSUME Init PROVE TypeOK
  OBVIOUS
<1>1. op \in [Ops -> OpState]
  BY DEF Init
<1> QED
  BY <1>1, ControllerAssumption DEF Init, TypeOK

(* An operation goes on to a step, or ends.                                 *)
LEMMA EndsTyped ==
  ASSUME TypeOK, NEW o \in Ops, NEW success \in BOOLEAN, NEW code \in Codes,
         Ends(o, success, code)
  PROVE  op' \in [Ops -> OpState]
<1>1. op[o] \in OpState
  BY DEF TypeOK
<1>2. [op[o] EXCEPT !.at = "done", !.success = success, !.code = code] \in OpState
  BY <1>1 DEF OpState
<1> QED
  BY <1>2 DEF TypeOK, Ends

LEMMA ContinuesTyped ==
  ASSUME TypeOK, NEW o \in Ops, NEW step \in Steps,
         NEW mac \in Devices \cup {None}, NEW key \in Devices \cup {None},
         Continues(o, step, mac, key)
  PROVE  op' \in [Ops -> OpState]
<1>1. op[o] \in OpState
  BY DEF TypeOK
<1>2. 1 \in 1..Attempts
  BY ControllerAssumption
<1>3. [op[o] EXCEPT !.at = step, !.phase = "send", !.attempt = 1,
                    !.mac = mac, !.key = key] \in OpState
  BY <1>1, <1>2 DEF OpState
<1> QED
  BY <1>3 DEF TypeOK, Continues

LEMMA CallTypeOK ==
  ASSUME TypeOK, NEW o \in Ops, Call(o)
  PROVE  TypeOK'
<1>1. op[o] \in OpState
  BY DEF TypeOK
<1>2. ASSUME NEW enabled \in BOOLEAN, Begin(o, enabled)
      PROVE  TypeOK'
  <2>1. [op[o] EXCEPT !.at = "scan"] \in OpState
    BY <1>1 DEF OpState, Steps
  <2>2. op' = [op EXCEPT ![o] = [op[o] EXCEPT !.at = "scan"]]
    BY <1>2 DEF Begin
  <2>3. op' \in [Ops -> OpState]
    BY <2>1, <2>2 DEF TypeOK
  <2> QED
    BY <1>2, <2>3 DEF Begin, TypeOK, netVars
<1>3. ASSUME NEW enabled \in BOOLEAN, Reject(o, enabled)
      PROVE  TypeOK'
  <2>1. [op[o] EXCEPT !.at = "done", !.code = "MANAGEMENT_DISABLED"] \in OpState
    BY <1>1 DEF OpState, Codes, EarlyCodes
  <2>2. op' = [op EXCEPT ![o] =
                [op[o] EXCEPT !.at = "done", !.code = "MANAGEMENT_DISABLED"]]
    BY <1>3 DEF Reject
  <2>3. op' \in [Ops -> OpState]
    BY <2>1, <2>2 DEF TypeOK
  <2> QED
    BY <1>3, <2>3 DEF Reject, TypeOK, netVars
<1> QED
  BY <1>2, <1>3 DEF Call

LEMMA FailureCodes ==
  ASSUME TypeOK, NEW o \in Ops, op[o].at \in Steps, NoAnswer(o) \/ StepThrows(o)
  PROVE  op' \in [Ops -> OpState]
<1>1. CASE NoAnswer(o)
  BY <1>1, EndsTyped DEF NoAnswer, FailsWith, Codes, EarlyCodes
<1>2. CASE StepThrows(o)
  <2>1. PICK code \in Codes : Ends(o, FALSE, code)
    BY <1>2 DEF StepThrows, FailsWith, Codes, EarlyCodes, Steps
  <2> QED
    BY <2>1, EndsTyped
<1> QED
  BY <1>1, <1>2

LEMMA UnderstandTypeOK ==
  ASSUME TypeOK, NEW o \in Ops, NEW a \in Body, Understand(o, a)
  PROVE  op' \in [Ops -> OpState]
<1>1. a.is = "mac" => a.mac \in Devices \cup {None}
  BY DEF Body, Noise
<1>2. a.is = "bindok" => a.key \in Devices \cup {None}
  BY DEF Body, Noise
<1>3. op[o].mac \in Devices \cup {None}
  BY DEF TypeOK, OpState
<1>4. CASE AfterScan(o, a)
  BY <1>1, <1>4, FailureCodes, EndsTyped, ContinuesTyped
  DEF AfterScan, FailsWith, Codes, EarlyCodes, Steps
<1>5. CASE AfterBind(o, a)
  BY <1>2, <1>3, <1>5, FailureCodes, EndsTyped, ContinuesTyped
  DEF AfterBind, FailsWith, Codes, EarlyCodes, Steps
<1>6. CASE AfterCommand(o, a)
  BY <1>6, FailureCodes, EndsTyped DEF AfterCommand, FailsWith, Codes, EarlyCodes, Steps
<1> QED
  BY <1>4, <1>5, <1>6 DEF Understand

LEMMA SendUdpCommandTypeOK ==
  ASSUME TypeOK, NEW o \in Ops, OpOK(o), SendUdpCommand(o)
  PROVE  TypeOK'
<1>1. op[o] \in OpState
  BY DEF TypeOK
<1>2. CASE Send(o)
  <2>1. [op[o] EXCEPT !.phase = "receive"] \in OpState
    BY <1>1 DEF OpState
  <2>2. op' = [op EXCEPT ![o] = [op[o] EXCEPT !.phase = "receive"]]
    BY <1>2 DEF Send
  <2>3. op' \in [Ops -> OpState]
    BY <2>1, <2>2 DEF TypeOK
  <2> QED
    BY <1>2, <2>3 DEF Send, TypeOK
<1>3. CASE AttemptFails(o)
  <2>1. op' \in [Ops -> OpState]
    <3>1. CASE MayRetry(o)
      <4>1. [op[o] EXCEPT !.phase = "delay"] \in OpState
        BY <1>1 DEF OpState
      <4>2. op' = [op EXCEPT ![o] = [op[o] EXCEPT !.phase = "delay"]]
        BY <1>3, <3>1 DEF AttemptFails
      <4> QED
        BY <4>1, <4>2 DEF TypeOK
    <3>2. CASE ~MayRetry(o)
      BY <1>3, <3>2, FailureCodes DEF AttemptFails, In
    <3> QED
      BY <3>1, <3>2
  <2> QED
    BY <1>3, <2>1 DEF AttemptFails, TypeOK, netVars
<1>4. CASE Retry(o)
  <2> DEFINE next == op[o].attempt + 1
  <2>1. next \in 1..Attempts
    BY <1>1, <1>4, ControllerAssumption DEF Retry, In, OpOK, OpState
  <2>2. [op[o] EXCEPT !.phase = "send", !.attempt = next] \in OpState
    <3> HIDE DEF next
    <3> QED
      BY <1>1, <2>1 DEF OpState
  <2>3. op' = [op EXCEPT ![o] =
                [op[o] EXCEPT !.phase = "send", !.attempt = next]]
    BY <1>4 DEF Retry, NextAttempt
  <2>4. op' \in [Ops -> OpState]
    BY <2>2, <2>3 DEF TypeOK
  <2> QED
    BY <1>4, <2>4 DEF Retry, TypeOK, netVars
<1>5. CASE CancelDelay(o)
  BY <1>5, FailureCodes DEF CancelDelay, In, TypeOK, netVars
<1>6. CASE Receive(o)
  <2>1. op' \in [Ops -> OpState]
    BY <1>6, UnderstandTypeOK DEF Receive, OwnSocket, TypeOK
  <2> QED
    BY <1>6, <2>1 DEF Receive, OwnSocket, TypeOK, netVars
<1> QED
  BY <1>2, <1>3, <1>4, <1>5, <1>6 DEF SendUdpCommand

LEMMA DeviceTypeOK ==
  ASSUME TypeOK, NEW o \in Ops, EffectOK(o), DeviceAnswers(o) \/ LateCommand(o)
  PROVE  TypeOK'
<1>1. CASE DeviceAnswers(o)
  <2>1. PICK d \in Devices :
          AnswersScan(o, d) \/ AnswersBind(o, d) \/ AnswersCommand(o, d)
    BY <1>1 DEF DeviceAnswers
  <2>2. answer' \in [Ops -> Body \cup {None}]
    BY <2>1 DEF AnswersScan, AnswersBind, AnswersCommand, Says, Body, Noise, TypeOK
  <2>3. applied' \subseteq Ops \X Devices
    BY <2>1 DEF AnswersScan, AnswersBind, AnswersCommand, Obey, TypeOK
  <2> QED
    BY <1>1, <2>2, <2>3 DEF DeviceAnswers, TypeOK
<1>2. CASE LateCommand(o)
  <2>1. op[o].key \in Devices
    BY <1>2 DEF LateCommand, EffectOK, TypeOK, OpState
  <2>2. applied' \subseteq Ops \X Devices
    BY <1>2, <2>1 DEF LateCommand, Obey, TypeOK
  <2> QED
    BY <1>2, <2>2 DEF LateCommand, TypeOK
<1> QED
  BY <1>1, <1>2

-----------------------------------------------------------------------------
(* Each step keeps what is known of its own operation.                      *)

LEMMA CallKeepsOperationOK ==
  ASSUME TypeOK, NEW o \in Ops, OperationOK(o), Call(o)
  PROVE  OperationOK(o)'
<1> USE DEF OperationOK, OpOK, AnswerOK, EffectOK, In, Gated, FailedEarly, Steps,
            TypeOK, netVars
<1>1. op[o] \in OpState
  OBVIOUS
<1>2. ASSUME NEW enabled \in BOOLEAN, Begin(o, enabled)
      PROVE  OperationOK(o)'
  <2>1. op'[o] = [op[o] EXCEPT !.at = "scan"] /\ allowed'[o] = enabled
    BY <1>2 DEF Begin
  <2>2. op[o].at = "idle" /\ (Gated(o) => enabled)
    BY <1>2 DEF Begin
  <2> QED
    BY <1>1, <1>2, <2>1, <2>2 DEF Begin, OpState
<1>3. ASSUME NEW enabled \in BOOLEAN, Reject(o, enabled)
      PROVE  OperationOK(o)'
  <2>1. op'[o] = [op[o] EXCEPT !.at = "done", !.code = "MANAGEMENT_DISABLED"]
    BY <1>3 DEF Reject
  <2> QED
    BY <1>1, <1>3, <2>1 DEF Reject, OpState
<1> QED
  BY <1>2, <1>3 DEF Call

(* While no answer waits and neither applied nor commands is touched, an    *)
(* operation may try again, go on to the next step or fail.                 *)
LEMMA TryKeepsOperationOK ==
  ASSUME TypeOK, NEW o \in Ops, OperationOK(o),
         op[o].at \in Steps,
         op'[o].at = op[o].at, op'[o].kind = op[o].kind,
         op'[o].mac = op[o].mac, op'[o].key = op[o].key,
         op'[o].success = op[o].success,
         op'[o].phase = "delay" => op'[o].attempt < Attempts,
         answer'[o] = None, UNCHANGED <<allowed, applied>>,
         o \in commands' => Gated(o) /\ op[o].key # None
  PROVE  OperationOK(o)'
BY DEF OperationOK, OpOK, AnswerOK, EffectOK, Gated, FailedEarly, Steps

LEMMA FailKeepsOperationOK ==
  ASSUME TypeOK, NEW o \in Ops, OperationOK(o), NEW code \in Codes,
         op[o].at \in Steps, FailsWith(o, code),
         op[o].at = "command" => code \notin EarlyCodes,
         answer'[o] = None, UNCHANGED <<allowed, netVars>>
  PROVE  OperationOK(o)'
<1>1. op[o] \in OpState
  BY DEF TypeOK
<1>2. op'[o] = [op[o] EXCEPT !.at = "done", !.success = FALSE, !.code = code]
  BY DEF FailsWith, Ends, TypeOK
<1>3. op'[o].at = "done" /\ op'[o].success = FALSE /\ op'[o].code = code
  BY <1>1, <1>2 DEF OpState
<1>4. /\ op'[o].kind = op[o].kind /\ op'[o].mac = op[o].mac
      /\ op'[o].key = op[o].key /\ op'[o].phase = op[o].phase
      /\ op'[o].attempt = op[o].attempt
  BY <1>1, <1>2 DEF OpState
<1>5. op[o].key # None => op[o].at = "command"
  BY DEF OperationOK, OpOK, Steps
<1> QED
  BY <1>3, <1>4, <1>5
  DEF OperationOK, OpOK, AnswerOK, EffectOK, Gated, FailedEarly, Steps, netVars

LEMMA NoAnswerKeepsOperationOK ==
  ASSUME TypeOK, NEW o \in Ops, OperationOK(o), op[o].at \in Steps,
         NoAnswer(o) \/ StepThrows(o),
         answer'[o] = None, UNCHANGED <<allowed, netVars>>
  PROVE  OperationOK(o)'
<1>1. PICK code \in Codes :
        /\ FailsWith(o, code)
        /\ op[o].at = "command" => code \notin EarlyCodes
  BY DEF NoAnswer, StepThrows, Codes, EarlyCodes, Steps
<1> QED
  BY <1>1, FailKeepsOperationOK

LEMMA UnderstandKeepsOperationOK ==
  ASSUME TypeOK, NEW o \in Ops, OperationOK(o), answer[o] \in Body,
         answer[o] # None, Understand(o, answer[o]),
         answer'[o] = None, UNCHANGED <<allowed, netVars>>
  PROVE  OperationOK(o)'
<1> DEFINE a == answer[o]
<1>1. op[o] \in OpState /\ a \in Body /\ AnswerOK(o)
  BY DEF TypeOK, OperationOK
<1>2. CASE AfterScan(o, a)
  <2>1. CASE a.is = "mac" /\ a.mac # None /\ Continues(o, "bind", a.mac, None)
    <3>1. op'[o] = [op[o] EXCEPT !.at = "bind", !.phase = "send", !.attempt = 1,
                                 !.mac = a.mac, !.key = None]
      BY <2>1 DEF Continues, TypeOK
    <3>2. /\ op'[o].at = "bind" /\ op'[o].phase = "send" /\ op'[o].mac = a.mac
          /\ op'[o].key = None /\ op'[o].kind = op[o].kind
          /\ op'[o].success = op[o].success
      BY <1>1, <3>1 DEF OpState
    <3>3. a.mac \in Devices
      BY <1>1, <2>1 DEF Body, Noise
    <3>4. op[o].at = "scan"
      BY <1>2 DEF AfterScan
    <3> QED
      BY <3>2, <3>3, <3>4
      DEF OperationOK, OpOK, AnswerOK, EffectOK, Gated, FailedEarly, Steps, netVars
  <2>2. CASE ~(a.is = "mac" /\ a.mac # None /\ Continues(o, "bind", a.mac, None))
    BY <1>2, <2>2, FailKeepsOperationOK, NoAnswerKeepsOperationOK
    DEF AfterScan, Codes, EarlyCodes, Steps
  <2> QED
    BY <2>1, <2>2
<1>3. CASE AfterBind(o, a)
  <2>1. CASE /\ a.is = "bindok" /\ a.key # None
             /\ Continues(o, "command", op[o].mac, a.key)
    <3>1. op'[o] = [op[o] EXCEPT !.at = "command", !.phase = "send", !.attempt = 1,
                                 !.mac = op[o].mac, !.key = a.key]
      BY <2>1 DEF Continues, TypeOK
    <3>2. /\ op'[o].at = "command" /\ op'[o].phase = "send"
          /\ op'[o].mac = op[o].mac /\ op'[o].key = a.key
          /\ op'[o].kind = op[o].kind /\ op'[o].success = op[o].success
      BY <1>1, <3>1 DEF OpState
    <3>3. op[o].at = "bind" /\ a.key = op[o].mac /\ op[o].mac \in Devices
      BY <1>1, <2>1 DEF OperationOK, OpOK, AnswerOK
    <3> QED
      BY <2>1, <3>2, <3>3, ControllerAssumption
      DEF OperationOK, OpOK, AnswerOK, EffectOK, Gated, FailedEarly, Steps, netVars
  <2>2. CASE ~(/\ a.is = "bindok" /\ a.key # None
               /\ Continues(o, "command", op[o].mac, a.key))
    BY <1>3, <2>2, FailKeepsOperationOK DEF AfterBind, Codes, EarlyCodes, Steps
  <2> QED
    BY <2>1, <2>2
<1>4. CASE AfterCommand(o, a)
  <2>1. CASE a.is = "done" /\ Ends(o, TRUE, None)
    <3>1. op'[o] = [op[o] EXCEPT !.at = "done", !.success = TRUE, !.code = None]
      BY <2>1 DEF Ends, TypeOK
    <3>2. /\ op'[o].at = "done" /\ op'[o].code = None
          /\ op'[o].phase = op[o].phase /\ op'[o].attempt = op[o].attempt
          /\ op'[o].mac = op[o].mac /\ op'[o].key = op[o].key
          /\ op'[o].kind = op[o].kind
      BY <1>1, <3>1 DEF OpState
    <3> QED
      BY <1>1, <2>1, <3>2, ControllerAssumption
      DEF OperationOK, OpOK, AnswerOK, EffectOK, Gated, FailedEarly, Steps, netVars
  <2>2. CASE ~(a.is = "done" /\ Ends(o, TRUE, None))
    BY <1>4, <2>2, FailKeepsOperationOK, NoAnswerKeepsOperationOK,
       ControllerAssumption
    DEF AfterCommand, Codes, EarlyCodes, Steps
  <2> QED
    BY <2>1, <2>2
<1> QED
  BY <1>2, <1>3, <1>4 DEF Understand

LEMMA SendUdpCommandKeepsOperationOK ==
  ASSUME TypeOK, NEW o \in Ops, OperationOK(o), SendUdpCommand(o)
  PROVE  OperationOK(o)'
<1>1. op[o] \in OpState
  BY DEF TypeOK
<1>2. CASE Send(o)
  <2>1. op'[o] = [op[o] EXCEPT !.phase = "receive"] /\ op[o].phase = "send"
    BY <1>2 DEF Send, TypeOK, In
  <2>2. /\ op[o].at \in Steps /\ op'[o].at = op[o].at /\ op'[o].kind = op[o].kind
        /\ op'[o].mac = op[o].mac /\ op'[o].key = op[o].key
        /\ op'[o].success = op[o].success /\ op'[o].phase = "receive"
    BY <1>1, <1>2, <2>1 DEF OpState, Send, In
  <2>3. answer[o] = None
    BY <2>1 DEF OperationOK, AnswerOK, In
  <2>4. o \in commands' => Gated(o) /\ op[o].key # None
    BY <1>2 DEF Send, Gated, OperationOK, OpOK, EffectOK
  <2> QED
    BY <1>2, <2>2, <2>3, <2>4, TryKeepsOperationOK DEF Send
<1>3. CASE AttemptFails(o)
  <2>1. answer'[o] = None /\ op[o].at \in Steps /\ UNCHANGED <<allowed, netVars>>
    BY <1>3 DEF AttemptFails, TypeOK, In
  <2>2. CASE MayRetry(o)
    <3>1. op'[o] = [op[o] EXCEPT !.phase = "delay"]
      BY <1>3, <2>2 DEF AttemptFails, TypeOK
    <3>2. /\ op'[o].at = op[o].at /\ op'[o].kind = op[o].kind
          /\ op'[o].mac = op[o].mac /\ op'[o].key = op[o].key
          /\ op'[o].success = op[o].success /\ op'[o].attempt < Attempts
      BY <1>1, <2>2, <3>1 DEF OpState, MayRetry
    <3>3. o \in commands => Gated(o) /\ op[o].key # None
      BY DEF OperationOK, EffectOK
    <3> QED
      BY <2>1, <3>2, <3>3, TryKeepsOperationOK DEF netVars
  <2>3. CASE ~MayRetry(o)
    BY <1>3, <2>1, <2>3, NoAnswerKeepsOperationOK DEF AttemptFails
  <2> QED
    BY <2>2, <2>3
<1>4. CASE Retry(o)
  <2>1. /\ op'[o] = [op[o] EXCEPT !.phase = "send", !.attempt = op[o].attempt + 1]
        /\ op[o].phase = "delay" /\ op[o].at \in Steps
    BY <1>4 DEF Retry, NextAttempt, TypeOK, In
  <2>2. /\ op'[o].at = op[o].at /\ op'[o].kind = op[o].kind
        /\ op'[o].mac = op[o].mac /\ op'[o].key = op[o].key
        /\ op'[o].success = op[o].success /\ op'[o].phase = "send"
    BY <1>1, <2>1 DEF OpState
  <2>3. answer'[o] = None /\ UNCHANGED <<allowed, netVars>>
    BY <1>4, <2>1 DEF Retry, OperationOK, AnswerOK, In
  <2>4. o \in commands => Gated(o) /\ op[o].key # None
    BY DEF OperationOK, EffectOK
  <2> QED
    BY <2>1, <2>2, <2>3, <2>4, TryKeepsOperationOK DEF netVars
<1>5. CASE CancelDelay(o)
  <2>1. answer'[o] = None /\ op[o].at \in Steps
    BY <1>5 DEF CancelDelay, OperationOK, AnswerOK, In
  <2> QED
    BY <1>5, <2>1, NoAnswerKeepsOperationOK DEF CancelDelay
<1>6. CASE Receive(o)
  <2>1. /\ answer[o] # None /\ answer[o] \in Body /\ answer'[o] = None
        /\ Understand(o, answer[o]) /\ UNCHANGED <<allowed, netVars>>
    BY <1>6 DEF Receive, OwnSocket, TypeOK
  <2> QED
    BY <2>1, UnderstandKeepsOperationOK
<1> QED
  BY <1>2, <1>3, <1>4, <1>5, <1>6 DEF SendUdpCommand

(* A device answers, and changes, under the key the operation has from it.  *)
LEMMA DeviceKeepsOperationOK ==
  ASSUME TypeOK, NEW o \in Ops, OperationOK(o),
         DeviceAnswers(o) \/ LateCommand(o)
  PROVE  OperationOK(o)'
<1>1. CASE DeviceAnswers(o)
  <2>1. UNCHANGED <<op, commands, allowed>> /\ In(o, "receive")
    BY <1>1 DEF DeviceAnswers
  <2>2. PICK d \in Devices :
          AnswersScan(o, d) \/ AnswersBind(o, d) \/ AnswersCommand(o, d)
    BY <1>1 DEF DeviceAnswers
  <2>3. OpOK(o)'
    BY <2>1 DEF OperationOK, OpOK, Gated, FailedEarly
  <2>4. op[o].at # "done"
    BY <2>1 DEF In, Steps
  <2>5. CASE AnswersScan(o, d)
    BY <2>1, <2>3, <2>4, <2>5
    DEF AnswersScan, Says, Noise, TypeOK, OperationOK, AnswerOK, EffectOK, Gated, In
  <2>6. CASE AnswersBind(o, d)
    BY <2>1, <2>3, <2>4, <2>6
    DEF AnswersBind, Says, Noise, TypeOK, OperationOK, AnswerOK, EffectOK, Gated, In
  <2>7. CASE AnswersCommand(o, d)
    BY <2>1, <2>3, <2>4, <2>7
    DEF AnswersCommand, Says, Obey, Noise, TypeOK, OperationOK, AnswerOK,
        EffectOK, Gated, In
  <2> QED
    BY <2>2, <2>5, <2>6, <2>7
<1>2. CASE LateCommand(o)
  BY <1>2 DEF LateCommand, Obey, OperationOK, OpOK, AnswerOK, EffectOK, Gated,
              FailedEarly, In
<1> QED
  BY <1>1, <1>2

-----------------------------------------------------------------------------
(* The invariant *)

LEMMA InitIInv == Init => IInv
<1> SUFFICES ASSUME Init, NEW o \in Ops
             PROVE  OpOK(o) /\ AnswerOK(o) /\ EffectOK(o)
  BY InitTypeOK DEF IInv
<1>1. /\ op[o].at = "idle" /\ op[o].phase = "send" /\ op[o].key = None
      /\ ~op[o].success
  BY DEF Init
<1> QED
  BY <1>1 DEF Init, OpOK, AnswerOK, EffectOK, Steps

LEMMA StepIInv == IInv /\ [Next]_vars => IInv'
<1> SUFFICES ASSUME IInv, [Next]_vars PROVE IInv'
  OBVIOUS
<1>1. TypeOK /\ \A o \in Ops : OperationOK(o)
  BY DEF IInv, OperationOK
<1>2. SUFFICES TypeOK' /\ \A o \in Ops : OperationOK(o)'
  BY DEF IInv, OperationOK
<1>3. \A o \in Ops : op[o].key \in Devices \cup {None}
  BY <1>1 DEF TypeOK, OpState
<1>4. ASSUME NEW o \in Ops,
             Call(o) \/ SendUdpCommand(o) \/ DeviceAnswers(o) \/ LateCommand(o)
      PROVE  TypeOK' /\ \A p \in Ops : OperationOK(p)'
  <2>1. TypeOK'
    BY <1>1, <1>4, CallTypeOK, SendUdpCommandTypeOK, DeviceTypeOK DEF OperationOK
  <2>2. OperationOK(o)'
    BY <1>1, <1>4, CallKeepsOperationOK, SendUdpCommandKeepsOperationOK,
       DeviceKeepsOperationOK
  <2>3. ASSUME NEW p \in Ops \ {o} PROVE OperationOK(p)'
    BY <1>1, <1>3, <1>4, OthersStayTheSame, OperationFrame
  <2> QED
    BY <2>1, <2>2, <2>3
<1>5. ASSUME NEW d \in Devices \cup {None}, Readdress(d)
      PROVE  TypeOK' /\ \A p \in Ops : OperationOK(p)'
  <2>1. TypeOK'
    BY <1>1, <1>5, ControllerAssumption DEF Readdress, TypeOK
  <2>2. ASSUME NEW p \in Ops PROVE Same(p)
    BY <1>5 DEF Readdress, Same
  <2> QED
    BY <1>1, <1>3, <2>1, <2>2, OperationFrame
<1>6. CASE UNCHANGED vars
  <2>1. TypeOK'
    BY <1>1, <1>6 DEF vars, TypeOK
  <2>2. ASSUME NEW p \in Ops PROVE Same(p)
    BY <1>6 DEF vars, Same
  <2> QED
    BY <1>1, <1>3, <2>1, <2>2, OperationFrame
<1> QED
  BY <1>4, <1>5, <1>6 DEF Next

(* IInv is an invariant: every reachable state of the operations has it.    *)
THEOREM Invariance == Spec => []IInv
BY InitIInv, StepIInv, PTL DEF Spec

-----------------------------------------------------------------------------
(* The theorems *)

(* The locals of an operation keep their types; no attempt is counted       *)
(* beyond the last one (DeviceControllerService.cs:225).                    *)
THEOREM TypeCorrect == Spec => []TypeOK
BY Invariance, PTL DEF IInv

(* An operation reports success only after it has changed the device its    *)
(* own scan found, and no other (DeviceControllerService.cs:138).           *)
THEOREM SuccessCorrect == Spec => []SuccessWasApplied
<1>1. IInv => SuccessWasApplied
  <2> SUFFICES ASSUME IInv, NEW o \in Ops,
                      op[o].at = "done", op[o].success, op[o].kind = "set"
               PROVE  /\ <<o, op[o].mac>> \in applied
                      /\ \A d \in Devices : <<o, d>> \in applied => d = op[o].mac
    BY DEF SuccessWasApplied
  <2>1. op[o].key # None /\ op[o].key = op[o].mac /\ Gated(o)
    BY DEF IInv, OpOK, EffectOK, Gated
  <2> QED
    BY <2>1 DEF IInv, EffectOK
<1> QED
  BY <1>1, Invariance, PTL

(* Only an operation that began while management was enabled, and that got  *)
(* as far as its command, changes a device, be it ever so late              *)
(* (DeviceConfigService.cs:53).                                             *)
THEOREM AllowedCorrect == Spec => []OnlyAllowedCommandsAct
<1>1. IInv => OnlyAllowedCommandsAct
  <2> SUFFICES ASSUME IInv, NEW o \in Ops, NEW d \in Devices, <<o, d>> \in applied
               PROVE  allowed[o] /\ ~FailedEarly(o)
    BY DEF OnlyAllowedCommandsAct
  <2>1. Gated(o) /\ op[o].key = d
    BY DEF IInv, EffectOK
  <2> QED
    BY <2>1, ControllerAssumption DEF IInv, OpOK
<1> QED
  BY <1>1, Invariance, PTL
-----------------------------------------------------------------------------
(* The steps an operation has left                                          *)

(* In a step of the operation, from the last phase of the last attempt (1)  *)
(* to the first of the first (three for each attempt) ...                   *)
LEMMA RemainingInStep ==
  ASSUME NEW s \in OpState
  PROVE  /\ s.at = "command" =>
              Remaining(s) = 3 * (Attempts - s.attempt) + PhasesLeft(s.phase) + 1
         /\ s.at = "bind" =>
              Remaining(s) =
                3 * (2 * Attempts - s.attempt) + PhasesLeft(s.phase) + 1
         /\ s.at = "scan" =>
              Remaining(s) =
                3 * (3 * Attempts - s.attempt) + PhasesLeft(s.phase) + 1
         /\ PhasesLeft(s.phase) \in 0..2
<1>1. Attempts * 0 = 0 /\ Attempts * 1 = Attempts /\ Attempts * 2 = 2 * Attempts
  BY ControllerAssumption
<1>2. Attempts \in Nat /\ s.attempt \in Nat
  BY ControllerAssumption DEF OpState
<1>3. s.phase \in {"send", "receive", "delay"}
  BY DEF OpState
<1>4. PhasesLeft(s.phase) \in 0..2
  BY <1>3 DEF PhasesLeft
<1>5. s.at = "command" => Remaining(s) =
        3 * (Attempts * 0 + Attempts - s.attempt) + PhasesLeft(s.phase) + 1
  BY DEF Remaining, StepsBehind
<1>6. s.at = "bind" => Remaining(s) =
        3 * (Attempts * 1 + Attempts - s.attempt) + PhasesLeft(s.phase) + 1
  BY DEF Remaining, StepsBehind
<1>7. s.at = "scan" => Remaining(s) =
        3 * (Attempts * 2 + Attempts - s.attempt) + PhasesLeft(s.phase) + 1
  BY DEF Remaining, StepsBehind
<1> QED
  BY <1>1, <1>2, <1>4, <1>5, <1>6, <1>7

(* ... with the three steps one behind the other.                           *)
LEMMA RemainingRange ==
  ASSUME NEW s \in OpState
  PROVE  /\ s.at = "done" => Remaining(s) = 0
         /\ s.at = "idle" => Remaining(s) = 9 * Attempts + 1
         /\ s.at = "command" => Remaining(s) \in 1..3 * Attempts
         /\ s.at = "bind" => Remaining(s) \in 3 * Attempts + 1..6 * Attempts
         /\ s.at = "scan" => Remaining(s) \in 6 * Attempts + 1..9 * Attempts
         /\ Attempts \in Nat \ {0}
<1>1. Attempts \in Nat \ {0} /\ s.attempt \in 1..Attempts
  BY ControllerAssumption DEF OpState
<1>2. /\ s.at = "done" => Remaining(s) = 0
      /\ s.at = "idle" => Remaining(s) = 9 * Attempts + 1
  BY DEF Remaining
<1> QED
  BY <1>1, <1>2, RemainingInStep

(* Within a step the phases follow each other, and the attempts.            *)
LEMMA PhaseCounts ==
  ASSUME NEW s \in OpState, NEW t \in OpState, s.at \in Steps, t.at = s.at,
         \/ /\ t.attempt = s.attempt
            /\ PhasesLeft(t.phase) < PhasesLeft(s.phase)
         \/ t.attempt = s.attempt + 1
            /\ PhasesLeft(t.phase) <= PhasesLeft(s.phase) + 2
  PROVE  Remaining(t) \in 0..Remaining(s) - 1
<1>1. /\ Attempts \in Nat \ {0}
      /\ s.attempt \in 1..Attempts /\ t.attempt \in 1..Attempts
  BY ControllerAssumption DEF OpState
<1>2. PhasesLeft(s.phase) \in 0..2 /\ PhasesLeft(t.phase) \in 0..2
  BY RemainingInStep
<1>3. CASE s.at = "command"
  BY <1>1, <1>2, <1>3, RemainingInStep
<1>4. CASE s.at = "bind"
  BY <1>1, <1>2, <1>4, RemainingInStep
<1>5. CASE s.at = "scan"
  BY <1>1, <1>2, <1>5, RemainingInStep
<1> QED
  BY <1>3, <1>4, <1>5 DEF Steps

(* An end leaves nothing, and what follows a step less than the step.       *)
LEMMA EndCounts ==
  ASSUME NEW s \in OpState, NEW t \in OpState, s.at # "done",
         \/ t.at = "done"
         \/ s.at = "idle" /\ t.at = "scan"
         \/ s.at = "scan" /\ t.at = "bind"
         \/ s.at = "bind" /\ t.at = "command"
  PROVE  Remaining(t) \in 0..Remaining(s) - 1
<1>1. s.at \in {"idle", "scan", "bind", "command"}
  BY DEF OpState, Steps
<1> QED
  BY <1>1, RemainingRange

(* Whatever Understand makes of an answer, the operation ends or goes on    *)
(* to the step after this one.                                              *)
LEMMA UnderstandAdvances ==
  ASSUME TypeOK, NEW o \in Ops, NEW a \in Body, Understand(o, a)
  PROVE  /\ op[o].at \in Steps
         /\ \/ op'[o].at = "done"
            \/ op[o].at = "scan" /\ op'[o].at = "bind"
            \/ op[o].at = "bind" /\ op'[o].at = "command"
<1>1. op[o] \in OpState
  BY DEF TypeOK
<1>2. \A success, code : Ends(o, success, code) => op'[o].at = "done"
  BY <1>1 DEF Ends, OpState, TypeOK
<1>3. \A step, mac, key : Continues(o, step, mac, key) => op'[o].at = step
  BY <1>1 DEF Continues, OpState, TypeOK
<1>4. \A code : FailsWith(o, code) => op'[o].at = "done"
  BY <1>2 DEF FailsWith
<1>5. StepThrows(o) => op'[o].at = "done"
  BY <1>4 DEF StepThrows
<1>6. CASE AfterScan(o, a)
  BY <1>3, <1>4, <1>5, <1>6 DEF AfterScan, Steps
<1>7. CASE AfterBind(o, a)
  BY <1>3, <1>4, <1>7 DEF AfterBind, Steps
<1>8. CASE AfterCommand(o, a)
  BY <1>2, <1>4, <1>5, <1>8 DEF AfterCommand, Steps
<1> QED
  BY <1>6, <1>7, <1>8 DEF Understand

LEMMA OperationCounts ==
  ASSUME TypeOK, TypeOK', NEW o \in Ops, OpOK(o), Call(o) \/ SendUdpCommand(o)
  PROVE  Remaining(op'[o]) \in 0..Remaining(op[o]) - 1
<1>1. op[o] \in OpState /\ op'[o] \in OpState
  BY DEF TypeOK
<1>2. \A code : FailsWith(o, code) => op'[o].at = "done"
  BY <1>1 DEF FailsWith, Ends, OpState, TypeOK
<1>3. NoAnswer(o) \/ StepThrows(o) => op'[o].at = "done"
  BY <1>2 DEF NoAnswer, StepThrows
<1>4. CASE Call(o)
  <2>1. op[o].at = "idle" /\ op'[o].at \in {"scan", "done"}
    BY <1>1, <1>4 DEF Call, Begin, Reject, TypeOK, OpState
  <2> QED
    BY <1>1, <2>1, EndCounts
<1>5. CASE Send(o)
  <2>1. /\ op[o].at \in Steps /\ op[o].phase = "send"
        /\ op'[o].at = op[o].at /\ op'[o].attempt = op[o].attempt
        /\ op'[o].phase = "receive"
    BY <1>1, <1>5 DEF Send, In, TypeOK, OpState
  <2> QED
    BY <1>1, <2>1, PhaseCounts DEF PhasesLeft
<1>6. CASE AttemptFails(o)
  <2>1. op[o].at \in Steps /\ op[o].phase \in {"send", "receive"}
    BY <1>6 DEF AttemptFails, In
  <2>2. CASE MayRetry(o)
    <3>1. /\ op'[o].at = op[o].at /\ op'[o].attempt = op[o].attempt
          /\ op'[o].phase = "delay"
      BY <1>1, <1>6, <2>2 DEF AttemptFails, TypeOK, OpState
    <3> QED
      BY <1>1, <2>1, <3>1, PhaseCounts DEF PhasesLeft
  <2>3. CASE ~MayRetry(o)
    BY <1>1, <1>3, <1>6, <2>1, <2>3, EndCounts DEF AttemptFails, Steps
  <2> QED
    BY <2>2, <2>3
<1>7. CASE Retry(o)
  <2>1. /\ op[o].at \in Steps /\ op[o].phase = "delay"
        /\ op'[o].at = op[o].at /\ op'[o].attempt = op[o].attempt + 1
        /\ op'[o].phase = "send"
    BY <1>1, <1>7 DEF Retry, NextAttempt, In, TypeOK, OpState
  <2> QED
    BY <1>1, <2>1, PhaseCounts DEF PhasesLeft
<1>8. CASE CancelDelay(o)
  <2>1. op[o].at \in Steps
    BY <1>8 DEF CancelDelay, In
  <2> QED
    BY <1>1, <1>3, <1>8, <2>1, EndCounts DEF CancelDelay, Steps
<1>9. CASE Receive(o)
  <2>1. answer[o] \in Body /\ Understand(o, answer[o])
    BY <1>9 DEF Receive, OwnSocket, TypeOK
  <2>2. op[o].at # "done"
    BY <2>1, UnderstandAdvances DEF Steps
  <2> QED
    BY <1>1, <2>1, <2>2, UnderstandAdvances, EndCounts
<1> QED
  BY <1>4, <1>5, <1>6, <1>7, <1>8, <1>9 DEF SendUdpCommand

(* Each step of an operation leaves it fewer steps to make: it takes        *)
(* 9 * Attempts + 1 of them at most, whatever answers it gets               *)
(* (DeviceControllerService.cs:225).                                        *)
THEOREM StepsCount == Spec => EveryStepCounts
<1> DEFINE Counts ==
      \A o \in Ops :
        op'[o] # op[o] => Remaining(op'[o]) \in 0..Remaining(op[o]) - 1
<1>1. IInv /\ IInv' /\ [Next]_vars => Counts
  <2> SUFFICES ASSUME IInv, IInv', [Next]_vars, NEW o \in Ops, op'[o] # op[o]
               PROVE  Remaining(op'[o]) \in 0..Remaining(op[o]) - 1
    OBVIOUS
  <2>1. Call(o) \/ SendUdpCommand(o)
    <3>1. op' # op
      OBVIOUS
    <3>2. PICK p \in Ops : Call(p) \/ SendUdpCommand(p)
      BY <3>1 DEF Next, vars, DeviceAnswers, LateCommand, Readdress
    <3>3. p = o
      BY <3>2, OthersStayTheSame DEF IInv, Same
    <3> QED
      BY <3>2, <3>3
  <2> QED
    BY <2>1, OperationCounts DEF IInv
<1> QED
  BY <1>1, Invariance, PTL DEF Spec, EveryStepCounts
=============================================================================
