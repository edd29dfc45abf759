--------------------------- MODULE MCSocketServer ---------------------------
(* Small instances of SocketServer: the lines the devices send.             *)
EXTENDS SocketServer

Heartbeat(m) == [type |-> "hb", pack |-> "null", mac |-> m, cid |-> None]

Of(type) == [type |-> type, pack |-> "null", mac |-> None, cid |-> None]

Login(p, m) == [type |-> "pack", pack |-> p, mac |-> None, cid |-> m]

(* One line that is answered and names its device.                          *)
OneLine == {Heartbeat(m) : m \in Macs}

(* A line for every outcome of GetResponse: answered and kept alive with    *)
(* and without a device, answered and closed with one, unanswered and kept  *)
(* alive, unanswered and closed with and without a device, thrown.          *)
EveryOutcome ==
  UNION {{Heartbeat(m), Login("devLogin", m), Login("devLoginShortMac", m),
          Login("other", m), [Of("dis") EXCEPT !.cid = m]} : m \in Macs}
    \cup {Of("blank"), Of("tm"), Of("invalid")}
=============================================================================
