--------------------------- MODULE MessageHandler ---------------------------
(***************************************************************************)
(* MessageHandlerService: what the server answers to one line a device      *)
(* sent.  The handler keeps no state: a response depends on the line and on *)
(* the configuration only.                                                  *)
(***************************************************************************)
EXTENDS Integers

CONSTANTS
  Macs,            \* addresses devices report
  None,            \* null, or a string that is blank
  HostConfigured,  \* DomainName and ExternalIp are set
  KeyConfigured    \* DefaultCryptoKey is set

ASSUME HandlerAssumption ==
  /\ HostConfigured \in BOOLEAN
  /\ KeyConfigured \in BOOLEAN

(* A line: blank, no JSON object of the right shape, the JSON null, or a    *)
(* request of one of the types the handler knows or of another.             *)
Types == {"blank", "invalid", "null", "dis", "pack", "tm", "hb", "other"}

(* What the encrypted payload of a "pack" request decrypts to.              *)
Packs == {"undecipherable", "null", "devLogin", "devLoginShortMac", "other"}

Request == [type : Types, pack : Packs, mac : Macs \cup {None},
            cid : Macs \cup {None}]

Replies == {"svr", "loginRes", "tm", "hbok"}

(* GreeHandlerResponse; Data is None where the code has the empty string.   *)
Response == [data : Replies \cup {None}, keepAlive : BOOLEAN,
             mac : Macs \cup {None}]

Exception == [data |-> None, keepAlive |-> FALSE, mac |-> None, thrown |-> TRUE]

Answer(data, keepAlive) == [data |-> data, keepAlive |-> keepAlive, mac |-> None]

HandleUnknownCommand(keepAlive) == Answer(None, keepAlive)

(* The server's own address, encrypted; the device connects again to it.    *)
HandleDiscover ==
  IF HostConfigured /\ KeyConfigured THEN Answer("svr", FALSE) ELSE Exception

(* It indexes 16 characters of the address whatever its length.             *)
NormalizeMacThrows(p) == p = "devLoginShortMac"

HandleDevLogin(p) ==
  IF NormalizeMacThrows(p) THEN Exception ELSE Answer("loginRes", TRUE)

HandlePack(req) ==
  IF ~KeyConfigured \/ req.pack = "undecipherable" THEN Exception
  ELSE IF req.pack \in {"devLogin", "devLoginShortMac"} THEN HandleDevLogin(req.pack)
  ELSE Answer(None, FALSE)

HandleTime == Answer("tm", TRUE)

HandleHeartbeat == Answer("hbok", TRUE)

Dispatch(req) ==
  CASE req.type = "dis"  -> HandleDiscover
    [] req.type = "pack" -> HandlePack(req)
    [] req.type = "tm"   -> HandleTime
    [] req.type = "hb"   -> HandleHeartbeat
    [] OTHER             -> HandleUnknownCommand(FALSE)

GetResponseSwallowsException(req) ==
  IF req.type = "blank" THEN HandleUnknownCommand(TRUE)
  ELSE IF req.type \in {"invalid", "null"} THEN HandleUnknownCommand(FALSE)
  ELSE [Dispatch(req) EXCEPT !.mac = IF req.mac # None THEN req.mac ELSE req.cid,
                             !.keepAlive = TRUE]

(* Whatever the handlers put there, the address is the one of the request,  *)
(* or else its cid: a request of an unknown type reports its device too.    *)
GetResponse(req) ==
  IF req.type = "blank" THEN HandleUnknownCommand(TRUE)
  ELSE IF req.type \in {"invalid", "null"} THEN HandleUnknownCommand(FALSE)
  ELSE IF Dispatch(req) = Exception THEN Exception
  ELSE [Dispatch(req) EXCEPT !.mac = IF req.mac # None THEN req.mac ELSE req.cid]
=============================================================================
