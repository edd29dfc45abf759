-------------------------- MODULE CertificateStore --------------------------
(***************************************************************************)
(* CryptoService.GetCertificate across restarts of the server: the only     *)
(* state the program keeps on disk is the certificate it creates for        *)
(* itself.                                                                  *)
(***************************************************************************)
CONSTANT None

VARIABLES
  path,        \* TLSCertificatePath: its extension, or None
  password,    \* TLSCertificatePassword is set
  autoCreate,  \* TLSCertificateAutoCreate
  file,        \* what is at the path
  server,      \* the process
  certificate, \* _tlsCertificate of the running process
  served       \* history: TLS has been served before

vars == <<path, password, autoCreate, file, server, certificate, served>>
configuration == <<path, password, autoCreate>>

(* "partial" is what a crash in the middle of File.WriteAllBytes leaves.    *)
Files == {"absent", "pkcs12", "der", "partial"}

(* A certificate with or without its private key.                           *)
Certificates == {"complete", "public"}

Init ==
  /\ path \in {".pfx", ".crt", None}
  /\ password \in BOOLEAN
  /\ autoCreate \in BOOLEAN
  /\ file = "absent"
  /\ server = "down"
  /\ certificate = None
  /\ served = FALSE

Exists == path # None /\ file # "absent"

Serve(c) == server' = "serving" /\ certificate' = c /\ served' = TRUE

Fail == server' = "failed" /\ certificate' = None /\ UNCHANGED served

(* The extension is compared with "pfx" and begins with a dot, so no file   *)
(* is ever loaded as PKCS#12; the loader of plain certificates takes one    *)
(* without a private key and rejects everything else.                       *)
LoadCertificateFromFile ==
  /\ server = "down"
  /\ Exists
  /\ \/ file = "der" /\ Serve("public")
     \/ file # "der" /\ Fail
  /\ UNCHANGED <<configuration, file>>

(* Without a password the file gets the PKCS#12 export, with one it gets    *)
(* the certificate alone.                                                   *)
Written == IF password THEN "der" ELSE "pkcs12"

GenerateSelfSignedCert ==
  /\ server = "down"
  /\ ~Exists
  /\ autoCreate
  /\ Serve("complete")
  /\ file' = IF path = None THEN file ELSE Written
  /\ UNCHANGED configuration

(* The directory is read-only or missing, or the process crashes in the     *)
(* middle of the write.                                                     *)
WriteFails ==
  /\ server = "down"
  /\ ~Exists
  /\ autoCreate
  /\ path # None
  /\ file' \in {"absent", "partial"}
  /\ Fail
  /\ UNCHANGED configuration

NotFound ==
  /\ server = "down"
  /\ ~Exists
  /\ ~autoCreate
  /\ Fail
  /\ UNCHANGED <<configuration, file>>

(* The process ends, or crashes, and the service manager starts it again.   *)
Restart ==
  /\ server # "down"
  /\ server' = "down"
  /\ certificate' = None
  /\ UNCHANGED <<configuration, file, served>>

GetCertificate ==
  \/ LoadCertificateFromFile
  \/ GenerateSelfSignedCert
  \/ WriteFails
  \/ NotFound

Next == GetCertificate \/ Restart

Spec == Init /\ [][Next]_vars

(* "Auto-create TLS certificate if needed" (Readme.md:313): a server that   *)
(* created its certificate and served TLS with it starts again after a      *)
(* restart, and has the key to serve TLS.                                   *)
AutoCreateSurvivesRestart ==
  served =>
    /\ server # "failed"
    /\ server = "serving" => certificate = "complete"
=============================================================================
