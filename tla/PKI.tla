-------------------------------- MODULE PKI --------------------------------
(***************************************************************************)
(* The certificates of one node: the subcommands "pki init" and "pki cert" *)
(* (internal/pkg/cli, pki.go), which make a key, sign a certificate        *)
(* (internal/pkg/pki) and overwrite two files in place, one after the      *)
(* other, and the loading of such pairs.                                   *)
(*                                                                         *)
(* A certificate is its common name, the key that it certifies and the key *)
(* that signed it.  Serial numbers, lifetimes, alternative names and the   *)
(* encoding are data that nothing here tells apart.                        *)
(***************************************************************************)
EXTENDS Integers, Sequences

CONSTANTS Host,     \* names that certificates are issued for
          InitPKI   \* what the files hold to begin with

VARIABLES file,     \* file[p]: what the file p holds
          proper,  \* proper[p]: whether its mode is the one asked for (0600 for a key)
          pki       \* the pki subcommand that runs, if any

pkiVars == <<file, proper, pki>>

CACert == "ca.crt"
CAKey == "ca.key"
HostCert == "host.crt"
HostKey == "host.key"
Path == {CACert, CAKey, HostCert, HostKey}

(* A file is missing, cut short or whole. *)
IsContents(c) == \/ c.is \in {"missing", "cut"}
                 \/ c.is = "cert" /\ c.cn \in Host \cup {"CA"}
                 \/ c.is = "key"

ASSUME PKIAssumption ==
  \A s \in InitPKI : /\ DOMAIN s.file = Path /\ \A p \in Path : IsContents(s.file[p])
                     /\ s.proper \in [Path -> BOOLEAN]

(* No file, and one that is empty or cut short. *)
Missing == [is |-> "missing"]
Cut == [is |-> "cut"]

Cert(cn, pub, by) == [is |-> "cert", cn |-> cn, pub |-> pub, by |-> by]
Key(k) == [is |-> "key", priv |-> k]

(* Keys are random; each is named after the command that made it. *)
KeyOf(n) == <<"key", n>>

(* Both files of a pair can be decoded (pki.Decode). *)
Decodes(c, k) == c.is = "cert" /\ k.is = "key"

(* tls.X509KeyPair, and x509.CreateCertificate of a parent and its key:    *)
(* the key is that of the certificate.                                     *)
Paired(c, k) == Decodes(c, k) /\ c.pub = k.priv

(* A certificate verifies against a pool with the CA certificate ca. *)
Verifies(c, ca) == c.is = "cert" /\ ca.is = "cert" /\ c.by = ca.pub

PKIInit ==
  /\ \E s \in InitPKI : file = s.file /\ proper = s.proper
  /\ pki = [pc |-> "idle"]

Over(how) == [pc |-> how]
PKIBusy == pki.pc \in {"read cert", "read key", "open", "write", "chmod"}

GenerateCA(n) == Cert("CA", KeyOf(n), KeyOf(n))
GenerateHostCert(h, key, caKey) == Cert(h, key, caKey.priv)

(* Encode: what is to be written, as pairs of a path and what goes there.  *)
ToWrite(cmd, cert, certPath, keyPath) ==
  [pc |-> "open", cmd |-> cmd,
   todo |-> << <<certPath, cert>>, <<keyPath, Key(cert.pub)>> >>]

-----------------------------------------------------------------------------
(* runPKIInit up to the files: a key, and a certificate signed with it. *)
BeginInit(n) ==
  /\ ~ PKIBusy
  /\ pki' = ToWrite([op |-> "init"], GenerateCA(n), CACert, CAKey)
  /\ UNCHANGED <<file, proper>>

(* runPKICert for host h. *)
BeginCert(h, n) ==
  /\ ~ PKIBusy
  /\ pki' = [pc |-> "read cert", cmd |-> [op |-> "cert", host |-> h], key |-> KeyOf(n)]
  /\ UNCHANGED <<file, proper>>

ReadCACert ==
  /\ pki.pc = "read cert"
  /\ pki' = IF file[CACert] = Missing THEN Over("failed")
            ELSE [pc |-> "read key", cmd |-> pki.cmd, key |-> pki.key, ca |-> file[CACert]]
  /\ UNCHANGED <<file, proper>>

(* The key of the CA is not compared with its certificate. *)
Mut_ReadCAKey_unpaired ==
  /\ pki.pc = "read key"
  /\ pki' = IF Decodes(pki.ca, file[CAKey])
            THEN ToWrite(pki.cmd, GenerateHostCert(pki.cmd.host, pki.key, file[CAKey]),
                         HostCert, HostKey)
            ELSE Over("failed")
  /\ UNCHANGED <<file, proper>>

(* The key is read, Decode and GenerateHostCert: x509.CreateCertificate    *)
(* refuses a key that is not that of the parent certificate.               *)
ReadCAKey ==
  /\ pki.pc = "read key"
  /\ pki' = IF Paired(pki.ca, file[CAKey])
            THEN ToWrite(pki.cmd, GenerateHostCert(pki.cmd.host, pki.key, file[CAKey]),
                         HostCert, HostKey)
            ELSE Over("failed")
  /\ UNCHANGED <<file, proper>>

-----------------------------------------------------------------------------
(* writeStrict, for the certificate and then for the key. *)

Target == Head(pki.todo)[1]

(* os.WriteFile truncates an existing file, which keeps its mode, or       *)
(* creates one with the mode that is asked for.                            *)
OpenOut ==
  /\ pki.pc = "open"
  /\ file' = [file EXCEPT ![Target] = Cut]
  /\ proper' = [proper EXCEPT ![Target] = IF file[Target] = Missing THEN TRUE ELSE @]
  /\ pki' = [pki EXCEPT !.pc = "write"]

WriteOut ==
  /\ pki.pc = "write"
  /\ file' = [file EXCEPT ![Target] = Head(pki.todo)[2]]
  /\ pki' = [pki EXCEPT !.pc = "chmod"]
  /\ UNCHANGED proper

Written(todo) == IF todo = <<>> THEN Over("ok") ELSE [pki EXCEPT !.pc = "open", !.todo = todo]

ChmodOut ==
  /\ pki.pc = "chmod"
  /\ proper' = [proper EXCEPT ![Target] = TRUE]
  /\ pki' = Written(Tail(pki.todo))
  /\ UNCHANGED file

(* The file cannot be opened, all of the text cannot be written, or the    *)
(* mode cannot be changed; nothing is undone.                              *)
OutFails ==
  /\ pki.pc \in {"open", "write", "chmod"}
  /\ pki' = Over("failed")
  /\ UNCHANGED <<file, proper>>

KillPKI ==
  /\ PKIBusy
  /\ pki' = Over("killed")
  /\ UNCHANGED <<file, proper>>

-----------------------------------------------------------------------------
(* Files are whole, cut short or missing. *)
PKITypeOK ==
  /\ DOMAIN file = Path /\ \A p \in Path : IsContents(file[p])
  /\ proper \in [Path -> BOOLEAN]

(* What a pki subcommand that reports success has left on the disk is of   *)
(* use whatever earlier ones that failed or were killed had left there: a  *)
(* key of mode 0600 that is the key of the certificate, and for "pki cert" *)
(* a certificate with the name asked for that verifies against the CA.     *)
IssuesTruly ==
  [][pki.pc # "ok" /\ pki'.pc = "ok" =>
       IF pki.cmd.op = "init"
       THEN Paired(file'[CACert], file'[CAKey]) /\ proper'[CAKey]
       ELSE /\ Paired(file'[HostCert], file'[HostKey]) /\ proper'[HostKey]
            /\ file'[HostCert].cn = pki.cmd.host
            /\ Verifies(file'[HostCert], file'[CACert])]_pkiVars
=============================================================================
