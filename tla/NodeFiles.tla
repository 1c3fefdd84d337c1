----------------------------- MODULE NodeFiles -----------------------------
(***************************************************************************)
(* The files of one node and the start of its daemon: one administrator    *)
(* runs subcommands that edit the configuration (ConfigFile) or make       *)
(* certificates (PKI), each of which may fail or be killed halfway, while  *)
(* runServe (internal/pkg/cli, serve.go) goes through the same files: the  *)
(* configuration, the CA, the certificate and key of the host, whose name  *)
(* it checks, and then once more certificate and key for each of the two   *)
(* TLS servers, because ListenAndServeTLS is given their paths.            *)
(* A daemon that gives up is started again.                                *)
(***************************************************************************)
EXTENDS ConfigFile, PKI

CONSTANT Self   \* host.name, which no subcommand edits

VARIABLES boot,   \* runServe after the configuration has been accepted
          served  \* served[l]: the certificate that TLS server l presents

nodeVars == <<vars, pkiVars, boot, served>>

TLSServer == {"interhost", "ui"}

ASSUME NodeAssumption == Self \in Host

NotServed == [is |-> "none"]
Off == [pc |-> "off"]
None == [l \in TLSServer |-> NotServed]

NodeInit == Init /\ PKIInit /\ boot = Off /\ served = None

-----------------------------------------------------------------------------
(* The administrator. *)

Idle == ~ PKIBusy /\ \A w \in Writer : ~ Running(w)

BeginPKI ==
  /\ Idle
  /\ ran < MaxCommands
  /\ ran' = ran + 1
  /\ BeginInit(ran') \/ \E h \in Host : BeginCert(h, ran')
  /\ UNCHANGED <<path, tmp, data, strict, cli, daemon, boot, served>>

StepPKI ==
  /\ ReadCACert \/ ReadCAKey \/ OpenOut \/ WriteOut \/ ChmodOut \/ OutFails \/ KillPKI
  /\ UNCHANGED <<vars, boot, served>>

EditConfig(w) ==
  /\ \/ Idle /\ Begin(w)
     \/ LoadAndEdit(w) \/ OpenTmp(w) \/ OpenFails(w) \/ WriteTmp(w) \/ WriteFails(w)
     \/ Rename(w) \/ RenameFails(w) \/ Exit(w) \/ Kill(w)
  /\ UNCHANGED <<pkiVars, boot, served>>

-----------------------------------------------------------------------------
(* The daemon. *)

(* CheckMode, Load and Validate; when they are done the files of the       *)
(* certificates are next.                                                  *)
ReadFiles ==
  /\ CheckMode \/ OpenConfig \/ ReadConfig
  /\ boot' = IF daemon'.pc = "up" THEN [pc |-> "ca"] ELSE boot
  /\ UNCHANGED <<pkiVars, served>>

(* runServe returns an error, and systemd starts it again. *)
GiveUp ==
  /\ daemon' = [pc |-> "down"]
  /\ boot' = Off
  /\ served' = None

StartUnchanged == UNCHANGED <<path, tmp, data, strict, cli, ran, pkiVars>>

(* The CA bundle must hold a certificate. *)
ReadCA ==
  /\ boot.pc = "ca"
  /\ IF file[CACert].is = "cert"
     THEN boot' = [pc |-> "cert", pool |-> file[CACert]] /\ UNCHANGED <<daemon, served>>
     ELSE GiveUp
  /\ StartUnchanged

(* tls.LoadX509KeyPair reads the certificate ... *)
ReadHostCert ==
  /\ boot.pc = "cert"
  /\ IF file[HostCert] # Missing
     THEN /\ boot' = [pc |-> "key", pool |-> boot.pool, cert |-> file[HostCert]]
          /\ UNCHANGED <<daemon, served>>
     ELSE GiveUp
  /\ StartUnchanged

(* The error about a key that does not fit is only logged. *)
Mut_ReadHostKey_stuck ==
  /\ boot.pc = "key"
  /\ Paired(boot.cert, file[HostKey]) /\ boot.cert.cn = Self
  /\ boot' = [boot EXCEPT !.pc = "listen"]
  /\ UNCHANGED <<daemon, served>>
  /\ StartUnchanged

(* ... and then the key, which must fit; the name in the certificate is    *)
(* compared with host.name.  From here on the daemon is up.                *)
ReadHostKey ==
  /\ boot.pc = "key"
  /\ IF Paired(boot.cert, file[HostKey]) /\ boot.cert.cn = Self
     THEN boot' = [boot EXCEPT !.pc = "listen"] /\ UNCHANGED <<daemon, served>>
     ELSE GiveUp
  /\ StartUnchanged

(* ListenAndServeTLS of one server loads the pair again, certificate       *)
(* first; the one in its TLSConfig is replaced.                            *)
ReloadCert(l) ==
  /\ boot.pc = "listen"
  /\ served[l] = NotServed
  /\ served' = [served EXCEPT ![l] = [is |-> "loading", cert |-> file[HostCert]]]
  /\ UNCHANGED <<vars, pkiVars, boot>>

(* If the key does not fit, the error goes into errCh and the server never *)
(* listens.                                                                *)
ReloadKey(l) ==
  /\ boot.pc = "listen"
  /\ served[l].is = "loading"
  /\ served' = [served EXCEPT ![l] = IF Paired(@.cert, file[HostKey]) THEN @.cert
                                     ELSE [is |-> "failed"]]
  /\ UNCHANGED <<vars, pkiVars, boot>>

Restart ==
  /\ boot.pc = "listen"
  /\ GiveUp
  /\ StartUnchanged

NodeFinished == Idle /\ ran = MaxCommands /\ UNCHANGED nodeVars

NodeNext ==
  \/ BeginPKI \/ StepPKI
  \/ \E w \in Writer : EditConfig(w)
  \/ ReadFiles \/ ReadCA \/ ReadHostCert \/ ReadHostKey
  \/ \E l \in TLSServer : ReloadCert(l) \/ ReloadKey(l)
  \/ Restart
  \/ NodeFinished

NodeSpec == NodeInit /\ [][NodeNext]_nodeVars

(* A step of runServe is taken, and a daemon that has given up is started  *)
(* again (Restart=on-failure in contrib/systemd).  Nothing is assumed of   *)
(* the administrator.                                                      *)
NodeFairSpec ==
  NodeSpec /\ WF_nodeVars(ReadFiles) /\ WF_nodeVars(ReadCA \/ ReadHostCert \/ ReadHostKey)

-----------------------------------------------------------------------------
IsUp == boot.pc = "listen"

(* The files are such that the daemon can start. *)
InOrder ==
  /\ strict[path] /\ data[path] # Torn /\ Valid(data[path])
  /\ file[CACert].is = "cert"
  /\ Paired(file[HostCert], file[HostKey]) /\ file[HostCert].cn = Self

NodeTypeOK ==
  /\ TypeOK /\ PKITypeOK
  /\ boot.pc \in {"off", "ca", "cert", "key", "listen"}
  /\ boot.pc # "off" <=> daemon.pc = "up"
  /\ \A l \in TLSServer : served[l].is \in {"none", "loading", "failed", "cert"}

(* The daemon is up only with a configuration from a file of mode 0600     *)
(* that is valid, though CheckMode looked at the name and Load at the file *)
(* that an edit may have put there since, and with a whole CA.             *)
UpInOrder ==
  IsUp => /\ daemon.strict /\ Valid(daemon.cfg)
          /\ boot.pool.is = "cert" /\ boot.cert.cn = Self

(* Whatever was killed or has failed before: once the files are in order   *)
(* and stay so, the daemon comes up, again after each restart.             *)
StartsIfInOrder == <>[]InOrder => []<>IsUp

-----------------------------------------------------------------------------
(* The design document says that host.name equals the name in the loaded   *)
(* host certificate.                                                       *)
ServesOwnName ==
  \A l \in TLSServer : served[l].is = "cert" => served[l].cn = Self
=============================================================================
