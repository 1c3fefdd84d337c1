---------------------------- MODULE MCNodeFiles ----------------------------
(* Initial certificates for the runs of NodeFiles: none at all, those of   *)
(* an earlier day whose keys were copied without their modes, and those    *)
(* that are left when "pki init" and "pki cert" were killed on the way.    *)
EXTENDS NodeFiles, MCConfigFile

MCNone == [file |-> [p \in Path |-> Missing], proper |-> [p \in Path |-> TRUE]]

MCReady ==
  [file |-> [p \in Path |->
     CASE p = CACert -> GenerateCA(0)
       [] p = CAKey -> Key(KeyOf(0))
       [] p = HostCert -> Cert(Self, KeyOf(-1), KeyOf(0))
       [] OTHER -> Key(KeyOf(-1))],
   proper |-> [p \in Path |-> p \in {CACert, HostCert}]]

MCHalf ==
  [file |-> [p \in Path |->
     CASE p = CACert -> GenerateCA(-2)
       [] p = HostKey -> Cut
       [] OTHER -> MCReady.file[p]],
   proper |-> [p \in Path |-> TRUE]]

MCInitPKI == {MCNone, MCReady, MCHalf}
MCInitReady == {MCReady}
=============================================================================
