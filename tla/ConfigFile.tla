----------------------------- MODULE ConfigFile -----------------------------
(***************************************************************************)
(* The configuration file: the subcommands that edit it (internal/pkg/cli, *)
(* host.go, user.go, configio.go), config.Save, and the daemon that checks *)
(* its mode, reads and validates it when it starts (config.go, mode.go,    *)
(* validate.go).  NodeFiles goes on from there with the certificates.      *)
(*                                                                         *)
(* Files are inodes and directory entries: os.Rename moves the entry of    *)
(* the temporary file, os.WriteFile truncates whatever inode has the name  *)
(* and then writes to it, and a reader keeps the inode that it has opened. *)
(* The name of the temporary file is the same for every process.           *)
(*                                                                         *)
(* A process may be killed, and a write or a rename may fail, anywhere.    *)
(* The power does not fail: Save does not sync.                            *)
(***************************************************************************)
EXTENDS Integers, FiniteSets, Sequences, SequencesExt

CONSTANTS Name,         \* names of peers and of users
          Writer,       \* processes that may edit the file at the same time
          InitConfigs,  \* what the administrator wrote
          InitStrict,   \* modes the file may have then: TRUE is 0600
          MaxCommands   \* bound: subcommands run in one behaviour

VARIABLES path,    \* the inode of the configuration file
          tmp,     \* the inode of the temporary file, NoFile if there is none
          data,    \* data[i]: what inode i holds
          strict,  \* strict[i]: whether its mode is 0600
          cli,     \* cli[w]: the subcommand that process w runs
          ran,     \* how many subcommands have been started
          daemon   \* the start of the daemon

vars == <<path, tmp, data, strict, cli, ran, daemon>>

NoFile == 0
Inode == 1 .. Cardinality(Writer) + 3

(* Peers and users by name; sound stands for the other rules of Validate,  *)
(* about settings that no subcommand edits.                                *)
Config == [peers : Seq(Name), users : Seq(Name), sound : BOOLEAN]

ASSUME InitAssumption == InitConfigs \subseteq Config /\ InitStrict \subseteq BOOLEAN
ASSUME CommandsAssumption == MaxCommands \in Nat

(* A file that is empty or cut short: Load cannot decode it. *)
Torn == [torn |-> TRUE]

(* ValidateWithWarnings returns no error. *)
Valid(g) == g.sound /\ IsInjective(g.peers)

Edits == INSTANCE ConfigEdits WITH cfg <- data[path]

(* A subcommand: what it has still to do, what it has printed and what it  *)
(* is about to save.  (was, what the file held when it began, is there for *)
(* the properties.)                                                        *)
Job(c) == [pc |-> "load", cmd |-> c, was |-> data[path], said |-> FALSE,
           cfg |-> Torn, fd |-> NoFile]
Done(how) == [pc |-> how]
Running(w) == cli[w].pc \in {"load", "open", "write", "rename", "exit"}
Opened(w) == IF cli[w].pc \in {"write", "rename"} THEN {cli[w].fd} ELSE {}

(* An inode that has no name and that nobody has open. *)
FreshInode ==
  CHOOSE i \in Inode :
    /\ i \notin {path, tmp} \cup UNION {Opened(w) : w \in Writer}
    /\ daemon.pc = "read" => i # daemon.fd

Init ==
  /\ path = 1 /\ tmp = NoFile
  /\ \E g \in InitConfigs : data = [i \in Inode |-> IF i = 1 THEN g ELSE Torn]
  /\ \E m \in InitStrict : strict = [i \in Inode |-> i = 1 => m]
  /\ cli = [w \in Writer |-> Done("idle")]
  /\ ran = 0
  /\ daemon = [pc |-> "down"]

-----------------------------------------------------------------------------
(* One process that edits. *)

(* The arguments are parsed, and for "user add" the password is read and   *)
(* hashed, before the file is looked at.                                   *)
Begin(w) ==
  /\ ~ Running(w)
  /\ ran < MaxCommands
  /\ ran' = ran + 1
  /\ \E c \in Edits!Command : cli' = [cli EXCEPT ![w] = Job(c)]
  /\ UNCHANGED <<path, tmp, data, strict, daemon>>

(* loadAndMutate up to Save: Load, and the function of the subcommand,     *)
(* which prints "added peer" and the like.  CheckMode is not called.       *)
LoadAndEdit(w) ==
  /\ cli[w].pc = "load"
  /\ LET new == IF data[path] = Torn THEN {} ELSE Edits!Edited(data[path], cli[w].cmd)
     IN  cli' = [cli EXCEPT ![w] =
                   IF new = {} THEN Done("failed")
                   ELSE [@ EXCEPT !.pc = "open", !.said = TRUE,
                                  !.cfg = CHOOSE g \in new : TRUE]]
  /\ UNCHANGED <<path, tmp, data, strict, ran, daemon>>

(* The file is overwritten in place. *)
Mut_OpenTmp_inPlace(w) ==
  /\ cli[w].pc = "open"
  /\ data' = [data EXCEPT ![path] = Torn]
  /\ tmp' = path
  /\ cli' = [cli EXCEPT ![w] = [@ EXCEPT !.pc = "write", !.fd = path]]
  /\ UNCHANGED <<path, strict, ran, daemon>>

(* The temporary file is created with the usual mode. *)
Mut_OpenTmp_loose(w) ==
  /\ cli[w].pc = "open"
  /\ LET i == IF tmp = NoFile THEN FreshInode ELSE tmp
     IN  /\ tmp' = i
         /\ data' = [data EXCEPT ![i] = Torn]
         /\ strict' = [strict EXCEPT ![i] = FALSE]
         /\ cli' = [cli EXCEPT ![w] = [@ EXCEPT !.pc = "write", !.fd = i]]
  /\ UNCHANGED <<path, ran, daemon>>

(* os.WriteFile opens the temporary file: an existing one is truncated and *)
(* keeps its mode, a new one gets 0600.                                    *)
OpenTmp(w) ==
  /\ cli[w].pc = "open"
  /\ LET i == IF tmp = NoFile THEN FreshInode ELSE tmp
     IN  /\ tmp' = i
         /\ data' = [data EXCEPT ![i] = Torn]
         /\ strict' = [strict EXCEPT ![i] = @ \/ tmp = NoFile]
         /\ cli' = [cli EXCEPT ![w] = [@ EXCEPT !.pc = "write", !.fd = i]]
  /\ UNCHANGED <<path, ran, daemon>>

OpenFails(w) ==
  /\ cli[w].pc = "open"
  /\ cli' = [cli EXCEPT ![w] = Done("failed")]
  /\ UNCHANGED <<path, tmp, data, strict, ran, daemon>>

(* All of it is written, to the inode that was opened whatever its name.   *)
(* (If the rest of a longer text is behind it, Load does not look at it.)  *)
WriteTmp(w) ==
  /\ cli[w].pc = "write"
  /\ data' = [data EXCEPT ![cli[w].fd] = cli[w].cfg]
  /\ cli' = [cli EXCEPT ![w].pc = "rename"]
  /\ UNCHANGED <<path, tmp, strict, ran, daemon>>

(* The error of a short write is not looked at. *)
Mut_WriteFails_ignored(w) ==
  /\ cli[w].pc = "write"
  /\ data' = [data EXCEPT ![cli[w].fd] = Torn]
  /\ cli' = [cli EXCEPT ![w].pc = "rename"]
  /\ UNCHANGED <<path, tmp, strict, ran, daemon>>

(* The disk is full: what was written stays in the temporary file. *)
WriteFails(w) ==
  /\ cli[w].pc = "write"
  /\ data' = [data EXCEPT ![cli[w].fd] = Torn]
  /\ cli' = [cli EXCEPT ![w] = Done("failed")]
  /\ UNCHANGED <<path, tmp, strict, ran, daemon>>

(* The temporary file is copied, not moved. *)
Mut_Rename_copy(w) ==
  /\ cli[w].pc = "rename"
  /\ tmp # NoFile
  /\ path' = tmp
  /\ cli' = [cli EXCEPT ![w].pc = "exit"]
  /\ UNCHANGED <<tmp, data, strict, ran, daemon>>

(* What has the name of the temporary file gets that of the configuration. *)
Rename(w) ==
  /\ cli[w].pc = "rename"
  /\ tmp # NoFile
  /\ path' = tmp /\ tmp' = NoFile
  /\ cli' = [cli EXCEPT ![w].pc = "exit"]
  /\ UNCHANGED <<data, strict, ran, daemon>>

(* The error is dropped after the clean-up. *)
Mut_RenameFails_dropped(w) ==
  /\ cli[w].pc = "rename"
  /\ tmp' \in {NoFile, tmp}
  /\ cli' = [cli EXCEPT ![w].pc = "exit"]
  /\ UNCHANGED <<path, data, strict, ran, daemon>>

(* os.Rename fails, for want of the temporary file or for another reason.  *)
(* os.Remove, whose error is ignored.                                      *)
RenameFails(w) ==
  /\ cli[w].pc = "rename"
  /\ tmp' \in {NoFile, tmp}
  /\ cli' = [cli EXCEPT ![w] = Done("failed")]
  /\ UNCHANGED <<path, data, strict, ran, daemon>>

(* Save and loadAndMutate return nil, and the process exits with status 0. *)
Exit(w) ==
  /\ cli[w].pc = "exit"
  /\ cli' = [cli EXCEPT ![w] = Done("ok")]
  /\ UNCHANGED <<path, tmp, data, strict, ran, daemon>>

(* The process is killed. *)
Kill(w) ==
  /\ Running(w)
  /\ cli' = [cli EXCEPT ![w] = Done("killed")]
  /\ UNCHANGED <<path, tmp, data, strict, ran, daemon>>

-----------------------------------------------------------------------------
(* The daemon: runServe up to ValidateWithWarnings. *)

CheckMode ==
  /\ daemon.pc = "down"
  /\ strict[path]
  /\ daemon' = [pc |-> "open"]
  /\ UNCHANGED <<path, tmp, data, strict, cli, ran>>

(* Load opens whatever has the name by now ... *)
OpenConfig ==
  /\ daemon.pc = "open"
  /\ daemon' = [pc |-> "read", fd |-> path]
  /\ UNCHANGED <<path, tmp, data, strict, cli, ran>>

(* ... and reads it; the daemon is up or gives up. *)
ReadConfig ==
  /\ daemon.pc = "read"
  /\ LET g == data[daemon.fd]
     IN  daemon' = IF g # Torn /\ Valid(g)
                   THEN [pc |-> "up", cfg |-> g, strict |-> strict[daemon.fd]]
                   ELSE [pc |-> "down"]
  /\ UNCHANGED <<path, tmp, data, strict, cli, ran>>

(* The daemon is stopped, to be started again. *)
Stop ==
  /\ daemon.pc = "up"
  /\ daemon' = [pc |-> "down"]
  /\ UNCHANGED <<path, tmp, data, strict, cli, ran>>

(* The bound is reached and nobody runs. *)
Finished ==
  /\ ran = MaxCommands
  /\ \A w \in Writer : ~ Running(w)
  /\ UNCHANGED vars

Next ==
  \/ \E w \in Writer : \/ Begin(w) \/ LoadAndEdit(w)
                       \/ OpenTmp(w) \/ OpenFails(w)
                       \/ WriteTmp(w) \/ WriteFails(w)
                       \/ Rename(w) \/ RenameFails(w)
                       \/ Exit(w) \/ Kill(w)
  \/ CheckMode \/ OpenConfig \/ ReadConfig \/ Stop \/ Finished

Spec == Init /\ [][Next]_vars

-----------------------------------------------------------------------------
(* The two names are different inodes, and every inode holds a             *)
(* configuration or the beginning of one.                                  *)
TypeOK ==
  /\ path \in Inode /\ tmp \in (Inode \cup {NoFile}) \ {path}
  /\ data \in [Inode -> Config \cup {Torn}]
  /\ strict \in [Inode -> BOOLEAN]
  /\ ran \in 0 .. MaxCommands
  /\ \A w \in Writer : Opened(w) \subseteq Inode

(* The comment on Save says that it writes "the config atomically", the    *)
(* design document that a read "never sees a partial file": whatever a     *)
(* process opens under the name of the configuration can be decoded.       *)
NeverPartial == data[path] # Torn

(* The editing subcommands do not validate what they save, and yet they    *)
(* never turn a file that the daemon accepts into one that it refuses.     *)
StaysValid == [][Valid(data[path]) => Valid(data'[path'])]_vars

(* Edits are atomic and none is lost: each change of the file is one edit  *)
(* of what the file held.                                                  *)
EditsAreAtomic == Edits!Spec

(* What can be told from the end of a subcommand about all that it did.    *)
(* With status 0 it has made its edit of what the file held when it began, *)
(* and has said so; with an error it has changed nothing, although it may  *)
(* have said otherwise, because it prints before Save.  One that is killed *)
(* has made all of its edit or none, and none if it had printed nothing.   *)
ReportsTruly ==
  [][\A w \in Writer :
       Running(w) /\ ~ Running(w)' =>
         LET made == data'[path'] \in Edits!Edited(cli[w].was, cli[w].cmd)
             nothing == data'[path'] = cli[w].was
         IN  /\ cli'[w].pc = "ok" => made /\ cli[w].said
             /\ cli'[w].pc = "failed" => nothing
             /\ cli'[w].pc = "killed" => nothing \/ (made /\ cli[w].said)]_vars
=============================================================================
