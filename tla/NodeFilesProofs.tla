-------------------------- MODULE NodeFilesProofs --------------------------
(***************************************************************************)
(* Theorems about ConfigFile and NodeFiles with one administrator, for any *)
(* names, any first files and any number of subcommands, each of which may *)
(* fail or be killed anywhere.  The configuration is never partial, each   *)
(* change of it is one whole edit, and what a subcommand reports is what   *)
(* it has done.  That holds beside the commands that make certificates and *)
(* while the daemon starts; a daemon that is up has read files that were   *)
(* in order, and a certificate that is reported as issued can be used.     *)
(* (With two editors at a time the first part is false: see the run        *)
(* config_two_writers.)                                                    *)
(***************************************************************************)
EXTENDS NodeFiles, FiniteSetTheorems, WellFoundedInduction, TLAPS

(* Nobody edits the file but one process at a time. *)
OneWriter == \E u : Writer = {u}

Whole(g) == DOMAIN g = {"peers", "users", "sound"}

(* The two names are different files, and that of the configuration holds  *)
(* a whole one.                                                            *)
Files ==
  /\ path \in Inode /\ tmp \in Inode \cup {NoFile} /\ tmp # path
  /\ DOMAIN data = Inode
  /\ Whole(data[path])

(* What process w is about to save is its own edit of what the file holds, *)
(* the temporary file is the one it has opened, and once it has renamed it *)
(* the file holds its edit of what it held when the subcommand began.      *)
Saving(w) ==
  /\ Running(w) => /\ DOMAIN cli[w] = {"pc", "cmd", "was", "said", "cfg", "fd"}
                   /\ cli[w].cmd \in Edits!Command
  /\ cli[w].pc \in {"load", "open", "write", "rename"} => cli[w].was = data[path]
  /\ cli[w].pc \in {"open", "write", "rename"} =>
       Whole(cli[w].cfg) /\ cli[w].cfg \in Edits!Edited(data[path], cli[w].cmd)
  /\ cli[w].pc \in {"open", "write", "rename", "exit"} => cli[w].said
  /\ cli[w].pc \in {"write", "rename"} => cli[w].fd = tmp /\ tmp \in Inode
  /\ cli[w].pc = "rename" => data[tmp] = cli[w].cfg
  /\ cli[w].pc = "exit" => data[path] \in Edits!Edited(cli[w].was, cli[w].cmd)

(* The inductive invariant. *)
IInv == Files /\ DOMAIN cli = Writer /\ \A w \in Writer : Saving(w)

(* An edit of a whole configuration is a whole one.                        *)
LEMMA EditedWhole ==
  ASSUME NEW g, Whole(g), NEW c \in Edits!Command, NEW h \in Edits!Edited(g, c)
  PROVE  Whole(h)
<1>1. \/ c.op = "host add" /\ h \in Edits!HostAdd(g, c.name)
      \/ c.op = "host remove" /\ h \in Edits!HostRemove(g, c.name)
      \/ c.op = "user add" /\ h \in Edits!UserAdd(g, c.name)
      \/ c.op = "user remove" /\ h \in Edits!UserRemove(g, c.name)
  BY DEF Edits!Command, Edits!Edited
<1>2. \/ \E x : h = [g EXCEPT !.peers = x]
      \/ \E x : h = [g EXCEPT !.users = x]
  BY <1>1 DEF Edits!HostAdd, Edits!HostRemove, Edits!UserAdd, Edits!UserRemove
<1>3. QED
  BY <1>2 DEF Whole

LEMMA TornIsNotWhole == ~ Whole(Torn)
<1>1. "torn" \in DOMAIN Torn
  BY DEF Torn
<1>2. QED
  BY <1>1 DEF Whole

LEMMA Inodes == OneWriter => Inode = 1 .. 4
<1> SUFFICES ASSUME OneWriter PROVE Inode = 1 .. 4
  OBVIOUS
<1>1. Cardinality(Writer) = 1
  BY FS_Singleton DEF OneWriter
<1>2. QED
  BY <1>1 DEF Inode

(* While the only writer has nothing open there is a file without a name   *)
(* that the daemon does not read.                                          *)
LEMMA FreshIsFree ==
  ASSUME OneWriter, Files, NEW w \in Writer, cli[w].pc = "open", tmp = NoFile
  PROVE  FreshInode \in Inode \ {path} /\ (daemon.pc = "read" => FreshInode # daemon.fd)
<1>2. UNION {Opened(x) : x \in Writer} = {}
  BY DEF OneWriter, Opened
<1>3. \E i \in Inode : /\ i \notin {path, tmp} \cup UNION {Opened(x) : x \in Writer}
                       /\ daemon.pc = "read" => i # daemon.fd
  <2>1. Inode = 1 .. 4
    BY Inodes
  <2>2. \E i \in {1, 2, 3} : i # path /\ i # daemon.fd
    OBVIOUS
  <2>3. PICK i \in {1, 2, 3} : i # path /\ i # daemon.fd
    BY <2>2
  <2>4. i \in Inode /\ i # tmp
    BY <2>1 DEF NoFile
  <2>5. QED
    BY <1>2, <2>3, <2>4
<1>4. QED
  BY <1>3 DEF FreshInode

-----------------------------------------------------------------------------
LEMMA InitHolds ==
  ASSUME OneWriter, Init
  PROVE  IInv /\ Edits!Init
<1>1. PICK g \in InitConfigs : data = [i \in Inode |-> IF i = 1 THEN g ELSE Torn]
  BY DEF Init
<1>2. Inode = 1 .. 4 /\ path = 1 /\ tmp = NoFile
  BY Inodes DEF Init
<1>3. data[path] = g /\ DOMAIN data = Inode
  BY <1>1, <1>2
<1>4. Whole(g)
  BY InitAssumption DEF Config, Whole
<1>5. Files
  BY <1>2, <1>3, <1>4 DEF Files, NoFile
<1>6. \A w \in Writer : Saving(w)
  BY DEF Init, Done, Saving, Running
<1>7. Edits!Init
  BY <1>3 DEF Edits!Init
<1>8. QED
  BY <1>5, <1>6, <1>7 DEF Init, IInv

(* What a step does to the content of the file: nothing, or one edit.      *)
Effect ==
  \/ data'[path'] = data[path]
  \/ \E c \in Edits!Command : data'[path'] \in Edits!Edited(data[path], c)

(* And what the end of the subcommand of w reports.                        *)
Reported(w) ==
  Running(w) /\ ~ Running(w)' =>
    LET made == data'[path'] \in Edits!Edited(cli[w].was, cli[w].cmd)
        nothing == data'[path'] = cli[w].was
    IN  /\ cli'[w].pc = "ok" => made /\ cli[w].said
        /\ cli'[w].pc = "failed" => nothing
        /\ cli'[w].pc = "killed" => nothing \/ (made /\ cli[w].said)

(* A subcommand that ends without touching the files has told the truth,   *)
(* unless it reports success: that takes the rename.                       *)
LEMMA EndStep ==
  ASSUME NEW w, Running(w), Saving(w), UNCHANGED <<path, data>>,
         \/ cli'[w] = Done("failed") /\ cli[w].pc # "exit"
         \/ cli'[w] = Done("killed")
         \/ cli'[w] = Done("ok") /\ cli[w].pc = "exit"
  PROVE  Saving(w)' /\ Reported(w)
<1>1. cli'[w].pc \in {"failed", "killed", "ok"}
  BY DEF Done
<1>2. Saving(w)'
  BY <1>1 DEF Saving, Running
<1>3. CASE cli[w].pc = "exit"
  <2>1. data'[path'] \in Edits!Edited(cli[w].was, cli[w].cmd) /\ cli[w].said
    BY <1>3 DEF Saving
  <2>2. cli'[w].pc # "failed"
    BY <1>3 DEF Done
  <2>3. QED
    BY <1>2, <2>1, <2>2 DEF Reported
<1>4. CASE cli[w].pc # "exit"
  <2>1. data'[path'] = cli[w].was
    BY <1>4 DEF Running, Saving
  <2>2. cli'[w].pc # "ok"
    BY <1>4 DEF Done
  <2>3. QED
    BY <1>2, <2>1, <2>2 DEF Reported
<1>5. QED
  BY <1>2, <1>3, <1>4

(* A subcommand begins, ends, or prepares its edit.                        *)
LEMMA QuietStep ==
  ASSUME OneWriter, IInv, NEW w \in Writer,
         Begin(w) \/ LoadAndEdit(w) \/ OpenFails(w) \/ Exit(w) \/ Kill(w)
  PROVE  IInv' /\ Effect /\ Reported(w)
<1>1. /\ UNCHANGED <<path, tmp, data, strict, daemon>> /\ Writer = {w}
      /\ DOMAIN cli = Writer /\ DOMAIN cli' = Writer /\ Saving(w)
  BY DEF Begin, LoadAndEdit, OpenFails, Exit, Kill, IInv, OneWriter
<1>2. Files' /\ Effect
  BY <1>1 DEF IInv, Files, Effect, Inode
<1>3. Saving(w)' /\ Reported(w)
  <2>1. CASE Begin(w)
    <3>1. ~ Running(w) /\ \E c \in Edits!Command : cli'[w] = Job(c)
      BY <1>1, <2>1 DEF Begin
    <3>2. QED
      BY <1>1, <3>1 DEF Saving, Reported, Job, Running
  <2>2. CASE LoadAndEdit(w)
    <3> DEFINE cmd == cli[w].cmd
               new == IF data[path] = Torn THEN {} ELSE Edits!Edited(data[path], cmd)
    <3>1. /\ cli[w].pc = "load"
          /\ cli'[w] = IF new = {} THEN Done("failed")
                       ELSE [cli[w] EXCEPT !.pc = "open", !.said = TRUE,
                                           !.cfg = CHOOSE g \in new : TRUE]
      BY <1>1, <2>2 DEF LoadAndEdit
    <3>2. Running(w) /\ cmd \in Edits!Command /\ Whole(data[path])
      BY <3>1 DEF IInv, Saving, Files, Running
    <3> HIDE DEF new
    <3>3. CASE new = {}
      BY <1>1, <3>1, <3>2, <3>3, EndStep
    <3>4. CASE new # {}
      <4>1. PICK g \in new : cli'[w] = [cli[w] EXCEPT !.pc = "open", !.said = TRUE, !.cfg = g]
        BY <3>1, <3>4
      <4>2. g \in Edits!Edited(data[path], cmd) /\ Whole(g)
        BY <3>2, EditedWhole DEF new
      <4>3. DOMAIN cli[w] = {"pc", "cmd", "was", "said", "cfg", "fd"} /\ cli[w].was = data[path]
        BY <1>1, <3>1, <3>2 DEF Saving
      <4>4. /\ DOMAIN cli'[w] = DOMAIN cli[w] /\ cli'[w].pc = "open" /\ cli'[w].said = TRUE
            /\ cli'[w].cfg = g /\ cli'[w].cmd = cmd /\ cli'[w].was = cli[w].was
        BY <4>1, <4>3
      <4> HIDE DEF cmd
      <4>5. Running(w)'
        BY <4>4 DEF Running
      <4>6. Saving(w)'
        BY <1>1, <3>2, <4>2, <4>3, <4>4 DEF Saving
      <4>7. QED
        BY <4>5, <4>6 DEF Reported
    <3>5. QED
      BY <3>3, <3>4
  <2>3. CASE OpenFails(w) \/ Exit(w) \/ Kill(w)
    <3>1. /\ \/ cli'[w] = Done("failed") /\ cli[w].pc = "open"
             \/ cli'[w] = Done("killed")
             \/ cli'[w] = Done("ok") /\ cli[w].pc = "exit"
          /\ Running(w)
      BY <1>1, <2>3 DEF OpenFails, Exit, Kill, Running
    <3>2. QED
      BY <1>1, <3>1, EndStep
  <2>4. QED
    BY <2>1, <2>2, <2>3
<1>4. QED
  BY <1>1, <1>2, <1>3 DEF IInv

(* The temporary file is opened and written; the configuration is not.     *)
LEMMA TmpStep ==
  ASSUME OneWriter, IInv, NEW w \in Writer, OpenTmp(w) \/ WriteTmp(w) \/ WriteFails(w)
  PROVE  IInv' /\ Effect /\ Reported(w)
<1>1. path' = path /\ Writer = {w} /\ DOMAIN cli = Writer /\ DOMAIN cli' = Writer /\ Inode' = Inode
  BY DEF OpenTmp, WriteTmp, WriteFails, IInv, OneWriter, Inode
<1>2. Files /\ Saving(w) /\ NoFile \notin Inode
  BY Inodes DEF IInv, NoFile
<1>3. CASE OpenTmp(w)
  <2>1. PICK i : /\ i = IF tmp = NoFile THEN FreshInode ELSE tmp
                 /\ cli[w].pc = "open" /\ tmp' = i /\ data' = [data EXCEPT ![i] = Torn]
                 /\ cli'[w] = [cli[w] EXCEPT !.pc = "write", !.fd = i]
    BY <1>1, <1>3 DEF OpenTmp
  <2>2. i \in Inode \ {path}
    BY <1>2, <2>1, FreshIsFree DEF Files
  <2>3. data'[path] = data[path] /\ DOMAIN data' = DOMAIN data
    BY <2>1, <2>2
  <2>4. Files' /\ Effect
    BY <1>1, <1>2, <2>1, <2>2, <2>3 DEF Files, Whole, Effect
  <2>5. DOMAIN cli[w] = {"pc", "cmd", "was", "said", "cfg", "fd"}
    BY <1>2, <2>1 DEF Saving, Running
  <2>6. /\ DOMAIN cli'[w] = DOMAIN cli[w] /\ cli'[w].pc = "write" /\ cli'[w].fd = i
        /\ cli'[w].cfg = cli[w].cfg /\ cli'[w].cmd = cli[w].cmd
        /\ cli'[w].was = cli[w].was /\ cli'[w].said = cli[w].said
    BY <2>1, <2>5
  <2>7. Saving(w)' /\ Reported(w)
    BY <1>1, <1>2, <2>1, <2>2, <2>3, <2>6 DEF Saving, Reported, Whole, Running
  <2>8. QED
    BY <1>1, <2>4, <2>7 DEF IInv
<1>4. CASE WriteTmp(w)
  <2>1. /\ cli[w].pc = "write" /\ data' = [data EXCEPT ![cli[w].fd] = cli[w].cfg]
        /\ cli'[w] = [cli[w] EXCEPT !.pc = "rename"] /\ tmp' = tmp
    BY <1>1, <1>4 DEF WriteTmp
  <2>2. /\ cli[w].fd = tmp /\ tmp \in Inode \ {path}
        /\ DOMAIN cli[w] = {"pc", "cmd", "was", "said", "cfg", "fd"}
    BY <1>2, <2>1 DEF Saving, Files, Running
  <2>3. /\ data'[path] = data[path] /\ DOMAIN data' = DOMAIN data /\ data'[tmp] = cli[w].cfg
    BY <1>2, <2>1, <2>2 DEF Files
  <2>4. Files' /\ Effect
    BY <1>1, <1>2, <2>1, <2>3 DEF Files, Whole, Effect
  <2>5. /\ DOMAIN cli'[w] = DOMAIN cli[w] /\ cli'[w].pc = "rename"
        /\ cli'[w].cfg = cli[w].cfg /\ cli'[w].cmd = cli[w].cmd /\ cli'[w].fd = cli[w].fd
        /\ cli'[w].was = cli[w].was /\ cli'[w].said = cli[w].said
    BY <2>1, <2>2
  <2>6. Saving(w)' /\ Reported(w)
    BY <1>1, <1>2, <2>1, <2>2, <2>3, <2>5 DEF Saving, Reported, Whole, Running
  <2>7. QED
    BY <1>1, <2>4, <2>6 DEF IInv
<1>5. CASE WriteFails(w)
  <2>1. /\ cli[w].pc = "write" /\ data' = [data EXCEPT ![cli[w].fd] = Torn]
        /\ cli'[w] = Done("failed") /\ tmp' = tmp
    BY <1>1, <1>5 DEF WriteFails
  <2>2. cli[w].fd = tmp /\ tmp \in Inode \ {path} /\ cli[w].was = data[path]
    BY <1>2, <2>1 DEF Saving, Files
  <2>3. data'[path] = data[path] /\ DOMAIN data' = DOMAIN data
    BY <1>2, <2>1, <2>2 DEF Files
  <2>4. Files' /\ Effect
    BY <1>1, <1>2, <2>1, <2>3 DEF Files, Whole, Effect
  <2>5. Saving(w)' /\ Reported(w)
    BY <1>1, <2>1, <2>2, <2>3 DEF Saving, Reported, Done, Running
  <2>6. QED
    BY <1>1, <2>4, <2>5 DEF IInv
<1>6. QED
  BY <1>3, <1>4, <1>5

(* The rename is the edit.                                                 *)
LEMMA RenameStep ==
  ASSUME OneWriter, IInv, NEW w \in Writer, Rename(w) \/ RenameFails(w)
  PROVE  IInv' /\ Effect /\ Reported(w)
<1>1. /\ Writer = {w} /\ DOMAIN cli = Writer /\ DOMAIN cli' = Writer /\ Inode' = Inode
      /\ data' = data /\ tmp' \in {NoFile, tmp} /\ cli[w].pc = "rename"
  BY DEF Rename, RenameFails, IInv, OneWriter, Inode
<1>2. Files /\ Saving(w) /\ NoFile \notin Inode
  BY Inodes DEF IInv, NoFile
<1>3. CASE Rename(w)
  <2>1. path' = tmp /\ tmp' = NoFile /\ cli'[w] = [cli[w] EXCEPT !.pc = "exit"]
    BY <1>1, <1>3 DEF Rename
  <2>2. /\ tmp \in Inode /\ Whole(data[tmp]) /\ cli[w].cmd \in Edits!Command
        /\ data[tmp] \in Edits!Edited(data[path], cli[w].cmd)
        /\ cli[w].was = data[path] /\ cli[w].said
        /\ DOMAIN cli[w] = {"pc", "cmd", "was", "said", "cfg", "fd"}
    BY <1>1, <1>2 DEF Saving, Running
  <2>3. Files' /\ Effect
    BY <1>1, <1>2, <2>1, <2>2 DEF Files, Whole, Effect
  <2>4. /\ DOMAIN cli'[w] = DOMAIN cli[w] /\ cli'[w].pc = "exit" /\ cli'[w].cmd = cli[w].cmd
        /\ cli'[w].was = cli[w].was /\ cli'[w].said = cli[w].said
    BY <2>1, <2>2
  <2>5. Saving(w)' /\ Reported(w)
    BY <1>1, <2>1, <2>2, <2>4 DEF Saving, Reported, Running
  <2>6. QED
    BY <1>1, <2>3, <2>5 DEF IInv
<1>4. CASE RenameFails(w)
  <2>1. path' = path /\ cli'[w] = Done("failed")
    BY <1>1, <1>4 DEF RenameFails
  <2>2. Files' /\ Effect
    BY <1>1, <1>2, <2>1 DEF Files, Whole, Effect
  <2>3. Saving(w)' /\ Reported(w)
    BY <1>1, <1>2, <2>1, EndStep DEF Running
  <2>4. QED
    BY <1>1, <2>2, <2>3 DEF IInv
<1>5. QED
  BY <1>3, <1>4

(* The daemon only reads.                                                  *)
LEMMA DaemonStep ==
  ASSUME IInv, CheckMode \/ OpenConfig \/ ReadConfig \/ Stop \/ Finished \/ UNCHANGED vars
  PROVE  IInv' /\ Effect /\ UNCHANGED cli
<1>1. UNCHANGED <<path, tmp, data, cli>>
  BY DEF CheckMode, OpenConfig, ReadConfig, Stop, Finished, vars
<1>2. QED
  BY <1>1 DEF IInv, Files, Saving, Whole, Effect, Inode, Running

LEMMA StepHolds ==
  ASSUME OneWriter, IInv, [Next]_vars
  PROVE  IInv' /\ Effect /\ \A w \in Writer : Reported(w)
<1>1. ASSUME NEW w \in Writer,
             \/ Begin(w) \/ LoadAndEdit(w) \/ OpenTmp(w) \/ OpenFails(w)
             \/ WriteTmp(w) \/ WriteFails(w) \/ Rename(w) \/ RenameFails(w)
             \/ Exit(w) \/ Kill(w)
      PROVE  IInv' /\ Effect /\ \A x \in Writer : Reported(x)
  <2>1. IInv' /\ Effect /\ Reported(w)
    BY <1>1, QuietStep, TmpStep, RenameStep
  <2>2. \A x \in Writer : x = w
    BY DEF OneWriter
  <2>3. QED
    BY <2>1, <2>2
<1>2. CASE CheckMode \/ OpenConfig \/ ReadConfig \/ Stop \/ Finished \/ UNCHANGED vars
  BY <1>2, DaemonStep DEF Reported, Running
<1>3. QED
  BY <1>1, <1>2 DEF Next

LEMMA Invariance ==
  ASSUME OneWriter
  PROVE  Spec => []IInv
<1>1. Init => IInv
  BY InitHolds
<1>2. IInv /\ [Next]_vars => IInv'
  BY StepHolds
<1>3. QED
  BY <1>1, <1>2, PTL DEF Spec

-----------------------------------------------------------------------------
(* Whatever process opens the configuration finds a whole one, at any      *)
(* point of Save and whatever has failed or was killed.                    *)
THEOREM NeverTorn ==
  ASSUME OneWriter
  PROVE  Spec => []NeverPartial
<1>1. IInv => NeverPartial
  BY TornIsNotWhole DEF IInv, Files, NeverPartial
<1>2. QED
  BY Invariance, <1>1, PTL

(* Save implements one atomic edit of what the file held, by its rename.   *)
THEOREM Implements ==
  ASSUME OneWriter
  PROVE  Spec => EditsAreAtomic
<1>1. Init => Edits!Init
  BY InitHolds
<1>2. IInv /\ [Next]_vars => [Edits!Next]_(data[path])
  BY StepHolds DEF Effect, Edits!Next, Edits!Edit
<1>3. QED
  BY Invariance, <1>1, <1>2, PTL DEF Spec, EditsAreAtomic, Edits!Spec

(* What can be told from the end of a subcommand about all that it did: a  *)
(* status of 0 says that the file now holds its edit of what it held when  *)
(* the subcommand began, an error that it holds what it held, and one that *)
(* is killed has made all of its edit or none, also when the kill comes    *)
(* between the rename and the exit.                                        *)
THEOREM TellsTruly ==
  ASSUME OneWriter
  PROVE  Spec => ReportsTruly
<1> DEFINE All ==
  \A w \in Writer :
    Running(w) /\ ~ Running(w)' =>
      LET made == data'[path'] \in Edits!Edited(cli[w].was, cli[w].cmd)
          nothing == data'[path'] = cli[w].was
      IN  /\ cli'[w].pc = "ok" => made /\ cli[w].said
          /\ cli'[w].pc = "failed" => nothing
          /\ cli'[w].pc = "killed" => nothing \/ (made /\ cli[w].said)
<1>1. IInv /\ [Next]_vars => [All]_vars
  BY StepHolds DEF Reported
<1>2. QED
  BY Invariance, <1>1, PTL DEF Spec, ReportsTruly

-----------------------------------------------------------------------------
(* RemoveFirst finds the place of what it removes ...                      *)
LEMMA FirstIndex ==
  ASSUME NEW S, NEW s \in Seq(S), NEW e \in ToSet(s)
  PROVE  SelectInSeq(s, LAMBDA v : v = e) \in 1 .. Len(s)
<1> DEFINE I == {i \in 1 .. Len(s) : s[i] = e}
<1>1. I # {}
  BY DEF ToSet
<1>2. \E x \in I : \A y \in I : ~ (<<y, x>> \in OpToRel(<, Nat))
  <2>1. I \subseteq Nat
    OBVIOUS
  <2> HIDE DEF I
  <2>2. QED
    BY <1>1, <2>1, NatLessThanWellFounded, WFMin
<1>3. \E x \in I : \A y \in I : x =< y
  <2>1. PICK x \in I : \A y \in I : ~ (<<y, x>> \in OpToRel(<, Nat))
    BY <1>2
  <2>2. \A y \in I : <<y, x>> \in Nat \X Nat
    OBVIOUS
  <2>3. \A y \in I : ~ (y < x)
    BY <2>1, <2>2 DEF OpToRel
  <2>4. QED
    BY <2>3
<1>4. Min(I) \in I
  <2> HIDE DEF I
  <2>1. QED
    BY <1>3 DEF Min
<1>5. SelectInSeq(s, LAMBDA v : v = e) = Min(I)
  BY <1>1 DEF SelectInSeq
<1>6. QED
  BY <1>4, <1>5

(* ... and keeps everything else, in order.                                *)
LEMMA RemovedOne ==
  ASSUME NEW S, NEW s \in Seq(S), NEW i \in 1 .. Len(s)
  PROVE  /\ RemoveAt(s, i) \in Seq(S)
         /\ Len(RemoveAt(s, i)) = Len(s) - 1
         /\ \A j \in 1 .. Len(s) - 1 : RemoveAt(s, i)[j] = s[IF j < i THEN j ELSE j + 1]
<1> DEFINE l == SubSeq(s, 1, i - 1)
           r == SubSeq(s, i + 1, Len(s))
<1>1. l \in Seq(S) /\ Len(l) = i - 1 /\ \A j \in 1 .. i - 1 : l[j] = s[j]
  OBVIOUS
<1>2. r \in Seq(S) /\ Len(r) = Len(s) - i /\ \A j \in 1 .. Len(s) - i : r[j] = s[i + j]
  OBVIOUS
<1> HIDE DEF l, r
<1>3. l \o r \in Seq(S) /\ Len(l \o r) = Len(s) - 1
  <2>1. l \o r \in Seq(S)
    BY <1>1, <1>2
  <2>2. Len(l) \in Nat /\ Len(r) \in Nat /\ Len(s) \in Nat
    BY <1>1, <1>2
  <2>3. Len(l \o r) = Len(l) + Len(r)
    <3>1. l \in Seq(S) /\ r \in Seq(S)
      BY <1>1, <1>2
    <3>2. QED
      BY <3>1
  <2>4. QED
    BY <1>1, <1>2, <2>1, <2>2, <2>3
<1>4. \A j \in 1 .. Len(s) - 1 : (l \o r)[j] = s[IF j < i THEN j ELSE j + 1]
  BY <1>1, <1>2
<1>5. QED
  BY <1>3, <1>4 DEF RemoveAt, l, r

(* ConfigEdits and ConfigFile mean the same by it.                         *)
LEMMA SameRemoval ==
  ASSUME NEW s, NEW e
  PROVE  Edits!RemoveFirst(s, e) = RemoveFirst(s, e)
BY DEF Edits!RemoveFirst, RemoveFirst, Edits!RemoveAt, RemoveAt, Edits!SelectInSeq,
       SelectInSeq, Edits!Min, Min

(* No edit of a configuration adds a peer whose name is there already.     *)
LEMMA EditKeeps ==
  ASSUME NEW g, Whole(g), g.peers \in Seq(Name),
         NEW c \in Edits!Command, NEW h \in Edits!Edited(g, c)
  PROVE  h.peers \in Seq(Name) /\ (Valid(g) => Valid(h))
<1>1. \/ h \in Edits!HostAdd(g, c.name)
      \/ h \in Edits!HostRemove(g, c.name)
      \/ h \in Edits!UserAdd(g, c.name)
      \/ h \in Edits!UserRemove(g, c.name)
  BY DEF Edits!Command, Edits!Edited
<1>2. c.name \in Name
  BY DEF Edits!Command
<1>3. CASE h \in Edits!HostAdd(g, c.name)
  <2>1. /\ h = [g EXCEPT !.peers = Append(@, c.name)]
        /\ c.name \notin ToSet(g.peers)
    BY <1>3 DEF Edits!HostAdd, Edits!ToSet, ToSet
  <2>2. h.peers = Append(g.peers, c.name) /\ h.sound = g.sound
    BY <2>1 DEF Whole
  <2>3. IsInjective(g.peers) => IsInjective(h.peers)
    BY <1>2, <2>1, <2>2 DEF IsInjective, ToSet
  <2>4. QED
    BY <1>2, <2>2, <2>3 DEF Valid
<1>4. CASE h \in Edits!HostRemove(g, c.name)
  <2>1. /\ h = [g EXCEPT !.peers = RemoveFirst(@, c.name)]
        /\ c.name \in ToSet(g.peers)
    BY <1>4, SameRemoval DEF Edits!HostRemove, Edits!ToSet, ToSet
  <2>2. h.peers = RemoveFirst(g.peers, c.name) /\ h.sound = g.sound
    BY <2>1 DEF Whole
  <2> DEFINE i == SelectInSeq(g.peers, LAMBDA v : v = c.name)
  <2>3. i \in 1 .. Len(g.peers)
    BY <2>1, FirstIndex
  <2>4. \E j \in 1 .. Len(g.peers) : g.peers[j] = c.name
    BY <2>1 DEF ToSet
  <2>5. h.peers = RemoveAt(g.peers, i)
    BY <2>2, <2>4 DEF RemoveFirst
  <2> HIDE DEF i
  <2>6. /\ h.peers \in Seq(Name) /\ Len(h.peers) = Len(g.peers) - 1
        /\ \A j \in 1 .. Len(g.peers) - 1 : h.peers[j] = g.peers[IF j < i THEN j ELSE j + 1]
    BY <2>3, <2>5, RemovedOne
  <2>7. IsInjective(g.peers) => IsInjective(h.peers)
    <3> SUFFICES ASSUME IsInjective(g.peers),
                        NEW a \in 1 .. Len(g.peers) - 1, NEW b \in 1 .. Len(g.peers) - 1,
                        h.peers[a] = h.peers[b]
                 PROVE  a = b
      BY <2>6 DEF IsInjective
    <3> DEFINE at(j) == IF j < i THEN j ELSE j + 1
    <3>1. at(a) \in DOMAIN g.peers /\ at(b) \in DOMAIN g.peers
      BY <2>3
    <3>2. g.peers[at(a)] = g.peers[at(b)]
      BY <2>6
    <3>3. at(a) = at(b)
      BY <3>1, <3>2 DEF IsInjective
    <3>4. QED
      BY <2>3, <3>3
  <2>8. QED
    BY <2>2, <2>6, <2>7 DEF Valid
<1>5. CASE h \in Edits!UserAdd(g, c.name) \/ h \in Edits!UserRemove(g, c.name)
  <2>1. h.peers = g.peers /\ h.sound = g.sound
    BY <1>5 DEF Edits!UserAdd, Edits!UserRemove, Whole
  <2>2. QED
    BY <2>1 DEF Valid
<1>6. QED
  BY <1>1, <1>3, <1>4, <1>5

(* The editing subcommands do not validate what they save, and still never *)
(* turn a configuration that the daemon accepts into one that it refuses.  *)
THEOREM KeepsValid ==
  ASSUME OneWriter
  PROVE  Spec => StaysValid
<1> DEFINE Named == data[path].peers \in Seq(Name)
<1>1. Init => Named
  <2> SUFFICES ASSUME Init PROVE Named
    OBVIOUS
  <2>1. data[path] \in Config
    BY InitHolds, InitAssumption DEF Edits!Init
  <2>2. QED
    BY <2>1 DEF Config
<1>2. IInv /\ Named /\ [Next]_vars => Named' /\ (Valid(data[path]) => Valid(data'[path']))
  <2> SUFFICES ASSUME IInv, Named, [Next]_vars
               PROVE  Named' /\ (Valid(data[path]) => Valid(data'[path']))
    OBVIOUS
  <2>1. Whole(data[path])
    BY DEF IInv, Files
  <2>2. CASE data'[path'] = data[path]
    BY <2>2 DEF Valid
  <2>3. CASE \E c \in Edits!Command : data'[path'] \in Edits!Edited(data[path], c)
    BY <2>1, <2>3, EditKeeps
  <2>4. QED
    BY <2>2, <2>3, StepHolds DEF Effect
<1>3. QED
  BY Invariance, <1>1, <1>2, PTL DEF Spec, StaysValid

-----------------------------------------------------------------------------
(* For the configuration a step of the node is one of ConfigFile or none.  *)
LEMMA ConfigStep ==
  ASSUME [NodeNext]_nodeVars
  PROVE  [Next]_vars \/ UNCHANGED <<path, tmp, data, strict, cli>>
BY DEF NodeNext, nodeVars, BeginPKI, StepPKI, EditConfig, ReadFiles, ReadCA, ReadHostCert,
       ReadHostKey, ReloadCert, ReloadKey, Restart, NodeFinished, GiveUp, StartUnchanged,
       Next, vars

(* So the invariant of ConfigFile survives every step of the node ...      *)
LEMMA NodeStepHolds ==
  ASSUME OneWriter, IInv, [NodeNext]_nodeVars
  PROVE  IInv' /\ Effect /\ \A w \in Writer : Reported(w)
<1>1. CASE [Next]_vars
  BY <1>1, StepHolds
<1>2. CASE UNCHANGED <<path, tmp, data, strict, cli>>
  BY <1>2 DEF IInv, Files, Saving, Whole, Effect, Reported, Inode, Running
<1>3. QED
  BY <1>1, <1>2, ConfigStep

(* ... and holds of the node.                                              *)
LEMMA NodeInvariance ==
  ASSUME OneWriter
  PROVE  NodeSpec => []IInv
<1>1. NodeInit => IInv
  BY InitHolds DEF NodeInit
<1>2. IInv /\ [NodeNext]_nodeVars => IInv'
  BY NodeStepHolds
<1>3. QED
  BY <1>1, <1>2, PTL DEF NodeSpec

(* Save implements one atomic edit also while certificates are made and    *)
(* the daemon starts.                                                      *)
THEOREM NodeEditsAtomic ==
  ASSUME OneWriter
  PROVE  NodeSpec => []NeverPartial /\ EditsAreAtomic
<1>1. NodeInit => Edits!Init
  BY InitHolds DEF NodeInit
<1>2. IInv /\ [NodeNext]_nodeVars => [Edits!Next]_(data[path])
  BY NodeStepHolds DEF Effect, Edits!Next, Edits!Edit
<1>3. IInv => NeverPartial
  BY TornIsNotWhole DEF IInv, Files, NeverPartial
<1>4. QED
  BY NodeInvariance, <1>1, <1>2, <1>3, PTL DEF NodeSpec, EditsAreAtomic, Edits!Spec

-----------------------------------------------------------------------------
(* The mode of the configuration, from CheckMode on: a file that comes to  *)
(* have its name has been created with mode 0600.                          *)
Modes ==
  /\ DOMAIN strict = Inode
  /\ tmp # NoFile => strict[tmp] = TRUE
  /\ daemon.pc = "open" => strict[path] = TRUE
  /\ daemon.pc = "read" => daemon.fd \in Inode /\ strict[daemon.fd] = TRUE
  /\ daemon.pc = "up" => daemon.strict = TRUE /\ Valid(daemon.cfg)

(* How far runServe has come, and what it has read. *)
Booted ==
  /\ boot.pc # "off" => daemon.pc = "up"
  /\ boot.pc \in {"cert", "key", "listen"} => boot.pool.is = "cert"
  /\ boot.pc = "key" => DOMAIN boot = {"pc", "pool", "cert"}
  /\ boot.pc = "listen" => boot.cert.cn = Self

(* Every step of ConfigFile keeps to these modes. *)
LEMMA ModesStep ==
  ASSUME OneWriter, IInv, Modes, [Next]_vars
  PROVE  Modes'
<1>1. Files
  BY DEF IInv
<1>2. CASE \E w \in Writer : OpenTmp(w)
  <2>1. PICK w \in Writer : OpenTmp(w)
    BY <1>2
  <2>2. PICK i : /\ i = IF tmp = NoFile THEN FreshInode ELSE tmp
                 /\ tmp' = i /\ strict' = [strict EXCEPT ![i] = @ \/ tmp = NoFile]
                 /\ UNCHANGED <<path, daemon>> /\ cli[w].pc = "open"
    BY <2>1 DEF OpenTmp
  <2>3. i \in Inode
    BY <1>1, <2>2, FreshIsFree DEF Files
  <2>4. strict'[i] = TRUE
    <3>1. strict'[i] = (strict[i] \/ tmp = NoFile)
      BY <2>2, <2>3 DEF Modes
    <3>2. strict[i] = TRUE \/ tmp = NoFile
      BY <2>2 DEF Modes
    <3>3. QED
      BY <3>1, <3>2, Zenon
  <2>5. \A j \in Inode \ {i} : strict'[j] = strict[j]
    BY <2>2 DEF Modes
  <2>6. DOMAIN strict' = Inode /\ Inode' = Inode
    BY <2>2 DEF Modes, Inode
  <2>7. path \in Inode
    BY <1>1 DEF Files
  <2>8. QED
    BY <2>2, <2>4, <2>5, <2>6, <2>7 DEF Modes, Valid
<1>3. CASE \E w \in Writer : \/ Begin(w) \/ LoadAndEdit(w) \/ OpenFails(w) \/ WriteTmp(w)
                             \/ WriteFails(w) \/ Rename(w) \/ RenameFails(w)
                             \/ Exit(w) \/ Kill(w)
  <2>1. strict' = strict /\ daemon' = daemon /\ Inode' = Inode
    BY <1>3 DEF Begin, LoadAndEdit, OpenFails, WriteTmp, WriteFails, Rename, RenameFails,
                Exit, Kill, Inode
  <2>2. \/ path' = path /\ tmp' \in {tmp, NoFile}
        \/ path' = tmp /\ tmp # NoFile /\ tmp' = NoFile
    BY <1>3 DEF Begin, LoadAndEdit, OpenFails, WriteTmp, WriteFails, Rename, RenameFails,
                Exit, Kill
  <2>3. QED
    BY <2>1, <2>2 DEF Modes, Valid
<1>4. CASE CheckMode \/ OpenConfig \/ ReadConfig \/ Stop
  <2>1. UNCHANGED <<path, tmp, strict, data>> /\ path \in Inode /\ Inode' = Inode
    BY <1>1, <1>4 DEF CheckMode, OpenConfig, ReadConfig, Stop, Files, Inode
  <2>2. CASE CheckMode
    BY <2>1, <2>2 DEF CheckMode, Modes
  <2>3. CASE OpenConfig
    BY <2>1, <2>3 DEF OpenConfig, Modes
  <2>4. CASE ReadConfig
    <3>1. daemon.fd \in Inode /\ strict[daemon.fd] = TRUE
      BY <2>4 DEF ReadConfig, Modes
    <3>2. \/ daemon' = [pc |-> "up", cfg |-> data[daemon.fd], strict |-> TRUE]
             /\ Valid(data[daemon.fd])
          \/ daemon' = [pc |-> "down"]
      BY <3>1, <2>4, Zenon DEF ReadConfig
    <3>3. QED
      BY <2>1, <3>2 DEF Modes, Valid
  <2>5. CASE Stop
    BY <2>1, <2>5 DEF Stop, Modes
  <2>6. QED
    BY <1>4, <2>2, <2>3, <2>4, <2>5
<1>5. CASE Finished \/ UNCHANGED vars
  BY <1>5 DEF Finished, vars, Modes, Inode, Valid
<1>6. QED
  BY <1>2, <1>3, <1>4, <1>5 DEF Next

(* Whatever the daemon does next, it goes by what it has found.            *)
LEMMA BootedStep ==
  ASSUME Booted, [NodeNext]_nodeVars
  PROVE  Booted'
<1>1. CASE ReadFiles
  <2>1. daemon.pc # "up"
    BY <1>1 DEF ReadFiles, CheckMode, OpenConfig, ReadConfig
  <2>2. boot.pc = "off"
    BY <2>1 DEF Booted
  <2>3. CASE daemon'.pc = "up"
    BY <1>1, <2>3 DEF ReadFiles, Booted
  <2>4. CASE daemon'.pc # "up"
    <3>1. boot' = boot
      BY <1>1, <2>4 DEF ReadFiles
    <3>2. QED
      BY <2>2, <3>1 DEF Booted
  <2>5. QED
    BY <2>3, <2>4
<1>2. CASE ReadCA
  BY <1>2 DEF ReadCA, GiveUp, Off, Booted
<1>3. CASE ReadHostCert
  BY <1>3 DEF ReadHostCert, GiveUp, Off, Booted
<1>4. CASE ReadHostKey
  BY <1>4 DEF ReadHostKey, GiveUp, Off, Booted
<1>5. CASE Restart
  BY <1>5 DEF Restart, GiveUp, Off, Booted
<1>6. CASE boot' = boot /\ daemon' = daemon
  BY <1>6 DEF Booted
<1>7. CASE \/ BeginPKI \/ StepPKI \/ NodeFinished \/ UNCHANGED nodeVars
           \/ \E l \in TLSServer : ReloadCert(l) \/ ReloadKey(l)
  BY <1>6, <1>7 DEF BeginPKI, StepPKI, NodeFinished, nodeVars, vars, ReloadCert, ReloadKey
<1>8. CASE \E w \in Writer : EditConfig(w)
  <2>1. boot' = boot /\ daemon' = daemon
    BY <1>8 DEF EditConfig, Begin, LoadAndEdit, OpenTmp, OpenFails, WriteTmp, WriteFails,
                Rename, RenameFails, Exit, Kill
  <2>2. QED
    BY <1>6, <2>1
<1>9. QED
  BY <1>1, <1>2, <1>3, <1>4, <1>5, <1>7, <1>8 DEF NodeNext

(* The modes also survive the steps that are not of ConfigFile.            *)
LEMMA NodeModesStep ==
  ASSUME OneWriter, IInv, Modes, [NodeNext]_nodeVars
  PROVE  Modes'
<1>1. CASE [Next]_vars
  BY <1>1, ModesStep
<1>2. CASE UNCHANGED <<path, tmp, data, strict, cli>>
  <2>1. daemon' = daemon \/ daemon' = [pc |-> "down"] \/ [Next]_vars
    BY DEF NodeNext, nodeVars, BeginPKI, StepPKI, EditConfig, ReadFiles, ReadCA, ReadHostCert,
           ReadHostKey, ReloadCert, ReloadKey, Restart, NodeFinished, GiveUp, Next, vars
  <2>2. Inode' = Inode
    BY DEF Inode
  <2>3. CASE daemon' = daemon
    BY <1>2, <2>2, <2>3 DEF Modes, Valid
  <2>4. CASE daemon' = [pc |-> "down"]
    BY <1>2, <2>2, <2>4 DEF Modes
  <2>5. QED
    BY <1>1, <2>1, <2>3, <2>4
<1>3. QED
  BY <1>1, <1>2, ConfigStep

(* A daemon that is up has read a valid configuration from a file of mode  *)
(* 0600, a CA, and a certificate with its own name, whatever happened to   *)
(* the files between its looks at them.                                    *)
THEOREM NodeIsUpInOrder ==
  ASSUME OneWriter
  PROVE  NodeSpec => []UpInOrder
<1>1. NodeInit => IInv /\ Modes /\ Booted
  <2>1. NodeInit => IInv
    BY InitHolds DEF NodeInit
  <2>2. NodeInit => Modes /\ Booted
    BY DEF NodeInit, Init, Off, Modes, Booted
  <2>3. QED
    BY <2>1, <2>2
<1>2. IInv /\ Modes /\ Booted /\ [NodeNext]_nodeVars => IInv' /\ Modes' /\ Booted'
  BY NodeStepHolds, NodeModesStep, BootedStep
<1>3. Modes /\ Booted => UpInOrder
  BY DEF Modes, Booted, UpInOrder, IsUp
<1>4. QED
  BY <1>1, <1>2, <1>3, PTL DEF NodeSpec

-----------------------------------------------------------------------------
(* The two files that a pki subcommand writes, and what it wants there.    *)
CertPath(cmd) == IF cmd.op = "init" THEN CACert ELSE HostCert
KeyPath(cmd) == IF cmd.op = "init" THEN CAKey ELSE HostKey

Issued(cmd, c, ca) ==
  /\ c.is = "cert"
  /\ cmd.op # "init" => c.cn = cmd.host /\ Verifies(c, ca)

(* The certificate and then the key are still to be written, or the        *)
(* certificate has been and the key is still to be.                        *)
ToDo(cmd, todo, c, f) ==
  /\ Issued(cmd, c, f[CACert])
  /\ \/ todo = << <<CertPath(cmd), c>>, <<KeyPath(cmd), Key(c.pub)>> >>
     \/ todo = << <<KeyPath(cmd), Key(c.pub)>> >> /\ f[CertPath(cmd)] = c

(* What has been written is there until its mode has been set.             *)
Pending ==
  pki.pc \in {"open", "write", "chmod"} =>
    /\ DOMAIN pki = {"pc", "cmd", "todo"}
    /\ \E c : ToDo(pki.cmd, pki.todo, c, file)
    /\ pki.pc = "chmod" => file[Target] = Head(pki.todo)[2]

PInv ==
  /\ DOMAIN file = Path /\ DOMAIN proper = Path
  /\ pki.pc \in {"read cert", "read key"} => pki.cmd.op = "cert"
  /\ pki.pc = "read key" => pki.ca = file[CACert]
  /\ Pending

(* IssuesTruly of one step. *)
Truly ==
  pki.pc # "ok" /\ pki'.pc = "ok" =>
    IF pki.cmd.op = "init"
    THEN Paired(file'[CACert], file'[CAKey]) /\ proper'[CAKey]
    ELSE /\ Paired(file'[HostCert], file'[HostKey]) /\ proper'[HostKey]
         /\ file'[HostCert].cn = pki.cmd.host
         /\ Verifies(file'[HostCert], file'[CACert])

(* The beginning of a subcommand, up to where it has its certificate.      *)
LEMMA PKIBegins ==
  ASSUME PInv, NEW n, BeginInit(n) \/ \E h \in Host : BeginCert(h, n)
  PROVE  PInv' /\ Truly
<1>1. CASE BeginInit(n)
  <2>1. file' = file /\ proper' = proper /\ Path' = Path
    BY <1>1 DEF BeginInit, Path, CACert, CAKey, HostCert, HostKey
  <2> DEFINE cmd == [op |-> "init"]
             c == GenerateCA(n)
             todo == << <<CACert, c>>, <<CAKey, Key(c.pub)>> >>
  <2>2. pki' = [pc |-> "open", cmd |-> cmd, todo |-> todo]
    BY <1>1 DEF BeginInit, ToWrite
  <2>3. ToDo(cmd, todo, c, file')
    BY DEF ToDo, Issued, GenerateCA, Cert, CertPath, KeyPath
  <2> HIDE DEF cmd, c, todo
  <2>4. Pending'
    BY <2>2, <2>3 DEF Pending
  <2>5. QED
    BY <2>1, <2>2, <2>4 DEF PInv, Truly
<1>2. CASE \E h \in Host : BeginCert(h, n)
  <2>1. PICK h \in Host : BeginCert(h, n)
    BY <1>2
  <2>2. pki' = [pc |-> "read cert", cmd |-> [op |-> "cert", host |-> h], key |-> KeyOf(n)]
        /\ file' = file /\ proper' = proper
    BY <2>1 DEF BeginCert
  <2>3. pki'.pc = "read cert" /\ pki'.cmd.op = "cert"
    BY <2>2
  <2>4. QED
    BY <2>2, <2>3 DEF PInv, Pending, Truly, Path
<1>3. QED
  BY <1>1, <1>2

(* The CA is read in two steps, between which nobody writes it.            *)
LEMMA PKIReads ==
  ASSUME PInv, ReadCACert \/ ReadCAKey
  PROVE  PInv' /\ Truly
<1>1. CASE ReadCACert
  <2>1. file' = file /\ proper' = proper /\ pki.cmd.op = "cert"
    BY <1>1 DEF ReadCACert, PInv
  <2>2. \/ pki' = [pc |-> "failed"]
        \/ pki' = [pc |-> "read key", cmd |-> pki.cmd, key |-> pki.key, ca |-> file[CACert]]
    BY <1>1 DEF ReadCACert, Over
  <2>3. CASE pki' = [pc |-> "failed"]
    BY <2>1, <2>3 DEF PInv, Pending, Truly, Path
  <2>4. CASE pki' = [pc |-> "read key", cmd |-> pki.cmd, key |-> pki.key, ca |-> file[CACert]]
    <3>1. pki'.pc = "read key" /\ pki'.cmd.op = "cert" /\ pki'.ca = file'[CACert]
      BY <2>1, <2>4
    <3>2. QED
      BY <2>1, <3>1 DEF PInv, Pending, Truly, Path
  <2>5. QED
    BY <2>2, <2>3, <2>4
<1>2. CASE ReadCAKey
  <2>1. file' = file /\ proper' = proper /\ pki.cmd.op = "cert" /\ pki.ca = file[CACert]
    BY <1>2 DEF ReadCAKey, PInv
  <2> DEFINE c == GenerateHostCert(pki.cmd.host, pki.key, file[CAKey])
             todo == << <<HostCert, c>>, <<HostKey, Key(c.pub)>> >>
  <2>2. CASE Paired(pki.ca, file[CAKey])
    <3>1. pki' = [pc |-> "open", cmd |-> pki.cmd, todo |-> todo]
      BY <1>2, <2>2 DEF ReadCAKey, ToWrite
    <3>2. Issued(pki.cmd, c, file[CACert])
      BY <2>1, <2>2 DEF Issued, GenerateHostCert, Cert, Verifies, Paired, Decodes
    <3>3. ToDo(pki.cmd, todo, c, file')
      BY <2>1, <3>2 DEF ToDo, CertPath, KeyPath
    <3> HIDE DEF c, todo
    <3>4. Pending'
      BY <3>1, <3>3 DEF Pending
    <3>5. QED
      BY <2>1, <3>1, <3>4 DEF PInv, Truly, Path
  <2>3. CASE ~ Paired(pki.ca, file[CAKey])
    <3>1. pki' = [pc |-> "failed"]
      BY <1>2, <2>3 DEF ReadCAKey, Over
    <3>2. QED
      BY <2>1, <3>1 DEF PInv, Pending, Truly, Path
  <2>4. QED
    BY <2>2, <2>3
<1>3. QED
  BY <1>1, <1>2

(* What a subcommand that has its certificate wants to write next.         *)
LEMMA Next2Write ==
  ASSUME PInv, pki.pc \in {"open", "write", "chmod"},
         NEW c, ToDo(pki.cmd, pki.todo, c, file)
  PROVE  /\ pki.todo # <<>> /\ Target \in Path
         /\ \/ Target = CertPath(pki.cmd) /\ Head(pki.todo)[2] = c
               /\ Tail(pki.todo) = << <<KeyPath(pki.cmd), Key(c.pub)>> >>
            \/ /\ Target = KeyPath(pki.cmd) /\ Head(pki.todo)[2] = Key(c.pub)
               /\ Tail(pki.todo) = <<>> /\ file[CertPath(pki.cmd)] = c
         /\ CertPath(pki.cmd) # KeyPath(pki.cmd)
         /\ CertPath(pki.cmd) \in Path
         /\ pki.cmd.op # "init" => CACert \notin {CertPath(pki.cmd), KeyPath(pki.cmd)}
<1>1. CASE pki.todo = << <<CertPath(pki.cmd), c>>, <<KeyPath(pki.cmd), Key(c.pub)>> >>
  <2>1. Head(pki.todo) = <<CertPath(pki.cmd), c>>
        /\ Tail(pki.todo) = << <<KeyPath(pki.cmd), Key(c.pub)>> >>
    BY <1>1
  <2>2. QED
    BY <1>1, <2>1 DEF Target, CertPath, KeyPath, Path, CACert, CAKey, HostCert, HostKey
<1>2. CASE /\ pki.todo = << <<KeyPath(pki.cmd), Key(c.pub)>> >>
           /\ file[CertPath(pki.cmd)] = c
  <2>1. Head(pki.todo) = <<KeyPath(pki.cmd), Key(c.pub)>> /\ Tail(pki.todo) = <<>>
    BY <1>2
  <2>2. QED
    BY <1>2, <2>1 DEF Target, CertPath, KeyPath, Path, CACert, CAKey, HostCert, HostKey
<1>3. QED
  BY <1>1, <1>2 DEF ToDo

(* The files are written one after the other, and only the last step       *)
(* reports success.                                                        *)
LEMMA PKIWrites ==
  ASSUME PInv, OpenOut \/ WriteOut \/ ChmodOut
  PROVE  PInv' /\ Truly
<1>1. PICK c : ToDo(pki.cmd, pki.todo, c, file)
  BY DEF PInv, Pending, OpenOut, WriteOut, ChmodOut
<1>2. pki.pc \in {"open", "write", "chmod"} /\ DOMAIN pki = {"pc", "cmd", "todo"}
  BY DEF PInv, Pending, OpenOut, WriteOut, ChmodOut
<1>3. Issued(pki.cmd, c, file[CACert])
  BY <1>1 DEF ToDo
<1> DEFINE certPath == CertPath(pki.cmd)
           keyPath == KeyPath(pki.cmd)
<1>4. /\ Target \in Path /\ certPath # keyPath /\ certPath \in Path
      /\ pki.cmd.op # "init" => CACert \notin {certPath, keyPath}
  BY <1>1, <1>2, Next2Write
<1>5. \/ /\ Target = certPath /\ Head(pki.todo)[2] = c
         /\ Tail(pki.todo) = << <<keyPath, Key(c.pub)>> >>
      \/ /\ Target = keyPath /\ Head(pki.todo)[2] = Key(c.pub)
         /\ Tail(pki.todo) = <<>> /\ file[certPath] = c
  BY <1>1, <1>2, Next2Write
<1>6. CASE OpenOut \/ WriteOut
  <2>1. PICK new : file' = [file EXCEPT ![Target] = new]
    BY <1>6 DEF OpenOut, WriteOut
  <2>2. /\ pki'.cmd = pki.cmd /\ pki'.todo = pki.todo /\ DOMAIN pki' = {"pc", "cmd", "todo"}
        /\ \/ pki'.pc = "write"
           \/ pki'.pc = "chmod" /\ WriteOut
    BY <1>2, <1>6 DEF OpenOut, WriteOut
  <2>3. DOMAIN file' = Path /\ DOMAIN proper' = Path /\ Path' = Path
    BY <1>6 DEF OpenOut, WriteOut, PInv, Path, CACert, CAKey, HostCert, HostKey
  <2>4. Issued(pki.cmd, c, file'[CACert])
    BY <1>3, <1>4, <1>5, <2>1 DEF Issued
  <2>5. ToDo(pki.cmd, pki.todo, c, file')
    BY <1>1, <1>4, <1>5, <2>1, <2>4 DEF ToDo
  <2>6. WriteOut => file'[Target] = Head(pki.todo)[2]
    BY <1>4 DEF WriteOut, PInv
  <2>7. Target' = Target
    BY <2>2 DEF Target
  <2>8. Pending'
    BY <2>2, <2>5, <2>6, <2>7 DEF Pending
  <2>9. QED
    BY <2>2, <2>3, <2>8 DEF PInv, Truly
<1>7. CASE ChmodOut
  <2>1. file' = file /\ proper' = [proper EXCEPT ![Target] = TRUE] /\ Path' = Path
    BY <1>7 DEF ChmodOut, Path, CACert, CAKey, HostCert, HostKey
  <2>2. DOMAIN file' = Path /\ DOMAIN proper' = Path
    BY <2>1 DEF PInv
  <2>3. file[Target] = Head(pki.todo)[2]
    BY <1>7 DEF ChmodOut, PInv, Pending
  <2>4. CASE /\ Target = certPath /\ Head(pki.todo)[2] = c
             /\ Tail(pki.todo) = << <<keyPath, Key(c.pub)>> >>
    <3>1. pki' = [pki EXCEPT !.pc = "open", !.todo = << <<keyPath, Key(c.pub)>> >>]
      <4>1. << <<keyPath, Key(c.pub)>> >> # <<>>
        OBVIOUS
      <4>2. pki' = Written(<< <<keyPath, Key(c.pub)>> >>)
        BY <1>7, <2>4 DEF ChmodOut
      <4>3. QED
        BY <4>1, <4>2 DEF Written
    <3>2. /\ pki'.pc = "open" /\ pki'.cmd = pki.cmd /\ DOMAIN pki' = {"pc", "cmd", "todo"}
          /\ pki'.todo = << <<keyPath, Key(c.pub)>> >>
      BY <1>2, <3>1
    <3>3. ToDo(pki'.cmd, pki'.todo, c, file')
      BY <1>3, <2>1, <2>3, <2>4, <3>2 DEF ToDo
    <3>4. Pending'
      BY <3>2, <3>3 DEF Pending
    <3>5. QED
      BY <2>1, <2>2, <3>2, <3>4 DEF PInv, Truly
  <2>5. CASE /\ Target = keyPath /\ Head(pki.todo)[2] = Key(c.pub)
             /\ Tail(pki.todo) = <<>> /\ file[certPath] = c
    <3>1. pki' = [pc |-> "ok"]
      BY <1>7, <2>5 DEF ChmodOut, Written, Over
    <3>2. PInv'
      BY <2>1, <2>2, <3>1 DEF PInv, Pending
    <3>3. file'[certPath] = c /\ file'[keyPath] = Key(c.pub) /\ proper'[keyPath] = TRUE
      BY <2>1, <2>3, <2>5, <1>4 DEF PInv
    <3>4. Paired(file'[certPath], file'[keyPath])
      BY <1>3, <3>3 DEF Paired, Decodes, Issued, Key
    <3>5. Truly
      BY <1>3, <2>1, <3>3, <3>4 DEF Truly, Issued, CertPath, KeyPath
    <3>6. QED
      BY <3>2, <3>5
  <2>6. QED
    BY <1>5, <2>4, <2>5
<1>8. QED
  BY <1>6, <1>7

(* Every step of the node, for the certificates.                           *)
LEMMA PKIStep ==
  ASSUME PInv, [NodeNext]_nodeVars
  PROVE  PInv' /\ Truly
<1>1. CASE \E n : BeginInit(n) \/ \E h \in Host : BeginCert(h, n)
  BY <1>1, PKIBegins
<1>2. CASE ReadCACert \/ ReadCAKey
  BY <1>2, PKIReads
<1>3. CASE OpenOut \/ WriteOut \/ ChmodOut
  BY <1>3, PKIWrites
<1>4. CASE OutFails \/ KillPKI
  <2>1. file' = file /\ proper' = proper /\ pki'.pc \in {"failed", "killed"} /\ Path' = Path
    BY <1>4 DEF OutFails, KillPKI, Over, Path, CACert, CAKey, HostCert, HostKey
  <2>2. QED
    BY <2>1 DEF PInv, Pending, Truly
<1>5. CASE UNCHANGED pkiVars
  BY <1>5 DEF pkiVars, PInv, Pending, Truly, Target
<1>6. \/ UNCHANGED pkiVars \/ BeginPKI \/ StepPKI
  BY DEF NodeNext, nodeVars, EditConfig, ReadFiles, ReadCA, ReadHostCert, ReadHostKey,
         ReloadCert, ReloadKey, Restart, NodeFinished, StartUnchanged
<1>7. QED
  BY <1>1, <1>2, <1>3, <1>4, <1>5, <1>6 DEF BeginPKI, StepPKI

(* What a pki subcommand reports as made is on the disk and can be used:   *)
(* writeStrict writes the certificate and then its key, and nobody else    *)
(* writes these files.                                                     *)
THEOREM IssuedCanBeUsed == NodeSpec => IssuesTruly
<1>1. NodeInit => PInv
  BY PKIAssumption DEF NodeInit, PKIInit, PInv, Pending
<1>2. PInv /\ [NodeNext]_nodeVars => PInv' /\ [Truly]_pkiVars
  BY PKIStep
<1>3. QED
  BY <1>1, <1>2, PTL DEF NodeSpec, IssuesTruly, Truly

-----------------------------------------------------------------------------
LEMMA Removes ==
  ASSUME NEW s \in Seq(Name), NEW n \in ToSet(s)
  PROVE  RemoveFirst(s, n) \in Seq(Name)
<1> DEFINE i == SelectInSeq(s, LAMBDA v : v = n)
<1>1. i \in 1 .. Len(s)
  BY FirstIndex
<1>2. \E j \in 1 .. Len(s) : s[j] = n
  BY DEF ToSet
<1>3. RemoveFirst(s, n) = RemoveAt(s, i)
  BY <1>2 DEF RemoveFirst
<1> HIDE DEF i
<1>4. QED
  BY <1>1, <1>3, RemovedOne

(* An edit of a configuration is a configuration.                          *)
LEMMA EditedConfig ==
  ASSUME NEW g \in Config, NEW c \in Edits!Command, NEW h \in Edits!Edited(g, c)
  PROVE  h \in Config
<1>1. /\ g = [peers |-> g.peers, users |-> g.users, sound |-> g.sound]
      /\ g.peers \in Seq(Name) /\ g.users \in Seq(Name) /\ g.sound \in BOOLEAN
      /\ c.name \in Name
  BY DEF Config, Edits!Command
<1>2. \/ h = [g EXCEPT !.peers = Append(@, c.name)]
      \/ h = [g EXCEPT !.peers = RemoveFirst(@, c.name)] /\ c.name \in ToSet(g.peers)
      \/ h = [g EXCEPT !.users = Append(@, c.name)]
      \/ h = [g EXCEPT !.users = RemoveFirst(@, c.name)] /\ c.name \in ToSet(g.users)
  BY SameRemoval DEF Edits!Command, Edits!Edited, Edits!HostAdd, Edits!HostRemove,
       Edits!UserAdd, Edits!UserRemove, Edits!ToSet, ToSet
<1>3. /\ Append(g.peers, c.name) \in Seq(Name)
      /\ Append(g.users, c.name) \in Seq(Name)
  BY <1>1
<1>4. /\ c.name \in ToSet(g.peers) => RemoveFirst(g.peers, c.name) \in Seq(Name)
      /\ c.name \in ToSet(g.users) => RemoveFirst(g.users, c.name) \in Seq(Name)
  BY <1>1, Removes
<1>5. ASSUME NEW x \in Seq(Name), h = [g EXCEPT !.peers = x] \/ h = [g EXCEPT !.users = x]
      PROVE  h \in Config
  BY <1>1, <1>5 DEF Config
<1>6. \/ h = [g EXCEPT !.peers = Append(g.peers, c.name)]
      \/ /\ h = [g EXCEPT !.peers = RemoveFirst(g.peers, c.name)]
         /\ c.name \in ToSet(g.peers)
      \/ h = [g EXCEPT !.users = Append(g.users, c.name)]
      \/ /\ h = [g EXCEPT !.users = RemoveFirst(g.users, c.name)]
         /\ c.name \in ToSet(g.users)
  BY <1>2
<1>7. QED
  BY <1>3, <1>4, <1>5, <1>6

(* Every file holds a configuration or the beginning of one.               *)
Contents == data \in [Inode -> Config \cup {Torn}] /\ strict \in [Inode -> BOOLEAN]

LEMMA ContentsStep ==
  ASSUME OneWriter, IInv, Contents, [Next]_vars
  PROVE  Contents'
<1>1. data[path] \in Config
  BY TornIsNotWhole DEF IInv, Files, Contents
<1>2. Inode' = Inode
  BY DEF Inode
<1>3. ASSUME NEW w \in Writer, OpenTmp(w)
      PROVE  Contents'
  <2>1. PICK i : /\ i = IF tmp = NoFile THEN FreshInode ELSE tmp
                 /\ cli[w].pc = "open" /\ data' = [data EXCEPT ![i] = Torn]
                 /\ strict' = [strict EXCEPT ![i] = @ \/ tmp = NoFile]
    BY <1>3 DEF OpenTmp
  <2>2. i \in Inode
    BY <2>1, FreshIsFree DEF IInv, Files
  <2>3. (strict[i] \/ tmp = NoFile) \in BOOLEAN
    OBVIOUS
  <2>4. QED
    BY <1>2, <2>1, <2>2, <2>3 DEF Contents
<1>4. ASSUME NEW w \in Writer, WriteTmp(w)
      PROVE  Contents'
  <2>1. cli[w].cfg \in Edits!Edited(data[path], cli[w].cmd) /\ cli[w].cmd \in Edits!Command
    BY <1>4 DEF WriteTmp, IInv, Saving, Running
  <2>2. cli[w].cfg \in Config
    BY <1>1, <2>1, EditedConfig
  <2>3. QED
    BY <1>2, <1>4, <2>2 DEF WriteTmp, Contents
<1>5. ASSUME NEW w \in Writer, WriteFails(w)
      PROVE  Contents'
  BY <1>2, <1>5 DEF WriteFails, Contents
<1>6. CASE UNCHANGED <<data, strict>>
  BY <1>2, <1>6 DEF Contents
<1>7. \/ UNCHANGED <<data, strict>>
      \/ \E w \in Writer : OpenTmp(w) \/ WriteTmp(w) \/ WriteFails(w)
  BY DEF Next, vars, Begin, LoadAndEdit, OpenFails, Rename, RenameFails, Exit, Kill, CheckMode,
         OpenConfig, ReadConfig, Stop, Finished
<1>8. QED
  BY <1>3, <1>4, <1>5, <1>6, <1>7

(* The certificates are issued for hosts.                                  *)
Named ==
  /\ PKITypeOK
  /\ pki.pc \in {"read cert", "read key"} => pki.cmd.host \in Host
  /\ pki.pc \in {"open", "write", "chmod"} =>
       \A i \in DOMAIN pki.todo : IsContents(pki.todo[i][2])

LEMMA KeyContents == \A k : IsContents(Key(k)) /\ IsContents(Cut)
BY DEF IsContents, Key, Cut

LEMMA NamedStep ==
  ASSUME PInv, Named, [NodeNext]_nodeVars
  PROVE  Named'
<1>1. ASSUME NEW n, BeginInit(n)
      PROVE  Named'
  <2> DEFINE c == GenerateCA(n)
             todo == << <<CACert, c>>, <<CAKey, Key(c.pub)>> >>
  <2>1. /\ pki'.pc = "open" /\ pki'.todo = todo
        /\ file' = file /\ proper' = proper
    BY <1>1 DEF BeginInit, ToWrite
  <2>2. IsContents(c) /\ IsContents(Key(c.pub))
    BY KeyContents DEF GenerateCA, Cert, IsContents
  <2>3. \A i \in DOMAIN todo : IsContents(todo[i][2])
    BY <2>2
  <2> HIDE DEF todo
  <2>4. QED
    BY <2>1, <2>3 DEF Named, PKITypeOK, IsContents, Path
<1>2. ASSUME NEW h \in Host, NEW n, BeginCert(h, n)
      PROVE  Named'
  <2>1. pki'.pc = "read cert" /\ pki'.cmd.host = h /\ file' = file /\ proper' = proper
    BY <1>2 DEF BeginCert
  <2>2. QED
    BY <2>1 DEF Named, PKITypeOK, IsContents, Path
<1>3. CASE ReadCACert
  <2>1. /\ file' = file /\ proper' = proper /\ pki.cmd.host \in Host
        /\ \/ pki'.pc = "failed"
           \/ pki'.pc = "read key" /\ pki'.cmd = pki.cmd
    BY <1>3 DEF ReadCACert, Over, Named
  <2>2. QED
    BY <2>1 DEF Named, PKITypeOK, IsContents, Path
<1>4. CASE ReadCAKey
  <2> DEFINE c == GenerateHostCert(pki.cmd.host, pki.key, file[CAKey])
             todo == << <<HostCert, c>>, <<HostKey, Key(c.pub)>> >>
  <2>1. /\ file' = file /\ proper' = proper /\ pki.cmd.host \in Host
        /\ \/ pki'.pc = "failed"
           \/ pki'.pc = "open" /\ pki'.todo = todo
    BY <1>4 DEF ReadCAKey, ToWrite, Over, Named
  <2>2. IsContents(c) /\ IsContents(Key(c.pub))
    BY <2>1, KeyContents DEF GenerateHostCert, Cert, IsContents
  <2>3. \A i \in DOMAIN todo : IsContents(todo[i][2])
    BY <2>2
  <2> HIDE DEF todo
  <2>4. QED
    BY <2>1, <2>3 DEF Named, PKITypeOK, IsContents, Path
<1>5. CASE OpenOut \/ WriteOut \/ ChmodOut
  <2>1. pki.pc \in {"open", "write", "chmod"} /\ DOMAIN pki = {"pc", "cmd", "todo"}
    BY <1>5 DEF OpenOut, WriteOut, ChmodOut, PInv, Pending
  <2>2. PICK c : ToDo(pki.cmd, pki.todo, c, file)
    BY <2>1 DEF PInv, Pending
  <2>3. Target \in Path
    BY <2>1, <2>2, Next2Write
  <2>4. IsContents(Head(pki.todo)[2])
    <3>1. 1 \in DOMAIN pki.todo /\ Head(pki.todo) = pki.todo[1]
      BY <2>2 DEF ToDo
    <3>2. QED
      BY <2>1, <3>1 DEF Named
  <2>5. CASE OpenOut \/ WriteOut
    <3>1. /\ pki'.pc \in {"write", "chmod"} /\ pki'.todo = pki.todo
          /\ \E new : IsContents(new) /\ file' = [file EXCEPT ![Target] = new]
          /\ proper' \in [Path -> BOOLEAN]
      BY <2>1, <2>3, <2>4, <2>5, KeyContents DEF OpenOut, WriteOut, Named, PKITypeOK
    <3>2. DOMAIN file' = Path /\ \A p \in Path : IsContents(file'[p])
      BY <2>3, <3>1 DEF Named, PKITypeOK
    <3>3. QED
      BY <2>1, <3>1, <3>2 DEF Named, PKITypeOK, IsContents, Path
  <2>6. CASE ChmodOut
    <3>1. file' = file /\ proper' \in [Path -> BOOLEAN] /\ pki' = Written(Tail(pki.todo))
      BY <2>3, <2>6 DEF ChmodOut, Named, PKITypeOK
    <3>2. \/ Tail(pki.todo) = <<>>
          \/ Tail(pki.todo) = << <<KeyPath(pki.cmd), Key(c.pub)>> >>
      BY <2>1, <2>2, Next2Write
    <3>3. CASE Tail(pki.todo) = <<>>
      <4>1. pki'.pc = "ok"
        BY <3>1, <3>3 DEF Written, Over
      <4>2. QED
        BY <3>1, <4>1 DEF Named, PKITypeOK, IsContents, Path
    <3>4. CASE Tail(pki.todo) = << <<KeyPath(pki.cmd), Key(c.pub)>> >>
      <4> DEFINE todo == << <<KeyPath(pki.cmd), Key(c.pub)>> >>
      <4>1. pki'.pc = "open" /\ pki'.todo = todo
        BY <2>1, <3>1, <3>4 DEF Written
      <4>2. \A i \in DOMAIN todo : IsContents(todo[i][2])
        BY KeyContents
      <4> HIDE DEF todo
      <4>3. QED
        BY <3>1, <4>1, <4>2 DEF Named, PKITypeOK, IsContents, Path
    <3>5. QED
      BY <3>2, <3>3, <3>4
  <2>7. QED
    BY <1>5, <2>5, <2>6
<1>6. CASE OutFails \/ KillPKI
  <2>1. file' = file /\ proper' = proper /\ pki'.pc \in {"failed", "killed"}
    BY <1>6 DEF OutFails, KillPKI, Over
  <2>2. QED
    BY <2>1 DEF Named, PKITypeOK, IsContents, Path
<1>7. CASE UNCHANGED pkiVars
  BY <1>7 DEF pkiVars, Named, PKITypeOK, IsContents, Path
<1>8. \/ UNCHANGED pkiVars \/ BeginPKI \/ StepPKI
  BY DEF NodeNext, nodeVars, EditConfig, ReadFiles, ReadCA, ReadHostCert, ReadHostKey,
         ReloadCert, ReloadKey, Restart, NodeFinished, StartUnchanged
<1>9. QED
  BY <1>1, <1>2, <1>3, <1>4, <1>5, <1>6, <1>7, <1>8 DEF BeginPKI, StepPKI

(* What is still missing of the types: the bound, and where the daemon and *)
(* its servers are.                                                        *)
Served(c) == c.is \in {"none", "loading", "failed", "cert"}

Stations ==
  /\ ran \in 0 .. MaxCommands
  /\ boot.pc \in {"off", "ca", "cert", "key", "listen"}
  /\ boot.pc # "off" <=> daemon.pc = "up"
  /\ boot.pc = "key" => DOMAIN boot = {"pc", "pool", "cert"}
  /\ DOMAIN served = TLSServer /\ \A l \in TLSServer : Served(served[l])

LEMMA StationsStep ==
  ASSUME Stations, [NodeNext]_nodeVars
  PROVE  Stations'
<1>1. CASE BeginPKI \/ \E w \in Writer : EditConfig(w)
  <2>1. UNCHANGED <<daemon, boot, served>>
    BY <1>1 DEF BeginPKI, EditConfig, Begin, LoadAndEdit, OpenTmp, OpenFails, WriteTmp,
                WriteFails, Rename, RenameFails, Exit, Kill
  <2>2. ran' = ran \/ (ran < MaxCommands /\ ran' = ran + 1)
    BY <1>1 DEF BeginPKI, EditConfig, Begin, LoadAndEdit, OpenTmp, OpenFails, WriteTmp,
                WriteFails, Rename, RenameFails, Exit, Kill
  <2>3. ran' \in 0 .. MaxCommands
    BY <2>2, CommandsAssumption DEF Stations
  <2>4. QED
    BY <2>1, <2>3 DEF Stations, Served, TLSServer
<1>2. CASE StepPKI \/ NodeFinished \/ UNCHANGED nodeVars
  <2>1. UNCHANGED <<ran, daemon, boot, served>>
    BY <1>2 DEF StepPKI, NodeFinished, nodeVars, vars
  <2>2. QED
    BY <2>1 DEF Stations, Served, TLSServer
<1>3. CASE ReadFiles
  <2>1. /\ daemon.pc # "up" /\ ran' = ran /\ served' = served
        /\ boot' = IF daemon'.pc = "up" THEN [pc |-> "ca"] ELSE boot
    BY <1>3 DEF ReadFiles, CheckMode, OpenConfig, ReadConfig
  <2>2. QED
    BY <2>1 DEF Stations, Served, TLSServer
<1>4. CASE GiveUp /\ ran' = ran
  <2>1. daemon'.pc = "down" /\ boot'.pc = "off" /\ ran' = ran
    BY <1>4 DEF GiveUp, Off
  <2>2. DOMAIN served' = TLSServer /\ \A l \in TLSServer : served'[l].is = "none"
    BY <1>4 DEF GiveUp, None, NotServed
  <2>3. QED
    BY <2>1, <2>2 DEF Stations, Served, TLSServer
<1>5. CASE ReadCA \/ ReadHostCert \/ ReadHostKey
  <2>1. ran' = ran
    BY <1>5 DEF ReadCA, ReadHostCert, ReadHostKey, StartUnchanged
  <2>2. CASE ~ GiveUp
    <3>1. daemon' = daemon /\ served' = served /\ boot.pc # "off"
      BY <1>5, <2>2 DEF ReadCA, ReadHostCert, ReadHostKey
    <3>2. /\ boot'.pc \in {"cert", "key", "listen"}
          /\ boot'.pc = "key" => DOMAIN boot' = {"pc", "pool", "cert"}
      BY <1>5, <2>2 DEF ReadCA, ReadHostCert, ReadHostKey, Stations
    <3>3. QED
      BY <2>1, <3>1, <3>2 DEF Stations, Served, TLSServer
  <2>3. QED
    BY <1>4, <2>1, <2>2
<1>6. CASE \E l \in TLSServer : ReloadCert(l) \/ ReloadKey(l)
  <2>1. PICK l \in TLSServer : ReloadCert(l) \/ ReloadKey(l)
    BY <1>6
  <2>2. \E c : Served(c) /\ served' = [served EXCEPT ![l] = c]
    BY <2>1 DEF ReloadCert, ReloadKey, Served, Paired, Decodes, Stations
  <2>3. UNCHANGED <<ran, daemon, boot>>
    BY <2>1 DEF ReloadCert, ReloadKey, vars
  <2>4. DOMAIN served' = TLSServer /\ \A k \in TLSServer : Served(served'[k])
    BY <2>2 DEF Stations
  <2>5. QED
    BY <2>3, <2>4 DEF Stations, Served, TLSServer
<1>7. CASE Restart
  BY <1>4, <1>7 DEF Restart, StartUnchanged
<1>8. QED
  BY <1>1, <1>2, <1>3, <1>5, <1>6, <1>7 DEF NodeNext

(* Every type of the node, and the two things that they say beyond shapes: *)
(* no inode ever holds anything but a configuration or the beginning of    *)
(* one, and certificates are for hosts.                                    *)
NInv == IInv /\ PInv /\ Contents /\ Named /\ Stations

LEMMA NodeTypesInit ==
  ASSUME OneWriter, NodeInit
  PROVE  NInv
<1>1. IInv
  BY InitHolds DEF NodeInit
<1>2. PInv
  BY PKIAssumption DEF NodeInit, PKIInit, PInv, Pending
<1>3. Contents
  <2>1. PICK g \in InitConfigs : data = [i \in Inode |-> IF i = 1 THEN g ELSE Torn]
    BY DEF NodeInit, Init
  <2>2. PICK m \in InitStrict : strict = [i \in Inode |-> i = 1 => m]
    BY DEF NodeInit, Init
  <2>3. g \in Config
    BY InitAssumption
  <2>4. \A i \in Inode : (i = 1 => m) \in BOOLEAN
    OBVIOUS
  <2>5. QED
    BY <2>1, <2>2, <2>3, <2>4 DEF Contents
<1>4. Named
  BY PKIAssumption DEF NodeInit, PKIInit, Named, PKITypeOK
<1>5. Stations
  BY CommandsAssumption DEF NodeInit, Init, Off, None, NotServed, Stations, Served
<1>6. QED
  BY <1>1, <1>2, <1>3, <1>4, <1>5 DEF NInv

LEMMA NodeTypesStep ==
  ASSUME OneWriter, NInv, [NodeNext]_nodeVars
  PROVE  NInv'
<1>1. IInv' /\ PInv' /\ Named' /\ Stations'
  BY NodeStepHolds, PKIStep, NamedStep, StationsStep DEF NInv
<1>2. Contents'
  <2>1. CASE [Next]_vars
    BY <2>1, ContentsStep DEF NInv
  <2>2. CASE UNCHANGED <<path, tmp, data, strict, cli>>
    BY <2>2 DEF NInv, Contents, Inode
  <2>3. QED
    BY <2>1, <2>2, ConfigStep
<1>3. QED
  BY <1>1, <1>2 DEF NInv

(* The types of the node: with whatever has failed or was killed, every    *)
(* inode holds a configuration, the beginning of one or nothing, every     *)
(* file of a pair is missing, cut short or whole, and runServe has got     *)
(* past the configuration just when the daemon that read it says so.       *)
THEOREM NodeTypeCorrect ==
  ASSUME OneWriter
  PROVE  NodeSpec => []NodeTypeOK
<1>1. NodeInit => NInv
  BY NodeTypesInit
<1>2. NInv /\ [NodeNext]_nodeVars => NInv'
  BY NodeTypesStep
<1>3. NInv => NodeTypeOK
  <2> SUFFICES ASSUME NInv PROVE NodeTypeOK
    OBVIOUS
  <2>1. TypeOK
    <3>1. \A w \in Writer : Opened(w) \subseteq Inode
      BY DEF NInv, IInv, Saving, Opened
    <3>2. QED
      BY <3>1 DEF NInv, IInv, Files, Contents, Stations, TypeOK
  <2>2. QED
    BY <2>1 DEF NInv, Named, Stations, Served, NodeTypeOK
<1>4. QED
  BY <1>1, <1>2, <1>3, PTL DEF NodeSpec

-----------------------------------------------------------------------------
(* Certificates are made for no other name than that of the node. *)
OwnNameOnly ==
  /\ Host = {Self}
  /\ \A s \in InitPKI : s.file[HostCert].is = "cert" => s.file[HostCert].cn = Self

IsOwn(c) == c.is = "cert" => c.cn = Self

(* The certificate on the disk, the one that is being made, and those that *)
(* the TLS servers have read have the name of the node.                    *)
Own ==
  /\ IsOwn(file[HostCert])
  /\ pki.pc \in {"read cert", "read key", "open", "write", "chmod"} =>
       pki.cmd.op = "init" \/ pki.cmd.host = Self
  /\ \A l \in TLSServer : /\ served[l].is = "loading" => IsOwn(served[l].cert)
                          /\ IsOwn(served[l])

LEMMA OwnStep ==
  ASSUME OwnNameOnly, PInv, Stations, Own, [NodeNext]_nodeVars
  PROVE  Own'
<1>1. ASSUME UNCHANGED served,
             /\ IsOwn(file'[HostCert])
             /\ pki'.pc \in {"read cert", "read key", "open", "write", "chmod"} =>
                  pki'.cmd.op = "init" \/ pki'.cmd.host = Self
      PROVE  Own'
  BY <1>1 DEF Own, IsOwn, TLSServer, HostCert
<1>2. CASE BeginPKI
  <2>1. UNCHANGED served
    BY <1>2 DEF BeginPKI
  <2>2. PICK n : BeginInit(n) \/ \E h \in Host : BeginCert(h, n)
    BY <1>2 DEF BeginPKI
  <2>3. CASE BeginInit(n)
    <3>1. file' = file /\ pki'.cmd = [op |-> "init"]
      BY <2>3 DEF BeginInit, ToWrite
    <3>2. pki'.cmd.op = "init"
      BY <3>1
    <3>3. IsOwn(file'[HostCert])
      BY <3>1 DEF Own
    <3>4. QED
      BY <1>1, <2>1, <3>2, <3>3
  <2>4. CASE \E h \in Host : BeginCert(h, n)
    <3>1. PICK h \in Host : BeginCert(h, n)
      BY <2>4
    <3>2. pki' = [pc |-> "read cert", cmd |-> [op |-> "cert", host |-> h], key |-> KeyOf(n)]
      BY <3>1 DEF BeginCert
    <3>3. pki'.cmd.host = Self
      BY <3>2 DEF OwnNameOnly
    <3>4. IsOwn(file'[HostCert])
      BY <3>1 DEF BeginCert, Own
    <3>5. QED
      BY <1>1, <2>1, <3>3, <3>4
  <2>5. QED
    BY <2>2, <2>3, <2>4
<1>3. CASE StepPKI
  <2>1. UNCHANGED served
    BY <1>3 DEF StepPKI
  <2>2. CASE ReadCACert \/ ReadCAKey
    <3>1. file' = file
      BY <2>2 DEF ReadCACert, ReadCAKey
    <3>2. pki'.pc = "failed" \/ pki'.cmd = pki.cmd
      <4>1. CASE ReadCACert
        BY <4>1 DEF ReadCACert, Over
      <4>2. CASE ReadCAKey
        BY <4>2 DEF ReadCAKey, Over, ToWrite
      <4>3. QED
        BY <2>2, <4>1, <4>2
    <3>3. pki.pc \in {"read cert", "read key"}
      BY <2>2 DEF ReadCACert, ReadCAKey
    <3>4. QED
      BY <1>1, <2>1, <3>1, <3>2, <3>3 DEF Own
  <2>3. CASE OpenOut \/ WriteOut \/ ChmodOut
    <3>1. pki.pc \in {"open", "write", "chmod"} /\ DOMAIN pki = {"pc", "cmd", "todo"}
      BY <2>3 DEF OpenOut, WriteOut, ChmodOut, PInv, Pending
    <3>2. PICK c : ToDo(pki.cmd, pki.todo, c, file)
      BY <3>1 DEF PInv, Pending
    <3>3. Target = HostCert => IsOwn(Head(pki.todo)[2])
      <4>1. Issued(pki.cmd, c, file[CACert]) /\ (pki.cmd.op = "init" \/ pki.cmd.host = Self)
        BY <3>1, <3>2 DEF ToDo, Own
      <4>2. \/ Target = CertPath(pki.cmd) /\ Head(pki.todo)[2] = c
            \/ Target = KeyPath(pki.cmd)
        BY <3>1, <3>2, Next2Write
      <4>3. QED
        BY <4>1, <4>2 DEF Issued, CertPath, KeyPath, IsOwn, CACert, CAKey, HostCert, HostKey
    <3>4. IsOwn(file'[HostCert])
      <4>1. CASE OpenOut
        <5>1. file' = [file EXCEPT ![Target] = Cut] /\ IsOwn(Cut)
          BY <4>1 DEF OpenOut, IsOwn, Cut
        <5>2. QED
          BY <5>1 DEF PInv, Own, Path
      <4>2. CASE WriteOut
        BY <3>3, <4>2 DEF WriteOut, PInv, Own, Path
      <4>3. CASE ChmodOut
        BY <4>3 DEF ChmodOut, Own
      <4>4. QED
        BY <2>3, <4>1, <4>2, <4>3
    <3>5. pki'.pc = "ok" \/ pki'.cmd = pki.cmd
      <4>1. CASE OpenOut \/ WriteOut
        BY <3>1, <4>1 DEF OpenOut, WriteOut
      <4>2. CASE ChmodOut
        <5>1. pki' = Written(Tail(pki.todo))
          BY <4>2 DEF ChmodOut
        <5>2. CASE Tail(pki.todo) = <<>>
          BY <5>1, <5>2 DEF Written, Over
        <5>3. CASE Tail(pki.todo) # <<>>
          BY <3>1, <5>1, <5>3 DEF Written
        <5>4. QED
          BY <5>2, <5>3
      <4>3. QED
        BY <2>3, <4>1, <4>2
    <3>6. QED
      BY <1>1, <2>1, <3>1, <3>4, <3>5 DEF Own
  <2>4. CASE OutFails \/ KillPKI
    <3>1. file' = file /\ pki'.pc \in {"failed", "killed"}
      BY <2>4 DEF OutFails, KillPKI, Over
    <3>2. QED
      BY <1>1, <2>1, <3>1 DEF Own
  <2>5. QED
    BY <1>3, <2>2, <2>3, <2>4 DEF StepPKI
<1>4. CASE UNCHANGED <<pkiVars, served>>
  BY <1>1, <1>4 DEF pkiVars, Own
<1>5. CASE UNCHANGED pkiVars /\ served' = None
  BY <1>5 DEF pkiVars, Own, IsOwn, None, NotServed, TLSServer, HostCert
<1>6. ASSUME NEW l \in TLSServer, ReloadCert(l) \/ ReloadKey(l)
      PROVE  Own'
  <2>1. PICK c : /\ served' = [served EXCEPT ![l] = c]
                 /\ c.is = "loading" => IsOwn(c.cert)
                 /\ IsOwn(c)
    <3>1. CASE ReloadCert(l)
      <4> DEFINE c == [is |-> "loading", cert |-> file[HostCert]]
      <4>1. served' = [served EXCEPT ![l] = c] /\ c.is = "loading" /\ IsOwn(c.cert)
        BY <3>1 DEF ReloadCert, Own
      <4>2. QED
        BY <4>1 DEF IsOwn
    <3>2. CASE ReloadKey(l)
      <4>1. IsOwn(served[l].cert)
        BY <3>2 DEF ReloadKey, Own
      <4>2. \/ served' = [served EXCEPT ![l] = served[l].cert] /\ served[l].cert.is = "cert"
            \/ served' = [served EXCEPT ![l] = [is |-> "failed"]]
        BY <3>2 DEF ReloadKey, Paired, Decodes, Stations
      <4>3. QED
        BY <4>1, <4>2 DEF IsOwn
    <3>3. QED
      BY <1>6, <3>1, <3>2
  <2>2. UNCHANGED pkiVars
    BY <1>6 DEF ReloadCert, ReloadKey
  <2>3. QED
    BY <2>1, <2>2 DEF pkiVars, Own, IsOwn, Stations, TLSServer, HostCert
<1>7. \/ BeginPKI \/ StepPKI \/ UNCHANGED <<pkiVars, served>>
      \/ UNCHANGED pkiVars /\ served' = None
      \/ \E l \in TLSServer : ReloadCert(l) \/ ReloadKey(l)
  BY DEF NodeNext, nodeVars, EditConfig, ReadFiles, ReadCA, ReadHostCert, ReadHostKey,
         Restart, NodeFinished, GiveUp, StartUnchanged
<1>8. QED
  BY <1>2, <1>3, <1>4, <1>5, <1>6, <1>7

(* The design document is right about the certificates that are served as  *)
(* long as none is made for another name: that runServe checks one copy    *)
(* and its servers load another does no harm then, whatever is half done.  *)
THEOREM OwnNameIsServed ==
  ASSUME OwnNameOnly
  PROVE  NodeSpec => []ServesOwnName
<1>1. NodeInit => PInv /\ Stations /\ Own
  <2> SUFFICES ASSUME NodeInit PROVE PInv /\ Stations /\ Own
    OBVIOUS
  <2>1. PInv
    BY PKIAssumption DEF NodeInit, PKIInit, PInv, Pending
  <2>2. Stations
    BY CommandsAssumption DEF NodeInit, Init, Off, None, NotServed, Stations, Served
  <2>3. Own
    BY DEF NodeInit, PKIInit, OwnNameOnly, Own, IsOwn, None, NotServed
  <2>4. QED
    BY <2>1, <2>2, <2>3
<1>2. PInv /\ Stations /\ Own /\ [NodeNext]_nodeVars => PInv' /\ Stations' /\ Own'
  BY PKIStep, StationsStep, OwnStep
<1>3. Own => ServesOwnName
  BY DEF Own, IsOwn, ServesOwnName
<1>4. QED
  BY <1>1, <1>2, <1>3, PTL DEF NodeSpec

-----------------------------------------------------------------------------
(* What the daemon has opened under the name of the configuration is whole *)
(* and stays so, though the name may be given to another file meanwhile:   *)
(* nobody writes to an inode that the daemon has open.                     *)
OpenedWhole ==
  daemon.pc = "read" => daemon.fd \in Inode \ {tmp} /\ Whole(data[daemon.fd])

LEMMA OpenedWholeStep ==
  ASSUME OneWriter, IInv, OpenedWhole, [NodeNext]_nodeVars
  PROVE  OpenedWhole'
<1>1. Inode' = Inode /\ NoFile \notin Inode /\ Files
  BY Inodes DEF Inode, IInv, NoFile
<1>2. ASSUME NEW w \in Writer, EditConfig(w)
      PROVE  OpenedWhole'
  <2> SUFFICES ASSUME daemon'.pc = "read"
               PROVE  daemon'.fd \in Inode \ {tmp'} /\ Whole(data'[daemon'.fd])
    BY <1>1 DEF OpenedWhole, Whole
  <2>1. daemon' = daemon
    BY <1>2 DEF EditConfig, Begin, LoadAndEdit, OpenTmp, OpenFails, WriteTmp, WriteFails,
                Rename, RenameFails, Exit, Kill
  <2>2. daemon.fd \in Inode \ {tmp} /\ Whole(data[daemon.fd]) /\ daemon.pc = "read"
    BY <2>1 DEF OpenedWhole
  <2>3. CASE OpenTmp(w)
    <3>1. PICK i : /\ i = IF tmp = NoFile THEN FreshInode ELSE tmp
                   /\ cli[w].pc = "open" /\ data' = [data EXCEPT ![i] = Torn] /\ tmp' = i
      BY <2>3 DEF OpenTmp
    <3>2. i # daemon.fd
      BY <1>1, <2>2, <3>1, FreshIsFree
    <3>3. QED
      BY <2>1, <2>2, <3>1, <3>2
  <2>4. CASE WriteTmp(w) \/ WriteFails(w)
    <3>1. /\ tmp' = tmp /\ cli[w].pc = "write"
          /\ \E x : data' = [data EXCEPT ![cli[w].fd] = x]
      BY <2>4 DEF WriteTmp, WriteFails
    <3>2. cli[w].fd = tmp
      BY <3>1 DEF IInv, Saving
    <3>3. QED
      BY <2>1, <2>2, <3>1, <3>2
  <2>5. CASE data' = data /\ tmp' \in {tmp, NoFile}
    BY <1>1, <2>1, <2>2, <2>5
  <2>6. QED
    BY <1>2, <2>3, <2>4, <2>5 DEF EditConfig, Begin, LoadAndEdit, OpenFails, Rename,
                                  RenameFails, Exit, Kill
<1>3. CASE ReadFiles
  <2>1. UNCHANGED <<path, tmp, data>>
    BY <1>3 DEF ReadFiles, CheckMode, OpenConfig, ReadConfig
  <2>2. daemon' = [pc |-> "read", fd |-> path] \/ daemon'.pc # "read"
    BY <1>3 DEF ReadFiles, CheckMode, OpenConfig, ReadConfig
  <2>3. QED
    BY <1>1, <2>1, <2>2 DEF OpenedWhole, Files, Whole
<1>4. CASE UNCHANGED <<tmp, data>> /\ (daemon' = daemon \/ daemon'.pc = "down")
  BY <1>1, <1>4 DEF OpenedWhole, Whole
<1>5. \/ ReadFiles \/ \E w \in Writer : EditConfig(w)
      \/ UNCHANGED <<tmp, data>> /\ (daemon' = daemon \/ daemon'.pc = "down")
  BY DEF NodeNext, nodeVars, vars, BeginPKI, StepPKI, ReadCA, ReadHostCert, ReadHostKey,
         ReloadCert, ReloadKey, Restart, NodeFinished, GiveUp, StartUnchanged
<1>6. QED
  BY <1>2, <1>3, <1>4, <1>5

(* A read of the configuration never sees a partial file, as the design    *)
(* document says: not when it is opened, and not when it is read either,   *)
(* after an edit has replaced it.                                          *)
THEOREM ReadsWhole ==
  ASSUME OneWriter
  PROVE  NodeSpec => [](daemon.pc = "read" => data[daemon.fd] # Torn)
<1>1. NodeInit => IInv /\ OpenedWhole
  <2>1. NodeInit => IInv
    BY InitHolds DEF NodeInit
  <2>2. NodeInit => OpenedWhole
    BY DEF NodeInit, Init, OpenedWhole
  <2>3. QED
    BY <2>1, <2>2
<1>2. IInv /\ OpenedWhole /\ [NodeNext]_nodeVars => IInv' /\ OpenedWhole'
  BY NodeStepHolds, OpenedWholeStep
<1>3. OpenedWhole => (daemon.pc = "read" => data[daemon.fd] # Torn)
  BY TornIsNotWhole DEF OpenedWhole
<1>4. QED
  BY <1>1, <1>2, <1>3, PTL DEF NodeSpec

(* A file of a pair is cut short before it is written, so files that are   *)
(* in order before a step and after it are the same files.                 *)
CutFirst == pki.pc = "write" => file[Target] = Cut

LEMMA CutFirstStep ==
  ASSUME PInv, CutFirst, [NodeNext]_nodeVars
  PROVE  CutFirst'
<1>1. CASE OpenOut
  <2>1. pki.pc = "open" /\ pki' = [pki EXCEPT !.pc = "write"]
        /\ file' = [file EXCEPT ![Target] = Cut] /\ DOMAIN pki = {"pc", "cmd", "todo"}
    BY <1>1 DEF OpenOut, PInv, Pending
  <2>2. PICK c : ToDo(pki.cmd, pki.todo, c, file)
    BY <2>1 DEF PInv, Pending
  <2>3. Target \in Path /\ Target' = Target
    BY <2>1, <2>2, Next2Write DEF Target
  <2>4. QED
    BY <2>1, <2>3 DEF PInv, CutFirst
<1>2. CASE UNCHANGED pkiVars
  BY <1>2 DEF pkiVars, CutFirst, Target
<1>3. CASE pki'.pc # "write"
  BY <1>3 DEF CutFirst
<1>4. CASE StepPKI
  <2>1. CASE ChmodOut
    <3>1. pki' = Written(Tail(pki.todo)) /\ DOMAIN pki = {"pc", "cmd", "todo"}
      BY <2>1 DEF ChmodOut, PInv, Pending
    <3>2. pki'.pc # "write"
      BY <3>1 DEF Written, Over
    <3>3. QED
      BY <1>3, <3>2
  <2>2. CASE WriteOut
    <3>1. pki' = [pki EXCEPT !.pc = "chmod"] /\ DOMAIN pki = {"pc", "cmd", "todo"}
      BY <2>2 DEF WriteOut, PInv, Pending
    <3>2. QED
      BY <1>3, <3>1
  <2>3. CASE ReadCACert
    BY <1>3, <2>3 DEF ReadCACert, Over
  <2>4. CASE ReadCAKey
    BY <1>3, <2>4 DEF ReadCAKey, Over, ToWrite
  <2>5. CASE OutFails \/ KillPKI
    BY <1>3, <2>5 DEF OutFails, KillPKI, Over
  <2>6. QED
    BY <1>1, <1>4, <2>1, <2>2, <2>3, <2>4, <2>5 DEF StepPKI
<1>5. CASE BeginPKI
  <2>1. PICK n : BeginInit(n) \/ \E h \in Host : BeginCert(h, n)
    BY <1>5 DEF BeginPKI
  <2>2. BeginInit(n) => pki'.pc = "open"
    BY DEF BeginInit, ToWrite
  <2>3. ASSUME NEW h \in Host, BeginCert(h, n) PROVE pki'.pc = "read cert"
    BY <2>3 DEF BeginCert
  <2>4. QED
    BY <1>3, <2>1, <2>2, <2>3
<1>6. \/ UNCHANGED pkiVars \/ BeginPKI \/ StepPKI
  BY DEF NodeNext, nodeVars, EditConfig, ReadFiles, ReadCA, ReadHostCert, ReadHostKey,
         ReloadCert, ReloadKey, Restart, NodeFinished, StartUnchanged
<1>7. QED
  BY <1>2, <1>4, <1>5, <1>6

LEMMA OrderedFilesStay ==
  ASSUME PInv, CutFirst, [NodeNext]_nodeVars, InOrder, InOrder'
  PROVE  file'[HostCert] = file[HostCert]
<1>1. CASE OpenOut
  <2>1. file' = [file EXCEPT ![Target] = Cut]
    BY <1>1 DEF OpenOut
  <2>2. file'[HostCert].is = "cert"
    BY DEF InOrder, Paired, Decodes, HostCert, HostKey, CACert
  <2>3. Target # HostCert
    BY <2>1, <2>2 DEF Cut, PInv, Path
  <2>4. QED
    BY <2>1, <2>3
<1>2. CASE WriteOut
  <2>1. file' = [file EXCEPT ![Target] = Head(pki.todo)[2]] /\ file[Target] = Cut
    BY <1>2 DEF WriteOut, CutFirst
  <2>2. Target # HostCert
    BY <2>1 DEF InOrder, Paired, Decodes, Cut
  <2>3. QED
    BY <2>1, <2>2
<1>3. \/ OpenOut \/ WriteOut \/ file' = file
  <2>1. \/ UNCHANGED pkiVars \/ BeginPKI \/ StepPKI
    BY DEF NodeNext, nodeVars, EditConfig, ReadFiles, ReadCA, ReadHostCert, ReadHostKey,
           ReloadCert, ReloadKey, Restart, NodeFinished, StartUnchanged
  <2>2. QED
    BY <2>1 DEF pkiVars, BeginPKI, BeginInit, BeginCert, StepPKI, ReadCACert, ReadCAKey,
                ChmodOut, OutFails, KillPKI
<1>4. QED
  BY <1>1, <1>2, <1>3

(* A start of the daemon has found nothing wrong so far.                   *)
Promising ==
  /\ daemon.pc = "read" => data[daemon.fd] # Torn /\ Valid(data[daemon.fd])
  /\ boot.pc = "key" => boot.cert = file[HostCert]

(* How far it has come. *)
Place == [down |-> 0, open |-> 1, read |-> 2, ca |-> 3, cert |-> 4, key |-> 5, listen |-> 6]
Rank == IF boot.pc = "off" THEN Place[daemon.pc] ELSE Place[boot.pc]

(* A start that has found nothing wrong goes on without a setback while    *)
(* the files are in order, whatever edits of the configuration fall into   *)
(* it, and one that begins then has found nothing wrong.  (The daemon      *)
(* itself always has a next step: its guards ask for the mode only, which  *)
(* is in order.)  So runServe gives up at most once after that, and is up  *)
(* six of its steps later: StartsIfInOrder but for the fairness.           *)
THEOREM StartsWithoutSetback ==
  ASSUME OneWriter
  PROVE  NodeSpec =>
           [][InOrder /\ InOrder' /\ Promising =>
                /\ Promising'
                /\ Rank' = Rank + 1 \/ UNCHANGED <<daemon, boot>> \/ IsUp]_nodeVars
<1> DEFINE Inv == IInv /\ PInv /\ Booted /\ OpenedWhole /\ CutFirst
<1>1. NodeInit => Inv
  <2> SUFFICES ASSUME NodeInit PROVE Inv
    OBVIOUS
  <2>1. IInv
    BY InitHolds DEF NodeInit
  <2>2. PInv /\ CutFirst
    BY PKIAssumption DEF NodeInit, PKIInit, PInv, Pending, CutFirst
  <2>3. Booted /\ OpenedWhole
    BY DEF NodeInit, Init, Off, Booted, OpenedWhole
  <2>4. QED
    BY <2>1, <2>2, <2>3
<1>2. Inv /\ [NodeNext]_nodeVars => Inv'
  BY NodeStepHolds, PKIStep, BootedStep, OpenedWholeStep, CutFirstStep
<1>3. ASSUME Inv, NodeNext, InOrder, InOrder', Promising
      PROVE  /\ Promising'
             /\ Rank' = Rank + 1 \/ UNCHANGED <<daemon, boot>> \/ IsUp
  <2>1. file'[HostCert] = file[HostCert]
    BY <1>3, OrderedFilesStay
  <2>2. /\ data[path] # Torn /\ Valid(data[path]) /\ file[CACert].is = "cert"
        /\ file[HostCert].is = "cert" /\ file[HostCert].cn = Self
        /\ Paired(file[HostCert], file[HostKey])
    BY <1>3 DEF InOrder, Paired, Decodes
  <2>3. CASE ReadFiles
    <3>1. /\ UNCHANGED <<path, tmp, data, strict, file>>
          /\ boot' = IF daemon'.pc = "up" THEN [pc |-> "ca"] ELSE boot
      BY <2>3 DEF ReadFiles, CheckMode, OpenConfig, ReadConfig, pkiVars
    <3>2. boot.pc = "off"
      BY <1>3, <2>3 DEF ReadFiles, CheckMode, OpenConfig, ReadConfig, Booted
    <3>3. CASE CheckMode
      <4>1. daemon.pc = "down" /\ daemon' = [pc |-> "open"] /\ boot' = boot
        BY <3>1, <3>3 DEF CheckMode
      <4>2. QED
        BY <3>2, <4>1 DEF Promising, Rank, Place
    <3>4. CASE OpenConfig
      <4>1. daemon.pc = "open" /\ daemon' = [pc |-> "read", fd |-> path] /\ boot' = boot
        BY <3>1, <3>4 DEF OpenConfig
      <4>2. QED
        BY <2>2, <3>1, <3>2, <4>1 DEF Promising, Rank, Place, Valid, Torn
    <3>5. CASE ReadConfig
      <4>1. daemon.pc = "read" /\ daemon'.pc = "up"
        BY <1>3, <3>5 DEF ReadConfig, Promising
      <4>2. boot' = [pc |-> "ca"]
        BY <3>1, <4>1
      <4>3. QED
        BY <3>2, <4>1, <4>2 DEF Promising, Rank, Place
    <3>6. QED
      BY <2>3, <3>3, <3>4, <3>5 DEF ReadFiles
  <2>4. CASE ReadCA
    <3>1. daemon' = daemon /\ boot.pc = "ca" /\ boot'.pc = "cert"
      BY <2>2, <2>4 DEF ReadCA
    <3>2. daemon.pc = "up"
      BY <1>3, <3>1 DEF Booted
    <3>3. QED
      BY <3>1, <3>2 DEF Promising, Rank, Place
  <2>5. CASE ReadHostCert
    <3>1. file[HostCert] # Missing
      BY <2>2 DEF Missing
    <3>2. /\ daemon' = daemon /\ boot.pc = "cert"
          /\ boot' = [pc |-> "key", pool |-> boot.pool, cert |-> file[HostCert]]
      BY <2>5, <3>1 DEF ReadHostCert
    <3>3. daemon.pc = "up"
      BY <1>3, <3>2 DEF Booted
    <3>4. QED
      BY <2>1, <3>2, <3>3 DEF Promising, Rank, Place
  <2>6. CASE ReadHostKey
    <3>1. boot.pc = "key" /\ boot.cert = file[HostCert] /\ DOMAIN boot = {"pc", "pool", "cert"}
      BY <1>3, <2>6 DEF ReadHostKey, Promising, Booted
    <3>2. daemon' = daemon /\ boot' = [boot EXCEPT !.pc = "listen"]
      BY <2>2, <2>6, <3>1 DEF ReadHostKey
    <3>3. daemon.pc = "up"
      BY <1>3, <3>1 DEF Booted
    <3>4. QED
      BY <3>1, <3>2, <3>3 DEF Promising, Rank, Place
  <2>7. CASE Restart
    BY <2>7 DEF Restart, GiveUp, Off, Promising, IsUp
  <2>8. ASSUME NEW w \in Writer, EditConfig(w)
        PROVE  UNCHANGED <<daemon, boot>> /\ Promising'
    <3>1. UNCHANGED <<daemon, boot, file>>
      BY <2>8 DEF EditConfig, Begin, LoadAndEdit, OpenTmp, OpenFails, WriteTmp, WriteFails,
                  Rename, RenameFails, Exit, Kill, pkiVars
    <3>2. daemon.pc = "read" => data'[daemon.fd] = data[daemon.fd]
      <4> SUFFICES ASSUME daemon.pc = "read" PROVE data'[daemon.fd] = data[daemon.fd]
        OBVIOUS
      <4>1. daemon.fd \in Inode \ {tmp} /\ Files /\ Saving(w)
        BY <1>3 DEF OpenedWhole, IInv
      <4>2. CASE OpenTmp(w)
        <5>1. PICK i : /\ i = IF tmp = NoFile THEN FreshInode ELSE tmp
                       /\ cli[w].pc = "open" /\ data' = [data EXCEPT ![i] = Torn]
          BY <4>2 DEF OpenTmp
        <5>2. i # daemon.fd
          BY <4>1, <5>1, FreshIsFree
        <5>3. QED
          BY <5>1, <5>2
      <4>3. CASE WriteTmp(w) \/ WriteFails(w)
        <5>1. cli[w].pc = "write" /\ \E x : data' = [data EXCEPT ![cli[w].fd] = x]
          BY <4>3 DEF WriteTmp, WriteFails
        <5>2. cli[w].fd # daemon.fd
          BY <4>1, <5>1 DEF Saving
        <5>3. QED
          BY <5>1, <5>2
      <4>4. QED
        BY <2>8, <4>2, <4>3 DEF EditConfig, Begin, LoadAndEdit, OpenFails, Rename,
                                RenameFails, Exit, Kill
    <3>3. QED
      BY <1>3, <3>1, <3>2 DEF Promising, Valid, Torn
  <2>9. CASE \/ BeginPKI \/ StepPKI \/ NodeFinished
             \/ \E l \in TLSServer : ReloadCert(l) \/ ReloadKey(l)
    <3>1. UNCHANGED <<data, daemon, boot>>
      BY <2>9 DEF BeginPKI, StepPKI, NodeFinished, nodeVars, vars, ReloadCert, ReloadKey
    <3>2. QED
      BY <1>3, <2>1, <3>1 DEF Promising, Valid, Torn
  <2>10. QED
    BY <1>3, <2>3, <2>4, <2>5, <2>6, <2>7, <2>8, <2>9 DEF NodeNext
<1>4. Inv /\ [NodeNext]_nodeVars =>
        [InOrder /\ InOrder' /\ Promising =>
           /\ Promising'
           /\ Rank' = Rank + 1 \/ UNCHANGED <<daemon, boot>> \/ IsUp]_nodeVars
  BY <1>3
<1> HIDE DEF Inv
<1>5. QED
  BY <1>1, <1>2, <1>4, PTL DEF NodeSpec
=============================================================================
