----------------------------- MODULE ConfigEdits -----------------------------
(***************************************************************************)
(* What the subcommands that edit the configuration promise: each takes    *)
(* the configuration from one legal value to the next, in one step, or     *)
(* leaves it alone.  ConfigFile implements this with a temporary file and  *)
(* a rename.                                                               *)
(***************************************************************************)
EXTENDS Sequences, SequencesExt

CONSTANTS Name,        \* names of peers and of users
          InitConfigs  \* configurations an administrator may have written

VARIABLE cfg

Command == [op : {"host add", "host remove", "user add", "user remove"}, name : Name]

(* The names that are there are not looked at. *)
Mut_HostAdd_twice(g, n) == {[g EXCEPT !.peers = Append(@, n)]}

(* The function that a subcommand passes to loadAndMutate, as the set of   *)
(* its results: empty if it returns an error.                              *)
HostAdd(g, n) ==
  {h \in {[g EXCEPT !.peers = Append(@, n)]} : n \notin ToSet(g.peers)}

HostRemove(g, n) ==
  {h \in {[g EXCEPT !.peers = RemoveFirst(@, n)]} : n \in ToSet(g.peers)}

UserAdd(g, n) ==
  {h \in {[g EXCEPT !.users = Append(@, n)]} : n \notin ToSet(g.users)}

UserRemove(g, n) ==
  {h \in {[g EXCEPT !.users = RemoveFirst(@, n)]} : n \in ToSet(g.users)}

Edited(g, c) ==
  CASE c.op = "host add"    -> HostAdd(g, c.name)
    [] c.op = "host remove" -> HostRemove(g, c.name)
    [] c.op = "user add"    -> UserAdd(g, c.name)
    [] c.op = "user remove" -> UserRemove(g, c.name)

Init == cfg \in InitConfigs

Edit(c) == cfg' \in Edited(cfg, c)

Next == \E c \in Command : Edit(c)

Spec == Init /\ [][Next]_cfg
=============================================================================
