----------------------------- MODULE SampleLog -----------------------------
(***************************************************************************)
(* What internal/pkg/store promises: for every (peer, protocol) key, the   *)
(* most recent results recorded for it, oldest first, at most Cap of them. *)
(* Store implements this specification with ring buffers.                  *)
(***************************************************************************)
EXTENDS Integers, Sequences

CONSTANTS Key,      \* the (peer, protocol) pairs
          Result,   \* the probe results
          Cap       \* how many results a key retains

VARIABLE log        \* log[k]: the retained results of k, oldest first

LastN(s, n) == SubSeq(s, Len(s) - n + 1, Len(s))

(* The sequence that results from recording r after s. *)
Recorded(s, r) ==
  IF Len(s) < Cap THEN Append(s, r) ELSE LastN(Append(s, r), Cap)

Init == log = [k \in Key |-> <<>>]

Record(k, r) == log' = [log EXCEPT ![k] = Recorded(@, r)]

Next == \E k \in Key, r \in Result : Record(k, r)

Spec == Init /\ [][Next]_log
=============================================================================
