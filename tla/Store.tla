------------------------------- MODULE Store -------------------------------
(***************************************************************************)
(* internal/pkg/store: a ring buffer of probe results per (peer, protocol) *)
(* key, behind one RWMutex.  Append holds the write lock, Snapshot and     *)
(* Keys the read lock for their whole body, so each is one atomic step     *)
(* here: Append is an action, the two readers are state functions.         *)
(***************************************************************************)
EXTENDS Integers, Sequences

CONSTANTS Key,       \* store.Key: the (peer, protocol) pairs
          Result,    \* probe.Result values that probers return
          ZeroResult,\* the zero probe.Result that make() fills a ring with
          Capacity   \* the argument of New (probe.ringbufferSize)

ASSUME CapacityAssumption == Capacity \in Int
ASSUME ZeroAssumption == ZeroResult \notin Result

VARIABLE bufs        \* Store.bufs: map from the keys seen so far to rings

(* New raises a capacity below 1 to 1. *)
Cap == IF Capacity < 1 THEN 1 ELSE Capacity

Slot == 0 .. Cap - 1

Ring == [buf: [Slot -> Result \cup {ZeroResult}], head: Slot, full: BOOLEAN]

newRing == [buf |-> [i \in Slot |-> ZeroResult], head |-> 0, full |-> FALSE]

-----------------------------------------------------------------------------
(* Mutated forms of the definitions below, each a plausible slip. *)

Mut_push_early(r, v) ==     \* full set when the last slot is next, not wrapped
  LET next == (r.head + 1) % Cap
  IN  [buf |-> [r.buf EXCEPT ![r.head] = v], head |-> next,
       full |-> r.full \/ next = Cap - 1]

Mut_push_noWrap(r, v) ==    \* the head runs past the last slot
  LET next == r.head + 1
  IN  [buf |-> [r.buf EXCEPT ![r.head] = v], head |-> next,
       full |-> r.full \/ next = Cap]

Mut_snapshot_unrotated(r) == \* a full ring copied from slot 0
  [i \in 1 .. (IF r.full THEN Cap ELSE r.head) |-> r.buf[i - 1]]

-----------------------------------------------------------------------------
push(r, v) ==
  LET next == (r.head + 1) % Cap
  IN  [buf |-> [r.buf EXCEPT ![r.head] = v], head |-> next,
       full |-> r.full \/ next = 0]

(* A ring that has not wrapped is read up to head; a full one is read from *)
(* head to the end and then from slot 0 to head (the two copy calls).      *)
snapshot(r) ==
  IF ~ r.full
  THEN [i \in 1 .. r.head |-> r.buf[i - 1]]
  ELSE [i \in 1 .. Cap |-> IF i <= Cap - r.head THEN r.buf[r.head + i - 1]
                                                ELSE r.buf[i - 1 - (Cap - r.head)]]

(* Snapshot of an unknown key is nil. *)
Snapshot(k) == IF k \in DOMAIN bufs THEN snapshot(bufs[k]) ELSE <<>>

Keys == DOMAIN bufs

Init == bufs = [k \in {} |-> newRing]

AppendResult(k, v) ==
  bufs' = [x \in DOMAIN bufs \cup {k} |->
             IF x # k THEN bufs[x]
             ELSE push(IF k \in DOMAIN bufs THEN bufs[k] ELSE newRing, v)]

Next == \E k \in Key, v \in Result : AppendResult(k, v)

Spec == Init /\ [][Next]_bufs

-----------------------------------------------------------------------------
(* Every key maps to a well-formed ring. *)
TypeOK == bufs \in UNION {[S -> Ring] : S \in SUBSET Key}

(* Snapshot never hands out a slot that no Append wrote: the zero Result   *)
(* has OK = false and would be counted by the classifier as a failed probe.*)
(* A key that is listed by Keys always has at least one result.            *)
SnapshotOnlyWritten ==
  \A k \in Keys :
    LET s == Snapshot(k)
    IN  Len(s) > 0 /\ \A i \in 1 .. Len(s) : s[i] \in Result

(* The ring implements the log of the last Cap results, oldest first: what *)
(* Snapshot returns before and after every Append is what SampleLog says.  *)
Log == INSTANCE SampleLog WITH log <- [k \in Key |-> Snapshot(k)]

LogSpec == Log!Spec
=============================================================================
