----------------------------- MODULE Aggregator -----------------------------
(***************************************************************************)
(* internal/pkg/aggregator and internal/pkg/server/interhost: the node Me  *)
(* builds the view of the mesh for its UI, call after call.  A call reads  *)
(* the local store, asks every configured peer for its own local view at   *)
(* the same time and merges the answers.                                   *)
(*                                                                         *)
(* Each node records probe results while this goes on.  Its store is the   *)
(* log that Store implements (SampleLog); a result is only its outcome,    *)
(* and its timestamp is its number in the history of its key.  A peer may  *)
(* be restarted: its store begins empty, and what it was serving is        *)
(* broken off.                                                             *)
(***************************************************************************)
EXTENDS Classifier

CONSTANTS Node,
          Me,         \* the node whose Aggregator is modelled
          PeersOf,    \* PeersOf[n]: the names in peers[] of n's configuration
          Key,        \* the (peer, protocol) pairs a node probes
          Outcome,    \* results; those in Success have OK = true
          Cap,        \* results a store retains per key
          Window, Threshold,
          MaxResults, \* bound: results recorded by all nodes together
          MaxStarts   \* bound: restarts of peers, together

ASSUME AggregatorAssumption ==
  /\ Me \in Node
  /\ PeersOf \in [Node -> SUBSET Node]    \* a node may list itself
  /\ Success \subseteq Outcome
  /\ MaxStarts \in Nat
  /\ Cap \in Nat \ {0} /\ Window \in 1 .. Cap /\ Threshold \in 1 .. Window

VARIABLES hist,   \* hist[n][k]: all results n recorded for k, oldest first
          born,   \* born[n][k]: how many by the time n was last started
          starts, \* how many restarts there were
          call,   \* "idle", "local" (localView), "fetch" (waiting in wg.Wait)
          local,  \* the localView under construction
          fetch,  \* fetch[p]: the request to peer p in this call
          mv,     \* mv.Observers
          shown   \* the view the previous call returned

aggVars == <<hist, born, starts, call, local, fetch, mv, shown>>

SL == INSTANCE SampleLog WITH Result <- Outcome, log <- hist[Me]

(* A result, with the life of its node in which it was recorded: how many  *)
(* results of each pair there were before; and the outcomes of results i   *)
(* to j.                                                                   *)
Results == [out : Outcome, life : [Key -> Nat]]
Outcomes(n, k, i, j) == [x \in 1 .. j - i + 1 |-> hist[n][k][i + x - 1].out]

(* Store.Snapshot and Store.Keys of node n. *)
Snapshot(n, k) ==
  LET life == Outcomes(n, k, born[n][k] + 1, Len(hist[n][k]))
  IN  IF Len(life) <= Cap THEN life ELSE SL!LastN(life, Cap)
Keys(n) == {k \in Key : Len(hist[n][k]) > born[n][k]}

Empty == [k \in {} |-> 0]
NoCall == [todo |-> {}, samples |-> Empty]

(* A view under construction: the keys still to be read, and the samples.  *)
Building(n) == [todo |-> Keys(n), samples |-> Empty]

(* The timestamp is that of the oldest retained result. *)
Mut_Sample_oldest(n, k) ==
  [state |-> Classify(Snapshot(n, k), Window, Threshold),
   lastTS |-> Len(hist[n][k]) - Len(Snapshot(n, k)) + 1]

(* The index is off by one: the timestamp is that of the next result. *)
Mut_Sample_next(n, k) ==
  [state |-> Classify(Snapshot(n, k), Window, Threshold), lastTS |-> Len(hist[n][k]) + 1]

(* One round of localView's loop: one Snapshot, from which both the state  *)
(* and the timestamp are taken.                                            *)
Sample(n, k) ==
  [state |-> Classify(Snapshot(n, k), Window, Threshold), lastTS |-> Len(hist[n][k])]

(* The map of a peer's samples is made anew for each of its protocols. *)
Mut_Read_fresh(b, n, k) ==
  [todo |-> b.todo \ {k}, samples |-> [x \in {k} |-> Sample(n, k)]]

Read(b, n, k) ==
  [todo |-> b.todo \ {k},
   samples |-> [x \in DOMAIN b.samples \cup {k} |->
                  IF x = k THEN Sample(n, k) ELSE b.samples[x]]]

View(samples) == [reachable |-> TRUE, samples |-> samples]
Unreachable == [reachable |-> FALSE, samples |-> Empty]

Put(m, p, v) == [x \in DOMAIN m \cup {p} |-> IF x = p THEN v ELSE m[x]]

Init ==
  /\ hist = [n \in Node |-> [k \in Key |-> <<>>]]
  /\ born = [n \in Node |-> [k \in Key |-> 0]] /\ starts = 0
  /\ call = "idle"
  /\ local = NoCall
  /\ fetch = [p \in PeersOf[Me] |-> [pc |-> "over"]]
  /\ mv = Empty
  /\ shown = Empty

-----------------------------------------------------------------------------
(* The scheduler of some node records a result. *)
Record(n, k, o) ==
  /\ Cardinality({x \in Node \X Key \X (1 .. MaxResults) :
                    x[3] <= Len(hist[x[1]][x[2]])}) < MaxResults
  /\ hist' = [hist EXCEPT ![n][k] = Append(@, [out |-> o, life |-> born[n]])]
  /\ UNCHANGED <<born, starts, call, local, fetch, mv, shown>>

(* A peer is stopped or dies, and is started again.  An answer that was    *)
(* complete may be on its way; another one never comes.                    *)
Restart(n) ==
  /\ n # Me /\ starts < MaxStarts
  /\ starts' = starts + 1
  /\ born' = [born EXCEPT ![n] = [k \in Key |-> Len(hist[n][k])]]
  /\ fetch' = [p \in PeersOf[Me] |->
                 IF p = n /\ fetch[p].pc = "serving" /\ fetch[p].view.todo # {}
                 THEN [pc |-> "broken"] ELSE fetch[p]]
  /\ UNCHANGED <<hist, call, local, mv, shown>>

(* Aggregate begins, and localView takes the keys of the store. *)
Begin ==
  /\ call = "idle"
  /\ call' = "local"
  /\ local' = Building(Me)
  /\ UNCHANGED <<hist, born, starts, fetch, mv, shown>>

ReadLocal(k) ==
  /\ call = "local"
  /\ k \in local.todo
  /\ local' = Read(local, Me, k)
  /\ UNCHANGED <<hist, born, starts, call, fetch, mv, shown>>

(* The new merged view has the local one in it; a goroutine per peer is    *)
(* started.                                                                *)
FanOut ==
  /\ call = "local"
  /\ local.todo = {}
  /\ call' = "fetch"
  /\ mv' = Put(Empty, Me, View(local.samples))
  /\ local' = NoCall
  /\ fetch' = [p \in PeersOf[Me] |-> [pc |-> "sent"]]
  /\ UNCHANGED <<hist, born, starts, shown>>

(* The status handler of p: peerCNCheck lets in the names that p's         *)
(* configuration lists and p itself; then p's own localView begins.        *)
Serve(p) ==
  /\ fetch[p].pc = "sent"
  /\ Me \in PeersOf[p] \cup {p}
  /\ fetch' = [fetch EXCEPT ![p] = [pc |-> "serving", view |-> Building(p)]]
  /\ UNCHANGED <<hist, born, starts, call, local, mv, shown>>

ReadRemote(p, k) ==
  /\ fetch[p].pc = "serving"
  /\ k \in fetch[p].view.todo
  /\ fetch' = [fetch EXCEPT ![p] = [pc |-> "serving", view |-> Read(fetch[p].view, p, k)]]
  /\ UNCHANGED <<hist, born, starts, call, local, mv, shown>>

(* The answer arrives before the timeout and is merged under the mutex. *)
Merge(p) ==
  /\ fetch[p].pc = "serving"
  /\ fetch[p].view.todo = {}
  /\ mv' = Put(mv, p, View(fetch[p].view.samples))
  /\ fetch' = [fetch EXCEPT ![p] = [pc |-> "over"]]
  /\ UNCHANGED <<hist, born, starts, call, local, shown>>

(* A fetch that fails leaves no entry. *)
Mut_Fail_drops(p) ==
  /\ fetch[p].pc \in {"sent", "serving", "broken"}
  /\ fetch' = [fetch EXCEPT ![p] = [pc |-> "over"]]
  /\ UNCHANGED <<hist, born, starts, call, local, mv, shown>>

(* Fetch returns an error: no connection, the 2 s timeout of the call or   *)
(* of the client, a status other than 200 (403 from peerCNCheck), or a     *)
(* body that does not decode.                                              *)
Fail(p) ==
  /\ fetch[p].pc \in {"sent", "serving", "broken"}
  /\ mv' = Put(mv, p, Unreachable)
  /\ fetch' = [fetch EXCEPT ![p] = [pc |-> "over"]]
  /\ UNCHANGED <<hist, born, starts, call, local, shown>>

(* Aggregate waits for an answer of every peer, without a timeout. *)
Mut_Return_allAnswered ==
  /\ call = "fetch"
  /\ \A p \in PeersOf[Me] : fetch[p].pc = "over" /\ mv[p].reachable
  /\ call' = "idle"
  /\ shown' = mv
  /\ mv' = Empty
  /\ UNCHANGED <<hist, born, starts, local, fetch>>

(* wg.Wait() returns and Aggregate with it. *)
Return ==
  /\ call = "fetch"
  /\ \A p \in PeersOf[Me] : fetch[p].pc = "over"
  /\ call' = "idle"
  /\ shown' = mv
  /\ mv' = Empty
  /\ UNCHANGED <<hist, born, starts, local, fetch>>

Next ==
  \/ \E n \in Node, k \in Key, o \in Outcome : Record(n, k, o)
  \/ \E n \in Node : Restart(n)
  \/ Begin \/ FanOut \/ Return
  \/ \E k \in Key : ReadLocal(k)
  \/ \E p \in PeersOf[Me] :
       \/ Serve(p) \/ Merge(p) \/ Fail(p)
       \/ \E k \in Key : ReadRemote(p, k)

Spec == Init /\ [][Next]_aggVars

(* Goroutines run, and every fetch ends: its context has a timeout. *)
Fairness ==
  /\ WF_aggVars(\E k \in Key : ReadLocal(k))
  /\ WF_aggVars(FanOut)
  /\ \A p \in PeersOf[Me] : WF_aggVars(Merge(p) \/ Fail(p))
  /\ WF_aggVars(Return)

FairSpec == Spec /\ Fairness

-----------------------------------------------------------------------------
Entries == [state : {Unknown, Up, Degraded, Down}, lastTS : Nat \ {0}]

(* Samples that n may have given. *)
IsSamples(n, s) ==
  /\ DOMAIN s \subseteq Key
  /\ \A k \in DOMAIN s : s[k] \in Entries /\ s[k].lastTS <= Len(hist[n][k])
IsBuilder(n, b) == b.todo \subseteq Key /\ IsSamples(n, b.samples)
IsMesh(m) ==
  /\ DOMAIN m \subseteq Node
  /\ \A n \in DOMAIN m : m[n].reachable \in BOOLEAN /\ IsSamples(n, m[n].samples)

(* The histories, the views and the requests in progress are well formed,  *)
(* and no entry is newer than what has been recorded.                      *)
TypeOK ==
  /\ hist \in [Node -> [Key -> Seq(Results)]]
  /\ born \in [Node -> [Key -> Nat]]
  /\ \A n \in Node, k \in Key : born[n][k] <= Len(hist[n][k])
  /\ starts \in 0 .. MaxStarts
  /\ call \in {"idle", "local", "fetch"}
  /\ IsBuilder(Me, local)
  /\ DOMAIN fetch = PeersOf[Me]
  /\ \A p \in PeersOf[Me] : \/ fetch[p].pc \in {"sent", "broken", "over"}
                            \/ fetch[p].pc = "serving" /\ IsBuilder(p, fetch[p].view)
  /\ IsMesh(mv) /\ IsMesh(shown)

(* Each entry of a view is one that its observer's store really had at one *)
(* time: its state is the classification of the results up to and          *)
(* including the one that its timestamp names, and all entries of an       *)
(* observer are of one life of it, however many results were recorded and  *)
(* whoever was restarted while the view was put together.                  *)
EntriesConsistent ==
  \A n \in DOMAIN shown :
    LET s == shown[n].samples
        life(k) == hist[n][k][s[k].lastTS].life
    IN  \A k \in DOMAIN s :
          /\ s[k].lastTS \in 1 .. Len(hist[n][k])
          /\ s[k].state = Classify(Outcomes(n, k, life(k)[k] + 1, s[k].lastTS),
                                   Window, Threshold)
          /\ \A j \in DOMAIN s : life(j) = life(k)

(* From one view of an event stream to the next, an observer that is       *)
(* reachable in both never shows an older result, and loses a pair only    *)
(* when a restart has made it forget the result that was shown: no answer  *)
(* to an earlier call is merged into a later one.                          *)
NoStepBack ==
  [][\A n \in DOMAIN shown \cap DOMAIN shown' :
       (shown[n].reachable /\ (shown[n].reachable)') =>
         \A k \in DOMAIN shown[n].samples :
           LET ts == shown[n].samples[k].lastTS
           IN  IF k \in DOMAIN shown'[n].samples
               THEN shown'[n].samples[k].lastTS >= ts
               ELSE ts <= born[n][k]]_aggVars

(* A view that is shown has an entry for the node itself and for each of   *)
(* its peers, the unreachable ones included.                               *)
EveryPeerShown == shown # Empty => DOMAIN shown = {Me} \cup PeersOf[Me]

(* Aggregate returns, whatever the peers do. *)
AggregateReturns == call # "idle" ~> call = "idle"
=============================================================================
