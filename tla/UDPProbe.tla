------------------------------ MODULE UDPProbe ------------------------------
(***************************************************************************)
(* The UDP check: Prober.Probe (internal/pkg/probe/udp), the wire format   *)
(* and ReplayCache it shares with the server, and UDPEcho.handle           *)
(* (internal/pkg/server/probe), with the network between them.             *)
(*                                                                         *)
(* The server compares the timestamp of a request with its wall clock, and *)
(* the entries of its replay cache with its monotonic clock: a time.Time   *)
(* that came off the wire carries no monotonic reading, one that came from *)
(* time.Now() does.  The wall clock may be stepped (NTP), by the steps in  *)
(* Steps; a client's wall clock is off by one of Skews.                    *)
(*                                                                         *)
(* The network loses, delays, duplicates and reorders datagrams: what was  *)
(* sent stays deliverable.  Nonces are 16 random bytes; each probe is its  *)
(* own nonce here, so two probes never draw the same.                      *)
(***************************************************************************)
EXTENDS Integers, FiniteSets

CONSTANTS Probe,     \* calls of Prober.Probe, and their nonces
          Host,      \* the hosts that probe this server
          Allowed,   \* those whose IP is in allowedIPs
          Keyed,     \* those configured with the server's udpSharedSecret
          Port,      \* the ephemeral ports of a host
          Skews,     \* client wall clock minus true time
          Steps,     \* steps of the server's wall clock
          Window,    \* UDPEcho.tsWindow
          TTL,       \* ReplayCache.ttl
          Timeout,   \* Prober.Timeout
          MaxTime,   \* bound on the monotonic clock
          MaxOffset, \* bound on the sum of the steps
          MaxEchoes  \* bound: the server is not restarted after so many echoes of a probe

ASSUME UDPAssumption ==
  /\ Allowed \subseteq Host /\ Keyed \subseteq Host
  /\ Skews \subseteq Int
  /\ Steps \subseteq Nat           \* the wall clock is never set back
  /\ Window \in Nat /\ TTL \in Nat /\ Timeout \in Nat
  /\ MaxTime \in Nat /\ MaxOffset \in Nat /\ MaxEchoes \in Nat

(* NewUDPEcho: a cache of 60 s and a window of 30 s either way. *)
ASSUME CacheAssumption == 2 * Window <= TTL

VARIABLES mono,      \* true time, the monotonic clock of every host
          offset,    \* server wall clock minus mono
          probe,     \* probe[p]: the state of a call of Probe
          requests,  \* the datagrams sent to the server
          responses, \* the datagrams sent by the server
          seen,      \* ReplayCache.seen: when each nonce was added
          echoes,    \* echoes[p]: how often the nonce of p was echoed
          before     \* before[p]: how often by the time the server was last started

udpVars == <<mono, offset, probe, requests, responses, seen, echoes, before>>

wall == mono + offset

New == [pc |-> "new"]

ProbeState ==
  {New} \cup [pc : {"failed"}]
        \cup [pc : {"wait", "ok", "failed"}, host : Host, port : Port,
              start : Int, ts : Int]

Requests == [nonce: Probe, ts: Int, host: Host, port: Port, keyed: BOOLEAN]
Responses == [nonce: Probe, ts: Int, host: Host, port: Port]

Init ==
  /\ mono = 0 /\ offset = 0
  /\ probe = [p \in Probe |-> New]
  /\ requests = {} /\ responses = {}
  /\ seen = [p \in {} |-> 0]
  /\ echoes = [p \in Probe |-> 0]
  /\ before = [p \in Probe |-> 0]

-----------------------------------------------------------------------------
(* The prober. *)

Waiting(p) == probe[p].pc = "wait"

Expired(p) == probe[p].start + Timeout <= mono

(* Dial binds a port of the host that no other call has open; the request  *)
(* is signed with the secret of the host and written.                      *)
Start(p, h, port, skew) ==
  /\ probe[p] = New
  /\ mono + Timeout <= MaxTime
  /\ \A q \in Probe : Waiting(q) => <<probe[q].host, probe[q].port>> # <<h, port>>
  /\ probe' = [probe EXCEPT ![p] =
                 [pc |-> "wait", host |-> h, port |-> port,
                  start |-> mono, ts |-> mono + skew]]
  /\ requests' = requests \cup
       {[nonce |-> p, ts |-> mono + skew, host |-> h, port |-> port,
         keyed |-> h \in Keyed]}
  /\ UNCHANGED <<mono, offset, responses, seen, echoes, before>>

(* No nonce, an empty host name, or an error of Dial or Write. *)
StartFails(p) ==
  /\ probe[p] = New
  /\ probe' = [probe EXCEPT ![p] = [pc |-> "failed"]]
  /\ UNCHANGED <<mono, offset, requests, responses, seen, echoes, before>>

(* The prober's host checks the HMAC of a response, which the server has   *)
(* signed, with its own secret.                                            *)
DecodeResponse(m) == m.host \in Keyed

(* The nonce of the response is not compared. *)
Mut_Read_anyNonce(p, m) ==
  /\ Waiting(p)
  /\ mono <= probe[p].start + Timeout
  /\ <<m.host, m.port>> = <<probe[p].host, probe[p].port>>
  /\ probe' = [probe EXCEPT ![p].pc = IF DecodeResponse(m) THEN "ok" ELSE "failed"]
  /\ UNCHANGED <<mono, offset, requests, responses, seen, echoes, before>>

(* Read returns the first datagram that reaches the socket, and Probe      *)
(* settles on it: it must decode, and bear the nonce of this call.         *)
Read(p, m) ==
  /\ Waiting(p)
  /\ mono <= probe[p].start + Timeout
  /\ <<m.host, m.port>> = <<probe[p].host, probe[p].port>>
  /\ probe' = [probe EXCEPT ![p].pc =
                 IF DecodeResponse(m) /\ m.nonce = p THEN "ok" ELSE "failed"]
  /\ UNCHANGED <<mono, offset, requests, responses, seen, echoes, before>>

(* Read fails before the deadline: nobody listens on the port of the       *)
(* server, and the connected socket is told so, or the interface is down.  *)
ReadFails(p) ==
  /\ Waiting(p)
  /\ probe' = [probe EXCEPT ![p].pc = "failed"]
  /\ UNCHANGED <<mono, offset, requests, responses, seen, echoes, before>>

(* The deadline is set for a moment that never comes. *)
Mut_TimeOut_never(p) ==
  /\ Waiting(p)
  /\ probe[p].start + Timeout < mono
  /\ probe' = [probe EXCEPT ![p].pc = "failed"]
  /\ UNCHANGED <<mono, offset, requests, responses, seen, echoes, before>>

(* Read fails at the deadline. *)
TimeOut(p) ==
  /\ Waiting(p)
  /\ Expired(p)
  /\ probe' = [probe EXCEPT ![p].pc = "failed"]
  /\ UNCHANGED <<mono, offset, requests, responses, seen, echoes, before>>

-----------------------------------------------------------------------------
(* The server. *)

(* The server checks the HMAC of a request with its secret. *)
DecodeRequest(q) == q.keyed

(* handle, up to the replay cache: the source address, the HMAC, and the   *)
(* difference between the clocks (both comparisons are strict).            *)
Accepts(q) ==
  /\ q.host \in Allowed
  /\ DecodeRequest(q)
  /\ ~ (wall - q.ts > Window \/ wall - q.ts < - Window)

(* An entry as old as the TTL is evicted too early by a whole window. *)
Mut_Kept_short == {n \in DOMAIN seen : ~ seen[n] < mono - (TTL - Window)}

(* SeenOrAdd: the nonces that are not evicted (t.Before(cutoff)). *)
Kept == {n \in DOMAIN seen : ~ seen[n] < mono - TTL}

(* The cache records the wall clock. *)
Mut_Handle_wall(q) ==
  /\ Accepts(q)
  /\ q.nonce \notin Kept
  /\ seen' = [n \in Kept \cup {q.nonce} |-> IF n = q.nonce THEN wall ELSE seen[n]]
  /\ echoes' = [echoes EXCEPT ![q.nonce] = @ + 1]
  /\ responses' = responses \cup
       {[nonce |-> q.nonce, ts |-> wall, host |-> q.host, port |-> q.port]}
  /\ UNCHANGED <<mono, offset, probe, requests, before>>

(* handle, from the replay cache on.  The one goroutine of Run handles one *)
(* datagram after the other.  A rejected datagram leaves no trace other    *)
(* than the eviction that SeenOrAdd starts with.                           *)
Handle(q) ==
  /\ Accepts(q)
  /\ IF q.nonce \in Kept
     THEN /\ seen' = [n \in Kept |-> seen[n]]
          /\ UNCHANGED <<echoes, responses>>
     ELSE /\ seen' = [n \in Kept \cup {q.nonce} |->
                        IF n = q.nonce THEN mono ELSE seen[n]]
          /\ echoes' = [echoes EXCEPT ![q.nonce] = @ + 1]
          /\ responses' = responses \cup
               {[nonce |-> q.nonce, ts |-> wall, host |-> q.host, port |-> q.port]}
  /\ UNCHANGED <<mono, offset, probe, requests, before>>

(* The server process is stopped or dies, and is started again: the cache  *)
(* was in its memory.                                                      *)
Restart ==
  /\ seen # [p \in {} |-> 0]
  /\ \A p \in Probe : echoes[p] < MaxEchoes
  /\ seen' = [p \in {} |-> 0]
  /\ before' = echoes
  /\ UNCHANGED <<mono, offset, probe, requests, responses, echoes>>

-----------------------------------------------------------------------------
(* Time passes; the runtime ends a Read no later than its deadline. *)
Tick ==
  /\ mono < MaxTime
  /\ \A p \in Probe : Waiting(p) => ~ Expired(p)
  /\ mono' = mono + 1
  /\ UNCHANGED <<offset, probe, requests, responses, seen, echoes, before>>

StepClock(d) ==
  /\ offset + d <= MaxOffset
  /\ offset' = offset + d
  /\ UNCHANGED <<mono, probe, requests, responses, seen, echoes, before>>

(* Every call has ended or can no longer be made, and the clock stands at  *)
(* its bound.                                                              *)
Horizon ==
  /\ mono = MaxTime
  /\ UNCHANGED udpVars

Next ==
  \/ \E p \in Probe :
       \/ \E h \in Host, port \in Port, skew \in Skews : Start(p, h, port, skew)
       \/ StartFails(p) \/ ReadFails(p) \/ TimeOut(p)
       \/ \E m \in responses : Read(p, m)
  \/ \E q \in requests : Handle(q)
  \/ Restart \/ Tick \/ Horizon
  \/ \E d \in Steps : StepClock(d)

Spec == Init /\ [][Next]_udpVars

(* Time does not stop and the deadline of a Read is enforced. *)
FairSpec == Spec /\ WF_udpVars(Tick) /\ \A p \in Probe : WF_udpVars(TimeOut(p))

-----------------------------------------------------------------------------
(* Well-formed datagrams, cache and calls. *)
TypeOK ==
  /\ mono \in 0 .. MaxTime /\ offset \in 0 .. MaxOffset
  /\ probe \in [Probe -> ProbeState]
  /\ requests \subseteq Requests /\ responses \subseteq Responses
  /\ DOMAIN seen \subseteq Probe
  /\ \A n \in DOMAIN seen : seen[n] \in 0 .. mono
  /\ echoes \in [Probe -> Nat] /\ before \in [Probe -> Nat]
  /\ \A p \in Probe : before[p] <= echoes[p]

(* Between two starts of the server a request is echoed at most once,      *)
(* however often the network delivers it: by the time its nonce leaves the *)
(* cache its timestamp has left the window, whatever the client's clock    *)
(* said and however the server's wall clock was moved forward.             *)
EchoAtMostOnce == \A p \in Probe : echoes[p] <= before[p] + 1

(* A probe is recorded as a success only if the server, in this life or an *)
(* earlier one, echoed that very probe, sent by a listed host with the     *)
(* right secret: never on a late or duplicated response to an earlier      *)
(* probe from the same port.                                               *)
OKMeansEchoed ==
  \A p \in Probe :
    probe[p].pc = "ok" =>
      /\ echoes[p] > 0
      /\ probe[p].host \in Allowed \cap Keyed

(* Every call of Probe that waits for a response comes to an end. *)
ProbeEnds == \A p \in Probe : Waiting(p) ~> ~ Waiting(p)
=============================================================================
