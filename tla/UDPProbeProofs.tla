--------------------------- MODULE UDPProbeProofs ---------------------------
(***************************************************************************)
(* Proofs about UDPProbe: for any hosts, clocks, steps forward of the wall *)
(* clock, and any window and TTL with 2 * Window <= TTL, the server echoes *)
(* no request twice between two of its starts, and no probe succeeds on    *)
(* the echo of another.                                                    *)
(***************************************************************************)
EXTENDS UDPProbe, TLAPS

(* A datagram on its way to the server belongs to a call that was made,    *)
(* and all copies of it carry the same timestamp.                          *)
Sent ==
  /\ \A q \in requests : probe[q.nonce] # New
  /\ \A q1, q2 \in requests : q1.nonce = q2.nonce => q1.ts = q2.ts
  /\ \A p \in Probe : probe[p] = New => echoes[p] = 0

(* Why the cache is large enough.  Once this life of the server has echoed *)
(* a request, either its timestamp is past the window for good, or its     *)
(* nonce is in the cache with an entry not older than the lower end of the *)
(* window: seen + offset is a lower bound of what the wall clock showed    *)
(* when it was echoed.                                                     *)
Covered ==
  \A q \in requests :
    echoes[q.nonce] > before[q.nonce] =>
      \/ mono + offset > q.ts + Window
      \/ /\ q.nonce \in DOMAIN seen
         /\ seen[q.nonce] + offset >= q.ts - Window

(* A response means that the server has echoed the nonce in it. *)
Answered ==
  \A m \in responses : m.host \in Allowed /\ echoes[m.nonce] > 0

(* A successful call was echoed, and its host is listed and has the key. *)
Echoed ==
  \A p \in Probe :
    probe[p].pc = "ok" => echoes[p] > 0 /\ probe[p].host \in Allowed \cap Keyed

(* The inductive invariant. *)
IInv == TypeOK /\ Sent /\ Covered /\ EchoAtMostOnce /\ Answered /\ Echoed

LEMMA InitHolds == Init => IInv
<1> SUFFICES ASSUME Init PROVE IInv
  OBVIOUS
<1>1. TypeOK
  BY UDPAssumption DEF Init, TypeOK, ProbeState
<1>2. Sent /\ Covered /\ EchoAtMostOnce /\ Answered
  BY DEF Init, Sent, Covered, EchoAtMostOnce, Answered
<1>3. Echoed
  BY DEF Init, Echoed, New
<1>4. QED
  BY <1>1, <1>2, <1>3 DEF IInv

(* A step of one call that leaves the server alone, sends nothing and ends *)
(* the call.                                                               *)
LEMMA CallEnds ==
  ASSUME IInv, NEW p \in Probe, probe[p] = New \/ Waiting(p),
         NEW s \in ProbeState, s # New, probe' = [probe EXCEPT ![p] = s],
         s.pc = "ok" => echoes[p] > 0 /\ s.host \in Allowed \cap Keyed,
         UNCHANGED <<mono, offset, requests, responses, seen, echoes, before>>
  PROVE  IInv'
<1> USE DEF IInv
<1>1. probe' \in [Probe -> ProbeState] /\ \A q \in Probe \ {p} : probe'[q] = probe[q]
  BY DEF TypeOK
<1>2. probe'[p] = s
  BY DEF TypeOK
<1>3. TypeOK'
  BY <1>1 DEF TypeOK
<1>4. \A q \in requests : q.nonce \in Probe
  BY DEF TypeOK, Requests
<1>5. Sent'
  BY <1>1, <1>2, <1>4 DEF Sent
<1>6. Covered' /\ EchoAtMostOnce' /\ Answered'
  BY DEF Covered, EchoAtMostOnce, Answered
<1>7. Echoed'
  BY <1>1, <1>2 DEF Echoed
<1>8. QED
  BY <1>3, <1>5, <1>6, <1>7

LEMMA StartStep ==
  ASSUME IInv, NEW p \in Probe, NEW h \in Host, NEW port \in Port, NEW skew \in Skews,
         Start(p, h, port, skew)
  PROVE  IInv'
<1> DEFINE s == [pc |-> "wait", host |-> h, port |-> port, start |-> mono, ts |-> mono + skew]
           r == [nonce |-> p, ts |-> mono + skew, host |-> h, port |-> port,
                 keyed |-> h \in Keyed]
<1> USE DEF IInv
<1>1. mono \in Int /\ mono + skew \in Int
  BY UDPAssumption DEF TypeOK
<1>2. s \in ProbeState /\ s.pc = "wait" /\ s # New
  <2>1. s \in ProbeState
    BY <1>1 DEF ProbeState
  <2>2. s.pc = "wait"
    OBVIOUS
  <2>3. New.pc = "new"
    BY DEF New
  <2>4. QED
    BY <2>1, <2>2, <2>3
<1>3. r \in Requests /\ r.nonce = p
  BY <1>1 DEF Requests
<1>4. /\ probe[p] = New /\ probe' = [probe EXCEPT ![p] = s]
      /\ requests' = requests \cup {r}
      /\ UNCHANGED <<mono, offset, responses, seen, echoes, before>>
  BY DEF Start
<1> HIDE DEF s, r
<1>5. probe'[p] = s /\ \A q \in Probe \ {p} : probe'[q] = probe[q]
  BY <1>4 DEF TypeOK
<1>6. TypeOK'
  <2>1. probe' \in [Probe -> ProbeState] /\ requests' \subseteq Requests
    BY <1>2, <1>3, <1>4 DEF TypeOK
  <2>2. QED
    BY <1>4, <2>1 DEF TypeOK
<1>7. \A q \in requests : q.nonce \in Probe /\ q.nonce # p
  BY <1>4 DEF TypeOK, Requests, Sent
<1>8. Sent'
  BY <1>2, <1>3, <1>4, <1>5, <1>7 DEF Sent
<1>9. Covered'
  <2>1. echoes[p] = 0 /\ before[p] = 0
    BY <1>4 DEF Sent, TypeOK
  <2>2. QED
    BY <1>3, <1>4, <2>1 DEF Covered
<1>10. EchoAtMostOnce' /\ Answered'
  BY <1>4 DEF EchoAtMostOnce, Answered
<1>11. Echoed'
  BY <1>2, <1>4, <1>5 DEF Echoed
<1>12. QED
  BY <1>6, <1>8, <1>9, <1>10, <1>11

(* The end of a call by a response, an error or the deadline.              *)
LEMMA CallStep ==
  ASSUME IInv, NEW p \in Probe,
         StartFails(p) \/ ReadFails(p) \/ TimeOut(p) \/ \E m \in responses : Read(p, m)
  PROVE  IInv'
<1> USE DEF IInv
<1>1. New.pc = "new"
  BY DEF New
<1>2. CASE StartFails(p)
  <2> DEFINE s == [pc |-> "failed"]
  <2>1. s \in ProbeState /\ s.pc = "failed"
    BY DEF ProbeState
  <2>2. /\ probe[p] = New /\ probe' = [probe EXCEPT ![p] = s]
        /\ UNCHANGED <<mono, offset, requests, responses, seen, echoes, before>>
    BY <1>2 DEF StartFails
  <2> HIDE DEF s
  <2>3. QED
    BY <1>1, <2>1, <2>2, CallEnds
<1>3. ASSUME NEW c \in {"ok", "failed"}, Waiting(p),
             probe' = [probe EXCEPT ![p].pc = c],
             c = "ok" => echoes[p] > 0 /\ probe[p].host \in Allowed \cap Keyed,
             UNCHANGED <<mono, offset, requests, responses, seen, echoes, before>>
      PROVE  IInv'
  <2> DEFINE s == [probe[p] EXCEPT !.pc = c]
  <2>1. probe[p] \in [pc : {"wait", "ok", "failed"}, host : Host, port : Port,
                      start : Int, ts : Int]
    <3>1. probe[p] \in ProbeState /\ probe[p].pc = "wait"
      BY <1>3 DEF TypeOK, Waiting
    <3>2. QED
      BY <1>1, <3>1 DEF ProbeState
  <2>2. s \in ProbeState /\ s.pc = c /\ s.host = probe[p].host
    BY <2>1 DEF ProbeState
  <2>3. probe' = [probe EXCEPT ![p] = s]
    BY <1>3
  <2> HIDE DEF s
  <2>4. s # New
    BY <1>1, <1>3, <2>2
  <2>5. QED
    BY <1>3, <2>2, <2>3, <2>4, CallEnds
<1>4. CASE ReadFails(p) \/ TimeOut(p)
  BY <1>3, <1>4 DEF ReadFails, TimeOut
<1>5. ASSUME NEW m \in responses, Read(p, m)
      PROVE  IInv'
  <2> DEFINE c == IF DecodeResponse(m) /\ m.nonce = p THEN "ok" ELSE "failed"
  <2>1. c = "ok" => echoes[p] > 0 /\ probe[p].host \in Allowed \cap Keyed
    BY <1>5 DEF Read, DecodeResponse, Answered
  <2>2. c \in {"ok", "failed"} /\ probe' = [probe EXCEPT ![p].pc = c]
    BY <1>5 DEF Read
  <2> HIDE DEF c
  <2>3. QED
    BY <1>3, <1>5, <2>1, <2>2 DEF Read
<1>6. QED
  BY <1>2, <1>4, <1>5

(* The heart of the matter: a request that is accepted and whose nonce is  *)
(* not in the cache has not been echoed since the server was started.      *)
LEMMA FirstEcho ==
  ASSUME IInv, NEW q \in requests, Accepts(q), q.nonce \notin Kept
  PROVE  echoes[q.nonce] = before[q.nonce]
<1> USE DEF IInv
<1>1. /\ q.nonce \in Probe /\ q.ts \in Int
      /\ mono \in Int /\ offset \in Int /\ Window \in Int /\ TTL \in Int
      /\ echoes[q.nonce] \in Nat /\ before[q.nonce] \in Nat
      /\ before[q.nonce] <= echoes[q.nonce]
  BY UDPAssumption DEF TypeOK, Requests
<1>2. mono + offset <= q.ts + Window
  BY <1>1 DEF Accepts, wall
<1>3. SUFFICES ASSUME echoes[q.nonce] > before[q.nonce] PROVE FALSE
  BY <1>1
<1>4. q.nonce \in DOMAIN seen /\ seen[q.nonce] + offset >= q.ts - Window
  BY <1>1, <1>2, <1>3 DEF Covered
<1>5. seen[q.nonce] \in Int /\ seen[q.nonce] < mono - TTL
  BY <1>4 DEF TypeOK, Kept
<1>6. QED
  BY <1>1, <1>2, <1>4, <1>5, CacheAssumption

(* An entry that SeenOrAdd evicts is no longer needed. *)
LEMMA EvictionSafe ==
  ASSUME IInv, NEW q \in requests, echoes[q.nonce] > before[q.nonce], q.nonce \notin Kept
  PROVE  mono + offset > q.ts + Window
<1> USE DEF IInv
<1>1. /\ q.ts \in Int /\ mono \in Int /\ offset \in Int /\ Window \in Int /\ TTL \in Int
  BY UDPAssumption DEF TypeOK, Requests
<1>2. CASE q.nonce \in DOMAIN seen /\ seen[q.nonce] + offset >= q.ts - Window
  <2>1. seen[q.nonce] \in Int /\ seen[q.nonce] < mono - TTL
    BY <1>2 DEF TypeOK, Kept
  <2>2. QED
    BY <1>1, <1>2, <2>1, CacheAssumption
<1>3. QED
  BY <1>2 DEF Covered

LEMMA HandleStep ==
  ASSUME IInv, NEW q \in requests, Handle(q)
  PROVE  IInv'
<1> USE DEF IInv
<1>1. /\ q.nonce \in Probe /\ q.ts \in Int /\ q.host \in Host /\ q.port \in Port
      /\ q.host \in Allowed
      /\ mono \in 0 .. MaxTime /\ offset \in Int /\ Window \in Int
      /\ UNCHANGED <<mono, offset, probe, requests, before>>
  BY UDPAssumption DEF TypeOK, Requests, Handle, Accepts
<1>2. Kept \subseteq DOMAIN seen
  BY DEF Kept
<1>3. CASE q.nonce \in Kept
  <2>1. seen' = [n \in Kept |-> seen[n]] /\ UNCHANGED <<echoes, responses>>
    BY <1>3 DEF Handle
  <2>2. DOMAIN seen' = Kept /\ \A n \in Kept : seen'[n] = seen[n]
    BY <2>1
  <2>3. TypeOK'
    BY <1>1, <1>2, <2>1, <2>2 DEF TypeOK
  <2>4. Covered'
    <3> SUFFICES ASSUME NEW r \in requests, echoes[r.nonce] > before[r.nonce]
                 PROVE  \/ mono + offset > r.ts + Window
                        \/ /\ r.nonce \in DOMAIN seen'
                           /\ seen'[r.nonce] + offset >= r.ts - Window
      BY <1>1, <2>1 DEF Covered
    <3>1. CASE r.nonce \in Kept
      BY <2>2, <3>1 DEF Covered
    <3>2. CASE r.nonce \notin Kept
      BY <3>2, EvictionSafe
    <3>3. QED
      BY <3>1, <3>2
  <2>5. Sent' /\ EchoAtMostOnce' /\ Answered' /\ Echoed'
    BY <1>1, <2>1 DEF Sent, EchoAtMostOnce, Answered, Echoed
  <2>6. QED
    BY <2>3, <2>4, <2>5
<1>4. CASE q.nonce \notin Kept
  <2> DEFINE m == [nonce |-> q.nonce, ts |-> wall, host |-> q.host, port |-> q.port]
  <2>1. /\ seen' = [n \in Kept \cup {q.nonce} |-> IF n = q.nonce THEN mono ELSE seen[n]]
        /\ echoes' = [echoes EXCEPT ![q.nonce] = @ + 1]
        /\ responses' = responses \cup {m}
    BY <1>4 DEF Handle
  <2>2. m \in Responses /\ m.nonce = q.nonce /\ m.host = q.host
    BY <1>1 DEF Responses, wall
  <2> HIDE DEF m
  <2>3. /\ DOMAIN seen' = Kept \cup {q.nonce} /\ seen'[q.nonce] = mono
        /\ \A n \in Kept : n # q.nonce => seen'[n] = seen[n]
    BY <2>1
  <2>4. echoes[q.nonce] = before[q.nonce] /\ before[q.nonce] \in Nat
    BY <1>1, <1>4, FirstEcho DEF Handle, TypeOK
  <2>5. /\ echoes' \in [Probe -> Nat] /\ echoes'[q.nonce] = before[q.nonce] + 1
        /\ \A p \in Probe : p # q.nonce => echoes'[p] = echoes[p]
    BY <1>1, <2>1, <2>4 DEF TypeOK
  <2>6. TypeOK'
    <3>1. \A n \in DOMAIN seen' : seen'[n] \in 0 .. mono
      BY <1>1, <1>2, <2>3 DEF TypeOK
    <3>2. DOMAIN seen' \subseteq Probe
      BY <1>1, <1>2, <2>3 DEF TypeOK
    <3>3. responses' \subseteq Responses
      BY <2>1, <2>2 DEF TypeOK
    <3>4. QED
      BY <1>1, <2>5, <3>1, <3>2, <3>3 DEF TypeOK
  <2>7. Sent'
    BY <1>1, <2>5 DEF Sent
  <2>8. Covered'
    <3> SUFFICES ASSUME NEW r \in requests, echoes'[r.nonce] > before[r.nonce]
                 PROVE  \/ mono + offset > r.ts + Window
                        \/ /\ r.nonce \in DOMAIN seen'
                           /\ seen'[r.nonce] + offset >= r.ts - Window
      BY <1>1 DEF Covered
    <3>0. r.nonce \in Probe /\ r.ts \in Int
      BY DEF TypeOK, Requests
    <3>1. CASE r.nonce = q.nonce
      <4>1. r.ts = q.ts
        BY <3>1 DEF Sent
      <4>2. mono + offset >= q.ts - Window
        BY <1>1 DEF Handle, Accepts, wall
      <4>3. QED
        BY <2>3, <3>1, <4>1, <4>2
    <3>2. CASE r.nonce # q.nonce /\ r.nonce \in Kept
      BY <2>3, <2>5, <3>0, <3>2 DEF Covered
    <3>3. CASE r.nonce # q.nonce /\ r.nonce \notin Kept
      BY <2>5, <3>0, <3>3, EvictionSafe
    <3>4. QED
      BY <3>1, <3>2, <3>3
  <2>9. EchoAtMostOnce'
    BY <1>1, <2>5 DEF EchoAtMostOnce
  <2>10. echoes'[q.nonce] > 0 /\ \A p \in Probe : echoes[p] > 0 => echoes'[p] > 0
    BY <2>4, <2>5
  <2>11. Answered'
    <3>1. \A r \in responses : r.nonce \in Probe
      BY DEF TypeOK, Responses
    <3>2. QED
      BY <1>1, <2>1, <2>2, <2>5, <2>10, <3>1 DEF Answered
  <2>12. Echoed'
    BY <1>1, <2>10 DEF Echoed
  <2>13. QED
    BY <2>6, <2>7, <2>8, <2>9, <2>11, <2>12
<1>5. QED
  BY <1>3, <1>4

(* A restart forgets the nonces, and nothing has been echoed since. *)
LEMMA RestartStep ==
  ASSUME IInv, Restart
  PROVE  IInv'
<1> USE DEF IInv
<1>1. /\ seen' = [p \in {} |-> 0] /\ before' = echoes
      /\ UNCHANGED <<mono, offset, probe, requests, responses, echoes>>
  BY DEF Restart
<1>2. DOMAIN seen' = {}
  BY <1>1
<1>3. \A p \in Probe : echoes[p] \in Nat
  BY DEF TypeOK
<1>4. TypeOK'
  BY <1>1, <1>2, <1>3 DEF TypeOK
<1>5. Covered'
  <2>1. \A q \in requests : q.nonce \in Probe
    BY DEF TypeOK, Requests
  <2>2. QED
    BY <1>1, <1>3, <2>1 DEF Covered
<1>6. EchoAtMostOnce'
  BY <1>1, <1>3 DEF EchoAtMostOnce
<1>7. Sent' /\ Answered' /\ Echoed'
  BY <1>1 DEF Sent, Answered, Echoed
<1>8. QED
  BY <1>4, <1>5, <1>6, <1>7

(* Both clocks only move forward, which is what Covered needs. *)
LEMMA ClockStep ==
  ASSUME IInv, Tick \/ \E d \in Steps : StepClock(d)
  PROVE  IInv'
<1> USE DEF IInv
<1>1. /\ mono \in Nat /\ offset \in Nat /\ Window \in Int
      /\ mono' \in 0 .. MaxTime /\ offset' \in 0 .. MaxOffset
      /\ mono' >= mono /\ offset' >= offset
      /\ UNCHANGED <<probe, requests, responses, seen, echoes, before>>
  BY UDPAssumption DEF TypeOK, Tick, StepClock
<1>2. \A n \in DOMAIN seen : seen[n] \in Int /\ seen[n] \in 0 .. mono'
  BY <1>1 DEF TypeOK
<1>3. TypeOK'
  BY <1>1, <1>2 DEF TypeOK
<1>4. Covered'
  <2> SUFFICES ASSUME NEW r \in requests, echoes[r.nonce] > before[r.nonce]
               PROVE  \/ mono' + offset' > r.ts + Window
                      \/ /\ r.nonce \in DOMAIN seen
                         /\ seen[r.nonce] + offset' >= r.ts - Window
    BY <1>1 DEF Covered
  <2>1. r.ts \in Int
    BY DEF TypeOK, Requests
  <2>2. QED
    BY <1>1, <1>2, <2>1 DEF Covered
<1>5. Sent' /\ EchoAtMostOnce' /\ Answered' /\ Echoed'
  BY <1>1 DEF Sent, EchoAtMostOnce, Answered, Echoed
<1>6. QED
  BY <1>3, <1>4, <1>5

(* IInv is an invariant of the UDP check. *)
LEMMA Invariance == Spec => []IInv
<1>1. IInv /\ [Next]_udpVars => IInv'
  <2> SUFFICES ASSUME IInv, [Next]_udpVars PROVE IInv'
    OBVIOUS
  <2>1. CASE UNCHANGED udpVars
    BY <2>1 DEF udpVars, IInv, TypeOK, Sent, Covered, EchoAtMostOnce, Answered, Echoed
  <2>2. CASE Next
    BY <2>1, <2>2, StartStep, CallStep, HandleStep, RestartStep, ClockStep DEF Next, Horizon
  <2>3. QED
    BY <2>1, <2>2
<1>2. QED
  BY InitHolds, <1>1, PTL DEF Spec

(* Datagrams, cache and calls stay well formed. *)
THEOREM TypeCorrect == Spec => []TypeOK
<1>1. IInv => TypeOK
  BY DEF IInv
<1>2. QED
  BY Invariance, <1>1, PTL

(* No request is echoed twice between two starts of the server, for every  *)
(* window and TTL with 2 * Window <= TTL and every forward movement of the *)
(* wall clock.                                                             *)
THEOREM NoReplay == Spec => []EchoAtMostOnce
<1>1. IInv => EchoAtMostOnce
  BY DEF IInv
<1>2. QED
  BY Invariance, <1>1, PTL

(* No probe succeeds unless the server echoed that very probe. *)
THEOREM SuccessIsEchoed == Spec => []OKMeansEchoed
<1>1. IInv => OKMeansEchoed
  BY DEF IInv, Echoed, OKMeansEchoed
<1>2. QED
  BY Invariance, <1>1, PTL
=============================================================================
