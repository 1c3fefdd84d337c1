---------------------------- MODULE ServeProofs ----------------------------
(***************************************************************************)
(* Theorems about Serve, for any number of clients with event streams: the *)
(* goroutines of the listeners never block on errCh, and runServe returns  *)
(* only when every socket is closed and every stream has ended, unless the *)
(* grace period is over.                                                   *)
(***************************************************************************)
EXTENDS Serve, TLAPS

Control ==
  /\ pc \in {"start", "wait", "shut", "close", "returned"}
  /\ result \in {"none", "ok", "error"}
  /\ server \in [HTTP -> {"new", "open", "unbound", "lost", "closed"}]
  /\ listener \in [Goroutine -> {"none", "serve", "report", "ended"}]
  /\ errCh \in Nat /\ shut \in 0 .. 3
  /\ graceOver \in BOOLEAN
  /\ stream \in [Client -> {"closed", "emit", "select"}]
  /\ pc = "start" => \A g \in Goroutine : listener[g] = "none"

(* Each goroutine reports once. *)
Reports(g) == IF listener[g] = "ended" THEN 1 ELSE 0

Counted ==
  errCh = Reports("interhost") + Reports("ui") + Reports("probe") + Reports("udp-echo")

(* What has been closed by the time that runServe has come so far. *)
ClosedInOrder ==
  /\ shut >= 1 => server["interhost"] = "closed"
  /\ shut >= 2 => server["ui"] = "closed"
  /\ shut >= 3 => server["probe"] = "closed"
  /\ pc = "close" => shut = 3 /\ udp = "closed"
  /\ result = "ok" => pc = "returned" /\ shut = 3 /\ udp = "closed"

(* Once the server of the UI has been shut down it has no streams, and as  *)
(* its socket is closed there will be none.                                *)
NoStreamLeft == shut >= 2 => graceOver \/ \A c \in Client : stream[c] = "closed"

(* The inductive invariant. *)
IInv == Control /\ Counted /\ ClosedInOrder /\ NoStreamLeft

LEMMA InitHolds == Init => IInv
<1> SUFFICES ASSUME Init PROVE IInv
  OBVIOUS
<1>1. Control
  <2>1. graceOver \in BOOLEAN /\ errCh = 0 /\ shut = 0
    BY DEF Init
  <2>2. /\ server \in [HTTP -> {"new", "open", "unbound", "lost", "closed"}]
        /\ listener \in [Goroutine -> {"none", "serve", "report", "ended"}]
        /\ stream \in [Client -> {"closed", "emit", "select"}]
        /\ \A g \in Goroutine : listener[g] = "none"
    BY DEF Init, StreamInit
  <2>3. pc = "start" /\ result = "none"
    BY DEF Init
  <2>4. QED
    BY <2>1, <2>2, <2>3 DEF Control
<1>2. Counted
  BY DEF Init, Counted, Reports, Goroutine, HTTP
<1>3. ClosedInOrder /\ NoStreamLeft
  BY DEF Init, ClosedInOrder, NoStreamLeft
<1>4. QED
  BY <1>1, <1>2, <1>3 DEF IInv

(* The four goroutines of the listeners. *)
LEMMA Goroutines ==
  /\ "interhost" \in Goroutine /\ "ui" \in Goroutine /\ "probe" \in Goroutine
  /\ "udp-echo" \in Goroutine
  /\ \A g \in Goroutine : g \in {"interhost", "ui", "probe", "udp-echo"}
BY DEF Goroutine, HTTP

(* The steps of runServe up to the shutdown, and those of the environment. *)
LEMMA StartStep ==
  ASSUME IInv, StartFails \/ Start \/ Signal \/ Wake \/ GraceEnds
  PROVE  IInv'
<1>1. UNCHANGED <<server, errCh, shut, stream>> /\ result' \in {result, "error"}
  BY DEF StartFails, Start, Signal, Wake, GraceEnds, streamVars
<1>2. Control'
  BY <1>1 DEF StartFails, Start, Signal, Wake, GraceEnds, IInv, Control
<1>3. Counted'
  <2>1. CASE Start
    <3>1. \A g \in Goroutine : listener'[g] # "ended" /\ listener[g] # "ended"
      BY <2>1 DEF Start, IInv, Control
    <3>2. QED
      BY <1>1, <3>1, Goroutines DEF IInv, Counted, Reports
  <2>2. CASE ~ Start
    BY <1>1, <2>2 DEF StartFails, Start, Signal, Wake, GraceEnds, IInv, Counted, Reports
  <2>3. QED
    BY <2>1, <2>2
<1>4. ClosedInOrder' /\ NoStreamLeft'
  BY <1>1 DEF StartFails, Start, Signal, Wake, GraceEnds, IInv, Control, ClosedInOrder,
              NoStreamLeft
<1>5. QED
  BY <1>2, <1>3, <1>4 DEF IInv

(* The shutdown: one server after the other, and the UDP socket last.      *)
LEMMA ShutStep ==
  ASSUME IInv, BeginShutdown \/ EndShutdown \/ CloseUDP \/ Return
  PROVE  IInv'
<1> USE DEF IInv
<1>1. UNCHANGED <<listener, errCh, ctxDone, graceOver, stream>>
  BY DEF BeginShutdown, EndShutdown, CloseUDP, Return, streamVars
<1>2. Counted'
  BY <1>1 DEF Counted, Reports
<1>3. CASE BeginShutdown
  <2>1. /\ pc = "shut" /\ UNCHANGED <<pc, result, udp, shut>>
        /\ server' = [server EXCEPT ![Stopping] = "closed"]
    BY <1>3 DEF BeginShutdown
  <2>2. /\ server' \in [HTTP -> {"new", "open", "unbound", "lost", "closed"}]
        /\ \A l \in HTTP : server[l] = "closed" => server'[l] = "closed"
    BY <2>1 DEF Control
  <2>3. ClosedInOrder'
    BY <2>1, <2>2 DEF ClosedInOrder, HTTP
  <2>4. QED
    BY <1>1, <1>2, <2>1, <2>2, <2>3 DEF Control, NoStreamLeft
<1>4. CASE EndShutdown
  <2>1. /\ pc = "shut" /\ shut \in 0 .. 2 /\ shut' = shut + 1
        /\ UNCHANGED <<pc, result, server, udp>>
        /\ server[Stopping] = "closed" /\ (Active(Stopping) = {} \/ graceOver)
    BY <1>4 DEF EndShutdown, Control
  <2>2. Control' /\ NoStreamLeft'
    <3>1. Control'
      BY <1>1, <2>1 DEF Control
    <3>2. CASE shut = 1
      <4>1. Stopping = "ui"
        BY <3>2 DEF Stopping, HTTPServers
      <4>2. graceOver \/ \A c \in Client : stream[c] = "closed"
        BY <2>1, <4>1 DEF Active
      <4>3. QED
        BY <1>1, <3>1, <4>2 DEF NoStreamLeft
    <3>3. CASE shut # 1
      BY <1>1, <2>1, <3>1, <3>3 DEF NoStreamLeft
    <3>4. QED
      BY <3>2, <3>3, <3>1
  <2>3. ClosedInOrder'
    <3>1. Stopping = IF shut = 0 THEN "interhost" ELSE IF shut = 1 THEN "ui" ELSE "probe"
      BY <2>1 DEF Stopping, HTTPServers
    <3>2. QED
      BY <2>1, <3>1 DEF ClosedInOrder
  <2>4. QED
    BY <1>2, <2>2, <2>3
<1>5. CASE CloseUDP \/ Return
  BY <1>1, <1>2, <1>5 DEF CloseUDP, Return, Control, ClosedInOrder, NoStreamLeft
<1>6. QED
  BY <1>3, <1>4, <1>5

(* The goroutines of the listeners bind, fail and report: a server that    *)
(* has been shut down is not bound any more.                               *)
LEMMA ListenerStep ==
  ASSUME IInv, \/ \E l \in HTTP : Bind(l) \/ BindFails(l) \/ AcceptFails(l)
               \/ \E g \in Goroutine : ServeReturns(g) \/ Report(g)
  PROVE  IInv'
<1> USE DEF IInv
<1>1. /\ UNCHANGED <<pc, result, udp, shut, ctxDone, graceOver, stream>>
      /\ pc # "start"
  BY DEF Bind, BindFails, AcceptFails, ServeReturns, Report, Running, streamVars
<1>2. ASSUME NEW l \in HTTP, Bind(l) \/ BindFails(l) \/ AcceptFails(l)
      PROVE  Control' /\ Counted' /\ ClosedInOrder'
  <2>1. /\ server[l] \in {"new", "open"} /\ listener[l] = "serve" /\ errCh' = errCh
        /\ \E s \in {"open", "unbound", "lost"} : server' = [server EXCEPT ![l] = s]
        /\ listener' \in {listener, [listener EXCEPT ![l] = "report"]}
    BY <1>2 DEF Bind, BindFails, AcceptFails
  <2>2. Control'
    BY <1>1, <2>1 DEF Control
  <2>3. \A g \in Goroutine : listener'[g] = "ended" <=> listener[g] = "ended"
    BY <2>1 DEF Control
  <2>4. Counted'
    BY <2>1, <2>3, Goroutines DEF Counted, Reports
  <2>5. \A h \in HTTP : server[h] = "closed" => server'[h] = "closed"
    BY <2>1 DEF Control
  <2>6. ClosedInOrder'
    BY <1>1, <2>5 DEF ClosedInOrder, HTTP
  <2>7. QED
    BY <2>2, <2>4, <2>6
<1>3. ASSUME NEW g \in Goroutine, ServeReturns(g)
      PROVE  Control' /\ Counted' /\ ClosedInOrder'
  <2>1. /\ listener[g] = "serve" /\ listener' = [listener EXCEPT ![g] = "report"]
        /\ UNCHANGED <<server, errCh>>
    BY <1>3 DEF ServeReturns
  <2>2. \A h \in Goroutine : listener'[h] = "ended" <=> listener[h] = "ended"
    BY <2>1 DEF Control
  <2>3. Counted'
    BY <2>1, <2>2, Goroutines DEF Counted, Reports
  <2>4. QED
    BY <1>1, <2>1, <2>3 DEF Control, ClosedInOrder
<1>4. ASSUME NEW g \in Goroutine, Report(g)
      PROVE  Control' /\ Counted' /\ ClosedInOrder'
  <2>1. /\ listener[g] = "report" /\ listener' = [listener EXCEPT ![g] = "ended"]
        /\ errCh' = errCh + 1 /\ server' = server
    BY <1>4 DEF Report
  <2>2. /\ listener'[g] = "ended" /\ listener[g] # "ended"
        /\ \A h \in Goroutine \ {g} : listener'[h] = listener[h]
    BY <2>1 DEF Control
  <2>3. Counted'
    BY <2>1, <2>2, Goroutines DEF Counted, Reports
  <2>4. QED
    BY <1>1, <2>1, <2>3 DEF Control, ClosedInOrder
<1>5. NoStreamLeft'
  BY <1>1 DEF NoStreamLeft
<1>6. QED
  BY <1>2, <1>3, <1>4, <1>5

(* The clients: no stream is opened behind a server that is shut down.     *)
LEMMA ClientStep ==
  ASSUME IInv, NEW c \in Client, Request(c) \/ Handler(c) \/ Outside(c)
  PROVE  IInv'
<1> USE DEF IInv
<1>1. UNCHANGED serveVars
  BY DEF Request, Handler, Outside
<1>2. /\ stream' \in [Client -> {"closed", "emit", "select"}]
      /\ \/ server["ui"] = "open"
         \/ \A d \in Client : stream[d] = "closed" => stream'[d] = "closed"
  BY DEF Request, Handler, Outside, Login, Logout, Open, Emit, TakeTick, Leave, TickerFires,
         Stall, HangUp, Expire, Control
<1>3. Control' /\ Counted' /\ ClosedInOrder'
  BY <1>1, <1>2 DEF serveVars, Control, Counted, Reports, ClosedInOrder
<1>4. NoStreamLeft'
  BY <1>1, <1>2 DEF serveVars, ClosedInOrder, NoStreamLeft
<1>5. QED
  BY <1>3, <1>4

LEMMA Invariance == Spec => []IInv
<1>1. IInv /\ [Next]_vars => IInv'
  <2> SUFFICES ASSUME IInv, [Next]_vars PROVE IInv'
    OBVIOUS
  <2>1. CASE UNCHANGED vars
    BY <2>1 DEF vars, serveVars, streamVars, IInv, Control, Counted, Reports, ClosedInOrder,
                NoStreamLeft
  <2>2. CASE Next
    BY <2>1, <2>2, StartStep, ShutStep, ListenerStep, ClientStep DEF Next, Exited
  <2>3. QED
    BY <2>1, <2>2
<1>2. QED
  BY InitHolds, <1>1, PTL DEF Spec

-----------------------------------------------------------------------------
(* Nobody receives from errCh, and yet no goroutine of a listener is stuck *)
(* when it reports: there is room for all of them.                         *)
THEOREM ReportsNeverBlock == Spec => []ReportNeverBlocks
<1>1. IInv => ReportNeverBlocks
  <2> SUFFICES ASSUME IInv, NEW g \in Goroutine, listener[g] = "report"
               PROVE  errCh < ErrCap
    BY DEF ReportNeverBlocks
  <2>1. Reports(g) = 0
    BY DEF Reports
  <2>2. QED
    BY <2>1, Goroutines DEF IInv, Counted, Reports, ErrCap
<1>2. QED
  BY Invariance, <1>1, PTL

(* When runServe returns after a signal every socket is closed, and every  *)
(* stream of any client has ended or the grace period is over.             *)
THEOREM ReturnsClean == Spec => []CleanReturn
<1>1. IInv => CleanReturn
  BY DEF IInv, ClosedInOrder, NoStreamLeft, CleanReturn, HTTP
<1>2. QED
  BY Invariance, <1>1, PTL

-----------------------------------------------------------------------------
(* How many steps runServe still has to take. *)
StepsLeft ==
  CASE pc = "start"    -> 10
    [] pc = "wait"     -> 9
    [] pc = "shut"     -> 8 - 2 * shut - (IF shut < 3 /\ server[Stopping] = "closed"
                                          THEN 1 ELSE 0)
    [] pc = "close"    -> 1
    [] pc = "returned" -> 0

(* Its steps, and where it can take one. *)
ServeStep ==
  StartFails \/ Start \/ Wake \/ BeginShutdown \/ EndShutdown \/ CloseUDP \/ Return

ServeCanGo ==
  \/ pc \in {"start", "close"}
  \/ pc = "wait" /\ ctxDone
  \/ pc = "shut" /\ \/ shut = 3
                    \/ server[Stopping] # "closed"
                    \/ Active(Stopping) = {} \/ graceOver

InSteps == StepsLeft \in 0 .. 10 /\ (StepsLeft = 0 <=> pc = "returned")

WaitsForNobody ==
  (ctxDone /\ pc # "returned" /\ (pc = "shut" => graceOver)) => ServeCanGo

LEMMA StoppingServer ==
  ASSUME Control, shut < 3
  PROVE  Stopping \in HTTP
<1>1. shut \in 0 .. 2
  BY DEF Control
<1>2. QED
  BY <1>1 DEF Stopping, HTTPServers, HTTP

(* After a signal runServe is at most ten of its own steps from its end:   *)
(* each of them brings it nearer, no listener and no client takes it back, *)
(* and once the grace period is over it waits for nobody.  That is         *)
(* StopsAfterSignal but for the fairness.                                  *)
THEOREM ShutdownIsBounded ==
  Spec => /\ []InSteps
          /\ []WaitsForNobody
          /\ [][IF ServeStep THEN StepsLeft' < StepsLeft ELSE StepsLeft' = StepsLeft]_vars
<1>1. IInv => InSteps
  BY DEF IInv, Control, StepsLeft, InSteps
<1>2. IInv => WaitsForNobody
  BY DEF IInv, Control, ServeCanGo, WaitsForNobody
<1>3. IInv /\ [Next]_vars =>
        [IF ServeStep THEN StepsLeft' < StepsLeft ELSE StepsLeft' = StepsLeft]_vars
  <2> SUFFICES ASSUME IInv, Next
               PROVE  IF ServeStep THEN StepsLeft' < StepsLeft ELSE StepsLeft' = StepsLeft
    OBVIOUS
  <2>1. Control
    BY DEF IInv
  <2>2. CASE StartFails \/ Start \/ Wake
    <3>1. \/ pc = "start" /\ pc' \in {"wait", "returned"}
          \/ pc = "wait" /\ pc' = "shut"
      BY <2>2 DEF StartFails, Start, Wake
    <3>2. shut' = shut /\ server' = server
      BY <2>2 DEF StartFails, Start, Wake
    <3>3. StepsLeft' < StepsLeft
      BY <2>1, <3>1, <3>2 DEF StepsLeft, Control
    <3>4. QED
      BY <2>2, <3>3 DEF ServeStep
  <2>3. CASE BeginShutdown
    <3>1. /\ pc = "shut" /\ pc' = "shut" /\ shut < 3 /\ shut' = shut
          /\ server[Stopping] # "closed" /\ server' = [server EXCEPT ![Stopping] = "closed"]
      BY <2>3 DEF BeginShutdown
    <3>2. Stopping \in HTTP /\ Stopping' = Stopping
      BY <2>1, <3>1, StoppingServer DEF Stopping, HTTPServers
    <3>3. server'[Stopping'] = "closed"
      BY <2>1, <3>1, <3>2 DEF Control
    <3>4. StepsLeft' < StepsLeft
      BY <2>1, <3>1, <3>3 DEF StepsLeft, Control
    <3>5. QED
      BY <2>3, <3>4 DEF ServeStep
  <2>4. CASE EndShutdown
    <3>1. /\ pc = "shut" /\ pc' = "shut" /\ shut < 3 /\ shut' = shut + 1
          /\ server[Stopping] = "closed" /\ server' = server
      BY <2>4 DEF EndShutdown
    <3>2. StepsLeft = 7 - 2 * shut /\ StepsLeft' \in {6 - 2 * shut, 5 - 2 * shut}
      BY <2>1, <3>1 DEF StepsLeft, Control
    <3>3. StepsLeft' < StepsLeft
      BY <2>1, <3>2 DEF Control
    <3>4. QED
      BY <2>4, <3>3 DEF ServeStep
  <2>5. CASE CloseUDP \/ Return
    <3>1. \/ pc = "shut" /\ shut = 3 /\ pc' = "close"
          \/ pc = "close" /\ pc' = "returned"
      BY <2>5 DEF CloseUDP, Return
    <3>2. StepsLeft' < StepsLeft
      BY <3>1 DEF StepsLeft
    <3>3. QED
      BY <2>5, <3>2 DEF ServeStep
  <2>6. CASE ~ ServeStep
    <3>1. /\ pc' = pc /\ shut' = shut
          /\ \/ server' = server
             \/ \E l \in HTTP, s \in {"open", "unbound", "lost"} :
                  server[l] \in {"new", "open"} /\ server' = [server EXCEPT ![l] = s]
      BY <2>6 DEF ServeStep, Next, Signal, GraceEnds, Bind, BindFails, AcceptFails,
                  ServeReturns, Report, Request, Handler, Outside, serveVars, Exited, vars
    <3>2. \A l \in HTTP : server'[l] = "closed" <=> server[l] = "closed"
      BY <2>1, <3>1 DEF Control
    <3>3. Stopping' = Stopping /\ (shut < 3 => Stopping \in HTTP)
      BY <2>1, <3>1, StoppingServer DEF Stopping, HTTPServers
    <3>4. StepsLeft' = StepsLeft
      BY <2>1, <3>1, <3>2, <3>3 DEF StepsLeft, Control
    <3>5. QED
      BY <2>6, <3>4
  <2>7. QED
    BY <2>2, <2>3, <2>4, <2>5, <2>6 DEF ServeStep
<1>4. QED
  BY Invariance, <1>1, <1>2, <1>3, PTL DEF Spec
=============================================================================
