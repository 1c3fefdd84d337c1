------------------------------- MODULE Serve -------------------------------
(***************************************************************************)
(* The subcommand serve (internal/pkg/cli, serve.go): it checks its        *)
(* configuration and certificates, binds the UDP socket, starts a          *)
(* goroutine for each of three HTTP servers and for the UDP echo, and      *)
(* waits for its context.  Then it shuts the servers down one after the    *)
(* other, all within one grace period, closes the UDP socket and returns,  *)
(* which ends the process.  The event streams of the UI (EventStream) run  *)
(* behind one of the servers.                                              *)
(*                                                                         *)
(* The reads of a configuration that changes meanwhile are in ConfigFile,  *)
(* the scheduler in Scheduler.                                             *)
(***************************************************************************)
EXTENDS Integers, FiniteSets, Sequences, EventStream

VARIABLES pc,       \* runServe: "start", "wait", "shut", "close", "returned"
          result,   \* what runServe returned: "none", "ok", "error"
          server,   \* server[l]: "new", "open", "unbound", "lost" (its socket, by an
                    \* error of accept) or "closed" (Shutdown called)
          udp,      \* the UDP socket: "new", "open", "closed"
          listener, \* listener[l]: its goroutine: "none", "serve", "report", "ended"
          errCh,    \* how many errors are in the channel of four
          shut,     \* how many servers have been shut down
          ctxDone,  \* a signal has arrived
          graceOver \* the two seconds of shutdownCtx are over

serveVars == <<pc, result, server, udp, listener, errCh, shut, ctxDone, graceOver>>
vars == <<serveVars, streamVars>>

(* The order in which they are shut down. *)
HTTPServers == <<"interhost", "ui", "probe">>

HTTP == {"interhost", "ui", "probe"}
Goroutine == HTTP \cup {"udp-echo"}

Mut_ErrCap_three == 3

(* make(chan error, 4) *)
ErrCap == 4

Init ==
  /\ pc = "start" /\ result = "none"
  /\ server = [l \in HTTP |-> "new"] /\ udp = "new"
  /\ listener = [g \in Goroutine |-> "none"]
  /\ errCh = 0 /\ shut = 0
  /\ ctxDone = FALSE /\ graceOver = FALSE
  /\ StreamInit

-----------------------------------------------------------------------------
(* runServe. *)

(* The mode of the file, its contents, the certificates, the host name,    *)
(* the secrets or the UDP port are not in order.                           *)
StartFails ==
  /\ pc = "start"
  /\ pc' = "returned" /\ result' = "error"
  /\ UNCHANGED <<server, udp, listener, errCh, shut, ctxDone, graceOver, streamVars>>

(* The UDP socket is bound here, the servers by their goroutines. *)
Start ==
  /\ pc = "start"
  /\ pc' = "wait"
  /\ udp' = "open"
  /\ listener' = [g \in Goroutine |-> "serve"]
  /\ UNCHANGED <<result, server, errCh, shut, ctxDone, graceOver, streamVars>>

Signal ==
  /\ ~ ctxDone
  /\ ctxDone' = TRUE
  /\ UNCHANGED <<pc, result, server, udp, listener, errCh, shut, graceOver, streamVars>>

(* <-ctx.Done(), which is all that is waited for. *)
Wake ==
  /\ pc = "wait" /\ ctxDone
  /\ pc' = "shut"
  /\ UNCHANGED <<result, server, udp, listener, errCh, shut, ctxDone, graceOver, streamVars>>

GraceEnds ==
  /\ pc = "shut" /\ ~ graceOver
  /\ graceOver' = TRUE
  /\ UNCHANGED <<pc, result, server, udp, listener, errCh, shut, ctxDone, streamVars>>

Stopping == HTTPServers[shut + 1]

(* Handlers that are running behind server l.  (Those of the other two     *)
(* answer at once.)                                                        *)
Active(l) == {c \in Client : l = "ui" /\ stream[c] # "closed"}

(* Server.Shutdown closes the listening socket first ... *)
BeginShutdown ==
  /\ pc = "shut" /\ shut < 3
  /\ server[Stopping] # "closed"
  /\ server' = [server EXCEPT ![Stopping] = "closed"]
  /\ UNCHANGED <<pc, result, udp, listener, errCh, shut, ctxDone, graceOver, streamVars>>

(* The handlers are not waited for: Close, not Shutdown. *)
Mut_EndShutdown_close ==
  /\ pc = "shut" /\ shut < 3
  /\ server[Stopping] = "closed"
  /\ shut' = shut + 1
  /\ UNCHANGED <<pc, result, server, udp, listener, errCh, ctxDone, graceOver, streamVars>>

(* shutdownCtx has no deadline. *)
Mut_EndShutdown_patient ==
  /\ pc = "shut" /\ shut < 3
  /\ server[Stopping] = "closed"
  /\ Active(Stopping) = {}
  /\ shut' = shut + 1
  /\ UNCHANGED <<pc, result, server, udp, listener, errCh, ctxDone, graceOver, streamVars>>

(* ... and waits for the handlers that are running, as long as the grace   *)
(* period lasts.                                                           *)
EndShutdown ==
  /\ pc = "shut" /\ shut < 3
  /\ server[Stopping] = "closed"
  /\ Active(Stopping) = {} \/ graceOver
  /\ shut' = shut + 1
  /\ UNCHANGED <<pc, result, server, udp, listener, errCh, ctxDone, graceOver, streamVars>>

CloseUDP ==
  /\ pc = "shut" /\ shut = 3
  /\ udp' = "closed"
  /\ pc' = "close"
  /\ UNCHANGED <<result, server, listener, errCh, shut, ctxDone, graceOver, streamVars>>

(* main returns: every goroutine is over, whatever it is doing. *)
Return ==
  /\ pc = "close"
  /\ pc' = "returned" /\ result' = "ok"
  /\ UNCHANGED <<server, udp, listener, errCh, shut, ctxDone, graceOver, streamVars>>

-----------------------------------------------------------------------------
(* The goroutines of the listeners, while the process runs. *)

Running == pc \notin {"start", "returned"}

(* ListenAndServe binds, unless Shutdown has already been called. *)
Bind(l) ==
  /\ Running
  /\ listener[l] = "serve" /\ server[l] = "new"
  /\ server' = [server EXCEPT ![l] = "open"]
  /\ UNCHANGED <<pc, result, udp, listener, errCh, shut, ctxDone, graceOver, streamVars>>

(* The port is taken. *)
BindFails(l) ==
  /\ Running
  /\ listener[l] = "serve" /\ server[l] = "new"
  /\ server' = [server EXCEPT ![l] = "unbound"]
  /\ listener' = [listener EXCEPT ![l] = "report"]
  /\ UNCHANGED <<pc, result, udp, errCh, shut, ctxDone, graceOver, streamVars>>

(* Accept returns an error that is not temporary, and ListenAndServe with  *)
(* it: its socket is closed, handlers that are running go on.  (The echo   *)
(* goes on reading after an error.)                                        *)
AcceptFails(l) ==
  /\ Running
  /\ listener[l] = "serve" /\ server[l] = "open"
  /\ server' = [server EXCEPT ![l] = "lost"]
  /\ listener' = [listener EXCEPT ![l] = "report"]
  /\ UNCHANGED <<pc, result, udp, errCh, shut, ctxDone, graceOver, streamVars>>

(* ListenAndServe returns ErrServerClosed; the echo's Run returns when its *)
(* read fails after Close has set the flag.                                *)
ServeReturns(g) ==
  /\ Running
  /\ listener[g] = "serve"
  /\ IF g = "udp-echo" THEN udp = "closed" ELSE server[g] = "closed"
  /\ listener' = [listener EXCEPT ![g] = "report"]
  /\ UNCHANGED <<pc, result, server, udp, errCh, shut, ctxDone, graceOver, streamVars>>

(* errCh <- err: blocks while the channel is full; nobody receives. *)
Report(g) ==
  /\ Running
  /\ listener[g] = "report"
  /\ errCh < ErrCap
  /\ errCh' = errCh + 1
  /\ listener' = [listener EXCEPT ![g] = "ended"]
  /\ UNCHANGED <<pc, result, server, udp, shut, ctxDone, graceOver, streamVars>>

-----------------------------------------------------------------------------
(* The clients of the UI. *)

(* New requests are accepted while the listening socket is open. *)
Request(c) ==
  /\ Running /\ server["ui"] = "open"
  /\ Login(c) \/ Logout(c) \/ Open(c)
  /\ UNCHANGED serveVars

Handler(c) ==
  /\ Running
  /\ Emit(c) \/ TakeTick(c) \/ Leave(c)
  /\ UNCHANGED serveVars

Outside(c) ==
  /\ Running
  /\ TickerFires(c) \/ Stall(c) \/ HangUp(c) \/ Expire(c)
  /\ UNCHANGED serveVars

(* The process is over. *)
Exited == pc = "returned" /\ UNCHANGED vars

Next ==
  \/ StartFails \/ Start \/ Signal \/ Wake \/ GraceEnds
  \/ BeginShutdown \/ EndShutdown \/ CloseUDP \/ Return
  \/ \E l \in HTTP : Bind(l) \/ BindFails(l) \/ AcceptFails(l)
  \/ \E g \in Goroutine : ServeReturns(g) \/ Report(g)
  \/ \E c \in Client : Request(c) \/ Handler(c) \/ Outside(c)
  \/ Exited

Spec == Init /\ [][Next]_vars

(* The Go scheduler runs every goroutine that can run, timers fire, and    *)
(* Aggregate returns.  A select takes one of its ready cases at random, so *)
(* one that is ready again and again is taken (the strong fairness of      *)
(* Leave).  Signals, requests and clients that hang up are not assumed.    *)
FairSpec ==
  /\ Spec
  /\ WF_vars(StartFails \/ Start) /\ WF_vars(Wake) /\ WF_vars(GraceEnds)
  /\ WF_vars(BeginShutdown \/ EndShutdown) /\ WF_vars(CloseUDP \/ Return)
  /\ \A l \in HTTP : WF_vars(Bind(l) \/ BindFails(l))
  /\ \A g \in Goroutine : WF_vars(ServeReturns(g)) /\ WF_vars(Report(g))
  /\ \A c \in Client : /\ WF_vars(Handler(c))
                       /\ SF_vars(Running /\ Leave(c) /\ UNCHANGED serveVars)
                       /\ WF_vars(Running /\ TickerFires(c) /\ UNCHANGED serveVars)

-----------------------------------------------------------------------------
(* No goroutine of a listener is ever stuck on errCh, though nobody        *)
(* receives from it.                                                       *)
ReportNeverBlocks == \A g \in Goroutine : listener[g] = "report" => errCh < ErrCap

(* When runServe returns after a signal no socket is open, also not one    *)
(* that was only about to be bound, and unless the grace period is over no *)
(* event stream has been cut off, also not one that was opened while the   *)
(* server before the UI was being shut down.                               *)
CleanReturn ==
  result = "ok" =>
    /\ \A l \in HTTP : server[l] = "closed"
    /\ udp = "closed"
    /\ graceOver \/ \A c \in Client : stream[c] = "closed"

(* After a signal serve returns, whatever clients hold their streams open, *)
(* also one that has stopped to read and whose handler is stuck in a write *)
(* for ever, and whatever sockets could not be bound.                      *)
StopsAfterSignal == ctxDone ~> pc = "returned"

(* A client that stays and reads gets one view after the other, however    *)
(* many ticks are dropped while a view is being aggregated or the client   *)
(* stalls, until serve returns.                                            *)
StreamKeepsEmitting ==
  \A c \in Client :
    /\ stream[c] = "select" ~> stream[c] = "emit" \/ reader[c] = "gone" \/ pc = "returned"
    /\ stream[c] = "emit" ~> stream[c] = "select" \/ reader[c] # "reads" \/ pc = "returned"

(* The handler of a client that has hung up comes to an end. *)
StreamEnds ==
  \A c \in Client : (stream[c] # "closed" /\ reader[c] = "gone") ~> stream[c] = "closed" \/ pc = "returned"

-----------------------------------------------------------------------------
(* The design document says that an error that the daemon cannot recover   *)
(* from, "unwritable port" among them, makes serve exit.                   *)
ExitsIfUnbound == (\E l \in HTTP : server[l] = "unbound") ~> pc = "returned"
=============================================================================
