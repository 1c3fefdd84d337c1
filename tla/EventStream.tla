---------------------------- MODULE EventStream ----------------------------
(***************************************************************************)
(* internal/pkg/server/ui as its clients see it: a login issues a session  *)
(* cookie, authMiddleware verifies it on every request, and one request    *)
(* opens an event stream that emits the aggregated view at once and then   *)
(* on every tick (session.go, login.go, handlers.go, sse.go).  Serve puts  *)
(* these handlers behind a server that starts and stops.                   *)
(***************************************************************************)
CONSTANT Client      \* browsers, each with one cookie and one stream

VARIABLES cookie,    \* cookie[c]: "none", or a token that is "valid" or "expired"
          stream,    \* stream[c]: "closed", or the handler is in "emit" or "select"
          tick,      \* tick[c]: a tick is in the channel of the ticker, size one
          reader     \* reader[c]: the client "reads" its stream, "stalls", or is "gone"

streamVars == <<cookie, stream, tick, reader>>

StreamInit ==
  /\ cookie = [c \in Client |-> "none"]
  /\ stream = [c \in Client |-> "closed"]
  /\ tick = [c \in Client |-> FALSE]
  /\ reader = [c \in Client |-> "reads"]

(* loginHandler with the right password: Issue and SetCookie.  (A wrong    *)
(* one is answered after a delay and changes nothing.)                     *)
Login(c) ==
  /\ cookie' = [cookie EXCEPT ![c] = "valid"]
  /\ UNCHANGED <<stream, tick, reader>>

(* The logout handler deletes the cookie; the server keeps no sessions.    *)
Logout(c) ==
  /\ cookie[c] # "none"
  /\ cookie' = [cookie EXCEPT ![c] = "none"]
  /\ UNCHANGED <<stream, tick, reader>>

(* The time of a token comes. *)
Expire(c) ==
  /\ cookie[c] = "valid"
  /\ cookie' = [cookie EXCEPT ![c] = "expired"]
  /\ UNCHANGED <<stream, tick, reader>>

(* Session.Verify on the token of a request. *)
Verify(c) == cookie[c] = "valid"

(* The request passes authMiddleware; the handler starts its ticker and    *)
(* calls emit.                                                             *)
Open(c) ==
  /\ stream[c] = "closed"
  /\ Verify(c)
  /\ stream' = [stream EXCEPT ![c] = "emit"]
  /\ tick' = [tick EXCEPT ![c] = FALSE]
  /\ reader' = [reader EXCEPT ![c] = "reads"]
  /\ UNCHANGED cookie

(* Aggregate returns (AggregateReturns of Aggregator) and its view is      *)
(* written and flushed: that fails at once when the client is gone, and    *)
(* waits while it stalls, because the server has no WriteTimeout.          *)
Emit(c) ==
  /\ stream[c] = "emit" /\ reader[c] # "stalls"
  /\ stream' = [stream EXCEPT ![c] = "select"]
  /\ UNCHANGED <<cookie, tick, reader>>

(* The ticker fires; the tick is dropped if the last one is still there,   *)
(* as it is when Aggregate takes longer than the interval.                 *)
TickerFires(c) ==
  /\ stream[c] # "closed"
  /\ ~ tick[c]
  /\ tick' = [tick EXCEPT ![c] = TRUE]
  /\ UNCHANGED <<cookie, stream, reader>>

(* The tick is taken and nothing is emitted. *)
Mut_TakeTick_silent(c) ==
  /\ stream[c] = "select" /\ tick[c]
  /\ tick' = [tick EXCEPT ![c] = FALSE]
  /\ UNCHANGED <<cookie, stream, reader>>

(* The two cases of the select; if both are ready either may be taken. *)
TakeTick(c) ==
  /\ stream[c] = "select" /\ tick[c]
  /\ tick' = [tick EXCEPT ![c] = FALSE]
  /\ stream' = [stream EXCEPT ![c] = "emit"]
  /\ UNCHANGED <<cookie, reader>>

(* The loop ranges over the ticks alone. *)
Mut_Leave_missing(c) == FALSE

Leave(c) ==
  /\ stream[c] = "select" /\ reader[c] = "gone"
  /\ stream' = [stream EXCEPT ![c] = "closed"]
  /\ UNCHANGED <<cookie, tick, reader>>

(* A client whose buffers are full stops to read, and may go on later. *)
Stall(c) ==
  /\ stream[c] # "closed" /\ reader[c] # "gone"
  /\ reader' = [reader EXCEPT ![c] = IF @ = "reads" THEN "stalls" ELSE "reads"]
  /\ UNCHANGED <<cookie, stream, tick>>

(* The client hangs up; nothing else ends the context of a request: not    *)
(* the end of its session and not a Shutdown of the server.                *)
HangUp(c) ==
  /\ stream[c] # "closed" /\ reader[c] # "gone"
  /\ reader' = [reader EXCEPT ![c] = "gone"]
  /\ UNCHANGED <<cookie, stream, tick>>
=============================================================================
