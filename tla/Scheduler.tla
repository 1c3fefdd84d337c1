----------------------------- MODULE Scheduler -----------------------------
(***************************************************************************)
(* internal/pkg/scheduler: Run starts one ticker goroutine per job and a   *)
(* pool of workers around a buffered channel with one slot per job.  When  *)
(* the context is cancelled the tickers leave, Run closes the channel, the *)
(* workers drain it and leave, and Run returns.  A worker probes the peer  *)
(* and appends the result to the store (module Store).                     *)
(*                                                                         *)
(* The model starts when Run has started its goroutines: every wg.Add is   *)
(* before the corresponding Wait.  Waiting for time is abstracted to a     *)
(* timer that may fire; SchedulerTiming adds the clock.                    *)
(***************************************************************************)
EXTENDS Integers, Sequences, FiniteSets

CONSTANTS Job,        \* the jobs built from the configuration; also their keys
          Worker,     \* the worker goroutines (Config.Workers)
          Result,     \* results of probes
          ZeroResult, \* see Store
          Capacity,   \* see Store
          MaxPanics   \* bound: how many probes panic in one behaviour

ASSUME SchedulerAssumption ==
  /\ IsFiniteSet(Job)
  /\ IsFiniteSet(Worker)
  /\ Worker # {}                \* New raises Workers to at least 1
  /\ MaxPanics \in Nat
  /\ Capacity \in Int /\ ZeroResult \notin Result   \* see Store

VARIABLES ctxDone,  \* the context passed to Run is cancelled
          run,      \* Run: "tickers" (tickerWG.Wait), "workers" (wg.Wait), "returned"
          ticker,   \* ticker[j]: "timer" or "send" (its two selects), "left", "panicked"
          queue,    \* the buffered items of the channel jobs
          closed,   \* close(jobs) has happened
          worker,   \* worker[w]: "idle" (ranging over jobs), a job in probe, "left", "dead"
          panics,   \* number of probes that panicked
          bufs      \* the store

schedVars == <<ctxDone, run, ticker, queue, closed, worker, panics>>
vars == <<schedVars, bufs>>

St == INSTANCE Store WITH Key <- Job

Idle == [pc |-> "idle"]
Left == [pc |-> "left"]
Dead == [pc |-> "dead"]
Probing(j) == [pc |-> "probe", job |-> j]

WorkerState == {Idle, Left, Dead} \cup {Probing(j) : j \in Job}

ChanCap == Cardinality(Job)

Init ==
  /\ ctxDone = FALSE
  /\ run = "tickers"
  /\ ticker = [j \in Job |-> "timer"]
  /\ queue = <<>>
  /\ closed = FALSE
  /\ worker = [w \in Worker |-> Idle]
  /\ panics = 0
  /\ St!Init

-----------------------------------------------------------------------------
(* The caller cancels the context. *)
Cancel ==
  /\ ~ ctxDone
  /\ ctxDone' = TRUE
  /\ UNCHANGED <<run, ticker, queue, closed, worker, panics, bufs>>

(* tickerLoop: the outer select takes <-time.After(...).                   *)
TimerFires(j) ==
  /\ ticker[j] = "timer"
  /\ ticker' = [ticker EXCEPT ![j] = "send"]
  /\ UNCHANGED <<ctxDone, run, queue, closed, worker, panics, bufs>>

(* The channel has no capacity limit. *)
Mut_Send_unbounded(j) ==
  /\ ticker[j] = "send"
  /\ ~ closed
  /\ queue' = Append(queue, j)
  /\ ticker' = [ticker EXCEPT ![j] = "timer"]
  /\ UNCHANGED <<ctxDone, run, closed, worker, panics, bufs>>

(* tickerLoop: the inner select takes out <- j.  A send on a closed        *)
(* channel panics; recoverwrap.Go recovers and the deferred Done runs.     *)
Send(j) ==
  /\ ticker[j] = "send"
  /\ \/ /\ ~ closed
        /\ Len(queue) < ChanCap
        /\ queue' = Append(queue, j)
        /\ ticker' = [ticker EXCEPT ![j] = "timer"]
     \/ /\ closed
        /\ ticker' = [ticker EXCEPT ![j] = "panicked"]
        /\ UNCHANGED queue
  /\ UNCHANGED <<ctxDone, run, closed, worker, panics, bufs>>

(* tickerLoop: either select takes <-ctx.Done(). *)
TickerLeaves(j) ==
  /\ ctxDone
  /\ ticker[j] \in {"timer", "send"}
  /\ ticker' = [ticker EXCEPT ![j] = "left"]
  /\ UNCHANGED <<ctxDone, run, queue, closed, worker, panics, bufs>>

(* Run closes the channel as soon as the context is cancelled. *)
Mut_CloseJobs_early ==
  /\ run = "tickers"
  /\ ctxDone
  /\ closed' = TRUE
  /\ run' = "workers"
  /\ UNCHANGED <<ctxDone, ticker, queue, worker, panics, bufs>>

(* Run: tickerWG.Wait() returns; close(jobs). *)
CloseJobs ==
  /\ run = "tickers"
  /\ \A j \in Job : ticker[j] \in {"left", "panicked"}
  /\ closed' = TRUE
  /\ run' = "workers"
  /\ UNCHANGED <<ctxDone, ticker, queue, worker, panics, bufs>>

(* worker: the range receives a job and calls Probe.  A buffered item is   *)
(* received whether or not the channel is closed.                          *)
Receive(w) ==
  /\ worker[w] = Idle
  /\ queue # <<>>
  /\ worker' = [worker EXCEPT ![w] = Probing(Head(queue))]
  /\ queue' = Tail(queue)
  /\ UNCHANGED <<ctxDone, run, ticker, closed, panics, bufs>>

(* The worker returns after one job instead of ranging over the channel. *)
Mut_Finish_once(w, r) ==
  /\ worker[w].pc = "probe"
  /\ St!AppendResult(worker[w].job, r)
  /\ worker' = [worker EXCEPT ![w] = Left]
  /\ UNCHANGED <<ctxDone, run, ticker, queue, closed, panics>>

(* worker: Probe returns r and r is appended to the store. *)
Finish(w, r) ==
  /\ worker[w].pc = "probe"
  /\ St!AppendResult(worker[w].job, r)
  /\ worker' = [worker EXCEPT ![w] = Idle]
  /\ UNCHANGED <<ctxDone, run, ticker, queue, closed, panics>>

(* A panicking probe is recovered outside of the loop over the channel:    *)
(* nothing is appended and the goroutine ends after its deferred Done.     *)
Panic(w) ==
  /\ worker[w].pc = "probe"
  /\ panics < MaxPanics
  /\ panics' = panics + 1
  /\ worker' = [worker EXCEPT ![w] = Dead]
  /\ UNCHANGED <<ctxDone, run, ticker, queue, closed, bufs>>

(* worker looks at the context instead of at the channel. *)
Mut_WorkerLeaves_ctx(w) ==
  /\ worker[w] = Idle
  /\ ctxDone
  /\ worker' = [worker EXCEPT ![w] = Left]
  /\ UNCHANGED <<ctxDone, run, ticker, queue, closed, panics, bufs>>

(* worker: the range ends when the channel is closed and empty. *)
WorkerLeaves(w) ==
  /\ worker[w] = Idle
  /\ closed
  /\ queue = <<>>
  /\ worker' = [worker EXCEPT ![w] = Left]
  /\ UNCHANGED <<ctxDone, run, ticker, queue, closed, panics, bufs>>

(* Run returns without waiting for probes in progress. *)
Mut_Return_noWait ==
  /\ run = "workers"
  /\ queue = <<>>
  /\ run' = "returned"
  /\ UNCHANGED <<ctxDone, ticker, queue, closed, worker, panics, bufs>>

(* Run: wg.Wait() returns, and Run with it. *)
Return ==
  /\ run = "workers"
  /\ \A w \in Worker : worker[w] \in {Left, Dead}
  /\ run' = "returned"
  /\ UNCHANGED <<ctxDone, ticker, queue, closed, worker, panics, bufs>>

(* Run has returned, all goroutines have ended: nothing is left to do. *)
Stopped ==
  /\ run = "returned"
  /\ UNCHANGED vars

Next ==
  \/ Cancel \/ CloseJobs \/ Return \/ Stopped
  \/ \E j \in Job : TimerFires(j) \/ Send(j) \/ TickerLeaves(j)
  \/ \E w \in Worker :
       \/ Receive(w) \/ Panic(w) \/ WorkerLeaves(w)
       \/ \E r \in Result : Finish(w, r)

Spec == Init /\ [][Next]_vars

-----------------------------------------------------------------------------
(* Goroutines that can run do run, timers fire and probes end: each prober *)
(* has a timeout.  A sender blocked on the full channel is queued first-in *)
(* first-out by the runtime, so one that is enabled again and again sends. *)
(* A ticker whose context is cancelled leaves: both selects offer it, and  *)
(* a select does not ignore a ready case forever.                          *)
Fairness ==
  /\ \A j \in Job : /\ WF_vars(TimerFires(j))
                    /\ SF_vars(Send(j))
                    /\ WF_vars(TickerLeaves(j))
  /\ \A w \in Worker : /\ WF_vars(Receive(w))
                       /\ WF_vars(Panic(w) \/ \E r \in Result : Finish(w, r))
                       /\ WF_vars(WorkerLeaves(w))
  /\ WF_vars(CloseJobs)
  /\ WF_vars(Return)

FairSpec == Spec /\ Fairness

-----------------------------------------------------------------------------
(* Every goroutine is at one of its program points, the channel holds at   *)
(* most one item per job and the store is well formed.                     *)
TypeOK ==
  /\ ctxDone \in BOOLEAN
  /\ run \in {"tickers", "workers", "returned"}
  /\ ticker \in [Job -> {"timer", "send", "left", "panicked"}]
  /\ queue \in Seq(Job)
  /\ Len(queue) <= ChanCap
  /\ closed \in BOOLEAN
  /\ worker \in [Worker -> WorkerState]
  /\ panics \in 0 .. MaxPanics
  /\ St!TypeOK

(* No ticker ever sends on the closed channel: Run closes it only after    *)
(* the last ticker has left.                                               *)
NoSendOnClosed == \A j \in Job : ticker[j] # "panicked"

(* When Run has returned no goroutine of the scheduler is left, and unless *)
(* every worker died of a panic no dispatched job was dropped.             *)
DrainedAtReturn ==
  run = "returned" =>
    /\ \A j \in Job : ticker[j] = "left"
    /\ \A w \in Worker : worker[w] \in {Left, Dead}
    /\ (\E w \in Worker : worker[w] = Left) => queue = <<>>

(* The scheduler is a probe service: it records as the log does, appends   *)
(* nothing once Run has returned, returns only after a cancellation, and   *)
(* then does return.  (With at least one job; Run returns at once if there *)
(* is none, for example because the configuration has no peers.)           *)
Service == INSTANCE ProbeService
             WITH Key <- Job, Cap <- St!Cap,
                  log <- [j \in Job |-> St!Snapshot(j)],
                  state <- IF run = "returned" THEN "stopped"
                           ELSE IF ctxDone THEN "stopping" ELSE "running"

ServiceSpec == Service!FairSpec

(* Every job is probed again and again until the context is cancelled,     *)
(* whatever the other jobs do to the shared channel and workers, as long   *)
(* as fewer probes panic than there are workers.                           *)
JobsKeepBeingProbed ==
  \A j \in Job : (<>ctxDone) \/ []<>(\E w \in Worker : worker[w] = Probing(j))
=============================================================================
