-------------------------- MODULE SchedulerTiming --------------------------
(***************************************************************************)
(* Scheduler with a clock: the ticker of a job waits for next(), that is   *)
(* Interval with a random jitter, and a probe is given Timeout.  The       *)
(* result of a probe carries the time at which it started.                 *)
(*                                                                         *)
(* Assumed of the machine: a goroutine that can run does so before the     *)
(* clock advances, and a probe ends no later than its timeout.             *)
(***************************************************************************)
EXTENDS Scheduler

CONSTANTS Interval,       \* Config.Interval, in clock ticks
          JitterPercent,  \* Config.JitterPercent
          Timeout,        \* Config.Timeout, in clock ticks
          MaxTime         \* bound: the clock stops here

ASSUME TimingAssumption ==
  /\ Interval \in Nat \ {0}
  /\ JitterPercent \in 0 .. 100
  /\ Timeout \in Nat
  /\ MaxTime \in Nat

(* A result is its Timestamp.  (Not assumed here, so that what is proved   *)
(* of Scheduler beside this module is proved for results of any kind.)     *)
StampsAreResults == 0 .. MaxTime \subseteq Result

VARIABLES now,      \* the clock
          due,      \* due[j]: when the timer of job j fires, or fired last
          started   \* started[w]: when the probe of worker w began

timedVars == <<vars, now, due, started>>

Delta == (Interval * JitterPercent) \div 100

(* The values of next(). *)
Delays == IF JitterPercent <= 0 \/ Delta = 0
          THEN {Interval}
          ELSE Interval - Delta .. Interval + Delta

TimedInit ==
  /\ Init
  /\ now = 0
  /\ due \in [Job -> Delays]
  /\ started = [w \in Worker |-> 0]

-----------------------------------------------------------------------------
TimedTimerFires(j) ==
  /\ due[j] <= now
  /\ TimerFires(j)
  /\ UNCHANGED <<now, due, started>>

(* The loop does not wait again after a send. *)
Mut_TimedSend_noWait(j) ==
  /\ Send(j)
  /\ UNCHANGED <<now, due, started>>

(* After the send the loop calls time.After again. *)
TimedSend(j) ==
  /\ Send(j)
  /\ \E d \in Delays : due' = [due EXCEPT ![j] = now + d]
  /\ UNCHANGED <<now, started>>

TimedReceive(w) ==
  /\ Receive(w)
  /\ started' = [started EXCEPT ![w] = now]
  /\ UNCHANGED <<now, due>>

(* The result is stamped when the probe ends. *)
Mut_TimedFinish_late(w) ==
  /\ Finish(w, now)
  /\ UNCHANGED <<now, due, started>>

TimedFinish(w) ==
  /\ Finish(w, started[w])
  /\ UNCHANGED <<now, due, started>>

(* A step that takes no time is waiting to be taken. *)
Urgent ==
  \/ \E j \in Job : \/ ticker[j] = "timer" /\ due[j] <= now
                    \/ ticker[j] = "send" /\ Len(queue) < ChanCap
  \/ queue # <<>> /\ \E w \in Worker : worker[w] = Idle
  \/ \E w \in Worker : worker[w].pc = "probe" /\ started[w] + Timeout <= now

Tick ==
  /\ now < MaxTime
  /\ ~ Urgent
  /\ now' = now + 1
  /\ UNCHANGED <<vars, due, started>>

(* The clock is at its bound: the behaviour is cut here. *)
Horizon ==
  /\ now = MaxTime
  /\ UNCHANGED timedVars

TimedNext ==
  \/ \E j \in Job : TimedTimerFires(j) \/ TimedSend(j)
  \/ \E w \in Worker : TimedReceive(w) \/ TimedFinish(w)
  \/ Tick \/ Horizon

TimedSpec == TimedInit /\ [][TimedNext]_timedVars

-----------------------------------------------------------------------------
(* A job is in one place at most: on its way to the channel, in it, or in  *)
(* the hands of one worker.  No peer is probed twice at the same time and  *)
(* no ticker waits for room in the channel.                                *)
OneProbePerJob ==
  \A j \in Job :
    Cardinality({w \in Worker : worker[w] = Probing(j)})
      + Cardinality({i \in DOMAIN queue : queue[i] = j})
      + (IF ticker[j] = "send" THEN 1 ELSE 0) <= 1

(* What the classifier and lastTs take for granted: the results that       *)
(* Snapshot returns are in the order in which their probes were made.      *)
OldestFirst ==
  \A j \in Job : LET s == St!Snapshot(j)
                 IN  \A m, n \in DOMAIN s : m < n => s[m] < s[n]

(* A job is probed every Interval give or take the jitter: the delay is    *)
(* neither stretched by the channel nor shortened by a slow probe.         *)
Periodic ==
  [][\A j \in Job, w \in Worker :
       LET s == St!Snapshot(j)
       IN  (worker[w] = Idle /\ worker'[w] = Probing(j) /\ s # <<>>)
             => now - s[Len(s)] \in Delays]_timedVars
=============================================================================
