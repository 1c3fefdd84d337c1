-------------------------- MODULE SchedulerProofs --------------------------
(***************************************************************************)
(* Theorems about Scheduler and SchedulerTiming.  The shutdown protocol of *)
(* Run is safe for any number of jobs, workers and panics.  With a clock,  *)
(* probes of one job never overlap and follow each other by Interval give  *)
(* or take the jitter, if the timeout is shorter than that and there is a  *)
(* worker for every job.                                                   *)
(***************************************************************************)
EXTENDS SchedulerTiming, FiniteSetTheorems, FunctionTheorems, TLAPS

(* What has been proved of the store holds of the one the workers write.   *)
SP == INSTANCE StoreProofs WITH Key <- Job

(* The types of the control state; the store has its own invariant.        *)
ControlType ==
  /\ ctxDone \in BOOLEAN
  /\ run \in {"tickers", "workers", "returned"}
  /\ ticker \in [Job -> {"timer", "send", "left", "panicked"}]
  /\ queue \in Seq(Job)
  /\ closed \in BOOLEAN
  /\ worker \in [Worker -> WorkerState]

(* The phases of Run: the channel is open exactly while it waits for the   *)
(* tickers, no ticker is left once it does not, no worker is left once it  *)
(* has returned.                                                           *)
Phases ==
  /\ closed <=> run # "tickers"
  /\ run # "tickers" => \A j \in Job : ticker[j] = "left"
  /\ run = "returned" => \A w \in Worker : worker[w] \in {Left, Dead}

(* A worker leaves its loop only when the channel is closed and drained,   *)
(* and from then on nothing refills it.                                    *)
LeftDrained == \A w \in Worker : worker[w] = Left => closed /\ queue = <<>>

(* The inductive invariant. *)
IInv == ControlType /\ Phases /\ NoSendOnClosed /\ LeftDrained

(* The program points of a worker are different from each other.           *)
LEMMA Points ==
  /\ Idle \in WorkerState /\ Left \in WorkerState /\ Dead \in WorkerState
  /\ Idle # Left /\ Idle # Dead /\ Left # Dead
  /\ \A j \in Job : /\ Probing(j) \in WorkerState
                    /\ Probing(j) # Idle /\ Probing(j) # Left /\ Probing(j) # Dead
<1>1. /\ Idle.pc = "idle" /\ Left.pc = "left" /\ Dead.pc = "dead"
      /\ \A j \in Job : Probing(j).pc = "probe"
  BY DEF Idle, Left, Dead, Probing
<1>2. /\ Idle # Left /\ Idle # Dead /\ Left # Dead
      /\ \A j \in Job : Probing(j) # Idle /\ Probing(j) # Left /\ Probing(j) # Dead
  BY <1>1
<1>3. QED
  BY <1>2 DEF WorkerState

LEMMA InitHolds == Init => IInv
<1> SUFFICES ASSUME Init PROVE IInv
  OBVIOUS
<1>1. ControlType
  <2>1. ctxDone \in BOOLEAN /\ closed \in BOOLEAN
    BY DEF Init
  <2>2. worker \in [Worker -> WorkerState]
    BY Points DEF Init
  <2>3. /\ run \in {"tickers", "workers", "returned"}
        /\ ticker \in [Job -> {"timer", "send", "left", "panicked"}]
        /\ queue \in Seq(Job)
    BY DEF Init
  <2>4. QED
    BY <2>1, <2>2, <2>3 DEF ControlType
<1>2. Phases
  <2>1. ~ closed /\ run = "tickers"
    BY DEF Init
  <2>2. run # "returned" /\ ~ (run # "tickers")
    BY <2>1
  <2>3. QED
    BY <2>1, <2>2, Zenon DEF Phases
<1>3. NoSendOnClosed
  BY DEF Init, NoSendOnClosed
<1>4. LeftDrained
  BY Points DEF Init, LeftDrained
<1>5. QED
  BY <1>1, <1>2, <1>3, <1>4 DEF IInv

(* A step that changes neither the tickers, the channel, the workers nor   *)
(* Run leaves the invariant alone: the clients of this lemma are Cancel    *)
(* and stuttering.                                                         *)
LEMMA ControlUnchanged ==
  ASSUME IInv, ctxDone' \in BOOLEAN,
         UNCHANGED <<run, ticker, queue, closed, worker>>
  PROVE  IInv'
BY DEF IInv, ControlType, Phases, NoSendOnClosed, LeftDrained

(* A step of one ticker.  Its "left" is final because every step of a      *)
(* ticker starts at one of its two selects.                                *)
LEMMA TickerStep ==
  ASSUME IInv, NEW j \in Job, TimerFires(j) \/ Send(j) \/ TickerLeaves(j)
  PROVE  IInv'
<1> USE DEF IInv
<1>1. run = "tickers" /\ closed = FALSE /\ \A w \in Worker : worker[w] # Left
  BY DEF TimerFires, Send, TickerLeaves, Phases, LeftDrained, ControlType
<1>2. UNCHANGED <<ctxDone, run, closed, worker>>
  BY DEF TimerFires, Send, TickerLeaves
<1>3. /\ ticker' \in [Job -> {"timer", "send", "left", "panicked"}]
      /\ \A i \in Job : ticker'[i] # "panicked"
      /\ queue' \in Seq(Job)
  <2>1. CASE TimerFires(j)
    BY <2>1 DEF TimerFires, ControlType, NoSendOnClosed
  <2>2. CASE Send(j)
    <3>1. ~ closed
      BY <1>1
    <3>2. queue' = Append(queue, j) /\ ticker' = [ticker EXCEPT ![j] = "timer"]
      BY <2>2, <3>1 DEF Send
    <3>3. QED
      BY <3>2 DEF ControlType, NoSendOnClosed
  <2>3. CASE TickerLeaves(j)
    BY <2>3 DEF TickerLeaves, ControlType, NoSendOnClosed
  <2>4. QED
    BY <2>1, <2>2, <2>3
<1>4. ControlType'
  BY <1>2, <1>3 DEF ControlType
<1>5. Phases'
  BY <1>1, <1>2 DEF Phases
<1>6. NoSendOnClosed' /\ LeftDrained'
  BY <1>1, <1>2, <1>3 DEF NoSendOnClosed, LeftDrained
<1>7. QED
  BY <1>4, <1>5, <1>6

(* A step of one worker: it takes from the channel but never adds to it,   *)
(* and it is the last one to go only if the channel is closed and drained. *)
LEMMA WorkerStep ==
  ASSUME IInv, NEW w \in Worker,
         \/ Receive(w) \/ Panic(w) \/ WorkerLeaves(w)
         \/ \E r \in Result : Finish(w, r)
  PROVE  IInv'
<1> USE DEF IInv
<1>1. UNCHANGED <<ctxDone, run, ticker, closed>>
  BY DEF Receive, Panic, WorkerLeaves, Finish
<1>2. worker[w] \notin {Left, Dead}
  BY Points DEF Receive, Panic, WorkerLeaves, Finish, Left, Dead
<1>3. run # "returned"
  BY <1>2 DEF Phases
<1>4. /\ queue' \in Seq(Job)
      /\ \E s \in WorkerState :
           /\ worker' = [worker EXCEPT ![w] = s]
           /\ s = Left => closed /\ queue' = <<>>
      /\ queue = <<>> => queue' = <<>>
  <2>1. CASE Receive(w)
    <3>1. queue # <<>> /\ queue \in Seq(Job)
      BY <2>1 DEF Receive, ControlType
    <3>2. Head(queue) \in Job /\ Tail(queue) \in Seq(Job)
      BY <3>1
    <3>3. QED
      BY <2>1, <3>1, <3>2, Points DEF Receive
  <2>2. CASE Panic(w)
    BY <2>2, Points DEF Panic, ControlType
  <2>3. CASE WorkerLeaves(w)
    BY <2>3, Points DEF WorkerLeaves, ControlType
  <2>4. CASE \E r \in Result : Finish(w, r)
    BY <2>4, Points DEF Finish, ControlType
  <2>5. QED
    BY <2>1, <2>2, <2>3, <2>4
<1>5. PICK s \in WorkerState : /\ worker' = [worker EXCEPT ![w] = s]
                               /\ s = Left => closed /\ queue' = <<>>
  BY <1>4, Zenon
<1>6. ControlType'
  BY <1>1, <1>4, <1>5 DEF ControlType
<1>7. Phases' /\ NoSendOnClosed'
  BY <1>1, <1>3 DEF Phases, NoSendOnClosed
<1>8. LeftDrained'
  <2>1. \A v \in Worker : worker'[v] = IF v = w THEN s ELSE worker[v]
    BY <1>5 DEF ControlType
  <2>2. QED
    BY <1>1, <1>4, <1>5, <2>1 DEF LeftDrained
<1>9. QED
  BY <1>6, <1>7, <1>8

(* A step of Run. *)
LEMMA RunStep ==
  ASSUME IInv, CloseJobs \/ Return
  PROVE  IInv'
<1> USE DEF IInv
<1>1. CASE CloseJobs
  <2>1. \A j \in Job : ticker[j] = "left"
    BY <1>1 DEF CloseJobs, NoSendOnClosed
  <2>2. QED
    BY <1>1, <2>1 DEF CloseJobs, ControlType, Phases, NoSendOnClosed, LeftDrained
<1>2. CASE Return
  BY <1>2 DEF Return, ControlType, Phases, NoSendOnClosed, LeftDrained
<1>3. QED
  BY <1>1, <1>2

(* IInv is an invariant of the scheduler. *)
LEMMA Invariance == Spec => []IInv
<1>1. IInv /\ [Next]_vars => IInv'
  <2> SUFFICES ASSUME IInv, [Next]_vars PROVE IInv'
    OBVIOUS
  <2>1. CASE Cancel
    BY <2>1, ControlUnchanged DEF Cancel
  <2>2. CASE CloseJobs \/ Return
    BY <2>2, RunStep
  <2>3. ASSUME NEW j \in Job, TimerFires(j) \/ Send(j) \/ TickerLeaves(j)
        PROVE  IInv'
    BY <2>3, TickerStep
  <2>4. ASSUME NEW w \in Worker,
               \/ Receive(w) \/ Panic(w) \/ WorkerLeaves(w)
               \/ \E r \in Result : Finish(w, r)
        PROVE  IInv'
    BY <2>4, WorkerStep
  <2>5. CASE UNCHANGED vars
    <3>1. ctxDone \in BOOLEAN
      BY DEF IInv, ControlType
    <3>2. QED
      BY <2>5, <3>1, ControlUnchanged DEF vars, schedVars
  <2>6. QED
    BY <2>1, <2>2, <2>3, <2>4, <2>5 DEF Next, Stopped
<1>2. QED
  BY InitHolds, <1>1, PTL DEF Spec

(* For any jobs, workers and panics, no ticker ever sends on the closed    *)
(* channel.                                                                *)
THEOREM NeverSendsOnClosed == Spec => []NoSendOnClosed
<1>1. IInv => NoSendOnClosed
  BY DEF IInv
<1>2. QED
  BY Invariance, <1>1, PTL

(* For any jobs, workers and panics, Run leaves no goroutine behind, and   *)
(* no dispatched job unless every worker died.                             *)
THEOREM ReturnsDrained == Spec => []DrainedAtReturn
<1>1. IInv => DrainedAtReturn
  BY DEF IInv, Phases, LeftDrained, DrainedAtReturn
<1>2. QED
  BY Invariance, <1>1, PTL

-----------------------------------------------------------------------------
(* The bounds of the channel and of the panics. *)
Bounds == Len(queue) <= ChanCap /\ panics \in 0 .. MaxPanics

(* A ticker leaves only when the context is cancelled. *)
LeftCancelled == \A j \in Job : ticker[j] = "left" => ctxDone

LEMMA BoundsHold == Spec => [](Bounds /\ LeftCancelled)
<1>0. ChanCap \in Nat
  BY FS_CardinalityType, SchedulerAssumption DEF ChanCap
<1>1. Init => Bounds /\ LeftCancelled
  BY <1>0, SchedulerAssumption DEF Init, Bounds, LeftCancelled
<1>2. IInv /\ Bounds /\ LeftCancelled /\ [Next]_vars => (Bounds /\ LeftCancelled)'
  <2> SUFFICES ASSUME IInv, Bounds, LeftCancelled, [Next]_vars
               PROVE  Bounds' /\ LeftCancelled'
    OBVIOUS
  <2>1. queue \in Seq(Job) /\ ticker \in [Job -> {"timer", "send", "left", "panicked"}]
    BY DEF IInv, ControlType
  <2>2. ASSUME NEW j \in Job, TimerFires(j) \/ Send(j) \/ TickerLeaves(j)
        PROVE  Bounds' /\ LeftCancelled'
    <3>1. ctxDone' = ctxDone /\ panics' = panics
      BY <2>2 DEF TimerFires, Send, TickerLeaves
    <3>2. Len(queue') <= ChanCap
      <4>1. CASE queue' = queue
        BY <4>1 DEF Bounds
      <4>2. CASE queue' = Append(queue, j) /\ Len(queue) < ChanCap
        BY <1>0, <2>1, <4>2
      <4>3. QED
        BY <2>2, <4>1, <4>2 DEF TimerFires, Send, TickerLeaves
    <3>3. \A i \in Job : ticker'[i] = "left" => ticker[i] = "left" \/ ctxDone
      BY <2>1, <2>2 DEF TimerFires, Send, TickerLeaves
    <3>4. QED
      BY <3>1, <3>2, <3>3 DEF Bounds, LeftCancelled
  <2>3. ASSUME NEW w \in Worker,
               \/ Receive(w) \/ Panic(w) \/ WorkerLeaves(w)
               \/ \E r \in Result : Finish(w, r)
        PROVE  Bounds' /\ LeftCancelled'
    <3>1. ctxDone' = ctxDone /\ ticker' = ticker
      BY <2>3 DEF Receive, Panic, WorkerLeaves, Finish
    <3>2. queue' = queue \/ (queue # <<>> /\ queue' = Tail(queue))
      BY <2>3 DEF Receive, Panic, WorkerLeaves, Finish
    <3>3. Len(queue') <= ChanCap
      BY <1>0, <2>1, <3>2 DEF Bounds
    <3>4. panics' = panics \/ (panics < MaxPanics /\ panics' = panics + 1)
      BY <2>3 DEF Receive, Panic, WorkerLeaves, Finish
    <3>5. panics' \in 0 .. MaxPanics
      BY <3>4, SchedulerAssumption DEF Bounds
    <3>6. QED
      BY <3>1, <3>3, <3>5 DEF Bounds, LeftCancelled
  <2>4. CASE Cancel \/ CloseJobs \/ Return \/ UNCHANGED vars
    BY <2>4 DEF Cancel, CloseJobs, Return, vars, schedVars, Bounds, LeftCancelled
  <2>5. QED
    BY <2>2, <2>3, <2>4 DEF Next, Stopped
<1>3. QED
  BY Invariance, <1>1, <1>2, PTL DEF Spec

-----------------------------------------------------------------------------
LEMMA StoreAssumed == SP!CapacityAssumption /\ SP!ZeroAssumption
BY SchedulerAssumption DEF SP!CapacityAssumption, SP!ZeroAssumption

(* Of the steps of the scheduler only Finish touches the store: Append.    *)
LEMMA StoreRuns == Spec => SP!Spec
<1>1. Init => SP!Init
  BY DEF Init, St!Init, SP!Init, St!newRing, SP!newRing, St!Slot, SP!Slot, St!Cap, SP!Cap
<1>2. IInv /\ [Next]_vars => [SP!Next]_bufs
  <2> SUFFICES ASSUME IInv, [Next]_vars PROVE [SP!Next]_bufs
    OBVIOUS
  <2>1. ASSUME NEW w \in Worker, NEW r \in Result, Finish(w, r)
        PROVE  SP!Next
    <3>1. worker[w] \in WorkerState /\ worker[w].pc = "probe"
      BY <2>1 DEF Finish, IInv, ControlType
    <3>2. worker[w].job \in Job
      BY <3>1 DEF WorkerState, Idle, Left, Dead, Probing
    <3>3. SP!AppendResult(worker[w].job, r)
      BY <2>1 DEF Finish, St!AppendResult, SP!AppendResult, St!push, SP!push,
                  St!newRing, SP!newRing, St!Slot, SP!Slot, St!Cap, SP!Cap
    <3>4. QED
      BY <3>2, <3>3 DEF SP!Next
  <2>2. CASE UNCHANGED bufs
    BY <2>2
  <2>3. UNCHANGED bufs \/ \E w \in Worker, r \in Result : Finish(w, r)
    BY DEF Next, vars, Cancel, CloseJobs, Return, Stopped, TimerFires, Send, TickerLeaves,
           Receive, Panic, WorkerLeaves
  <2>4. QED
    BY <2>1, <2>2, <2>3
<1>3. QED
  BY Invariance, <1>1, <1>2, PTL DEF Spec, SP!Spec

(* Goroutines, channel and store are well formed, for any jobs, workers,   *)
(* panics and capacity: the channel never holds more than one slot per job *)
(* and every ring that workers append to stays a ring.                     *)
THEOREM TypeCorrect == Spec => []TypeOK
<1>1. Spec => []SP!TypeOK
  BY StoreRuns, StoreAssumed, SP!TypeCorrect, PTL
<1>2. SP!TypeOK => St!TypeOK
  BY DEF SP!TypeOK, St!TypeOK, SP!Ring, St!Ring, SP!Slot, St!Slot, SP!Cap, St!Cap
<1>3. IInv /\ Bounds /\ St!TypeOK => TypeOK
  BY DEF IInv, ControlType, Bounds, TypeOK
<1>4. QED
  BY Invariance, BoundsHold, <1>1, <1>2, <1>3, PTL

(* Run is a probe service, in what it may never do: it records as the log  *)
(* does, the log changes no more once it has returned, and it returns only *)
(* after a cancellation (if there is a job: without one it returns at      *)
(* once).  That it does return is left to the run.                         *)
THEOREM ServesSafely ==
  ASSUME Job # {}
  PROVE  Spec => Service!Spec
<1> DEFINE log == [j \in Job |-> St!Snapshot(j)]
           state == IF run = "returned" THEN "stopped"
                    ELSE IF ctxDone THEN "stopping" ELSE "running"
           log2 == [k \in Job |-> SP!Snapshot(k)]
<1>1. Init => Service!Init
  BY DEF Init, St!Init, Service!Init, Service!SL!Init, St!Snapshot
<1>2. Spec => [][Service!SL!Next]_log
  <2>1. Spec => SP!LogSpec
    BY StoreRuns, StoreAssumed, SP!Implements
  <2>2. log = log2 /\ log' = log2'
    BY DEF St!Snapshot, SP!Snapshot, St!snapshot, SP!snapshot, SP!Cap, St!Cap
  <2>3. SP!Cap = St!Cap
    BY DEF SP!Cap, St!Cap
  <2> HIDE DEF log, log2
  <2>4. [SP!Log!Next]_log2 => [Service!SL!Next]_log
    <3>1. ASSUME NEW j \in Job, NEW r \in Result, SP!Log!Record(j, r)
          PROVE  Service!SL!Record(j, r)
      <4>1. log2' = [log2 EXCEPT ![j] = SP!Log!Recorded(log2[j], r)]
        BY <3>1 DEF SP!Log!Record, log2
      <4>2. SP!Log!Recorded(log2[j], r) = Service!SL!Recorded(log[j], r)
        BY <2>2, <2>3 DEF SP!Log!Recorded, Service!SL!Recorded, SP!Log!LastN, Service!SL!LastN
      <4>3. log' = [log EXCEPT ![j] = Service!SL!Recorded(log[j], r)]
        BY <2>2, <4>1, <4>2
      <4>4. QED
        BY <4>3 DEF Service!SL!Record, log
    <3>2. CASE SP!Log!Next
      BY <3>1, <3>2 DEF SP!Log!Next, Service!SL!Next
    <3>3. CASE UNCHANGED log2
      BY <2>2, <3>3
    <3>4. QED
      BY <3>2, <3>3
  <2>5. SP!LogSpec => [][SP!Log!Next]_log2
    BY PTL DEF SP!LogSpec, SP!Log!Spec, log2
  <2>6. QED
    BY <2>1, <2>4, <2>5, PTL
<1>3. IInv /\ LeftCancelled /\ [Next]_vars /\ [Service!SL!Next]_log => [Service!Next]_(Service!vars)
  <2> SUFFICES ASSUME IInv, LeftCancelled, [Next]_vars, [Service!SL!Next]_log
               PROVE  Service!Next \/ (log' = log /\ state' = state)
    BY DEF Service!vars
  <2> USE DEF Service!Next
  <2>1. bufs' = bufs => log' = log
    BY DEF St!Snapshot, St!snapshot, St!Cap
  <2> HIDE DEF log
  <2>2. CASE Cancel
    BY <2>1, <2>2 DEF Cancel, Service!Cancel, log
  <2>3. CASE Return
    <3>1. run = "workers" /\ run' = "returned" /\ ctxDone' = ctxDone /\ bufs' = bufs
      BY <2>3 DEF Return
    <3>2. ctxDone
      BY <3>1 DEF IInv, Phases, LeftCancelled
    <3>3. QED
      BY <2>1, <3>1, <3>2 DEF Service!Return, log
  <2>4. CASE \E w \in Worker, r \in Result : Finish(w, r)
    <3>1. UNCHANGED <<run, ctxDone>> /\ run # "returned"
      BY <2>4, Points DEF Finish, IInv, Phases, Left, Dead
    <3>2. state # "stopped" /\ state' = state
      BY <3>1
    <3>3. QED
      BY <3>2 DEF Service!Record, log
  <2>5. CASE CloseJobs \/ UNCHANGED <<run, ctxDone, bufs>>
    BY <2>1, <2>5 DEF CloseJobs
  <2>6. \/ Cancel \/ Return \/ CloseJobs \/ UNCHANGED <<run, ctxDone, bufs>>
        \/ \E w \in Worker, r \in Result : Finish(w, r)
    BY DEF Next, vars, schedVars, Stopped, TimerFires, Send, TickerLeaves,
           Receive, Panic, WorkerLeaves
  <2>7. QED
    BY <2>2, <2>3, <2>4, <2>5, <2>6
<1>4. QED
  BY Invariance, BoundsHold, <1>1, <1>2, <1>3, PTL DEF Spec, Service!Spec

-----------------------------------------------------------------------------
(* Where each goroutine can go on: the guards of its steps.  (A probe can  *)
(* always end, because it has a timeout.)                                  *)
TickerCanGo(j) ==
  \/ ticker[j] = "timer"
  \/ ticker[j] = "send" /\ (ctxDone \/ closed \/ Len(queue) < ChanCap)

WorkerCanGo(w) ==
  \/ worker[w].pc = "probe"
  \/ worker[w] = Idle /\ (closed \/ queue # <<>>)

RunCanGo ==
  \/ run = "tickers" /\ \A j \in Job : ticker[j] \in {"left", "panicked"}
  \/ run = "workers" /\ \A w \in Worker : worker[w] \in {Left, Dead}

SomeoneCanGo ==
  (\E j \in Job : TickerCanGo(j)) \/ (\E w \in Worker : WorkerCanGo(w)) \/ RunCanGo

(* Before it has returned, Run and its goroutines never all wait for each  *)
(* other, but in one way: every worker has died of a panic and the tickers *)
(* wait for room in the channel.  A cancellation frees these, too.         *)
THEOREM NeverStuck ==
  Spec => [](run # "returned" =>
               SomeoneCanGo \/ (~ ctxDone /\ \A w \in Worker : worker[w] = Dead))
<1>1. IInv /\ Bounds => (run # "returned" =>
        SomeoneCanGo \/ (~ ctxDone /\ \A w \in Worker : worker[w] = Dead))
  <2> SUFFICES ASSUME IInv, Bounds, run # "returned", ~ RunCanGo,
                      \A w \in Worker : ~ WorkerCanGo(w)
               PROVE  \/ \E j \in Job : TickerCanGo(j)
                      \/ ~ ctxDone /\ \A w \in Worker : worker[w] = Dead
    BY DEF SomeoneCanGo
  <2>1. ASSUME NEW w \in Worker
        PROVE  worker[w] \in {Left, Dead} \/ (worker[w] = Idle /\ ~ closed /\ queue = <<>>)
    BY DEF WorkerCanGo, IInv, ControlType, WorkerState, Probing
  <2>2. run = "tickers" /\ ~ closed
    <3>1. CASE run = "workers"
      <4>1. closed
        BY <3>1 DEF IInv, Phases
      <4>2. QED
        BY <2>1, <3>1, <4>1 DEF RunCanGo
    <3>2. QED
      BY <3>1 DEF IInv, ControlType, Phases
  <2>3. PICK j \in Job : ticker[j] \in {"timer", "send"}
    BY <2>2 DEF RunCanGo, IInv, ControlType
  <2>4. CASE ticker[j] = "send" /\ ~ ctxDone /\ Len(queue) = ChanCap
    <3>1. queue # <<>>
      <4>1. Cardinality(Job) # 0
        BY FS_EmptySet, SchedulerAssumption
      <4>2. QED
        BY <2>4, <4>1 DEF ChanCap
    <3>2. \A w \in Worker : worker[w] # Left
      BY <2>2 DEF IInv, LeftDrained
    <3>3. QED
      BY <2>1, <2>4, <3>1, <3>2
  <2>5. QED
    <3>1. Len(queue) \in Nat /\ ChanCap \in Nat
      BY FS_CardinalityType, SchedulerAssumption DEF ChanCap, IInv, ControlType
    <3>2. Len(queue) < ChanCap \/ Len(queue) = ChanCap
      BY <3>1 DEF Bounds
    <3>3. QED
      BY <2>3, <2>4, <3>2 DEF TickerCanGo
<1>2. QED
  BY Invariance, BoundsHold, <1>1, PTL

(* What is left to be done once the channel is closed: three steps for     *)
(* each job in it at most, and those of the workers and of Run itself.     *)
Live == {w \in Worker : worker[w] \notin {Left, Dead}}
Probers == {w \in Worker : worker[w].pc = "probe"}

Work == 3 * Len(queue) + Cardinality(Live) + Cardinality(Probers)
          + (IF run = "returned" THEN 0 ELSE 1)

LEMMA WorkersFinite ==
  /\ IsFiniteSet(Live) /\ Cardinality(Live) \in 0 .. Cardinality(Worker)
  /\ IsFiniteSet(Probers) /\ Cardinality(Probers) \in 0 .. Cardinality(Worker)
  /\ Cardinality(Worker) \in Nat
<1>1. IsFiniteSet(Worker) /\ Live \in SUBSET Worker /\ Probers \in SUBSET Worker
  BY SchedulerAssumption DEF Live, Probers
<1>2. QED
  BY <1>1, FS_Subset, FS_CardinalityType

(* A worker that is neither probing nor idle any more does not come back,  *)
(* and each of its steps is one less to do.                                *)
LEMMA WorkerWorks ==
  ASSUME IInv, NEW w \in Worker,
         \/ Receive(w) \/ Panic(w) \/ WorkerLeaves(w)
         \/ \E r \in Result : Finish(w, r)
  PROVE  Work' < Work
<1>1. worker \in [Worker -> WorkerState] /\ queue \in Seq(Job) /\ run' = run
  BY DEF IInv, ControlType, Receive, Panic, WorkerLeaves, Finish
<1>2. PICK s : worker' = [worker EXCEPT ![w] = s]
  BY DEF Receive, Panic, WorkerLeaves, Finish
<1>3. /\ Live' = IF s \in {Left, Dead} THEN Live \ {w} ELSE Live \cup {w}
      /\ Probers' = IF s.pc = "probe" THEN Probers \cup {w} ELSE Probers \ {w}
  BY <1>1, <1>2 DEF Live, Probers, Left, Dead
<1>4. \A x : /\ Cardinality(Live \cup {x}) = IF x \in Live THEN Cardinality(Live)
                                              ELSE Cardinality(Live) + 1
             /\ Cardinality(Live \ {x}) = IF x \in Live THEN Cardinality(Live) - 1
                                           ELSE Cardinality(Live)
             /\ Cardinality(Probers \cup {x}) = IF x \in Probers THEN Cardinality(Probers)
                                                 ELSE Cardinality(Probers) + 1
             /\ Cardinality(Probers \ {x}) = IF x \in Probers THEN Cardinality(Probers) - 1
                                              ELSE Cardinality(Probers)
  BY WorkersFinite, FS_AddElement, FS_RemoveElement
<1>5. /\ Cardinality(Live) \in Nat /\ Cardinality(Probers) \in Nat
      /\ Len(queue) \in Nat
  BY <1>1, WorkersFinite
<1> DEFINE l == Cardinality(Live)
           p == Cardinality(Probers)
<1> HIDE DEF l, p
<1>6. CASE Receive(w)
  <2>1. worker[w] = Idle /\ s = Probing(Head(queue)) /\ Len(queue') = Len(queue) - 1
    BY <1>1, <1>2, <1>6 DEF Receive
  <2>2. w \in Live /\ w \notin Probers /\ s \notin {Left, Dead} /\ s.pc = "probe"
    BY <2>1 DEF Live, Probers, Idle, Left, Dead, Probing
  <2>3. Cardinality(Live') = l /\ Cardinality(Probers') = p + 1
    BY <1>3, <1>4, <2>2 DEF l, p
  <2>4. QED
    BY <1>1, <1>5, <2>1, <2>3 DEF Work, l, p
<1>7. CASE Panic(w) \/ \E r \in Result : Finish(w, r)
  <2>1. worker[w].pc = "probe" /\ s \in {Idle, Dead} /\ queue' = queue
    BY <1>1, <1>2, <1>7 DEF Panic, Finish
  <2>2. w \in Live /\ w \in Probers /\ s.pc # "probe"
    BY <2>1 DEF Live, Probers, Idle, Left, Dead
  <2>3. Cardinality(Live') <= l /\ Cardinality(Live') \in Int /\ Cardinality(Probers') = p - 1
    BY <1>3, <1>4, <1>5, <2>2 DEF l, p
  <2>4. QED
    BY <1>1, <1>5, <2>1, <2>3 DEF Work, l, p
<1>8. CASE WorkerLeaves(w)
  <2>1. worker[w] = Idle /\ s = Left /\ queue' = queue
    BY <1>1, <1>2, <1>8 DEF WorkerLeaves
  <2>2. w \in Live /\ w \notin Probers /\ s.pc # "probe"
    BY <2>1 DEF Live, Probers, Idle, Left, Dead
  <2>3. Cardinality(Live') = l - 1 /\ Cardinality(Probers') = p
    BY <1>3, <1>4, <2>1, <2>2 DEF l, p
  <2>4. QED
    BY <1>1, <1>5, <2>1, <2>3 DEF Work, l, p
<1>9. QED
  BY <1>6, <1>7, <1>8

(* Once Run has closed the channel it returns after no more steps than     *)
(* Work counts: each step of a goroutine makes it smaller, and it is at    *)
(* most three times the jobs and twice the workers and one.                *)
THEOREM DrainIsBounded ==
  Spec => /\ [](Work \in 0 .. 3 * ChanCap + 2 * Cardinality(Worker) + 1)
          /\ [][closed => Work' < Work]_<<run, ticker, queue, worker>>
<1>1. IInv /\ Bounds => Work \in 0 .. 3 * ChanCap + 2 * Cardinality(Worker) + 1
  <2> SUFFICES ASSUME IInv, Bounds
               PROVE  Work \in 0 .. 3 * ChanCap + 2 * Cardinality(Worker) + 1
    OBVIOUS
  <2>1. Len(queue) \in Nat /\ ChanCap \in Nat /\ Len(queue) <= ChanCap
    BY FS_CardinalityType, SchedulerAssumption DEF ChanCap, IInv, ControlType, Bounds
  <2>2. QED
    BY <2>1, WorkersFinite DEF Work
<1>2. IInv /\ [Next]_vars => [closed => Work' < Work]_<<run, ticker, queue, worker>>
  <2> SUFFICES ASSUME IInv, Next, closed,
                      ~ UNCHANGED <<run, ticker, queue, worker>>
               PROVE  Work' < Work
    BY DEF vars, schedVars
  <2>1. ASSUME NEW w \in Worker,
               \/ Receive(w) \/ Panic(w) \/ WorkerLeaves(w)
               \/ \E r \in Result : Finish(w, r)
        PROVE  Work' < Work
    BY <2>1, WorkerWorks
  <2>2. CASE Return
    <3>1. run = "workers" /\ run' = "returned" /\ queue' = queue /\ worker' = worker
      BY <2>2 DEF Return
    <3>2. Live' = Live /\ Probers' = Probers
      BY <3>1 DEF Live, Probers
    <3>3. Len(queue) \in Nat
      BY DEF IInv, ControlType
    <3>4. QED
      BY <3>1, <3>2, <3>3, WorkersFinite DEF Work
  <2>3. ~ CloseJobs /\ \A j \in Job : ~ (TimerFires(j) \/ Send(j) \/ TickerLeaves(j))
    BY DEF CloseJobs, TimerFires, Send, TickerLeaves, IInv, Phases
  <2>4. ~ Cancel /\ ~ Stopped
    BY DEF Cancel, Stopped, vars, schedVars
  <2>5. QED
    BY <2>1, <2>2, <2>3, <2>4 DEF Next
<1>3. QED
  BY Invariance, BoundsHold, <1>1, <1>2, PTL DEF Spec

-----------------------------------------------------------------------------
(* The types of the clock. *)
ClockType ==
  /\ now \in 0 .. MaxTime
  /\ due \in [Job -> Int]
  /\ started \in [Worker -> 0 .. MaxTime]

(* The values of next() around Interval. *)
LEMMA DelaysAround ==
  /\ Delta \in Int
  /\ \A d \in Delays : d \in Int /\ d >= Interval - Delta
<1>1. Interval * JitterPercent \in Int /\ Interval \in Int /\ JitterPercent \in 0 .. 100
  BY TimingAssumption
<1>2. Delta \in Int
  BY <1>1 DEF Delta
<1>3. JitterPercent <= 0 => Delta = 0
  <2>1. JitterPercent <= 0 => Interval * JitterPercent = 0
    BY <1>1
  <2>2. QED
    BY <1>1, <2>1 DEF Delta
<1>4. QED
  BY <1>1, <1>2, <1>3 DEF Delays

LEMMA ClockInvariance == TimedSpec => []ClockType
<1>1. TimedInit => ClockType
  BY DelaysAround, TimingAssumption DEF TimedInit, ClockType
<1>2. ClockType /\ [TimedNext]_timedVars => ClockType'
  <2> SUFFICES ASSUME ClockType, [TimedNext]_timedVars PROVE ClockType'
    OBVIOUS
  <2> USE TimingAssumption DEF ClockType
  <2>1. ASSUME NEW j \in Job, TimedTimerFires(j) \/ TimedSend(j)
        PROVE  ClockType'
    <3>1. CASE TimedTimerFires(j)
      BY <3>1 DEF TimedTimerFires
    <3>2. CASE TimedSend(j)
      <4>1. PICK d \in Delays : due' = [due EXCEPT ![j] = now + d]
        BY <3>2 DEF TimedSend
      <4>2. due' \in [Job -> Int]
        BY <4>1, DelaysAround
      <4>3. QED
        BY <3>2, <4>2 DEF TimedSend
    <3>3. QED
      BY <2>1, <3>1, <3>2
  <2>2. ASSUME NEW w \in Worker, TimedReceive(w) \/ TimedFinish(w)
        PROVE  ClockType'
    BY <2>2 DEF TimedReceive, TimedFinish
  <2>3. CASE Tick
    BY <2>3 DEF Tick
  <2>4. CASE UNCHANGED timedVars
    BY <2>4 DEF timedVars
  <2>5. QED
    BY <2>1, <2>2, <2>3, <2>4 DEF TimedNext, Horizon
<1>3. QED
  BY <1>1, <1>2, PTL DEF TimedSpec

(* The scheduler with a clock is a scheduler: what holds of Scheduler at   *)
(* any delays holds when the delays are those of next().                   *)
THEOREM TimedSchedules ==
  ASSUME StampsAreResults
  PROVE  TimedSpec => Spec
<1>1. TimedInit => Init
  BY DEF TimedInit
<1>2. ClockType /\ [TimedNext]_timedVars => [Next]_vars
  <2> SUFFICES ASSUME ClockType, [TimedNext]_timedVars PROVE [Next]_vars
    OBVIOUS
  <2>1. ASSUME NEW j \in Job, TimedTimerFires(j) \/ TimedSend(j)
        PROVE  Next
    BY <2>1 DEF TimedTimerFires, TimedSend, Next
  <2>2. ASSUME NEW w \in Worker, TimedReceive(w)
        PROVE  Next
    BY <2>2 DEF TimedReceive, Next
  <2>3. ASSUME NEW w \in Worker, TimedFinish(w)
        PROVE  Next
    <3>1. started[w] \in Result
      BY DEF StampsAreResults, ClockType
    <3>2. Finish(w, started[w])
      BY <2>3 DEF TimedFinish
    <3>3. QED
      BY <3>1, <3>2 DEF Next
  <2>4. CASE Tick \/ UNCHANGED timedVars
    BY <2>4 DEF Tick, timedVars
  <2>5. QED
    BY <2>1, <2>2, <2>3, <2>4 DEF TimedNext, Horizon
<1>3. QED
  BY <1>1, <1>2, ClockInvariance, PTL DEF TimedSpec, Spec

-----------------------------------------------------------------------------
(* A probe is over before the shortest delay is. *)
ShortProbes == Timeout < Interval - Delta

(* No job has to wait for a worker: serve starts two of them per job.      *)
EnoughWorkers == Cardinality(Job) <= Cardinality(Worker)

Queued(j) == \E n \in DOMAIN queue : queue[n] = j
InHand(j) == \E w \in Worker : worker[w] = Probing(j)

(* Nobody cancels and nobody panics. *)
Running ==
  /\ ~ closed
  /\ ticker \in [Job -> {"timer", "send"}]
  /\ queue \in Seq(Job)
  /\ worker \in [Worker -> {Idle} \cup {Probing(j) : j \in Job}]

(* OneProbePerJob, without counting. *)
OnePlace ==
  /\ \A v, w \in Worker : \A j \in Job :
       worker[v] = Probing(j) /\ worker[w] = Probing(j) => v = w
  /\ \A m, n \in DOMAIN queue : queue[m] = queue[n] => m = n
  /\ \A j \in Job : /\ Queued(j) => ~ InHand(j)
                    /\ ticker[j] = "send" => ~ Queued(j) /\ ~ InHand(j)

(* No timer is late, no send waits, and neither a queued job nor a probe   *)
(* in progress has used up the delay to the next one.                      *)
OnTime ==
  /\ \A j \in Job : /\ now <= due[j]
                    /\ ticker[j] = "send" => due[j] = now
                    /\ Queued(j) => due[j] - now \in Delays
  /\ \A w \in Worker : \A j \in Job :
       worker[w] = Probing(j) => /\ started[w] <= now /\ now <= started[w] + Timeout
                                 /\ due[j] - started[w] \in Delays

Increasing(s) == \A m, n \in DOMAIN s : m < n => s[m] < s[n]

(* The last result of s is one delay before t. *)
OneDelay(s, t) == s # <<>> => t - s[Len(s)] \in Delays

(* Retained results are in the order of their probes, and the last one is  *)
(* one delay before the probe that follows it, wherever that one is.       *)
Regular ==
  \A j \in Job :
    /\ St!Snapshot(j) \in Seq(Nat) /\ Increasing(St!Snapshot(j))
    /\ Queued(j) => OneDelay(St!Snapshot(j), now)
    /\ \A w \in Worker : worker[w] = Probing(j) => OneDelay(St!Snapshot(j), started[w])
    /\ ~ Queued(j) /\ ~ InHand(j) => OneDelay(St!Snapshot(j), due[j])

(* The inductive invariant of the scheduler with a clock. *)
TInv == ClockType /\ Running /\ OnePlace /\ OnTime /\ Regular

LEMMA ProbingApart ==
  /\ \A i, j \in Job : Probing(i) = Probing(j) => i = j
  /\ \A j \in Job : Probing(j) # Idle /\ Probing(j).pc = "probe" /\ Probing(j).job = j
<1>1. \A j \in Job : Probing(j).job = j /\ Probing(j).pc = "probe"
  BY DEF Probing
<1>2. QED
  BY <1>1, Points, Zenon

(* Receiving shifts the channel by one. *)
LEMMA TailItems ==
  ASSUME NEW q \in Seq(Job), q # <<>>
  PROVE  /\ Tail(q) \in Seq(Job) /\ Head(q) \in Job
         /\ 1 \in DOMAIN q /\ Head(q) = q[1]
         /\ \A n \in DOMAIN Tail(q) : n + 1 \in DOMAIN q /\ Tail(q)[n] = q[n + 1]
         /\ \A n \in DOMAIN q : n = 1 \/ (n - 1 \in DOMAIN Tail(q) /\ Tail(q)[n - 1] = q[n])
<1>1. Len(q) \in Nat /\ Len(q) >= 1
  OBVIOUS
<1>2. Len(Tail(q)) = Len(q) - 1 /\ Tail(q) \in Seq(Job)
  BY <1>1
<1>3. DOMAIN q = 1 .. Len(q) /\ DOMAIN Tail(q) = 1 .. Len(q) - 1
  BY <1>2
<1>4. \A n \in 1 .. Len(q) - 1 : Tail(q)[n] = q[n + 1]
  BY <1>1
<1>5. ASSUME NEW n \in DOMAIN q, n # 1
      PROVE  n - 1 \in DOMAIN Tail(q) /\ Tail(q)[n - 1] = q[n]
  <2>1. n - 1 \in 1 .. Len(q) - 1 /\ (n - 1) + 1 = n
    BY <1>1, <1>3, <1>5
  <2>2. QED
    BY <1>3, <1>4, <2>1
<1>6. QED
  BY <1>1, <1>2, <1>3, <1>4, <1>5

(* With a worker per job, an item in the channel finds an idle one: the    *)
(* busy workers have different jobs, and none has the one in the channel.  *)
LEMMA SomeoneIdle ==
  ASSUME Running, OnePlace, EnoughWorkers, queue # <<>>
  PROVE  \E w \in Worker : worker[w] = Idle
<1> SUFFICES ASSUME \A w \in Worker : worker[w] # Idle PROVE FALSE
  OBVIOUS
<1> DEFINE h == Head(queue)
           f == [w \in Worker |-> worker[w].job]
<1>1. h \in Job /\ 1 \in DOMAIN queue /\ queue[1] = h
  BY TailItems DEF Running
<1>2. Queued(h)
  BY <1>1 DEF Queued
<1>3. \A w \in Worker : f[w] \in Job /\ worker[w] = Probing(f[w])
  BY ProbingApart DEF Running
<1>4. \A w \in Worker : f[w] # h
  BY <1>1, <1>2, <1>3 DEF OnePlace, InHand
<1>5. f \in [Worker -> Job \ {h}]
  BY <1>3, <1>4
<1>6. \A v, w \in Worker : f[v] = f[w] => v = w
  BY <1>3 DEF OnePlace
<1> HIDE DEF f, h
<1>7. f \in Injection(Worker, Job \ {h})
  BY <1>5, <1>6, Fun_IsInj
<1>8. IsFiniteSet(Job) /\ IsFiniteSet(Worker)
  BY SchedulerAssumption
<1>9. IsFiniteSet(Job \ {h}) /\ Cardinality(Job \ {h}) = Cardinality(Job) - 1
  BY <1>1, <1>8, FS_RemoveElement
<1>10. Cardinality(Worker) <= Cardinality(Job \ {h})
  BY <1>7, <1>9, FS_Injection
<1>11. Cardinality(Job) \in Nat /\ Cardinality(Worker) \in Nat
  BY <1>8, FS_CardinalityType
<1>12. QED
  BY <1>9, <1>10, <1>11 DEF EnoughWorkers

(* When the clock advances the channel is empty, no ticker wants to send,  *)
(* and no timer and no probe is at its end.                                *)
LEMMA TickIdle ==
  ASSUME TInv, EnoughWorkers, Tick
  PROVE  /\ queue = <<>>
         /\ \A j \in Job : ticker[j] = "timer" /\ now < due[j]
         /\ \A w \in Worker : \A j \in Job :
              worker[w] = Probing(j) => now < started[w] + Timeout
<1>1. ~ Urgent
  BY DEF Tick
<1>2. queue = <<>>
  BY <1>1, SomeoneIdle DEF Urgent, TInv
<1>3. ASSUME NEW j \in Job PROVE ticker[j] = "timer" /\ now < due[j]
  <2>1. Len(queue) < ChanCap
    <3>1. Cardinality(Job) \in Nat /\ Cardinality(Job) # 0
      BY SchedulerAssumption, FS_CardinalityType, FS_EmptySet
    <3>2. QED
      BY <1>2, <3>1 DEF ChanCap
  <2>2. ticker[j] = "timer"
    BY <1>1, <2>1 DEF Urgent, TInv, Running
  <2>3. QED
    BY <1>1, <2>2, TimingAssumption DEF Urgent, TInv, ClockType
<1>4. \A w \in Worker : \A j \in Job :
        worker[w] = Probing(j) => now < started[w] + Timeout
  BY <1>1, ProbingApart, TimingAssumption DEF Urgent, TInv, ClockType
<1>5. QED
  BY <1>2, <1>3, <1>4

(* A step that leaves the store alone changes no snapshot. *)
LEMMA SameSnapshots ==
  ASSUME bufs' = bufs
  PROVE  \A j \in Job : St!Snapshot(j)' = St!Snapshot(j)
BY DEF St!Snapshot, St!snapshot, St!Cap

(* The arithmetic of a delay: it is longer than the timeout. *)
LEMMA DelayLong ==
  ASSUME ShortProbes
  PROVE  /\ Delays \subseteq Int
         /\ \A d \in Delays : d > Timeout /\ d > 0
BY DelaysAround, TimingAssumption DEF ShortProbes

(* A timer fires on time, and never while its job is queued or probed: it  *)
(* would be the end of a delay that has just begun.                        *)
LEMMA TimerKeeps ==
  ASSUME TInv, ClockType', ShortProbes, NEW j \in Job, TimedTimerFires(j)
  PROVE  TInv'
<1> USE DEF TInv
<1>1. /\ due[j] <= now /\ ticker[j] = "timer" /\ ticker' = [ticker EXCEPT ![j] = "send"]
      /\ UNCHANGED <<queue, closed, worker, bufs, now, due, started>>
  BY DEF TimedTimerFires, TimerFires
<1>2. due \in [Job -> Int] /\ now \in Int /\ \A w \in Worker : started[w] \in Int
  BY TimingAssumption DEF ClockType
<1>3. due[j] = now
  BY <1>1, <1>2 DEF OnTime
<1>4. ~ Queued(j)
  BY <1>2, <1>3, DelayLong DEF OnTime
<1>5. ~ InHand(j)
  <2> SUFFICES ASSUME NEW w \in Worker, worker[w] = Probing(j) PROVE FALSE
    BY DEF InHand
  <2>1. started[w] <= now /\ now <= started[w] + Timeout /\ due[j] - started[w] > Timeout
    BY DelayLong DEF OnTime
  <2>2. QED
    BY <1>2, <1>3, <2>1, TimingAssumption
<1>6. \A i \in Job : (Queued(i)' <=> Queued(i)) /\ (InHand(i)' <=> InHand(i))
  BY <1>1 DEF Queued, InHand
<1>7. ticker \in [Job -> {"timer", "send"}]
  BY DEF Running
<1>8. \A i \in Job : ticker'[i] = "send" => i = j \/ ticker[i] = "send"
  BY <1>1, <1>7
<1>9. Running'
  BY <1>1 DEF Running
<1>10. OnePlace'
  BY <1>1, <1>4, <1>5, <1>6, <1>8 DEF OnePlace
<1>11. OnTime'
  BY <1>1, <1>3, <1>6, <1>8 DEF OnTime
<1>12. Regular'
  <2>1. \A i \in Job : St!Snapshot(i)' = St!Snapshot(i)
    BY <1>1, SameSnapshots
  <2>2. QED
    BY <1>1, <1>6, <2>1 DEF Regular, OneDelay, Increasing
<1>13. QED
  BY <1>9, <1>10, <1>11, <1>12

(* A send moves the job into the channel and starts the next delay. *)
LEMMA SendKeeps ==
  ASSUME TInv, ClockType', ShortProbes, NEW j \in Job, TimedSend(j)
  PROVE  TInv'
<1> USE DEF TInv
<1>1. /\ ticker[j] = "send" /\ ticker' = [ticker EXCEPT ![j] = "timer"]
      /\ queue' = Append(queue, j)
      /\ UNCHANGED <<closed, worker, bufs, now, started>>
  BY DEF TimedSend, Send, Running
<1>2. PICK d \in Delays : due' = [due EXCEPT ![j] = now + d]
  BY DEF TimedSend
<1>3. due \in [Job -> Int] /\ now \in Int /\ d \in Int /\ d > 0
  BY DelayLong, TimingAssumption DEF ClockType
<1>4. ticker \in [Job -> {"timer", "send"}] /\ queue \in Seq(Job)
  BY DEF Running
<1>5. due[j] = now /\ ~ Queued(j) /\ ~ InHand(j)
  BY <1>1 DEF OnTime, OnePlace
<1>6. /\ Len(queue) \in Nat /\ DOMAIN queue = 1 .. Len(queue)
      /\ DOMAIN queue' = 1 .. Len(queue) + 1
      /\ queue'[Len(queue) + 1] = j
      /\ \A n \in DOMAIN queue : queue'[n] = queue[n]
  BY <1>1, <1>4
<1>7. \A i \in Job : (Queued(i)' <=> Queued(i) \/ i = j) /\ (InHand(i)' <=> InHand(i))
  <2>1. \A i \in Job : InHand(i)' <=> InHand(i)
    BY <1>1 DEF InHand
  <2>2. ASSUME NEW i \in Job, NEW n \in DOMAIN queue', queue'[n] = i
        PROVE  Queued(i) \/ i = j
    <3>1. n = Len(queue) + 1 \/ n \in DOMAIN queue
      BY <1>6
    <3>2. QED
      BY <1>6, <2>2, <3>1 DEF Queued
  <2>3. ASSUME NEW i \in Job, Queued(i) \/ i = j
        PROVE  \E n \in DOMAIN queue' : queue'[n] = i
    <3>1. Len(queue) + 1 \in DOMAIN queue' /\ \A n \in DOMAIN queue : n \in DOMAIN queue'
      BY <1>6
    <3>2. QED
      BY <1>6, <2>3, <3>1 DEF Queued
  <2>4. QED
    BY <2>1, <2>2, <2>3 DEF Queued
<1>8. \A i \in Job : ticker'[i] = "send" => i # j /\ ticker[i] = "send"
  BY <1>1, <1>4
<1>9. Running'
  BY <1>1, <1>4 DEF Running
<1>10. OnePlace'
  <2>1. \A m, n \in DOMAIN queue' : queue'[m] = queue'[n] => m = n
    <3> SUFFICES ASSUME NEW m \in DOMAIN queue', NEW n \in DOMAIN queue',
                        queue'[m] = queue'[n]
                 PROVE  m = n
      OBVIOUS
    <3>1. (m = Len(queue) + 1 \/ m \in DOMAIN queue) /\ (n = Len(queue) + 1 \/ n \in DOMAIN queue)
      BY <1>6
    <3>2. \A l \in DOMAIN queue : queue[l] # j
      BY <1>5 DEF Queued
    <3>3. QED
      BY <1>6, <3>1, <3>2 DEF OnePlace
  <2>2. QED
    BY <1>1, <1>5, <1>7, <1>8, <2>1 DEF OnePlace
<1>11. OnTime'
  <2>1. \A i \in Job : due'[i] = IF i = j THEN now + d ELSE due[i]
    BY <1>2, <1>3
  <2>2. ASSUME NEW i \in Job
        PROVE  /\ now <= due'[i] /\ (ticker'[i] = "send" => due'[i] = now)
               /\ Queued(i)' => due'[i] - now \in Delays
    <3>1. CASE i = j
      <4>1. due'[i] - now = d /\ now <= due'[i]
        BY <1>3, <2>1, <3>1
      <4>2. QED
        BY <1>8, <3>1, <4>1
    <3>2. CASE i # j
      BY <1>7, <1>8, <2>1, <3>2 DEF OnTime
    <3>3. QED
      BY <3>1, <3>2
  <2>3. \A w \in Worker : \A i \in Job : worker[w] = Probing(i) => i # j
    BY <1>5 DEF InHand
  <2>4. QED
    BY <1>1, <2>1, <2>2, <2>3 DEF OnTime
<1>12. Regular'
  <2>1. \A i \in Job : St!Snapshot(i)' = St!Snapshot(i)
    BY <1>1, SameSnapshots
  <2>2. OneDelay(St!Snapshot(j), now)
    BY <1>5 DEF Regular
  <2>3. \A i \in Job : i # j => due'[i] = due[i]
    BY <1>2, <1>3
  <2>4. ASSUME NEW i \in Job
        PROVE  /\ Queued(i)' => OneDelay(St!Snapshot(i), now)
               /\ ~ Queued(i)' /\ ~ InHand(i)' => OneDelay(St!Snapshot(i), due'[i])
    BY <1>7, <2>2, <2>3 DEF Regular
  <2>5. QED
    BY <1>1, <2>1, <2>4 DEF Regular, OneDelay, Increasing
<1>13. QED
  BY <1>9, <1>10, <1>11, <1>12

(* A worker takes the first item: the probe starts now, one delay after    *)
(* the one before.                                                         *)
LEMMA ReceiveKeeps ==
  ASSUME TInv, ClockType', ShortProbes, NEW w \in Worker, TimedReceive(w)
  PROVE  TInv'
<1> USE DEF TInv
<1> DEFINE j == Head(queue)
<1>1. /\ worker[w] = Idle /\ queue # <<>>
      /\ worker' = [worker EXCEPT ![w] = Probing(j)]
      /\ queue' = Tail(queue) /\ started' = [started EXCEPT ![w] = now]
      /\ UNCHANGED <<closed, ticker, bufs, now, due>>
  BY DEF TimedReceive, Receive
<1>2. /\ queue \in Seq(Job) /\ worker \in [Worker -> {Idle} \cup {Probing(i) : i \in Job}]
      /\ started \in [Worker -> 0 .. MaxTime]
  BY DEF Running, ClockType
<1>3. /\ queue' \in Seq(Job) /\ j \in Job
      /\ 1 \in DOMAIN queue /\ queue[1] = j
      /\ \A n \in DOMAIN queue' : n + 1 \in DOMAIN queue /\ queue'[n] = queue[n + 1]
      /\ \A n \in DOMAIN queue : n = 1 \/ (n - 1 \in DOMAIN queue' /\ queue'[n - 1] = queue[n])
      /\ DOMAIN queue' \subseteq Nat /\ 0 \notin DOMAIN queue'
  <2>1. Tail(queue) \in Seq(Job)
    BY <1>1, <1>2, TailItems
  <2>2. DOMAIN queue' \subseteq Nat /\ 0 \notin DOMAIN queue'
    BY <1>1, <2>1
  <2>3. QED
    BY <1>1, <1>2, <2>2, TailItems
<1> HIDE DEF j
<1>4. Queued(j) /\ ~ InHand(j)
  BY <1>3 DEF Queued, OnePlace
<1>5. \A v \in Worker : worker'[v] = IF v = w THEN Probing(j) ELSE worker[v]
  BY <1>1, <1>2
<1>6. \A v \in Worker : started'[v] = IF v = w THEN now ELSE started[v]
  BY <1>1, <1>2
<1>7. \A i \in Job : (Queued(i)' <=> Queued(i) /\ i # j) /\ (InHand(i)' <=> InHand(i) \/ i = j)
  <2>1. ASSUME NEW i \in Job PROVE InHand(i)' <=> InHand(i) \/ i = j
    BY <1>1, <1>3, <1>5, ProbingApart DEF InHand
  <2>2. ASSUME NEW i \in Job, NEW n \in DOMAIN queue', queue'[n] = i
        PROVE  Queued(i) /\ i # j
    <3>1. n + 1 \in DOMAIN queue /\ queue[n + 1] = i /\ n + 1 # 1
      BY <1>3, <2>2
    <3>2. QED
      BY <1>3, <3>1 DEF Queued, OnePlace
  <2>3. ASSUME NEW i \in Job, Queued(i), i # j
        PROVE  \E n \in DOMAIN queue' : queue'[n] = i
    BY <1>3, <2>3 DEF Queued
  <2>4. QED
    BY <2>1, <2>2, <2>3 DEF Queued
<1>8. Running'
  <2>1. worker' \in [Worker -> {Idle} \cup {Probing(i) : i \in Job}]
    BY <1>1, <1>2, <1>3
  <2>2. QED
    BY <1>1, <1>3, <2>1 DEF Running
<1>9. OnePlace'
  <2>1. \A m, n \in DOMAIN queue' : queue'[m] = queue'[n] => m = n
    <3> SUFFICES ASSUME NEW m \in DOMAIN queue', NEW n \in DOMAIN queue',
                        queue'[m] = queue'[n]
                 PROVE  m = n
      OBVIOUS
    <3>1. m + 1 = n + 1
      BY <1>3 DEF OnePlace
    <3>2. QED
      BY <1>3, <3>1
  <2>2. \A u, v \in Worker : \A i \in Job :
          worker'[u] = Probing(i) /\ worker'[v] = Probing(i) => u = v
    BY <1>3, <1>4, <1>5, ProbingApart DEF OnePlace, InHand
  <2>3. ticker[j] # "send"
    BY <1>3, <1>4 DEF OnePlace
  <2>4. QED
    BY <1>1, <1>7, <2>1, <2>2, <2>3 DEF OnePlace
<1>10. OnTime'
  <2>1. now \in Int /\ Timeout \in Nat
    BY TimingAssumption DEF ClockType
  <2>2. due[j] - now \in Delays
    BY <1>3, <1>4 DEF OnTime
  <2>3. ASSUME NEW v \in Worker, NEW i \in Job, worker'[v] = Probing(i)
        PROVE  /\ started'[v] <= now /\ now <= started'[v] + Timeout
               /\ due[i] - started'[v] \in Delays
    <3>1. CASE v = w
      <4>1. i = j /\ started'[v] = now
        BY <1>3, <1>5, <1>6, <2>3, <3>1, ProbingApart
      <4>2. QED
        BY <2>1, <2>2, <4>1
    <3>2. CASE v # w
      BY <1>5, <1>6, <2>3, <3>2 DEF OnTime
    <3>3. QED
      BY <3>1, <3>2
  <2>4. QED
    BY <1>1, <1>7, <2>3 DEF OnTime
<1>11. Regular'
  <2>1. \A i \in Job : St!Snapshot(i)' = St!Snapshot(i)
    BY <1>1, SameSnapshots
  <2>2. OneDelay(St!Snapshot(j), now)
    BY <1>3, <1>4 DEF Regular
  <2>3. ASSUME NEW v \in Worker, NEW i \in Job, worker'[v] = Probing(i)
        PROVE  OneDelay(St!Snapshot(i), started'[v])
    <3>1. CASE v = w
      <4>1. i = j /\ started'[v] = now
        BY <1>3, <1>5, <1>6, <2>3, <3>1, ProbingApart
      <4>2. QED
        BY <2>2, <4>1
    <3>2. CASE v # w
      BY <1>5, <1>6, <2>3, <3>2 DEF Regular
    <3>3. QED
      BY <3>1, <3>2
  <2>4. ASSUME NEW i \in Job
        PROVE  /\ Queued(i)' => OneDelay(St!Snapshot(i), now)
               /\ ~ Queued(i)' /\ ~ InHand(i)' => OneDelay(St!Snapshot(i), due[i])
    BY <1>7 DEF Regular
  <2>5. QED
    BY <1>1, <2>1, <2>3, <2>4 DEF Regular, OneDelay, Increasing
<1>12. QED
  BY <1>8, <1>9, <1>10, <1>11

(* What Finish does to the retained results: the store records the stamp   *)
(* of the probe for its job, and nothing for any other.                    *)
LEMMA FinishRecords ==
  ASSUME SP!IInv, NEW j \in Job, NEW r \in Result, St!AppendResult(j, r)
  PROVE  /\ St!Snapshot(j)' = SP!Log!Recorded(St!Snapshot(j), r)
         /\ \A i \in Job \ {j} : St!Snapshot(i)' = St!Snapshot(i)
<1>1. SP!AppendResult(j, r)
  BY DEF St!AppendResult, SP!AppendResult, St!push, SP!push,
         St!newRing, SP!newRing, St!Slot, SP!Slot, St!Cap, SP!Cap
<1>2. /\ SP!Snapshot(j)' = SP!Log!Recorded(SP!Snapshot(j), r)
      /\ \A i \in Job \ {j} : SP!Snapshot(i)' = SP!Snapshot(i)
  BY <1>1, StoreAssumed, SP!AppendRecords
<1>3. \A i \in Job : SP!Snapshot(i) = St!Snapshot(i) /\ SP!Snapshot(i)' = St!Snapshot(i)'
  BY DEF St!Snapshot, SP!Snapshot, St!snapshot, SP!snapshot, SP!Cap, St!Cap
<1>4. QED
  BY <1>2, <1>3

(* Recording a later result keeps the retained ones in order.              *)
LEMMA RecordedIncreasing ==
  ASSUME NEW s \in Seq(Nat), Increasing(s), NEW v \in Nat, s # <<>> => s[Len(s)] < v
  PROVE  LET t == SP!Log!Recorded(s, v)
         IN  t \in Seq(Nat) /\ Increasing(t) /\ t # <<>> /\ t[Len(t)] = v
<1> DEFINE n == Len(s)
           g == Append(s, v)
           c == SP!Cap
<1>1. c \in Nat /\ c >= 1
  BY StoreAssumed, SP!CapPositive
<1>2. /\ n \in Nat /\ DOMAIN s = 1 .. n
      /\ g \in Seq(Nat) /\ Len(g) = n + 1 /\ DOMAIN g = 1 .. n + 1
      /\ g[n + 1] = v /\ \A i \in 1 .. n : g[i] = s[i]
  OBVIOUS
<1>3. \A i \in 1 .. n : s[i] \in Nat /\ s[i] < v
  <2> SUFFICES ASSUME NEW i \in 1 .. n PROVE s[i] \in Nat /\ s[i] < v
    OBVIOUS
  <2>1. s[i] \in Nat /\ n \in 1 .. n /\ s[n] \in Nat /\ s[n] < v
    BY <1>2
  <2>2. i = n \/ i < n
    <3> HIDE DEF n, g, c
    <3>1. QED
      BY <1>2
  <2>3. i < n => s[i] < s[n]
    BY <1>2, <2>1 DEF Increasing
  <2>4. QED
    BY <2>1, <2>2, <2>3
<1> HIDE DEF n, g, c
<1>4. Increasing(g)
  <2> SUFFICES ASSUME NEW a \in 1 .. n + 1, NEW b \in 1 .. n + 1, a < b PROVE g[a] < g[b]
    BY <1>2 DEF Increasing
  <2>1. a \in 1 .. n
    BY <1>2
  <2>2. CASE b = n + 1
    BY <1>2, <1>3, <2>1, <2>2
  <2>3. CASE b # n + 1
    <3>1. b \in 1 .. n
      BY <1>2, <2>3
    <3>2. QED
      BY <1>2, <2>1, <3>1 DEF Increasing
  <2>4. QED
    BY <2>2, <2>3
<1>5. CASE n < c
  <2>1. SP!Log!Recorded(s, v) = g
    BY <1>5 DEF SP!Log!Recorded, n, g, c
  <2>2. g # <<>>
    BY <1>2
  <2>3. QED
    BY <1>2, <1>4, <2>1, <2>2
<1>6. CASE ~ (n < c)
  <2> DEFINE t == SubSeq(g, n + 2 - c, n + 1)
  <2>1. SP!Log!Recorded(s, v) = t
    <3>1. SP!Log!Recorded(s, v) = SP!Log!LastN(g, c)
      BY <1>6 DEF SP!Log!Recorded, n, g, c
    <3>2. Len(g) - c + 1 = n + 2 - c
      BY <1>1, <1>2
    <3>3. SP!Log!LastN(g, c) = t
      BY <1>2, <3>2 DEF SP!Log!LastN
    <3>4. QED
      BY <3>1, <3>3
  <2>2. n + 2 - c \in 1 .. n + 1
    BY <1>1, <1>2, <1>6
  <2>3. /\ t \in Seq(Nat) /\ Len(t) = c /\ DOMAIN t = 1 .. c
        /\ \A i \in 1 .. c : t[i] = g[i + n + 1 - c]
    BY <1>1, <1>2, <2>2
  <2> HIDE DEF t
  <2>4. t[c] = v /\ t # <<>>
    <3>1. c \in 1 .. c /\ c + n + 1 - c = n + 1
      BY <1>1, <1>2
    <3>2. QED
      BY <1>2, <2>3, <3>1
  <2>5. Increasing(t)
    <3> SUFFICES ASSUME NEW a \in 1 .. c, NEW b \in 1 .. c, a < b PROVE t[a] < t[b]
      BY <2>3 DEF Increasing
    <3>1. /\ a + n + 1 - c \in 1 .. n + 1 /\ b + n + 1 - c \in 1 .. n + 1
          /\ a + n + 1 - c < b + n + 1 - c
      BY <1>1, <1>2, <1>6
    <3>2. g[a + n + 1 - c] < g[b + n + 1 - c]
      BY <1>2, <1>4, <3>1 DEF Increasing
    <3>3. QED
      BY <2>3, <3>2
  <2>6. QED
    BY <2>1, <2>3, <2>4, <2>5
<1>7. QED
  BY <1>5, <1>6

(* A probe ends: its stamp is the last result of its job, one delay before *)
(* the timer.                                                              *)
LEMMA FinishKeeps ==
  ASSUME TInv, ClockType', SP!IInv, ShortProbes, StampsAreResults,
         NEW w \in Worker, TimedFinish(w)
  PROVE  TInv'
<1> USE DEF TInv
<1>1. PICK j \in Job : worker[w] = Probing(j)
  BY DEF TimedFinish, Finish, Running, Idle
<1>2. /\ worker' = [worker EXCEPT ![w] = Idle]
      /\ St!AppendResult(j, started[w])
      /\ UNCHANGED <<closed, ticker, queue, now, due, started>>
  BY <1>1, ProbingApart DEF TimedFinish, Finish
<1>3. /\ started[w] \in Nat /\ started[w] \in Result
      /\ worker \in [Worker -> {Idle} \cup {Probing(i) : i \in Job}]
  BY TimingAssumption DEF ClockType, StampsAreResults, Running
<1>4. /\ St!Snapshot(j)' = SP!Log!Recorded(St!Snapshot(j), started[w])
      /\ \A i \in Job \ {j} : St!Snapshot(i)' = St!Snapshot(i)
  BY <1>2, <1>3, FinishRecords
<1>5. \A v \in Worker : worker'[v] = IF v = w THEN Idle ELSE worker[v]
  BY <1>2, <1>3
<1>6. \A v \in Worker : \A i \in Job :
        worker'[v] = Probing(i) => v # w /\ worker[v] = Probing(i) /\ i # j
  BY <1>1, <1>5, ProbingApart DEF OnePlace
<1>7. \A i \in Job : (Queued(i)' <=> Queued(i)) /\ (InHand(i)' => InHand(i) /\ i # j)
                    /\ (InHand(i) /\ i # j => InHand(i)')
  <2>1. \A i \in Job : Queued(i)' <=> Queued(i)
    BY <1>2 DEF Queued
  <2>2. \A i \in Job : InHand(i)' => InHand(i) /\ i # j
    BY <1>6 DEF InHand
  <2>3. ASSUME NEW i \in Job, i # j, NEW v \in Worker, worker[v] = Probing(i)
        PROVE  InHand(i)'
    <3>1. v # w
      BY <1>1, <2>3, ProbingApart
    <3>2. worker'[v] = Probing(i)
      BY <1>5, <2>3, <3>1
    <3>3. QED
      BY <3>2 DEF InHand
  <2>4. \A i \in Job : InHand(i) /\ i # j => InHand(i)'
    BY <2>3 DEF InHand
  <2>5. QED
    BY <2>1, <2>2, <2>4
<1>8. Running'
  BY <1>2, <1>3 DEF Running
<1>9. OnePlace'
  BY <1>2, <1>6, <1>7 DEF OnePlace
<1>10. OnTime'
  BY <1>2, <1>6, <1>7 DEF OnTime
<1>11. Regular'
  <2> DEFINE s == St!Snapshot(j)
             t == SP!Log!Recorded(s, started[w])
  <2>1. s \in Seq(Nat) /\ Increasing(s) /\ OneDelay(s, started[w])
    BY <1>1 DEF Regular
  <2>2. s # <<>> => s[Len(s)] < started[w]
    <3>1. ASSUME s # <<>> PROVE s[Len(s)] < started[w]
      <4>1. s[Len(s)] \in Nat
        BY <2>1, <3>1
      <4>2. started[w] - s[Len(s)] > 0
        BY <2>1, <3>1, DelayLong DEF OneDelay
      <4>3. QED
        BY <1>3, <4>1, <4>2
    <3>2. QED
      BY <3>1
  <2> HIDE DEF s
  <2>3. t \in Seq(Nat) /\ Increasing(t) /\ t # <<>> /\ t[Len(t)] = started[w]
    BY <1>3, <2>1, <2>2, RecordedIncreasing
  <2>4. due[j] - started[w] \in Delays /\ ~ Queued(j)
    BY <1>1 DEF OnTime, OnePlace, InHand
  <2>5. OneDelay(t, due[j])
    BY <2>3, <2>4 DEF OneDelay
  <2>6. St!Snapshot(j)' = t
    BY <1>4 DEF s
  <2> HIDE DEF t
  <2>7. ASSUME NEW i \in Job, i # j
        PROVE  /\ St!Snapshot(i)' \in Seq(Nat) /\ Increasing(St!Snapshot(i))'
               /\ Queued(i)' => OneDelay(St!Snapshot(i), now)'
               /\ \A v \in Worker : worker'[v] = Probing(i)
                                      => OneDelay(St!Snapshot(i), started[v])'
               /\ ~ Queued(i)' /\ ~ InHand(i)' => OneDelay(St!Snapshot(i), due[i])'
    BY <1>2, <1>4, <1>6, <1>7, <2>7 DEF Regular, OneDelay, Increasing
  <2>8. /\ St!Snapshot(j)' \in Seq(Nat) /\ Increasing(St!Snapshot(j))'
        /\ ~ Queued(j)' /\ \A v \in Worker : worker'[v] # Probing(j)
        /\ OneDelay(St!Snapshot(j), due[j])'
    BY <1>2, <1>6, <1>7, <2>3, <2>4, <2>5, <2>6 DEF OneDelay, Increasing
  <2>9. QED
    BY <2>7, <2>8 DEF Regular
<1>12. QED
  BY <1>8, <1>9, <1>10, <1>11

(* Time passes: there is nothing that it could make late.                  *)
LEMMA TickKeeps ==
  ASSUME TInv, ClockType', EnoughWorkers, Tick
  PROVE  TInv'
<1> USE DEF TInv
<1>1. /\ now' = now + 1 /\ now \in Int
      /\ UNCHANGED <<closed, ticker, queue, worker, bufs, due, started>>
  BY DEF Tick, vars, schedVars, ClockType
<1>2. /\ queue = <<>>
      /\ \A j \in Job : ticker[j] = "timer" /\ now < due[j]
      /\ \A w \in Worker : \A j \in Job :
           worker[w] = Probing(j) => now < started[w] + Timeout
  BY TickIdle
<1>3. \A j \in Job : ~ Queued(j)
  BY <1>2 DEF Queued
<1>4. \A j \in Job : (Queued(j)' <=> Queued(j)) /\ (InHand(j)' <=> InHand(j))
  BY <1>1 DEF Queued, InHand
<1>5. /\ due \in [Job -> Int] /\ Timeout \in Nat
      /\ \A w \in Worker : started[w] \in Int
  BY TimingAssumption DEF ClockType
<1>6. Running' /\ OnePlace'
  BY <1>1, <1>4 DEF Running, OnePlace
<1>7. OnTime'
  <2>1. \A j \in Job : now' <= due[j]
    BY <1>1, <1>2, <1>5
  <2>2. \A w \in Worker : \A j \in Job :
          worker[w] = Probing(j) => started[w] <= now' /\ now' <= started[w] + Timeout
    BY <1>1, <1>2, <1>5 DEF OnTime
  <2>3. QED
    BY <1>1, <1>2, <1>3, <1>4, <2>1, <2>2 DEF OnTime
<1>8. Regular'
  <2>1. \A i \in Job : St!Snapshot(i)' = St!Snapshot(i)
    BY <1>1, SameSnapshots
  <2>2. QED
    BY <1>1, <1>3, <1>4, <2>1 DEF Regular, OneDelay, Increasing
<1>9. QED
  BY <1>6, <1>7, <1>8

(* TInv is an invariant of the scheduler with a clock. *)
LEMMA TimedInvariance ==
  ASSUME ShortProbes, EnoughWorkers, StampsAreResults
  PROVE  TimedSpec => []TInv
<1>1. TimedInit /\ ClockType => TInv
  <2> SUFFICES ASSUME TimedInit, ClockType PROVE TInv
    OBVIOUS
  <2>1. /\ closed = FALSE /\ ticker = [j \in Job |-> "timer"] /\ queue = <<>>
        /\ worker = [w \in Worker |-> Idle] /\ now = 0 /\ due \in [Job -> Delays]
        /\ \A j \in Job : St!Snapshot(j) = <<>>
    BY DEF TimedInit, Init, St!Init, St!Snapshot
  <2>2. \A j \in Job : ~ Queued(j) /\ \A w \in Worker : worker[w] # Probing(j)
    BY <2>1, ProbingApart DEF Queued
  <2>3. \A j \in Job : due[j] \in Int /\ due[j] > 0
    BY <2>1, DelayLong
  <2>4. Running
    BY <2>1 DEF Running
  <2>5. OnePlace
    BY <2>1, <2>2 DEF OnePlace, InHand
  <2>6. OnTime
    BY <2>1, <2>2, <2>3 DEF OnTime
  <2>7. Regular
    <3>1. Increasing(<<>>) /\ \A t : OneDelay(<<>>, t)
      BY DEF Increasing, OneDelay
    <3>2. <<>> \in Seq(Nat)
      OBVIOUS
    <3>3. QED
      BY <2>1, <3>1, <3>2, Zenon DEF Regular
  <2>8. QED
    BY <2>4, <2>5, <2>6, <2>7 DEF TInv
<1>2. TInv /\ ClockType' /\ SP!IInv /\ [TimedNext]_timedVars => TInv'
  <2> SUFFICES ASSUME TInv, ClockType', SP!IInv, [TimedNext]_timedVars PROVE TInv'
    OBVIOUS
  <2>1. ASSUME NEW j \in Job, TimedTimerFires(j) \/ TimedSend(j)
        PROVE  TInv'
    BY <2>1, TimerKeeps, SendKeeps
  <2>2. ASSUME NEW w \in Worker, TimedReceive(w) \/ TimedFinish(w)
        PROVE  TInv'
    BY <2>2, ReceiveKeeps, FinishKeeps
  <2>3. CASE Tick
    BY <2>3, TickKeeps
  <2>4. CASE UNCHANGED timedVars
    <3>1. UNCHANGED <<closed, ticker, queue, worker, bufs, now, due, started>>
      BY <2>4 DEF timedVars, vars, schedVars
    <3>2. \A i \in Job : St!Snapshot(i)' = St!Snapshot(i)
      BY <3>1, SameSnapshots
    <3>3. Running' /\ OnePlace' /\ OnTime'
      BY <3>1 DEF TInv, Running, OnePlace, OnTime, Queued, InHand
    <3>4. Regular'
      BY <3>1, <3>2 DEF TInv, Regular, OneDelay, Increasing, Queued, InHand
    <3>5. QED
      BY <3>3, <3>4 DEF TInv
  <2>5. QED
    BY <2>1, <2>2, <2>3, <2>4 DEF TimedNext, Horizon
<1>3. TimedSpec => []SP!IInv
  BY TimedSchedules, StoreRuns, StoreAssumed, SP!Invariance, PTL
<1>4. QED
  BY <1>1, <1>2, <1>3, ClockInvariance, PTL DEF TimedSpec

(* With a timeout below the shortest delay and a worker per job, a job is  *)
(* waited for, queued or probed, never two of these, and by one worker.    *)
THEOREM ProbesNeverOverlap ==
  ASSUME ShortProbes, EnoughWorkers, StampsAreResults
  PROVE  TimedSpec => []OneProbePerJob
<1>1. TInv => OneProbePerJob
  <2> SUFFICES ASSUME TInv, NEW j \in Job
               PROVE  Cardinality({w \in Worker : worker[w] = Probing(j)})
                        + Cardinality({i \in DOMAIN queue : queue[i] = j})
                        + (IF ticker[j] = "send" THEN 1 ELSE 0) <= 1
    BY DEF OneProbePerJob
  <2> DEFINE W == {w \in Worker : worker[w] = Probing(j)}
             Q == {i \in DOMAIN queue : queue[i] = j}
             b == IF ticker[j] = "send" THEN 1 ELSE 0
  <2>1. /\ \A v, w \in W : v = w
        /\ \A m, n \in Q : m = n
        /\ Q # {} => W = {} /\ ticker[j] # "send"
        /\ ticker[j] = "send" => W = {} /\ Q = {}
    BY DEF TInv, OnePlace, Queued, InHand
  <2> HIDE DEF W, Q
  <2>2. Cardinality({}) = 0 /\ \A x : Cardinality({x}) = 1
    BY FS_EmptySet, FS_Singleton
  <2>3. W = {} \/ \E x : W = {x}
    BY <2>1
  <2>4. Q = {} \/ \E x : Q = {x}
    BY <2>1
  <2>5. Cardinality(W) \in {0, 1} /\ (W = {} => Cardinality(W) = 0)
    BY <2>2, <2>3
  <2>6. Cardinality(Q) \in {0, 1} /\ (Q = {} => Cardinality(Q) = 0)
    BY <2>2, <2>4
  <2>7. Cardinality(W) + Cardinality(Q) + b <= 1
    BY <2>1, <2>5, <2>6
  <2>8. QED
    BY <2>7 DEF W, Q
<1>2. QED
  BY <1>1, TimedInvariance, PTL

(* Under the same conditions the retained results of a job are in the      *)
(* order in which its probes were made.                                    *)
THEOREM RecordsInOrder ==
  ASSUME ShortProbes, EnoughWorkers, StampsAreResults
  PROVE  TimedSpec => []OldestFirst
<1>1. TInv => OldestFirst
  BY DEF TInv, Regular, Increasing, OldestFirst
<1>2. QED
  BY <1>1, TimedInvariance, PTL

(* Under the same conditions every probe of a job starts one delay of      *)
(* next() after the one before it, exactly.                                *)
THEOREM ProbesPeriodically ==
  ASSUME ShortProbes, EnoughWorkers, StampsAreResults
  PROVE  TimedSpec => Periodic
<1>1. TInv /\ [TimedNext]_timedVars
        => [\A j \in Job, w \in Worker :
              LET s == St!Snapshot(j)
              IN  (worker[w] = Idle /\ worker'[w] = Probing(j) /\ s # <<>>)
                    => now - s[Len(s)] \in Delays]_timedVars
  <2> SUFFICES ASSUME TInv, TimedNext, NEW j \in Job, NEW w \in Worker,
                      worker[w] = Idle, worker'[w] = Probing(j)
               PROVE  OneDelay(St!Snapshot(j), now)
    BY DEF OneDelay
  <2>1. Queued(j)
    <3>1. worker'[w] # worker[w]
      BY ProbingApart
    <3>2. worker \in [Worker -> {Idle} \cup {Probing(i) : i \in Job}] /\ queue \in Seq(Job)
      BY DEF TInv, Running
    <3>3. PICK v \in Worker : TimedReceive(v) \/ TimedFinish(v)
      BY <3>1 DEF TimedNext, TimedTimerFires, TimerFires, TimedSend, Send, Tick, Horizon,
                  timedVars, vars, schedVars
    <3>4. CASE TimedFinish(v)
      BY <3>1, <3>2, <3>4, ProbingApart DEF TimedFinish, Finish
    <3>5. CASE TimedReceive(v)
      <4>1. queue # <<>> /\ worker' = [worker EXCEPT ![v] = Probing(Head(queue))]
        BY <3>5 DEF TimedReceive, Receive
      <4>2. Head(queue) \in Job /\ 1 \in DOMAIN queue /\ Head(queue) = queue[1]
        BY <3>2, <4>1, TailItems
      <4>3. Probing(j) = Probing(Head(queue))
        BY <3>1, <3>2, <4>1
      <4>4. queue[1] = j
        BY <4>2, <4>3, ProbingApart
      <4>5. QED
        BY <4>2, <4>4 DEF Queued
    <3>6. QED
      BY <3>3, <3>4, <3>5
  <2>2. QED
    BY <2>1 DEF TInv, Regular
<1>2. QED
  BY <1>1, TimedInvariance, PTL DEF TimedSpec, Periodic
=============================================================================
