# A verification project for mesh-checker

mesh-checker is one Go program. Run as `serve` on every node of a mesh it
probes the other nodes over ICMP, TCP, UDP and HTTPS, keeps the last results
in memory, classifies every (peer, protocol) pair as up, degraded or down, and
shows the views of all nodes merged in a web page. Run with another subcommand
it edits the configuration file, makes certificates or prints a status.

This directory holds TLA+ modules that model that code, configurations with
which TLC checks them on small instances, and proofs that TLAPS checks for
every value of the constants. `PROJECT.json` lists the runs, the theorems, the
lines of source that each definition models, the hazards, and for every
property a mutated definition (`Mut_...` in the modules, a plausible slip) that
TLC finds to violate it.

    tlc -config Scheduler.cfg Scheduler       # one run; the module is in PROJECT.json
    tlapm StoreProofs.tla                     # the proofs of one module

Paths below are relative to `src/internal/pkg/`.

## 1. The system

| Component | State | Operations | Talks to |
| --- | --- | --- | --- |
| store (`store/store.go`) | a ring per (peer, protocol), one RWMutex | `Append`, `Snapshot`, `Keys` | appended to by workers, read by the aggregator |
| classifier (`classifier/classifier.go`) | none | `Classify` | called by the aggregator |
| scheduler (`scheduler/scheduler.go`) | channel of jobs, ticker and worker goroutines | `Run`, `tickerLoop`, `worker` | probers, store, the context of the process |
| recoverwrap (`recoverwrap/recoverwrap.go`) | none | `Go` | wraps goroutines, ends them at a panic |
| ICMP prober (`probe/icmp/icmp.go`) | next sequence number, pending map, raw socket | `Probe`, `readLoop` | network |
| UDP prober and echo (`probe/udp`, `server/probe/udp_echo.go`) | replay cache | `Probe`, `handle`, `SeenOrAdd` | network, two clocks |
| TCP and HTTPS probers (`probe/tcp`, `probe/http`) | none | `Probe` | network |
| aggregator and inter-host API (`aggregator`, `server/interhost`) | the view being merged, under a mutex | `Aggregate`, `localView`, `Fetch`, `peerCNCheck` | store, the same API of the peers |
| UI (`server/ui`) | sessions are signed tokens, nothing is stored; one ticker per event stream | login, `Verify`, event stream | aggregator |
| configuration (`config`, `cli/host.go`, `cli/user.go`, `cli/configio.go`) | a file and its temporary file | `Load`, `Save`, `CheckMode`, `Validate`, four editing subcommands | other processes that edit or read it |
| PKI (`pki/pki.go`, `cli/pki.go`) | the certificate and key of the CA, and of the host: four files, overwritten in place | `pki init`, `pki cert` | read by `serve` at its start and again by its TLS servers |
| serve (`cli/serve.go`) | servers, listener goroutines, `errCh` | read the files, start, wait, shut down | all of the above |
| `status`, `config validate`, `main`, static assets | none | | |

What is hard in it, with what must hold:

- *store*: index arithmetic at the wrap. Readers must get the last results in
  order and never a slot that was not written: the zero result counts as a
  failed probe.
- *scheduler*: shutdown with senders and receivers on one channel. No send on
  the closed channel, no lost job, no goroutine left, and `Run` returns. While
  it runs no job starves, and the configured period is the real one.
- *probers*: late, lost, duplicated and foreign messages, timeouts that race
  with answers, sequence numbers that wrap, clocks that differ, an echo server
  that is restarted and forgets which requests it has seen. A probe must
  succeed on its own answer only, and must end; the shared read loop must
  never block.
- *aggregator*: stores change while they are read, and peers fail, answer late
  or are restarted with an empty store. A view must have an entry for every
  peer, be consistent entry by entry, never mix two lives of a peer and never
  step back.
- *configuration*: processes are killed between two system calls, and other
  processes read. No partial file, no lost edit, no daemon on a file with
  a loose mode.
- *certificates*: two files that belong together are overwritten one after the
  other, and a start of the daemon reads them in between, twice. What is
  reported as issued must be usable, the daemon must be up on files that were
  in order only, and must come up once they are.
- *serve and UI*: listeners that fail or are late, streams that clients hold
  open or stop to read, a signal at any moment. `serve` must return, and
  streams must go on until then.

`PROJECT.json` lists each of these hazards at its line.

## 2. The modules

| Module | Models | Built on |
| --- | --- | --- |
| `SampleLog` | what the store promises: the last `Cap` results of a key | |
| `Store` | the ring buffers; implements `SampleLog` | `SampleLog` |
| `StoreProofs` | proofs about `Store` | `Store` |
| `Classifier` | `Classify`, as an operator | |
| `Health` | the state of a pair over time: `Store` read through `Classifier` | both |
| `HealthProofs` | proofs about `Health` | `Health`, `StoreProofs` |
| `ProbeService` | what `scheduler.Run` promises its caller | `SampleLog` |
| `Scheduler` | tickers, channel, workers, cancellation, panics; implements `ProbeService` | `Store` |
| `SchedulerTiming` | `Scheduler` with a clock, jitter and timeouts | `Scheduler` |
| `SchedulerProofs` | proofs about `Scheduler` and `SchedulerTiming` | `SchedulerTiming`, `StoreProofs` |
| `UDPProbe` | prober, network, echo server, replay cache, two clocks | |
| `UDPProbeProofs` | proofs about `UDPProbe` | `UDPProbe` |
| `ICMPProber` | concurrent `Probe` calls, pending map, read loop, network | |
| `ICMPProberProofs` | proofs about `ICMPProber` | `ICMPProber` |
| `Aggregator` | `Aggregate` of one node against stores that grow and peers that are restarted | `Classifier`, `SampleLog` |
| `AggregatorProofs` | proofs about `Aggregator` | `Aggregator` |
| `ConfigEdits` | what an editing subcommand promises: one atomic edit | |
| `ConfigFile` | `Save` and `Load` as system calls on inodes and names; implements `ConfigEdits` | `ConfigEdits` |
| `PKI` | `pki init` and `pki cert` as writes of files | |
| `NodeFiles` | one administrator and the start of the daemon over all files of a node | `ConfigFile`, `PKI` |
| `NodeFilesProofs` | proofs about `ConfigFile` with one writer, and about `NodeFiles` | `NodeFiles` |
| `EventStream` | session cookie and event stream of UI clients | |
| `Serve` | the life of `serve`, with `EventStream` behind one server | `EventStream` |
| `ServeProofs` | proofs about `Serve` | `Serve` |
| `MC...` | constants for TLC | |

How state and actions correspond to the code:

- **Store.** `bufs` is `Store.bufs`. Each public method holds the lock for its
  whole body, so `Append` is one action and the readers are state functions.
  `push` and `snapshot` are the two methods of the ring, index for index.
- **Scheduler.** `ticker[j]` is the select at which a ticker waits; `queue` and
  `closed` are the channel; `worker[w]` is idle in the `range`, in `Probe`, or
  over; `run` is the `Wait` at which `Run` stands. A panic ends the worker,
  because `recoverwrap.Go` recovers outside of the loop. The model begins when
  all goroutines are started. A send on a closed channel is a step (to
  "panicked"), so that its absence is a result and not an assumption.
- **SchedulerTiming** adds `due` and `started` and asks that whatever can run
  does so before the clock advances.
- **UDPProbe.** A datagram that was sent stays deliverable: loss, delay,
  duplication and reordering are all in the choice of the next step. The window
  is checked with the wall clock, the cache with the monotonic clock, as in Go.
  HMACs are equality of secrets; nonces are the calls themselves. A restart of
  the server empties `seen`, while what was sent stays deliverable. A client's
  read ends with an answer, at its deadline or with an error before it. `before`
  keeps, for the properties only, how often each request was echoed in earlier
  lives.
- **ICMPProber.** `pending`, `nextSeq` and the channels are the code's. What an
  early return leaves in the map stays there. `Foreign` messages are those that
  a raw socket also receives: `readLoop` looks at the sequence number alone.
- **Aggregator.** `localView` reads `Keys` first and then one `Snapshot` per
  key, with results recorded in between. A fetch is served, merged or fails;
  the peer's view is built while it is served. A result's timestamp is its
  number in the history of its key. A peer that is restarted serves only what
  it has recorded since (`born`), and a view that it was still building is
  "broken" off. Each result in the history bears the life it was recorded in, so
  that an entry, or a whole view, that mixes two lives can be told.
- **ConfigFile.** `path` and `tmp` are directory entries, `data` what inodes
  hold; `os.WriteFile` is an open that truncates and a write, either of which
  may fail, and a process may be killed at each step. `host` and `user` print
  what they have done inside the edit, before `Save` (`said`); the rename and
  the exit with success are two steps, so a process may also be killed when its
  edit is already in place. After a failed rename the temporary file is
  removed, or it stays, because the error of `os.Remove` is ignored. The daemon
  checks the mode, opens and reads in three steps.
- **PKI.** `file` is what each of the four files holds: nothing, the cut text
  that a truncating open leaves, a certificate or a key. A certificate is its
  name, the key it certifies and the key that signed it. `writeStrict` is three
  steps per file (open, write, chmod); a failure or a kill at any of them leaves
  what is there. What `crypto/x509` and `crypto/tls` check of a pair is taken
  from these libraries and marked external.
- **NodeFiles.** The administrator runs one subcommand after another, of either
  kind. `boot` follows `runServe` from the validated configuration through CA,
  certificate and key; `served[l]` is what `ListenAndServeTLS` of server `l`
  has loaded, because it is given paths and reads both files again. A start
  that finds something wrong gives up and begins anew.
- **Serve.** `server[l]` is the server, `listener[l]` its goroutine, `errCh` the
  number of errors in the channel. A listener may be late, fail to bind, or be
  lost to an accept error later on. Shutdown closes a listening socket and then
  waits for handlers until the shared grace period is over. `net/http` is
  modelled from its use: only a client that hangs up ends a request's context.
- **EventStream.** `stream[c]` is the point at which the handler of client `c`
  stands, `tick[c]` the one place in the channel of its ticker. A client that
  stalls holds `emit` up for as long as it likes: no server has a
  `WriteTimeout`.

## 3. The runs

Eight runs pass:

| Run | Question | Bounds, and why they are enough |
| --- | --- | --- |
| `health` | Do wrapped rings implement the log, and is the classification that of the history? | 2 keys, capacity 3, 7 results: one ring wraps twice; every window and threshold from 1 to 3 with threshold <= window |
| `scheduler` | Is shutdown safe, does `Run` implement its promise, does any job starve? | 2 jobs, 2 workers, 1 panic, capacity 2: senders block on the full channel, and the pool can lose a worker |
| `scheduler_timing` | Are probes of a job apart by one jittered interval, in order and never overlapping? | interval 4, jitter 1, timeout 2, 14 ticks: three probes of each job |
| `udp` | Is a request echoed once, does a probe succeed only on its echo, does it end? | 2 probes that may share a port; a listed host with the key, one that is not listed, one without the key; skews -1..1, one step of the clock, window 1, TTL 2 and 5 ticks, so entries leave the cache; two echoes, so that a restart of the server between them matters |
| `icmp` | Does each reply find its own call, does the loop never block, does a call end? | 3 calls on 2 numbers, so a number is used again over what a call left behind; foreign messages have the number that is used once, so that only a call's own reply may complete one of the two that share the other |
| `aggregator` | Are views complete and consistent, and do they never step back? | 3 nodes (one rejects the caller), 2 keys, 3 results, any number of calls, one restart of a peer, which may fall into the middle of a fetch |
| `config_file` | Over all files of a node: are edits atomic and issued certificates usable, whatever fails, what is the daemon up on, and does it come up? | 1 administrator, 2 commands of either kind, 2 names for peers, users and hosts, three initial configurations with either mode, certificates that are absent, ready, or a half-finished pair; any number of starts. Two commands are enough for one to find the leftover of another; the first states of the certificates stand for an earlier one |
| `serve` | Does `serve` return, cleanly if it can, and do streams go on? | 3 servers, the UDP echo, one client whose stream comes and goes and who may stall; clients share nothing |

What they show, by property:

- `HealthTypeOK`, `SnapshotOnlyWritten`, `LogSpec`: the rings stay well formed,
  hand out only what was appended, and refine `SampleLog`. `MatchesHistory`:
  the reported state is what the comment on `Classify` says, read over
  everything ever recorded. `NoFlap`: one result never takes a pair from up to
  down or back, with a threshold above one.
- `NoSendOnClosed`, `DrainedAtReturn`, `ServiceSpec` (refinement of
  `ProbeService`, with its liveness), `JobsKeepBeingProbed`.
- `OneProbePerJob`, `OldestFirst`, `Periodic`.
- `EchoAtMostOnce`, `OKMeansEchoed`, `ProbeEnds`.
- `LoopNeverBlocks`: the loop never stalls on a channel that nobody reads.
  `ReplyFindsWaiter`: the map entry of a waiting call survives what other calls
  leave behind. `OKMeansOwnNumber`, `CallsEnd` (also when the loop has ended).
- `EntriesConsistent`: each entry is one that its observer's store really had,
  and all entries of one observer in a view are of one of its lives.
  `EveryPeerShown`, `NoStepBack`, `AggregateReturns`.
- `NeverPartial`, `StaysValid`, `EditsAreAtomic` (refinement of `ConfigEdits`:
  no edit is lost). `ReportsTruly`: a subcommand that exits with success has
  made its edit, one that exits with an error has changed nothing, and one that
  was killed has done the one or the other and no third thing. It speaks of the
  exit status, because the printed message is no evidence (see below).
  `UpInOrder`: what the daemon has accepted is
  in order, although it looks at names and files one after the other.
  `IssuesTruly`: a certificate that is reported as made fits its key and the CA
  on the disk. `StartsIfInOrder`: if the files are in order and stay so, the
  daemon comes up, again and again.
- `ReportNeverBlocks`, `CleanReturn`, `StopsAfterSignal`,
  `StreamKeepsEmitting`, `StreamEnds`.

Four runs end in a violation. Each checks what the documentation or a comment
says, and TLC finds a behaviour of the code that contradicts it:

| Run | What is said | What happens |
| --- | --- | --- |
| `icmp_foreign` | `Probe` "waits for a reply" | Any echo message with the right number will do. The probers of two nodes both count from 1, so a peer's *request* can make an unanswered probe succeed. |
| `config_two_writers` | a concurrent read "never sees a partial file" | Two editors share the temporary name. One renames what the other has just truncated. |
| `serve_unbound` | an unwritable port makes `serve` exit | The error goes into `errCh`, from which nothing receives, and `serve` runs on. |
| `cert_reload` | `host.name` equals the name in the loaded host certificate | `runServe` compares the name in one copy and its TLS servers read the files again: a `pki cert` in between makes them present another name. |

Smaller things met on the way, kept as hazards or mentioned here: with
`failureThreshold` 0 (also what an omitted value decodes to) every full window
is down; with `failureWindow` above `ringbufferSize` a pair is unknown for ever;
with a timeout above the interval results are appended out of order; as many
panics as workers end all probing, although the design document says that a
recovered goroutine continues; without peers `Run` returns before it is
cancelled; a late UDP response fails the probe that now has its port.
`Validate` accepts all of the settings named. Further: a node that lists itself
as a peer and fails to fetch from itself shows its own view as unreachable; the
echo answers a request once more after a restart; a TLS server that reloads a
half-written pair never listens, and the daemon runs on; two protocols of a peer
that are the same give two jobs for one pair; the daemon does not look at the
modes of private keys, which the design document has it refuse; `host add`,
`host remove`, `user add` and `user remove` print that they have done it before
they save, hence also when saving then fails; a stream
outlives the session that opened it, because it is not verified again; shutdown
does not wait for the scheduler (whose results are in memory only).

## 4. Assumptions

Named in the modules, and checked by TLC for the constants of each run:

- `CapacityAssumption`, `ZeroAssumption` (`Store`): the capacity is an integer
  (`New` raises it to 1), the zero result is none that a prober returns.
- `SettingsAssumption` (`Health`): windows of at least 0. A negative window
  would make the slice expression of `Classify` panic.
- `SchedulerAssumption`: finitely many jobs and workers, at least one worker,
  and what `Store` assumes of capacity and zero result.
- `TimingAssumption`: a jitter of 0 to 100 percent. In the run, moreover,
  timeout < shortest delay: with a longer one probes of a job overlap.
- `UDPAssumption`, `CacheAssumption`: the server's wall clock is never set
  back, and 2 * Window <= TTL (30 s and 60 s in the code). With a clock that is
  set back a request can be echoed again.
- `ICMPAssumption`, and in `Register` and `TargetReplies`: when one of 2^16
  numbers comes round again, the call that had it is over and so are its
  replies. What it left in the map may still be there.
- `AggregatorAssumption`: 1 <= threshold <= window <= capacity.
- `InitAssumption`, `CommandsAssumption` (`ConfigFile`): the first
  configuration is one; there is no temporary file to begin with; there are
  finitely many commands. The power does not fail; `Save` does not sync.
- `PKIAssumption`, `NodeAssumption`: the first states say of each of the four
  files what it holds and whether its mode is the one asked for; `host.name` is
  a name that certificates are issued for.

Others are no assumptions of a module but hypotheses of theorems, stated where
they are used. What happens without each:

| Hypothesis | Says | Without it |
| --- | --- | --- |
| `OneWriter` (`NodeFilesProofs`) | one process at a time edits the configuration | `NeverPartial` is false (run `config_two_writers`) |
| `Fitting` (`HealthProofs`) | threshold at least 1, window at most `Cap`; `Validate` asks for neither | a threshold of 0 shows every full window as down; a wider window stays unknown (`ZeroThresholdIsDown` and `WideWindowStaysUnknown`, theorems too) |
| `ShortProbes` (`SchedulerProofs`) | timeout < interval - jitter; `Validate` does not ask for it | with timeout = interval - jitter TLC finds a job that is dispatched while it is probed |
| `EnoughWorkers` (`SchedulerProofs`) | a worker per job; `serve.go:98` starts `max(2 * jobs, 4)` (and in `SchedulerTiming` none of them dies) | with one worker for two jobs TLC finds a job that waits in the channel when its ticker fires again |
| `StampsAreResults` (`SchedulerProofs`) | results can carry every timestamp of the clock | it only names the results |
| `Job # {}` (`ServesSafely`) | something is to be probed | `Run` returns at once, before a cancellation |
| `Foreign = {}` (`RepliedIfAlone`) | no echo message for others reaches the socket | run `icmp_foreign` |
| `OwnNameOnly` (`NodeFilesProofs`) | certificates are made for the node's own name | run `cert_reload` |

Fairness, where liveness is checked:

- Goroutines that can run do run (weak fairness of their steps), timers fire,
  and probes, fetches and `Aggregate` end, because each has a timeout in the code.
- `Send` of the scheduler is strongly fair: the Go runtime queues blocked
  senders first-in first-out. `Leave` of an event stream is strongly fair: a
  `select` picks a ready case at random.
- A start of the daemon goes on, and one that gave up is repeated: the unit in
  `contrib/systemd` has `Restart=on-failure` and `RestartSec=5s` (its start
  limit is taken not to be reached). Nothing is assumed of the administrator.
- `Tick` of `UDPProbe` is weakly fair up to its bound: time does not stop.
- Signals, requests, clients that hang up or stall, restarts, kills, panics, replies and clock steps are
  never assumed to happen.

## 5. The proofs

| Theorem | Says | Argument |
| --- | --- | --- |
| `StoreProofs!TypeCorrect`, `ReadsOnlyWritten` | rings stay well formed; only written slots are handed out | `IInv` adds to the type that a ring is full or written below its head, which `SnapshotOnlyWritten` alone does not say of the slots it does not read |
| `StoreProofs!Implements` | for any capacity, `Store` refines `SampleLog` | `PushSnapshot`: the snapshot after a push is the snapshot before it with the result recorded, by the three cases of `push` (not full, becoming full, full) |
| `HealthProofs!KeepsLog`, `HealthTypeCorrect`, `StatesMatchHistory` | for any keys, capacity and settings that fit: the store read through the classifier still refines the log, and the state of a pair is the one that everything ever recorded calls for | `Recalls`, the core of `HInv`: the snapshot of a ring is the last `Cap` results of the history, kept by `KeptAppend`; then what `Classify` looks at is the end of the history, if the window fits (`Fitting`) |
| `HealthProofs!WideWindowStaysUnknown` | with a window above the capacity a pair never gets another state than unknown | a snapshot is never longer than the capacity |
| `HealthProofs!ZeroThresholdIsDown` | with a threshold of 0 or less and a window that fits, a pair whose window is full is down, whatever was recorded | no number of failures is below the threshold |
| `HealthProofs!NeverFlaps` | for any settings and capacity, no single result takes a pair from up to down or back, when the threshold is above 1 | one result more shifts the window by at most one place, so the number of failures in it changes by at most one |
| `SchedulerProofs!NeverSendsOnClosed`, `ReturnsDrained` | for any jobs, workers and panics, nobody sends on the closed channel, and nothing is left when `Run` returns | `Phases` ties the channel, the tickers and the workers to the point at which `Run` waits; `LeftDrained` says that a worker leaves only a closed and empty channel, which nobody refills |
| `SchedulerProofs!TypeCorrect`, `ServesSafely` | the type of the whole state, store included; and the safety half of the refinement of `ProbeService` | every behaviour of `Scheduler` is one of `Store` for its keys (`StoreRuns`), so the theorems of `StoreProofs` hold of it; `Finish` is then a recorded result, and `Return` finds the context cancelled because every ticker has left (`LeftCancelled`; without jobs `Run` returns at once, hence the hypothesis that there is one) |
| `SchedulerProofs!NeverStuck` | for any jobs, workers and panics, before `Run` has returned some goroutine can go on, unless all workers are dead and nothing is cancelled | `Phases` and `Bounds`: a full channel has a worker that can receive, an empty and closed one lets the workers leave |
| `SchedulerProofs!DrainIsBounded` | once the channel is closed, `Run` returns after a bounded number of steps: three per place of the channel, two per worker, and one | `Work` counts them and each step makes it smaller |
| `SchedulerProofs!TimedSchedules`, `ProbesNeverOverlap`, `RecordsInOrder`, `ProbesPeriodically` | the scheduler with a clock is a scheduler; and for any jobs, intervals and jitter, with `ShortProbes` and `EnoughWorkers`: no two probes of a job at once, results in the order of their probes, and each probe one jittered interval after the one before | `TInv`: a job is waited for, queued or probed, and only one of these (`OnePlace`); what is queued was dispatched just now, and what is probed not longer ago than a timeout (`OnTime`); the last result of a job is older than the probe that runs (`Regular`). A worker is free whenever a job is queued, by counting, so the clock cannot move past it |
| `UDPProbeProofs!TypeCorrect`, `NoReplay` | for any window and TTL with 2 * Window <= TTL, any client clocks and any forward steps, no request is echoed twice between two starts of the server | `Covered`: a request echoed in this life is either past the window for good, or still in the cache with an entry not older than the lower end of its window |
| `UDPProbeProofs!SuccessIsEchoed` | a probe succeeds only if the server echoed that very probe | `Answered`, `Echoed` |
| `ICMPProberProofs!TypeCorrect`, `NeverBlocks` | for any number of calls and sequence numbers, the read loop never waits for room in a channel | `Slots`: no two entries of the map hold the same channel, and a channel that is in the map is empty and not being sent to; and `Fresh`: a call that has not taken a number is in no map entry and nothing was sent to it |
| `ICMPProberProofs!WaiterIsFound`, `SucceedsOnOwnNumber` | a waiting call is in the map under its number, or its answer is on the way; it succeeds on its own reply or on a foreign message with its number | `JInv`: waiting calls have distinct numbers (`Distinct`), an entry stands under the number of its call (`Named`), replies on the network are to calls that still have their number (`Replies`). It is here that the assumption on the lifetime of numbers is needed |
| `ICMPProberProofs!RepliedIfAlone` | without foreign messages a call succeeds only on a reply of its target, which is what the comment on `Probe` says | `SucceedsOnOwnNumber` |
| `AggregatorProofs!TypeCorrect`, `ViewsConsistent`, `AllShown`, `NeverStepsBack` | for any mesh, settings that fit and any restarts: views are well formed, each entry is the classification of results recorded in one life of its observer, the same life for all its entries in a view, every peer has an entry, and no later view goes back | `Sound`, of each view that is being built, served, merged or shown: its samples were right when taken, and a right sample stays right because histories only grow (`RightGrows`); and a view under construction is of the present life of its observer, for a restart breaks it off. `RetainedSuffice`: the retained results decide the classification. `Phase` and `Merged` relate the view under construction to the fetches of the call |
| `NodeFilesProofs!NeverTorn`, `Implements`, `TellsTruly`, `KeepsValid` | with one writer, for any names and any number of subcommands that fail or are killed: no partial file, each change is one edit, an exit status tells whether the edit was made and a kill leaves all of it or nothing, and a valid configuration stays valid | `Files`: the two names are different inodes and the named one is whole; `Saving`: an editor in the middle holds the edit of what is still on the disk, in the inode of the temporary name, whole before the rename, and in place between the rename and the exit, which is what tells its end truly (`EndStep`). `EditKeeps`: what an edit does to a list of distinct names, from what `RemoveFirst` does to a sequence |
| `NodeFilesProofs!ReadsWhole` | with one writer, the file that the daemon has opened is whole when it is read, also after an edit has replaced it under that name | an inode that had the name once is not written again |
| `NodeFilesProofs!NodeTypeCorrect` | with one writer, every inode holds a configuration or the beginning of one, every file of a pair is missing, cut or whole, and `runServe` goes on just when the configuration was accepted | `NInv` adds what each stage of a `pki` subcommand and of `runServe` carries along |
| `NodeFilesProofs!NodeIsUpInOrder` | whatever the administrator does between its looks at the files, a daemon that is up has accepted a valid configuration of mode 0600, a CA and a certificate with its own name | a step of `NodeFiles` is one of `ConfigFile` or leaves the configuration alone (`ConfigStep`); `Modes`: a temporary file is of mode 0600, so what an edit puts in the place of a checked file is as strict; `Booted`: what each step of `runServe` has read |
| `NodeFilesProofs!IssuedCanBeUsed` | a certificate that is reported as made is on the disk, belongs to its key, and verifies against the CA there | `Pending`: what is left to be written, and the certificate already written, are those of one subcommand, signed with the key of the CA that is still on the disk |
| `NodeFilesProofs!OwnNameIsServed` | while certificates are made for the node's own name only, its TLS servers present no other, whatever is half done | `Own`: every whole certificate, on the disk, pending or loaded, bears that name |
| `NodeFilesProofs!StartsWithoutSetback` | while the files are in order, a start that has found nothing wrong keeps finding nothing wrong, and each step of the daemon is one stage forward, whatever edits fall into it | `OrderedFilesStay` and `OpenedWhole`: what is still to be read stays in order; `Rank` counts the stages |
| `ServeProofs!ReportsNeverBlock`, `ReturnsClean` | for any number of clients, no listener waits for room in `errCh`; when `serve` returns all servers are closed, and no stream is left unless the grace period is over | `Counted`: the errors in the channel are those of listeners that have ended, of which there are no more than places; `ClosedInOrder`, `NoStreamLeft`: what the point of the shutdown says of each server |
| `ServeProofs!ShutdownIsBounded` | for any number of clients, `serve` is at most ten of its own steps from its end, no listener or client adds one, and with a signal and the grace period over it waits for nobody | `StepsLeft` counts them; `WaitsForNobody`: the only wait of a shutdown that is not for the signal is for handlers, and the grace period ends it |

Few of these invariants are inductive as the runs state them; each module of
proofs names its strengthening (`IInv`, also `JInv`, `HInv`, `TInv`, `NInv`, `PInv`,
`Modes`, `Booted`) and proves that it holds at first, is kept by each action,
and implies what is claimed.

Only model-checked are the properties that need fairness and ENABLED, which
TLAPS cannot reason about: `JobsKeepBeingProbed`, the other half of
`ServiceSpec`, `ProbeEnds`, `CallsEnd`, `AggregateReturns`, `StartsIfInOrder`,
`StopsAfterSignal`, `StreamKeepsEmitting`, `StreamEnds`. Of three of them the
part that needs no fairness is proved: that the end is a bounded number of
steps away and no step leads back (`DrainIsBounded`, `StartsWithoutSetback`,
`ShutdownIsBounded`). In `NeverStuck` and `ShutdownIsBounded` that a goroutine
can take a step is written out as its guard.
Every other property of a passing run is stated by a theorem.
Out of reach of the prover in any case are inductions over data and RECURSIVE
operators; the modules use none.

## 6. Not modelled

- TCP and HTTPS probers: one call with a timeout, no state, nothing interleaved.
  To the scheduler their results are any results.
- The protocols below TLS, serial numbers and lifetimes of certificates, the
  byte layout of messages, HMAC and bcrypt: libraries, or conversions that no
  property depends on. A certificate that expires is not modelled.
- `status`, `config validate`, `host list`, assets, the HTTP probe target,
  `main`: no state that a second step reads. (`config validate` omits the check
  of the file mode that the design document lists.)
- Values that `Validate` should reject and does not, outside of the assumptions
  above: a jitter above 100 percent, negative intervals and windows.
- Transient read errors of the UDP echo, and the ticks of the real clock in
  `Serve` and `EventStream`, where durations are only "not over" and "over".

## 7. Plan

Built in this order, the most important behaviour first: store and classifier,
scheduler, UDP probe, aggregator, ICMP prober, configuration file, serve with
the UI; then the certificates and the start of the daemon, restarts of the echo
server and of peers, and clients that stall; then the proofs about each. Left:

1. `Serve` composed with `Scheduler` in its abstract form (`ProbeService`), to
   say what a signal does to probes in progress, and with `NodeFiles`, so that a
   server that has loaded no pair is one that never binds.
2. Bounds on the steps of `Probe` in `UDPProbe` and `ICMPProber` and of
   `Aggregate`, as for the scheduler, `serve` and the start of the daemon.
