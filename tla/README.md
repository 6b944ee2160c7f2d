# Verification of qr-edge-gateway

TLA+ models of the QR edge gateway, the TLC runs that check them and the TLAPS
proofs about them. Paths are relative to the repository root.

## 1. The system

| Part | Code | State it keeps | Operations |
|------|------|----------------|------------|
| Core | `qr-c/src/core/` | `st_`: NOT_INIT, INIT, RUNNING, STOPPED | `handle_sync_command`, `start_job`, `stop`, `finish_job` |
| Dispatcher | `qr-c/src/app/Dispatcher.hpp` | queue `q_`, `stopping_`, worker thread, one promise per task | `submit_*`, `stop`, `loop` |
| JobStore | `qr-c/src/app/JobStore.hpp` | map from job id to result | `create`, `exists`, `get`, `set_*` |
| JobRunner | `qr-c/src/app/JobRunner.cpp` | `running_`, `worker_`, `baudrate_`, one job thread | `start`, `stop`, `set_baudrate`, `run_job` |
| Frame reader | `JobRunner.cpp`, `read_cobs_frame` | time left, bytes so far | poll / read loop |
| COBS codec | `JobRunner.cpp`, `fake_serial/fake_serial.c` | none | `cobs_decode`, `cobs_encode` |
| REST handlers | `qr-c/src/adapters/rest/RestServer.cpp` | none of their own | six routes, on Crow's thread pool |
| Process | `qr-c/src/main.cpp` | lifetime of all the above | construction, `run`, destruction |
| MQTT gateway | `gateway-py/gateway.py` | none; one thread per message | command, stop, start-and-poll |
| Fake device | `fake_serial/fake_serial.c` | one connection | accept, emit |

A REST handler runs on a Crow thread. It submits a task to the Dispatcher and
waits at most 500 ms for the future. The Dispatcher's worker executes tasks one
at a time on Core. `/start`, once Core has accepted, calls `JobRunner::start` on
the handler's thread; `/stop` and the command STOP call `JobRunner::stop` on the
handler's thread before they submit STOP. The job thread reads the serial line
until a frame, its deadline or a cancellation, stores the result and submits
FINISH_JOB. The gateway turns MQTT messages into these HTTP calls.

What makes this hard is that only the Dispatcher and the JobStore are locked.
`JobRunner::start` and `stop` are not, although any Crow thread may call them;
Core's decision and the JobRunner's are separate steps; a 503 does not withdraw
the task; and FINISH_JOB does not say which job finished. `PROJECT.json` lists
the hazards with their lines.

## 2. Modules

| Module | Models | How |
|--------|--------|-----|
| `Core` | Core | each method is an operator from the state to the new state and the Response |
| `Tasks` | `Task`, future and promise, the call `loop` makes | vocabulary shared by the next two |
| `SerialCore` | what the Dispatcher promises | Core behind a FIFO queue; executing a task is one step |
| `Dispatcher` | the Dispatcher itself | a critical section of `m_` is one action; notification, join, the call into Core and `set_value` are others |
| `JobStore` | JobStore | operators on the value of the map |
| `JobRunner` | `start`, `stop`, `run_job` | each access to `running_` or `worker_` is one action; built on `SerialCore` |
| `QrService` | the composition: handlers, Dispatcher (as `SerialCore`), JobRunner, JobStore, shutdown | one action per step of a handler that touches shared state |
| `OneDriver` | the service with one client that starts and stops | `QrService` unchanged, what is assumed of its clients, and the invariant that makes this safe |
| `JobService` | what clients of qr-c may rely on | a job comes into being PENDING, ends once, and its result stays |
| `Cobs` | `cobs_decode`; what `cobs_encode` computes | functions on sequences of bytes |
| `CobsEncoder` | `cobs_encode` | the loop, with its indices and the output buffer; a pass is one action |
| `FakeSerial` | `fake_serial.c`, the line to qr-c | accept loop, emitter, signal; `line` is the bytes sent and not read |
| `SerialReader` | `run_job` and `read_cobs_frame` with bytes and clock, over `FakeSerial` | one action per poll, read, open, sleep and store |
| `Gateway` | `gateway.py` over `JobService`, the broker, HTTP | callbacks, one thread per message; qr-c's `/start` with the narrowing of `timeout_ms` |
| `...Proofs` | | theorems about the module of that name (section 5) |
| `MC...` | | instances for TLC |

Three refinements hold the composition together. `Dispatcher` implements
`SerialCore` (proved), so the service is composed with the small specification,
not with the mutex and the condition variable. `QrService` implements
`JobService` (proved), so the gateway is composed with that and not with the
handlers; that the store the gateway model sees obeys `JobService` is proved on
its side (`QrcKeepsPromises`). `SerialReader` implements the job thread of
`JobRunner` (proved), so the service needs neither bytes nor clock.

Variables keep the names of the members they model (`st_`, `q_`, `stopping_`,
`jobs_`, `running_`, `worker_`, `baudrate_`). `pc`, `tpc`, `wpc`, `cpc` and `spc`
are program positions; `fut` is the future a caller holds; `crashed` records
`std::terminate` or a fault.

A few operators are variants of the definition that follows them with one
mistake in it (`PushWithoutNotify`, `NeverJoin`, `CancelNotStored`, ...). No
specification uses them. `PROJECT.json` lists, for each property, the variant
that breaks it.

### Abstractions

* Message texts and logging are left out. A command is a word and whether it is
  in capitals, because handlers compare after `to_upper_ascii` and Core after
  `upper`.
* A request body is what the handlers branch on: whether validation passes, the
  command, the baudrate. All the checks that answer 400 are one flag. In
  `Gateway`, `timeout_ms` is an integer and the conversion to int wraps around.
* In `JobRunner` the serial line is a choice: an attempt to read gives a payload
  with the prefix `QR:` or nothing usable; time is the action `Expire` (the
  deadline of a job passes) and `TimedOut` (the 500 ms pass). `SerialReader` has
  the bytes and a clock that advances in `poll` and in the sleeps only, so
  `EndsByDeadline` speaks of time spent waiting, not of time lost to the
  scheduler.
* Opening and configuring the port may keep or lose what waits in the PTY: the
  code does not flush it, and whether bytes survive a close, an open and a change
  of mode is the kernel's. What is lost is a first part of the bytes on their way,
  because those in transit still come. Bytes are not changed on the way (socat
  makes the PTY raw).
* A descriptor that is open when the PTY goes is hung up (`hung_up`) until
  `run_job` closes it. It never gives bytes of the next PTY.
* `TextAssumption`: a payload has no zero byte, because the device takes its
  length with `strlen`. Nothing bounds its length but the tests in the code.
  `IsShort` describes a payload each of whose bytes, read as a COBS code, points
  past the end of its frame; printable text of at most 30 bytes is short, as are
  the default payload and those of the tests. It is no assumption: it only says
  when `QrFromOneFrame` promises the payload itself.
* The time left is a whole number of units throughout `SerialReader`. In the code
  the deadline has a finer clock and `remaining` is cut to milliseconds, so a loop
  may see 0 when less than a millisecond is left, and end that much earlier.
* A thread can always be made. If the `std::thread` constructor throws
  (`JobRunner.cpp:238`) the request is answered 500, Core is RUNNING until a STOP,
  `running_` stays true, and the job is PENDING for ever.
* `reopen_delay_ms` is at least 1 (`TimeAssumption`); the environment variable
  behind it may say 0, and then the loop spins until the deadline without a
  unit of time passing in the model.
* In `Gateway` the reply 409 stands for 500 and 503 too, because no thread tells
  them apart. An HTTP call may fail before or after it was executed, and one that
  was given up may be executed later. A restart of qr-c loses its jobs and the
  requests in progress.
* `gen_id` draws an unused id. In the code it draws 32 random bits, and a
  collision would overwrite a result.
* The exception branch of `loop` is taken only where a Core call can allocate
  (`Allocates`): refusals whose text is longer than the small-string buffer.
* `core_.state()` is read by handlers without synchronisation; the model reads
  the current value, which is what a word-sized enum gives on the built targets.
* Each client handles one request at a time; different clients interleave.

Outside the repository, and modelled from how it is used and from general
knowledge of the libraries rather than from their source: the wakeups of
`std::condition_variable`; what `std::thread::join` does when two threads race
for it (on an empty handle it throws; with glibc the second joiner gets an error
and throws; with musl it blocks and then touches a released thread, which may
fault); that Crow answers 500 when a handler throws and lets the handlers in
progress finish when it shuts down; the waiting of `poll` and `sleep_for`;
socat, which makes the PTY while it is connected; paho, which reconnects with a
clean session; the broker, which drops what is published while nobody is
subscribed and may deliver a command twice.

## 3. Runs

Passing runs:

| Run | Instance | Checks |
|-----|----------|--------|
| `dispatcher` | 2 clients, 2 stoppers | `TypeOK`, `NoLostWakeup`, `PromiseInv`, `DrainedAtExit`, `ImplementsSerialCore`, `EveryTaskAnswered`, `StopReturns` |
| `one_driver` | one client drives, one observes, 2 jobs, no 503 | `TypeOK`, `DriverInv` (which includes `NeverCrashes`), `CancelledByStop`, `RunningHasJob`, `JobsExclusive`, `ShutdownOrderly`, `StopIsEffective`, `FinishEndsTheJob`, `RunningEnds` |
| `two_drivers` | two clients drive, 1 job, 503 possible | `FinishFollowsResult`, `AcceptedHasJob`, `ImplementsJobService`, `JobsEnd`, `RequestsAnswered` |
| `cobs` | every string up to 7 over 3 bytes, blocks of 3, every buffer up to 11 | `LoopInv` (`TypeOK`, `EncoderInv` and `EncodingInv`), `StaysInBuffer`, `RoomSuffices`, `NoDelimiterInside`, `RoundTrip` |
| `serial_link` | one job, 4 payloads, a timeout of 5 units with steps of 2 | `TypeOK`, `QrFromOneFrame`, `LineInv`, `EndsByDeadline`, `DeadlineInv`, `ImplementsRunJob`, `JobEnds` |
| `gateway` | 2 deliveries, 2 jobs, 1 lost connection, 1 restart | `TypeOK`, `ResultIsTrue`, `OneJobPerDelivery`, `SilentJobHadNoReply`, `TimeoutInRange`, `CommandsAnswered`, `ListensAgain` |

The service is correct in the strong sense when one client at a time starts and
stops and no wait runs into its 500 ms: Core is RUNNING exactly around a job, a
STOP that answers 200 has ended the job, a job is cancelled only by a stop or the
shutdown, and nothing crashes. These are the conditions under which the documentation holds. `tests/test_api.py` drives the
service that way; the gateway, with a thread per MQTT message, need not. With two
driving clients the weaker properties of `two_drivers` still hold.

`two_drivers` has one job, so there one start overlaps stops but not another
start; two starts overlap in `overlap`. `dispatcher` uses Submit, Serve and Collect
of `SerialCore`; the steps for detached and abandoned tasks belong to the service
and are used in the service runs.

On the line, what qr-c reports comes from one frame of the device, although a read
may begin in the middle of a frame and what follows a delimiter in a read is
dropped. Bytes of two frames are never put together, and the result is the payload
when that is short. The gateway gives every delivery of a command a final event,
starts one job per delivery at most, and leaves a job without announcement only
when an HTTP call failed. A command delivered twice may start two jobs, because
`on_message` does not compare ids.

Runs in which the code departs from what the repository says of it:

| Run | Property | What happens |
|-----|----------|--------------|
| `stop_race` | `StoppedHasNoWait` | `/stop` overlaps `/start` after Core's answer: the job waits under a STOPPED Core |
| `overlap` | `DocumentedStopReplies` | two overlapping stops join the same thread; one is answered 500 and its STOP is never submitted |
| `late_start` | `RunningHasJob` | a `/start` answered 503 runs later: Core is RUNNING with no job |
| `reader_budget` | `ReadsUntilTimeout` | a frame in small pieces costs a full poll step for each piece, and is given up in the middle before the time is over |
| `gateway_poll` | `ResultMeansEnded` | after 6 s of polling the gateway publishes `job_result` TIMEOUT for a job that is still PENDING |
| `timeout_wraps` | `DocumentedTimeouts` | a `timeout_ms` below the range of int wraps to a positive one and starts a job, where `docs/openapi.yaml:474-476` has the minimum 1 and 400 otherwise |

The line each run is held against is quoted in `PROJECT.json`.

Observations for which no run is kept:

* With two driving clients, FINISH_JOB of a job that an overlapping `/stop`
  failed to end can set Core to INIT while the next job runs
  (`FinishEndsTheJob` is checked in `one_driver`, where it holds).
* A frame just read makes a job DONE while `/stop` is joining it, and the `/stop`
  then answers 200. `tests/test_api.py:153` and `:167` say that a stopped job "must
  not become DONE"; with a frame that arrives at that moment the test would fail.
* Two overlapping starts may both pass the join in `stop`; the second assignment to
  `worker_` (`JobRunner.cpp:238`) then calls `std::terminate`. `DocumentedStopReplies`
  excludes that too, but TLC stops at the shorter trace of two stops.
* The end of a frame can itself be a frame when the payload is not short: a read
  that begins in the middle of a frame, after a dropped buffer or a reopened port,
  may then report as DONE a text that begins with `QR:` and was not sent as such.
  `docs/PROTOCOL.md:31` says "Non-matching payloads are treated as invalid";
  the reader cannot see the difference. `QrFromOneFrame` says how far this goes.
* INIT changes the baudrate while Core is RUNNING, before Core refuses it.
* Of two concurrent `Dispatcher::stop` calls the second returns before the worker
  has ended, although the comment promises a blocking call. The program calls
  `stop` once, from the destructor.
* `fake_serial.c:30` gives `in_len + in_len/254 + 1` as the room `cobs_encode`
  needs. That is too small by one when the text ends with a full block (`in_len`
  254 and no zero): the code byte of the next block is reserved at index 255, and
  the function then wants `write_index` 256 below `out_cap` 256 and gives up, even
  before the delimiter. `main` tests for one byte more (`Needed`), which leaves
  room for this and for the delimiter; the variant that follows the comment breaks
  `RoomSuffices`.
* `TimeoutInRange` says what a job gets whatever was asked: a positive timeout,
  which is the one asked for when that is an int. Beyond the range of int it may
  be any other.
* The gateway and qr-c validate differently: a Boolean `baudrate` and a
  `params.timeout_ms` above 3600000 pass the gateway and are answered 400.

### Bounds

* Jobs: 2 in `one_driver`, so that a job can be replaced by another.
  `StartBudget` keeps a `/start` from being accepted when no id is left. A third
  job would repeat the relation of the second to the first, because only one
  thread is in `worker_` at a time, and the proofs have any number. `two_drivers` has 1, which its liveness
  properties need to stay small; its safety properties are proved for any number
  of jobs.
* Clients: 2 in the service. All the races found are between two handlers, or
  between a handler and the job thread.
* `MaxAbandoned`: abandoned tasks in the queue at one time, 0 or 1. With 0 no
  request runs into its 500 ms.
* Payloads: 1 value, because nothing compares payloads. Baudrates: 2.
* Dispatcher: each client makes one call and each stopper one. Two calls already
  give every interleaving of a push with the worker and with a stop; longer
  sequences of Core states are reached in the service runs, and the proofs remove
  the bound on the number of callers.
* COBS: blocks of 3 bytes instead of 254, with strings of two full blocks and one
  byte more, so that full blocks meet the end of the text and the end of the
  buffer. The bytes are 0, 1 and the code of a full block, 4.
* `serial_link`: `Full` 4 is the largest byte and the code of a full block of 3, so
  a text may be longer than a block. `LineMax` 7 holds two small frames; a read takes
  up to 5 bytes, so it may end in a frame, at its end or after it. Four payloads: one
  short, to report; one without the prefix whose end reads as a text with it; one
  with a full block and a frame larger than qr-c accepts (`MaxFrame`), whose end it
  may still report; and one too large for the device. The timeout is no multiple of the step. `MaxInterrupts` 1.
* `gateway`: `IntMax` 4 stands for 2^31, with timeouts beyond it on both sides.
  Two publications are a duplicated command or two commands. Two threads, two
  jobs: the properties relate a command to its own job or to one other. The
  proofs of the safety properties use none of these bounds.

### Fairness

A thread that can run does run: weak fairness of the worker, of each handler
step, of each job thread's step and of the shutdown. `Expire` is weakly fair
because the clock advances. Nothing makes a client send a request, the device
open, a spurious wakeup happen, the 500 ms pass, or the process shut down.
In `SerialReader` the job thread and the clock are weakly fair, the device and the
bridge are not. In `Gateway` a thread is weakly fair, because every HTTP call has
a time limit and the poll loop a deadline, and so are paho's reconnection
(`loop_forever`) and `on_connect`; qr-c, its jobs and the cloud are not. Deadlock
is checked in every run; the states in which everything has ended are steps that
change nothing (`AllDone`, `Halted`, `Returned`, `Ended`, `Quiet`).

## 4. What is only model-checked

* All liveness (`EveryTaskAnswered`, `StopReturns`, `RunningEnds`, `JobsEnd`,
  `RequestsAnswered`, `JobEnds`, `CommandsAnswered`, `ListensAgain`): the prover
  does not handle fairness.
* That the models of the violation runs depart from the documentation: a
  counterexample is an instance.

Every invariant and every action property of the passing runs is also proved.
`QrcIsJobService`, in `GatewayProofs`, is proved only and belongs to no run.

## 5. What is proved

### The Dispatcher

`DispatcherProofs`, for any set of clients, of stoppers and of submissions. The
assumptions are `NobodyIsNoClient` (the name for "no promise" is not a client)
and `SubmissionsAreWork` (clients make calls the interface has).

* `TypeCorrect`: `Spec => []TypeOK`.
* `WakeupNotLost`: `Spec => []NoLostWakeup`. Inductive with the type invariant.
  The step that matters is that a notification finds the worker either waiting,
  and wakes it, or not waiting, and then it evaluates the predicate again.
* `PromiseNotLost`: `Spec => []PromiseInv`. "A waiting caller has a task" is not
  inductive. `PromiseInv` adds that the queue has no two tasks of one caller,
  that the task in the worker's hand is no longer queued, and that a caller that
  has not called has no future.
* `Drains`: `Spec => DrainedAtExit`, from `PromiseInv`: at exit the queue is empty
  and the worker's hand is empty, so nobody can be waiting.
* `Refinement`: `Spec => ImplementsSerialCore`. The abstract queue is `q_` with
  the task in the worker's hand in front until Core has run it; the abstract
  future is ready from that moment. `Push` is Submit, `LoopExecute` is Serve,
  `Get` is Collect, and every other step changes nothing abstract.

### The service

`QrServiceProofs`: `QueueKeepsPromises` (`PromiseKept`) for the abstract queue, from
`PromiseNames`, and then, for any sets of clients, jobs, payloads
and requests, from `PromiseNames`, `MainIsApart`, `IssuesAreRequests`,
`BaudAssumption` and `MaxAbandonedAssumption`: `ServiceTypes`,
`AnswersReachTheirRequest`, `ResultBeforeFinish`, `AcceptedMeansJob` and
`ServiceRefinement`. So these hold for every interleaving of starts and stops,
the crashes of `overlap` included.

The inductive invariant is `ServiceInv`: `TypeOK`, `PromiseKept`, `JobInv`,
`HandlerInv` and `FinishInv`. That a result is stored before FINISH_JOB is
submitted is not inductive: it needs that a running thread's job is PENDING and
an ending one's is not (`JobInv`), and this needs that a handler between `create`
and the thread's start has that job to itself. `HandlerInv` ties the id a handler
holds to the store, which gives `AcceptedHasJob`. `FinishInv` says that a job
thread submits once, at its end; without it `PromiseKept` could not exclude two
tasks of one job. `PromiseKept` itself is no property of a run; it is what
`ServiceInv` needs of the queue. For the refinement only three actions touch the store: `Create`
is NewJob, `StoreResult` is EndJob, by `JobInv` on a PENDING job.

### One driver

`OneDriverProofs`, for any number of observing clients, jobs, payloads and
requests. `OneDriverAssumption` says what the strong properties need: the other
clients send no `/start` and no STOP that passes validation, and no wait runs
into its 500 ms (`MaxAbandoned = 0`). The violation runs show that neither part
can be dropped. The theorems are `CancelNeedsStop`, `JobsNeverOverlap`, `RunningIsTrue`,
`ProcessSurvives`, `OrderlyShutdown`, and the action properties `StopEndsTheJob`
and `FinishEndsItsJob`.

None of the properties is inductive, because Core, the queue, the JobRunner and
the handler each hold a part of "a job is running". `DriverInv` says how the
parts fit. A RUNNING Core has a cause: the driver's launch in progress, a live
thread, or a FINISH_JOB in the queue (`CoreInv`). A live thread is the one in
`worker_`, or about to be assigned to it (`LiveInv`). A FINISH_JOB in the queue
is the only one, with no live thread beside it, and the driver's STOP can only be
behind it (`LastFinishInv`): therefore it cannot end a later job. Only the driver
or `main` joins, never both, because `main` leaves `run` when every handler is
through (`OwnerInv`, `ShutdownInv`). `TaskInv` and `FutureInv` tie a task and its
answer to the request, so that a 202 can only belong to an accepted `/start`. The
proof has a step per action, on top of `ServiceInv`.

`CancelNeedsStop` (`CancelledByStop`) is about `running_`, one flag for all jobs. A
thread leaves its loop early when the flag is down, and it does not know why. The
strengthening `FlagInv` adds that the flag is up when `start` is about to make the
thread. The rest comes from `DriverInv`: no older thread is left that could lower
the flag afterwards, and only a STOP or the shutdown finds a live thread to join.

### The codec

`CobsProofs.DecodeUndoesEncoding`: for every byte string and every block length
of at least 1, `cobs_decode` of the encoding is the string. Both directions are
recursive functions on the places of a string, from its end to its start. The
proof gets induction from the library's theorem that a non-empty set of numbers
has a least element (`LeastNat`, `BackwardInduction`, with a set in place of a
predicate), shows that each function satisfies its equation at every place
(`DecodeUnfold`, `EncodeUnfold`), and then that decoding from the place where a
block is written gives the rest of the string (`DecodeRest`).

### The encoder

`CobsEncoderProofs`, for every input, buffer size and block length of at least 1:
`EncoderInvariant`, and from it `NoOverflow`, `RoomIsEnough` and `DelimiterFree`;
`EncodingInvariant` (`LoopInv`), and from it `FramesRoundTrip`.
`EncoderInv` relates the indices: every pass keeps the write index inside the
buffer, the open block's code byte lies behind it at the distance its code says,
and the write index is ahead of the read index by one byte for each full block
(`WriteBound`, `DivBound`). The last is what `main`'s test relies on.

`EncodingInv` says what the bytes are: the encoding of the whole input is the
closed blocks in the buffer, followed by the encoding of the input from the start
of the open block, whose data bytes are already in place. A byte read leaves this
alone, a zero or a full block moves one block over (`CloseBlock`), and at the end
the code of the last block completes it. With `DecodeUndoesEncoding` the frame
decodes to the text.

### The serial reader

`SerialReaderProofs`, for every timeout, step, pause, buffer size, frame limit and
set of payloads, from `TimeAssumption`, `ReadAssumption`, `SizeAssumption`,
`FullAssumption` and `TextAssumption`. The inductive invariant `ReaderInv` has three
parts, for the clock, the bytes and the flags.

* `DeadlineKept` (`EndsByDeadline`) and `DeadlineAccount` (`DeadlineInv`). The
  account: time spent, plus time granted to the current wait, plus what is left
  of the budget stays within the timeout and the interrupted steps.
* `LineInvariant` (`LineInv`) and `OnlyWhatAFrameReads` (`QrFromOneFrame`). From every
  place of the line the rest of a frame follows, up to its delimiter
  (`OnlyFrames`); this survives sending a frame (`FramesFollow`), reading or losing
  a first part (`FramesRemain`), and losing the line. What is collected and the
  line together have it too, as long as the descriptor is not hung up. So what
  stands in front of a delimiter is the end of one frame (`UpToDelimiter`), which
  reads as one of the `Readings` of the payload (`EndReads`). When the payload is
  short, such an end decodes to the text when it is the whole frame and to nothing
  otherwise (`EndDecodes`).
* `ReaderTypes` (`TypeOK`).
* `RunJobRefinement` (`ImplementsRunJob`). `nap` is seen as `top`, `loop` and
  `poll` as one read; the step that returns from `read_cobs_frame` is ReadFrame,
  the unit of time in which the deadline passes is Expire, and the bytes and the
  rest of the time change nothing that `JobRunner` sees. It needs `LineInv`: a
  read gives what an end of a frame reads as (`MayReport`) or nothing.

### The gateway

`GatewayProofs`, for any number of messages, threads, jobs, losses and restarts
and any width of int, from `MessageAssumption`, `NoneAssumption`,
`IntAssumption` and `BoundAssumption`: `OneJob`, `TrueResults`, `SilentJobs`,
`TimeoutsInRange`, `GatewayTypes` and `QrcKeepsPromises`. `GatewayInv` has three
parts besides types. `EventInv`: the events of a thread fit its position, and a
result taken from qr-c is still what the store shows, or qr-c
has restarted. `RequestInv`: a request not yet executed has created no job, and a
202 on its way carries the job its thread owns. `OwnerInv`: a job has one request,
whose thread has the reply before it, has announced the job, or has given up; an
id without an owner is not in the store, which makes every creation a NewJob of
`JobService` (`QrcIsJobService`).

## 6. Not modelled

* Logging, message texts, and the other fields of JSON bodies and replies.
* Option and environment parsing (`main.cpp`, the head of `gateway.py`,
  `getenv_int`): the values are constants. The default timeout of qr-c is not
  tested; the gateway always sends `timeout_ms`.
* The fields of a body one by one: a wrong body is one flag of a request.
* The `termios` settings of `configure_serial_best_effort`; only their effect on
  the bytes in the PTY is.
* A first MQTT connection that fails: it ends the gateway process before it has
  state.
* Containers and the socat command line: what the bridge does to the line is an
  external action.
