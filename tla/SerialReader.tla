---------------------------- MODULE SerialReader ----------------------------
(***************************************************************************)
(* The job thread of qr-c in detail: JobRunner::run_job with the bytes of  *)
(* the line, the poll / read loop of read_cobs_frame, and the clock.       *)
(* JobRunner.tla treats an attempt to read as one choice; ImplementsRunJob *)
(* says that this is what the loop below amounts to.                       *)
(*                                                                         *)
(* Time passes in poll() and in the sleeps, a unit at a time, and nowhere  *)
(* else.  A job is started, and stop() may be called, at any moment.       *)
(***************************************************************************)
EXTENDS FakeSerial, JobStore

CONSTANTS
  Timeout,        \* timeout_ms, measured from the start of the job
  Step,           \* step_ms of read_cobs_frame
  Pause,          \* the sleep after an attempt that gave nothing
  Reopen,         \* reopen_delay_ms
  BufSize,        \* sizeof(buf)
  MaxFrame,       \* the largest frame accepted
  Prefix,         \* "QR:"
  MaxInterrupts   \* bound: how often poll() or read() fails

ASSUME TimeAssumption ==
  /\ Timeout \in Nat /\ MaxInterrupts \in Nat
  /\ Step \in Nat \ {0} /\ Pause \in Nat \ {0} /\ Reopen \in Nat \ {0}

ASSUME ReadAssumption == BufSize \in Nat \ {0} /\ MaxFrame \in Nat

VARIABLES
  running_,       \* JobRunner::running_
  job_,           \* the JobStore entry of the job
  tpc,            \* where the thread is
  frame,          \* the payload it has got: a set with at most one element
  encoded_frame, remaining,   \* of read_cobs_frame
  hung_up,        \* the PTY that the open descriptor belongs to has gone
  left,           \* time left in the current poll() or sleep
  now,            \* time since the start of the job
  interrupts,     \* calls that ended so
  stopper         \* the thread that calls stop(): "stop", then "joinable"

readerVars ==
  <<running_, job_, tpc, frame, encoded_frame, remaining, hung_up, left, now,
    interrupts, stopper>>

vars == <<deviceVars, readerVars>>

Smaller(a, b) == IF a < b THEN a ELSE b

wait_ms == Smaller(remaining, Step)

StartsWith(s, prefix) ==
  Len(prefix) <= Len(s) /\ SubSeq(s, 1, Len(prefix)) = prefix

\* What run_job makes of an encoded frame: cobs_decode and the test for "QR:".
Usable(f) == {p \in cobs_decode(f) : StartsWith(p, Prefix)}

\* What it can make of the frame of a payload p when the read begins at any byte
\* of the frame.
Readings(p) ==
  LET e == Encoding(p) IN  UNION {Usable(SubSeq(e, k, Len(e))) : k \in 1 .. Len(e)}

MayReport == UNION {Readings(p) : p \in DevicePayloads}

-----------------------------------------------------------------------------
(* run_job().                                                              *)

\* start(): the job thread begins.
Start ==
  /\ tpc = "none"
  /\ tpc' = "top" /\ running_' = TRUE
  /\ job_' = [status |-> "PENDING", qr |-> {}]
  /\ UNCHANGED <<deviceVars, frame, encoded_frame, remaining, hung_up, left, now,
                 interrupts, stopper>>

\* running_ = false in stop().
Stop ==
  /\ stopper = "stop"
  /\ stopper' = "joinable" /\ running_' = FALSE
  /\ UNCHANGED <<deviceVars, job_, tpc, frame, encoded_frame, remaining, hung_up, left,
                 now, interrupts>>

\* A unit of time passes in poll() or in a sleep.
Tick ==
  /\ tpc \in {"poll", "nap"} /\ left > 0
  /\ left' = left - 1 /\ now' = now + 1
  /\ UNCHANGED <<deviceVars, running_, job_, tpc, frame, encoded_frame, remaining,
                 hung_up, interrupts, stopper>>

Nap(d) == tpc' = "nap" /\ left' = d

LeaveLoop ==
  /\ tpc = "top"
  /\ \/ ~running_ /\ tpc' = "cancelled"
     \/ running_ /\ now >= Timeout /\ tpc' = "timeout"
  /\ UNCHANGED <<deviceVars, running_, job_, frame, encoded_frame, remaining, hung_up,
                 left, now, interrupts, stopper>>

\* open() fails: a sleep of at most the time that remains.
OpenFails ==
  /\ tpc = "top" /\ running_ /\ now < Timeout
  /\ ~port
  /\ Nap(Smaller(Reopen, Timeout - now))
  /\ UNCHANGED <<deviceVars, running_, job_, frame, encoded_frame, remaining, hung_up,
                 now, interrupts, stopper>>

\* Best effort: whether or not the speed is known and raw mode can be set, bytes
\* that waited in the PTY may be kept or lost; those in transit still come.
configure_serial_best_effort ==
  \E k \in 0 .. Len(line) : line' = SubSeq(line, k + 1, Len(line))

\* open() succeeds, the port is configured, read_cobs_frame is entered.
OpenSerial ==
  /\ tpc = "top" /\ running_ /\ now < Timeout
  /\ port
  /\ configure_serial_best_effort
  /\ tpc' = "loop" /\ encoded_frame' = << >> /\ remaining' = Timeout - now
  /\ UNCHANGED <<payload, g_stop, dpc, port, running_, job_, frame, hung_up, left, now,
                 interrupts, stopper>>

NapEnds ==
  /\ tpc = "nap" /\ left = 0
  /\ tpc' = "top"
  /\ UNCHANGED <<deviceVars, running_, job_, frame, encoded_frame, remaining, hung_up,
                 left, now, interrupts, stopper>>

GateIgnoresStop ==
  /\ tpc = "gate"
  /\ IF frame # {} THEN tpc' = "done" /\ UNCHANGED left ELSE Nap(Pause)
  /\ UNCHANGED <<deviceVars, running_, job_, frame, encoded_frame, remaining, hung_up,
                 now, interrupts, stopper>>

\* After the read: cancelled, a payload, or another attempt after a pause.
Gate ==
  /\ tpc = "gate"
  /\ CASE ~running_               -> tpc' = "cancelled" /\ UNCHANGED left
       [] running_ /\ frame # {}  -> tpc' = "done" /\ UNCHANGED left
       [] OTHER                   -> Nap(Pause)
  /\ UNCHANGED <<deviceVars, running_, job_, frame, encoded_frame, remaining, hung_up,
                 now, interrupts, stopper>>

\* set_done / set_timeout / set_cancelled.
StoreResult ==
  /\ \/ tpc = "done" /\ job_' = [status |-> "DONE", qr |-> frame]
     \/ tpc = "timeout" /\ job_' = [status |-> "TIMEOUT", qr |-> {}]
     \/ tpc = "cancelled" /\ job_' = [status |-> "CANCELLED", qr |-> {}]
  /\ tpc' = "clear"
  /\ UNCHANGED <<deviceVars, running_, frame, encoded_frame, remaining, hung_up,
                 left, now, interrupts, stopper>>

ClearRunning ==
  /\ tpc = "clear"
  /\ tpc' = "finish" /\ running_' = FALSE
  /\ UNCHANGED <<deviceVars, job_, frame, encoded_frame, remaining, hung_up,
                 left, now, interrupts, stopper>>

-----------------------------------------------------------------------------
(* read_cobs_frame().                                                      *)

\* return: run_job closes the descriptor and decodes what it got; the locals
\* are gone.
ReturnFrame(f) ==
  /\ tpc' = "gate" /\ frame' = f
  /\ encoded_frame' = << >> /\ remaining' = 0 /\ left' = 0 /\ hung_up' = FALSE

LoopHeadAtZero ==
  /\ tpc = "loop"
  /\ IF remaining >= 0 /\ running_
     THEN /\ tpc' = "poll" /\ left' = wait_ms
          /\ UNCHANGED <<frame, encoded_frame, remaining, hung_up>>
     ELSE ReturnFrame({})
  /\ UNCHANGED <<deviceVars, running_, job_, now, interrupts, stopper>>

\* The head of the loop, and poll() is entered.
LoopHead ==
  /\ tpc = "loop"
  /\ IF remaining > 0 /\ running_
     THEN /\ tpc' = "poll" /\ left' = wait_ms
          /\ UNCHANGED <<frame, encoded_frame, remaining, hung_up>>
     ELSE ReturnFrame({})
  /\ UNCHANGED <<deviceVars, running_, job_, now, interrupts, stopper>>

\* poll() has something to report.
Wakes == left = 0 \/ line # << >> \/ hung_up

\* running_ is false after poll(), or the descriptor is in error, or EOF.
PollGivesUp ==
  /\ tpc = "poll" /\ Wakes
  /\ ~running_ \/ hung_up
  /\ ReturnFrame({})
  /\ UNCHANGED <<deviceVars, running_, job_, now, interrupts, stopper>>

ChargeFullStep == tpc' = "loop" /\ left' = 0 /\ remaining' = remaining - Step

\* remaining -= wait_ms, whatever the time poll() took; back to the head.
Charge == tpc' = "loop" /\ left' = 0 /\ remaining' = remaining - wait_ms

PollEmptyUncharged ==
  /\ tpc = "poll" /\ running_
  /\ left = 0
  /\ tpc' = "loop" /\ left' = 0
  /\ UNCHANGED <<deviceVars, running_, job_, frame, encoded_frame, remaining, hung_up,
                 now, interrupts, stopper>>

\* Nothing came in wait_ms.
PollEmpty ==
  /\ tpc = "poll" /\ running_
  /\ left = 0
  /\ Charge
  /\ UNCHANGED <<deviceVars, running_, job_, frame, encoded_frame, hung_up, now,
                 interrupts, stopper>>

\* poll() or read() fails: EINTR goes back to the head without a charge, EAGAIN
\* with one, and any other error ends the attempt.
Interrupted ==
  /\ tpc = "poll" /\ running_ /\ interrupts < MaxInterrupts
  /\ interrupts' = interrupts + 1
  /\ \/ tpc' = "loop" /\ left' = 0 /\ UNCHANGED <<remaining, frame, encoded_frame, hung_up>>
     \/ ~hung_up /\ line # << >> /\ Charge /\ UNCHANGED <<frame, encoded_frame, hung_up>>
     \/ ReturnFrame({})
  /\ UNCHANGED <<deviceVars, running_, job_, now, stopper>>

DelimiterBeforeLast(chunk) ==
  LET zeros == {i \in DOMAIN chunk \ {Len(chunk)} : chunk[i] = 0}
  IN  IF zeros = {} THEN 0 ELSE CHOOSE i \in zeros : \A k \in zeros : i <= k

\* The place of the first delimiter in a chunk, or 0.
Delimiter(chunk) ==
  LET zeros == {i \in DOMAIN chunk : chunk[i] = 0}
  IN  IF zeros = {} THEN 0 ELSE CHOOSE i \in zeros : \A k \in zeros : i <= k

\* read() of a chunk: a delimiter ends the frame, and whatever follows it in
\* the chunk is dropped; a frame that grows too large is discarded.
ReadChunk ==
  /\ tpc = "poll" /\ running_ /\ ~hung_up
  /\ \E n \in 1 .. Smaller(BufSize, Len(line)) :
       LET chunk == SubSeq(line, 1, n)
           z     == Delimiter(chunk)
           enc   == encoded_frame \o (IF z = 0 THEN chunk ELSE SubSeq(chunk, 1, z - 1))
       IN  /\ line' = SubSeq(line, n + 1, Len(line))
           /\ CASE Len(enc) > MaxFrame -> ReturnFrame({})
                [] Len(enc) <= MaxFrame /\ z # 0 ->
                     ReturnFrame(IF enc = << >> THEN {} ELSE Usable(enc))
                [] OTHER ->
                     Charge /\ encoded_frame' = enc /\ UNCHANGED <<frame, hung_up>>
  /\ UNCHANGED <<payload, g_stop, dpc, port, running_, job_, now, interrupts, stopper>>

-----------------------------------------------------------------------------
Init ==
  /\ DeviceInit
  /\ running_ = FALSE /\ job_ = Absent
  /\ tpc = "none" /\ frame = {} /\ encoded_frame = << >>
  /\ remaining = 0 /\ hung_up = FALSE /\ left = 0 /\ now = 0 /\ interrupts = 0
  /\ stopper = "stop"

ReaderStep ==
  \/ LeaveLoop \/ OpenFails \/ OpenSerial \/ NapEnds \/ Gate \/ StoreResult
  \/ ClearRunning \/ LoopHead \/ PollGivesUp \/ PollEmpty \/ ReadChunk

\* A descriptor that is open when the PTY goes never sees the next one.
Device ==
  /\ DeviceNext
  /\ hung_up' = (hung_up \/ (tpc \in {"loop", "poll"} /\ port /\ ~port'))
  /\ UNCHANGED <<running_, job_, tpc, frame, encoded_frame, remaining, left, now,
                 interrupts, stopper>>

\* The job is over and the device has gone.
Ended == tpc = "finish" /\ dpc = "exit" /\ UNCHANGED vars

Next == Start \/ Stop \/ Tick \/ Interrupted \/ ReaderStep \/ Device \/ Ended

\* The thread runs and time passes.  The device promises nothing, stop() need
\* not be called, and signals are not guaranteed.
Fairness == WF_vars(ReaderStep) /\ WF_vars(Tick)

Spec == Init /\ [][Next]_vars /\ Fairness

-----------------------------------------------------------------------------
ThreadLabel ==
  {"none", "top", "nap", "loop", "poll", "gate", "done", "timeout", "cancelled",
   "clear", "finish"}

TypeOK ==
  /\ payload \in DevicePayloads /\ line \in Seq(Nat)
  /\ g_stop \in BOOLEAN /\ port \in BOOLEAN
  /\ dpc \in {"accept", "emit", "send", "sleep", "exit"}
  /\ running_ \in BOOLEAN /\ hung_up \in BOOLEAN /\ stopper \in {"stop", "joinable"}
  /\ job_.status \in JobStatus \cup {"ABSENT"} /\ job_.qr \subseteq Seq(Nat)
  /\ tpc \in ThreadLabel
  /\ frame \subseteq Seq(Nat) /\ encoded_frame \in Seq(Nat)
  /\ remaining \in Nat /\ left \in Nat /\ now \in Nat
  /\ interrupts \in 0 .. MaxInterrupts

\* The payload sent or, where the payload is not short, what an end of its frame
\* reads as.
FromOneFrame(q) ==
  \A p \in q : p \in Readings(payload) /\ (IsShort(payload) => p = payload)

(***************************************************************************)
(* A job is DONE only with what one frame of the device reads as, although *)
(* bytes arrive in any pieces, a read may begin in the middle of a frame   *)
(* and read_cobs_frame drops what follows a delimiter in its buffer: bytes *)
(* of two frames are never put together.  The end of a frame can itself be *)
(* a frame, and run_job then reports a text that was not sent; when the    *)
(* payload is short cobs_decode refuses every such end, and the text       *)
(* reported is the payload.                                                *)
(***************************************************************************)
QrFromOneFrame == FromOneFrame(job_.qr)

(***************************************************************************)
(* The argument behind QrFromOneFrame: what read_cobs_frame has collected  *)
(* and what the descriptor can still give it are together the rest of one  *)
(* frame and whole frames after it.  Bytes of two connections never meet   *)
(* in one frame, a delimiter is never taken for data, and what run_job     *)
(* keeps is what the rest of one frame reads as, or nothing.               *)
(***************************************************************************)
LineInv ==
  /\ OnlyFrames(Frame, line)
  /\ ~port => line = << >>
  /\ 0 \notin {encoded_frame[k] : k \in DOMAIN encoded_frame}
  /\ tpc \in {"loop", "poll"} /\ ~hung_up =>
       port /\ OnlyFrames(Frame, encoded_frame \o line)
  /\ FromOneFrame(frame)
  /\ QrFromOneFrame

\* The latest time at which a read may end.
ReadLimit == Timeout + interrupts * Step

(***************************************************************************)
(* A job never outlives its timeout by more than the last pause of         *)
(* run_job, plus a poll step for each interrupted call: the time given to  *)
(* read_cobs_frame is what is left of the deadline, and the loop never     *)
(* waits longer than it charges.                                           *)
(***************************************************************************)
EndsByDeadline ==
  job_.status = "PENDING" => now <= ReadLimit + Pause

(***************************************************************************)
(* The account behind EndsByDeadline: in read_cobs_frame the time spent    *)
(* and the time still granted stay within the deadline of run_job, and a   *)
(* sleep of run_job adds at most one pause.                                *)
(***************************************************************************)
DeadlineInv ==
  /\ tpc = "none" => job_.status = "ABSENT" /\ now = 0
  /\ tpc = "loop" => now + remaining <= ReadLimit
  /\ tpc = "poll" => /\ left <= wait_ms
                     /\ now + left + (remaining - wait_ms) <= ReadLimit
  /\ tpc = "gate" => now <= ReadLimit
  /\ tpc = "nap" => now + left <= ReadLimit + Pause
  /\ tpc \in {"top", "done", "timeout", "cancelled"} => now <= ReadLimit + Pause
  /\ tpc \in {"clear", "finish"} => job_.status \in Terminal

(***************************************************************************)
(* Every job ends: the thread comes to its last statement whatever the     *)
(* device does, silence, noise or a missing port included.                 *)
(***************************************************************************)
JobEnds == (tpc = "top") ~> (tpc = "finish")

-----------------------------------------------------------------------------
(* The job thread as JobRunner.tla sees it.                                *)

ThreadView ==
  CASE tpc = "nap"                -> "top"
    [] tpc \in {"loop", "poll"}   -> "read"
    [] OTHER                      -> tpc

Runner == INSTANCE JobRunner WITH
  Clients <- {}, Jobs <- {"job"}, Nobody <- "nobody", Main <- "main",
  Payloads <- MayReport,
  st_ <- "RUNNING", q_ <- << >>, fut <- << >>,
  jobs_ <- [j \in {"job"} |-> job_],
  running_ <- running_,
  worker_ <- "nobody",
  tpc <- [j \in {"job"} |-> ThreadView],
  frame <- [j \in {"job"} |-> frame],
  expired <- [j \in {"job"} |-> tpc # "none" /\ now >= Timeout],
  pc <- [h \in {"main"} |-> stopper],
  target <- [h \in {"main"} |-> "nobody"],
  jid <- << >>,
  crashed <- FALSE

RunnerStep ==
  \/ Start
  \/ Runner!StopClear("main")
  \/ Runner!Expire("job") \/ Runner!LeaveLoop("job") \/ Runner!OpenSerial("job")
  \/ Runner!ReadFrame("job") \/ Runner!Gate("job") \/ Runner!StoreResult("job")
  \/ Runner!ClearRunning("job")

(***************************************************************************)
(* Seen without bytes and clock, run_job with read_cobs_frame does what    *)
(* JobRunner.tla says of a job thread: its reads end with what a frame of  *)
(* the device reads as or with nothing, and its steps come in that order.  *)
(***************************************************************************)
ImplementsRunJob == [][RunnerStep]_(Runner!runnerVars)

-----------------------------------------------------------------------------
(***************************************************************************)
(* qr-c/src/app/JobRunner.cpp:139, "Reads bytes until 0x00 delimiter       *)
(* appears, or timeout is reached": in the middle of a frame the loop of   *)
(* read_cobs_frame does not give up before the time is over.               *)
(***************************************************************************)
ReadsUntilTimeout ==
  tpc = "loop" /\ remaining = 0 /\ encoded_frame # << >> => now >= Timeout

=============================================================================
