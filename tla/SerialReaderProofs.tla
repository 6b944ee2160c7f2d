------------------------- MODULE SerialReaderProofs -------------------------
(***************************************************************************)
(* Proofs about the job thread with its bytes and its clock, for every     *)
(* timeout, poll step, pause, reopen delay and buffer size, every payload  *)
(* of the device and every splitting of its bytes: a job keeps its         *)
(* deadline, it is DONE only with what one frame reads as, and run_job     *)
(* does what JobRunner.tla says.                                           *)
(***************************************************************************)
EXTENDS SerialReader, CobsProofs

(* Time.                                                                   *)

\* The part of the type invariant that the account of time rests on.
ClockType ==
  /\ now \in Nat /\ left \in Nat /\ remaining \in Nat
  /\ interrupts \in Nat /\ tpc \in ThreadLabel

TimeInv == ClockType /\ DeadlineInv

LEMMA WaitBound ==
  ASSUME remaining \in Nat
  PROVE  wait_ms \in Nat /\ wait_ms <= remaining /\ wait_ms <= Step
BY TimeAssumption DEF wait_ms, Smaller

LEMMA LimitType ==
  ASSUME ClockType
  PROVE  ReadLimit \in Nat /\ ReadLimit >= Timeout
<1>1. interrupts * Step \in Nat
  BY TimeAssumption DEF ClockType
<1> QED BY <1>1, TimeAssumption DEF ReadLimit

LEMMA TimeInit == Init => TimeInv
<1> SUFFICES ASSUME Init PROVE TimeInv
  BY Zenon
<1>1. ClockType
  BY Zenon DEF Init, ClockType, ThreadLabel
<1>2. DeadlineInv
  BY Zenon DEF Init, DeadlineInv, Absent
<1> QED BY <1>1, <1>2 DEF TimeInv

LEMMA TimeStep == TimeInv /\ [Next]_vars => TimeInv'
<1> SUFFICES ASSUME TimeInv, [Next]_vars PROVE TimeInv'
  BY Zenon
<1> USE TimeAssumption
<1>a. /\ now \in Nat /\ left \in Nat /\ remaining \in Nat /\ interrupts \in Nat
      /\ wait_ms \in Nat /\ wait_ms <= remaining /\ wait_ms <= Step
      /\ ReadLimit \in Nat /\ ReadLimit >= Timeout
  BY WaitBound, LimitType DEF TimeInv, ClockType
<1>b. interrupts' = interrupts => ReadLimit' = ReadLimit
  BY Zenon DEF ReadLimit
<1>c. remaining' = remaining => wait_ms' = wait_ms
  BY Zenon DEF wait_ms, Smaller
<1>d. DeadlineInv
  BY Zenon DEF TimeInv
<1>1. CASE Start
  BY SMTT(30), <1>1, <1>a, <1>b, <1>d
     DEF Start, TimeInv, ClockType, ThreadLabel, DeadlineInv
<1>2. CASE Stop
  BY SMTT(30), <1>2, <1>a, <1>b, <1>c, <1>d
     DEF Stop, TimeInv, ClockType, ThreadLabel, DeadlineInv
<1>3. CASE Tick
  BY SMTT(30), <1>3, <1>a, <1>b, <1>c, <1>d
     DEF Tick, TimeInv, ClockType, ThreadLabel, DeadlineInv
<1>4. CASE Interrupted
  <2>1. ReadLimit' = ReadLimit + Step
    <3>1. (interrupts + 1) * Step = interrupts * Step + Step /\ interrupts * Step \in Nat
      BY <1>a
    <3> QED BY SMTT(30), <1>4, <1>a, <3>1 DEF Interrupted, ReadLimit
  <2>2. tpc = "poll" /\ now' = now /\ interrupts' = interrupts + 1
    BY <1>4 DEF Interrupted
  <2>3. \/ tpc' = "loop" /\ left' = 0 /\ remaining' = remaining
        \/ tpc' = "loop" /\ left' = 0 /\ remaining' = remaining - wait_ms
        \/ tpc' = "gate" /\ left' = 0 /\ remaining' = 0
    BY Zenon, <1>4 DEF Interrupted, Charge, ReturnFrame
  <2>4. now + left + (remaining - wait_ms) <= ReadLimit
    BY <1>d, <2>2 DEF DeadlineInv
  <2>5. ClockType'
    BY SMTT(30), <1>a, <2>2, <2>3 DEF ClockType, ThreadLabel
  <2>6. DeadlineInv'
    <3>1. CASE tpc' = "gate"
      BY SMTT(30), <1>a, <2>1, <2>2, <2>4, <3>1 DEF DeadlineInv
    <3>2. CASE tpc' = "loop"
      <4>1. now + remaining <= ReadLimit + Step
        BY <1>a, <2>4
      <4>2. remaining' <= remaining /\ remaining' \in Nat
        BY SMTT(30), <1>a, <2>3, <3>2
      <4>3. now + remaining' <= ReadLimit + Step
        <5>1. \A a, b, c, d \in Nat : b <= c /\ a + c <= d => a + b <= d
          OBVIOUS
        <5>2. ReadLimit + Step \in Nat
          BY <1>a
        <5> QED BY Zenon, <1>a, <4>1, <4>2, <5>1, <5>2
      <4>4. now' + remaining' <= ReadLimit'
        BY Zenon, <2>1, <2>2, <4>3
      <4> QED BY SMTT(30), <3>2, <4>4 DEF DeadlineInv
    <3> QED BY SMTT(30), <2>3, <3>1, <3>2
  <2> QED BY <2>5, <2>6 DEF TimeInv
<1>5. CASE LeaveLoop
  BY SMTT(30), <1>5, <1>a, <1>b, <1>d
     DEF LeaveLoop, TimeInv, ClockType, ThreadLabel, DeadlineInv
<1>6. CASE OpenFails
  BY SMTT(30), <1>6, <1>a, <1>b, <1>d
     DEF OpenFails, Nap, Smaller, TimeInv, ClockType, ThreadLabel, DeadlineInv
<1>7. CASE OpenSerial
  BY SMTT(30), <1>7, <1>a, <1>b, <1>d
     DEF OpenSerial, TimeInv, ClockType, ThreadLabel, DeadlineInv
<1>8. CASE NapEnds
  BY SMTT(30), <1>8, <1>a, <1>b, <1>d
     DEF NapEnds, TimeInv, ClockType, ThreadLabel, DeadlineInv
<1>9. CASE Gate
  BY SMTT(30), <1>9, <1>a, <1>b, <1>d
     DEF Gate, Nap, TimeInv, ClockType, ThreadLabel, DeadlineInv
<1>10. CASE StoreResult
  BY SMTT(30), <1>10, <1>a, <1>b, <1>d
     DEF StoreResult, TimeInv, ClockType, ThreadLabel, DeadlineInv, Terminal,
     JobStatus
<1>11. CASE ClearRunning
  BY SMTT(30), <1>11, <1>a, <1>b, <1>d
     DEF ClearRunning, TimeInv, ClockType, ThreadLabel, DeadlineInv
<1>12. CASE LoopHead
  BY SMTT(30), <1>12, <1>a, <1>b, <1>c, <1>d
     DEF LoopHead, ReturnFrame, TimeInv, ClockType, ThreadLabel, DeadlineInv
<1>13. CASE PollGivesUp
  BY SMTT(30), <1>13, <1>a, <1>b, <1>d
     DEF PollGivesUp, ReturnFrame, TimeInv, ClockType, ThreadLabel, DeadlineInv
<1>14. CASE PollEmpty
  BY SMTT(30), <1>14, <1>a, <1>b, <1>d
     DEF PollEmpty, Charge, TimeInv, ClockType, ThreadLabel, DeadlineInv
<1>15. CASE ReadChunk
  <2>1. tpc = "poll" /\ now' = now /\ interrupts' = interrupts
    BY SMTT(30), <1>15 DEF ReadChunk
  <2>2. \/ tpc' = "gate" /\ remaining' = 0 /\ left' = 0
        \/ tpc' = "loop" /\ remaining' = remaining - wait_ms /\ left' = 0
    BY SMTT(30), <1>15 DEF ReadChunk, ReturnFrame, Charge
  <2> QED BY SMTT(30), <1>a, <1>b, <1>d, <2>1, <2>2
     DEF TimeInv, ClockType, ThreadLabel, DeadlineInv
<1>16. CASE UNCHANGED <<job_, tpc, remaining, left, now, interrupts>>
  BY SMTT(30), <1>16, <1>a, <1>b, <1>c, <1>d
     DEF TimeInv, ClockType, ThreadLabel, DeadlineInv
<1> QED
  BY SMTT(30), <1>1, <1>2, <1>3, <1>4, <1>5, <1>6, <1>7, <1>8, <1>9, <1>10, <1>11, <1>12,
     <1>13, <1>14, <1>15, <1>16
  DEF Next, ReaderStep, Device, Ended, vars, readerVars

(***************************************************************************)
(* A job is over at its deadline, up to one pause and a poll step for each *)
(* interrupted call: run_job hands read_cobs_frame no more than what is    *)
(* left, and the loop there charges every wait.                            *)
(***************************************************************************)
THEOREM DeadlineKept == Spec => []EndsByDeadline
<1>1. TimeInv => EndsByDeadline
  <2> SUFFICES ASSUME TimeInv, job_.status = "PENDING" PROVE now <= ReadLimit + Pause
    BY Zenon DEF EndsByDeadline
  <2> QED BY SMTT(30), TimeAssumption, WaitBound, LimitType
          DEF TimeInv, ClockType, ThreadLabel, DeadlineInv, Terminal, JobStatus
<1> QED BY <1>1, TimeInit, TimeStep, PTL DEF Spec

-----------------------------------------------------------------------------
(* The bytes on their way.                                                 *)

\* What the device sends is a frame of text.
LEMMA PayloadFrame ==
  ASSUME payload \in DevicePayloads
  PROVE  /\ IsText(payload) /\ Frame = FrameOf(payload)
         /\ Frame \in Seq(Nat) /\ Len(Frame) # 0
<1>1. payload \in Seq(1 .. Full)
  BY Zenon, TextAssumption
<1>2. payload \in Seq(Nat) /\ \A i \in 1 .. Len(payload) : payload[i] # 0
  BY <1>1, FullAssumption
<1>3. IsText(payload) /\ Frame = FrameOf(payload)
  BY Zenon, <1>2 DEF IsText, Frame, FrameOf
<1>4. Frame \in Seq(Nat) /\ Len(Frame) = Len(Encoding(payload)) + 1
  BY Zenon, <1>3, FrameText
<1>5. Encoding(payload) \in Seq(Nat)
  BY Zenon, <1>3, EncodingText
<1>6. Len(Frame) # 0
  BY <1>4, <1>5
<1> QED BY Zenon, <1>3, <1>4, <1>6

\* What an end of a frame reads as: among the readings of its text, and for a
\* short text nothing but the text.
LEMMA EndReads ==
  ASSUME payload \in DevicePayloads, NEW s \in Seq(Nat), s # << >>, EndOf(Frame, s)
  PROVE  FromOneFrame(Usable(s)) /\ \A p, r \in Usable(s) : p = r
<1> DEFINE e == Encoding(payload)
<1>1. IsText(payload) /\ Frame = FrameOf(payload) /\ EndOf(FrameOf(payload), s)
  BY Zenon, PayloadFrame
<1>2. PICK k \in 1 .. Len(e) : s = SubSeq(e, k, Len(e))
  BY Zenon, <1>1, EndIsPart
<1>3. Usable(s) \in {Usable(SubSeq(e, i, Len(e))) : i \in 1 .. Len(e)}
  BY Zenon, <1>2
<1>4. \A p \in Usable(s) : p \in Readings(payload)
  BY Zenon, <1>3 DEF Readings
<1>5. IsShort(payload) => \A p \in Usable(s) : p = payload
  <2> SUFFICES ASSUME IsShort(payload) PROVE \A p \in Usable(s) : p = payload
    BY Zenon
  <2>1. cobs_decode(s) \subseteq {payload}
    BY Zenon, <1>1, EndDecodes
  <2> QED BY Zenon, <2>1 DEF Usable
<1>6. \A p, r \in Usable(s) : p = r
  BY Zenon, DecodesToOne DEF Usable
<1> QED BY Zenon, <1>4, <1>5, <1>6 DEF FromOneFrame

\* The readings of a payload are byte strings.
LEMMA ReadingsType ==
  ASSUME payload \in DevicePayloads
  PROVE  Readings(payload) \subseteq Seq(Nat)
<1> DEFINE e == Encoding(payload)
<1>1. e \in Seq(Nat)
  BY Zenon, PayloadFrame, EncodingText
<1> SUFFICES ASSUME NEW k \in 1 .. Len(e)
             PROVE  Usable(SubSeq(e, k, Len(e))) \subseteq Seq(Nat)
  BY Zenon DEF Readings
<1> HIDE DEF e
<1>2. k \in Nat /\ k >= 1 /\ Len(e) \in Nat /\ Len(e) <= Len(e) /\ k <= Len(e) + 1
  BY <1>1
<1>3. SubSeq(e, k, Len(e)) \in Seq(Nat)
  BY Zenon, <1>1, <1>2, Part
<1>4. cobs_decode(SubSeq(e, k, Len(e))) \subseteq Seq(Nat)
  BY Zenon, <1>3, DecodesToOne
<1> QED BY Zenon, <1>4 DEF Usable

\* The loop over buf finds the first zero.
LEMMA DelimiterIs ==
  ASSUME NEW s \in Seq(Nat)
  PROVE  /\ Delimiter(s) \in 0 .. Len(s)
         /\ Delimiter(s) = 0 => \A k \in 1 .. Len(s) : s[k] # 0
         /\ Delimiter(s) # 0 => /\ s[Delimiter(s)] = 0
                                /\ \A k \in 1 .. Delimiter(s) - 1 : s[k] # 0
<1> DEFINE Z == {i \in DOMAIN s : s[i] = 0}
           z == CHOOSE i \in Z : \A k \in Z : i <= k
<1>1. DOMAIN s = 1 .. Len(s) /\ Len(s) \in Nat
  OBVIOUS
<1>2. Delimiter(s) = IF Z = {} THEN 0 ELSE z
  BY Zenon DEF Delimiter
<1>3. CASE Z = {}
  <2>1. \A k \in 1 .. Len(s) : s[k] # 0
    BY <1>1, <1>3
  <2> QED BY <1>1, <1>2, <1>3, <2>1
<1>4. CASE Z # {}
  <2>1. Z \subseteq Nat
    BY <1>1
  <2>2. \E i \in Z : \A k \in Z : i <= k
    <3> HIDE DEF Z
    <3> QED BY Zenon, <1>4, <2>1, LeastNat
  <2>3. z \in Z /\ \A k \in Z : z <= k
    <3> HIDE DEF Z
    <3> QED BY Zenon, <2>2
  <2> HIDE DEF z
  <2>4. z \in 1 .. Len(s) /\ s[z] = 0
    BY Zenon, <1>1, <2>3
  <2>5. ASSUME NEW k \in 1 .. z - 1 PROVE s[k] # 0
    <3>1. k \in 1 .. Len(s) /\ ~(z <= k)
      BY <1>1, <2>4
    <3> QED BY Zenon, <1>1, <2>3, <3>1
  <2>6. z # 0 /\ z \in 0 .. Len(s)
    BY <1>1, <2>4
  <2>7. Delimiter(s) = z
    BY Zenon, <1>2, <1>4
  <2> QED BY Zenon, <2>4, <2>5, <2>6, <2>7
<1> QED BY Zenon, <1>3, <1>4

\* The bytes of a chunk in front of its first delimiter, or all of them.
Data(chunk) ==
  IF Delimiter(chunk) = 0 THEN chunk ELSE SubSeq(chunk, 1, Delimiter(chunk) - 1)

LEMMA ChunkData ==
  ASSUME NEW x \in Seq(Nat), NEW n \in 1 .. Len(x)
  PROVE  LET c == SubSeq(x, 1, n)
             v == Data(c)
         IN  /\ c \in Seq(Nat) /\ v \in Seq(Nat) /\ Len(v) <= Len(x)
             /\ \A m \in 1 .. Len(v) : v[m] = x[m] /\ v[m] # 0
             /\ Delimiter(c) # 0 => Len(v) + 1 <= Len(x) /\ x[Len(v) + 1] = 0
<1> DEFINE c == SubSeq(x, 1, n)
           z == Delimiter(c)
           v == Data(c)
<1>0. Len(x) \in Nat /\ n \in Nat /\ 1 \in Nat /\ 1 >= 1 /\ n <= Len(x) /\ 1 <= n + 1
      /\ n + 1 - 1 = n
  OBVIOUS
<1>1. c \in Seq(Nat) /\ Len(c) = n /\ \A m \in 1 .. n : c[m] = x[m]
  <2>1. /\ c \in Seq(Nat) /\ Len(c) = n + 1 - 1
        /\ \A m \in 1 .. n + 1 - 1 : c[m] = x[1 + m - 1]
    BY Zenon, <1>0, Part
  <2>2. \A m \in 1 .. n : 1 + m - 1 = m /\ m \in 1 .. n + 1 - 1
    BY <1>0
  <2> QED BY Zenon, <1>0, <2>1, <2>2
<1> HIDE DEF c
<1>2. /\ z \in 0 .. n
      /\ z = 0 => \A k \in 1 .. n : c[k] # 0
      /\ z # 0 => c[z] = 0 /\ \A k \in 1 .. z - 1 : c[k] # 0
  BY Zenon, <1>1, DelimiterIs
<1>3. CASE z = 0
  <2>1. v = c
    BY Zenon, <1>3 DEF Data
  <2> QED BY Zenon, <1>0, <1>1, <1>2, <1>3, <2>1 DEF c
<1>4. CASE z # 0
  <2> HIDE DEF z
  <2>1. v = SubSeq(c, 1, z - 1)
    BY Zenon, <1>4 DEF Data, z
  <2>2. z - 1 \in Nat /\ z - 1 <= n /\ z <= n /\ z \in 1 .. n /\ 1 <= z - 1 + 1
        /\ z - 1 + 1 - 1 = z - 1 /\ z - 1 + 1 = z
    BY <1>0, <1>2, <1>4
  <2> DEFINE b == z - 1
  <2>a. b \in Nat /\ b <= Len(c) /\ 1 <= b + 1
    BY Zenon, <1>1, <2>2
  <2>b. v = SubSeq(c, 1, b)
    BY Zenon, <2>1
  <2> HIDE DEF b, v
  <2>c. /\ v \in Seq(Nat) /\ Len(v) = b + 1 - 1
        /\ \A m \in 1 .. b + 1 - 1 : v[m] = c[1 + m - 1]
    <3>1. /\ SubSeq(c, 1, b) \in Seq(Nat) /\ Len(SubSeq(c, 1, b)) = b + 1 - 1
          /\ \A m \in 1 .. b + 1 - 1 : SubSeq(c, 1, b)[m] = c[1 + m - 1]
      BY ZenonT(40), <1>0, <1>1, <2>a, Part
    <3> QED BY Zenon, <2>b, <3>1
  <2>3. v \in Seq(Nat) /\ Len(v) = z - 1 /\ b = z - 1
    BY <2>2, <2>c DEF b
  <2>4. \A m \in 1 .. z - 1 : 1 + m - 1 = m /\ m \in 1 .. n /\ m \in 1 .. b + 1 - 1
    BY <1>0, <2>2, <2>3
  <2>5. \A m \in 1 .. z - 1 : v[m] = x[m] /\ v[m] # 0
    BY Zenon, <1>1, <1>2, <1>4, <2>c, <2>4
  <2>6. Len(v) <= Len(x) /\ Len(v) + 1 = z /\ Len(v) + 1 <= Len(x)
    BY <1>0, <2>2, <2>3
  <2>7. x[z] = 0
    BY Zenon, <1>1, <1>2, <1>4, <2>2
  <2> QED BY Zenon, <1>1, <2>3, <2>5, <2>6, <2>7 DEF c, v, z
<1> QED BY Zenon, <1>3, <1>4

\* What the argument about the bytes needs of the types.
ByteType ==
  /\ payload \in DevicePayloads /\ line \in Seq(Nat) /\ encoded_frame \in Seq(Nat)
  /\ tpc \in ThreadLabel /\ hung_up \in BOOLEAN /\ port \in BOOLEAN

\* run_job has got at most one text.
OneText(q) == \A p, r \in q : p = r

ByteInv == ByteType /\ LineInv /\ OneText(frame)

LEMMA ByteInit == Init => ByteInv
<1> SUFFICES ASSUME Init PROVE ByteInv
  BY Zenon
<1>1. /\ payload \in DevicePayloads /\ encoded_frame = << >> /\ tpc = "none"
      /\ hung_up = FALSE /\ frame = {} /\ job_.qr = {}
  BY Zenon DEF Init, DeviceInit, Absent
<1>2. Frame \in Seq(Nat) /\ Len(Frame) # 0
  BY Zenon, <1>1, PayloadFrame
<1>3. << >> \in Seq(Nat) /\ DOMAIN << >> = {}
  OBVIOUS
<1>4. line \in Seq(Nat) /\ OnlyFrames(Frame, line) /\ port \in BOOLEAN
      /\ (~port => line = << >>)
  <2>1. CASE port = FALSE /\ line = << >>
    BY Zenon, <1>3, <2>1, NoBytes
  <2>2. CASE /\ port = TRUE
             /\ \E k \in 1 .. Len(Frame) : line = SubSeq(Frame, k, Len(Frame))
    <3>1. PICK k \in 1 .. Len(Frame) : line = SubSeq(Frame, k, Len(Frame))
      BY Zenon, <2>2
    <3>2. k - 1 \in 0 .. Len(Frame) /\ k - 1 + 1 = k
      BY <1>2
    <3>3. OnlyFrames(Frame, Frame)
      <4>1. << >> \o Frame = Frame
        BY <1>2
      <4> QED BY Zenon, <1>2, <1>3, <4>1, NoBytes, FramesFollow
    <3>4. OnlyFrames(Frame, line)
      <4>1. OnlyFrames(Frame, SubSeq(Frame, k - 1 + 1, Len(Frame)))
        BY Zenon, <1>2, <3>2, <3>3, FramesRemain
      <4> QED BY Zenon, <3>1, <3>2, <4>1
    <3>5. line \in Seq(Nat)
      <4>1. k \in Nat /\ k >= 1 /\ Len(Frame) \in Nat /\ Len(Frame) <= Len(Frame)
            /\ k <= Len(Frame) + 1
        BY <1>2
      <4> QED BY Zenon, <1>2, <3>1, <4>1, Part
    <3> QED BY Zenon, <2>2, <3>4, <3>5
  <2> QED BY Zenon, <2>1, <2>2 DEF Init, DeviceInit
<1> QED BY Zenon, <1>1, <1>3, <1>4
       DEF ByteInv, ByteType, LineInv, QrFromOneFrame, FromOneFrame, OneText, ThreadLabel

\* A step of run_job that touches neither the line nor the bytes collected, and
\* does not enter or leave read_cobs_frame except to enter poll().
LEMMA BytesKept ==
  ASSUME ByteInv, UNCHANGED <<payload, line, port, encoded_frame, hung_up>>,
         tpc' \in ThreadLabel,
         tpc' \in {"loop", "poll"} => tpc \in {"loop", "poll"},
         frame' \in {frame, {}}, job_'.qr \in {job_.qr, frame, {}}
  PROVE  ByteInv'
<1>1. /\ payload' = payload /\ line' = line /\ port' = port
      /\ encoded_frame' = encoded_frame /\ hung_up' = hung_up
  BY Zenon
<1>2. Frame' = Frame
  BY Zenon, <1>1 DEF Frame
<1>3. ByteType'
  BY Zenon, <1>1 DEF ByteInv, ByteType
<1>4. FromOneFrame(frame)' /\ QrFromOneFrame' /\ OneText(frame)'
  BY Zenon, <1>1 DEF ByteInv, LineInv, QrFromOneFrame, FromOneFrame, OneText
<1>a. (port' <=> port) /\ (hung_up' <=> hung_up)
  BY <1>1
<1>b. /\ OnlyFrames(Frame, line) /\ (~port => line = << >>)
      /\ 0 \notin {encoded_frame[k] : k \in DOMAIN encoded_frame}
      /\ tpc \in {"loop", "poll"} /\ ~hung_up =>
           port /\ OnlyFrames(Frame, encoded_frame \o line)
  BY Zenon DEF ByteInv, LineInv
<1>5. /\ OnlyFrames(Frame', line') /\ (~port' => line' = << >>)
      /\ 0 \notin {encoded_frame'[k] : k \in DOMAIN encoded_frame'}
  BY Zenon, <1>1, <1>2, <1>a, <1>b
<1>6. tpc' \in {"loop", "poll"} /\ ~hung_up' =>
        port' /\ OnlyFrames(Frame', encoded_frame' \o line')
  BY Zenon, <1>1, <1>2, <1>a, <1>b
<1> QED BY Zenon, <1>1, <1>3, <1>4, <1>5, <1>6 DEF ByteInv, LineInv

\* return with what the descriptor still had, or part of it, left on the line.
LEMMA BytesReturned ==
  ASSUME ByteInv, UNCHANGED <<payload, port, job_>>,
         NEW f, ReturnFrame(f), FromOneFrame(f), OneText(f),
         NEW n \in 0 .. Len(line), line' = SubSeq(line, n + 1, Len(line))
  PROVE  ByteInv'
<1>1. /\ payload' = payload /\ port' = port /\ job_' = job_ /\ encoded_frame' = << >>
      /\ hung_up' = FALSE /\ tpc' = "gate" /\ frame' = f
  BY Zenon DEF ReturnFrame
<1>2. Frame' = Frame
  BY Zenon, <1>1 DEF Frame
<1>3. line \in Seq(Nat) /\ OnlyFrames(Frame, line)
  BY Zenon DEF ByteInv, ByteType, LineInv
<1>4. line' \in Seq(Nat) /\ (line = << >> => line' = << >>)
  <2>1. n + 1 \in Nat /\ n + 1 >= 1 /\ Len(line) \in Nat /\ Len(line) <= Len(line)
        /\ n + 1 <= Len(line) + 1
    BY <1>3
  <2>2. line' \in Seq(Nat) /\ Len(line') = Len(line) + 1 - (n + 1)
    BY Zenon, <1>3, <2>1, Part
  <2>3. line = << >> => Len(line') = 0
    BY <1>3, <2>2
  <2> QED BY <2>2, <2>3
<1>5. OnlyFrames(Frame', line')
  BY Zenon, <1>2, <1>3, FramesRemain
<1>6. << >> \in Seq(Nat) /\ DOMAIN << >> = {}
  OBVIOUS
<1>7. ByteType'
  BY Zenon, <1>1, <1>4, <1>6 DEF ByteInv, ByteType, ThreadLabel
<1>8. ~port' => line' = << >>
  <2>1. port' <=> port
    BY <1>1
  <2> QED BY Zenon, <1>4, <2>1 DEF ByteInv, LineInv
<1>9. FromOneFrame(frame)' /\ QrFromOneFrame' /\ OneText(frame)'
  BY Zenon, <1>1 DEF ByteInv, LineInv, QrFromOneFrame, FromOneFrame, OneText
<1> QED BY Zenon, <1>1, <1>5, <1>6, <1>7, <1>8, <1>9 DEF ByteInv, LineInv

\* read() gives up, returns a frame or goes on.
LEMMA ReadBytes == ASSUME ByteInv, ReadChunk PROVE ByteInv'
<1>1. /\ tpc = "poll" /\ ~hung_up /\ UNCHANGED <<payload, port, job_>>
      /\ payload \in DevicePayloads /\ line \in Seq(Nat) /\ encoded_frame \in Seq(Nat)
      /\ port /\ OnlyFrames(Frame, encoded_frame \o line)
      /\ OnlyFrames(Frame, line)
      /\ 0 \notin {encoded_frame[k] : k \in DOMAIN encoded_frame}
  BY Zenon DEF ReadChunk, ByteInv, ByteType, LineInv
<1>2. PICK n \in 1 .. Smaller(BufSize, Len(line)) :
        LET chunk == SubSeq(line, 1, n)
            z     == Delimiter(chunk)
            enc   == encoded_frame \o (IF z = 0 THEN chunk ELSE SubSeq(chunk, 1, z - 1))
        IN  /\ line' = SubSeq(line, n + 1, Len(line))
            /\ CASE Len(enc) > MaxFrame -> ReturnFrame({})
                 [] Len(enc) <= MaxFrame /\ z # 0 ->
                      ReturnFrame(IF enc = << >> THEN {} ELSE Usable(enc))
                 [] OTHER ->
                      Charge /\ encoded_frame' = enc /\ UNCHANGED <<frame, hung_up>>
  BY Zenon DEF ReadChunk
<1>3. n \in 1 .. Len(line) /\ n \in 0 .. Len(line)
  BY <1>1, ReadAssumption DEF Smaller
<1> DEFINE c == SubSeq(line, 1, n)
           v == Data(c)
           enc == encoded_frame \o v
           s == encoded_frame \o line
<1>4. line' = SubSeq(line, n + 1, Len(line))
  BY Zenon, <1>2
<1>5. \/ ReturnFrame({})
      \/ Delimiter(c) # 0 /\ enc # << >> /\ ReturnFrame(Usable(enc))
      \/ /\ Delimiter(c) = 0 /\ tpc' = "loop" /\ encoded_frame' = enc
         /\ UNCHANGED <<frame, hung_up>>
  <2>1. CASE ReturnFrame({})
    BY Zenon, <2>1
  <2>2. CASE Delimiter(c) # 0 /\ ReturnFrame(IF enc = << >> THEN {} ELSE Usable(enc))
    <3>1. CASE enc = << >>
      BY Zenon, <2>2, <3>1
    <3>2. CASE enc # << >>
      BY Zenon, <2>2, <3>2
    <3> QED BY Zenon, <3>1, <3>2
  <2>3. CASE /\ Charge /\ encoded_frame' = enc /\ UNCHANGED <<frame, hung_up>>
             /\ ~(Len(enc) > MaxFrame) /\ ~(Len(enc) <= MaxFrame /\ Delimiter(c) # 0)
    <3>1. enc \in Seq(Nat)
      BY Zenon, <1>1, <1>3, ChunkData, Collected, Join
    <3> HIDE DEF enc
    <3>2. Len(enc) <= MaxFrame
      BY <2>3, <3>1, ReadAssumption
    <3> QED BY Zenon, <2>3, <3>2 DEF Charge
  <2> QED BY Zenon, <1>2, <2>1, <2>2, <2>3 DEF Data
<1>6. /\ c \in Seq(Nat) /\ v \in Seq(Nat) /\ Len(v) <= Len(line)
      /\ \A m \in 1 .. Len(v) : v[m] = line[m] /\ v[m] # 0
      /\ Delimiter(c) # 0 => Len(v) + 1 <= Len(line) /\ line[Len(v) + 1] = 0
  BY Zenon, <1>1, <1>3, ChunkData
<1>7. CASE ReturnFrame({})
  <2>1. FromOneFrame({}) /\ OneText({})
    BY Zenon DEF FromOneFrame, OneText
  <2> QED BY Zenon, <1>1, <1>3, <1>4, <1>7, <2>1, BytesReturned
<1> HIDE DEF c, v
<1>8. /\ enc \in Seq(Nat) /\ Len(enc) = Len(encoded_frame) + Len(v)
      /\ \A k \in 1 .. Len(enc) : enc[k] = s[k] /\ enc[k] # 0
  <2>1. DOMAIN encoded_frame = 1 .. Len(encoded_frame)
    BY <1>1
  <2>2. \A m \in 1 .. Len(encoded_frame) : encoded_frame[m] # 0
    BY Zenon, <1>1, <2>1
  <2> QED BY Zenon, <1>1, <1>6, <2>2, Collected
<1>9. CASE Delimiter(c) # 0 /\ enc # << >> /\ ReturnFrame(Usable(enc))
  <2>1. /\ s \in Seq(Nat) /\ Len(s) = Len(encoded_frame) + Len(line)
        /\ \A m \in 1 .. Len(line) : s[Len(encoded_frame) + m] = line[m]
    BY Zenon, <1>1, Join
  <2> HIDE DEF s, enc
  <2>2. Len(v) + 1 \in 1 .. Len(line) /\ Len(enc) < Len(s)
        /\ Len(encoded_frame) + (Len(v) + 1) = Len(enc) + 1
    <3>1. /\ Len(v) \in Nat /\ Len(line) \in Nat /\ Len(encoded_frame) \in Nat
          /\ Len(v) + 1 <= Len(line)
      BY <1>1, <1>6, <1>9
    <3>2. Len(enc) = Len(encoded_frame) + Len(v) /\ Len(s) = Len(encoded_frame) + Len(line)
      BY Zenon, <1>8, <2>1
    <3> QED BY <3>1, <3>2
  <2>3. s[Len(enc) + 1] = 0
    <3>1. s[Len(encoded_frame) + (Len(v) + 1)] = line[Len(v) + 1]
      BY Zenon, <2>1, <2>2
    <3> QED BY Zenon, <1>6, <1>9, <2>2, <3>1
  <2>4. OnlyFrames(Frame, s)
    BY Zenon, <1>1 DEF s
  <2>5. EndOf(Frame, enc)
    <3>1. UpToZero(s, enc)
      BY Zenon, <1>8, <2>1, <2>2, <2>3 DEF UpToZero
    <3> QED BY Zenon, <1>1, <2>4, <3>1, UpToDelimiter, PayloadFrame
  <2>6. FromOneFrame(Usable(enc)) /\ OneText(Usable(enc))
    BY Zenon, <1>1, <1>8, <1>9, <2>5, EndReads DEF OneText
  <2> QED BY Zenon, <1>1, <1>3, <1>4, <1>9, <2>6, BytesReturned
<1>10. CASE /\ Delimiter(c) = 0 /\ tpc' = "loop" /\ encoded_frame' = enc
            /\ UNCHANGED <<frame, hung_up>>
  <2> DEFINE t == SubSeq(line, n + 1, Len(line))
  <2>1. v = c
    BY Zenon, <1>10 DEF v, Data
  <2>2. c \o t = line
    <3>1. /\ 1 \in Nat /\ n \in Nat /\ Len(line) \in Nat /\ 1 >= 1 /\ 1 <= n + 1
          /\ n <= Len(line) /\ Len(line) <= Len(line)
      BY <1>1, <1>3
    <3>2. c \o t = SubSeq(line, 1, Len(line))
      BY Zenon, <1>1, <3>1, AdjacentParts DEF c
    <3> QED BY Zenon, <1>1, <3>2, WholeString
  <2>3. t \in Seq(Nat)
    <3>1. n + 1 \in Nat /\ Len(line) \in Nat /\ n + 1 >= 1 /\ n + 1 <= Len(line) + 1
          /\ Len(line) <= Len(line)
      BY <1>1, <1>3
    <3> QED BY Zenon, <1>1, <3>1, Part
  <2> HIDE DEF t
  <2>4. enc \o t = s
    <3>1. (encoded_frame \o c) \o t = encoded_frame \o (c \o t)
      BY ZenonT(40), <1>1, <1>6, <2>3, Assoc
    <3> QED BY Zenon, <2>1, <2>2, <3>1
  <2>5. line' = t
    BY Zenon, <1>4 DEF t
  <2>6. OnlyFrames(Frame, line')
    BY Zenon, <1>1, <1>3, <1>4, FramesRemain
  <2>7. /\ payload' = payload /\ port' = port /\ job_' = job_ /\ frame' = frame
        /\ hung_up' = hung_up /\ encoded_frame' = enc /\ tpc' = "loop"
    BY Zenon, <1>1, <1>10
  <2>8. Frame' = Frame
    BY Zenon, <2>7 DEF Frame
  <2> HIDE DEF enc
  <2>9. OnlyFrames(Frame', encoded_frame' \o line')
    BY Zenon, <1>1, <2>4, <2>5, <2>7, <2>8
  <2>10. 0 \notin {encoded_frame'[k] : k \in DOMAIN encoded_frame'}
    <3>1. DOMAIN enc = 1 .. Len(enc)
      BY <1>8
    <3> QED BY Zenon, <1>8, <2>7, <3>1
  <2>11. (port' <=> port) /\ (hung_up' <=> hung_up)
    BY <2>7
  <2>12. ByteType'
    BY Zenon, <1>8, <2>3, <2>5, <2>7 DEF ByteInv, ByteType, ThreadLabel
  <2>13. FromOneFrame(frame)' /\ QrFromOneFrame' /\ OneText(frame)'
    BY Zenon, <2>7 DEF ByteInv, LineInv, QrFromOneFrame, FromOneFrame, OneText
  <2>14. OnlyFrames(Frame', line')
    BY Zenon, <2>6, <2>8
  <2> QED BY Zenon, <1>1, <2>9, <2>10, <2>11, <2>12, <2>13, <2>14 DEF ByteInv, LineInv
<1> QED BY Zenon, <1>5, <1>7, <1>9, <1>10

\* return false without a read.
LEMMA BytesGivenUp ==
  ASSUME ByteInv, UNCHANGED <<deviceVars, job_>>, ReturnFrame({})
  PROVE  ByteInv'
<1>1. line \in Seq(Nat) /\ payload' = payload /\ port' = port /\ line' = line /\ job_' = job_
  BY Zenon DEF ByteInv, ByteType, deviceVars
<1>2. 0 \in 0 .. Len(line) /\ 0 + 1 = 1
  BY <1>1
<1>3. line' = SubSeq(line, 0 + 1, Len(line))
  BY Zenon, <1>1, <1>2, WholeString
<1>4. FromOneFrame({}) /\ OneText({})
  BY Zenon DEF FromOneFrame, OneText
<1> QED BY Zenon, <1>1, <1>2, <1>3, <1>4, BytesReturned

\* open() after a bridge has come back, or in the middle of a frame.
LEMMA BytesOpened == ASSUME ByteInv, OpenSerial PROVE ByteInv'
<1>1. /\ payload' = payload /\ port' = port /\ job_' = job_ /\ frame' = frame
      /\ hung_up' = hung_up /\ encoded_frame' = << >> /\ tpc' = "loop" /\ port
      /\ line \in Seq(Nat)
  BY Zenon DEF OpenSerial, ByteInv, ByteType
<1>2. PICK k \in 0 .. Len(line) : line' = SubSeq(line, k + 1, Len(line))
  BY Zenon DEF OpenSerial, configure_serial_best_effort
<1>3. Frame' = Frame
  BY Zenon, <1>1 DEF Frame
<1>4. OnlyFrames(Frame', line')
  BY Zenon, <1>1, <1>2, <1>3, FramesRemain DEF ByteInv, LineInv
<1>5. line' \in Seq(Nat)
  <2>1. k + 1 \in Nat /\ k + 1 >= 1 /\ Len(line) \in Nat /\ Len(line) <= Len(line)
        /\ k + 1 <= Len(line) + 1
    BY <1>1
  <2> QED BY Zenon, <1>1, <1>2, <2>1, Part
<1>6. encoded_frame' \o line' = line'
  BY <1>1, <1>5
<1>7. << >> \in Seq(Nat) /\ DOMAIN << >> = {} /\ (port' <=> port)
  BY <1>1
<1>8. ByteType'
  BY Zenon, <1>1, <1>5, <1>7 DEF ByteInv, ByteType, ThreadLabel
<1>9. FromOneFrame(frame)' /\ QrFromOneFrame' /\ OneText(frame)'
  BY Zenon, <1>1 DEF ByteInv, LineInv, QrFromOneFrame, FromOneFrame, OneText
<1>10. OnlyFrames(Frame', encoded_frame' \o line')
  BY Zenon, <1>4, <1>6
<1> QED BY Zenon, <1>1, <1>4, <1>7, <1>8, <1>9, <1>10 DEF ByteInv, LineInv

\* The device or the bridge acts; a descriptor that is open may hang up.
LEMMA BytesOfDevice ==
  ASSUME ByteInv, payload' = payload,
         UNCHANGED <<job_, tpc, frame, encoded_frame>>,
         hung_up' = (hung_up \/ (tpc \in {"loop", "poll"} /\ port /\ ~port')),
         \/ port' = port /\ line' = line
         \/ port' = TRUE /\ ~port /\ line' = line
         \/ port' = FALSE /\ line' = << >>
         \/ port /\ port' = port /\ line' = line \o Frame
  PROVE  ByteInv'
<1>1. /\ job_' = job_ /\ tpc' = tpc /\ frame' = frame /\ encoded_frame' = encoded_frame
      /\ hung_up' \in BOOLEAN
  BY Zenon
<1>2. Frame' = Frame
  BY Zenon DEF Frame
<1>3. /\ payload \in DevicePayloads /\ line \in Seq(Nat) /\ encoded_frame \in Seq(Nat)
      /\ tpc \in ThreadLabel /\ port \in BOOLEAN
      /\ OnlyFrames(Frame, line) /\ (~port => line = << >>)
      /\ tpc \in {"loop", "poll"} /\ ~hung_up =>
           port /\ OnlyFrames(Frame, encoded_frame \o line)
  BY Zenon DEF ByteInv, ByteType, LineInv
<1>4. Frame \in Seq(Nat) /\ Len(Frame) # 0
  BY Zenon, <1>3, PayloadFrame
<1>5. << >> \in Seq(Nat)
  OBVIOUS
<1>6. line' \in Seq(Nat) /\ port' \in BOOLEAN
  BY Zenon, <1>3, <1>4, <1>5, Join
<1>7. ByteType'
  BY Zenon, <1>1, <1>3, <1>6 DEF ByteType
<1>8. OnlyFrames(Frame', line')
  BY Zenon, <1>2, <1>3, <1>4, <1>5, FramesFollow, NoBytes
<1>9. ~port' => line' = << >>
  <2>1. CASE port' = port /\ line' = line
    <3>1. port' <=> port
      BY <2>1
    <3> QED BY Zenon, <1>3, <2>1, <3>1
  <2>2. CASE port' = TRUE
    BY Zenon, <2>2
  <2>3. CASE port' = FALSE /\ line' = << >>
    BY Zenon, <2>3
  <2>4. CASE port /\ port' = port
    <3>1. port'
      BY <2>4
    <3> QED BY Zenon, <3>1
  <2> QED BY Zenon, <2>1, <2>2, <2>3, <2>4
<1>10. tpc' \in {"loop", "poll"} /\ ~hung_up' =>
         port' /\ OnlyFrames(Frame', encoded_frame' \o line')
  <2> SUFFICES ASSUME tpc' \in {"loop", "poll"}, ~hung_up'
               PROVE  port' /\ OnlyFrames(Frame', encoded_frame' \o line')
    BY Zenon
  <2>1. tpc \in {"loop", "poll"} /\ ~hung_up /\ ~(port /\ ~port')
    BY Zenon, <1>1
  <2>2. port /\ OnlyFrames(Frame, encoded_frame \o line) /\ port'
    BY Zenon, <1>3, <2>1
  <2>3. CASE line' = line
    BY Zenon, <1>1, <1>2, <2>2, <2>3
  <2>4. CASE line' = line \o Frame
    <3>1. (encoded_frame \o line) \o Frame = encoded_frame \o (line \o Frame)
      BY Zenon, <1>3, <1>4, Assoc
    <3>2. encoded_frame \o line \in Seq(Nat)
      BY Zenon, <1>3, Join
    <3>3. OnlyFrames(Frame, (encoded_frame \o line) \o Frame)
      BY Zenon, <1>4, <2>2, <3>2, FramesFollow
    <3> QED BY Zenon, <1>1, <1>2, <2>2, <2>4, <3>1, <3>3
  <2>5. port' # FALSE
    BY <2>2
  <2> QED BY Zenon, <2>3, <2>4, <2>5
<1>11. /\ 0 \notin {encoded_frame'[k] : k \in DOMAIN encoded_frame'}
       /\ FromOneFrame(frame)' /\ QrFromOneFrame' /\ OneText(frame)'
  BY Zenon, <1>1 DEF ByteInv, LineInv, QrFromOneFrame, FromOneFrame, OneText
<1> QED BY Zenon, <1>7, <1>8, <1>9, <1>10, <1>11 DEF ByteInv, LineInv

LEMMA ByteStep == ByteInv /\ [Next]_vars => ByteInv'
<1> SUFFICES ASSUME ByteInv, [Next]_vars PROVE ByteInv'
  BY Zenon
<1>0. tpc \in ThreadLabel
  BY Zenon DEF ByteInv, ByteType
<1> USE DEF deviceVars
<1>1. CASE Start
  BY Zenon, <1>1, BytesKept DEF Start, ThreadLabel
<1>2. CASE Stop
  BY Zenon, <1>0, <1>2, BytesKept DEF Stop
<1>3. CASE Tick
  BY Zenon, <1>0, <1>3, BytesKept DEF Tick
<1>4. CASE Interrupted
  <2>1. CASE ReturnFrame({})
    BY Zenon, <1>4, <2>1, BytesGivenUp DEF Interrupted
  <2>2. CASE tpc' = "loop" /\ UNCHANGED <<frame, encoded_frame, hung_up>>
    BY Zenon, <1>4, <2>2, BytesKept DEF Interrupted, ThreadLabel
  <2> QED BY Zenon, <1>4, <2>1, <2>2 DEF Interrupted, Charge
<1>5. CASE LeaveLoop
  BY Zenon, <1>5, BytesKept DEF LeaveLoop, ThreadLabel
<1>6. CASE OpenFails
  BY Zenon, <1>6, BytesKept DEF OpenFails, Nap, ThreadLabel
<1>7. CASE OpenSerial
  BY Zenon, <1>7, BytesOpened
<1>8. CASE NapEnds
  BY Zenon, <1>8, BytesKept DEF NapEnds, ThreadLabel
<1>9. CASE Gate
  <2>1. tpc' \in {"cancelled", "done", "nap"}
    BY Zenon, <1>9 DEF Gate, Nap
  <2>2. /\ UNCHANGED <<payload, line, port, encoded_frame, hung_up>>
        /\ frame' = frame /\ job_' = job_
    BY Zenon, <1>9 DEF Gate
  <2>3. tpc' \in ThreadLabel /\ tpc' \notin {"loop", "poll"}
    BY Zenon, <2>1 DEF ThreadLabel
  <2> QED BY Zenon, <2>2, <2>3, BytesKept
<1>10. CASE StoreResult
  <2>1. job_'.qr \in {job_.qr, frame, {}}
    BY <1>10 DEF StoreResult
  <2> QED BY Zenon, <1>10, <2>1, BytesKept DEF StoreResult, ThreadLabel
<1>11. CASE ClearRunning
  BY Zenon, <1>11, BytesKept DEF ClearRunning, ThreadLabel
<1>12. CASE LoopHead
  <2>1. CASE ReturnFrame({})
    BY Zenon, <1>12, <2>1, BytesGivenUp DEF LoopHead
  <2>2. CASE tpc' = "poll" /\ UNCHANGED <<frame, encoded_frame, hung_up>>
    BY Zenon, <1>12, <2>2, BytesKept DEF LoopHead, ThreadLabel
  <2> QED BY Zenon, <1>12, <2>1, <2>2 DEF LoopHead
<1>13. CASE PollGivesUp
  BY Zenon, <1>13, BytesGivenUp DEF PollGivesUp
<1>14. CASE PollEmpty
  BY Zenon, <1>14, BytesKept DEF PollEmpty, Charge, ThreadLabel
<1>15. CASE ReadChunk
  BY Zenon, <1>15, ReadBytes
<1>16. CASE Device
  <2>1. \/ port' = port /\ line' = line
        \/ port' = TRUE /\ ~port /\ line' = line
        \/ port' = FALSE /\ line' = << >>
        \/ port /\ port' = port /\ line' = line \o Frame
    <3>1. CASE Send
      BY Zenon, <3>1 DEF Send
    <3>2. CASE Emit
      BY Zenon, <3>2 DEF Emit
    <3> QED BY Zenon, <1>16, <3>1, <3>2
            DEF Device, DeviceNext, Signal, Accept, Exit, Wake, BridgeDrops
  <2>2. payload' = payload
    BY Zenon, <1>16
       DEF Device, DeviceNext, Signal, Accept, Exit, Wake, BridgeDrops, Send, Emit
  <2> QED BY Zenon, <1>16, <2>1, <2>2, BytesOfDevice DEF Device
<1>17. CASE UNCHANGED vars
  BY Zenon, <1>0, <1>17, BytesKept DEF vars, readerVars
<1> QED
  BY Zenon, <1>1, <1>2, <1>3, <1>4, <1>5, <1>6, <1>7, <1>8, <1>9, <1>10, <1>11, <1>12,
     <1>13, <1>14, <1>15, <1>16, <1>17
  DEF Next, ReaderStep, Ended

-----------------------------------------------------------------------------
(* The invariant.                                                          *)

\* The types that neither the clock nor the bytes are about.
FlagType ==
  /\ g_stop \in BOOLEAN /\ dpc \in {"accept", "emit", "send", "sleep", "exit"}
  /\ running_ \in BOOLEAN /\ stopper \in {"stop", "joinable"}
  /\ job_.status \in JobStatus \cup {"ABSENT"}
  /\ interrupts \in 0 .. MaxInterrupts
  /\ tpc = "done" => frame # {}

ReaderInv == TimeInv /\ ByteInv /\ FlagType

LEMMA FlagInit == Init => FlagType
<1> SUFFICES ASSUME Init PROVE FlagType
  BY Zenon
<1>1. interrupts \in 0 .. MaxInterrupts
  BY TimeAssumption DEF Init
<1> QED BY Zenon, <1>1 DEF Init, DeviceInit, FlagType, Absent

LEMMA FlagStep == ClockType /\ FlagType /\ [Next]_vars => FlagType'
<1> SUFFICES ASSUME ClockType, FlagType, [Next]_vars PROVE FlagType'
  BY Zenon
<1> USE DEF FlagType, deviceVars
<1>1. CASE Start
  BY <1>1 DEF Start, JobStatus
<1>2. CASE Stop
  BY Zenon, <1>2 DEF Stop
<1>3. CASE Tick
  BY <1>3 DEF Tick
<1>4. CASE Interrupted
  <2>1. interrupts' \in 0 .. MaxInterrupts
    BY <1>4, TimeAssumption DEF Interrupted
  <2>2. tpc' # "done"
    BY <1>4 DEF Interrupted, Charge, ReturnFrame
  <2> QED BY Zenon, <1>4, <2>1, <2>2 DEF Interrupted
<1>5. CASE LeaveLoop
  BY <1>5 DEF LeaveLoop
<1>6. CASE OpenFails
  BY <1>6 DEF OpenFails, Nap
<1>7. CASE OpenSerial
  BY <1>7 DEF OpenSerial
<1>8. CASE NapEnds
  BY <1>8 DEF NapEnds
<1>9. CASE Gate
  <2>1. tpc' = "done" => frame' # {}
    BY Zenon, <1>9 DEF Gate, Nap
  <2> QED BY Zenon, <1>9, <2>1 DEF Gate
<1>10. CASE StoreResult
  BY <1>10 DEF StoreResult, JobStatus
<1>11. CASE ClearRunning
  BY Zenon, <1>11 DEF ClearRunning
<1>12. CASE LoopHead
  <2>1. tpc' # "done"
    BY <1>12 DEF LoopHead, ReturnFrame
  <2> QED BY Zenon, <1>12, <2>1 DEF LoopHead
<1>13. CASE PollGivesUp
  BY <1>13 DEF PollGivesUp, ReturnFrame
<1>14. CASE PollEmpty
  BY <1>14 DEF PollEmpty, Charge
<1>15. CASE ReadChunk
  <2>1. tpc' # "done"
    BY SMTT(30), <1>15 DEF ReadChunk, Charge, ReturnFrame
  <2> QED BY Zenon, <1>15, <2>1 DEF ReadChunk
<1>16. CASE Device
  <2>1. g_stop' \in BOOLEAN /\ dpc' \in {"accept", "emit", "send", "sleep", "exit"}
    BY Zenon, <1>16 DEF Device, DeviceNext, DeviceGoto, Signal, Accept, Exit, Emit, Send,
       Wake, BridgeDrops
  <2> QED BY Zenon, <1>16, <2>1 DEF Device
<1>17. CASE UNCHANGED vars
  BY Zenon, <1>17 DEF vars, readerVars
<1> QED
  BY Zenon, <1>1, <1>2, <1>3, <1>4, <1>5, <1>6, <1>7, <1>8, <1>9, <1>10, <1>11, <1>12,
     <1>13, <1>14, <1>15, <1>16, <1>17
  DEF Next, ReaderStep, Ended

\* The inductive invariant of the job thread on its line.
LEMMA ReaderInvariant == Spec => []ReaderInv
<1>1. Init => ReaderInv
  BY Zenon, TimeInit, ByteInit, FlagInit DEF ReaderInv
<1>2. ReaderInv /\ [Next]_vars => ReaderInv'
  BY Zenon, TimeStep, ByteStep, FlagStep DEF ReaderInv, TimeInv
<1> QED BY <1>1, <1>2, PTL DEF Spec

(***************************************************************************)
(* Type correctness of the job thread, its clock, the device and the line: *)
(* the budget of read_cobs_frame is never negative.                        *)
(***************************************************************************)
THEOREM ReaderTypes == Spec => []TypeOK
<1>1. ReaderInv => TypeOK
  <2> SUFFICES ASSUME ReaderInv PROVE TypeOK
    BY Zenon
  <2>1. Readings(payload) \subseteq Seq(Nat)
    BY Zenon, ReadingsType DEF ReaderInv, ByteInv, ByteType
  <2>2. frame \subseteq Seq(Nat) /\ job_.qr \subseteq Seq(Nat)
    BY Zenon, <2>1 DEF ReaderInv, ByteInv, LineInv, QrFromOneFrame, FromOneFrame
  <2> QED BY Zenon, <2>2
          DEF TypeOK, ReaderInv, ByteInv, ByteType, TimeInv, ClockType, FlagType
<1> QED BY <1>1, ReaderInvariant, PTL

(***************************************************************************)
(* What read_cobs_frame has collected and what its descriptor can still    *)
(* give are the rest of one frame and whole frames, however the bytes are  *)
(* cut into chunks and however often the bridge goes and comes; what       *)
(* run_job keeps of them is what the rest of one frame reads as.           *)
(***************************************************************************)
THEOREM LineInvariant == Spec => []LineInv
<1>1. ReaderInv => LineInv
  BY Zenon DEF ReaderInv, ByteInv
<1> QED BY <1>1, ReaderInvariant, PTL

(***************************************************************************)
(* run_job stores what one frame of the device reads as, from its          *)
(* beginning or from a later byte, whatever the payload is; and it stores  *)
(* the payload itself when the payload is short, because cobs_decode then  *)
(* refuses what is left of a frame whose beginning was lost.               *)
(***************************************************************************)
THEOREM OnlyWhatAFrameReads == Spec => []QrFromOneFrame
<1>1. LineInv => QrFromOneFrame
  BY Zenon DEF LineInv
<1> QED BY <1>1, LineInvariant, PTL

(***************************************************************************)
(* The account of time in run_job and read_cobs_frame, at every statement. *)
(***************************************************************************)
THEOREM DeadlineAccount == Spec => []DeadlineInv
<1>1. ReaderInv => DeadlineInv
  BY Zenon DEF ReaderInv, TimeInv
<1> QED BY <1>1, ReaderInvariant, PTL

-----------------------------------------------------------------------------
(* What JobRunner.tla sees.                                                *)

\* Runner sees the state as functions on one job and on one caller.
LEMMA OnlyOne ==
  ASSUME NEW a, NEW x, NEW y
  PROVE  [h \in {a} |-> x][a] = x /\ [[h \in {a} |-> x] EXCEPT ![a] = y] = [h \in {a} |-> y]
OBVIOUS

\* The clock of a started job has not passed its deadline in this step.
LEMMA SameLate ==
  ASSUME tpc # "none", tpc' # "none", now' = now
  PROVE  (tpc' # "none" /\ now' >= Timeout) = (tpc # "none" /\ now >= Timeout)
OBVIOUS

\* Steps of the loops that run_job of JobRunner.tla does not show.
LEMMA Unseen ==
  ASSUME UNCHANGED <<job_, running_, frame, stopper>>, ThreadView' = ThreadView,
         (tpc' # "none" /\ now' >= Timeout) = (tpc # "none" /\ now >= Timeout)
  PROVE  UNCHANGED Runner!runnerVars
BY Zenon DEF Runner!runnerVars

\* read_cobs_frame returns.
LEMMA ReturnSeen ==
  ASSUME tpc \in {"loop", "poll"}, tpc' = "gate", UNCHANGED <<job_, running_, now, stopper>>,
         frame' \subseteq MayReport, \A p, r \in frame' : p = r,
         \A p \in frame' : StartsWith(p, Prefix), frame' # {} => running_
  PROVE  Runner!ReadFrame("job")
<1>1. ThreadView = "read" /\ ThreadView' = "gate"
  BY DEF ThreadView
<1>2. frame' \in {{}} \cup {{p} : p \in {q \in MayReport : StartsWith(q, Prefix)}}
  <2>1. CASE frame' = {}
    BY Zenon, <2>1
  <2>2. CASE frame' # {}
    <3>1. PICK p : p \in frame'
      BY Zenon, <2>2
    <3>2. frame' = {p} /\ p \in MayReport /\ StartsWith(p, Prefix)
      BY Zenon, <3>1
    <3> QED BY Zenon, <3>2
  <2> QED BY Zenon, <2>1, <2>2
<1>3. (tpc' # "none" /\ now' >= Timeout) = (tpc # "none" /\ now >= Timeout)
  <2>1. tpc # "none" /\ tpc' # "none" /\ now' = now
    OBVIOUS
  <2> QED BY Zenon, <2>1, SameLate
<1> QED BY Zenon, <1>1, <1>2, <1>3, OnlyOne DEF Runner!ReadFrame, Runner!ThreadGoto

\* Every step is one of run_job in JobRunner.tla, or is not seen there.
LEMMA RunnerRefinement ==
  ReaderInv /\ [Next]_vars => [RunnerStep]_(Runner!runnerVars)
<1> SUFFICES ASSUME ReaderInv, [Next]_vars
             PROVE  RunnerStep \/ UNCHANGED Runner!runnerVars
  BY Zenon
<1> DEFINE late == tpc # "none" /\ now >= Timeout
<1> USE DEF deviceVars
<1>a. ByteInv /\ ByteInv'
  BY Zenon, ByteStep DEF ReaderInv
<1>b. frame' \subseteq MayReport /\ (\A p, r \in frame' : p = r) /\ \A p, r \in frame : p = r
  <2>1. payload' \in DevicePayloads /\ frame' \subseteq Readings(payload')
    BY Zenon, <1>a DEF ByteInv, ByteType, LineInv, FromOneFrame
  <2>2. frame' \subseteq MayReport
    BY Zenon, <2>1 DEF MayReport
  <2> QED BY Zenon, <1>a, <2>2 DEF ByteInv, OneText
<1>0. /\ tpc \in ThreadLabel /\ now \in Nat /\ left \in Nat
      /\ frame' \subseteq MayReport /\ (\A p, r \in frame' : p = r)
      /\ (tpc = "done" => frame # {}) /\ running_ \in BOOLEAN
  BY Zenon, <1>b DEF ReaderInv, TimeInv, ClockType, ByteInv, ByteType, FlagType
<1>1. CASE Start
  BY Zenon, <1>1 DEF RunnerStep
<1>2. CASE Stop
  <2>1. /\ stopper = "stop" /\ stopper' = "joinable" /\ running_' = FALSE
        /\ job_' = job_ /\ tpc' = tpc /\ frame' = frame /\ now' = now
    BY Zenon, <1>2 DEF Stop
  <2>2. ThreadView' = ThreadView
    BY Zenon, <2>1 DEF ThreadView
  <2>3. late' = late
    BY Zenon, <2>1
  <2>4. Runner!StopClear("main")
    BY Zenon, <2>1, <2>2, <2>3, OnlyOne DEF Runner!StopClear, Runner!Goto
  <2> QED BY Zenon, <2>4 DEF RunnerStep
<1>3. CASE Tick
  <2>1. /\ tpc \in {"poll", "nap"} /\ tpc' = tpc /\ now' = now + 1
        /\ job_' = job_ /\ running_' = running_ /\ frame' = frame /\ stopper' = stopper
    BY Zenon, <1>3 DEF Tick
  <2>2. ThreadView' = ThreadView /\ ThreadView \in {"top", "read", "gate"}
    BY <2>1 DEF ThreadView
  <2>3. CASE late' = late
    BY Zenon, <2>1, <2>2, <2>3, Unseen
  <2>4. CASE late' # late
    <3>1. late = FALSE /\ late' = TRUE
      BY <1>0, <2>1, <2>4, TimeAssumption
    <3> HIDE DEF late
    <3>2. Runner!Expire("job")
      BY Zenon, <2>1, <2>2, <3>1, OnlyOne DEF Runner!Expire, late
    <3> QED BY Zenon, <3>2 DEF RunnerStep
  <2> QED BY Zenon, <2>3, <2>4
<1>4. CASE Interrupted
  <2>1. /\ tpc = "poll" /\ job_' = job_ /\ running_' = running_ /\ now' = now
        /\ stopper' = stopper /\ payload' = payload
    BY Zenon, <1>4 DEF Interrupted
  <2>2. CASE ReturnFrame({})
    <3>1. tpc' = "gate" /\ frame' = {}
      BY Zenon, <2>2 DEF ReturnFrame
    <3>2. Runner!ReadFrame("job")
      BY Zenon, <1>0, <2>1, <3>1, ReturnSeen
    <3> QED BY Zenon, <3>2 DEF RunnerStep
  <2>3. CASE tpc' = "loop" /\ frame' = frame
    <3>1. ThreadView' = ThreadView
      BY <2>1, <2>3 DEF ThreadView
    <3>2. late' = late
      <4>1. tpc # "none" /\ tpc' # "none" /\ now' = now
        BY <2>1, <2>3
      <4> QED BY Zenon, <4>1, SameLate
    <3> QED BY Zenon, <2>1, <2>3, <3>1, <3>2, Unseen
  <2> QED BY Zenon, <1>4, <2>2, <2>3 DEF Interrupted, Charge
<1>5. CASE LeaveLoop
  <2>1. /\ tpc = "top" /\ job_' = job_ /\ running_' = running_ /\ now' = now
        /\ stopper' = stopper /\ frame' = frame
        /\ \/ ~running_ /\ tpc' = "cancelled"
           \/ running_ /\ now >= Timeout /\ tpc' = "timeout"
    BY Zenon, <1>5 DEF LeaveLoop
  <2>2. /\ ThreadView = "top" /\ late' = late /\ ThreadView' = tpc'
        /\ (now >= Timeout => late)
    BY <2>1 DEF ThreadView
  <2>3. Runner!LeaveLoop("job")
    BY Zenon, <2>1, <2>2, OnlyOne DEF Runner!LeaveLoop, Runner!ThreadGoto
  <2> QED BY Zenon, <2>3 DEF RunnerStep
<1>6. CASE OpenFails
  <2>1. /\ tpc = "top" /\ tpc' = "nap" /\ job_' = job_ /\ running_' = running_ /\ now' = now
        /\ stopper' = stopper /\ frame' = frame
    BY Zenon, <1>6 DEF OpenFails, Nap
  <2>2. ThreadView' = ThreadView /\ late' = late
    BY <2>1 DEF ThreadView
  <2> QED BY Zenon, <2>1, <2>2, Unseen
<1>7. CASE OpenSerial
  <2>1. /\ tpc = "top" /\ tpc' = "loop" /\ job_' = job_ /\ running_' = running_ /\ now' = now
        /\ stopper' = stopper /\ frame' = frame /\ running_ /\ now < Timeout
    BY Zenon, <1>7 DEF OpenSerial
  <2>2. ThreadView = "top" /\ ThreadView' = "read" /\ late' = late /\ ~late
    BY <1>0, <2>1, TimeAssumption DEF ThreadView
  <2>3. Runner!OpenSerial("job")
    BY Zenon, <2>1, <2>2, OnlyOne DEF Runner!OpenSerial, Runner!ThreadGoto
  <2> QED BY Zenon, <2>3 DEF RunnerStep
<1>8. CASE NapEnds
  <2>1. /\ tpc = "nap" /\ tpc' = "top" /\ job_' = job_ /\ running_' = running_ /\ now' = now
        /\ stopper' = stopper /\ frame' = frame
    BY Zenon, <1>8 DEF NapEnds
  <2>2. ThreadView' = ThreadView /\ late' = late
    BY <2>1 DEF ThreadView
  <2> QED BY Zenon, <2>1, <2>2, Unseen
<1>9. CASE Gate
  <2>1. /\ tpc = "gate" /\ job_' = job_ /\ running_' = running_ /\ now' = now
        /\ stopper' = stopper /\ frame' = frame
    BY Zenon, <1>9 DEF Gate
  <2>2. tpc' = CASE ~running_               -> "cancelled"
                 [] running_ /\ frame # {}  -> "done"
                 [] OTHER                   -> "nap"
    BY <1>9 DEF Gate, Nap
  <2>3. ThreadView = "gate" /\ late' = late
    BY <2>1, <2>2 DEF ThreadView
  <2>4. ThreadView' = CASE ~running_ -> "cancelled"
                        [] running_ /\ frame # {} -> "done"
                        [] running_ /\ frame = {} -> "top"
    BY <1>0, <2>2 DEF ThreadView
  <2>5. Runner!Gate("job")
    BY Zenon, <2>1, <2>3, <2>4, OnlyOne DEF Runner!Gate, Runner!ThreadGoto
  <2> QED BY Zenon, <2>5 DEF RunnerStep
<1>10. CASE StoreResult
  <2>1. /\ running_' = running_ /\ now' = now /\ stopper' = stopper /\ frame' = frame
        /\ tpc' = "clear"
        /\ \/ tpc = "done" /\ job_' = [status |-> "DONE", qr |-> frame]
           \/ tpc = "timeout" /\ job_' = [status |-> "TIMEOUT", qr |-> {}]
           \/ tpc = "cancelled" /\ job_' = [status |-> "CANCELLED", qr |-> {}]
    BY Zenon, <1>10 DEF StoreResult
  <2>2. ThreadView = tpc /\ late' = late /\ ThreadView' = "clear"
    BY <2>1 DEF ThreadView
  <2>3. tpc = "done" => \E p \in frame : frame = {p}
    BY Zenon, <1>0, <1>b
  <2> DEFINE store == [j \in {"job"} |-> job_]
  <2>a. \/ tpc = "done" /\ \E p \in frame : store' = Runner!set_done(store, "job", p)
        \/ tpc = "timeout" /\ store' = Runner!set_timeout(store, "job")
        \/ tpc = "cancelled" /\ store' = Runner!set_cancelled(store, "job")
    <3>1. CASE tpc = "done" /\ job_' = [status |-> "DONE", qr |-> frame]
      <4>1. PICK p \in frame : frame = {p}
        BY Zenon, <2>3, <3>1
      <4>2. job_' = [status |-> "DONE", qr |-> {p}]
        BY Zenon, <3>1, <4>1
      <4>3. store' = Runner!set_done(store, "job", p)
        BY Zenon, <4>2, OnlyOne DEF Runner!set_done
      <4> QED BY Zenon, <3>1, <4>1, <4>3
    <3>2. CASE tpc = "timeout" /\ job_' = [status |-> "TIMEOUT", qr |-> {}]
      BY Zenon, <3>2, OnlyOne DEF Runner!set_timeout
    <3>3. CASE tpc = "cancelled" /\ job_' = [status |-> "CANCELLED", qr |-> {}]
      BY Zenon, <3>3, OnlyOne DEF Runner!set_cancelled
    <3> QED BY Zenon, <2>1, <3>1, <3>2, <3>3
  <2>4. Runner!StoreResult("job")
    BY Zenon, <2>1, <2>2, <2>a, OnlyOne DEF Runner!StoreResult, Runner!ThreadGoto
  <2> QED BY Zenon, <2>4 DEF RunnerStep
<1>11. CASE ClearRunning
  <2>1. /\ tpc = "clear" /\ tpc' = "finish" /\ running_' = FALSE /\ job_' = job_
        /\ now' = now /\ stopper' = stopper /\ frame' = frame
    BY Zenon, <1>11 DEF ClearRunning
  <2>2. ThreadView = "clear" /\ late' = late /\ ThreadView' = "finish"
    BY <2>1 DEF ThreadView
  <2>3. Runner!ClearRunning("job")
    BY Zenon, <2>1, <2>2, OnlyOne DEF Runner!ClearRunning, Runner!ThreadGoto
  <2> QED BY Zenon, <2>3 DEF RunnerStep
<1>12. CASE LoopHead
  <2>1. /\ tpc = "loop" /\ job_' = job_ /\ running_' = running_ /\ now' = now
        /\ stopper' = stopper /\ payload' = payload
    BY Zenon, <1>12 DEF LoopHead
  <2>2. CASE ReturnFrame({})
    <3>1. tpc' = "gate" /\ frame' = {}
      BY Zenon, <2>2 DEF ReturnFrame
    <3>2. Runner!ReadFrame("job")
      BY Zenon, <1>0, <2>1, <3>1, ReturnSeen
    <3> QED BY Zenon, <3>2 DEF RunnerStep
  <2>3. CASE tpc' = "poll" /\ frame' = frame
    <3>1. ThreadView' = ThreadView /\ late' = late
      BY <2>1, <2>3 DEF ThreadView
    <3> QED BY Zenon, <2>1, <2>3, <3>1, Unseen
  <2> QED BY Zenon, <1>12, <2>2, <2>3 DEF LoopHead
<1>13. CASE PollGivesUp
  <2>1. /\ tpc = "poll" /\ job_' = job_ /\ running_' = running_ /\ now' = now
        /\ stopper' = stopper /\ payload' = payload /\ tpc' = "gate" /\ frame' = {}
    BY Zenon, <1>13 DEF PollGivesUp, ReturnFrame
  <2>2. Runner!ReadFrame("job")
    BY Zenon, <1>0, <2>1, ReturnSeen
  <2> QED BY Zenon, <2>2 DEF RunnerStep
<1>14. CASE PollEmpty
  <2>1. /\ tpc = "poll" /\ tpc' = "loop" /\ job_' = job_ /\ running_' = running_
        /\ now' = now /\ stopper' = stopper /\ frame' = frame
    BY Zenon, <1>14 DEF PollEmpty, Charge
  <2>2. ThreadView' = ThreadView /\ late' = late
    BY <2>1 DEF ThreadView
  <2> QED BY Zenon, <2>1, <2>2, Unseen
<1>15. CASE ReadChunk
  <2>1. /\ tpc = "poll" /\ running_ /\ job_' = job_ /\ running_' = running_ /\ now' = now
        /\ stopper' = stopper /\ payload' = payload
    BY Zenon, <1>15 DEF ReadChunk
  <2>2. \/ tpc' = "gate" /\ \A p \in frame' : StartsWith(p, Prefix)
        \/ tpc' = "loop" /\ frame' = frame
    BY SMTT(30), <1>15 DEF ReadChunk, ReturnFrame, Charge, Usable
  <2>3. CASE tpc' = "gate" /\ \A p \in frame' : StartsWith(p, Prefix)
    <3>1. Runner!ReadFrame("job")
      BY Zenon, <1>0, <2>1, <2>3, ReturnSeen
    <3> QED BY Zenon, <3>1 DEF RunnerStep
  <2>4. CASE tpc' = "loop" /\ frame' = frame
    <3>1. ThreadView' = ThreadView /\ late' = late
      BY <2>1, <2>4 DEF ThreadView
    <3> QED BY Zenon, <2>1, <2>4, <3>1, Unseen
  <2> QED BY Zenon, <2>2, <2>3, <2>4
<1>16. CASE UNCHANGED <<running_, job_, tpc, frame, now, stopper>>
  <2>1. ThreadView' = ThreadView
    BY Zenon, <1>16 DEF ThreadView
  <2>2. late' = late
    BY Zenon, <1>16
  <2> QED BY Zenon, <1>16, <2>1, <2>2, Unseen
<1> QED
  BY Zenon, <1>1, <1>2, <1>3, <1>4, <1>5, <1>6, <1>7, <1>8, <1>9, <1>10, <1>11, <1>12,
     <1>13, <1>14, <1>15, <1>16
  DEF Next, ReaderStep, Device, Ended, vars, readerVars

(***************************************************************************)
(* run_job with the loop of read_cobs_frame, its bytes and its clock does  *)
(* what JobRunner.tla says of a job thread: the proofs about the service   *)
(* rest on that description.                                               *)
(***************************************************************************)
THEOREM RunJobRefinement == Spec => ImplementsRunJob
<1>1. ReaderInv /\ [Next]_vars => [RunnerStep]_(Runner!runnerVars)
  BY Zenon, RunnerRefinement
<1> QED BY <1>1, ReaderInvariant, PTL DEF Spec, ImplementsRunJob

=============================================================================
