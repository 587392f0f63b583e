-------------------------- MODULE MediaEngine_proof --------------------------
(* Safety of the handshake between the main CPU and the Media Engine, for  *)
(* any number of pictures, and of the conversion that the two share.       *)
EXTENDS MediaEngine, ColorConversion, TLAPS

(* The Video thread has flushed the job and has not yet seen its end.      *)
Handing == vpc \in {"end", "func", "param", "start"}
Waiting == vpc \in {"convert", "flush_lower", "wait"}
Working == start = 1 \/ mepc # "poll"

(* The picture queued last.                                                *)
Newest == IF vpc = "decode" THEN picture ELSE picture - 1

(* Which blocks a cache may hold dirty, and when.                          *)
DirtyBlocks ==
  /\ me_dirty \subseteq {"upper"}
  /\ "upper" \in me_dirty => mepc = "flush"
  /\ "frame" \in cpu_dirty => vpc \in {"space", "flush"}
  /\ "job" \in cpu_dirty => vpc = "flush"
  /\ "upper" \in cpu_dirty => ready = 1
  /\ "lower" \in cpu_dirty => vpc = "flush_lower"

(* A line that is not dirty has the contents of the memory, and the engine *)
(* starts with an empty cache.                                             *)
Coherent ==
  /\ \A b \in Block : cpu[b] # Absent /\ b \notin cpu_dirty => cpu[b] = mem[b]
  /\ \A b \in Block : me[b] # Absent /\ b \notin me_dirty => me[b] = mem[b]
  /\ \A b \in cpu_dirty : cpu[b] # Absent
  /\ \A b \in me_dirty : me[b] # Absent
  /\ mepc # "flush" => me = Cold
  /\ me["lower"] = Absent
  /\ Handing \/ Waiting => cpu["upper"] = Absent

(* The flags and the program counters.                                     *)
Handshake ==
  /\ Working => Waiting
  /\ ~ (start = 1 /\ mepc # "poll")
  /\ vpc \in {"func", "param", "start"} => end = 0
  /\ Waiting => ((end = 1) <=> ~Working)
  /\ vpc \in {"param", "start"} \/ start = 1 => func = 1
  /\ vpc = "start" \/ start = 1 => param = 1
  /\ ready = 1 => vpc \in {"decode", "space"}
  /\ vpc # "decode" \/ ready = 1 => picture > 0

(* What the blocks hold on the way from the decoder to the picture.        *)
Values ==
  /\ vpc \in {"space", "flush"} => Read(cpu, "frame") = picture
  /\ vpc = "flush" => Read(cpu, "job") = picture
  /\ Handing \/ Waiting => mem["job"] = picture /\ mem["frame"] = picture
  /\ mepc = "flush" => Read(me, "upper") = picture
  /\ mepc = "end" => mem["upper"] = picture
  /\ Waiting /\ ~Working => mem["upper"] = picture
  /\ vpc = "flush_lower" => Read(cpu, "lower") = picture
  /\ vpc = "wait" => mem["lower"] = picture
  /\ ready = 1 => /\ mem["lower"] = Newest
                  /\ Read(cpu, "upper") = Newest

(* The screen is behind the queue.                                         *)
Screen == /\ screen[1] = screen[2]
          /\ ready = 1 => screen[1] < Newest
          /\ screen[1] <= Newest

IInv == TypeOK /\ DirtyBlocks /\ Coherent /\ Handshake /\ Values /\ Screen

-----------------------------------------------------------------------------
(* Every part of the invariant is preserved by every action.               *)

(* A written-back line is never Absent: types need Coherent.               *)
LEMMA TypeOKStep == IInv /\ [Next]_vars => TypeOK'
<1> SUFFICES ASSUME IInv, [Next]_vars PROVE TypeOK'
  OBVIOUS
<1> USE MediaEngineAssumption DEF IInv, Block, Absent, cpuside, meside, flags, TypeOK, Contents, Handshake, Coherent, Read
<1>1. CASE DecodeFrame
  BY <1>1 DEF DecodeFrame
<1>2. CASE FillJob
  BY <1>2 DEF FillJob
<1>3. CASE FlushJob
  BY <1>3 DEF FlushJob, CpuFlush, StoreOrder, WrittenBack, Cold
<1>4. CASE StoreFlag
  BY <1>4 DEF StoreFlag, StoreOrder
<1>5. CASE ConvertLower
  BY <1>5 DEF ConvertLower
<1>6. CASE FlushLower
  BY <1>6 DEF FlushLower, CpuFlush, WrittenBack, Cold
<1>7. CASE QueuePicture
  BY <1>7 DEF QueuePicture, EngineEnded
<1>8. CASE DrawClock
  BY <1>8 DEF DrawClock
<1>9. CASE DrawBuffer
  BY <1>9 DEF DrawBuffer, WrittenBack
<1>10. CASE TakeStart
  BY <1>10 DEF TakeStart
<1>11. CASE ConvertUpper
  BY <1>11 DEF ConvertUpper
<1>12. CASE FlushUpper
  BY <1>12 DEF FlushUpper, MeFlush, WrittenBack, Cold
<1>13. CASE SetEnd
  BY <1>13 DEF SetEnd
<1>14. ASSUME NEW b \in Block, CpuEvict(b) PROVE TypeOK'
  BY <1>14 DEF CpuEvict, WrittenBack
<1>15. ASSUME NEW b \in Block, MeEvict(b) PROVE TypeOK'
  BY <1>15 DEF MeEvict, WrittenBack
<1>16. CASE UNCHANGED vars
  BY <1>16 DEF vars
<1>17. QED
  BY <1>1, <1>2, <1>3, <1>4, <1>5, <1>6, <1>7, <1>8, <1>9, <1>10, <1>11, <1>12, <1>13, <1>14, <1>15, <1>16 DEF Next, VideoThread, Engine, Evict, Finished

(* A block is dirty only between its write and the next flush.             *)
LEMMA DirtyBlocksStep == IInv /\ [Next]_vars => DirtyBlocks'
<1> SUFFICES ASSUME IInv, [Next]_vars PROVE DirtyBlocks'
  OBVIOUS
<1> USE MediaEngineAssumption DEF IInv, Block, Absent, cpuside, meside, flags, TypeOK, DirtyBlocks, Handshake, Handing, Waiting, Working
<1>1. CASE DecodeFrame
  BY <1>1 DEF DecodeFrame
<1>2. CASE FillJob
  BY <1>2 DEF FillJob
<1>3. CASE FlushJob
  BY <1>3 DEF FlushJob, CpuFlush, StoreOrder, WrittenBack, Cold
<1>4. CASE StoreFlag
  BY <1>4 DEF StoreFlag, StoreOrder
<1>5. CASE ConvertLower
  BY <1>5 DEF ConvertLower
<1>6. CASE FlushLower
  BY <1>6 DEF FlushLower, CpuFlush, WrittenBack, Cold
<1>7. CASE QueuePicture
  BY <1>7 DEF QueuePicture, EngineEnded
<1>8. CASE DrawClock
  BY <1>8 DEF DrawClock
<1>9. CASE DrawBuffer
  BY <1>9 DEF DrawBuffer, WrittenBack
<1>10. CASE TakeStart
  BY <1>10 DEF TakeStart
<1>11. CASE ConvertUpper
  BY <1>11 DEF ConvertUpper
<1>12. CASE FlushUpper
  BY <1>12 DEF FlushUpper, MeFlush, WrittenBack, Cold
<1>13. CASE SetEnd
  BY <1>13 DEF SetEnd
<1>14. ASSUME NEW b \in Block, CpuEvict(b) PROVE DirtyBlocks'
  BY <1>14 DEF CpuEvict, WrittenBack
<1>15. ASSUME NEW b \in Block, MeEvict(b) PROVE DirtyBlocks'
  BY <1>15 DEF MeEvict, WrittenBack
<1>16. CASE UNCHANGED vars
  BY <1>16 DEF vars
<1>17. QED
  BY <1>1, <1>2, <1>3, <1>4, <1>5, <1>6, <1>7, <1>8, <1>9, <1>10, <1>11, <1>12, <1>13, <1>14, <1>15, <1>16 DEF Next, VideoThread, Engine, Evict, Finished

(* No action writes memory under a line the other cache holds.             *)
LEMMA CoherentStep == IInv /\ [Next]_vars => Coherent'
<1> SUFFICES ASSUME IInv, [Next]_vars PROVE Coherent'
  OBVIOUS
<1> USE MediaEngineAssumption DEF IInv, Block, Absent, cpuside, meside, flags, TypeOK, Contents, Read, DirtyBlocks, Coherent, Handshake, Handing, Waiting, Working, Cold
<1>1. CASE DecodeFrame
  BY <1>1 DEF DecodeFrame
<1>2. CASE FillJob
  BY <1>2 DEF FillJob
<1>3. CASE FlushJob
  BY <1>3 DEF FlushJob, CpuFlush, StoreOrder, WrittenBack, Cold
<1>4. CASE StoreFlag
  BY <1>4 DEF StoreFlag, StoreOrder
<1>5. CASE ConvertLower
  BY <1>5 DEF ConvertLower
<1>6. CASE FlushLower
  BY <1>6 DEF FlushLower, CpuFlush, WrittenBack, Cold
<1>7. CASE QueuePicture
  BY <1>7 DEF QueuePicture, EngineEnded
<1>8. CASE DrawClock
  BY <1>8 DEF DrawClock
<1>9. CASE DrawBuffer
  BY <1>9 DEF DrawBuffer, WrittenBack
<1>10. CASE TakeStart
  BY <1>10 DEF TakeStart
<1>11. CASE ConvertUpper
  BY <1>11 DEF ConvertUpper
<1>12. CASE FlushUpper
  BY <1>12 DEF FlushUpper, MeFlush, WrittenBack, Cold
<1>13. CASE SetEnd
  BY <1>13 DEF SetEnd
<1>14. ASSUME NEW b \in Block, CpuEvict(b) PROVE Coherent'
  BY <1>14 DEF CpuEvict, WrittenBack
<1>15. ASSUME NEW b \in Block, MeEvict(b) PROVE Coherent'
  BY <1>15 DEF MeEvict, WrittenBack
<1>16. CASE UNCHANGED vars
  BY <1>16 DEF vars
<1>17. QED
  BY <1>1, <1>2, <1>3, <1>4, <1>5, <1>6, <1>7, <1>8, <1>9, <1>10, <1>11, <1>12, <1>13, <1>14, <1>15, <1>16 DEF Next, VideoThread, Engine, Evict, Finished

(* The flags follow the order of the stores of me_start.                   *)
LEMMA HandshakeStep == IInv /\ [Next]_vars => Handshake'
<1> SUFFICES ASSUME IInv, [Next]_vars PROVE Handshake'
  OBVIOUS
<1> USE MediaEngineAssumption DEF IInv, Block, Absent, cpuside, meside, flags, TypeOK, Contents, Handshake, Handing, Waiting, Working
<1>1. CASE DecodeFrame
  BY <1>1 DEF DecodeFrame
<1>2. CASE FillJob
  BY <1>2 DEF FillJob
<1>3. CASE FlushJob
  BY <1>3 DEF FlushJob, CpuFlush, StoreOrder, WrittenBack, Cold
<1>4. CASE StoreFlag
  BY <1>4 DEF StoreFlag, StoreOrder
<1>5. CASE ConvertLower
  BY <1>5 DEF ConvertLower
<1>6. CASE FlushLower
  BY <1>6 DEF FlushLower, CpuFlush, WrittenBack, Cold
<1>7. CASE QueuePicture
  BY <1>7 DEF QueuePicture, EngineEnded
<1>8. CASE DrawClock
  BY <1>8 DEF DrawClock
<1>9. CASE DrawBuffer
  BY <1>9 DEF DrawBuffer, WrittenBack
<1>10. CASE TakeStart
  BY <1>10 DEF TakeStart
<1>11. CASE ConvertUpper
  BY <1>11 DEF ConvertUpper
<1>12. CASE FlushUpper
  BY <1>12 DEF FlushUpper, MeFlush, WrittenBack, Cold
<1>13. CASE SetEnd
  BY <1>13 DEF SetEnd
<1>14. ASSUME NEW b \in Block, CpuEvict(b) PROVE Handshake'
  BY <1>14 DEF CpuEvict, WrittenBack
<1>15. ASSUME NEW b \in Block, MeEvict(b) PROVE Handshake'
  BY <1>15 DEF MeEvict, WrittenBack
<1>16. CASE UNCHANGED vars
  BY <1>16 DEF vars
<1>17. QED
  BY <1>1, <1>2, <1>3, <1>4, <1>5, <1>6, <1>7, <1>8, <1>9, <1>10, <1>11, <1>12, <1>13, <1>14, <1>15, <1>16 DEF Next, VideoThread, Engine, Evict, Finished

(* Each flush hands the picture on to where the next step reads it.        *)
LEMMA ValuesStep == IInv /\ [Next]_vars => Values'
<1> SUFFICES ASSUME IInv, [Next]_vars PROVE Values'
  OBVIOUS
<1> USE MediaEngineAssumption DEF IInv, Block, Absent, cpuside, meside, flags, TypeOK, Contents, DirtyBlocks, Coherent, Handshake, Values, Handing, Waiting, Working, Newest, Read, Cold
<1>1. CASE DecodeFrame
  BY <1>1 DEF DecodeFrame
<1>2. CASE FillJob
  BY <1>2 DEF FillJob
<1>3. CASE FlushJob
  BY <1>3 DEF FlushJob, CpuFlush, StoreOrder, WrittenBack, Cold
<1>4. CASE StoreFlag
  BY <1>4 DEF StoreFlag, StoreOrder
<1>5. CASE ConvertLower
  BY <1>5 DEF ConvertLower
<1>6. CASE FlushLower
  BY <1>6 DEF FlushLower, CpuFlush, WrittenBack, Cold
<1>7. CASE QueuePicture
  BY <1>7 DEF QueuePicture, EngineEnded
<1>8. CASE DrawClock
  BY <1>8 DEF DrawClock
<1>9. CASE DrawBuffer
  BY <1>9 DEF DrawBuffer, WrittenBack
<1>10. CASE TakeStart
  BY <1>10 DEF TakeStart
<1>11. CASE ConvertUpper
  BY <1>11 DEF ConvertUpper
<1>12. CASE FlushUpper
  BY <1>12 DEF FlushUpper, MeFlush, WrittenBack, Cold
<1>13. CASE SetEnd
  BY <1>13 DEF SetEnd
<1>14. ASSUME NEW b \in Block, CpuEvict(b) PROVE Values'
  BY <1>14 DEF CpuEvict, WrittenBack
<1>15. ASSUME NEW b \in Block, MeEvict(b) PROVE Values'
  BY <1>15 DEF MeEvict, WrittenBack
<1>16. CASE UNCHANGED vars
  BY <1>16 DEF vars
<1>17. QED
  BY <1>1, <1>2, <1>3, <1>4, <1>5, <1>6, <1>7, <1>8, <1>9, <1>10, <1>11, <1>12, <1>13, <1>14, <1>15, <1>16 DEF Next, VideoThread, Engine, Evict, Finished

(* The GPU reads the memory after the write-back.                          *)
LEMMA ScreenStep == IInv /\ [Next]_vars => Screen'
<1> SUFFICES ASSUME IInv, [Next]_vars PROVE Screen'
  OBVIOUS
<1> USE MediaEngineAssumption DEF IInv, Block, Absent, cpuside, meside, flags, TypeOK, Contents, Handshake, Screen, Newest, Values, Read, WrittenBack, Coherent, DirtyBlocks
<1>1. CASE DecodeFrame
  BY <1>1 DEF DecodeFrame
<1>2. CASE FillJob
  BY <1>2 DEF FillJob
<1>3. CASE FlushJob
  BY <1>3 DEF FlushJob, CpuFlush, StoreOrder, WrittenBack, Cold
<1>4. CASE StoreFlag
  BY <1>4 DEF StoreFlag, StoreOrder
<1>5. CASE ConvertLower
  BY <1>5 DEF ConvertLower
<1>6. CASE FlushLower
  BY <1>6 DEF FlushLower, CpuFlush, WrittenBack, Cold
<1>7. CASE QueuePicture
  BY <1>7 DEF QueuePicture, EngineEnded
<1>8. CASE DrawClock
  BY <1>8 DEF DrawClock
<1>9. CASE DrawBuffer
  BY <1>9 DEF DrawBuffer, WrittenBack
<1>10. CASE TakeStart
  BY <1>10 DEF TakeStart
<1>11. CASE ConvertUpper
  BY <1>11 DEF ConvertUpper
<1>12. CASE FlushUpper
  BY <1>12 DEF FlushUpper, MeFlush, WrittenBack, Cold
<1>13. CASE SetEnd
  BY <1>13 DEF SetEnd
<1>14. ASSUME NEW b \in Block, CpuEvict(b) PROVE Screen'
  BY <1>14 DEF CpuEvict, WrittenBack
<1>15. ASSUME NEW b \in Block, MeEvict(b) PROVE Screen'
  BY <1>15 DEF MeEvict, WrittenBack
<1>16. CASE UNCHANGED vars
  BY <1>16 DEF vars
<1>17. QED
  BY <1>1, <1>2, <1>3, <1>4, <1>5, <1>6, <1>7, <1>8, <1>9, <1>10, <1>11, <1>12, <1>13, <1>14, <1>15, <1>16 DEF Next, VideoThread, Engine, Evict, Finished

-----------------------------------------------------------------------------
(* The invariant holds in every state.                                     *)
THEOREM Invariance == Spec => []IInv
<1>1. Init => IInv
  BY MediaEngineAssumption
  DEF Init, IInv, TypeOK, DirtyBlocks, Coherent, Handshake, Values, Screen,
      Contents, Block, Absent, Cold, Handing, Waiting, Working, Newest, Read
<1>2. IInv /\ [Next]_vars => IInv'
  BY TypeOKStep, DirtyBlocksStep, CoherentStep, HandshakeStep, ValuesStep,
     ScreenStep DEF IInv
<1> QED
  BY <1>1, <1>2, PTL DEF Spec

(* Type correctness; the engine calls nothing before it is stored.         *)
THEOREM TypeCorrect == Spec => []TypeOK
<1>1. IInv => TypeOK
  BY DEF IInv
<1> QED
  BY Invariance, <1>1, PTL

(* The engine runs only inside the Video thread's start and wait.          *)
THEOREM Ownership == Spec => []EngineOwnsJob
<1>1. IInv => EngineOwnsJob
  BY DEF IInv, TypeOK, Handshake, Waiting, Working, EngineOwnsJob
<1> QED
  BY Invariance, <1>1, PTL

(* No block is dirty in both caches.                                       *)
THEOREM DisjointWrites == Spec => []NoConflict
<1>1. IInv => NoConflict
  BY DEF IInv, DirtyBlocks, Handshake, Waiting, Working, NoConflict
<1> QED
  BY Invariance, <1>1, PTL

(* A queued picture is whole, as the GPU will read it.                     *)
THEOREM Whole == Spec => []WholePicture
<1>1. ASSUME IInv, ready = 1
      PROVE  /\ WrittenBack(cpu, cpu_dirty)["upper"] = Newest
             /\ WrittenBack(cpu, cpu_dirty)["lower"] = Newest
  BY <1>1 DEF IInv, DirtyBlocks, Coherent, Handshake, Values, Read,
              WrittenBack, Block
<1>2. IInv => WholePicture
  BY <1>1 DEF WholePicture, Newest
<1> QED
  BY Invariance, <1>2, PTL

(* Nothing torn, stale or older than before is shown.                      *)
THEOREM Forward == Spec => ScreenForward
<1> DEFINE Step == screen' # screen
                     => screen'[1] = screen'[2] /\ screen'[1] > screen[1]
<1>1. ASSUME IInv, DrawBuffer PROVE Step
  <2>1. /\ WrittenBack(cpu, cpu_dirty)["upper"] = Newest
        /\ WrittenBack(cpu, cpu_dirty)["lower"] = Newest
    BY <1>1 DEF DrawBuffer, IInv, DirtyBlocks, Coherent, Handshake, Values,
                Read, WrittenBack, Block
  <2>2. screen' = <<Newest, Newest>>
    BY <1>1, <2>1 DEF DrawBuffer
  <2>3. screen[1] < Newest /\ Newest \in Int /\ screen[1] \in Int
    BY <1>1, MediaEngineAssumption
    DEF DrawBuffer, IInv, TypeOK, Contents, Screen, Newest
  <2> QED
    BY <2>2, <2>3
<1>2. ASSUME Next, ~DrawBuffer PROVE Step
  BY <1>2 DEF Next, VideoThread, DecodeFrame, FillJob, FlushJob, StoreFlag,
              ConvertLower, FlushLower, QueuePicture, DrawClock, Engine,
              TakeStart, ConvertUpper, FlushUpper, SetEnd, Evict, CpuEvict,
              MeEvict, Finished, vars
<1>3. IInv /\ [Next]_vars => [Step]_vars
  BY <1>1, <1>2
<1> QED
  BY Invariance, <1>3, PTL DEF Spec, ScreenForward

-----------------------------------------------------------------------------
(* What keeps a conversion from ending is only that a processor stops.     *)

(* The guards of the threads' actions.                                     *)
VideoReady == \/ vpc = "decode" /\ picture < MaxPictures
              \/ vpc = "space" /\ ready = 0
              \/ Handing \/ vpc \in {"flush", "convert", "flush_lower"}
              \/ vpc = "wait" /\ end = 1
EngineReady == Working

(* Where the Video thread polls for the end the engine works, where it     *)
(* polls for space a picture is waiting to be displayed.                   *)
NoCircularWait == /\ vpc = "wait" => VideoReady \/ EngineReady
                  /\ vpc = "space" => VideoReady \/ ready = 1

(* Steps to the end of the conversion.                                     *)
VideoLeft == CASE vpc = "convert" -> 3
               [] vpc = "flush_lower" -> 2
               [] vpc = "wait" -> 1
               [] OTHER -> 0
EngineLeft == IF start = 1 THEN 4
              ELSE CASE mepc = "convert" -> 3
                     [] mepc = "flush" -> 2
                     [] mepc = "end" -> 1
                     [] OTHER -> 0

(* After me_start every step of a processor brings it nearer to the end of *)
(* its half, and no step of the other or of a cache takes it back.         *)
ConversionAdvances ==
  [][Waiting => /\ VideoLeft' <= VideoLeft
                /\ EngineLeft' <= EngineLeft
                /\ VideoThread => VideoLeft' < VideoLeft
                /\ Engine => EngineLeft' < EngineLeft]_vars

(* The main CPU never polls for an engine that has nothing to do.          *)
THEOREM NeverStuck == Spec => []NoCircularWait
<1>1. IInv => NoCircularWait
  BY DEF IInv, TypeOK, Handshake, Waiting, Working, NoCircularWait, VideoReady,
     EngineReady
<1> QED
  BY <1>1, Invariance, PTL

LEMMA VideoNearer ==
  ASSUME IInv, Waiting, VideoThread
  PROVE  VideoLeft' < VideoLeft /\ EngineLeft' = EngineLeft
<1> USE DEF Waiting, VideoLeft, EngineLeft, flags
<1>1. CASE ConvertLower
  BY <1>1 DEF ConvertLower
<1>2. CASE FlushLower
  BY <1>2 DEF FlushLower
<1>3. CASE QueuePicture
  BY <1>3 DEF QueuePicture
<1>4. ~(DecodeFrame \/ FillJob \/ FlushJob \/ StoreFlag)
  BY DEF DecodeFrame, FillJob, FlushJob, StoreFlag
<1> QED
  BY <1>1, <1>2, <1>3, <1>4 DEF VideoThread

LEMMA EngineNearer ==
  ASSUME IInv, Engine
  PROVE  EngineLeft' < EngineLeft /\ VideoLeft' = VideoLeft
<1> USE DEF IInv, TypeOK, Handshake, Working, EngineLeft, VideoLeft, flags
<1>1. CASE TakeStart
  BY <1>1 DEF TakeStart
<1>2. CASE ConvertUpper
  BY <1>2 DEF ConvertUpper
<1>3. CASE FlushUpper
  BY <1>3 DEF FlushUpper
<1>4. CASE SetEnd
  BY <1>4 DEF SetEnd
<1> QED
  BY <1>1, <1>2, <1>3, <1>4 DEF Engine

(* A conversion that was started comes nearer to its end with every step.  *)
THEOREM ConversionApproaches == Spec => ConversionAdvances
<1> DEFINE Step == Waiting => /\ VideoLeft' <= VideoLeft
                              /\ EngineLeft' <= EngineLeft
                              /\ VideoThread => VideoLeft' < VideoLeft
                              /\ Engine => EngineLeft' < EngineLeft
<1>1. /\ VideoLeft \in Nat /\ EngineLeft \in Nat
      /\ VideoLeft' \in Nat /\ EngineLeft' \in Nat
  BY DEF VideoLeft, EngineLeft
<1>2. ASSUME IInv, Waiting, VideoThread PROVE Step
  <2>1. EngineLeft' = EngineLeft /\ VideoLeft' < VideoLeft
    BY <1>2, VideoNearer
  <2>2. ~Engine
    BY <1>2, <2>1, <1>1, EngineNearer
  <2> QED
    BY <1>1, <2>1, <2>2
<1>3. ASSUME IInv, Waiting, Engine PROVE Step
  <2>1. EngineLeft' < EngineLeft /\ VideoLeft' = VideoLeft
    BY <1>3, EngineNearer
  <2>2. ~VideoThread
    BY <1>3, <2>1, <1>1, VideoNearer
  <2> QED
    BY <1>1, <2>1, <2>2
<1>4. ASSUME [Next]_vars, ~VideoThread, ~Engine PROVE Step
  <2>1. UNCHANGED <<vpc, mepc, start>>
    BY <1>4 DEF Next, DrawClock, DrawBuffer, Evict, CpuEvict, MeEvict, Finished,
       vars, flags
  <2> QED
    BY <1>1, <1>4, <2>1 DEF VideoLeft, EngineLeft
<1>5. IInv /\ [Next]_vars => [Step]_vars
  BY <1>2, <1>3, <1>4
<1> QED
  BY <1>5, Invariance, PTL DEF Spec, ConversionAdvances

-----------------------------------------------------------------------------
(* The work the engine is started for: the split conversion is right for   *)
(* every frame whose height is a multiple of four, and the table lookups   *)
(* stay inside their tables.                                               *)
(* The invariant: what each processor has converted so far.                *)
MeRows  == 0 .. 2 * me_pair - 1
CpuRows == height \div 2 .. height \div 2 + 2 * cpu_pair - 1

Progress ==
  /\ height \in Nat /\ GoodHeight(height) /\ height <= MaxHeight
  /\ me_pair \in 0 .. height \div 4
  /\ cpu_pair \in 0 .. height \div 4

CscInv ==
  /\ Progress
  /\ out = [r \in Row |-> IF r \in MeRows \cup CpuRows THEN r \div 2 ELSE Stale]

(* A good height has two equal halves of whole pairs, and the lower half   *)
(* starts at a chroma row of its own.                                      *)
LEMMA Halves ==
  ASSUME NEW h \in Nat, GoodHeight(h)
  PROVE  \E k \in Nat \ {0} : /\ h = 4 * k
                              /\ h \div 2 = 2 * k
                              /\ h \div 4 = k
                              /\ Pairs(HalfHeight(h)) = k
<1> DEFINE k == h \div 4
<1>1. k \in Nat /\ k # 0 /\ h = 4 * k
  BY DEF GoodHeight
<1>2. h \div 2 = 2 * k
  BY <1>1
<1>3. Pairs(HalfHeight(h)) = k
  BY <1>1, <1>2 DEF Pairs, HalfHeight
<1> QED
  BY <1>1, <1>2, <1>3

LEMMA CscInitial == CscInit => CscInv
<1> SUFFICES ASSUME CscInit PROVE CscInv
  OBVIOUS
<1>1. height \in Nat /\ GoodHeight(height) /\ height <= MaxHeight
  BY ColorConversionAssumption DEF CscInit
<1>2. PICK k \in Nat \ {0} : height = 4 * k /\ height \div 2 = 2 * k
                             /\ height \div 4 = k
  BY <1>1, Halves
<1>3. Progress
  BY <1>1, <1>2 DEF CscInit, Progress
<1>4. MeRows \cup CpuRows = {}
  BY <1>2 DEF CscInit, MeRows, CpuRows
<1> QED
  BY <1>3, <1>4 DEF CscInit, CscInv

(* The rows the Media Engine converts next.                                *)
LEMMA MeStepRight ==
  ASSUME CscInv, MeStep
  PROVE  /\ CscInv'
         /\ \A r \in Row : out'[r] # out[r] => out[r] = Stale /\ r < height
<1>1. PICK k \in Nat \ {0} : /\ height = 4 * k /\ height \div 2 = 2 * k
                             /\ height \div 4 = k
                             /\ Pairs(HalfHeight(height)) = k
  BY Halves DEF CscInv, Progress
<1>2. /\ me_pair \in Nat /\ me_pair < k /\ me_pair' = me_pair + 1
      /\ cpu_pair \in 0 .. k /\ cpu_pair' = cpu_pair /\ height' = height
  BY <1>1 DEF CscInv, Progress, MeStep
<1>3. Progress'
  BY <1>1, <1>2 DEF CscInv, Progress
<1> DEFINE new == {2 * me_pair, 2 * me_pair + 1}
<1>4. MeRows' = MeRows \cup new /\ CpuRows' = CpuRows
  BY <1>1, <1>2 DEF MeRows, CpuRows
<1>5. /\ new \cap (MeRows \cup CpuRows) = {}
      /\ \A r \in new : r < height /\ r \div 2 = me_pair
  BY <1>1, <1>2 DEF MeRows, CpuRows
<1>6. out' = [r \in Row |-> IF r \in new THEN me_pair ELSE out[r]]
  BY <1>2 DEF MeStep, WritePair, MeFirstRow, MeFirstChroma
<1>7. \A r \in Row :
        out'[r] = IF r \in MeRows' \cup CpuRows' THEN r \div 2 ELSE Stale
  BY <1>4, <1>5, <1>6 DEF CscInv
<1>8. out' = [r \in Row |-> IF r \in MeRows' \cup CpuRows'
                              THEN r \div 2 ELSE Stale]
  BY <1>6, <1>7
<1>9. \A r \in Row : out'[r] # out[r] => out[r] = Stale /\ r < height
  BY <1>5, <1>6 DEF CscInv
<1> QED
  BY <1>3, <1>8, <1>9 DEF CscInv

(* The rows the main CPU converts next.                                    *)
LEMMA CpuStepRight ==
  ASSUME CscInv, CpuStep
  PROVE  /\ CscInv'
         /\ \A r \in Row : out'[r] # out[r] => out[r] = Stale /\ r < height
<1>1. PICK k \in Nat \ {0} : /\ height = 4 * k /\ height \div 2 = 2 * k
                             /\ height \div 4 = k
                             /\ Pairs(HalfHeight(height)) = k
  BY Halves DEF CscInv, Progress
<1>2. /\ cpu_pair \in Nat /\ cpu_pair < k /\ cpu_pair' = cpu_pair + 1
      /\ me_pair \in 0 .. k /\ me_pair' = me_pair /\ height' = height
  BY <1>1 DEF CscInv, Progress, CpuStep
<1>3. Progress'
  BY <1>1, <1>2 DEF CscInv, Progress
<1> DEFINE new == {2 * k + 2 * cpu_pair, 2 * k + 2 * cpu_pair + 1}
<1>4. CpuRows' = CpuRows \cup new /\ MeRows' = MeRows
  BY <1>1, <1>2 DEF MeRows, CpuRows
<1>5. /\ new \cap (MeRows \cup CpuRows) = {}
      /\ \A r \in new : r < height /\ r \div 2 = k + cpu_pair
  BY <1>1, <1>2 DEF MeRows, CpuRows
<1>6. out' = [r \in Row |-> IF r \in new THEN k + cpu_pair ELSE out[r]]
  BY <1>1, <1>2 DEF CpuStep, WritePair, CpuFirstRow, CpuFirstChroma
<1>7. \A r \in Row :
        out'[r] = IF r \in MeRows' \cup CpuRows' THEN r \div 2 ELSE Stale
  BY <1>4, <1>5, <1>6 DEF CscInv
<1>8. out' = [r \in Row |-> IF r \in MeRows' \cup CpuRows'
                              THEN r \div 2 ELSE Stale]
  BY <1>6, <1>7
<1>9. \A r \in Row : out'[r] # out[r] => out[r] = Stale /\ r < height
  BY <1>5, <1>6 DEF CscInv
<1> QED
  BY <1>3, <1>8, <1>9 DEF CscInv

LEMMA CscUnchanged == ASSUME CscInv, UNCHANGED cscvars PROVE CscInv'
<1>1. /\ height' = height /\ me_pair' = me_pair
      /\ cpu_pair' = cpu_pair /\ out' = out
  BY DEF cscvars
<1> QED
  BY <1>1 DEF CscInv, Progress, MeRows, CpuRows

(* The invariant holds in every state of the conversion.                   *)
THEOREM CscInvariance == CscSpec => []CscInv
<1>1. CscInv /\ [CscNext]_cscvars => CscInv'
  BY MeStepRight, CpuStepRight, CscUnchanged DEF CscNext
<1> QED
  BY CscInitial, <1>1, PTL DEF CscSpec

(* Types, and no row of chroma is read beyond those of the frame.          *)
THEOREM CscTypeCorrect == CscSpec => []CscTypeOK
<1>1. ASSUME CscInv PROVE CscTypeOK
  <2>1. PICK k \in Nat \ {0} : /\ height = 4 * k /\ height \div 2 = 2 * k
                               /\ height \div 4 = k
                               /\ Pairs(HalfHeight(height)) = k
    BY <1>1, Halves DEF CscInv, Progress
  <2>2. /\ height \in {h \in 1 .. MaxHeight : GoodHeight(h)}
        /\ me_pair \in 0 .. Pairs(HalfHeight(height))
        /\ cpu_pair \in 0 .. Pairs(HalfHeight(height))
    BY <1>1, <2>1, ColorConversionAssumption DEF CscInv, Progress
  <2>3. ASSUME NEW r \in MeRows \cup CpuRows PROVE r \div 2 \in 0 .. 2 * k - 1
    BY <1>1, <2>1, <2>3 DEF CscInv, Progress, MeRows, CpuRows
  <2>4. out \in [Row -> {Stale} \cup 0 .. height \div 2 - 1]
    BY <1>1, <2>1, <2>3 DEF CscInv
  <2> QED
    BY <2>2, <2>4 DEF CscTypeOK
<1> QED
  BY CscInvariance, <1>1, PTL

(* No row is written twice, and none beyond the frame.                     *)
THEOREM NoOverlap == CscSpec => RowWrittenOnce
<1>1. ASSUME CscInv, CscNext
      PROVE  [\A r \in Row :
                out'[r] # out[r] => out[r] = Stale /\ r < height]_cscvars
  BY <1>1, MeStepRight, CpuStepRight DEF CscNext
<1>2. ASSUME CscInv, UNCHANGED cscvars
      PROVE  [\A r \in Row :
                out'[r] # out[r] => out[r] = Stale /\ r < height]_cscvars
  BY <1>2
<1>3. CscInv /\ [CscNext]_cscvars
        => [\A r \in Row :
              out'[r] # out[r] => out[r] = Stale /\ r < height]_cscvars
  BY <1>1, <1>2
<1> QED
  BY CscInvariance, <1>3, PTL DEF CscSpec, RowWrittenOnce

(* When both have ended the frame is the one csc_c makes.                  *)
THEOREM SplitCorrect == CscSpec => []SplitIsWhole
<1>1. ASSUME CscInv, Converted PROVE out = CscC(height)
  <2>1. PICK k \in Nat \ {0} : /\ height = 4 * k /\ height \div 2 = 2 * k
                               /\ height \div 4 = k
                               /\ Pairs(HalfHeight(height)) = k
    BY <1>1, Halves DEF CscInv, Progress
  <2>2. me_pair = k /\ cpu_pair = k
    BY <1>1, <2>1 DEF Converted
  <2>3. MeRows \cup CpuRows = 0 .. height - 1
    BY <2>1, <2>2 DEF MeRows, CpuRows
  <2>4. 2 * ((height + 1) \div 2) = height
    BY <2>1
  <2>5. \A r \in Row : r \in 0 .. height - 1 <=> r < 2 * ((height + 1) \div 2)
    BY <2>1, <2>4, ColorConversionAssumption DEF Row
  <2> QED
    BY <1>1, <2>3, <2>5 DEF CscInv, CscC
<1> QED
  BY CscInvariance, <1>1, PTL DEF SplitIsWhole

-----------------------------------------------------------------------------
(* The columns of a row are all converted, and no other, when the width is *)
(* a multiple of eight.                                                    *)
THEOREM ColumnsCorrect ==
  ASSUME NEW w \in Nat, w > 0, w % 8 = 0
  PROVE  AsmColumns(w) = 0 .. w - 1
<1>1. PICK g \in Nat : w = 8 * g
  BY w = 8 * (w \div 8)
<1>2. (w \div 2) \div 4 = g
  BY <1>1
<1>3. ASSUME NEW c \in 0 .. w - 1
      PROVE  \E a \in 0 .. g - 1 : c \in 8 * a .. 8 * a + 7
  <2>1. c \div 8 \in 0 .. g - 1
    BY <1>1
  <2>2. c \in 8 * (c \div 8) .. 8 * (c \div 8) + 7
    OBVIOUS
  <2> QED
    BY <2>1, <2>2
<1>4. ASSUME NEW a \in 0 .. g - 1
      PROVE  8 * a .. 8 * a + 7 \subseteq 0 .. w - 1
  BY <1>1
<1> QED
  BY <1>2, <1>3, <1>4 DEF AsmColumns

(* Whatever the pixel, the sums of the tables, shifted by 13 bits, index   *)
(* the clamp table inside its bounds (the last entry is reached), so the   *)
(* unsigned shift of csc_asm and the signed one of csc_c agree.            *)
THEOREM IndicesInTable ==
  ASSUME NEW y \in Byte, NEW u \in Byte, NEW v \in Byte
  PROVE  /\ Red(y, v) \in 0 .. FixSize - 1
         /\ Green(y, u, v) \in 0 .. FixSize - 1
         /\ Blue(y, u) \in 0 .. FixSize - 1
<1> USE DEF Byte, FixSize, my, mu1, mv1, mu2, mv2
<1>1. Red(y, v) \in 0 .. FixSize - 1
  BY DEF Red
<1>2. Green(y, u, v) \in 0 .. FixSize - 1
  BY DEF Green
<1>3. Blue(y, u) \in 0 .. FixSize - 1
  BY DEF Blue
<1> QED
  BY <1>1, <1>2, <1>3

(* The clamp table holds bytes and never decreases.                        *)
THEOREM ClampCorrect ==
  ASSUME NEW i \in 0 .. FixSize - 1, NEW j \in 0 .. FixSize - 1, i <= j
  PROVE  Fix(i) \in Byte /\ Fix(i) <= Fix(j)
BY DEF Fix, Byte, FixSize
=============================================================================
