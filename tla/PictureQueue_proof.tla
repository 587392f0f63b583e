-------------------------- MODULE PictureQueue_proof --------------------------
(***************************************************************************)
(* Proofs about PictureQueue: for any number of slots, frame sizes,        *)
(* pictures and streams no picture is torn, and all are displayed in       *)
(* order; in the first stream each fits its buffer, and with the one slot  *)
(* of the program every request for a buffer is served.                    *)
(*                                                                         *)
(* The mutex of the queue orders only the two changes of the count.  What  *)
(* keeps the threads apart in the slots is that windex, rindex and the     *)
(* count describe the same pictures at every step between them.            *)
(***************************************************************************)
EXTENDS PictureQueue, TLAPS

(* The pictures from rindex to windex: the count runs behind both indices. *)
VPend == IF vpc \in {"count", "count_write"} THEN 1 ELSE 0
MPend == IF mpc \in {"take", "take_write"} THEN 1 ELSE 0
Held == pictq_size + VPend - MPend

(* A slot's place from rindex on, and the slots that hold those pictures.  *)
Dist(s) == IF s >= rindex THEN s - rindex ELSE s - rindex + NumSlots
Queued(s) == Dist(s) < Held

-----------------------------------------------------------------------------
(* The inductive invariant.                                                *)

(* How far the opening and the closing of the stream have come, as the     *)
(* three threads see it.                                                   *)
Stages ==
  /\ mpc = "select" => vpc \in {"none", "done"} /\ dpc \in {"none", "done"}
  /\ dpc = "done" => vpc \in {"none", "done"}
  /\ dpc \in {"none", "open"} => vpc = "none"
  /\ videoq_abort = 1 => dpc \in {"unblock", "join", "done"}
  /\ dpc \in {"unblock", "join", "done"} => stop = 1
  /\ stop = 1 => mpc \in {"join", "select"}
  /\ vpc # "none" /\ dpc # "done" => video_st = 1
  /\ vpc = "done" => videoq_abort = 1
  /\ vpc # "none" => frame_dims \in Dims

(* Between its read and its write of the count a thread holds the mutex.   *)
Mutex ==
  /\ vpc = "count_write" => pictq_mutex = 0 /\ vtmp = pictq_size
  /\ mpc = "take_write" => pictq_mutex = 0 /\ mtmp = pictq_size
  /\ ~(vpc = "count_write" /\ mpc = "take_write")

(* The Video thread works on a free slot, the main thread displays one     *)
(* that is not, and the indices are as far apart as there are pictures.    *)
Space ==
  /\ vpc \in {"alloc_wait", "convert", "count", "count_write"}
       => pictq_size < NumSlots
  /\ vpc = "slot" => pictq_size < NumSlots \/ videoq_abort = 1
  /\ mpc \in {"display", "take", "take_write"} => pictq_size > 0
  /\ windex = rindex + Held \/ windex = rindex + Held - NumSlots

(* The buffer that is allocated is never one of a queued picture: the      *)
(* Video thread waits for it, or the request is of an earlier stream and   *)
(* this one has no picture yet, nor a slot with the dimensions of one.     *)
Waits == vpc = "alloc_wait" /\ allocated[windex] = 0
Fresh == /\ Held = 0 /\ dims[windex] = NoDims
         /\ vpc \in {"none", "decode", "space", "slot"}
Request ==
  /\ need_alloc = 1 /\ mpc \in {"loop", "display", "take", "take_write"}
       => Waits \/ Fresh
  /\ mpc \in {"alloc", "alloc_buffer"} => mslot = windex /\ (Waits \/ Fresh)
  /\ mpc \in {"alloc", "alloc_buffer", "alloc_dims", "alloc_done",
              "alloc_clear"} => need_alloc = 1

(* An AVFrame is without a buffer only until it gets one, or when there    *)
(* was none to be had.                                                     *)
Buffered ==
  \A s \in Slot : bmp[s] = 1 /\ buffer[s] = 0 =>
    "buffer" \in failed \/ (mpc = "alloc_buffer" /\ mslot = s)

(* In the first stream nothing was left behind: the Video thread waits     *)
(* while its buffer is made, and what it gets has the frame's dimensions.  *)
First ==
  /\ streams = 0 => need_alloc = 0 /\ mpc = "select"
  /\ streams = 1 =>
       /\ mpc \in {"alloc", "alloc_buffer", "alloc_dims", "alloc_done"}
            => Waits /\ mslot = windex
       /\ need_alloc = 1 /\ mpc \in {"loop", "display", "take", "take_write"}
            => Waits
       /\ mpc = "alloc_done" => dims[windex] = frame_dims
       /\ vpc = "alloc_wait" /\ allocated[windex] = 1
            => dims[windex] = frame_dims
       /\ vpc = "convert" => dims[windex] = frame_dims
       /\ mpc # "crashed"

(* With one slot the Video thread cannot ask again before need_alloc is    *)
(* cleared: it has a picture to be displayed first.                        *)
OneSlot ==
  NumSlots = 1 /\ streams = 1 /\ "frame" \notin failed =>
    /\ mpc \in {"alloc_buffer", "alloc_dims", "alloc_done"} => bmp[windex] = 1
    /\ mpc = "alloc_clear" =>
         \/ vpc = "alloc_wait" /\ allocated[windex] = 1 /\ bmp[windex] = 1
         \/ vpc = "convert" /\ bmp[windex] = 1
         \/ vpc \in {"count", "count_write", "hung"}
         \/ vpc \in {"decode", "space"} /\ pictq_size = 1
    /\ Waits => need_alloc = 1

(* The queued pictures are in the order of their slots, later than what is *)
(* on the screen and not later than the frame the Video thread works on.   *)
Working == {"space", "slot", "alloc_wait", "convert"}
Order ==
  mpc # "select" =>
    /\ last_shown <= frame
    /\ vpc \in Working => last_shown < frame
    /\ \A s \in Slot : Queued(s) =>
         /\ last_shown < pic[s] /\ pic[s] <= frame
         /\ vpc \in Working => pic[s] < frame
    /\ \A s, t \in Slot :
         Queued(s) /\ Queued(t) /\ Dist(s) < Dist(t) => pic[s] < pic[t]

IInv == /\ TypeOK /\ Stages /\ Mutex /\ Space /\ Request /\ Buffered /\ First
        /\ OneSlot /\ Order

-----------------------------------------------------------------------------
(* The steps of the three threads, in one place.                           *)
Stutter == UNCHANGED vars

LEMMA NextCases ==
  [Next]_vars =>
    \/ DecodeFrame \/ EndOfVideo \/ LeaveSpaceWait \/ AbortAtSlot
    \/ RequestAlloc \/ UseSlot \/ LeaveAllocWait \/ NoBitmap \/ Convert
    \/ Overrun \/ CountEnter \/ CountWrite \/ OpenStream \/ AllocStart
    \/ AllocFrame \/ AllocBuffer \/ AllocDims \/ AllocDone \/ AllocClear \/ Refresh \/ Display
    \/ TakeEnter \/ TakeWrite \/ StopStream \/ FreeStream \/ OpenVideo
    \/ OpenNoVideo \/ AbortVideo \/ Unblock \/ CloseVideo \/ Stutter
BY DEF Next, VideoThread, MainThread, DecodeThread, Finished, Stutter

(* The count stays within the slots because of Space and the mutex.       *)
LEMMA TypesStep ==
  ASSUME TypeOK, Space, Mutex, [Next]_vars
  PROVE  TypeOK'
<1> USE PictureQueueAssumption DEF TypeOK, Slot, Space, Mutex
<1>1. CASE DecodeFrame
  BY <1>1 DEF DecodeFrame, stream, slots, queue, main, history
<1>2. CASE EndOfVideo
  BY <1>2 DEF EndOfVideo, stream, slots, queue, main, history
<1>3. CASE LeaveSpaceWait
  BY <1>3 DEF LeaveSpaceWait, MayQueue, stream, slots, queue, main, history
<1>4. CASE AbortAtSlot
  BY <1>4 DEF AbortAtSlot, stream, slots, queue, main, history
<1>5. CASE RequestAlloc
  BY <1>5 DEF RequestAlloc, Unusable, stream, queue, main, history
<1>6. CASE UseSlot
  BY <1>6 DEF UseSlot, Unusable, stream, slots, queue, main, history
<1>7. CASE LeaveAllocWait
  BY <1>7 DEF LeaveAllocWait, AllocAwaited, stream, slots, queue, main,
      history
<1>8. CASE NoBitmap
  BY <1>8 DEF NoBitmap, stream, slots, queue, main, history
<1>9. CASE Convert
  BY <1>9 DEF Convert, Advance, stream, main
<1>10. CASE CountEnter
  BY <1>10 DEF CountEnter, WaitSema, stream, slots, main, history
<1>11. CASE CountWrite
  BY <1>11 DEF CountWrite, SignalSema, stream, slots, main, history
<1>12. CASE OpenStream
  BY <1>12 DEF OpenStream
<1>13. CASE AllocStart
  BY <1>13 DEF AllocStart, stream, slots, queue, video, history
<1>14. CASE AllocBuffer
  BY <1>14 DEF AllocBuffer, stream, queue, video
<1>15. CASE AllocDims
  BY <1>15 DEF AllocDims, stream, queue, video, history
<1>16. CASE AllocDone
  BY <1>16 DEF AllocDone, stream, queue, video, history
<1>17. CASE AllocClear
  BY <1>17 DEF AllocClear, stream, slots, queue, video, history
<1>18. CASE Refresh
  BY <1>18 DEF Refresh, HasPicture, stream, slots, queue, video, history
<1>19. CASE Display
  BY <1>19 DEF Display, Advance, stream, slots, video
<1>20. CASE TakeEnter
  BY <1>20 DEF TakeEnter, WaitSema, stream, slots, video, history
<1>21. CASE TakeWrite
  BY <1>21 DEF TakeWrite, SignalSema, stream, slots, video, history
<1>22. CASE StopStream
  BY <1>22 DEF StopStream, slots, queue, video, history
<1>23. CASE FreeStream
  BY <1>23 DEF FreeStream, stream, queue, video, history
<1>24. CASE OpenVideo
  BY <1>24 DEF OpenVideo, slots, queue, main, history
<1>25. CASE OpenNoVideo
  BY <1>25 DEF OpenNoVideo, stream, slots, queue, video, main, history
<1>26. CASE AbortVideo
  BY <1>26 DEF AbortVideo, slots, queue, video, main, history
<1>27. CASE Unblock
  BY <1>27 DEF Unblock, stream, slots, queue, video, main, history
<1>28. CASE CloseVideo
  BY <1>28 DEF CloseVideo, VideoEnded, slots, queue, video, main, history
<1>29. CASE Overrun
  BY <1>29 DEF Overrun, stream, slots, queue, main, history
<1>30. CASE AllocFrame
  BY <1>30 DEF AllocFrame, stream, queue, video
<1>31. CASE Stutter
  BY <1>31 DEF Stutter, vars, slots, queue, stream, video, main, history
<1> QED
  BY <1>1, <1>2, <1>3, <1>4, <1>5, <1>6, <1>7, <1>8, <1>9, <1>10, <1>11,
      <1>12, <1>13, <1>14, <1>15, <1>16, <1>17, <1>18, <1>19, <1>20, <1>21,
      <1>22, <1>23, <1>24, <1>25, <1>26, <1>27, <1>28, <1>29, <1>30, <1>31,
      NextCases

(* The wait for the Decode thread, and its wait for the Video thread.      *)
LEMMA StagesStep ==
  ASSUME TypeOK, Stages, [Next]_vars
  PROVE  Stages'
<1> USE PictureQueueAssumption DEF TypeOK, Stages
<1>1. CASE DecodeFrame
  BY <1>1 DEF DecodeFrame, stream, slots, queue, main, history
<1>2. CASE EndOfVideo
  BY <1>2 DEF EndOfVideo, stream, slots, queue, main, history
<1>3. CASE LeaveSpaceWait
  BY <1>3 DEF LeaveSpaceWait, MayQueue, stream, slots, queue, main, history
<1>4. CASE AbortAtSlot
  BY <1>4 DEF AbortAtSlot, stream, slots, queue, main, history
<1>5. CASE RequestAlloc
  BY <1>5 DEF RequestAlloc, Unusable, stream, queue, main, history
<1>6. CASE UseSlot
  BY <1>6 DEF UseSlot, Unusable, stream, slots, queue, main, history
<1>7. CASE LeaveAllocWait
  BY <1>7 DEF LeaveAllocWait, AllocAwaited, stream, slots, queue, main,
      history
<1>8. CASE NoBitmap
  BY <1>8 DEF NoBitmap, stream, slots, queue, main, history
<1>9. CASE Convert
  BY <1>9 DEF Convert, Advance, stream, main
<1>10. CASE CountEnter
  BY <1>10 DEF CountEnter, WaitSema, stream, slots, main, history
<1>11. CASE CountWrite
  BY <1>11 DEF CountWrite, SignalSema, stream, slots, main, history
<1>12. CASE OpenStream
  BY <1>12 DEF OpenStream
<1>13. CASE AllocStart
  BY <1>13 DEF AllocStart, stream, slots, queue, video, history
<1>14. CASE AllocBuffer
  BY <1>14 DEF AllocBuffer, stream, queue, video
<1>15. CASE AllocDims
  BY <1>15 DEF AllocDims, stream, queue, video, history
<1>16. CASE AllocDone
  BY <1>16 DEF AllocDone, stream, queue, video, history
<1>17. CASE AllocClear
  BY <1>17 DEF AllocClear, stream, slots, queue, video, history
<1>18. CASE Refresh
  BY <1>18 DEF Refresh, HasPicture, stream, slots, queue, video, history
<1>19. CASE Display
  BY <1>19 DEF Display, Advance, stream, slots, video
<1>20. CASE TakeEnter
  BY <1>20 DEF TakeEnter, WaitSema, stream, slots, video, history
<1>21. CASE TakeWrite
  BY <1>21 DEF TakeWrite, SignalSema, stream, slots, video, history
<1>22. CASE StopStream
  BY <1>22 DEF StopStream, slots, queue, video, history
<1>23. CASE FreeStream
  BY <1>23 DEF FreeStream, stream, queue, video, history
<1>24. CASE OpenVideo
  BY <1>24 DEF OpenVideo, slots, queue, main, history
<1>25. CASE OpenNoVideo
  BY <1>25 DEF OpenNoVideo, stream, slots, queue, video, main, history
<1>26. CASE AbortVideo
  BY <1>26 DEF AbortVideo, slots, queue, video, main, history
<1>27. CASE Unblock
  BY <1>27 DEF Unblock, stream, slots, queue, video, main, history
<1>28. CASE CloseVideo
  BY <1>28 DEF CloseVideo, VideoEnded, slots, queue, video, main, history
<1>29. CASE Overrun
  BY <1>29 DEF Overrun, stream, slots, queue, main, history
<1>30. CASE AllocFrame
  BY <1>30 DEF AllocFrame, stream, queue, video
<1>31. CASE Stutter
  BY <1>31 DEF Stutter, vars, slots, queue, stream, video, main, history
<1> QED
  BY <1>1, <1>2, <1>3, <1>4, <1>5, <1>6, <1>7, <1>8, <1>9, <1>10, <1>11,
      <1>12, <1>13, <1>14, <1>15, <1>16, <1>17, <1>18, <1>19, <1>20, <1>21,
      <1>22, <1>23, <1>24, <1>25, <1>26, <1>27, <1>28, <1>29, <1>30, <1>31,
      NextCases

(* A thread that takes the semaphore finds it free.                        *)
LEMMA MutexStep ==
  ASSUME TypeOK, Stages, Mutex, [Next]_vars
  PROVE  Mutex'
<1> USE PictureQueueAssumption DEF TypeOK, Mutex, Stages
<1>1. CASE DecodeFrame
  BY <1>1 DEF DecodeFrame, stream, slots, queue, main, history
<1>2. CASE EndOfVideo
  BY <1>2 DEF EndOfVideo, stream, slots, queue, main, history
<1>3. CASE LeaveSpaceWait
  BY <1>3 DEF LeaveSpaceWait, MayQueue, stream, slots, queue, main, history
<1>4. CASE AbortAtSlot
  BY <1>4 DEF AbortAtSlot, stream, slots, queue, main, history
<1>5. CASE RequestAlloc
  BY <1>5 DEF RequestAlloc, Unusable, stream, queue, main, history
<1>6. CASE UseSlot
  BY <1>6 DEF UseSlot, Unusable, stream, slots, queue, main, history
<1>7. CASE LeaveAllocWait
  BY <1>7 DEF LeaveAllocWait, AllocAwaited, stream, slots, queue, main,
      history
<1>8. CASE NoBitmap
  BY <1>8 DEF NoBitmap, stream, slots, queue, main, history
<1>9. CASE Convert
  BY <1>9 DEF Convert, Advance, stream, main
<1>10. CASE CountEnter
  BY <1>10 DEF CountEnter, WaitSema, stream, slots, main, history
<1>11. CASE CountWrite
  BY <1>11 DEF CountWrite, SignalSema, stream, slots, main, history
<1>12. CASE OpenStream
  BY <1>12 DEF OpenStream
<1>13. CASE AllocStart
  BY <1>13 DEF AllocStart, stream, slots, queue, video, history
<1>14. CASE AllocBuffer
  BY <1>14 DEF AllocBuffer, stream, queue, video
<1>15. CASE AllocDims
  BY <1>15 DEF AllocDims, stream, queue, video, history
<1>16. CASE AllocDone
  BY <1>16 DEF AllocDone, stream, queue, video, history
<1>17. CASE AllocClear
  BY <1>17 DEF AllocClear, stream, slots, queue, video, history
<1>18. CASE Refresh
  BY <1>18 DEF Refresh, HasPicture, stream, slots, queue, video, history
<1>19. CASE Display
  BY <1>19 DEF Display, Advance, stream, slots, video
<1>20. CASE TakeEnter
  BY <1>20 DEF TakeEnter, WaitSema, stream, slots, video, history
<1>21. CASE TakeWrite
  BY <1>21 DEF TakeWrite, SignalSema, stream, slots, video, history
<1>22. CASE StopStream
  BY <1>22 DEF StopStream, slots, queue, video, history
<1>23. CASE FreeStream
  BY <1>23 DEF FreeStream, stream, queue, video, history
<1>24. CASE OpenVideo
  BY <1>24 DEF OpenVideo, slots, queue, main, history
<1>25. CASE OpenNoVideo
  BY <1>25 DEF OpenNoVideo, stream, slots, queue, video, main, history
<1>26. CASE AbortVideo
  BY <1>26 DEF AbortVideo, slots, queue, video, main, history
<1>27. CASE Unblock
  BY <1>27 DEF Unblock, stream, slots, queue, video, main, history
<1>28. CASE CloseVideo
  BY <1>28 DEF CloseVideo, VideoEnded, slots, queue, video, main, history
<1>29. CASE Overrun
  BY <1>29 DEF Overrun, stream, slots, queue, main, history
<1>30. CASE AllocFrame
  BY <1>30 DEF AllocFrame, stream, queue, video
<1>31. CASE Stutter
  BY <1>31 DEF Stutter, vars, slots, queue, stream, video, main, history
<1> QED
  BY <1>1, <1>2, <1>3, <1>4, <1>5, <1>6, <1>7, <1>8, <1>9, <1>10, <1>11,
      <1>12, <1>13, <1>14, <1>15, <1>16, <1>17, <1>18, <1>19, <1>20, <1>21,
      <1>22, <1>23, <1>24, <1>25, <1>26, <1>27, <1>28, <1>29, <1>30, <1>31,
      NextCases

(* Each index moves with a pending change of the count.                    *)
LEMMA SpaceStep ==
  ASSUME TypeOK, Stages, Space, Mutex, [Next]_vars
  PROVE  Space'
<1> USE PictureQueueAssumption DEF TypeOK, Slot, Stages, Space, Mutex, Held,
      VPend, MPend
<1>1. CASE DecodeFrame
  BY <1>1 DEF DecodeFrame, stream, slots, queue, main, history
<1>2. CASE EndOfVideo
  BY <1>2 DEF EndOfVideo, stream, slots, queue, main, history
<1>3. CASE LeaveSpaceWait
  BY <1>3 DEF LeaveSpaceWait, MayQueue, stream, slots, queue, main, history
<1>4. CASE AbortAtSlot
  BY <1>4 DEF AbortAtSlot, stream, slots, queue, main, history
<1>5. CASE RequestAlloc
  BY <1>5 DEF RequestAlloc, Unusable, stream, queue, main, history
<1>6. CASE UseSlot
  BY <1>6 DEF UseSlot, Unusable, stream, slots, queue, main, history
<1>7. CASE LeaveAllocWait
  BY <1>7 DEF LeaveAllocWait, AllocAwaited, stream, slots, queue, main,
      history
<1>8. CASE NoBitmap
  BY <1>8 DEF NoBitmap, stream, slots, queue, main, history
<1>9. CASE Convert
  BY <1>9 DEF Convert, Advance, stream, main
<1>10. CASE CountEnter
  BY <1>10 DEF CountEnter, WaitSema, stream, slots, main, history
<1>11. CASE CountWrite
  BY <1>11 DEF CountWrite, SignalSema, stream, slots, main, history
<1>12. CASE OpenStream
  BY <1>12 DEF OpenStream
<1>13. CASE AllocStart
  BY <1>13 DEF AllocStart, stream, slots, queue, video, history
<1>14. CASE AllocBuffer
  BY <1>14 DEF AllocBuffer, stream, queue, video
<1>15. CASE AllocDims
  BY <1>15 DEF AllocDims, stream, queue, video, history
<1>16. CASE AllocDone
  BY <1>16 DEF AllocDone, stream, queue, video, history
<1>17. CASE AllocClear
  BY <1>17 DEF AllocClear, stream, slots, queue, video, history
<1>18. CASE Refresh
  BY <1>18 DEF Refresh, HasPicture, stream, slots, queue, video, history
<1>19. CASE Display
  BY <1>19 DEF Display, Advance, stream, slots, video
<1>20. CASE TakeEnter
  BY <1>20 DEF TakeEnter, WaitSema, stream, slots, video, history
<1>21. CASE TakeWrite
  BY <1>21 DEF TakeWrite, SignalSema, stream, slots, video, history
<1>22. CASE StopStream
  BY <1>22 DEF StopStream, slots, queue, video, history
<1>23. CASE FreeStream
  BY <1>23 DEF FreeStream, stream, queue, video, history
<1>24. CASE OpenVideo
  BY <1>24 DEF OpenVideo, slots, queue, main, history
<1>25. CASE OpenNoVideo
  BY <1>25 DEF OpenNoVideo, stream, slots, queue, video, main, history
<1>26. CASE AbortVideo
  BY <1>26 DEF AbortVideo, slots, queue, video, main, history
<1>27. CASE Unblock
  BY <1>27 DEF Unblock, stream, slots, queue, video, main, history
<1>28. CASE CloseVideo
  BY <1>28 DEF CloseVideo, VideoEnded, slots, queue, video, main, history
<1>29. CASE Overrun
  BY <1>29 DEF Overrun, stream, slots, queue, main, history
<1>30. CASE AllocFrame
  BY <1>30 DEF AllocFrame, stream, queue, video
<1>31. CASE Stutter
  BY <1>31 DEF Stutter, vars, slots, queue, stream, video, main, history
<1> QED
  BY <1>1, <1>2, <1>3, <1>4, <1>5, <1>6, <1>7, <1>8, <1>9, <1>10, <1>11,
      <1>12, <1>13, <1>14, <1>15, <1>16, <1>17, <1>18, <1>19, <1>20, <1>21,
      <1>22, <1>23, <1>24, <1>25, <1>26, <1>27, <1>28, <1>29, <1>30, <1>31,
      NextCases

(* windex does not move while a buffer is asked for.                       *)
LEMMA RequestStep ==
  ASSUME TypeOK, Stages, Space, Mutex, Request, [Next]_vars
  PROVE  Request'
<1> USE PictureQueueAssumption DEF TypeOK, Slot, Stages, Space, Mutex,
      Request, Waits, Fresh, Held, VPend, MPend
<1>1. CASE DecodeFrame
  BY <1>1 DEF DecodeFrame, stream, slots, queue, main, history
<1>2. CASE EndOfVideo
  BY <1>2 DEF EndOfVideo, stream, slots, queue, main, history
<1>3. CASE LeaveSpaceWait
  BY <1>3 DEF LeaveSpaceWait, MayQueue, stream, slots, queue, main, history
<1>4. CASE AbortAtSlot
  BY <1>4 DEF AbortAtSlot, stream, slots, queue, main, history
<1>5. CASE RequestAlloc
  BY <1>5 DEF RequestAlloc, Unusable, stream, queue, main, history
<1>6. CASE UseSlot
  BY <1>6 DEF UseSlot, Unusable, stream, slots, queue, main, history
<1>7. CASE LeaveAllocWait
  BY <1>7 DEF LeaveAllocWait, AllocAwaited, stream, slots, queue, main,
      history
<1>8. CASE NoBitmap
  BY <1>8 DEF NoBitmap, stream, slots, queue, main, history
<1>9. CASE Convert
  BY <1>9 DEF Convert, Advance, stream, main
<1>10. CASE CountEnter
  BY <1>10 DEF CountEnter, WaitSema, stream, slots, main, history
<1>11. CASE CountWrite
  BY <1>11 DEF CountWrite, SignalSema, stream, slots, main, history
<1>12. CASE OpenStream
  BY <1>12 DEF OpenStream
<1>13. CASE AllocStart
  BY <1>13 DEF AllocStart, stream, slots, queue, video, history
<1>14. CASE AllocBuffer
  BY <1>14 DEF AllocBuffer, stream, queue, video
<1>15. CASE AllocDims
  BY <1>15 DEF AllocDims, stream, queue, video, history
<1>16. CASE AllocDone
  BY <1>16 DEF AllocDone, stream, queue, video, history
<1>17. CASE AllocClear
  BY <1>17 DEF AllocClear, stream, slots, queue, video, history
<1>18. CASE Refresh
  BY <1>18 DEF Refresh, HasPicture, stream, slots, queue, video, history
<1>19. CASE Display
  BY <1>19 DEF Display, Advance, stream, slots, video
<1>20. CASE TakeEnter
  BY <1>20 DEF TakeEnter, WaitSema, stream, slots, video, history
<1>21. CASE TakeWrite
  BY <1>21 DEF TakeWrite, SignalSema, stream, slots, video, history
<1>22. CASE StopStream
  BY <1>22 DEF StopStream, slots, queue, video, history
<1>23. CASE FreeStream
  BY <1>23 DEF FreeStream, stream, queue, video, history
<1>24. CASE OpenVideo
  BY <1>24 DEF OpenVideo, slots, queue, main, history
<1>25. CASE OpenNoVideo
  BY <1>25 DEF OpenNoVideo, stream, slots, queue, video, main, history
<1>26. CASE AbortVideo
  BY <1>26 DEF AbortVideo, slots, queue, video, main, history
<1>27. CASE Unblock
  BY <1>27 DEF Unblock, stream, slots, queue, video, main, history
<1>28. CASE CloseVideo
  BY <1>28 DEF CloseVideo, VideoEnded, slots, queue, video, main, history
<1>29. CASE Overrun
  BY <1>29 DEF Overrun, stream, slots, queue, main, history
<1>30. CASE AllocFrame
  BY <1>30 DEF AllocFrame, stream, queue, video
<1>31. CASE Stutter
  BY <1>31 DEF Stutter, vars, slots, queue, stream, video, main, history
<1> QED
  BY <1>1, <1>2, <1>3, <1>4, <1>5, <1>6, <1>7, <1>8, <1>9, <1>10, <1>11,
      <1>12, <1>13, <1>14, <1>15, <1>16, <1>17, <1>18, <1>19, <1>20, <1>21,
      <1>22, <1>23, <1>24, <1>25, <1>26, <1>27, <1>28, <1>29, <1>30, <1>31,
      NextCases

(* Only the main thread replaces buffers, and not before the new AVFrame.  *)
LEMMA BufferedStep ==
  ASSUME TypeOK, Stages, Buffered, [Next]_vars
  PROVE  Buffered'
<1> USE DEF TypeOK, Stages, Buffered
<1>1. CASE OpenStream
  BY <1>1 DEF OpenStream
<1>2. CASE AllocStart
  BY <1>2 DEF AllocStart, slots, history
<1>3. CASE AllocFrame
  BY <1>3 DEF AllocFrame
<1>4. CASE AllocBuffer
  BY <1>4 DEF AllocBuffer
<1>5. CASE AllocDims \/ AllocDone \/ AllocClear \/ Refresh \/ Display
           \/ TakeEnter \/ TakeWrite \/ StopStream
  BY <1>5 DEF AllocDims, AllocDone, AllocClear, Refresh, Display, TakeEnter,
     TakeWrite, StopStream, slots, history
<1>6. CASE FreeStream
  BY <1>6 DEF FreeStream, history
<1>7. CASE DecodeFrame \/ EndOfVideo \/ LeaveSpaceWait \/ AbortAtSlot
           \/ RequestAlloc \/ UseSlot \/ LeaveAllocWait \/ NoBitmap
           \/ Convert \/ Overrun \/ CountEnter \/ CountWrite
  BY <1>7 DEF DecodeFrame, EndOfVideo, LeaveSpaceWait, AbortAtSlot,
     RequestAlloc, UseSlot, LeaveAllocWait, NoBitmap, Convert, Overrun,
     CountEnter, CountWrite, slots, main, history
<1>8. CASE OpenVideo \/ OpenNoVideo \/ AbortVideo \/ Unblock \/ CloseVideo
  BY <1>8 DEF OpenVideo, OpenNoVideo, AbortVideo, Unblock, CloseVideo, slots,
     main, history
<1>9. CASE Stutter
  BY <1>9 DEF Stutter, vars, slots, main, history
<1> QED
  BY <1>1, <1>2, <1>3, <1>4, <1>5, <1>6, <1>7, <1>8, <1>9, NextCases

(* The dimensions of the codec do not change while a buffer is made.       *)
LEMMA FirstStep ==
  ASSUME TypeOK, Stages, Request, First, [Next]_vars
  PROVE  First'
<1> USE PictureQueueAssumption DEF TypeOK, Slot, Stages, Request, First,
      Waits
<1>1. CASE DecodeFrame
  BY <1>1 DEF DecodeFrame, stream, slots, queue, main, history
<1>2. CASE EndOfVideo
  BY <1>2 DEF EndOfVideo, stream, slots, queue, main, history
<1>3. CASE LeaveSpaceWait
  BY <1>3 DEF LeaveSpaceWait, MayQueue, stream, slots, queue, main, history
<1>4. CASE AbortAtSlot
  BY <1>4 DEF AbortAtSlot, stream, slots, queue, main, history
<1>5. CASE RequestAlloc
  BY <1>5 DEF RequestAlloc, Unusable, stream, queue, main, history
<1>6. CASE UseSlot
  BY <1>6 DEF UseSlot, Unusable, stream, slots, queue, main, history
<1>7. CASE LeaveAllocWait
  BY <1>7 DEF LeaveAllocWait, AllocAwaited, stream, slots, queue, main,
      history
<1>8. CASE NoBitmap
  BY <1>8 DEF NoBitmap, stream, slots, queue, main, history
<1>9. CASE Convert
  BY <1>9 DEF Convert, Advance, stream, main
<1>10. CASE CountEnter
  BY <1>10 DEF CountEnter, WaitSema, stream, slots, main, history
<1>11. CASE CountWrite
  BY <1>11 DEF CountWrite, SignalSema, stream, slots, main, history
<1>12. CASE OpenStream
  BY <1>12 DEF OpenStream
<1>13. CASE AllocStart
  BY <1>13 DEF AllocStart, stream, slots, queue, video, history
<1>14. CASE AllocBuffer
  BY <1>14 DEF AllocBuffer, stream, queue, video
<1>15. CASE AllocDims
  BY <1>15 DEF AllocDims, stream, queue, video, history
<1>16. CASE AllocDone
  BY <1>16 DEF AllocDone, stream, queue, video, history
<1>17. CASE AllocClear
  BY <1>17 DEF AllocClear, stream, slots, queue, video, history
<1>18. CASE Refresh
  BY <1>18 DEF Refresh, HasPicture, stream, slots, queue, video, history
<1>19. CASE Display
  BY <1>19 DEF Display, Advance, stream, slots, video
<1>20. CASE TakeEnter
  BY <1>20 DEF TakeEnter, WaitSema, stream, slots, video, history
<1>21. CASE TakeWrite
  BY <1>21 DEF TakeWrite, SignalSema, stream, slots, video, history
<1>22. CASE StopStream
  BY <1>22 DEF StopStream, slots, queue, video, history
<1>23. CASE FreeStream
  BY <1>23 DEF FreeStream, stream, queue, video, history
<1>24. CASE OpenVideo
  BY <1>24 DEF OpenVideo, slots, queue, main, history
<1>25. CASE OpenNoVideo
  BY <1>25 DEF OpenNoVideo, stream, slots, queue, video, main, history
<1>26. CASE AbortVideo
  BY <1>26 DEF AbortVideo, slots, queue, video, main, history
<1>27. CASE Unblock
  BY <1>27 DEF Unblock, stream, slots, queue, video, main, history
<1>28. CASE CloseVideo
  BY <1>28 DEF CloseVideo, VideoEnded, slots, queue, video, main, history
<1>29. CASE Overrun
  BY <1>29 DEF Overrun, stream, slots, queue, main, history
<1>30. CASE AllocFrame
  BY <1>30 DEF AllocFrame, stream, queue, video
<1>31. CASE Stutter
  BY <1>31 DEF Stutter, vars, slots, queue, stream, video, main, history
<1> QED
  BY <1>1, <1>2, <1>3, <1>4, <1>5, <1>6, <1>7, <1>8, <1>9, <1>10, <1>11,
      <1>12, <1>13, <1>14, <1>15, <1>16, <1>17, <1>18, <1>19, <1>20, <1>21,
      <1>22, <1>23, <1>24, <1>25, <1>26, <1>27, <1>28, <1>29, <1>30, <1>31,
      NextCases

(* From the allocation to the full queue.                                  *)
LEMMA OneSlotStep ==
  ASSUME TypeOK, Stages, Space, Mutex, Request, First, OneSlot, [Next]_vars
  PROVE  OneSlot'
<1> USE PictureQueueAssumption DEF TypeOK, Slot, Stages, Space, Mutex,
      Request, First, OneSlot, Waits
<1>1. CASE DecodeFrame
  BY <1>1 DEF DecodeFrame, stream, slots, queue, main, history
<1>2. CASE EndOfVideo
  BY <1>2 DEF EndOfVideo, stream, slots, queue, main, history
<1>3. CASE LeaveSpaceWait
  BY <1>3 DEF LeaveSpaceWait, MayQueue, stream, slots, queue, main, history
<1>4. CASE AbortAtSlot
  BY <1>4 DEF AbortAtSlot, stream, slots, queue, main, history
<1>5. CASE RequestAlloc
  BY <1>5 DEF RequestAlloc, Unusable, stream, queue, main, history
<1>6. CASE UseSlot
  BY <1>6 DEF UseSlot, Unusable, stream, slots, queue, main, history
<1>7. CASE LeaveAllocWait
  BY <1>7 DEF LeaveAllocWait, AllocAwaited, stream, slots, queue, main,
      history
<1>8. CASE NoBitmap
  BY <1>8 DEF NoBitmap, stream, slots, queue, main, history
<1>9. CASE Convert
  BY <1>9 DEF Convert, Advance, stream, main
<1>10. CASE CountEnter
  BY <1>10 DEF CountEnter, WaitSema, stream, slots, main, history
<1>11. CASE CountWrite
  BY <1>11 DEF CountWrite, SignalSema, stream, slots, main, history
<1>12. CASE OpenStream
  BY <1>12 DEF OpenStream
<1>13. CASE AllocStart
  BY <1>13 DEF AllocStart, stream, slots, queue, video, history
<1>14. CASE AllocBuffer
  BY <1>14 DEF AllocBuffer, stream, queue, video
<1>15. CASE AllocDims
  BY <1>15 DEF AllocDims, stream, queue, video, history
<1>16. CASE AllocDone
  BY <1>16 DEF AllocDone, stream, queue, video, history
<1>17. CASE AllocClear
  BY <1>17 DEF AllocClear, stream, slots, queue, video, history
<1>18. CASE Refresh
  BY <1>18 DEF Refresh, HasPicture, stream, slots, queue, video, history
<1>19. CASE Display
  BY <1>19 DEF Display, Advance, stream, slots, video
<1>20. CASE TakeEnter
  BY <1>20 DEF TakeEnter, WaitSema, stream, slots, video, history
<1>21. CASE TakeWrite
  BY <1>21 DEF TakeWrite, SignalSema, stream, slots, video, history
<1>22. CASE StopStream
  BY <1>22 DEF StopStream, slots, queue, video, history
<1>23. CASE FreeStream
  BY <1>23 DEF FreeStream, stream, queue, video, history
<1>24. CASE OpenVideo
  BY <1>24 DEF OpenVideo, slots, queue, main, history
<1>25. CASE OpenNoVideo
  BY <1>25 DEF OpenNoVideo, stream, slots, queue, video, main, history
<1>26. CASE AbortVideo
  BY <1>26 DEF AbortVideo, slots, queue, video, main, history
<1>27. CASE Unblock
  BY <1>27 DEF Unblock, stream, slots, queue, video, main, history
<1>28. CASE CloseVideo
  BY <1>28 DEF CloseVideo, VideoEnded, slots, queue, video, main, history
<1>29. CASE Overrun
  BY <1>29 DEF Overrun, stream, slots, queue, main, history
<1>30. CASE AllocFrame
  BY <1>30 DEF AllocFrame, stream, queue, video
<1>31. CASE Stutter
  BY <1>31 DEF Stutter, vars, slots, queue, stream, video, main, history
<1> QED
  BY <1>1, <1>2, <1>3, <1>4, <1>5, <1>6, <1>7, <1>8, <1>9, <1>10, <1>11,
      <1>12, <1>13, <1>14, <1>15, <1>16, <1>17, <1>18, <1>19, <1>20, <1>21,
      <1>22, <1>23, <1>24, <1>25, <1>26, <1>27, <1>28, <1>29, <1>30, <1>31,
      NextCases

(* A conversion adds the newest picture behind the others, a display       *)
(* removes the oldest.                                                     *)
LEMMA OrderStep ==
  ASSUME TypeOK, Stages, Space, Mutex, Request, Order, [Next]_vars
  PROVE  Order'
<1> USE PictureQueueAssumption DEF TypeOK, Slot, Stages, Space, Mutex,
      Request, Waits, Fresh, Order, Held, VPend, MPend, Dist, Queued,
      Working
<1>1. CASE DecodeFrame
  BY <1>1 DEF DecodeFrame, stream, slots, queue, main, history
<1>2. CASE EndOfVideo
  BY <1>2 DEF EndOfVideo, stream, slots, queue, main, history
<1>3. CASE LeaveSpaceWait
  BY <1>3 DEF LeaveSpaceWait, MayQueue, stream, slots, queue, main, history
<1>4. CASE AbortAtSlot
  BY <1>4 DEF AbortAtSlot, stream, slots, queue, main, history
<1>5. CASE RequestAlloc
  BY <1>5 DEF RequestAlloc, Unusable, stream, queue, main, history
<1>6. CASE UseSlot
  BY <1>6 DEF UseSlot, Unusable, stream, slots, queue, main, history
<1>7. CASE LeaveAllocWait
  BY <1>7 DEF LeaveAllocWait, AllocAwaited, stream, slots, queue, main,
      history
<1>8. CASE NoBitmap
  BY <1>8 DEF NoBitmap, stream, slots, queue, main, history
<1>9. CASE Convert
  <2> USE <1>9 DEF Convert, Advance, stream, main
  <2>1. mpc # "select" /\ pictq_size < NumSlots /\ vpc' = "count"
    OBVIOUS
  <2>2. Held' = Held + 1 /\ Held \in 0 .. NumSlots - 1
    BY <2>1
  <2>3. \A s, t \in Slot :
          Dist(s)' = Dist(s) /\ (Dist(s) < Dist(t) => s # t)
    OBVIOUS
  <2>4. /\ \A s \in Slot : Dist(s) = Held <=> s = windex
        /\ \A s, t \in Slot : s = windex /\ Queued(t) => ~(Dist(s) < Dist(t))
    BY <2>2
  <2>5. \A s \in Slot : Queued(s)' <=> (Queued(s) \/ s = windex)
    <3> HIDE <1>9 DEF Convert, Advance, Dist, Held, Space
    <3>1. Held \in Int /\ Held' = Held + 1 /\ \A s \in Slot : Dist(s) \in Int
      BY <2>2 DEF Dist
    <3>2. \A s \in Slot : Queued(s)' <=> Dist(s) < Held + 1
      BY <2>3, <3>1
    <3> QED
      BY <2>4, <3>1, <3>2
  <2>6. /\ pic'[windex] = frame /\ last_shown < frame
        /\ \A s \in Slot : s # windex => pic'[s] = pic[s]
        /\ \A s \in Slot : Queued(s) => /\ s # windex
                                      /\ last_shown < pic[s] /\ pic[s] < frame
    BY <2>1, <2>2, <2>4
  <2> HIDE <1>9 DEF Convert, Advance, Dist, Queued, Held
  <2>7. \A s \in Slot : Queued(s)' => last_shown' < pic'[s] /\ pic'[s] <= frame'
    BY <2>5, <2>6, <1>9 DEF Convert
  <2>8. ASSUME NEW s \in Slot, NEW t \in Slot,
               Queued(s)', Queued(t)', Dist(s)' < Dist(t)'
        PROVE  pic'[s] < pic'[t]
    <3>1. Dist(s) < Dist(t) /\ s # t /\ (Queued(t) => t # windex)
      BY <2>3, <2>6, <2>8
    <3>2. CASE t = windex
      <4>1. s # windex /\ Queued(s)
        BY <3>1, <3>2, <2>5, <2>8
      <4> QED
        BY <4>1, <3>2, <2>6
    <3>3. CASE t # windex
      <4>1. Queued(t) /\ Queued(s)
        BY <3>1, <3>3, <2>4, <2>5, <2>8
      <4>2. s # windex /\ pic[s] < pic[t]
        BY <4>1, <3>1, <2>1, <2>6
      <4> QED
        BY <4>2, <3>3, <2>6
    <3> QED
      BY <3>2, <3>3
  <2>9. frame' = frame /\ last_shown' = last_shown
    BY <1>9 DEF Convert
  <2> QED
    BY <2>1, <2>6, <2>7, <2>8, <2>9
<1>10. CASE CountEnter
  BY <1>10 DEF CountEnter, WaitSema, stream, slots, main, history
<1>11. CASE CountWrite
  BY <1>11 DEF CountWrite, SignalSema, stream, slots, main, history
<1>12. CASE OpenStream
  BY <1>12 DEF OpenStream
<1>13. CASE AllocStart
  BY <1>13 DEF AllocStart, stream, slots, queue, video, history
<1>14. CASE AllocBuffer
  BY <1>14 DEF AllocBuffer, stream, queue, video
<1>15. CASE AllocDims
  BY <1>15 DEF AllocDims, stream, queue, video, history
<1>16. CASE AllocDone
  BY <1>16 DEF AllocDone, stream, queue, video, history
<1>17. CASE AllocClear
  BY <1>17 DEF AllocClear, stream, slots, queue, video, history
<1>18. CASE Refresh
  BY <1>18 DEF Refresh, HasPicture, stream, slots, queue, video, history
<1>19. CASE Display
  <2> USE <1>19 DEF Display, Advance, stream, slots, video
  <2>1. Held' = Held - 1 /\ Held \in 1 .. NumSlots
    OBVIOUS
  <2>2. /\ Dist(rindex) = 0
        /\ \A s \in Slot : s = rindex => Dist(s)' = NumSlots - 1
        /\ \A s \in Slot : s # rindex =>
             Dist(s) > 0 /\ Dist(s)' = Dist(s) - 1
    <3>1. /\ rindex \in 0 .. NumSlots - 1
          /\ rindex' = IF rindex + 1 = NumSlots THEN 0 ELSE rindex + 1
      OBVIOUS
    <3>2. /\ Dist(rindex) = 0
          /\ \A s \in Slot : s = rindex => Dist(s)' = NumSlots - 1
      BY <3>1
    <3>3. ASSUME NEW s \in Slot, s # rindex
          PROVE  Dist(s) > 0 /\ Dist(s)' = Dist(s) - 1
      BY <3>1, <3>3
    <3> QED
      BY <3>2, <3>3
  <2>3. \A s \in Slot : Queued(s)' => s # rindex /\ Queued(s)
    BY <2>1, <2>2
  <2>4. /\ Queued(rindex) /\ rindex \in Slot
        /\ last_shown' = pic[rindex] /\ pic' = pic /\ frame' = frame
        /\ vpc' = vpc /\ mpc # "select"
    BY <2>1, <2>2
  <2> HIDE <1>19 DEF Display, Advance, Dist, Queued, Held
  <2>5. \A s \in Slot : Queued(s)' => pic[rindex] < pic[s]
    BY <2>2, <2>3, <2>4
  <2>6. \A s, t \in Slot : Queued(s)' /\ Queued(t)' /\ Dist(s)' < Dist(t)'
                           => Dist(s) < Dist(t)
    BY <2>2, <2>3 DEF Dist
  <2> QED
    BY <2>3, <2>4, <2>5, <2>6
<1>20. CASE TakeEnter
  BY <1>20 DEF TakeEnter, WaitSema, stream, slots, video, history
<1>21. CASE TakeWrite
  BY <1>21 DEF TakeWrite, SignalSema, stream, slots, video, history
<1>22. CASE StopStream
  BY <1>22 DEF StopStream, slots, queue, video, history
<1>23. CASE FreeStream
  BY <1>23 DEF FreeStream, stream, queue, video, history
<1>24. CASE OpenVideo
  BY <1>24 DEF OpenVideo, slots, queue, main, history
<1>25. CASE OpenNoVideo
  BY <1>25 DEF OpenNoVideo, stream, slots, queue, video, main, history
<1>26. CASE AbortVideo
  BY <1>26 DEF AbortVideo, slots, queue, video, main, history
<1>27. CASE Unblock
  BY <1>27 DEF Unblock, stream, slots, queue, video, main, history
<1>28. CASE CloseVideo
  BY <1>28 DEF CloseVideo, VideoEnded, slots, queue, video, main, history
<1>29. CASE Overrun
  BY <1>29 DEF Overrun, stream, slots, queue, main, history
<1>30. CASE AllocFrame
  BY <1>30 DEF AllocFrame, stream, queue, video
<1>31. CASE Stutter
  BY <1>31 DEF Stutter, vars, slots, queue, stream, video, main, history
<1> QED
  BY <1>1, <1>2, <1>3, <1>4, <1>5, <1>6, <1>7, <1>8, <1>9, <1>10, <1>11,
      <1>12, <1>13, <1>14, <1>15, <1>16, <1>17, <1>18, <1>19, <1>20, <1>21,
      <1>22, <1>23, <1>24, <1>25, <1>26, <1>27, <1>28, <1>29, <1>30, <1>31,
      NextCases

-----------------------------------------------------------------------------
LEMMA InitHolds == Init => IInv
<1> SUFFICES ASSUME Init
             PROVE  IInv
  OBVIOUS
<1> USE PictureQueueAssumption DEF Init
<1>1. TypeOK
  BY DEF TypeOK, Slot
<1>2. Stages /\ Mutex /\ Space
  BY DEF Stages, Mutex, Space, Held, VPend, MPend
<1>3. Request /\ First /\ OneSlot
  BY DEF Request, First, OneSlot, Waits, Fresh
<1>4. Buffered
  BY DEF Buffered
<1>5. Order
  BY DEF Order
<1> QED
  BY <1>1, <1>2, <1>3, <1>4, <1>5 DEF IInv

LEMMA StepHolds == IInv /\ [Next]_vars => IInv'
<1> SUFFICES ASSUME IInv, [Next]_vars
             PROVE  IInv'
  OBVIOUS
<1>1. TypeOK' /\ Stages' /\ Mutex' /\ Space'
  BY TypesStep, StagesStep, MutexStep, SpaceStep DEF IInv
<1>2. Request' /\ Buffered' /\ First' /\ OneSlot' /\ Order'
  BY RequestStep, BufferedStep, FirstStep, OneSlotStep, OrderStep DEF IInv
<1> QED
  BY <1>1, <1>2 DEF IInv

(* The invariant holds for any number of slots, sizes, pictures, streams.  *)
THEOREM Invariance == Spec => []IInv
BY InitHolds, StepHolds, PTL DEF Spec

(* Type correctness: the count stays between nothing and all the slots,    *)
(* and the indices within them.                                            *)
THEOREM TypeCorrect == Spec => []TypeOK
<1>1. IInv => TypeOK
  BY DEF IInv
<1> QED
  BY <1>1, Invariance, PTL

(* No picture is written while it is displayed.                            *)
THEOREM Untorn == Spec => []NoTearing
<1>1. IInv => NoTearing
  BY PictureQueueAssumption
     DEF IInv, TypeOK, Slot, Space, Held, VPend, MPend, NoTearing
<1> QED
  BY <1>1, Invariance, PTL

(* A frame of the first stream is converted into a slot made for its       *)
(* dimensions that nobody is about to replace, and stays inside the buffer *)
(* unless it is too high for one or there was none to be had.              *)
THEOREM Fits == Spec => []BufferFits
<1>1. IInv => BufferFits
  BY DEF IInv, TypeOK, Buffered, First, Waits, Inside, BufferFits
<1> QED
  BY <1>1, Invariance, PTL

(* The main thread serves every request of the first stream while the      *)
(* stream is open, and with one slot none is lost before a failure.        *)
THEOREM Served == Spec => []RequestServed
<1>1. IInv => RequestServed
  BY DEF IInv, First, OneSlot, Waits, RequestServed
<1> QED
  BY <1>1, Invariance, PTL

(* Pictures are displayed in the order they were decoded, each once, in    *)
(* every stream and for any number of slots.                               *)
THEOREM InOrder == Spec => DisplayOrder
<1>1. IInv /\ [Next]_vars =>
        (last_shown' # last_shown => last_shown' > last_shown
                                     \/ streams' # streams)
  <2> SUFFICES ASSUME IInv, [Next]_vars, last_shown' # last_shown
               PROVE  last_shown' > last_shown \/ streams' # streams
    OBVIOUS
  <2>1. Display \/ OpenStream
    BY NextCases DEF DecodeFrame, EndOfVideo, LeaveSpaceWait, AbortAtSlot,
      RequestAlloc, UseSlot, LeaveAllocWait, NoBitmap, Convert, Overrun,
      CountEnter, CountWrite, AllocStart, AllocFrame, AllocBuffer, AllocDims, AllocDone, AllocClear,
      Refresh, TakeEnter, TakeWrite, StopStream, FreeStream, OpenVideo,
      OpenNoVideo, AbortVideo, Unblock, CloseVideo, Stutter, history, vars
  <2>2. CASE OpenStream
    BY <2>2 DEF OpenStream, IInv, TypeOK
  <2>3. CASE Display
    <3>1. Queued(rindex) /\ rindex \in Slot /\ mpc # "select"
      BY <2>3, PictureQueueAssumption
         DEF Display, IInv, TypeOK, Slot, Space, Queued, Dist, Held, VPend, MPend
    <3>2. last_shown < pic[rindex]
      BY <3>1 DEF IInv, Order
    <3> QED
      BY <2>3, <3>2 DEF Display
  <2> QED
    BY <2>1, <2>2, <2>3
<1> QED
  BY <1>1, Invariance, PTL DEF Spec, DisplayOrder

(* When stream_close frees the pictures and the VideoState, the Video      *)
(* thread of the stream has ended, whatever it was waiting for.            *)
THEOREM FreedAlone ==
  Spec => [](mpc = "join" /\ dpc = "done" => vpc \in {"none", "done"})
<1>1. IInv => (mpc = "join" /\ dpc = "done" => vpc \in {"none", "done"})
  BY DEF IInv, Stages
<1> QED
  BY <1>1, Invariance, PTL

-----------------------------------------------------------------------------
(* Displaying and stopping, apart from fairness: some thread can always    *)
(* take a step, and after a stop each has only so many left.               *)

(* Where a thread waits neither for another one nor for the user, and has  *)
(* a step to take.                                                         *)
VideoReady ==
  \/ vpc = "decode" /\ (videoq_abort = 1 \/ frame < MaxPictures)
  \/ vpc = "space" /\ pictq_mutex = 1 /\ MayQueue
  \/ vpc = "alloc_wait" /\ pictq_mutex = 1 /\ AllocAwaited
  \/ vpc = "count" /\ pictq_mutex = 1
  \/ vpc \in {"slot", "convert", "count_write"}
MainReady ==
  \/ mpc = "loop" /\ (need_alloc = 1 \/ (video_st = 1 /\ HasPicture))
  \/ mpc \in {"alloc_done", "take"} /\ pictq_mutex = 1
  \/ mpc \in {"alloc", "alloc_buffer", "alloc_dims", "alloc_clear", "display",
              "take_write"}
  \/ mpc = "join" /\ dpc = "done"
DecodeReady ==
  \/ dpc = "open"
  \/ dpc = "run" /\ stop = 1
  \/ dpc = "unblock" /\ (video_st = 1 => pictq_mutex = 1)
  \/ dpc = "join" /\ VideoEnded

(* While the stream is stopped, unless a conversion outside its buffer has *)
(* hung the Video thread; while a picture is queued; and while the         *)
(* Video thread waits for a buffer, where RequestServed says that it need  *)
(* not wait in vain.                                                       *)
NoCircularWait ==
  /\ mpc = "join" /\ vpc # "hung" => MainReady \/ VideoReady \/ DecodeReady
  /\ queued > shown /\ stop = 0 /\ mpc # "crashed" => MainReady \/ VideoReady
  /\ NumSlots = 1 /\ streams = 1 /\ "frame" \notin failed /\ Waits /\ stop = 0
       => MainReady \/ VideoReady

(* The count, with what the threads have not yet added to it or taken from *)
(* it, is of the pictures queued and not displayed; the mutex is taken for *)
(* that only; and a stop reaches the threads in order.                     *)
Conserved ==
  /\ queued = shown + Held
  /\ vpc = "none" => queued = 0 /\ shown = 0
Stopping ==
  /\ pictq_mutex = 0 => vpc = "count_write" \/ mpc = "take_write"
  /\ mpc # "select" => dpc # "none"
  /\ mpc = "join" => stop = 1
  /\ dpc \in {"unblock", "join"} => videoq_abort = video_st

(* The most steps a thread has left in a stop.                             *)
DecodeLeft == [none |-> 0, done |-> 0, join |-> 1, unblock |-> 2, run |-> 3,
               open |-> 4][dpc]
VideoLeft == [none |-> 0, done |-> 0, decode |-> 1, slot |-> 1,
              alloc_wait |-> 1, space |-> 2, count_write |-> 2, count |-> 3,
              convert |-> 4, hung |-> 0][vpc]

StopAdvances ==
  [][mpc = "join" =>
       /\ DecodeLeft' <= DecodeLeft
       /\ DecodeThread => DecodeLeft' < DecodeLeft
       /\ videoq_abort = 1 => /\ VideoLeft' <= VideoLeft
                              /\ VideoThread => VideoLeft' < VideoLeft]_vars

LEMMA ConservedInit == Init => Conserved /\ Stopping
BY DEF Init, Conserved, Stopping, Held, VPend, MPend

(* No step loses a picture from the count, or adds one to it.              *)
LEMMA ConservedStep ==
  ASSUME IInv, Conserved, [Next]_vars
  PROVE  Conserved'
<1> USE DEF Conserved, Held, VPend, MPend
<1>1. /\ pictq_size \in Int /\ queued \in Int /\ shown \in Int
      /\ vtmp \in Int /\ mtmp \in Int
      /\ vpc = "count_write" => vtmp = pictq_size
      /\ mpc = "take_write" => mtmp = pictq_size
  BY DEF IInv, TypeOK, Mutex
<1>2. CASE Convert
  BY <1>1, <1>2 DEF Convert, main
<1>3. CASE CountEnter \/ CountWrite
  BY <1>1, <1>3 DEF CountEnter, CountWrite, slots, main, history
<1>4. CASE Display
  <2>1. vpc # "none"
    BY <1>4 DEF Display, IInv, TypeOK, Space
  <2> QED
    BY <1>1, <1>4, <2>1 DEF Display, video
<1>5. CASE TakeEnter \/ TakeWrite
  BY <1>1, <1>5 DEF TakeEnter, TakeWrite, video, history
<1>6. CASE OpenStream
  BY <1>1, <1>6 DEF OpenStream
<1>7. CASE DecodeFrame \/ EndOfVideo \/ LeaveSpaceWait \/ AbortAtSlot
           \/ RequestAlloc \/ UseSlot \/ LeaveAllocWait \/ NoBitmap
           \/ Overrun
  BY <1>1, <1>7 DEF DecodeFrame, EndOfVideo, LeaveSpaceWait, AbortAtSlot,
     RequestAlloc, UseSlot, LeaveAllocWait, NoBitmap, Overrun, queue, main, history
<1>8. CASE AllocStart \/ AllocFrame \/ AllocBuffer \/ AllocDims \/ AllocDone
           \/ AllocClear \/ Refresh \/ StopStream \/ FreeStream
  BY <1>1, <1>8 DEF AllocStart, AllocFrame, AllocBuffer, AllocDims,
     AllocDone, AllocClear, Refresh, StopStream, FreeStream, queue, video, history
<1>9. CASE OpenVideo \/ OpenNoVideo \/ AbortVideo \/ Unblock \/ CloseVideo
  BY <1>1, <1>9 DEF OpenVideo, OpenNoVideo, AbortVideo, Unblock, CloseVideo,
     IInv, Stages, queue, video, main, history
<1>10. CASE Stutter
  BY <1>10 DEF Stutter, vars, queue, video, main, history
<1> QED
  BY <1>2, <1>3, <1>4, <1>5, <1>6, <1>7, <1>8, <1>9, <1>10, NextCases

(* Every step keeps the order of the stop, and the use of the mutex.       *)
LEMMA StoppingStep ==
  ASSUME IInv, Stopping, [Next]_vars
  PROVE  Stopping'
<1> USE DEF Stopping, IInv, TypeOK, Stages
<1>1. CASE Convert
  BY <1>1 DEF Convert, main, stream
<1>2. CASE CountEnter \/ CountWrite
  BY <1>2 DEF CountEnter, CountWrite, WaitSema, SignalSema, main, stream
<1>3. CASE Display
  BY <1>3 DEF Display, video, stream
<1>4. CASE TakeEnter \/ TakeWrite
  BY <1>4 DEF TakeEnter, TakeWrite, WaitSema, SignalSema, video, stream
<1>5. CASE OpenStream
  BY <1>5 DEF OpenStream
<1>6. CASE DecodeFrame \/ EndOfVideo \/ LeaveSpaceWait \/ AbortAtSlot
           \/ RequestAlloc \/ UseSlot \/ LeaveAllocWait \/ NoBitmap
           \/ Overrun
  BY <1>6 DEF DecodeFrame, EndOfVideo, LeaveSpaceWait, AbortAtSlot,
     RequestAlloc, UseSlot, LeaveAllocWait, NoBitmap, Overrun, queue, main, stream
<1>7. CASE AllocStart \/ AllocFrame \/ AllocBuffer \/ AllocDims \/ AllocDone
           \/ AllocClear \/ Refresh \/ StopStream \/ FreeStream
  BY <1>7 DEF AllocStart, AllocFrame, AllocBuffer, AllocDims,
     AllocDone, AllocClear, Refresh, StopStream, FreeStream, queue, video, stream
<1>8. CASE OpenVideo \/ OpenNoVideo \/ AbortVideo \/ Unblock \/ CloseVideo
  BY <1>8 DEF OpenVideo, OpenNoVideo, AbortVideo, Unblock, CloseVideo,
     VideoEnded, queue, video, main, stream
<1>9. CASE Stutter
  BY <1>9 DEF Stutter, vars, queue, video, main, stream
<1> QED
  BY <1>1, <1>2, <1>3, <1>4, <1>5, <1>6, <1>7, <1>8, <1>9, NextCases

(* The pictures queued and not yet displayed are those that the count and  *)
(* the two threads about to change it speak of: none is lost.              *)
THEOREM NoneLost == Spec => []Conserved
BY ConservedInit, ConservedStep, Invariance, PTL DEF Spec

LEMMA StopsInOrder == Spec => []Stopping
BY ConservedInit, StoppingStep, Invariance, PTL DEF Spec

(* No thread waits for one that waits: who holds the mutex waits for       *)
(* nothing, a queued picture is displayed or its buffer made first, and    *)
(* the abort wakes the Video thread wherever it is.                        *)
THEOREM NeverStuck == Spec => []NoCircularWait
<1>1. ASSUME IInv, Conserved, Stopping PROVE NoCircularWait
  <2>1. pictq_mutex = 1 \/ VideoReady \/ MainReady
    BY <1>1 DEF Stopping, VideoReady, MainReady, IInv, TypeOK
  <2>2. ASSUME videoq_abort = 1, vpc \notin {"none", "done", "hung"}
        PROVE  VideoReady \/ MainReady
    BY <1>1, <2>1, <2>2 DEF VideoReady, MayQueue, AllocAwaited, IInv, TypeOK
  <2>3. ASSUME mpc = "join", vpc # "hung" PROVE MainReady \/ VideoReady \/ DecodeReady
    <3>1. stop = 1 /\ dpc # "none"
      BY <1>1, <2>3 DEF Stopping
    <3>2. CASE dpc \in {"open", "run"}
      BY <3>1, <3>2 DEF DecodeReady
    <3>3. CASE dpc = "unblock"
      BY <2>1, <3>3 DEF DecodeReady
    <3>4. CASE dpc = "join"
      <4>1. vpc \in {"none", "done"} \/ videoq_abort = 1
        BY <1>1, <3>4 DEF Stopping, IInv, TypeOK, Stages
      <4>2. CASE vpc \in {"none", "done"}
        BY <3>4, <4>2 DEF DecodeReady, VideoEnded
      <4> QED
        BY <2>2, <2>3, <4>1, <4>2
    <3>5. CASE dpc = "done"
      BY <2>3, <3>5 DEF MainReady
    <3> QED
      BY <1>1, <3>1, <3>2, <3>3, <3>4, <3>5 DEF IInv, TypeOK
  <2>4. ASSUME stop = 0, mpc # "crashed", vpc # "none",
               pictq_size > 0 \/ need_alloc = 1 \/ vpc \in {"count", "count_write"}
        PROVE  MainReady \/ VideoReady
    <3>1. dpc # "done" /\ mpc \notin {"join", "select"} /\ video_st = 1
      BY <1>1, <2>4 DEF Stopping, IInv, TypeOK, Stages
    <3>2. CASE mpc = "loop"
      BY <2>1, <2>4, <3>1, <3>2 DEF MainReady, VideoReady, HasPicture
    <3>3. CASE mpc # "loop"
      BY <1>1, <2>1, <2>4, <3>1, <3>3 DEF MainReady, IInv, TypeOK
    <3> QED
      BY <3>2, <3>3
  <2>5. ASSUME queued > shown, stop = 0, mpc # "crashed"
        PROVE  MainReady \/ VideoReady
    <3>1. vpc # "none" /\ Held > 0
      BY <1>1, <2>5 DEF Conserved, Held, VPend, MPend, IInv, TypeOK
    <3>2. pictq_size > 0 \/ vpc \in {"count", "count_write"}
      BY <1>1, <3>1 DEF Held, VPend, MPend, IInv, TypeOK
    <3> QED
      BY <2>4, <2>5, <3>1, <3>2
  <2>6. ASSUME NumSlots = 1, streams = 1, "frame" \notin failed, Waits, stop = 0
        PROVE  MainReady \/ VideoReady
    <3>1. need_alloc = 1 /\ mpc # "crashed" /\ vpc # "none"
      BY <1>1, <2>6 DEF IInv, OneSlot, First, Waits
    <3> QED
      BY <2>4, <2>6, <3>1
  <2> QED
    BY <2>3, <2>5, <2>6 DEF NoCircularWait
<1> QED
  BY <1>1, Invariance, NoneLost, StopsInOrder, PTL

(* The counts of steps never go below zero.                                *)
LEMMA LeftNatural ==
  ASSUME IInv PROVE DecodeLeft \in Nat /\ VideoLeft \in Nat
BY DEF IInv, TypeOK, DecodeLeft, VideoLeft

LEMMA DecodeNearer ==
  ASSUME DecodeThread
  PROVE  DecodeLeft' <= DecodeLeft /\ DecodeLeft' < DecodeLeft
BY DEF DecodeLeft, DecodeThread, OpenVideo, OpenNoVideo, AbortVideo, Unblock,
   CloseVideo

LEMMA VideoNearer ==
  ASSUME VideoThread, videoq_abort = 1
  PROVE  VideoLeft' <= VideoLeft /\ VideoLeft' < VideoLeft
<1> USE DEF VideoLeft
<1>1. CASE EndOfVideo \/ LeaveSpaceWait \/ AbortAtSlot \/ LeaveAllocWait
  BY <1>1 DEF EndOfVideo, LeaveSpaceWait, AbortAtSlot, LeaveAllocWait
<1>2. CASE NoBitmap \/ Convert \/ Overrun \/ CountEnter \/ CountWrite
  BY <1>2 DEF NoBitmap, Convert, Overrun, CountEnter, CountWrite
<1>3. ~(DecodeFrame \/ RequestAlloc \/ UseSlot)
  BY DEF DecodeFrame, RequestAlloc, UseSlot
<1> QED
  BY <1>1, <1>2, <1>3 DEF VideoThread

(* While the main thread waits, the Decode thread goes through its close   *)
(* and, once the queue is aborted, the Video thread to its end, without    *)
(* ever going round.                                                       *)
THEOREM StopApproaches == Spec => StopAdvances
<1> DEFINE D == /\ DecodeLeft' <= DecodeLeft
                /\ DecodeThread => DecodeLeft' < DecodeLeft
           V == /\ VideoLeft' <= VideoLeft
                /\ VideoThread => VideoLeft' < VideoLeft
<1>1. ASSUME IInv, [Next]_vars, mpc = "join" PROVE D
  <2>1. CASE DecodeThread
    BY <2>1, DecodeNearer
  <2>2. CASE ~DecodeThread
    <3>1. dpc' = dpc
      BY <1>1, <2>2, NextCases DEF DecodeFrame, EndOfVideo, LeaveSpaceWait,
         AbortAtSlot, RequestAlloc, UseSlot, LeaveAllocWait, NoBitmap,
         Convert, Overrun, CountEnter, CountWrite, OpenStream, AllocStart,
         AllocFrame, AllocBuffer, AllocDims, AllocDone, AllocClear, Refresh, Display,
         TakeEnter, TakeWrite, StopStream, FreeStream, DecodeThread,
         Stutter, vars
    <3> QED
      BY <1>1, <2>2, <3>1, LeftNatural DEF DecodeLeft
  <2> QED
    BY <2>1, <2>2
<1>2. ASSUME IInv, [Next]_vars, mpc = "join", videoq_abort = 1 PROVE V
  <2>1. CASE VideoThread
    BY <1>2, <2>1, VideoNearer
  <2>2. CASE ~VideoThread
    <3>1. vpc' = vpc
      BY <1>2, <2>2, NextCases DEF OpenStream, AllocStart, AllocFrame,
         AllocBuffer, AllocDims, AllocDone, AllocClear, Refresh, Display, TakeEnter,
         TakeWrite, StopStream, FreeStream, OpenVideo, OpenNoVideo,
         AbortVideo, Unblock, CloseVideo, VideoThread, Stutter, vars, video,
         IInv, Stages
    <3> QED
      BY <1>2, <2>2, <3>1, LeftNatural DEF VideoLeft
  <2> QED
    BY <2>1, <2>2
<1>3. IInv /\ [Next]_vars
        => [mpc = "join" => /\ DecodeLeft' <= DecodeLeft
                            /\ DecodeThread => DecodeLeft' < DecodeLeft
                            /\ videoq_abort = 1 => V]_vars
  BY <1>1, <1>2
<1> QED
  BY <1>3, Invariance, PTL DEF Spec, StopAdvances
=============================================================================
