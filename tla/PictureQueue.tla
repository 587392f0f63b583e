---------------------------- MODULE PictureQueue ----------------------------
(***************************************************************************)
(* The picture queue of ffplay.c: the Video thread converts each decoded   *)
(* frame into a slot of pictq, the main thread displays it.  A slot whose  *)
(* buffer is missing or has the wrong dimensions is allocated by the main  *)
(* thread on the request flag need_alloc, a global that outlives the       *)
(* stream; windex, rindex and that flag are written without the mutex.     *)
(*                                                                         *)
(* The Video thread has the higher priority of the two: the main thread    *)
(* runs only while the Video thread sleeps, so what the Video thread does  *)
(* between two sleeps may be one step.  The Decode thread, which has the   *)
(* highest priority, opens and closes the video stream.                    *)
(***************************************************************************)
EXTENDS Integers

CONSTANTS NumSlots,     \* VIDEO_PICTURE_QUEUE_SIZE
          Dims,         \* sizes a decoded frame can have
          Tall,         \* those of more lines than the 272 of a buffer
          NoDims,       \* the width and height of a slot before its allocation
          MaxPictures,  \* bound on the pictures decoded in a stream
          MaxStreams    \* bound on the streams opened one after the other

ASSUME PictureQueueAssumption ==
         /\ NumSlots \in Nat \ {0}
         /\ NoDims \notin Dims
         /\ Tall \subseteq Dims
         /\ MaxPictures \in Nat
         /\ MaxStreams \in Nat

Slot == 0 .. NumSlots - 1
Advance(i) == IF i + 1 = NumSlots THEN 0 ELSE i + 1

VARIABLES
  need_alloc,       \* the global request flag
  \* the VideoState
  stop,             \* abort_request
  video_st,         \* is the video stream open
  videoq_abort,     \* videoq.abort_request
  bmp, buffer, dims, allocated,   \* the slots
  pic,              \* the picture in the buffer of a slot
  windex, rindex, pictq_size, pictq_mutex,
  \* the threads
  vpc, mpc, dpc,    \* Video, main and Decode thread
  frame, frame_dims,\* the decoded picture and codec->width, height
  mslot,            \* the slot alloc_picture works on
  vtmp, mtmp,       \* pictq_size as read by ++ and --
  streams,          \* streams opened so far
  \* auxiliary
  queued, shown,    \* pictures queued and displayed in this stream
  last_shown,       \* the last picture displayed
  failed            \* what could not be allocated in this stream

slots   == <<bmp, buffer, dims, allocated, pic>>
queue   == <<windex, rindex, pictq_size, pictq_mutex>>
stream  == <<stop, video_st, videoq_abort>>
video   == <<vpc, frame, frame_dims, vtmp>>
main    == <<mpc, mslot, mtmp>>
history == <<queued, shown, last_shown, failed>>
vars == <<need_alloc, stream, slots, queue, video, main, dpc, streams, history>>

-----------------------------------------------------------------------------
Init ==
  /\ need_alloc = 0
  /\ stop = 0 /\ video_st = 0 /\ videoq_abort = 0
  /\ bmp = [s \in Slot |-> 0] /\ buffer = [s \in Slot |-> 0]
  /\ dims = [s \in Slot |-> NoDims]
  /\ allocated = [s \in Slot |-> 0] /\ pic = [s \in Slot |-> 0]
  /\ windex = 0 /\ rindex = 0 /\ pictq_size = 0 /\ pictq_mutex = 1
  /\ vpc = "none" /\ frame = 0 /\ frame_dims = NoDims /\ vtmp = 0
  /\ mpc = "select" /\ mslot = 0 /\ mtmp = 0
  /\ dpc = "none"
  /\ streams = 0
  /\ queued = 0 /\ shown = 0 /\ last_shown = 0 /\ failed = {}

WaitSema == pictq_mutex = 1 /\ pictq_mutex' = 0
SignalSema == pictq_mutex' = 1

-----------------------------------------------------------------------------
(* Video thread                                                            *)

(* A packet is got and decoded; the decoder sets the codec's dimensions.   *)
(* There may be no picture yet, or skip_frames drops it.                   *)
DecodeFrame == /\ vpc = "decode" /\ videoq_abort = 0
               /\ frame < MaxPictures
               /\ frame' = frame + 1
               /\ frame_dims' \in Dims
               /\ vpc' \in {"space", "decode"}
               /\ UNCHANGED <<need_alloc, stream, slots, queue, vtmp, main,
                    dpc, streams, history>>

(* packet_queue_get returns -1.                                            *)
EndOfVideo == /\ vpc = "decode" /\ videoq_abort = 1
              /\ vpc' = "done"
              /\ UNCHANGED <<need_alloc, stream, slots, queue, frame,
                   frame_dims, vtmp, main, dpc, streams, history>>

MayQueue_full == pictq_size <= NumSlots \/ videoq_abort = 1
MayQueue == pictq_size < NumSlots \/ videoq_abort = 1

(* The loop that polls for a free slot.                                    *)
LeaveSpaceWait == /\ vpc = "space"
                  /\ pictq_mutex = 1
                  /\ MayQueue
                  /\ vpc' = "slot"
                  /\ UNCHANGED <<need_alloc, stream, slots, queue, frame,
                       frame_dims, vtmp, main, dpc, streams, history>>

Unusable_size == bmp[windex] = 0
Unusable == bmp[windex] = 0 \/ dims[windex] # frame_dims

AbortAtSlot == /\ vpc = "slot" /\ videoq_abort = 1
               /\ vpc' = "done"
               /\ UNCHANGED <<need_alloc, stream, slots, queue, frame,
                    frame_dims, vtmp, main, dpc, streams, history>>

RequestAlloc == /\ vpc = "slot" /\ videoq_abort = 0
                /\ Unusable
                /\ allocated' = [allocated EXCEPT ![windex] = 0]
                /\ need_alloc' = 1
                /\ vpc' = "alloc_wait"
                /\ UNCHANGED <<stream, bmp, buffer, dims, pic, queue,
                     frame, frame_dims, vtmp, main, dpc, streams, history>>

UseSlot == /\ vpc = "slot" /\ videoq_abort = 0
           /\ ~Unusable
           /\ vpc' = "convert"
           /\ UNCHANGED <<need_alloc, stream, slots, queue, frame,
                frame_dims, vtmp, main, dpc, streams, history>>

AllocAwaited_noabort == allocated[windex] = 1
AllocAwaited == allocated[windex] = 1 \/ videoq_abort = 1

(* The loop that polls for the allocation; after an abort need_alloc stays *)
(* set.                                                                    *)
LeaveAllocWait == /\ vpc = "alloc_wait"
                  /\ pictq_mutex = 1
                  /\ AllocAwaited
                  /\ vpc' = IF videoq_abort = 1 THEN "done" ELSE "convert"
                  /\ UNCHANGED <<need_alloc, stream, slots, queue, frame,
                       frame_dims, vtmp, main, dpc, streams, history>>

(* The allocation failed: the picture is dropped.                          *)
NoBitmap == /\ vpc = "convert" /\ bmp[windex] = 0
            /\ vpc' = "decode"
            /\ UNCHANGED <<need_alloc, stream, slots, queue, frame,
                 frame_dims, vtmp, main, dpc, streams, history>>

(* A buffer holds 272 lines, whatever the frame.                           *)
Inside == buffer[windex] = 1 /\ frame_dims \notin Tall

(* me_csc has filled the buffer; windex moves on before the count does.    *)
(* Only bmp is looked at: without a buffer, or with a frame of more lines, *)
(* me_csc has written outside, and the program goes on ...                 *)
Convert == /\ vpc = "convert" /\ bmp[windex] = 1
           /\ pic' = [pic EXCEPT ![windex] = frame]
           /\ windex' = Advance(windex)
           /\ queued' = queued + 1
           /\ vpc' = "count"
           /\ UNCHANGED <<need_alloc, stream, bmp, buffer, dims, allocated,
                rindex, pictq_size, pictq_mutex, frame, frame_dims, vtmp, main,
                dpc, streams, shown, last_shown, failed>>

(* ... or the Media Engine does not answer any more, and the Video thread  *)
(* polls for its end for ever.                                             *)
Overrun == /\ vpc = "convert" /\ bmp[windex] = 1
           /\ ~Inside
           /\ vpc' = "hung"
           /\ UNCHANGED <<need_alloc, stream, slots, queue, frame, frame_dims,
                vtmp, main, dpc, streams, history>>

CountEnter == /\ vpc = "count"
              /\ WaitSema
              /\ vtmp' = pictq_size
              /\ vpc' = "count_write"
              /\ UNCHANGED <<need_alloc, stream, slots, windex, rindex,
                   pictq_size, frame, frame_dims, main, dpc, streams, history>>

CountWrite == /\ vpc = "count_write"
              /\ pictq_size' = vtmp + 1
              /\ SignalSema
              /\ vpc' = "decode"
              /\ UNCHANGED <<need_alloc, stream, slots, windex, rindex, frame,
                   frame_dims, vtmp, main, dpc, streams, history>>

VideoThread == \/ DecodeFrame \/ EndOfVideo \/ LeaveSpaceWait \/ AbortAtSlot
               \/ RequestAlloc \/ UseSlot \/ LeaveAllocWait \/ NoBitmap
               \/ Convert \/ Overrun \/ CountEnter \/ CountWrite

-----------------------------------------------------------------------------
(* Main thread: event_loop                                                 *)

(* stream_open: a cleared VideoState and a new Decode thread.              *)
OpenStream == /\ mpc = "select" /\ streams < MaxStreams
              /\ streams' = streams + 1
              /\ stop' = 0 /\ video_st' = 0 /\ videoq_abort' = 0
              /\ bmp' = [s \in Slot |-> 0] /\ buffer' = [s \in Slot |-> 0]
              /\ dims' = [s \in Slot |-> NoDims]
              /\ allocated' = [s \in Slot |-> 0] /\ pic' = [s \in Slot |-> 0]
              /\ windex' = 0 /\ rindex' = 0 /\ pictq_size' = 0
              /\ pictq_mutex' = 1
              /\ queued' = 0 /\ shown' = 0 /\ last_shown' = 0
              /\ failed' = {}
              /\ frame' = 0 /\ frame_dims' = NoDims
              /\ vpc' = "none" /\ dpc' = "open" /\ mpc' = "loop"
              /\ UNCHANGED <<need_alloc, mslot, vtmp, mtmp>>

(* alloc_picture reads the dimensions of the video stream, which may not   *)
(* be open: video_st is then NULL.                                         *)
AllocStart == /\ mpc = "loop" /\ need_alloc = 1
              /\ mslot' = windex
              /\ mpc' = IF video_st = 1 THEN "alloc" ELSE "crashed"
              /\ UNCHANGED <<need_alloc, stream, slots, queue, video, mtmp,
                   dpc, streams, history>>

(* The old buffer and AVFrame are freed.  There is a new AVFrame, or none  *)
(* when the memory is short; the buffer is asked for only in the former    *)
(* case ...                                                                *)
AllocFrame == /\ mpc = "alloc"
              /\ \E b \in {0, 1} :
                   /\ bmp' = [bmp EXCEPT ![mslot] = b]
                   /\ failed' = IF b = 0 THEN failed \cup {"frame"} ELSE failed
                   /\ mpc' = IF b = 0 THEN "alloc_dims" ELSE "alloc_buffer"
              /\ buffer' = [buffer EXCEPT ![mslot] = 0]
              /\ pic' = [pic EXCEPT ![mslot] = 0]
              /\ UNCHANGED <<need_alloc, stream, dims, allocated, queue, video,
                   mslot, mtmp, dpc, streams, queued, shown, last_shown>>

(* ... and may fail on its own.                                            *)
AllocBuffer == /\ mpc = "alloc_buffer"
               /\ \E b \in {0, 1} :
                    /\ buffer' = [buffer EXCEPT ![mslot] = b]
                    /\ failed' = IF b = 0 THEN failed \cup {"buffer"}
                                          ELSE failed
               /\ pic' = [pic EXCEPT ![mslot] = 0]
               /\ mpc' = "alloc_dims"
               /\ UNCHANGED <<need_alloc, stream, bmp, dims, allocated, queue,
                    video, mslot, mtmp, dpc, streams, queued, shown,
                    last_shown>>

AllocDims == /\ mpc = "alloc_dims"
             /\ dims' = [dims EXCEPT ![mslot] = frame_dims]
             /\ mpc' = "alloc_done"
             /\ UNCHANGED <<need_alloc, stream, bmp, buffer, allocated, pic,
                  queue, video, mslot, mtmp, dpc, streams, history>>

AllocDone == /\ mpc = "alloc_done"
             /\ pictq_mutex = 1
             /\ allocated' = [allocated EXCEPT ![mslot] = 1]
             /\ mpc' = "alloc_clear"
             /\ UNCHANGED <<need_alloc, stream, bmp, buffer, dims, pic, queue,
                  video, mslot, mtmp, dpc, streams, history>>

AllocClear == /\ mpc = "alloc_clear"
              /\ need_alloc' = 0
              /\ mpc' = "loop"
              /\ UNCHANGED <<stream, slots, queue, video, mslot, mtmp, dpc,
                   streams, history>>

HasPicture_any == TRUE
HasPicture_two == pictq_size > 1
HasPicture == pictq_size > 0           \* read without the mutex

(* video_refresh_timer when its time has come: the picture at rindex is    *)
(* displayed, then the index and the count move on.                        *)
Refresh == /\ mpc = "loop" /\ need_alloc = 0
           /\ video_st = 1
           /\ HasPicture
           /\ mpc' = "display"
           /\ UNCHANGED <<need_alloc, stream, slots, queue, video, mslot, mtmp,
                dpc, streams, history>>

Display == /\ mpc = "display"
           /\ last_shown' = pic[rindex]
           /\ shown' = shown + 1
           /\ rindex' = Advance(rindex)
           /\ mpc' = "take"
           /\ UNCHANGED <<need_alloc, stream, slots, windex, pictq_size,
                pictq_mutex, video, mslot, mtmp, dpc, streams, queued,
                failed>>

TakeEnter == /\ mpc = "take"
             /\ WaitSema
             /\ mtmp' = pictq_size
             /\ mpc' = "take_write"
             /\ UNCHANGED <<need_alloc, stream, slots, windex, rindex,
                  pictq_size, video, mslot, dpc, streams, history>>

TakeWrite == /\ mpc = "take_write"
             /\ pictq_size' = mtmp - 1
             /\ SignalSema
             /\ mpc' = "loop"
             /\ UNCHANGED <<need_alloc, stream, slots, windex, rindex, video,
                  mslot, mtmp, dpc, streams, history>>

(* stream_close: ask the Decode thread to end and wait for it.             *)
StopStream == /\ mpc = "loop"
              /\ stop' = 1
              /\ mpc' = "join"
              /\ UNCHANGED <<need_alloc, video_st, videoq_abort, slots, queue,
                   video, mslot, mtmp, dpc, streams, history>>

(* ... then free the pictures and the VideoState.                          *)
FreeStream == /\ mpc = "join" /\ dpc = "done"
              /\ bmp' = [s \in Slot |-> 0] /\ buffer' = [s \in Slot |-> 0]
              /\ pic' = [s \in Slot |-> 0]
              /\ mpc' = "select"
              /\ UNCHANGED <<need_alloc, stream, dims, allocated, queue, video,
                   mslot, mtmp, dpc, streams, history>>

MainThread == \/ OpenStream \/ AllocStart \/ AllocFrame \/ AllocBuffer
              \/ AllocDims \/ AllocDone \/ AllocClear \/ Refresh \/ Display
              \/ TakeEnter \/ TakeWrite \/ StopStream \/ FreeStream

-----------------------------------------------------------------------------
(* Decode thread                                                           *)

(* stream_component_open of the video stream starts the Video thread.      *)
OpenVideo == /\ dpc = "open"
             /\ video_st' = 1
             /\ frame_dims' \in Dims
             /\ vpc' = "decode"
             /\ dpc' = "run"
             /\ UNCHANGED <<need_alloc, stop, videoq_abort, slots, queue, frame,
                  vtmp, main, streams, history>>

(* A file without video.                                                   *)
OpenNoVideo == /\ dpc = "open"
               /\ dpc' = "run"
               /\ UNCHANGED <<need_alloc, stream, slots, queue, video, main,
                    streams, history>>

AbortVideo == /\ dpc = "run" /\ stop = 1
              /\ videoq_abort' = video_st
              /\ dpc' = "unblock"
              /\ UNCHANGED <<need_alloc, stop, video_st, slots, queue, video,
                   main, streams, history>>

(* pictq_mutex is taken and released once.                                 *)
Unblock == /\ dpc = "unblock"
           /\ video_st = 1 => pictq_mutex = 1
           /\ dpc' = "join"
           /\ UNCHANGED <<need_alloc, stream, slots, queue, video, main,
                streams, history>>

VideoEnded == vpc \in {"none", "done"}

CloseVideo == /\ dpc = "join"
              /\ VideoEnded
              /\ video_st' = 0
              /\ dpc' = "done"
              /\ UNCHANGED <<need_alloc, stop, videoq_abort, slots, queue,
                   video, main, streams, history>>

DecodeThread == OpenVideo \/ OpenNoVideo \/ AbortVideo \/ Unblock \/ CloseVideo

(* No file is opened any more, the program has crashed, or a thread hangs. *)
Finished == /\ \/ mpc = "crashed" \/ vpc = "hung"
               \/ mpc = "select" /\ streams = MaxStreams
            /\ UNCHANGED vars

Next == VideoThread \/ MainThread \/ DecodeThread \/ Finished

Spec == Init /\ [][Next]_vars

(* Every thread runs in the end.  The user need not stop the stream: that  *)
(* step of the main thread is not fair.                                    *)
MainRuns == \/ AllocStart \/ AllocFrame \/ AllocBuffer \/ AllocDims
            \/ AllocDone \/ AllocClear \/ Refresh \/ Display \/ TakeEnter
            \/ TakeWrite \/ FreeStream

Fairness == /\ WF_vars(VideoThread) /\ WF_vars(MainRuns)
            /\ WF_vars(DecodeThread)
            /\ SF_vars(LeaveSpaceWait) /\ SF_vars(LeaveAllocWait)
            /\ SF_vars(CountEnter) /\ SF_vars(TakeEnter) /\ SF_vars(AllocDone)
            /\ SF_vars(Unblock)

FairSpec == Spec /\ Fairness

-----------------------------------------------------------------------------
TypeOK ==
  /\ need_alloc \in {0, 1}
  /\ stop \in {0, 1} /\ video_st \in {0, 1} /\ videoq_abort \in {0, 1}
  /\ bmp \in [Slot -> {0, 1}] /\ buffer \in [Slot -> {0, 1}]
  /\ dims \in [Slot -> Dims \cup {NoDims}]
  /\ allocated \in [Slot -> {0, 1}] /\ pic \in [Slot -> 0 .. MaxPictures]
  /\ windex \in Slot /\ rindex \in Slot
  /\ pictq_size \in 0 .. NumSlots /\ pictq_mutex \in {0, 1}
  /\ vpc \in {"none", "decode", "space", "slot", "alloc_wait", "convert",
              "count", "count_write", "done", "hung"}
  /\ mpc \in {"select", "loop", "alloc", "alloc_buffer", "alloc_dims",
              "alloc_done", "alloc_clear", "display", "take", "take_write",
              "join", "crashed"}
  /\ dpc \in {"none", "open", "run", "unblock", "join", "done"}
  /\ frame \in 0 .. MaxPictures /\ frame_dims \in Dims \cup {NoDims}
  /\ mslot \in Slot
  /\ vtmp \in Int /\ mtmp \in Int
  /\ streams \in 0 .. MaxStreams
  /\ queued \in Nat /\ shown \in Nat /\ last_shown \in Nat
  /\ failed \in SUBSET {"frame", "buffer"}

(* The Video thread never writes into the slot that is being displayed,    *)
(* although neither holds the mutex over its use of the slot.              *)
NoTearing ==
  vpc = "convert" /\ mpc = "display" /\ bmp[windex] = 1
    => windex # rindex

(* A frame is converted into a slot made for its dimensions, whose AVFrame *)
(* and buffer the main thread is not replacing.  Nothing is written        *)
(* outside the buffer, except by a frame that is too high for any buffer   *)
(* and after one could not be allocated.  In the first stream: a request   *)
(* that an aborted stream left behind breaks it in the next.               *)
BufferFits ==
  streams = 1 /\ vpc = "convert" /\ bmp[windex] = 1 =>
    /\ dims[windex] = frame_dims
    /\ ~(mpc \in {"alloc", "alloc_buffer"} /\ mslot = windex)
    /\ Inside \/ frame_dims \in Tall \/ "buffer" \in failed

(* While the Video thread waits for a buffer, its request stands: clearing *)
(* need_alloc after allocated was set does not lose the next one.  And the *)
(* main thread serves it while the stream that made it is open: it never   *)
(* meets the request when there is no video stream to read.  In the        *)
(* first stream; the former with one slot, and until there is no frame to  *)
(* be had: after that the Video thread asks again at once, between the two.*)
RequestServed ==
  streams = 1 =>
    /\ NumSlots = 1 /\ "frame" \notin failed
       /\ vpc = "alloc_wait" /\ allocated[windex] = 0 => need_alloc = 1
    /\ mpc # "crashed"

(* Pictures are displayed in the order they were decoded, each once.       *)
DisplayOrder ==
  [][last_shown' # last_shown => last_shown' > last_shown \/ streams' # streams]_vars

(* Stopping ends both threads, whatever the Video thread was waiting for,  *)
(* unless it hangs in a conversion outside its buffer.                     *)
StopTerminates == (mpc = "join") ~> (mpc = "select" \/ vpc = "hung")

(* Every queued picture is displayed, unless the stream is stopped or the  *)
(* main thread has crashed on a request left by an earlier stream.         *)
QueuedIsDisplayed ==
  (queued > shown) ~> (queued = shown \/ stop = 1 \/ mpc = "crashed")
=============================================================================
