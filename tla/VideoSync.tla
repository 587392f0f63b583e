------------------------------ MODULE VideoSync ------------------------------
(***************************************************************************)
(* The refresh timer of ffplay.c in a file with picture and sound: when    *)
(* the event loop displays the next picture, how video_refresh_timer makes *)
(* the picture follow the sound, and the frames that the Video thread      *)
(* drops on its request, skip_frames, a global.                            *)
(*                                                                         *)
(* Every time is a difference, in units of a fraction of 10 ms: pts and    *)
(* clocks of the video are counted from the audio clock, next_refresh_time *)
(* and frame_timer from the present.  So a file may be of any length.  The *)
(* loops that sleep for a millisecond are left when their condition holds. *)
(***************************************************************************)
EXTENDS Integers, Sequences

CONSTANTS
  NumSlots,       \* VIDEO_PICTURE_QUEUE_SIZE
  Gap,            \* time between two frames of the file
  Threshold,      \* AV_SYNC_THRESHOLD
  NoSync,         \* AV_NOSYNC_THRESHOLD
  MinDelay,       \* 10 ms
  Poll,           \* 1 ms: until the next look at an empty queue
  FirstDelay,     \* 40 ms: of stream_open, and of a first frame
  Second,         \* the least delay that is incorrect
  ReadAhead,      \* sound that is read before the queue is full
  DecodeTimes,    \* time to decode a frame
  MaxLate,        \* what may pass from the due time to the refresh
  ClockErrors,    \* of the audio clock, which moves in steps
  Landings,       \* <<jump, offset>>: of the clock at a seek, and where the
                  \* picture is from it after the seek
  MaxPause,       \* bound on the time spent in pauses
  MaxPauses, MaxSeeks   \* bounds on the requests

ASSUME VideoSyncAssumption ==
         /\ NumSlots \in Nat \ {0}
         /\ Gap \in Nat /\ Threshold \in Nat /\ NoSync \in Nat
         /\ MinDelay \in Nat /\ Poll \in Nat
         /\ Second \in Nat /\ MinDelay <= Second /\ Poll <= Second
         /\ FirstDelay \in Nat /\ FirstDelay < Second
         /\ ReadAhead \in Nat /\ MaxLate \in Nat
         /\ DecodeTimes \subseteq Nat /\ ClockErrors \subseteq Int
         /\ Landings \subseteq Int \X Int
         /\ MaxPause \in Nat /\ MaxPauses \in Nat /\ MaxSeeks \in Nat

VARIABLES
  next_refresh_time,   \* from now; need_timer_check is set
  frame_timer,         \* from now
  frame_last_pts, frame_last_delay,
  pictq,               \* pts of the pictures queued
  skip_frames, paused,
  vpc,                 \* Video thread: "get", "decode", "queue"
  busy,                \* time until the frame is decoded
  pts,                 \* of that frame
  dts,                 \* of the next packet
  \* auxiliary
  skipped,             \* frames dropped since a picture was queued
  paused_for, pauses, seeks

timer == <<next_refresh_time, frame_timer>>
last == <<frame_last_pts, frame_last_delay>>
video == <<vpc, busy, pts, dts>>
bounds == <<paused_for, pauses, seeks>>
vars == <<timer, last, pictq, skip_frames, paused, video, skipped, bounds>>

-----------------------------------------------------------------------------
(* The stream has been opened; the timer runs since stream_open.           *)
Init ==
  /\ next_refresh_time \in -MaxLate .. FirstDelay /\ frame_timer = 0
  /\ frame_last_pts = 0 /\ frame_last_delay = FirstDelay
  /\ pictq = <<>>
  /\ skip_frames = 0 /\ paused = 0
  /\ vpc = "get" /\ busy = 0 /\ pts = 0 /\ dts = 0
  /\ skipped = 0
  /\ paused_for = 0 /\ pauses = 0 /\ seeks = 0

-----------------------------------------------------------------------------
(* Video thread.  While the audio queue is full nothing is read.           *)

GetPacket ==
  /\ vpc = "get" /\ paused = 0 /\ dts <= ReadAhead
  /\ busy' \in DecodeTimes
  /\ pts' = dts /\ dts' = dts + Gap
  /\ vpc' = "decode"
  /\ UNCHANGED <<timer, last, pictq, skip_frames, paused, skipped, bounds>>

DropFrame ==
  /\ vpc = "decode" /\ busy = 0 /\ skip_frames > 0
  /\ skip_frames' = skip_frames - 1
  /\ skipped' = skipped + 1
  /\ vpc' = "get" /\ pts' = 0
  /\ UNCHANGED <<timer, last, pictq, paused, busy, dts, bounds>>

OutputFrame ==
  /\ vpc = "decode" /\ busy = 0 /\ skip_frames = 0
  /\ vpc' = "queue"
  /\ UNCHANGED <<timer, last, pictq, skip_frames, paused, busy, pts, dts,
       skipped, bounds>>

HasRoom == Len(pictq) < NumSlots

QueuePicture ==
  /\ vpc = "queue"
  /\ HasRoom
  /\ pictq' = Append(pictq, pts)
  /\ skipped' = 0
  /\ vpc' = "get" /\ pts' = 0
  /\ UNCHANGED <<timer, last, skip_frames, paused, busy, dts, bounds>>

-----------------------------------------------------------------------------
(* Main thread: video_refresh_timer                                        *)

Due == next_refresh_time <= 0

RefreshEmpty ==
  /\ Due /\ pictq = <<>>
  /\ next_refresh_time' = Poll
  /\ UNCHANGED <<frame_timer, last, pictq, skip_frames, paused, video, skipped,
       bounds>>

(* The nominal delay of a picture: a delay that cannot be right is         *)
(* replaced by the last one.                                               *)
Nominal_any(t) == t - frame_last_pts
Nominal(t) == LET delay == t - frame_last_pts
              IN IF delay > 0 /\ delay < Second THEN delay
                                                ELSE frame_last_delay

(* A picture that is late is followed at once, one that is early is shown  *)
(* for twice its time.                                                     *)
Corrected_late(delay, diff) ==
  IF diff > -NoSync /\ diff <= -Threshold /\ diff <= -delay THEN 0 ELSE delay
Corrected(delay, diff) ==
  LET threshold == IF delay > Threshold THEN delay ELSE Threshold
  IN IF diff <= -NoSync \/ diff >= NoSync THEN delay
     ELSE IF diff <= -threshold THEN 0
     ELSE IF diff >= threshold THEN 2 * delay
     ELSE delay

(* The timer is set to frame_timer, which takes up every delay; when it is *)
(* behind, the next frame that is decoded is dropped.                      *)
SetTimer_two ==
  IF frame_timer' < MinDelay THEN skip_frames' = 2
                                  /\ next_refresh_time' = MinDelay
                             ELSE UNCHANGED skip_frames
                                  /\ next_refresh_time' = frame_timer'
SetTimer ==
  IF frame_timer' < MinDelay THEN skip_frames' = 1
                                  /\ next_refresh_time' = MinDelay
                             ELSE UNCHANGED skip_frames
                                  /\ next_refresh_time' = frame_timer'

Refresh ==
  /\ Due /\ pictq # <<>>
  /\ LET shown == Head(pictq)
     IN \E error \in ClockErrors :
          /\ frame_last_delay' = Nominal(shown)
          /\ frame_last_pts' = shown
          /\ frame_timer'
               = frame_timer + Corrected(Nominal(shown), shown + error)
  /\ SetTimer
  /\ pictq' = Tail(pictq)
  /\ UNCHANGED <<paused, video, skipped, bounds>>

(* stream_pause                                                            *)
TogglePause ==
  /\ paused = 0 => pauses < MaxPauses
  /\ paused' = 1 - paused
  /\ pauses' = IF paused = 0 THEN pauses + 1 ELSE pauses
  /\ UNCHANGED <<timer, last, pictq, skip_frames, video, skipped, paused_for,
       seeks>>

(* A seek, as the clocks see it: that of the sound jumps, and the next     *)
(* packets of the video are near it.                                       *)
Seek(jump, offset) ==
  /\ seeks < MaxSeeks
  /\ seeks' = seeks + 1
  /\ frame_last_pts' = frame_last_pts + jump
  /\ pictq' = [i \in 1 .. Len(pictq) |-> pictq[i] + jump]
  /\ pts' = IF vpc = "get" THEN 0 ELSE pts + jump
  /\ dts' = offset
  /\ UNCHANGED <<timer, frame_last_delay, skip_frames, paused, vpc, busy,
       skipped, paused_for, pauses>>

-----------------------------------------------------------------------------
(* The threads do not let the time pass when they have something to do,    *)
(* but the event loop may be late.  The sound stops in a pause.            *)
VideoWaits == \/ vpc = "get" /\ (paused = 1 \/ dts > ReadAhead)
              \/ vpc = "decode" /\ busy > 0
              \/ vpc = "queue" /\ ~HasRoom

Before(t) == IF paused = 1 THEN t ELSE t - 1

Tick ==
  /\ next_refresh_time > -MaxLate
  /\ VideoWaits
  /\ paused = 1 => paused_for < MaxPause
  /\ next_refresh_time' = next_refresh_time - 1
  /\ frame_timer' = frame_timer - 1
  /\ frame_last_pts' = Before(frame_last_pts)
  /\ pictq' = [i \in 1 .. Len(pictq) |-> Before(pictq[i])]
  /\ pts' = IF vpc = "get" THEN 0 ELSE Before(pts)
  /\ dts' = Before(dts)
  /\ busy' = IF busy > 0 THEN busy - 1 ELSE busy
  /\ paused_for' = paused_for + paused
  /\ UNCHANGED <<frame_last_delay, skip_frames, paused, vpc, skipped, pauses,
       seeks>>

VideoThread == GetPacket \/ DropFrame \/ OutputFrame \/ QueuePicture
RefreshTimer == RefreshEmpty \/ Refresh

Next == \/ VideoThread \/ RefreshTimer \/ TogglePause
        \/ \E l \in Landings : Seek(l[1], l[2])
        \/ Tick

Spec == Init /\ [][Next]_vars

(* Time passes, and both threads run.                                      *)
FairSpec == /\ Spec
            /\ WF_vars(Tick) /\ WF_vars(VideoThread) /\ WF_vars(RefreshTimer)

-----------------------------------------------------------------------------
TypeOK ==
  /\ next_refresh_time \in Int /\ frame_timer \in Int
  /\ frame_last_pts \in Int /\ frame_last_delay \in 0 .. Second
  /\ pictq \in Seq(Int) /\ Len(pictq) <= NumSlots
  /\ skip_frames \in {0, 1} /\ paused \in {0, 1}
  /\ vpc \in {"get", "decode", "queue"} /\ busy \in Nat
  /\ pts \in Int /\ dts \in Int
  /\ skipped \in Nat
  /\ paused_for \in Nat /\ pauses \in Nat /\ seeks \in Nat

(* The screen never stands still for more than two of the longest delays   *)
(* that the code takes for correct, whatever the times in the file, the    *)
(* seeks and the pauses: the times of the refreshes add up in frame_timer, *)
(* and an excess there would be waited for.                                *)
RefreshNear == next_refresh_time <= 2 * Second

(* Frames are dropped one by one: main and Video thread share skip_frames, *)
(* and between two pictures shown it may be set again, but no more often   *)
(* than there are pictures in the queue.                                   *)
SkipsBounded == skipped <= NumSlots + 1

(* Whatever pauses, seeks and slow frames there were, once they are over   *)
(* the picture comes back to the sound and stays within four frames of it. *)
InSync == frame_last_pts \in -4 * Gap .. 4 * Gap

SyncRestored == <>[](paused = 1 \/ InSync)
=============================================================================
