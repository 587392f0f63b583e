--------------------------- MODULE VideoSync_proof ---------------------------
(* Safety of the refresh timer, for every frame rate, every file, however  *)
(* long, every error of the audio clock, and any pauses and seeks.         *)
EXTENDS VideoSync, TLAPS

(* The timer never waits longer than for frame_timer, which takes up every *)
(* delay, unless frame_timer is already due: so a delay is added to        *)
(* frame_timer only when nothing of the earlier ones is left in it.        *)
TimerInStep ==
  /\ frame_timer <= 0 \/ frame_timer <= next_refresh_time
  /\ next_refresh_time <= 2 * Second

(* A picture shown is what allows one more frame to be dropped.            *)
SkipRoom == skipped + Len(pictq) + skip_frames <= NumSlots + 1

IInv == TypeOK /\ TimerInStep /\ SkipRoom

-----------------------------------------------------------------------------
(* The operators of video_refresh_timer.                                   *)

(* The nominal delay never leaves the range that the code takes for        *)
(* correct: it is either within it or the last one.                        *)
LEMMA NominalRange ==
  ASSUME frame_last_pts \in Int, frame_last_delay \in 0 .. Second,
         NEW t \in Int
  PROVE  Nominal(t) \in 0 .. Second
BY VideoSyncAssumption DEF Nominal

(* The correction keeps a delay, drops it or doubles it; a picture that is *)
(* late is never kept longer, one that is early never shorter.             *)
LEMMA CorrectedRange ==
  ASSUME NEW delay \in 0 .. Second, NEW diff \in Int
  PROVE  /\ Corrected(delay, diff) \in {0, delay, 2 * delay}
         /\ diff < 0 => Corrected(delay, diff) <= delay
         /\ diff > 0 => Corrected(delay, diff) >= delay
         /\ Corrected(delay, diff) \in 0 .. 2 * Second
<1> DEFINE threshold == IF delay > Threshold THEN delay ELSE Threshold
<1>1. threshold \in Nat /\ NoSync \in Nat /\ Second \in Nat
  BY VideoSyncAssumption
<1>2. Corrected(delay, diff)
        = IF diff <= -NoSync \/ diff >= NoSync THEN delay
          ELSE IF diff <= -threshold THEN 0
          ELSE IF diff >= threshold THEN 2 * delay
          ELSE delay
  BY DEF Corrected
<1> HIDE DEF threshold
<1>3. Corrected(delay, diff) \in {0, delay, 2 * delay}
  BY <1>2
<1>4. diff < 0 => Corrected(delay, diff) <= delay
  BY <1>1, <1>2
<1>5. diff > 0 => Corrected(delay, diff) >= delay
  BY <1>1, <1>2
<1>6. Corrected(delay, diff) \in 0 .. 2 * Second
  BY <1>1, <1>3
<1> QED
  BY <1>3, <1>4, <1>5, <1>6

(* Moving the clock moves the pictures that wait, and loses none.          *)
LEMMA Shifted ==
  ASSUME NEW q \in Seq(Int), NEW d \in [1 .. Len(q) -> Int]
  PROVE  d \in Seq(Int) /\ Len(d) = Len(q)
OBVIOUS

-----------------------------------------------------------------------------
LEMMA InitCorrect == Init => IInv
BY VideoSyncAssumption DEF Init, IInv, TypeOK, TimerInStep, SkipRoom

LEMMA GetPacketCorrect == ASSUME IInv, GetPacket PROVE IInv'
BY VideoSyncAssumption
DEF GetPacket, IInv, TypeOK, TimerInStep, SkipRoom, timer, last, bounds

LEMMA DropFrameCorrect == ASSUME IInv, DropFrame PROVE IInv'
BY VideoSyncAssumption
DEF DropFrame, IInv, TypeOK, TimerInStep, SkipRoom, timer, last, bounds

LEMMA OutputFrameCorrect == ASSUME IInv, OutputFrame PROVE IInv'
BY DEF OutputFrame, IInv, TypeOK, TimerInStep, SkipRoom, timer, last, bounds

LEMMA QueuePictureCorrect == ASSUME IInv, QueuePicture PROVE IInv'
<1>1. pictq' \in Seq(Int) /\ Len(pictq') = Len(pictq) + 1
  BY DEF QueuePicture, IInv, TypeOK
<1>2. Len(pictq') <= NumSlots
  BY <1>1, VideoSyncAssumption DEF QueuePicture, HasRoom, IInv, TypeOK
<1> QED
  BY <1>1, <1>2, VideoSyncAssumption
  DEF QueuePicture, IInv, TypeOK, TimerInStep, SkipRoom, timer, last, bounds

LEMMA RefreshEmptyCorrect == ASSUME IInv, RefreshEmpty PROVE IInv'
BY VideoSyncAssumption
DEF RefreshEmpty, Due, IInv, TypeOK, TimerInStep, SkipRoom, last, video, bounds

(* frame_timer is not ahead of the present when a delay is added to it.    *)
LEMMA RefreshCorrect == ASSUME IInv, Refresh PROVE IInv'
<1> DEFINE shown == Head(pictq)
<1>1. shown \in Int /\ pictq' \in Seq(Int) /\ Len(pictq') = Len(pictq) - 1
  BY DEF Refresh, IInv, TypeOK
<1>2. PICK error \in ClockErrors :
        /\ frame_last_delay' = Nominal(shown)
        /\ frame_last_pts' = shown
        /\ frame_timer' = frame_timer + Corrected(Nominal(shown), shown + error)
  BY DEF Refresh
<1>3. shown + error \in Int
  BY <1>1, VideoSyncAssumption
<1>4. Nominal(shown) \in 0 .. Second
  BY <1>1, NominalRange DEF IInv, TypeOK
<1>5. Corrected(Nominal(shown), shown + error) \in 0 .. 2 * Second
  BY <1>3, <1>4, CorrectedRange
<1>6. frame_timer \in Int /\ frame_timer <= 0
  BY DEF Refresh, Due, IInv, TypeOK, TimerInStep
<1>7. frame_timer' \in Int /\ frame_timer' <= 2 * Second
  BY <1>2, <1>5, <1>6, VideoSyncAssumption
<1>8. /\ next_refresh_time' \in Int /\ TimerInStep'
      /\ skip_frames' \in {0, 1}
  BY <1>7, VideoSyncAssumption
  DEF Refresh, SetTimer, IInv, TypeOK, TimerInStep
<1>9. SkipRoom' /\ Len(pictq') <= NumSlots
  BY <1>1, <1>8, VideoSyncAssumption
  DEF Refresh, IInv, TypeOK, SkipRoom, bounds
<1>10. TypeOK'
  BY <1>1, <1>2, <1>4, <1>7, <1>8, <1>9
  DEF Refresh, IInv, TypeOK, video, bounds
<1> QED
  BY <1>8, <1>9, <1>10 DEF IInv

LEMMA TogglePauseCorrect == ASSUME IInv, TogglePause PROVE IInv'
BY DEF TogglePause, IInv, TypeOK, TimerInStep, SkipRoom, timer, last, video

LEMMA SeekCorrect ==
  ASSUME IInv, NEW jump \in Int, NEW offset \in Int, Seek(jump, offset)
  PROVE  IInv'
<1>1. pictq' \in [1 .. Len(pictq) -> Int]
  BY DEF Seek, IInv, TypeOK
<1>2. pictq' \in Seq(Int) /\ Len(pictq') = Len(pictq)
  BY <1>1, Shifted DEF IInv, TypeOK
<1> QED
  BY <1>2 DEF Seek, IInv, TypeOK, TimerInStep, SkipRoom, timer

LEMMA TickCorrect == ASSUME IInv, Tick PROVE IInv'
<1>1. \A t \in Int : Before(t) \in Int
  BY DEF Before
<1>2. pictq' = [i \in 1 .. Len(pictq) |-> Before(pictq[i])]
  BY DEF Tick
<1>3. \A i \in 1 .. Len(pictq) : pictq[i] \in Int
  BY DEF IInv, TypeOK
<1>4. pictq' \in [1 .. Len(pictq) -> Int]
  BY <1>1, <1>2, <1>3
<1>5. pictq' \in Seq(Int) /\ Len(pictq') = Len(pictq)
  BY <1>4, Shifted DEF IInv, TypeOK
<1>6. /\ frame_last_pts' \in Int /\ dts' \in Int /\ pts' \in Int
      /\ busy' \in Nat /\ paused_for' \in Nat
  <2>1. /\ frame_last_pts' = Before(frame_last_pts) /\ dts' = Before(dts)
        /\ pts' = IF vpc = "get" THEN 0 ELSE Before(pts)
    BY DEF Tick
  <2>2. /\ busy' = IF busy > 0 THEN busy - 1 ELSE busy
        /\ paused_for' = paused_for + paused
    BY DEF Tick
  <2>3. frame_last_pts' \in Int /\ dts' \in Int /\ pts' \in Int
    BY <1>1, <2>1 DEF IInv, TypeOK
  <2>4. busy' \in Nat /\ paused_for' \in Nat
    BY <2>2 DEF IInv, TypeOK
  <2> QED
    BY <2>3, <2>4
<1>7. /\ next_refresh_time' = next_refresh_time - 1
      /\ frame_timer' = frame_timer - 1
      /\ UNCHANGED <<frame_last_delay, skip_frames, paused, vpc, skipped,
           pauses, seeks>>
  BY DEF Tick
<1>8. TypeOK'
  BY <1>5, <1>6, <1>7 DEF IInv, TypeOK
<1>9. TimerInStep' /\ SkipRoom'
  BY <1>5, <1>7, VideoSyncAssumption
  DEF IInv, TypeOK, TimerInStep, SkipRoom
<1> QED
  BY <1>8, <1>9 DEF IInv

LEMMA StutterCorrect == ASSUME IInv, UNCHANGED vars PROVE IInv'
BY DEF vars, IInv, TypeOK, TimerInStep, SkipRoom, timer, last, video, bounds

-----------------------------------------------------------------------------
(* The invariant holds in every state.                                     *)
THEOREM Invariance == Spec => []IInv
<1>1. ASSUME IInv, NEW l \in Landings, Seek(l[1], l[2]) PROVE IInv'
  BY <1>1, SeekCorrect, VideoSyncAssumption
<1>2. IInv /\ [Next]_vars => IInv'
  BY <1>1, GetPacketCorrect, DropFrameCorrect, OutputFrameCorrect,
     QueuePictureCorrect, RefreshEmptyCorrect, RefreshCorrect,
     TogglePauseCorrect, TickCorrect, StutterCorrect
  DEF Next, VideoThread, RefreshTimer
<1> QED
  BY InitCorrect, <1>2, PTL DEF Spec

(* Types; among them, skip_frames is never more than one, and the nominal  *)
(* delay stays in the range of the correct ones.                           *)
THEOREM TypeCorrect == Spec => []TypeOK
<1>1. IInv => TypeOK
  BY DEF IInv
<1> QED
  BY Invariance, <1>1, PTL

(* Whatever the times in the file, the seeks and the pauses, the screen    *)
(* never stands still for more than two of the longest delays.             *)
THEOREM Near == Spec => []RefreshNear
<1>1. IInv => RefreshNear
  BY DEF IInv, TimerInStep, RefreshNear
<1> QED
  BY Invariance, <1>1, PTL

(* No more frames in a row are dropped than there are slots, and one.      *)
THEOREM Skips == Spec => []SkipsBounded
<1>1. IInv => SkipsBounded
  BY VideoSyncAssumption DEF IInv, TypeOK, SkipRoom, SkipsBounded
<1> QED
  BY Invariance, <1>1, PTL
=============================================================================
