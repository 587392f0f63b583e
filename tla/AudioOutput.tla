----------------------------- MODULE AudioOutput -----------------------------
(***************************************************************************)
(* The way of the sound in ffplay.c, from the packets of the audio queue   *)
(* to the buffer of the audio driver, which calls sdl_audio_callback to    *)
(* have it filled: audio_decode_frame decodes a frame, the resampler       *)
(* brings it to 44100 Hz when the file's rate is lower, and the callback   *)
(* copies from audio_buf as much as the driver asks for.  The main thread  *)
(* pauses, the Decode thread queues packets and aborts the queue.          *)
(*                                                                         *)
(* Sizes count 16-bit words, of which the code counts the bytes.  The      *)
(* words that audio_buf is given are numbered through the whole file.      *)
(* synchronize_audio returns its size as it is, because the audio clock is *)
(* the master, and is left out.                                            *)
(***************************************************************************)
EXTENDS Resampler, Sequences

CONSTANTS Length,        \* samples of each channel the driver asks for
          HwSize,        \* audio_hw_buf_size
          BufSize,       \* the size of audio_buf
          Channels,      \* numbers of channels a file may have
          MaxPackets,    \* bound on the packets of the file
          PacketFrames,  \* bound on the frames of a packet
          MaxCallbacks   \* bound on the calls of the driver

ASSUME AudioOutputAssumption ==
         /\ Length \in Nat \ {0}
         /\ HwSize \in Nat
         /\ Channels \subseteq Nat \ {0}
         /\ BufSize \in Nat
         /\ \A c \in Channels : /\ Length * c <= BufSize
                                /\ \A n \in FrameSizes : n * c <= BufSize
         /\ MaxPackets \in Nat /\ PacketFrames \in Nat /\ MaxCallbacks \in Nat

VARIABLES
  audio_st,            \* is the audio stream open
  channels,            \* of the file
  audio_resample,      \* is its rate below 44100 Hz
  paused, abort,       \* is->paused, audioq.abort_request
  audioq,              \* packets in the audio queue
  pkt_frames,          \* frames left in the current packet
  audio_clock,         \* in words of the file
  audio_buf_size, audio_buf_index,
  audio_size,          \* words of a frame that audio_buf is to get, or 0
  pc,                  \* the driver's thread in sdl_audio_callback
  len,                 \* words of audio_buf that are still needed
  out,                 \* what was written from the driver's buffer on
  pts,                 \* the clock the main thread has read last, counted
                       \* from what was played then
  \* auxiliary
  packets, callbacks,  \* packets queued and calls of the driver so far
  sound,               \* is it a frame that audio_buf holds, or silence
  decoded,             \* words that audio_buf was given
  played,              \* words of them that were copied
  lost                 \* words of the file that could not be decoded

file == <<audio_st, channels, audio_resample>>
requests == <<paused, abort, pts>>
packet == <<audioq, packets, pkt_frames, audio_clock, lost>>
contents == <<audio_buf_size, audio_buf_index, sound, decoded>>
buffer == <<contents, audio_size>>
driver == <<len, out, played>>
avars == <<file, requests, packet, buffer, driver, pc, callbacks>>
vars == <<avars, rvars>>

Silence == -1

-----------------------------------------------------------------------------
Init ==
  /\ ResampleInit
  /\ channels \in Channels /\ audio_resample \in {0, 1}
  /\ filter_channels = IF channels = 1 THEN 1 ELSE 2
  /\ audio_st = 0
  /\ paused = 0 /\ abort = 0
  /\ audioq = 0 /\ packets = 0 /\ pkt_frames = 0 /\ audio_clock = 0 /\ lost = 0
  /\ audio_buf_size = 0 /\ audio_buf_index = 0 /\ sound = 0 /\ decoded = 0
  /\ audio_size = 0 /\ pts = 0
  /\ pc = "idle" /\ callbacks = 0
  /\ len = 0 /\ out = <<>> /\ played = 0

(* The callback is installed before the stream is there.                   *)
OpenAudio ==
  /\ audio_st = 0
  /\ audio_st' = 1
  /\ audio_buf_size' = 0 /\ audio_buf_index' = 0
  /\ UNCHANGED <<channels, audio_resample, requests, packet, sound, decoded,
       audio_size, driver, pc, callbacks, rvars>>

PutPacket ==
  /\ audio_st = 1 /\ abort = 0
  /\ packets < MaxPackets
  /\ audioq' = audioq + 1 /\ packets' = packets + 1
  /\ UNCHANGED <<file, requests, pkt_frames, audio_clock, lost, buffer, driver,
       pc, callbacks, rvars>>

TogglePause ==
  /\ paused' = 1 - paused
  /\ UNCHANGED <<file, abort, pts, packet, buffer, driver, pc, callbacks,
       rvars>>

AbortQueue ==
  /\ audio_st = 1 /\ abort = 0
  /\ abort' = 1
  /\ UNCHANGED <<file, paused, pts, packet, buffer, driver, pc, callbacks,
       rvars>>

-----------------------------------------------------------------------------
(* The driver's thread: sdl_audio_callback                                 *)

(* A sample of each channel, or two when the resampler made it stereo.     *)
Needed == IF audio_resample = 1 THEN Length * 2 ELSE Length * channels

CallbackStart ==
  /\ pc = "idle" /\ callbacks < MaxCallbacks
  /\ callbacks' = callbacks + 1
  /\ IF audio_st = 1
       THEN out' = <<>> /\ len' = Needed /\ pc' = "loop"
       ELSE out' = [i \in 1 .. 2 * Length |-> Silence] /\ UNCHANGED <<len, pc>>
  /\ UNCHANGED <<file, requests, packet, buffer, played, rvars>>

BufferUsed_early == audio_buf_index + 1 >= audio_buf_size
BufferUsed == audio_buf_index >= audio_buf_size

EnterLoop ==
  /\ pc = "loop" /\ len > 0
  /\ pc' = IF BufferUsed THEN "decode" ELSE "copy"
  /\ UNCHANGED <<file, requests, packet, buffer, driver, callbacks, rvars>>

(* What is counted of a frame of n samples.                                *)
Words(n) == n * channels

(* audio_decode_frame while there is something left of the packet: an      *)
(* error skips all of it, a part of the packet may decode to nothing.  It  *)
(* is used up then: a decoder that reports neither an error nor a byte     *)
(* taken nor a frame would keep the loop going, and is not modelled.       *)
DecodeError ==
  /\ pc = "decode" /\ pkt_frames > 0
  /\ \E n \in FrameSizes : lost' = lost + pkt_frames * Words(n)
  /\ pkt_frames' = 0
  /\ UNCHANGED <<file, requests, audioq, packets, audio_clock, buffer, driver,
       pc, callbacks, rvars>>

DecodeNothing ==
  /\ pc = "decode" /\ pkt_frames > 0
  /\ pkt_frames' = pkt_frames - 1
  /\ UNCHANGED <<file, requests, audioq, packets, audio_clock, lost, buffer,
       driver, pc, callbacks, rvars>>

(* A frame of so many words is there.                                     *)
Decoded(size) ==
  /\ audio_size' = size
  /\ pc' = "size"
  /\ UNCHANGED contents

DecodeFrame(n) ==
  /\ pc = "decode" /\ pkt_frames > 0
  /\ pkt_frames' = pkt_frames - 1
  /\ audio_clock' = audio_clock + Words(n)
  /\ UNCHANGED <<file, requests, audioq, packets, lost, driver, callbacks>>

DecodePlain(n) ==
  /\ audio_resample = 0
  /\ DecodeFrame(n)
  /\ Decoded(Words(n))
  /\ UNCHANGED rvars

(* audio_resample_init returns no context for more than two channels.      *)
DecodeToResample(n) ==
  /\ audio_resample = 1
  /\ DecodeFrame(n)
  /\ IF channels > 2 THEN pc' = "crashed" /\ UNCHANGED rvars
                     ELSE pc' = "resample" /\ ResampleStart(n)
  /\ UNCHANGED buffer

Resample ==
  /\ pc = "resample"
  /\ ResampleStep
  /\ UNCHANGED avars

Resampled ==
  /\ pc = "resample"
  /\ ResampleReturn
  /\ Decoded(2 * dst_index)
  /\ UNCHANGED <<file, requests, packet, driver, callbacks>>

(* The packet is used up.                                                  *)
NeedPacket ==
  /\ pc = "decode" /\ pkt_frames = 0
  /\ paused = 0 /\ abort = 0
  /\ pc' = "get"
  /\ UNCHANGED <<file, requests, packet, buffer, driver, callbacks, rvars>>

(* The clock is set to the packet's time if it has one.                    *)
Position ==
  (IF audio_resample = 1 THEN fed * channels ELSE decoded) + lost

GetPacket ==
  /\ pc = "get" /\ abort = 0 /\ audioq > 0
  /\ audioq' = audioq - 1
  /\ pkt_frames' \in 1 .. PacketFrames
  /\ audio_clock' \in {audio_clock, Position}
  /\ pc' = "decode"
  /\ UNCHANGED <<file, requests, packets, lost, buffer, driver, callbacks,
       rvars>>

(* audio_decode_frame returns -1: the rest of the driver's buffer is       *)
(* silence.                                                                *)
Silent == /\ audio_buf_size' = len
          /\ sound' = 0
          /\ pc' = "index"
          /\ UNCHANGED <<audio_buf_index, decoded, audio_size>>

OutputSilence_noabort ==
  /\ pc = "decode" /\ pkt_frames = 0 /\ paused = 1
  /\ Silent
  /\ UNCHANGED <<file, requests, packet, driver, callbacks, rvars>>
OutputSilence ==
  /\ \/ pc = "decode" /\ pkt_frames = 0 /\ (paused = 1 \/ abort = 1)
     \/ pc = "get" /\ abort = 1
  /\ Silent
  /\ UNCHANGED <<file, requests, packet, driver, callbacks, rvars>>

SetSize ==
  /\ pc = "size"
  /\ audio_buf_size' = audio_size
  /\ audio_size' = 0
  /\ sound' = 1
  /\ pc' = "index"
  /\ UNCHANGED <<file, requests, packet, audio_buf_index, decoded, driver,
       callbacks, rvars>>

(* audio_buf has new contents, from its first word.                        *)
ResetIndex ==
  /\ pc = "index"
  /\ audio_buf_index' = 0
  /\ decoded' = IF sound = 1 THEN decoded + audio_buf_size ELSE decoded
  /\ pc' = "copy"
  /\ UNCHANGED <<file, requests, packet, audio_buf_size, sound, audio_size,
       driver, callbacks, rvars>>

(* The words of audio_buf that go to the driver, a single channel's twice. *)
Chunk_full == audio_buf_size - audio_buf_index
Chunk == LET left == audio_buf_size - audio_buf_index
         IN IF left > len THEN len ELSE left
Word(i) == IF sound = 1 THEN decoded - audio_buf_size + audio_buf_index + i
                        ELSE Silence
Doubled == audio_resample = 0 /\ channels = 1

Copy ==
  /\ pc = "copy"
  /\ out' = out \o IF Doubled
                     THEN [i \in 1 .. 2 * Chunk |-> Word((i - 1) \div 2)]
                     ELSE [i \in 1 .. Chunk |-> Word(i - 1)]
  /\ len' = len - Chunk
  /\ audio_buf_index' = audio_buf_index + Chunk
  /\ played' = IF sound = 1 THEN played + Chunk ELSE played
  /\ pc' = "loop"
  /\ UNCHANGED <<file, requests, packet, audio_buf_size, sound, decoded,
       audio_size, callbacks, rvars>>

CallbackReturn ==
  /\ pc = "loop" /\ len <= 0
  /\ pc' = "idle"
  /\ UNCHANGED <<file, requests, packet, buffer, driver, callbacks, rvars>>

Callback ==
  \/ EnterLoop \/ DecodeError \/ DecodeNothing
  \/ \E n \in FrameSizes : DecodePlain(n) \/ DecodeToResample(n)
  \/ Resample \/ Resampled
  \/ NeedPacket \/ GetPacket
  \/ OutputSilence \/ SetSize \/ ResetIndex
  \/ Copy \/ CallbackReturn

-----------------------------------------------------------------------------
(* The first half of get_audio_clock, in the main thread: the callback may *)
(* come before it reads the index.  Only of the files that ClockNear is    *)
(* about; it changes nothing for the others.                               *)
ReadClock ==
  /\ audio_st = 1 /\ audio_resample = 0
  /\ pts' = audio_clock - played
  /\ UNCHANGED <<file, paused, abort, packet, buffer, driver, pc, callbacks,
       rvars>>

Next == \/ OpenAudio \/ PutPacket \/ TogglePause \/ AbortQueue \/ ReadClock
        \/ CallbackStart \/ Callback

Spec == Init /\ [][Next]_vars

(* The driver's thread runs; the driver calls as often as it likes.        *)
FairSpec == Spec /\ WF_vars(Callback)

-----------------------------------------------------------------------------
TypeOK ==
  /\ ResamplerOK
  /\ audio_st \in {0, 1} /\ channels \in Channels /\ audio_resample \in {0, 1}
  /\ paused \in {0, 1} /\ abort \in {0, 1}
  /\ audioq \in Nat /\ packets \in Nat /\ pkt_frames \in Nat
  /\ audio_clock \in Nat /\ lost \in Nat
  /\ audio_buf_size \in Nat /\ audio_buf_index \in Nat
  /\ pc # "index" => audio_buf_index <= audio_buf_size
  /\ audio_size \in Nat /\ pts \in Int
  /\ sound \in {0, 1} /\ decoded \in Nat /\ played \in Nat
  /\ pc \in {"idle", "loop", "decode", "resample", "size", "index", "get",
       "copy", "crashed"}
  /\ len \in Nat /\ callbacks \in Nat
  /\ out \in Seq(Int)

(* The driver's buffer is filled to the last word and never beyond it,     *)
(* whatever the frames, the pauses and the rates: for one channel and two. *)
DriverFilled ==
  channels <= 2 =>
    /\ Len(out) <= 2 * Length
    /\ pc = "idle" /\ callbacks > 0 => Len(out) = 2 * Length

(* No word is lost or played twice, across frames that do not fit the      *)
(* driver's buffer, silences, errors and pauses in the middle of a packet: *)
(* what audio_buf was given is what was copied and what is left.           *)
Left == IF sound = 1 /\ pc # "index" THEN audio_buf_size - audio_buf_index
                                     ELSE 0
NothingLost == decoded = played + Left

(* Every sample reaches both ears: the resampler makes as many for one as  *)
(* for the other, a single channel is doubled, and of two the left stays   *)
(* left, silence or not.                                                   *)
EarsAligned ==
  /\ ChannelsInStep
  /\ channels <= 2 =>
       \A k \in 1 .. Len(out) \div 2 :
         LET left == out[2 * k - 1]  right == out[2 * k]
         IN IF \/ left = Silence \/ right = Silence
               \/ audio_resample = 0 /\ channels = 1
              THEN left = right
              ELSE left % 2 = 0 /\ right = left + 1

(* get_audio_clock, in words of the file, from the clock it has read.      *)
AudioClock_end(clock) == clock - HwSize
AudioClock(clock) == clock - (HwSize - audio_buf_index)

(* A frame that is counted in audio_clock but not yet in audio_buf.        *)
InHand == CASE pc = "size" -> audio_size
            [] pc = "index" /\ sound = 1 -> audio_buf_size
            [] OTHER -> 0

(* The clock the video follows is ahead of what was played by what the     *)
(* buffers hold and by frames that could not be decoded.  The callback     *)
(* writes audio_clock and audio_buf_index in different steps, and without  *)
(* a lock: in between the clock counts a frame as decoded and the old one  *)
(* as not yet played.  When the callback comes between the two reads, the  *)
(* clock is not behind what was played at the first of them, nor ahead by  *)
(* more than audio_buf holds twice.                                        *)
(* For files that are not resampled: audio_buf_index counts words of       *)
(* 44100 Hz, the rest of the clock those of the file.                      *)
ClockNear ==
  audio_resample = 0 /\ audio_st = 1 =>
    /\ LET ahead == AudioClock(audio_clock) - played + HwSize
           held == audio_buf_index + Left + InHand
       IN ahead \in held .. held + lost
    /\ AudioClock(pts) + HwSize \in 0 .. 2 * BufSize + lost

(* The callback returns, unless it waits for a packet, and then it does    *)
(* when the queue is aborted.                                              *)
CallbackEnds ==
  /\ (pc = "loop") ~> (pc \in {"idle", "get", "crashed"})
  /\ (pc = "get" /\ abort = 1) ~> (pc \in {"idle", "crashed"})
=============================================================================
