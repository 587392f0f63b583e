----------------------------- MODULE StreamSeek -----------------------------
(***************************************************************************)
(* Seeking in ffplay.c: the Decode thread moves the file position, empties *)
(* the packet queues and flushes the video decoder, while the Video thread *)
(* and the audio callback go on taking packets and decoding them, each     *)
(* decoder under its own semaphore.  The stream is open; the Decode thread *)
(* closes it at the end.                                                   *)
(*                                                                         *)
(* A packet is the file position it was read after: the number of seeks    *)
(* done before.  The packet queues are FIFOs whose operations are one step *)
(* each, which is what PacketQueue shows of them.                          *)
(*                                                                         *)
(* Operators whose name ends in a word after an underscore are mutants of  *)
(* the definition below them.                                              *)
(***************************************************************************)
EXTENDS Integers, Sequences

CONSTANTS MaxSeeks,     \* bound on the seeks that succeed
          MaxQueue,     \* MAX_AUDIOQ_SIZE and MAX_VIDEOQ_SIZE, in packets
          MaxFrames     \* frames in an audio packet

ASSUME StreamSeekAssumption ==
         MaxSeeks \in Nat /\ MaxQueue \in Nat /\ MaxFrames \in Nat \ {0}

(* What a file contains, of what the player plays.                         *)
Streams == {{"audio"}, {"video"}, {"audio", "video"}}

Flushed == -1           \* no packet since the decoder was opened or flushed

VARIABLES
  stop, seek_req, paused,                    \* written by the event loop
  has,                                       \* the streams of the file
  position, eof,                             \* of the file
  videoq, audioq, v_abort, a_abort,          \* the packet queues
  video_decoder_mutex, audio_decoder_mutex,
  callback,                                  \* is the callback installed
  audio_st,                                  \* is the audio stream open
  dpc, vpc, apc,                             \* Decode, Video, audio callback
  vpkt,                                      \* the Video thread's packet
  audio_pkt, audio_pkt_size,                 \* the callback's, and frames left
  vlast, alast,                              \* packet each decoder had last
  vstale, astale                             \* auxiliary: outdated packets and
                                             \* frames decoded since the seek
inputs  == <<stop, seek_req, paused, has>>
file    == <<position, eof>>
queues  == <<videoq, audioq, v_abort, a_abort>>
mutexes == <<video_decoder_mutex, audio_decoder_mutex>>
video   == <<vpc, vpkt, vlast, vstale>>
audio   == <<apc, audio_pkt, audio_pkt_size, alast, astale>>
vars == <<inputs, file, queues, mutexes, callback, audio_st, dpc, video, audio>>

-----------------------------------------------------------------------------
Init == /\ stop = 0 /\ seek_req = 0 /\ paused = 0
        /\ has \in Streams
        /\ position = 0 /\ eof = 0
        /\ videoq = <<>> /\ audioq = <<>>
        /\ v_abort = 0 /\ a_abort = 0
        /\ video_decoder_mutex = 1 /\ audio_decoder_mutex = 1
        /\ callback = (IF "audio" \in has THEN 1 ELSE 0)
        /\ audio_st = callback
        /\ dpc = "loop" /\ apc = "idle"
        /\ vpc = (IF "video" \in has THEN "loop" ELSE "done")
        /\ vpkt = 0 /\ audio_pkt = 0 /\ audio_pkt_size = 0
        /\ vlast = Flushed /\ alast = Flushed
        /\ vstale = 0 /\ astale = 0

WaitSema(mutex) == mutex > 0 /\ mutex' = mutex - 1
SignalSema(mutex) == mutex' = 1

-----------------------------------------------------------------------------
(* The event loop and the Callback thread.                                 *)

RequestStop == /\ stop = 0
               /\ stop' = 1
               /\ UNCHANGED <<seek_req, paused, has, file, queues, mutexes,
                    callback, audio_st, dpc, video, audio>>

RequestSeek == /\ stop = 0 /\ seek_req = 0 /\ position < MaxSeeks
               /\ seek_req' = 1
               /\ UNCHANGED <<stop, paused, has, file, queues, mutexes,
                    callback, audio_st, dpc, video, audio>>

TogglePause == /\ stop = 0
               /\ paused' = 1 - paused
               /\ UNCHANGED <<stop, seek_req, has, file, queues, mutexes,
                    callback, audio_st, dpc, video, audio>>

-----------------------------------------------------------------------------
(* The Decode thread.                                                      *)

QueueFull == Len(audioq) > MaxQueue \/ Len(videoq) > MaxQueue

(* Neither a stop nor a seek was asked for.                                *)
CheckRequests == /\ dpc = "loop" /\ stop = 0 /\ seek_req = 0
                 /\ dpc' = "read"
                 /\ UNCHANGED <<inputs, file, queues, mutexes, callback,
                      audio_st, video, audio>>

WaitForRoom == /\ dpc = "read"
               /\ QueueFull \/ eof = 1
               /\ dpc' = "loop"
               /\ UNCHANGED <<inputs, file, queues, mutexes, callback,
                    audio_st, video, audio>>

ReadPacket(s) ==
  /\ dpc = "read" /\ ~QueueFull /\ eof = 0
  /\ s \in has
  /\ dpc' = "loop"
  /\ videoq' = IF s = "video" THEN Append(videoq, position) ELSE videoq
  /\ audioq' = IF s = "audio" THEN Append(audioq, position) ELSE audioq
  /\ UNCHANGED <<inputs, file, v_abort, a_abort, mutexes, callback, audio_st,
       video, audio>>

ReachEnd == /\ dpc = "read" /\ ~QueueFull /\ eof = 0
            /\ eof' = 1
            /\ dpc' = "loop"
            /\ UNCHANGED <<inputs, position, queues, mutexes, callback,
                 audio_st, video, audio>>

(* The memory stick cannot be read: the thread only waits for the stop.    *)
ReadError == /\ dpc = "read" /\ ~QueueFull /\ eof = 0
             /\ dpc' = "failed"
             /\ UNCHANGED <<inputs, file, queues, mutexes, callback, audio_st,
                  video, audio>>

(* The callback is taken out, which does not wait for one that is running. *)
SeekStart == /\ dpc = "loop" /\ stop = 0 /\ seek_req = 1
             /\ callback' = 0
             /\ dpc' = "lock_video"
             /\ UNCHANGED <<inputs, file, queues, mutexes, audio_st, video,
                  audio>>

LockVideo_nolock == /\ dpc = "lock_video"
                    /\ dpc' = "lock_audio"
                    /\ UNCHANGED <<inputs, file, queues, mutexes, callback,
                         audio_st, video, audio>>
LockVideo == /\ dpc = "lock_video"
             /\ WaitSema(video_decoder_mutex)
             /\ dpc' = "lock_audio"
             /\ UNCHANGED <<inputs, file, queues, audio_decoder_mutex, callback,
                  audio_st, video, audio>>

LockAudio == /\ dpc = "lock_audio"
             /\ WaitSema(audio_decoder_mutex)
             /\ dpc' = "seek"
             /\ UNCHANGED <<inputs, file, queues, video_decoder_mutex, callback,
                  audio_st, video, audio>>

AfterFailure_return == "rearm"
AfterFailure == "unlock_audio"

SeekFile == /\ dpc = "seek"
            /\ \/ /\ position' = position + 1 /\ eof' = 0
                  /\ vstale' = 0 /\ astale' = 0
                  /\ dpc' = "flush_audio"
               \/ /\ dpc' = AfterFailure
                  /\ UNCHANGED <<file, vstale, astale>>
            /\ UNCHANGED <<inputs, queues, mutexes, callback, audio_st,
                 vpc, vpkt, vlast, apc, audio_pkt, audio_pkt_size, alast>>

FlushAudio == /\ dpc = "flush_audio"
              /\ audioq' = <<>>
              /\ dpc' = "flush_video"
              /\ UNCHANGED <<inputs, file, videoq, v_abort, a_abort, mutexes,
                   callback, audio_st, video, audio>>

FlushedQueue_oldest(q) == IF q = <<>> THEN q ELSE SubSeq(q, 1, 1)
FlushedQueue(q) == <<>>

FlushVideo == /\ dpc = "flush_video"
              /\ videoq' = FlushedQueue(videoq)
              /\ dpc' = "flush_codec"
              /\ UNCHANGED <<inputs, file, audioq, v_abort, a_abort, mutexes,
                   callback, audio_st, video, audio>>

(* avcodec_flush_buffers, of the video decoder only.                       *)
FlushCodec == /\ dpc = "flush_codec"
              /\ vlast' = IF "video" \in has THEN Flushed ELSE vlast
              /\ dpc' = "unlock_audio"
              /\ UNCHANGED <<inputs, file, queues, mutexes, callback, audio_st,
                   vpc, vpkt, vstale, audio>>

UnlockAudio == /\ dpc = "unlock_audio"
               /\ SignalSema(audio_decoder_mutex)
               /\ dpc' = "unlock_video"
               /\ UNCHANGED <<inputs, file, queues, video_decoder_mutex,
                    callback, audio_st, video, audio>>

UnlockVideo == /\ dpc = "unlock_video"
               /\ SignalSema(video_decoder_mutex)
               /\ dpc' = "clear"
               /\ UNCHANGED <<inputs, file, queues, audio_decoder_mutex,
                    callback, audio_st, video, audio>>

ClearRequest == /\ dpc = "clear"
                /\ seek_req' = 0
                /\ dpc' = "rearm"
                /\ UNCHANGED <<stop, paused, has, file, queues, mutexes,
                     callback, audio_st, video, audio>>

Rearmed_not == callback
Rearmed == 1

(* The callback is put back, whether or not the file has audio, and the    *)
(* loop goes on to read.                                                   *)
Rearm == /\ dpc = "rearm"
         /\ callback' = Rearmed
         /\ dpc' = "read"
         /\ UNCHANGED <<inputs, file, queues, mutexes, audio_st, video, audio>>

(* stream_component_close of the audio stream, then of the video stream.   *)
CloseStart == /\ dpc \in {"loop", "failed"} /\ stop = 1
              /\ dpc' = IF "audio" \in has THEN "abort_audio" ELSE "abort_video"
              /\ UNCHANGED <<inputs, file, queues, mutexes, callback, audio_st,
                   video, audio>>

AbortAudio == /\ dpc = "abort_audio"
              /\ a_abort' = 1
              /\ dpc' = "close_audio"
              /\ UNCHANGED <<inputs, file, videoq, audioq, v_abort, mutexes,
                   callback, audio_st, video, audio>>

(* The callback is taken out, the queue emptied and the stream closed,     *)
(* without waiting for a callback that is running.                         *)
CloseAudio == /\ dpc = "close_audio"
              /\ callback' = 0 /\ audioq' = <<>> /\ audio_st' = 0
              /\ dpc' = IF "video" \in has THEN "abort_video" ELSE "done"
              /\ UNCHANGED <<inputs, file, videoq, v_abort, a_abort, mutexes,
                   video, audio>>

AbortVideo == /\ dpc = "abort_video"
              /\ v_abort' = 1
              /\ dpc' = "join"
              /\ UNCHANGED <<inputs, file, videoq, audioq, a_abort, mutexes,
                   callback, audio_st, video, audio>>

JoinVideo == /\ dpc = "join" /\ vpc = "done"
             /\ videoq' = <<>>
             /\ dpc' = "done"
             /\ UNCHANGED <<inputs, file, audioq, v_abort, a_abort, mutexes,
                  callback, audio_st, video, audio>>

DecodeThread == \/ CheckRequests \/ WaitForRoom
                \/ \E s \in {"audio", "video"} : ReadPacket(s)
                \/ ReachEnd \/ ReadError
                \/ SeekStart \/ LockVideo \/ LockAudio \/ SeekFile
                \/ FlushAudio \/ FlushVideo \/ FlushCodec
                \/ UnlockAudio \/ UnlockVideo \/ ClearRequest \/ Rearm
                \/ CloseStart \/ AbortAudio \/ CloseAudio \/ AbortVideo
                \/ JoinVideo

-----------------------------------------------------------------------------
(* The Video thread.                                                       *)
decode_side == <<inputs, file, callback, audio_st, dpc, audio>>

MayRun == paused = 0 \/ v_abort = 1

LeavePause == /\ vpc = "loop" /\ MayRun
              /\ vpc' = "get"
              /\ UNCHANGED <<decode_side, queues, mutexes, vpkt, vlast, vstale>>

(* While the queue is empty the thread polls it.                           *)
GetVideo == /\ vpc = "get"
            /\ IF v_abort = 1
               THEN vpc' = "done" /\ UNCHANGED <<vpkt, videoq>>
               ELSE /\ videoq # <<>>
                    /\ vpkt' = Head(videoq) /\ videoq' = Tail(videoq)
                    /\ vpc' = "lock"
            /\ UNCHANGED <<decode_side, audioq, v_abort, a_abort, mutexes,
                 vlast, vstale>>

LockDecoder == /\ vpc = "lock"
               /\ WaitSema(video_decoder_mutex)
               /\ vpc' = "decoding"
               /\ UNCHANGED <<decode_side, queues, audio_decoder_mutex, vpkt,
                    vlast, vstale>>

DecodeVideo == /\ vpc = "decoding"
               /\ vlast' = vpkt
               /\ vstale' = IF vpkt < position THEN vstale + 1 ELSE vstale
               /\ SignalSema(video_decoder_mutex)
               /\ vpc' = "output"
               /\ UNCHANGED <<decode_side, queues, audio_decoder_mutex, vpkt>>

(* The picture is queued or skipped; an abort may end the thread instead.  *)
OutputPicture == /\ vpc = "output"
                 /\ \/ vpc' = "loop"
                    \/ v_abort = 1 /\ vpc' = "done"
                 /\ UNCHANGED <<decode_side, queues, mutexes, vpkt, vlast,
                      vstale>>

VideoThread == \/ LeavePause \/ GetVideo \/ LockDecoder \/ DecodeVideo
               \/ OutputPicture

-----------------------------------------------------------------------------
(* The audio callback: sdl_audio_callback and audio_decode_frame.          *)
other_side == <<inputs, file, callback, audio_st, dpc, video>>

(* With no audio stream the callback writes silence and returns.           *)
CallbackStart == /\ apc = "idle" /\ callback = 1 /\ audio_st = 1
                 /\ apc' = "frame"
                 /\ UNCHANGED <<other_side, queues, mutexes, audio_pkt,
                      audio_pkt_size, alast, astale>>

FrameLeft == audio_pkt_size > 0

LockAudioDecoder == /\ apc = "frame" /\ FrameLeft
                    /\ WaitSema(audio_decoder_mutex)
                    /\ apc' = "decoding"
                    /\ UNCHANGED <<other_side, queues, video_decoder_mutex,
                         audio_pkt, audio_pkt_size, alast, astale>>

(* One frame of the packet; after an error, none is left.  The callback    *)
(* needs another frame or its buffer is full.                              *)
DecodeAudio == /\ apc = "decoding"
               /\ alast' = audio_pkt
               /\ astale' = IF audio_pkt < position THEN astale + 1 ELSE astale
               /\ audio_pkt_size' \in {0, audio_pkt_size - 1}
               /\ SignalSema(audio_decoder_mutex)
               /\ apc' \in {"frame", "idle"}
               /\ UNCHANGED <<other_side, queues, video_decoder_mutex,
                    audio_pkt>>

(* Paused or aborted: silence.                                             *)
Silence == /\ apc = "frame" /\ ~FrameLeft
           /\ paused = 1 \/ a_abort = 1
           /\ apc' = "idle"
           /\ UNCHANGED <<other_side, queues, mutexes, audio_pkt,
                audio_pkt_size, alast, astale>>

NeedPacket == /\ apc = "frame" /\ ~FrameLeft
              /\ paused = 0 /\ a_abort = 0
              /\ apc' = "get"
              /\ UNCHANGED <<other_side, queues, mutexes, audio_pkt,
                   audio_pkt_size, alast, astale>>

AbortedGet_never == FALSE
AbortedGet == a_abort = 1

(* packet_queue_get keeps the callback until there is a packet.            *)
GetAudio == /\ apc = "get"
            /\ IF AbortedGet
               THEN /\ apc' = "idle"
                    /\ UNCHANGED <<audio_pkt, audio_pkt_size, audioq>>
               ELSE /\ audioq # <<>>
                    /\ audio_pkt' = Head(audioq) /\ audioq' = Tail(audioq)
                    /\ audio_pkt_size' = MaxFrames
                    /\ apc' = "frame"
            /\ UNCHANGED <<other_side, videoq, v_abort, a_abort, mutexes,
                 alast, astale>>

AudioCallback == \/ CallbackStart \/ LockAudioDecoder \/ DecodeAudio
                 \/ Silence \/ NeedPacket \/ GetAudio

-----------------------------------------------------------------------------
Finished == dpc = "done" /\ apc = "idle" /\ UNCHANGED vars

Next == \/ RequestStop \/ RequestSeek \/ TogglePause
        \/ DecodeThread \/ VideoThread \/ AudioCallback
        \/ Finished

Spec == Init /\ [][Next]_vars

(* The kernel runs every ready thread, pspaudiolib calls the callback that *)
(* is installed, SignalSema hands the count to a waiting thread, and a     *)
(* file that goes on goes on with packets of each of its streams.          *)
FairSpec == /\ Spec
            /\ WF_vars(DecodeThread) /\ WF_vars(VideoThread)
            /\ WF_vars(AudioCallback)
            /\ SF_vars(LockVideo \/ LockAudio)
            /\ SF_vars(LockDecoder) /\ SF_vars(LockAudioDecoder)
            /\ SF_vars(ReadPacket("video")) /\ SF_vars(ReadPacket("audio"))

-----------------------------------------------------------------------------
Locked == {"lock_audio", "seek", "flush_audio", "flush_video", "flush_codec",
           "unlock_audio", "unlock_video"}
Seeking == {"seek", "flush_audio", "flush_video", "flush_codec", "unlock_audio"}

TypeOK ==
  /\ stop \in {0, 1} /\ seek_req \in {0, 1} /\ paused \in {0, 1}
  /\ has \in Streams
  /\ position \in Nat /\ eof \in {0, 1}
  /\ videoq \in Seq(Nat) /\ audioq \in Seq(Nat)
  /\ v_abort \in {0, 1} /\ a_abort \in {0, 1}
  /\ video_decoder_mutex \in {0, 1} /\ audio_decoder_mutex \in {0, 1}
  /\ callback \in {0, 1} /\ audio_st \in {0, 1}
  /\ dpc \in Locked \cup {"loop", "read", "failed", "lock_video", "clear", "rearm",
       "abort_audio", "close_audio", "abort_video", "join", "done"}
  /\ vpc \in {"loop", "get", "lock", "decoding", "output", "done"}
  /\ apc \in {"idle", "frame", "decoding", "get"}
  /\ vpkt \in Nat /\ audio_pkt \in Nat /\ audio_pkt_size \in 0 .. MaxFrames
  /\ vlast \in Nat \cup {Flushed} /\ alast \in Nat \cup {Flushed}
  /\ vstale \in Nat /\ astale \in Nat

(* av_seek_frame and the flushes never run at the same time as a decoder.  *)
SeekExclusive == dpc \in Seeking => vpc # "decoding" /\ apc # "decoding"

AllAt(q, p) == \A i \in 1 .. Len(q) : q[i] = p

(* A queue never keeps a packet of before the seek: each holds packets of  *)
(* the current position only, but for the moment between the seek and its  *)
(* flush.                                                                  *)
QueuesFresh ==
  /\ dpc # "flush_audio" => AllAt(audioq, position)
  /\ dpc \notin {"flush_audio", "flush_video"} => AllAt(videoq, position)

(* After a seek at most the one packet a decoder's thread was holding is   *)
(* still decoded: no more than one of video and MaxFrames frames of audio. *)
StaleBounded == vstale <= 1 /\ astale <= MaxFrames

(* A seek is served, in the middle of decoding, at the end of the file,    *)
(* with full queues or paused, unless the file cannot be read any more.    *)
SeekServed == (seek_req = 1) ~> (seek_req = 0 \/ stop = 1 \/ dpc = "failed")

(* After a seek the video decoder gets packets of the new position, unless *)
(* the user pauses, stops or seeks again or the file ends or fails: the    *)
(* audio callback is back and no queue stays full.                         *)
SeekShows == (dpc = "rearm" /\ "video" \in has)
               ~> \/ vlast = position \/ eof = 1 \/ dpc = "failed"
                  \/ paused = 1 \/ stop = 1 \/ seek_req = 1

(* When the stream is stopped the Decode and the Video thread end, and the *)
(* audio callback returns.                                                 *)
StopTerminates == (stop = 1) ~> (dpc = "done" /\ vpc = "done" /\ apc = "idle")
=============================================================================
