-------------------------- MODULE StreamSeek_proof --------------------------
(***************************************************************************)
(* Proofs about StreamSeek: for any number of seeks, any queue limit and   *)
(* any number of frames in an audio packet, the seek excludes the          *)
(* decoders, the queues hold no outdated packet, and only what a thread    *)
(* was holding is decoded late.                                            *)
(***************************************************************************)
EXTENDS StreamSeek, TLAPS

Stutter == Finished \/ UNCHANGED vars

(* The steps of the three threads and of the event loop, in one place.     *)
Action ==
  RequestStop \/ RequestSeek \/ TogglePause \/ CheckRequests \/ WaitForRoom
  \/ ReadError \/ ReadPacket("video") \/ ReadPacket("audio") \/ ReachEnd
  \/ SeekStart \/ LockVideo \/ LockAudio \/ SeekFile \/ FlushAudio
  \/ FlushVideo \/ FlushCodec \/ UnlockAudio \/ UnlockVideo \/ ClearRequest
  \/ Rearm \/ CloseStart \/ AbortAudio \/ CloseAudio \/ AbortVideo
  \/ JoinVideo \/ LeavePause \/ GetVideo \/ LockDecoder \/ DecodeVideo
  \/ OutputPicture \/ CallbackStart \/ LockAudioDecoder \/ DecodeAudio
  \/ Silence \/ NeedPacket \/ GetAudio \/ Stutter

-----------------------------------------------------------------------------
(* Each semaphore is taken exactly while the Decode thread is between its  *)
(* wait and its signal or the decoder is running, never both.              *)
VideoMutex == /\ dpc \in Locked => vpc # "decoding"
              /\ video_decoder_mutex =
                   IF dpc \in Locked \/ vpc = "decoding" THEN 0 ELSE 1
AudioMutex == /\ dpc \in Seeking => apc # "decoding"
              /\ audio_decoder_mutex =
                   IF dpc \in Seeking \/ apc = "decoding" THEN 0 ELSE 1

(* A video packet of before the seek is held only if none was decoded yet. *)
VideoHeld ==
  /\ vstale <= 1
  /\ dpc \in {"flush_audio", "flush_video"} => vstale = 0
  /\ vstale = 1 /\ vpc \in {"lock", "decoding"} => vpkt >= position

(* The frames decoded of an audio packet of before the seek and those it   *)
(* has left are at most the packet.                                        *)
AudioHeld ==
  /\ astale <= MaxFrames
  /\ dpc = "flush_audio" => astale = 0
  /\ audio_pkt < position => astale + audio_pkt_size <= MaxFrames
  /\ apc = "decoding" => audio_pkt_size > 0

(* The parts of TypeOK.                                                    *)
TFile == /\ stop \in {0, 1} /\ seek_req \in {0, 1} /\ paused \in {0, 1}
         /\ has \in Streams
         /\ position \in Nat /\ eof \in {0, 1}
TQueues == /\ videoq \in Seq(Nat) /\ audioq \in Seq(Nat)
           /\ v_abort \in {0, 1} /\ a_abort \in {0, 1}
TFlags == /\ video_decoder_mutex \in {0, 1} /\ audio_decoder_mutex \in {0, 1}
          /\ callback \in {0, 1} /\ audio_st \in {0, 1}
TPc == /\ dpc \in Locked \cup {"loop", "read", "failed", "lock_video",
            "clear", "rearm",
            "abort_audio", "close_audio", "abort_video", "join", "done"}
       /\ vpc \in {"loop", "get", "lock", "decoding", "output", "done"}
       /\ apc \in {"idle", "frame", "decoding", "get"}
TPackets ==
  /\ vpkt \in Nat /\ audio_pkt \in Nat /\ audio_pkt_size \in 0 .. MaxFrames
  /\ vlast \in Nat \cup {Flushed} /\ alast \in Nat \cup {Flushed}
  /\ vstale \in Nat /\ astale \in Nat

LEMMA TypeParts == TypeOK <=> TFile /\ TQueues /\ TFlags /\ TPc /\ TPackets
BY DEF TypeOK, TFile, TQueues, TFlags, TPc, TPackets

(* The inductive invariant.                                                *)
IInv == TypeOK /\ VideoMutex /\ AudioMutex /\ QueuesFresh /\ VideoHeld /\ AudioHeld

LEMMA NextIsAction == [Next]_vars => Action
BY DEF Next, DecodeThread, VideoThread, AudioCallback, Action, Stutter

-----------------------------------------------------------------------------
(* Queues whose packets are all of one position.                           *)
LEMMA EmptyAllAt == \A p : AllAt(<<>>, p) /\ <<>> \in Seq(Nat)
BY DEF AllAt

LEMMA AppendAllAt ==
  ASSUME NEW q \in Seq(Nat), NEW p \in Nat, AllAt(q, p)
  PROVE  AllAt(Append(q, p), p)
BY DEF AllAt

LEMMA TailAllAt ==
  ASSUME NEW q \in Seq(Nat), q # <<>>
  PROVE  /\ Head(q) \in Nat /\ Tail(q) \in Seq(Nat)
         /\ \A p : AllAt(q, p) => AllAt(Tail(q), p) /\ Head(q) = p
<1>1. /\ Head(q) = q[1] /\ Head(q) \in Nat /\ Tail(q) \in Seq(Nat)
      /\ Len(q) >= 1 /\ Len(Tail(q)) = Len(q) - 1
      /\ \A i \in 1 .. Len(Tail(q)) : Tail(q)[i] = q[i + 1]
  OBVIOUS
<1>2. ASSUME NEW p, AllAt(q, p)
      PROVE  AllAt(Tail(q), p) /\ Head(q) = p
  BY <1>1, <1>2 DEF AllAt
<1> QED
  BY <1>1, <1>2

LEMMA MonotoneSum ==
  ASSUME NEW a \in Int, NEW n \in Int, NEW k \in Int, NEW max \in Int,
         a + n <= max, k <= n - 1
  PROVE  (a + 1) + k <= max
OBVIOUS

-----------------------------------------------------------------------------
LEMMA InitIInv == Init => IInv
BY StreamSeekAssumption
   DEF Init, IInv, TypeOK, VideoMutex, AudioMutex, QueuesFresh, AllAt,
   VideoHeld, AudioHeld, Locked, Seeking, Flushed, Streams

(* Type correctness, one part of the state after the other.                *)
LEMMA TypeFile ==
  ASSUME TFile, Action
  PROVE  TFile'
<1>1. CASE RequestStop \/ RequestSeek \/ TogglePause \/ ReachEnd
          \/ ClearRequest
  BY <1>1
     DEF ClearRequest, ReachEnd, RequestSeek, RequestStop, TogglePause,
     TFile, inputs, file, queues, mutexes, video, audio, decode_side,
     other_side
<1>2. CASE SeekFile
  BY <1>2
     DEF SeekFile, TFile, inputs, file, queues, mutexes, video, audio,
     decode_side, other_side
<1>3. CASE CheckRequests \/ WaitForRoom \/ ReadError \/ ReadPacket("video")
          \/ ReadPacket("audio") \/ SeekStart \/ LockVideo \/ LockAudio \/ FlushAudio
          \/ FlushVideo \/ FlushCodec \/ UnlockAudio \/ UnlockVideo \/ Rearm
          \/ CloseStart \/ AbortAudio \/ CloseAudio \/ AbortVideo \/ JoinVideo
          \/ LeavePause \/ GetVideo \/ LockDecoder \/ DecodeVideo \/ OutputPicture
          \/ CallbackStart \/ LockAudioDecoder \/ DecodeAudio \/ Silence \/ NeedPacket
          \/ GetAudio
  BY <1>3
     DEF AbortAudio, AbortVideo, CallbackStart, CheckRequests, CloseAudio,
     CloseStart, DecodeAudio, DecodeVideo, FlushAudio, FlushCodec,
     FlushVideo, GetAudio, GetVideo, JoinVideo, LeavePause, LockAudio,
     LockAudioDecoder, LockDecoder, LockVideo, NeedPacket, OutputPicture,
     ReadError, ReadPacket, Rearm, SeekStart, Silence, UnlockAudio,
     UnlockVideo, WaitForRoom, TFile, inputs, file, queues, mutexes, video,
     audio, decode_side, other_side
<1>4. CASE Stutter
  BY <1>4
     DEF Stutter, vars, TFile, inputs, file, queues, mutexes, video, audio,
     decode_side, other_side, Finished
<1> QED
  BY <1>1, <1>2, <1>3, <1>4 DEF Action

(* The queues and their abort flags.                                       *)
LEMMA TypeQueues ==
  ASSUME TFile, TQueues, Action
  PROVE  TQueues'
<1>1. CASE ReadPacket("video") \/ ReadPacket("audio")
  <2>1. /\ position \in Nat /\ videoq \in Seq(Nat) /\ audioq \in Seq(Nat)
        /\ Append(videoq, position) \in Seq(Nat)
        /\ Append(audioq, position) \in Seq(Nat)
    BY DEF TFile, TQueues
  <2>2. /\ videoq' \in {videoq, Append(videoq, position)}
        /\ audioq' \in {audioq, Append(audioq, position)}
        /\ v_abort' = v_abort /\ a_abort' = a_abort
    BY <1>1 DEF ReadPacket
  <2> QED
    BY <2>1, <2>2 DEF TQueues
<1>2. CASE FlushAudio \/ FlushVideo \/ CloseAudio \/ JoinVideo \/ AbortAudio
          \/ AbortVideo
  BY <1>2, EmptyAllAt
     DEF AbortAudio, AbortVideo, CloseAudio, FlushAudio, FlushVideo,
     JoinVideo, TQueues, inputs, file, queues, mutexes, video, audio,
     decode_side, other_side, FlushedQueue
<1>3. CASE GetVideo
  BY <1>3, TailAllAt
     DEF GetVideo, TQueues, inputs, file, queues, mutexes, video, audio,
     decode_side, other_side
<1>4. CASE GetAudio
  BY <1>4, TailAllAt
     DEF GetAudio, TQueues, inputs, file, queues, mutexes, video, audio,
     decode_side, other_side
<1>5. CASE RequestStop \/ RequestSeek \/ TogglePause \/ CheckRequests
          \/ WaitForRoom \/ ReadError \/ ReachEnd \/ SeekStart \/ LockVideo
          \/ LockAudio \/ SeekFile \/ FlushCodec \/ UnlockAudio \/ UnlockVideo
          \/ ClearRequest \/ Rearm \/ CloseStart \/ LeavePause \/ LockDecoder
          \/ DecodeVideo \/ OutputPicture \/ CallbackStart \/ LockAudioDecoder
          \/ DecodeAudio \/ Silence \/ NeedPacket \/ Stutter
  BY <1>5
     DEF CallbackStart, CheckRequests, ClearRequest, CloseStart, DecodeAudio,
     DecodeVideo, FlushCodec, LeavePause, LockAudio, LockAudioDecoder,
     LockDecoder, LockVideo, NeedPacket, OutputPicture, ReachEnd, ReadError,
     Rearm, RequestSeek, RequestStop, SeekFile, SeekStart, Silence, Stutter,
     TogglePause, UnlockAudio, UnlockVideo, WaitForRoom, vars, TQueues,
     inputs, file, queues, mutexes, video, audio, decode_side, other_side,
     Finished
<1> QED
  BY <1>1, <1>2, <1>3, <1>4, <1>5 DEF Action

(* The semaphores and the audio output.                                    *)
LEMMA TypeFlags ==
  ASSUME TFlags, Action
  PROVE  TFlags'
<1>1. CASE LockVideo \/ LockAudio \/ LockDecoder \/ LockAudioDecoder
  BY <1>1
     DEF LockAudio, LockAudioDecoder, LockDecoder, LockVideo, TFlags, inputs,
     file, queues, mutexes, video, audio, decode_side, other_side, WaitSema
<1>2. CASE UnlockAudio \/ UnlockVideo \/ DecodeVideo \/ DecodeAudio
  BY <1>2
     DEF DecodeAudio, DecodeVideo, UnlockAudio, UnlockVideo, TFlags, inputs,
     file, queues, mutexes, video, audio, decode_side, other_side, SignalSema
<1>3. CASE Rearm \/ SeekStart \/ CloseAudio
  BY <1>3
     DEF CloseAudio, Rearm, SeekStart, TFlags, inputs, file, queues, mutexes,
     video, audio, decode_side, other_side, Rearmed
<1>4. CASE RequestStop \/ RequestSeek \/ TogglePause \/ CheckRequests
          \/ WaitForRoom \/ ReadError \/ ReadPacket("video") \/ ReadPacket("audio")
          \/ ReachEnd \/ SeekFile \/ FlushAudio \/ FlushVideo \/ FlushCodec
          \/ ClearRequest \/ CloseStart \/ AbortAudio \/ AbortVideo \/ JoinVideo
          \/ LeavePause \/ GetVideo \/ OutputPicture \/ CallbackStart \/ Silence
          \/ NeedPacket \/ GetAudio \/ Stutter
  BY <1>4
     DEF AbortAudio, AbortVideo, CallbackStart, CheckRequests, ClearRequest,
     CloseStart, FlushAudio, FlushCodec, FlushVideo, GetAudio, GetVideo,
     JoinVideo, LeavePause, NeedPacket, OutputPicture, ReachEnd, ReadError,
     ReadPacket, RequestSeek, RequestStop, SeekFile, Silence, Stutter,
     TogglePause, WaitForRoom, vars, TFlags, inputs, file, queues, mutexes,
     video, audio, decode_side, other_side, Finished
<1> QED
  BY <1>1, <1>2, <1>3, <1>4 DEF Action

(* Where the threads are.                                                  *)
LEMMA TypePc ==
  ASSUME TPc, Action
  PROVE  TPc'
<1>1. CASE RequestStop \/ RequestSeek \/ TogglePause \/ ReachEnd
          \/ CheckRequests \/ WaitForRoom \/ ReadError \/ ReadPacket("video")
          \/ ReadPacket("audio")
  BY <1>1
     DEF CheckRequests, ReachEnd, ReadError, ReadPacket, RequestSeek,
     RequestStop, TogglePause, WaitForRoom, TPc, Locked, inputs, file,
     queues, mutexes, video, audio, decode_side, other_side
<1>2. CASE SeekStart \/ LockVideo \/ LockAudio \/ SeekFile \/ FlushAudio
          \/ FlushVideo \/ FlushCodec
  BY <1>2
     DEF FlushAudio, FlushCodec, FlushVideo, LockAudio, LockVideo, SeekFile,
     SeekStart, TPc, Locked, inputs, file, queues, mutexes, video, audio,
     decode_side, other_side, AfterFailure
<1>3. CASE UnlockAudio \/ UnlockVideo \/ ClearRequest \/ Rearm \/ CloseStart
          \/ AbortAudio \/ CloseAudio \/ AbortVideo \/ JoinVideo
  BY <1>3
     DEF AbortAudio, AbortVideo, ClearRequest, CloseAudio, CloseStart,
     JoinVideo, Rearm, UnlockAudio, UnlockVideo, TPc, Locked, inputs, file,
     queues, mutexes, video, audio, decode_side, other_side
<1>4. CASE LeavePause \/ GetVideo \/ LockDecoder \/ DecodeVideo
          \/ OutputPicture
  BY <1>4
     DEF DecodeVideo, GetVideo, LeavePause, LockDecoder, OutputPicture, TPc,
     Locked, inputs, file, queues, mutexes, video, audio, decode_side,
     other_side
<1>5. CASE CallbackStart \/ LockAudioDecoder \/ DecodeAudio \/ Silence
          \/ NeedPacket \/ GetAudio
  BY <1>5
     DEF CallbackStart, DecodeAudio, GetAudio, LockAudioDecoder, NeedPacket,
     Silence, TPc, Locked, inputs, file, queues, mutexes, video, audio,
     decode_side, other_side
<1>6. CASE Stutter
  BY <1>6
     DEF Stutter, vars, TPc, Locked, inputs, file, queues, mutexes, video,
     audio, decode_side, other_side, Finished
<1> QED
  BY <1>1, <1>2, <1>3, <1>4, <1>5, <1>6 DEF Action

(* The packets the decoders hold and have had.                             *)
LEMMA TypePackets ==
  ASSUME TFile, TQueues, TPackets, AudioHeld, Action
  PROVE  TPackets'
<1>1. CASE SeekFile \/ FlushCodec
  BY <1>1
     DEF FlushCodec, SeekFile, TPackets, Flushed, inputs, file, queues,
     mutexes, video, audio, decode_side, other_side
<1>2. CASE GetVideo
  BY <1>2, TailAllAt
     DEF GetVideo, TPackets, Flushed, inputs, file, queues, mutexes, video,
     audio, decode_side, other_side, TQueues
<1>3. CASE GetAudio
  BY <1>3, TailAllAt, StreamSeekAssumption
     DEF GetAudio, TPackets, Flushed, inputs, file, queues, mutexes, video,
     audio, decode_side, other_side, TQueues
<1>4. CASE DecodeVideo
  BY <1>4
     DEF DecodeVideo, TPackets, Flushed, inputs, file, queues, mutexes,
     video, audio, decode_side, other_side
<1>5. CASE DecodeAudio
  <2>1. audio_pkt_size' \in 0 .. MaxFrames
    BY <1>5, StreamSeekAssumption DEF DecodeAudio, TPackets, AudioHeld
  <2>2. vpkt' = vpkt /\ vlast' = vlast /\ vstale' = vstale
        /\ audio_pkt' = audio_pkt /\ alast' = audio_pkt
    BY <1>5 DEF DecodeAudio, other_side, video
  <2>3. astale' \in Nat
    BY <1>5 DEF DecodeAudio, TPackets
  <2> QED
    BY <2>1, <2>2, <2>3 DEF TPackets
<1>6. CASE RequestStop \/ RequestSeek \/ TogglePause \/ CheckRequests
          \/ WaitForRoom \/ ReadError \/ ReadPacket("video") \/ ReadPacket("audio")
          \/ ReachEnd \/ SeekStart \/ LockVideo \/ LockAudio \/ FlushAudio
          \/ FlushVideo \/ UnlockAudio \/ UnlockVideo \/ ClearRequest \/ Rearm
          \/ CloseStart \/ AbortAudio \/ CloseAudio \/ AbortVideo \/ JoinVideo
          \/ LeavePause \/ LockDecoder \/ OutputPicture \/ CallbackStart
          \/ LockAudioDecoder \/ Silence \/ NeedPacket \/ Stutter
  BY <1>6
     DEF AbortAudio, AbortVideo, CallbackStart, CheckRequests, ClearRequest,
     CloseAudio, CloseStart, FlushAudio, FlushVideo, JoinVideo, LeavePause,
     LockAudio, LockAudioDecoder, LockDecoder, LockVideo, NeedPacket,
     OutputPicture, ReachEnd, ReadError, ReadPacket, Rearm, RequestSeek,
     RequestStop, SeekStart, Silence, Stutter, TogglePause, UnlockAudio,
     UnlockVideo, WaitForRoom, vars, TPackets, Flushed, inputs, file, queues,
     mutexes, video, audio, decode_side, other_side, Finished
<1> QED
  BY <1>1, <1>2, <1>3, <1>4, <1>5, <1>6 DEF Action

(* The semaphore of the video decoder.                                     *)
LEMMA VideoMutexStep ==
  ASSUME TFlags, VideoMutex, Action
  PROVE  VideoMutex'
<1>1. CASE LockVideo
  BY <1>1
     DEF LockVideo, VideoMutex, Locked, inputs, file, queues, mutexes, video,
     audio, decode_side, other_side, WaitSema, SignalSema, TFlags
<1>2. CASE UnlockVideo
  BY <1>2
     DEF UnlockVideo, VideoMutex, Locked, inputs, file, queues, mutexes,
     video, audio, decode_side, other_side, WaitSema, SignalSema, TFlags
<1>3. CASE LockDecoder
  BY <1>3
     DEF LockDecoder, VideoMutex, Locked, inputs, file, queues, mutexes,
     video, audio, decode_side, other_side, WaitSema, SignalSema, TFlags
<1>4. CASE DecodeVideo
  BY <1>4
     DEF DecodeVideo, VideoMutex, Locked, inputs, file, queues, mutexes,
     video, audio, decode_side, other_side, WaitSema, SignalSema, TFlags
<1>5. CASE CheckRequests \/ WaitForRoom \/ ReadError \/ ReadPacket("video")
          \/ ReadPacket("audio") \/ ReachEnd \/ SeekStart \/ LockAudio \/ SeekFile
          \/ FlushAudio \/ FlushVideo \/ FlushCodec \/ UnlockAudio \/ ClearRequest
          \/ Rearm \/ CloseStart \/ AbortAudio \/ CloseAudio \/ AbortVideo \/ JoinVideo
  BY <1>5
     DEF AbortAudio, AbortVideo, CheckRequests, ClearRequest, CloseAudio,
     CloseStart, FlushAudio, FlushCodec, FlushVideo, JoinVideo, LockAudio,
     ReachEnd, ReadError, ReadPacket, Rearm, SeekFile, SeekStart,
     UnlockAudio, WaitForRoom, VideoMutex, Locked, inputs, file, queues,
     mutexes, video, audio, decode_side, other_side, AfterFailure
<1>6. CASE LeavePause \/ GetVideo \/ OutputPicture
  BY <1>6
     DEF GetVideo, LeavePause, OutputPicture, VideoMutex, Locked, inputs,
     file, queues, mutexes, video, audio, decode_side, other_side
<1>7. CASE RequestStop \/ RequestSeek \/ TogglePause \/ CallbackStart
          \/ LockAudioDecoder \/ DecodeAudio \/ Silence \/ NeedPacket \/ GetAudio
          \/ Stutter
  BY <1>7
     DEF CallbackStart, DecodeAudio, GetAudio, LockAudioDecoder, NeedPacket,
     RequestSeek, RequestStop, Silence, Stutter, TogglePause, vars,
     VideoMutex, Locked, inputs, file, queues, mutexes, video, audio,
     decode_side, other_side, Finished
<1> QED
  BY <1>1, <1>2, <1>3, <1>4, <1>5, <1>6, <1>7 DEF Action

(* The semaphore of the audio decoder.                                     *)
LEMMA AudioMutexStep ==
  ASSUME TFlags, AudioMutex, Action
  PROVE  AudioMutex'
<1>1. CASE LockAudio
  BY <1>1
     DEF LockAudio, AudioMutex, Seeking, inputs, file, queues, mutexes,
     video, audio, decode_side, other_side, WaitSema, SignalSema, TFlags
<1>2. CASE UnlockAudio
  BY <1>2
     DEF UnlockAudio, AudioMutex, Seeking, inputs, file, queues, mutexes,
     video, audio, decode_side, other_side, WaitSema, SignalSema, TFlags
<1>3. CASE LockAudioDecoder
  BY <1>3
     DEF LockAudioDecoder, AudioMutex, Seeking, inputs, file, queues,
     mutexes, video, audio, decode_side, other_side, WaitSema, SignalSema,
     TFlags
<1>4. CASE DecodeAudio
  BY <1>4
     DEF DecodeAudio, AudioMutex, Seeking, inputs, file, queues, mutexes,
     video, audio, decode_side, other_side, WaitSema, SignalSema, TFlags
<1>5. CASE CheckRequests \/ WaitForRoom \/ ReadError \/ ReadPacket("video")
          \/ ReadPacket("audio") \/ ReachEnd \/ SeekStart \/ SeekFile \/ FlushAudio
          \/ FlushVideo \/ FlushCodec \/ ClearRequest \/ Rearm \/ CloseStart
          \/ AbortAudio \/ CloseAudio \/ AbortVideo \/ JoinVideo \/ LockVideo
          \/ UnlockVideo
  BY <1>5
     DEF AbortAudio, AbortVideo, CheckRequests, ClearRequest, CloseAudio,
     CloseStart, FlushAudio, FlushCodec, FlushVideo, JoinVideo, LockVideo,
     ReachEnd, ReadError, ReadPacket, Rearm, SeekFile, SeekStart,
     UnlockVideo, WaitForRoom, AudioMutex, Seeking, inputs, file, queues,
     mutexes, video, audio, decode_side, other_side, AfterFailure
<1>6. CASE CallbackStart \/ Silence \/ NeedPacket \/ GetAudio
  BY <1>6
     DEF CallbackStart, GetAudio, NeedPacket, Silence, AudioMutex, Seeking,
     inputs, file, queues, mutexes, video, audio, decode_side, other_side
<1>7. CASE RequestStop \/ RequestSeek \/ TogglePause \/ LeavePause
          \/ GetVideo \/ LockDecoder \/ DecodeVideo \/ OutputPicture \/ Stutter
  BY <1>7
     DEF DecodeVideo, GetVideo, LeavePause, LockDecoder, OutputPicture,
     RequestSeek, RequestStop, Stutter, TogglePause, vars, AudioMutex,
     Seeking, inputs, file, queues, mutexes, video, audio, decode_side,
     other_side, Finished
<1> QED
  BY <1>1, <1>2, <1>3, <1>4, <1>5, <1>6, <1>7 DEF Action

(* The queues hold packets of the current position.                        *)
LEMMA QueuesStep ==
  ASSUME TFile, TQueues, QueuesFresh, Action
  PROVE  QueuesFresh'
<1>1. CASE ReadPacket("video") \/ ReadPacket("audio")
  BY <1>1, AppendAllAt
     DEF ReadPacket, QueuesFresh, inputs, file, queues, mutexes, video,
     audio, decode_side, other_side, TFile, TQueues
<1>2. CASE SeekFile
  BY <1>2
     DEF SeekFile, QueuesFresh, inputs, file, queues, mutexes, video, audio,
     decode_side, other_side, AfterFailure
<1>3. CASE FlushAudio \/ FlushVideo \/ CloseAudio \/ JoinVideo
  BY <1>3, EmptyAllAt
     DEF CloseAudio, FlushAudio, FlushVideo, JoinVideo, QueuesFresh, inputs,
     file, queues, mutexes, video, audio, decode_side, other_side,
     FlushedQueue
<1>4. CASE GetVideo \/ GetAudio
  BY <1>4, TailAllAt
     DEF GetAudio, GetVideo, QueuesFresh, inputs, file, queues, mutexes,
     video, audio, decode_side, other_side, TQueues
<1>5. CASE CheckRequests \/ WaitForRoom \/ ReadError \/ ReachEnd \/ SeekStart
          \/ LockAudio \/ FlushCodec \/ UnlockAudio \/ ClearRequest \/ Rearm
          \/ CloseStart \/ AbortAudio \/ AbortVideo \/ LockVideo \/ UnlockVideo
  BY <1>5
     DEF AbortAudio, AbortVideo, CheckRequests, ClearRequest, CloseStart,
     FlushCodec, LockAudio, LockVideo, ReachEnd, ReadError, Rearm, SeekStart,
     UnlockAudio, UnlockVideo, WaitForRoom, QueuesFresh, inputs, file,
     queues, mutexes, video, audio, decode_side, other_side
<1>6. CASE RequestStop \/ RequestSeek \/ TogglePause \/ LeavePause
          \/ LockDecoder \/ DecodeVideo \/ OutputPicture \/ CallbackStart
          \/ LockAudioDecoder \/ DecodeAudio \/ Silence \/ NeedPacket \/ Stutter
  BY <1>6
     DEF CallbackStart, DecodeAudio, DecodeVideo, LeavePause,
     LockAudioDecoder, LockDecoder, NeedPacket, OutputPicture, RequestSeek,
     RequestStop, Silence, Stutter, TogglePause, vars, QueuesFresh, inputs,
     file, queues, mutexes, video, audio, decode_side, other_side, Finished
<1> QED
  BY <1>1, <1>2, <1>3, <1>4, <1>5, <1>6 DEF Action

(* The packet the Video thread holds.                                      *)
LEMMA VideoHeldStep ==
  ASSUME TFile, TQueues, TPackets, VideoMutex, QueuesFresh, VideoHeld, Action
  PROVE  VideoHeld'
<1>1. CASE SeekFile
  BY <1>1
     DEF SeekFile, VideoHeld, inputs, file, queues, mutexes, video, audio,
     decode_side, other_side, AfterFailure, TFile, TPackets
<1>2. CASE GetVideo
  BY <1>2, TailAllAt
     DEF GetVideo, VideoHeld, inputs, file, queues, mutexes, video, audio,
     decode_side, other_side, TFile, TQueues, TPackets, QueuesFresh
<1>3. CASE LockDecoder
  BY <1>3
     DEF LockDecoder, VideoHeld, inputs, file, queues, mutexes, video, audio,
     decode_side, other_side
<1>4. CASE DecodeVideo
  BY <1>4
     DEF DecodeVideo, VideoHeld, inputs, file, queues, mutexes, video, audio,
     decode_side, other_side, TFile, TPackets, VideoMutex, Locked
<1>5. CASE CheckRequests \/ WaitForRoom \/ ReadError \/ ReadPacket("video")
          \/ ReadPacket("audio") \/ ReachEnd \/ SeekStart \/ LockAudio \/ FlushAudio
          \/ FlushVideo \/ FlushCodec \/ UnlockAudio \/ ClearRequest \/ Rearm
          \/ CloseStart \/ AbortAudio \/ CloseAudio \/ AbortVideo \/ JoinVideo
          \/ LockVideo \/ UnlockVideo
  BY <1>5
     DEF AbortAudio, AbortVideo, CheckRequests, ClearRequest, CloseAudio,
     CloseStart, FlushAudio, FlushCodec, FlushVideo, JoinVideo, LockAudio,
     LockVideo, ReachEnd, ReadError, ReadPacket, Rearm, SeekStart,
     UnlockAudio, UnlockVideo, WaitForRoom, VideoHeld, inputs, file, queues,
     mutexes, video, audio, decode_side, other_side
<1>6. CASE LeavePause \/ OutputPicture
  BY <1>6
     DEF LeavePause, OutputPicture, VideoHeld, inputs, file, queues, mutexes,
     video, audio, decode_side, other_side
<1>7. CASE RequestStop \/ RequestSeek \/ TogglePause \/ CallbackStart
          \/ LockAudioDecoder \/ DecodeAudio \/ Silence \/ NeedPacket \/ GetAudio
          \/ Stutter
  BY <1>7
     DEF CallbackStart, DecodeAudio, GetAudio, LockAudioDecoder, NeedPacket,
     RequestSeek, RequestStop, Silence, Stutter, TogglePause, vars,
     VideoHeld, inputs, file, queues, mutexes, video, audio, decode_side,
     other_side, Finished
<1> QED
  BY <1>1, <1>2, <1>3, <1>4, <1>5, <1>6, <1>7 DEF Action

(* The packet the audio callback holds.                                    *)
LEMMA AudioHeldStep ==
  ASSUME TFile, TQueues, TPackets, AudioMutex, QueuesFresh, AudioHeld, Action
  PROVE  AudioHeld'
<1>1. CASE SeekFile
  BY <1>1, StreamSeekAssumption
     DEF SeekFile, AudioHeld, inputs, file, queues, mutexes, video, audio,
     decode_side, other_side, AfterFailure, TFile, TPackets
<1>2. CASE GetAudio
  BY <1>2, TailAllAt, StreamSeekAssumption
     DEF GetAudio, AudioHeld, inputs, file, queues, mutexes, video, audio,
     decode_side, other_side, TFile, TQueues, TPackets, QueuesFresh
<1>3. CASE DecodeAudio
  <2>1. /\ MaxFrames \in Nat /\ astale \in Nat /\ position \in Nat
        /\ audio_pkt \in Nat /\ audio_pkt_size \in Nat /\ audio_pkt_size > 0
    BY <1>3, StreamSeekAssumption DEF DecodeAudio, AudioHeld, TFile, TPackets
  <2>2. /\ audio_pkt' = audio_pkt /\ position' = position
        /\ dpc' = dpc /\ dpc \notin Seeking
        /\ apc' \in {"frame", "idle"}
        /\ audio_pkt_size' <= audio_pkt_size - 1
        /\ astale' = IF audio_pkt < position THEN astale + 1 ELSE astale
    <3>1. /\ audio_pkt' = audio_pkt /\ position' = position /\ dpc' = dpc
          /\ apc' \in {"frame", "idle"}
          /\ astale' = IF audio_pkt < position THEN astale + 1 ELSE astale
      BY <1>3 DEF DecodeAudio, other_side, file
    <3>2. audio_pkt_size' <= audio_pkt_size - 1
      BY <1>3, <2>1 DEF DecodeAudio
    <3>3. dpc \notin Seeking
      BY <1>3 DEF DecodeAudio, AudioMutex
    <3> QED
      BY <3>1, <3>2, <3>3
  <2>3. audio_pkt_size' \in Int
    BY <1>3, <2>1 DEF DecodeAudio
  <2>4. astale' <= MaxFrames
    BY <2>1, <2>2 DEF AudioHeld
  <2>5. audio_pkt' < position' => astale' + audio_pkt_size' <= MaxFrames
    <3> SUFFICES ASSUME audio_pkt < position
                 PROVE  astale' + audio_pkt_size' <= MaxFrames
      BY <2>2
    <3>1. astale + audio_pkt_size <= MaxFrames
      BY DEF AudioHeld
    <3>2. astale' = astale + 1
      BY <2>2
    <3>3. audio_pkt_size' <= audio_pkt_size - 1
      BY <2>2
    <3>4. /\ astale \in Int /\ audio_pkt_size \in Int /\ MaxFrames \in Int
          /\ audio_pkt_size' \in Int
      BY <2>1, <2>3
    <3>5. (astale + 1) + audio_pkt_size' <= MaxFrames
      BY <3>1, <3>3, <3>4, MonotoneSum
    <3> QED
      BY <3>2, <3>5
  <2>6. dpc' # "flush_audio" /\ apc' # "decoding"
    BY <2>2 DEF Seeking
  <2> QED
    BY <2>4, <2>5, <2>6 DEF AudioHeld
<1>4. CASE LockAudioDecoder
  BY <1>4
     DEF LockAudioDecoder, AudioHeld, inputs, file, queues, mutexes, video,
     audio, decode_side, other_side, FrameLeft
<1>5. CASE CheckRequests \/ WaitForRoom \/ ReadError \/ ReadPacket("video")
          \/ ReadPacket("audio") \/ ReachEnd \/ SeekStart \/ LockAudio \/ FlushAudio
          \/ FlushVideo \/ FlushCodec \/ UnlockAudio \/ ClearRequest \/ Rearm
          \/ CloseStart \/ AbortAudio \/ CloseAudio \/ AbortVideo \/ JoinVideo
          \/ LockVideo \/ UnlockVideo
  BY <1>5
     DEF AbortAudio, AbortVideo, CheckRequests, ClearRequest, CloseAudio,
     CloseStart, FlushAudio, FlushCodec, FlushVideo, JoinVideo, LockAudio,
     LockVideo, ReachEnd, ReadError, ReadPacket, Rearm, SeekStart,
     UnlockAudio, UnlockVideo, WaitForRoom, AudioHeld, inputs, file, queues,
     mutexes, video, audio, decode_side, other_side
<1>6. CASE CallbackStart \/ Silence \/ NeedPacket
  BY <1>6
     DEF CallbackStart, NeedPacket, Silence, AudioHeld, inputs, file, queues,
     mutexes, video, audio, decode_side, other_side
<1>7. CASE RequestStop \/ RequestSeek \/ TogglePause \/ LeavePause
          \/ GetVideo \/ LockDecoder \/ DecodeVideo \/ OutputPicture \/ Stutter
  BY <1>7
     DEF DecodeVideo, GetVideo, LeavePause, LockDecoder, OutputPicture,
     RequestSeek, RequestStop, Stutter, TogglePause, vars, AudioHeld, inputs,
     file, queues, mutexes, video, audio, decode_side, other_side, Finished
<1> QED
  BY <1>1, <1>2, <1>3, <1>4, <1>5, <1>6, <1>7 DEF Action

LEMMA NextIInv == IInv /\ [Next]_vars => IInv'
<1> SUFFICES ASSUME IInv, [Next]_vars
             PROVE  IInv'
  OBVIOUS
<1>1. Action
  BY NextIsAction
<1>2. /\ TFile /\ TQueues /\ TFlags /\ TPc /\ TPackets
      /\ VideoMutex /\ AudioMutex /\ QueuesFresh /\ VideoHeld /\ AudioHeld
  BY TypeParts DEF IInv
<1>3. TFile' /\ TQueues' /\ TFlags' /\ TPc' /\ TPackets'
  <2>1. TFile'
    BY <1>1, <1>2, TypeFile
  <2>2. TQueues'
    BY <1>1, <1>2, TypeQueues
  <2>3. TFlags'
    BY <1>1, <1>2, TypeFlags
  <2>4. TPc'
    BY <1>1, <1>2, TypePc
  <2>5. TPackets'
    BY <1>1, <1>2, TypePackets
  <2> QED
    BY <2>1, <2>2, <2>3, <2>4, <2>5
<1>4. TypeOK'
  BY <1>3 DEF TypeOK, TFile, TQueues, TFlags, TPc, TPackets
<1>5. VideoMutex'
  BY <1>1, <1>2, VideoMutexStep
<1>6. AudioMutex'
  BY <1>1, <1>2, AudioMutexStep
<1>7. QueuesFresh'
  BY <1>1, <1>2, QueuesStep
<1>8. VideoHeld'
  BY <1>1, <1>2, VideoHeldStep
<1>9. AudioHeld'
  BY <1>1, <1>2, AudioHeldStep
<1> QED
  BY <1>4, <1>5, <1>6, <1>7, <1>8, <1>9 DEF IInv

-----------------------------------------------------------------------------
(* The invariant holds in every state of the program.                      *)
THEOREM Invariance == Spec => []IInv
BY InitIInv, NextIInv, PTL DEF Spec

(* Type correctness.                                                       *)
THEOREM TypeCorrect == Spec => []TypeOK
<1>1. IInv => TypeOK
  BY DEF IInv
<1> QED
  BY <1>1, Invariance, PTL

(* The seek and the flushes run only while no decoder does.                *)
THEOREM Exclusive == Spec => []SeekExclusive
<1>1. IInv => SeekExclusive
  BY DEF IInv, VideoMutex, AudioMutex, SeekExclusive, Locked, Seeking
<1> QED
  BY <1>1, Invariance, PTL

(* No queue keeps a packet of before a seek.                               *)
THEOREM Fresh == Spec => []QueuesFresh
<1>1. IInv => QueuesFresh
  BY DEF IInv
<1> QED
  BY <1>1, Invariance, PTL

(* At most one packet of before the seek is decoded after it, by each      *)
(* decoder.                                                                *)
THEOREM Bounded == Spec => []StaleBounded
<1>1. IInv => StaleBounded
  BY DEF IInv, VideoHeld, AudioHeld, StaleBounded
<1> QED
  BY <1>1, Invariance, PTL

-----------------------------------------------------------------------------
(* Seeking and closing, apart from fairness: some thread can always take a *)
(* step, and each has only so many left.                                   *)

(* Where a thread waits for another one, or for the user.                  *)
DecodeWaits ==
  \/ dpc = "lock_video" /\ video_decoder_mutex = 0
  \/ dpc = "lock_audio" /\ audio_decoder_mutex = 0
  \/ dpc = "join" /\ vpc # "done"
  \/ dpc = "failed" /\ stop = 0
VideoWaits ==
  \/ vpc = "loop" /\ ~MayRun
  \/ vpc = "get" /\ v_abort = 0 /\ videoq = <<>>
  \/ vpc = "lock" /\ video_decoder_mutex = 0
CallbackWaits ==
  \/ apc = "idle" /\ ~(callback = 1 /\ audio_st = 1)
  \/ apc = "frame" /\ FrameLeft /\ audio_decoder_mutex = 0
  \/ apc = "get" /\ ~AbortedGet /\ audioq = <<>>

NoCircularWait ==
  stop = 1 \/ (seek_req = 1 /\ dpc # "failed") =>
    \/ dpc = "done" /\ vpc = "done" /\ apc = "idle"
    \/ dpc # "done" /\ ~DecodeWaits
    \/ vpc # "done" /\ ~VideoWaits
    \/ apc # "idle" /\ ~CallbackWaits

(* The order of the close, and the threads of a stream the file lacks.     *)
ClosePath ==
  /\ dpc \in {"close_audio", "abort_video", "join", "done"}
       => ("audio" \in has => a_abort = 1)
  /\ dpc = "join" => v_abort = 1
  /\ dpc = "done" => vpc = "done"
  /\ audio_st = 0 => apc = "idle" \/ a_abort = 1
  /\ "audio" \notin has => apc = "idle" /\ audio_st = 0
                           /\ dpc \notin {"abort_audio", "close_audio"}
  /\ "video" \notin has => vpc = "done" /\ dpc \notin {"abort_video", "join"}

(* The most steps each thread has left: the Decode thread to the end of a  *)
(* close, the Video thread after the abort of its queue, and a callback    *)
(* that still runs when the audio stream is closed.                        *)
DecodeLeft ==
  [done |-> 0, join |-> 1, abort_video |-> 2, close_audio |-> 3,
   abort_audio |-> 4, loop |-> 5, failed |-> 6, read |-> 7, rearm |-> 8,
   clear |-> 9, unlock_video |-> 10, unlock_audio |-> 11, flush_codec |-> 12,
   flush_video |-> 13, flush_audio |-> 14, seek |-> 15, lock_audio |-> 16,
   lock_video |-> 17][dpc]
VideoLeft == [done |-> 0, get |-> 1, loop |-> 2, output |-> 3,
              decoding |-> 4, lock |-> 5][vpc]
CallbackLeft == 2 * audio_pkt_size
                  + [idle |-> 0, decoding |-> 0, frame |-> 1, get |-> 1][apc]

Advances ==
  [][/\ dpc # "loop" \/ stop = 1 =>
          /\ DecodeLeft' <= DecodeLeft
          /\ DecodeThread => DecodeLeft' < DecodeLeft
     /\ v_abort = 1 => /\ VideoLeft' <= VideoLeft
                       /\ VideoThread => VideoLeft' < VideoLeft
     /\ audio_st = 0 => /\ CallbackLeft' <= CallbackLeft
                        /\ AudioCallback => CallbackLeft' < CallbackLeft]_vars

LEMMA ClosePathInit == Init => ClosePath
BY DEF Init, ClosePath, Streams

(* Every step keeps the order of the close.                                *)
LEMMA ClosePathStep ==
  ASSUME TFile, TPc, TFlags, ClosePath, Action
  PROVE  ClosePath'
<1> USE DEF ClosePath, inputs, file, queues, mutexes, video, audio,
            decode_side, other_side
<1>1. CASE CloseStart
  BY <1>1 DEF CloseStart, TFile, Streams
<1>2. CASE AbortAudio \/ AbortVideo
  BY <1>2 DEF AbortAudio, AbortVideo
<1>3. CASE CloseAudio
  BY <1>3 DEF CloseAudio
<1>4. CASE JoinVideo
  BY <1>4 DEF JoinVideo
<1>5. CASE CheckRequests \/ WaitForRoom \/ ReadError \/ ReadPacket("video")
          \/ ReadPacket("audio") \/ ReachEnd
  BY <1>5 DEF CheckRequests, WaitForRoom, ReadError, ReadPacket, ReachEnd
<1>6. CASE SeekStart \/ LockVideo \/ LockAudio \/ SeekFile \/ FlushAudio
          \/ FlushVideo
  BY <1>6 DEF SeekStart, LockVideo, LockAudio, SeekFile, AfterFailure,
     FlushAudio, FlushVideo
<1>7. CASE FlushCodec \/ UnlockAudio \/ UnlockVideo \/ ClearRequest \/ Rearm
  BY <1>7 DEF FlushCodec, UnlockAudio, UnlockVideo, ClearRequest, Rearm
<1>8. CASE LeavePause \/ GetVideo \/ LockDecoder \/ DecodeVideo
          \/ OutputPicture
  BY <1>8 DEF LeavePause, GetVideo, LockDecoder, DecodeVideo, OutputPicture
<1>9. CASE CallbackStart \/ LockAudioDecoder \/ DecodeAudio \/ Silence
          \/ NeedPacket \/ GetAudio
  BY <1>9 DEF CallbackStart, LockAudioDecoder, DecodeAudio, Silence,
     NeedPacket, GetAudio
<1>10. CASE RequestStop \/ RequestSeek \/ TogglePause \/ Stutter
  BY <1>10 DEF RequestStop, RequestSeek, TogglePause, Stutter, Finished, vars
<1> QED
  BY <1>1, <1>2, <1>3, <1>4, <1>5, <1>6, <1>7, <1>8, <1>9, <1>10 DEF Action

(* The close goes through its steps in order, for every kind of file.      *)
LEMMA ClosesInOrder == Spec => []ClosePath
<1>1. IInv /\ ClosePath /\ [Next]_vars => ClosePath'
  BY NextIsAction, TypeParts, ClosePathStep DEF IInv
<1> QED
  BY <1>1, ClosePathInit, Invariance, PTL DEF Spec

(* No thread waits for one that waits: a decoder that runs holds its       *)
(* semaphore and asks for nothing, and the aborts wake the threads that    *)
(* are paused or whose queue is empty.                                     *)
THEOREM NeverStuck == Spec => []NoCircularWait
<1>1. IInv /\ ClosePath => NoCircularWait
  <2> SUFFICES ASSUME IInv, ClosePath,
                      stop = 1 \/ (seek_req = 1 /\ dpc # "failed")
               PROVE  NoCircularWait
    BY DEF NoCircularWait
  <2> USE DEF IInv, NoCircularWait
  <2>1. TPc /\ TFlags /\ VideoMutex /\ AudioMutex /\ a_abort \in {0, 1}
        /\ stop \in {0, 1}
    BY TypeParts DEF TQueues, TFile
  <2>2. CASE dpc = "lock_video"
    BY <2>1, <2>2 DEF DecodeWaits, VideoWaits, VideoMutex, Locked
  <2>3. CASE dpc = "lock_audio"
    BY <2>1, <2>3 DEF DecodeWaits, CallbackWaits, AudioMutex, Seeking
  <2>4. CASE dpc = "join"
    BY <2>1, <2>4
    DEF DecodeWaits, VideoWaits, MayRun, ClosePath, VideoMutex, Locked
  <2>5. CASE dpc = "done"
    BY <2>1, <2>5
    DEF CallbackWaits, AbortedGet, ClosePath, AudioMutex, Seeking, TPc
  <2>6. CASE dpc \notin {"lock_video", "lock_audio", "join", "done"}
    BY <2>1, <2>6 DEF DecodeWaits
  <2> QED
    BY <2>2, <2>3, <2>4, <2>5, <2>6
<1> QED
  BY <1>1, Invariance, ClosesInOrder, PTL

(* The counts of steps never go below zero.                                *)
LEMMA LeftNatural ==
  ASSUME IInv
  PROVE  DecodeLeft \in Nat /\ VideoLeft \in Nat /\ CallbackLeft \in Nat
<1>1. TPc /\ TPackets
  BY TypeParts DEF IInv
<1>2. DecodeLeft \in Nat
  BY <1>1 DEF DecodeLeft, TPc, Locked
<1>3. VideoLeft \in Nat
  BY <1>1 DEF VideoLeft, TPc
<1>4. CallbackLeft \in Nat
  BY <1>1, StreamSeekAssumption DEF CallbackLeft, TPc, TPackets
<1> QED
  BY <1>2, <1>3, <1>4

LEMMA DecodeNearer ==
  ASSUME DecodeThread, dpc # "loop" \/ stop = 1
  PROVE  DecodeLeft' <= DecodeLeft /\ DecodeLeft' < DecodeLeft
<1> USE DEF DecodeLeft
<1>1. CASE WaitForRoom \/ ReadError \/ ReachEnd
          \/ \E s \in {"audio", "video"} : ReadPacket(s)
  BY <1>1 DEF WaitForRoom, ReadError, ReachEnd, ReadPacket
<1>2. CASE LockVideo \/ LockAudio \/ SeekFile \/ FlushAudio \/ FlushVideo
  BY <1>2 DEF LockVideo, LockAudio, SeekFile, AfterFailure, FlushAudio,
     FlushVideo
<1>3. CASE FlushCodec \/ UnlockAudio \/ UnlockVideo \/ ClearRequest \/ Rearm
  BY <1>3 DEF FlushCodec, UnlockAudio, UnlockVideo, ClearRequest, Rearm
<1>4. CASE CloseStart \/ AbortAudio \/ CloseAudio \/ AbortVideo \/ JoinVideo
  BY <1>4 DEF CloseStart, AbortAudio, CloseAudio, AbortVideo, JoinVideo
<1>5. ~(CheckRequests \/ SeekStart)
  BY DEF CheckRequests, SeekStart
<1> QED
  BY <1>1, <1>2, <1>3, <1>4, <1>5 DEF DecodeThread

LEMMA VideoNearer ==
  ASSUME VideoThread, v_abort = 1
  PROVE  VideoLeft' <= VideoLeft /\ VideoLeft' < VideoLeft
BY DEF VideoLeft, VideoThread, LeavePause, GetVideo, LockDecoder,
   DecodeVideo, OutputPicture

LEMMA CallbackNearer ==
  ASSUME IInv, ClosePath, AudioCallback, audio_st = 0
  PROVE  CallbackLeft' <= CallbackLeft /\ CallbackLeft' < CallbackLeft
<1>1. /\ audio_pkt_size \in 0 .. MaxFrames /\ MaxFrames \in Nat
      /\ apc = "decoding" => audio_pkt_size > 0
      /\ apc = "idle" \/ a_abort = 1
  BY TypeParts, StreamSeekAssumption
  DEF IInv, TPackets, AudioHeld, ClosePath
<1> USE DEF CallbackLeft
<1>2. CASE DecodeAudio
  <2>1. PICK n \in {0, audio_pkt_size - 1} : audio_pkt_size' = n
    BY <1>2 DEF DecodeAudio
  <2>2. apc = "decoding" /\ apc' \in {"frame", "idle"}
    BY <1>2 DEF DecodeAudio
  <2> QED
    BY <1>1, <2>1, <2>2
<1>3. CASE LockAudioDecoder
  BY <1>1, <1>3 DEF LockAudioDecoder
<1>4. CASE Silence
  BY <1>1, <1>4 DEF Silence
<1>5. CASE GetAudio
  BY <1>1, <1>5 DEF GetAudio, AbortedGet
<1>6. ~(CallbackStart \/ NeedPacket)
  BY <1>1 DEF CallbackStart, NeedPacket
<1> QED
  BY <1>2, <1>3, <1>4, <1>5, <1>6 DEF AudioCallback

(* The Decode thread does not go round before it is back at the head of    *)
(* its loop, nor at all after a stop; after the abort the Video thread     *)
(* ends, and the callback that was running when the stream was closed      *)
(* returns, within the steps that are counted, whatever the others do.     *)
THEOREM StopApproaches == Spec => Advances
<1> DEFINE D == /\ DecodeLeft' <= DecodeLeft
                /\ DecodeThread => DecodeLeft' < DecodeLeft
           V == /\ VideoLeft' <= VideoLeft
                /\ VideoThread => VideoLeft' < VideoLeft
           A == /\ CallbackLeft' <= CallbackLeft
                /\ AudioCallback => CallbackLeft' < CallbackLeft
<1> USE DEF inputs, file, queues, mutexes, video, audio, decode_side,
            other_side
<1>1. ASSUME IInv, [Next]_vars, dpc # "loop" \/ stop = 1 PROVE D
  <2>1. CASE DecodeThread
    BY <1>1, <2>1, DecodeNearer
  <2>2. CASE ~DecodeThread
    <3>1. dpc' = dpc
      BY <1>1, <2>2 DEF Next, VideoThread, AudioCallback, Finished, vars,
         RequestStop, RequestSeek, TogglePause, LeavePause, GetVideo,
         LockDecoder, DecodeVideo, OutputPicture, CallbackStart,
         LockAudioDecoder, DecodeAudio, Silence, NeedPacket, GetAudio
    <3> QED
      BY <1>1, <2>2, <3>1, LeftNatural DEF DecodeLeft
  <2> QED
    BY <2>1, <2>2
<1>2. ASSUME IInv, [Next]_vars, v_abort = 1 PROVE V
  <2>1. CASE VideoThread
    BY <1>2, <2>1, VideoNearer
  <2>2. CASE ~VideoThread
    <3>1. vpc' = vpc
      BY <1>2, <2>2, NextIsAction DEF Action, VideoThread, Stutter, Finished,
         vars, RequestStop, RequestSeek, TogglePause, CheckRequests,
         WaitForRoom, ReadError, ReadPacket, ReachEnd, SeekStart, LockVideo,
         LockAudio, SeekFile, FlushAudio, FlushVideo, FlushCodec,
         UnlockAudio, UnlockVideo, ClearRequest, Rearm, CloseStart,
         AbortAudio, CloseAudio, AbortVideo, JoinVideo, CallbackStart,
         LockAudioDecoder, DecodeAudio, Silence, NeedPacket, GetAudio
    <3> QED
      BY <1>2, <2>2, <3>1, LeftNatural DEF VideoLeft
  <2> QED
    BY <2>1, <2>2
<1>3. ASSUME IInv, ClosePath, [Next]_vars, audio_st = 0 PROVE A
  <2>1. CASE AudioCallback
    BY <1>3, <2>1, CallbackNearer
  <2>2. CASE ~AudioCallback
    <3>1. apc' = apc /\ audio_pkt_size' = audio_pkt_size
      BY <1>3, <2>2, NextIsAction DEF Action, AudioCallback, Stutter,
         Finished, vars, RequestStop, RequestSeek, TogglePause,
         CheckRequests, WaitForRoom, ReadError, ReadPacket, ReachEnd,
         SeekStart, LockVideo, LockAudio, SeekFile, FlushAudio, FlushVideo,
         FlushCodec, UnlockAudio, UnlockVideo, ClearRequest, Rearm,
         CloseStart, AbortAudio, CloseAudio, AbortVideo, JoinVideo,
         LeavePause, GetVideo, LockDecoder, DecodeVideo, OutputPicture
    <3> QED
      BY <1>3, <2>2, <3>1, LeftNatural DEF CallbackLeft
  <2> QED
    BY <2>1, <2>2
<1>4. IInv /\ ClosePath /\ [Next]_vars
        => [/\ dpc # "loop" \/ stop = 1 => D
            /\ v_abort = 1 => V
            /\ audio_st = 0 => A]_vars
  BY <1>1, <1>2, <1>3
<1> QED
  BY <1>4, Invariance, ClosesInOrder, PTL DEF Spec, Advances
=============================================================================
