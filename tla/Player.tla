------------------------------- MODULE Player -------------------------------
(***************************************************************************)
(* The life of the streams of ffplay.c: the main thread chooses files,     *)
(* opens a stream for each and runs event_loop; the Decode thread of a     *)
(* stream opens the file, plays it and closes it, or shows why it cannot;  *)
(* the Callback thread tells of the exit and of the power switch.  They    *)
(* speak through cur_stream and four flags that belong to no stream.  The  *)
(* clock of the CPU belongs to no stream either: a video raises it when it *)
(* opens and lowers it when it closes, and a key raises it further.        *)
(*                                                                         *)
(* Decoding is in PacketQueue, PictureQueue and StreamSeek, which file     *)
(* comes next in FileSelector.                                             *)
(*                                                                         *)
(* Operators whose name ends in a word after an underscore are mutants of  *)
(* the definition below them.                                              *)
(***************************************************************************)
EXTENDS Integers, FiniteSets

CONSTANTS Kinds,        \* the kinds of file on the memory stick
          MaxStreams    \* bound on the streams that are opened

(* Audio and video, audio only, video only, and what does not open.        *)
Kind == {"av", "music", "mute", "bad"}

ASSUME PlayerAssumption == Kinds \subseteq Kind /\ MaxStreams \in Nat \ {0}

Streams == 1 .. MaxStreams
NoStream == 0           \* NULL
NoFile == "nofile"

VARIABLES
  main,                 \* where the main thread is
  after,                \* where it goes when the stream is closed or opened
  opened,               \* streams opened so far
  cur_stream,
  kind, thread,         \* of each stream: its file and its Decode thread
  abort_request,
  live,                 \* the streams whose VideoState is allocated
  installed,            \* the audio callback is
  catched_error, play_finished, return_from_sleep, done,
  suspended,
  saved_filename,       \* the file, by its kind, that played at the suspension
  saved_pos,            \* its position, 0 for any, or -1
  cpu_freq              \* MHz

stream == <<opened, kind, live>>
flags  == <<catched_error, play_finished, return_from_sleep, done>>
saved  == <<suspended, saved_filename, saved_pos>>
power  == <<saved, cpu_freq>>
vars == <<main, after, opened, cur_stream, kind, thread, abort_request, live,
          installed, flags, power>>

Loop == {"keys", "refresh", "finished", "sleep", "error", "done"}
Decoding == {"opening", "box", "reading", "waiting"}   \* global_video_state set
Running == Decoding \cup {"closing"}
Over == {"exited", "crashed"}

-----------------------------------------------------------------------------
Init == /\ main = "menu" /\ after = "menu"
        /\ opened = 0 /\ cur_stream = NoStream
        /\ kind = [s \in Streams |-> NoFile]
        /\ thread = [s \in Streams |-> "none"]
        /\ abort_request = [s \in Streams |-> 0]
        /\ live = {}
        /\ installed = 0
        /\ catched_error = 0 /\ play_finished = 0
        /\ return_from_sleep = 0 /\ done = 0
        /\ suspended = 0 /\ saved_filename = NoFile /\ saved_pos = 0
        /\ cpu_freq = 222

(* stream_open starts the Decode thread, which has the higher priority;    *)
(* it is assigned to cur_stream when it returns.                           *)
StreamOpen(k, then) ==
  /\ opened < MaxStreams
  /\ opened' = opened + 1
  /\ after' = then
  /\ main' = "assign"
  /\ kind' = [kind EXCEPT ![opened + 1] = k]
  /\ thread' = [thread EXCEPT ![opened + 1] = "opening"]
  /\ live' = live \cup {opened + 1}

(* do_exit, up to the wait for the Decode thread.                          *)
DoExit(then) ==
  /\ after' = then
  /\ main' = "closing"
  /\ abort_request' = IF cur_stream = NoStream THEN abort_request
                      ELSE [abort_request EXCEPT ![cur_stream] = 1]

-----------------------------------------------------------------------------
(* The main thread.                                                        *)

(* main: greeting, select_type, select_file, stream_open.                  *)
ChooseFile(k) == /\ main = "menu" /\ done = 0
                 /\ StreamOpen(k, "keys")
                 /\ UNCHANGED <<cur_stream, abort_request, installed, flags,
                      power>>

AssignStream == /\ main = "assign"
                /\ cur_stream' = opened
                /\ main' = after
                /\ UNCHANGED <<after, stream, thread, abort_request, installed,
                     flags, power>>

ExitFromMenu == /\ main = "menu" /\ done = 1
                /\ main' = "exited"
                /\ UNCHANGED <<after, stream, cur_stream, thread,
                     abort_request, installed, flags, power>>

(* The file is open and is audio only: audio_st and show_audio are set.    *)
MusicPlays == /\ cur_stream # NoStream
              /\ kind[cur_stream] = "music"
              /\ thread[cur_stream] \in {"reading", "waiting"}

NoKey == /\ main = "keys"
         /\ main' = "refresh"
         /\ UNCHANGED <<after, stream, cur_stream, thread, abort_request,
              installed, flags, power>>

Raised == IF cpu_freq >= 333 THEN 266 ELSE 333
(* change_cpu_clock.  No other key is looked at in this turn.              *)
PressTriangle == /\ main = "keys"
                 /\ cpu_freq' = Raised
                 /\ main' = "refresh"
                 /\ UNCHANGED <<after, stream, cur_stream, thread,
                      abort_request, installed, flags, saved>>

PressSquare == /\ main = "keys"
               /\ DoExit("return")
               /\ UNCHANGED <<stream, cur_stream, thread, installed, flags,
                    power>>

PressTrigger == /\ main = "keys" /\ MusicPlays
                /\ DoExit("skip")
                /\ UNCHANGED <<stream, cur_stream, thread, installed, flags,
                     power>>

(* video_refresh_timer, if it is due, uses cur_stream.                     *)
Refresh == /\ main = "refresh"
           /\ \/ main' = "finished"
              \/ cur_stream = NoStream /\ main' = "crashed"
           /\ UNCHANGED <<after, stream, cur_stream, thread, abort_request,
                installed, flags, power>>

CheckFinished ==
  /\ main = "finished"
  /\ play_finished' = 0
  /\ IF play_finished = 1 /\ MusicPlays
     THEN DoExit("finish")
     ELSE /\ main' = IF play_finished = 1 /\ cur_stream = NoStream
                       THEN "crashed" ELSE "sleep"
          /\ UNCHANGED <<after, abort_request>>
  /\ UNCHANGED <<stream, cur_stream, thread, installed, catched_error,
       return_from_sleep, done, power>>

CheckSleep ==
  /\ main = "sleep"
  /\ return_from_sleep' = 0
  /\ IF return_from_sleep = 1
     THEN DoExit("resume")
     ELSE main' = "error" /\ UNCHANGED <<after, abort_request>>
  /\ UNCHANGED <<stream, cur_stream, thread, installed, catched_error,
       play_finished, done, power>>

(* After an error event_loop returns without do_exit.                      *)
CheckError == /\ main = "error"
              /\ catched_error' = 0
              /\ main' = IF catched_error = 1 THEN "menu" ELSE "done"
              /\ UNCHANGED <<after, stream, cur_stream, thread, abort_request,
                   installed, play_finished, return_from_sleep, done, power>>

CheckDone == /\ main = "done"
             /\ IF done = 1
                THEN DoExit("exit")
                ELSE main' = "keys" /\ UNCHANGED <<after, abort_request>>
             /\ UNCHANGED <<stream, cur_stream, thread, installed, flags,
                  power>>

ThreadEnded_nowait == TRUE
ThreadEnded == thread[cur_stream] = "ended"

Freed_not == live
Freed == live \ {cur_stream}

(* stream_close waited for the Decode thread; the VideoState is freed.     *)
FreeStream == /\ main = "closing" /\ cur_stream # NoStream
              /\ ThreadEnded
              /\ live' = Freed
              /\ main' = "freed"
              /\ UNCHANGED <<after, opened, cur_stream, kind, thread,
                   abort_request, installed, flags, power>>

(* do_exit clears cur_stream and returns to where it was called.           *)
ClearStream == /\ main = "freed" \/ (main = "closing" /\ cur_stream = NoStream)
               /\ cur_stream' = NoStream
               /\ main' = after
               /\ UNCHANGED <<after, stream, thread, abort_request, installed,
                    flags, power>>

Return == /\ main = "return"
          /\ main' = "menu"
          /\ UNCHANGED <<after, stream, cur_stream, thread, abort_request,
               installed, flags, power>>

(* The next file, if there is another: after a trigger the loop goes on    *)
(* with the other checks, after the end of a file with those that follow.  *)
OpenNext(k) == /\ main \in {"skip", "finish"}
               /\ StreamOpen(k, IF main = "skip" THEN "refresh" ELSE "sleep")
               /\ UNCHANGED <<cur_stream, abort_request, installed, flags,
                    power>>

NoNext == /\ main \in {"skip", "finish"}
          /\ main' = IF main = "skip" THEN "menu" ELSE "sleep"
          /\ UNCHANGED <<after, stream, cur_stream, thread, abort_request,
               installed, flags, power>>

ReopenSaved == /\ main = "resume"
               /\ StreamOpen(saved_filename, "error")
               /\ UNCHANGED <<cur_stream, abort_request, installed, flags,
                    power>>

ExitGame == /\ main = "exit"
            /\ main' = "exited"
            /\ UNCHANGED <<after, stream, cur_stream, thread, abort_request,
                 installed, flags, power>>

MainThread == \/ \E k \in Kinds : ChooseFile(k) \/ OpenNext(k)
              \/ AssignStream \/ ExitFromMenu \/ NoKey \/ PressTriangle
              \/ PressSquare \/ PressTrigger
              \/ Refresh \/ CheckFinished \/ CheckSleep \/ CheckError
              \/ CheckDone \/ FreeStream \/ ClearStream \/ Return \/ NoNext
              \/ ReopenSaved \/ ExitGame

-----------------------------------------------------------------------------
(* The Decode thread of stream s.                                          *)
main_side == <<after, stream, cur_stream, abort_request, saved>>

HasAudio(s) == kind[s] \in {"av", "music"}
HasVideo(s) == kind[s] \in {"av", "mute"}

(* The callback is installed before the codec is opened: a file that has   *)
(* no audio to play may have an audio stream that got so far.              *)
OpenFile(s) ==
  /\ thread[s] = "opening" /\ main \notin Over
  /\ thread' = [thread EXCEPT ![s] = IF kind[s] = "bad" THEN "box"
                                                         ELSE "reading"]
  /\ installed' \in IF HasAudio(s) THEN {1} ELSE {installed, 1}
  /\ cpu_freq' = IF HasVideo(s) THEN 266 ELSE cpu_freq
  /\ UNCHANGED <<main_side, main, flags>>

(* msg_box returns when the user presses the CROSS.                        *)
ConfirmError(s) == /\ thread[s] = "box" /\ main \notin Over
                   /\ thread' = [thread EXCEPT ![s] = "closing"]
                   /\ catched_error' = 1
                   /\ UNCHANGED <<main_side, main, installed, play_finished,
                        return_from_sleep, done, cpu_freq>>

BoxSeesDone_not == FALSE
BoxSeesDone == done = 1

(* msg_box ends the program itself.                                        *)
ExitFromBox(s) == /\ thread[s] = "box" /\ BoxSeesDone /\ main \notin Over
                  /\ main' = "exited"
                  /\ UNCHANGED <<main_side, thread, installed, flags, cpu_freq>>

(* At the end of the file, with nothing left in the audio queue.           *)
ReachEnd(s) == /\ thread[s] = "reading" /\ main \notin Over
               /\ play_finished' = 1
               /\ UNCHANGED <<main_side, main, thread, installed,
                    catched_error, return_from_sleep, done, cpu_freq>>

ReadError(s) == /\ thread[s] = "reading" /\ main \notin Over
                /\ play_finished' = 1
                /\ thread' = [thread EXCEPT ![s] = "waiting"]
                /\ UNCHANGED <<main_side, main, installed, catched_error,
                     return_from_sleep, done, cpu_freq>>

(* The seek, of which the callback stays: it is installed at its end.      *)
ServeSeek(s) == /\ thread[s] = "reading" /\ HasVideo(s) /\ main \notin Over
                /\ installed' = 1
                /\ UNCHANGED <<main_side, main, thread, flags, cpu_freq>>

PollsAbort_reading(s) == thread[s] = "reading"
PollsAbort(s) == thread[s] \in {"reading", "waiting"}

SeesAbort(s) == /\ PollsAbort(s) /\ main \notin Over
                /\ abort_request[s] = 1
                /\ thread' = [thread EXCEPT ![s] = "closing"]
                /\ UNCHANGED <<main_side, main, installed, flags, cpu_freq>>

Removed_not(s) == installed
(* stream_component_close of an audio stream removes the callback.         *)
Removed(s) == IF HasAudio(s) THEN 0 ELSE installed

CloseFile(s) == /\ thread[s] = "closing" /\ main \notin Over
                /\ thread' = [thread EXCEPT ![s] = "ended"]
                /\ installed' = Removed(s)
                /\ cpu_freq' = IF HasVideo(s) THEN 222 ELSE cpu_freq
                /\ UNCHANGED <<main_side, main, flags>>

(* The steps the thread takes by itself.                                   *)
DecodeThread(s) == \/ OpenFile(s) \/ ExitFromBox(s)
                   \/ SeesAbort(s) \/ CloseFile(s)

-----------------------------------------------------------------------------
(* The audio output calls back, and without a stream reads through NULL.   *)
AudioCallback == /\ installed = 1 /\ cur_stream = NoStream /\ main \notin Over
                 /\ main' = "crashed"
                 /\ UNCHANGED <<main_side, thread, installed, flags, cpu_freq>>

(* The Callback thread.                                                    *)
others == <<main, after, stream, cur_stream, thread, abort_request, installed>>

ExitCallback == /\ done = 0 /\ main \notin Over
                /\ done' = 1
                /\ UNCHANGED <<others, catched_error, play_finished,
                     return_from_sleep, power>>

(* The power switch: what plays is remembered.                             *)
Suspend ==
  /\ suspended = 0 /\ main \notin Over
  /\ suspended' = 1
  /\ \/ /\ cur_stream # NoStream
        /\ saved_filename' = kind[cur_stream] /\ saved_pos' = 0
     \/ /\ cur_stream = NoStream
        /\ saved_pos' = -1
        /\ UNCHANGED saved_filename
  /\ UNCHANGED <<others, flags, cpu_freq>>

Remembered == saved_pos >= 0

Resume == /\ suspended = 1 /\ main \notin Over
          /\ suspended' = 0
          /\ return_from_sleep' = IF Remembered THEN 1 ELSE return_from_sleep
          /\ UNCHANGED <<others, catched_error, play_finished, done,
               saved_filename, saved_pos, cpu_freq>>

-----------------------------------------------------------------------------
(* The program is over, or the bound on the streams is reached.            *)
Ended == /\ \/ main \in Over
            \/ main \in {"menu", "resume"} /\ opened = MaxStreams
         /\ UNCHANGED vars

Next == \/ MainThread
        \/ \E s \in Streams : \/ DecodeThread(s) \/ ConfirmError(s)
                              \/ ReachEnd(s) \/ ReadError(s) \/ ServeSeek(s)
        \/ AudioCallback \/ ExitCallback \/ Suspend \/ Resume
        \/ Ended

Spec == Init /\ [][Next]_vars

(* The kernel runs the threads that are ready; keys, errors, the ends of   *)
(* files and the callbacks come or do not come.                            *)
FairSpec == /\ Spec /\ WF_vars(MainThread)
            /\ \A s \in Streams : WF_vars(DecodeThread(s))

-----------------------------------------------------------------------------
(* Among the types: a stream that was opened has a file.                   *)
TypeOK ==
  /\ main \in Loop \cup Over \cup {"menu", "assign", "closing", "freed",
       "return", "skip", "finish", "resume", "exit"}
  /\ after \in {"menu", "keys", "refresh", "sleep", "error", "return", "skip",
       "finish", "resume", "exit"}
  /\ opened \in 0 .. MaxStreams
  /\ cur_stream \in 0 .. opened
  /\ kind \in [Streams -> Kind \cup {NoFile}]
  /\ thread \in [Streams -> Running \cup {"none", "ended"}]
  /\ \A s \in 1 .. opened : kind[s] \in Kind /\ thread[s] # "none"
  /\ abort_request \in [Streams -> {0, 1}]
  /\ live \subseteq 1 .. opened
  /\ installed \in {0, 1}
  /\ catched_error \in {0, 1} /\ play_finished \in {0, 1}
  /\ return_from_sleep \in {0, 1} /\ done \in {0, 1}
  /\ suspended \in {0, 1}
  /\ saved_filename \in Kind \cup {NoFile} /\ saved_pos \in {0, -1}
  /\ cpu_freq \in {222, 266, 333}

(* A VideoState is never freed while its Decode thread runs.               *)
StateOutlivesThread == \A s \in Streams : thread[s] \in Running => s \in live

(* Every file opened so far could be opened and has audio.  The properties *)
(* that name it fail for the others: a seek in a file without audio leaves *)
(* the callback behind, an error leaves the stream behind.                 *)
AllGood == \A s \in 1 .. opened : kind[s] \in {"av", "music"}

(* Until stream_open has returned its stream is not in cur_stream; it may  *)
(* be that the program has crashed because of that.                        *)
Assigning == main \in {"assign", "crashed"}
Latest == IF Assigning THEN opened ELSE cur_stream

(* The audio callback, which may be called at any moment while it is       *)
(* installed and uses cur_stream, finds a VideoState there; except that    *)
(* the Decode thread may have installed it before stream_open returned:    *)
(* that stream is there, but cur_stream is NULL and not one freed before.  *)
CallbackFindsStream ==
  AllGood /\ installed = 1 => /\ Latest \in live
                             /\ \/ ~Assigning
                                \/ cur_stream = NoStream

(* A stream is closed and freed before the next one is opened.             *)
NothingLeaks == AllGood => live \subseteq {Latest}

(* While a video plays the CPU has at least the clock of a video: the      *)
(* close of another one does not take it away, nor does a key.             *)
VideoClock ==
  AllGood => \A s \in Streams :
               thread[s] \in {"reading", "waiting"} /\ HasVideo(s)
                 => cpu_freq >= 266

(* README.txt: a raised clock is for the file that plays.  No file is      *)
(* opened with it.                                                         *)
RaisedForOneFile == [][opened' # opened => cpu_freq < 333]_vars

(* The comment on global_video_state: there is one decoding thread.        *)
OneDecodingThread ==
  \A s, t \in Streams :
    thread[s] \in Decoding /\ thread[t] \in Decoding => s = t

(* The bound on the streams keeps the main thread from reopening a file.   *)
AtBound == main = "resume" /\ opened = MaxStreams

(* The exit callback ends the program, whatever the threads are doing.     *)
ExitEnds == (done = 1) ~> (main \in Over \/ AtBound)

(* Closing a stream always comes to an end, unless the Decode thread is in *)
(* an error box that the user never confirms.                              *)
CloseEnds ==
  (main = "closing") ~>
    (main # "closing" \/ \E s \in Streams : thread[s] = "box")
=============================================================================
